---------------------------- MODULE GatewayProofs ----------------------------
(***************************************************************************)
(* Proofs about RateLimiter and about Gateway, which composes it with the  *)
(* announcer: for every set of calls, addresses and envelopes, every queue *)
(* size, interval, prune threshold and length of time, and whatever is     *)
(* wrong with the requests.                                                *)
(***************************************************************************)
EXTENDS Gateway, AnnouncerProofs, SequenceTheorems

-----------------------------------------------------------------------------
(* The limiter on its own: every step of it keeps its types.               *)

LEMMA LTypeInit == LInit => LTypeOK
BY LimiterAssumption DEF LInit, LTypeOK, Phases, Never

LEMMA LTypeStep == LTypeOK /\ [LNext]_lvars => LTypeOK'
<1> SUFFICES ASSUME LTypeOK, [LNext]_lvars PROVE LTypeOK'
  OBVIOUS
<1> USE LimiterAssumption DEF LTypeOK, Phases
<1>1. CASE Tick BY <1>1 DEF Tick
<1>2. ASSUME NEW c \in Calls, AllowAll(c) PROVE LTypeOK'
  BY <1>2 DEF AllowAll
<1>3. ASSUME NEW c \in Calls, ReadClock(c) PROVE LTypeOK'
  BY <1>3 DEF ReadClock
<1>4. ASSUME NEW c \in Calls, Limit(c) PROVE LTypeOK'
  BY <1>4 DEF Limit
<1>5. ASSUME NEW c \in Calls, Admit(c) PROVE LTypeOK'
  <2> DEFINE table == Recorded(c)
  <2>1. /\ DOMAIN table = DOMAIN lastCall \cup {IpOf[c]}
        /\ \A ip \in DOMAIN table : table[ip] \in 0..MaxClock
        /\ DOMAIN table \subseteq Ips
    BY DEF Recorded
  <2>2. DOMAIN lastCall' \subseteq DOMAIN table
        /\ \A ip \in DOMAIN lastCall' : lastCall'[ip] = table[ip]
    BY <1>5 DEF Admit, Fresh
  <2>3. /\ call' = [call EXCEPT ![c] = "admitted"]
        /\ overtaken' \subseteq overtaken \cup {c}
        /\ pruned' \in {pruned, now[c]}
        /\ UNCHANGED <<interval, clock, now>>
    BY <1>5 DEF Admit
  <2>. QED BY <2>1, <2>2, <2>3
<1>6. CASE UNCHANGED lvars BY <1>6 DEF lvars
<1>. QED BY <1>1, <1>2, <1>3, <1>4, <1>5, <1>6 DEF LNext

\* The table holds readings of the clock, for addresses that exist.
THEOREM LimiterTypes == LSpec => []LTypeOK
BY LTypeInit, LTypeStep, PTL DEF LSpec

-----------------------------------------------------------------------------
(* What still stands for an admitted call: the entry of its address, which *)
(* is at least as new, or a prune by a reading so new that any call that   *)
(* is not overtaken by it comes late enough.                               *)

Remembered(a) ==
    \/ IpOf[a] \in DOMAIN lastCall /\ lastCall[IpOf[a]] >= now[a]
    \/ pruned >= now[a] + interval

\* Of the calls in S, those that were admitted in time.
Timely(S) == (Admitted \ overtaken) \cap S

SpacedIn(S) ==
    \A a, b \in Timely(S) : a # b /\ IpOf[a] = IpOf[b] => Apart(a, b)

SpacedInv(S) ==
    interval > 0 => /\ \A a \in Timely(S) : Remembered(a)
                    /\ SpacedIn(S)

LEMMA SpacedStep ==
    ASSUME NEW S, LTypeOK, SpacedInv(S), [LNext]_lvars
    PROVE  SpacedInv(S)'
<1> SUFFICES ASSUME interval' > 0
             PROVE  /\ \A a \in Timely(S)' : Remembered(a)'
                    /\ SpacedIn(S)'
  BY DEF SpacedInv
<1>0. interval' = interval /\ interval > 0 /\ interval \in Int
  <2>1. interval' = interval
    BY DEF LNext, Tick, AllowAll, ReadClock, Limit, Admit, lvars
  <2>. QED BY <2>1, LimiterAssumption DEF LTypeOK
<1>1. ASSUME Admitted' = Admitted, \A a \in Admitted : now'[a] = now[a],
             UNCHANGED <<lastCall, pruned, overtaken>>
      PROVE  /\ \A a \in Timely(S)' : Remembered(a)'
             /\ SpacedIn(S)'
  BY <1>0, <1>1 DEF SpacedInv, SpacedIn, Timely, Remembered, Apart
<1>2. CASE Tick \/ UNCHANGED lvars
  BY <1>1, <1>2 DEF Tick, Admitted, lvars
<1>3. ASSUME NEW c \in Calls, AllowAll(c) PROVE FALSE
  BY <1>0, <1>3 DEF AllowAll
<1>4. ASSUME NEW c \in Calls, ReadClock(c) \/ Limit(c)
      PROVE  /\ \A a \in Timely(S)' : Remembered(a)'
             /\ SpacedIn(S)'
  <2>1. /\ Admitted' = Admitted /\ \A a \in Admitted : now'[a] = now[a]
        /\ UNCHANGED <<lastCall, pruned, overtaken>>
    BY <1>4 DEF ReadClock, Limit, Admitted, LTypeOK
  <2>. QED BY <1>1, <2>1
<1>5. ASSUME NEW c \in Calls, Admit(c)
      PROVE  /\ \A a \in Timely(S)' : Remembered(a)'
             /\ SpacedIn(S)'
  <2> DEFINE table == Recorded(c)
             ip == IpOf[c]
  <2>1. /\ \A a \in Calls : now[a] \in Int /\ IpOf[a] \in Ips
        /\ \A x \in DOMAIN lastCall : lastCall[x] \in Int
        /\ pruned \in Int
    BY LimiterAssumption DEF LTypeOK, Never
  <2>2. /\ now' = now /\ c \notin Admitted /\ Admitted' = Admitted \cup {c}
        /\ overtaken \subseteq overtaken'
        /\ c \notin overtaken' => now[c] >= pruned
        /\ overtaken' \subseteq overtaken \cup {c}
    BY <1>5, <2>1 DEF Admit, Admitted, LTypeOK
  <2>3. ip \in DOMAIN lastCall => now[c] - lastCall[ip] >= interval
    BY <1>0, <1>5, <2>1 DEF Admit, Spent
  <2>4. /\ DOMAIN table = DOMAIN lastCall \cup {ip}
        /\ table[ip] = now[c]
        /\ \A x \in DOMAIN lastCall : x # ip => table[x] = lastCall[x]
    BY DEF Recorded
  <2>5. /\ pruned' \in Int /\ pruned' >= pruned
        /\ \A x \in DOMAIN table :
              \/ x \in DOMAIN lastCall' /\ lastCall'[x] = table[x]
              \/ pruned' >= table[x] + interval
    <3>1. CASE lastCall' = table /\ pruned' = pruned
      BY <2>1, <3>1
    <3>2. CASE /\ lastCall' = [x \in Fresh(table, now[c]) |-> table[x]]
               /\ pruned' = IF now[c] > pruned THEN now[c] ELSE pruned
      <4>1. pruned' \in Int /\ pruned' >= pruned /\ pruned' >= now[c]
        BY <2>1, <3>2
      <4>2. ASSUME NEW x \in DOMAIN table
            PROVE  \/ x \in DOMAIN lastCall' /\ lastCall'[x] = table[x]
                   \/ pruned' >= table[x] + interval
        <5>1. table[x] \in Int
          BY <2>1, <2>4
        <5>2. CASE table[x] > now[c] - interval
          BY <3>2, <5>2 DEF Fresh
        <5>3. CASE ~(table[x] > now[c] - interval)
          BY <1>0, <2>1, <4>1, <5>1, <5>3
        <5>. QED BY <5>2, <5>3
      <4>. QED BY <4>1, <4>2
    <3>. QED BY <1>5, <3>1, <3>2 DEF Admit
  <2> HIDE DEF table
  <2>6. ASSUME NEW a \in Timely(S) PROVE Remembered(a)'
    <3>1. a \in Calls /\ Remembered(a)
      BY <1>0, <2>6 DEF SpacedInv, Timely, Admitted
    <3>2. CASE pruned >= now[a] + interval
      BY <1>0, <2>1, <2>2, <2>5, <3>1, <3>2 DEF Remembered
    <3>3. CASE IpOf[a] \in DOMAIN lastCall /\ lastCall[IpOf[a]] >= now[a]
      <4>1. IpOf[a] \in DOMAIN table /\ table[IpOf[a]] >= now[a]
            /\ table[IpOf[a]] \in Int
        BY <1>0, <2>1, <2>3, <2>4, <3>1, <3>3
      <4>. QED BY <1>0, <2>1, <2>2, <2>5, <3>1, <4>1 DEF Remembered
    <3>. QED BY <3>1, <3>2, <3>3 DEF Remembered
  <2>7. Remembered(c)'
    <3>1. ip \in DOMAIN table /\ table[ip] = now[c]
      BY <2>4
    <3>. QED BY <1>0, <2>1, <2>2, <2>5, <3>1 DEF Remembered
  <2>8. ASSUME NEW a \in Timely(S), c \notin overtaken',
               IpOf[a] = ip
        PROVE  now[c] - now[a] >= interval
    <3>1. a \in Calls /\ Remembered(a)
      BY <1>0, <2>8 DEF SpacedInv, Timely, Admitted
    <3>. QED BY <1>0, <2>1, <2>2, <2>3, <2>8, <3>1 DEF Remembered
  <2>9. SpacedIn(S)'
    <3> SUFFICES ASSUME NEW a \in Timely(S)',
                        NEW b \in Timely(S)',
                        a # b, IpOf[a] = IpOf[b]
                 PROVE  Apart(a, b)'
      BY DEF SpacedIn
    <3>1. CASE a \in Admitted /\ b \in Admitted
      BY <1>0, <2>2, <3>1 DEF SpacedInv, SpacedIn, Timely, Apart
    <3>2. CASE a = c
      BY <1>0, <2>2, <2>8, <3>2 DEF Timely, Apart
    <3>3. CASE b = c
      BY <1>0, <2>2, <2>8, <3>3 DEF Timely, Apart
    <3>. QED BY <2>2, <3>1, <3>2, <3>3 DEF Timely
  <2>. QED BY <2>2, <2>6, <2>7, <2>9 DEF Timely
<1>. QED BY <1>2, <1>3, <1>4, <1>5 DEF LNext

\* Calls of one address are admitted at least min_interval apart, however
\* their threads interleave, unless a prune with a newer reading overtook one.
THEOREM LimiterSpaces == LSpec => []Spaced
<1>1. LInit => SpacedInv(Calls)
  BY DEF LInit, SpacedInv, SpacedIn, Timely, Admitted
<1>2. LTypeOK /\ SpacedInv(Calls) /\ [LNext]_lvars => SpacedInv(Calls)'
  BY SpacedStep
<1>3. SpacedInv(Calls) => Spaced
  BY DEF SpacedInv, SpacedIn, Timely, Spaced, Admitted
<1>. QED BY <1>1, <1>2, <1>3, LTypeInit, LTypeStep, PTL DEF LSpec

-----------------------------------------------------------------------------
(* Every entry of the table is the reading of an admitted call.            *)

CauseInv ==
    /\ \A ip \in DOMAIN lastCall : \E a \in Admitted : IpOf[a] = ip /\ now[a] = lastCall[ip]
    /\ LimitedForCause

LEMMA CauseStep == LTypeOK /\ CauseInv /\ [LNext]_lvars => CauseInv'
<1> SUFFICES ASSUME LTypeOK, CauseInv, [LNext]_lvars PROVE CauseInv'
  OBVIOUS
<1>1. CASE Tick \/ UNCHANGED lvars
  BY <1>1 DEF Tick, lvars, CauseInv, LimitedForCause, Admitted
<1>2. ASSUME NEW c \in Calls, AllowAll(c) \/ ReadClock(c) \/ Limit(c) PROVE CauseInv'
  <2>1. /\ call[c] \in {"idle", "timed"}
        /\ lastCall' = lastCall /\ interval' = interval
        /\ \E phase \in Phases : call' = [call EXCEPT ![c] = phase]
        /\ \A d \in Calls : d # c => now'[d] = now[d]
    BY <1>2 DEF AllowAll, ReadClock, Limit, LTypeOK, Phases
  <2>2. \A d \in Calls : d # c => call'[d] = call[d]
    BY <2>1 DEF LTypeOK
  <2>3. c \notin Admitted /\ Admitted \subseteq Admitted'
    BY <2>1, <2>2 DEF Admitted
  <2>4. \A a \in Admitted : a \in Calls /\ now'[a] = now[a]
    BY <2>1, <2>3 DEF Admitted
  <2>5. \A ip \in DOMAIN lastCall : \E a \in Admitted' : IpOf[a] = ip /\ now'[a] = lastCall[ip]
    BY <2>3, <2>4 DEF CauseInv
  <2>6. ASSUME NEW d \in Calls, call'[d] = "limited"
        PROVE  \E a \in Admitted : IpOf[a] = IpOf[d] /\ now'[d] - now[a] < interval
    <3>1. CASE d # c
      BY <2>1, <2>2, <2>6, <3>1 DEF CauseInv, LimitedForCause
    <3>2. CASE d = c
      <4>1. Limit(c)
        BY <1>2, <2>6, <3>2 DEF AllowAll, ReadClock, LTypeOK
      <4>2. Spent(c) /\ now' = now
        BY <4>1 DEF Limit
      <4>3. PICK a \in Admitted : IpOf[a] = IpOf[c] /\ now[a] = lastCall[IpOf[c]]
        BY <4>2 DEF Spent, CauseInv
      <4>. QED BY <3>2, <4>2, <4>3 DEF Spent
    <3>. QED BY <3>1, <3>2
  <2>7. LimitedForCause'
    BY <2>1, <2>3, <2>4, <2>6 DEF LimitedForCause
  <2>. QED BY <2>1, <2>5, <2>7 DEF CauseInv
<1>3. ASSUME NEW c \in Calls, Admit(c) PROVE CauseInv'
  <2>1. /\ now' = now /\ interval' = interval
        /\ c \notin Admitted /\ Admitted' = Admitted \cup {c}
        /\ \A d \in Calls : call'[d] = "limited" => call[d] = "limited"
    BY <1>3 DEF Admit, Admitted, LTypeOK
  <2>2. \A ip \in DOMAIN lastCall' :
            ip \in DOMAIN Recorded(c) /\ lastCall'[ip] = Recorded(c)[ip]
    BY <1>3 DEF Admit, Fresh
  <2>3. ASSUME NEW ip \in DOMAIN lastCall'
        PROVE  \E a \in Admitted' : IpOf[a] = ip /\ now'[a] = lastCall'[ip]
    <3>1. CASE ip = IpOf[c]
      BY <2>1, <2>2, <3>1 DEF Recorded
    <3>2. CASE ip # IpOf[c]
      <4>1. ip \in DOMAIN lastCall /\ lastCall'[ip] = lastCall[ip]
        BY <2>2, <3>2 DEF Recorded
      <4>. QED BY <2>1, <4>1 DEF CauseInv
    <3>. QED BY <3>1, <3>2
  <2>4. LimitedForCause'
    BY <2>1 DEF CauseInv, LimitedForCause
  <2>. QED BY <2>3, <2>4 DEF CauseInv
<1>. QED BY <1>1, <1>2, <1>3 DEF LNext

\* No call is refused but for an admitted one of its own address.
THEOREM LimiterBlames == LSpec => []LimitedForCause
<1>1. LInit => CauseInv
  BY DEF LInit, CauseInv, LimitedForCause
<1>2. CauseInv => LimitedForCause
  BY DEF CauseInv
<1>. QED BY <1>1, <1>2, LTypeInit, LTypeStep, CauseStep, PTL DEF LSpec

-----------------------------------------------------------------------------
(* The announcer underneath.                                               *)

LEMMA GStepImplements == [GNext]_gvars => [Next]_vars
<1>1. ASSUME NEW e \in Envelopes, SubmitStep(e) PROVE Next
  BY <1>1, Zenon DEF SubmitStep, Next
<1>2. ASSUME NEW c \in Calls,
             \/ Reject(c) \/ Budget(c) \/ ReplyLimited(c)
             \/ BodyTimesOut(c) \/ NothingToPlay(c)
             \/ ReplyQueued(c) \/ ReplyDropped(c)
      PROVE  UNCHANGED vars
  BY <1>2, Zenon DEF Reject, Budget, ReplyLimited, BodyTimesOut, NothingToPlay,
                     ReplyQueued, ReplyDropped, Answered
<1>3. ASSUME SetMuted PROVE Next
  BY <1>3, Zenon DEF SetMuted, Next
<1>4. ASSUME ViewCopy \/ ViewRead PROVE UNCHANGED vars
  BY <1>4, Zenon DEF ViewCopy, ViewRead
<1>5. ASSUME Underneath PROVE Next \/ UNCHANGED vars
  BY <1>5, Zenon DEF Underneath, Next
<1>6. ASSUME RestartAll PROVE Next
  BY <1>6, Zenon DEF RestartAll, Next
<1>7. ASSUME UNCHANGED gvars PROVE UNCHANGED vars
  BY <1>7, Zenon DEF gvars
<1>. QED
  BY <1>1, <1>2, <1>3, <1>4, <1>5, <1>6, <1>7, Zenon DEF GNext

\* The announcer behind its servers is an announcer: what AnnouncerProofs
\* proves of Spec holds of GSpec.
THEOREM GatewayImplements == GSpec => Spec
<1>1. GInit => Init
  BY DEF GInit
<1>. QED
  BY <1>1, GStepImplements, PTL DEF GSpec, Spec

LEMMA CustodyBehind == GSpec => [](Core /\ Custody)
BY GatewayImplements, CustodyAlways, PTL

-----------------------------------------------------------------------------
(* What was accepted once stays taken, and only that is heard.             *)

Taken == {e \in Envelopes : stage[e] \in {"accepted", "finished", "lost"}}

HeardInv ==
    /\ heard \subseteq Taken \cup {NoSuchMessage}
    /\ msg \in Taken \cup {NoSuchMessage, None}
    /\ \A i \in DOMAIN history : history[i] \in Taken

\* The stages that a step of the announcer may change.
LEMMA StagesMove ==
    ASSUME Core, Custody, [Next]_vars
    PROVE  /\ stage' \in [Envelopes -> Stages]
           /\ Taken \subseteq Taken'
           /\ \A e \in Envelopes : Refused(e) => Refused(e)'
<1>0. /\ stage \in [Envelopes -> Stages]
      /\ pc # "get" => hand \in Envelopes /\ stage[hand] = "accepted"
  BY DEF Core, TypeOK, WorkerInv, Custody, InHand
<1>1. ASSUME NEW e \in Envelopes, Submit(e)
      PROVE  /\ stage[e] \in {"idle", "checked"}
             /\ \E s \in Stages : stage' = [stage EXCEPT ![e] = s]
  BY <1>1 DEF Submit, SubmitMuted, SubmitCheck, PutNowait, PutFull, Stages
<1>2. CASE \E e \in Envelopes : Submit(e)
  BY <1>0, <1>1, <1>2 DEF Taken, Refused
<1>3. CASE TaskDone
  <2>1. stage' = [stage EXCEPT ![hand] = "finished"] /\ hand \in Envelopes /\ stage[hand] = "accepted"
    BY <1>0, <1>3 DEF TaskDone
  <2>. QED
    BY <1>0, <2>1 DEF Taken, Refused, Stages
<1>4. CASE Restart
  BY <1>0, <1>4 DEF Restart, Taken, Refused, Stages
<1>5. CASE UNCHANGED stage
  BY <1>0, <1>5 DEF Taken, Refused
<1>6. ASSUME Worker, ~TaskDone PROVE UNCHANGED stage
  BY <1>6 DEF Worker, Get, SetCurrent, Discard, HandleMsg, HandleRepeat, Render,
              RenderRaises, MutedWhileRendering, BeginPlayback, BlinkOn, BlinkOff,
              LightOn, LightOff, Switch, NextItem, StopPlayback, StartItem,
              ItemDone, ItemFails, ClearCurrent
<1>. QED
  BY <1>2, <1>3, <1>4, <1>5, <1>6 DEF Next, Mute, Unmute, vars

LEMMA HeardStep == Core /\ Custody /\ HeardInv /\ [Next]_vars => HeardInv'
<1> SUFFICES ASSUME Core, Custody, HeardInv, [Next]_vars PROVE HeardInv'
  OBVIOUS
<1>0. /\ Taken \subseteq Taken'
      /\ pc # "get" => hand \in Taken
      /\ TypeOK
  BY StagesMove DEF Core, WorkerInv, Custody, InHand, Taken
<1>1. ASSUME UNCHANGED <<msg, history, heard>> PROVE HeardInv'
  BY <1>0, <1>1 DEF HeardInv
<1>2. CASE Get \/ SetCurrent \/ Discard \/ Render \/ RenderRaises \/ MutedWhileRendering
           \/ BeginPlayback \/ NextItem \/ StopPlayback \/ ItemDone \/ ItemFails \/ ClearCurrent
  BY <1>1, <1>2 DEF Get, SetCurrent, Discard, Render, RenderRaises, MutedWhileRendering,
       BeginPlayback, NextItem, StopPlayback, ItemDone, ItemFails, ClearCurrent, workerVars
<1>3. CASE BlinkOn \/ BlinkOff \/ LightOn \/ LightOff
  BY <1>1, <1>3 DEF BlinkOn, BlinkOff, LightOn, LightOff, Switch, workerVars
<1>4. CASE (\E e \in Envelopes : Submit(e)) \/ Mute \/ Unmute \/ UNCHANGED vars
  BY <1>1, <1>4 DEF Submit, SubmitMuted, SubmitCheck, PutNowait, PutFull, Mute, Unmute,
                    workerVars, vars
<1>5. CASE HandleMsg
  <2>1. hand \in Taken /\ hand \in Msgs /\ msg' = hand /\ heard' = heard
    BY <1>0, <1>5 DEF HandleMsg
  <2>2. \A i \in DOMAIN history' : history'[i] \in Elems(history) \cup {hand}
    <3>1. CASE history' = history
      BY <3>1 DEF Elems
    <3>2. CASE history' = Remember(hand)
      BY <1>0, <2>1, <3>2, RememberElems
    <3>. QED BY <1>5, <3>1, <3>2 DEF HandleMsg
  <2>3. Elems(history) \subseteq Taken
    BY DEF HeardInv, Elems
  <2>. QED BY <1>0, <2>1, <2>2, <2>3 DEF HeardInv
<1>6. CASE HandleRepeat
  <2>1. msg' \in Taken \cup {NoSuchMessage} /\ UNCHANGED <<history, heard>>
    BY <1>6 DEF HandleRepeat, Replayed, HeardInv
  <2>. QED BY <1>0, <2>1 DEF HeardInv
<1>7. CASE StartItem
  <2>1. msg # None /\ heard' = heard \cup {msg} /\ UNCHANGED <<history, msg>>
    BY <1>7, EnvelopesAssumption
       DEF StartItem, Core, WorkerInv, Announcing, Lit, Speakable, Envelopes, workerVars
  <2>. QED BY <1>0, <2>1 DEF HeardInv
<1>8. CASE TaskDone
  BY <1>0, <1>8 DEF TaskDone, HeardInv
<1>9. CASE Restart
  BY <1>0, <1>9 DEF Restart, HeardInv
<1>. QED
  BY <1>2, <1>3, <1>4, <1>5, <1>6, <1>7, <1>8, <1>9 DEF Next, Worker

-----------------------------------------------------------------------------
(* The limiter underneath, until the process dies.                         *)

LEMMA LimiterMoves ==
    [GNext]_gvars => RestartAll \/ ([LNext]_lvars /\ before' = before /\ flaws' = flaws)
<1>1. ASSUME NEW c \in Calls, Budget(c) PROVE [LNext]_lvars /\ before' = before /\ flaws' = flaws
  BY <1>1, Zenon DEF Budget, LNext, gatewayVars
<1>2. ASSUME \/ \E e \in Envelopes : SubmitStep(e)
             \/ SetMuted \/ ViewCopy \/ ViewRead \/ UNCHANGED gvars
      PROVE  UNCHANGED lvars /\ before' = before /\ flaws' = flaws
  BY <1>2, Zenon DEF SubmitStep, SetMuted, ViewCopy, ViewRead, gvars, gatewayVars
<1>3. ASSUME NEW c \in Calls,
             \/ Reject(c) \/ ReplyLimited(c) \/ BodyTimesOut(c)
             \/ NothingToPlay(c) \/ ReplyQueued(c) \/ ReplyDropped(c)
      PROVE  UNCHANGED lvars /\ before' = before /\ flaws' = flaws
  BY <1>3, Zenon DEF Reject, ReplyLimited, BodyTimesOut, NothingToPlay, ReplyQueued,
                     ReplyDropped, Answered
<1>4. ASSUME Underneath PROVE [LNext]_lvars /\ before' = before /\ flaws' = flaws
  BY <1>4, Zenon DEF Underneath, LNext, gatewayVars
<1>. QED
  BY <1>1, <1>2, <1>3, <1>4, Zenon DEF GNext

LEMMA LimiterTypesBehind == LTypeOK /\ [GNext]_gvars => LTypeOK'
<1>1. LTypeOK /\ RestartAll => LTypeOK'
  BY DEF RestartAll, LTypeOK
<1>. QED
  BY <1>1, LimiterMoves, LTypeStep

\* Since the process started; what came before is forgotten with it.
SpacedSince == SpacedInv(Calls \ before)

LEMMA SpacedSinceStep == LTypeOK /\ SpacedSince /\ [GNext]_gvars => SpacedSince'
<1> SUFFICES ASSUME LTypeOK, SpacedSince, [GNext]_gvars PROVE SpacedSince'
  OBVIOUS
<1>1. CASE RestartAll
  <2>1. Admitted' = Admitted /\ before' = {c \in Calls : Begun(c)}
    BY <1>1 DEF RestartAll, Admitted
  <2>2. Admitted' \subseteq before'
    BY <2>1 DEF Admitted, Begun
  <2>. QED
    BY <2>2 DEF SpacedSince, SpacedInv, SpacedIn, Timely
<1>2. CASE [LNext]_lvars /\ before' = before
  <2>1. PICK S : S = Calls \ before
    OBVIOUS
  <2>2. SpacedInv(S)'
    BY <1>2, <2>1, SpacedStep DEF SpacedSince
  <2>. QED
    BY <1>2, <2>1, <2>2 DEF SpacedSince
<1>. QED
  BY <1>1, <1>2, LimiterMoves

-----------------------------------------------------------------------------
(* One call: what it was answered, what became of it, and what was logged. *)

CallInv(c) ==
    /\ stage[c] # "idle" => call[c] = "admitted"
    /\ call[c] # "idle" => Passed(c)
    /\ reply[c] = "none" => audited[c] = 0
    /\ c \in before => reply[c] # "none"
    /\ reply[c] = "queued" => c \in Taken
    /\ reply[c] \in {"muted", "full"} => Refused(c)
    /\ reply[c] \notin {"none", "queued", "broken", "muted", "full"} => stage[c] = "idle"
    /\ c \notin before /\ reply[c] # "none" /\ stage[c] # "idle" => audited[c] = 1
    /\ c \notin before /\ reply[c] \notin {"none", "broken", "unauthorized"} => audited[c] > 0

\* What an answer may say of a call, and how many lines it leaves.
Justified(c, what, lines) ==
    /\ reply[c] = "none"
    /\ what \in Replies \ {"none"}
    /\ lines \in 0..2
    /\ what = "queued" => c \in Taken
    /\ what \in {"muted", "full"} => Refused(c)
    /\ what \notin {"queued", "muted", "full"} => stage[c] = "idle"
    /\ stage[c] # "idle" => lines = 1
    /\ what # "unauthorized" => lines > 0

Answers(c) ==
    \/ Reject(c) \/ ReplyLimited(c) \/ NothingToPlay(c)
    \/ ReplyQueued(c) \/ ReplyDropped(c)

LEMMA ChecksFind ==
    ASSUME NEW c \in Calls, NEW i \in DOMAIN Checks(c)
    PROVE  /\ Checks(c)[i] \in Findable
           /\ Via[c] # "http" => Checks(c)[i] = "unauthorized"
<1>1. Via[c] \in {"http", "mcp"}
  BY GatewayAssumption
<1>2. CASE Via[c] = "mcp"
  BY <1>2 DEF Checks, Findable
<1>3. CASE Via[c] = "http" /\ Kind[c] # "publish"
  BY <1>3 DEF Checks, Routed, Findable
<1>4. CASE Via[c] = "http" /\ Kind[c] = "publish"
  <2>1. Checks(c) = Routed \o <<"badLength", "tooLarge">>
    BY <1>4 DEF Checks
  <2>2. /\ Routed \in Seq(Findable) /\ <<"badLength", "tooLarge">> \in Seq(Findable)
    BY DEF Routed, Findable
  <2>3. Checks(c) \in Seq(Findable)
    BY <2>1, <2>2
  <2>. QED BY <1>4, <2>3
<1>. QED BY <1>1, <1>2, <1>3, <1>4

LEMMA AnswersJustified ==
    ASSUME NEW c \in Calls, CallInv(c), Answers(c)
    PROVE  \E what, lines : Justified(c, what, lines) /\ Answered(c, what, lines)
<1>0. c \in Envelopes
  BY GatewayAssumption
<1>1. CASE Reject(c)
  <2>1. PICK i \in Failing(c) : Answered(c, Checks(c)[i], IF Via[c] = "http" THEN 1 ELSE 0)
    BY <1>1 DEF Reject
  <2>2. /\ Checks(c)[i] \in Findable
        /\ Via[c] # "http" => Checks(c)[i] = "unauthorized"
    BY ChecksFind DEF Failing
  <2>3. reply[c] = "none" /\ stage[c] = "idle"
    BY <1>1 DEF Reject, CallInv
  <2>4. Justified(c, Checks(c)[i], IF Via[c] = "http" THEN 1 ELSE 0)
    BY <2>2, <2>3 DEF Justified, Findable, Replies
  <2>. QED BY <2>1, <2>4
<1>2. CASE ReplyLimited(c)
  <2>1. reply[c] = "none" /\ stage[c] = "idle"
    BY <1>2 DEF ReplyLimited, CallInv
  <2>2. Justified(c, "limited", IF Via[c] = "http" THEN 2 ELSE 1)
    BY <2>1 DEF Justified, Replies
  <2>. QED BY <1>2, <2>2 DEF ReplyLimited
<1>3. CASE NothingToPlay(c)
  <2>1. Justified(c, "nothing", 1)
    BY <1>3 DEF NothingToPlay, Underway, Justified, Replies
  <2>. QED BY <1>3, <2>1 DEF NothingToPlay
<1>4. CASE ReplyQueued(c)
  <2>1. Justified(c, "queued", 1)
    BY <1>0, <1>4 DEF ReplyQueued, Justified, Replies, Taken
  <2>. QED BY <1>4, <2>1 DEF ReplyQueued
<1>5. CASE ReplyDropped(c)
  <2>1. Justified(c, IF muted THEN "muted" ELSE "full", 1)
    BY <1>5 DEF ReplyDropped, Justified, Replies, Refused
  <2>. QED BY <1>5, <2>1 DEF ReplyDropped
<1>. QED BY <1>1, <1>2, <1>3, <1>4, <1>5 DEF Answers

-----------------------------------------------------------------------------
(* The types and the calls, one lemma per kind of step.                    *)

GCore == GTypeOK /\ \A c \in Calls : CallInv(c)

\* Only submit takes an envelope out of "idle", and nothing puts one back.
LEMMA IdleStays ==
    ASSUME Core, Custody, Worker \/ Mute \/ Unmute \/ Restart \/ UNCHANGED vars
    PROVE  \A e \in Envelopes : stage'[e] = "idle" <=> stage[e] = "idle"
<1>0. /\ stage \in [Envelopes -> Stages]
      /\ pc # "get" => hand \in Envelopes /\ stage[hand] = "accepted"
  BY DEF Core, TypeOK, WorkerInv, Custody, InHand
<1>1. CASE TaskDone
  <2>1. stage' = [stage EXCEPT ![hand] = "finished"] /\ hand \in Envelopes /\ stage[hand] = "accepted"
    BY <1>0, <1>1 DEF TaskDone
  <2>. QED BY <1>0, <2>1
<1>2. CASE Restart
  BY <1>0, <1>2 DEF Restart
<1>3. ASSUME Worker, ~TaskDone PROVE UNCHANGED stage
  BY <1>3 DEF Worker, Get, SetCurrent, Discard, HandleMsg, HandleRepeat, Render,
              RenderRaises, MutedWhileRendering, BeginPlayback, BlinkOn, BlinkOff,
              LightOn, LightOff, Switch, NextItem, StopPlayback, StartItem,
              ItemDone, ItemFails, ClearCurrent
<1>. QED BY <1>1, <1>2, <1>3 DEF Mute, Unmute, vars

\* A step that is not about c.
LEMMA CallFrame ==
    ASSUME Core, Custody, [Next]_vars, NEW c \in Calls, CallInv(c),
           stage'[c] = "idle" <=> stage[c] = "idle",
           call'[c] = call[c], flaws' = flaws, before' = before,
           reply'[c] = reply[c], audited'[c] = audited[c]
    PROVE  CallInv(c)'
<1>1. c \in Envelopes
  BY GatewayAssumption
<1>2. (c \in Taken => c \in Taken') /\ (Refused(c) => Refused(c)')
  BY <1>1, StagesMove
<1>3. Passed(c)' <=> Passed(c)
  BY DEF Passed, Failing
<1>. QED
  BY <1>2, <1>3 DEF CallInv

LEMMA AnswersKeep ==
    ASSUME Core, Custody, GCore, NEW d \in Calls, Answers(d)
    PROVE  GCore'
<1>1. PICK what, lines : Justified(d, what, lines) /\ Answered(d, what, lines)
  BY AnswersJustified DEF GCore
<1>2. PICK r \in {what, "broken"} :
          /\ reply' = [reply EXCEPT ![d] = r]
          /\ audited' = [audited EXCEPT ![d] = @ + lines]
          /\ UNCHANGED <<vars, lvars, flaws, view, before>>
  BY <1>1 DEF Answered
<1>3. /\ reply \in [Calls -> Replies] /\ audited \in [Calls -> 0..2]
      /\ audited[d] = 0 /\ lines \in 0..2 /\ r \in Replies \ {"none"}
  BY <1>1 DEF GCore, GTypeOK, CallInv, Justified, Replies
<1>4. GTypeOK'
  <2>1. reply' \in [Calls -> Replies] /\ audited' \in [Calls -> 0..2]
    BY <1>2, <1>3
  <2>2. LTypeOK'
    BY <1>2 DEF GCore, GTypeOK, LTypeOK, lvars
  <2>. QED BY <1>2, <2>1, <2>2 DEF GCore, GTypeOK
<1>5. /\ reply'[d] = r /\ audited'[d] = lines
      /\ \A c \in Calls \ {d} : reply'[c] = reply[c] /\ audited'[c] = audited[c]
  BY <1>2, <1>3
<1>6. UNCHANGED <<stage, call>> /\ UNCHANGED vars
  BY <1>2 DEF vars, lvars
<1>7. ASSUME NEW c \in Calls \ {d} PROVE CallInv(c)'
  BY <1>2, <1>5, <1>6, CallFrame DEF GCore
<1>8. CallInv(d)'
  <2>1. /\ stage[d] # "idle" => call[d] = "admitted"
        /\ call[d] # "idle" => Passed(d)
    BY DEF GCore, CallInv
  <2>2. /\ Passed(d)' = Passed(d) /\ Taken' = Taken /\ Refused(d)' = Refused(d)
    BY <1>2, <1>6 DEF Passed, Failing, Taken, Refused
  <2>3. /\ r = "queued" => d \in Taken
        /\ r \in {"muted", "full"} => Refused(d)
        /\ r \notin {"queued", "broken", "muted", "full"} => stage[d] = "idle"
        /\ stage[d] # "idle" => lines = 1
        /\ r \notin {"broken", "unauthorized"} => lines > 0
    BY <1>1, <1>2 DEF Justified
  <2>. QED
    BY <1>3, <1>5, <1>6, <2>1, <2>2, <2>3 DEF CallInv
<1>. QED BY <1>4, <1>7, <1>8 DEF GCore

LEMMA TimeoutKeeps ==
    ASSUME Core, Custody, GCore, NEW d \in Calls, BodyTimesOut(d)
    PROVE  GCore'
<1>1. /\ reply[d] = "none" /\ stage[d] = "idle"
      /\ reply' = [reply EXCEPT ![d] = "broken"]
      /\ UNCHANGED <<vars, lvars, flaws, audited, view, before>>
      /\ reply \in [Calls -> Replies]
  BY DEF BodyTimesOut, Underway, GCore, GTypeOK
<1>2. GTypeOK'
  <2>1. reply' \in [Calls -> Replies]
    BY <1>1 DEF Replies
  <2>2. LTypeOK'
    BY <1>1 DEF GCore, GTypeOK, LTypeOK, lvars
  <2>. QED BY <1>1, <2>1, <2>2 DEF GCore, GTypeOK
<1>3. UNCHANGED <<stage, call>> /\ UNCHANGED vars
  BY <1>1 DEF vars, lvars
<1>4. ASSUME NEW c \in Calls \ {d} PROVE CallInv(c)'
  <2>1. reply'[c] = reply[c]
    BY <1>1
  <2>. QED BY <1>1, <1>3, <2>1, CallFrame DEF GCore
<1>5. CallInv(d)'
  <2>1. reply'[d] = "broken" /\ (call[d] # "idle" => Passed(d))
    BY <1>1 DEF GCore, CallInv
  <2>2. Passed(d)' = Passed(d)
    BY <1>1 DEF Passed, Failing
  <2>. QED BY <1>1, <1>3, <2>1, <2>2 DEF CallInv
<1>. QED BY <1>2, <1>4, <1>5 DEF GCore

LEMMA BudgetKeeps ==
    ASSUME Core, Custody, GCore, NEW d \in Calls, Budget(d)
    PROVE  GCore'
<1>1. /\ reply[d] = "none" /\ Passed(d) /\ UNCHANGED <<vars, gatewayVars>>
      /\ call[d] \in {"idle", "timed"}
      /\ \E phase \in Phases : call' = [call EXCEPT ![d] = phase]
      /\ call \in [Calls -> Phases]
  BY DEF Budget, AllowAll, ReadClock, Limit, Admit, Phases, GCore, GTypeOK, LTypeOK
<1>2. UNCHANGED <<flaws, reply, audited, view, before>> /\ UNCHANGED stage
  BY <1>1 DEF gatewayVars, answerVars, vars
<1>3. LTypeOK'
  <2>1. [LNext]_lvars
    BY DEF Budget, LNext
  <2>. QED BY <2>1, LTypeStep DEF GCore, GTypeOK
<1>4. GTypeOK'
  BY <1>2, <1>3 DEF GCore, GTypeOK
<1>5. ASSUME NEW c \in Calls \ {d} PROVE CallInv(c)'
  <2>1. call'[c] = call[c]
    BY <1>1
  <2>. QED BY <1>1, <1>2, <2>1, CallFrame DEF GCore
<1>6. CallInv(d)'
  <2>1. /\ stage[d] = "idle" /\ audited[d] = 0 /\ d \notin before
    BY <1>1 DEF GCore, CallInv
  <2>2. Passed(d)'
    BY <1>1, <1>2 DEF Passed, Failing
  <2>. QED BY <1>1, <1>2, <2>1, <2>2 DEF CallInv
<1>. QED BY <1>4, <1>5, <1>6 DEF GCore

LEMMA SubmitKeeps ==
    ASSUME Core, Custody, GCore, NEW e \in Envelopes, SubmitStep(e)
    PROVE  GCore'
<1>1. /\ Submit(e) /\ UNCHANGED <<lvars, gatewayVars>>
      /\ e \in Calls => call[e] = "admitted" /\ reply[e] = "none"
      /\ stage \in [Envelopes -> Stages]
  BY DEF SubmitStep, Cleared, Core, TypeOK
<1>2. UNCHANGED <<flaws, reply, audited, view, before>> /\ UNCHANGED call
  BY <1>1 DEF gatewayVars, answerVars, lvars
<1>3. [Next]_vars
  BY <1>1 DEF Next
<1>4. GTypeOK'
  BY <1>1, <1>2 DEF GCore, GTypeOK, LTypeOK, lvars
<1>5. \A f \in Envelopes \ {e} : stage'[f] = stage[f]
  BY <1>1 DEF Submit, SubmitMuted, SubmitCheck, PutNowait, PutFull
<1>6. ASSUME NEW c \in Calls PROVE CallInv(c)'
  <2>0. c \in Envelopes
    BY GatewayAssumption
  <2>1. CASE c # e
    BY <1>2, <1>3, <1>5, <2>0, <2>1, CallFrame DEF GCore
  <2>2. CASE c = e
    <3>1. /\ call[c] = "admitted" /\ reply[c] = "none" /\ audited[c] = 0
          /\ c \notin before /\ Passed(c)
      BY <1>1, <2>2 DEF GCore, CallInv
    <3>2. Passed(c)'
      BY <1>2, <3>1 DEF Passed, Failing
    <3>. QED BY <1>2, <3>1, <3>2 DEF CallInv
  <2>. QED BY <2>1, <2>2
<1>. QED BY <1>4, <1>6 DEF GCore

\* Mute, a view, the worker and the clock are about no call at all.
LEMMA BystanderKeeps ==
    ASSUME Core, Custody, GCore, [GNext]_gvars,
           SetMuted \/ ViewCopy \/ ViewRead \/ Underneath \/ UNCHANGED gvars
    PROVE  GCore'
<1>0. Worker \/ Mute \/ Unmute \/ UNCHANGED vars
  BY Zenon DEF SetMuted, ViewCopy, ViewRead, Underneath, gvars
<1>1. \A e \in Envelopes : stage'[e] = "idle" <=> stage[e] = "idle"
  BY <1>0, IdleStays
<1>2. UNCHANGED <<flaws, reply, audited, before>>
  BY DEF SetMuted, ViewCopy, ViewRead, Underneath, gvars, gatewayVars, answerVars
<1>3. call' = call
  BY DEF SetMuted, ViewCopy, ViewRead, Underneath, Tick, gvars, lvars
<1>4. view' \in {view, NoView, [open |-> TRUE, pending |-> queue]}
  BY Zenon DEF SetMuted, ViewCopy, ViewRead, Underneath, gvars, gatewayVars
<1>5. view'.open \in BOOLEAN /\ view'.pending \in Seq(Envelopes)
  <2>1. view.open \in BOOLEAN /\ view.pending \in Seq(Envelopes) /\ queue \in Seq(Envelopes)
    BY DEF GCore, GTypeOK, Core, TypeOK
  <2>2. CASE view' = view
    BY <2>1, <2>2, Zenon
  <2>3. CASE view' = NoView
    BY <2>3 DEF NoView
  <2>4. CASE view' = [open |-> TRUE, pending |-> queue]
    BY <2>1, <2>4
  <2>. QED BY <1>4, <2>2, <2>3, <2>4
<1>6. GTypeOK'
  <2>1. LTypeOK'
    BY LimiterTypesBehind DEF GCore, GTypeOK
  <2>. QED BY <1>2, <1>5, <2>1 DEF GCore, GTypeOK
<1>7. ASSUME NEW c \in Calls PROVE CallInv(c)'
  <2>1. c \in Envelopes
    BY GatewayAssumption
  <2>. QED BY <1>1, <1>2, <1>3, <2>1, GStepImplements, CallFrame DEF GCore
<1>. QED BY <1>6, <1>7 DEF GCore

LEMMA RestartKeeps ==
    ASSUME Core, Custody, GCore, RestartAll
    PROVE  GCore'
<1>1. /\ Restart /\ UNCHANGED <<call, flaws, audited>>
      /\ before' = {c \in Calls : Begun(c)} /\ view' = NoView
      /\ reply' = [c \in Calls |-> IF Begun(c) /\ reply[c] = "none"
                                   THEN "broken" ELSE reply[c]]
      /\ reply \in [Calls -> Replies]
  BY DEF RestartAll, GCore, GTypeOK
<1>2. /\ \A e \in Envelopes : stage'[e] = "idle" <=> stage[e] = "idle"
      /\ Taken \subseteq Taken'
      /\ \A e \in Envelopes : Refused(e) => Refused(e)'
  <2>1. [Next]_vars
    BY <1>1 DEF Next
  <2>. QED BY <1>1, <2>1, IdleStays, StagesMove
<1>3. GTypeOK'
  <2>1. LTypeOK'
    BY DEF RestartAll, LTypeOK, GCore, GTypeOK
  <2>2. reply' \in [Calls -> Replies]
    BY <1>1 DEF Replies
  <2>3. view'.open \in BOOLEAN /\ view'.pending \in Seq(Envelopes)
    BY <1>1 DEF NoView
  <2>. QED BY <1>1, <2>1, <2>2, <2>3 DEF GCore, GTypeOK
<1>4. ASSUME NEW c \in Calls PROVE CallInv(c)'
  <2>0. c \in Envelopes /\ CallInv(c) /\ reply[c] \in Replies
    BY <1>1, GatewayAssumption DEF GCore
  <2>1. /\ c \in before' <=> call[c] # "idle" \/ reply[c] # "none"
        /\ c \notin before' => call[c] = "idle" /\ reply[c] = "none" /\ reply'[c] = "none"
        /\ reply'[c] = reply[c] \/ (reply[c] = "none" /\ reply'[c] = "broken")
        /\ c \in before' => reply'[c] # "none"
    BY <1>1 DEF Begun
  <2>2. Passed(c)' <=> Passed(c)
    BY <1>1 DEF Passed, Failing
  <2>3. /\ stage'[c] # "idle" => call'[c] = "admitted"
        /\ call'[c] # "idle" => Passed(c)'
        /\ reply'[c] = "none" => audited'[c] = 0
    BY <1>1, <1>2, <2>0, <2>1, <2>2 DEF CallInv
  <2>4. /\ reply'[c] = "queued" => c \in Taken'
        /\ reply'[c] \in {"muted", "full"} => Refused(c)'
        /\ reply'[c] \notin {"none", "queued", "broken", "muted", "full"} => stage'[c] = "idle"
    BY <1>2, <2>0, <2>1 DEF CallInv
  <2>. QED BY <2>1, <2>3, <2>4 DEF CallInv
<1>. QED BY <1>3, <1>4 DEF GCore

LEMMA GCoreInit == GInit => GCore
<1> SUFFICES ASSUME GInit PROVE GCore
  OBVIOUS
<1>1. LTypeOK
  BY LTypeInit DEF GInit
<1>2. /\ \A c \in Calls : flaws[c] \in MayFail[c]
      /\ reply = [c \in Calls |-> "none"] /\ audited = [c \in Calls |-> 0]
      /\ view = NoView /\ before = {}
  BY DEF GInit
<1>3. GTypeOK
  BY <1>1, <1>2 DEF GTypeOK, Replies, NoView
<1>4. ASSUME NEW c \in Calls PROVE CallInv(c)
  <2>1. c \in Envelopes /\ stage[c] = "idle" /\ call[c] = "idle"
    BY GatewayAssumption DEF GInit, Init, LInit
  <2>. QED BY <1>2, <2>1 DEF CallInv
<1>. QED BY <1>3, <1>4 DEF GCore

LEMMA GCoreStep == Core /\ Custody /\ GCore /\ [GNext]_gvars => GCore'
<1> SUFFICES ASSUME Core, Custody, GCore, [GNext]_gvars PROVE GCore'
  OBVIOUS
<1>1. ASSUME NEW c \in Calls, Answers(c) PROVE GCore'
  BY <1>1, AnswersKeep
<1>2. ASSUME NEW c \in Calls, BodyTimesOut(c) PROVE GCore'
  BY <1>2, TimeoutKeeps
<1>3. ASSUME NEW c \in Calls, Budget(c) PROVE GCore'
  BY <1>3, BudgetKeeps
<1>4. ASSUME NEW e \in Envelopes, SubmitStep(e) PROVE GCore'
  BY <1>4, SubmitKeeps
<1>5. CASE SetMuted \/ ViewCopy \/ ViewRead \/ Underneath \/ UNCHANGED gvars
  BY <1>5, BystanderKeeps
<1>6. CASE RestartAll
  BY <1>6, RestartKeeps
<1>. QED
  BY <1>1, <1>2, <1>3, <1>4, <1>5, <1>6, Zenon DEF GNext, Answers

-----------------------------------------------------------------------------
(* What the table holds.                                                   *)

LEMMA SpendStep ==
    ASSUME GCore, GoodCallsSpend, [GNext]_gvars
    PROVE  GoodCallsSpend'
<1>0. /\ LTypeOK
      /\ \A c \in Calls : /\ call[c] # "idle" => Passed(c)
                          /\ c \in before => reply[c] # "none"
  BY DEF GCore, GTypeOK, CallInv
<1>1. CASE RestartAll
  BY <1>1 DEF RestartAll, GoodCallsSpend
<1>2. ASSUME UNCHANGED <<lastCall, before, flaws>>,
             \A c \in Calls : call[c] = "admitted" => call'[c] = "admitted" /\ now'[c] = now[c]
      PROVE  GoodCallsSpend'
  BY <1>2 DEF GoodCallsSpend, Failing
<1>3. ASSUME NEW d \in Calls, Admit(d), Budget(d) PROVE GoodCallsSpend'
  <2>1. /\ now' = now /\ before' = before /\ flaws' = flaws
        /\ \A c \in Calls : call[c] = "admitted" => call'[c] = "admitted"
        /\ call'[d] = "admitted" /\ d \notin before /\ Failing(d) = {}
    BY <1>0, <1>3 DEF Admit, Budget, gatewayVars, LTypeOK, Passed
  <2>2. \A ip \in DOMAIN lastCall' :
            ip \in DOMAIN Recorded(d) /\ lastCall'[ip] = Recorded(d)[ip]
    BY <1>3 DEF Admit, Fresh
  <2>3. \A c \in Calls : Failing(c)' = Failing(c)
    BY <2>1 DEF Failing
  <2>4. ASSUME NEW ip \in DOMAIN lastCall'
        PROVE  \E c \in Calls \ before' :
                  IpOf[c] = ip /\ call'[c] = "admitted" /\ now'[c] = lastCall'[ip]
                  /\ Failing(c)' = {}
    <3>1. CASE ip = IpOf[d]
      BY <2>1, <2>2, <2>3, <3>1 DEF Recorded
    <3>2. CASE ip # IpOf[d]
      <4>1. ip \in DOMAIN lastCall /\ lastCall'[ip] = lastCall[ip]
        BY <2>2, <3>2 DEF Recorded
      <4>. QED BY <2>1, <2>3, <4>1 DEF GoodCallsSpend
    <3>. QED BY <3>1, <3>2
  <2>. QED BY <2>4 DEF GoodCallsSpend
<1>4. ASSUME NEW d \in Calls, Budget(d), ~Admit(d) PROVE GoodCallsSpend'
  <2>1. AllowAll(d) \/ ReadClock(d) \/ Limit(d)
    BY <1>4 DEF Budget
  <2>2. UNCHANGED <<lastCall, before, flaws>>
    BY <1>4, <2>1 DEF AllowAll, ReadClock, Limit, Budget, gatewayVars
  <2>3. \A c \in Calls : call[c] = "admitted" => call'[c] = "admitted" /\ now'[c] = now[c]
    BY <1>0, <2>1 DEF AllowAll, ReadClock, Limit, LTypeOK
  <2>. QED BY <1>2, <2>2, <2>3
<1>5. CASE Underneath
  BY <1>2, <1>5 DEF Underneath, Tick, lvars, gatewayVars
<1>6. ASSUME UNCHANGED <<lvars, flaws, before>> PROVE GoodCallsSpend'
  BY <1>2, <1>6 DEF lvars
<1>7. CASE (\E e \in Envelopes : SubmitStep(e)) \/ SetMuted \/ ViewCopy \/ ViewRead \/ UNCHANGED gvars
  BY <1>6, <1>7, Zenon DEF SubmitStep, SetMuted, ViewCopy, ViewRead, gvars, gatewayVars
<1>8. ASSUME NEW c \in Calls, Answers(c) \/ BodyTimesOut(c) PROVE GoodCallsSpend'
  BY <1>6, <1>8, Zenon DEF Answers, Reject, ReplyLimited, BodyTimesOut, NothingToPlay,
                           ReplyQueued, ReplyDropped, Answered
<1>. QED
  BY <1>1, <1>3, <1>4, <1>5, <1>7, <1>8, Zenon DEF GNext, Answers

-----------------------------------------------------------------------------
(* Together.                                                               *)

GInv == Core /\ Custody /\ HeardInv /\ GCore /\ SpacedSince /\ GoodCallsSpend

LEMMA GInvInit == GInit => GInv
<1> SUFFICES ASSUME GInit PROVE GInv
  OBVIOUS
<1>1. Core /\ Custody
  BY CoreInit, CustodyInit DEF GInit
<1>2. HeardInv
  BY DEF GInit, Init, HeardInv
<1>3. SpacedSince /\ GoodCallsSpend
  BY DEF GInit, LInit, SpacedSince, SpacedInv, SpacedIn, Timely, Admitted, GoodCallsSpend
<1>. QED BY <1>1, <1>2, <1>3, GCoreInit DEF GInv

LEMMA GInvStep == GInv /\ [GNext]_gvars => GInv'
<1> SUFFICES ASSUME GInv, [GNext]_gvars PROVE GInv'
  OBVIOUS
<1>1. [Next]_vars
  BY GStepImplements
<1>2. LTypeOK
  BY DEF GInv, GCore, GTypeOK
<1>3. Core' /\ Custody'
  BY <1>1, CoreStep, CustodyStep DEF GInv
<1>. QED
  BY <1>1, <1>2, <1>3, HeardStep, GCoreStep, SpacedSinceStep, SpendStep DEF GInv

LEMMA GInvAlways == GSpec => []GInv
BY GInvInit, GInvStep, PTL DEF GSpec

\* The handlers' variables stay what they are meant to be.
THEOREM GatewayTypes == GSpec => []GTypeOK
<1>1. GInv => GTypeOK
  BY DEF GInv, GCore
<1>. QED BY <1>1, GInvAlways, PTL

\* Nothing that was answered with a refusal is ever spoken or played.
THEOREM AnswersAlwaysKept == GSpec => []AnswersAreKept
<1>1. ASSUME GInv, NEW c \in Calls
      PROVE  /\ reply[c] = "queued" => stage[c] \in {"accepted", "finished", "lost"}
             /\ reply[c] \notin {"none", "queued", "broken"} =>
                   /\ c \notin Waiting \cup InHand \cup heard
                   /\ reply[c] \notin {"muted", "full"} => stage[c] = "idle"
  <2>1. c \in Envelopes /\ c # NoSuchMessage
    BY GatewayAssumption, EnvelopesAssumption
  <2>2. CallInv(c)
    BY <1>1 DEF GInv, GCore
  <2>3. ASSUME stage[c] \in {"idle", "refusedMuted", "refusedFull"}
        PROVE  c \notin Waiting \cup InHand \cup heard
    BY <1>1, <2>1, <2>3 DEF GInv, Custody, HeardInv, Taken
  <2>. QED BY <2>2, <2>3 DEF CallInv, Refused, Taken
<1>2. GInv => AnswersAreKept
  BY <1>1 DEF AnswersAreKept
<1>. QED BY <1>2, GInvAlways, PTL

\* Mixing the two servers gains an address nothing, within one life of the
\* process and but for a call overtaken by a prune.
THEOREM OneCallKept == GSpec => []OneCallPerInterval
<1>1. ASSUME GInv, NEW c \in Calls \ (before \cup overtaken), stage[c] # "idle"
      PROVE  c \in Timely(Calls \ before)
  BY <1>1 DEF GInv, GCore, CallInv, Timely, Admitted
<1>2. GInv => OneCallPerInterval
  BY <1>1 DEF OneCallPerInterval, GInv, SpacedSince, SpacedInv, SpacedIn
<1>. QED BY <1>2, GInvAlways, PTL

\* A malformed or unauthorised request costs its address nothing.
THEOREM BudgetWellSpent == GSpec => []GoodCallsSpend
<1>1. GInv => GoodCallsSpend
  BY DEF GInv
<1>. QED BY <1>1, GInvAlways, PTL

\* A client that is gone before its answer does not lose its audit line.
THEOREM AlwaysAudited == GSpec => []AuditedAnyway
<1>1. GInv => AuditedAnyway
  BY DEF GInv, GCore, CallInv, AuditedAnyway
<1>. QED BY <1>1, GInvAlways, PTL

-----------------------------------------------------------------------------
(* The view and the queue.                                                 *)

\* What _current says: the envelope in hand, or nothing yet, or no more.
CurrentInv ==
    current # None => /\ pc \notin {"get", "current", "taskDone"}
                      /\ current = hand

\* Of what was copied, the first t have been taken since and the others wait
\* at the front of the queue; what was taken is finished, but for the last
\* when it is in hand.
InStep(copy, t) ==
    /\ t \in 0..Len(copy)
    /\ Len(copy) - t <= Len(queue)
    /\ \A i \in 1..(Len(copy) - t) : copy[t + i] = queue[i]
    /\ \A i \in 1..t :
          \/ stage[copy[i]] = "finished"
          \/ i = t /\ pc # "get" /\ hand = copy[i]

ViewInv ==
    /\ CurrentInv
    /\ view.open => \E t \in 0..Len(view.pending) : InStep(view.pending, t)

\* Only the two steps that write _current change what it says.
LEMMA CurrentStep ==
    ASSUME Core, CurrentInv, [Next]_vars
    PROVE  CurrentInv'
<1>1. CASE SetCurrent
  BY <1>1 DEF SetCurrent, CurrentInv
<1>2. CASE ClearCurrent \/ Restart
  BY <1>2 DEF ClearCurrent, Restart, CurrentInv
<1>3. CASE Get \/ TaskDone
  BY <1>3 DEF Get, TaskDone, CurrentInv
<1>4. ASSUME UNCHANGED <<hand, current>>,
             pc' = pc \/ pc' \notin {"get", "current", "taskDone"}
      PROVE  CurrentInv'
  BY <1>4 DEF CurrentInv
<1>5. CASE (\E e \in Envelopes : Submit(e)) \/ Mute \/ Unmute \/ UNCHANGED vars
  BY <1>4, <1>5 DEF Submit, SubmitMuted, SubmitCheck, PutNowait, PutFull, Mute, Unmute,
                    workerVars, vars
<1>6. CASE Discard \/ HandleMsg \/ HandleRepeat \/ Render \/ RenderRaises \/ MutedWhileRendering
           \/ BeginPlayback \/ NextItem \/ StopPlayback \/ StartItem \/ ItemDone \/ ItemFails
  BY <1>4, <1>6 DEF Discard, HandleMsg, HandleRepeat, Render, RenderRaises, MutedWhileRendering,
       BeginPlayback, NextItem, StopPlayback, StartItem, ItemDone, ItemFails, workerVars
<1>7. CASE BlinkOn \/ BlinkOff \/ LightOn \/ LightOff
  BY <1>4, <1>7 DEF BlinkOn, BlinkOff, LightOn, LightOff, Switch, workerVars
<1>. QED
  BY <1>1, <1>2, <1>3, <1>5, <1>6, <1>7 DEF Next, Worker

\* Whatever the announcer does, the copy goes on being in step with the queue.
LEMMA InStepMoves ==
    ASSUME Core, Custody,
           (\E e \in Envelopes : Submit(e)) \/ Mute \/ Unmute \/ Worker \/ UNCHANGED vars,
           NEW copy \in Seq(Envelopes), NEW t \in 0..Len(copy), InStep(copy, t)
    PROVE  \E u \in 0..Len(copy) : InStep(copy, u)'
<1>0. /\ stage \in [Envelopes -> Stages] /\ queue \in Seq(Envelopes) /\ Len(queue) \in Nat
      /\ pc # "get" => hand \in Envelopes /\ stage[hand] = "accepted"
      /\ Len(copy) \in Nat /\ t \in Nat
      /\ \A i \in 1..Len(copy) : copy[i] \in Envelopes
  BY DEF Core, TypeOK, WorkerInv, Custody, InHand
<1>1. ASSUME UNCHANGED <<queue, stage, hand>>, pc' = "get" <=> pc = "get"
      PROVE  InStep(copy, t)'
  BY <1>1 DEF InStep
<1>2. ASSUME NEW e \in Envelopes, Submit(e)
      PROVE  InStep(copy, t)'
  <2>1. /\ UNCHANGED <<pc, hand>>
        /\ stage[e] \in {"idle", "checked"}
        /\ \A d \in Envelopes : d # e => stage'[d] = stage[d]
        /\ queue' = queue \/ queue' = Append(queue, e)
    BY <1>0, <1>2 DEF Submit, SubmitMuted, SubmitCheck, PutNowait, PutFull, queueVars, workerVars
  <2>2. /\ Len(queue) <= Len(queue') /\ Len(queue') \in Nat
        /\ \A i \in 1..Len(queue) : queue'[i] = queue[i]
    BY <1>0, <2>1
  <2>3. \A d \in Envelopes : stage[d] = "finished" => stage'[d] = "finished"
    BY <2>1
  <2>. QED BY <1>0, <2>1, <2>2, <2>3 DEF InStep
<1>3. CASE Get
  <2>1. /\ pc = "get" /\ pc' = "current" /\ stage' = stage
        /\ queue # <<>> /\ hand' = Head(queue) /\ queue' = Tail(queue)
    BY <1>3 DEF Get
  <2>2. /\ Len(queue) >= 1 /\ hand' = queue[1]
        /\ Len(queue') = Len(queue) - 1
        /\ \A i \in 1..(Len(queue) - 1) : queue'[i] = queue[i + 1]
    BY <1>0, <2>1
  <2>3. \A i \in 1..t : stage[copy[i]] = "finished"
    BY <2>1 DEF InStep
  <2>4. CASE t = Len(copy)
    <3>1. InStep(copy, t)'
      BY <1>0, <2>1, <2>2, <2>3, <2>4 DEF InStep
    <3>. QED BY <3>1
  <2>5. CASE t # Len(copy)
    <3>1. t + 1 \in 0..Len(copy) /\ copy[t + 1] = queue[1] /\ Len(copy) - t <= Len(queue)
      BY <1>0, <2>5 DEF InStep
    <3>2. \A i \in 1..(Len(copy) - (t + 1)) : copy[(t + 1) + i] = queue'[i]
      <4>1. TAKE i \in 1..(Len(copy) - (t + 1))
      <4>2. i + 1 \in 1..(Len(copy) - t) /\ i \in 1..(Len(queue) - 1) /\ t + (i + 1) = (t + 1) + i
        BY <1>0, <3>1
      <4>3. copy[t + (i + 1)] = queue[i + 1]
        BY <4>2 DEF InStep
      <4>. QED BY <2>2, <4>2, <4>3
    <3>3. \A i \in 1..(t + 1) : stage'[copy[i]] = "finished" \/ (i = t + 1 /\ hand' = copy[i])
      BY <1>0, <2>1, <2>2, <2>3, <3>1
    <3>4. InStep(copy, t + 1)'
      BY <1>0, <2>1, <2>2, <3>1, <3>2, <3>3 DEF InStep
    <3>. QED BY <3>1, <3>4
  <2>. QED BY <2>4, <2>5
<1>4. CASE TaskDone
  <2>1. /\ pc = "taskDone" /\ pc' = "get" /\ queue' = queue /\ hand \in Envelopes
        /\ stage' = [stage EXCEPT ![hand] = "finished"]
    BY <1>0, <1>4 DEF TaskDone
  <2>2. \A i \in 1..t : stage'[copy[i]] = "finished"
    BY <1>0, <2>1 DEF InStep
  <2>3. InStep(copy, t)'
    BY <1>0, <2>1, <2>2 DEF InStep
  <2>. QED BY <2>3
<1>5. CASE Mute \/ Unmute \/ UNCHANGED vars
  BY <1>1, <1>5 DEF Mute, Unmute, queueVars, workerVars, vars
<1>6. CASE SetCurrent \/ Discard \/ HandleMsg \/ HandleRepeat \/ Render \/ RenderRaises
           \/ MutedWhileRendering \/ BeginPlayback \/ NextItem \/ StopPlayback \/ StartItem
           \/ ItemDone \/ ItemFails \/ ClearCurrent
  BY <1>1, <1>6 DEF SetCurrent, Discard, HandleMsg, HandleRepeat, Render, RenderRaises,
       MutedWhileRendering, BeginPlayback, NextItem, StopPlayback, StartItem, ItemDone, ItemFails,
       ClearCurrent, queueVars, workerVars
<1>7. CASE BlinkOn \/ BlinkOff \/ LightOn \/ LightOff
  BY <1>1, <1>7 DEF BlinkOn, BlinkOff, LightOn, LightOff, Switch, queueVars, workerVars
<1>. QED
  BY <1>2, <1>3, <1>4, <1>5, <1>6, <1>7 DEF Worker

\* A step that the announcer takes, or none, while a view is put together.
Below == (\E e \in Envelopes : Submit(e)) \/ Mute \/ Unmute \/ Worker \/ UNCHANGED vars

\* What a step does to the view.
LEMMA ViewMoves ==
    ASSUME [GNext]_gvars
    PROVE  \/ view' = NoView
           \/ view' = [open |-> TRUE, pending |-> queue] /\ UNCHANGED vars
           \/ view' = view /\ Below
<1>1. CASE RestartAll \/ ViewRead
  BY <1>1, Zenon DEF RestartAll, ViewRead
<1>2. CASE ViewCopy
  BY <1>2, Zenon DEF ViewCopy
<1>3. ASSUME NEW e \in Envelopes, SubmitStep(e) PROVE view' = view /\ Below
  BY <1>3, Zenon DEF SubmitStep, gatewayVars, Below
<1>4. ASSUME NEW c \in Calls,
             \/ Reject(c) \/ Budget(c) \/ ReplyLimited(c)
             \/ BodyTimesOut(c) \/ NothingToPlay(c)
             \/ ReplyQueued(c) \/ ReplyDropped(c)
      PROVE  view' = view /\ Below
  BY <1>4, Zenon DEF Reject, Budget, ReplyLimited, BodyTimesOut, NothingToPlay,
                     ReplyQueued, ReplyDropped, Answered, gatewayVars, Below
<1>5. CASE SetMuted
  BY <1>5, Zenon DEF SetMuted, gatewayVars, Below
<1>6. CASE Underneath
  BY <1>6, Zenon DEF Underneath, gatewayVars, Below
<1>7. CASE UNCHANGED gvars
  BY <1>7, Zenon DEF gvars, gatewayVars, Below
<1>. QED BY <1>1, <1>2, <1>3, <1>4, <1>5, <1>6, <1>7, Zenon DEF GNext

LEMMA ViewInvInit == GInit => ViewInv
BY DEF GInit, Init, NoView, ViewInv, CurrentInv

LEMMA ViewInvStep == GInv /\ ViewInv /\ [GNext]_gvars => ViewInv'
<1> SUFFICES ASSUME GInv, ViewInv, [GNext]_gvars PROVE ViewInv'
  OBVIOUS
<1>0. /\ Core /\ Custody /\ queue \in Seq(Envelopes) /\ Len(queue) \in Nat
      /\ view.pending \in Seq(Envelopes)
  BY DEF GInv, Core, TypeOK, GCore, GTypeOK
<1>1. CurrentInv'
  BY <1>0, GStepImplements, CurrentStep DEF ViewInv
<1>2. CASE view' = NoView
  BY <1>1, <1>2 DEF NoView, ViewInv
<1>3. CASE view' = [open |-> TRUE, pending |-> queue] /\ UNCHANGED vars
  <2>1. queue' = queue
    BY <1>3 DEF vars, queueVars
  <2>2. view'.pending = queue /\ 0 \in 0..Len(queue)
    BY <1>0, <1>3
  <2>3. PICK copy : copy = queue
    OBVIOUS
  <2>4. InStep(copy, 0)'
    BY <1>0, <2>1, <2>2, <2>3 DEF InStep
  <2>. QED BY <1>1, <2>2, <2>3, <2>4 DEF ViewInv, InStep
<1>4. CASE view' = view /\ Below
  <2>1. SUFFICES ASSUME view'.open
                 PROVE  (\E t \in 0..Len(view.pending) : InStep(view.pending, t))'
    BY <1>1 DEF ViewInv
  <2>2. PICK copy \in Seq(Envelopes) : copy = view.pending
    BY <1>0
  <2>3. PICK t \in 0..Len(copy) : InStep(copy, t)
    BY <1>4, <2>1, <2>2 DEF ViewInv
  <2>4. PICK u \in 0..Len(copy) : InStep(copy, u)'
    BY <1>0, <1>4, <2>3, InStepMoves DEF Below
  <2>. QED BY <1>4, <2>2, <2>4 DEF InStep
<1>. QED BY <1>2, <1>3, <1>4, ViewMoves

\* What the invariant says of the view is what the runs check.
LEMMA InStepShows ==
    ASSUME GInv, ViewInv
    PROVE  ViewInStep
<1> SUFFICES ASSUME view.open PROVE ViewInStep
  BY DEF ViewInStep
<1> DEFINE copy == view.pending
<1>0. /\ Core /\ Custody /\ queue \in Seq(Envelopes) /\ Len(queue) \in Nat
      /\ copy \in Seq(Envelopes) /\ Len(copy) \in Nat /\ DOMAIN copy = 1..Len(copy)
      /\ pc # "get" => stage[hand] = "accepted"
  BY DEF GInv, Core, TypeOK, WorkerInv, GCore, GTypeOK, Custody, InHand
<1>1. PICK t \in 0..Len(copy) : InStep(copy, t)
  BY DEF ViewInv
<1> HIDE DEF copy
<1>t. t \in Nat /\ t <= Len(copy) /\ Len(copy) - t <= Len(queue)
  BY <1>0, <1>1 DEF InStep
<1>2. LET rest == SubSeq(copy, t + 1, Len(copy))
      IN  /\ Len(rest) <= Len(queue)
          /\ rest = SubSeq(queue, 1, Len(rest))
  <2> DEFINE rest == SubSeq(copy, t + 1, Len(copy))
             front == SubSeq(queue, 1, Len(rest))
  <2>1. rest \in Seq(Envelopes) /\ Len(rest) = Len(copy) - t
        /\ \A i \in 1..(Len(copy) - t) : rest[i] = copy[t + i]
    BY <1>0, <1>t
  <2>2. Len(rest) <= Len(queue) /\ Len(rest) \in Nat
    <3> HIDE DEF rest
    <3>. QED BY <1>0, <1>t, <2>1
  <2>3. front \in Seq(Envelopes) /\ Len(front) = Len(rest)
        /\ \A i \in 1..Len(rest) : front[i] = queue[i]
    <3> HIDE DEF rest
    <3>. QED BY <1>0, <2>2
  <2>4. \A i \in 1..Len(rest) : rest[i] = front[i]
    <3> HIDE DEF rest, front
    <3>. QED BY <1>1, <2>1, <2>3 DEF InStep
  <2> HIDE DEF rest, front
  <2>5. rest = front
    BY <2>1, <2>3, <2>4, SeqEqual
  <2>. QED BY <2>2, <2>5 DEF rest, front
<1>3. \A i \in 1..t : copy[i] \in InHand \/ stage[copy[i]] = "finished"
  BY <1>1 DEF InStep, InHand
<1>4. ASSUME NEW i \in DOMAIN copy, NEW j \in DOMAIN copy, i < j, current = copy[j]
      PROVE  stage[copy[i]] = "finished"
  <2>1. current # None
    BY <1>0, <1>4, EnvelopesAssumption
  <2>2. pc # "get" /\ hand = copy[j]
    BY <1>4, <2>1 DEF ViewInv, CurrentInv
  <2>3. j <= t
    <3>1. SUFFICES ASSUME j > t PROVE FALSE
      BY <1>0, <1>1
    <3>2. /\ j \in Nat /\ j <= Len(copy)
          /\ j - t \in 1..(Len(copy) - t) /\ t + (j - t) = j /\ j - t \in 1..Len(queue)
      <4>1. j \in Nat /\ j <= Len(copy)
        BY <1>0, <1>4
      <4>. QED BY <1>0, <1>t, <3>1, <4>1
    <3>3. copy[t + (j - t)] = queue[j - t]
      BY <1>1, <3>2 DEF InStep
    <3>4. queue[j - t] = hand /\ j - t \in DOMAIN queue
      BY <1>0, <2>2, <3>2, <3>3
    <3>. QED BY <1>0, <2>2, <3>4 DEF Custody, Waiting, InHand
  <2>4. i \in 1..t /\ i # t
    BY <1>0, <1>1, <1>4, <2>3
  <2>. QED BY <1>1, <2>4 DEF InStep
<1>. QED BY <1>1, <1>2, <1>3, <1>4 DEF ViewInStep, copy

LEMMA ViewAlways == GSpec => [](GInv /\ ViewInv)
BY GInvInit, GInvStep, ViewInvInit, ViewInvStep, PTL DEF GSpec

\* A view put together while the worker goes on stays in step with the queue: no
\* waiting envelope is missing, none changes its place, and whenever _current is
\* read, what is shown as playing has only finished ones before it
\* (announcer.py:108-115).
THEOREM ViewStaysInStep == GSpec => []ViewInStep
BY ViewAlways, InStepShows, PTL
=============================================================================
