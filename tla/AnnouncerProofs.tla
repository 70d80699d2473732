-------------------------- MODULE AnnouncerProofs --------------------------
(***************************************************************************)
(* Proofs about Announcer, for every set of messages and replays, every    *)
(* queue and history size and every number of playback items.              *)
(***************************************************************************)
EXTENDS Announcer, TLAPS

-----------------------------------------------------------------------------
(* The inductive invariant is built in layers: WorkerInv says what the     *)
(* worker's locals hold at each of its steps; with TypeOK and JoinBalanced *)
(* it is inductive, and the other invariants are proved on top of it.      *)

Announcing == {"render", "rendered", "blinkOn"} \cup Lit

WorkerInv ==
    /\ pc # "get" => hand \in Envelopes
    /\ pc \in {"start", "playing"} => left > 0
    /\ pc \in Announcing => msg \in Speakable
    /\ pc \in {"get", "current", "handle"} => msg = None

Core == TypeOK /\ WorkerInv /\ JoinBalanced

\* What deque.append with a maxlen keeps is a history again.
LEMMA RememberType ==
    ASSUME TypeOK, NEW m \in Msgs
    PROVE  Remember(m) \in Seq(Msgs)
<1> DEFINE longer == Append(history, m)
           extra == IF Len(longer) > HistorySize
                    THEN Len(longer) - HistorySize ELSE 0
<1>1. longer \in Seq(Msgs) /\ Len(longer) \in Nat
  BY DEF TypeOK
<1>2. extra \in Nat
  BY <1>1, SizesAssumption
<1>3. \A i \in (extra + 1)..Len(longer) : longer[i] \in Msgs
  BY <1>1, <1>2
<1>4. SubSeq(longer, extra + 1, Len(longer)) \in Seq(Msgs)
  BY <1>1, <1>2, <1>3
<1>. QED
  BY <1>4 DEF Remember

\* A replay finds a message of the history, or the fallback.
LEMMA ReplayedType ==
    ASSUME TypeOK, NEW n \in Int
    PROVE  Replayed(n) \in Speakable
BY DEF TypeOK, Replayed, Speakable

LEMMA CoreInit == Init => Core
<1> SUFFICES ASSUME Init PROVE Core
  OBVIOUS
<1>1. stuck \in BOOLEAN
  BY Zenon DEF Init
<1>2. TypeOK
  <2>1. stage \in [Envelopes -> Stages]
    BY DEF Init, Stages
  <2>2. queue \in Seq(Envelopes) /\ history \in Seq(Msgs)
    BY DEF Init
  <2>3. /\ unfinished \in Nat /\ starts \in Nat /\ left \in 0..MaxItems
        /\ lamp \in {"on", "off"} /\ heard \subseteq Speakable
    BY SizesAssumption DEF Init
  <2>4. /\ pc \in Labels /\ hand \in Envelopes \cup {None}
        /\ current \in Envelopes \cup {None} /\ msg \in Speakable \cup {None}
    BY DEF Init, Labels
  <2>5. muted \in BOOLEAN
    BY DEF Init
  <2>. QED
    BY <1>1, <2>1, <2>2, <2>3, <2>4, <2>5 DEF TypeOK
<1>3. WorkerInv /\ JoinBalanced
  BY DEF Init, WorkerInv, JoinBalanced, Announcing, Lit
<1>. QED
  BY <1>2, <1>3 DEF Core

LEMMA CoreStep == Core /\ [Next]_vars => Core'
<1> SUFFICES ASSUME Core, [Next]_vars PROVE Core'
  OBVIOUS
<1> USE SizesAssumption, EnvelopesAssumption
        DEF Core, TypeOK, WorkerInv, JoinBalanced, Stages, Labels, Lit,
            Announcing, Speakable, queueVars, workerVars, lampVars
<1>1. ASSUME NEW e \in Envelopes, Submit(e) PROVE Core'
  <2>1. CASE SubmitMuted(e) BY <2>1 DEF SubmitMuted
  <2>2. CASE SubmitCheck(e) BY <2>2 DEF SubmitCheck
  <2>3. CASE PutNowait(e) BY <2>3 DEF PutNowait
  <2>4. CASE PutFull(e) BY <2>4 DEF PutFull
  <2>. QED BY <1>1, <2>1, <2>2, <2>3, <2>4 DEF Submit
<1>2. CASE Mute BY <1>2 DEF Mute
<1>3. CASE Unmute BY <1>3 DEF Unmute
<1>4. CASE Get BY <1>4 DEF Get
<1>5. CASE SetCurrent BY <1>5 DEF SetCurrent
<1>6. CASE Discard BY <1>6 DEF Discard
<1>7. CASE HandleMsg
  <2>1. hand \in Msgs => Remember(hand) \in Seq(Msgs) BY RememberType
  <2>. QED BY <1>7, <2>1 DEF HandleMsg
<1>8. CASE HandleRepeat
  <2>1. Replayed(Number[hand]) \in Speakable
    BY <1>8, ReplayedType DEF HandleRepeat
  <2>. QED BY <1>8, <2>1 DEF HandleRepeat
<1>9. CASE Render BY <1>9 DEF Render
<1>10. CASE RenderRaises BY <1>10 DEF RenderRaises
<1>11. CASE MutedWhileRendering BY <1>11 DEF MutedWhileRendering
<1>12. CASE BeginPlayback BY <1>12 DEF BeginPlayback
<1>13. CASE BlinkOn BY <1>13 DEF BlinkOn, Switch
<1>14. CASE BlinkOff BY <1>14 DEF BlinkOff, Switch
<1>15. CASE LightOn BY <1>15 DEF LightOn, Switch
<1>16. CASE NextItem BY <1>16 DEF NextItem
<1>17. CASE StopPlayback BY <1>17 DEF StopPlayback
<1>18. CASE StartItem BY <1>18 DEF StartItem
<1>19. CASE ItemDone BY <1>19 DEF ItemDone
<1>20. CASE ItemFails BY <1>20 DEF ItemFails
<1>21. CASE LightOff BY <1>21 DEF LightOff, Switch
<1>22. CASE ClearCurrent BY <1>22 DEF ClearCurrent
<1>23. CASE TaskDone BY <1>23 DEF TaskDone
<1>24. CASE Restart
  <2>1. stuck' \in BOOLEAN
    BY <1>24, Zenon DEF Restart
  <2>2. stage' \in [Envelopes -> Stages]
    BY <1>24 DEF Restart
  <2>3. queue' \in Seq(Envelopes) /\ history' \in Seq(Msgs)
    BY <1>24 DEF Restart
  <2>4. /\ unfinished' \in Nat /\ starts' \in Nat /\ left' \in 0..MaxItems
        /\ lamp' \in {"on", "off"} /\ heard' \subseteq Speakable
        /\ pc' \in Labels /\ hand' \in Envelopes \cup {None}
        /\ current' \in Envelopes \cup {None} /\ msg' \in Speakable \cup {None}
    BY <1>24 DEF Restart
  <2>5. muted' \in BOOLEAN
    BY <1>24 DEF Restart
  <2>6. TypeOK'
    BY <2>1, <2>2, <2>3, <2>4, <2>5
  <2>7. WorkerInv' /\ JoinBalanced'
    BY <1>24 DEF Restart
  <2>. QED BY <2>6, <2>7
<1>25. CASE UNCHANGED vars BY <1>25 DEF vars
<1>. QED
  BY <1>1, <1>2, <1>3, <1>4, <1>5, <1>6, <1>7, <1>8, <1>9, <1>10, <1>11,
     <1>12, <1>13, <1>14, <1>15, <1>16, <1>17, <1>18, <1>19, <1>20, <1>21,
     <1>22, <1>23, <1>24, <1>25 DEF Next, Worker

LEMMA CoreAlways == Spec => []Core
BY CoreInit, CoreStep, PTL DEF Spec

\* The state keeps its types, and the worker never plays an item it does not
\* have nor announces a message it was not given.
THEOREM TypeCorrect == Spec => []TypeOK
BY CoreAlways, PTL DEF Core

\* queue.join() accounting stays balanced through every error path.
THEOREM JoinAlwaysBalanced == Spec => []JoinBalanced
BY CoreAlways, PTL DEF Core

-----------------------------------------------------------------------------
(* Custody: sequences without repetition, then one case per action that    *)
(* moves an envelope.                                                      *)

Elems(s) == {s[i] : i \in DOMAIN s}

Distinct(s) == \A i, j \in DOMAIN s : s[i] = s[j] => i = j

LEMMA AppendElems ==
    ASSUME NEW S, NEW s \in Seq(S), NEW e \in S
    PROVE  Elems(Append(s, e)) = Elems(s) \cup {e}
<1> DEFINE t == Append(s, e)
<1>1. /\ DOMAIN s = 1..Len(s) /\ Len(s) \in Nat
      /\ DOMAIN t = 1..(Len(s) + 1)
      /\ \A i \in 1..Len(s) : t[i] = s[i]
      /\ t[Len(s) + 1] = e
  OBVIOUS
<1> HIDE DEF t
<1>2. ASSUME NEW x \in Elems(t) PROVE x \in Elems(s) \cup {e}
  BY <1>1, <1>2 DEF Elems
<1>3. ASSUME NEW x \in Elems(s) \cup {e} PROVE x \in Elems(t)
  <2>1. CASE x = e
    <3>1. Len(s) + 1 \in DOMAIN t BY <1>1
    <3>. QED BY <3>1, <1>1, <2>1 DEF Elems
  <2>2. CASE x \in Elems(s)
    <3>1. PICK i \in DOMAIN s : x = s[i] BY <2>2 DEF Elems
    <3>2. i \in DOMAIN t /\ t[i] = x BY <1>1, <3>1
    <3>. QED BY <3>2 DEF Elems
  <2>. QED BY <1>3, <2>1, <2>2
<1>. QED BY <1>2, <1>3 DEF t

LEMMA AppendDistinct ==
    ASSUME NEW S, NEW s \in Seq(S), NEW e \in S,
           Distinct(s), e \notin Elems(s)
    PROVE  Distinct(Append(s, e))
BY DEF Elems, Distinct

LEMMA HeadTailElems ==
    ASSUME NEW S, NEW s \in Seq(S), s # <<>>
    PROVE  /\ Head(s) \in S
           /\ Tail(s) \in Seq(S)
           /\ Elems(s) = {Head(s)} \cup Elems(Tail(s))
<1> DEFINE t == Tail(s)
<1>1. /\ DOMAIN s = 1..Len(s) /\ Len(s) \in Nat \ {0}
      /\ DOMAIN t = 1..(Len(s) - 1)
      /\ \A i \in DOMAIN t : t[i] = s[i + 1]
      /\ Head(s) = s[1]
      /\ Head(s) \in S /\ t \in Seq(S)
  OBVIOUS
<1> HIDE DEF t
<1>2. ASSUME NEW x \in Elems(s) PROVE x \in {Head(s)} \cup Elems(t)
  <2>1. PICK i \in DOMAIN s : x = s[i] BY <1>2 DEF Elems
  <2>2. CASE i = 1 BY <2>1, <2>2, <1>1
  <2>3. CASE i # 1
    <3>1. i - 1 \in DOMAIN t /\ t[i - 1] = x BY <2>1, <2>3, <1>1
    <3>. QED BY <3>1 DEF Elems
  <2>. QED BY <2>2, <2>3
<1>3. ASSUME NEW x \in {Head(s)} \cup Elems(t) PROVE x \in Elems(s)
  <2>1. CASE x = Head(s)
    <3>1. 1 \in DOMAIN s BY <1>1
    <3>. QED BY <3>1, <2>1, <1>1 DEF Elems
  <2>2. CASE x \in Elems(t)
    <3>1. PICK i \in DOMAIN t : x = t[i] BY <2>2 DEF Elems
    <3>2. i + 1 \in DOMAIN s /\ s[i + 1] = x BY <1>1, <3>1
    <3>. QED BY <3>2 DEF Elems
  <2>. QED BY <1>3, <2>1, <2>2
<1>. QED BY <1>1, <1>2, <1>3 DEF t

LEMMA HeadTailDistinct ==
    ASSUME NEW S, NEW s \in Seq(S), s # <<>>, Distinct(s)
    PROVE  Distinct(Tail(s)) /\ Head(s) \notin Elems(Tail(s))
BY DEF Elems, Distinct

\* Custody is about the stages, the queue and the hand only.
LEMMA CustodyFrame ==
    ASSUME Custody, UNCHANGED <<stage, queue, hand>>,
           pc' = "get" <=> pc = "get"
    PROVE  Custody'
BY DEF Custody, Waiting, InHand

LEMMA CustodyStep == Core /\ Custody /\ [Next]_vars => Custody'
<1> SUFFICES ASSUME Core, Custody, [Next]_vars PROVE Custody'
  OBVIOUS
<1> DEFINE Owed == {e \in Envelopes : stage[e] = "accepted"}
<1>0. /\ stage \in [Envelopes -> Stages] /\ queue \in Seq(Envelopes)
      /\ Owed = Elems(queue) \cup InHand
      /\ Distinct(queue) /\ Elems(queue) \cap InHand = {}
      /\ pc # "get" => hand \in Envelopes
  BY DEF Core, TypeOK, WorkerInv, Custody, Waiting, Elems, Distinct
<1>a. ASSUME Owed' = Elems(queue') \cup InHand', Distinct(queue'),
             Elems(queue') \cap InHand' = {}
      PROVE  Custody'
  BY <1>a DEF Custody, Waiting, Elems, Distinct
<1>1. ASSUME NEW e \in Envelopes, Submit(e) PROVE Custody'
  <2>1. ASSUME UNCHANGED <<queue, hand, pc>>, NEW t \in Stages \ {"accepted"},
               stage[e] # "accepted", stage' = [stage EXCEPT ![e] = t]
        PROVE  Custody'
    <3>1. Owed' = Owed BY <1>0, <2>1
    <3>. QED BY <1>0, <1>a, <2>1, <3>1 DEF InHand
  <2>2. CASE SubmitMuted(e)
    BY <2>1, <2>2 DEF SubmitMuted, Stages, queueVars, workerVars
  <2>3. CASE SubmitCheck(e)
    BY <2>1, <2>3 DEF SubmitCheck, Stages, queueVars, workerVars
  <2>4. CASE PutFull(e)
    BY <2>1, <2>4 DEF PutFull, Stages, queueVars, workerVars
  <2>5. CASE PutNowait(e)
    <3>1. /\ e \notin Owed /\ Owed' = Owed \cup {e}
          /\ queue' = Append(queue, e) /\ InHand' = InHand
      BY <1>0, <2>5 DEF PutNowait, workerVars, InHand
    <3>2. Elems(queue') = Elems(queue) \cup {e}
      BY <1>0, <3>1, AppendElems
    <3>3. Distinct(queue')
      BY <1>0, <3>1, AppendDistinct
    <3>. QED BY <1>0, <1>a, <3>1, <3>2, <3>3
  <2>. QED BY <1>1, <2>2, <2>3, <2>4, <2>5 DEF Submit
<1>2. CASE Get
  <2>1. /\ queue # <<>> /\ queue' = Tail(queue) /\ InHand = {}
        /\ InHand' = {Head(queue)} /\ Owed' = Owed
    BY <1>2 DEF Get, InHand
  <2>2. Elems(queue) = {Head(queue)} \cup Elems(queue')
    BY <1>0, <2>1, HeadTailElems
  <2>3. Distinct(queue') /\ Head(queue) \notin Elems(queue')
    BY <1>0, <2>1, HeadTailDistinct
  <2>. QED BY <1>0, <1>a, <2>1, <2>2, <2>3
<1>3. CASE TaskDone
  <2>1. /\ InHand = {hand} /\ InHand' = {} /\ hand \in Envelopes
        /\ queue' = queue /\ stage' = [stage EXCEPT ![hand] = "finished"]
    BY <1>0, <1>3 DEF TaskDone, InHand
  <2>2. Owed' = Owed \ {hand}
    BY <1>0, <2>1
  <2>. QED BY <1>0, <1>a, <2>1, <2>2
<1>4. CASE Restart
  <2>1. Owed' = {} /\ InHand' = {} /\ queue' = <<>>
    BY <1>4 DEF Restart, InHand
  <2>2. Elems(queue') = {} /\ Distinct(queue')
    BY <2>1 DEF Elems, Distinct
  <2>. QED BY <1>a, <2>1, <2>2
<1>5. CASE Worker /\ ~Get /\ ~TaskDone
  <2>1. UNCHANGED <<stage, queue, hand>> /\ pc # "get" /\ pc' # "get"
    BY <1>5
    DEF Worker, SetCurrent, Discard, HandleMsg, HandleRepeat, Render,
        RenderRaises, MutedWhileRendering, BeginPlayback, BlinkOn, BlinkOff,
        LightOn, LightOff, Switch, NextItem, StopPlayback, StartItem,
        ItemDone, ItemFails, ClearCurrent, queueVars, workerVars
  <2>. QED BY <2>1, CustodyFrame
<1>6. CASE Mute \/ Unmute \/ UNCHANGED vars
  BY <1>6, CustodyFrame DEF Mute, Unmute, vars, queueVars, workerVars
<1>. QED BY <1>1, <1>2, <1>3, <1>4, <1>5, <1>6 DEF Next

LEMMA CustodyInit == Init => Custody
BY DEF Init, Custody, Waiting, InHand

LEMMA CustodyAlways == Spec => [](Core /\ Custody)
<1>1. Init => Core /\ Custody BY CoreInit, CustodyInit
<1>2. Core /\ Custody /\ [Next]_vars => (Core /\ Custody)'
  BY CoreStep, CustodyStep
<1>. QED BY <1>1, <1>2, PTL DEF Spec

\* No accepted envelope is lost, kept in two places or handled twice.
THEOREM CustodyKept == Spec => []Custody
BY CustodyAlways, PTL

-----------------------------------------------------------------------------
(* The queue's bound.                                                      *)

Bound == QueueSize > 0 => Len(queue) <= QueueSize

LEMMA BoundStep == Core /\ Bound /\ [Next]_vars => Bound'
<1> SUFFICES ASSUME Core, Bound, [Next]_vars PROVE Bound'
  OBVIOUS
<1> USE SizesAssumption DEF Bound
<1>0. queue \in Seq(Envelopes) BY DEF Core, TypeOK
<1>1. ASSUME NEW e \in Envelopes, PutNowait(e) PROVE Bound'
  <2>1. queue' = Append(queue, e) /\ ~(QueueSize > 0 /\ Len(queue) >= QueueSize)
    BY <1>1 DEF PutNowait, Full
  <2>2. Len(queue') = Len(queue) + 1 /\ Len(queue) \in Nat
    BY <1>0, <2>1
  <2>. QED BY <2>1, <2>2
<1>2. CASE Get
  <2>1. queue # <<>> /\ queue' = Tail(queue)
    BY <1>2 DEF Get
  <2>2. Len(queue') = Len(queue) - 1
    BY <1>0, <2>1
  <2>. QED BY <1>0, <2>2
<1>3. CASE Restart BY <1>3 DEF Restart
<1>4. ASSUME UNCHANGED queue PROVE Bound'
  BY <1>4
<1>5. ASSUME Next, ~Get, ~Restart, \A e \in Envelopes : ~PutNowait(e)
      PROVE  UNCHANGED queue
  BY <1>5
  DEF Next, Submit, SubmitMuted, SubmitCheck, PutFull, Mute, Unmute, Worker,
      SetCurrent, Discard, HandleMsg, HandleRepeat, Render, RenderRaises,
      MutedWhileRendering, BeginPlayback, BlinkOn, BlinkOff, LightOn, LightOff,
      Switch, NextItem, StopPlayback, StartItem, ItemDone, ItemFails,
      ClearCurrent, TaskDone, queueVars
<1>. QED BY <1>1, <1>2, <1>3, <1>4, <1>5 DEF vars, queueVars

\* submit never lets the queue outgrow queue_size, and never more than
\* queue_size + 1 accepted envelopes are unfinished.
THEOREM QueueStaysBounded == Spec => []QueueBounded
<1>1. Init => Core /\ Bound
  BY CoreInit, SizesAssumption DEF Init, Bound
<1>2. Core /\ Bound /\ [Next]_vars => (Core /\ Bound)'
  BY CoreStep, BoundStep
<1>3. Core /\ Bound => QueueBounded
  BY SizesAssumption DEF Core, TypeOK, JoinBalanced, Bound, QueueBounded
<1>. QED BY <1>1, <1>2, <1>3, PTL DEF Spec

-----------------------------------------------------------------------------
(* The lamp.  The property is inductive as it stands: a lamp command that  *)
(* works puts the lamp and the worker in step, one that fails sets stuck.  *)

LEMMA LampStep == Core /\ LampFollowsPlayback /\ [Next]_vars => LampFollowsPlayback'
<1> SUFFICES ASSUME Core, LampFollowsPlayback, [Next]_vars
             PROVE  LampFollowsPlayback'
  OBVIOUS
<1> USE DEF LampFollowsPlayback, Lit, lampVars
<1>0. /\ lamp \in {"on", "off"} /\ pc \in Labels /\ stuck \in BOOLEAN
  BY DEF Core, TypeOK
<1>1. CASE BlinkOn BY <1>0, <1>1 DEF BlinkOn, Switch
<1>2. CASE BlinkOff BY <1>0, <1>2 DEF BlinkOff, Switch
<1>3. CASE LightOn BY <1>0, <1>3 DEF LightOn, Switch
<1>4. CASE LightOff BY <1>0, <1>4 DEF LightOff, Switch
<1>5. CASE NextItem \/ StopPlayback \/ StartItem \/ ItemDone \/ ItemFails
  BY <1>0, <1>5 DEF NextItem, StopPlayback, StartItem, ItemDone, ItemFails
<1>6. CASE \/ Get \/ SetCurrent \/ Discard \/ HandleMsg \/ HandleRepeat
           \/ Render \/ RenderRaises \/ MutedWhileRendering \/ BeginPlayback
           \/ ClearCurrent \/ TaskDone
  <2>1. UNCHANGED <<lamp, stuck>> /\ pc \notin Lit /\ pc' \notin Lit
    BY <1>6
    DEF Get, SetCurrent, Discard, HandleMsg, HandleRepeat, Render,
        RenderRaises, MutedWhileRendering, BeginPlayback, ClearCurrent,
        TaskDone
  <2>. QED BY <2>1
<1>7. CASE Restart
  <2>1. ~stuck' => ~stuck /\ lamp = "off"
    BY <1>0, <1>7 DEF Restart
  <2>2. pc' = "get" /\ lamp' = lamp
    BY <1>7 DEF Restart
  <2>. QED BY <2>1, <2>2
<1>8. ASSUME UNCHANGED <<lamp, stuck, pc>> PROVE LampFollowsPlayback'
  BY <1>8
<1>9. ASSUME NEW e \in Envelopes, Submit(e) PROVE UNCHANGED <<lamp, stuck, pc>>
  BY <1>9 DEF Submit, SubmitMuted, SubmitCheck, PutNowait, PutFull
<1>10. CASE Mute \/ Unmute \/ UNCHANGED vars
  BY <1>8, <1>10 DEF Mute, Unmute, vars
<1>. QED
  BY <1>1, <1>2, <1>3, <1>4, <1>5, <1>6, <1>7, <1>8, <1>9, <1>10
  DEF Next, Worker

\* The lamp is lit during a playback and dark otherwise, as long as the last
\* lamp command worked and no process died with the lamp on.
THEOREM LampAlwaysFollows == Spec => []LampFollowsPlayback
<1>1. Init => LampFollowsPlayback
  <2> SUFFICES ASSUME Init, ~stuck PROVE lamp # "on" /\ pc = "get"
    BY DEF LampFollowsPlayback
  <2>. QED BY Zenon DEF Init
<1>2. Core /\ LampFollowsPlayback /\ [Next]_vars => (Core /\ LampFollowsPlayback)'
  BY CoreStep, LampStep
<1>. QED BY <1>1, <1>2, CoreInit, PTL DEF Spec

-----------------------------------------------------------------------------
(* Mute.  An item whose turn was decided before mute came on is the only   *)
(* one that can start after it; the count says so once it is kept together *)
(* with where the worker stands.                                           *)

SilenceInv ==
    /\ starts \in {0, 1}
    /\ ~muted => starts = 0
    /\ pc = "start" => starts = 0

LEMMA SilenceStep == SilenceInv /\ [Next]_vars => SilenceInv'
<1> SUFFICES ASSUME SilenceInv, [Next]_vars PROVE SilenceInv'
  OBVIOUS
<1> USE DEF SilenceInv
<1>1. ASSUME NEW e \in Envelopes, Submit(e) PROVE SilenceInv'
  BY <1>1 DEF Submit, SubmitMuted, SubmitCheck, PutNowait, PutFull
<1>2. CASE Mute \/ Unmute \/ Restart
  BY <1>2 DEF Mute, Unmute, Restart
<1>3. CASE NextItem
  BY <1>3 DEF NextItem
<1>4. CASE StartItem
  BY <1>4 DEF StartItem
<1>5. CASE Worker /\ ~NextItem /\ ~StartItem
  <2>1. UNCHANGED <<starts, muted>> /\ pc' # "start"
    BY <1>5
    DEF Worker, Get, SetCurrent, Discard, HandleMsg, HandleRepeat, Render,
        RenderRaises, MutedWhileRendering, BeginPlayback, BlinkOn, BlinkOff,
        LightOn, LightOff, Switch, StopPlayback, ItemDone, ItemFails,
        ClearCurrent, TaskDone
  <2>. QED BY <2>1
<1>6. CASE UNCHANGED vars BY <1>6 DEF vars
<1>. QED BY <1>1, <1>2, <1>3, <1>4, <1>5, <1>6 DEF Next

\* However mute and the worker interleave, at most one item starts while
\* mute is on.
THEOREM MuteSilences == Spec => []MutedSilence
<1>1. Init => SilenceInv BY DEF Init, SilenceInv
<1>2. SilenceInv => MutedSilence BY DEF SilenceInv, MutedSilence
<1>. QED BY <1>1, <1>2, SilenceStep, PTL DEF Spec

-----------------------------------------------------------------------------
(* The replay history.                                                     *)

\* Appending to the bounded history adds the message and nothing else.
LEMMA RememberElems ==
    ASSUME TypeOK, NEW m \in Msgs
    PROVE  \A i \in DOMAIN Remember(m) :
              Remember(m)[i] \in Elems(history) \cup {m}
<1> DEFINE longer == Append(history, m)
           extra == IF Len(longer) > HistorySize
                    THEN Len(longer) - HistorySize ELSE 0
           kept == SubSeq(longer, extra + 1, Len(longer))
<1>0. history \in Seq(Msgs)
  BY DEF TypeOK
<1>1. longer \in Seq(Msgs) /\ Len(longer) \in Nat /\ DOMAIN longer = 1..Len(longer)
  BY <1>0
<1>2. extra \in Nat
  BY <1>1, SizesAssumption
<1>3. Elems(longer) = Elems(history) \cup {m}
  BY <1>0, AppendElems
<1> HIDE DEF longer, extra
<1>4. ASSUME NEW i \in DOMAIN kept PROVE kept[i] \in Elems(longer)
  <2>1. kept[i] = longer[extra + i] /\ extra + i \in DOMAIN longer
    BY <1>1, <1>2
  <2>. QED BY <2>1 DEF Elems
<1>5. Remember(m) = kept
  BY DEF Remember, longer, extra
<1>. QED BY <1>3, <1>4, <1>5

LEMMA PreparedStep ==
    Core /\ PreparedStaysSilent /\ [Next]_vars => PreparedStaysSilent'
<1> SUFFICES ASSUME Core, PreparedStaysSilent, [Next]_vars
             PROVE  PreparedStaysSilent'
  OBVIOUS
<1> USE EnvelopesAssumption DEF PreparedStaysSilent, Lit
<1>0. TypeOK /\ WorkerInv
  BY DEF Core
<1>1. CASE HandleMsg
  <2>1. /\ hand \in Msgs /\ heard' = heard /\ pc' = "render"
        /\ history' = IF hand \in Prepared THEN history ELSE Remember(hand)
    BY <1>1 DEF HandleMsg
  <2>2. \A i \in DOMAIN Remember(hand) :
            Remember(hand)[i] \in Elems(history) \cup {hand}
    BY <1>0, <2>1, RememberElems
  <2>3. \A i \in DOMAIN history' : history'[i] \notin Prepared
    BY <2>1, <2>2 DEF Elems
  <2>. QED BY <2>1, <2>3
<1>2. CASE StartItem
  <2>1. /\ pc = "start" /\ heard' = heard \cup {msg}
        /\ UNCHANGED <<history, msg>>
    BY <1>2 DEF StartItem, workerVars
  <2>. QED BY <2>1
<1>3. CASE Render
  BY <1>3 DEF Render
<1>4. CASE BeginPlayback \/ BlinkOn \/ BlinkOff \/ LightOn \/ LightOff
           \/ NextItem \/ StopPlayback \/ ItemDone \/ ItemFails
  <2>1. UNCHANGED <<history, heard, msg>> /\ pc \in Lit \cup {"rendered", "blinkOn"}
    BY <1>4
    DEF BeginPlayback, BlinkOn, BlinkOff, LightOn, LightOff, Switch, NextItem,
        StopPlayback, ItemDone, ItemFails, workerVars
  <2>. QED BY <2>1
<1>5. CASE Get \/ SetCurrent \/ Discard \/ HandleRepeat \/ RenderRaises
           \/ MutedWhileRendering \/ ClearCurrent \/ TaskDone
  <2>1. UNCHANGED <<history, heard>> /\ pc' \notin Lit \cup {"rendered", "blinkOn"}
    BY <1>5
    DEF Get, SetCurrent, Discard, HandleRepeat, RenderRaises,
        MutedWhileRendering, ClearCurrent, TaskDone
  <2>. QED BY <2>1
<1>6. CASE Restart
  BY <1>6 DEF Restart
<1>7. ASSUME UNCHANGED <<history, heard, msg, pc>> PROVE PreparedStaysSilent'
  BY <1>7
<1>8. ASSUME NEW e \in Envelopes, Submit(e)
      PROVE  UNCHANGED <<history, heard, msg, pc>>
  BY <1>8 DEF Submit, SubmitMuted, SubmitCheck, PutNowait, PutFull, workerVars
<1>9. CASE Mute \/ Unmute \/ UNCHANGED vars
  BY <1>7, <1>9 DEF Mute, Unmute, vars, workerVars
<1>. QED
  BY <1>1, <1>2, <1>3, <1>4, <1>5, <1>6, <1>7, <1>8, <1>9 DEF Next, Worker

\* A prepared message is never heard, not even through a replay.
THEOREM PreparedNeverHeard == Spec => []PreparedStaysSilent
<1>1. Init => PreparedStaysSilent
  BY DEF Init, PreparedStaysSilent, Lit
<1>2. Core /\ PreparedStaysSilent /\ [Next]_vars => (Core /\ PreparedStaysSilent)'
  BY CoreStep, PreparedStep
<1>. QED BY <1>1, <1>2, CoreInit, PTL DEF Spec

\* What the history holds has been handled, or is the message in hand.
SettledInv ==
    \A i \in DOMAIN history :
        stage[history[i]] = "finished" \/ (pc # "get" /\ history[i] = hand)

ReplayInv == SettledInv /\ ReplayFollowsOriginal

LEMMA ReplayStep == Core /\ Custody /\ ReplayInv /\ [Next]_vars => ReplayInv'
<1> SUFFICES ASSUME Core, Custody, ReplayInv, [Next]_vars PROVE ReplayInv'
  OBVIOUS
<1> USE EnvelopesAssumption DEF ReplayInv, SettledInv, ReplayFollowsOriginal
<1>0. /\ TypeOK /\ WorkerInv
      /\ history \in Seq(Msgs) /\ \A i \in DOMAIN history : history[i] \in Envelopes
      /\ stage \in [Envelopes -> Stages]
      /\ msg \in Msgs \cup {NoSuchMessage, None}
      /\ pc # "get" => hand \in Envelopes /\ stage[hand] = "accepted"
  BY DEF Core, TypeOK, WorkerInv, Custody, InHand, Envelopes, Speakable
<1>1. ASSUME NEW e \in Envelopes, Submit(e) PROVE ReplayInv'
  <2>1. PICK t \in Stages : /\ stage' = [stage EXCEPT ![e] = t]
                            /\ stage[e] \in {"idle", "checked"}
                            /\ UNCHANGED <<history, hand, msg, pc>>
    BY <1>1
    DEF Submit, SubmitMuted, SubmitCheck, PutNowait, PutFull, workerVars, Stages
  <2>2. \A f \in Envelopes : stage[f] = "finished" => stage'[f] = "finished"
    BY <1>0, <2>1
  <2>. QED BY <1>0, <2>1, <2>2 DEF Envelopes
<1>2. CASE Get
  BY <1>0, <1>2 DEF Get, WorkerInv
<1>3. CASE HandleMsg
  <2>1. /\ hand \in Msgs /\ pc' # "get" /\ UNCHANGED <<stage, hand>>
        /\ history' = IF hand \in Prepared THEN history ELSE Remember(hand)
        /\ pc # "get" /\ hand \notin Repeats
    BY <1>3 DEF HandleMsg
  <2>2. \A i \in DOMAIN Remember(hand) :
            Remember(hand)[i] \in Elems(history) \cup {hand}
    BY <1>0, <2>1, RememberElems
  <2>. QED BY <2>1, <2>2 DEF Elems
<1>4. CASE HandleRepeat
  <2>1. /\ hand \in Repeats /\ pc # "get" /\ pc' # "get"
        /\ UNCHANGED <<stage, hand, history>>
        /\ msg' = Replayed(Number[hand])
    BY <1>4 DEF HandleRepeat
  <2>2. \A i \in DOMAIN history : stage[history[i]] = "finished"
    BY <1>0, <2>1
  <2>3. msg' = NoSuchMessage \/ \E i \in DOMAIN history : msg' = history[i]
    BY <2>1 DEF Replayed
  <2>. QED BY <2>1, <2>2, <2>3
<1>5. CASE TaskDone
  <2>1. /\ hand \in Envelopes /\ stage' = [stage EXCEPT ![hand] = "finished"]
        /\ history' = history /\ msg' = None
    BY <1>0, <1>5 DEF TaskDone
  <2>. QED BY <1>0, <2>1
<1>6. CASE Restart
  BY <1>6 DEF Restart
<1>7. CASE Worker /\ ~Get /\ ~HandleMsg /\ ~HandleRepeat /\ ~TaskDone
  <2>1. /\ UNCHANGED <<stage, history, hand, msg>>
        /\ pc' # "get" /\ pc # "get"
    BY <1>7
    DEF Worker, SetCurrent, Discard, Render, RenderRaises,
        MutedWhileRendering, BeginPlayback, BlinkOn, BlinkOff, LightOn,
        LightOff, Switch, NextItem, StopPlayback, StartItem, ItemDone,
        ItemFails, ClearCurrent, workerVars
  <2>. QED BY <2>1
<1>8. CASE Mute \/ Unmute \/ UNCHANGED vars
  BY <1>8 DEF Mute, Unmute, vars, workerVars
<1>. QED
  BY <1>1, <1>2, <1>3, <1>4, <1>5, <1>6, <1>7, <1>8 DEF Next

\* A replay only speaks a message whose own turn is over.
THEOREM ReplaysThePast == Spec => []ReplayFollowsOriginal
<1>1. Init => ReplayInv
  BY DEF Init, ReplayInv, SettledInv, ReplayFollowsOriginal
<1>2. Core /\ Custody /\ ReplayInv /\ [Next]_vars => (Core /\ Custody /\ ReplayInv)'
  BY CoreStep, CustodyStep, ReplayStep
<1>3. ReplayInv => ReplayFollowsOriginal
  BY DEF ReplayInv
<1>. QED BY <1>1, <1>2, <1>3, CoreInit, CustodyInit, PTL DEF Spec

-----------------------------------------------------------------------------
(* Refinement: every step of the announcer is a step of the bounded FIFO   *)
(* single server, or leaves the clients' view of it alone.                 *)

ServingNow == IF pc = "get" THEN <<>> ELSE <<hand>>

\* What a stage means to a client.
LEMMA OutcomeOf ==
    /\ \A s \in {"idle", "checked"} : Outcome(s) = "new"
    /\ \A s \in {"refusedMuted", "refusedFull"} : Outcome(s) = "refused"
    /\ Outcome("accepted") = "accepted"
    /\ Outcome("finished") = "done"
    /\ Outcome("lost") = "lost"
BY DEF Outcome

LEMMA FateOf ==
    /\ \A e \in Envelopes : Fate[e] = Outcome(stage[e])
    /\ \A e \in Envelopes : Fate'[e] = Outcome(stage'[e])
BY DEF Fate

\* One envelope changes its stage: the client's view changes there alone.
LEMMA FateMoves ==
    ASSUME stage \in [Envelopes -> Stages], NEW e \in Envelopes,
           NEW t \in Stages, stage' = [stage EXCEPT ![e] = t]
    PROVE  Fate' = [Fate EXCEPT ![e] = Outcome(t)]
BY DEF Fate

LEMMA ServerInit == Init => Server!PInit
<1> SUFFICES ASSUME Init PROVE Server!PInit
  OBVIOUS
<1>1. Fate = [e \in Envelopes |-> "new"]
  BY OutcomeOf DEF Init, Fate
<1>2. queue = <<>> /\ pc = "get"
  BY DEF Init
<1>. QED BY <1>1, <1>2 DEF Server!PInit

LEMMA ServerStep == Core /\ Custody /\ [Next]_vars => [Server!PNext]_(Server!pvars)
<1> SUFFICES ASSUME Core, Custody, [Next]_vars
             PROVE  [Server!PNext]_(Server!pvars)
  OBVIOUS
<1>0. /\ stage \in [Envelopes -> Stages] /\ queue \in Seq(Envelopes)
      /\ pc # "get" => hand \in Envelopes
  BY DEF Core, TypeOK, WorkerInv
<1>1. ASSUME NEW e \in Envelopes, Submit(e)
      PROVE  [Server!PNext]_(Server!pvars)
  <2>0. ServingNow' = ServingNow
    BY <1>1
    DEF Submit, SubmitMuted, SubmitCheck, PutNowait, PutFull, workerVars,
        ServingNow
  <2>1. CASE SubmitMuted(e) \/ PutFull(e)
    <3>1. PICK t \in {"refusedMuted", "refusedFull"} :
              stage' = [stage EXCEPT ![e] = t]
      BY <2>1 DEF SubmitMuted, PutFull
    <3>2. stage[e] \in {"idle", "checked"} /\ queue' = queue
      BY <2>1 DEF SubmitMuted, PutFull, queueVars
    <3>3. stage'[e] = t /\ t \in Stages
      BY <1>0, <3>1 DEF Stages
    <3>4. Fate[e] = "new" /\ Fate'[e] = "refused"
      BY <3>2, <3>3, FateOf, OutcomeOf
    <3>5. Fate' = [Fate EXCEPT ![e] = "refused"]
      BY <1>0, <3>1, <3>3, FateMoves, OutcomeOf
    <3>6. Server!Refuse(e)
      BY <2>0, <3>2, <3>4, <3>5 DEF Server!Refuse, ServingNow
    <3>. QED BY <3>6 DEF Server!PNext
  <2>2. CASE SubmitCheck(e)
    <3>1. /\ stage[e] = "idle" /\ stage' = [stage EXCEPT ![e] = "checked"]
          /\ queue' = queue /\ "checked" \in Stages
      BY <2>2 DEF SubmitCheck, queueVars, Stages
    <3>2. stage'[e] = "checked"
      BY <1>0, <3>1
    <3>3. Fate[e] = "new" /\ Fate'[e] = "new"
      BY <3>1, <3>2, FateOf, OutcomeOf
    <3>4. Fate' = [Fate EXCEPT ![e] = "new"]
      BY <1>0, <3>1, FateMoves, OutcomeOf
    <3>5. Fate' = Fate
      BY <3>3, <3>4 DEF Fate
    <3>. QED BY <2>0, <3>1, <3>5 DEF Server!pvars, ServingNow
  <2>3. CASE PutNowait(e)
    <3>1. /\ stage[e] = "checked" /\ stage' = [stage EXCEPT ![e] = "accepted"]
          /\ queue' = Append(queue, e) /\ "accepted" \in Stages
          /\ ~(QueueSize > 0 /\ Len(queue) >= QueueSize)
      BY <2>3 DEF PutNowait, Full, Stages
    <3>2. stage'[e] = "accepted"
      BY <1>0, <3>1
    <3>3. Fate[e] = "new" /\ Fate'[e] = "accepted"
      BY <3>1, <3>2, FateOf, OutcomeOf
    <3>4. Fate' = [Fate EXCEPT ![e] = "accepted"]
      BY <1>0, <3>1, FateMoves, OutcomeOf
    <3>5. QueueSize > 0 => Len(queue) < QueueSize
      BY <1>0, <3>1, SizesAssumption
    <3>6. Server!Accept(e)
      BY <2>0, <3>1, <3>3, <3>4, <3>5 DEF Server!Accept, ServingNow
    <3>. QED BY <3>6 DEF Server!PNext
  <2>. QED BY <1>1, <2>1, <2>2, <2>3 DEF Submit
<1>2. CASE Get
  <2>1. /\ pc = "get" /\ queue # <<>> /\ queue' = Tail(queue)
        /\ pc' = "current" /\ hand' = Head(queue) /\ stage' = stage
    BY <1>2 DEF Get
  <2>2. Fate' = Fate
    BY <2>1 DEF Fate
  <2>3. Server!Take
    BY <2>1, <2>2 DEF Server!Take
  <2>. QED BY <2>3 DEF Server!PNext
<1>3. CASE TaskDone
  <2>1. /\ pc = "taskDone" /\ pc' = "get" /\ queue' = queue
        /\ stage' = [stage EXCEPT ![hand] = "finished"]
        /\ hand \in Envelopes /\ "finished" \in Stages
    BY <1>0, <1>3 DEF TaskDone, Stages
  <2>2. Fate' = [Fate EXCEPT ![hand] = "done"]
    BY <1>0, <2>1, FateMoves, OutcomeOf
  <2>3. Server!Finish
    BY <2>1, <2>2 DEF Server!Finish
  <2>. QED BY <2>3 DEF Server!PNext
<1>4. CASE Restart
  <2> DEFINE dying == {e \in Envelopes : stage[e] = "checked"}
  <2>1. /\ queue' = <<>> /\ pc' = "get"
        /\ \A e \in Envelopes :
              stage'[e] = IF stage[e] \in {"checked", "accepted"} THEN "lost"
                          ELSE stage[e]
    BY <1>4 DEF Restart
  <2>2. dying \in SUBSET {e \in Envelopes : Fate[e] = "new"}
    BY FateOf, OutcomeOf
  <2>3. \A e \in Envelopes :
           Fate'[e] = IF e \in dying \/ Fate[e] = "accepted" THEN "lost"
                      ELSE Fate[e]
    <3> TAKE e \in Envelopes
    <3>1. stage[e] \in Stages
      BY <1>0
    <3>2. CASE stage[e] \in {"checked", "accepted"}
      BY <2>1, <3>2, FateOf, OutcomeOf
    <3>3. CASE stage[e] \notin {"checked", "accepted"}
      <4>1. stage'[e] = stage[e]
        BY <2>1, <3>3
      <4>2. Fate'[e] = Fate[e] /\ Fate[e] # "accepted" /\ e \notin dying
        BY <3>1, <3>3, <4>1, FateOf, OutcomeOf DEF Stages
      <4>. QED BY <4>2
    <3>. QED BY <3>2, <3>3
  <2>4. Fate' = [e \in Envelopes |->
                    IF e \in dying \/ Fate[e] = "accepted" THEN "lost"
                    ELSE Fate[e]]
    <3>1. Fate' = [e \in Envelopes |-> Fate'[e]]
      BY DEF Fate
    <3>. QED BY <3>1, <2>3
  <2> HIDE DEF dying
  <2>5. Server!Reset
    BY <2>1, <2>2, <2>4 DEF Server!Reset
  <2>. QED BY <2>5 DEF Server!PNext
<1>5. ASSUME UNCHANGED <<stage, queue, ServingNow>>
      PROVE  [Server!PNext]_(Server!pvars)
  <2>1. Fate' = Fate
    BY <1>5 DEF Fate
  <2>. QED BY <1>5, <2>1 DEF Server!pvars, ServingNow
<1>6. CASE Worker /\ ~Get /\ ~TaskDone
  <2>1. UNCHANGED <<stage, queue, hand>> /\ pc # "get" /\ pc' # "get"
    BY <1>6
    DEF Worker, SetCurrent, Discard, HandleMsg, HandleRepeat, Render,
        RenderRaises, MutedWhileRendering, BeginPlayback, BlinkOn, BlinkOff,
        LightOn, LightOff, Switch, NextItem, StopPlayback, StartItem,
        ItemDone, ItemFails, ClearCurrent, queueVars, workerVars
  <2>. QED BY <1>5, <2>1 DEF ServingNow
<1>7. CASE Mute \/ Unmute \/ UNCHANGED vars
  BY <1>5, <1>7 DEF Mute, Unmute, vars, queueVars, workerVars, ServingNow
<1>. QED BY <1>1, <1>2, <1>3, <1>4, <1>6, <1>7 DEF Next

\* The announcer implements the bounded FIFO single server: envelopes are
\* served one at a time, in the order they were accepted, each once.
THEOREM ImplementsServer == Spec => ServesInOrder
BY CustodyAlways, ServerInit, ServerStep, PTL
DEF Spec, ServesInOrder, Server!PSpec
=============================================================================
