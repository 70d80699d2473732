------------------------------ MODULE Gateway ------------------------------
(***************************************************************************)
(* The two servers in front of the announcer (src/krzykacz/http_server.py, *)
(* src/krzykacz/mcp_server.py), composed with the Announcer they submit to *)
(* and the RateLimiter they share.  Every call runs in a thread of its     *)
(* own: it is checked, passes the limiter, reads its body or picks its     *)
(* message, is submitted, leaves its audit line and is answered.  The      *)
(* ntfy listener submits past all that.  Mute is a call that is never      *)
(* limited, and GET /v1/queue reads the announcer while it runs.           *)
(***************************************************************************)
EXTENDS Announcer, RateLimiter

CONSTANTS
    Via,       \* Via[c]: the server that call c comes to
    Kind,      \* Kind[c]: a text or replay to publish, or a random pick
    MayFail    \* MayFail[c]: the sets of flaws that the request of c may have

\* What a check may find wrong with a request, named as it is answered, ...
Findable == {"unauthorized", "notFound", "notAllowed", "badLength", "tooLarge"}

\* ... and what shows later: a body that never comes, no sound to pick from.
Flaws == Findable \cup {"stalls", "nothing"}

\* Envelopes that are not Calls come from ntfy.
ASSUME GatewayAssumption ==
    /\ Calls \subseteq Envelopes
    /\ Via \in [Calls -> {"http", "mcp"}]
    /\ Kind \in [Calls -> {"publish", "sound", "curse"}]
    /\ MayFail \in [Calls -> SUBSET SUBSET Flaws]

VARIABLES
    flaws,     \* flaws[c]: what is wrong with the request of c
    reply,     \* reply[c]: what the client of c was answered
    audited,   \* audited[c]: audit lines written for c
    view,      \* the answer to GET /v1/queue being put together
    before     \* auxiliary: calls made to a process that has died since

answerVars == <<reply, audited>>
gatewayVars == <<flaws, answerVars, view, before>>
gvars == <<vars, lvars, gatewayVars>>

Replies == Findable \cup {"none", "queued", "muted", "full", "limited",
                          "nothing", "broken"}

NoView == [open |-> FALSE, pending |-> <<>>]

GTypeOK ==
    /\ LTypeOK
    /\ \A c \in Calls : flaws[c] \in MayFail[c]
    /\ reply \in [Calls -> Replies]
    /\ audited \in [Calls -> 0..2]
    /\ view.open \in BOOLEAN
    /\ view.pending \in Seq(Envelopes)
    /\ before \subseteq Calls

GInit ==
    /\ Init
    /\ LInit
    /\ flaws \in {f \in [Calls -> UNION {MayFail[c] : c \in Calls}] :
                      \A c \in Calls : f[c] \in MayFail[c]}
    /\ reply = [c \in Calls |-> "none"]
    /\ audited = [c \in Calls |-> 0]
    /\ view = NoView
    /\ before = {}

-----------------------------------------------------------------------------
(* Answering: the audit line comes first, and the client may be gone by    *)
(* the time the answer is written.                                         *)

\* Mutant: the line is written after the answer, when that did not raise.
AnsweredThenLogged(c, what, lines) ==
    /\ \/ /\ reply' = [reply EXCEPT ![c] = what]
          /\ audited' = [audited EXCEPT ![c] = @ + lines]
       \/ /\ reply' = [reply EXCEPT ![c] = "broken"]
          /\ UNCHANGED audited
    /\ UNCHANGED <<vars, lvars, flaws, view, before>>

Answered(c, what, lines) ==
    /\ \E r \in {what, "broken"} : reply' = [reply EXCEPT ![c] = r]
    /\ audited' = [audited EXCEPT ![c] = @ + lines]
    /\ UNCHANGED <<vars, lvars, flaws, view, before>>

-----------------------------------------------------------------------------
(* The checks.  The HTTP handler authenticates, routes, and looks at the   *)
(* length of a body; the MCP middleware only authenticates.                *)

Routed == <<"unauthorized", "notFound", "notAllowed">>

Checks(c) ==
    CASE Via[c] = "mcp" -> <<"unauthorized">>
      [] Via[c] = "http" /\ Kind[c] # "publish" -> Routed
      [] OTHER -> Routed \o <<"badLength", "tooLarge">>

\* The checks that the request of c does not stand.
Failing(c) == {i \in DOMAIN Checks(c) : Checks(c)[i] \in flaws[c]}

\* The first of them is named.
Reject(c) ==
    /\ reply[c] = "none"
    /\ call[c] = "idle"
    /\ \E i \in Failing(c) :
          /\ \A j \in Failing(c) : i <= j
          /\ Answered(c, Checks(c)[i], IF Via[c] = "http" THEN 1 ELSE 0)

\* Mutant: the budget is asked for as soon as the request is routed.
PassedRoute(c) == \A i \in Failing(c) : i > Len(Routed)

Passed(c) == Failing(c) = {}

-----------------------------------------------------------------------------
(* The budget: rate_limit_or_log, shared by every triggering call.         *)

Budget(c) ==
    /\ reply[c] = "none"
    /\ Passed(c)
    /\ AllowAll(c) \/ ReadClock(c) \/ Limit(c) \/ Admit(c)
    /\ UNCHANGED <<vars, gatewayVars>>

\* rate_limit_or_log writes a line, and the HTTP handler's answer another.
ReplyLimited(c) ==
    /\ reply[c] = "none"
    /\ call[c] = "limited"
    /\ Answered(c, "limited", IF Via[c] = "http" THEN 2 ELSE 1)

\* Mutant: a random sound does not ask the limiter.
ClearedOrSound(c) == call[c] = "admitted" \/ Kind[c] = "sound"

Cleared(c) == call[c] = "admitted"

\* Admitted, and neither submitted nor answered yet.
Underway(c) == Cleared(c) /\ reply[c] = "none" /\ stage[c] = "idle"

\* A body to be read that does not come, or no curated sound to pick.
Stalls(c)  == Via[c] = "http" /\ Kind[c] = "publish" /\ "stalls" \in flaws[c]
Pickless(c) == Kind[c] = "sound" /\ "nothing" \in flaws[c]

\* Mutant: the handler's socket has no timeout.
BodyNeverTimesOut(c) == FALSE

\* After ten seconds http.server closes the connection, without a line.
BodyTimesOut(c) ==
    /\ Underway(c)
    /\ Stalls(c)
    /\ reply' = [reply EXCEPT ![c] = "broken"]
    /\ UNCHANGED <<vars, lvars, flaws, audited, view, before>>

NothingToPlay(c) ==
    /\ Underway(c)
    /\ Pickless(c)
    /\ Answered(c, "nothing", 1)

SubmitStep(e) ==
    /\ e \in Calls =>
          Cleared(e) /\ reply[e] = "none" /\ ~Stalls(e) /\ ~Pickless(e)
    /\ Submit(e)
    /\ UNCHANGED <<lvars, gatewayVars>>

-----------------------------------------------------------------------------
(* The answers.  A refused submit does not say why: the handler asks the   *)
(* mute flag again when it words the reply.                                *)

Refused(e) == stage[e] \in {"refusedMuted", "refusedFull"}

\* Mutant: an answer that broke off is written again.
ReplyQueuedAgain(c) ==
    /\ reply[c] \in {"none", "broken"}
    /\ stage[c] \in {"accepted", "finished"}
    /\ Answered(c, "queued", 1)

ReplyQueued(c) ==
    /\ reply[c] = "none"
    /\ stage[c] \in {"accepted", "finished"}
    /\ Answered(c, "queued", 1)

\* A queue that was full is never named: "full" is a drop without a reason.
ReplyDropped(c) ==
    /\ reply[c] = "none"
    /\ Refused(c)
    /\ Answered(c, IF muted THEN "muted" ELSE "full", 1)

\* POST /v1/mute and /v1/unmute, set_mute: authenticated, never limited.
SetMuted ==
    /\ Mute \/ Unmute
    /\ UNCHANGED <<lvars, gatewayVars>>

-----------------------------------------------------------------------------
(* snapshot(): the waiting envelopes are copied under the queue's lock,    *)
(* and _current is read after the lock is gone.                            *)

ViewCopy ==
    /\ ~view.open
    /\ view' = [open |-> TRUE, pending |-> queue]
    /\ UNCHANGED <<vars, lvars, flaws, answerVars, before>>

\* What it reads is current, and the answer is written.
ViewRead ==
    /\ view.open
    /\ view' = NoView
    /\ UNCHANGED <<vars, lvars, flaws, answerVars, before>>

-----------------------------------------------------------------------------
Begun(c) == call[c] # "idle" \/ reply[c] # "none"

\* The process dies: connections break, and the limiter's table is gone.
RestartAll ==
    /\ Restart
    /\ lastCall' = [ip \in {} |-> 0]
    /\ pruned' = Never
    /\ before' = {c \in Calls : Begun(c)}
    /\ reply' = [c \in Calls |-> IF Begun(c) /\ reply[c] = "none"
                                 THEN "broken" ELSE reply[c]]
    /\ view' = NoView
    /\ UNCHANGED <<interval, clock, call, now, overtaken, flaws, audited>>

Underneath ==
    /\ \/ Worker /\ UNCHANGED lvars
       \/ Tick /\ UNCHANGED vars
    /\ UNCHANGED gatewayVars

GNext ==
    \/ \E e \in Envelopes : SubmitStep(e)
    \/ \E c \in Calls :
          \/ Reject(c) \/ Budget(c) \/ ReplyLimited(c)
          \/ BodyTimesOut(c) \/ NothingToPlay(c)
          \/ ReplyQueued(c) \/ ReplyDropped(c)
    \/ SetMuted
    \/ ViewCopy
    \/ ViewRead
    \/ Underneath
    \/ RestartAll

GSpec == GInit /\ [][GNext]_gvars

\* Once calls have reached the limiter, their threads are scheduled until they
\* have answered: a body that does not come is given up after ten seconds.
\* Fairness to any of them is fairness to each, for none has endless work.  The
\* worker is not scheduled: it may sit in a long playback for ever.
Handler(c) ==
    /\ call[c] # "idle"
    /\ \/ Budget(c) \/ ReplyLimited(c)
       \/ BodyTimesOut(c) \/ NothingToPlay(c) \/ SubmitStep(c)
       \/ ReplyQueued(c) \/ ReplyDropped(c)

GFairness == WF_gvars(\E c \in Calls : Handler(c))

GFairSpec == GSpec /\ GFairness

-----------------------------------------------------------------------------
\* What a client is told is what happens.  A call answered "queued" was put
\* in the queue and is only ever lost to a restart; one answered with
\* anything else never waits, is never in hand and is never heard; and only
\* a drop ever got as far as submit (http_server.py:115-178,
\* mcp_server.py:185-188).
AnswersAreKept ==
    \A c \in Calls :
        /\ reply[c] = "queued" => stage[c] \in {"accepted", "finished", "lost"}
        /\ reply[c] \notin {"none", "queued", "broken"} =>
              /\ c \notin Waiting \cup InHand \cup heard
              /\ reply[c] \notin {"muted", "full"} => stage[c] = "idle"

\* Two calls from one address that both got as far as submit read the clock
\* at least an interval apart, whichever server each came to: "one IP can't
\* get two calls in by mixing them" (README.md:178).  This is within one life
\* of the process: calls made before the last restart are left out, since the
\* process that died has forgotten them, and so is a call overtaken by a prune.
OneCallPerInterval ==
    interval > 0 =>
        \A a, b \in Calls \ (before \cup overtaken) :
            /\ a # b
            /\ IpOf[a] = IpOf[b]
            /\ stage[a] # "idle"
            /\ stage[b] # "idle"
            => Apart(a, b)

\* Only a well-formed call spends its address's budget (http_server.py:167-170):
\* what the table holds for an address is the reading of an admitted call
\* from there with no flaw that the checks look for.
GoodCallsSpend ==
    \A ip \in DOMAIN lastCall :
        \E c \in Calls \ before :
            /\ IpOf[c] = ip
            /\ call[c] = "admitted"
            /\ now[c] = lastCall[ip]
            /\ Failing(c) = {}

\* The audit line "must not depend on the write succeeding"
\* (http_server.py:72-74): a call that got as far as submit has exactly one
\* line when its handler is through, whether or not the answer was read, and
\* no call is answered by HTTP, or by an MCP tool, without one.
AuditedAnyway ==
    \A c \in Calls \ before :
        /\ reply[c] # "none" /\ stage[c] # "idle" => audited[c] = 1
        /\ reply[c] \notin {"none", "broken", "unauthorized"} => audited[c] > 0

\* The copy in a view stays in step with the queue until _current is read:
\* what the worker took since is gone from its front and what was accepted
\* since is added at its end; no waiting envelope is missing, and none
\* changes its place.  And whenever that reading comes, an envelope shown as
\* playing that is also shown as waiting has only finished ones before it
\* (announcer.py:108-115).
ViewInStep ==
    view.open =>
        /\ \E taken \in 0..Len(view.pending) :
              LET rest == SubSeq(view.pending, taken + 1, Len(view.pending))
              IN  /\ Len(rest) <= Len(queue)
                  /\ rest = SubSeq(queue, 1, Len(rest))
                  /\ \A i \in 1..taken :
                        view.pending[i] \in InHand
                        \/ stage[view.pending[i]] = "finished"
        /\ \A i, j \in DOMAIN view.pending :
              i < j /\ current = view.pending[j] =>
                  stage[view.pending[i]] = "finished"

\* submit never blocks: a call that has begun is answered or its connection
\* ends, even when the worker never finishes what it is playing
\* (announcer.py:131-137) and when the client sends no body.
CallsAreAnswered ==
    []<>(\A c \in Calls : call[c] # "idle" => reply[c] # "none")

\* A drop is blamed on mute only when mute caused it, and on the queue only
\* when the queue did (mcp_server.py:273 "for a truthful reply").  The code
\* does not keep this.
TruthfulReply ==
    \A c \in Calls :
        /\ reply[c] = "muted" => stage[c] # "refusedFull"
        /\ reply[c] = "full" => stage[c] # "refusedMuted"
=============================================================================
