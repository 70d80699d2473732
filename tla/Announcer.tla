----------------------------- MODULE Announcer -----------------------------
(***************************************************************************)
(* The announcer of krzykacz (src/krzykacz/announcer.py): message sources  *)
(* hand envelopes to a bounded FIFO queue, one worker thread takes them    *)
(* one at a time, renders them, and drives the lamp and the speaker.  Mute *)
(* may be switched by any client at any moment, and the process may die    *)
(* and be restarted by systemd between any two steps.                      *)
(*                                                                         *)
(* An envelope of the model is one call of Announcer.submit.  Audio is     *)
(* abstracted to the number of playback items a message renders to.        *)
(***************************************************************************)
EXTENDS Integers, Sequences

CONSTANTS
    Msgs,           \* envelopes that carry a message (protocol.Msg)
    Repeats,        \* envelopes that ask for a replay (protocol.Repeat)
    Prepared,       \* the messages sent with prepare=true
    Number,         \* Number[e]: the history index a replay asks for
    NoSuchMessage,  \* the message spoken for an index out of range
    None,           \* Python's None
    QueueSize,      \* queue.Queue(maxsize): unbounded when <= 0
    HistorySize,    \* deque(maxlen) of the replay history
    MaxItems        \* bound: items a message renders to

Envelopes == Msgs \cup Repeats

ASSUME EnvelopesAssumption ==
    /\ Msgs \cap Repeats = {}
    /\ Prepared \subseteq Msgs
    /\ Number \in [Repeats -> Int]
    /\ NoSuchMessage \notin Envelopes
    /\ None \notin Envelopes \cup {NoSuchMessage}

ASSUME SizesAssumption ==
    /\ QueueSize \in Int
    /\ HistorySize \in Nat
    /\ MaxItems \in Nat \ {0}

VARIABLES
    stage,       \* stage[e]: how far submit, and then the worker, got with e
    queue,       \* the waiting envelopes, oldest first
    unfinished,  \* queue.Queue.unfinished_tasks
    muted,       \* the mute flag, a threading.Event
    pc,          \* the worker thread's next step
    hand,        \* _run's local: the envelope being handled
    current,     \* _current, what snapshot() reports as playing
    msg,         \* _announce's argument: the message being announced
    left,        \* playback items not yet played
    history,     \* messages open to replay, oldest first
    lamp,        \* the physical state of the lamp
    heard,       \* auxiliary: messages of which some item was started
    starts,      \* auxiliary: items started since mute came on, 0 if unmuted
    stuck        \* auxiliary: the last lamp command failed, or was forgotten
                 \* by a process that died with the lamp on

queueVars  == <<queue, unfinished>>
workerVars == <<hand, current, msg, left>>
lampVars   == <<lamp, stuck>>
vars == <<stage, queueVars, muted, pc, workerVars, history, lampVars,
          heard, starts>>

Stages == {"idle", "checked", "refusedMuted", "refusedFull",
           "accepted", "finished", "lost"}

Labels == {"get", "current", "handle", "render", "rendered", "blinkOn",
           "blinkOff", "lightOn", "loop", "start", "playing", "lightOff",
           "clear", "taskDone"}

\* The steps between the first lamp command of a message and the last.
Lit == {"blinkOff", "lightOn", "loop", "start", "playing", "lightOff"}

Speakable == Msgs \cup {NoSuchMessage}

TypeOK ==
    /\ stage \in [Envelopes -> Stages]
    /\ queue \in Seq(Envelopes)
    /\ unfinished \in Nat
    /\ muted \in BOOLEAN
    /\ pc \in Labels
    /\ hand \in Envelopes \cup {None}
    /\ current \in Envelopes \cup {None}
    /\ msg \in Speakable \cup {None}
    /\ left \in 0..MaxItems
    /\ history \in Seq(Msgs)
    /\ lamp \in {"on", "off"}
    /\ heard \subseteq Speakable
    /\ starts \in Nat
    /\ stuck \in BOOLEAN

Waiting == {queue[i] : i \in DOMAIN queue}
InHand  == IF pc = "get" THEN {} ELSE {hand}

-----------------------------------------------------------------------------
(* Starting: nothing switches the lamp off, so it is as the last process   *)
(* (or the boot) left it.                                                  *)

Init ==
    /\ stage = [e \in Envelopes |-> "idle"]
    /\ queue = <<>>
    /\ unfinished = 0
    /\ muted = FALSE
    /\ pc = "get"
    /\ hand = None
    /\ current = None
    /\ msg = None
    /\ left = 0
    /\ history = <<>>
    /\ lamp \in {"on", "off"}
    /\ heard = {}
    /\ starts = 0
    /\ stuck = (lamp = "on")

-----------------------------------------------------------------------------
(* submit, run by the threads of the message sources: the mute flag is     *)
(* read first, and the queue's own lock is only taken by put_nowait.       *)

SubmitMuted(e) ==
    /\ stage[e] = "idle"
    /\ muted
    /\ stage' = [stage EXCEPT ![e] = "refusedMuted"]
    /\ UNCHANGED <<queueVars, muted, pc, workerVars, history, lampVars,
                   heard, starts>>

SubmitCheck(e) ==
    /\ stage[e] = "idle"
    /\ ~muted
    /\ stage' = [stage EXCEPT ![e] = "checked"]
    /\ UNCHANGED <<queueVars, muted, pc, workerVars, history, lampVars,
                   heard, starts>>

\* Mutant: one too many.
FullOffByOne == QueueSize > 0 /\ Len(queue) > QueueSize

Full == QueueSize > 0 /\ Len(queue) >= QueueSize

\* Mutant: the message enters the replay history when it is accepted.
PutRemembers(e) ==
    /\ stage[e] = "checked"
    /\ ~Full
    /\ queue' = Append(queue, e)
    /\ unfinished' = unfinished + 1
    /\ stage' = [stage EXCEPT ![e] = "accepted"]
    /\ history' = IF e \in Msgs \ Prepared THEN <<e>> ELSE history
    /\ UNCHANGED <<muted, pc, workerVars, lampVars, heard, starts>>

PutNowait(e) ==
    /\ stage[e] = "checked"
    /\ ~Full
    /\ queue' = Append(queue, e)
    /\ unfinished' = unfinished + 1
    /\ stage' = [stage EXCEPT ![e] = "accepted"]
    /\ UNCHANGED <<muted, pc, workerVars, history, lampVars, heard, starts>>

\* Mutant: the envelope is refused, and queued all the same.
PutAnyway(e) ==
    /\ stage[e] = "checked"
    /\ Full
    /\ queue' = Append(queue, e)
    /\ unfinished' = unfinished + 1
    /\ stage' = [stage EXCEPT ![e] = "refusedFull"]
    /\ UNCHANGED <<muted, pc, workerVars, history, lampVars, heard, starts>>

PutFull(e) ==
    /\ stage[e] = "checked"
    /\ Full
    /\ stage' = [stage EXCEPT ![e] = "refusedFull"]
    /\ UNCHANGED <<queueVars, muted, pc, workerVars, history, lampVars,
                   heard, starts>>

Submit(e) == SubmitMuted(e) \/ SubmitCheck(e) \/ PutNowait(e) \/ PutFull(e)

\* set_muted is idempotent; what was started before the flag came on is not
\* counted against it.
Mute ==
    /\ muted' = TRUE
    /\ UNCHANGED <<stage, queueVars, pc, workerVars, history, lampVars,
                   heard, starts>>

Unmute ==
    /\ muted' = FALSE
    /\ starts' = 0
    /\ UNCHANGED <<stage, queueVars, pc, workerVars, history, lampVars, heard>>

-----------------------------------------------------------------------------
(* The worker: _run and _handle.                                           *)

\* Mutant: the newest envelope is served first.
GetNewest ==
    /\ pc = "get"
    /\ queue # <<>>
    /\ hand' = queue[Len(queue)]
    /\ queue' = SubSeq(queue, 1, Len(queue) - 1)
    /\ pc' = "current"
    /\ UNCHANGED <<stage, unfinished, muted, current, msg, left, history,
                   lampVars, heard, starts>>

\* Mutant: the worker looks at the queue's head and leaves it there.
GetPeeks ==
    /\ pc = "get"
    /\ queue # <<>>
    /\ hand' = Head(queue)
    /\ pc' = "current"
    /\ UNCHANGED <<stage, queueVars, muted, current, msg, left, history,
                   lampVars, heard, starts>>

Get ==
    /\ pc = "get"
    /\ queue # <<>>
    /\ hand' = Head(queue)
    /\ queue' = Tail(queue)
    /\ pc' = "current"
    /\ UNCHANGED <<stage, unfinished, muted, current, msg, left, history,
                   lampVars, heard, starts>>

SetCurrent ==
    /\ pc = "current"
    /\ current' = hand
    /\ pc' = "handle"
    /\ UNCHANGED <<stage, queueVars, muted, hand, msg, left, history,
                   lampVars, heard, starts>>

\* Mutant: a discarded envelope is task_done()d on the spot as well.
DiscardTwice ==
    /\ pc = "handle"
    /\ muted
    /\ unfinished' = unfinished - 1
    /\ pc' = "clear"
    /\ UNCHANGED <<stage, queue, muted, workerVars, history, lampVars,
                   heard, starts>>

Discard ==
    /\ pc = "handle"
    /\ muted
    /\ pc' = "clear"
    /\ UNCHANGED <<stage, queueVars, muted, workerVars, history, lampVars,
                   heard, starts>>

\* deque(maxlen=HistorySize).append
Remember(m) ==
    LET longer == Append(history, m)
        extra  == IF Len(longer) > HistorySize
                  THEN Len(longer) - HistorySize ELSE 0
    IN  SubSeq(longer, extra + 1, Len(longer))

\* Mutant: prepared messages are remembered too.
HandleMsgRemembersAll ==
    /\ pc = "handle"
    /\ ~muted
    /\ hand \in Msgs
    /\ history' = Remember(hand)
    /\ msg' = hand
    /\ pc' = "render"
    /\ UNCHANGED <<stage, queueVars, muted, hand, current, left, lampVars,
                   heard, starts>>

\* An envelope is a message or a replay: the branch for any other is left out
\* (announcer.py:179-181).
HandleMsg ==
    /\ pc = "handle"
    /\ ~muted
    /\ hand \in Msgs
    /\ history' = IF hand \in Prepared THEN history ELSE Remember(hand)
    /\ msg' = hand
    /\ pc' = "render"
    /\ UNCHANGED <<stage, queueVars, muted, hand, current, left, lampVars,
                   heard, starts>>

\* Python's history[n]: 0-based from the oldest, negative from the newest.
Replayed(n) ==
    LET i == IF n < 0 THEN Len(history) + n + 1 ELSE n + 1
    IN  IF i \in DOMAIN history THEN history[i] ELSE NoSuchMessage

HandleRepeat ==
    /\ pc = "handle"
    /\ ~muted
    /\ hand \in Repeats
    /\ msg' = Replayed(Number[hand])
    /\ pc' = "render"
    /\ UNCHANGED <<stage, queueVars, muted, hand, current, left, history,
                   lampVars, heard, starts>>

-----------------------------------------------------------------------------
(* The worker: _announce.  Rendering comes before the lamp; a message may  *)
(* render to nothing (every synthesis failed), and the mute flag is only   *)
(* read at three points.                                                   *)

Render ==
    /\ pc = "render"
    /\ left' \in 0..MaxItems
    /\ pc' = IF msg \in Prepared THEN "clear" ELSE "rendered"
    /\ UNCHANGED <<stage, queueVars, muted, hand, current, msg, history,
                   lampVars, heard, starts>>

\* Mutant: no finally, so the worker goes on without task_done.
RenderRaisesPastTaskDone ==
    /\ pc = "render"
    /\ pc' = "get"
    /\ UNCHANGED <<stage, queueVars, muted, workerVars, history, lampVars,
                   heard, starts>>

\* Mutant: nothing catches the exception, and the worker thread ends.
RenderRaisesUncaught ==
    /\ pc = "render"
    /\ pc' = "dead"
    /\ UNCHANGED <<stage, queueVars, muted, workerVars, history, lampVars,
                   heard, starts>>

\* An exception that leaves rendering (a name the filesystem refuses to
\* look up) is caught in _run, past the lamp and the speaker.
RenderRaises ==
    /\ pc = "render"
    /\ pc' = "clear"
    /\ UNCHANGED <<stage, queueVars, muted, workerVars, history, lampVars,
                   heard, starts>>

MutedWhileRendering ==
    /\ pc = "rendered"
    /\ muted
    /\ pc' = "clear"
    /\ UNCHANGED <<stage, queueVars, muted, workerVars, history, lampVars,
                   heard, starts>>

BeginPlayback ==
    /\ pc = "rendered"
    /\ ~muted
    /\ pc' = "blinkOn"
    /\ UNCHANGED <<stage, queueVars, muted, workerVars, history, lampVars,
                   heard, starts>>

\* One uhubctl call.  It works, or it fails without a word and the worker
\* goes on as if it had worked, or it raises and the try block is left.
Switch(from, state, next, onRaise) ==
    /\ pc = from
    /\ \/ lamp' = state /\ stuck' = FALSE /\ pc' = next
       \/ lamp' = lamp /\ stuck' = TRUE /\ pc' \in {next, onRaise}
    /\ UNCHANGED <<stage, queueVars, muted, workerVars, history, heard, starts>>

BlinkOn  == Switch("blinkOn", "on", "blinkOff", "loop")
BlinkOff == Switch("blinkOff", "off", "lightOn", "loop")
LightOn  == Switch("lightOn", "on", "loop", "loop")
LightOff == Switch("lightOff", "off", "clear", "clear")

\* Mutant: the loop does not look at the mute flag.
NextItemUnchecked ==
    /\ pc = "loop"
    /\ left > 0
    /\ pc' = "start"
    /\ UNCHANGED <<stage, queueVars, muted, workerVars, history, lampVars,
                   heard, starts>>

NextItem ==
    /\ pc = "loop"
    /\ left > 0
    /\ ~muted
    /\ pc' = "start"
    /\ UNCHANGED <<stage, queueVars, muted, workerVars, history, lampVars,
                   heard, starts>>

\* Mutant: a muted playback returns past the lamp.
StopPlaybackLit ==
    /\ pc = "loop"
    /\ left = 0 \/ muted
    /\ pc' = IF muted THEN "clear" ELSE "lightOff"
    /\ UNCHANGED <<stage, queueVars, muted, workerVars, history, lampVars,
                   heard, starts>>

StopPlayback ==
    /\ pc = "loop"
    /\ left = 0 \/ muted
    /\ pc' = "lightOff"
    /\ UNCHANGED <<stage, queueVars, muted, workerVars, history, lampVars,
                   heard, starts>>

\* aplay starts.  From here the flag can change and nothing reads it until
\* the item ends.
StartItem ==
    /\ pc = "start"
    /\ pc' = "playing"
    /\ heard' = heard \cup {msg}
    /\ starts' = IF muted THEN starts + 1 ELSE 0
    /\ UNCHANGED <<stage, queueVars, muted, workerVars, history, lampVars>>

ItemDone ==
    /\ pc = "playing"
    /\ left' = left - 1
    /\ pc' = "loop"
    /\ UNCHANGED <<stage, queueVars, muted, hand, current, msg, history,
                   lampVars, heard, starts>>

\* play raises, before any sound or after: the rest of the items are skipped.
ItemFails ==
    /\ pc \in {"start", "playing"}
    /\ pc' = "lightOff"
    /\ UNCHANGED <<stage, queueVars, muted, workerVars, history, lampVars,
                   heard, starts>>

ClearCurrent ==
    /\ pc = "clear"
    /\ current' = None
    /\ pc' = "taskDone"
    /\ UNCHANGED <<stage, queueVars, muted, hand, msg, left, history,
                   lampVars, heard, starts>>

TaskDone ==
    /\ pc = "taskDone"
    /\ unfinished' = unfinished - 1
    /\ stage' = [stage EXCEPT ![hand] = "finished"]
    /\ hand' = None
    /\ msg' = None
    /\ left' = 0
    /\ pc' = "get"
    /\ UNCHANGED <<queue, muted, current, history, lampVars, heard, starts>>

Worker ==
    \/ Get \/ SetCurrent \/ Discard \/ HandleMsg \/ HandleRepeat
    \/ Render \/ RenderRaises \/ MutedWhileRendering \/ BeginPlayback
    \/ BlinkOn \/ BlinkOff \/ LightOn \/ NextItem \/ StopPlayback
    \/ StartItem \/ ItemDone \/ ItemFails \/ LightOff
    \/ ClearCurrent \/ TaskDone

-----------------------------------------------------------------------------
(* The process dies and systemd starts it again.  Queue, history and mute  *)
(* live in memory only; the lamp keeps the state it had.                   *)

Restart ==
    /\ stage' = [e \in Envelopes |->
                    IF stage[e] \in {"checked", "accepted"} THEN "lost"
                    ELSE stage[e]]
    /\ queue' = <<>>
    /\ unfinished' = 0
    /\ muted' = FALSE
    /\ pc' = "get"
    /\ hand' = None
    /\ current' = None
    /\ msg' = None
    /\ left' = 0
    /\ history' = <<>>
    /\ stuck' = (stuck \/ lamp = "on")
    /\ starts' = 0
    /\ UNCHANGED <<lamp, heard>>

Next ==
    \/ \E e \in Envelopes : Submit(e)
    \/ Mute
    \/ Unmute
    \/ Worker
    \/ Restart

\* The worker thread is scheduled, and every subprocess it waits for has a
\* timeout, so each of its steps ends.  Nothing makes a client call, mute or
\* unmute, and nothing forces the process to die.
Fairness == WF_vars(Worker)

Spec == Init /\ [][Next]_vars
FairSpec == Spec /\ Fairness

-----------------------------------------------------------------------------
(* Safety.                                                                 *)

\* The worker task_done()s every envelope it took, whatever happened to it,
\* so queue.join() accounting stays balanced (announcer.py:146-151, 154-156):
\* the counter is the waiting envelopes plus the one in hand.
JoinBalanced == unfinished = Len(queue) + (IF pc = "get" THEN 0 ELSE 1)

\* An accepted envelope is waiting or in hand, and nothing else is; it is
\* never in two places.  Neither mute, a failed synthesis, a failed lamp nor
\* an exception lets one slip away or be handled twice.
Custody ==
    /\ {e \in Envelopes : stage[e] = "accepted"} = Waiting \cup InHand
    /\ \A i, j \in DOMAIN queue : queue[i] = queue[j] => i = j
    /\ Waiting \cap InHand = {}

\* submit never lets more than queue_size envelopes wait, however its callers
\* interleave with each other and with the worker, so at most one more than
\* that is ever owed a playback.
QueueBounded == QueueSize > 0 => /\ Len(queue) <= QueueSize
                                 /\ unfinished <= QueueSize + 1

\* The lamp is dark outside a playback and lit during one, unless a lamp
\* command failed or the process died and no command has worked since
\* (announcer.py:217-240, light.py:35-44).
LampFollowsPlayback ==
    ~stuck => /\ lamp = "on" => pc \in Lit
              /\ pc \in {"loop", "start", "playing"} => lamp = "on"

\* A message sent to be prepared is only rendered: it is not heard, does not
\* reach the lamp, and cannot be heard later by replaying the history
\* (announcer.py:161-165, 204-210).
PreparedStaysSilent ==
    /\ Prepared \cap heard = {}
    /\ msg \in Prepared => pc \notin Lit \cup {"rendered", "blinkOn"}
    /\ \A i \in DOMAIN history : history[i] \notin Prepared

\* Once mute is on, at most one more item starts before it is switched off
\* again: the one whose turn had already been decided (announcer.py:80-84).
MutedSilence == muted => starts <= 1

\* A replay speaks a message whose own turn is over, or the fallback; never
\* itself, nor one still waiting, nor one of before a restart.
ReplayFollowsOriginal ==
    hand \in Repeats /\ msg # None /\ msg # NoSuchMessage =>
        stage[msg] = "finished"

\* What a replay can reach has been heard, or is being announced
\* (announcer.py:161-163: "keeping it out of history also keeps the replay
\* indices pointing at what people actually heard").  The code does not keep
\* this: a message enters the history before it is rendered.
HistoryWasHeard ==
    \A i \in DOMAIN history : history[i] \in heard \cup {msg}

-----------------------------------------------------------------------------
(* Liveness and refinement.                                                *)

\* Every accepted envelope is handled to its end, whatever fails on the way,
\* unless the process dies first.
AcceptedIsHandled ==
    \A e \in Envelopes : stage[e] = "accepted" ~>
                            stage[e] \in {"finished", "lost"}

\* The lamp does not stay lit for ever behind a message, unless a command to
\* it failed.
LampGoesDark == lamp = "on" ~> lamp = "off" \/ stuck

\* The clients' view of the announcer: what submit answered and what then
\* became of the envelope.
Outcome(s) ==
    CASE s \in {"idle", "checked"} -> "new"
      [] s \in {"refusedMuted", "refusedFull"} -> "refused"
      [] s = "accepted" -> "accepted"
      [] s = "finished" -> "done"
      [] s = "lost" -> "lost"

Fate == [e \in Envelopes |-> Outcome(stage[e])]

Server == INSTANCE Playback WITH
    Jobs <- Envelopes, Limit <- QueueSize,
    fate <- Fate, pending <- queue,
    serving <- IF pc = "get" THEN <<>> ELSE <<hand>>

\* The announcer implements the bounded FIFO single server.
ServesInOrder == Server!PSpec
ServesInOrderAndFairly == Server!PFairSpec
=============================================================================
