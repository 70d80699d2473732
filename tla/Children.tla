------------------------------ MODULE Children ------------------------------
(***************************************************************************)
(* The child processes behind the announcer's blocking steps: piper,       *)
(* espeak-ng and ffmpeg while it renders, uhubctl for the lamp, aplay for  *)
(* each item (src/krzykacz/procutil.py and its callers).  The worker waits *)
(* for one child at a time, at most until a timeout; then it kills the     *)
(* child, reaps it, and the call raises.  A child may exit at any moment,  *)
(* or never.                                                               *)
(***************************************************************************)
EXTENDS Announcer

CONSTANT MaxCalls   \* bound: children started while one message is rendered

ASSUME CallsAssumption == MaxCalls \in Nat

VARIABLES
    call,   \* where the worker is in the call that waits for a child
    child,  \* the child process, "exited" until it is reaped
    calls   \* auxiliary: children started in this rendering

childVars == <<call, child, calls>>
cvars == <<vars, childVars>>

CTypeOK ==
    /\ TypeOK
    /\ call \in {"none", "waits", "late", "reaps", "returned", "raised"}
    /\ child \in {"none", "running", "exited"}
    /\ calls \in 0..MaxCalls

CInit == Init /\ call = "none" /\ child = "none" /\ calls = 0

\* The steps of the worker that run children.
LampSteps == {"blinkOn", "blinkOff", "lightOn", "lightOff"}

InCall == call \in {"waits", "late", "reaps"}

-----------------------------------------------------------------------------
(* The child: exits, or is made to by SIGKILL.                             *)

ChildExits ==
    /\ child = "running"
    /\ child' = "exited"
    /\ UNCHANGED <<vars, call, calls>>

ChildDies == call = "reaps" /\ ChildExits

-----------------------------------------------------------------------------
(* communicate_or_kill, and subprocess.run with a timeout, which does the  *)
(* same: communicate, and on TimeoutExpired kill and wait, then raise.     *)

Popen == call' = "waits" /\ child' = "running"

Returns ==
    /\ call = "waits"
    /\ child = "exited"
    /\ call' = "returned"
    /\ child' = "none"
    /\ UNCHANGED <<vars, calls>>

\* Mutant: plain communicate(timeout), which does not reap.
ExpiresUnreaped ==
    /\ call = "waits"
    /\ call' = "raised"
    /\ UNCHANGED <<vars, child, calls>>

\* Mutant: no timeout.
ExpiresNever == FALSE

\* TimeoutExpired; the child may have exited meanwhile.
Expires ==
    /\ call = "waits"
    /\ call' = "late"
    /\ UNCHANGED <<vars, child, calls>>

\* kill: poll reaps a child that is gone, any other gets SIGKILL.
Kill ==
    /\ call = "late"
    /\ \/ child = "exited" /\ child' = "none" /\ call' = "raised"
       \/ child = "running" /\ call' = "reaps" /\ UNCHANGED child
    /\ UNCHANGED <<vars, calls>>

\* proc.wait(), without a limit.
Reap ==
    /\ call = "reaps"
    /\ child = "exited"
    /\ child' = "none"
    /\ call' = "raised"
    /\ UNCHANGED <<vars, calls>>

-----------------------------------------------------------------------------
(* The worker.                                                             *)

Leave == call' = "none" /\ UNCHANGED child

\* A synthesis or an ffmpeg decode; what it raises may be caught, and the
\* rendering goes on with the next.
RunEngine ==
    /\ pc = "render"
    /\ ~InCall
    /\ calls < MaxCalls
    /\ calls' = calls + 1
    /\ Popen
    /\ UNCHANGED vars

Rendered ==
    /\ ~InCall
    /\ Render \/ RenderRaises
    /\ calls' = 0
    /\ Leave

RunUhubctl ==
    /\ pc \in LampSteps
    /\ call = "none"
    /\ Popen
    /\ UNCHANGED <<vars, calls>>

\* The command worked only if it could be started; one that was killed may
\* have switched the lamp before.
Switched ==
    /\ ~InCall
    /\ BlinkOn \/ BlinkOff \/ LightOn \/ LightOff
    /\ call = "none" => stuck' /\ UNCHANGED lamp
    /\ UNCHANGED calls
    /\ Leave

PlayItem == StartItem /\ Popen /\ UNCHANGED calls

\* aplay's exit status is not looked at.
Played == call = "returned" /\ ItemDone /\ Leave /\ UNCHANGED calls

\* aplay could not be started, or had to be killed.
NotPlayed ==
    /\ pc = "start" \/ call = "raised"
    /\ ItemFails
    /\ Leave
    /\ UNCHANGED calls

Childless ==
    /\ \/ Get \/ SetCurrent \/ Discard \/ HandleMsg \/ HandleRepeat
       \/ MutedWhileRendering \/ BeginPlayback \/ NextItem \/ StopPlayback
       \/ ClearCurrent \/ TaskDone
    /\ UNCHANGED childVars

CWorker ==
    \/ Returns \/ Expires \/ Kill \/ Reap
    \/ RunEngine \/ Rendered \/ RunUhubctl \/ Switched
    \/ PlayItem \/ Played \/ NotPlayed \/ Childless

-----------------------------------------------------------------------------
\* systemd kills what is left of the service's control group before it
\* starts the service again.
RestartAlone ==
    /\ Restart
    /\ call' = "none"
    /\ child' = "none"
    /\ calls' = 0

Clients ==
    /\ Mute \/ Unmute \/ \E e \in Envelopes : Submit(e)
    /\ UNCHANGED childVars

CNext == Clients \/ CWorker \/ ChildExits \/ RestartAlone

CSpec == CInit /\ [][CNext]_cvars

\* The worker thread is scheduled and its timers fire, and SIGKILL ends a
\* process.  No child is trusted to exit by itself.
CFairness == WF_cvars(CWorker) /\ WF_cvars(ChildDies)

CFairSpec == CSpec /\ CFairness

-----------------------------------------------------------------------------
\* No child is left behind, alive or unreaped: one exists only while the
\* worker waits for it, so none holds the sound device or the lamp when the
\* next is started (procutil.py:43-47).
NoChildLeftBehind ==
    /\ child # "none" => InCall
    /\ InCall => pc \in LampSteps \cup {"render", "playing"}

\* The timeouts and kills make the worker the fair one that Announcer takes
\* it for, though any child may hang (procutil.py:65-76, tts.py:31-38).
WorkerIsFair == FairSpec
=============================================================================
