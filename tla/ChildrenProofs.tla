--------------------------- MODULE ChildrenProofs ---------------------------
(***************************************************************************)
(* Proofs about Children, for every number of child processes and whatever *)
(* each of them does: none is left behind, and all that is proved of the   *)
(* announcer holds of the announcer with its children.                     *)
(***************************************************************************)
EXTENDS Children, AnnouncerProofs

CallStates == {"none", "waits", "late", "reaps", "returned", "raised"}
ChildStates == {"none", "running", "exited"}

\* Inductive as it stands: a child exists only inside a call, and a call is
\* open only at the steps that make one.
ChildInv ==
    /\ call \in CallStates
    /\ child \in ChildStates
    /\ calls \in 0..MaxCalls
    /\ NoChildLeftBehind

-----------------------------------------------------------------------------
(* Every step is one of the announcer's, or none of its business.          *)

LEMMA ChildInvInit == CInit => ChildInv
BY CallsAssumption
   DEF CInit, ChildInv, CallStates, ChildStates, NoChildLeftBehind, InCall

LEMMA CWorkerImplements == CWorker => Worker \/ UNCHANGED vars
<1> SUFFICES ASSUME CWorker PROVE Worker \/ UNCHANGED vars
  OBVIOUS
<1>1. CASE Returns \/ Expires \/ Kill \/ Reap \/ RunEngine \/ RunUhubctl
  BY <1>1, Zenon DEF Returns, Expires, Kill, Reap, RunEngine, RunUhubctl
<1>2. CASE Rendered BY <1>2, Zenon DEF Rendered, Worker
<1>3. CASE Switched BY <1>3, Zenon DEF Switched, Worker
<1>4. CASE PlayItem BY <1>4, Zenon DEF PlayItem, Worker
<1>5. CASE Played BY <1>5, Zenon DEF Played, Worker
<1>6. CASE NotPlayed BY <1>6, Zenon DEF NotPlayed, Worker
<1>7. CASE Childless BY <1>7, Zenon DEF Childless, Worker
<1>. QED
  BY <1>1, <1>2, <1>3, <1>4, <1>5, <1>6, <1>7, Zenon DEF CWorker

LEMMA ChildStepImplements == [CNext]_cvars => [Next]_vars
<1>1. ASSUME Clients PROVE Next
  BY <1>1, Zenon DEF Clients, Next
<1>2. ASSUME ChildExits PROVE UNCHANGED vars
  BY <1>2, Zenon DEF ChildExits
<1>3. ASSUME RestartAlone PROVE Next
  BY <1>3, Zenon DEF RestartAlone, Next
<1>4. ASSUME UNCHANGED cvars PROVE UNCHANGED vars
  BY <1>4, Zenon DEF cvars
<1>5. ASSUME CWorker PROVE Next \/ UNCHANGED vars
  BY <1>5, CWorkerImplements, Zenon DEF Next
<1>. QED
  BY <1>1, <1>2, <1>3, <1>4, <1>5, Zenon DEF CNext

\* The announcer with its children is an announcer: what AnnouncerProofs
\* proves of Spec holds of CSpec.
THEOREM ChildrenImplement == CSpec => Spec
<1>1. CInit => Init
  BY DEF CInit
<1>. QED
  BY <1>1, ChildStepImplements, PTL DEF CSpec, Spec

-----------------------------------------------------------------------------
(* No child is left behind.                                                *)

LEMMA ChildInvStep == ChildInv /\ [CNext]_cvars => ChildInv'
<1> SUFFICES ASSUME ChildInv, [CNext]_cvars PROVE ChildInv'
  OBVIOUS
<1> USE CallsAssumption
        DEF ChildInv, CallStates, ChildStates, NoChildLeftBehind, InCall, LampSteps
<1>1. CASE Clients
  <2>1. pc' = pc
    <3>1. ASSUME NEW e \in Envelopes, Submit(e) PROVE pc' = pc
      BY <3>1 DEF Submit, SubmitMuted, SubmitCheck, PutNowait, PutFull
    <3>. QED BY <1>1, <3>1 DEF Clients, Mute, Unmute
  <2>2. UNCHANGED childVars BY <1>1 DEF Clients
  <2>. QED BY <2>1, <2>2 DEF childVars
<1>2. CASE ChildExits BY <1>2 DEF ChildExits, vars
<1>3. CASE Returns BY <1>3 DEF Returns, vars
<1>4. CASE Expires BY <1>4 DEF Expires, vars
<1>5. CASE Kill BY <1>5 DEF Kill, vars
<1>6. CASE Reap BY <1>6 DEF Reap, vars
<1>7. CASE RunEngine BY <1>7 DEF RunEngine, Popen, vars
<1>8. CASE RunUhubctl BY <1>8 DEF RunUhubctl, Popen, vars
<1>9. CASE Rendered BY <1>9 DEF Rendered, Leave
<1>10. CASE Switched BY <1>10 DEF Switched, Leave
<1>11. CASE PlayItem BY <1>11 DEF PlayItem, StartItem, Popen
<1>12. CASE Played BY <1>12 DEF Played, Leave
<1>13. CASE NotPlayed BY <1>13 DEF NotPlayed, ItemFails, Leave
<1>14. CASE Childless
  <2>1. pc \notin LampSteps \cup {"render", "playing"}
    BY <1>14 DEF Childless, Get, SetCurrent, Discard, HandleMsg, HandleRepeat,
                 MutedWhileRendering, BeginPlayback, NextItem, StopPlayback,
                 ClearCurrent, TaskDone
  <2>2. UNCHANGED childVars BY <1>14 DEF Childless
  <2>. QED BY <2>1, <2>2 DEF childVars
<1>15. CASE RestartAlone BY <1>15 DEF RestartAlone
<1>16. CASE UNCHANGED cvars BY <1>16 DEF cvars, vars, childVars
<1>. QED
  BY <1>1, <1>2, <1>3, <1>4, <1>5, <1>6, <1>7, <1>8, <1>9, <1>10, <1>11,
     <1>12, <1>13, <1>14, <1>15, <1>16 DEF CNext, CWorker

LEMMA ChildInvAlways == CSpec => []ChildInv
BY ChildInvInit, ChildInvStep, PTL DEF CSpec

\* A child exists only while the worker waits for it, whenever it exits,
\* hangs or is killed (procutil.py:43-47).
THEOREM NoChildStays == CSpec => []NoChildLeftBehind
BY ChildInvAlways, PTL DEF ChildInv

\* The announcer's types and its children's.
THEOREM ChildTypes == CSpec => []CTypeOK
<1>1. TypeOK /\ ChildInv => CTypeOK
  BY DEF CTypeOK, ChildInv, CallStates, ChildStates
<1>. QED
  BY <1>1, ChildInvAlways, ChildrenImplement, TypeCorrect, PTL
=============================================================================
