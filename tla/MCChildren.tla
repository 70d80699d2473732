----------------------------- MODULE MCChildren -----------------------------
(* Instances of Children for TLC. *)
EXTENDS Children

CONSTANTS m1, p1, r1

\* A message, one to be prepared, and a replay of the newest one.
MCMsgs == {m1, p1}
MCRepeats == {r1}
MCPrepared == {p1}
MCNumber == [r \in {r1} |-> -1]
=============================================================================
