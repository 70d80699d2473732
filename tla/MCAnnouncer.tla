---------------------------- MODULE MCAnnouncer ----------------------------
(* Instances of Announcer for TLC. *)
EXTENDS Announcer

CONSTANTS m1, m2, p1, r1

\* Two messages, one to be prepared, and a replay of the newest one.
MCMsgs == {m1, m2, p1}
MCRepeats == {r1}
MCPrepared == {p1}
MCNumber == [r \in {r1} |-> -1]

\* One message, and nothing to replay or prepare.
MCOneMsg == {m1}
MCNothing == {}
=============================================================================
