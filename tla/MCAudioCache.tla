---------------------------- MODULE MCAudioCache ----------------------------
(* An instance of AudioCache for TLC: a short audio and a long one.        *)
EXTENDS AudioCache

CONSTANTS k1, k2

MCKeys == {k1, k2}
MCSizeOf == [k \in MCKeys |-> IF k = k1 THEN 1 ELSE 2]
=============================================================================
