------------------------------ MODULE Playback ------------------------------
(***************************************************************************)
(* What the announcer promises its clients: the accepted calls are served  *)
(* one at a time, in the order they were accepted, each exactly once; only *)
(* a restart takes an accepted call away.  A bounded FIFO single server.   *)
(***************************************************************************)
EXTENDS Integers, Sequences

CONSTANTS Jobs, Limit

VARIABLES
    fate,     \* fate[j]: what became of job j
    pending,  \* accepted, not yet taken, oldest first
    serving   \* the job being served: a sequence of at most one

pvars == <<fate, pending, serving>>

PInit ==
    /\ fate = [j \in Jobs |-> "new"]
    /\ pending = <<>>
    /\ serving = <<>>

\* Muted, or no room: the client is told, and nothing else changes.
Refuse(j) ==
    /\ fate[j] = "new"
    /\ fate' = [fate EXCEPT ![j] = "refused"]
    /\ UNCHANGED <<pending, serving>>

Accept(j) ==
    /\ fate[j] = "new"
    /\ Limit > 0 => Len(pending) < Limit
    /\ fate' = [fate EXCEPT ![j] = "accepted"]
    /\ pending' = Append(pending, j)
    /\ UNCHANGED serving

Take ==
    /\ serving = <<>>
    /\ pending # <<>>
    /\ serving' = <<Head(pending)>>
    /\ pending' = Tail(pending)
    /\ UNCHANGED fate

Finish ==
    /\ serving # <<>>
    /\ fate' = [fate EXCEPT ![serving[1]] = "done"]
    /\ serving' = <<>>
    /\ UNCHANGED pending

\* Everything accepted is gone, and the calls in progress die unanswered.
Reset ==
    /\ pending' = <<>>
    /\ serving' = <<>>
    /\ \E dying \in SUBSET {j \in Jobs : fate[j] = "new"} :
          fate' = [j \in Jobs |-> IF j \in dying \/ fate[j] = "accepted"
                                  THEN "lost" ELSE fate[j]]

PNext ==
    \/ \E j \in Jobs : Refuse(j) \/ Accept(j)
    \/ Take
    \/ Finish
    \/ Reset

PSpec == PInit /\ [][PNext]_pvars

\* A job that can be taken is taken, and a job that is served ends.
PFairSpec == PSpec /\ WF_pvars(Take) /\ WF_pvars(Finish)
=============================================================================
