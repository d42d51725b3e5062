-------------------------- MODULE MCHardenedLock --------------------------
(* Three callers, each in a process of its own. *)
EXTENDS HardenedLock, TLC

CONSTANTS t1, t2, t3

MCTask  == {t1, t2, t3}
MCAlone == [t \in MCTask |-> t]

\* Two waiting calls, in processes that may die, one's id being reused, one of
\* them before it gets as far as the guard; and a survivor, which waits or tries.
MCHolder ==
    /\ \A t \in {t1, t2} : call[t].mode = "wait"
    /\ proc[t2] # "reused"
    /\ proc[t3] = "alive"
    /\ pc[t1] \notin Reaping
============================================================================
