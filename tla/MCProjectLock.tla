--------------------------- MODULE MCProjectLock ---------------------------
(* Three callers, each in a process of its own. *)
EXTENDS ProjectLock, TLC

CONSTANTS t1, t2, t3

MCTask  == {t1, t2, t3}
MCAlone == [t \in MCTask |-> t]

\* t3 survives, the others die in this order (they are alike), and no more
\* than two things go wrong: a death, a reused id, a directory, a failure.
Wrong == Cardinality({p \in MCTask : proc[p] # "alive"})
            + Cardinality({p \in MCTask : proc[p] = "reused"})
            + old.made + Cardinality(failed)
MCTwo ==
    /\ proc[t3] = "alive" /\ (proc[t2] # "alive" => proc[t1] # "alive")
    /\ Wrong <= 2
=============================================================================
