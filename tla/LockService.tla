---------------------------- MODULE LockService ----------------------------
(***************************************************************************)
(* What the bus expects of a lock, and HardenedLock implements: one owner  *)
(* at a time, which enters and leaves its critical section (the handler of *)
(* withHardenedLock), gives the lock up outside of it, and is deprived of  *)
(* it only after it died.  A step of the other modules "under a lock"      *)
(* relies on this.                                                         *)
(***************************************************************************)
CONSTANTS Task, NoOne

VARIABLES
    owner,       \* the task the lock belongs to
    inside,      \* the live tasks in the critical section
    up           \* the live tasks

svars == <<owner, inside, up>>

ServiceInit == owner = NoOne /\ inside = {} /\ up = Task

Take(t) ==
    /\ t \in up
    /\ owner = NoOne
    /\ owner' = t
    /\ UNCHANGED <<inside, up>>

Enter(t) ==
    /\ owner = t
    /\ inside' = {t}
    /\ UNCHANGED <<owner, up>>

Leave(t) ==
    /\ owner = t
    /\ inside' = {}
    /\ UNCHANGED <<owner, up>>

GiveUp(t) ==
    /\ t \in up \ inside
    /\ owner = t
    /\ owner' = NoOne
    /\ UNCHANGED <<inside, up>>

\* Some live caller breaks the lock of a dead owner.
Break(t) ==
    /\ t \in up
    /\ owner # NoOne
    /\ owner \notin up
    /\ owner' = NoOne
    /\ UNCHANGED <<inside, up>>

\* The tasks of one process die together.
Die(S) ==
    /\ S # {}
    /\ S \subseteq up
    /\ up' = up \ S
    /\ inside' = inside \ S
    /\ UNCHANGED owner

ServiceNext ==
    \/ \E t \in Task : Take(t) \/ Enter(t) \/ Leave(t) \/ GiveUp(t) \/ Break(t)
    \/ \E S \in SUBSET Task : Die(S)

ServiceSpec == ServiceInit /\ [][ServiceNext]_svars
============================================================================
