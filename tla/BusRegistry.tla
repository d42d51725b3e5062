---------------------------- MODULE BusRegistry ----------------------------
(***************************************************************************)
(* What the endpoint registry promises, and BusEndpoints implements.  The  *)
(* bus has two seats.  A session takes a free one, once, perhaps as the    *)
(* heir of a seat that was given up for it; a seat has one heir at most,   *)
(* is never held again, and changes hands only from a session to a later   *)
(* one of the same conversation.                                           *)
(***************************************************************************)
EXTENDS Naturals, FiniteSets

CONSTANTS Endpoint, Session, None

\* A session is <<conversation, number>>.
Later(s, r) == s[1] = r[1] /\ s[2] > r[2]

VARIABLES
    held,      \* held[e]: the session that holds the seat e, or None
    over,      \* the seats that were held and are given up
    heir       \* heir[e]: the seat e was inherited from, or None

rvars == <<held, over, heir>>

Held == {e \in Endpoint : held[e] # None}

RegistryInit ==
    /\ held = [e \in Endpoint |-> None]
    /\ over = {}
    /\ heir = [e \in Endpoint |-> None]

Free(e) == held[e] = None /\ e \notin over

Take(e) ==
    /\ Free(e) /\ Cardinality(Held) < 2
    /\ \E s \in Session, p \in Endpoint \cup {None} :
          /\ \A f \in Held : held[f] # s
          /\ p # None => p \in over /\ \A f \in Endpoint : heir[f] # p
          /\ held' = [held EXCEPT ![e] = s]
          /\ heir' = [heir EXCEPT ![e] = p]
    /\ UNCHANGED over

GiveUp(e) ==
    /\ held[e] # None
    /\ held' = [held EXCEPT ![e] = None]
    /\ over' = over \cup {e}
    /\ UNCHANGED heir

Pass(e) ==
    /\ held[e] # None
    /\ \E s \in Session : Later(s, held[e]) /\ held' = [held EXCEPT ![e] = s]
    /\ UNCHANGED <<over, heir>>

RegistryNext == \E e \in Endpoint : Take(e) \/ GiveUp(e) \/ Pass(e)

RegistrySpec == RegistryInit /\ [][RegistryNext]_rvars
=============================================================================
