----------------------------- MODULE BusService -----------------------------
(***************************************************************************)
(* What the bus promises to the agents, and BusMailbox implements.  A send *)
(* is named by its sender and idempotency key: it takes effect once, as a  *)
(* message or as the automatic park of its thread, however often it is     *)
(* tried.  Only what was sent is shown, and only what was shown is         *)
(* acknowledged.  Nothing is ever taken back.                              *)
(***************************************************************************)
EXTENDS Naturals

CONSTANTS Endpoint, Key

VARIABLES
    sent,        \* sent[e][k]: the messages committed for the key
    parked,      \* parked[e][k]: the automatic parks committed for the key
    shown,       \* the sends some poll has shown
    done         \* the sends acknowledged

svars == <<sent, parked, shown, done>>

Name == Endpoint \X Key
Sent(n) == sent[n[1]][n[2]] = 1

ServiceInit ==
    /\ sent = [e \in Endpoint |-> [k \in Key |-> 0]]
    /\ parked = [e \in Endpoint |-> [k \in Key |-> 0]]
    /\ shown = {} /\ done = {}

Unused(e, k) == sent[e][k] = 0 /\ parked[e][k] = 0

Commit(e, k) ==
    /\ Unused(e, k)
    /\ sent' = [sent EXCEPT ![e][k] = 1]
    /\ UNCHANGED <<parked, shown, done>>

Park(e, k) ==
    /\ Unused(e, k)
    /\ parked' = [parked EXCEPT ![e][k] = 1]
    /\ UNCHANGED <<sent, shown, done>>

Show ==
    /\ \E S \in SUBSET {n \in Name : Sent(n)} : shown' = shown \cup S
    /\ UNCHANGED <<sent, parked, done>>

Acknowledge(n) ==
    /\ n \in shown \ done
    /\ done' = done \cup {n}
    /\ UNCHANGED <<sent, parked, shown>>

ServiceNext ==
    \/ \E e \in Endpoint, k \in Key : Commit(e, k) \/ Park(e, k)
    \/ Show
    \/ \E n \in Name : Acknowledge(n)

ServiceSpec == ServiceInit /\ [][ServiceNext]_svars
=============================================================================
