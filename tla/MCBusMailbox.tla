---------------------------- MODULE MCBusMailbox ----------------------------
(* A sender a, its peer b and b's successor c. *)
EXTENDS BusMailbox, TLC

CONSTANTS a, b, c, k1, k2, p1, p2

Cmd(e, k, p, r) == [by |-> e, key |-> k, payload |-> p, reply |-> r]
MCTwo   == {Cmd(a, k1, p1, FALSE), Cmd(a, k2, p2, FALSE)}
MCSends == MCTwo \cup {Cmd(a, k2, p1, TRUE), Cmd(a, k2, p2, TRUE), Cmd(b, k1, p1, TRUE)}
MCHeir  == {[new |-> c, old |-> b]}

----------------------------------------------------------------------------
(* bus_delivery explores three kinds of traffic.                             *)

Unprompted == \A e \in Endpoint : hook[e] = {} /\ ep[e].blocked = 0
Alone      == joining = None /\ \A e \in Endpoint \ Founder : ep[e].status = "absent"

\* No counter was lost that anybody has used.
CountersKept ==
    \A x \in Endpoint : box[x].next = 1 =>
       /\ box[x].active \cup box[x].pending = {}
       /\ \A e \in Endpoint : send[e].hash.to = x => send[e].seq = 0
       /\ \A e \in Endpoint, k \in Key : receipt[e][k].hash.to = x => receipt[e][k].seq = 0

Updated(t) == {i \in DOMAIN log[t] :
                 log[t][i].type \in {"park", "resolve", "reopen"} /\ log[t][i].key = None}
Silent(e)  == at[e] \notin Sending /\ \A k \in Key : receipt[e][k].state = "none"

\* The second message of a thread of its own has been sent.
Fresh2 ==
    \E e \in Endpoint : \E h \in {send[e].hash} \cup {receipt[e][k].hash : k \in Key} :
        h.payload = p2 /\ h.into = 0

\* Retries of one thread, which b answers only while nothing has failed, with one
\* update of the thread, aside from an automatic park.
Retries ==
    /\ Alone /\ Unprompted /\ CountersKept
    /\ \A t \in Id : Cardinality(Updated(t)) <= 1
    /\ faults = 0 \/ (Silent(b) /\ nextId <= 4)
    /\ ~Fresh2

\* Two messages: a succession without failures and without prompts, in which the
\* second is sent before the first poll answers; or prompts with a call that fails
\* or a counter that is lost.
Messages2 ==
    /\ nextId <= 4
    /\ \A e \in Endpoint : send[e].hash.into = 0 /\ \A k \in Key : receipt[e][k].hash.into = 0
    /\ \A t \in Id : \A i \in DOMAIN log[t] : log[t][i].type \in {"message", "ack"}
Heirs   == /\ faults = 0 /\ Unprompted
           /\ nextId <= 2 \/ (nextId <= 3 /\ \A e \in Endpoint : ep[e].polled = 0)
Prompts == Alone

MCDelivery == Retries \/ ((Heirs \/ Prompts) /\ Messages2)
=============================================================================
