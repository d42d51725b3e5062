---------------------------- MODULE MCBusWaiter ----------------------------
(* A sender a, its peer b, who waits, and b's successor c, who waits too. *)
EXTENDS BusWaiter, TLC

CONSTANTS a, b, c, k1, p1, p2

MCOne  == [by : {a}, key : {k1}, payload : {p1, p2}, reply : {FALSE}]
MCHeir == {[new |-> c, old |-> b]}

(* A succession is explored without failures, once nobody waits for b, and   *)
(* with one check at a time.                                                 *)
Heirs == (joining # None \/ ep[c].status # "absent") =>
            (faults = 0 /\ wait[b] = Off /\ ~wait[c].pending
             /\ (rec[c].at # "free" /\ rec[c].by = "setup" => wait[c].worker = "none"))
=============================================================================
