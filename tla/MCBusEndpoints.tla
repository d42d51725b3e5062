--------------------------- MODULE MCBusEndpoints ---------------------------
(* Two conversations, one of which is compacted; two calls at a time. *)
EXTENDS BusEndpoints, TLC

CONSTANTS m, n, x, y

MCSessions  == m :> 3 @@ n :> 1
MCProcesses == m :> 3 @@ n :> 1
MCSymmetry  == Permutations({x, y})

\* n attaches, joins and stays; a session's two calls are a hook and another one.
Hook(z) == call[z].at \in Starting \cup {"mint"}
MCSmall ==
    /\ client[n].up /\ client[n].phase = "on"
    /\ \A z \in Caller : (call[z].at = "leave" => call[z].s[1] = m)
                           /\ (call[z].at = "attach" => call[z].s[1] = n)
    /\ \A z, w \in Caller : z # w /\ call[z].s # None /\ call[z].s = call[w].s => Hook(z) # Hook(w)
=============================================================================
