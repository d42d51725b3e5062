---------------------------- MODULE BusEndpoints ----------------------------
(***************************************************************************)
(* The registry of the bus's endpoints (src/src/bus/endpoints.ts), the     *)
(* auto-attach child that joins it (auto-attach.ts) and the two hooks that *)
(* carry a seat across a compaction (cli/commands/session-compact.ts).     *)
(*                                                                         *)
(* An endpoint's record says who owns it and in which process; its mailbox *)
(* is a directory; a lineage is a succession record, written by the        *)
(* PreCompact hook of a session and consumed by the SessionStart hook of   *)
(* the next one.  endpoints.lock is `outer`, endpoint-<id>.lock `inner`;   *)
(* both are HardenedLock's, and free when their holder is dead.            *)
(*                                                                         *)
(* A conversation (a transcript) is a sequence of sessions <<c, 1>>,       *)
(* <<c, 2>>, ..., which run in client processes <<c, 1>>, <<c, 2>>, ....   *)
(* A step that only reads under a lock is merged with the write it decides *)
(* when no other write of the same call comes between.                     *)
(***************************************************************************)
EXTENDS Naturals, FiniteSets, FiniteSetsExt

CONSTANTS
    Caller,        \* slots of calls that run at the same time
    Conversation,
    MaxSessions,   \* bound: MaxSessions[c] sessions of conversation c
    MaxProcesses,  \* bound: MaxProcesses[c] client processes of conversation c
    MaxEndpoints,  \* bound: endpoint ids
    MaxLineages,   \* bound: succession records
    Budget,        \* bound: compactions, exits, departures, forced retirements,
                   \* expiries, deaths, failed writes and lock timeouts of a run
    None

ASSUME EndpointsAssumption ==
    /\ MaxSessions \in [Conversation -> Nat \ {0}]
    /\ MaxProcesses \in [Conversation -> Nat \ {0}]
    /\ MaxEndpoints \in Nat /\ MaxLineages \in Nat /\ Budget \in Nat

Endpoint == 1..MaxEndpoints
Lineage  == 1..MaxLineages
Session  == UNION {{c} \X (1..MaxSessions[c]) : c \in Conversation}
Process  == UNION {{c} \X (1..MaxProcesses[c]) : c \in Conversation}

ASSUME NoneAssumption == None \notin Endpoint \cup Lineage \cup Session \cup Process \cup Caller

VARIABLES
    ep,        \* ep[e]: the endpoint's record
    box,       \* the mailbox directories
    lin,       \* lin[l]: the succession record
    outer,     \* the holder of endpoints.lock
    inner,     \* inner[e]: the holder of endpoint-<e>.lock
    call,      \* call[x]: where the call is, for whom, and its locals
    client,    \* client[c]: the conversation's session, process and hooks
    promise,   \* history: the seat a PreCompact hook provided for, until
               \* something the code cannot help comes in between
    spent      \* how much of Budget has happened

vars == <<ep, box, lin, outer, inner, call, client, promise, spent>>

NoRecord  == [status |-> "absent", owner |-> None, ref |-> None, pred |-> None]
NoLineage == [state |-> "absent", seat |-> None, from |-> None, to |-> None,
              expired |-> FALSE]
Idle == [at |-> "idle", s |-> None, e |-> None, id |-> None, ref |-> None,
         l |-> None, child |-> FALSE]

Joining  == {"join", "mailbox", "incumbent", "create"}
Starting == {"consume", "claim", "rebind", "settle", "find", "refresh", "persist"}

Record == [status : {"absent", "active", "replaced", "left", "forced"},
           owner : Session \cup {None}, ref : Process \cup {None},
           pred : Endpoint \cup {None}]
Call   == [at : {"idle", "attach", "leave", "force", "mint"} \cup Joining \cup Starting,
           s : Session \cup {None}, e : Endpoint \cup {None}, id : Endpoint \cup {None},
           ref : Process \cup {None}, l : Lineage \cup {None}, child : BOOLEAN]
Succession == [state : {"absent", "fresh", "consumed", "gone"},
               seat : Endpoint \cup {None}, from : Session \cup {None},
               to : Session \cup {None}, expired : BOOLEAN]
Client == [k : Nat, proc : Nat, up : BOOLEAN, phase : {"start", "on", "compacting", "restart"}]

TypeOK ==
    /\ ep \in [Endpoint -> Record]
    /\ box \subseteq Endpoint
    /\ lin \in [Lineage -> Succession]
    /\ outer \in Caller \cup {None}
    /\ inner \in [Endpoint -> Caller \cup {None}]
    /\ call \in [Caller -> Call]
    /\ client \in [Conversation -> Client]
    /\ \A c \in Conversation :
          client[c].k \in 1..MaxSessions[c] /\ client[c].proc \in 1..MaxProcesses[c]
    /\ promise \in [Conversation -> Endpoint \cup {None}]
    /\ spent \in 0..Budget

Init ==
    /\ ep = [e \in Endpoint |-> NoRecord]
    /\ box = {}
    /\ lin = [l \in Lineage |-> NoLineage]
    /\ outer = None /\ inner = [e \in Endpoint |-> None]
    /\ call = [x \in Caller |-> Idle]
    /\ client = [c \in Conversation |-> [k |-> 1, proc |-> 1, up |-> TRUE, phase |-> "on"]]
    /\ promise = [c \in Conversation |-> None]
    /\ spent = 0

----------------------------------------------------------------------------
(* Sessions, processes and records.                                          *)

Now(c)     == <<c, client[c].k>>
Alive(p)   == client[p[1]].up /\ client[p[1]].proc = p[2]

\* What a look for the client's process may find: its ancestor, or nothing.
Detected(c) == {None} \cup (IF client[c].up THEN {<<c, client[c].proc>>} ELSE {})

\* The verdicts endpointLiveness may give; a probe may always be refused.
Liveness(r) == IF r.ref = None THEN {"unknown"}
               ELSE {"unknown", IF Alive(r.ref) THEN "attached" ELSE "offline"}

Registered == {e \in Endpoint : ep[e].status # "absent"}
Active     == {e \in Endpoint : ep[e].status = "active"}
Replaceable(e)    == e \in Active /\ "offline" \in Liveness(ep[e])
NotReplaceable(e) == e \notin Active \/ \E v \in Liveness(ep[e]) : v # "offline"
Owns(e, s) == e \in Active /\ ep[e].owner = s
Seats(s)   == {e \in Endpoint : Owns(e, s)}

Spend     == spent < Budget /\ spent' = spent + 1

Go(x, at) == call' = [call EXCEPT ![x].at = at]
End(x)    == call' = [call EXCEPT ![x] = Idle]
FreeInner(x) == inner' = [e \in Endpoint |-> IF inner[e] = x THEN None ELSE inner[e]]
FreeOuter(x) == outer' = IF outer = x THEN None ELSE outer

Begin(x, at, s, e) ==
    /\ call[x].at = "idle"
    /\ call' = [call EXCEPT ![x] = [Idle EXCEPT !.at = at, !.s = s, !.e = e]]
    /\ UNCHANGED <<ep, box, lin, outer, inner>>

----------------------------------------------------------------------------
(* Joining and replacing: joinEndpoint, under endpoints.lock.                *)

\* The listing and the checks on it: a session that has a seat keeps it, and
\* its setup command refreshes it; an incumbent must be active and proven
\* offline; two seats at most.
JoinChecks(x) ==
    LET s == call[x].s
        r == call[x].e
    IN
    /\ call[x].at = "join" /\ outer = None
    /\ \/ /\ \E e \in Seats(s) :
                /\ box' = box \cup {e}
                /\ call' = [call EXCEPT ![x] = IF call[x].child THEN Idle
                              ELSE [Idle EXCEPT !.at = "refresh", !.s = s, !.e = e]]
          /\ UNCHANGED outer
       \/ /\ Seats(s) = {}
          /\ Cardinality(Active \ {r}) < 2
          /\ r # None => Replaceable(r)
          /\ outer' = x
          /\ Go(x, "mailbox")
          /\ UNCHANGED box
       \/ /\ Seats(s) = {}
          /\ \/ Cardinality(Active \ {r}) >= 2
             \/ r # None /\ NotReplaceable(r)
          /\ End(x)
          /\ UNCHANGED <<box, outer>>
    /\ UNCHANGED <<ep, lin, inner, client, promise, spent>>

\* The client's process is looked up, mailboxes of joins that died are removed,
\* the layout is checked and the new mailbox made, before any record changes.
MakeMailbox(x) ==
    LET kept == box \cap Registered IN
    /\ call[x].at = "mailbox"
    /\ IF Registered \subseteq kept
       THEN \E ref \in Detected(call[x].s[1]), id \in Endpoint :
               /\ id \notin Registered \cup box
               /\ \A i \in 1..(id - 1) : i \in Registered \cup box
               /\ box' = kept \cup {id}
               /\ call' = [call EXCEPT ![x].at = IF call[x].e = None THEN "create" ELSE "incumbent",
                                       ![x].ref = ref, ![x].id = id]
               /\ UNCHANGED outer
       ELSE box' = kept /\ End(x) /\ FreeOuter(x)
    /\ UNCHANGED <<ep, lin, inner, client, promise, spent>>

\* cleanupOrphanMailbox, on every way out without a successor.
GiveUpJoin(x) ==
    /\ box' = box \ {call[x].id}
    /\ End(x) /\ FreeOuter(x)

Retired(r, how) == [r EXCEPT !.status = how]

\* Mutant: the verdict of the listing is trusted.
Replace_TrustsListing(x) ==
    LET r == call[x].e IN
    /\ call[x].at = "incumbent" /\ inner[r] = None /\ r \in Active
    /\ ep' = [ep EXCEPT ![r] = Retired(@, "replaced")]
    /\ Go(x, "create")
    /\ UNCHANGED <<box, lin, outer, inner, client, promise, spent>>

\* Under its own lock the incumbent is read again, judged again, and retired.
Replace(x) ==
    LET r == call[x].e IN
    /\ call[x].at = "incumbent" /\ inner[r] = None
    /\ \/ /\ Replaceable(r)
          /\ ep' = [ep EXCEPT ![r] = Retired(@, "replaced")]
          /\ Go(x, "create")
          /\ UNCHANGED <<box, outer>>
       \/ NotReplaceable(r) /\ GiveUpJoin(x) /\ UNCHANGED ep
    /\ UNCHANGED <<lin, inner, client, promise, spent>>

\* The write fails, with or without effect: no successor.
ReplaceFails(x) ==
    LET r == call[x].e IN
    /\ call[x].at = "incumbent" /\ inner[r] = None /\ Replaceable(r)
    /\ Spend
    /\ \E how \in {"active", "replaced"} : ep' = [ep EXCEPT ![r] = Retired(@, how)]
    /\ GiveUpJoin(x)
    /\ UNCHANGED <<lin, inner, client, promise>>

NewRecord(x) == [status |-> "active", owner |-> call[x].s, ref |-> call[x].ref,
                 pred |-> call[x].e]

CreateEndpoint(x) ==
    /\ call[x].at = "create"
    /\ ep' = [ep EXCEPT ![call[x].id] = NewRecord(x)]
    /\ End(x) /\ FreeOuter(x)
    /\ UNCHANGED <<box, lin, inner, client, promise, spent>>

\* Mutant: a failed write of the record takes the mailbox with it.
CreateFails_CleansUp(x) ==
    /\ call[x].at = "create"
    /\ Spend
    /\ \E r \in {ep[call[x].id], NewRecord(x)} : ep' = [ep EXCEPT ![call[x].id] = r]
    /\ GiveUpJoin(x)
    /\ UNCHANGED <<lin, inner, client, promise>>

CreateFails(x) ==
    /\ call[x].at = "create"
    /\ Spend
    /\ \E r \in {ep[call[x].id], NewRecord(x)} : ep' = [ep EXCEPT ![call[x].id] = r]
    /\ End(x) /\ FreeOuter(x)
    /\ UNCHANGED <<box, lin, inner, client, promise>>

----------------------------------------------------------------------------
(* The auto-attach child of a session: it decides on what it sees without a  *)
(* lock, and joins.  One child per session runs at a time.                   *)

BeginAttach(x, c) ==
    /\ client[c].phase = "on" /\ call[x].at = "idle"
    /\ \A y \in Caller : call[y].child => call[y].s # Now(c)
    /\ call' = [call EXCEPT ![x] = [Idle EXCEPT !.at = "attach", !.s = Now(c), !.child = TRUE]]
    /\ UNCHANGED <<ep, box, lin, outer, inner, client, promise, spent>>

\* autoAttachDecision: a free seat, or the first one proven offline.
Decide(x) ==
    /\ call[x].at = "attach"
    /\ \E Offline \in SUBSET {e \in Active : "offline" \in Liveness(ep[e])} :
          call' = IF Seats(call[x].s) # {} THEN [call EXCEPT ![x] = Idle]
                  ELSE IF Offline # {}
                  THEN [call EXCEPT ![x].at = "join", ![x].e = Min(Offline)]
                  ELSE IF Cardinality(Active) < 2 THEN [call EXCEPT ![x].at = "join"]
                  ELSE [call EXCEPT ![x] = Idle]
    /\ UNCHANGED <<ep, box, lin, outer, inner, client, promise, spent>>

----------------------------------------------------------------------------
(* The calls under one endpoint's lock.                                      *)

\* refreshEndpointForSessionStart: the caller is checked without the lock,
\* its process looked up, and the caller checked again under the lock.
AssertCaller(x) ==
    /\ call[x].at = "refresh"
    /\ IF Owns(call[x].e, call[x].s)
       THEN \E ref \in Detected(call[x].s[1]) :
               call' = [call EXCEPT ![x].at = "persist", ![x].ref = ref]
       ELSE End(x)
    /\ UNCHANGED <<ep, box, lin, outer, inner, client, promise, spent>>

\* Mutant: the record as it was checked, before the lock, is written back.
Persist_WritesWhatItRead(x) ==
    LET e == call[x].e IN
    /\ call[x].at = "persist" /\ inner[e] = None
    /\ ep' = [ep EXCEPT ![e] = [@ EXCEPT !.status = "active", !.owner = call[x].s,
                                         !.ref = call[x].ref]]
    /\ End(x)
    /\ UNCHANGED <<box, lin, outer, inner, client, promise, spent>>

Persist(x) ==
    LET e == call[x].e IN
    /\ call[x].at = "persist" /\ inner[e] = None
    /\ ep' = IF Owns(e, call[x].s) THEN [ep EXCEPT ![e].ref = call[x].ref] ELSE ep
    /\ End(x)
    /\ UNCHANGED <<box, lin, outer, inner, client, promise, spent>>

Leave(x) ==
    LET e == call[x].e IN
    /\ call[x].at = "leave" /\ inner[e] = None
    /\ ep' = IF Owns(e, call[x].s) THEN [ep EXCEPT ![e] = Retired(@, "left")] ELSE ep
    /\ End(x)
    /\ UNCHANGED <<box, lin, outer, inner, client, promise, spent>>

\* retireEndpoint asks about liveness, and not whether the endpoint is active.
ForceRetire(x) ==
    LET e == call[x].e IN
    /\ call[x].at = "force" /\ inner[e] = None
    /\ \E verdict \in Liveness(ep[e]) :
          ep' = IF verdict = "unknown" THEN [ep EXCEPT ![e] = Retired(@, "forced")] ELSE ep
    /\ End(x)
    /\ UNCHANGED <<box, lin, outer, inner, client, promise, spent>>

----------------------------------------------------------------------------
(* Succession across a compaction.                                           *)

Live(l)  == lin[l].state \in {"fresh", "consumed"} /\ ~lin[l].expired
Fresh(l) == Live(l) /\ lin[l].state = "fresh"
Conv(l)  == lin[l].from[1]

\* liveSuccessionRecords unlinks what has expired.
Swept == [l \in Lineage |->
            IF lin[l].expired /\ lin[l].state \in {"fresh", "consumed"}
            THEN [lin[l] EXCEPT !.state = "gone"] ELSE lin[l]]

\* Mutant: a record that was consumed already is used again.
Mint_ReusesConsumed(x) ==
    LET e == call[x].e
        s == call[x].s
        Again == {l \in Lineage : Live(l) /\ lin[l].seat = e /\ Conv(l) = s[1]}
        Free  == {l \in Lineage : lin[l].state = "absent"}
    IN
    /\ call[x].at = "mint" /\ inner[e] = None
    /\ IF Again # {} THEN lin' = Swept
       ELSE /\ Free # {}
            /\ lin' = [Swept EXCEPT ![Min(Free)] =
                         [NoLineage EXCEPT !.state = "fresh", !.seat = e, !.from = s]]
    /\ promise' = IF s = Now(s[1]) /\ client[s[1]].phase = "compacting"
                  THEN [promise EXCEPT ![s[1]] = e] ELSE promise
    /\ End(x)
    /\ UNCHANGED <<ep, box, outer, inner, client, spent>>

\* mintCompactionSuccession: the seat was looked up without the lock; a live
\* record of the seat and transcript is used again, whoever it is from.
Mint(x) ==
    LET e == call[x].e
        s == call[x].s
        Again == {l \in Lineage : Fresh(l) /\ lin[l].seat = e /\ Conv(l) = s[1]}
        Free  == {l \in Lineage : lin[l].state = "absent"}
    IN
    /\ call[x].at = "mint" /\ inner[e] = None
    /\ IF Again # {} THEN lin' = Swept
       ELSE /\ Free # {}
            /\ lin' = [Swept EXCEPT ![Min(Free)] =
                         [NoLineage EXCEPT !.state = "fresh", !.seat = e, !.from = s]]
    /\ promise' = IF s = Now(s[1]) /\ client[s[1]].phase = "compacting"
                  THEN [promise EXCEPT ![s[1]] = e] ELSE promise
    /\ End(x)
    /\ UNCHANGED <<ep, box, outer, inner, client, spent>>

\* consumeCompactionSuccession: the record to claim, under endpoints.lock.
Consume(x) ==
    LET s == call[x].s
        New   == {l \in Lineage : Fresh(l) /\ Conv(l) = s[1]}
        Retry == {l \in Lineage : Live(l) /\ Conv(l) = s[1] /\ lin[l].state = "consumed"
                                     /\ lin[l].to = s}
        Match == IF Cardinality(New) = 1 THEN New
                 ELSE IF New = {} /\ Cardinality({lin[l].seat : l \in Retry}) = 1
                 THEN {Max(Retry)} ELSE {}
    IN
    /\ call[x].at = "consume" /\ outer = None
    /\ lin' = Swept
    /\ IF Match = {} THEN Go(x, "find") /\ UNCHANGED outer
       ELSE /\ outer' = x
            /\ \E l \in Match :
                  call' = [call EXCEPT ![x].at = "claim", ![x].l = l, ![x].e = lin[l].seat]
    /\ UNCHANGED <<ep, box, inner, client, promise, spent>>

\* The endpoint and the record are read again under the endpoint's lock.
Claim(x) ==
    LET e == call[x].e
        s == call[x].s
        l == lin[call[x].l]
        Hand(at) == /\ inner' = [inner EXCEPT ![e] = x] /\ UNCHANGED outer
                    /\ Go(x, at)
        Out(at)  == /\ call' = [call EXCEPT ![x].at = at, ![x].l = None,
                                             ![x].e = IF at = "refresh" THEN e ELSE None]
                    /\ FreeOuter(x) /\ UNCHANGED inner
    IN
    /\ call[x].at = "claim" /\ inner[e] = None
    /\ \/ l.state = "gone" /\ End(x) /\ FreeOuter(x) /\ UNCHANGED inner
          /\ promise' = [promise EXCEPT ![s[1]] = None]
       \/ /\ l.state # "gone" /\ UNCHANGED promise
          /\ \/ e \notin Active /\ Out("find")
             \/ /\ e \in Active /\ l.state = "consumed"
                /\ Out(IF l.to = s /\ Owns(e, s) THEN "refresh" ELSE "find")
             \/ /\ e \in Active /\ l.state = "fresh"
                /\ IF Owns(e, s) THEN Hand("settle")
                   ELSE IF Owns(e, l.from) THEN Hand("rebind") ELSE Out("find")
    /\ UNCHANGED <<ep, box, lin, client, spent>>

Rebind(x) ==
    /\ call[x].at = "rebind"
    /\ ep' = [ep EXCEPT ![call[x].e] = [@ EXCEPT !.owner = call[x].s]]
    /\ Go(x, "settle")
    /\ UNCHANGED <<box, lin, outer, inner, client, promise, spent>>

Settle(x) ==
    /\ call[x].at = "settle"
    /\ lin' = [lin EXCEPT ![call[x].l].state = "consumed", ![call[x].l].to = call[x].s]
    /\ call' = [call EXCEPT ![x].at = "refresh", ![x].l = None]
    /\ FreeOuter(x) /\ FreeInner(x)
    /\ UNCHANGED <<ep, box, client, promise, spent>>

\* findEndpointForTask, where no succession was consumed.
Find(x) ==
    /\ call[x].at = "find"
    /\ \/ \E e \in Seats(call[x].s) :
             call' = [call EXCEPT ![x].at = "refresh", ![x].e = e]
       \/ Seats(call[x].s) = {} /\ End(x)
    /\ UNCHANGED <<ep, box, lin, outer, inner, client, promise, spent>>

----------------------------------------------------------------------------
(* Agents, clients and the environment.                                      *)

\* The client runs one hook of a conversation at a time.
HookRuns(c) == \E x \in Caller : call[x].at \in Starting \cup {"mint"} /\ call[x].s = Now(c)

BeginJoin(x, c, r) ==
    /\ client[c].phase = "on"
    /\ Begin(x, "join", Now(c), r)
    /\ UNCHANGED <<client, promise, spent>>

BeginLeave(x, c) ==
    /\ client[c].phase = "on"
    /\ \E e \in Seats(Now(c)) : Begin(x, "leave", Now(c), e)
    /\ Spend
    /\ UNCHANGED <<client, promise>>

BeginForce(x, e) ==
    /\ e \in Active
    /\ Begin(x, "force", None, e)
    /\ Spend
    /\ UNCHANGED <<client, promise>>

StartHook(x, c) ==
    /\ client[c].up /\ client[c].phase \in {"start", "restart"}
    /\ Begin(x, IF client[c].phase = "restart" THEN "consume" ELSE "find", Now(c), None)
    /\ client' = [client EXCEPT ![c].phase = "on"]
    /\ UNCHANGED <<promise, spent>>

CompactHook(x, c) ==
    /\ client[c].up /\ client[c].phase = "on" /\ ~HookRuns(c)
    /\ client' = [client EXCEPT ![c].phase = "compacting"]
    /\ promise' = [promise EXCEPT ![c] = None]
    /\ \/ \E e \in Seats(Now(c)) : Begin(x, "mint", Now(c), e)
       \/ /\ Seats(Now(c)) = {} /\ call[x].at = "idle"
          /\ UNCHANGED <<ep, box, lin, outer, inner, call>>
    /\ Spend

\* The session keeps its id or is given the next one.
Compacted(c) ==
    /\ client[c].up /\ client[c].phase = "compacting" /\ ~HookRuns(c)
    /\ \E k \in {client[c].k, client[c].k + 1} \cap (1..MaxSessions[c]) :
          client' = [client EXCEPT ![c].k = k, ![c].phase = "restart"]
    /\ UNCHANGED <<ep, box, lin, outer, inner, call, promise, spent>>

Exit(c) ==
    /\ client[c].up
    /\ Spend
    /\ client' = [client EXCEPT ![c].up = FALSE, ![c].phase = "on"]
    /\ promise' = [promise EXCEPT ![c] = None]
    /\ UNCHANGED <<ep, box, lin, outer, inner, call>>

Resume(c) ==
    /\ ~client[c].up /\ client[c].proc < MaxProcesses[c]
    /\ client' = [client EXCEPT ![c].proc = @ + 1, ![c].up = TRUE, ![c].phase = "start"]
    /\ UNCHANGED <<ep, box, lin, outer, inner, call, promise, spent>>

Forgotten(s) == IF s = None THEN promise ELSE [promise EXCEPT ![s[1]] = None]

\* Fifteen minutes are over.
Expire(l) ==
    /\ lin[l].state \in {"fresh", "consumed"} /\ ~lin[l].expired
    /\ Spend
    /\ lin' = [lin EXCEPT ![l].expired = TRUE]
    /\ promise' = Forgotten(lin[l].from)
    /\ UNCHANGED <<ep, box, outer, inner, call, client>>

\* A wait for a lock is given up: any call of the endpoint may hold it long.
LockTimesOut(x) ==
    /\ call[x].at \in {"join", "consume", "incumbent", "persist", "leave", "force", "mint", "claim"}
    /\ Spend
    /\ box' = IF call[x].at = "incumbent" THEN box \ {call[x].id} ELSE box
    /\ promise' = IF call[x].at \in {"consume", "claim"} THEN Forgotten(call[x].s) ELSE promise
    /\ End(x) /\ FreeOuter(x)
    /\ UNCHANGED <<ep, lin, inner, client>>

\* A call dies.  Its locks are found to be a dead process's.
Crash(x) ==
    /\ call[x].at # "idle"
    /\ Spend
    /\ promise' = IF call[x].at \in Starting THEN Forgotten(call[x].s) ELSE promise
    /\ End(x) /\ FreeOuter(x) /\ FreeInner(x)
    /\ UNCHANGED <<ep, box, lin, client>>

Step(x) ==
    \/ JoinChecks(x) \/ MakeMailbox(x) \/ Replace(x) \/ CreateEndpoint(x)
    \/ Decide(x) \/ AssertCaller(x) \/ Persist(x)
    \/ Leave(x) \/ ForceRetire(x) \/ Mint(x)
    \/ Consume(x) \/ Claim(x) \/ Rebind(x) \/ Settle(x) \/ Find(x)

Next ==
    \/ \E x \in Caller :
          \/ Step(x) \/ ReplaceFails(x) \/ CreateFails(x) \/ LockTimesOut(x) \/ Crash(x)
          \/ \E c \in Conversation :
                \/ BeginAttach(x, c) \/ BeginLeave(x, c) \/ StartHook(x, c) \/ CompactHook(x, c)
                \/ \E r \in Active \cup {None} : BeginJoin(x, c, r)
          \/ \E e \in Endpoint : BeginForce(x, e)
    \/ \E c \in Conversation : Compacted(c) \/ Exit(c) \/ Resume(c)
    \/ \E l \in Lineage : Expire(l)

Spec == Init /\ [][Next]_vars

----------------------------------------------------------------------------
(* Properties.                                                               *)

\* The bus has two seats, taken once, inherited once, and passed on only to
\* later sessions of a conversation, whatever joins, hooks and operators do
\* at the same time and wherever they die (endpoints.ts: joinEndpoint,
\* consumeCompactionSuccession and withEndpointLock).
Registry == INSTANCE BusRegistry
    WITH held <- [e \in Endpoint |-> IF e \in Active THEN ep[e].owner ELSE None],
         over <- Registered \ Active,
         heir <- [e \in Endpoint |-> ep[e].pred]

ImplementsRegistry == Registry!RegistrySpec

\* Nobody is replaced whose recorded process runs: the record that a
\* replacement overwrites names a dead process, although a session's start
\* may have bound a new one since the listing (joinEndpoint's inner lock).
LiveIsNeverReplaced ==
    [][\A e \in Endpoint : ep[e].status = "active" /\ ep'[e].status = "replaced" =>
           ep[e].ref # None /\ ~Alive(ep[e].ref)]_vars

\* Every registered endpoint has its mailbox, or each of its calls would be
\* refused as corrupt: joins that die and their cleanups never take it.
MailboxesAreKept == Registered \subseteq box

\* A compaction keeps the seat: when the PreCompact hook has provided for a
\* seat and the next session's SessionStart hook has run, the seat is its,
\* unless it was given up, the evidence is ambiguous (two fresh records of
\* one transcript), or the record used again is a former owner's.
FormerOwners(e) == \E l \in Lineage : Fresh(l) /\ lin[l].seat = e /\ lin[l].from # ep[e].owner
Ambiguous(c) == \E l, m \in Lineage : l # m /\ Fresh(l) /\ Fresh(m) /\ Conv(l) = c /\ Conv(m) = c

CompactionKeepsSeat ==
    \A c \in Conversation :
        promise[c] # None /\ client[c].phase = "on" /\ ~HookRuns(c) =>
            \/ promise[c] \notin Active
            \/ ep[promise[c]].owner = Now(c)
            \/ Ambiguous(c) \/ FormerOwners(promise[c])
=============================================================================
