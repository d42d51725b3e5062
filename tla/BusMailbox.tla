----------------------------- MODULE BusMailbox -----------------------------
(***************************************************************************)
(* Sending, delivery and acknowledgment on the message bus                 *)
(* (src/src/bus/store.ts, idempotency.ts, endpoints.ts, hook-status.ts).   *)
(*                                                                         *)
(* Everything is a file.  A thread is a directory of numbered, immutable   *)
(* entries; a mailbox is a directory of pointers to message entries, each  *)
(* first written as a pending intent and renamed once its message is       *)
(* committed; a receipt records what became of an idempotency key; an      *)
(* endpoint's record holds how far its owner has polled and been prompted. *)
(* A sender crosses all four, a file at a time, and may die between any    *)
(* two; polls, setups and hooks of other processes run in between.         *)
(*                                                                         *)
(* Locks are HardenedLock's and appear as guards.  An endpoint's lock is   *)
(* held while at[e] is not "idle"; a thread's lock (or threads.lock, when  *)
(* the thread is being created) is held by the publisher and the acker of  *)
(* ThreadLocked and ThreadsLocked; a mailbox's reconcile lock is held      *)
(* while rec[x] is not free and by a redelivery.                           *)
(***************************************************************************)
EXTENDS Naturals, Sequences, FiniteSets, FiniteSetsExt

CONSTANTS
    Endpoint,    \* endpoint ids, those of successors included
    Founder,     \* the two endpoints that joined first
    Key,         \* idempotency keys
    Payload,     \* message contents
    Actionable,  \* the payloads of an actionable kind
    Sends,       \* what the agents send: [by, key, payload, reply]
    Updates,     \* the thread updates they make: "park", "resolve", "reopen"
    Reading,     \* the endpoints whose agents poll and acknowledge
    Replacing,   \* the replacements that are set up: [new, old]
    Prompted,    \* the endpoints whose client runs the Stop hook
    MaxHops,     \* the configured hop cap of a thread
    PollLimit,   \* messages surfaced by one poll
    MaxId,       \* bound: threads and messages ever created
    MaxLog,      \* bound: entries of a thread beyond which nobody updates it
    MaxFaults,   \* bound: calls that die or fail half way, counters lost
    Lossy,       \* whether a mailbox's counter file may be lost
    None

ASSUME MailboxAssumption ==
    /\ Founder \subseteq Endpoint
    /\ Actionable \subseteq Payload
    /\ Sends \subseteq [by : Endpoint, key : Key, payload : Payload, reply : BOOLEAN]
    /\ Updates \subseteq {"park", "resolve", "reopen"}
    /\ Reading \subseteq Endpoint /\ Prompted \subseteq Endpoint
    /\ Replacing \subseteq [new : Endpoint \ Founder, old : Endpoint]
    /\ MaxHops \in Nat \ {0} /\ PollLimit \in Nat \ {0}
    /\ MaxId \in Nat /\ MaxLog \in Nat /\ MaxFaults \in Nat /\ Lossy \in BOOLEAN
    /\ None \notin Endpoint \cup Key \cup Payload

VARIABLES
    log,         \* log[t]: the entries of thread t; none if it does not exist
    box,         \* box[e]: the mailbox: counter, active and pending pointers
    receipt,     \* receipt[e][k]: the idempotency receipt
    ep,          \* ep[e]: the endpoint's record
    joining,     \* [new, old] between the two writes of a replacement
    at, send,    \* the call that holds e's endpoint lock, and its publication
    walk,        \* what a poll has left to show, and has shown
    rec,         \* rec[x]: the reconciliation of mailbox x
    hook,        \* hook[e]: the pointers the Stop hook has read
    nextId,      \* the next fresh thread or message id
    faults,      \* the failures so far
    seen, told   \* history: messages shown by a poll; announced by the hook

vars == <<log, box, receipt, ep, joining, at, send, walk, rec, hook, nextId,
          faults, seen, told>>

Id      == 1..MaxId
Ptr     == [seq : Nat, id : Id, thread : Id, pos : Nat]
Place   == [thread : Id, pos : Nat]
Hash    == [payload : Payload, to : Endpoint, into : 0..MaxId]
NoHash  == [payload |-> None, to |-> None, into |-> 0]

\* A publication: what its receipt records, and the seq of its entry.
NoPub == [key |-> None, hash |-> NoHash, thread |-> 0, id |-> 0, seq |-> 0,
          pos |-> 0, outcome |-> "delivered", refused |-> FALSE]
NoReceipt == [state |-> "none", hash |-> NoHash, thread |-> 0, id |-> 0,
              seq |-> 0, outcome |-> "delivered"]
NoWalk == [left |-> {}, cursor |-> 0, shown |-> {}]
NoRec  == [at |-> "free", by |-> "poll", todo |-> {}, lockOn |-> 0, threads |-> {},
           known |-> {}, missing |-> {}, listed |-> {}, next |-> "known", seq |-> 0, dirs |-> {}]

Publishing == {"receipt", "intent", "commit", "activate", "finalize",
               "park", "parkEntry", "parkFinal"}
Sending == {"recover", "forget", "redeliver", "reactivate", "confirm", "fresh"}
              \cup Publishing
Polling == {"reconcile", "walk", "answer"}
RecordAt == {"free", "intents", "intent", "list", "list2", "scan", "create", "write", "sweep"}

\* What the files hold, and the locals of the calls.
Entry   == [type : {"message", "ack", "park", "resolve", "reopen"}, id : 0..MaxId,
            by : Endpoint, to : Endpoint \cup {None}, key : Key \cup {None},
            hash : Hash \cup {NoHash}]
Mailbox == [next : Nat, active : SUBSET Ptr, pending : SUBSET Ptr]
Receipt == [state : {"none", "pending", "final"}, hash : Hash \cup {NoHash},
            thread : 0..MaxId, id : 0..MaxId, seq : Nat, outcome : {"delivered", "parked"}]
Record  == [status : {"absent", "active", "retired"}, pred : Endpoint \cup {None},
            polled : Nat, blocked : Nat]
Pub     == [key : Key \cup {None}, hash : Hash \cup {NoHash}, thread : 0..MaxId,
            id : 0..MaxId, seq : Nat, pos : Nat, outcome : {"delivered", "parked"},
            refused : BOOLEAN]
Walk    == [left : SUBSET Ptr, cursor : Nat, shown : SUBSET Id]
Rec     == [at : RecordAt, by : {"poll", "setup"}, todo : SUBSET Ptr, lockOn : 0..MaxId,
            threads : SUBSET Id, known : SUBSET Id, missing : SUBSET Place,
            listed : SUBSET Ptr, next : {"known", "create", "sweep", "done"}, seq : Nat,
            dirs : SUBSET (Endpoint \X {"active", "pending"})]

TypeOK ==
    /\ log \in [Id -> Seq(Entry)]
    /\ box \in [Endpoint -> Mailbox]
    /\ receipt \in [Endpoint -> [Key -> Receipt]]
    /\ ep \in [Endpoint -> Record]
    /\ joining \in [new : Endpoint, old : Endpoint] \cup {None}
    /\ at \in [Endpoint -> {"idle", "ackClean"} \cup Sending \cup Polling]
    /\ send \in [Endpoint -> Pub]
    /\ walk \in [Endpoint -> Walk]
    /\ rec \in [Endpoint -> Rec]
    /\ hook \in [Endpoint -> SUBSET Ptr]
    /\ nextId \in 1..(MaxId + 1)
    /\ faults \in 0..MaxFaults
    /\ seen \subseteq Id /\ told \subseteq Id

Init ==
    /\ log = [t \in Id |-> <<>>]
    /\ box = [e \in Endpoint |-> [next |-> 1, active |-> {}, pending |-> {}]]
    /\ receipt = [e \in Endpoint |-> [k \in Key |-> NoReceipt]]
    /\ ep = [e \in Endpoint |-> [status |-> IF e \in Founder THEN "active" ELSE "absent",
                                 pred |-> None, polled |-> 0, blocked |-> 0]]
    /\ joining = None
    /\ at = [e \in Endpoint |-> "idle"]
    /\ send = [e \in Endpoint |-> NoPub]
    /\ walk = [e \in Endpoint |-> NoWalk]
    /\ rec = [e \in Endpoint |-> NoRec]
    /\ hook = [e \in Endpoint |-> {}]
    /\ nextId = 1
    /\ faults = 0
    /\ seen = {} /\ told = {}

----------------------------------------------------------------------------
(* What foldBusThread answers about a thread.  Appends are serialized by the *)
(* thread's lock, so the fold is a function of the entries there now.        *)

Threads == {t \in Id : log[t] # <<>>}
MessageAt(t, i) == i \in 1..Len(log[t]) /\ log[t][i].type = "message"
Acked(t) == {log[t][i].id : i \in {j \in 1..Len(log[t]) : log[t][j].type = "ack"}}

\* The state entries decide; a message or an ack changes nothing.
State(t) ==
    LET changes == {i \in 1..Len(log[t]) : log[t][i].type \in {"park", "resolve", "reopen"}}
    IN  IF changes = {} THEN "open"
        ELSE CASE log[t][Max(changes)].type = "park" -> "parked"
               [] log[t][Max(changes)].type = "resolve" -> "resolved"
               [] OTHER -> "open"

Terminal(t, m) == m \in Acked(t) \/ State(t) = "resolved"
hopCount(t) == Cardinality({i \in 1..Len(log[t]) :
                  MessageAt(t, i) /\ log[t][i].hash.payload \in Actionable})
Participants(t) == {log[t][1].by, log[t][1].to}

\* The pointer names a message committed for one of the addressees.
MatchesCanonical(p, addressees) ==
    /\ MessageAt(p.thread, p.pos)
    /\ log[p.thread][p.pos].id = p.id
    /\ log[p.thread][p.pos].to \in addressees

Active(e) == ep[e].status = "active"
Peers(e) == {f \in Endpoint \ {e} : Active(f)}

\* endpointAddressees: the endpoint and those it replaced, transitively; the
\* least set that has e and the predecessor of each of its members.
Inherits(S) == \A f \in S : ep[f].pred \in S \cup {None}
Addressees(e) == {f \in Endpoint : \A S \in SUBSET Endpoint :
                                      e \in S /\ Inherits(S) => f \in S}

ThreadLocked(t) == \E e \in Endpoint :
    \/ at[e] \in Publishing /\ send[e].hash.into = t
    \/ at[e] = "ackClean" /\ send[e].thread = t
ThreadsLocked == \E e \in Endpoint : at[e] \in Publishing /\ send[e].hash.into = 0
ReconcileLocked(x) ==
    \/ rec[x].at # "free"
    \/ \E e \in Endpoint : at[e] = "reactivate" /\ send[e].hash.to = x

\* Mutant: the counter does not count.
AllocSeq_FromPointers(x) ==
    Max({1, ep[x].polled + 1, ep[x].blocked + 1}
        \cup {p.seq + 1 : p \in box[x].active \cup box[x].pending})
\* allocateMailboxSeq, whole under the mailbox's own lock: above the counter,
\* every pointer, and what the owner has polled or been prompted for.
AllocSeq(x) ==
    Max({box[x].next, ep[x].polled + 1, ep[x].blocked + 1}
        \cup {p.seq + 1 : p \in box[x].active \cup box[x].pending})

\* mailboxPointers reads the active directory, then the pending one, and
\* keeps one pointer of a message: the last it met.
Listing(active, pending) ==
    LET later(q, p) == /\ q.id = p.id
                       /\ \/ q \in pending /\ p \notin pending
                          \/ (q \in pending <=> p \in pending) /\ q.seq > p.seq
    IN  {p \in active \cup pending : ~\E q \in active \cup pending : later(q, p)}

Ids(S) == {p.id : p \in S}
First(S) == CHOOSE p \in S : \A q \in S : p.seq <= q.seq
Pointer(p) == [seq |-> p.seq, id |-> p.id, thread |-> p.thread, pos |-> p.pos]
Renamed(b, p) == IF p \in b.pending
                   THEN [b EXCEPT !.pending = @ \ {p}, !.active = @ \cup {p}] ELSE b

Goto(e, l) == at' = [at EXCEPT ![e] = l]

\* The call ends and gives its locks back.
Return(e) ==
    /\ Goto(e, "idle")
    /\ send' = [send EXCEPT ![e] = NoPub]

----------------------------------------------------------------------------
(* sendBusMessage *)

\* Mutant: only a final receipt is looked at.
SendBusMessage_IgnoresPending(e) ==
    /\ at[e] = "idle" /\ Active(e) /\ Cardinality(Peers(e)) <= 1
    /\ \E s \in {c \in Sends : c.by = e} :
       \E into \in IF s.reply THEN {t \in Threads : e \in Participants(t)} ELSE {0} :
       \E to \in Peers(e) :
          /\ receipt[e][s.key].state # "final" /\ Goto(e, "fresh")
          /\ send' = [send EXCEPT ![e] = [NoPub EXCEPT !.key = s.key,
                        !.hash = [payload |-> s.payload, to |-> to, into |-> into]]]
    /\ UNCHANGED <<log, box, receipt, ep, joining, walk, rec, hook, nextId, faults, seen, told>>

\* A final receipt answers at once and changes nothing.
SendBusMessage(e) ==
    /\ at[e] = "idle" /\ Active(e) /\ Cardinality(Peers(e)) <= 1
    /\ \E s \in {c \in Sends : c.by = e} :
       \E into \in IF s.reply THEN {t \in Threads : e \in Participants(t)} ELSE {0} :
          LET prior   == receipt[e][s.key]
              other   == IF into # 0 THEN Participants(into) \ {e}
                         ELSE IF Peers(e) # {} THEN Peers(e) ELSE {prior.hash.to} \ {None}
              refused == IF into # 0 THEN other \cap Peers(e) = {} ELSE Peers(e) = {}
          IN \E to \in other :
              /\ \/ prior.state = "pending" /\ Goto(e, "recover")
                 \/ prior.state = "none" /\ ~refused /\ Goto(e, "fresh")
              /\ send' = [send EXCEPT ![e] =
                    [NoPub EXCEPT !.key = s.key, !.refused = refused,
                        !.hash = [payload |-> s.payload, to |-> to, into |-> into]]]
    /\ UNCHANGED <<log, box, receipt, ep, joining, walk, rec, hook, nextId, faults, seen, told>>

SetReceipt(e, r) == receipt' = [receipt EXCEPT ![e][send[e].key] = r]

\* Nothing to replay: a fresh publication, unless the peer is gone.
Afresh(e) == IF send[e].refused THEN Return(e) ELSE Goto(e, "fresh") /\ UNCHANGED send

\* recoverPendingReceipt: the call that wrote the receipt died on the way.
RecoverReceipt(e) ==
    /\ at[e] = "recover"
    /\ LET r == receipt[e][send[e].key]
           kind == IF r.outcome = "parked" THEN "park" ELSE "message"
           committed == \E i \in 1..Len(log[r.thread]) :
                           log[r.thread][i].type = kind /\ log[r.thread][i].id = r.id
           same == r.hash = send[e].hash
       IN \/ committed /\ ~same /\ Return(e) /\ UNCHANGED <<receipt, box>>
          \/ /\ committed /\ same /\ kind = "park"
             /\ SetReceipt(e, [r EXCEPT !.state = "final"])
             /\ Return(e) /\ UNCHANGED box
          \/ /\ committed /\ same /\ kind = "message"
             /\ Goto(e, "redeliver") /\ UNCHANGED <<receipt, box, send>>
          \/ /\ ~committed /\ kind = "park"
             /\ SetReceipt(e, NoReceipt)
             /\ Afresh(e) /\ UNCHANGED box
          \/ /\ ~committed /\ kind = "message"
             /\ box' = [box EXCEPT ![r.hash.to].pending =
                           {p \in @ : p.seq # r.seq \/ p.id # r.id}]
             /\ Goto(e, "forget") /\ UNCHANGED <<receipt, send>>
    /\ UNCHANGED <<log, ep, joining, walk, rec, hook, nextId, faults, seen, told>>

ForgetReceipt(e) ==
    /\ at[e] = "forget"
    /\ SetReceipt(e, NoReceipt)
    /\ Afresh(e)
    /\ UNCHANGED <<log, box, ep, joining, walk, rec, hook, nextId, faults, seen, told>>

\* The message is committed: its pointer is put back where it was.
Recovered(e) ==
    LET r == receipt[e][send[e].key]
    IN  [seq |-> r.seq, id |-> r.id, thread |-> r.thread,
         pos |-> CHOOSE i \in 1..Len(log[r.thread]) :
                    MessageAt(r.thread, i) /\ log[r.thread][i].id = r.id]

Redeliver(e) ==
    /\ at[e] = "redeliver"
    /\ LET x == send[e].hash.to
           p == Recovered(e)
       IN /\ ~ReconcileLocked(x)
          /\ \/ p \in box[x].active /\ Goto(e, "confirm") /\ UNCHANGED box
             \/ /\ p \notin box[x].active
                /\ box' = [box EXCEPT ![x].pending = @ \cup {p}]
                /\ Goto(e, "reactivate")
    /\ UNCHANGED <<log, receipt, ep, joining, send, walk, rec, hook, nextId, faults, seen, told>>

\* The rename, and the check that it took place: an error if it did not.
Reactivate(e) ==
    /\ at[e] = "reactivate"
    /\ LET x == send[e].hash.to
           p == Recovered(e)
       IN \/ /\ p \in box[x].pending \cup box[x].active
             /\ box' = [box EXCEPT ![x] = Renamed(@, p)]
             /\ Goto(e, "confirm") /\ UNCHANGED send
          \/ p \notin box[x].active /\ Return(e) /\ UNCHANGED box
    /\ UNCHANGED <<log, receipt, ep, joining, walk, rec, hook, nextId, faults, seen, told>>

----------------------------------------------------------------------------
(* createThread, replyToThread *)

\* What both do before the first write, under their lock.
Prepare(e, t, pos) ==
    LET x == send[e].hash.to
    IN  /\ send' = [send EXCEPT ![e].thread = t, ![e].id = nextId, ![e].pos = pos,
                                ![e].seq = AllocSeq(x)]
        /\ box' = [box EXCEPT ![x].next = AllocSeq(x) + 1]
        /\ nextId' = nextId + 1
        /\ Goto(e, "receipt")

CreateThread(e) ==
    /\ at[e] = "fresh" /\ send[e].hash.into = 0
    /\ ~ThreadsLocked /\ nextId <= MaxId
    /\ Prepare(e, nextId, 1)
    /\ UNCHANGED <<log, receipt, ep, joining, walk, rec, hook, faults, seen, told>>

\* Mutant: the message that reaches the cap goes through.
OverHopCap_Loose(e) == /\ send[e].hash.payload \in Actionable
                       /\ hopCount(send[e].hash.into) > MaxHops
OverHopCap(e) == /\ send[e].hash.payload \in Actionable
                 /\ hopCount(send[e].hash.into) >= MaxHops
Duplicate(e) ==
    /\ send[e].hash.payload \in Actionable
    /\ \E i \in 1..Len(log[send[e].hash.into]) :
          LET m == log[send[e].hash.into][i]
          IN  /\ m.type = "message" /\ m.by = e /\ m.to = send[e].hash.to
              /\ m.hash.payload = send[e].hash.payload

\* Mutant: the entry number is read before the thread's lock is taken.
ReplyToThread_Unlocked(e) ==
    /\ at[e] = "fresh"
    /\ LET t == send[e].hash.into
       IN /\ t # 0 /\ nextId <= MaxId
          /\ State(t) = "open" /\ ~OverHopCap(e) /\ ~Duplicate(e)
          /\ Prepare(e, t, Len(log[t]) + 1)
    /\ UNCHANGED <<log, receipt, ep, joining, walk, rec, hook, faults, seen, told>>

\* One message too many, or a repeated one, parks the thread instead: the
\* receipt names the very entry that is about to be written.
ReplyToThread(e) ==
    /\ at[e] = "fresh"
    /\ LET t == send[e].hash.into
       IN /\ t # 0 /\ ~ThreadLocked(t) /\ nextId <= MaxId
          /\ \/ State(t) # "open" /\ Return(e) /\ UNCHANGED <<box, nextId>>
             \/ /\ State(t) = "open" /\ (OverHopCap(e) \/ Duplicate(e))
                /\ send' = [send EXCEPT ![e].thread = t, ![e].id = nextId,
                               ![e].pos = Len(log[t]) + 1, ![e].outcome = "parked"]
                /\ nextId' = nextId + 1
                /\ Goto(e, "park") /\ UNCHANGED box
             \/ /\ State(t) = "open" /\ ~OverHopCap(e) /\ ~Duplicate(e)
                /\ Prepare(e, t, Len(log[t]) + 1)
    /\ UNCHANGED <<log, receipt, ep, joining, walk, rec, hook, faults, seen, told>>

\* Mutant: the receipt is final at once.
WriteReceipt_Final(e) ==
    /\ at[e] \in {"receipt", "park"}
    /\ SetReceipt(e, [state |-> "final", hash |-> send[e].hash, thread |-> send[e].thread,
                      id |-> send[e].id, seq |-> send[e].seq, outcome |-> send[e].outcome])
    /\ Goto(e, IF at[e] = "park" THEN "parkEntry" ELSE "intent")
    /\ UNCHANGED <<log, box, ep, joining, send, walk, rec, hook, nextId, faults, seen, told>>

WriteReceipt(e) ==
    /\ at[e] \in {"receipt", "park"}
    /\ SetReceipt(e, [state |-> "pending", hash |-> send[e].hash, thread |-> send[e].thread,
                      id |-> send[e].id, seq |-> send[e].seq, outcome |-> send[e].outcome])
    /\ Goto(e, IF at[e] = "park" THEN "parkEntry" ELSE "intent")
    /\ UNCHANGED <<log, box, ep, joining, send, walk, rec, hook, nextId, faults, seen, told>>

PublishPointerIntent(e) ==
    /\ at[e] = "intent"
    /\ box' = [box EXCEPT ![send[e].hash.to].pending = @ \cup {Pointer(send[e])}]
    /\ Goto(e, "commit")
    /\ UNCHANGED <<log, receipt, ep, joining, send, walk, rec, hook, nextId, faults, seen, told>>

\* durableCreate is exclusive: it fails where an entry has the number.
CommitEntry(e) ==
    /\ at[e] \in {"commit", "parkEntry"}
    /\ LET t == send[e].thread
           parks == at[e] = "parkEntry"
       IN \/ Len(log[t]) >= send[e].pos /\ Return(e) /\ UNCHANGED log
          \/ /\ Len(log[t]) < send[e].pos
             /\ log' = [log EXCEPT ![t] = Append(@,
                   [type |-> IF parks THEN "park" ELSE "message", id |-> send[e].id,
                    by |-> e, to |-> send[e].hash.to,
                    key |-> send[e].key, hash |-> send[e].hash])]
             /\ Goto(e, IF parks THEN "parkFinal" ELSE "activate")
             /\ UNCHANGED send
    /\ UNCHANGED <<box, receipt, ep, joining, walk, rec, hook, nextId, faults, seen, told>>

\* activatePointer: a failed rename is ignored, the pending intent remains.
ActivatePointer(e) ==
    /\ at[e] = "activate"
    /\ LET x == send[e].hash.to
       IN  \/ box' = [box EXCEPT ![x] = Renamed(@, Pointer(send[e]))]
           \/ UNCHANGED box
    /\ Goto(e, "finalize")
    /\ UNCHANGED <<log, receipt, ep, joining, send, walk, rec, hook, nextId, faults, seen, told>>

FinalizeReceipt(e) ==
    /\ at[e] \in {"finalize", "confirm", "parkFinal"}
    /\ receipt' = [receipt EXCEPT ![e][send[e].key].state = "final"]
    /\ Return(e)
    /\ UNCHANGED <<log, box, ep, joining, walk, rec, hook, nextId, faults, seen, told>>

\* A wait for a lock lasts five seconds at most, and the call fails.
LockTimesOut(e) ==
    /\ \/ at[e] = "redeliver" /\ ReconcileLocked(send[e].hash.to)
       \/ at[e] = "fresh" /\ IF send[e].hash.into = 0 THEN ThreadsLocked
                             ELSE ThreadLocked(send[e].hash.into)
    /\ Return(e)
    /\ UNCHANGED <<log, box, receipt, ep, joining, walk, rec, hook, nextId, faults, seen, told>>

----------------------------------------------------------------------------
(* reconcileEndpointMailbox: by a poll, which holds the endpoint's lock, or  *)
(* by the setup that made a successor (materializeSuccessorMailbox), which   *)
(* does not.                                                                 *)

Advance(x, r) == rec' = [rec EXCEPT ![x] = r]
Begun(x, by) == [NoRec EXCEPT !.at = "intents", !.by = by, !.todo = box[x].pending]
AncestorDirs(x) == (Addressees(x) \ {x}) \X {"active", "pending"}

StartPoll(e) ==
    /\ e \in Reading /\ at[e] = "idle" /\ Active(e) /\ ~ReconcileLocked(e)
    /\ Goto(e, "reconcile")
    /\ Advance(e, Begun(e, "poll"))
    /\ UNCHANGED <<log, box, receipt, ep, joining, send, walk, hook, nextId, faults, seen, told>>

MaterializeSuccessorMailbox(x) ==
    /\ Active(x) /\ ep[x].pred # None /\ ~ReconcileLocked(x)
    /\ Advance(x, Begun(x, "setup"))
    /\ UNCHANGED <<log, box, receipt, ep, joining, at, send, walk, hook, nextId, faults, seen, told>>

\* The next pending pointer, and the lock of its thread: threads.lock while
\* the thread does not exist.
PickIntent(x) ==
    /\ rec[x].at = "intents" /\ rec[x].todo # {}
    /\ LET p == First(rec[x].todo)
       IN Advance(x, IF p \notin box[x].pending THEN [rec[x] EXCEPT !.todo = @ \ {p}]
                     ELSE [rec[x] EXCEPT !.at = "intent",
                             !.lockOn = IF p.thread \in Threads THEN p.thread ELSE 0])
    /\ UNCHANGED <<log, box, receipt, ep, joining, at, send, walk, hook, nextId, faults, seen, told>>

\* recoverPendingIntent: activate what is committed, unlink what is not; a
\* wait for the lock that times out is a finding, and the next one's turn.
RecoverPendingIntent(x) ==
    /\ rec[x].at = "intent"
    /\ LET p == First(rec[x].todo)
           locked == IF rec[x].lockOn = 0 THEN ThreadsLocked ELSE ThreadLocked(rec[x].lockOn)
       IN /\ \/ locked /\ UNCHANGED box
             \/ /\ ~locked /\ MatchesCanonical(p, {x})
                /\ box' = [box EXCEPT ![x] = Renamed(@, p)] \/ UNCHANGED box
             \/ /\ ~locked /\ ~MatchesCanonical(p, {x})
                /\ box' = [box EXCEPT ![x].pending = @ \ {p}]
          /\ Advance(x, [rec[x] EXCEPT !.at = "intents", !.todo = @ \ {p}])
    /\ UNCHANGED <<log, receipt, ep, joining, at, send, walk, hook, nextId, faults, seen, told>>

ListActive(x) ==
    /\ \/ rec[x].at = "list"
       \/ rec[x].at = "intents" /\ rec[x].todo = {}
    /\ Advance(x, [rec[x] EXCEPT !.at = "list2", !.listed = box[x].active])
    /\ UNCHANGED <<log, box, receipt, ep, joining, at, send, walk, hook, nextId, faults, seen, told>>

\* The listing is complete; the last one of all is what the poll walks.
ListPending(x) ==
    /\ rec[x].at = "list2"
    /\ LET listed == Listing(rec[x].listed, box[x].pending)
       IN CASE rec[x].next = "known" ->
                 /\ Advance(x, [rec[x] EXCEPT !.at = "scan", !.known = Ids(listed),
                                               !.threads = Threads, !.listed = {}])
                 /\ UNCHANGED <<at, walk>>
            [] rec[x].next \in {"create", "sweep"} ->
                 /\ Advance(x, [rec[x] EXCEPT !.at = rec[x].next, !.listed = listed])
                 /\ UNCHANGED <<at, walk>>
            [] rec[x].next = "done" ->
                 /\ Advance(x, NoRec)
                 /\ IF rec[x].by = "setup" THEN UNCHANGED <<at, walk>>
                    ELSE /\ Goto(x, "walk")
                         /\ walk' = [walk EXCEPT ![x] =
                               [left |-> listed, cursor |-> ep[x].polled, shown |-> {}]]
    /\ UNCHANGED <<log, box, receipt, ep, joining, send, hook, nextId, faults, seen, told>>

\* Fold the next thread: what it owes the addressees and nobody points to.
FoldThread(x) ==
    /\ rec[x].at = "scan"
    /\ \E t \in rec[x].threads :
          LET owed == IF State(t) = "resolved" THEN {}
                      ELSE {[thread |-> t, pos |-> i] : i \in {j \in 1..Len(log[t]) :
                              /\ MessageAt(t, j) /\ log[t][j].to \in Addressees(x)
                              /\ log[t][j].id \notin Acked(t) \cup rec[x].known}}
          IN Advance(x, [rec[x] EXCEPT !.threads = @ \ {t}, !.missing = owed, !.next = "create",
                                       !.at = IF owed = {} THEN "scan" ELSE "list"])
    /\ UNCHANGED <<log, box, receipt, ep, joining, at, send, walk, hook, nextId, faults, seen, told>>

FirstMissing(x) == CHOOSE m \in rec[x].missing : \A n \in rec[x].missing : m.pos <= n.pos
MissingId(x) == log[FirstMissing(x).thread][FirstMissing(x).pos].id

\* This message has its pointer: on to the next one, which lists again.
Pointed(x) ==
    LET rest == rec[x].missing \ {FirstMissing(x)}
    IN  Advance(x, [rec[x] EXCEPT !.missing = rest, !.known = @ \cup {MissingId(x)},
                      !.listed = {}, !.seq = 0, !.at = IF rest = {} THEN "scan" ELSE "list"])

AllocatePointer(x) ==
    /\ rec[x].at = "create"
    /\ \/ MissingId(x) \in Ids(rec[x].listed) /\ Pointed(x) /\ UNCHANGED box
       \/ /\ MissingId(x) \notin Ids(rec[x].listed)
          /\ box' = [box EXCEPT ![x].next = AllocSeq(x) + 1]
          /\ Advance(x, [rec[x] EXCEPT !.at = "write", !.seq = AllocSeq(x)])
    /\ UNCHANGED <<log, receipt, ep, joining, at, send, walk, hook, nextId, faults, seen, told>>

CreatePointer(x) ==
    /\ rec[x].at = "write"
    /\ box' = [box EXCEPT ![x].active = @ \cup
                 {[seq |-> rec[x].seq, id |-> MissingId(x),
                   thread |-> FirstMissing(x).thread, pos |-> FirstMissing(x).pos]}]
    /\ Pointed(x)
    /\ UNCHANGED <<log, receipt, ep, joining, at, send, walk, hook, nextId, faults, seen, told>>

EndScan(x) ==
    /\ rec[x].at = "scan" /\ rec[x].threads = {}
    /\ Advance(x, [rec[x] EXCEPT !.at = "list", !.dirs = AncestorDirs(x), !.known = {},
                      !.next = IF AncestorDirs(x) = {} THEN "done" ELSE "sweep"])
    /\ UNCHANGED <<log, box, receipt, ep, joining, at, send, walk, hook, nextId, faults, seen, told>>

\* Mutant: an ancestor's pointer is redundant once its message is committed.
Sweep_Unconditionally(x) ==
    /\ rec[x].at = "sweep"
    /\ \E d \in rec[x].dirs :
          /\ d[2] = "pending" => <<d[1], "active">> \notin rec[x].dirs
          /\ LET redundant(p) == MatchesCanonical(p, Addressees(x))
                 kept(dir, S) == IF d[2] = dir THEN {p \in S : ~redundant(p)} ELSE S
             IN box' = [box EXCEPT ![d[1]].active = kept("active", @),
                                   ![d[1]].pending = kept("pending", @)]
          /\ Advance(x, [rec[x] EXCEPT !.dirs = @ \ {d}, !.next = "done",
                            !.at = IF rec[x].dirs = {d} THEN "list" ELSE "sweep"])
    /\ UNCHANGED <<log, receipt, ep, joining, at, send, walk, hook, nextId, faults, seen, told>>

\* An ancestor's pointers whose message has its own here, is acknowledged or
\* in a resolved thread, a directory at a time.
Sweep(x) ==
    /\ rec[x].at = "sweep"
    /\ \E d \in rec[x].dirs :
          /\ d[2] = "pending" => <<d[1], "active">> \notin rec[x].dirs
          /\ LET delivered == Ids({p \in rec[x].listed : MatchesCanonical(p, Addressees(x))})
                 redundant(p) == /\ MatchesCanonical(p, Addressees(x))
                                 /\ p.id \in delivered \/ Terminal(p.thread, p.id)
                 kept(dir, S) == IF d[2] = dir THEN {p \in S : ~redundant(p)} ELSE S
             IN box' = [box EXCEPT ![d[1]].active = kept("active", @),
                                   ![d[1]].pending = kept("pending", @)]
          /\ Advance(x, [rec[x] EXCEPT !.dirs = @ \ {d}, !.next = "done",
                            !.at = IF rec[x].dirs = {d} THEN "list" ELSE "sweep"])
    /\ UNCHANGED <<log, receipt, ep, joining, at, send, walk, hook, nextId, faults, seen, told>>

----------------------------------------------------------------------------
(* pollBus, after the reconciliation *)

RemovePointer(x, p) ==
    box' = [box EXCEPT ![x].active = @ \ {p}, ![x].pending = @ \ {p}]

WalkOver(e) == walk[e].left = {} \/ Cardinality(walk[e].shown) >= PollLimit

\* Mutant: what the cursor has passed is not shown again.
WalkPointer_OnlyNew(e) ==
    /\ at[e] = "walk" /\ ~WalkOver(e)
    /\ LET p == First(walk[e].left)
           rest == walk[e].left \ {p}
       IN walk' = [walk EXCEPT ![e] =
             IF p.seq > ep[e].polled /\ MatchesCanonical(p, Addressees(e)) /\ ~Terminal(p.thread, p.id)
             THEN [left |-> rest, shown |-> @.shown \cup {p.id}, cursor |-> Max({@.cursor, p.seq})]
             ELSE [@ EXCEPT !.left = rest]]
    /\ UNCHANGED <<log, box, receipt, ep, joining, at, send, rec, hook, nextId, faults, seen, told>>

WalkPointer(e) ==
    /\ at[e] = "walk" /\ ~WalkOver(e)
    /\ LET p == First(walk[e].left)
           rest == walk[e].left \ {p}
       IN \/ /\ ~MatchesCanonical(p, Addressees(e))
             /\ walk' = [walk EXCEPT ![e].left = rest] /\ UNCHANGED box
          \/ /\ MatchesCanonical(p, Addressees(e)) /\ Terminal(p.thread, p.id)
             /\ RemovePointer(e, p)
             /\ walk' = [walk EXCEPT ![e].left = rest]
          \/ /\ MatchesCanonical(p, Addressees(e)) /\ ~Terminal(p.thread, p.id)
             /\ walk' = [walk EXCEPT ![e] = [left |-> rest, shown |-> @.shown \cup {p.id},
                                             cursor |-> Max({@.cursor, p.seq})]]
             /\ UNCHANGED box
    /\ UNCHANGED <<log, receipt, ep, joining, at, send, rec, hook, nextId, faults, seen, told>>

PersistCursor(e) ==
    /\ at[e] = "walk" /\ WalkOver(e)
    /\ ep' = [ep EXCEPT ![e].polled = Max({@, walk[e].cursor})]
    /\ Goto(e, "answer")
    /\ UNCHANGED <<log, box, receipt, joining, send, walk, rec, hook, nextId, faults, seen, told>>

\* The answer reaches the agent.
AnswerPoll(e) ==
    /\ at[e] = "answer"
    /\ seen' = seen \cup walk[e].shown
    /\ walk' = [walk EXCEPT ![e] = NoWalk]
    /\ Return(e)
    /\ UNCHANGED <<log, box, receipt, ep, joining, rec, hook, nextId, faults, told>>

----------------------------------------------------------------------------
(* acknowledgeBusMessage, updateBusThread *)

StateEntry(type, id, e) ==
    [type |-> type, id |-> id, by |-> e, to |-> None, key |-> None, hash |-> NoHash]

\* The first acknowledgment of a message some poll has shown.
AcknowledgeBusMessage(e) ==
    /\ e \in Reading /\ at[e] = "idle" /\ Active(e)
    /\ \E t \in Threads : \E i \in 1..Len(log[t]) :
          /\ MessageAt(t, i) /\ log[t][i].to \in Addressees(e)
          /\ log[t][i].id \in seen \ Acked(t)
          /\ ~ThreadLocked(t)
          /\ log' = [log EXCEPT ![t] = Append(@, StateEntry("ack", log[t][i].id, e))]
          /\ send' = [send EXCEPT ![e] = [NoPub EXCEPT !.thread = t, !.id = log[t][i].id]]
    /\ Goto(e, "ackClean")
    /\ UNCHANGED <<box, receipt, ep, joining, walk, rec, hook, nextId, faults, seen, told>>

\* Its pointer in the own mailbox goes, still under the thread's lock.
AckClean(e) ==
    /\ at[e] = "ackClean"
    /\ LET mine == {p \in Listing(box[e].active, box[e].pending) : p.id = send[e].id}
       IN box' = [box EXCEPT ![e].active = @ \ mine, ![e].pending = @ \ mine]
    /\ Return(e)
    /\ UNCHANGED <<log, receipt, ep, joining, walk, rec, hook, nextId, faults, seen, told>>

UpdateBusThread(e) ==
    /\ at[e] = "idle" /\ Active(e)
    /\ \E t \in Threads, action \in Updates :
          /\ Addressees(e) \cap Participants(t) # {}
          /\ ~ThreadLocked(t) /\ Len(log[t]) < MaxLog
          /\ CASE action = "park" -> State(t) = "open"
               [] action = "resolve" -> State(t) # "resolved"
               [] action = "reopen" -> State(t) = "parked"
          /\ log' = [log EXCEPT ![t] = Append(@, StateEntry(action, 0, e))]
    /\ UNCHANGED <<box, receipt, ep, joining, at, send, walk, rec, hook, nextId, faults, seen, told>>

----------------------------------------------------------------------------
(* claimBusPendingDelivery: the Stop hook *)

Floor(e) == Max({ep[e].polled, ep[e].blocked})

\* pendingMailboxCursor counts the unacknowledged messages of a listing.
Counted(e) == {p \in Listing(box[e].active, box[e].pending) :
                  /\ MessageAt(p.thread, p.pos) /\ log[p.thread][p.pos].id = p.id
                  /\ p.id \notin Acked(p.thread)}
Cursor(S) == Max({0} \cup {p.seq : p \in S})

\* The read, under the endpoint's lock; the hook is silent if nothing is new.
ReadPendingCursor(e) ==
    /\ e \in Prompted /\ at[e] = "idle" /\ Active(e) /\ hook[e] = {}
    /\ Cursor(Counted(e)) > Floor(e)
    /\ hook' = [hook EXCEPT ![e] = Counted(e)]
    /\ UNCHANGED <<log, box, receipt, ep, joining, at, send, walk, rec, nextId, faults, seen, told>>

\* Mutant: what the first hold read is claimed in the second.
ClaimPendingDelivery_NoRecheck(e) ==
    /\ at[e] = "idle" /\ hook[e] # {}
    /\ ep' = [ep EXCEPT ![e].blocked = Cursor(hook[e])]
    /\ told' = told \cup Ids(hook[e])
    /\ hook' = [hook EXCEPT ![e] = {}]
    /\ UNCHANGED <<log, box, receipt, joining, at, send, walk, rec, nextId, faults, seen>>

\* The claim, under the lock taken again, and the prompt.
ClaimPendingDelivery(e) ==
    /\ at[e] = "idle" /\ hook[e] # {}
    /\ LET cursor == Cursor(hook[e])
       IN IF Active(e) /\ cursor > Floor(e)
            THEN /\ ep' = [ep EXCEPT ![e].blocked = cursor]
                 /\ told' = told \cup Ids(hook[e])
            ELSE UNCHANGED <<ep, told>>
    /\ hook' = [hook EXCEPT ![e] = {}]
    /\ UNCHANGED <<log, box, receipt, joining, at, send, walk, rec, nextId, faults, seen>>

----------------------------------------------------------------------------
(* joinEndpoint with a replacement: two writes under endpoints.lock, the     *)
(* first also under the incumbent's own lock                                 *)

RetireIncumbent(new, old) ==
    /\ joining = None /\ [new |-> new, old |-> old] \in Replacing
    /\ ep[new].status = "absent" /\ Active(old) /\ at[old] = "idle"
    /\ ep' = [ep EXCEPT ![old].status = "retired"]
    /\ joining' = [new |-> new, old |-> old]
    /\ UNCHANGED <<log, box, receipt, at, send, walk, rec, hook, nextId, faults, seen, told>>

CreateSuccessor ==
    /\ joining # None
    /\ ep' = [ep EXCEPT ![joining.new] = [@ EXCEPT !.status = "active", !.pred = joining.old]]
    /\ joining' = None
    /\ UNCHANGED <<log, box, receipt, at, send, walk, rec, hook, nextId, faults, seen, told>>

----------------------------------------------------------------------------
(* A process dies, or a write fails and its error is thrown: the call ends   *)
(* where it is and its locks are reclaimed.                                  *)

Fail == faults < MaxFaults /\ faults' = faults + 1

CallFails(e) ==
    /\ Fail
    /\ at[e] # "idle"
    /\ Return(e)
    /\ walk' = [walk EXCEPT ![e] = NoWalk]
    /\ rec' = [rec EXCEPT ![e] = IF at[e] = "reconcile" THEN NoRec ELSE @]
    /\ UNCHANGED <<log, box, receipt, ep, joining, hook, nextId, seen, told>>

SetupFails(x) ==
    /\ Fail
    /\ rec[x].at # "free" /\ rec[x].by = "setup"
    /\ Advance(x, NoRec)
    /\ UNCHANGED <<log, box, receipt, ep, joining, at, send, walk, hook, nextId, seen, told>>

\* Between the two writes of a replacement: the successor is never created.
JoinFails ==
    /\ Fail
    /\ joining # None
    /\ joining' = None
    /\ UNCHANGED <<log, box, receipt, ep, at, send, walk, rec, hook, nextId, seen, told>>

\* counter.json disappears (external damage; the allocator expects it).
LoseCounter(x) ==
    /\ Lossy /\ Fail
    /\ box[x].next > 1
    /\ box' = [box EXCEPT ![x].next = 1]
    /\ UNCHANGED <<log, receipt, ep, joining, at, send, walk, rec, hook, nextId, seen, told>>

----------------------------------------------------------------------------
SendStep(e) ==
    \/ RecoverReceipt(e) \/ ForgetReceipt(e) \/ Redeliver(e) \/ Reactivate(e)
    \/ CreateThread(e) \/ ReplyToThread(e) \/ WriteReceipt(e)
    \/ PublishPointerIntent(e) \/ CommitEntry(e) \/ ActivatePointer(e) \/ FinalizeReceipt(e)
    \/ LockTimesOut(e)

ReconcileStep(x) ==
    \/ PickIntent(x) \/ RecoverPendingIntent(x) \/ ListActive(x) \/ ListPending(x)
    \/ FoldThread(x) \/ AllocatePointer(x) \/ CreatePointer(x) \/ EndScan(x) \/ Sweep(x)

PollStep(e) == WalkPointer(e) \/ PersistCursor(e) \/ AnswerPoll(e)

Next ==
    \/ \E e \in Endpoint :
          \/ SendBusMessage(e) \/ SendStep(e)
          \/ StartPoll(e) \/ MaterializeSuccessorMailbox(e) \/ ReconcileStep(e) \/ PollStep(e)
          \/ AcknowledgeBusMessage(e) \/ AckClean(e) \/ UpdateBusThread(e)
          \/ ReadPendingCursor(e) \/ ClaimPendingDelivery(e)
          \/ CallFails(e) \/ SetupFails(e) \/ LoseCounter(e)
    \/ \E new, old \in Endpoint : RetireIncumbent(new, old)
    \/ CreateSuccessor \/ JoinFails

Spec == Init /\ [][Next]_vars

----------------------------------------------------------------------------
(* Properties *)

Places == UNION {{t} \X DOMAIN log[t] : t \in Id}
EntryAt(q) == log[q[1]][q[2]]
Keyed(e, k) == {q \in Places : /\ EntryAt(q).type \in {"message", "park"}
                               /\ EntryAt(q).by = e /\ EntryAt(q).key = k}

\* A final receipt answers retries without looking further: the entry it
\* stands for is in its thread, and is the one that was asked for.
FinalReceiptIsCommitted ==
    \A e \in Endpoint, k \in Key :
        LET r == receipt[e][k]
        IN  r.state = "final" =>
              \E q \in Keyed(e, k) : /\ q[1] = r.thread /\ EntryAt(q).id = r.id
                                     /\ EntryAt(q).hash = r.hash

\* "every unacked message keeps >=1 pointer throughout" (the sweep's comment):
\* in the mailbox of its addressee or of an endpoint that inherits it.
UnackedKeepsAPointer ==
    \A q \in Places : (EntryAt(q).type = "message" /\ ~Terminal(q[1], EntryAt(q).id)) =>
        \E x \in Endpoint :
            /\ EntryAt(q).to \in Addressees(x)
            /\ \E p \in box[x].active \cup box[x].pending :
                  p.thread = q[1] /\ p.pos = q[2] /\ p.id = EntryAt(q).id

\* Two pointers of a mailbox never have the same number, and neither do one
\* that exists and one that a publication or a reconciliation was allocated:
\* the cursors would take one for the other.
SeqIsUnique ==
    \A x \in Endpoint :
        LET all   == box[x].active \cup box[x].pending
            owner == {e \in Endpoint : at[e] \in {"receipt", "intent"} /\ send[e].hash.to = x}
        IN  /\ \A p, q \in all : p.seq = q.seq => p.id = q.id
            /\ \A e \in owner : send[e].seq \notin {p.seq : p \in all}
            /\ rec[x].at = "write" => rec[x].seq \notin
                  {p.seq : p \in all} \cup {send[e].seq : e \in owner}

\* A publisher's entry number is still free when it writes: otherwise the
\* thread would be quarantined or the send lost to a conflict.
NumberStaysFree ==
    \A e \in Endpoint : at[e] \in {"commit", "parkEntry"} =>
        Len(log[send[e].thread]) = send[e].pos - 1

\* Two peers who answer each other at once, or repeat what failed, never get
\* more actionable messages into a thread than its cap.
HopCapHolds == \A t \in Threads : hopCount(t) <= MaxHops

\* The Stop hook blocks its agent only for mail that neither a poll nor an
\* earlier prompt has brought up, although it reads and claims in two holds
\* of the endpoint's lock.
PromptsAreNews ==
    [][\A e \in Endpoint : ep'[e].blocked # ep[e].blocked =>
          ~(Ids(hook[e]) \subseteq seen \cup told)]_vars

\* To the agents the bus is BusService.
Named(S) == {<<EntryAt(q).by, EntryAt(q).key>> :
               q \in {r \in Places : EntryAt(r).type = "message" /\ EntryAt(r).id \in S}}
Count(e, k, type) == Cardinality({q \in Keyed(e, k) : EntryAt(q).type = type})

Service == INSTANCE BusService
    WITH sent   <- [e \in Endpoint |-> [k \in Key |-> Count(e, k, "message")]],
         parked <- [e \in Endpoint |-> [k \in Key |-> Count(e, k, "park")]],
         shown  <- Named(seen),
         done   <- Named(UNION {Acked(t) : t \in Threads})

ImplementsService == Service!ServiceSpec

Messages(m) == {q \in Places : EntryAt(q).type = "message" /\ EntryAt(q).id = m}
Settled(m) == \E q \in Messages(m) :
    \/ m \in seen
    \/ Terminal(q[1], m)
    \/ ~\E x \in Reading : Active(x) /\ EntryAt(q).to \in Addressees(x)

\* A committed message reaches an agent: it is shown by a poll, unless it is
\* acknowledged or its thread resolved first, or nobody inherits its
\* addressee's mail (a replacement that stopped between its two writes).
CommittedIsShown == \A m \in Id : Messages(m) # {} ~> Settled(m)

\* Every call ends: the order in which endpoint, reconcile, thread and
\* mailbox locks are taken leaves nobody waiting forever.
CallsEnd == \A e \in Endpoint : []<>(at[e] = "idle")

\* "the guarded Stop hook checks the mailbox when a turn ends and injects a
\* poll prompt when peer mail is pending" (skill/bus-mode.md): when it would
\* be silent, all the mail it counts was shown or announced before.
SilenceMeansNothingNew ==
    \A e \in Prompted :
        (/\ Active(e) /\ at[e] = "idle" /\ hook[e] = {}
         /\ Cursor(Counted(e)) <= Floor(e)) => Ids(Counted(e)) \subseteq seen \cup told
=============================================================================
