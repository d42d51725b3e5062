-------------------------- MODULE BusMailboxProofs --------------------------
(***************************************************************************)
(* Sends take effect once, their receipts are true, their entry numbers    *)
(* stay free and a thread keeps within its hop cap: for any endpoints,     *)
(* keys, contents, replacements and agents, any number of messages, and    *)
(* any budget of calls that die or fail half way.                          *)
(***************************************************************************)
EXTENDS BusMailbox, FiniteSetTheorems, SequenceTheorems, WellFoundedInduction, TLAPS

(***************************************************************************)
(* The strengthening.  What a call has done so far is known from where it  *)
(* is, what a key has come to from its receipt; an id belongs to one key   *)
(* of one endpoint, and a thread that grows is locked.                     *)
(***************************************************************************)
Delivers == {"receipt", "intent", "commit", "activate", "finalize"}
Parks    == {"park", "parkEntry", "parkFinal"}
Retries  == {"recover", "forget", "redeliver", "reactivate", "confirm"}
Repeats  == {"redeliver", "reactivate", "confirm"}

\* The entry number is taken and the entry not yet written; and what comes
\* before and after it is written.
Numbered == {"receipt", "intent", "commit", "park", "parkEntry"}
Before   == {"forget", "fresh"} \cup Numbered
After    == {"activate", "finalize", "parkFinal"} \cup Repeats

\* A published entry has a key, no other has one; a thread begins with a
\* message, and its acknowledgments are of messages it has.
EntryInv(t) ==
    /\ log[t] # <<>> => t < nextId /\ log[t][1].type = "message"
    /\ \A i \in 1..Len(log[t]) :
          LET m == log[t][i]
          IN  /\ m.type = "message" => m.key \in Key
              /\ m.key \in Key => /\ m.type \in {"message", "park"}
                                  /\ m.id \in Id /\ m.id < nextId
                                  /\ m.to \in Endpoint /\ m.hash \in Hash
              /\ m.type = "park" /\ m.key \notin Key => m.id = 0
              /\ m.type = "ack" => \E j \in 1..Len(log[t]) :
                                      MessageAt(t, j) /\ log[t][j].id = m.id

\* A key is in the log once, where its receipt says.
ReceiptInv(e, k) ==
    LET r == receipt[e][k]
    IN  /\ r.state # "none" => /\ r.id \in Id /\ r.id < nextId
                               /\ r.thread \in Id /\ r.hash \in Hash
        /\ \A q \in Keyed(e, k) : /\ r.state # "none" /\ q[1] = r.thread
                                  /\ EntryAt(q).id = r.id /\ EntryAt(q).hash = r.hash
                                  /\ (EntryAt(q).type = "park") <=> (r.outcome = "parked")
        /\ \A q, s \in Keyed(e, k) : q = s
        /\ r.state = "final" => Keyed(e, k) # {}

\* A call that sends: what it asks for, and what there is of it.
AskedOf(e) ==
    at[e] \in Sending => /\ send[e].key \in Key /\ send[e].hash \in Hash
                         /\ send[e].hash.into # 0 => log[send[e].hash.into] # <<>>
WrittenOf(e) ==
    /\ at[e] \in Before => Keyed(e, send[e].key) = {}
    /\ at[e] \in After => Keyed(e, send[e].key) # {}
ReceiptOf(e) ==
    LET r == receipt[e][send[e].key]
    IN  /\ at[e] \in Retries => r.state = "pending"
        /\ at[e] \in {"fresh", "receipt", "park"} => r.state = "none"
        /\ at[e] \in Repeats => r.hash = send[e].hash /\ r.outcome = "delivered"
        /\ at[e] \in Publishing \ {"receipt", "park"} =>
              /\ r.state = "pending" /\ r.hash = send[e].hash /\ r.thread = send[e].thread
              /\ r.id = send[e].id /\ r.seq = send[e].seq /\ r.outcome = send[e].outcome

\* A publication: its thread, its number and the hops it may still take.
PublicationOf(e) ==
    /\ at[e] \in Publishing =>
          /\ send[e].id \in Id /\ send[e].id < nextId /\ send[e].pos \in Nat \ {0}
          /\ send[e].thread = IF send[e].hash.into = 0 THEN send[e].id ELSE send[e].hash.into
          /\ send[e].hash.into = 0 => send[e].pos = 1
    /\ at[e] \in {"recover", "forget", "fresh"} \cup Delivers => send[e].outcome = "delivered"
    /\ at[e] \in Parks => send[e].outcome = "parked" /\ send[e].hash.into # 0
    /\ at[e] \in Numbered => Len(log[send[e].thread]) = send[e].pos - 1
    /\ at[e] \in Delivers \cap Numbered /\ send[e].hash.payload \in Actionable =>
          hopCount(send[e].thread) < MaxHops

CallInv(e) == AskedOf(e) /\ WrittenOf(e) /\ ReceiptOf(e) /\ PublicationOf(e)

\* Two publications are in different threads and have different ids.
Apart(e, f) ==
    e # f /\ at[e] \in Publishing /\ at[f] \in Publishing =>
        send[e].hash.into # send[f].hash.into /\ send[e].id # send[f].id

\* An id belongs to one key of one endpoint.
Owned(e, k, id) == receipt[e][k].state # "none" /\ receipt[e][k].id = id
IdInv ==
    /\ \A e, f \in Endpoint, k, l \in Key :
          receipt[e][k].state # "none" /\ Owned(f, l, receipt[e][k].id) => e = f /\ k = l
    /\ \A e, f \in Endpoint, l \in Key :
          at[e] \in Publishing /\ Owned(f, l, send[e].id) => f = e /\ l = send[e].key

\* A reconciliation: what it misses is in the log, and there is something
\* where it creates a pointer; a poll's belongs to the call of its endpoint.
RecFits(r) ==
    /\ r.at \in {"create", "write"} => r.next = "create"
    /\ r.at \in {"intents", "intent", "list", "list2", "create", "write"} /\ r.next = "create" =>
          r.missing # {}
    /\ \A m \in r.missing : MessageAt(m.thread, m.pos)
RecInv(x) ==
    /\ RecFits(rec[x])
    /\ rec[x].at # "free" /\ rec[x].by = "poll" => at[x] = "reconcile"

\* Pointers have a largest number.
Bounded(S) == \E b \in Nat : \A p \in S : p.seq <= b
BoundInv(x) == Bounded(box[x].active \cup box[x].pending) /\ Bounded(hook[x])

\* What a poll has shown is in the log.
ShownInv == \A m \in seen \cup UNION {walk[e].shown : e \in Endpoint} : Messages(m) # {}

MailInv ==
    /\ TypeOK
    /\ \A t \in Id : EntryInv(t)
    /\ \A e \in Endpoint, k \in Key : ReceiptInv(e, k)
    /\ \A e \in Endpoint : CallInv(e)
    /\ \A e, f \in Endpoint : Apart(e, f)
    /\ IdInv

IInv ==
    /\ MailInv
    /\ \A x \in Endpoint : RecInv(x) /\ BoundInv(x)
    /\ ShownInv
    /\ HopCapHolds
----------------------------------------------------------------------------
(* Numbers, pointers and what is chosen from a set of them. *)

\* A set of numbers has a least one.
LEMMA LeastNumber ==
    ASSUME NEW S \in SUBSET Nat, S # {}
    PROVE  \E m \in S : \A n \in S : m <= n
<1> DEFINE Below(n) == 1..n
           Family == {Below(n) : n \in S}
<1>1. Family \subseteq FiniteSubsetsOf(Nat) /\ Family # {}
  <2>1. \A n \in S : IsFiniteSet(Below(n)) /\ Below(n) \subseteq Nat
    BY FS_Interval
  <2>2. QED
    BY <2>1 DEF FiniteSubsetsOf
<1>2. PICK T \in Family : \A U \in Family : ~(<<U, T>> \in StrictSubsetOrdering(Nat))
  <2> HIDE DEF Family
  <2> QED  BY <1>1, FS_StrictSubsetOrderingWellFounded, WFMin
<1>3. PICK m \in S : T = Below(m)
  OBVIOUS
<1>4. ASSUME NEW n \in S, n < m
      PROVE  FALSE
  <2>1. Below(n) \subseteq Below(m) /\ m \in Below(m) /\ m \notin Below(n)
    BY <1>4
  <2>2. Below(n) \in SUBSET Nat /\ Below(m) \in SUBSET Nat
    OBVIOUS
  <2>3. <<Below(n), Below(m)>> \in StrictSubsetOrdering(Nat)
    BY <2>1, <2>2 DEF StrictSubsetOrdering
  <2>4. QED
    BY <1>2, <1>3, <2>3
<1>5. QED
  BY <1>4

\* A set of numbers that are not above some bound has a greatest one.
LEMMA GreatestNumber ==
    ASSUME NEW S \in SUBSET Nat, S # {}, NEW b \in Nat, \A n \in S : n <= b
    PROVE  Max(S) \in S /\ \A n \in S : n <= Max(S)
<1> DEFINE T == {b - n : n \in S}
<1>1. T \in SUBSET Nat /\ T # {}
  <2>1. \A n \in S : b - n \in Nat
    OBVIOUS
  <2>2. PICK n \in S : TRUE
    OBVIOUS
  <2>3. b - n \in T
    BY <2>2
  <2>4. \A i \in T : i \in Nat
    BY <2>1
  <2>5. QED
    BY <2>3, <2>4
<1>2. PICK l \in T : \A n \in T : l <= n
  <2> HIDE DEF T
  <2> QED  BY <1>1, LeastNumber
<1>3. PICK m \in S : l = b - m
  BY <1>2
<1>4. \A n \in S : m >= n
  <2>1. \A n \in S : b - m <= b - n
    BY <1>2, <1>3
  <2>2. QED
    BY <2>1
<1>5. QED
  BY <1>3, <1>4 DEF Max

LEMMA GreaterOfTwo ==
    ASSUME NEW a \in Nat, NEW b \in Nat
    PROVE  Max({a, b}) \in Nat /\ a <= Max({a, b}) /\ b <= Max({a, b})
BY GreatestNumber, a + b \in Nat

\* The number allotted in a mailbox is above everything there.
LEMMA AllocSeqAbove ==
    ASSUME NEW x \in Endpoint, box[x] \in Mailbox, ep[x] \in Record,
           Bounded(box[x].active \cup box[x].pending)
    PROVE  /\ AllocSeq(x) \in Nat /\ AllocSeq(x) >= box[x].next
           /\ AllocSeq(x) > ep[x].polled /\ AllocSeq(x) > ep[x].blocked
           /\ \A p \in box[x].active \cup box[x].pending : AllocSeq(x) > p.seq
<1> DEFINE P == box[x].active \cup box[x].pending
           S == {box[x].next, ep[x].polled + 1, ep[x].blocked + 1} \cup {p.seq + 1 : p \in P}
<1>1. PICK b \in Nat : \A p \in P : p.seq <= b
  BY DEF Bounded
<1>2. /\ box[x].next \in Nat /\ ep[x].polled \in Nat /\ ep[x].blocked \in Nat
      /\ \A p \in P : p.seq \in Nat
  BY DEF Mailbox, Record, Ptr
<1>3. S \in SUBSET Nat /\ S # {} /\ \A n \in S : n <= b + 1 + box[x].next + ep[x].polled + ep[x].blocked + 1
  BY <1>1, <1>2
<1>4. Max(S) \in S /\ \A n \in S : n <= Max(S)
  <2>1. b + 1 + box[x].next + ep[x].polled + ep[x].blocked + 1 \in Nat
    BY <1>1, <1>2
  <2>2. QED
    BY <1>3, <2>1, GreatestNumber
<1>5. AllocSeq(x) = Max(S)
  BY DEF AllocSeq
<1>6. /\ box[x].next \in S /\ ep[x].polled + 1 \in S /\ ep[x].blocked + 1 \in S
      /\ \A p \in P : p.seq + 1 \in S
  OBVIOUS
<1>7. QED
  <2> HIDE DEF S
  <2>1. AllocSeq(x) \in Nat /\ \A n \in S : n <= AllocSeq(x)
    BY <1>3, <1>4, <1>5
  <2>2. \A p \in P : p.seq + 1 <= AllocSeq(x)
    BY <1>6, <2>1
  <2>3. box[x].next <= AllocSeq(x) /\ ep[x].polled + 1 <= AllocSeq(x) /\ ep[x].blocked + 1 <= AllocSeq(x)
    BY <1>6, <2>1
  <2>4. QED
    BY <1>2, <2>1, <2>2, <2>3

\* The first pointer of a listing.
LEMMA FirstOfThem ==
    ASSUME NEW S \in SUBSET Ptr, S # {}
    PROVE  First(S) \in S /\ \A q \in S : First(S).seq <= q.seq
<1> DEFINE T == {p.seq : p \in S}
<1>1. T \in SUBSET Nat /\ T # {}
  BY DEF Ptr
<1>2. PICK m \in T : \A n \in T : m <= n
  <2> HIDE DEF T
  <2> QED  BY <1>1, LeastNumber
<1>3. PICK p \in S : m = p.seq
  BY <1>2
<1>4. \A q \in S : p.seq <= q.seq
  BY <1>2, <1>3
<1>5. QED
  BY <1>3, <1>4 DEF First

\* The first place that a reconciliation misses.
LEMMA FirstMissingOfThem ==
    ASSUME NEW x \in Endpoint, rec[x].missing \in SUBSET Place, rec[x].missing # {}
    PROVE  FirstMissing(x) \in rec[x].missing
<1> DEFINE T == {m.pos : m \in rec[x].missing}
<1>1. T \in SUBSET Nat /\ T # {}
  <2>1. \A m \in rec[x].missing : m.pos \in Nat
    BY DEF Place
  <2>2. PICK m \in rec[x].missing : TRUE
    OBVIOUS
  <2>3. m.pos \in T
    BY <2>2
  <2>4. \A n \in T : n \in Nat
    BY <2>1
  <2>5. QED
    BY <2>3, <2>4
<1>2. PICK l \in T : \A n \in T : l <= n
  <2> HIDE DEF T
  <2> QED  BY <1>1, LeastNumber
<1>3. PICK m \in rec[x].missing : l = m.pos
  BY <1>2
<1>4. \A n \in rec[x].missing : m.pos <= n.pos
  BY <1>2, <1>3
<1>5. QED
  BY <1>3, <1>4 DEF FirstMissing

\* A pointer to a message that is there.
LEMMA EntryType ==
    ASSUME TypeOK, NEW t \in Id, NEW i \in 1..Len(log[t])
    PROVE  log[t] \in Seq(Entry) /\ log[t][i] \in Entry
BY DEF TypeOK
----------------------------------------------------------------------------
(* Types. *)

LEMMA NothingTyped ==
    /\ NoPub \in Pub /\ NoWalk \in Walk /\ NoRec \in Rec /\ NoReceipt \in Receipt
    /\ NoHash \notin Hash /\ 0 \notin Id /\ None \notin Endpoint /\ None \notin Key
<1>1. MaxId \in Nat /\ None \notin Endpoint /\ None \notin Key /\ None \notin Payload
  BY MailboxAssumption
<1>2. 0 \in 0..MaxId /\ NoHash \in Hash \cup {NoHash}
  BY <1>1
<1>3. NoPub \in Pub
  BY <1>2 DEF NoPub, Pub
<1>4. NoWalk \in Walk
  BY DEF NoWalk, Walk
<1>5. NoRec \in Rec
  BY <1>2 DEF NoRec, Rec, RecordAt
<1>6. NoReceipt \in Receipt
  BY <1>2 DEF NoReceipt, Receipt
<1>7. NoHash \notin Hash
  BY <1>1 DEF NoHash, Hash
<1>8. QED
  BY <1>1, <1>3, <1>4, <1>5, <1>6, <1>7 DEF Id

\* A call that moves, and one that ends.
LEMMA GotoTyped ==
    ASSUME TypeOK, NEW e \in Endpoint, NEW l \in {"idle", "ackClean"} \cup Sending \cup Polling,
           Goto(e, l)
    PROVE  /\ at' \in [Endpoint -> {"idle", "ackClean"} \cup Sending \cup Polling]
           /\ at'[e] = l /\ \A f \in Endpoint : f # e => at'[f] = at[f]
<1>1. at \in [Endpoint -> {"idle", "ackClean"} \cup Sending \cup Polling] /\ at' = [at EXCEPT ![e] = l]
  BY DEF TypeOK, Goto
<1> HIDE DEF Sending, Polling
<1>2. QED
  BY <1>1

LEMMA ReturnTyped ==
    ASSUME TypeOK, NEW e \in Endpoint, Return(e)
    PROVE  /\ at' \in [Endpoint -> {"idle", "ackClean"} \cup Sending \cup Polling]
           /\ at'[e] = "idle" /\ \A f \in Endpoint : f # e => at'[f] = at[f]
           /\ send' \in [Endpoint -> Pub]
           /\ send'[e] = NoPub /\ \A f \in Endpoint : f # e => send'[f] = send[f]
<1>1. Goto(e, "idle") /\ send' = [send EXCEPT ![e] = NoPub] /\ send \in [Endpoint -> Pub]
  BY DEF Return, TypeOK
<1>2. QED
  BY <1>1, GotoTyped, NothingTyped

LEMMA AdvanceTyped ==
    ASSUME TypeOK, NEW x \in Endpoint, NEW r \in Rec, Advance(x, r)
    PROVE  /\ rec' \in [Endpoint -> Rec]
           /\ rec'[x] = r /\ \A y \in Endpoint : y # x => rec'[y] = rec[y]
BY DEF TypeOK, Advance

----------------------------------------------------------------------------
(* Steps that leave the log alone. *)

LEMMA SameKeyed ==
    ASSUME log' = log, NEW e, NEW k
    PROVE  Keyed(e, k)' = Keyed(e, k)
BY DEF Keyed, Places, EntryAt

LEMMA SameEntries ==
    ASSUME log' = log, nextId \in Nat, nextId' \in Nat, nextId <= nextId', NEW t \in Id, EntryInv(t)
    PROVE  EntryInv(t)'
<1>1. \A n \in Id : n < nextId => n < nextId'
  BY DEF Id
<1>2. \A j \in 1..Len(log[t]) : MessageAt(t, j)' = MessageAt(t, j)
  BY DEF MessageAt
<1>3. ASSUME NEW i \in 1..Len(log'[t])
      PROVE  LET m == log'[t][i]
             IN  /\ m.type = "message" => m.key \in Key
                 /\ m.key \in Key => /\ m.type \in {"message", "park"}
                                     /\ m.id \in Id /\ m.id < nextId'
                                     /\ m.to \in Endpoint /\ m.hash \in Hash
                 /\ m.type = "park" /\ m.key \notin Key => m.id = 0
                 /\ m.type = "ack" => \E j \in 1..Len(log'[t]) :
                                         MessageAt(t, j)' /\ log'[t][j].id = m.id
  <2>1. i \in 1..Len(log[t]) /\ log'[t][i] = log[t][i]
    OBVIOUS
  <2>2. QED
    BY <1>1, <1>2, <2>1 DEF EntryInv
<1>4. log'[t] # <<>> => t < nextId' /\ log'[t][1].type = "message"
  BY <1>1 DEF EntryInv
<1>5. QED
  BY <1>3, <1>4 DEF EntryInv

LEMMA SameReceipt ==
    ASSUME log' = log, nextId \in Nat, nextId' \in Nat, nextId <= nextId',
           NEW e \in Endpoint, NEW k \in Key, ReceiptInv(e, k), receipt'[e][k] = receipt[e][k]
    PROVE  ReceiptInv(e, k)'
<1>1. Keyed(e, k)' = Keyed(e, k) /\ \A q : EntryAt(q)' = EntryAt(q)
  BY SameKeyed DEF EntryAt
<1>2. \A m \in Id : m \in Int
  BY DEF Id
<1>3. QED
  BY <1>1, <1>2 DEF ReceiptInv

LEMMA SameCall ==
    ASSUME log' = log, nextId \in Nat, nextId' \in Nat, nextId <= nextId',
           NEW e \in Endpoint, CallInv(e), at'[e] = at[e], send'[e] = send[e],
           receipt'[e] = receipt[e]
    PROVE  CallInv(e)'
<1>1. \A k : Keyed(e, k)' = Keyed(e, k)
  BY SameKeyed
<1>2. \A t : hopCount(t)' = hopCount(t)
  BY DEF hopCount, MessageAt
<1>3. \A m \in Id : m \in Int
  BY DEF Id
<1>4. AskedOf(e)' /\ WrittenOf(e)'
  BY <1>1 DEF CallInv, AskedOf, WrittenOf
<1>5. ReceiptOf(e)'
  BY DEF CallInv, ReceiptOf
<1>6. PublicationOf(e)'
  BY <1>2, <1>3 DEF CallInv, PublicationOf
<1>7. QED
  BY <1>4, <1>5, <1>6 DEF CallInv

\* A call that sends nothing.
LEMMA AsideCall ==
    ASSUME NEW e \in Endpoint, at'[e] \notin Sending
    PROVE  CallInv(e)'
BY DEF CallInv, AskedOf, WrittenOf, ReceiptOf, PublicationOf, Sending, Publishing, Before,
       After, Numbered, Retries, Repeats, Delivers, Parks

\* Polls, acknowledgments, hooks, joins, failures: a call that sends goes on
\* as it was or ends.
LEMMA QuietMail ==
    ASSUME MailInv, TypeOK', UNCHANGED <<log, receipt, nextId>>,
           \A e \in Endpoint : (at'[e] = at[e] /\ send'[e] = send[e]) \/ at'[e] \notin Sending
    PROVE  MailInv'
<1>1. nextId \in Nat /\ nextId' \in Nat /\ nextId <= nextId'
  BY DEF MailInv, TypeOK
<1>2. \A t \in Id : EntryInv(t)'
  BY <1>1, SameEntries DEF MailInv
<1>3. \A e \in Endpoint, k \in Key : ReceiptInv(e, k)'
  BY <1>1, SameReceipt DEF MailInv
<1>4. \A e \in Endpoint : CallInv(e)'
  <2> TAKE e \in Endpoint
  <2>1. CASE at'[e] \notin Sending
    BY <2>1, AsideCall
  <2>2. CASE at'[e] = at[e] /\ send'[e] = send[e]
    BY <1>1, <2>2, SameCall DEF MailInv
  <2>3. QED
    BY <2>1, <2>2
<1>5. \A e \in Endpoint : at'[e] \in Publishing => at[e] \in Publishing /\ send'[e] = send[e]
  BY DEF Sending
<1>6. \A e, f \in Endpoint : Apart(e, f)'
  BY <1>5 DEF MailInv, Apart
<1>7. IdInv'
  BY <1>5 DEF MailInv, IdInv, Owned
<1>8. QED
  BY <1>2, <1>3, <1>4, <1>6, <1>7 DEF MailInv

\* A call that sends takes a step, and does not begin a publication.
LEMMA SenderMail ==
    ASSUME MailInv, TypeOK', UNCHANGED <<log, nextId>>, NEW e \in Endpoint,
           \A f \in Endpoint : f # e => /\ at'[f] = at[f] /\ send'[f] = send[f]
                                        /\ receipt'[f] = receipt[f],
           at'[e] \in Publishing => at[e] \in Publishing /\ send'[e] = send[e],
           \A k \in Key : \/ receipt'[e][k] = receipt[e][k]
                          \/ receipt'[e][k].state = "none"
                          \/ receipt[e][k].state # "none" /\ receipt'[e][k].id = receipt[e][k].id
                          \/ /\ at[e] \in Publishing /\ k = send[e].key
                             /\ receipt'[e][k].id = send[e].id,
           \A k \in Key : ReceiptInv(e, k)', CallInv(e)'
    PROVE  MailInv'
<1>1. nextId \in Nat /\ nextId' \in Nat /\ nextId <= nextId'
  BY DEF MailInv, TypeOK
<1>2. \A t \in Id : EntryInv(t)'
  BY <1>1, SameEntries DEF MailInv
<1>3. \A f \in Endpoint, k \in Key : ReceiptInv(f, k)'
  BY <1>1, SameReceipt DEF MailInv
<1>4. \A f \in Endpoint : CallInv(f)'
  BY <1>1, SameCall DEF MailInv
<1>5. \A f \in Endpoint : at'[f] \in Publishing => at[f] \in Publishing /\ send'[f] = send[f]
  OBVIOUS
<1>6. \A f, g \in Endpoint : Apart(f, g)'
  BY <1>5 DEF MailInv, Apart
<1>7. \A f \in Endpoint, k \in Key : receipt'[f][k].state # "none" =>
          \/ receipt[f][k].state # "none" /\ receipt'[f][k].id = receipt[f][k].id
          \/ f = e /\ at[e] \in Publishing /\ k = send[e].key /\ receipt'[f][k].id = send[e].id
  OBVIOUS
<1>8. ASSUME NEW f \in Endpoint, NEW g \in Endpoint, NEW k \in Key, NEW l \in Key,
             receipt'[f][k].state # "none", Owned(g, l, receipt[f][k].id)'
      PROVE  f = g /\ k = l
  BY <1>7, <1>8 DEF MailInv, IdInv, Owned
<1>9. ASSUME NEW f \in Endpoint, NEW g \in Endpoint, NEW l \in Key,
             at'[f] \in Publishing, Owned(g, l, send[f].id)'
      PROVE  g = f /\ l = send'[f].key
  <2>1. /\ at[f] \in Publishing /\ send'[f] = send[f]
        /\ receipt'[g][l].state # "none" /\ receipt'[g][l].id = send[f].id
    BY <1>5, <1>9 DEF Owned
  <2>2. CASE receipt[g][l].state # "none" /\ receipt'[g][l].id = receipt[g][l].id
    <3>1. Owned(g, l, send[f].id)
      BY <2>1, <2>2 DEF Owned
    <3>2. QED
      BY <2>1, <3>1 DEF MailInv, IdInv
  <2>3. CASE g = e /\ at[e] \in Publishing /\ l = send[e].key /\ receipt'[g][l].id = send[e].id
    <3>1. CASE f = e
      BY <2>1, <2>3, <3>1
    <3>2. ASSUME f # e
          PROVE  FALSE
      <4>1. Apart(f, e)
        BY DEF MailInv
      <4>2. QED
        BY <2>1, <2>3, <3>2, <4>1 DEF Apart
    <3>3. QED
      BY <3>1, <3>2
  <2>4. QED
    BY <1>7, <2>1, <2>2, <2>3
<1>10. IdInv'
  BY <1>8, <1>9 DEF IdInv
<1>11. QED
  BY <1>2, <1>3, <1>4, <1>6, <1>10 DEF MailInv
----------------------------------------------------------------------------
(* The sender's steps up to a publication, and its retries. *)

LEMMA SendBusMessageMail ==
    ASSUME MailInv, NEW e \in Endpoint, SendBusMessage(e)
    PROVE  MailInv' /\ at[e] = "idle" /\ UNCHANGED <<log, box, rec, walk, hook, seen, nextId>>
                    /\ \A f \in Endpoint : f # e => at'[f] = at[f]
<1> DEFINE Other(s, into) == IF into # 0 THEN Participants(into) \ {e}
                             ELSE IF Peers(e) # {} THEN Peers(e)
                             ELSE {receipt[e][s.key].hash.to} \ {None}
           Refused(s, into) == IF into # 0 THEN Other(s, into) \cap Peers(e) = {}
                               ELSE Peers(e) = {}
           New(s, into, to) == [NoPub EXCEPT !.key = s.key, !.refused = Refused(s, into),
                                   !.hash = [payload |-> s.payload, to |-> to, into |-> into]]
<1>1. /\ at[e] = "idle"
      /\ UNCHANGED <<log, box, receipt, ep, joining, walk, rec, hook, nextId, faults, seen, told>>
      /\ TypeOK
  BY DEF SendBusMessage, MailInv
<1>0. PICK s \in Sends, into \in Threads \cup {0} : \E to \in Other(s, into) :
          /\ \/ receipt[e][s.key].state = "pending" /\ Goto(e, "recover")
             \/ receipt[e][s.key].state = "none" /\ Goto(e, "fresh")
          /\ send' = [send EXCEPT ![e] = New(s, into, to)]
  <2>1. PICK s \in {c \in Sends : c.by = e} :
        \E into \in IF s.reply THEN {t \in Threads : e \in Participants(t)} ELSE {0} :
        \E to \in Other(s, into) :
          /\ \/ receipt[e][s.key].state = "pending" /\ Goto(e, "recover")
             \/ receipt[e][s.key].state = "none" /\ ~Refused(s, into) /\ Goto(e, "fresh")
          /\ send' = [send EXCEPT ![e] =
                [NoPub EXCEPT !.key = s.key, !.refused = Refused(s, into),
                              !.hash = [payload |-> s.payload, to |-> to, into |-> into]]]
    <3> HIDE DEF New
    <3> QED  BY Zenon DEF SendBusMessage
  <2>2. PICK into \in IF s.reply THEN {t \in Threads : e \in Participants(t)} ELSE {0} :
        \E to \in Other(s, into) :
          /\ \/ receipt[e][s.key].state = "pending" /\ Goto(e, "recover")
             \/ receipt[e][s.key].state = "none" /\ ~Refused(s, into) /\ Goto(e, "fresh")
          /\ send' = [send EXCEPT ![e] = New(s, into, to)]
    BY <2>1
  <2>3. into \in Threads \cup {0}
    OBVIOUS
  <2> HIDE DEF New, Other, Refused
  <2>4. QED
    BY <2>1, <2>2, <2>3
<1>2. PICK to \in Other(s, into) :
          /\ \/ receipt[e][s.key].state = "pending" /\ Goto(e, "recover")
             \/ receipt[e][s.key].state = "none" /\ Goto(e, "fresh")
          /\ send' = [send EXCEPT ![e] = New(s, into, to)]
  <2> HIDE DEF New, Other, Refused
  <2>1. QED
    BY <1>0
<1>3. s.key \in Key /\ s.payload \in Payload
  BY <1>2, MailboxAssumption
<1>4. into \in 0..MaxId /\ (into # 0 => into \in Id /\ log[into] # <<>>)
  BY <1>2, NothingTyped, MailboxAssumption DEF Threads, Id
<1>5. to \in Endpoint
  <2>1. CASE into # 0
    <3>1. EntryInv(into) /\ log[into] \in Seq(Entry) /\ log[into] # <<>>
      BY <1>1, <1>4, <2>1 DEF MailInv, TypeOK
    <3>2. 1 \in 1..Len(log[into]) /\ log[into][1] \in Entry
      BY <3>1
    <3>3. log[into][1].by \in Endpoint /\ log[into][1].to \in Endpoint
      BY <3>1, <3>2 DEF EntryInv, Entry
    <3>4. QED
      BY <1>2, <2>1, <3>3 DEF Participants
  <2>2. CASE into = 0
    <3>1. receipt[e][s.key] \in Receipt
      BY <1>1, <1>3 DEF TypeOK
    <3>2. receipt[e][s.key].hash.to \in Endpoint \cup {None}
      BY <3>1 DEF Receipt, Hash, NoHash
    <3>3. Peers(e) \subseteq Endpoint
      BY DEF Peers
    <3>4. QED
      BY <1>2, <2>2, <3>2, <3>3
  <2>3. QED
    BY <2>1, <2>2
<1> DEFINE new == New(s, into, to)
<1>6. /\ new \in Pub /\ new.key = s.key /\ new.hash \in Hash /\ new.hash.into = into
      /\ new.outcome = "delivered"
  <2>1. [payload |-> s.payload, to |-> to, into |-> into] \in Hash
    BY <1>3, <1>4, <1>5 DEF Hash
  <2>2. Refused(s, into) \in BOOLEAN
    OBVIOUS
  <2> HIDE DEF Refused
  <2>3. QED
    BY <1>3, <1>4, <2>1, <2>2, NothingTyped DEF NoPub, Pub
<1>7. send' \in [Endpoint -> Pub] /\ send'[e] = new /\ \A f \in Endpoint : f # e => send'[f] = send[f]
  <2> HIDE DEF New
  <2> QED  BY <1>1, <1>2, <1>6 DEF TypeOK
<1> HIDE DEF new, New, Other, Refused
<1>8. /\ at' \in [Endpoint -> {"idle", "ackClean"} \cup Sending \cup Polling]
      /\ \A f \in Endpoint : f # e => at'[f] = at[f]
      /\ \/ receipt[e][s.key].state = "pending" /\ at'[e] = "recover"
         \/ receipt[e][s.key].state = "none" /\ at'[e] = "fresh"
  <2>1. "recover" \in Sending /\ "fresh" \in Sending
    BY DEF Sending
  <2>2. QED
    BY <1>1, <1>2, <2>1, GotoTyped
<1>9. TypeOK'
  BY <1>1, <1>7, <1>8 DEF TypeOK
<1>10. \A k \in Key : ReceiptInv(e, k)'
  <2>1. nextId \in Nat /\ nextId' \in Nat /\ nextId <= nextId'
    BY <1>1 DEF TypeOK
  <2>2. QED
    BY <1>1, <2>1, SameReceipt DEF MailInv
<1>11. CallInv(e)'
  <2>1. AskedOf(e)'
    BY <1>1, <1>3, <1>4, <1>6, <1>7 DEF AskedOf
  <2>2. Keyed(e, s.key)' = Keyed(e, s.key)
    BY <1>1, SameKeyed
  <2>3. at'[e] = "fresh" => Keyed(e, s.key) = {}
    BY <1>3, <1>8 DEF MailInv, ReceiptInv
  <2>4. WrittenOf(e)'
    BY <1>6, <1>7, <1>8, <2>2, <2>3 DEF WrittenOf, Before, After, Numbered, Repeats
  <2>5. ReceiptOf(e)'
    BY <1>1, <1>6, <1>7, <1>8 DEF ReceiptOf, Retries, Repeats, Publishing
  <2>6. PublicationOf(e)'
    BY <1>6, <1>7, <1>8 DEF PublicationOf, Publishing, Delivers, Parks, Numbered
  <2>7. QED
    BY <2>1, <2>4, <2>5, <2>6 DEF CallInv
<1>12. at'[e] \notin Publishing
  BY <1>8 DEF Publishing
<1>13. MailInv'
  BY <1>1, <1>7, <1>8, <1>9, <1>10, <1>11, <1>12, SenderMail
<1>14. QED
  BY <1>1, <1>8, <1>13
\* Places of the log.
LEMMA PlaceType ==
    ASSUME TypeOK
    PROVE  /\ \A q \in Places : /\ q[1] \in Id /\ q[2] \in 1..Len(log[q[1]])
                                /\ q = <<q[1], q[2]>> /\ EntryAt(q) \in Entry
           /\ \A t \in Id : \A i \in 1..Len(log[t]) : <<t, i>> \in Places
<1>1. \A t \in Id : log[t] \in Seq(Entry) /\ DOMAIN log[t] = 1..Len(log[t])
  BY DEF TypeOK
<1>2. ASSUME NEW q \in Places
      PROVE  /\ q[1] \in Id /\ q[2] \in 1..Len(log[q[1]]) /\ q = <<q[1], q[2]>>
             /\ EntryAt(q) \in Entry
  <2>1. PICK t \in Id : q \in {t} \X DOMAIN log[t]
    BY DEF Places
  <2>2. q[1] = t /\ q[2] \in 1..Len(log[t]) /\ q = <<q[1], q[2]>>
    BY <1>1, <2>1
  <2>3. log[t][q[2]] \in Entry
    BY <1>1, <2>2
  <2>4. QED
    BY <2>2, <2>3 DEF EntryAt
<1>3. ASSUME NEW t \in Id, NEW i \in 1..Len(log[t])
      PROVE  <<t, i>> \in Places
  <2>1. <<t, i>> \in {t} \X DOMAIN log[t]
    BY <1>1
  <2>2. QED
    BY <2>1 DEF Places
<1>4. QED
  BY <1>2, <1>3

\* What a retry looks for in the log is there just if its key is.
LEMMA CommittedIsKeyed ==
    ASSUME MailInv, NEW e \in Endpoint, NEW k \in Key, receipt[e][k].state # "none"
    PROVE  LET r == receipt[e][k]
               kind == IF r.outcome = "parked" THEN "park" ELSE "message"
           IN  (\E i \in 1..Len(log[r.thread]) : log[r.thread][i].type = kind /\ log[r.thread][i].id = r.id)
                 <=> Keyed(e, k) # {}
<1> DEFINE r == receipt[e][k]
           kind == IF r.outcome = "parked" THEN "park" ELSE "message"
<1>1. ReceiptInv(e, k) /\ r.id \in Id /\ r.thread \in Id /\ TypeOK /\ EntryInv(r.thread)
  BY DEF MailInv, ReceiptInv
<1>2. ASSUME NEW q \in Keyed(e, k)
      PROVE  \E i \in 1..Len(log[r.thread]) : log[r.thread][i].type = kind /\ log[r.thread][i].id = r.id
  <2>1. q \in Places /\ EntryAt(q).type \in {"message", "park"} /\ q[1] = r.thread
        /\ EntryAt(q).id = r.id /\ ((EntryAt(q).type = "park") <=> (r.outcome = "parked"))
    BY <1>1, <1>2 DEF ReceiptInv, Keyed
  <2>2. q[2] \in 1..Len(log[r.thread]) /\ EntryAt(q) = log[r.thread][q[2]]
    BY <1>1, <2>1, PlaceType DEF EntryAt
  <2>3. QED
    BY <2>1, <2>2
<1>3. ASSUME NEW i \in 1..Len(log[r.thread]), log[r.thread][i].type = kind, log[r.thread][i].id = r.id
      PROVE  Keyed(e, k) # {}
  <2> DEFINE m == log[r.thread][i]
  <2>1. m \in Entry /\ <<r.thread, i>> \in Places
    BY <1>1, PlaceType, EntryType
  <2>2. m.key \in Key
    BY <1>1, <1>3, NothingTyped DEF EntryInv
  <2>3. m.by \in Endpoint
    BY <2>1 DEF Entry
  <2>4. EntryAt(<<r.thread, i>>) = m
    BY DEF EntryAt
  <2>5. <<r.thread, i>> \in Keyed(m.by, m.key)
    <3> HIDE DEF m
    <3> QED  BY <1>3, <2>1, <2>4 DEF Keyed, m
  <2>6. ReceiptInv(m.by, m.key)
    BY <2>2, <2>3 DEF MailInv
  <2>7. Owned(m.by, m.key, r.id)
    BY <1>3, <2>4, <2>5, <2>6 DEF ReceiptInv, Owned
  <2>8. m.by = e /\ m.key = k
    <3> HIDE DEF m
    <3> QED  BY <2>2, <2>3, <2>7 DEF MailInv, IdInv
  <2>9. QED
    BY <2>5, <2>8
<1>4. QED
  BY <1>2, <1>3
LEMMA SetReceiptTyped ==
    ASSUME TypeOK, NEW e \in Endpoint, send[e].key \in Key, NEW r \in Receipt, SetReceipt(e, r)
    PROVE  /\ receipt' \in [Endpoint -> [Key -> Receipt]] /\ receipt'[e][send[e].key] = r
           /\ \A k \in Key : k # send[e].key => receipt'[e][k] = receipt[e][k]
           /\ \A f \in Endpoint : f # e => receipt'[f] = receipt[f]
BY DEF TypeOK, SetReceipt

\* A receipt is dropped if its key is not in the log.
LEMMA DroppedReceipt ==
    ASSUME log' = log, NEW e \in Endpoint, NEW k \in Key, Keyed(e, k) = {},
           receipt'[e][k] = NoReceipt
    PROVE  ReceiptInv(e, k)'
BY SameKeyed DEF ReceiptInv, NoReceipt

\* It becomes final if it is.
LEMMA FinalReceipt ==
    ASSUME UNCHANGED <<log, nextId>>, NEW e \in Endpoint, NEW k \in Key, ReceiptInv(e, k),
           receipt[e][k] \in Receipt, receipt[e][k].state # "none", Keyed(e, k) # {},
           receipt'[e][k] = [receipt[e][k] EXCEPT !.state = "final"]
    PROVE  ReceiptInv(e, k)'
<1> DEFINE r == receipt[e][k]
           s == receipt'[e][k]
<1>1. /\ s.state = "final" /\ s.id = r.id /\ s.thread = r.thread /\ s.hash = r.hash
      /\ s.outcome = r.outcome /\ s.seq = r.seq
  BY DEF Receipt
<1>2. Keyed(e, k)' = Keyed(e, k) /\ \A q : EntryAt(q)' = EntryAt(q)
  BY SameKeyed DEF EntryAt
<1> HIDE DEF s
<1>3. r.id \in Id /\ r.id < nextId' /\ r.thread \in Id /\ r.hash \in Hash
  BY DEF ReceiptInv
<1>4. \A q \in Keyed(e, k) : /\ q[1] = s.thread /\ EntryAt(q).id = s.id
                             /\ EntryAt(q).hash = s.hash
                             /\ ((EntryAt(q).type = "park") <=> (s.outcome = "parked"))
  BY <1>1 DEF ReceiptInv
<1>5. \A q, p \in Keyed(e, k) : q = p
  BY DEF ReceiptInv
<1>6. s = receipt'[e][k]
  BY DEF s
<1> HIDE DEF r
<1>7. QED
  BY <1>1, <1>2, <1>3, <1>4, <1>5, <1>6 DEF ReceiptInv

\* Every other receipt of a sender stays as it is.
LEMMA OtherReceipts ==
    ASSUME MailInv, UNCHANGED <<log, nextId>>, NEW e \in Endpoint, NEW k \in Key,
           receipt'[e][k] = receipt[e][k]
    PROVE  ReceiptInv(e, k)'
<1>1. nextId \in Nat /\ nextId' \in Nat /\ nextId <= nextId'
  BY DEF MailInv, TypeOK
<1>2. QED
  BY <1>1, SameReceipt DEF MailInv

\* A call is over, and the receipts are as they were.
LEMMA EndedMail ==
    ASSUME MailInv, NEW e \in Endpoint, Return(e), UNCHANGED <<log, receipt, nextId>>, TypeOK'
    PROVE  MailInv'
<1>1. at'[e] = "idle" /\ \A f \in Endpoint : f # e => at'[f] = at[f] /\ send'[f] = send[f]
  BY ReturnTyped DEF MailInv
<1>2. at'[e] \notin Sending
  BY <1>1 DEF Sending, Publishing
<1>3. QED
  BY <1>1, <1>2, QuietMail

\* A fresh publication after all, or the end, once the receipt is gone.
LEMMA AfreshMail ==
    ASSUME MailInv, NEW e \in Endpoint, at[e] \in {"recover", "forget"},
           SetReceipt(e, NoReceipt), Afresh(e), Keyed(e, send[e].key) = {},
           UNCHANGED <<log, nextId>>, TypeOK'
    PROVE  MailInv'
<1> DEFINE k == send[e].key
<1>1. TypeOK /\ CallInv(e) /\ at[e] \in Sending /\ at[e] \notin Publishing
  BY DEF MailInv, Sending, Publishing
<1>2. k \in Key /\ send[e].hash \in Hash
      /\ (send[e].hash.into # 0 => log[send[e].hash.into] # <<>>)
  BY <1>1 DEF CallInv, AskedOf
<1>3. /\ receipt'[e][k] = NoReceipt
      /\ \A l \in Key : l # k => receipt'[e][l] = receipt[e][l]
      /\ \A f \in Endpoint : f # e => receipt'[f] = receipt[f]
  BY <1>1, <1>2, NothingTyped, SetReceiptTyped
<1>4. /\ \A f \in Endpoint : f # e => at'[f] = at[f] /\ send'[f] = send[f]
      /\ \/ at'[e] = "idle"
         \/ at'[e] = "fresh" /\ send' = send
  <2>1. CASE send[e].refused
    BY <1>1, <2>1, ReturnTyped DEF Afresh
  <2>2. CASE ~send[e].refused
    <3>1. Goto(e, "fresh") /\ send' = send /\ "fresh" \in Sending
      BY <2>2 DEF Afresh, Sending
    <3>2. QED
      BY <1>1, <3>1, GotoTyped
  <2>3. QED
    BY <2>1, <2>2
<1>5. at'[e] \notin Publishing
  BY <1>4 DEF Publishing
<1>6. \A l \in Key : ReceiptInv(e, l)'
  BY <1>2, <1>3, DroppedReceipt, OtherReceipts
<1>7. CallInv(e)'
  <2>1. CASE at'[e] = "idle"
    BY <2>1, AsideCall DEF Sending, Publishing
  <2>2. CASE at'[e] = "fresh" /\ send' = send
    <3>1. AskedOf(e)'
      BY <1>2, <2>2 DEF AskedOf
    <3>2. WrittenOf(e)'
      BY <2>2, SameKeyed DEF WrittenOf, Before, After, Numbered, Repeats
    <3>3. ReceiptOf(e)'
      BY <1>3, <2>2 DEF ReceiptOf, Retries, Repeats, Publishing, NoReceipt
    <3>4. PublicationOf(e)'
      BY <1>1, <2>2 DEF CallInv, PublicationOf, Publishing, Delivers, Parks, Numbered
    <3>5. QED
      BY <3>1, <3>2, <3>3, <3>4 DEF CallInv
  <2>3. QED
    BY <1>4, <2>1, <2>2
<1>8. \A l \in Key : receipt'[e][l] = receipt[e][l] \/ receipt'[e][l].state = "none"
  BY <1>3 DEF NoReceipt
<1> HIDE DEF k
<1>9. QED
  BY <1>3, <1>4, <1>5, <1>6, <1>7, <1>8, SenderMail
LEMMA FinalTyped ==
    ASSUME NEW r \in Receipt
    PROVE  [r EXCEPT !.state = "final"] \in Receipt /\ [r EXCEPT !.state = "final"].id = r.id
BY DEF Receipt

LEMMA RecoverReceiptMail ==
    ASSUME MailInv, NEW e \in Endpoint, RecoverReceipt(e)
    PROVE  /\ MailInv' /\ at[e] = "recover"
           /\ UNCHANGED <<log, rec, walk, hook, seen, nextId>>
           /\ \A f \in Endpoint : f # e => at'[f] = at[f]
<1> DEFINE k == send[e].key
           r == receipt[e][k]
           kind == IF r.outcome = "parked" THEN "park" ELSE "message"
           committed == \E i \in 1..Len(log[r.thread]) :
                           log[r.thread][i].type = kind /\ log[r.thread][i].id = r.id
           same == r.hash = send[e].hash
           kept == [box EXCEPT ![r.hash.to].pending = {p \in @ : p.seq # r.seq \/ p.id # r.id}]
<1>1. /\ at[e] = "recover" /\ TypeOK /\ CallInv(e) /\ at[e] \in Sending
      /\ UNCHANGED <<log, ep, joining, walk, rec, hook, nextId, faults, seen, told>>
  BY DEF RecoverReceipt, MailInv, Sending
<1>2. k \in Key /\ r.state = "pending" /\ r \in Receipt /\ ReceiptInv(e, k) /\ r.hash \in Hash
  <2>1. k \in Key /\ r.state = "pending"
    BY <1>1 DEF CallInv, AskedOf, ReceiptOf, Retries
  <2>2. r \in Receipt /\ ReceiptInv(e, k)
    BY <1>1, <2>1 DEF TypeOK, MailInv
  <2>3. QED
    BY <2>1, <2>2 DEF ReceiptInv
<1>3. committed <=> Keyed(e, k) # {}
  BY <1>2, CommittedIsKeyed
<1>4. \/ committed /\ ~same /\ Return(e) /\ UNCHANGED <<receipt, box>>
      \/ /\ committed /\ same /\ kind = "park"
         /\ SetReceipt(e, [r EXCEPT !.state = "final"])
         /\ Return(e) /\ UNCHANGED box
      \/ /\ committed /\ same /\ kind = "message"
         /\ Goto(e, "redeliver") /\ UNCHANGED <<receipt, box, send>>
      \/ /\ ~committed /\ kind = "park"
         /\ SetReceipt(e, NoReceipt)
         /\ Afresh(e) /\ UNCHANGED box
      \/ /\ ~committed /\ kind = "message"
         /\ box' = kept
         /\ Goto(e, "forget") /\ UNCHANGED <<receipt, send>>
  BY DEF RecoverReceipt
<1> HIDE DEF kept, committed
<1>5. CASE Return(e) /\ UNCHANGED <<receipt, box>>
  <2>1. TypeOK'
    BY <1>1, <1>5, ReturnTyped DEF TypeOK
  <2>2. \A f \in Endpoint : f # e => at'[f] = at[f]
    BY <1>1, <1>5, ReturnTyped
  <2>3. QED
    BY <1>1, <1>5, <2>1, <2>2, EndedMail
<1>6. CASE committed /\ SetReceipt(e, [r EXCEPT !.state = "final"]) /\ Return(e) /\ UNCHANGED box
  <2> DEFINE new == [r EXCEPT !.state = "final"]
  <2>1. new \in Receipt /\ new.id = r.id
    BY <1>2, FinalTyped
  <2>2. /\ receipt' \in [Endpoint -> [Key -> Receipt]] /\ receipt'[e][k] = new
        /\ \A l \in Key : l # k => receipt'[e][l] = receipt[e][l]
        /\ \A f \in Endpoint : f # e => receipt'[f] = receipt[f]
    <3> HIDE DEF new
    <3>1. SetReceipt(e, new)
      BY <1>6 DEF new
    <3>2. QED
      BY <1>1, <1>2, <2>1, <3>1, SetReceiptTyped
  <2>3. /\ at' \in [Endpoint -> {"idle", "ackClean"} \cup Sending \cup Polling]
        /\ at'[e] = "idle" /\ \A f \in Endpoint : f # e => at'[f] = at[f]
        /\ send' \in [Endpoint -> Pub] /\ \A f \in Endpoint : f # e => send'[f] = send[f]
    BY <1>1, <1>6, ReturnTyped
  <2>4. TypeOK'
    BY <1>1, <1>6, <2>2, <2>3 DEF TypeOK
  <2>5. \A l \in Key : ReceiptInv(e, l)'
    BY <1>1, <1>2, <1>3, <1>6, <2>2, FinalReceipt, OtherReceipts
  <2>6. CallInv(e)' /\ at'[e] \notin Publishing
    BY <2>3, AsideCall DEF Sending, Publishing
  <2>7. \A l \in Key : \/ receipt'[e][l] = receipt[e][l]
                       \/ receipt[e][l].state # "none" /\ receipt'[e][l].id = receipt[e][l].id
    BY <1>2, <2>1, <2>2
  <2> HIDE DEF new, k, r
  <2>8. QED
    BY <1>1, <2>2, <2>3, <2>4, <2>5, <2>6, <2>7, SenderMail
<1>7. CASE /\ committed /\ same /\ kind = "message"
           /\ Goto(e, "redeliver") /\ UNCHANGED <<receipt, box, send>>
  <2>1. /\ at' \in [Endpoint -> {"idle", "ackClean"} \cup Sending \cup Polling]
        /\ at'[e] = "redeliver" /\ \A f \in Endpoint : f # e => at'[f] = at[f]
    BY <1>1, <1>7, GotoTyped DEF Sending
  <2>2. TypeOK'
    BY <1>1, <1>7, <2>1 DEF TypeOK
  <2>3. \A l \in Key : ReceiptInv(e, l)'
    BY <1>1, <1>7, OtherReceipts
  <2>4. r.outcome = "delivered"
    BY <1>2, <1>7 DEF Receipt
  <2>5. CallInv(e)'
    <3>1. AskedOf(e)'
      BY <1>1, <1>7, <2>1 DEF CallInv, AskedOf
    <3>2. WrittenOf(e)'
      BY <1>1, <1>3, <1>7, <2>1, SameKeyed DEF WrittenOf, Before, After, Numbered, Repeats
    <3>3. ReceiptOf(e)'
      BY <1>2, <1>7, <2>1, <2>4 DEF ReceiptOf, Retries, Repeats, Publishing
    <3>4. PublicationOf(e)'
      BY <2>1 DEF PublicationOf, Publishing, Delivers, Parks, Numbered
    <3>5. QED
      BY <3>1, <3>2, <3>3, <3>4 DEF CallInv
  <2>6. at'[e] \notin Publishing
    BY <2>1 DEF Publishing
  <2> HIDE DEF k, r
  <2>7. QED
    BY <1>1, <1>7, <2>1, <2>2, <2>3, <2>5, <2>6, SenderMail
<1>8. CASE ~committed /\ SetReceipt(e, NoReceipt) /\ Afresh(e) /\ UNCHANGED box
  <2>1. receipt' \in [Endpoint -> [Key -> Receipt]]
    BY <1>1, <1>2, <1>8, NothingTyped, SetReceiptTyped
  <2>2. /\ at' \in [Endpoint -> {"idle", "ackClean"} \cup Sending \cup Polling]
        /\ send' \in [Endpoint -> Pub] /\ \A f \in Endpoint : f # e => at'[f] = at[f]
    <3>1. CASE Return(e)
      BY <1>1, <3>1, ReturnTyped
    <3>2. CASE Goto(e, "fresh") /\ UNCHANGED send
      BY <1>1, <3>2, GotoTyped DEF Sending, TypeOK
    <3>3. QED
      BY <1>8, <3>1, <3>2 DEF Afresh
  <2>3. TypeOK'
    BY <1>1, <1>8, <2>1, <2>2 DEF TypeOK
  <2>4. Keyed(e, send[e].key) = {}
    BY <1>3, <1>8
  <2>5. QED
    BY <1>1, <1>8, <2>2, <2>3, <2>4, AfreshMail
<1>9. CASE ~committed /\ box' = kept /\ Goto(e, "forget") /\ UNCHANGED <<receipt, send>>
  <2>1. /\ at' \in [Endpoint -> {"idle", "ackClean"} \cup Sending \cup Polling]
        /\ at'[e] = "forget" /\ \A f \in Endpoint : f # e => at'[f] = at[f]
    BY <1>1, <1>9, GotoTyped DEF Sending
  <2>2. box' \in [Endpoint -> Mailbox]
    <3>1. r.hash.to \in Endpoint
      BY <1>2 DEF Hash
    <3>2. QED
      BY <1>1, <1>9, <3>1 DEF kept, TypeOK, Mailbox
  <2>3. TypeOK'
    BY <1>1, <1>9, <2>1, <2>2 DEF TypeOK
  <2>4. \A l \in Key : ReceiptInv(e, l)'
    BY <1>1, <1>9, OtherReceipts
  <2>5. CallInv(e)'
    <3>1. AskedOf(e)'
      BY <1>1, <1>9, <2>1 DEF CallInv, AskedOf
    <3>2. WrittenOf(e)'
      BY <1>1, <1>3, <1>9, <2>1, SameKeyed DEF WrittenOf, Before, After, Numbered, Repeats
    <3>3. ReceiptOf(e)'
      BY <1>2, <1>9, <2>1 DEF ReceiptOf, Retries, Repeats, Publishing
    <3>4. PublicationOf(e)'
      BY <1>1, <1>9, <2>1 DEF CallInv, PublicationOf, Publishing, Delivers, Parks, Numbered
    <3>5. QED
      BY <3>1, <3>2, <3>3, <3>4 DEF CallInv
  <2>6. at'[e] \notin Publishing
    BY <2>1 DEF Publishing
  <2> HIDE DEF k, r
  <2>7. QED
    BY <1>1, <1>9, <2>1, <2>3, <2>4, <2>5, <2>6, SenderMail
<1>10. QED
  BY <1>4, <1>5, <1>6, <1>7, <1>8, <1>9

LEMMA ForgetReceiptMail ==
    ASSUME MailInv, NEW e \in Endpoint, ForgetReceipt(e)
    PROVE  /\ MailInv' /\ at[e] = "forget"
           /\ UNCHANGED <<log, box, rec, walk, hook, seen, nextId>>
           /\ \A f \in Endpoint : f # e => at'[f] = at[f]
<1>1. /\ at[e] = "forget" /\ TypeOK /\ CallInv(e) /\ at[e] \in Sending
      /\ SetReceipt(e, NoReceipt) /\ Afresh(e)
      /\ UNCHANGED <<log, box, ep, joining, walk, rec, hook, nextId, faults, seen, told>>
  BY DEF ForgetReceipt, MailInv, Sending
<1>2. send[e].key \in Key /\ Keyed(e, send[e].key) = {}
  BY <1>1 DEF CallInv, AskedOf, WrittenOf, Before
<1>3. receipt' \in [Endpoint -> [Key -> Receipt]]
  BY <1>1, <1>2, NothingTyped, SetReceiptTyped
<1>4. /\ at' \in [Endpoint -> {"idle", "ackClean"} \cup Sending \cup Polling]
      /\ send' \in [Endpoint -> Pub] /\ \A f \in Endpoint : f # e => at'[f] = at[f]
  <2>1. CASE Return(e)
    BY <1>1, <2>1, ReturnTyped
  <2>2. CASE Goto(e, "fresh") /\ UNCHANGED send
    BY <1>1, <2>2, GotoTyped DEF Sending, TypeOK
  <2>3. QED
    BY <1>1, <2>1, <2>2 DEF Afresh
<1>5. TypeOK'
  BY <1>1, <1>3, <1>4 DEF TypeOK
<1>6. QED
  BY <1>1, <1>2, <1>4, <1>5, AfreshMail
----------------------------------------------------------------------------
(* The pointer of a message that is committed already. *)

LEMMA RecoveredTyped ==
    ASSUME MailInv, NEW e \in Endpoint, at[e] \in {"redeliver", "reactivate"}
    PROVE  /\ Recovered(e) \in Ptr /\ Recovered(e).id = receipt[e][send[e].key].id
           /\ Recovered(e).seq = receipt[e][send[e].key].seq
           /\ Recovered(e).thread = receipt[e][send[e].key].thread
           /\ MessageAt(Recovered(e).thread, Recovered(e).pos)
           /\ log[Recovered(e).thread][Recovered(e).pos].id = Recovered(e).id
           /\ send[e].hash.to \in Endpoint /\ send[e].key \in Key
<1> DEFINE k == send[e].key
           r == receipt[e][k]
           i == CHOOSE j \in 1..Len(log[r.thread]) :
                    MessageAt(r.thread, j) /\ log[r.thread][j].id = r.id
<1>1. /\ TypeOK /\ CallInv(e) /\ k \in Key /\ send[e].hash \in Hash
      /\ r.state = "pending" /\ r.outcome = "delivered" /\ Keyed(e, k) # {}
  BY DEF MailInv, CallInv, AskedOf, ReceiptOf, WrittenOf, Sending, Retries, Repeats, After
<1>2. r \in Receipt /\ ReceiptInv(e, k)
  BY <1>1 DEF MailInv, TypeOK
<1>3. r.id \in Id /\ r.thread \in Id /\ r.seq \in Nat
  BY <1>1, <1>2 DEF ReceiptInv, Receipt
<1>4. \E j \in 1..Len(log[r.thread]) : log[r.thread][j].type = "message" /\ log[r.thread][j].id = r.id
  BY <1>1, CommittedIsKeyed
<1>5. i \in 1..Len(log[r.thread]) /\ MessageAt(r.thread, i) /\ log[r.thread][i].id = r.id
  BY <1>4 DEF MessageAt
<1>7. Recovered(e) = [seq |-> r.seq, id |-> r.id, thread |-> r.thread, pos |-> i]
  BY DEF Recovered
<1> HIDE DEF i
<1>6. i \in Nat
  BY <1>5
<1>8. Recovered(e) \in Ptr
  BY <1>3, <1>6, <1>7 DEF Ptr
<1>9. send[e].hash.to \in Endpoint
  BY <1>1 DEF Hash
<1>10. QED
  BY <1>1, <1>5, <1>7, <1>8, <1>9

\* A pointer is added to a pending directory.
LEMMA LinkedTyped ==
    ASSUME TypeOK, NEW x \in Endpoint, NEW p \in Ptr,
           box' = [box EXCEPT ![x].pending = @ \cup {p}]
    PROVE  /\ box' \in [Endpoint -> Mailbox]
           /\ box'[x].active = box[x].active /\ box'[x].pending = box[x].pending \cup {p}
           /\ box'[x].next = box[x].next
           /\ \A y \in Endpoint : y # x => box'[y] = box[y]
<1>1. box \in [Endpoint -> Mailbox] /\ box[x] \in Mailbox
  BY DEF TypeOK
<1>2. box[x].pending \cup {p} \in SUBSET Ptr
  BY <1>1 DEF Mailbox
<1>3. [box[x] EXCEPT !.pending = box[x].pending \cup {p}] \in Mailbox
  BY <1>1, <1>2 DEF Mailbox
<1>4. box' = [box EXCEPT ![x] = [box[x] EXCEPT !.pending = box[x].pending \cup {p}]]
  OBVIOUS
<1>5. QED
  BY <1>1, <1>3, <1>4 DEF Mailbox

LEMMA RenamedTyped ==
    ASSUME NEW b \in Mailbox, NEW p
    PROVE  /\ Renamed(b, p) \in Mailbox /\ Renamed(b, p).next = b.next
           /\ Renamed(b, p).active \cup Renamed(b, p).pending = b.active \cup b.pending
           /\ b.active \subseteq Renamed(b, p).active
           /\ Renamed(b, p).pending \subseteq b.pending
           /\ Renamed(b, p).active \subseteq b.active \cup {p}
BY DEF Renamed, Mailbox

\* A step of a retry that puts the pointer back.
LEMMA RepeatMail ==
    ASSUME MailInv, NEW e \in Endpoint, at[e] \in Repeats, NEW l \in Repeats, Goto(e, l),
           UNCHANGED <<log, receipt, send, nextId>>, TypeOK'
    PROVE  MailInv'
<1>1. TypeOK /\ CallInv(e) /\ at[e] \in Sending /\ l \in Sending /\ l \notin Publishing
  BY DEF MailInv, Sending, Repeats, Publishing
<1>2. at'[e] = l /\ \A f \in Endpoint : f # e => at'[f] = at[f]
  BY <1>1, GotoTyped
<1>3. \A k \in Key : ReceiptInv(e, k)'
  BY OtherReceipts
<1>4. CallInv(e)'
  <2>1. AskedOf(e)'
    BY <1>1 DEF CallInv, AskedOf
  <2>2. WrittenOf(e)'
    BY <1>1, <1>2, SameKeyed DEF CallInv, WrittenOf, Before, After, Numbered, Repeats
  <2>3. ReceiptOf(e)'
    BY <1>1, <1>2 DEF CallInv, ReceiptOf, Retries, Repeats, Publishing
  <2>4. PublicationOf(e)'
    BY <1>2 DEF PublicationOf, Publishing, Delivers, Parks, Numbered, Repeats
  <2>5. QED
    BY <2>1, <2>2, <2>3, <2>4 DEF CallInv
<1>5. QED
  BY <1>1, <1>2, <1>3, <1>4, SenderMail

LEMMA RedeliverMail ==
    ASSUME MailInv, NEW e \in Endpoint, Redeliver(e)
    PROVE  /\ MailInv' /\ at[e] = "redeliver" /\ UNCHANGED <<log, rec, walk, hook, seen, nextId>>
           /\ \A f \in Endpoint : f # e => at'[f] = at[f]
<1> DEFINE x == send[e].hash.to
           p == Recovered(e)
<1>1. /\ at[e] = "redeliver" /\ TypeOK
      /\ UNCHANGED <<log, receipt, ep, joining, send, walk, rec, hook, nextId, faults, seen, told>>
      /\ \/ Goto(e, "confirm") /\ UNCHANGED box
         \/ /\ box' = [box EXCEPT ![x].pending = @ \cup {p}]
            /\ Goto(e, "reactivate")
  BY DEF Redeliver, MailInv
<1>2. p \in Ptr /\ x \in Endpoint
  BY <1>1, RecoveredTyped
<1> HIDE DEF p
<1>3. box' \in [Endpoint -> Mailbox]
  <2>1. CASE UNCHANGED box
    BY <1>1, <2>1 DEF TypeOK
  <2>2. CASE box' = [box EXCEPT ![x].pending = @ \cup {p}]
    <3> HIDE DEF x
    <3> QED  BY <1>1, <1>2, <2>2, LinkedTyped
  <2>3. QED
    BY <1>1, <2>1, <2>2
<1>4. PICK l \in {"confirm", "reactivate"} : Goto(e, l)
  BY <1>1
<1>5. /\ at' \in [Endpoint -> {"idle", "ackClean"} \cup Sending \cup Polling]
      /\ \A f \in Endpoint : f # e => at'[f] = at[f]
  BY <1>1, <1>4, GotoTyped DEF Sending
<1>6. TypeOK'
  BY <1>1, <1>3, <1>5 DEF TypeOK
<1>7. QED
  BY <1>1, <1>4, <1>5, <1>6, RepeatMail DEF Repeats

LEMMA ReactivateMail ==
    ASSUME MailInv, NEW e \in Endpoint, Reactivate(e)
    PROVE  /\ MailInv' /\ at[e] = "reactivate" /\ UNCHANGED <<log, rec, walk, hook, seen, nextId>>
           /\ \A f \in Endpoint : f # e => at'[f] = at[f]
<1> DEFINE x == send[e].hash.to
           p == Recovered(e)
<1>1. /\ at[e] = "reactivate" /\ TypeOK
      /\ UNCHANGED <<log, receipt, ep, joining, walk, rec, hook, nextId, faults, seen, told>>
      /\ \/ /\ box' = [box EXCEPT ![x] = Renamed(@, p)]
            /\ Goto(e, "confirm") /\ UNCHANGED send
         \/ Return(e) /\ UNCHANGED box
  BY DEF Reactivate, MailInv
<1>2. x \in Endpoint
  BY <1>1, RecoveredTyped
<1>3. CASE /\ box' = [box EXCEPT ![x] = Renamed(@, p)]
           /\ Goto(e, "confirm") /\ UNCHANGED send
  <2>1. box' \in [Endpoint -> Mailbox]
    BY <1>1, <1>2, <1>3, RenamedTyped DEF TypeOK
  <2>2. /\ at' \in [Endpoint -> {"idle", "ackClean"} \cup Sending \cup Polling]
        /\ \A f \in Endpoint : f # e => at'[f] = at[f]
    BY <1>1, <1>3, GotoTyped DEF Sending
  <2>3. TypeOK'
    BY <1>1, <1>3, <2>1, <2>2 DEF TypeOK
  <2>4. QED
    BY <1>1, <1>3, <2>2, <2>3, RepeatMail DEF Repeats
<1>4. CASE Return(e) /\ UNCHANGED box
  <2>1. TypeOK' /\ \A f \in Endpoint : f # e => at'[f] = at[f]
    BY <1>1, <1>4, ReturnTyped DEF TypeOK
  <2>2. QED
    BY <1>1, <1>4, <2>1, EndedMail
<1>5. QED
  BY <1>1, <1>3, <1>4
----------------------------------------------------------------------------
(* A publication begins. *)

LEMMA BegunMail ==
    ASSUME MailInv, TypeOK', UNCHANGED <<log, receipt>>, NEW e \in Endpoint,
           at[e] = "fresh", at'[e] \in {"receipt", "park"},
           \A f \in Endpoint : f # e => at'[f] = at[f] /\ send'[f] = send[f],
           send'[e].key = send[e].key, send'[e].hash = send[e].hash,
           nextId' = nextId + 1, send'[e].id = nextId, PublicationOf(e)',
           \A f \in Endpoint : at[f] \in Publishing => send[f].hash.into # send[e].hash.into
    PROVE  MailInv'
<1>1. nextId \in Nat /\ nextId' \in Nat /\ nextId <= nextId'
  BY DEF MailInv, TypeOK
<1>2. \A t \in Id : EntryInv(t)'
  BY <1>1, SameEntries DEF MailInv
<1>3. \A f \in Endpoint, k \in Key : ReceiptInv(f, k)'
  BY <1>1, SameReceipt DEF MailInv
<1>4. \A f \in Endpoint : f # e => CallInv(f)'
  BY <1>1, SameCall DEF MailInv
<1>5. CallInv(e)'
  <2>1. CallInv(e) /\ at[e] \in Sending
    BY DEF MailInv, Sending
  <2>2. AskedOf(e)'
    BY <2>1 DEF CallInv, AskedOf
  <2>3. WrittenOf(e)'
    BY <2>1, SameKeyed DEF CallInv, WrittenOf, Before, After, Numbered, Repeats
  <2>4. ReceiptOf(e)'
    BY <2>1 DEF CallInv, ReceiptOf, Retries, Repeats, Publishing
  <2>5. QED
    BY <2>2, <2>3, <2>4 DEF CallInv
<1>6. \A f \in Endpoint : at[f] \in Publishing => send[f].id # nextId
  <2>1. \A n \in Id : n \in Int
    BY DEF Id
  <2>2. QED
    BY <1>1, <2>1 DEF MailInv, CallInv, PublicationOf
<1>7. \A f \in Endpoint, l \in Key : receipt[f][l].state # "none" => receipt[f][l].id # nextId
  <2>1. \A n \in Id : n \in Int
    BY DEF Id
  <2>2. QED
    BY <1>1, <2>1 DEF MailInv, ReceiptInv
<1>8. \A f, g \in Endpoint : Apart(f, g)'
  <2>1. ASSUME NEW f \in Endpoint, f # e
        PROVE  Apart(e, f)' /\ Apart(f, e)'
    BY <1>6, <2>1 DEF Apart
  <2>2. ASSUME NEW f \in Endpoint, NEW g \in Endpoint, f # e, g # e
        PROVE  Apart(f, g)'
    BY <2>2 DEF MailInv, Apart
  <2>3. Apart(e, e)'
    BY DEF Apart
  <2>4. QED
    BY <2>1, <2>2, <2>3
<1>9. IdInv'
  <2>1. \A f \in Endpoint, l \in Key : ~Owned(f, l, send[e].id)'
    BY <1>7 DEF Owned
  <2>2. \A f, g \in Endpoint, k, l \in Key :
          receipt'[f][k].state # "none" /\ Owned(g, l, receipt[f][k].id)' => f = g /\ k = l
    BY DEF MailInv, IdInv, Owned
  <2>3. \A f, g \in Endpoint, l \in Key :
          at'[f] \in Publishing /\ Owned(g, l, send[f].id)' => g = f /\ l = send'[f].key
    <3>1. ASSUME NEW f \in Endpoint, NEW g \in Endpoint, NEW l \in Key, f # e,
                 at'[f] \in Publishing, Owned(g, l, send[f].id)'
          PROVE  g = f /\ l = send'[f].key
      <4>1. Owned(g, l, send[f].id) /\ at[f] \in Publishing
        BY <3>1 DEF Owned
      <4>2. QED
        BY <3>1, <4>1 DEF MailInv, IdInv
    <3>2. QED
      BY <2>1, <3>1
  <2>4. QED
    BY <2>2, <2>3 DEF IdInv
<1>10. QED
  BY <1>2, <1>3, <1>4, <1>5, <1>8, <1>9 DEF MailInv

LEMMA PrepareTyped ==
    ASSUME TypeOK, NEW e \in Endpoint, send[e].hash \in Hash, BoundInv(send[e].hash.to),
           NEW t \in Id, NEW pos \in Nat, nextId <= MaxId, Prepare(e, t, pos)
    PROVE  /\ at' \in [Endpoint -> {"idle", "ackClean"} \cup Sending \cup Polling]
           /\ at'[e] = "receipt" /\ \A f \in Endpoint : f # e => at'[f] = at[f]
           /\ send' \in [Endpoint -> Pub]
           /\ send'[e].key = send[e].key /\ send'[e].hash = send[e].hash
           /\ send'[e].outcome = send[e].outcome
           /\ send'[e].thread = t /\ send'[e].id = nextId /\ send'[e].pos = pos
           /\ send'[e].seq = AllocSeq(send[e].hash.to)
           /\ \A f \in Endpoint : f # e => send'[f] = send[f]
           /\ box' \in [Endpoint -> Mailbox]
           /\ \A y \in Endpoint : box'[y].active = box[y].active /\ box'[y].pending = box[y].pending
           /\ nextId' = nextId + 1 /\ nextId' \in 1..(MaxId + 1) /\ nextId \in Id
<1> DEFINE x == send[e].hash.to
           s == send[e]
           new == [s EXCEPT !.thread = t, !.id = nextId, !.pos = pos, !.seq = AllocSeq(x)]
<1>1. /\ send' = [send EXCEPT ![e].thread = t, ![e].id = nextId, ![e].pos = pos, ![e].seq = AllocSeq(x)]
      /\ box' = [box EXCEPT ![x].next = AllocSeq(x) + 1]
      /\ nextId' = nextId + 1 /\ Goto(e, "receipt")
  BY DEF Prepare
<1>2. x \in Endpoint /\ box[x] \in Mailbox /\ ep[x] \in Record /\ box \in [Endpoint -> Mailbox]
      /\ s \in Pub /\ send \in [Endpoint -> Pub]
  BY DEF Hash, TypeOK
<1>3. AllocSeq(x) \in Nat
  BY <1>2, AllocSeqAbove DEF BoundInv
<1>4. nextId \in Id /\ nextId' \in 1..(MaxId + 1) /\ MaxId \in Nat /\ nextId \in 0..MaxId /\ t \in 0..MaxId
  BY <1>1, MailboxAssumption DEF TypeOK, Id
<1>5. new \in Pub /\ new.key = s.key /\ new.hash = s.hash /\ new.outcome = s.outcome
      /\ new.thread = t /\ new.id = nextId /\ new.pos = pos /\ new.seq = AllocSeq(x)
  <2> HIDE DEF x, s
  <2> QED  BY <1>2, <1>3, <1>4 DEF Pub
<1>6. send' = [send EXCEPT ![e] = new]
  BY <1>1
<1>7. /\ at' \in [Endpoint -> {"idle", "ackClean"} \cup Sending \cup Polling]
      /\ at'[e] = "receipt" /\ \A f \in Endpoint : f # e => at'[f] = at[f]
  BY <1>1, GotoTyped DEF Sending, Publishing
<1> HIDE DEF new
<1>8. send' \in [Endpoint -> Pub] /\ send'[e] = new /\ \A f \in Endpoint : f # e => send'[f] = send[f]
  BY <1>2, <1>5, <1>6
<1>9. box' \in [Endpoint -> Mailbox]
      /\ \A y \in Endpoint : box'[y].active = box[y].active /\ box'[y].pending = box[y].pending
  <2> HIDE DEF x
  <2> QED  BY <1>1, <1>2, <1>3 DEF Mailbox
<1>10. QED
  BY <1>1, <1>4, <1>5, <1>7, <1>8, <1>9

LEMMA CreateThreadMail ==
    ASSUME MailInv, \A x \in Endpoint : BoundInv(x), NEW e \in Endpoint, CreateThread(e)
    PROVE  /\ MailInv' /\ at[e] = "fresh" /\ UNCHANGED <<log, rec, walk, hook, seen>>
           /\ \A f \in Endpoint : f # e => at'[f] = at[f]
           /\ \A y \in Endpoint : box'[y].active = box[y].active /\ box'[y].pending = box[y].pending
<1>1. /\ at[e] = "fresh" /\ TypeOK /\ CallInv(e) /\ at[e] \in Sending /\ send[e].hash.into = 0
      /\ ~ThreadsLocked /\ nextId <= MaxId /\ Prepare(e, nextId, 1)
      /\ UNCHANGED <<log, receipt, ep, joining, walk, rec, hook, faults, seen, told>>
  BY DEF CreateThread, MailInv, Sending
<1>2. send[e].hash \in Hash /\ send[e].hash.to \in Endpoint
  BY <1>1 DEF CallInv, AskedOf, Hash
<1>3. nextId \in Id
  BY <1>1, MailboxAssumption DEF TypeOK, Id
<1>4. /\ at' \in [Endpoint -> {"idle", "ackClean"} \cup Sending \cup Polling]
      /\ at'[e] = "receipt" /\ \A f \in Endpoint : f # e => at'[f] = at[f]
      /\ send' \in [Endpoint -> Pub]
      /\ send'[e].key = send[e].key /\ send'[e].hash = send[e].hash
      /\ send'[e].outcome = send[e].outcome
      /\ send'[e].thread = nextId /\ send'[e].id = nextId /\ send'[e].pos = 1
      /\ \A f \in Endpoint : f # e => send'[f] = send[f]
      /\ box' \in [Endpoint -> Mailbox]
      /\ \A y \in Endpoint : box'[y].active = box[y].active /\ box'[y].pending = box[y].pending
      /\ nextId' = nextId + 1 /\ nextId' \in 1..(MaxId + 1)
  BY <1>1, <1>2, <1>3, PrepareTyped
<1>5. TypeOK'
  BY <1>1, <1>4 DEF TypeOK
<1>6. log[nextId] = <<>> /\ nextId < nextId + 1
  BY <1>1, <1>3 DEF MailInv, EntryInv, TypeOK
<1>0. PICK t \in Id : t = nextId
  BY <1>3
<1>7. Len(log'[t]) = 0
  BY <1>1, <1>6, <1>0
<1>8. hopCount(t)' = 0
  <2>1. {i \in 1..Len(log'[t]) :
            MessageAt(t, i)' /\ log'[t][i].hash.payload \in Actionable} = {}
    BY <1>7
  <2>2. QED
    BY <2>1, FS_EmptySet DEF hopCount
<1>9. PublicationOf(e)'
  <2>1. send[e].outcome = "delivered" /\ 0 < MaxHops
    BY <1>1, MailboxAssumption DEF CallInv, PublicationOf
  <2>2. QED
    BY <1>0, <1>1, <1>4, <1>6, <1>7, <1>8, <2>1 DEF PublicationOf, Publishing, Delivers, Parks, Numbered
<1>10. \A f \in Endpoint : at[f] \in Publishing => send[f].hash.into # send[e].hash.into
  BY <1>1 DEF ThreadsLocked
<1>11. MailInv'
  BY <1>1, <1>4, <1>5, <1>9, <1>10, BegunMail
<1>12. QED
  BY <1>1, <1>4, <1>11
\* hopCount is a number.
LEMMA HopCountType ==
    ASSUME TypeOK, NEW t \in Id
    PROVE  hopCount(t) \in Nat
<1>1. Len(log[t]) \in Nat
  BY DEF TypeOK
<1>2. IsFiniteSet(1..Len(log[t]))
  BY <1>1, FS_Interval
<1>3. IsFiniteSet({i \in 1..Len(log[t]) : MessageAt(t, i) /\ log[t][i].hash.payload \in Actionable})
  BY <1>2, FS_Subset
<1>4. QED
  BY <1>3, FS_CardinalityType DEF hopCount

LEMMA ReplyToThreadMail ==
    ASSUME MailInv, \A x \in Endpoint : BoundInv(x), NEW e \in Endpoint, ReplyToThread(e)
    PROVE  /\ MailInv' /\ at[e] = "fresh" /\ UNCHANGED <<log, rec, walk, hook, seen>>
           /\ \A f \in Endpoint : f # e => at'[f] = at[f]
           /\ \A y \in Endpoint : box'[y].active = box[y].active /\ box'[y].pending = box[y].pending
<1>0. PICK t : t = send[e].hash.into
  OBVIOUS
<1>1. /\ at[e] = "fresh" /\ TypeOK /\ CallInv(e) /\ at[e] \in Sending /\ t # 0
      /\ ~ThreadLocked(t) /\ nextId <= MaxId
      /\ UNCHANGED <<log, receipt, ep, joining, walk, rec, hook, faults, seen, told>>
  BY <1>0 DEF ReplyToThread, MailInv, Sending
<1>2. send[e].hash \in Hash /\ send[e].hash.to \in Endpoint /\ log[t] # <<>> /\ t \in Id
  BY <1>0, <1>1 DEF CallInv, AskedOf, Hash, Id
<1>3. nextId \in Id /\ send[e].outcome = "delivered" /\ nextId < nextId + 1
  BY <1>1, MailboxAssumption DEF TypeOK, Id, CallInv, PublicationOf
<1>4. Len(log[t]) \in Nat /\ Len(log[t]) + 1 \in Nat \ {0}
  BY <1>1, <1>2 DEF TypeOK
<1>5. \A f \in Endpoint : at[f] \in Publishing => send[f].hash.into # send[e].hash.into
  BY <1>0, <1>1 DEF ThreadLocked
<1>6. hopCount(t)' = hopCount(t)
  BY <1>1 DEF hopCount, MessageAt
<1>7. \/ Return(e) /\ UNCHANGED <<box, nextId>>
      \/ /\ send' = [send EXCEPT ![e].thread = t, ![e].id = nextId,
                       ![e].pos = Len(log[t]) + 1, ![e].outcome = "parked"]
         /\ nextId' = nextId + 1
         /\ Goto(e, "park") /\ UNCHANGED box
      \/ ~OverHopCap(e) /\ Prepare(e, t, Len(log[t]) + 1)
  BY <1>0 DEF ReplyToThread
<1>8. CASE Return(e) /\ UNCHANGED <<box, nextId>>
  <2>1. TypeOK' /\ \A f \in Endpoint : f # e => at'[f] = at[f]
    BY <1>1, <1>8, ReturnTyped DEF TypeOK
  <2>2. QED
    BY <1>1, <1>8, <2>1, EndedMail
<1>9. CASE /\ send' = [send EXCEPT ![e].thread = t, ![e].id = nextId,
                         ![e].pos = Len(log[t]) + 1, ![e].outcome = "parked"]
           /\ nextId' = nextId + 1
           /\ Goto(e, "park") /\ UNCHANGED box
  <2> DEFINE s == send[e]
             new == [s EXCEPT !.thread = t, !.id = nextId, !.pos = Len(log[t]) + 1,
                              !.outcome = "parked"]
  <2>1. send' = [send EXCEPT ![e] = new]
    BY <1>9
  <2>2. s \in Pub /\ send \in [Endpoint -> Pub]
    BY <1>1 DEF TypeOK
  <2>3. nextId \in 0..MaxId /\ t \in 0..MaxId
    BY <1>2, <1>3, MailboxAssumption DEF Id
  <2>4. /\ new \in Pub /\ new.key = s.key /\ new.hash = s.hash /\ new.outcome = "parked"
        /\ new.thread = t /\ new.id = nextId /\ new.pos = Len(log[t]) + 1
    <3> HIDE DEF s
    <3> QED  BY <1>4, <2>2, <2>3 DEF Pub
  <2> HIDE DEF new
  <2>5. /\ send' \in [Endpoint -> Pub] /\ send'[e] = new
        /\ \A f \in Endpoint : f # e => send'[f] = send[f]
    BY <2>1, <2>2, <2>4
  <2>6. /\ at' \in [Endpoint -> {"idle", "ackClean"} \cup Sending \cup Polling]
        /\ at'[e] = "park" /\ \A f \in Endpoint : f # e => at'[f] = at[f]
    BY <1>1, <1>9, GotoTyped DEF Sending, Publishing
  <2>7. nextId' \in 1..(MaxId + 1)
    BY <1>1, <1>9, MailboxAssumption DEF TypeOK
  <2>8. TypeOK'
    BY <1>1, <1>9, <2>5, <2>6, <2>7 DEF TypeOK
  <2>9. PublicationOf(e)'
    BY <1>0, <1>1, <1>3, <1>4, <1>9, <2>4, <2>5, <2>6
       DEF PublicationOf, Publishing, Delivers, Parks, Numbered
  <2>10. MailInv'
    BY <1>1, <1>5, <1>9, <2>4, <2>5, <2>6, <2>8, <2>9, BegunMail
  <2>11. QED
    BY <1>1, <1>9, <2>6, <2>10
<1>10. CASE ~OverHopCap(e) /\ Prepare(e, t, Len(log[t]) + 1)
  <2>1. /\ at' \in [Endpoint -> {"idle", "ackClean"} \cup Sending \cup Polling]
        /\ at'[e] = "receipt" /\ \A f \in Endpoint : f # e => at'[f] = at[f]
        /\ send' \in [Endpoint -> Pub]
        /\ send'[e].key = send[e].key /\ send'[e].hash = send[e].hash
        /\ send'[e].outcome = send[e].outcome
        /\ send'[e].thread = t /\ send'[e].id = nextId /\ send'[e].pos = Len(log[t]) + 1
        /\ \A f \in Endpoint : f # e => send'[f] = send[f]
        /\ box' \in [Endpoint -> Mailbox]
        /\ \A y \in Endpoint : box'[y].active = box[y].active /\ box'[y].pending = box[y].pending
        /\ nextId' = nextId + 1 /\ nextId' \in 1..(MaxId + 1)
    <3> QED  BY <1>1, <1>2, <1>4, <1>10, PrepareTyped
  <2>2. TypeOK'
    BY <1>1, <2>1 DEF TypeOK
  <2>3. send[e].hash.payload \in Actionable => hopCount(t) < MaxHops
    BY <1>0, <1>1, <1>2, <1>10, HopCountType, MailboxAssumption DEF OverHopCap
  <2>4. PublicationOf(e)'
    BY <1>0, <1>1, <1>3, <1>4, <1>6, <2>1, <2>3 DEF PublicationOf, Publishing, Delivers, Parks, Numbered
  <2>5. MailInv'
    BY <1>1, <1>5, <2>1, <2>2, <2>4, BegunMail
  <2>6. QED
    BY <1>1, <2>1, <2>5
<1>11. QED
  BY <1>7, <1>8, <1>9, <1>10

----------------------------------------------------------------------------
(* A publication goes on. *)

\* A step of a publication that writes no entry.
LEMMA OnwardMail ==
    ASSUME MailInv, TypeOK', UNCHANGED <<log, receipt, send, nextId>>, NEW e \in Endpoint,
           \A f \in Endpoint : f # e => at'[f] = at[f],
           \/ at[e] = "intent" /\ at'[e] = "commit"
           \/ at[e] = "activate" /\ at'[e] = "finalize"
    PROVE  MailInv'
<1>1. CallInv(e) /\ at[e] \in Sending /\ at[e] \in Publishing
  BY DEF MailInv, Sending, Publishing
<1>2. \A k \in Key : ReceiptInv(e, k)'
  BY OtherReceipts
<1>3. \A k : Keyed(e, k)' = Keyed(e, k)
  BY SameKeyed
<1>4. \A t : hopCount(t)' = hopCount(t)
  BY DEF hopCount, MessageAt
<1>5. AskedOf(e)'
  BY <1>1 DEF CallInv, AskedOf
<1>6. WrittenOf(e)'
  BY <1>1, <1>3 DEF CallInv, WrittenOf, Before, After, Numbered, Repeats
<1>7. ReceiptOf(e)'
  BY <1>1 DEF CallInv, ReceiptOf, Retries, Repeats, Publishing
<1>8. PublicationOf(e)'
  BY <1>1, <1>4 DEF CallInv, PublicationOf, Publishing, Delivers, Parks, Numbered
<1>9. QED
  BY <1>1, <1>2, <1>5, <1>6, <1>7, <1>8, SenderMail DEF CallInv

LEMMA WriteReceiptMail ==
    ASSUME MailInv, NEW e \in Endpoint, WriteReceipt(e)
    PROVE  /\ MailInv' /\ at[e] \in {"receipt", "park"}
           /\ UNCHANGED <<log, box, rec, walk, hook, seen, nextId>>
           /\ \A f \in Endpoint : f # e => at'[f] = at[f]
<1> DEFINE s == send[e]
           k == s.key
           new == [state |-> "pending", hash |-> s.hash, thread |-> s.thread,
                   id |-> s.id, seq |-> s.seq, outcome |-> s.outcome]
           l == IF at[e] = "park" THEN "parkEntry" ELSE "intent"
<1>1. /\ at[e] \in {"receipt", "park"} /\ TypeOK /\ CallInv(e) /\ at[e] \in Publishing /\ at[e] \in Sending
      /\ SetReceipt(e, new) /\ Goto(e, l) /\ l \in Sending
      /\ UNCHANGED <<log, box, ep, joining, send, walk, rec, hook, nextId, faults, seen, told>>
  BY DEF WriteReceipt, MailInv, Publishing, Sending
<1>2. k \in Key /\ s.hash \in Hash /\ s \in Pub /\ Keyed(e, k) = {}
      /\ s.id \in Id /\ s.id < nextId /\ s.thread \in Id
  <2>1. k \in Key /\ s.hash \in Hash /\ s \in Pub /\ Keyed(e, k) = {}
    BY <1>1 DEF CallInv, AskedOf, WrittenOf, Before, Numbered, TypeOK
  <2>2. s.id \in Id /\ s.id < nextId /\ s.thread = IF s.hash.into = 0 THEN s.id ELSE s.hash.into
    BY <1>1 DEF CallInv, PublicationOf
  <2>3. s.hash.into # 0 => s.hash.into \in Id
    BY <2>1 DEF Hash, Id
  <2>4. QED
    BY <2>1, <2>2, <2>3
<1>3. /\ new \in Receipt /\ new.state = "pending" /\ new.hash = s.hash /\ new.thread = s.thread
      /\ new.id = s.id /\ new.seq = s.seq /\ new.outcome = s.outcome
  <2> HIDE DEF s
  <2> QED  BY <1>2 DEF Receipt, Pub
<1> HIDE DEF new
<1>4. /\ receipt' \in [Endpoint -> [Key -> Receipt]] /\ receipt'[e][k] = new
      /\ \A j \in Key : j # k => receipt'[e][j] = receipt[e][j]
      /\ \A f \in Endpoint : f # e => receipt'[f] = receipt[f]
  BY <1>1, <1>2, <1>3, SetReceiptTyped
<1>5. /\ at' \in [Endpoint -> {"idle", "ackClean"} \cup Sending \cup Polling]
      /\ at'[e] = l /\ \A f \in Endpoint : f # e => at'[f] = at[f]
  <2> HIDE DEF l
  <2> QED  BY <1>1, GotoTyped
<1>6. TypeOK'
  BY <1>1, <1>4, <1>5 DEF TypeOK
<1>7. \A j \in Key : ReceiptInv(e, j)'
  <2>1. ReceiptInv(e, k)'
    BY <1>1, <1>2, <1>3, <1>4, SameKeyed DEF ReceiptInv
  <2>2. QED
    BY <1>1, <1>4, <2>1, OtherReceipts
<1>8. CallInv(e)'
  <2>1. AskedOf(e)'
    BY <1>1 DEF CallInv, AskedOf
  <2>2. WrittenOf(e)'
    BY <1>1, <1>2, <1>5, SameKeyed DEF WrittenOf, Before, After, Numbered, Repeats
  <2>3. ReceiptOf(e)'
    BY <1>1, <1>3, <1>4, <1>5 DEF ReceiptOf, Retries, Repeats, Publishing
  <2>4. \A t : hopCount(t)' = hopCount(t)
    BY <1>1 DEF hopCount, MessageAt
  <2>5. PublicationOf(e)'
    BY <1>1, <1>5, <2>4 DEF CallInv, PublicationOf, Publishing, Delivers, Parks, Numbered
  <2>6. QED
    BY <2>1, <2>2, <2>3, <2>5 DEF CallInv
<1>9. \A j \in Key : \/ receipt'[e][j] = receipt[e][j]
                     \/ /\ at[e] \in Publishing /\ j = send[e].key
                        /\ receipt'[e][j].id = send[e].id
  BY <1>1, <1>3, <1>4
<1> HIDE DEF k, l, s
<1>10. MailInv'
  BY <1>1, <1>4, <1>5, <1>6, <1>7, <1>8, <1>9, SenderMail
<1>11. QED
  BY <1>1, <1>5, <1>10
\* The pointer of a publication.
LEMMA PublishedTyped ==
    ASSUME MailInv, NEW e \in Endpoint, at[e] \in Publishing
    PROVE  Pointer(send[e]) \in Ptr /\ send[e].hash.to \in Endpoint
<1>1. CallInv(e) /\ at[e] \in Sending /\ TypeOK
  BY DEF MailInv, Sending
<1>2. send[e].hash \in Hash /\ send[e] \in Pub
  BY <1>1 DEF CallInv, AskedOf, TypeOK
<1>3. send[e].id \in Id /\ send[e].thread = IF send[e].hash.into = 0 THEN send[e].id ELSE send[e].hash.into
  BY <1>1 DEF CallInv, PublicationOf
<1>4. send[e].thread \in Id
  BY <1>2, <1>3 DEF Hash, Id
<1>5. send[e].seq \in Nat /\ send[e].pos \in Nat
  BY <1>2 DEF Pub
<1>6. QED
  BY <1>2, <1>3, <1>4, <1>5 DEF Pointer, Ptr, Hash


LEMMA PublishPointerIntentMail ==
    ASSUME MailInv, NEW e \in Endpoint, PublishPointerIntent(e)
    PROVE  /\ MailInv' /\ at[e] = "intent" /\ UNCHANGED <<log, rec, walk, hook, seen, nextId>>
           /\ \A f \in Endpoint : f # e => at'[f] = at[f]
<1>1. /\ at[e] = "intent" /\ TypeOK /\ CallInv(e) /\ at[e] \in Sending /\ at[e] \in Publishing
      /\ box' = [box EXCEPT ![send[e].hash.to].pending = @ \cup {Pointer(send[e])}]
      /\ Goto(e, "commit")
      /\ UNCHANGED <<log, receipt, ep, joining, send, walk, rec, hook, nextId, faults, seen, told>>
  BY DEF PublishPointerIntent, MailInv, Sending, Publishing
<1>2. PICK x \in Endpoint, p \in Ptr : x = send[e].hash.to /\ p = Pointer(send[e])
  BY <1>1, PublishedTyped
<1>3. box' \in [Endpoint -> Mailbox]
  BY <1>1, <1>2, LinkedTyped
<1>4. /\ at' \in [Endpoint -> {"idle", "ackClean"} \cup Sending \cup Polling]
      /\ at'[e] = "commit" /\ \A f \in Endpoint : f # e => at'[f] = at[f]
  BY <1>1, GotoTyped DEF Sending, Publishing
<1>5. TypeOK'
  BY <1>1, <1>3, <1>4 DEF TypeOK
<1>6. QED
  BY <1>1, <1>4, <1>5, OnwardMail

LEMMA ActivatePointerMail ==
    ASSUME MailInv, NEW e \in Endpoint, ActivatePointer(e)
    PROVE  /\ MailInv' /\ at[e] = "activate" /\ UNCHANGED <<log, rec, walk, hook, seen, nextId>>
           /\ \A f \in Endpoint : f # e => at'[f] = at[f]
<1>1. /\ at[e] = "activate" /\ TypeOK /\ CallInv(e) /\ at[e] \in Sending /\ at[e] \in Publishing
      /\ \/ box' = [box EXCEPT ![send[e].hash.to] = Renamed(@, Pointer(send[e]))]
         \/ UNCHANGED box
      /\ Goto(e, "finalize")
      /\ UNCHANGED <<log, receipt, ep, joining, send, walk, rec, hook, nextId, faults, seen, told>>
  BY DEF ActivatePointer, MailInv, Sending, Publishing
<1>2. PICK x \in Endpoint, p \in Ptr : x = send[e].hash.to /\ p = Pointer(send[e])
  BY <1>1, PublishedTyped
<1>3. box' \in [Endpoint -> Mailbox]
  <2>1. box \in [Endpoint -> Mailbox]
    BY <1>1 DEF TypeOK
  <2>2. CASE box' = [box EXCEPT ![x] = Renamed(@, p)]
    <3>1. Renamed(box[x], p) \in Mailbox
      BY <2>1, RenamedTyped
    <3>2. QED
      BY <2>1, <2>2, <3>1
  <2>3. QED
    BY <1>1, <1>2, <2>1, <2>2
<1>4. /\ at' \in [Endpoint -> {"idle", "ackClean"} \cup Sending \cup Polling]
      /\ at'[e] = "finalize" /\ \A f \in Endpoint : f # e => at'[f] = at[f]
  BY <1>1, GotoTyped DEF Sending, Publishing
<1>5. TypeOK'
  BY <1>1, <1>3, <1>4 DEF TypeOK
<1>6. QED
  BY <1>1, <1>4, <1>5, OnwardMail

\* What was written is final.
LEMMA FinalizeReceiptMail ==
    ASSUME MailInv, NEW e \in Endpoint, FinalizeReceipt(e)
    PROVE  /\ MailInv' /\ at[e] \in {"finalize", "confirm", "parkFinal"}
           /\ UNCHANGED <<log, box, rec, walk, hook, seen, nextId>>
           /\ \A f \in Endpoint : f # e => at'[f] = at[f]
<1>1. /\ at[e] \in {"finalize", "confirm", "parkFinal"} /\ TypeOK /\ CallInv(e) /\ at[e] \in Sending
      /\ at[e] \in After /\ receipt' = [receipt EXCEPT ![e][send[e].key].state = "final"]
      /\ Return(e)
      /\ UNCHANGED <<log, box, ep, joining, walk, rec, hook, nextId, faults, seen, told>>
  BY DEF FinalizeReceipt, MailInv, Sending, Publishing, After, Repeats
<1>2. PICK k \in Key : k = send[e].key /\ Keyed(e, k) # {}
  BY <1>1 DEF CallInv, AskedOf, WrittenOf
<1>3. receipt[e][k].state # "none"
  BY <1>1, <1>2 DEF CallInv, ReceiptOf, Retries, Publishing
<1>4. receipt[e][k] \in Receipt /\ receipt \in [Endpoint -> [Key -> Receipt]] /\ ReceiptInv(e, k)
  BY <1>1 DEF TypeOK, MailInv
<1> DEFINE r == receipt[e][k]
           new == [r EXCEPT !.state = "final"]
<1>5. new \in Receipt /\ new.id = r.id
  BY <1>4, FinalTyped
<1>6. receipt' = [receipt EXCEPT ![e][k] = new]
  BY <1>1, <1>2
<1>7. /\ receipt' \in [Endpoint -> [Key -> Receipt]] /\ receipt'[e][k] = new
      /\ \A j \in Key : j # k => receipt'[e][j] = receipt[e][j]
      /\ \A f \in Endpoint : f # e => receipt'[f] = receipt[f]
  <2> HIDE DEF new
  <2> QED  BY <1>4, <1>5, <1>6
<1>8. /\ at' \in [Endpoint -> {"idle", "ackClean"} \cup Sending \cup Polling]
      /\ at'[e] = "idle" /\ \A f \in Endpoint : f # e => at'[f] = at[f]
      /\ send' \in [Endpoint -> Pub] /\ \A f \in Endpoint : f # e => send'[f] = send[f]
  BY <1>1, ReturnTyped
<1>9. TypeOK'
  BY <1>1, <1>7, <1>8 DEF TypeOK
<1>10. \A j \in Key : ReceiptInv(e, j)'
  <2>1. ReceiptInv(e, k)'
    BY <1>1, <1>2, <1>3, <1>4, <1>7, FinalReceipt
  <2>2. QED
    BY <1>1, <1>7, <2>1, OtherReceipts
<1>11. at'[e] \notin Sending /\ at'[e] \notin Publishing
  BY <1>8 DEF Sending, Publishing
<1>12. CallInv(e)'
  BY <1>11, AsideCall
<1>13. \A j \in Key : \/ receipt'[e][j] = receipt[e][j]
                      \/ receipt[e][j].state # "none" /\ receipt'[e][j].id = receipt[e][j].id
  BY <1>3, <1>5, <1>7
<1> HIDE DEF new
<1>14. MailInv'
  BY <1>1, <1>7, <1>8, <1>9, <1>10, <1>11, <1>12, <1>13, SenderMail
<1>15. QED
  BY <1>1, <1>8, <1>14

LEMMA LockTimesOutMail ==
    ASSUME MailInv, NEW e \in Endpoint, LockTimesOut(e)
    PROVE  /\ MailInv' /\ at[e] \in {"redeliver", "fresh"}
           /\ UNCHANGED <<log, box, rec, walk, hook, seen, nextId>>
           /\ \A f \in Endpoint : f # e => at'[f] = at[f]
<1>1. /\ at[e] \in {"redeliver", "fresh"} /\ TypeOK /\ Return(e)
      /\ UNCHANGED <<log, box, receipt, ep, joining, walk, rec, hook, nextId, faults, seen, told>>
  BY DEF LockTimesOut, MailInv
<1>2. TypeOK' /\ \A f \in Endpoint : f # e => at'[f] = at[f]
  BY <1>1, ReturnTyped DEF TypeOK
<1>3. QED
  BY <1>1, <1>2, EndedMail
----------------------------------------------------------------------------
(* An entry is appended to a thread, under the thread's lock. *)

Appends(t, m) == log' = [log EXCEPT ![t] = Append(@, m)]

LEMMA AppendedLog ==
    ASSUME TypeOK, NEW t \in Id, NEW m \in Entry, Appends(t, m)
    PROVE  /\ log' \in [Id -> Seq(Entry)] /\ Len(log[t]) \in Nat
           /\ Len(log'[t]) = Len(log[t]) + 1 /\ log'[t][Len(log[t]) + 1] = m
           /\ \A u \in Id : \A i \in 1..Len(log[u]) :
                 i \in 1..Len(log'[u]) /\ log'[u][i] = log[u][i]
           /\ \A u \in Id : u # t => log'[u] = log[u]
<1>1. log \in [Id -> Seq(Entry)] /\ log[t] \in Seq(Entry)
  BY DEF TypeOK
<1>2. log'[t] = Append(log[t], m) /\ \A u \in Id : u # t => log'[u] = log[u]
  BY <1>1 DEF Appends
<1>3. Append(log[t], m) \in Seq(Entry) /\ Len(Append(log[t], m)) = Len(log[t]) + 1
      /\ Append(log[t], m)[Len(log[t]) + 1] = m /\ Len(log[t]) \in Nat
      /\ \A i \in 1..Len(log[t]) : Append(log[t], m)[i] = log[t][i]
  BY <1>1
<1>4. \A i \in 1..Len(log[t]) : i \in 1..Len(log'[t]) /\ log'[t][i] = log[t][i]
  BY <1>2, <1>3
<1>5. \A u \in Id : \A i \in 1..Len(log[u]) : i \in 1..Len(log'[u]) /\ log'[u][i] = log[u][i]
  BY <1>2, <1>4
<1>6. log' \in [Id -> Seq(Entry)]
  BY <1>1, <1>3 DEF Appends
<1>7. QED
  BY <1>2, <1>3, <1>5, <1>6

LEMMA AppendedPlaces ==
    ASSUME TypeOK, NEW t \in Id, NEW m \in Entry, Appends(t, m),
           NEW n, n = Len(log[t]) + 1
    PROVE  /\ Places' = Places \cup {<<t, n>>}
           /\ <<t, n>> \notin Places
           /\ EntryAt(<<t, n>>)' = m
           /\ \A q \in Places : EntryAt(q)' = EntryAt(q)
<1> DEFINE new == <<t, n>>
<1>1. /\ log' \in [Id -> Seq(Entry)] /\ Len(log[t]) \in Nat
      /\ Len(log'[t]) = Len(log[t]) + 1 /\ log'[t][Len(log[t]) + 1] = m
      /\ \A u \in Id : \A i \in 1..Len(log[u]) : i \in 1..Len(log'[u]) /\ log'[u][i] = log[u][i]
      /\ \A u \in Id : u # t => log'[u] = log[u]
  BY AppendedLog
<1>2. /\ \A u \in Id : DOMAIN log'[u] = 1..Len(log'[u])
      /\ \A u \in Id : DOMAIN log[u] = 1..Len(log[u])
  BY <1>1 DEF TypeOK
<1>3. DOMAIN log'[t] = DOMAIN log[t] \cup {Len(log[t]) + 1} /\ Len(log[t]) + 1 \notin DOMAIN log[t]
  BY <1>1, <1>2
<1>4. \A u \in Id : u # t => DOMAIN log'[u] = DOMAIN log[u]
  BY <1>1
<1>5. ASSUME NEW q \in Places'
      PROVE  q \in Places \cup {new}
  <2>1. PICK u \in Id : q \in {u} \X DOMAIN log'[u]
    BY DEF Places
  <2>2. CASE u = t
    BY <1>3, <2>1, <2>2 DEF Places
  <2>3. CASE u # t
    BY <1>4, <2>1, <2>3 DEF Places
  <2>4. QED
    BY <2>2, <2>3
<1>6. ASSUME NEW q \in Places
      PROVE  q \in Places' /\ EntryAt(q)' = EntryAt(q)
  <2>1. PICK u \in Id : q \in {u} \X DOMAIN log[u]
    BY DEF Places
  <2>2. q[1] = u /\ q[2] \in DOMAIN log[u] /\ q[2] \in DOMAIN log'[u]
    BY <1>1, <1>2, <2>1
  <2>3. log'[u][q[2]] = log[u][q[2]]
    BY <1>1, <1>2, <2>2
  <2>4. q \in {u} \X DOMAIN log'[u]
    BY <2>1, <2>2
  <2>5. QED
    BY <2>2, <2>3, <2>4 DEF Places, EntryAt
<1>7. new \in Places'
  <2>1. new \in {t} \X DOMAIN log'[t]
    BY <1>3
  <2>2. QED
    BY <2>1 DEF Places
<1>8. new \notin Places
  BY <1>1, <1>3, PlaceType
<1>9. EntryAt(new)' = m
  BY <1>1 DEF EntryAt
<1>10. QED
  BY <1>5, <1>6, <1>7, <1>8, <1>9

\* Who the new entry is by, and under which key.
LEMMA AppendedKeyed ==
    ASSUME TypeOK, NEW t \in Id, NEW m \in Entry, Appends(t, m),
           NEW n, n = Len(log[t]) + 1, NEW e, NEW k
    PROVE  /\ m.type \in {"message", "park"} /\ m.by = e /\ m.key = k =>
                 Keyed(e, k)' = Keyed(e, k) \cup {<<t, n>>}
           /\ ~(m.type \in {"message", "park"} /\ m.by = e /\ m.key = k) =>
                 Keyed(e, k)' = Keyed(e, k)
<1> DEFINE new == <<t, n>>
<1>1. /\ Places' = Places \cup {new} /\ new \notin Places /\ EntryAt(new)' = m
      /\ \A q \in Places : EntryAt(q)' = EntryAt(q)
  BY AppendedPlaces
<1>2. Keyed(e, k)' = {q \in Places' : /\ EntryAt(q)'.type \in {"message", "park"}
                                      /\ EntryAt(q)'.by = e /\ EntryAt(q)'.key = k}
  BY DEF Keyed
<1> HIDE DEF new
<1>3. QED
  BY <1>1, <1>2 DEF Keyed, new

\* The hops of a thread.
LEMMA AppendedHops ==
    ASSUME TypeOK, NEW t \in Id, NEW m \in Entry, Appends(t, m)
    PROVE  /\ \A u \in Id : u # t => hopCount(u)' = hopCount(u)
           /\ m.type = "message" /\ m.hash.payload \in Actionable =>
                 hopCount(t)' = hopCount(t) + 1
           /\ ~(m.type = "message" /\ m.hash.payload \in Actionable) =>
                 hopCount(t)' = hopCount(t)
<1> DEFINE hops == {i \in 1..Len(log[t]) : MessageAt(t, i) /\ log[t][i].hash.payload \in Actionable}
           n == Len(log[t]) + 1
<1>1. /\ log' \in [Id -> Seq(Entry)] /\ Len(log[t]) \in Nat
      /\ Len(log'[t]) = n /\ log'[t][n] = m
      /\ \A i \in 1..Len(log[t]) : i \in 1..Len(log'[t]) /\ log'[t][i] = log[t][i]
      /\ \A u \in Id : u # t => log'[u] = log[u]
  BY AppendedLog
<1>2. \A u \in Id : u # t => hopCount(u)' = hopCount(u)
  BY <1>1 DEF hopCount, MessageAt
<1>3. IsFiniteSet(hops)
  <2>1. IsFiniteSet(1..Len(log[t]))
    BY <1>1, FS_Interval
  <2>2. QED
    BY <2>1, FS_Subset
<1>4. hopCount(t)' = Cardinality({i \in 1..n :
          /\ i \in 1..n /\ log'[t][i].type = "message" /\ log'[t][i].hash.payload \in Actionable})
  BY <1>1 DEF hopCount, MessageAt
<1> DEFINE after == {i \in 1..n : /\ i \in 1..n /\ log'[t][i].type = "message"
                                  /\ log'[t][i].hash.payload \in Actionable}
<1>5. \A i \in 1..n : i = n \/ i \in 1..Len(log[t])
  BY <1>1
<1>6. n \in 1..n /\ n \notin 1..Len(log[t])
  BY <1>1
<1>7. CASE m.type = "message" /\ m.hash.payload \in Actionable
  <2>1. after = hops \cup {n}
    BY <1>1, <1>5, <1>6, <1>7 DEF MessageAt
  <2>2. n \notin hops
    BY <1>6
  <2> HIDE DEF hops, n
  <2>3. Cardinality(hops \cup {n}) = Cardinality(hops) + 1
    BY <1>3, <2>2, FS_AddElement
  <2>4. QED
    BY <1>2, <1>4, <1>7, <2>1, <2>3 DEF hopCount, hops
<1>8. CASE ~(m.type = "message" /\ m.hash.payload \in Actionable)
  <2>1. after = hops
    BY <1>1, <1>5, <1>8 DEF MessageAt
  <2>2. QED
    BY <1>2, <1>4, <1>8, <2>1 DEF hopCount
<1>9. QED
  BY <1>7, <1>8

\* What may be appended to a thread.
EntryFits(t, m) ==
    /\ log[t] = <<>> => m.type = "message" /\ t < nextId
    /\ m.type = "message" => m.key \in Key
    /\ m.key \in Key => /\ m.type \in {"message", "park"} /\ m.id \in Id /\ m.id < nextId
                        /\ m.to \in Endpoint /\ m.hash \in Hash
    /\ m.type = "park" /\ m.key \notin Key => m.id = 0
    /\ m.type = "ack" => \E j \in 1..Len(log[t]) : MessageAt(t, j) /\ log[t][j].id = m.id

LEMMA AppendedEntries ==
    ASSUME TypeOK, NEW t \in Id, NEW m \in Entry, Appends(t, m),
           EntryFits(t, m), nextId' = nextId, NEW u \in Id, EntryInv(t), EntryInv(u)
    PROVE  EntryInv(u)'
<1> DEFINE n == Len(log[t]) + 1
<1>1. /\ log \in [Id -> Seq(Entry)] /\ log' \in [Id -> Seq(Entry)] /\ Len(log[t]) \in Nat
      /\ Len(log'[t]) = n /\ log'[t][n] = m
      /\ \A i \in 1..Len(log[t]) : i \in 1..Len(log'[t]) /\ log'[t][i] = log[t][i]
      /\ \A v \in Id : v # t => log'[v] = log[v]
  BY AppendedLog DEF TypeOK
<1>2. CASE u # t
  <2>1. log'[u] = log[u] /\ \A j : MessageAt(u, j)' <=> MessageAt(u, j)
    BY <1>1, <1>2 DEF MessageAt
  <2>2. ASSUME NEW i \in 1..Len(log'[u])
        PROVE  LET c == log'[u][i]
               IN  /\ c.type = "message" => c.key \in Key
                   /\ c.key \in Key => /\ c.type \in {"message", "park"}
                                       /\ c.id \in Id /\ c.id < nextId'
                                       /\ c.to \in Endpoint /\ c.hash \in Hash
                   /\ c.type = "park" /\ c.key \notin Key => c.id = 0
                   /\ c.type = "ack" => \E j \in 1..Len(log'[u]) :
                                           MessageAt(u, j)' /\ log'[u][j].id = c.id
    <3>1. i \in 1..Len(log[u]) /\ log'[u][i] = log[u][i]
      BY <2>1
    <3>2. QED
      BY <2>1, <3>1 DEF EntryInv
  <2>3. log'[u] # <<>> => u < nextId' /\ log'[u][1].type = "message"
    BY <2>1 DEF EntryInv
  <2>4. QED
    BY <2>2, <2>3 DEF EntryInv
<1>3. CASE u = t
  <2>1. \A j : MessageAt(t, j) => MessageAt(t, j)' /\ log'[t][j] = log[t][j]
    BY <1>1 DEF MessageAt
  <2>2. ASSUME NEW i \in 1..Len(log'[t])
        PROVE  LET c == log'[t][i]
               IN  /\ c.type = "message" => c.key \in Key
                   /\ c.key \in Key => /\ c.type \in {"message", "park"}
                                       /\ c.id \in Id /\ c.id < nextId'
                                       /\ c.to \in Endpoint /\ c.hash \in Hash
                   /\ c.type = "park" /\ c.key \notin Key => c.id = 0
                   /\ c.type = "ack" => \E j \in 1..Len(log'[t]) :
                                           MessageAt(t, j)' /\ log'[t][j].id = c.id
    <3>1. \A j : MessageAt(t, j) => j \in 1..Len(log'[t])
      BY <1>1 DEF MessageAt
    <3>2. CASE i = n
      BY <1>1, <2>1, <3>1, <3>2 DEF EntryFits
    <3>3. CASE i # n
      <4>1. i \in 1..Len(log[t]) /\ log'[t][i] = log[t][i]
        BY <1>1, <3>3
      <4>2. QED
        BY <2>1, <3>1, <4>1 DEF EntryInv
    <3>4. QED
      BY <3>2, <3>3
  <2>3. t < nextId' /\ log'[t][1].type = "message"
    <3>1. CASE log[t] = <<>>
      BY <1>1, <3>1 DEF EntryFits
    <3>2. CASE log[t] # <<>>
      <4>1. 1 \in 1..Len(log[t])
        BY <1>1, <3>2
      <4>2. QED
        BY <1>1, <3>2, <4>1 DEF EntryInv
    <3>3. QED
      BY <3>1, <3>2
  <2>4. QED
    BY <1>3, <2>2, <2>3 DEF EntryInv
<1>4. QED
  BY <1>2, <1>3

\* The keys and the calls that the entry is not about.
LEMMA AppendedReceipt ==
    ASSUME TypeOK, NEW t \in Id, NEW m \in Entry, Appends(t, m),
           nextId' = nextId, NEW e \in Endpoint, NEW k \in Key, ReceiptInv(e, k),
           receipt'[e][k] = receipt[e][k],
           ~(m.type \in {"message", "park"} /\ m.by = e /\ m.key = k)
    PROVE  ReceiptInv(e, k)'
<1>1. PICK n : n = Len(log[t]) + 1
  OBVIOUS
<1>2. Keyed(e, k)' = Keyed(e, k)
  BY <1>1, AppendedKeyed
<1>3. \A q \in Keyed(e, k) : EntryAt(q)' = EntryAt(q)
  BY <1>1, AppendedPlaces DEF Keyed
<1>4. QED
  BY <1>2, <1>3 DEF ReceiptInv

LEMMA AppendedCall ==
    ASSUME TypeOK, NEW t \in Id, NEW m \in Entry, Appends(t, m),
           nextId' = nextId, NEW e \in Endpoint, CallInv(e),
           at'[e] = at[e], send'[e] = send[e], receipt'[e] = receipt[e],
           ~(m.type \in {"message", "park"} /\ m.by = e /\ m.key = send[e].key),
           at[e] \in Numbered => send[e].thread # t
    PROVE  CallInv(e)'
<1>1. Keyed(e, send[e].key)' = Keyed(e, send[e].key)
  <2>1. PICK n, k : n = Len(log[t]) + 1 /\ k = send[e].key
    OBVIOUS
  <2>2. Keyed(e, k)' = Keyed(e, k)
    BY <2>1, AppendedKeyed
  <2>3. QED
    BY <2>1, <2>2
<1>2. /\ \A u \in Id : \A i \in 1..Len(log[u]) : i \in 1..Len(log'[u]) /\ log'[u][i] = log[u][i]
      /\ \A u \in Id : u # t => log'[u] = log[u]
      /\ \A u \in Id : u # t => hopCount(u)' = hopCount(u)
  BY AppendedLog, AppendedHops
<1>3. AskedOf(e)'
  <2>1. ASSUME at[e] \in Sending, send[e].hash.into # 0
        PROVE  log'[send[e].hash.into] # <<>>
    <3>1. PICK u \in Id : u = send[e].hash.into /\ log[u] # <<>>
      BY <2>1 DEF CallInv, AskedOf, Hash, Id
    <3>2. log[u] \in Seq(Entry) /\ log' \in [Id -> Seq(Entry)]
      BY AppendedLog DEF TypeOK
    <3>3. 1 \in 1..Len(log[u])
      BY <3>1, <3>2
    <3>4. 1 \in 1..Len(log'[u]) /\ log'[u] \in Seq(Entry)
      BY <1>2, <3>2, <3>3
    <3>5. log'[u] # <<>>
      BY <3>4
    <3>6. QED
      BY <3>1, <3>5
  <2>2. QED
    BY <2>1 DEF CallInv, AskedOf
<1>4. WrittenOf(e)'
  BY <1>1 DEF CallInv, WrittenOf
<1>5. ReceiptOf(e)'
  BY DEF CallInv, ReceiptOf
<1>6. at[e] \in Numbered => send[e].thread \in Id
  BY DEF CallInv, PublicationOf, AskedOf, Numbered, Publishing, Sending, Hash, Id
<1>7. PublicationOf(e)'
  <2>1. at[e] \in Numbered => log'[send[e].thread] = log[send[e].thread]
    BY <1>2, <1>6
  <2>2. at[e] \in Numbered => hopCount(send[e].thread)' = hopCount(send[e].thread)
    <3>1. PICK u : u = send[e].thread
      OBVIOUS
    <3>2. at[e] \in Numbered => hopCount(u)' = hopCount(u)
      BY <1>2, <1>6, <3>1
    <3>3. hopCount(send[e].thread)' = hopCount(u)'
      BY <3>1
    <3>4. QED
      BY <3>1, <3>2, <3>3
  <2>3. QED
    BY <2>1, <2>2 DEF CallInv, PublicationOf
<1>8. QED
  BY <1>3, <1>4, <1>5, <1>7 DEF CallInv

\* A thread that a publication is to be the next entry of is locked.
LEMMA NumberedElsewhere ==
    ASSUME MailInv, NEW t \in Threads, NEW f \in Endpoint, at[f] \in Numbered,
           send[f].hash.into # t
    PROVE  send[f].thread # t
<1>1. CallInv(f) /\ at[f] \in Publishing /\ log[t] # <<>> /\ log[t] \in Seq(Entry)
  BY DEF MailInv, Numbered, Publishing, Threads, TypeOK
<1>2. CASE send[f].hash.into = 0
  <2>1. send[f].pos = 1 /\ Len(log[send[f].thread]) = send[f].pos - 1
    BY <1>1, <1>2 DEF CallInv, PublicationOf
  <2>2. Len(log[t]) # 0
    BY <1>1
  <2>3. QED
    BY <2>1, <2>2
<1>3. CASE send[f].hash.into # 0
  BY <1>1, <1>3 DEF CallInv, PublicationOf
<1>4. QED
  BY <1>2, <1>3

\* Acknowledgments and updates of a thread.
LEMMA StateEntryMail ==
    ASSUME MailInv, TypeOK', NEW t \in Threads, NEW m \in Entry, m.key \notin Key, EntryFits(t, m),
           Appends(t, m), ~ThreadLocked(t), UNCHANGED <<receipt, nextId>>,
           \A e \in Endpoint : (at'[e] = at[e] /\ send'[e] = send[e]) \/ at'[e] \notin Sending
    PROVE  MailInv'
<1>1. TypeOK /\ t \in Id
  BY DEF MailInv, Threads
<1>2. \A u \in Id : EntryInv(u)'
  BY <1>1, AppendedEntries DEF MailInv
<1>3. \A e \in Endpoint, k \in Key : ReceiptInv(e, k)'
  BY <1>1, AppendedReceipt DEF MailInv
<1>4. \A e \in Endpoint : CallInv(e)'
  <2> TAKE e \in Endpoint
  <2>1. CASE at'[e] \notin Sending
    BY <2>1, AsideCall
  <2>2. CASE at'[e] = at[e] /\ send'[e] = send[e] /\ at[e] \in Sending
    <3>1. send[e].key \in Key /\ CallInv(e)
      BY <2>2 DEF MailInv, CallInv, AskedOf
    <3>2. at[e] \in Numbered => send[e].hash.into # t
      BY DEF ThreadLocked, Numbered, Publishing
    <3>3. at[e] \in Numbered => send[e].thread # t
      BY <3>2, NumberedElsewhere
    <3>4. QED
      BY <1>1, <2>2, <3>1, <3>3, AppendedCall
  <2>3. QED
    BY <2>1, <2>2
<1>5. \A e \in Endpoint : at'[e] \in Publishing => at[e] \in Publishing /\ send'[e] = send[e]
  BY DEF Sending
<1>6. \A e, f \in Endpoint : Apart(e, f)'
  BY <1>5 DEF MailInv, Apart
<1>7. IdInv'
  BY <1>5 DEF MailInv, IdInv, Owned
<1>8. QED
  BY <1>2, <1>3, <1>4, <1>6, <1>7 DEF MailInv

\* The entry of a publication.
Published(e) ==
    [type |-> IF at[e] = "parkEntry" THEN "park" ELSE "message", id |-> send[e].id,
     by |-> e, to |-> send[e].hash.to, key |-> send[e].key, hash |-> send[e].hash]

LEMMA PublishedEntry ==
    ASSUME MailInv, NEW e \in Endpoint, at[e] \in {"commit", "parkEntry"}
    PROVE  /\ Published(e) \in Entry /\ send[e].thread \in Id
           /\ Published(e).type = (IF at[e] = "parkEntry" THEN "park" ELSE "message")
           /\ Published(e).id = send[e].id /\ Published(e).by = e
           /\ Published(e).to = send[e].hash.to /\ Published(e).key = send[e].key
           /\ Published(e).hash = send[e].hash
           /\ EntryFits(send[e].thread, Published(e))
<1>1. CallInv(e) /\ at[e] \in Sending /\ at[e] \in Publishing
  BY DEF MailInv, Sending, Publishing
<1>2. send[e].hash \in Hash /\ send[e].key \in Key
      /\ (send[e].hash.into # 0 => log[send[e].hash.into] # <<>>)
  BY <1>1 DEF CallInv, AskedOf
<1>3. /\ send[e].id \in Id /\ send[e].id < nextId
      /\ send[e].thread = IF send[e].hash.into = 0 THEN send[e].id ELSE send[e].hash.into
  BY <1>1 DEF CallInv, PublicationOf
<1>4. send[e].thread \in Id /\ send[e].hash.to \in Endpoint /\ send[e].id \in 0..MaxId
  BY <1>2, <1>3 DEF Hash, Id
<1>5. /\ Published(e).type = (IF at[e] = "parkEntry" THEN "park" ELSE "message")
      /\ Published(e).id = send[e].id /\ Published(e).by = e
      /\ Published(e).to = send[e].hash.to /\ Published(e).key = send[e].key
      /\ Published(e).hash = send[e].hash
  BY DEF Published
<1>6. Published(e) \in Entry
  BY <1>2, <1>4 DEF Published, Entry
<1>7. at[e] = "parkEntry" => send[e].hash.into # 0
  BY <1>1 DEF CallInv, PublicationOf, Parks
<1>8. EntryFits(send[e].thread, Published(e))
  BY <1>2, <1>3, <1>4, <1>5, <1>7 DEF EntryFits
<1>9. QED
  BY <1>4, <1>5, <1>6, <1>8

LEMMA CommitEntryMail ==
    ASSUME MailInv, NEW e \in Endpoint, CommitEntry(e)
    PROVE  /\ MailInv' /\ at[e] \in {"commit", "parkEntry"} /\ Len(log[send[e].thread]) = send[e].pos - 1
           /\ Appends(send[e].thread, Published(e))
           /\ UNCHANGED <<box, rec, walk, hook, seen, nextId>>
           /\ \A f \in Endpoint : f # e => at'[f] = at[f]
<1>1. /\ at[e] \in {"commit", "parkEntry"} /\ TypeOK /\ CallInv(e)
      /\ at[e] \in Sending /\ at[e] \in Publishing /\ at[e] \in Numbered
      /\ UNCHANGED <<box, receipt, ep, joining, walk, rec, hook, nextId, faults, seen, told>>
  BY DEF CommitEntry, MailInv, Sending, Publishing, Numbered
<1>2. /\ send[e].key \in Key /\ send[e].hash \in Hash /\ Keyed(e, send[e].key) = {}
      /\ Len(log[send[e].thread]) = send[e].pos - 1 /\ send[e].pos \in Nat \ {0}
  BY <1>1 DEF CallInv, AskedOf, WrittenOf, PublicationOf, Before
<1>3. PICK t \in Id, m \in Entry : t = send[e].thread /\ m = Published(e)
  BY <1>1, PublishedEntry
<1>4. ~(Len(log[t]) >= send[e].pos)
  BY <1>2, <1>3
<1>5. /\ Appends(t, m) /\ send' = send
      /\ Goto(e, IF at[e] = "parkEntry" THEN "parkFinal" ELSE "activate")
  BY <1>3, <1>4 DEF CommitEntry, Appends, Published
<1>6. /\ at' \in [Endpoint -> {"idle", "ackClean"} \cup Sending \cup Polling]
      /\ at'[e] = (IF at[e] = "parkEntry" THEN "parkFinal" ELSE "activate")
      /\ \A f \in Endpoint : f # e => at'[f] = at[f]
  BY <1>1, <1>5, GotoTyped DEF Sending, Publishing
<1>7. log' \in [Id -> Seq(Entry)]
  BY <1>1, <1>5, AppendedLog
<1>8. TypeOK'
  BY <1>1, <1>5, <1>6, <1>7 DEF TypeOK
<1>9. PICK n : n = Len(log[t]) + 1
  OBVIOUS
<1>10. /\ m.type = (IF at[e] = "parkEntry" THEN "park" ELSE "message")
       /\ m.id = send[e].id /\ m.by = e /\ m.key = send[e].key /\ m.hash = send[e].hash
       /\ EntryFits(t, m)
  BY <1>1, <1>3, PublishedEntry
<1>11. Keyed(e, send[e].key)' = {<<t, n>>} /\ EntryAt(<<t, n>>)' = m
  <2>1. PICK k \in Key : k = send[e].key
    BY <1>2
  <2>2. Keyed(e, k)' = Keyed(e, k) \cup {<<t, n>>}
    BY <1>1, <1>5, <1>9, <1>10, <2>1, AppendedKeyed
  <2>3. EntryAt(<<t, n>>)' = m
    BY <1>1, <1>5, <1>9, AppendedPlaces
  <2>4. Keyed(e, send[e].key)' = Keyed(e, k)'
    BY <1>5, <2>1
  <2>5. QED
    BY <1>2, <2>1, <2>2, <2>3, <2>4
<1>12. \A u \in Id : EntryInv(u)'
  BY <1>1, <1>5, <1>10, AppendedEntries DEF MailInv
<1>13. \A f \in Endpoint, k \in Key : ReceiptInv(f, k)'
  <2>1. ASSUME NEW f \in Endpoint, NEW k \in Key, ~(f = e /\ k = send[e].key)
        PROVE  ReceiptInv(f, k)'
    BY <1>1, <1>5, <1>10, <2>1, AppendedReceipt DEF MailInv
  <2>2. PICK k \in Key : k = send[e].key
    BY <1>2
  <2>3. ReceiptInv(e, k)'
    <3>1. /\ receipt[e][k].state = "pending" /\ receipt[e][k].hash = send[e].hash
          /\ receipt[e][k].thread = t /\ receipt[e][k].id = send[e].id
          /\ receipt[e][k].outcome = send[e].outcome
      BY <1>1, <1>3, <2>2 DEF CallInv, ReceiptOf
    <3>2. (at[e] = "parkEntry") <=> (send[e].outcome = "parked")
      BY <1>1 DEF CallInv, PublicationOf, Delivers, Parks
    <3>3. Keyed(e, k)' = {<<t, n>>}
      BY <1>5, <1>11, <2>2
    <3>4. ReceiptInv(e, k)
      BY DEF MailInv
    <3>5. /\ receipt[e][k].id \in Id /\ receipt[e][k].id < nextId
          /\ receipt[e][k].thread \in Id /\ receipt[e][k].hash \in Hash
      BY <3>1, <3>4 DEF ReceiptInv
    <3>6. \A q \in Keyed(e, k)' :
             /\ q[1] = receipt[e][k].thread /\ EntryAt(q)'.id = receipt[e][k].id
             /\ EntryAt(q)'.hash = receipt[e][k].hash
             /\ ((EntryAt(q)'.type = "park") <=> (receipt[e][k].outcome = "parked"))
      BY <1>10, <1>11, <3>1, <3>2, <3>3
    <3>7. QED
      BY <1>1, <3>1, <3>3, <3>5, <3>6 DEF ReceiptInv
  <2>4. QED
    BY <2>1, <2>2, <2>3
<1>14. \A f \in Endpoint : f # e => CallInv(f)'
  <2> SUFFICES ASSUME NEW f \in Endpoint, f # e
               PROVE  CallInv(f)'
    OBVIOUS
  <2>1. CallInv(f) /\ Apart(e, f) /\ at'[f] = at[f] /\ send'[f] = send[f] /\ receipt'[f] = receipt[f]
    BY <1>1, <1>5, <1>6 DEF MailInv
  <2>2. at[f] \in Numbered => send[f].thread # t
    <3>1. SUFFICES ASSUME at[f] \in Numbered
                   PROVE  send[f].thread # t
      OBVIOUS
    <3>2. at[f] \in Publishing /\ at[f] \in Sending
      BY <3>1 DEF Numbered, Publishing, Sending
    <3>3. send[f].hash.into # send[e].hash.into
      BY <1>1, <2>1, <3>2 DEF Apart
    <3>4. CASE send[e].hash.into # 0
      <4>1. t = send[e].hash.into /\ t \in Threads
        BY <1>1, <1>3, <3>4 DEF CallInv, PublicationOf, AskedOf, Threads
      <4>2. QED
        BY <3>1, <3>3, <4>1, NumberedElsewhere
    <3>5. CASE send[e].hash.into = 0
      <4>1. send[e].pos = 1 /\ Len(log[t]) = 0 /\ log[t] \in Seq(Entry)
        BY <1>1, <1>2, <1>3, <3>5 DEF CallInv, PublicationOf, TypeOK
      <4>2. send[f].hash.into # 0 /\ log[send[f].hash.into] # <<>>
        BY <2>1, <3>2, <3>3, <3>5 DEF CallInv, AskedOf
      <4>3. send[f].thread = send[f].hash.into
        BY <2>1, <3>2, <4>2 DEF CallInv, PublicationOf
      <4>4. log[t] = <<>>
        BY <4>1
      <4>5. QED
        BY <4>2, <4>3, <4>4
    <3>6. QED
      BY <3>4, <3>5
  <2>3. QED
    BY <1>1, <1>5, <1>10, <2>1, <2>2, AppendedCall
<1>15. CallInv(e)'
  <2>1. AskedOf(e)'
    <3>1. ASSUME send[e].hash.into # 0
          PROVE  log'[send[e].hash.into] # <<>>
      <4>1. t = send[e].hash.into
        BY <1>1, <1>3, <3>1 DEF CallInv, PublicationOf
      <4>2. Len(log'[t]) = Len(log[t]) + 1 /\ Len(log[t]) \in Nat
        BY <1>1, <1>5, AppendedLog
      <4>3. log'[t] # <<>>
        BY <4>2
      <4>4. QED
        BY <4>1, <4>3
    <3>2. QED
      BY <1>2, <1>5, <3>1 DEF AskedOf
  <2>2. WrittenOf(e)'
    BY <1>6, <1>11 DEF WrittenOf, Before, After, Numbered, Repeats
  <2>3. ReceiptOf(e)'
    BY <1>1, <1>5, <1>6 DEF CallInv, ReceiptOf, Retries, Repeats, Publishing
  <2>4. PublicationOf(e)'
    BY <1>1, <1>5, <1>6 DEF CallInv, PublicationOf, Publishing, Delivers, Parks, Numbered
  <2>5. QED
    BY <2>1, <2>2, <2>3, <2>4 DEF CallInv
<1>16. \A f \in Endpoint : at'[f] \in Publishing => at[f] \in Publishing
  BY <1>1, <1>6
<1>17. \A f, g \in Endpoint : Apart(f, g)'
  BY <1>5, <1>16 DEF MailInv, Apart
<1>18. IdInv'
  BY <1>1, <1>5, <1>16 DEF MailInv, IdInv, Owned
<1>19. MailInv'
  BY <1>8, <1>12, <1>13, <1>14, <1>15, <1>17, <1>18 DEF MailInv
<1>20. QED
  BY <1>1, <1>2, <1>3, <1>5, <1>6, <1>19
----------------------------------------------------------------------------
(* The rest of the invariant, over any step: the log only grows, and a step  *)
(* adds no pointers without a bound to a mailbox.                            *)

LogGrows == \A t \in Id : \A i \in 1..Len(log[t]) :
               i \in 1..Len(log'[t]) /\ log'[t][i] = log[t][i]
Linked(y) == \E b \in Nat : \A p \in box'[y].active \cup box'[y].pending :
                p \in box[y].active \cup box[y].pending \/ p.seq <= b

LEMMA SameLogGrows ==
    ASSUME log' = log
    PROVE  LogGrows
BY DEF LogGrows

\* A mailbox gets no pointers, or one.
LEMMA NothingLinked ==
    ASSUME NEW y, box'[y].active \cup box'[y].pending \subseteq box[y].active \cup box[y].pending
    PROVE  Linked(y)
BY DEF Linked

LEMMA OneLinked ==
    ASSUME NEW y, NEW p \in Ptr,
           box'[y].active \cup box'[y].pending \subseteq box[y].active \cup box[y].pending \cup {p}
    PROVE  Linked(y)
<1>1. p.seq \in Nat
  BY DEF Ptr
<1>2. \A q \in box'[y].active \cup box'[y].pending :
          q \in box[y].active \cup box[y].pending \/ q.seq <= p.seq
  BY <1>1
<1>3. QED
  BY <1>1, <1>2 DEF Linked

LEMMA LinkedIsBounded ==
    ASSUME TypeOK, TypeOK', NEW y \in Endpoint, BoundInv(y), Linked(y),
           hook'[y] = hook[y] \/ hook'[y] \subseteq box[y].active \cup box[y].pending
    PROVE  BoundInv(y)'
<1>1. PICK b \in Nat : \A p \in box[y].active \cup box[y].pending : p.seq <= b
  BY DEF BoundInv, Bounded
<1>2. PICK c \in Nat : \A p \in box'[y].active \cup box'[y].pending :
          p \in box[y].active \cup box[y].pending \/ p.seq <= c
  BY DEF Linked
<1>3. \A p \in box'[y].active \cup box'[y].pending : p.seq \in Nat
  <2>1. box'[y] \in Mailbox
    BY DEF TypeOK
  <2>2. QED
    BY <2>1 DEF Mailbox, Ptr
<1>4. b + c \in Nat /\ \A p \in box'[y].active \cup box'[y].pending : p.seq <= b + c
  BY <1>1, <1>2, <1>3
<1>5. Bounded(box[y].active \cup box[y].pending)'
  BY <1>4 DEF Bounded
<1>6. Bounded(hook[y])'
  BY <1>1 DEF BoundInv, Bounded
<1>7. QED
  BY <1>5, <1>6 DEF BoundInv

LEMMA GrownMessages ==
    ASSUME TypeOK, TypeOK', LogGrows
    PROVE  /\ \A q \in Places : q \in Places' /\ EntryAt(q)' = EntryAt(q)
           /\ \A m : Messages(m) \subseteq Messages(m)'
           /\ \A t \in Id : \A i : MessageAt(t, i) => MessageAt(t, i)'
<1>1. ASSUME NEW q \in Places
      PROVE  q \in Places' /\ EntryAt(q)' = EntryAt(q)
  <2>1. q[1] \in Id /\ q[2] \in 1..Len(log[q[1]]) /\ q = <<q[1], q[2]>>
    BY PlaceType
  <2>2. q[2] \in 1..Len(log'[q[1]]) /\ log'[q[1]][q[2]] = log[q[1]][q[2]]
    BY <2>1 DEF LogGrows
  <2>3. log'[q[1]] \in Seq(Entry)
    BY <2>1 DEF TypeOK
  <2>4. q \in {q[1]} \X DOMAIN log'[q[1]]
    BY <2>1, <2>2, <2>3
  <2>5. QED
    BY <2>1, <2>2, <2>4 DEF Places, EntryAt
<1>2. \A m : Messages(m) \subseteq Messages(m)'
  BY <1>1 DEF Messages
<1>3. \A t \in Id : \A i : MessageAt(t, i) => MessageAt(t, i)'
  BY DEF LogGrows, MessageAt
<1>4. QED
  BY <1>1, <1>2, <1>3

\* A reconciliation that a step leaves alone.
LEMMA GrownRec ==
    ASSUME TypeOK, TypeOK', LogGrows, NEW x \in Endpoint, RecInv(x), rec'[x] = rec[x],
           at[x] = "reconcile" => at'[x] = "reconcile"
    PROVE  RecInv(x)'
<1>1. rec[x].missing \in SUBSET Place
  BY DEF TypeOK, Rec
<1>2. \A m \in rec[x].missing : MessageAt(m.thread, m.pos)'
  <2> TAKE m \in rec[x].missing
  <2>1. PICK t \in Id, i \in Nat : t = m.thread /\ i = m.pos
    BY <1>1 DEF Place
  <2>2. MessageAt(t, i)
    BY <2>1 DEF RecInv, RecFits
  <2>3. MessageAt(t, i)'
    BY <2>2, GrownMessages
  <2>4. QED
    BY <2>1, <2>3 DEF MessageAt
<1>3. RecFits(rec[x])'
  BY <1>2 DEF RecInv, RecFits
<1>4. QED
  BY <1>3 DEF RecInv

LEMMA GrownShown ==
    ASSUME TypeOK, TypeOK', LogGrows, ShownInv,
           \A m \in seen' \cup UNION {walk'[e].shown : e \in Endpoint} :
              m \in seen \cup UNION {walk[e].shown : e \in Endpoint} \/ Messages(m) # {}
    PROVE  ShownInv'
<1>1. ASSUME NEW m \in seen' \cup UNION {walk'[e].shown : e \in Endpoint}
      PROVE  Messages(m)' # {}
  <2>1. Messages(m) # {}
    BY DEF ShownInv
  <2>2. QED
    BY <2>1, GrownMessages
<1>2. QED
  BY <1>1 DEF ShownInv

\* A step of a sender.
LEMMA SenderRest ==
    ASSUME IInv, MailInv', LogGrows, UNCHANGED <<rec, walk, hook, seen>>, NEW e \in Endpoint,
           at[e] # "reconcile", \A f \in Endpoint : f # e => at'[f] = at[f],
           \A y \in Endpoint : Linked(y), HopCapHolds'
    PROVE  IInv'
<1>1. TypeOK /\ TypeOK'
  BY DEF IInv, MailInv
<1>2. \A x \in Endpoint : RecInv(x)'
  BY <1>1, GrownRec DEF IInv
<1>3. \A y \in Endpoint : BoundInv(y)'
  BY <1>1, LinkedIsBounded DEF IInv
<1>4. ShownInv'
  BY <1>1, GrownShown DEF IInv
<1>5. QED
  BY <1>2, <1>3, <1>4 DEF IInv

LEMMA SameHops ==
    ASSUME HopCapHolds, log' = log
    PROVE  HopCapHolds'
<1>1. \A t : hopCount(t)' = hopCount(t)
  BY DEF hopCount, MessageAt
<1>2. QED
  BY <1>1 DEF HopCapHolds, Threads

\* A step that no send takes and that writes no entry.
LEMMA QuietRest ==
    ASSUME IInv, TypeOK', UNCHANGED <<log, receipt, nextId>>,
           \A e \in Endpoint : (at'[e] = at[e] /\ send'[e] = send[e]) \/ at'[e] \notin Sending,
           \A x \in Endpoint : RecInv(x)', \A y \in Endpoint : Linked(y),
           \A y \in Endpoint : \/ hook'[y] = hook[y]
                               \/ hook'[y] \subseteq box[y].active \cup box[y].pending,
           \A m \in seen' \cup UNION {walk'[e].shown : e \in Endpoint} :
              m \in seen \cup UNION {walk[e].shown : e \in Endpoint} \/ Messages(m) # {}
    PROVE  IInv'
<1>1. TypeOK /\ MailInv'
  BY QuietMail DEF IInv, MailInv
<1>2. \A y \in Endpoint : BoundInv(y)'
  BY <1>1, LinkedIsBounded DEF IInv
<1>3. ShownInv'
  BY <1>1, SameLogGrows, GrownShown DEF IInv
<1>4. HopCapHolds'
  BY SameHops DEF IInv
<1>5. QED
  BY <1>1, <1>2, <1>3, <1>4 DEF IInv

\* What the steps of a sender do to the mailboxes.
LEMMA SenderLinks ==
    ASSUME MailInv, \A x \in Endpoint : BoundInv(x), NEW e \in Endpoint,
           SendBusMessage(e) \/ SendStep(e), NEW y \in Endpoint
    PROVE  Linked(y)
<1>1. TypeOK /\ box \in [Endpoint -> Mailbox]
  BY DEF MailInv, TypeOK
<1>2. CASE UNCHANGED box
  BY <1>2, NothingLinked
<1>3. CASE RecoverReceipt(e)
  <2>1. \/ UNCHANGED box
        \/ LET r == receipt[e][send[e].key]
           IN  box' = [box EXCEPT ![r.hash.to].pending = {p \in @ : p.seq # r.seq \/ p.id # r.id}]
    BY <1>3 DEF RecoverReceipt
  <2>2. PICK x, seq, id : /\ x = receipt[e][send[e].key].hash.to
                          /\ seq = receipt[e][send[e].key].seq
                          /\ id = receipt[e][send[e].key].id
    OBVIOUS
  <2>5. \/ UNCHANGED box
        \/ box' = [box EXCEPT ![x].pending = {p \in @ : p.seq # seq \/ p.id # id}]
    BY <2>1, <2>2
  <2>3. box'[y].active \subseteq box[y].active /\ box'[y].pending \subseteq box[y].pending
    BY <1>1, <2>5 DEF Mailbox
  <2>4. QED
    BY <2>3, NothingLinked
<1>4. CASE Redeliver(e) /\ ~UNCHANGED box
  <2>1. at[e] = "redeliver" /\ box' = [box EXCEPT ![send[e].hash.to].pending = @ \cup {Recovered(e)}]
    BY <1>4 DEF Redeliver
  <2>2. PICK x \in Endpoint, p \in Ptr : x = send[e].hash.to /\ p = Recovered(e)
    BY <2>1, RecoveredTyped
  <2>3. /\ box'[x].active = box[x].active /\ box'[x].pending = box[x].pending \cup {p}
        /\ \A z \in Endpoint : z # x => box'[z] = box[z]
    BY <1>1, <2>1, <2>2, LinkedTyped
  <2>4. QED
    BY <2>3, OneLinked, NothingLinked
<1>5. CASE (Reactivate(e) \/ ActivatePointer(e)) /\ ~UNCHANGED box
  <2>1. PICK x, p : box' = [box EXCEPT ![x] = Renamed(@, p)]
    BY <1>5 DEF Reactivate, ActivatePointer
  <2>2. \/ box'[y] = box[y]
        \/ box'[y] = Renamed(box[y], p)
    BY <1>1, <2>1
  <2>3. box'[y].active \cup box'[y].pending = box[y].active \cup box[y].pending
    BY <1>1, <2>2, RenamedTyped
  <2>4. QED
    BY <2>3, NothingLinked
<1>6. CASE CreateThread(e) \/ ReplyToThread(e)
  BY <1>6, CreateThreadMail, ReplyToThreadMail, NothingLinked
<1>7. CASE PublishPointerIntent(e)
  <2>1. at[e] \in Publishing /\ box' = [box EXCEPT ![send[e].hash.to].pending = @ \cup {Pointer(send[e])}]
    BY <1>7 DEF PublishPointerIntent, Publishing
  <2>2. PICK x \in Endpoint, p \in Ptr : x = send[e].hash.to /\ p = Pointer(send[e])
    BY <2>1, PublishedTyped
  <2>3. /\ box'[x].active = box[x].active /\ box'[x].pending = box[x].pending \cup {p}
        /\ \A z \in Endpoint : z # x => box'[z] = box[z]
    BY <1>1, <2>1, <2>2, LinkedTyped
  <2>4. QED
    BY <2>3, OneLinked, NothingLinked
<1>8. CASE SendBusMessage(e) \/ ForgetReceipt(e) \/ WriteReceipt(e) \/ CommitEntry(e)
           \/ FinalizeReceipt(e) \/ LockTimesOut(e)
  BY <1>2, <1>8 DEF SendBusMessage, ForgetReceipt, WriteReceipt, CommitEntry, FinalizeReceipt,
                    LockTimesOut
<1>9. QED
  BY <1>2, <1>3, <1>4, <1>5, <1>6, <1>7, <1>8 DEF SendStep

\* The cap was checked under the thread's lock, which is held until the commit.
LEMMA CommitHops ==
    ASSUME MailInv, HopCapHolds, NEW e \in Endpoint, CommitEntry(e)
    PROVE  HopCapHolds'
<1>1. /\ at[e] \in {"commit", "parkEntry"} /\ TypeOK /\ CallInv(e)
      /\ Appends(send[e].thread, Published(e))
  BY CommitEntryMail DEF MailInv
<1>2. PICK t \in Id, m \in Entry : t = send[e].thread /\ m = Published(e)
  BY <1>1, PublishedEntry
<1>3. /\ m.type = (IF at[e] = "parkEntry" THEN "park" ELSE "message")
      /\ m.hash = send[e].hash
  BY <1>1, <1>2, PublishedEntry
<1>4. /\ Appends(t, m) /\ MaxHops \in Nat /\ 0 <= MaxHops
      /\ \A u \in Id : u # t => log'[u] = log[u]
  BY <1>1, <1>2, AppendedLog, MailboxAssumption
<1>5. hopCount(t) <= MaxHops /\ hopCount(t) \in Nat
  <2>1. CASE t \in Threads
    BY <1>1, <2>1, HopCountType DEF HopCapHolds
  <2>2. CASE t \notin Threads
    <3>1. Len(log[t]) = 0
      BY <2>2 DEF Threads
    <3>2. {i \in 1..Len(log[t]) : MessageAt(t, i) /\ log[t][i].hash.payload \in Actionable} = {}
      BY <3>1
    <3>3. hopCount(t) = 0
      BY <3>2, FS_EmptySet DEF hopCount
    <3>4. QED
      BY <1>4, <3>3
  <2>3. QED
    BY <2>1, <2>2
<1>6. \A u \in Id : u # t => hopCount(u)' = hopCount(u)
  BY <1>1, <1>4, AppendedHops
<1>7. hopCount(t)' <= MaxHops
  <2>1. CASE m.type = "message" /\ m.hash.payload \in Actionable
    <3>1. hopCount(t)' = hopCount(t) + 1
      BY <1>1, <1>4, <2>1, AppendedHops
    <3>2. at[e] = "commit"
      BY <1>1, <1>3, <2>1
    <3>3. hopCount(t) < MaxHops
      BY <1>1, <1>2, <1>3, <2>1, <3>2 DEF CallInv, PublicationOf, Delivers, Numbered
    <3>4. QED
      BY <1>4, <1>5, <3>1, <3>3
  <2>2. CASE ~(m.type = "message" /\ m.hash.payload \in Actionable)
    <3>1. hopCount(t)' = hopCount(t)
      BY <1>1, <1>4, <2>2, AppendedHops
    <3>2. QED
      BY <1>5, <3>1
  <2>3. QED
    BY <2>1, <2>2
<1>8. \A u \in Threads' : u = t \/ u \in Threads
  BY <1>4 DEF Threads
<1>9. \A u \in Threads : u \in Id
  BY DEF Threads
<1>10. QED
  BY <1>6, <1>7, <1>8, <1>9 DEF HopCapHolds

LEMMA SenderStep ==
    ASSUME IInv, NEW e \in Endpoint, SendBusMessage(e) \/ SendStep(e)
    PROVE  IInv'
<1>1. MailInv /\ HopCapHolds /\ \A x \in Endpoint : BoundInv(x)
  BY DEF IInv
<1>2. \A y \in Endpoint : Linked(y)
  BY <1>1, SenderLinks
<1>3. CASE CommitEntry(e)
  <2>1. /\ MailInv' /\ at[e] \in {"commit", "parkEntry"} /\ Appends(send[e].thread, Published(e))
        /\ UNCHANGED <<box, rec, walk, hook, seen, nextId>>
        /\ \A f \in Endpoint : f # e => at'[f] = at[f]
    BY <1>1, <1>3, CommitEntryMail
  <2>2. Published(e) \in Entry /\ send[e].thread \in Id
    BY <1>1, <2>1, PublishedEntry
  <2>3. LogGrows
    BY <1>1, <2>1, <2>2, AppendedLog DEF LogGrows, MailInv
  <2>4. HopCapHolds'
    BY <1>1, <1>3, CommitHops
  <2>5. QED
    BY <1>2, <2>1, <2>3, <2>4, SenderRest
<1>4. ASSUME ~CommitEntry(e)
      PROVE  IInv'
  <2>1. /\ MailInv' /\ at[e] # "reconcile" /\ UNCHANGED <<log, rec, walk, hook, seen>>
        /\ \A f \in Endpoint : f # e => at'[f] = at[f]
    <3>1. CASE SendBusMessage(e)
      BY <1>1, <3>1, SendBusMessageMail
    <3>2. CASE RecoverReceipt(e)
      BY <1>1, <3>2, RecoverReceiptMail
    <3>3. CASE ForgetReceipt(e)
      BY <1>1, <3>3, ForgetReceiptMail
    <3>4. CASE Redeliver(e)
      BY <1>1, <3>4, RedeliverMail
    <3>5. CASE Reactivate(e)
      BY <1>1, <3>5, ReactivateMail
    <3>6. CASE CreateThread(e)
      BY <1>1, <3>6, CreateThreadMail
    <3>7. CASE ReplyToThread(e)
      BY <1>1, <3>7, ReplyToThreadMail
    <3>8. CASE WriteReceipt(e)
      BY <1>1, <3>8, WriteReceiptMail
    <3>9. CASE PublishPointerIntent(e)
      BY <1>1, <3>9, PublishPointerIntentMail
    <3>10. CASE ActivatePointer(e)
      BY <1>1, <3>10, ActivatePointerMail
    <3>11. CASE FinalizeReceipt(e)
      BY <1>1, <3>11, FinalizeReceiptMail
    <3>12. CASE LockTimesOut(e)
      BY <1>1, <3>12, LockTimesOutMail
    <3>13. QED
      BY <1>4, <3>1, <3>2, <3>3, <3>4, <3>5, <3>6, <3>7, <3>8, <3>9, <3>10, <3>11, <3>12
         DEF SendStep
  <2>2. LogGrows /\ HopCapHolds'
    BY <1>1, <2>1, SameLogGrows, SameHops
  <2>3. QED
    BY <1>2, <2>1, <2>2, SenderRest
<1>5. QED
  BY <1>3, <1>4
----------------------------------------------------------------------------
(* Reconciliations. *)

\* A step of a reconciliation that leaves the calls alone.
LEMMA AdvanceRest ==
    ASSUME IInv, NEW x \in Endpoint, NEW r \in Rec, Advance(x, r), RecFits(r),
           r.at # "free" /\ r.by = "poll" => at[x] = "reconcile",
           box' \in [Endpoint -> Mailbox], \A y \in Endpoint : Linked(y), faults' \in 0..MaxFaults,
           UNCHANGED <<log, receipt, ep, joining, at, send, walk, hook, nextId, seen, told>>
    PROVE  IInv'
<1>1. TypeOK
  BY DEF IInv, MailInv
<1>2. rec' \in [Endpoint -> Rec] /\ rec'[x] = r /\ \A y \in Endpoint : y # x => rec'[y] = rec[y]
  BY <1>1, AdvanceTyped
<1>3. TypeOK'
  BY <1>1, <1>2 DEF TypeOK
<1>4. \A y \in Endpoint : RecInv(y)'
  <2>1. ASSUME NEW y \in Endpoint, y # x
        PROVE  RecInv(y)'
    BY <1>1, <1>2, <1>3, <2>1, SameLogGrows, GrownRec DEF IInv
  <2>2. RecFits(rec[x])'
    BY <1>2 DEF RecFits, MessageAt
  <2>3. RecInv(x)'
    BY <1>2, <2>2 DEF RecInv
  <2>4. QED
    BY <2>1, <2>3
<1>5. QED
  BY <1>3, <1>4, QuietRest

\* It leaves the mailboxes alone, or takes pointers from them.
LEMMA SameLinks ==
    ASSUME TypeOK, box' = box
    PROVE  box' \in [Endpoint -> Mailbox] /\ \A y \in Endpoint : Linked(y)
BY NothingLinked DEF TypeOK

LEMMA ListingTyped ==
    ASSUME NEW a \in SUBSET Ptr, NEW b \in SUBSET Ptr
    PROVE  Listing(a, b) \in SUBSET Ptr /\ Ids(Listing(a, b)) \in SUBSET Id
BY DEF Listing, Ids, Ptr

LEMMA NoRecFits ==
    RecFits(NoRec) /\ NoRec \in Rec /\ NoRec.at = "free"
BY NothingTyped DEF RecFits, NoRec

LEMMA BegunFits ==
    ASSUME TypeOK, NEW x \in Endpoint, NEW by \in {"poll", "setup"}
    PROVE  Begun(x, by) \in Rec /\ RecFits(Begun(x, by)) /\ Begun(x, by).by = by
<1>1. box[x].pending \in SUBSET Ptr
  BY DEF TypeOK, Mailbox
<1>2. Begun(x, by) = [NoRec EXCEPT !.at = "intents", !.by = by, !.todo = box[x].pending]
  BY DEF Begun
<1>3. Begun(x, by) \in Rec
  BY <1>1, <1>2, NothingTyped DEF Rec, RecordAt
<1>4. /\ Begun(x, by).at = "intents" /\ Begun(x, by).by = by /\ Begun(x, by).next = "known"
      /\ Begun(x, by).missing = {}
  BY <1>2 DEF NoRec
<1>5. QED
  BY <1>3, <1>4 DEF RecFits

LEMMA PickIntentStep ==
    ASSUME IInv, NEW x \in Endpoint, PickIntent(x)
    PROVE  IInv'
<1> DEFINE p == First(rec[x].todo)
           r == IF p \notin box[x].pending THEN [rec[x] EXCEPT !.todo = @ \ {p}]
                ELSE [rec[x] EXCEPT !.at = "intent",
                         !.lockOn = IF p.thread \in Threads THEN p.thread ELSE 0]
<1>1. /\ TypeOK /\ RecInv(x) /\ rec[x] \in Rec /\ rec[x].at = "intents" /\ rec[x].todo # {}
      /\ UNCHANGED <<log, box, receipt, ep, joining, at, send, walk, hook, nextId, faults, seen, told>>
      /\ Advance(x, r)
  BY DEF PickIntent, IInv, MailInv, TypeOK
<1>2. rec[x].todo \in SUBSET Ptr
  BY <1>1 DEF Rec
<1>3. p \in Ptr
  BY <1>1, <1>2, FirstOfThem
<1>4. p.thread \in 0..MaxId /\ 0 \in 0..MaxId
  BY <1>3, MailboxAssumption DEF Ptr, Id
<1> HIDE DEF p
<1>5. /\ r \in Rec /\ r.next = rec[x].next /\ r.missing = rec[x].missing /\ r.by = rec[x].by
      /\ r.at \in {"intents", "intent"}
  BY <1>1, <1>4 DEF Rec, RecordAt
<1> HIDE DEF r
<1>6. RecFits(r)
  BY <1>1, <1>5 DEF RecInv, RecFits
<1>7. faults' \in 0..MaxFaults
  BY <1>1 DEF TypeOK
<1>8. QED
  BY <1>1, <1>5, <1>6, <1>7, SameLinks, AdvanceRest DEF RecInv

LEMMA RecoverPendingIntentStep ==
    ASSUME IInv, NEW x \in Endpoint, RecoverPendingIntent(x)
    PROVE  IInv'
<1> DEFINE p == First(rec[x].todo)
           r == [rec[x] EXCEPT !.at = "intents", !.todo = @ \ {p}]
<1>1. /\ TypeOK /\ RecInv(x) /\ rec[x] \in Rec /\ rec[x].at = "intent" /\ box \in [Endpoint -> Mailbox]
      /\ UNCHANGED <<log, receipt, ep, joining, at, send, walk, hook, nextId, faults, seen, told>>
      /\ Advance(x, r)
      /\ \/ UNCHANGED box
         \/ box' = [box EXCEPT ![x] = Renamed(@, p)]
         \/ box' = [box EXCEPT ![x].pending = @ \ {p}]
  BY DEF RecoverPendingIntent, IInv, MailInv, TypeOK
<1> HIDE DEF p
<1>2. /\ r \in Rec /\ r.next = rec[x].next /\ r.missing = rec[x].missing /\ r.by = rec[x].by
      /\ r.at = "intents"
  BY <1>1 DEF Rec, RecordAt
<1> HIDE DEF r
<1>3. RecFits(r)
  BY <1>1, <1>2 DEF RecInv, RecFits
<1>4. faults' \in 0..MaxFaults
  BY <1>1 DEF TypeOK
<1>5. box' \in [Endpoint -> Mailbox] /\ \A y \in Endpoint : Linked(y)
  <2>1. CASE UNCHANGED box
    BY <1>1, <2>1, SameLinks
  <2>2. CASE box' = [box EXCEPT ![x] = Renamed(@, p)]
    <3>1. /\ Renamed(box[x], p) \in Mailbox
          /\ Renamed(box[x], p).active \cup Renamed(box[x], p).pending = box[x].active \cup box[x].pending
      BY <1>1, RenamedTyped
    <3>2. box' \in [Endpoint -> Mailbox] /\ box'[x] = Renamed(box[x], p)
          /\ \A y \in Endpoint : y # x => box'[y] = box[y]
      BY <1>1, <2>2, <3>1
    <3>3. QED
      BY <3>1, <3>2, NothingLinked
  <2>3. CASE box' = [box EXCEPT ![x].pending = @ \ {p}]
    <3>1. /\ box' \in [Endpoint -> Mailbox]
          /\ \A y \in Endpoint : box'[y].active = box[y].active /\ box'[y].pending \subseteq box[y].pending
      BY <1>1, <2>3 DEF Mailbox
    <3>2. QED
      BY <3>1, NothingLinked
  <2>4. QED
    BY <1>1, <2>1, <2>2, <2>3
<1>6. QED
  BY <1>1, <1>2, <1>3, <1>4, <1>5, AdvanceRest DEF RecInv

LEMMA ListActiveStep ==
    ASSUME IInv, NEW x \in Endpoint, ListActive(x)
    PROVE  IInv'
<1> DEFINE r == [rec[x] EXCEPT !.at = "list2", !.listed = box[x].active]
<1>1. /\ TypeOK /\ RecInv(x) /\ rec[x] \in Rec /\ box[x] \in Mailbox
      /\ rec[x].at \in {"intents", "list"}
      /\ UNCHANGED <<log, box, receipt, ep, joining, at, send, walk, hook, nextId, faults, seen, told>>
      /\ Advance(x, r)
  BY DEF ListActive, IInv, MailInv, TypeOK
<1>2. /\ r \in Rec /\ r.next = rec[x].next /\ r.missing = rec[x].missing /\ r.by = rec[x].by
      /\ r.at = "list2"
  BY <1>1 DEF Rec, RecordAt, Mailbox
<1> HIDE DEF r
<1>3. RecFits(r) /\ faults' \in 0..MaxFaults
  BY <1>1, <1>2 DEF RecInv, RecFits, TypeOK
<1>4. QED
  BY <1>1, <1>2, <1>3, SameLinks, AdvanceRest DEF RecInv

LEMMA FoldThreadStep ==
    ASSUME IInv, NEW x \in Endpoint, FoldThread(x)
    PROVE  IInv'
<1> DEFINE Due(t, j) == /\ MessageAt(t, j) /\ log[t][j].to \in Addressees(x)
                        /\ log[t][j].id \notin Acked(t) \cup rec[x].known
           Owed(t) == IF State(t) = "resolved" THEN {}
                      ELSE {[thread |-> t, pos |-> i] : i \in {j \in 1..Len(log[t]) : Due(t, j)}}
           Next2(t) == [rec[x] EXCEPT !.threads = @ \ {t}, !.missing = Owed(t), !.next = "create",
                                      !.at = IF Owed(t) = {} THEN "scan" ELSE "list"]
<1>1. /\ TypeOK /\ RecInv(x) /\ rec[x] \in Rec /\ rec[x].at = "scan"
      /\ UNCHANGED <<log, box, receipt, ep, joining, at, send, walk, hook, nextId, faults, seen, told>>
  BY DEF FoldThread, IInv, MailInv, TypeOK
<1>2. PICK t \in rec[x].threads : Advance(x, Next2(t))
  BY DEF FoldThread
<1>3. t \in Id /\ rec[x].threads \in SUBSET Id
  BY <1>1 DEF Rec
<1>4. Owed(t) \in SUBSET Place /\ \A m \in Owed(t) : MessageAt(m.thread, m.pos)
  <2>1. ASSUME NEW j \in 1..Len(log[t]), Due(t, j)
        PROVE  [thread |-> t, pos |-> j] \in Place /\ MessageAt(t, j)
    BY <1>3, <2>1 DEF Place
  <2>2. QED
    BY <2>1
<1> HIDE DEF Owed, Due
<1>5. /\ Next2(t) \in Rec /\ Next2(t).next = "create" /\ Next2(t).missing = Owed(t)
      /\ Next2(t).by = rec[x].by /\ Next2(t).at = (IF Owed(t) = {} THEN "scan" ELSE "list")
  BY <1>1, <1>3, <1>4 DEF Rec, RecordAt
<1> HIDE DEF Next2
<1>6. RecFits(Next2(t)) /\ faults' \in 0..MaxFaults
  BY <1>1, <1>4, <1>5 DEF RecFits, TypeOK
<1>7. QED
  BY <1>1, <1>2, <1>5, <1>6, SameLinks, AdvanceRest DEF RecInv

\* The message that a pointer is missing for.
LEMMA MissingIsThere ==
    ASSUME IInv, NEW x \in Endpoint, rec[x].at \in {"create", "write"}
    PROVE  /\ FirstMissing(x) \in rec[x].missing /\ FirstMissing(x) \in Place
           /\ MessageAt(FirstMissing(x).thread, FirstMissing(x).pos) /\ MissingId(x) \in Id
<1>1. TypeOK /\ rec[x] \in Rec /\ RecFits(rec[x])
  BY DEF IInv, MailInv, TypeOK, RecInv
<1>2. rec[x].missing \in SUBSET Place /\ rec[x].missing # {}
  BY <1>1 DEF Rec, RecFits
<1>3. FirstMissing(x) \in rec[x].missing
  BY <1>2, FirstMissingOfThem
<1>4. FirstMissing(x) \in Place /\ MessageAt(FirstMissing(x).thread, FirstMissing(x).pos)
  BY <1>1, <1>2, <1>3 DEF RecFits
<1>5. PICK t \in Id, i \in Nat : t = FirstMissing(x).thread /\ i = FirstMissing(x).pos
  BY <1>4 DEF Place
<1>6. log[t][i].id \in Id
  <2>1. i \in 1..Len(log[t]) /\ log[t][i].type = "message" /\ EntryInv(t)
    BY <1>4, <1>5 DEF MessageAt, IInv, MailInv
  <2>2. QED
    BY <2>1 DEF EntryInv
<1>7. QED
  BY <1>3, <1>4, <1>5, <1>6 DEF MissingId

\* On to the next one that is missing.
LEMMA PointedFits ==
    ASSUME IInv, NEW x \in Endpoint, rec[x].at \in {"create", "write"}, Pointed(x)
    PROVE  \E r \in Rec : Advance(x, r) /\ RecFits(r) /\ r.by = rec[x].by
<1> DEFINE rest == rec[x].missing \ {FirstMissing(x)}
           r == [rec[x] EXCEPT !.missing = rest, !.known = @ \cup {MissingId(x)},
                      !.listed = {}, !.seq = 0, !.at = IF rest = {} THEN "scan" ELSE "list"]
<1>1. Advance(x, r)
  BY DEF Pointed
<1>2. rec[x] \in Rec /\ RecFits(rec[x]) /\ MissingId(x) \in Id
  BY MissingIsThere DEF IInv, MailInv, TypeOK, RecInv
<1>3. rest \in SUBSET Place /\ rest \subseteq rec[x].missing
  BY <1>2 DEF Rec
<1> HIDE DEF rest
<1>4. /\ r \in Rec /\ r.missing = rest /\ r.by = rec[x].by
      /\ r.at = (IF rest = {} THEN "scan" ELSE "list")
  BY <1>2, <1>3 DEF Rec, RecordAt
<1> HIDE DEF r
<1>5. RecFits(r)
  BY <1>2, <1>3, <1>4 DEF RecFits
<1>6. QED
  BY <1>1, <1>4, <1>5

LEMMA AllocatePointerStep ==
    ASSUME IInv, NEW x \in Endpoint, AllocatePointer(x)
    PROVE  IInv'
<1> DEFINE r == [rec[x] EXCEPT !.at = "write", !.seq = AllocSeq(x)]
<1>1. /\ TypeOK /\ RecInv(x) /\ BoundInv(x) /\ rec[x] \in Rec /\ rec[x].at = "create"
      /\ box \in [Endpoint -> Mailbox] /\ faults' \in 0..MaxFaults
      /\ UNCHANGED <<log, receipt, ep, joining, at, send, walk, hook, nextId, faults, seen, told>>
  BY DEF AllocatePointer, IInv, MailInv, TypeOK
<1>2. CASE Pointed(x) /\ UNCHANGED box
  <2>1. PICK s \in Rec : Advance(x, s) /\ RecFits(s) /\ s.by = rec[x].by
    BY <1>1, <1>2, PointedFits
  <2>2. QED
    BY <1>1, <1>2, <2>1, SameLinks, AdvanceRest DEF RecInv
<1>3. CASE box' = [box EXCEPT ![x].next = AllocSeq(x) + 1] /\ Advance(x, r)
  <2>1. AllocSeq(x) \in Nat
    BY <1>1, AllocSeqAbove DEF BoundInv, TypeOK
  <2>2. r \in Rec /\ r.at = "write" /\ r.next = rec[x].next /\ r.missing = rec[x].missing
        /\ r.by = rec[x].by
    BY <1>1, <2>1 DEF Rec, RecordAt
  <2> HIDE DEF r
  <2>3. RecFits(r)
    BY <1>1, <2>2 DEF RecInv, RecFits
  <2>4. /\ box' \in [Endpoint -> Mailbox]
        /\ \A y \in Endpoint : box'[y].active = box[y].active /\ box'[y].pending = box[y].pending
    BY <1>1, <1>3, <2>1 DEF Mailbox
  <2>5. QED
    BY <1>1, <1>3, <2>2, <2>3, <2>4, NothingLinked, AdvanceRest DEF RecInv
<1>4. QED
  BY <1>2, <1>3 DEF AllocatePointer

LEMMA CreatePointerStep ==
    ASSUME IInv, NEW x \in Endpoint, CreatePointer(x)
    PROVE  IInv'
<1> DEFINE p == [seq |-> rec[x].seq, id |-> MissingId(x),
                 thread |-> FirstMissing(x).thread, pos |-> FirstMissing(x).pos]
<1>1. /\ TypeOK /\ RecInv(x) /\ rec[x] \in Rec /\ rec[x].at = "write"
      /\ box \in [Endpoint -> Mailbox] /\ box' = [box EXCEPT ![x].active = @ \cup {p}] /\ Pointed(x)
      /\ UNCHANGED <<log, receipt, ep, joining, at, send, walk, hook, nextId, faults, seen, told>>
  BY DEF CreatePointer, IInv, MailInv, TypeOK
<1>2. FirstMissing(x) \in Place /\ MissingId(x) \in Id
  BY <1>1, MissingIsThere
<1>3. p \in Ptr
  BY <1>1, <1>2 DEF Place, Ptr, Rec
<1> HIDE DEF p
<1>4. /\ box' \in [Endpoint -> Mailbox] /\ box'[x].pending = box[x].pending
      /\ box'[x].active = box[x].active \cup {p}
      /\ \A y \in Endpoint : y # x => box'[y] = box[y]
  BY <1>1, <1>3 DEF Mailbox
<1>5. \A y \in Endpoint : Linked(y)
  BY <1>3, <1>4, OneLinked, NothingLinked
<1>6. PICK s \in Rec : Advance(x, s) /\ RecFits(s) /\ s.by = rec[x].by
  BY <1>1, PointedFits
<1>7. faults' \in 0..MaxFaults
  BY <1>1 DEF TypeOK
<1>8. QED
  BY <1>1, <1>4, <1>5, <1>6, <1>7, AdvanceRest DEF RecInv

LEMMA EndScanStep ==
    ASSUME IInv, NEW x \in Endpoint, EndScan(x)
    PROVE  IInv'
<1> DEFINE r == [rec[x] EXCEPT !.at = "list", !.dirs = AncestorDirs(x), !.known = {},
                      !.next = IF AncestorDirs(x) = {} THEN "done" ELSE "sweep"]
<1>1. /\ TypeOK /\ RecInv(x) /\ rec[x] \in Rec /\ rec[x].at = "scan" /\ Advance(x, r)
      /\ UNCHANGED <<log, box, receipt, ep, joining, at, send, walk, hook, nextId, faults, seen, told>>
  BY DEF EndScan, IInv, MailInv, TypeOK
<1>2. AncestorDirs(x) \in SUBSET (Endpoint \X {"active", "pending"})
  BY DEF AncestorDirs, Addressees
<1>3. /\ r \in Rec /\ r.missing = rec[x].missing /\ r.by = rec[x].by /\ r.at = "list"
      /\ r.next \in {"done", "sweep"}
  BY <1>1, <1>2 DEF Rec, RecordAt
<1> HIDE DEF r
<1>4. RecFits(r) /\ faults' \in 0..MaxFaults
  BY <1>1, <1>3 DEF RecInv, RecFits, TypeOK
<1>5. QED
  BY <1>1, <1>3, <1>4, SameLinks, AdvanceRest DEF RecInv

LEMMA SweepStep ==
    ASSUME IInv, NEW x \in Endpoint, Sweep(x)
    PROVE  IInv'
<1> DEFINE delivered == Ids({p \in rec[x].listed : MatchesCanonical(p, Addressees(x))})
           Redundant(p) == /\ MatchesCanonical(p, Addressees(x))
                           /\ p.id \in delivered \/ Terminal(p.thread, p.id)
           Kept(d, dir, S) == IF d[2] = dir THEN {p \in S : ~Redundant(p)} ELSE S
           Next2(d) == [rec[x] EXCEPT !.dirs = @ \ {d}, !.next = "done",
                            !.at = IF rec[x].dirs = {d} THEN "list" ELSE "sweep"]
<1>1. /\ TypeOK /\ RecInv(x) /\ rec[x] \in Rec /\ rec[x].at = "sweep" /\ box \in [Endpoint -> Mailbox]
      /\ UNCHANGED <<log, receipt, ep, joining, at, send, walk, hook, nextId, faults, seen, told>>
  BY DEF Sweep, IInv, MailInv, TypeOK
<1>2. PICK d \in rec[x].dirs :
          /\ box' = [box EXCEPT ![d[1]].active = Kept(d, "active", @),
                                ![d[1]].pending = Kept(d, "pending", @)]
          /\ Advance(x, Next2(d))
  BY Zenon DEF Sweep
<1>3. /\ Next2(d) \in Rec /\ Next2(d).missing = rec[x].missing /\ Next2(d).by = rec[x].by
      /\ Next2(d).at \in {"list", "sweep"} /\ Next2(d).next = "done"
  BY <1>1 DEF Rec, RecordAt
<1> HIDE DEF Next2
<1>4. RecFits(Next2(d)) /\ faults' \in 0..MaxFaults
  BY <1>1, <1>3 DEF RecInv, RecFits, TypeOK
<1>5. /\ box' \in [Endpoint -> Mailbox]
      /\ \A y \in Endpoint : box'[y].active \subseteq box[y].active /\ box'[y].pending \subseteq box[y].pending
  <2>1. d \in Endpoint \X {"active", "pending"}
    BY <1>1 DEF Rec
  <2>2. PICK z \in Endpoint : z = d[1]
    BY <2>1
  <2>3. \A dir, S : Kept(d, dir, S) \subseteq S
    OBVIOUS
  <2> HIDE DEF Kept
  <2>4. box' = [box EXCEPT ![z].active = Kept(d, "active", @), ![z].pending = Kept(d, "pending", @)]
    BY <1>2, <2>2
  <2>5. QED
    BY <1>1, <2>3, <2>4 DEF Mailbox
<1>6. \A y \in Endpoint : Linked(y)
  BY <1>5, NothingLinked
<1>7. QED
  BY <1>1, <1>2, <1>3, <1>4, <1>5, <1>6, AdvanceRest DEF RecInv

LEMMA SetupStep ==
    ASSUME IInv, NEW x \in Endpoint, MaterializeSuccessorMailbox(x) \/ SetupFails(x)
    PROVE  IInv'
<1>1. TypeOK /\ \A n \in Nat : n + 1 \in Nat
  BY DEF IInv, MailInv
<1>2. CASE MaterializeSuccessorMailbox(x)
  <2>1. Begun(x, "setup") \in Rec /\ RecFits(Begun(x, "setup")) /\ Begun(x, "setup").by = "setup"
    BY <1>1, BegunFits
  <2>2. /\ Advance(x, Begun(x, "setup"))
        /\ UNCHANGED <<log, box, receipt, ep, joining, at, send, walk, hook, nextId, faults, seen, told>>
    BY <1>2 DEF MaterializeSuccessorMailbox
  <2>3. faults' \in 0..MaxFaults
    BY <1>1, <2>2 DEF TypeOK
  <2>4. QED
    BY <1>1, <2>1, <2>2, <2>3, SameLinks, AdvanceRest
<1>3. CASE SetupFails(x)
  <2>1. /\ Advance(x, NoRec) /\ Fail
        /\ UNCHANGED <<log, box, receipt, ep, joining, at, send, walk, hook, nextId, seen, told>>
    BY <1>3 DEF SetupFails
  <2>2. faults' \in 0..MaxFaults
    BY <1>1, <2>1, MailboxAssumption DEF Fail, TypeOK
  <2>3. QED
    BY <1>1, <2>1, <2>2, NoRecFits, SameLinks, AdvanceRest
<1>4. QED
  BY <1>2, <1>3

LEMMA ListPendingStep ==
    ASSUME IInv, NEW x \in Endpoint, ListPending(x)
    PROVE  IInv'
<1> DEFINE listed == Listing(rec[x].listed, box[x].pending)
           known == [rec[x] EXCEPT !.at = "scan", !.known = Ids(listed),
                                   !.threads = Threads, !.listed = {}]
           going == [rec[x] EXCEPT !.at = rec[x].next, !.listed = listed]
           begun == [left |-> listed, cursor |-> ep[x].polled, shown |-> {}]
<1>1. /\ TypeOK /\ RecInv(x) /\ rec[x] \in Rec /\ rec[x].at = "list2" /\ box[x] \in Mailbox
      /\ ep[x] \in Record /\ walk \in [Endpoint -> Walk] /\ faults \in 0..MaxFaults
      /\ UNCHANGED <<log, box, receipt, ep, joining, send, hook, nextId, faults, seen, told>>
  BY DEF ListPending, IInv, MailInv, TypeOK
<1>2. \/ rec[x].next = "known" /\ Advance(x, known) /\ UNCHANGED <<at, walk>>
      \/ rec[x].next \in {"create", "sweep"} /\ Advance(x, going) /\ UNCHANGED <<at, walk>>
      \/ /\ rec[x].next = "done" /\ Advance(x, NoRec)
         /\ \/ rec[x].by = "setup" /\ UNCHANGED <<at, walk>>
            \/ rec[x].by = "poll" /\ Goto(x, "walk") /\ walk' = [walk EXCEPT ![x] = begun]
  <2>1. rec[x].next \in {"known", "create", "sweep", "done"} /\ rec[x].by \in {"poll", "setup"}
    BY <1>1 DEF Rec
  <2>2. /\ rec[x].next = "known" => Advance(x, known) /\ UNCHANGED <<at, walk>>
        /\ rec[x].next \in {"create", "sweep"} => Advance(x, going) /\ UNCHANGED <<at, walk>>
        /\ rec[x].next = "done" =>
              /\ Advance(x, NoRec)
              /\ IF rec[x].by = "setup" THEN UNCHANGED <<at, walk>>
                 ELSE Goto(x, "walk") /\ walk' = [walk EXCEPT ![x] = begun]
    BY <2>1 DEF ListPending
  <2> HIDE DEF known, going, begun
  <2>3. QED
    BY <2>1, <2>2
<1>3. listed \in SUBSET Ptr /\ Ids(listed) \in SUBSET Id /\ Threads \in SUBSET Id /\ ep[x].polled \in Nat
  BY <1>1, ListingTyped DEF Rec, Mailbox, Threads, Record
<1> HIDE DEF listed
<1>4. CASE rec[x].next = "known" /\ Advance(x, known) /\ UNCHANGED <<at, walk>>
  <2>1. known \in Rec /\ known.at = "scan" /\ known.missing = rec[x].missing /\ known.by = rec[x].by
    BY <1>1, <1>3 DEF Rec, RecordAt
  <2> HIDE DEF known
  <2>2. RecFits(known)
    BY <1>1, <2>1 DEF RecInv, RecFits
  <2>3. QED
    BY <1>1, <1>4, <2>1, <2>2, SameLinks, AdvanceRest DEF RecInv
<1>5. CASE rec[x].next \in {"create", "sweep"} /\ Advance(x, going) /\ UNCHANGED <<at, walk>>
  <2>1. /\ going \in Rec /\ going.at = rec[x].next /\ going.missing = rec[x].missing
        /\ going.by = rec[x].by /\ going.next = rec[x].next
    BY <1>1, <1>3, <1>5 DEF Rec, RecordAt
  <2> HIDE DEF going
  <2>2. RecFits(going)
    BY <1>1, <1>5, <2>1 DEF RecInv, RecFits
  <2>3. QED
    BY <1>1, <1>5, <2>1, <2>2, SameLinks, AdvanceRest DEF RecInv
<1>6. CASE rec[x].next = "done" /\ Advance(x, NoRec) /\ rec[x].by = "setup" /\ UNCHANGED <<at, walk>>
  BY <1>1, <1>6, NoRecFits, SameLinks, AdvanceRest
<1>7. CASE /\ rec[x].next = "done" /\ Advance(x, NoRec) /\ rec[x].by = "poll"
           /\ Goto(x, "walk") /\ walk' = [walk EXCEPT ![x] = begun]
  <2>1. /\ rec' \in [Endpoint -> Rec] /\ rec'[x] = NoRec
        /\ \A y \in Endpoint : y # x => rec'[y] = rec[y]
    BY <1>1, <1>7, NoRecFits, AdvanceTyped
  <2>2. /\ at' \in [Endpoint -> {"idle", "ackClean"} \cup Sending \cup Polling]
        /\ at'[x] = "walk" /\ \A y \in Endpoint : y # x => at'[y] = at[y]
    BY <1>1, <1>7, GotoTyped DEF Polling
  <2>3. begun \in Walk /\ begun.shown = {}
    BY <1>1, <1>3 DEF Walk
  <2> HIDE DEF begun
  <2>4. /\ walk' \in [Endpoint -> Walk] /\ walk'[x].shown = {}
        /\ \A y \in Endpoint : y # x => walk'[y] = walk[y]
    BY <1>1, <1>7, <2>3
  <2>5. TypeOK'
    BY <1>1, <2>1, <2>2, <2>4 DEF TypeOK
  <2>6. \A y \in Endpoint : RecInv(y)'
    <3>1. ASSUME NEW y \in Endpoint, y # x
          PROVE  RecInv(y)'
      BY <1>1, <2>1, <2>2, <2>5, <3>1, SameLogGrows, GrownRec DEF IInv
    <3>2. RecInv(x)'
      BY <2>1 DEF RecInv, RecFits, NoRec
    <3>3. QED
      BY <3>1, <3>2
  <2>7. \A e \in Endpoint : (at'[e] = at[e] /\ send'[e] = send[e]) \/ at'[e] \notin Sending
    BY <1>1, <2>2 DEF Sending, Publishing
  <2>8. \A m \in seen' \cup UNION {walk'[e].shown : e \in Endpoint} :
           m \in seen \cup UNION {walk[e].shown : e \in Endpoint}
    BY <1>1, <2>4
  <2>9. QED
    BY <1>1, <2>5, <2>6, <2>7, <2>8, SameLinks, QuietRest
<1>8. QED
  BY <1>2, <1>4, <1>5, <1>6, <1>7

LEMMA ReconciliationStep ==
    ASSUME IInv, NEW x \in Endpoint, ReconcileStep(x)
    PROVE  IInv'
BY PickIntentStep, RecoverPendingIntentStep, ListActiveStep, ListPendingStep, FoldThreadStep,
   AllocatePointerStep, CreatePointerStep, EndScanStep, SweepStep DEF ReconcileStep
----------------------------------------------------------------------------
(* Polls. *)

LEMMA StartPollStep ==
    ASSUME IInv, NEW e \in Endpoint, StartPoll(e)
    PROVE  IInv'
<1>1. /\ TypeOK /\ at[e] = "idle" /\ Goto(e, "reconcile") /\ Advance(e, Begun(e, "poll"))
      /\ UNCHANGED <<log, box, receipt, ep, joining, send, walk, hook, nextId, faults, seen, told>>
  BY DEF StartPoll, IInv, MailInv
<1>2. Begun(e, "poll") \in Rec /\ RecFits(Begun(e, "poll"))
  BY <1>1, BegunFits
<1>3. /\ rec' \in [Endpoint -> Rec] /\ rec'[e] = Begun(e, "poll")
      /\ \A y \in Endpoint : y # e => rec'[y] = rec[y]
  BY <1>1, <1>2, AdvanceTyped
<1>4. /\ at' \in [Endpoint -> {"idle", "ackClean"} \cup Sending \cup Polling]
      /\ at'[e] = "reconcile" /\ \A y \in Endpoint : y # e => at'[y] = at[y]
  BY <1>1, GotoTyped DEF Polling
<1>5. TypeOK'
  BY <1>1, <1>3, <1>4 DEF TypeOK
<1>6. \A y \in Endpoint : RecInv(y)'
  <2>1. ASSUME NEW y \in Endpoint, y # e
        PROVE  RecInv(y)'
    BY <1>1, <1>3, <1>4, <1>5, <2>1, SameLogGrows, GrownRec DEF IInv
  <2>2. RecFits(rec[e])'
    BY <1>1, <1>2, <1>3 DEF RecFits, MessageAt
  <2>3. QED
    BY <1>4, <2>1, <2>2 DEF RecInv
<1>7. \A y \in Endpoint : (at'[y] = at[y] /\ send'[y] = send[y]) \/ at'[y] \notin Sending
  BY <1>1, <1>4 DEF Sending, Publishing
<1>8. QED
  BY <1>1, <1>5, <1>6, <1>7, SameLinks, QuietRest

\* A step that is no reconciliation's.
LEMMA AsideRest ==
    ASSUME IInv, TypeOK', UNCHANGED <<log, receipt, nextId, rec>>,
           \A e \in Endpoint : (at'[e] = at[e] /\ send'[e] = send[e]) \/ at'[e] \notin Sending,
           \A e \in Endpoint : at[e] = "reconcile" => at'[e] = "reconcile",
           \A y \in Endpoint : Linked(y),
           \A y \in Endpoint : \/ hook'[y] = hook[y]
                               \/ hook'[y] \subseteq box[y].active \cup box[y].pending,
           \A m \in seen' \cup UNION {walk'[e].shown : e \in Endpoint} :
              m \in seen \cup UNION {walk[e].shown : e \in Endpoint} \/ Messages(m) # {}
    PROVE  IInv'
<1>1. TypeOK
  BY DEF IInv, MailInv
<1>2. \A x \in Endpoint : RecInv(x)'
  BY <1>1, SameLogGrows, GrownRec DEF IInv
<1>3. QED
  BY <1>2, QuietRest

LEMMA WalkPointerStep ==
    ASSUME IInv, NEW e \in Endpoint, WalkPointer(e)
    PROVE  IInv'
<1> DEFINE p == First(walk[e].left)
           rest == walk[e].left \ {p}
           passed == [walk[e] EXCEPT !.left = rest]
           shown == [left |-> rest, shown |-> walk[e].shown \cup {p.id},
                     cursor |-> Max({walk[e].cursor, p.seq})]
<1>1. /\ TypeOK /\ ~WalkOver(e) /\ walk \in [Endpoint -> Walk] /\ walk[e] \in Walk
      /\ box \in [Endpoint -> Mailbox]
      /\ UNCHANGED <<log, receipt, ep, joining, at, send, rec, hook, nextId, faults, seen, told>>
  BY DEF WalkPointer, IInv, MailInv, TypeOK
<1>2. \/ walk' = [walk EXCEPT ![e] = passed] /\ (UNCHANGED box \/ RemovePointer(e, p))
      \/ /\ MatchesCanonical(p, Addressees(e))
         /\ walk' = [walk EXCEPT ![e] = shown] /\ UNCHANGED box
  <2>1. \/ /\ ~MatchesCanonical(p, Addressees(e))
           /\ walk' = [walk EXCEPT ![e].left = rest] /\ UNCHANGED box
        \/ /\ MatchesCanonical(p, Addressees(e)) /\ Terminal(p.thread, p.id)
           /\ RemovePointer(e, p)
           /\ walk' = [walk EXCEPT ![e].left = rest]
        \/ /\ MatchesCanonical(p, Addressees(e)) /\ ~Terminal(p.thread, p.id)
           /\ walk' = [walk EXCEPT ![e] = [left |-> rest, shown |-> @.shown \cup {p.id},
                                           cursor |-> Max({@.cursor, p.seq})]]
           /\ UNCHANGED box
    BY DEF WalkPointer
  <2> HIDE DEF p, rest
  <2>2. walk' = [walk EXCEPT ![e].left = rest] => walk' = [walk EXCEPT ![e] = passed]
    OBVIOUS
  <2>3. walk' = [walk EXCEPT ![e] = [left |-> rest, shown |-> @.shown \cup {p.id},
                                     cursor |-> Max({@.cursor, p.seq})]]
          => walk' = [walk EXCEPT ![e] = shown]
    OBVIOUS
  <2> HIDE DEF passed, shown
  <2>4. QED
    BY <2>1, <2>2, <2>3
<1>3. walk[e].left \in SUBSET Ptr /\ walk[e].left # {} /\ walk[e].cursor \in Nat
      /\ walk[e].shown \in SUBSET Id
  BY <1>1 DEF Walk, WalkOver
<1>4. p \in Ptr
  BY <1>3, FirstOfThem
<1>5. p.id \in Id /\ p.seq \in Nat /\ p.thread \in Id
  BY <1>4 DEF Ptr
<1> HIDE DEF p
<1>6. /\ passed \in Walk /\ passed.shown = walk[e].shown
      /\ shown \in Walk /\ shown.shown = walk[e].shown \cup {p.id}
  <2>1. Max({walk[e].cursor, p.seq}) \in Nat
    BY <1>3, <1>5, GreaterOfTwo
  <2>2. QED
    BY <1>1, <1>3, <1>5, <2>1 DEF Walk
<1> HIDE DEF passed, shown
<1>7. /\ walk' \in [Endpoint -> Walk] /\ \A y \in Endpoint : y # e => walk'[y] = walk[y]
      /\ \/ walk'[e].shown = walk[e].shown
         \/ /\ MatchesCanonical(p, Addressees(e))
            /\ walk'[e].shown = walk[e].shown \cup {p.id}
  BY <1>1, <1>2, <1>6
<1>8. MatchesCanonical(p, Addressees(e)) => Messages(p.id) # {}
  <2>1. SUFFICES ASSUME MatchesCanonical(p, Addressees(e))
                 PROVE  Messages(p.id) # {}
    OBVIOUS
  <2>2. p.pos \in 1..Len(log[p.thread]) /\ log[p.thread][p.pos].type = "message"
        /\ log[p.thread][p.pos].id = p.id
    BY <2>1 DEF MatchesCanonical, MessageAt
  <2>3. <<p.thread, p.pos>> \in Places /\ EntryAt(<<p.thread, p.pos>>) = log[p.thread][p.pos]
    BY <1>1, <1>5, <2>2, PlaceType DEF EntryAt
  <2>4. QED
    BY <2>2, <2>3 DEF Messages
<1>9. /\ box' \in [Endpoint -> Mailbox]
      /\ \A y \in Endpoint : box'[y].active \cup box'[y].pending \subseteq box[y].active \cup box[y].pending
  BY <1>1, <1>2 DEF RemovePointer, Mailbox
<1>10. \A y \in Endpoint : Linked(y)
  BY <1>9, NothingLinked
<1>11. TypeOK'
  BY <1>1, <1>7, <1>9 DEF TypeOK
<1>12. \A m \in seen' \cup UNION {walk'[y].shown : y \in Endpoint} :
           m \in seen \cup UNION {walk[y].shown : y \in Endpoint} \/ Messages(m) # {}
  BY <1>1, <1>7, <1>8
<1>13. QED
  BY <1>1, <1>10, <1>11, <1>12, AsideRest

LEMMA PollingStep ==
    ASSUME IInv, NEW e \in Endpoint, PollStep(e)
    PROVE  IInv'
<1>1. TypeOK /\ walk \in [Endpoint -> Walk] /\ ep \in [Endpoint -> Record]
      /\ walk[e] \in Walk /\ ep[e] \in Record
  BY DEF IInv, MailInv, TypeOK
<1>2. CASE PersistCursor(e)
  <2>1. /\ at[e] = "walk" /\ ep' = [ep EXCEPT ![e].polled = Max({@, walk[e].cursor})] /\ Goto(e, "answer")
        /\ UNCHANGED <<log, box, receipt, joining, send, walk, rec, hook, nextId, faults, seen, told>>
    BY <1>2 DEF PersistCursor
  <2>2. PICK n \in Nat : n = Max({ep[e].polled, walk[e].cursor})
    BY <1>1, GreaterOfTwo DEF Record, Walk
  <2>3. ep' = [ep EXCEPT ![e].polled = n]
    BY <2>1, <2>2
  <2>4. ep' \in [Endpoint -> Record]
    BY <1>1, <2>3 DEF Record
  <2>5. /\ at' \in [Endpoint -> {"idle", "ackClean"} \cup Sending \cup Polling]
        /\ at'[e] = "answer" /\ \A y \in Endpoint : y # e => at'[y] = at[y]
    BY <1>1, <2>1, GotoTyped DEF Polling
  <2>6. TypeOK'
    BY <1>1, <2>1, <2>4, <2>5 DEF TypeOK
  <2>7. \A y \in Endpoint : (at'[y] = at[y] /\ send'[y] = send[y]) \/ at'[y] \notin Sending
    BY <2>1, <2>5 DEF Sending, Publishing
  <2>8. QED
    BY <1>1, <2>1, <2>5, <2>6, <2>7, SameLinks, AsideRest
<1>3. CASE AnswerPoll(e)
  <2>1. /\ at[e] = "answer" /\ seen' = seen \cup walk[e].shown /\ walk' = [walk EXCEPT ![e] = NoWalk]
        /\ Return(e) /\ UNCHANGED <<log, box, receipt, ep, joining, rec, hook, nextId, faults, told>>
    BY <1>3 DEF AnswerPoll
  <2>2. /\ walk' \in [Endpoint -> Walk] /\ walk'[e].shown = {}
        /\ \A y \in Endpoint : y # e => walk'[y] = walk[y]
    BY <1>1, <2>1, NothingTyped DEF NoWalk
  <2>3. /\ at' \in [Endpoint -> {"idle", "ackClean"} \cup Sending \cup Polling]
        /\ at'[e] = "idle" /\ \A f \in Endpoint : f # e => at'[f] = at[f]
        /\ send' \in [Endpoint -> Pub] /\ \A f \in Endpoint : f # e => send'[f] = send[f]
    BY <1>1, <2>1, ReturnTyped
  <2>4. seen' \subseteq Id
    BY <1>1, <2>1 DEF TypeOK, Walk
  <2>5. TypeOK'
    BY <1>1, <2>1, <2>2, <2>3, <2>4 DEF TypeOK
  <2>6. \A y \in Endpoint : (at'[y] = at[y] /\ send'[y] = send[y]) \/ at'[y] \notin Sending
    BY <2>3 DEF Sending, Publishing
  <2>7. \A m \in seen' \cup UNION {walk'[y].shown : y \in Endpoint} :
           m \in seen \cup UNION {walk[y].shown : y \in Endpoint}
    BY <2>1, <2>2
  <2>8. QED
    BY <1>1, <2>1, <2>3, <2>5, <2>6, <2>7, SameLinks, AsideRest
<1>4. QED
  BY <1>2, <1>3, WalkPointerStep DEF PollStep
----------------------------------------------------------------------------
(* Acknowledgments and updates of threads. *)

LEMMA StateEntryStep ==
    ASSUME IInv, TypeOK', NEW t \in Threads, NEW m \in Entry, m.key \notin Key, m.type # "message",
           EntryFits(t, m), Appends(t, m), ~ThreadLocked(t),
           UNCHANGED <<box, receipt, nextId, rec, walk, hook, seen>>,
           \A e \in Endpoint : (at'[e] = at[e] /\ send'[e] = send[e]) \/ at'[e] \notin Sending,
           \A e \in Endpoint : at[e] = "reconcile" => at'[e] = "reconcile"
    PROVE  IInv'
<1>1. TypeOK /\ MailInv' /\ t \in Id
  BY StateEntryMail DEF IInv, MailInv, Threads
<1>2. LogGrows
  BY <1>1, AppendedLog DEF LogGrows
<1>3. \A x \in Endpoint : RecInv(x)'
  BY <1>1, <1>2, GrownRec DEF IInv
<1>4. \A y \in Endpoint : BoundInv(y)'
  BY <1>1, NothingLinked, LinkedIsBounded DEF IInv
<1>5. ShownInv'
  BY <1>1, <1>2, GrownShown DEF IInv
<1>6. HopCapHolds'
  <2>1. \A u \in Id : hopCount(u)' = hopCount(u)
    BY <1>1, AppendedHops
  <2>2. \A u \in Id : u # t => log'[u] = log[u]
    BY <1>1, AppendedLog
  <2>3. Threads' \subseteq Threads /\ Threads \subseteq Id
    BY <2>2 DEF Threads
  <2>4. QED
    BY <2>1, <2>3 DEF IInv, HopCapHolds
<1>7. QED
  BY <1>1, <1>3, <1>4, <1>5, <1>6 DEF IInv

LEMMA StateEntryType ==
    ASSUME NEW type \in {"ack", "park", "resolve", "reopen"}, NEW id \in 0..MaxId, NEW e \in Endpoint
    PROVE  LET m == StateEntry(type, id, e)
           IN  /\ m \in Entry /\ m.key \notin Key /\ m.key = None /\ m.type = type /\ m.id = id
               /\ m.by = e
<1>1. StateEntry(type, id, e) = [type |-> type, id |-> id, by |-> e, to |-> None, key |-> None,
                                 hash |-> NoHash]
  BY DEF StateEntry
<1>2. QED
  BY <1>1, NothingTyped DEF Entry

LEMMA AcknowledgeStep ==
    ASSUME IInv, NEW e \in Endpoint, AcknowledgeBusMessage(e)
    PROVE  /\ IInv'
           /\ \E t \in Threads, i \in Nat :
                 /\ MessageAt(t, i) /\ log[t][i].id \in seen \ Acked(t)
                 /\ Appends(t, StateEntry("ack", log[t][i].id, e))
<1>1. /\ TypeOK /\ at[e] = "idle" /\ Goto(e, "ackClean")
      /\ UNCHANGED <<box, receipt, ep, joining, walk, rec, hook, nextId, faults, seen, told>>
  BY DEF AcknowledgeBusMessage, IInv, MailInv
<1>2. PICK t \in Threads : \E i \in 1..Len(log[t]) :
          /\ MessageAt(t, i) /\ log[t][i].id \in seen \ Acked(t) /\ ~ThreadLocked(t)
          /\ log' = [log EXCEPT ![t] = Append(@, StateEntry("ack", log[t][i].id, e))]
          /\ send' = [send EXCEPT ![e] = [NoPub EXCEPT !.thread = t, !.id = log[t][i].id]]
  BY DEF AcknowledgeBusMessage
<1>3. PICK i \in 1..Len(log[t]) :
          /\ MessageAt(t, i) /\ log[t][i].id \in seen \ Acked(t) /\ ~ThreadLocked(t)
          /\ log' = [log EXCEPT ![t] = Append(@, StateEntry("ack", log[t][i].id, e))]
          /\ send' = [send EXCEPT ![e] = [NoPub EXCEPT !.thread = t, !.id = log[t][i].id]]
  BY <1>2
<1>4. PICK id : id = log[t][i].id
  OBVIOUS
<1>5. t \in Id /\ id \in Id /\ id \in 0..MaxId /\ t \in 0..MaxId /\ i \in Nat
  BY <1>1, <1>3, <1>4 DEF Threads, TypeOK, Id
<1> DEFINE m == StateEntry("ack", id, e)
<1>6. m \in Entry /\ m.key \notin Key /\ m.key = None /\ m.type = "ack" /\ m.id = id
  BY <1>5, StateEntryType
<1> HIDE DEF m
<1>7. Appends(t, m)
  BY <1>3, <1>4 DEF Appends, m
<1>8. EntryFits(t, m)
  BY <1>3, <1>4, <1>6 DEF EntryFits, Threads
<1>9. [NoPub EXCEPT !.thread = t, !.id = id] \in Pub
  BY <1>5, NothingTyped DEF Pub
<1>10. send' \in [Endpoint -> Pub] /\ \A f \in Endpoint : f # e => send'[f] = send[f]
  <2>1. send' = [send EXCEPT ![e] = [NoPub EXCEPT !.thread = t, !.id = id]]
    BY <1>3, <1>4
  <2>2. QED
    BY <1>1, <1>9, <2>1 DEF TypeOK
<1>11. /\ at' \in [Endpoint -> {"idle", "ackClean"} \cup Sending \cup Polling]
       /\ at'[e] = "ackClean" /\ \A f \in Endpoint : f # e => at'[f] = at[f]
  BY <1>1, GotoTyped
<1>12. log' \in [Id -> Seq(Entry)]
  BY <1>1, <1>5, <1>6, <1>7, AppendedLog
<1>13. TypeOK'
  BY <1>1, <1>10, <1>11, <1>12 DEF TypeOK
<1>14. \A f \in Endpoint : (at'[f] = at[f] /\ send'[f] = send[f]) \/ at'[f] \notin Sending
  BY <1>10, <1>11 DEF Sending, Publishing
<1>15. IInv'
  BY <1>1, <1>3, <1>6, <1>7, <1>8, <1>11, <1>13, <1>14, StateEntryStep
<1>16. QED
  BY <1>3, <1>4, <1>5, <1>7, <1>15 DEF m

LEMMA UpdateStep ==
    ASSUME IInv, NEW e \in Endpoint, UpdateBusThread(e)
    PROVE  /\ IInv'
           /\ \E t \in Threads, action \in {"park", "resolve", "reopen"} :
                 Appends(t, StateEntry(action, 0, e))
<1>1. /\ TypeOK
      /\ UNCHANGED <<box, receipt, ep, joining, at, send, walk, rec, hook, nextId, faults, seen, told>>
  BY DEF UpdateBusThread, IInv, MailInv
<1>2. PICK t \in Threads, action \in Updates :
          ~ThreadLocked(t) /\ log' = [log EXCEPT ![t] = Append(@, StateEntry(action, 0, e))]
  BY DEF UpdateBusThread
<1>3. action \in {"park", "resolve", "reopen"} /\ 0 \in 0..MaxId /\ t \in Id
  BY MailboxAssumption DEF Threads
<1> DEFINE m == StateEntry(action, 0, e)
<1>4. m \in Entry /\ m.key \notin Key /\ m.key = None /\ m.type = action /\ m.id = 0
  BY <1>3, StateEntryType
<1> HIDE DEF m
<1>5. Appends(t, m)
  BY <1>2 DEF Appends, m
<1>6. EntryFits(t, m)
  BY <1>3, <1>4 DEF EntryFits, Threads
<1>7. log' \in [Id -> Seq(Entry)]
  BY <1>1, <1>3, <1>4, <1>5, AppendedLog
<1>8. TypeOK'
  BY <1>1, <1>7 DEF TypeOK
<1>9. m.type # "message"
  BY <1>3, <1>4
<1>10. QED
  BY <1>1, <1>2, <1>3, <1>4, <1>5, <1>6, <1>8, <1>9, StateEntryStep DEF m

LEMMA AckCleanStep ==
    ASSUME IInv, NEW e \in Endpoint, AckClean(e)
    PROVE  IInv'
<1> DEFINE mine == {p \in Listing(box[e].active, box[e].pending) : p.id = send[e].id}
<1>1. /\ TypeOK /\ at[e] = "ackClean" /\ box \in [Endpoint -> Mailbox] /\ Return(e)
      /\ box' = [box EXCEPT ![e].active = @ \ mine, ![e].pending = @ \ mine]
      /\ UNCHANGED <<log, receipt, ep, joining, walk, rec, hook, nextId, faults, seen, told>>
  BY DEF AckClean, IInv, MailInv, TypeOK
<1> HIDE DEF mine
<1>2. /\ box' \in [Endpoint -> Mailbox]
      /\ \A y \in Endpoint : box'[y].active \cup box'[y].pending \subseteq box[y].active \cup box[y].pending
  BY <1>1 DEF Mailbox
<1>3. /\ at' \in [Endpoint -> {"idle", "ackClean"} \cup Sending \cup Polling]
      /\ at'[e] = "idle" /\ \A f \in Endpoint : f # e => at'[f] = at[f]
      /\ send' \in [Endpoint -> Pub] /\ \A f \in Endpoint : f # e => send'[f] = send[f]
  BY <1>1, ReturnTyped
<1>4. TypeOK'
  BY <1>1, <1>2, <1>3 DEF TypeOK
<1>5. \A f \in Endpoint : (at'[f] = at[f] /\ send'[f] = send[f]) \/ at'[f] \notin Sending
  BY <1>3 DEF Sending, Publishing
<1>6. \A y \in Endpoint : Linked(y)
  BY <1>2, NothingLinked
<1>7. QED
  BY <1>1, <1>3, <1>4, <1>5, <1>6, AsideRest
----------------------------------------------------------------------------
(* Prompts, replacements and failures. *)

LEMMA HookStep ==
    ASSUME IInv, NEW e \in Endpoint, ReadPendingCursor(e) \/ ClaimPendingDelivery(e)
    PROVE  IInv'
<1>1. TypeOK /\ hook \in [Endpoint -> SUBSET Ptr] /\ ep \in [Endpoint -> Record]
      /\ hook[e] \in SUBSET Ptr /\ ep[e] \in Record /\ box[e] \in Mailbox /\ BoundInv(e)
  BY DEF IInv, MailInv, TypeOK
<1>2. CASE ReadPendingCursor(e)
  <2>1. /\ hook' = [hook EXCEPT ![e] = Counted(e)]
        /\ UNCHANGED <<log, box, receipt, ep, joining, at, send, walk, rec, nextId, faults, seen, told>>
    BY <1>2 DEF ReadPendingCursor
  <2>2. Counted(e) \subseteq box[e].active \cup box[e].pending /\ Counted(e) \in SUBSET Ptr
    BY <1>1 DEF Counted, Listing, Mailbox
  <2>3. hook' \in [Endpoint -> SUBSET Ptr] /\ hook'[e] = Counted(e)
        /\ \A y \in Endpoint : y # e => hook'[y] = hook[y]
    BY <1>1, <2>1, <2>2
  <2>4. TypeOK'
    BY <1>1, <2>1, <2>3 DEF TypeOK
  <2>5. QED
    BY <1>1, <2>1, <2>2, <2>3, <2>4, SameLinks, AsideRest
<1>3. CASE ClaimPendingDelivery(e)
  <2>1. /\ hook' = [hook EXCEPT ![e] = {}] /\ hook[e] # {}
        /\ \/ ep' = [ep EXCEPT ![e].blocked = Cursor(hook[e])] /\ told' = told \cup Ids(hook[e])
           \/ UNCHANGED <<ep, told>>
        /\ UNCHANGED <<log, box, receipt, joining, at, send, walk, rec, nextId, faults, seen>>
    BY <1>3 DEF ClaimPendingDelivery
  <2>2. PICK b \in Nat : \A p \in hook[e] : p.seq <= b
    BY <1>1 DEF BoundInv, Bounded
  <2>3. Cursor(hook[e]) \in Nat
    <3> DEFINE S == {0} \cup {p.seq : p \in hook[e]}
    <3>1. S \in SUBSET Nat /\ S # {} /\ \A n \in S : n <= b
      BY <1>1, <2>2 DEF Ptr
    <3> HIDE DEF S
    <3>2. Max(S) \in S
      BY <2>2, <3>1, GreatestNumber
    <3>3. QED
      BY <3>1, <3>2 DEF Cursor, S
  <2>4. ep' \in [Endpoint -> Record] /\ told' \subseteq Id
    <3>1. Ids(hook[e]) \subseteq Id /\ told \subseteq Id
      BY <1>1 DEF Ids, Ptr, TypeOK
    <3>2. CASE UNCHANGED <<ep, told>>
      BY <1>1, <3>1, <3>2
    <3>3. CASE ep' = [ep EXCEPT ![e].blocked = Cursor(hook[e])] /\ told' = told \cup Ids(hook[e])
      BY <1>1, <2>3, <3>1, <3>3 DEF Record
    <3>4. QED
      BY <2>1, <3>2, <3>3
  <2>5. hook' \in [Endpoint -> SUBSET Ptr] /\ hook'[e] = {}
        /\ \A y \in Endpoint : y # e => hook'[y] = hook[y]
    BY <1>1, <2>1
  <2>6. TypeOK'
    BY <1>1, <2>1, <2>4, <2>5 DEF TypeOK
  <2>7. QED
    BY <1>1, <2>1, <2>5, <2>6, SameLinks, AsideRest
<1>4. QED
  BY <1>2, <1>3

LEMMA JoinStep ==
    ASSUME IInv,
           \/ \E new, old \in Endpoint : RetireIncumbent(new, old)
           \/ CreateSuccessor \/ JoinFails
    PROVE  IInv'
<1>1. TypeOK /\ ep \in [Endpoint -> Record] /\ joining \in [new : Endpoint, old : Endpoint] \cup {None}
      /\ MaxFaults \in Nat
  BY MailboxAssumption DEF IInv, MailInv, TypeOK
<1>2. UNCHANGED <<log, box, receipt, at, send, walk, rec, hook, nextId, seen, told>>
  BY DEF RetireIncumbent, CreateSuccessor, JoinFails
<1>3. ep' \in [Endpoint -> Record] /\ joining' \in [new : Endpoint, old : Endpoint] \cup {None}
      /\ faults' \in 0..MaxFaults
  <2>1. CASE \E new, old \in Endpoint : RetireIncumbent(new, old)
    <3>1. PICK new \in Endpoint, old \in Endpoint : RetireIncumbent(new, old)
      BY <2>1
    <3>2. ep' = [ep EXCEPT ![old].status = "retired"] /\ joining' = [new |-> new, old |-> old]
          /\ faults' = faults
      BY <3>1 DEF RetireIncumbent
    <3>3. ep' \in [Endpoint -> Record]
      BY <1>1, <3>2 DEF Record
    <3>4. QED
      BY <3>2, <3>3, <1>1 DEF TypeOK
  <2>2. CASE CreateSuccessor
    <3>1. PICK n \in Endpoint, o \in Endpoint : n = joining.new /\ o = joining.old
      BY <1>1, <2>2 DEF CreateSuccessor
    <3>2. ep' = [ep EXCEPT ![n] = [@ EXCEPT !.status = "active", !.pred = o]]
          /\ joining' = None /\ faults' = faults
      BY <2>2, <3>1 DEF CreateSuccessor
    <3>3. QED
      BY <1>1, <3>2 DEF Record, TypeOK
  <2>3. CASE JoinFails
    BY <1>1, <2>3 DEF JoinFails, Fail, TypeOK
  <2>4. QED
    BY <2>1, <2>2, <2>3
<1>4. TypeOK'
  BY <1>1, <1>2, <1>3 DEF TypeOK
<1>5. QED
  BY <1>1, <1>2, <1>4, SameLinks, AsideRest

LEMMA FailureStep ==
    ASSUME IInv, NEW e \in Endpoint, CallFails(e) \/ LoseCounter(e)
    PROVE  IInv'
<1>1. /\ TypeOK /\ walk \in [Endpoint -> Walk] /\ rec \in [Endpoint -> Rec]
      /\ box \in [Endpoint -> Mailbox] /\ faults \in 0..MaxFaults /\ MaxFaults \in Nat
  BY MailboxAssumption DEF IInv, MailInv, TypeOK
<1>2. faults' \in 0..MaxFaults
  BY <1>1 DEF CallFails, LoseCounter, Fail
<1>3. CASE CallFails(e)
  <2>1. /\ Return(e) /\ walk' = [walk EXCEPT ![e] = NoWalk]
        /\ rec' = [rec EXCEPT ![e] = IF at[e] = "reconcile" THEN NoRec ELSE @]
        /\ UNCHANGED <<log, box, receipt, ep, joining, hook, nextId, seen, told>>
    BY <1>3 DEF CallFails
  <2>2. /\ walk' \in [Endpoint -> Walk] /\ walk'[e].shown = {}
        /\ \A y \in Endpoint : y # e => walk'[y] = walk[y]
    BY <1>1, <2>1, NothingTyped DEF NoWalk
  <2>3. /\ rec' \in [Endpoint -> Rec] /\ rec'[e] = (IF at[e] = "reconcile" THEN NoRec ELSE rec[e])
        /\ \A y \in Endpoint : y # e => rec'[y] = rec[y]
    BY <1>1, <2>1, NothingTyped
  <2>4. /\ at' \in [Endpoint -> {"idle", "ackClean"} \cup Sending \cup Polling]
        /\ at'[e] = "idle" /\ \A f \in Endpoint : f # e => at'[f] = at[f]
        /\ send' \in [Endpoint -> Pub] /\ \A f \in Endpoint : f # e => send'[f] = send[f]
    BY <1>1, <2>1, ReturnTyped
  <2>5. TypeOK'
    BY <1>1, <1>2, <2>1, <2>2, <2>3, <2>4 DEF TypeOK
  <2>6. \A y \in Endpoint : RecInv(y)'
    <3>1. ASSUME NEW y \in Endpoint, rec'[y] = rec[y], at[y] # "reconcile" \/ y # e
          PROVE  RecInv(y)'
      BY <1>1, <2>1, <2>4, <2>5, <3>1, SameLogGrows, GrownRec DEF IInv
    <3>2. at[e] = "reconcile" => RecInv(e)'
      BY <2>3 DEF RecInv, RecFits, NoRec
    <3>3. QED
      BY <2>3, <3>1, <3>2
  <2>7. \A f \in Endpoint : (at'[f] = at[f] /\ send'[f] = send[f]) \/ at'[f] \notin Sending
    BY <2>4 DEF Sending, Publishing
  <2>8. \A m \in seen' \cup UNION {walk'[y].shown : y \in Endpoint} :
           m \in seen \cup UNION {walk[y].shown : y \in Endpoint}
    BY <2>1, <2>2
  <2>9. QED
    BY <1>1, <2>1, <2>5, <2>6, <2>7, <2>8, SameLinks, QuietRest
<1>4. CASE LoseCounter(e)
  <2>1. /\ box' = [box EXCEPT ![e].next = 1]
        /\ UNCHANGED <<log, receipt, ep, joining, at, send, walk, rec, hook, nextId, seen, told>>
    BY <1>4 DEF LoseCounter
  <2>2. /\ box' \in [Endpoint -> Mailbox]
        /\ \A y \in Endpoint : box'[y].active = box[y].active /\ box'[y].pending = box[y].pending
    BY <1>1, <2>1 DEF Mailbox
  <2>3. TypeOK'
    BY <1>1, <1>2, <2>1, <2>2 DEF TypeOK
  <2>4. \A y \in Endpoint : Linked(y)
    BY <2>2, NothingLinked
  <2>5. QED
    BY <2>1, <2>3, <2>4, AsideRest
<1>5. QED
  BY <1>3, <1>4
----------------------------------------------------------------------------
(* The invariant. *)

LEMMA InitInv == Init => IInv
<1> SUFFICES ASSUME Init
             PROVE  IInv
  OBVIOUS
<1>1. /\ log = [t \in Id |-> <<>>] /\ \A e \in Endpoint : at[e] = "idle"
      /\ \A e \in Endpoint, k \in Key : receipt[e][k] = NoReceipt
      /\ \A e \in Endpoint : rec[e] = NoRec /\ walk[e] = NoWalk /\ hook[e] = {}
      /\ \A e \in Endpoint : box[e].active = {} /\ box[e].pending = {}
      /\ seen = {} /\ MaxId \in Nat /\ MaxFaults \in Nat
  BY MailboxAssumption DEF Init
<1>2. TypeOK
  <2>1. log \in [Id -> Seq(Entry)] /\ at \in [Endpoint -> {"idle"}]
    BY <1>1 DEF Init
  <2>2. at \in [Endpoint -> {"idle", "ackClean"} \cup Sending \cup Polling]
    BY <2>1
  <2>3. box \in [Endpoint -> Mailbox]
    BY DEF Init, Mailbox
  <2>4. receipt \in [Endpoint -> [Key -> Receipt]] /\ send \in [Endpoint -> Pub]
        /\ walk \in [Endpoint -> Walk] /\ rec \in [Endpoint -> Rec]
    BY NothingTyped DEF Init
  <2>5. ep \in [Endpoint -> Record]
    BY DEF Init, Record
  <2>6. hook \in [Endpoint -> SUBSET Ptr] /\ nextId \in 1..(MaxId + 1) /\ faults \in 0..MaxFaults
        /\ seen \subseteq Id /\ told \subseteq Id /\ joining = None
    BY <1>1 DEF Init
  <2>7. QED
    BY <2>1, <2>2, <2>3, <2>4, <2>5, <2>6 DEF TypeOK
<1>3. \A t \in Id : Len(log[t]) = 0 /\ log[t] = <<>> /\ t \notin Threads
  BY <1>1 DEF Threads
<1>4. Places = {}
  BY <1>2, <1>3, PlaceType
<1>5. \A e, k : Keyed(e, k) = {}
  BY <1>4 DEF Keyed
<1>6. \A t \in Id : EntryInv(t)
  BY <1>3 DEF EntryInv
<1>7. \A e \in Endpoint, k \in Key : ReceiptInv(e, k)
  BY <1>1, <1>5 DEF ReceiptInv, NoReceipt
<1>8. \A e \in Endpoint : at[e] \notin Sending /\ at[e] \notin Publishing
  BY <1>1 DEF Sending, Publishing
<1>9. \A e \in Endpoint : CallInv(e)
  BY <1>1 DEF CallInv, AskedOf, WrittenOf, ReceiptOf, PublicationOf, Sending, Publishing, Before,
              After, Numbered, Retries, Repeats, Delivers, Parks
<1>10. IdInv /\ \A e, f \in Endpoint : Apart(e, f)
  BY <1>1, <1>8 DEF IdInv, Owned, Apart, NoReceipt
<1>11. \A x \in Endpoint : RecInv(x)
  BY <1>1 DEF RecInv, RecFits, NoRec
<1>12. \A x \in Endpoint : BoundInv(x)
  <2>1. Bounded({}) /\ {} \cup {} = {}
    BY 0 \in Nat DEF Bounded
  <2>2. QED
    BY <1>1, <2>1 DEF BoundInv
<1>13. ShownInv
  BY <1>1 DEF ShownInv, NoWalk
<1>14. HopCapHolds
  BY <1>3 DEF HopCapHolds, Threads
<1>15. QED
  BY <1>2, <1>6, <1>7, <1>9, <1>10, <1>11, <1>12, <1>13, <1>14 DEF IInv, MailInv

LEMMA StepInv == IInv /\ [Next]_vars => IInv'
<1> SUFFICES ASSUME IInv, [Next]_vars
             PROVE  IInv'
  OBVIOUS
<1>1. ASSUME NEW e \in Endpoint, SendBusMessage(e) \/ SendStep(e)
      PROVE  IInv'
  BY <1>1, SenderStep
<1>2. ASSUME NEW e \in Endpoint, StartPoll(e) \/ ReconcileStep(e) \/ PollStep(e)
      PROVE  IInv'
  BY <1>2, StartPollStep, ReconciliationStep, PollingStep
<1>3. ASSUME NEW e \in Endpoint, MaterializeSuccessorMailbox(e) \/ SetupFails(e)
      PROVE  IInv'
  BY <1>3, SetupStep
<1>4. ASSUME NEW e \in Endpoint, AcknowledgeBusMessage(e) \/ AckClean(e) \/ UpdateBusThread(e)
      PROVE  IInv'
  BY <1>4, AcknowledgeStep, AckCleanStep, UpdateStep
<1>5. ASSUME NEW e \in Endpoint, ReadPendingCursor(e) \/ ClaimPendingDelivery(e)
      PROVE  IInv'
  BY <1>5, HookStep
<1>6. ASSUME NEW e \in Endpoint, CallFails(e) \/ LoseCounter(e)
      PROVE  IInv'
  BY <1>6, FailureStep
<1>7. CASE \/ \E new, old \in Endpoint : RetireIncumbent(new, old)
           \/ CreateSuccessor \/ JoinFails
  BY <1>7, JoinStep
<1>8. CASE UNCHANGED vars
  <2>1. TypeOK
    BY DEF IInv, MailInv
  <2>2. TypeOK'
    BY <1>8, <2>1 DEF vars, TypeOK
  <2>3. QED
    BY <1>8, <2>1, <2>2, SameLinks, AsideRest DEF vars
<1>9. QED
  BY <1>1, <1>2, <1>3, <1>4, <1>5, <1>6, <1>7, <1>8 DEF Next

LEMMA Invariance == Spec => []IInv
BY InitInv, StepInv, PTL DEF Spec

\* Every variable keeps its type: all that the calls write to the files and
\* keep between two of their steps is of the shape that the code's schemas
\* and locals give it.
THEOREM TypeCorrect == Spec => []TypeOK
<1>1. IInv => TypeOK
  BY DEF IInv, MailInv
<1>2. QED
  BY <1>1, Invariance, PTL

\* A send that is retried is answered from its receipt alone once that is
\* final: whatever died on the way, the entry that it stands for is in the
\* log, under the thread, id and contents that were asked for.
THEOREM ReceiptsAreTrue == Spec => []FinalReceiptIsCommitted
<1>1. IInv => FinalReceiptIsCommitted
  BY DEF IInv, MailInv, ReceiptInv, FinalReceiptIsCommitted
<1>2. QED
  BY <1>1, Invariance, PTL

\* The number under which a publication creates its entry file, taken before
\* receipt and pointer are written, is still the next one of the thread then:
\* an exclusive create never meets a file that another writer left.
THEOREM NumbersStayFree == Spec => []NumberStaysFree
<1>1. IInv => NumberStaysFree
  BY DEF IInv, MailInv, CallInv, PublicationOf, Numbered, NumberStaysFree
<1>2. QED
  BY <1>1, Invariance, PTL

\* However many senders reply, retry and fail at once, a thread never holds
\* more actionable messages than the configured hop cap.
THEOREM HopsAreCapped == Spec => []HopCapHolds
<1>1. IInv => HopCapHolds
  BY DEF IInv
<1>2. QED
  BY <1>1, Invariance, PTL
----------------------------------------------------------------------------
(* To the agents the bus is BusService. *)

SentOf   == [e \in Endpoint |-> [k \in Key |-> Count(e, k, "message")]]
ParkedOf == [e \in Endpoint |-> [k \in Key |-> Count(e, k, "park")]]
AckedIds == UNION {Acked(t) : t \in Threads}
ShownOf  == Named(seen)
DoneOf   == Named(AckedIds)
Granted  == Service!ServiceNext \/ UNCHANGED <<SentOf, ParkedOf, ShownOf, DoneOf>>

\* Whose message an entry is.
LEMMA MessageIsKeyed ==
    ASSUME MailInv, NEW q \in Places, EntryAt(q).type = "message"
    PROVE  LET m == EntryAt(q)
           IN  /\ m.by \in Endpoint /\ m.key \in Key /\ m.id \in Id
               /\ q \in Keyed(m.by, m.key) /\ Owned(m.by, m.key, m.id)
<1>1. TypeOK
  BY DEF MailInv
<1>2. PICK t \in Id : \E i \in 1..Len(log[t]) : q = <<t, i>> /\ EntryAt(q) = log[t][i]
  <2>1. q[1] \in Id /\ q[2] \in 1..Len(log[q[1]]) /\ q = <<q[1], q[2]>>
    BY <1>1, PlaceType
  <2>2. QED
    BY <2>1 DEF EntryAt
<1>3. EntryAt(q) \in Entry
  BY <1>1, PlaceType
<1>4. EntryAt(q).key \in Key /\ EntryAt(q).id \in Id
  BY <1>2 DEF MailInv, EntryInv
<1>5. EntryAt(q).by \in Endpoint
  BY <1>3 DEF Entry
<1>6. q \in Keyed(EntryAt(q).by, EntryAt(q).key)
  BY DEF Keyed
<1>7. Owned(EntryAt(q).by, EntryAt(q).key, EntryAt(q).id)
  BY <1>4, <1>5, <1>6 DEF MailInv, ReceiptInv, Owned
<1>8. QED
  BY <1>4, <1>5, <1>6, <1>7

\* An id is one message's.
LEMMA OneMessage ==
    ASSUME MailInv, NEW q \in Places, NEW r \in Places, EntryAt(q).type = "message",
           EntryAt(r).type = "message",
           \/ EntryAt(q).id = EntryAt(r).id
           \/ EntryAt(q).by = EntryAt(r).by /\ EntryAt(q).key = EntryAt(r).key
    PROVE  q = r
<1> DEFINE m == EntryAt(q)
           n == EntryAt(r)
<1>1. /\ m.by \in Endpoint /\ m.key \in Key /\ q \in Keyed(m.by, m.key) /\ Owned(m.by, m.key, m.id)
      /\ n.by \in Endpoint /\ n.key \in Key /\ r \in Keyed(n.by, n.key) /\ Owned(n.by, n.key, n.id)
  BY MessageIsKeyed
<1>2. m.by = n.by /\ m.key = n.key
  <2>1. CASE m.id = n.id
    <3>1. /\ receipt[m.by][m.key].state # "none" /\ receipt[m.by][m.key].id = m.id
          /\ Owned(n.by, n.key, receipt[m.by][m.key].id)
      BY <1>1, <2>1 DEF Owned
    <3> HIDE DEF m, n
    <3>2. QED
      BY <1>1, <3>1 DEF MailInv, IdInv
  <2>2. QED
    BY <2>1
<1>3. ReceiptInv(m.by, m.key)
  BY <1>1 DEF MailInv
<1> HIDE DEF m, n
<1>4. QED
  BY <1>1, <1>2, <1>3 DEF ReceiptInv

\* A key counts once.
LEMMA CountOfKey ==
    ASSUME MailInv, NEW e \in Endpoint, NEW k \in Key, NEW type
    PROVE  Count(e, k, type) = IF \E q \in Keyed(e, k) : EntryAt(q).type = type THEN 1 ELSE 0
<1> DEFINE S == {q \in Keyed(e, k) : EntryAt(q).type = type}
<1>1. Count(e, k, type) = Cardinality(S)
  BY DEF Count
<1>2. CASE \E q \in Keyed(e, k) : EntryAt(q).type = type
  <2>1. PICK q \in Keyed(e, k) : EntryAt(q).type = type
    BY <1>2
  <2>2. S = {q}
    BY <2>1 DEF MailInv, ReceiptInv
  <2>3. QED
    BY <1>1, <1>2, <2>2, FS_Singleton
<1>3. CASE ~\E q \in Keyed(e, k) : EntryAt(q).type = type
  <2>1. S = {}
    BY <1>3
  <2>2. QED
    BY <1>1, <1>3, <2>1, FS_EmptySet
<1>4. QED
  BY <1>2, <1>3

\* A step that writes no entry and shows none says nothing to the agents.
LEMMA SameService ==
    ASSUME UNCHANGED <<log, seen>>
    PROVE  Granted
<1>1. Places' = Places /\ \A q : EntryAt(q)' = EntryAt(q)
  BY DEF Places, EntryAt
<1>2. SentOf' = SentOf /\ ParkedOf' = ParkedOf
  BY <1>1 DEF SentOf, ParkedOf, Count, Keyed
<1>3. AckedIds' = AckedIds
  BY DEF AckedIds, Acked, Threads
<1>4. ShownOf' = ShownOf /\ DoneOf' = DoneOf
  BY <1>1, <1>3 DEF ShownOf, DoneOf, Named
<1>5. QED
  BY <1>2, <1>4 DEF Granted

\* An entry that is not a message takes nothing from what is shown.
LEMMA AppendedNames ==
    ASSUME TypeOK, NEW t \in Id, NEW m \in Entry, Appends(t, m), NEW S, NEW T,
           m.type = "message" => m.id \notin T, S = T
    PROVE  {<<EntryAt(q)'.by, EntryAt(q)'.key>> :
               q \in {r \in Places' : EntryAt(r)'.type = "message" /\ EntryAt(r)'.id \in S}} = Named(T)
<1>1. PICK n : n = Len(log[t]) + 1
  OBVIOUS
<1>2. /\ Places' = Places \cup {<<t, n>>} /\ <<t, n>> \notin Places /\ EntryAt(<<t, n>>)' = m
      /\ \A q \in Places : EntryAt(q)' = EntryAt(q)
  BY <1>1, AppendedPlaces
<1>3. {r \in Places' : EntryAt(r)'.type = "message" /\ EntryAt(r)'.id \in S}
        = {r \in Places : EntryAt(r).type = "message" /\ EntryAt(r).id \in T}
  BY <1>2
<1>4. QED
  BY <1>2, <1>3 DEF Named

\* Which acknowledgments there are.
LEMMA AppendedAcks ==
    ASSUME TypeOK, NEW t \in Id, NEW m \in Entry, Appends(t, m)
    PROVE  AckedIds' = AckedIds \cup (IF m.type = "ack" THEN {m.id} ELSE {})
<1> DEFINE n == Len(log[t]) + 1
           more == IF m.type = "ack" THEN {m.id} ELSE {}
<1>1. /\ log' \in [Id -> Seq(Entry)] /\ Len(log[t]) \in Nat /\ Len(log'[t]) = n /\ log'[t][n] = m
      /\ \A i \in 1..Len(log[t]) : i \in 1..Len(log'[t]) /\ log'[t][i] = log[t][i]
      /\ \A u \in Id : u # t => log'[u] = log[u]
  BY AppendedLog
<1>2. \A u \in Id : u # t => Acked(u)' = Acked(u)
  BY <1>1 DEF Acked
<1>3. Acked(t)' = Acked(t) \cup more
  <2>1. \A i \in 1..Len(log'[t]) : i = n \/ i \in 1..Len(log[t])
    BY <1>1
  <2>2. n \in 1..Len(log'[t])
    BY <1>1
  <2>3. Acked(t)' = {log'[t][i].id : i \in {j \in 1..Len(log'[t]) : log'[t][j].type = "ack"}}
    BY DEF Acked
  <2>4. \A a \in Acked(t)' : a \in Acked(t) \cup more
    <3> TAKE a \in Acked(t)'
    <3>1. PICK i \in 1..Len(log'[t]) : log'[t][i].type = "ack" /\ a = log'[t][i].id
      BY <2>3
    <3>2. QED
      BY <1>1, <2>1, <3>1 DEF Acked
  <2>5. \A a \in Acked(t) : a \in Acked(t)'
    <3> TAKE a \in Acked(t)
    <3>1. PICK i \in 1..Len(log[t]) : log[t][i].type = "ack" /\ a = log[t][i].id
      BY DEF Acked
    <3>2. i \in 1..Len(log'[t]) /\ log'[t][i].type = "ack" /\ a = log'[t][i].id
      BY <1>1, <3>1
    <3>3. QED
      BY <2>3, <3>2
  <2>6. \A a \in more : a \in Acked(t)'
    BY <1>1, <2>2, <2>3
  <2> HIDE DEF more
  <2>7. QED
    BY <2>4, <2>5, <2>6
<1>4. Threads' = Threads \cup {t} /\ Threads \subseteq Id
  <2>1. log'[t] # <<>>
    BY <1>1
  <2>2. QED
    BY <1>1, <2>1 DEF Threads
<1>5. t \notin Threads => Acked(t) = {}
  <2>1. t \notin Threads => Len(log[t]) = 0
    BY DEF Threads
  <2>2. QED
    BY <2>1 DEF Acked
<1> HIDE DEF more
<1>6. \A a : a \in AckedIds' <=> \E u \in Threads' : a \in Acked(u)'
  BY DEF AckedIds
<1>7. \A a : a \in AckedIds <=> \E u \in Threads : a \in Acked(u)
  BY DEF AckedIds
<1>8. ASSUME NEW a
      PROVE  a \in AckedIds' <=> a \in AckedIds \cup more
  <2>1. (\E u \in Threads' : a \in Acked(u)') <=> (\E u \in Threads : a \in Acked(u)) \/ a \in more
    BY <1>2, <1>3, <1>4, <1>5
  <2>2. QED
    BY <1>6, <1>7, <2>1
<1>9. AckedIds' = AckedIds \cup more
  BY <1>8
<1>10. QED
  BY <1>9 DEF more

\* What is acknowledged was sent.
LEMMA AckedAreThere ==
    ASSUME MailInv, NEW a \in AckedIds
    PROVE  \E t \in Threads, i \in Nat : /\ MessageAt(t, i) /\ log[t][i].id = a /\ a \in Acked(t)
                                         /\ <<t, i>> \in Places /\ EntryAt(<<t, i>>) = log[t][i]
                                         /\ EntryAt(<<t, i>>).type = "message"
<1>1. PICK t \in Threads : a \in Acked(t)
  BY DEF AckedIds
<1>2. PICK i \in 1..Len(log[t]) : log[t][i].type = "ack" /\ log[t][i].id = a
  BY <1>1 DEF Acked
<1>3. t \in Id /\ EntryInv(t) /\ TypeOK
  BY DEF Threads, MailInv
<1>4. PICK j \in 1..Len(log[t]) : MessageAt(t, j) /\ log[t][j].id = a
  BY <1>2, <1>3 DEF EntryInv
<1>5. <<t, j>> \in Places /\ EntryAt(<<t, j>>) = log[t][j] /\ j \in Nat /\ log[t][j].type = "message"
  BY <1>3, <1>4, PlaceType DEF EntryAt, MessageAt, TypeOK
<1>6. QED
  BY <1>1, <1>4, <1>5

\* What a poll shows was sent.
LEMMA ShownAreSent ==
    ASSUME IInv, NEW e \in Endpoint, AnswerPoll(e)
    PROVE  Granted
<1>1. /\ UNCHANGED log /\ seen' = seen \cup walk[e].shown /\ MailInv
  BY DEF AnswerPoll, IInv
<1>2. Places' = Places /\ \A q : EntryAt(q)' = EntryAt(q)
  BY <1>1 DEF Places, EntryAt
<1>3. SentOf' = SentOf /\ ParkedOf' = ParkedOf
  BY <1>2 DEF SentOf, ParkedOf, Count, Keyed
<1>4. AckedIds' = AckedIds
  BY <1>1 DEF AckedIds, Acked, Threads
<1>5. DoneOf' = DoneOf
  BY <1>2, <1>4 DEF DoneOf, Named
<1> DEFINE more == Named(walk[e].shown)
<1>6. ShownOf' = ShownOf \cup more
  <2>1. ShownOf' = {<<EntryAt(q).by, EntryAt(q).key>> :
                      q \in {r \in Places : EntryAt(r).type = "message" /\ EntryAt(r).id \in seen'}}
    BY <1>2 DEF ShownOf, Named
  <2>2. QED
    BY <1>1, <2>1 DEF ShownOf, Named
<1>7. \A n \in more : n \in Service!Name /\ Service!Sent(n)
  <2> TAKE n \in more
  <2>1. PICK q \in Places : EntryAt(q).type = "message" /\ n = <<EntryAt(q).by, EntryAt(q).key>>
    BY DEF Named
  <2>2. /\ EntryAt(q).by \in Endpoint /\ EntryAt(q).key \in Key
        /\ q \in Keyed(EntryAt(q).by, EntryAt(q).key)
    BY <1>1, <2>1, MessageIsKeyed
  <2>3. PICK f \in Endpoint, k \in Key : f = EntryAt(q).by /\ k = EntryAt(q).key
    BY <2>2
  <2>4. Count(f, k, "message") = 1
    BY <1>1, <2>1, <2>2, <2>3, CountOfKey
  <2>5. n[1] = f /\ n[2] = k /\ n \in Endpoint \X Key
    BY <2>1, <2>3
  <2>6. QED
    BY <2>4, <2>5 DEF Service!Name, Service!Sent
<1> HIDE DEF more
<1>8. more \in SUBSET {n \in Service!Name : Service!Sent(n)}
  BY <1>7
<1>9. Service!Show
  BY <1>3, <1>5, <1>6, <1>8 DEF Service!Show, SentOf, ParkedOf, ShownOf, DoneOf, AckedIds
<1>10. QED
  BY <1>9 DEF Granted, Service!ServiceNext

\* What a key counts, after an entry of another key or of none.
LEMMA AppendedCounts ==
    ASSUME TypeOK, NEW t \in Id, NEW m \in Entry, Appends(t, m), NEW e, NEW k, NEW type,
           ~(m.type \in {"message", "park"} /\ m.by = e /\ m.key = k)
    PROVE  Count(e, k, type)' = Count(e, k, type)
<1>1. PICK n : n = Len(log[t]) + 1
  OBVIOUS
<1>2. Keyed(e, k)' = Keyed(e, k)
  BY <1>1, AppendedKeyed
<1>3. \A q \in Keyed(e, k) : EntryAt(q)' = EntryAt(q)
  BY <1>1, AppendedPlaces DEF Keyed
<1>4. {q \in Keyed(e, k)' : EntryAt(q)'.type = type} = {q \in Keyed(e, k) : EntryAt(q).type = type}
  BY <1>2, <1>3
<1>5. QED
  BY <1>4 DEF Count

\* What is shown and acknowledged, after an entry nobody has seen.
LEMMA AppendedShown ==
    ASSUME TypeOK, NEW t \in Id, NEW m \in Entry, Appends(t, m), seen' = seen,
           m.type = "message" => m.id \notin seen /\ m.id \notin AckedIds
    PROVE  ShownOf' = ShownOf /\ (m.type # "ack" => DoneOf' = DoneOf)
<1>1. PICK S : S = seen
  OBVIOUS
<1>2. ShownOf' = {<<EntryAt(q)'.by, EntryAt(q)'.key>> :
                     q \in {r \in Places' : EntryAt(r)'.type = "message" /\ EntryAt(r)'.id \in S}}
  BY <1>1 DEF ShownOf, Named
<1>3. ShownOf' = Named(S) /\ ShownOf = Named(S)
  BY <1>1, <1>2, AppendedNames DEF ShownOf
<1>4. ASSUME m.type # "ack"
      PROVE  DoneOf' = DoneOf
  <2>1. AckedIds' = AckedIds
    BY <1>4, AppendedAcks
  <2>2. PICK T : T = AckedIds
    OBVIOUS
  <2>3. DoneOf' = {<<EntryAt(q)'.by, EntryAt(q)'.key>> :
                      q \in {r \in Places' : EntryAt(r)'.type = "message" /\ EntryAt(r)'.id \in T}}
    BY <2>1, <2>2 DEF DoneOf, Named
  <2>4. DoneOf' = Named(T) /\ DoneOf = Named(T)
    BY <2>2, <2>3, AppendedNames DEF DoneOf
  <2>5. QED
    BY <2>4
<1>5. QED
  BY <1>3, <1>4

LEMMA CommitGranted ==
    ASSUME IInv, NEW e \in Endpoint, CommitEntry(e)
    PROVE  Granted
<1>1. /\ MailInv /\ TypeOK /\ at[e] \in {"commit", "parkEntry"} /\ CallInv(e) /\ at[e] \in Publishing
      /\ at[e] \in Sending /\ Appends(send[e].thread, Published(e)) /\ seen' = seen
  BY CommitEntryMail DEF IInv, MailInv, Publishing, Sending
<1>2. PICK t \in Id, m \in Entry : t = send[e].thread /\ m = Published(e)
  BY <1>1, PublishedEntry
<1>3. PICK k \in Key : k = send[e].key /\ Keyed(e, k) = {}
  BY <1>1 DEF CallInv, AskedOf, WrittenOf, Before, Numbered
<1>4. /\ m.type = (IF at[e] = "parkEntry" THEN "park" ELSE "message")
      /\ m.id = send[e].id /\ m.by = e /\ m.key = k /\ Appends(t, m)
  BY <1>1, <1>2, <1>3, PublishedEntry
<1>5. ASSUME NEW q \in Messages(send[e].id)
      PROVE  FALSE
  <2>1. q \in Places /\ EntryAt(q).type = "message" /\ EntryAt(q).id = send[e].id
    BY DEF Messages
  <2>2. /\ EntryAt(q).by \in Endpoint /\ EntryAt(q).key \in Key
        /\ q \in Keyed(EntryAt(q).by, EntryAt(q).key)
        /\ Owned(EntryAt(q).by, EntryAt(q).key, send[e].id)
    BY <1>1, <2>1, MessageIsKeyed
  <2>3. EntryAt(q).by = e /\ EntryAt(q).key = k
    BY <1>1, <1>3, <2>2 DEF MailInv, IdInv
  <2>4. QED
    BY <1>3, <2>2, <2>3
<1>6. send[e].id \notin seen
  BY <1>5 DEF IInv, ShownInv
<1>7. send[e].id \notin AckedIds
  <2>1. SUFFICES ASSUME send[e].id \in AckedIds
                 PROVE  FALSE
    OBVIOUS
  <2>2. PICK a \in AckedIds : a = send[e].id
    BY <2>1
  <2>3. PICK u \in Threads, i \in Nat : /\ log[u][i].id = a /\ <<u, i>> \in Places
                                        /\ EntryAt(<<u, i>>) = log[u][i]
                                        /\ EntryAt(<<u, i>>).type = "message"
    BY <1>1, AckedAreThere
  <2>4. <<u, i>> \in Messages(send[e].id)
    BY <2>2, <2>3 DEF Messages
  <2>5. QED
    BY <1>5, <2>4
<1>8. m.type # "ack" /\ ShownOf' = ShownOf /\ DoneOf' = DoneOf
  BY <1>1, <1>4, <1>6, <1>7, AppendedShown
<1>9. ASSUME NEW type
      PROVE  /\ Count(e, k, type) = 0
             /\ Count(e, k, type)' = IF m.type = type THEN 1 ELSE 0
  <2>1. Count(e, k, type) = 0
    BY <1>1, <1>3, CountOfKey
  <2>2. PICK n : n = Len(log[t]) + 1
    OBVIOUS
  <2>3. Keyed(e, k)' = {<<t, n>>} /\ EntryAt(<<t, n>>)' = m
    BY <1>1, <1>3, <1>4, <2>2, AppendedKeyed, AppendedPlaces
  <2>4. Count(e, k, type)' = Cardinality({q \in {<<t, n>>} : m.type = type})
    <3>1. {q \in Keyed(e, k)' : EntryAt(q)'.type = type} = {q \in {<<t, n>>} : m.type = type}
      BY <2>3
    <3>2. QED
      BY <3>1 DEF Count
  <2>5. CASE m.type = type
    <3>1. {q \in {<<t, n>>} : m.type = type} = {<<t, n>>}
      BY <2>5
    <3>2. QED
      BY <2>1, <2>4, <2>5, <3>1, FS_Singleton
  <2>6. CASE m.type # type
    <3>1. {q \in {<<t, n>>} : m.type = type} = {}
      BY <2>6
    <3>2. QED
      BY <2>1, <2>4, <2>6, <3>1, FS_EmptySet
  <2>7. QED
    BY <2>5, <2>6
<1>10. ASSUME NEW f \in Endpoint, NEW l \in Key, f # e \/ l # k, NEW type
       PROVE  Count(f, l, type)' = Count(f, l, type)
  BY <1>1, <1>4, <1>10, AppendedCounts
<1>11. Service!Unused(e, k)
  BY <1>9 DEF Service!Unused
<1>12. CASE m.type = "message"
  <2>1. SentOf' = [SentOf EXCEPT ![e][k] = 1]
    <3>1. \A f \in Endpoint, l \in Key :
              Count(f, l, "message")' = IF f = e /\ l = k THEN 1 ELSE Count(f, l, "message")
      BY <1>9, <1>10, <1>12
    <3>2. SentOf' = [f \in Endpoint |-> [l \in Key |->
                        IF f = e /\ l = k THEN 1 ELSE Count(f, l, "message")]]
      BY <3>1 DEF SentOf
    <3>3. \A f \in Endpoint : SentOf'[f] = [SentOf EXCEPT ![e][k] = 1][f]
      BY <3>2 DEF SentOf
    <3>4. QED
      BY <3>2, <3>3 DEF SentOf
  <2>2. ParkedOf' = ParkedOf
    <3>1. \A f \in Endpoint, l \in Key : Count(f, l, "park")' = Count(f, l, "park")
      BY <1>9, <1>10, <1>12
    <3>2. QED
      BY <3>1 DEF ParkedOf
  <2>3. Service!Commit(e, k)
    BY <1>8, <1>11, <2>1, <2>2 DEF Service!Commit, SentOf, ParkedOf, ShownOf, DoneOf, AckedIds
  <2>4. QED
    BY <2>3 DEF Granted, Service!ServiceNext
<1>13. CASE m.type = "park"
  <2>1. ParkedOf' = [ParkedOf EXCEPT ![e][k] = 1]
    <3>1. \A f \in Endpoint, l \in Key :
              Count(f, l, "park")' = IF f = e /\ l = k THEN 1 ELSE Count(f, l, "park")
      BY <1>9, <1>10, <1>13
    <3>2. ParkedOf' = [f \in Endpoint |-> [l \in Key |->
                          IF f = e /\ l = k THEN 1 ELSE Count(f, l, "park")]]
      BY <3>1 DEF ParkedOf
    <3>3. \A f \in Endpoint : ParkedOf'[f] = [ParkedOf EXCEPT ![e][k] = 1][f]
      BY <3>2 DEF ParkedOf
    <3>4. QED
      BY <3>2, <3>3 DEF ParkedOf
  <2>2. SentOf' = SentOf
    <3>1. \A f \in Endpoint, l \in Key : Count(f, l, "message")' = Count(f, l, "message")
      BY <1>9, <1>10, <1>13
    <3>2. QED
      BY <3>1 DEF SentOf
  <2>3. Service!Park(e, k)
    BY <1>8, <1>11, <2>1, <2>2 DEF Service!Park, SentOf, ParkedOf, ShownOf, DoneOf, AckedIds
  <2>4. QED
    BY <2>3 DEF Granted, Service!ServiceNext
<1>14. QED
  BY <1>4, <1>12, <1>13

LEMMA UpdateGranted ==
    ASSUME IInv, NEW e \in Endpoint, UpdateBusThread(e)
    PROVE  Granted
<1>1. TypeOK /\ seen' = seen
  BY DEF UpdateBusThread, IInv, MailInv
<1>2. PICK t \in Threads, action \in {"park", "resolve", "reopen"} :
          Appends(t, StateEntry(action, 0, e))
  BY UpdateStep
<1>3. t \in Id /\ 0 \in 0..MaxId
  BY MailboxAssumption DEF Threads
<1>4. PICK m \in Entry : /\ m = StateEntry(action, 0, e) /\ m.key \notin Key /\ m.type = action
  BY <1>3, StateEntryType
<1>5. Appends(t, m) /\ m.type # "message" /\ m.type # "ack"
  BY <1>2, <1>4
<1>6. \A f \in Endpoint, l \in Key, type \in {"message", "park"} :
          Count(f, l, type)' = Count(f, l, type)
  BY <1>1, <1>3, <1>4, <1>5, AppendedCounts
<1>7. SentOf' = SentOf /\ ParkedOf' = ParkedOf
  BY <1>6 DEF SentOf, ParkedOf
<1>8. ShownOf' = ShownOf /\ DoneOf' = DoneOf
  BY <1>1, <1>3, <1>5, AppendedShown
<1>9. QED
  BY <1>7, <1>8 DEF Granted

LEMMA AcknowledgeGranted ==
    ASSUME IInv, NEW e \in Endpoint, AcknowledgeBusMessage(e)
    PROVE  Granted
<1>1. MailInv /\ TypeOK /\ seen' = seen
  BY DEF AcknowledgeBusMessage, IInv, MailInv
<1>2. PICK t \in Threads : \E i \in Nat :
          /\ MessageAt(t, i) /\ log[t][i].id \in seen \ Acked(t)
          /\ Appends(t, StateEntry("ack", log[t][i].id, e))
  BY AcknowledgeStep
<1>3. PICK i \in Nat : /\ MessageAt(t, i) /\ log[t][i].id \in seen \ Acked(t)
                       /\ Appends(t, StateEntry("ack", log[t][i].id, e))
  BY <1>2
<1>4. PICK q : q = <<t, i>>
  OBVIOUS
<1>5. q \in Places /\ EntryAt(q) = log[t][i] /\ EntryAt(q).type = "message" /\ t \in Id
  BY <1>1, <1>3, <1>4, PlaceType DEF EntryAt, MessageAt, Threads, TypeOK
<1>6. PICK f \in Endpoint, k \in Key, id \in Id :
          f = EntryAt(q).by /\ k = EntryAt(q).key /\ id = EntryAt(q).id /\ q \in Keyed(f, k)
  BY <1>1, <1>5, MessageIsKeyed
<1>7. id \in 0..MaxId
  BY <1>6 DEF Id
<1>8. PICK m \in Entry : /\ m = StateEntry("ack", id, e) /\ m.key \notin Key /\ m.type = "ack"
                         /\ m.id = id
  BY <1>7, StateEntryType
<1>9. Appends(t, m) /\ id \in seen /\ id \notin Acked(t)
  BY <1>3, <1>5, <1>6, <1>8
<1>10. \A g \in Endpoint, l \in Key, type \in {"message", "park"} :
           Count(g, l, type)' = Count(g, l, type)
  BY <1>1, <1>5, <1>8, <1>9, AppendedCounts
<1>11. SentOf' = SentOf /\ ParkedOf' = ParkedOf
  BY <1>10 DEF SentOf, ParkedOf
<1>12. ShownOf' = ShownOf
  BY <1>1, <1>5, <1>8, <1>9, AppendedShown
<1>13. PICK n : n = <<f, k>>
  OBVIOUS
<1>14. n \in ShownOf
  BY <1>5, <1>6, <1>9, <1>13 DEF ShownOf, Named
<1>15. id \notin AckedIds
  <2>1. SUFFICES ASSUME id \in AckedIds
                 PROVE  FALSE
    OBVIOUS
  <2>2. PICK u \in Threads, j \in Nat :
            /\ id \in Acked(u) /\ log[u][j].id = id /\ <<u, j>> \in Places
            /\ EntryAt(<<u, j>>) = log[u][j] /\ EntryAt(<<u, j>>).type = "message"
    BY <1>1, <2>1, AckedAreThere
  <2>3. <<u, j>> = q
    BY <1>1, <1>5, <1>6, <2>2, OneMessage
  <2>4. QED
    BY <1>4, <1>9, <2>2, <2>3
<1>16. n \notin DoneOf
  <2>1. SUFFICES ASSUME n \in DoneOf
                 PROVE  FALSE
    OBVIOUS
  <2>2. PICK r \in Places : /\ EntryAt(r).type = "message" /\ EntryAt(r).id \in AckedIds
                            /\ n = <<EntryAt(r).by, EntryAt(r).key>>
    BY <2>1 DEF DoneOf, Named
  <2>3. EntryAt(r).by = f /\ EntryAt(r).key = k
    BY <1>13, <2>2
  <2>4. r = q
    BY <1>1, <1>5, <1>6, <2>2, <2>3, OneMessage
  <2>5. QED
    BY <1>6, <1>15, <2>2, <2>4
<1>17. DoneOf' = DoneOf \cup {n}
  <2>1. AckedIds' = AckedIds \cup {id}
    BY <1>1, <1>5, <1>8, <1>9, AppendedAcks
  <2>2. PICK T : T = AckedIds \cup {id}
    OBVIOUS
  <2>3. DoneOf' = {<<EntryAt(r)'.by, EntryAt(r)'.key>> :
                      r \in {s \in Places' : EntryAt(s)'.type = "message" /\ EntryAt(s)'.id \in T}}
    BY <2>1, <2>2 DEF DoneOf, Named
  <2>4. DoneOf' = Named(T)
    BY <1>1, <1>5, <1>8, <1>9, <2>3, AppendedNames
  <2>5. {r \in Places : EntryAt(r).type = "message" /\ EntryAt(r).id \in T}
          = {r \in Places : EntryAt(r).type = "message" /\ EntryAt(r).id \in AckedIds} \cup {q}
    <3>1. \A r \in Places : EntryAt(r).type = "message" /\ EntryAt(r).id = id => r = q
      BY <1>1, <1>5, <1>6, OneMessage
    <3>2. QED
      BY <1>5, <1>6, <2>2, <3>1
  <2>6. QED
    BY <1>6, <1>13, <2>4, <2>5 DEF DoneOf, Named
<1>18. n \in Service!Name
  BY <1>13 DEF Service!Name
<1>19. Service!Acknowledge(n)
  BY <1>11, <1>12, <1>14, <1>16, <1>17
  DEF Service!Acknowledge, SentOf, ParkedOf, ShownOf, DoneOf, AckedIds
<1>20. QED
  BY <1>18, <1>19 DEF Granted, Service!ServiceNext

\* Nothing was sent when the bus starts.
LEMMA StartOfService == Init => Service!ServiceInit
<1> SUFFICES ASSUME Init
             PROVE  Service!ServiceInit
  OBVIOUS
<1>1. \A t \in Id : log[t] = <<>>
  BY DEF Init
<1>2. Places = {} /\ Threads = {}
  BY <1>1 DEF Places, Threads
<1>3. \A e \in Endpoint, k \in Key, type \in {"message", "park"} : Count(e, k, type) = 0
  <2> TAKE e \in Endpoint, k \in Key, type \in {"message", "park"}
  <2>1. {q \in Keyed(e, k) : EntryAt(q).type = type} = {}
    BY <1>2 DEF Keyed
  <2>2. QED
    BY <2>1, FS_EmptySet DEF Count
<1>4. SentOf = [e \in Endpoint |-> [k \in Key |-> 0]] /\ ParkedOf = SentOf
  BY <1>3 DEF SentOf, ParkedOf
<1>5. ShownOf = {} /\ DoneOf = {}
  BY <1>2 DEF ShownOf, DoneOf, Named
<1>6. QED
  BY <1>4, <1>5 DEF Service!ServiceInit, SentOf, ParkedOf, ShownOf, DoneOf, AckedIds

\* Whatever is retried, recovered, reconciled, lost or timed out, the agents
\* see the bus of BusService: each key of each sender takes effect once, as a
\* message or as a park, a poll shows only what was sent, only what was shown
\* is acknowledged, once, and nothing is ever taken back.
THEOREM Refinement == Spec => ImplementsService
<1>1. Init => Service!ServiceInit
  BY StartOfService
<1>2. IInv /\ [Next]_vars => Granted
  <2> SUFFICES ASSUME IInv, [Next]_vars
               PROVE  Granted
    OBVIOUS
  <2>1. ASSUME NEW e \in Endpoint, SendBusMessage(e) \/ SendStep(e)
        PROVE  Granted
    <3>1. CASE CommitEntry(e)
      BY <3>1, CommitGranted
    <3>2. CASE SendBusMessage(e) \/ RecoverReceipt(e) \/ ForgetReceipt(e) \/ Redeliver(e)
      BY <3>2, SameService DEF SendBusMessage, RecoverReceipt, ForgetReceipt, Redeliver
    <3>3. CASE Reactivate(e) \/ CreateThread(e) \/ ReplyToThread(e) \/ WriteReceipt(e)
      BY <3>3, SameService DEF Reactivate, CreateThread, ReplyToThread, WriteReceipt
    <3>4. CASE \/ PublishPointerIntent(e) \/ ActivatePointer(e) \/ FinalizeReceipt(e)
               \/ LockTimesOut(e)
      BY <3>4, SameService DEF PublishPointerIntent, ActivatePointer, FinalizeReceipt, LockTimesOut
    <3>5. QED
      BY <2>1, <3>1, <3>2, <3>3, <3>4 DEF SendStep
  <2>2. ASSUME NEW e \in Endpoint, StartPoll(e) \/ MaterializeSuccessorMailbox(e)
        PROVE  Granted
    BY <2>2, SameService DEF StartPoll, MaterializeSuccessorMailbox
  <2>3. ASSUME NEW e \in Endpoint, ReconcileStep(e)
        PROVE  Granted
    <3>1. CASE PickIntent(e) \/ RecoverPendingIntent(e) \/ ListActive(e) \/ ListPending(e)
      BY <3>1, SameService DEF PickIntent, RecoverPendingIntent, ListActive, ListPending
    <3>2. CASE FoldThread(e) \/ AllocatePointer(e) \/ CreatePointer(e) \/ EndScan(e) \/ Sweep(e)
      BY <3>2, SameService DEF FoldThread, AllocatePointer, CreatePointer, EndScan, Sweep
    <3>3. QED
      BY <2>3, <3>1, <3>2 DEF ReconcileStep
  <2>4. ASSUME NEW e \in Endpoint, PollStep(e)
        PROVE  Granted
    BY <2>4, SameService, ShownAreSent DEF PollStep, WalkPointer, PersistCursor
  <2>5. ASSUME NEW e \in Endpoint, AcknowledgeBusMessage(e) \/ UpdateBusThread(e)
        PROVE  Granted
    BY <2>5, AcknowledgeGranted, UpdateGranted
  <2>6. ASSUME NEW e \in Endpoint, AckClean(e) \/ ReadPendingCursor(e) \/ ClaimPendingDelivery(e)
        PROVE  Granted
    BY <2>6, SameService DEF AckClean, ReadPendingCursor, ClaimPendingDelivery
  <2>7. ASSUME NEW e \in Endpoint, CallFails(e) \/ SetupFails(e) \/ LoseCounter(e)
        PROVE  Granted
    BY <2>7, SameService DEF CallFails, SetupFails, LoseCounter
  <2>8. ASSUME NEW new \in Endpoint, NEW old \in Endpoint, RetireIncumbent(new, old)
        PROVE  Granted
    BY <2>8, SameService DEF RetireIncumbent
  <2>9. CASE CreateSuccessor \/ JoinFails \/ UNCHANGED vars
    BY <2>9, SameService DEF CreateSuccessor, JoinFails, vars
  <2>10. QED
    BY <2>1, <2>2, <2>3, <2>4, <2>5, <2>6, <2>7, <2>8, <2>9 DEF Next
<1>3. QED
  BY Invariance, <1>1, <1>2, PTL
  DEF Spec, ImplementsService, Service!ServiceSpec, Service!svars, Granted, SentOf, ParkedOf,
      ShownOf, DoneOf, AckedIds
=============================================================================
