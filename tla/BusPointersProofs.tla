------------------------- MODULE BusPointersProofs -------------------------
(***************************************************************************)
(* A committed message that is neither acknowledged nor in a resolved      *)
(* thread keeps a pointer where somebody inherits it, and the numbers of a *)
(* mailbox are given once: for any endpoints, successions and traffic, and *)
(* any budget of calls that die or fail half way.  Then what BusWaiter     *)
(* builds on it: who waits and is told that nothing came was owed nothing. *)
(***************************************************************************)
EXTENDS BusMailboxProofs, BusWaiter

Pointers(x) == box[x].active \cup box[x].pending

\* All the pointers that a mailbox or its reconciliation still deals with.
Known(x) == Pointers(x) \cup rec[x].todo \cup rec[x].listed

\* x itself, or an endpoint that inherits its mail, has a pointer to m.
Held(x, m) == \E z \in Endpoint : x \in Addressees(z) /\ m \in Ids(Pointers(z))

\* m is committed and still to be dealt with.
Lives(m) == \E q \in Messages(m) : ~Terminal(q[1], m)

(***************************************************************************)
(* The strengthening.  Who inherits from whom is a forest that only grows  *)
(* at its leaves; an id that is not committed yet is in no mailbox but in  *)
(* the intent of its publication, which nobody takes away; and what a      *)
(* reconciliation has listed as delivered is still held by an heir when it *)
(* sweeps the mailboxes of the ancestors.                                  *)
(***************************************************************************)
LineInv ==
    /\ \A e \in Endpoint : ep[e].status = "absent" =>
          ep[e].pred = None /\ \A f \in Endpoint : ep[f].pred # e
    /\ joining # None => ep[joining.new].status = "absent" /\ ep[joining.old].status # "absent"
    /\ \A x, y \in Endpoint : x \in Addressees(y) /\ y \in Addressees(x) => x = y

FreshInv(e) ==
    at[e] \in Numbered =>
        \A x \in Endpoint :
            /\ \A p \in Known(x) : p.id = send[e].id =>
                  at[e] = "commit" /\ x = send[e].hash.to /\ p = Pointer(send[e])
            /\ \A p \in box[x].active : p.id # send[e].id
IntentInv(e) == at[e] = "commit" => Pointer(send[e]) \in box[send[e].hash.to].pending

\* A reconciliation that looks at the intent waits for the publisher's lock.
LockInv(e) ==
    at[e] = "commit" => \A x \in Endpoint :
        rec[x].at = "intent" /\ First(rec[x].todo) = Pointer(send[e]) =>
            rec[x].lockOn = send[e].hash.into
ParkInv(e) == at[e] \in {"park", "parkEntry"} => State(send[e].thread) # "resolved"
AckInv(e)  == at[e] = "ackClean" =>
                  send[e].thread \in Threads /\ send[e].id \in Acked(send[e].thread)
SenderInv(e) == FreshInv(e) /\ IntentInv(e) /\ LockInv(e) /\ ParkInv(e) /\ AckInv(e)

KnownInv(x) == \A p \in Known(x) : p.id < nextId
Placed(p)   == \A q \in Messages(p.id) : q = <<p.thread, p.pos>>
PlaceInv(x) == /\ \A p \in Pointers(x) : Placed(p)
               /\ \A p \in box[x].pending : \A q \in Messages(p.id) : EntryAt(q).to = x
ListInv(x) ==
    /\ rec[x].at \in {"list2", "sweep"} =>
          \A p \in rec[x].listed : Lives(p.id) => Held(x, p.id)
    /\ \A d \in rec[x].dirs : d[1] \in Addressees(x) \ {x}
    /\ rec[x].at = "intent" => rec[x].todo # {}
BoxInv(x) == KnownInv(x) /\ PlaceInv(x) /\ ListInv(x)

ToInv == \A q \in Places : EntryAt(q).type = "message" => EntryAt(q).to = EntryAt(q).hash.to
HoldInv == \A q \in Places : EntryAt(q).type = "message" /\ ~Terminal(q[1], EntryAt(q).id) =>
               Held(EntryAt(q).to, EntryAt(q).id)

PtrInv ==
    /\ LineInv
    /\ \A e \in Endpoint : SenderInv(e)
    /\ \A x \in Endpoint : BoxInv(x)
    /\ ToInv /\ HoldInv
----------------------------------------------------------------------------
(* Who inherits from whom. *)

LEMMA Inheritance ==
    ASSUME TypeOK, NEW x \in Endpoint
    PROVE  /\ x \in Addressees(x)
           /\ Inherits(Addressees(x))
           /\ \A y \in Addressees(x) : y \in Endpoint /\ Addressees(y) \subseteq Addressees(x)
<1>1. x \in Addressees(x) /\ Addressees(x) \in SUBSET Endpoint
  BY DEF Addressees
<1>2. Inherits(Addressees(x))
  <2>1. SUFFICES ASSUME NEW f \in Addressees(x), ep[f].pred # None
                 PROVE  ep[f].pred \in Addressees(x)
    BY DEF Inherits
  <2>2. f \in Endpoint /\ ep[f].pred \in Endpoint
    BY <1>1, <2>1 DEF TypeOK, Record
  <2>3. ASSUME NEW S \in SUBSET Endpoint, x \in S, Inherits(S)
        PROVE  ep[f].pred \in S
    <3>1. f \in S
      BY <2>1, <2>3 DEF Addressees
    <3>2. QED
      BY <2>1, <2>3, <3>1 DEF Inherits
  <2>4. QED
    BY <2>2, <2>3 DEF Addressees
<1>3. ASSUME NEW y \in Addressees(x)
      PROVE  Addressees(y) \subseteq Addressees(x)
  BY <1>1, <1>2 DEF Addressees
<1>4. QED
  BY <1>1, <1>2, <1>3

\* Inheritance is never taken back.
Grows == \A x \in Endpoint : \A y \in Addressees(x) : y \in Addressees(x)'

LEMMA SamePredecessors ==
    ASSUME \A e \in Endpoint : ep'[e].pred = ep[e].pred
    PROVE  /\ \A x : Addressees(x)' = Addressees(x)
           /\ Grows
<1>1. \A S \in SUBSET Endpoint : Inherits(S)' <=> Inherits(S)
  BY DEF Inherits
<1>2. \A x : Addressees(x)' = Addressees(x)
  BY <1>1 DEF Addressees
<1>3. QED
  BY <1>2 DEF Grows

LEMMA SameLine ==
    ASSUME LineInv, joining' \in {joining, None},
           \A e \in Endpoint : ep'[e].pred = ep[e].pred /\ ep'[e].status = ep[e].status,
           joining # None => joining.new \in Endpoint /\ joining.old \in Endpoint
    PROVE  LineInv' /\ Grows
<1>1. Grows /\ \A x : Addressees(x)' = Addressees(x)
  BY SamePredecessors
<1>2. QED
  BY <1>1 DEF LineInv

LEMMA RetireLine ==
    ASSUME TypeOK, LineInv, NEW new \in Endpoint, NEW old \in Endpoint, RetireIncumbent(new, old)
    PROVE  LineInv' /\ Grows
<1>1. /\ ep[new].status = "absent" /\ ep[old].status = "active"
      /\ joining' = [new |-> new, old |-> old]
      /\ ep' = [ep EXCEPT ![old].status = "retired"]
  BY DEF RetireIncumbent, Active
<1>2. ep \in [Endpoint -> Record]
  BY DEF TypeOK
<1>3. /\ \A e \in Endpoint : ep'[e].pred = ep[e].pred
      /\ \A e \in Endpoint : ep'[e].status = "absent" => ep[e].status = "absent"
      /\ ep'[new].status = "absent" /\ ep'[old].status # "absent"
  BY <1>1, <1>2 DEF Record
<1>4. Grows /\ \A x : Addressees(x)' = Addressees(x)
  BY <1>3, SamePredecessors
<1>5. QED
  BY <1>1, <1>3, <1>4 DEF LineInv

LEMMA SuccessorLine ==
    ASSUME TypeOK, LineInv, CreateSuccessor
    PROVE  LineInv' /\ Grows
<1>1. /\ joining # None /\ joining' = None
      /\ ep' = [ep EXCEPT ![joining.new] = [@ EXCEPT !.status = "active", !.pred = joining.old]]
      /\ ep \in [Endpoint -> Record]
  BY DEF CreateSuccessor, TypeOK
<1>2. PICK new \in Endpoint, old \in Endpoint : new = joining.new /\ old = joining.old
  BY <1>1 DEF TypeOK
<1>3. /\ ep[new].status = "absent" /\ ep[old].status # "absent" /\ ep[new].pred = None
      /\ \A f \in Endpoint : ep[f].pred # new
  BY <1>1, <1>2 DEF LineInv
<1>4. /\ ep'[new].pred = old /\ ep'[new].status = "active"
      /\ \A e \in Endpoint : e # new => ep'[e] = ep[e]
  BY <1>1, <1>2 DEF Record
<1>5. Grows
  <2>1. ASSUME NEW S \in SUBSET Endpoint, Inherits(S)'
        PROVE  Inherits(S)
    BY <1>3, <1>4, <2>1 DEF Inherits
  <2>2. QED
    BY <2>1 DEF Grows, Addressees
<1>6. ASSUME NEW f \in Endpoint, f # new
      PROVE  new \notin Addressees(f) /\ \A g \in Addressees(f)' : g \in Addressees(f)
  <2>1. Inherits(Endpoint \ {new})
    BY <1>1, <1>3 DEF Inherits, Record
  <2>2. new \notin Addressees(f)
    BY <1>6, <2>1 DEF Addressees
  <2>3. f \in Addressees(f) /\ Inherits(Addressees(f)) /\ Addressees(f) \in SUBSET Endpoint
    BY Inheritance
  <2>4. PICK S \in SUBSET Endpoint : S = Addressees(f)
    BY <2>3
  <2>5. Inherits(S)'
    BY <1>4, <2>2, <2>3, <2>4 DEF Inherits
  <2>6. QED
    BY <2>2, <2>3, <2>4, <2>5 DEF Addressees
<1>7. ASSUME NEW x \in Endpoint, NEW y \in Endpoint, x \in Addressees(y)', y \in Addressees(x)'
      PROVE  x = y
  BY <1>6, <1>7 DEF LineInv
<1>8. ASSUME NEW e \in Endpoint, ep'[e].status = "absent"
      PROVE  ep'[e].pred = None /\ \A f \in Endpoint : ep'[f].pred # e
  <2>1. e # new /\ ep[e].status = "absent" /\ e # old
    BY <1>3, <1>4, <1>8
  <2>2. QED
    BY <1>4, <2>1 DEF LineInv
<1>9. QED
  BY <1>1, <1>5, <1>7, <1>8 DEF LineInv
----------------------------------------------------------------------------
(* What is committed, and what is settled. *)

\* An id is one message's, and an entry that is not written yet is nobody's.
LEMMA OneOf ==
    ASSUME MailInv, NEW m, NEW q \in Messages(m)
    PROVE  /\ q \in Places /\ EntryAt(q).type = "message" /\ EntryAt(q).id = m
           /\ m \in Id /\ m < nextId
           /\ q[1] \in Id /\ q[2] \in 1..Len(log[q[1]]) /\ q = <<q[1], q[2]>>
           /\ EntryAt(q) = log[q[1]][q[2]]
           /\ \A r \in Messages(m) : r = q
<1>1. q \in Places /\ EntryAt(q).type = "message" /\ EntryAt(q).id = m /\ TypeOK
  BY DEF Messages, MailInv
<1>2. /\ q[1] \in Id /\ q[2] \in 1..Len(log[q[1]]) /\ q = <<q[1], q[2]>>
      /\ EntryAt(q) = log[q[1]][q[2]]
  BY <1>1, PlaceType DEF EntryAt
<1>3. \A r \in Messages(m) : r = q
  <2> TAKE r \in Messages(m)
  <2>1. r \in Places /\ EntryAt(r).type = "message" /\ EntryAt(r).id = m
    BY DEF Messages
  <2>2. QED
    BY <1>1, <2>1, OneMessage
<1>4. m \in Id /\ m < nextId
  <2>1. EntryInv(q[1])
    BY <1>2 DEF MailInv
  <2>2. QED
    BY <1>1, <1>2, <2>1 DEF EntryInv
<1>5. QED
  BY <1>1, <1>2, <1>3, <1>4

LEMMA MessageThere ==
    ASSUME TypeOK, NEW t, NEW i, MessageAt(t, i), t \in Id
    PROVE  <<t, i>> \in Messages(log[t][i].id)
<1>1. i \in 1..Len(log[t]) /\ log[t][i].type = "message"
  BY DEF MessageAt
<1>2. <<t, i>> \in Places
  BY <1>1, PlaceType
<1>3. QED
  BY <1>1, <1>2 DEF Messages, EntryAt

LEMMA NotYetSent ==
    ASSUME MailInv, NEW e \in Endpoint, at[e] \in Numbered
    PROVE  Messages(send[e].id) = {}
<1>1. /\ CallInv(e) /\ at[e] \in Publishing /\ at[e] \in Before
  BY DEF MailInv, Numbered, Publishing, Before
<1>2. Keyed(e, send[e].key) = {}
  BY <1>1 DEF CallInv, WrittenOf
<1>3. SUFFICES ASSUME NEW q \in Messages(send[e].id)
               PROVE  FALSE
  OBVIOUS
<1>4. q \in Places /\ EntryAt(q).type = "message" /\ EntryAt(q).id = send[e].id
  BY DEF Messages
<1>5. /\ EntryAt(q).by \in Endpoint /\ EntryAt(q).key \in Key
      /\ q \in Keyed(EntryAt(q).by, EntryAt(q).key)
      /\ Owned(EntryAt(q).by, EntryAt(q).key, send[e].id)
  BY <1>4, MessageIsKeyed
<1>6. EntryAt(q).by = e /\ EntryAt(q).key = send[e].key
  BY <1>1, <1>5 DEF MailInv, IdInv
<1>7. QED
  BY <1>2, <1>5, <1>6

\* What a pointer matches is the message of its id.
LEMMA MatchedIsThere ==
    ASSUME MailInv, NEW p \in Ptr, NEW S, MatchesCanonical(p, S)
    PROVE  <<p.thread, p.pos>> \in Messages(p.id) /\ EntryAt(<<p.thread, p.pos>>).to \in S
<1>1. p.thread \in Id /\ TypeOK
  BY DEF Ptr, MailInv
<1>2. MessageAt(p.thread, p.pos) /\ log[p.thread][p.pos].id = p.id
      /\ log[p.thread][p.pos].to \in S
  BY DEF MatchesCanonical
<1>3. QED
  BY <1>1, <1>2, MessageThere DEF EntryAt

LEMMA SameLog ==
    ASSUME log' = log
    PROVE  /\ Places' = Places /\ \A q : EntryAt(q)' = EntryAt(q)
           /\ \A m : Messages(m)' = Messages(m)
           /\ \A t : Acked(t)' = Acked(t) /\ State(t)' = State(t)
           /\ \A t, m : Terminal(t, m)' = Terminal(t, m)
           /\ \A m : Lives(m)' = Lives(m)
           /\ Threads' = Threads
<1>1. Places' = Places /\ \A q : EntryAt(q)' = EntryAt(q)
  BY DEF Places, EntryAt
<1>2. \A m : Messages(m)' = Messages(m)
  BY <1>1 DEF Messages
<1>3. \A t : Acked(t)' = Acked(t) /\ State(t)' = State(t)
  BY DEF Acked, State
<1>4. \A t, m : Terminal(t, m)' = Terminal(t, m)
  BY <1>3 DEF Terminal
<1>5. \A m : Lives(m)' = Lives(m)
  BY <1>2, <1>4 DEF Lives
<1>6. QED
  BY <1>1, <1>2, <1>3, <1>4, <1>5 DEF Threads
----------------------------------------------------------------------------
(* The state of a thread follows its last state entry. *)

Changes(t) == {i \in 1..Len(log[t]) : log[t][i].type \in {"park", "resolve", "reopen"}}
StateAfter(type) == CASE type = "park" -> "parked" [] type = "resolve" -> "resolved" [] OTHER -> "open"

LEMMA StateOf ==
    ASSUME NEW t
    PROVE  State(t) = IF Changes(t) = {} THEN "open" ELSE StateAfter(log[t][Max(Changes(t))].type)
BY DEF State, Changes, StateAfter

LEMMA AppendedState ==
    ASSUME TypeOK, NEW t \in Id, NEW m \in Entry, Appends(t, m)
    PROVE  /\ \A u \in Id : u # t => State(u)' = State(u)
           /\ State(t)' = IF m.type \in {"park", "resolve", "reopen"} THEN StateAfter(m.type) ELSE State(t)
<1>0. PICK n : n = Len(log[t]) + 1
  OBVIOUS
<1>1. /\ log' \in [Id -> Seq(Entry)] /\ Len(log[t]) \in Nat /\ Len(log'[t]) = n /\ log'[t][n] = m
      /\ \A i \in 1..Len(log[t]) : i \in 1..Len(log'[t]) /\ log'[t][i] = log[t][i]
      /\ \A u \in Id : u # t => log'[u] = log[u]
  BY <1>0, AppendedLog
<1>2. \A u \in Id : u # t => State(u)' = State(u)
  BY <1>1 DEF State
<1>3. PICK C : C = Changes(t)
  OBVIOUS
<1>4. /\ \A i \in C : log'[t][i] = log[t][i] /\ i \in 1..Len(log[t])
      /\ n \in Nat /\ \A i \in C : i \in Nat /\ i < n
      /\ C \in SUBSET Nat
  <2>1. \A i \in C : log'[t][i] = log[t][i] /\ i \in 1..Len(log[t])
    BY <1>1, <1>3 DEF Changes
  <2>2. n \in Nat /\ \A i \in 1..Len(log[t]) : i \in Nat /\ i < n
    BY <1>0, <1>1
  <2>3. QED
    BY <2>1, <2>2
<1>5. Changes(t)' = C \cup (IF m.type \in {"park", "resolve", "reopen"} THEN {n} ELSE {})
  <2>1. \A i : i \in 1..Len(log'[t]) <=> i \in 1..Len(log[t]) \/ i = n
    BY <1>0, <1>1
  <2>2. Changes(t)' = {i \in 1..Len(log'[t]) : log'[t][i].type \in {"park", "resolve", "reopen"}}
    BY DEF Changes
  <2>3. ASSUME NEW i
        PROVE  i \in Changes(t)' <=> i \in C \/ (i = n /\ m.type \in {"park", "resolve", "reopen"})
    <3>1. CASE i \in 1..Len(log[t])
      BY <1>1, <1>3, <2>1, <2>2, <3>1 DEF Changes
    <3>2. CASE i \notin 1..Len(log[t])
      BY <1>1, <1>4, <2>1, <2>2, <3>2
    <3>3. QED
      BY <3>1, <3>2
  <2>4. QED
    BY <2>3
<1>6. State(t)' = IF Changes(t)' = {} THEN "open" ELSE StateAfter(log'[t][Max(Changes(t)')].type)
  BY DEF State, Changes, StateAfter
<1>7. CASE m.type \in {"park", "resolve", "reopen"}
  <2>1. PICK D : D = Changes(t)' /\ D = C \cup {n}
    BY <1>5, <1>7
  <2>2. D \in SUBSET Nat /\ D # {} /\ n \in Nat /\ \A i \in D : i <= n
    BY <1>4, <2>1
  <2>3. Max(D) \in D /\ \A i \in D : i <= Max(D)
    BY <2>2, GreatestNumber
  <2>4. Max(D) = n
    <3>1. Max(D) \in Nat /\ Max(D) <= n /\ n <= Max(D)
      BY <2>1, <2>2, <2>3
    <3>2. QED
      BY <2>2, <3>1
  <2>5. State(t)' = StateAfter(log'[t][Max(D)].type)
    BY <1>6, <2>1, <2>2
  <2>6. log'[t][Max(D)] = m
    BY <1>1, <2>4
  <2>7. QED
    BY <1>2, <1>7, <2>5, <2>6
<1>8. CASE m.type \notin {"park", "resolve", "reopen"}
  <2>1. Changes(t)' = C
    BY <1>5, <1>8
  <2>2. CASE C = {}
    BY <1>2, <1>3, <1>6, <1>8, <2>1, <2>2, StateOf
  <2>3. CASE C # {}
    <3>1. \A i \in C : i <= n
      BY <1>4
    <3>2. Max(C) \in C
      BY <1>4, <2>3, <3>1, GreatestNumber
    <3>3. log'[t][Max(C)] = log[t][Max(C)]
      BY <1>4, <3>2
    <3>4. State(t)' = StateAfter(log'[t][Max(C)].type)
      BY <1>6, <2>1, <2>3
    <3>5. State(t) = StateAfter(log[t][Max(C)].type)
      BY <1>3, <2>3, StateOf
    <3>6. QED
      BY <1>2, <1>8, <3>3, <3>4, <3>5
  <2>4. QED
    BY <2>2, <2>3
<1>9. QED
  BY <1>2, <1>7, <1>8
----------------------------------------------------------------------------
(* A step that writes no entry. *)

\* No message that is to be dealt with loses its last holder.
Keeps == \A y, m : Lives(m) /\ Held(y, m) => Held(y, m)'

LEMMA NothingTaken ==
    ASSUME Grows, \A z \in Endpoint : \A p \in Pointers(z) : p \in Pointers(z)'
    PROVE  Keeps
<1> SUFFICES ASSUME NEW y, NEW m, Held(y, m)
             PROVE  Held(y, m)'
  BY DEF Keeps
<1>1. PICK z \in Endpoint : y \in Addressees(z) /\ m \in Ids(Pointers(z))
  BY DEF Held
<1>2. y \in Addressees(z)'
  BY <1>1 DEF Grows
<1>3. PICK p \in Pointers(z) : m = p.id
  BY <1>1 DEF Ids
<1>4. m \in Ids(Pointers(z))'
  BY <1>3 DEF Ids
<1>5. QED
  BY <1>2, <1>4 DEF Held

LEMMA KnownTyped ==
    ASSUME TypeOK, NEW x \in Endpoint
    PROVE  /\ Known(x) \subseteq Ptr /\ Pointers(x) \subseteq Ptr
           /\ \A p \in Known(x) : p.id \in Id /\ p.id \in Nat
<1>1. box[x] \in Mailbox /\ rec[x] \in Rec
  BY DEF TypeOK
<1>2. Known(x) \subseteq Ptr /\ Pointers(x) \subseteq Ptr
  BY <1>1 DEF Mailbox, Rec, Known, Pointers
<1>3. QED
  BY <1>2 DEF Ptr, Id

\* p is not the intent of f's publication, and the reconciliation of x, if it
\* looks at that one, waits for f's lock.
Unmet(f, p) == at[f] \in Numbered => p.id # send[f].id
Waits(x, f) == at[f] = "commit" /\ rec'[x].at = "intent" /\ First(rec'[x].todo) = Pointer(send[f]) =>
                  rec'[x].lockOn = send[f].hash.into

LEMMA SenderKept ==
    ASSUME PtrInv, log' = log, NEW f \in Endpoint, at'[f] = at[f], send'[f] = send[f],
           \A x \in Endpoint :
               /\ \A p \in Known(x)' : p \in Known(x) \/ Unmet(f, p)
               /\ \A p \in box'[x].active : p \in box[x].active \/ Unmet(f, p)
               /\ rec'[x] = rec[x] \/ Waits(x, f),
           at[f] = "commit" => Pointer(send[f]) \in box'[send[f].hash.to].pending
    PROVE  SenderInv(f)'
<1>1. SenderInv(f)
  BY DEF PtrInv
<1>2. Pointer(send[f])' = Pointer(send[f])
  BY DEF Pointer
<1>3. FreshInv(f)'
  BY <1>1, <1>2 DEF SenderInv, FreshInv, Unmet
<1>4. IntentInv(f)'
  BY <1>2 DEF IntentInv
<1>5. LockInv(f)'
  BY <1>1, <1>2 DEF SenderInv, LockInv, Waits
<1>6. ParkInv(f)' /\ AckInv(f)'
  BY <1>1, SameLog DEF SenderInv, ParkInv, AckInv
<1>7. QED
  BY <1>3, <1>4, <1>5, <1>6 DEF SenderInv

LEMMA SenderOut ==
    ASSUME NEW e, at'[e] \notin Numbered, at'[e] # "ackClean"
    PROVE  SenderInv(e)'
BY DEF SenderInv, FreshInv, IntentInv, LockInv, ParkInv, AckInv, Numbered

LEMMA BoxKept ==
    ASSUME IInv, PtrInv, log' = log, NEW x \in Endpoint, Keeps, Grows,
           nextId' \in Nat, nextId' >= nextId,
           \A p \in Known(x)' : p \in Known(x) \/ p.id < nextId',
           \A p \in Pointers(x)' : p \in Pointers(x) \/ Placed(p),
           \A p \in box'[x].pending :
               p \in box[x].pending \/ \A q \in Messages(p.id) : EntryAt(q).to = x,
           rec'[x].at \in {"list2", "sweep"} => \A p \in rec'[x].listed :
               Held(x, p.id) \/ (rec[x].at \in {"list2", "sweep"} /\ p \in rec[x].listed),
           \A d \in rec'[x].dirs : d \in rec[x].dirs \/ d[1] \in Addressees(x) \ {x},
           rec'[x].at = "intent" => rec'[x].todo # {} \/ rec'[x] = rec[x]
    PROVE  BoxInv(x)'
<1>1. BoxInv(x) /\ TypeOK
  BY DEF PtrInv, IInv, MailInv
<1>2. KnownInv(x)'
  <2>1. ASSUME NEW p \in Known(x)
        PROVE  p.id < nextId'
    <3>1. p.id < nextId /\ p.id \in Nat /\ nextId \in Nat
      BY <1>1, KnownTyped DEF BoxInv, KnownInv, TypeOK
    <3>2. QED
      BY <3>1
  <2>2. QED
    BY <2>1 DEF KnownInv
<1>3. /\ \A q : EntryAt(q)' = EntryAt(q)
      /\ \A m : Messages(m)' = Messages(m) /\ Lives(m)' = Lives(m)
  BY SameLog
<1>4. PlaceInv(x)'
  <2>1. \A p : Placed(p)' <=> Placed(p)
    BY <1>3 DEF Placed
  <2>2. QED
    BY <1>1, <1>3, <2>1 DEF BoxInv, PlaceInv
<1>5. ListInv(x)'
  <2>1. \A d \in rec'[x].dirs : d[1] \in Addressees(x)' \ {x}
    BY <1>1 DEF BoxInv, ListInv, Grows
  <2>2. ASSUME rec'[x].at \in {"list2", "sweep"}, NEW p \in rec'[x].listed, Lives(p.id)'
        PROVE  Held(x, p.id)'
    <3>1. Lives(p.id)
      BY <1>3, <2>2
    <3>2. Held(x, p.id)
      BY <1>1, <2>2, <3>1 DEF BoxInv, ListInv
    <3>3. QED
      BY <3>1, <3>2 DEF Keeps
  <2>3. rec'[x].at = "intent" => rec'[x].todo # {}
    BY <1>1 DEF BoxInv, ListInv
  <2>4. QED
    BY <2>1, <2>2, <2>3 DEF ListInv
<1>6. QED
  BY <1>2, <1>4, <1>5 DEF BoxInv

LEMMA QuietPtr ==
    ASSUME MailInv, PtrInv, log' = log, LineInv', Keeps, \A e \in Endpoint : SenderInv(e)',
           \A x \in Endpoint : BoxInv(x)'
    PROVE  PtrInv'
<1>1. /\ Places' = Places /\ \A q : EntryAt(q)' = EntryAt(q)
      /\ \A t, m : Terminal(t, m)' = Terminal(t, m)
  BY SameLog
<1>2. ToInv'
  BY <1>1 DEF PtrInv, ToInv
<1>3. HoldInv'
  <2>1. ASSUME NEW q \in Places, EntryAt(q).type = "message", ~Terminal(q[1], EntryAt(q).id)
        PROVE  Held(EntryAt(q).to, EntryAt(q).id)'
    <3>1. Held(EntryAt(q).to, EntryAt(q).id)
      BY <2>1 DEF PtrInv, HoldInv
    <3>2. PICK m : m = EntryAt(q).id
      OBVIOUS
    <3>3. q \in Messages(m)
      BY <2>1, <3>2 DEF Messages
    <3>4. Lives(m)
      BY <2>1, <3>2, <3>3 DEF Lives
    <3>5. PICK y : y = EntryAt(q).to
      OBVIOUS
    <3>6. Held(y, m)'
      BY <3>1, <3>2, <3>4, <3>5 DEF Keeps
    <3>7. EntryAt(q)' = EntryAt(q)
      BY <1>1
    <3>8. Held(EntryAt(q).to, EntryAt(q).id)' <=> Held(y, m)'
      BY <3>2, <3>5, <3>7 DEF Held
    <3>9. QED
      BY <3>6, <3>8
  <2>2. QED
    BY <1>1, <2>1 DEF HoldInv
<1>4. QED
  BY <1>2, <1>3 DEF PtrInv

\* p points to a message that is there.
Committed(p) == <<p.thread, p.pos>> \in Messages(p.id)

LEMMA CommittedFits ==
    ASSUME MailInv, NEW p, Committed(p)
    PROVE  /\ Placed(p) /\ p.id \in Id /\ p.id < nextId
           /\ \A f \in Endpoint : Unmet(f, p)
<1>1. /\ \A r \in Messages(p.id) : r = <<p.thread, p.pos>>
      /\ p.id \in Id /\ p.id < nextId
  BY OneOf DEF Committed
<1>2. ASSUME NEW f \in Endpoint, at[f] \in Numbered, p.id = send[f].id
      PROVE  FALSE
  BY <1>2, NotYetSent DEF Committed
<1>3. QED
  BY <1>1, <1>2 DEF Placed, Unmet

\* What a reconciliation that moves on may know, and list.
Follows(x) ==
    /\ \A p \in rec'[x].todo \cup rec'[x].listed : p \in Known(x)
    /\ rec'[x].at \in {"list2", "sweep"} => \A p \in rec'[x].listed :
          Held(x, p.id) \/ (rec[x].at \in {"list2", "sweep"} /\ p \in rec[x].listed)
    /\ \A d \in rec'[x].dirs : d \in rec[x].dirs \/ d[1] \in Addressees(x) \ {x}
    /\ rec'[x].at = "intent" => rec'[x].todo # {}
    /\ \A f \in Endpoint : Waits(x, f)
LEMMA QuietStep ==
    ASSUME IInv, PtrInv, log' = log, joining' = joining,
           \A e \in Endpoint : ep'[e].pred = ep[e].pred /\ ep'[e].status = ep[e].status,
           nextId' \in Nat, nextId' >= nextId, Keeps,
           \A x \in Endpoint :
               /\ \A p \in Pointers(x)' : p \in Pointers(x) \/ Committed(p)
               /\ \A p \in box'[x].active : p \in box[x].active \/ Committed(p)
               /\ \A p \in box'[x].pending :
                     p \in box[x].pending \/ \A q \in Messages(p.id) : EntryAt(q).to = x
               /\ rec'[x] = rec[x] \/ Follows(x),
           \A f \in Endpoint : SenderInv(f)' \/
               /\ at'[f] = at[f] /\ send'[f] = send[f]
               /\ at[f] = "commit" => Pointer(send[f]) \in box'[send[f].hash.to].pending
    PROVE  PtrInv'
<1>1. MailInv /\ TypeOK /\ nextId \in Nat
  BY DEF IInv, MailInv, TypeOK
<1>2. joining # None => joining.new \in Endpoint /\ joining.old \in Endpoint
  BY <1>1 DEF TypeOK
<1>3. LineInv' /\ Grows
  BY <1>2, SameLine DEF PtrInv
<1>4. ASSUME NEW x \in Endpoint
      PROVE  /\ \A p \in Known(x)' : p \in Known(x) \/ Committed(p)
             /\ \A p \in Pointers(x)' : p \in Pointers(x) \/ Placed(p)
             /\ BoxInv(x)'
  <2>1. \A p \in Known(x)' : p \in Known(x) \/ Committed(p)
    BY DEF Known, Follows
  <2>2. \A p : Committed(p) => Placed(p) /\ p.id < nextId'
    <3> TAKE p
    <3>1. HAVE Committed(p)
    <3>2. Placed(p) /\ p.id \in Id /\ p.id < nextId
      BY <1>1, <3>1, CommittedFits
    <3>3. p.id \in Nat
      BY <3>2 DEF Id
    <3>4. QED
      BY <1>1, <3>2, <3>3
  <2>3. \A p \in Known(x)' : p \in Known(x) \/ p.id < nextId'
    BY <2>1, <2>2
  <2>4. \A p \in Pointers(x)' : p \in Pointers(x) \/ Placed(p)
    BY <2>2
  <2>5. rec'[x].at \in {"list2", "sweep"} => \A p \in rec'[x].listed :
               Held(x, p.id) \/ (rec[x].at \in {"list2", "sweep"} /\ p \in rec[x].listed)
    BY DEF Follows
  <2>6. \A d \in rec'[x].dirs : d \in rec[x].dirs \/ d[1] \in Addressees(x) \ {x}
    BY DEF Follows
  <2>7. rec'[x].at = "intent" => rec'[x].todo # {} \/ rec'[x] = rec[x]
    BY DEF Follows
  <2>8. BoxInv(x)'
    BY <1>3, <2>3, <2>4, <2>5, <2>6, <2>7, BoxKept
  <2>9. QED
    BY <2>1, <2>4, <2>8
<1>5. ASSUME NEW f \in Endpoint, at'[f] = at[f], send'[f] = send[f],
             at[f] = "commit" => Pointer(send[f]) \in box'[send[f].hash.to].pending
      PROVE  SenderInv(f)'
  <2>1. \A p : Committed(p) => Unmet(f, p)
    BY <1>1, CommittedFits
  <2>2. ASSUME NEW x \in Endpoint
        PROVE  /\ \A p \in Known(x)' : p \in Known(x) \/ Unmet(f, p)
               /\ \A p \in box'[x].active : p \in box[x].active \/ Unmet(f, p)
               /\ rec'[x] = rec[x] \/ Waits(x, f)
    BY <1>4, <2>1 DEF Follows
  <2>3. QED
    BY <1>5, <2>2, SenderKept
<1>6. \A f \in Endpoint : SenderInv(f)'
  BY <1>5
<1>7. QED
  BY <1>1, <1>3, <1>4, <1>6, QuietPtr

\* What is taken away was settled, or never sent.
LEMMA TakenHarmlessly ==
    ASSUME Grows, \A z \in Endpoint : \A p \in Pointers(z) : p \in Pointers(z)' \/ ~Lives(p.id)
    PROVE  Keeps
<1> SUFFICES ASSUME NEW y, NEW m, Lives(m), Held(y, m)
             PROVE  Held(y, m)'
  BY DEF Keeps
<1>1. PICK z \in Endpoint : y \in Addressees(z) /\ m \in Ids(Pointers(z))
  BY DEF Held
<1>2. y \in Addressees(z)'
  BY <1>1 DEF Grows
<1>3. PICK p \in Pointers(z) : m = p.id
  BY <1>1 DEF Ids
<1>4. m \in Ids(Pointers(z))'
  BY <1>3 DEF Ids
<1>5. QED
  BY <1>2, <1>4 DEF Held
----------------------------------------------------------------------------
(* Calls that touch no mailbox. *)

SameEndpoints == \A e \in Endpoint : ep'[e].pred = ep[e].pred /\ ep'[e].status = ep[e].status
SamePointers == \A y \in Endpoint : box'[y].active = box[y].active /\ box'[y].pending = box[y].pending

LEMMA CallPtr ==
    ASSUME IInv, PtrInv, UNCHANGED <<log, rec, joining>>, SameEndpoints, SamePointers,
           nextId' \in Nat, nextId' >= nextId, NEW e \in Endpoint,
           \A f \in Endpoint : f # e => at'[f] = at[f] /\ send'[f] = send[f],
           SenderInv(e)'
    PROVE  PtrInv'
<1>1. \A x \in Endpoint : Pointers(x)' = Pointers(x)
  BY DEF SamePointers, Pointers
<1>2. MailInv /\ Keeps
  BY <1>1, NothingTaken, SamePredecessors DEF SameEndpoints, IInv
<1>3. ASSUME NEW f \in Endpoint, f # e
      PROVE  /\ at'[f] = at[f] /\ send'[f] = send[f]
             /\ at[f] = "commit" => Pointer(send[f]) \in box'[send[f].hash.to].pending
  <2>1. at'[f] = at[f] /\ send'[f] = send[f]
    BY <1>3
  <2>2. ASSUME at[f] = "commit"
        PROVE  Pointer(send[f]) \in box'[send[f].hash.to].pending
    <3>1. Pointer(send[f]) \in box[send[f].hash.to].pending
      BY <2>2 DEF PtrInv, SenderInv, IntentInv
    <3>2. send[f].hash.to \in Endpoint
      BY <1>2, <2>2, PublishedTyped DEF Publishing
    <3>3. QED
      BY <3>1, <3>2 DEF SamePointers
  <2>3. QED
    BY <2>1, <2>2
<1>4. \A f \in Endpoint : SenderInv(f)' \/
         /\ at'[f] = at[f] /\ send'[f] = send[f]
         /\ at[f] = "commit" => Pointer(send[f]) \in box'[send[f].hash.to].pending
  BY <1>3
<1>5. \A x \in Endpoint :
         /\ \A p \in Pointers(x)' : p \in Pointers(x) \/ Committed(p)
         /\ \A p \in box'[x].active : p \in box[x].active \/ Committed(p)
         /\ \A p \in box'[x].pending :
               p \in box[x].pending \/ \A q \in Messages(p.id) : EntryAt(q).to = x
         /\ rec'[x] = rec[x] \/ Follows(x)
  BY <1>1 DEF SamePointers
<1>6. QED
  BY <1>2, <1>4, <1>5, QuietStep DEF SameEndpoints

\* A call that ends.
LEMMA EndedPtr ==
    ASSUME IInv, PtrInv, UNCHANGED <<log, rec, joining, ep, nextId>>, SamePointers,
           NEW e \in Endpoint, Return(e)
    PROVE  PtrInv'
<1>1. TypeOK /\ nextId \in Nat
  BY DEF IInv, MailInv, TypeOK
<1>2. at'[e] = "idle" /\ \A f \in Endpoint : f # e => at'[f] = at[f] /\ send'[f] = send[f]
  BY <1>1, ReturnTyped
<1>3. SenderInv(e)'
  BY <1>2, SenderOut DEF Numbered
<1>4. QED
  BY <1>1, <1>2, <1>3, CallPtr DEF SameEndpoints

LEMMA SendBusMessagePtr ==
    ASSUME IInv, PtrInv, NEW e \in Endpoint, SendBusMessage(e)
    PROVE  PtrInv'
<1>1. TypeOK /\ nextId \in Nat
  BY DEF IInv, MailInv, TypeOK
<1>2. /\ UNCHANGED <<log, box, receipt, ep, joining, walk, rec, hook, nextId, faults, seen, told>>
      /\ Goto(e, "recover") \/ Goto(e, "fresh")
      /\ \E p : send' = [send EXCEPT ![e] = p]
  BY DEF SendBusMessage
<1>3. /\ at'[e] \in {"recover", "fresh"}
      /\ \A f \in Endpoint : f # e => at'[f] = at[f] /\ send'[f] = send[f]
  BY <1>1, <1>2, GotoTyped DEF Sending, TypeOK
<1>4. SenderInv(e)'
  BY <1>3, SenderOut DEF Numbered
<1>5. QED
  BY <1>1, <1>2, <1>3, <1>4, CallPtr DEF SameEndpoints, SamePointers

LEMMA ForgetReceiptPtr ==
    ASSUME IInv, PtrInv, NEW e \in Endpoint, ForgetReceipt(e)
    PROVE  PtrInv'
<1>1. TypeOK /\ nextId \in Nat
  BY DEF IInv, MailInv, TypeOK
<1>2. /\ UNCHANGED <<log, box, ep, joining, walk, rec, hook, nextId, faults, seen, told>>
      /\ Return(e) \/ (Goto(e, "fresh") /\ UNCHANGED send)
  BY DEF ForgetReceipt, Afresh
<1>3. /\ at'[e] \in {"idle", "fresh"}
      /\ \A f \in Endpoint : f # e => at'[f] = at[f] /\ send'[f] = send[f]
  BY <1>1, <1>2, GotoTyped, ReturnTyped DEF Sending
<1>4. SenderInv(e)'
  BY <1>3, SenderOut DEF Numbered
<1>5. QED
  BY <1>1, <1>2, <1>3, <1>4, CallPtr DEF SameEndpoints, SamePointers

\* A number is taken: nothing points to the new id.
LEMMA BegunPtr ==
    ASSUME IInv, PtrInv, UNCHANGED <<log, rec, joining, ep>>, SamePointers, nextId' = nextId + 1,
           NEW e \in Endpoint, \A f \in Endpoint : f # e => at'[f] = at[f] /\ send'[f] = send[f],
           send'[e].id = nextId,
           at'[e] = "receipt" \/ (at'[e] = "park" /\ State(send'[e].thread) = "open")
    PROVE  PtrInv'
<1>1. TypeOK /\ nextId \in Nat
  BY DEF IInv, MailInv, TypeOK
<1>2. ASSUME NEW x \in Endpoint, NEW p \in Known(x)'
      PROVE  p.id # send'[e].id
  <2>1. p \in Known(x)
    BY <1>2 DEF Known, Pointers, SamePointers
  <2>2. p.id < nextId /\ p.id \in Nat
    BY <1>1, <2>1, KnownTyped DEF PtrInv, BoxInv, KnownInv
  <2>3. QED
    BY <1>1, <2>2
<1>3. FreshInv(e)'
  BY <1>2 DEF FreshInv, Known, Pointers
<1>4. SenderInv(e)'
  BY <1>3, SameLog DEF SenderInv, IntentInv, LockInv, ParkInv, AckInv
<1>5. nextId' \in Nat /\ nextId' >= nextId
  BY <1>1
<1>6. QED
  BY <1>4, <1>5, CallPtr DEF SameEndpoints

LEMMA CreateThreadPtr ==
    ASSUME IInv, PtrInv, NEW e \in Endpoint, CreateThread(e)
    PROVE  PtrInv'
<1>1. /\ TypeOK /\ CallInv(e) /\ at[e] \in Sending /\ nextId <= MaxId /\ Prepare(e, nextId, 1)
      /\ UNCHANGED <<log, receipt, ep, joining, walk, rec, hook, faults, seen, told>>
  BY DEF CreateThread, IInv, MailInv, Sending
<1>2. send[e].hash \in Hash /\ send[e].hash.to \in Endpoint
  BY <1>1 DEF CallInv, AskedOf, Hash
<1>3. nextId \in Id /\ BoundInv(send[e].hash.to)
  BY <1>1, <1>2, MailboxAssumption DEF TypeOK, Id, IInv
<1>4. /\ at'[e] = "receipt" /\ \A f \in Endpoint : f # e => at'[f] = at[f]
      /\ send'[e].id = nextId /\ \A f \in Endpoint : f # e => send'[f] = send[f]
      /\ SamePointers /\ nextId' = nextId + 1
  BY <1>1, <1>2, <1>3, PrepareTyped DEF SamePointers
<1>5. QED
  BY <1>1, <1>4, BegunPtr

LEMMA ReplyToThreadPtr ==
    ASSUME IInv, PtrInv, NEW e \in Endpoint, ReplyToThread(e)
    PROVE  PtrInv'
<1>0. PICK t : t = send[e].hash.into
  OBVIOUS
<1>1. /\ TypeOK /\ CallInv(e) /\ at[e] \in Sending /\ nextId <= MaxId /\ t # 0
      /\ UNCHANGED <<log, receipt, ep, joining, walk, rec, hook, faults, seen, told>>
  BY <1>0 DEF ReplyToThread, IInv, MailInv, Sending
<1>2. send[e].hash \in Hash /\ send[e].hash.to \in Endpoint /\ t \in Id
  BY <1>0, <1>1 DEF CallInv, AskedOf, Hash, Id
<1>3. BoundInv(send[e].hash.to) /\ Len(log[t]) + 1 \in Nat
  BY <1>1, <1>2 DEF TypeOK, IInv
<1>4. \/ Return(e) /\ UNCHANGED <<box, nextId>>
      \/ /\ send' = [send EXCEPT ![e].thread = t, ![e].id = nextId,
                       ![e].pos = Len(log[t]) + 1, ![e].outcome = "parked"]
         /\ State(t) = "open" /\ nextId' = nextId + 1
         /\ Goto(e, "park") /\ UNCHANGED box
      \/ Prepare(e, t, Len(log[t]) + 1)
  BY <1>0 DEF ReplyToThread
<1>5. CASE Return(e) /\ UNCHANGED <<box, nextId>>
  BY <1>1, <1>5, EndedPtr DEF SamePointers
<1>6. CASE /\ send' = [send EXCEPT ![e].thread = t, ![e].id = nextId,
                         ![e].pos = Len(log[t]) + 1, ![e].outcome = "parked"]
           /\ State(t) = "open" /\ nextId' = nextId + 1
           /\ Goto(e, "park") /\ UNCHANGED box
  <2>1. send[e] \in Pub /\ send \in [Endpoint -> Pub]
    BY <1>1 DEF TypeOK
  <2>2. send'[e].id = nextId /\ send'[e].thread = t /\ \A f \in Endpoint : f # e => send'[f] = send[f]
    BY <1>6, <2>1 DEF Pub
  <2>3. at'[e] = "park" /\ \A f \in Endpoint : f # e => at'[f] = at[f]
    BY <1>1, <1>6, GotoTyped DEF Sending, Publishing
  <2>4. QED
    BY <1>1, <1>6, <2>2, <2>3, BegunPtr DEF SamePointers
<1>7. CASE Prepare(e, t, Len(log[t]) + 1)
  <2>1. /\ at'[e] = "receipt" /\ \A f \in Endpoint : f # e => at'[f] = at[f]
        /\ send'[e].id = nextId /\ \A f \in Endpoint : f # e => send'[f] = send[f]
        /\ SamePointers /\ nextId' = nextId + 1
    BY <1>1, <1>2, <1>3, <1>7, PrepareTyped DEF SamePointers
  <2>2. QED
    BY <1>1, <2>1, BegunPtr
<1>8. QED
  BY <1>4, <1>5, <1>6, <1>7

LEMMA WriteReceiptPtr ==
    ASSUME IInv, PtrInv, NEW e \in Endpoint, WriteReceipt(e)
    PROVE  PtrInv'
<1>1. /\ at[e] \in {"receipt", "park"} /\ TypeOK /\ nextId \in Nat
      /\ Goto(e, IF at[e] = "park" THEN "parkEntry" ELSE "intent")
      /\ UNCHANGED <<log, box, ep, joining, send, walk, rec, hook, nextId, faults, seen, told>>
  BY DEF WriteReceipt, IInv, MailInv, TypeOK
<1>2. /\ at'[e] = IF at[e] = "park" THEN "parkEntry" ELSE "intent"
      /\ \A f \in Endpoint : f # e => at'[f] = at[f]
  BY <1>1, GotoTyped DEF Sending, Publishing
<1>3. \A x \in Endpoint : Known(x)' = Known(x)
  BY <1>1 DEF Known, Pointers
<1>4. FreshInv(e) /\ ParkInv(e)
  BY DEF PtrInv, SenderInv
<1>5. FreshInv(e)'
  BY <1>1, <1>2, <1>3, <1>4 DEF FreshInv, Numbered
<1>6. SenderInv(e)'
  BY <1>1, <1>2, <1>4, <1>5, SameLog DEF SenderInv, IntentInv, LockInv, ParkInv, AckInv
<1>7. QED
  BY <1>1, <1>2, <1>6, CallPtr DEF SameEndpoints, SamePointers

LEMMA EndingPtr ==
    ASSUME IInv, PtrInv, NEW e \in Endpoint,
           FinalizeReceipt(e) \/ LockTimesOut(e) \/ AnswerPoll(e)
    PROVE  PtrInv'
<1>1. /\ Return(e)
      /\ UNCHANGED <<log, box, ep, joining, rec, nextId>>
  BY DEF FinalizeReceipt, LockTimesOut, AnswerPoll
<1>2. QED
  BY <1>1, EndedPtr DEF SamePointers

LEMMA PersistCursorPtr ==
    ASSUME IInv, PtrInv, NEW e \in Endpoint, PersistCursor(e)
    PROVE  PtrInv'
<1>1. /\ ep' = [ep EXCEPT ![e].polled = Max({@, walk[e].cursor})] /\ Goto(e, "answer")
      /\ UNCHANGED <<log, box, receipt, joining, send, walk, rec, hook, nextId, faults, seen, told>>
      /\ TypeOK /\ nextId \in Nat /\ ep \in [Endpoint -> Record]
  BY DEF PersistCursor, IInv, MailInv, TypeOK
<1>2. SameEndpoints
  BY <1>1 DEF SameEndpoints, Record
<1>3. at'[e] = "answer" /\ \A f \in Endpoint : f # e => at'[f] = at[f]
  BY <1>1, GotoTyped DEF Polling
<1>4. SenderInv(e)'
  BY <1>3, SenderOut DEF Numbered
<1>5. QED
  BY <1>1, <1>2, <1>3, <1>4, CallPtr DEF SamePointers

\* Neither a hook nor the loss of a counter moves a call.
LEMMA AsidePtr ==
    ASSUME IInv, PtrInv, UNCHANGED <<log, at, send, joining, rec, nextId>>, SameEndpoints, SamePointers,
           NEW e \in Endpoint
    PROVE  PtrInv'
<1>1. nextId \in Nat /\ SenderInv(e) /\ MailInv
  BY DEF IInv, MailInv, TypeOK, PtrInv
<1>2. ASSUME NEW x \in Endpoint
      PROVE  Known(x)' = Known(x) /\ box'[x].active = box[x].active
  BY DEF Known, Pointers, SamePointers
<1>3. FreshInv(e)'
  BY <1>1, <1>2 DEF SenderInv, FreshInv, Pointer
<1>4. IntentInv(e)'
  <2>1. at[e] = "commit" => send[e].hash.to \in Endpoint
    BY <1>1, PublishedTyped DEF Publishing
  <2>2. QED
    BY <1>1, <2>1 DEF SenderInv, IntentInv, Pointer, SamePointers
<1>5. SenderInv(e)'
  BY <1>1, <1>3, <1>4, SameLog DEF SenderInv, LockInv, ParkInv, AckInv, Pointer
<1>6. QED
  BY <1>1, <1>5, CallPtr

LEMMA HookPtr ==
    ASSUME IInv, PtrInv, NEW e \in Endpoint,
           ReadPendingCursor(e) \/ ClaimPendingDelivery(e) \/ LoseCounter(e)
    PROVE  PtrInv'
<1>1. TypeOK /\ ep \in [Endpoint -> Record] /\ box \in [Endpoint -> Mailbox]
  BY DEF IInv, MailInv, TypeOK
<1>2. UNCHANGED <<log, at, send, joining, rec, nextId>>
  BY DEF ReadPendingCursor, ClaimPendingDelivery, LoseCounter
<1>3. SameEndpoints
  <2>1. ep' = ep \/ ep' = [ep EXCEPT ![e].blocked = Cursor(hook[e])]
    BY DEF ReadPendingCursor, ClaimPendingDelivery, LoseCounter
  <2>2. QED
    BY <1>1, <2>1 DEF SameEndpoints, Record
<1>4. SamePointers
  <2>1. box' = box \/ box' = [box EXCEPT ![e].next = 1]
    BY DEF ReadPendingCursor, ClaimPendingDelivery, LoseCounter
  <2>2. QED
    BY <1>1, <2>1 DEF SamePointers, Mailbox
<1>5. QED
  BY <1>2, <1>3, <1>4, AsidePtr
----------------------------------------------------------------------------
(* Calls that put a pointer where its message is committed. *)

LEMMA PointerIsCommitted ==
    ASSUME PtrInv, NEW x \in Endpoint, NEW p \in Pointers(x), Messages(p.id) # {}
    PROVE  Committed(p)
<1>1. PICK q \in Messages(p.id) : TRUE
  OBVIOUS
<1>2. q = <<p.thread, p.pos>>
  BY DEF PtrInv, BoxInv, PlaceInv, Placed
<1>3. QED
  BY <1>2 DEF Committed

\* An intent leaves the pending directory only when its message is there.
LEMMA IntentsKept ==
    ASSUME IInv, PtrInv,
           \A y \in Endpoint : \A p \in box[y].pending : p \in box'[y].pending \/ Messages(p.id) # {}
    PROVE  \A f \in Endpoint : at[f] = "commit" => Pointer(send[f]) \in box'[send[f].hash.to].pending
<1> TAKE f \in Endpoint
<1>1. HAVE at[f] = "commit"
<1>2. MailInv /\ IntentInv(f)
  BY DEF IInv, PtrInv, SenderInv
<1>3. send[f].hash.to \in Endpoint
  BY <1>1, <1>2, PublishedTyped DEF Publishing
<1>4. Messages(send[f].id) = {}
  BY <1>1, <1>2, NotYetSent DEF Numbered
<1>5. Pointer(send[f]).id = send[f].id
  BY DEF Pointer
<1>6. QED
  BY <1>1, <1>2, <1>3, <1>4, <1>5 DEF IntentInv

LEMMA DeliverPtr ==
    ASSUME IInv, PtrInv, UNCHANGED <<log, rec, joining, ep, nextId>>, NEW e \in Endpoint,
           \A f \in Endpoint : f # e => at'[f] = at[f] /\ send'[f] = send[f],
           at'[e] \notin Numbered, at'[e] # "ackClean",
           NEW x \in Endpoint, NEW p, Committed(p),
           \A y \in Endpoint : y # x => box'[y] = box[y],
           Pointers(x) \subseteq Pointers(x)',
           box'[x].active \subseteq box[x].active \cup {p},
           box[x].pending \subseteq box'[x].pending \cup {p},
           box'[x].pending \subseteq box[x].pending \cup {p},
           p \in box'[x].pending => \A r \in Messages(p.id) : EntryAt(r).to = x
    PROVE  PtrInv'
<1>1. /\ MailInv /\ nextId \in Nat /\ nextId' \in Nat /\ nextId' >= nextId
  BY DEF IInv, MailInv, TypeOK
<1>2. SameEndpoints /\ Grows
  BY SamePredecessors DEF SameEndpoints
<1>3. \A z \in Endpoint : \A q \in Pointers(z) : q \in Pointers(z)'
  BY DEF Pointers
<1>4. Keeps
  BY <1>2, <1>3, NothingTaken
<1>5. \A f \in Endpoint : at[f] = "commit" => Pointer(send[f]) \in box'[send[f].hash.to].pending
  BY IntentsKept DEF Committed
<1>6. SenderInv(e)'
  BY SenderOut
<1>7. \A f \in Endpoint : SenderInv(f)' \/
         /\ at'[f] = at[f] /\ send'[f] = send[f]
         /\ at[f] = "commit" => Pointer(send[f]) \in box'[send[f].hash.to].pending
  BY <1>5, <1>6
<1>8. \A y \in Endpoint :
         /\ \A q \in Pointers(y)' : q \in Pointers(y) \/ Committed(q)
         /\ \A q \in box'[y].active : q \in box[y].active \/ Committed(q)
         /\ \A q \in box'[y].pending :
               q \in box[y].pending \/ \A r \in Messages(q.id) : EntryAt(r).to = y
         /\ rec'[y] = rec[y] \/ Follows(y)
  BY DEF Pointers
<1>9. QED
  BY <1>1, <1>2, <1>4, <1>7, <1>8, QuietStep DEF SameEndpoints

\* What a retry puts back.
LEMMA RecoveredIsCommitted ==
    ASSUME IInv, PtrInv, NEW e \in Endpoint, at[e] \in {"redeliver", "reactivate"}
    PROVE  /\ Committed(Recovered(e)) /\ send[e].hash.to \in Endpoint
           /\ \A q \in Messages(Recovered(e).id) : EntryAt(q).to = send[e].hash.to
<1>1. PICK p \in Ptr : p = Recovered(e)
  BY RecoveredTyped DEF IInv
<1>2. PICK k \in Key : k = send[e].key
  BY RecoveredTyped DEF IInv
<1>3. /\ MailInv /\ TypeOK /\ MessageAt(p.thread, p.pos) /\ log[p.thread][p.pos].id = p.id
      /\ p.id = receipt[e][k].id /\ send[e].hash.to \in Endpoint /\ p.thread \in Id
  BY <1>1, <1>2, RecoveredTyped DEF IInv, MailInv, Ptr
<1>4. Committed(p)
  BY <1>3, MessageThere DEF Committed
<1>5. receipt[e][k].state = "pending" /\ receipt[e][k].hash = send[e].hash
  BY <1>2, <1>3 DEF MailInv, CallInv, ReceiptOf, Retries, Repeats
<1>6. ASSUME NEW q \in Messages(p.id)
      PROVE  EntryAt(q).to = send[e].hash.to
  <2>1. q \in Places /\ EntryAt(q).type = "message" /\ EntryAt(q).id = p.id
    BY DEF Messages
  <2>2. /\ EntryAt(q).by \in Endpoint /\ EntryAt(q).key \in Key
        /\ q \in Keyed(EntryAt(q).by, EntryAt(q).key)
        /\ Owned(EntryAt(q).by, EntryAt(q).key, p.id)
    BY <1>3, <2>1, MessageIsKeyed
  <2>3. q \in Keyed(e, k)
    <3>1. receipt[e][k].state # "none" /\ Owned(EntryAt(q).by, EntryAt(q).key, receipt[e][k].id)
      BY <1>3, <1>5, <2>2
    <3>2. EntryAt(q).by = e /\ EntryAt(q).key = k
      BY <1>3, <2>2, <3>1 DEF MailInv, IdInv
    <3>3. QED
      BY <2>2, <3>2
  <2>4. EntryAt(q).hash = send[e].hash
    BY <1>3, <1>5, <2>3 DEF MailInv, ReceiptInv
  <2>5. QED
    BY <2>1, <2>4 DEF PtrInv, ToInv
<1>7. QED
  BY <1>1, <1>3, <1>4, <1>6

LEMMA RedeliverPtr ==
    ASSUME IInv, PtrInv, NEW e \in Endpoint, Redeliver(e)
    PROVE  PtrInv'
<1>1. PICK x, p : x = send[e].hash.to /\ p = Recovered(e)
  OBVIOUS
<1>2. /\ at[e] = "redeliver" /\ TypeOK /\ nextId \in Nat
      /\ UNCHANGED <<log, receipt, ep, joining, send, walk, rec, hook, nextId, faults, seen, told>>
      /\ \/ Goto(e, "confirm") /\ UNCHANGED box
         \/ /\ box' = [box EXCEPT ![x].pending = @ \cup {p}]
            /\ Goto(e, "reactivate")
  BY <1>1 DEF Redeliver, IInv, MailInv, TypeOK
<1>3. /\ at'[e] \in {"confirm", "reactivate"}
      /\ \A f \in Endpoint : f # e => at'[f] = at[f]
  BY <1>2, GotoTyped DEF Sending
<1>4. CASE box' = box
  <2>1. SenderInv(e)'
    BY <1>3, SenderOut DEF Numbered
  <2>2. QED
    BY <1>2, <1>3, <1>4, <2>1, CallPtr DEF SameEndpoints, SamePointers
<1>5. CASE box' = [box EXCEPT ![x].pending = @ \cup {p}]
  <2>1. Committed(p) /\ x \in Endpoint /\ p \in Ptr /\ \A q \in Messages(p.id) : EntryAt(q).to = x
    BY <1>1, <1>2, RecoveredIsCommitted, RecoveredTyped DEF IInv
  <2>2. /\ box'[x].active = box[x].active /\ box'[x].pending = box[x].pending \cup {p}
        /\ \A y \in Endpoint : y # x => box'[y] = box[y]
    BY <1>2, <1>5, <2>1, LinkedTyped
  <2>3. Pointers(x) \subseteq Pointers(x)'
    BY <2>2 DEF Pointers
  <2>4. at'[e] \notin Numbered /\ at'[e] # "ackClean"
    BY <1>3 DEF Numbered
  <2>5. QED
    BY <1>2, <1>3, <2>1, <2>2, <2>3, <2>4, DeliverPtr
<1>6. QED
  BY <1>2, <1>4, <1>5

\* A pending pointer is renamed.
LEMMA RenamedBox ==
    ASSUME TypeOK, NEW x \in Endpoint, NEW p, box' = [box EXCEPT ![x] = Renamed(@, p)]
    PROVE  /\ \A y \in Endpoint : y # x => box'[y] = box[y]
           /\ Pointers(x)' = Pointers(x)
           /\ box'[x].active \subseteq box[x].active \cup {p}
           /\ box[x].pending \subseteq box'[x].pending \cup {p}
           /\ box'[x].pending \subseteq box[x].pending
           /\ p \notin box[x].pending => box' = box
<1>1. box \in [Endpoint -> Mailbox] /\ box[x] \in Mailbox
  BY DEF TypeOK
<1>2. box'[x] = Renamed(box[x], p) /\ \A y \in Endpoint : y # x => box'[y] = box[y]
  BY <1>1
<1>3. p \in box[x].pending => /\ box'[x].active = box[x].active \cup {p}
                              /\ box'[x].pending = box[x].pending \ {p}
  BY <1>1, <1>2 DEF Renamed, Mailbox
<1>4. p \notin box[x].pending => box' = box
  BY <1>1, <1>2 DEF Renamed
<1>5. QED
  BY <1>2, <1>3, <1>4 DEF Pointers

LEMMA RenamedPtr ==
    ASSUME IInv, PtrInv, UNCHANGED <<log, rec, joining, ep, nextId>>, NEW e \in Endpoint,
           \A f \in Endpoint : f # e => at'[f] = at[f] /\ send'[f] = send[f],
           at'[e] \notin Numbered, at'[e] # "ackClean",
           NEW x \in Endpoint, NEW p, Messages(p.id) # {},
           box' = [box EXCEPT ![x] = Renamed(@, p)] \/ box' = box
    PROVE  PtrInv'
<1>1. TypeOK /\ nextId \in Nat
  BY DEF IInv, MailInv, TypeOK
<1>2. CASE box' = box
  <2>1. SenderInv(e)'
    BY SenderOut
  <2>2. QED
    BY <1>1, <1>2, <2>1, CallPtr DEF SameEndpoints, SamePointers
<1>3. CASE box' = [box EXCEPT ![x] = Renamed(@, p)] /\ box' # box
  <2>1. /\ \A y \in Endpoint : y # x => box'[y] = box[y]
        /\ Pointers(x)' = Pointers(x) /\ p \in box[x].pending
        /\ box'[x].active \subseteq box[x].active \cup {p}
        /\ box[x].pending \subseteq box'[x].pending \cup {p}
        /\ box'[x].pending \subseteq box[x].pending
    BY <1>1, <1>3, RenamedBox
  <2>2. Committed(p)
    BY <2>1, PointerIsCommitted DEF Pointers
  <2>3. \A r \in Messages(p.id) : EntryAt(r).to = x
    BY <2>1 DEF PtrInv, BoxInv, PlaceInv
  <2>4. QED
    BY <2>1, <2>2, <2>3, DeliverPtr
<1>4. QED
  BY <1>2, <1>3

LEMMA ReactivatePtr ==
    ASSUME IInv, PtrInv, NEW e \in Endpoint, Reactivate(e)
    PROVE  PtrInv'
<1>1. PICK x, p : x = send[e].hash.to /\ p = Recovered(e)
  OBVIOUS
<1>2. /\ at[e] = "reactivate" /\ TypeOK
      /\ UNCHANGED <<log, receipt, ep, joining, walk, rec, hook, nextId, faults, seen, told>>
      /\ \/ box' = [box EXCEPT ![x] = Renamed(@, p)] /\ Goto(e, "confirm") /\ UNCHANGED send
         \/ Return(e) /\ UNCHANGED box
  BY <1>1 DEF Reactivate, IInv, MailInv
<1>3. /\ at'[e] \in {"confirm", "idle"}
      /\ \A f \in Endpoint : f # e => at'[f] = at[f] /\ send'[f] = send[f]
  BY <1>2, GotoTyped, ReturnTyped DEF Sending
<1>4. x \in Endpoint /\ Messages(p.id) # {}
  BY <1>1, <1>2, RecoveredIsCommitted DEF Committed
<1>5. at'[e] \notin Numbered /\ at'[e] # "ackClean"
  BY <1>3 DEF Numbered
<1>6. box' = [box EXCEPT ![x] = Renamed(@, p)] \/ box' = box
  BY <1>2
<1>7. QED
  BY <1>2, <1>3, <1>4, <1>5, <1>6, RenamedPtr

LEMMA ActivatePointerPtr ==
    ASSUME IInv, PtrInv, NEW e \in Endpoint, ActivatePointer(e)
    PROVE  PtrInv'
<1>1. PICK x, p : x = send[e].hash.to /\ p = Pointer(send[e])
  OBVIOUS
<1>2. /\ at[e] = "activate" /\ TypeOK /\ MailInv /\ CallInv(e)
      /\ UNCHANGED <<log, receipt, ep, joining, send, walk, rec, hook, nextId, faults, seen, told>>
      /\ box' = [box EXCEPT ![x] = Renamed(@, p)] \/ box' = box
      /\ Goto(e, "finalize")
  BY <1>1 DEF ActivatePointer, IInv, MailInv
<1>3. at'[e] = "finalize" /\ \A f \in Endpoint : f # e => at'[f] = at[f]
  BY <1>2, GotoTyped DEF Sending, Publishing
<1>4. x \in Endpoint /\ p.id = send[e].id
  BY <1>1, <1>2, PublishedTyped DEF Publishing, Pointer
<1>5. Messages(p.id) # {}
  <2>1. PICK k \in Key : k = send[e].key
    BY <1>2 DEF CallInv, AskedOf, Sending, Publishing
  <2>2. PICK q \in Keyed(e, k) : TRUE
    BY <1>2, <2>1 DEF CallInv, WrittenOf, After
  <2>3. receipt[e][k].id = send[e].id /\ receipt[e][k].outcome = "delivered"
    BY <1>2, <2>1 DEF CallInv, ReceiptOf, PublicationOf, Publishing, Delivers
  <2>4. EntryAt(q).id = send[e].id /\ EntryAt(q).type # "park"
    BY <1>2, <2>3 DEF MailInv, ReceiptInv
  <2>5. q \in Messages(send[e].id)
    BY <2>4 DEF Keyed, Messages
  <2>6. QED
    BY <1>4, <2>5
<1>6. at'[e] \notin Numbered /\ at'[e] # "ackClean"
  BY <1>3 DEF Numbered
<1>7. QED
  BY <1>2, <1>3, <1>4, <1>5, <1>6, RenamedPtr
----------------------------------------------------------------------------
(* Calls that take pointers away. *)

LEMMA TakePtr ==
    ASSUME IInv, PtrInv, UNCHANGED <<log, joining, ep, nextId>>,
           \A y \in Endpoint : rec'[y] = rec[y] \/ Follows(y),
           \A f \in Endpoint : SenderInv(f)' \/ (at'[f] = at[f] /\ send'[f] = send[f]),
           \A y \in Endpoint : box'[y].active \subseteq box[y].active
                               /\ box'[y].pending \subseteq box[y].pending,
           \A y \in Endpoint : \A p \in Pointers(y) : p \in Pointers(y)' \/ ~Lives(p.id),
           \A f \in Endpoint : SenderInv(f)' \/
               (at[f] = "commit" => Pointer(send[f]) \in box'[send[f].hash.to].pending)
    PROVE  PtrInv'
<1>1. nextId \in Nat /\ nextId' \in Nat /\ nextId' >= nextId
  BY DEF IInv, MailInv, TypeOK
<1>2. SameEndpoints /\ Grows
  BY SamePredecessors DEF SameEndpoints
<1>3. Keeps
  BY <1>2, TakenHarmlessly
<1>4. \A y \in Endpoint :
         /\ \A q \in Pointers(y)' : q \in Pointers(y) \/ Committed(q)
         /\ \A q \in box'[y].active : q \in box[y].active \/ Committed(q)
         /\ \A q \in box'[y].pending :
               q \in box[y].pending \/ \A r \in Messages(q.id) : EntryAt(r).to = y
         /\ rec'[y] = rec[y] \/ Follows(y)
  BY DEF Pointers
<1>5. QED
  BY <1>1, <1>2, <1>3, <1>4, QuietStep DEF SameEndpoints

LEMMA SettledHere ==
    ASSUME MailInv, NEW p, Committed(p), Terminal(p.thread, p.id)
    PROVE  ~Lives(p.id)
<1>1. \A r \in Messages(p.id) : r = <<p.thread, p.pos>>
  BY OneOf DEF Committed
<1>2. QED
  BY <1>1 DEF Lives

LEMMA AckedIsSettled ==
    ASSUME MailInv, NEW t \in Id, NEW m \in Acked(t)
    PROVE  Messages(m) # {} /\ ~Lives(m)
<1>1. TypeOK /\ EntryInv(t)
  BY DEF MailInv
<1>2. PICK i \in 1..Len(log[t]) : log[t][i].type = "ack" /\ log[t][i].id = m
  BY DEF Acked
<1>3. PICK j : MessageAt(t, j) /\ log[t][j].id = m
  BY <1>1, <1>2 DEF EntryInv
<1>4. <<t, j>> \in Messages(m)
  BY <1>1, <1>3, MessageThere
<1>5. \A r \in Messages(m) : r = <<t, j>>
  BY <1>4, OneOf
<1>6. QED
  BY <1>4, <1>5 DEF Lives, Terminal

LEMMA NeverSent ==
    ASSUME MailInv, NEW e \in Endpoint, NEW k \in Key, receipt[e][k].state # "none", Keyed(e, k) = {}
    PROVE  Messages(receipt[e][k].id) = {}
<1> SUFFICES ASSUME NEW q \in Messages(receipt[e][k].id)
             PROVE  FALSE
  OBVIOUS
<1>1. q \in Places /\ EntryAt(q).type = "message" /\ EntryAt(q).id = receipt[e][k].id
  BY DEF Messages
<1>2. /\ EntryAt(q).by \in Endpoint /\ EntryAt(q).key \in Key
      /\ q \in Keyed(EntryAt(q).by, EntryAt(q).key)
      /\ Owned(EntryAt(q).by, EntryAt(q).key, receipt[e][k].id)
  BY <1>1, MessageIsKeyed
<1>3. EntryAt(q).by = e /\ EntryAt(q).key = k
  BY <1>2 DEF MailInv, IdInv
<1>4. QED
  BY <1>2, <1>3

LEMMA RecoverReceiptPtr ==
    ASSUME IInv, PtrInv, NEW e \in Endpoint, RecoverReceipt(e)
    PROVE  PtrInv'
<1> DEFINE k == send[e].key
           r == receipt[e][k]
           kind == IF r.outcome = "parked" THEN "park" ELSE "message"
           committed == \E i \in 1..Len(log[r.thread]) :
                           log[r.thread][i].type = kind /\ log[r.thread][i].id = r.id
           kept == [box EXCEPT ![r.hash.to].pending = {p \in @ : p.seq # r.seq \/ p.id # r.id}]
<1>0. MailInv /\ TypeOK /\ nextId \in Nat
  BY DEF IInv, MailInv, TypeOK
<1>1. /\ at[e] = "recover" /\ TypeOK /\ MailInv /\ CallInv(e) /\ at[e] \in Sending /\ nextId \in Nat
      /\ UNCHANGED <<log, ep, joining, walk, rec, hook, nextId, faults, seen, told>>
  BY <1>0 DEF RecoverReceipt, MailInv, Sending
<1>2. k \in Key /\ r.state = "pending" /\ r.hash \in Hash
  <2>1. k \in Key /\ r.state = "pending"
    BY <1>1 DEF CallInv, AskedOf, ReceiptOf, Retries
  <2>2. ReceiptInv(e, k)
    BY <1>1, <2>1 DEF MailInv
  <2>3. QED
    BY <2>1, <2>2 DEF ReceiptInv
<1>3. committed <=> Keyed(e, k) # {}
  BY <1>1, <1>2, CommittedIsKeyed
<1>4. \/ Return(e) /\ UNCHANGED box
      \/ Goto(e, "redeliver") /\ UNCHANGED <<box, send>>
      \/ Afresh(e) /\ UNCHANGED box
      \/ ~committed /\ box' = kept /\ Goto(e, "forget") /\ UNCHANGED send
  BY DEF RecoverReceipt
<1>5. /\ at'[e] \in {"idle", "redeliver", "fresh", "forget"}
      /\ \A f \in Endpoint : f # e => at'[f] = at[f] /\ send'[f] = send[f]
  <2> HIDE DEF kept, committed
  <2>1. Return(e) \/ (send' = send /\ \E l \in {"redeliver", "fresh", "forget"} : Goto(e, l))
    BY <1>4 DEF Afresh
  <2>2. CASE Return(e)
    BY <1>1, <2>2, ReturnTyped
  <2>3. ASSUME send' = send, NEW l \in {"redeliver", "fresh", "forget"}, Goto(e, l)
        PROVE  /\ at'[e] \in {"idle", "redeliver", "fresh", "forget"}
               /\ \A f \in Endpoint : f # e => at'[f] = at[f] /\ send'[f] = send[f]
    BY <1>1, <2>3, GotoTyped DEF Sending
  <2>4. QED
    BY <2>1, <2>2, <2>3
<1>6. SenderInv(e)'
  BY <1>5, SenderOut DEF Numbered
<1>7. CASE box' = box
  BY <1>1, <1>5, <1>6, <1>7, CallPtr DEF SameEndpoints, SamePointers
<1>8. CASE ~committed /\ box' = kept
  <2>0. PICK x \in Endpoint : x = r.hash.to
    BY <1>2 DEF Hash
  <2>1. PICK m : x = r.hash.to /\ m = r.id
    BY <2>0
  <2>2. box[x] \in Mailbox /\ box \in [Endpoint -> Mailbox]
    BY <1>1 DEF TypeOK
  <2>3. /\ \A y \in Endpoint : y # x => box'[y] = box[y]
        /\ box'[x].active = box[x].active /\ box'[x].pending \subseteq box[x].pending
        /\ \A p \in box[x].pending : p \in box'[x].pending \/ p.id = m
    BY <1>8, <2>1, <2>2 DEF Mailbox
  <2>4. Messages(m) = {}
    <3>1. Keyed(e, k) = {} /\ r.state # "none"
      BY <1>2, <1>3, <1>8
    <3>2. Messages(r.id) = {}
      BY <1>1, <1>2, <3>1, NeverSent
    <3>3. QED
      BY <2>1, <3>2
  <2>5. ASSUME NEW f \in Endpoint, at[f] = "commit"
        PROVE  Pointer(send[f]) \in box'[send[f].hash.to].pending
    <3>1. Pointer(send[f]) \in box[send[f].hash.to].pending /\ Pointer(send[f]).id = send[f].id
      BY <2>5 DEF PtrInv, SenderInv, IntentInv, Pointer
    <3>2. send[f].hash.to \in Endpoint
      BY <1>1, <2>5, PublishedTyped DEF Publishing
    <3>3. send[f].id # m
      <4>1. ASSUME send[f].id = m
            PROVE  FALSE
        <5>1. Owned(e, k, send[f].id) /\ at[f] \in Publishing
          BY <1>2, <2>1, <2>5, <4>1 DEF Owned, Publishing
        <5>2. e = f
          BY <1>1, <1>2, <5>1 DEF MailInv, IdInv
        <5>3. QED
          BY <1>1, <2>5, <5>2
      <4>2. QED
        BY <4>1
    <3>4. QED
      BY <2>3, <3>1, <3>2, <3>3
  <2>6. \A y \in Endpoint : box'[y].active \subseteq box[y].active
                            /\ box'[y].pending \subseteq box[y].pending
    BY <2>3
  <2>7. \A y \in Endpoint : \A p \in Pointers(y) : p \in Pointers(y)' \/ ~Lives(p.id)
    <3>1. ~Lives(m)
      BY <2>4 DEF Lives
    <3>2. \A y \in Endpoint : \A p \in Pointers(y) : p \in Pointers(y)' \/ p.id = m
      BY <2>3 DEF Pointers
    <3>3. QED
      BY <3>1, <3>2
  <2>8. QED
    BY <1>1, <1>5, <1>6, <2>5, <2>6, <2>7, TakePtr
<1>9. QED
  <2> HIDE DEF committed, kept
  <2> QED  BY <1>4, <1>7, <1>8 DEF Afresh

LEMMA AckCleanPtr ==
    ASSUME IInv, PtrInv, NEW e \in Endpoint, AckClean(e)
    PROVE  PtrInv'
<1> DEFINE mine == {p \in Listing(box[e].active, box[e].pending) : p.id = send[e].id}
<1>1. /\ TypeOK /\ MailInv /\ at[e] = "ackClean" /\ box \in [Endpoint -> Mailbox] /\ Return(e)
      /\ box' = [box EXCEPT ![e].active = @ \ mine, ![e].pending = @ \ mine]
      /\ UNCHANGED <<log, receipt, ep, joining, walk, rec, hook, nextId, faults, seen, told>>
  BY DEF AckClean, IInv, MailInv, TypeOK
<1>2. \A p \in mine : p.id = send[e].id
  OBVIOUS
<1> HIDE DEF mine
<1>3. /\ \A y \in Endpoint : y # e => box'[y] = box[y]
      /\ box'[e].active = box[e].active \ mine /\ box'[e].pending = box[e].pending \ mine
  BY <1>1 DEF Mailbox
<1>4. PICK m : m = send[e].id
  OBVIOUS
<1>5. Messages(m) # {} /\ ~Lives(m)
  <2>1. send[e].thread \in Id /\ m \in Acked(send[e].thread)
    BY <1>1, <1>4 DEF PtrInv, SenderInv, AckInv, Threads
  <2>2. QED
    BY <1>1, <2>1, AckedIsSettled
<1>6. \A y \in Endpoint : box'[y].active \subseteq box[y].active
                          /\ box'[y].pending \subseteq box[y].pending
  BY <1>3
<1>7. \A y \in Endpoint : \A p \in Pointers(y) : p \in Pointers(y)' \/ p.id = m
  BY <1>2, <1>3, <1>4 DEF Pointers
<1>8. \A f \in Endpoint : at[f] = "commit" => Pointer(send[f]) \in box'[send[f].hash.to].pending
  <2>1. \A y \in Endpoint : \A p \in box[y].pending : p \in box'[y].pending \/ p.id = m
    BY <1>2, <1>3, <1>4
  <2>2. QED
    BY <1>5, <2>1, IntentsKept
<1>9. at'[e] = "idle" /\ \A f \in Endpoint : f # e => at'[f] = at[f] /\ send'[f] = send[f]
  BY <1>1, ReturnTyped
<1>10. SenderInv(e)'
  BY <1>9, SenderOut DEF Numbered
<1>11. QED
  BY <1>1, <1>5, <1>6, <1>7, <1>8, <1>9, <1>10, TakePtr

LEMMA WalkPointerPtr ==
    ASSUME IInv, PtrInv, NEW e \in Endpoint, WalkPointer(e)
    PROVE  PtrInv'
<1>0. PICK p : p = First(walk[e].left)
  OBVIOUS
<1>1. /\ TypeOK /\ MailInv /\ box \in [Endpoint -> Mailbox] /\ walk[e] \in Walk /\ walk[e].left # {}
      /\ UNCHANGED <<log, receipt, ep, joining, at, send, rec, hook, nextId, faults, seen, told>>
  BY DEF WalkPointer, WalkOver, IInv, MailInv, TypeOK
<1>2. p \in Ptr
  BY <1>0, <1>1, FirstOfThem DEF Walk
<1>3. \/ UNCHANGED box
      \/ MatchesCanonical(p, Addressees(e)) /\ Terminal(p.thread, p.id) /\ RemovePointer(e, p)
  BY <1>0 DEF WalkPointer
<1>4. CASE UNCHANGED box
  BY <1>1, <1>4, AsidePtr DEF SameEndpoints, SamePointers
<1>5. CASE MatchesCanonical(p, Addressees(e)) /\ Terminal(p.thread, p.id) /\ RemovePointer(e, p)
  <2>1. Committed(p)
    BY <1>1, <1>2, <1>5, MatchedIsThere DEF Committed
  <2>2. ~Lives(p.id)
    BY <1>1, <1>5, <2>1, SettledHere
  <2>3. /\ \A y \in Endpoint : y # e => box'[y] = box[y]
        /\ box'[e].active = box[e].active \ {p} /\ box'[e].pending = box[e].pending \ {p}
    BY <1>1, <1>5 DEF RemovePointer, Mailbox
  <2>4. \A f \in Endpoint : at[f] = "commit" => Pointer(send[f]) \in box'[send[f].hash.to].pending
    <3>1. \A y \in Endpoint : \A q \in box[y].pending : q \in box'[y].pending \/ q = p
      BY <2>3
    <3>2. QED
      BY <2>1, <3>1, IntentsKept DEF Committed
  <2>5. \A y \in Endpoint : box'[y].active \subseteq box[y].active
                            /\ box'[y].pending \subseteq box[y].pending
    BY <2>3
  <2>6. \A y \in Endpoint : \A q \in Pointers(y) : q \in Pointers(y)' \/ q = p
    BY <2>3 DEF Pointers
  <2>7. QED
    BY <1>1, <2>2, <2>4, <2>5, <2>6, TakePtr
<1>6. QED
  BY <1>3, <1>4, <1>5
----------------------------------------------------------------------------
(* The intent of a publication, and calls that fail. *)

LEMMA PublishPointerIntentPtr ==
    ASSUME IInv, PtrInv, NEW e \in Endpoint, PublishPointerIntent(e)
    PROVE  PtrInv'
<1>0. MailInv /\ TypeOK /\ nextId \in Nat
  BY DEF IInv, MailInv, TypeOK
<1>1. /\ at[e] = "intent" /\ at[e] \in Publishing /\ at[e] \in Numbered
      /\ box' = [box EXCEPT ![send[e].hash.to].pending = @ \cup {Pointer(send[e])}]
      /\ Goto(e, "commit")
      /\ UNCHANGED <<log, receipt, ep, joining, send, walk, rec, hook, nextId, faults, seen, told>>
  BY DEF PublishPointerIntent, Publishing, Numbered
<1>2. at'[e] = "commit" /\ \A f \in Endpoint : f # e => at'[f] = at[f]
  BY <1>0, <1>1, GotoTyped DEF Sending, Publishing
<1>3. PICK x \in Endpoint : x = send[e].hash.to
  BY <1>0, <1>1, PublishedTyped
<1>4. PICK p \in Ptr : p = Pointer(send[e])
  BY <1>0, <1>1, PublishedTyped
<1>5. p.id = send[e].id /\ p.id < nextId /\ Messages(p.id) = {}
  <2>1. p.id = send[e].id
    BY <1>4 DEF Pointer
  <2>2. send[e].id < nextId
    BY <1>0, <1>1 DEF MailInv, CallInv, PublicationOf
  <2>3. QED
    BY <1>0, <1>1, <2>1, <2>2, NotYetSent
<1>6. /\ box'[x].active = box[x].active /\ box'[x].pending = box[x].pending \cup {p}
      /\ \A y \in Endpoint : y # x => box'[y] = box[y]
  BY <1>0, <1>1, <1>3, <1>4, LinkedTyped
<1>7. /\ LineInv' /\ Grows
  <2>1. joining # None => joining.new \in Endpoint /\ joining.old \in Endpoint
    BY <1>0 DEF TypeOK
  <2>2. QED
    BY <1>1, <2>1, SameLine DEF PtrInv
<1>8. Keeps
  <2>1. \A z \in Endpoint : \A q \in Pointers(z) : q \in Pointers(z)'
    BY <1>6 DEF Pointers
  <2>2. QED
    BY <1>7, <2>1, NothingTaken
<1>9. \A y \in Endpoint : \A q \in Known(y)' : q \in Known(y) \/ (q = p /\ y = x)
  BY <1>1, <1>6 DEF Known, Pointers
<1>10. \A y \in Endpoint : BoxInv(y)'
  <2> TAKE y \in Endpoint
  <2>1. \A q \in Known(y)' : q \in Known(y) \/ q.id < nextId'
    BY <1>1, <1>5, <1>9
  <2>2. \A q \in Pointers(y)' : q \in Pointers(y) \/ Placed(q)
    BY <1>5, <1>6 DEF Pointers, Placed
  <2>3. \A q \in box'[y].pending : q \in box[y].pending \/ \A r \in Messages(q.id) : EntryAt(r).to = y
    BY <1>5, <1>6
  <2>4. /\ rec'[y].at \in {"list2", "sweep"} => \A q \in rec'[y].listed :
               Held(y, q.id) \/ (rec[y].at \in {"list2", "sweep"} /\ q \in rec[y].listed)
        /\ \A d \in rec'[y].dirs : d \in rec[y].dirs \/ d[1] \in Addressees(y) \ {y}
        /\ rec'[y].at = "intent" => rec'[y].todo # {} \/ rec'[y] = rec[y]
    BY <1>1
  <2>5. QED
    BY <1>0, <1>1, <1>7, <1>8, <2>1, <2>2, <2>3, <2>4, BoxKept
<1>11. ASSUME NEW f \in Endpoint, f # e
       PROVE  SenderInv(f)'
  <2>1. at'[f] = at[f] /\ send'[f] = send[f]
    BY <1>1, <1>2, <1>11
  <2>2. Unmet(f, p)
    BY <1>0, <1>1, <1>5, <1>11 DEF Unmet, Numbered, Publishing, MailInv, Apart
  <2>3. ASSUME NEW y \in Endpoint
        PROVE  /\ \A q \in Known(y)' : q \in Known(y) \/ Unmet(f, q)
               /\ \A q \in box'[y].active : q \in box[y].active \/ Unmet(f, q)
               /\ rec'[y] = rec[y] \/ Waits(y, f)
    BY <1>1, <1>6, <1>9, <2>2
  <2>4. at[f] = "commit" => Pointer(send[f]) \in box'[send[f].hash.to].pending
    <3>1. \A y \in Endpoint : \A q \in box[y].pending : q \in box'[y].pending \/ Messages(q.id) # {}
      BY <1>6
    <3>2. QED
      BY <3>1, IntentsKept
  <2>5. QED
    BY <1>1, <2>1, <2>3, <2>4, SenderKept
<1>12. SenderInv(e)'
  <2>1. \A y \in Endpoint : /\ \A q \in Known(y) : q.id # send[e].id
                            /\ \A q \in box[y].active : q.id # send[e].id
    BY <1>1 DEF PtrInv, SenderInv, FreshInv
  <2>2. Pointer(send[e])' = p /\ send'[e] = send[e]
    BY <1>1, <1>4 DEF Pointer
  <2>3. FreshInv(e)'
    <3>1. ASSUME NEW y \in Endpoint, NEW q \in Known(y)', q.id = send'[e].id
          PROVE  y = send'[e].hash.to /\ q = Pointer(send[e])'
      BY <1>3, <1>9, <2>1, <2>2, <3>1
    <3>2. ASSUME NEW y \in Endpoint, NEW q \in box'[y].active
          PROVE  q.id # send'[e].id
      BY <1>6, <2>1, <2>2, <3>2
    <3>3. QED
      BY <1>2, <3>1, <3>2 DEF FreshInv
  <2>4. IntentInv(e)'
    BY <1>3, <1>6, <2>2 DEF IntentInv
  <2>5. LockInv(e)'
    <3>1. ASSUME NEW y \in Endpoint, rec[y].at = "intent", First(rec[y].todo) = p
          PROVE  FALSE
      <4>1. rec[y].todo # {} /\ rec[y].todo \in SUBSET Ptr
        BY <1>0, <3>1 DEF PtrInv, BoxInv, ListInv, TypeOK, Rec
      <4>2. p \in Known(y)
        BY <3>1, <4>1, FirstOfThem DEF Known
      <4>3. QED
        BY <1>5, <2>1, <4>2
    <3>2. QED
      BY <1>1, <2>2, <3>1 DEF LockInv
  <2>6. ParkInv(e)' /\ AckInv(e)'
    BY <1>2 DEF ParkInv, AckInv
  <2>7. QED
    BY <2>3, <2>4, <2>5, <2>6 DEF SenderInv
<1>13. QED
  BY <1>0, <1>1, <1>7, <1>8, <1>10, <1>11, <1>12, QuietPtr

\* A reconciliation that is given up knows nothing.
LEMMA GivenUp ==
    ASSUME NEW x \in Endpoint, rec'[x] = NoRec
    PROVE  Follows(x)
BY DEF Follows, NoRec, Waits

\* The mailboxes stay, the reconciliations go on.
LEMMA SameBoxPtr ==
    ASSUME IInv, PtrInv, UNCHANGED <<log, joining, ep, nextId>>, SamePointers,
           \A y \in Endpoint : rec'[y] = rec[y] \/ Follows(y),
           \A f \in Endpoint : SenderInv(f)' \/ (at'[f] = at[f] /\ send'[f] = send[f])
    PROVE  PtrInv'
<1>1. \A f \in Endpoint : at[f] = "commit" => Pointer(send[f]) \in box'[send[f].hash.to].pending
  BY IntentsKept DEF SamePointers
<1>2. \A y \in Endpoint : Pointers(y)' = Pointers(y)
  BY DEF Pointers, SamePointers
<1>3. QED
  BY <1>1, <1>2, TakePtr DEF SamePointers

LEMMA FailurePtr ==
    ASSUME IInv, PtrInv, NEW e \in Endpoint, CallFails(e) \/ SetupFails(e)
    PROVE  PtrInv'
<1>0. TypeOK /\ rec \in [Endpoint -> Rec]
  BY DEF IInv, MailInv, TypeOK
<1>1. /\ UNCHANGED <<log, box, receipt, ep, joining, hook, nextId, seen, told>>
      /\ Return(e) \/ UNCHANGED <<at, send>>
      /\ \/ rec' = [rec EXCEPT ![e] = IF at[e] = "reconcile" THEN NoRec ELSE @]
         \/ rec' = [rec EXCEPT ![e] = NoRec]
  BY DEF CallFails, SetupFails, Advance
<1>2. \A y \in Endpoint : rec'[y] = rec[y] \/ rec'[y] = NoRec
  BY <1>0, <1>1
<1>3. \A y \in Endpoint : rec'[y] = rec[y] \/ Follows(y)
  BY <1>2, GivenUp
<1>4. CASE Return(e)
  <2>1. at'[e] = "idle" /\ \A f \in Endpoint : f # e => at'[f] = at[f] /\ send'[f] = send[f]
    BY <1>0, <1>4, ReturnTyped
  <2>2. SenderInv(e)'
    BY <2>1, SenderOut DEF Numbered
  <2>3. QED
    BY <1>1, <1>3, <2>1, <2>2, SameBoxPtr DEF SamePointers
<1>5. CASE UNCHANGED <<at, send>>
  BY <1>1, <1>3, <1>5, SameBoxPtr DEF SamePointers
<1>6. QED
  BY <1>1, <1>4, <1>5
----------------------------------------------------------------------------
(* Reconciliation. *)

\* A step of x's reconciliation that leaves the mailboxes alone.
LEMMA AdvancePtr ==
    ASSUME IInv, PtrInv, UNCHANGED <<log, joining, ep, nextId>>, SamePointers,
           NEW x \in Endpoint, Follows(x), \A y \in Endpoint : y # x => rec'[y] = rec[y],
           \A f \in Endpoint : /\ at'[f] = at[f] \/ (at'[f] \notin Numbered /\ at'[f] # "ackClean")
                               /\ send'[f] = send[f]
    PROVE  PtrInv'
<1>1. \A y \in Endpoint : rec'[y] = rec[y] \/ Follows(y)
  OBVIOUS
<1>2. \A f \in Endpoint : SenderInv(f)' \/ (at'[f] = at[f] /\ send'[f] = send[f])
  BY SenderOut
<1>3. QED
  BY <1>1, <1>2, SameBoxPtr

LEMMA OwnIsHeld ==
    ASSUME TypeOK, NEW x \in Endpoint, NEW p \in Pointers(x)
    PROVE  Held(x, p.id)
<1>1. x \in Addressees(x) /\ p.id \in Ids(Pointers(x))
  BY Inheritance DEF Ids
<1>2. QED
  BY <1>1 DEF Held

LEMMA BegunFollows ==
    ASSUME IInv, PtrInv, NEW x \in Endpoint, NEW by \in {"poll", "setup"}, Advance(x, Begun(x, by))
    PROVE  Follows(x) /\ \A y \in Endpoint : y # x => rec'[y] = rec[y]
<1>1. TypeOK /\ Begun(x, by) \in Rec
  BY BegunFits DEF IInv, MailInv
<1>2. rec'[x] = Begun(x, by) /\ \A y \in Endpoint : y # x => rec'[y] = rec[y]
  BY <1>1, AdvanceTyped
<1>3. /\ Begun(x, by).at = "intents" /\ Begun(x, by).todo = box[x].pending
      /\ Begun(x, by).listed = {} /\ Begun(x, by).dirs = {}
  BY DEF Begun, NoRec
<1>4. QED
  BY <1>2, <1>3 DEF Follows, Waits, Known, Pointers

LEMMA BeginPtr ==
    ASSUME IInv, PtrInv, NEW x \in Endpoint, StartPoll(x) \/ MaterializeSuccessorMailbox(x)
    PROVE  PtrInv'
<1>1. TypeOK
  BY DEF IInv, MailInv
<1>2. /\ UNCHANGED <<log, box, receipt, ep, joining, send, walk, hook, nextId, faults, seen, told>>
      /\ Advance(x, Begun(x, "poll")) \/ Advance(x, Begun(x, "setup"))
      /\ Goto(x, "reconcile") \/ UNCHANGED at
  BY DEF StartPoll, MaterializeSuccessorMailbox
<1>3. Follows(x) /\ \A y \in Endpoint : y # x => rec'[y] = rec[y]
  BY <1>2, BegunFollows
<1>4. \A f \in Endpoint : at'[f] = at[f] \/ (at'[f] \notin Numbered /\ at'[f] # "ackClean")
  <2>1. CASE Goto(x, "reconcile")
    BY <1>1, <2>1, GotoTyped DEF Polling, Numbered
  <2>2. QED
    BY <1>2, <2>1
<1>5. QED
  BY <1>2, <1>3, <1>4, AdvancePtr DEF SamePointers

\* The lock a reconciliation waits for is the publisher's.
LEMMA IntentLock ==
    ASSUME IInv, NEW f \in Endpoint, at[f] = "commit"
    PROVE  (IF Pointer(send[f]).thread \in Threads THEN Pointer(send[f]).thread ELSE 0) = send[f].hash.into
<1>1. /\ CallInv(f) /\ TypeOK /\ at[f] \in Publishing /\ at[f] \in Numbered /\ at[f] \in Sending
  BY DEF IInv, MailInv, Publishing, Numbered, Sending
<1>2. /\ Pointer(send[f]).thread = send[f].thread
      /\ send[f].thread = IF send[f].hash.into = 0 THEN send[f].id ELSE send[f].hash.into
      /\ send[f].hash.into = 0 => send[f].pos = 1
      /\ Len(log[send[f].thread]) = send[f].pos - 1
      /\ send[f].hash.into # 0 => log[send[f].hash.into] # <<>>
      /\ send[f].hash \in Hash /\ send[f].id \in Id
  BY <1>1 DEF CallInv, AskedOf, PublicationOf, Pointer
<1>3. CASE send[f].hash.into = 0
  <2>1. Len(log[send[f].id]) = 0
    BY <1>2, <1>3
  <2>2. log[send[f].id] = <<>>
    BY <1>1, <1>2, <2>1 DEF TypeOK
  <2>3. QED
    BY <1>2, <1>3, <2>2 DEF Threads
<1>4. CASE send[f].hash.into # 0
  BY <1>2, <1>4 DEF Threads, Hash, Id
<1>5. QED
  BY <1>3, <1>4

LEMMA PickIntentPtr ==
    ASSUME IInv, PtrInv, NEW x \in Endpoint, PickIntent(x)
    PROVE  PtrInv'
<1> DEFINE p == First(rec[x].todo)
           l == IF p.thread \in Threads THEN p.thread ELSE 0
           r == IF p \notin box[x].pending THEN [rec[x] EXCEPT !.todo = @ \ {p}]
                ELSE [rec[x] EXCEPT !.at = "intent", !.lockOn = l]
<1>0. TypeOK /\ rec[x] \in Rec /\ rec \in [Endpoint -> Rec]
  BY DEF IInv, MailInv, TypeOK
<1>1. /\ rec[x].at = "intents" /\ rec[x].todo # {} /\ Advance(x, r)
      /\ UNCHANGED <<log, box, receipt, ep, joining, at, send, walk, hook, nextId, faults, seen, told>>
  BY <1>0 DEF PickIntent
<1>2. PICK q, n : q = p /\ n = l
  OBVIOUS
<1>3. /\ rec'[x] = r /\ \A y \in Endpoint : y # x => rec'[y] = rec[y]
  <2> HIDE DEF r
  <2> QED  BY <1>0, <1>1 DEF Advance
<1>4. /\ rec'[x].listed = rec[x].listed /\ rec'[x].dirs = rec[x].dirs
      /\ \/ rec'[x].at = "intents" /\ rec'[x].todo = rec[x].todo \ {q}
         \/ rec'[x].at = "intent" /\ rec'[x].todo = rec[x].todo /\ rec'[x].lockOn = n
  <2> HIDE DEF p, l
  <2> QED  BY <1>0, <1>1, <1>2, <1>3 DEF Rec
<1>5. \A f \in Endpoint : Waits(x, f)
  <2> SUFFICES ASSUME NEW f \in Endpoint, at[f] = "commit", rec'[x].at = "intent",
                      First(rec'[x].todo) = Pointer(send[f])
               PROVE  rec'[x].lockOn = send[f].hash.into
    BY DEF Waits
  <2>1. rec'[x].todo = rec[x].todo /\ rec'[x].lockOn = n
    BY <1>4
  <2>2. p = Pointer(send[f])
    BY <2>1
  <2>3. n = send[f].hash.into
    BY <1>2, <2>2, IntentLock
  <2>4. QED
    BY <2>1, <2>3
<1> HIDE DEF p, l, r
<1>6. Follows(x)
  BY <1>1, <1>4, <1>5 DEF Follows, Known
<1>7. QED
  BY <1>1, <1>3, <1>6, AdvancePtr DEF SamePointers

LEMMA ListActivePtr ==
    ASSUME IInv, PtrInv, NEW x \in Endpoint, ListActive(x)
    PROVE  PtrInv'
<1>0. TypeOK /\ rec[x] \in Rec /\ rec \in [Endpoint -> Rec]
  BY DEF IInv, MailInv, TypeOK
<1>1. /\ rec' = [rec EXCEPT ![x] = [rec[x] EXCEPT !.at = "list2", !.listed = box[x].active]]
      /\ UNCHANGED <<log, box, receipt, ep, joining, at, send, walk, hook, nextId, faults, seen, told>>
  BY DEF ListActive, Advance
<1>2. /\ rec'[x].at = "list2" /\ rec'[x].listed = box[x].active
      /\ rec'[x].todo = rec[x].todo /\ rec'[x].dirs = rec[x].dirs
      /\ \A y \in Endpoint : y # x => rec'[y] = rec[y]
  BY <1>0, <1>1 DEF Rec
<1>3. \A p \in box[x].active : p \in Known(x) /\ Held(x, p.id)
  BY <1>0, OwnIsHeld DEF Known, Pointers
<1>4. Follows(x)
  BY <1>2, <1>3 DEF Follows, Waits, Known
<1>5. QED
  BY <1>1, <1>2, <1>4, AdvancePtr DEF SamePointers

LEMMA ListPendingPtr ==
    ASSUME IInv, PtrInv, NEW x \in Endpoint, ListPending(x)
    PROVE  PtrInv'
<1> DEFINE listed == Listing(rec[x].listed, box[x].pending)
           known == [rec[x] EXCEPT !.at = "scan", !.known = Ids(listed),
                                   !.threads = Threads, !.listed = {}]
           going == [rec[x] EXCEPT !.at = rec[x].next, !.listed = listed]
<1>0. TypeOK /\ rec[x] \in Rec /\ rec \in [Endpoint -> Rec]
  BY DEF IInv, MailInv, TypeOK
<1>1. /\ rec[x].at = "list2"
      /\ UNCHANGED <<log, box, receipt, ep, joining, send, hook, nextId, faults, seen, told>>
  BY DEF ListPending
<1>2. /\ \/ Advance(x, known)
         \/ rec[x].next \in {"create", "sweep"} /\ Advance(x, going)
         \/ Advance(x, NoRec)
      /\ UNCHANGED at \/ Goto(x, "walk")
  <2>1. rec[x].next \in {"known", "create", "sweep", "done"}
    BY <1>0 DEF Rec
  <2>2. /\ rec[x].next = "known" => Advance(x, known) /\ UNCHANGED <<at, walk>>
        /\ rec[x].next \in {"create", "sweep"} => Advance(x, going) /\ UNCHANGED <<at, walk>>
        /\ rec[x].next = "done" =>
              /\ Advance(x, NoRec)
              /\ UNCHANGED at \/ Goto(x, "walk")
    BY <2>1 DEF ListPending
  <2> HIDE DEF known, going
  <2>3. QED
    BY <2>1, <2>2
<1>3. \A p \in listed : p \in rec[x].listed \/ p \in box[x].pending
  BY DEF Listing
<1>4. PICK L : L = listed
  OBVIOUS
<1> HIDE DEF listed
<1>5. /\ \A y \in Endpoint : y # x => rec'[y] = rec[y]
      /\ \/ rec'[x] = NoRec
         \/ /\ rec'[x].todo = rec[x].todo /\ rec'[x].dirs = rec[x].dirs
            /\ \/ rec'[x].at = "scan" /\ rec'[x].listed = {}
               \/ rec'[x].at \in {"create", "sweep"} /\ rec'[x].listed = L
  <2>1. CASE Advance(x, known)
    BY <1>0, <2>1 DEF Advance, Rec
  <2>2. CASE rec[x].next \in {"create", "sweep"} /\ Advance(x, going)
    BY <1>0, <1>4, <2>2 DEF Advance, Rec
  <2>3. CASE Advance(x, NoRec)
    BY <1>0, <2>3 DEF Advance
  <2>4. QED
    BY <1>2, <2>1, <2>2, <2>3
<1>6. \A p \in L : p \in Known(x) /\ (p \in rec[x].listed \/ Held(x, p.id))
  <2>1. ASSUME NEW p \in box[x].pending
        PROVE  p \in Pointers(x) /\ Held(x, p.id)
    BY <1>0, <2>1, OwnIsHeld DEF Pointers
  <2>2. QED
    BY <1>3, <1>4, <2>1 DEF Known
<1>7. Follows(x)
  <2>1. CASE rec'[x] = NoRec
    BY <2>1, GivenUp
  <2>2. CASE /\ rec'[x].todo = rec[x].todo /\ rec'[x].dirs = rec[x].dirs
             /\ \/ rec'[x].at = "scan" /\ rec'[x].listed = {}
                \/ rec'[x].at \in {"create", "sweep"} /\ rec'[x].listed = L
    BY <1>1, <1>6, <2>2 DEF Follows, Waits, Known
  <2>3. QED
    BY <1>5, <2>1, <2>2
<1>8. \A f \in Endpoint : at'[f] = at[f] \/ (at'[f] \notin Numbered /\ at'[f] # "ackClean")
  <2>1. CASE Goto(x, "walk")
    BY <1>0, <2>1, GotoTyped DEF Polling, Numbered
  <2>2. QED
    BY <1>2, <2>1
<1>9. QED
  BY <1>1, <1>5, <1>7, <1>8, AdvancePtr DEF SamePointers

LEMMA ScanPtr ==
    ASSUME IInv, PtrInv, NEW x \in Endpoint, FoldThread(x) \/ EndScan(x)
    PROVE  PtrInv'
<1>0. TypeOK /\ rec[x] \in Rec /\ rec \in [Endpoint -> Rec]
  BY DEF IInv, MailInv, TypeOK
<1>1. UNCHANGED <<log, box, receipt, ep, joining, at, send, walk, hook, nextId, faults, seen, told>>
  BY DEF FoldThread, EndScan
<1>2. PICK D : D = AncestorDirs(x)
  OBVIOUS
<1>3. /\ rec'[x].at \in {"scan", "list"} /\ rec'[x].listed = rec[x].listed
      /\ rec'[x].todo = rec[x].todo /\ rec'[x].dirs \in {rec[x].dirs, D}
      /\ \A y \in Endpoint : y # x => rec'[y] = rec[y]
  <2>1. CASE EndScan(x)
    <3>1. \E n : rec' = [rec EXCEPT ![x] = [rec[x] EXCEPT !.at = "list", !.dirs = D, !.known = {},
                                                !.next = n]]
      BY <1>2, <2>1 DEF EndScan, Advance
    <3>2. QED
      BY <1>0, <3>1 DEF Rec
  <2>2. CASE FoldThread(x)
    <3>1. \E t, m : \E l \in {"scan", "list"} :
             rec' = [rec EXCEPT ![x] = [rec[x] EXCEPT !.threads = @ \ {t}, !.missing = m,
                                                      !.next = "create", !.at = l]]
      <4>1. PICK t \in rec[x].threads :
              \E m : Advance(x, [rec[x] EXCEPT !.threads = @ \ {t}, !.missing = m, !.next = "create",
                                               !.at = IF m = {} THEN "scan" ELSE "list"])
        BY <2>2 DEF FoldThread
      <4>2. QED
        BY <4>1 DEF Advance
    <3>2. QED
      BY <1>0, <3>1 DEF Rec
  <2>3. QED
    BY <2>1, <2>2
<1>4. \A d \in D : d[1] \in Addressees(x) \ {x}
  BY <1>2 DEF AncestorDirs
<1>5. Follows(x)
  BY <1>3, <1>4 DEF Follows, Waits, Known
<1>6. QED
  BY <1>1, <1>3, <1>5, AdvancePtr DEF SamePointers

LEMMA PointedFollows ==
    ASSUME IInv, PtrInv, NEW x \in Endpoint, Pointed(x)
    PROVE  Follows(x) /\ \A y \in Endpoint : y # x => rec'[y] = rec[y]
<1> DEFINE rest == rec[x].missing \ {FirstMissing(x)}
           r == [rec[x] EXCEPT !.missing = rest, !.known = @ \cup {MissingId(x)},
                      !.listed = {}, !.seq = 0, !.at = IF rest = {} THEN "scan" ELSE "list"]
<1>1. Advance(x, r)
  BY DEF Pointed
<1>2. rec[x] \in Rec /\ rec \in [Endpoint -> Rec]
  BY DEF IInv, MailInv, TypeOK
<1> HIDE DEF rest
<1>3. /\ r.todo = rec[x].todo /\ r.listed = {} /\ r.dirs = rec[x].dirs
      /\ r.at \in {"scan", "list"}
  BY <1>2 DEF Rec
<1> HIDE DEF r
<1>4. rec'[x] = r /\ \A y \in Endpoint : y # x => rec'[y] = rec[y]
  BY <1>1, <1>2 DEF Advance
<1>5. QED
  BY <1>3, <1>4 DEF Follows, Waits, Known

LEMMA AllocatePointerPtr ==
    ASSUME IInv, PtrInv, NEW x \in Endpoint, AllocatePointer(x)
    PROVE  PtrInv'
<1>0. TypeOK /\ rec[x] \in Rec /\ rec \in [Endpoint -> Rec] /\ box \in [Endpoint -> Mailbox]
  BY DEF IInv, MailInv, TypeOK
<1>1. /\ rec[x].at = "create"
      /\ UNCHANGED <<log, receipt, ep, joining, at, send, walk, hook, nextId, faults, seen, told>>
      /\ \/ Pointed(x) /\ UNCHANGED box
         \/ /\ box' = [box EXCEPT ![x].next = AllocSeq(x) + 1]
            /\ Advance(x, [rec[x] EXCEPT !.at = "write", !.seq = AllocSeq(x)])
  BY DEF AllocatePointer
<1>2. CASE Pointed(x) /\ UNCHANGED box
  BY <1>1, <1>2, PointedFollows, AdvancePtr DEF SamePointers
<1>3. CASE /\ box' = [box EXCEPT ![x].next = AllocSeq(x) + 1]
           /\ Advance(x, [rec[x] EXCEPT !.at = "write", !.seq = AllocSeq(x)])
  <2>1. SamePointers
    BY <1>0, <1>3 DEF SamePointers, Mailbox
  <2>2. /\ rec'[x].todo = rec[x].todo /\ rec'[x].listed = rec[x].listed
        /\ rec'[x].dirs = rec[x].dirs /\ rec'[x].at = "write"
        /\ \A y \in Endpoint : y # x => rec'[y] = rec[y]
    BY <1>0, <1>3 DEF Advance, Rec
  <2>3. Follows(x)
    BY <2>2 DEF Follows, Waits, Known
  <2>4. QED
    BY <1>1, <2>1, <2>2, <2>3, AdvancePtr
<1>4. QED
  BY <1>1, <1>2, <1>3

LEMMA CreatePointerPtr ==
    ASSUME IInv, PtrInv, NEW x \in Endpoint, CreatePointer(x)
    PROVE  PtrInv'
<1> DEFINE p == [seq |-> rec[x].seq, id |-> MissingId(x),
                 thread |-> FirstMissing(x).thread, pos |-> FirstMissing(x).pos]
<1>0. TypeOK /\ MailInv /\ box \in [Endpoint -> Mailbox] /\ nextId \in Nat
  BY DEF IInv, MailInv, TypeOK
<1>1. /\ rec[x].at = "write" /\ box' = [box EXCEPT ![x].active = @ \cup {p}] /\ Pointed(x)
      /\ UNCHANGED <<log, receipt, ep, joining, at, send, walk, hook, nextId, faults, seen, told>>
  BY DEF CreatePointer
<1>2. Committed(p)
  <2>1. FirstMissing(x) \in Place /\ MessageAt(FirstMissing(x).thread, FirstMissing(x).pos)
    BY <1>1, MissingIsThere
  <2>2. FirstMissing(x).thread \in Id
    BY <2>1 DEF Place
  <2>3. <<FirstMissing(x).thread, FirstMissing(x).pos>> \in Messages(MissingId(x))
    BY <1>0, <2>1, <2>2, MessageThere DEF MissingId
  <2>4. QED
    BY <2>3 DEF Committed
<1>3. PICK q : q = p
  OBVIOUS
<1> HIDE DEF p
<1>4. /\ box'[x].pending = box[x].pending /\ box'[x].active = box[x].active \cup {q}
      /\ \A y \in Endpoint : y # x => box'[y] = box[y]
  BY <1>0, <1>1, <1>3 DEF Mailbox
<1>5. Follows(x) /\ \A y \in Endpoint : y # x => rec'[y] = rec[y]
  BY <1>1, PointedFollows
<1>6. SameEndpoints /\ Grows
  BY <1>1, SamePredecessors DEF SameEndpoints
<1>7. Keeps
  <2>1. \A z \in Endpoint : \A s \in Pointers(z) : s \in Pointers(z)'
    BY <1>4 DEF Pointers
  <2>2. QED
    BY <1>6, <2>1, NothingTaken
<1>8. \A y \in Endpoint :
         /\ \A s \in Pointers(y)' : s \in Pointers(y) \/ Committed(s)
         /\ \A s \in box'[y].active : s \in box[y].active \/ Committed(s)
         /\ \A s \in box'[y].pending :
               s \in box[y].pending \/ \A r \in Messages(s.id) : EntryAt(r).to = y
         /\ rec'[y] = rec[y] \/ Follows(y)
  BY <1>2, <1>3, <1>4, <1>5 DEF Pointers
<1>9. \A f \in Endpoint : at[f] = "commit" => Pointer(send[f]) \in box'[send[f].hash.to].pending
  <2>1. \A y \in Endpoint : \A s \in box[y].pending : s \in box'[y].pending \/ Messages(s.id) # {}
    BY <1>4
  <2>2. QED
    BY <2>1, IntentsKept
<1>10. nextId' \in Nat /\ nextId' >= nextId
  BY <1>0, <1>1
<1>11. QED
  BY <1>1, <1>6, <1>7, <1>8, <1>9, <1>10, QuietStep DEF SameEndpoints

\* An intent whose thread is not locked is of a message that is there, or of
\* nobody's publication.
LEMMA RecoverPendingIntentPtr ==
    ASSUME IInv, PtrInv, NEW x \in Endpoint, RecoverPendingIntent(x)
    PROVE  PtrInv'
<1> DEFINE r == [rec[x] EXCEPT !.at = "intents", !.todo = @ \ {First(rec[x].todo)}]
<1>0. /\ TypeOK /\ MailInv /\ rec[x] \in Rec /\ rec \in [Endpoint -> Rec]
      /\ box \in [Endpoint -> Mailbox] /\ box[x] \in Mailbox /\ nextId \in Nat
  BY DEF IInv, MailInv, TypeOK
<1>1. PICK p : p = First(rec[x].todo)
  OBVIOUS
<1>2. /\ rec[x].at = "intent" /\ Advance(x, r)
      /\ UNCHANGED <<log, receipt, ep, joining, at, send, walk, hook, nextId, faults, seen, told>>
      /\ \/ UNCHANGED box
         \/ MatchesCanonical(p, {x}) /\ box' = [box EXCEPT ![x] = Renamed(@, p)]
         \/ /\ IF rec[x].lockOn = 0 THEN ~ThreadsLocked ELSE ~ThreadLocked(rec[x].lockOn)
            /\ ~MatchesCanonical(p, {x})
            /\ box' = [box EXCEPT ![x].pending = @ \ {p}]
  BY <1>1 DEF RecoverPendingIntent
<1>3. p \in Ptr
  BY <1>0, <1>1, <1>2, FirstOfThem DEF PtrInv, BoxInv, ListInv, Rec
<1>4. /\ rec'[x].at = "intents" /\ rec'[x].todo \subseteq rec[x].todo
      /\ rec'[x].listed = rec[x].listed /\ rec'[x].dirs = rec[x].dirs
      /\ \A y \in Endpoint : y # x => rec'[y] = rec[y]
  BY <1>0, <1>2 DEF Advance, Rec
<1> HIDE DEF r
<1>5. Follows(x)
  BY <1>4 DEF Follows, Waits, Known
<1>6. CASE UNCHANGED box
  BY <1>2, <1>4, <1>5, <1>6, AdvancePtr DEF SamePointers
<1>7. CASE MatchesCanonical(p, {x}) /\ box' = [box EXCEPT ![x] = Renamed(@, p)]
  <2>1. Committed(p)
    BY <1>0, <1>3, <1>7, MatchedIsThere DEF Committed
  <2>2. /\ \A y \in Endpoint : y # x => box'[y] = box[y]
        /\ Pointers(x)' = Pointers(x)
        /\ box'[x].active \subseteq box[x].active \cup {p}
        /\ box[x].pending \subseteq box'[x].pending \cup {p}
        /\ box'[x].pending \subseteq box[x].pending
    BY <1>0, <1>7, RenamedBox
  <2>3. SameEndpoints /\ Grows
    BY <1>2, SamePredecessors DEF SameEndpoints
  <2>4. Keeps
    <3>1. \A z \in Endpoint : \A s \in Pointers(z) : s \in Pointers(z)'
      BY <2>2 DEF Pointers
    <3>2. QED
      BY <2>3, <3>1, NothingTaken
  <2>5. \A y \in Endpoint :
           /\ \A s \in Pointers(y)' : s \in Pointers(y) \/ Committed(s)
           /\ \A s \in box'[y].active : s \in box[y].active \/ Committed(s)
           /\ \A s \in box'[y].pending :
                 s \in box[y].pending \/ \A q \in Messages(s.id) : EntryAt(q).to = y
           /\ rec'[y] = rec[y] \/ Follows(y)
    BY <1>4, <1>5, <2>1, <2>2 DEF Pointers
  <2>6. \A f \in Endpoint : at[f] = "commit" => Pointer(send[f]) \in box'[send[f].hash.to].pending
    <3>1. \A y \in Endpoint : \A s \in box[y].pending : s \in box'[y].pending \/ s = p
      BY <2>2
    <3>2. QED
      BY <2>1, <3>1, IntentsKept DEF Committed
  <2>7. nextId' \in Nat /\ nextId' >= nextId
    BY <1>0, <1>2
  <2>8. QED
    BY <1>2, <2>3, <2>4, <2>5, <2>6, <2>7, QuietStep DEF SameEndpoints
<1>8. CASE /\ IF rec[x].lockOn = 0 THEN ~ThreadsLocked ELSE ~ThreadLocked(rec[x].lockOn)
           /\ ~MatchesCanonical(p, {x})
           /\ box' = [box EXCEPT ![x].pending = @ \ {p}]
  <2>1. /\ \A y \in Endpoint : y # x => box'[y] = box[y]
        /\ box'[x].active = box[x].active /\ box'[x].pending = box[x].pending \ {p}
    BY <1>0, <1>8 DEF Mailbox
  <2>2. p \in box[x].pending => ~Lives(p.id)
    <3>1. ASSUME p \in box[x].pending, NEW q \in Messages(p.id)
          PROVE  FALSE
      <4>1. q = <<p.thread, p.pos>> /\ EntryAt(q).to = x
        BY <3>1 DEF PtrInv, BoxInv, PlaceInv, Placed, Pointers
      <4>2. /\ EntryAt(q).type = "message" /\ EntryAt(q).id = p.id
            /\ p.pos \in 1..Len(log[p.thread]) /\ EntryAt(q) = log[p.thread][p.pos]
        <5>1. /\ EntryAt(q).type = "message" /\ EntryAt(q).id = p.id
              /\ q[2] \in 1..Len(log[q[1]]) /\ EntryAt(q) = log[q[1]][q[2]]
          BY <1>0, OneOf
        <5>2. q[1] = p.thread /\ q[2] = p.pos
          BY <4>1
        <5>3. QED
          BY <5>1, <5>2
      <4>3. QED
        BY <1>8, <4>1, <4>2 DEF MatchesCanonical, MessageAt
    <3>2. QED
      BY <3>1 DEF Lives
  <2>3. ASSUME NEW f \in Endpoint, at[f] = "commit"
        PROVE  Pointer(send[f]) \in box'[send[f].hash.to].pending
    <3>1. Pointer(send[f]) \in box[send[f].hash.to].pending
      BY <2>3 DEF PtrInv, SenderInv, IntentInv
    <3>2. send[f].hash.to \in Endpoint /\ at[f] \in Publishing
      BY <1>0, <2>3, PublishedTyped DEF Publishing
    <3>3. Pointer(send[f]) # p
      <4>1. ASSUME Pointer(send[f]) = p
            PROVE  FALSE
        <5>1. rec[x].lockOn = send[f].hash.into
          BY <1>1, <1>2, <2>3, <4>1 DEF PtrInv, SenderInv, LockInv
        <5>2. QED
          BY <1>8, <3>2, <5>1 DEF ThreadsLocked, ThreadLocked
      <4>2. QED
        BY <4>1
    <3>4. QED
      BY <2>1, <3>1, <3>2, <3>3
  <2>4. \A y \in Endpoint : \A s \in Pointers(y) : s \in Pointers(y)' \/ ~Lives(s.id)
    BY <2>1, <2>2 DEF Pointers
  <2>5. \A y \in Endpoint : box'[y].active \subseteq box[y].active
                            /\ box'[y].pending \subseteq box[y].pending
    BY <2>1
  <2>6. \A y \in Endpoint : rec'[y] = rec[y] \/ Follows(y)
    BY <1>4, <1>5
  <2>7. QED
    BY <1>2, <2>3, <2>4, <2>5, <2>6, TakePtr
<1>9. QED
  BY <1>2, <1>6, <1>7, <1>8

\* What the sweep of an ancestor's mailbox takes away was settled, or has an
\* heir with a pointer, who is not the ancestor itself.
LEMMA SweepPtr ==
    ASSUME IInv, PtrInv, NEW x \in Endpoint, Sweep(x)
    PROVE  PtrInv'
<1> DEFINE delivered == Ids({p \in rec[x].listed : MatchesCanonical(p, Addressees(x))})
           Redundant(p) == /\ MatchesCanonical(p, Addressees(x))
                           /\ p.id \in delivered \/ Terminal(p.thread, p.id)
           Kept(d, dir, S) == IF d[2] = dir THEN {p \in S : ~Redundant(p)} ELSE S
           Next2(d) == [rec[x] EXCEPT !.dirs = @ \ {d}, !.next = "done",
                            !.at = IF rec[x].dirs = {d} THEN "list" ELSE "sweep"]
<1>0. /\ TypeOK /\ MailInv /\ rec[x] \in Rec /\ rec \in [Endpoint -> Rec]
      /\ box \in [Endpoint -> Mailbox] /\ nextId \in Nat
  BY DEF IInv, MailInv, TypeOK
<1>1. /\ rec[x].at = "sweep"
      /\ UNCHANGED <<log, receipt, ep, joining, at, send, walk, hook, nextId, faults, seen, told>>
  BY DEF Sweep
<1>2. PICK d \in rec[x].dirs :
          /\ box' = [box EXCEPT ![d[1]].active = Kept(d, "active", @),
                                ![d[1]].pending = Kept(d, "pending", @)]
          /\ Advance(x, Next2(d))
  BY Zenon DEF Sweep
<1>3. PICK z \in Endpoint : z = d[1] /\ z \in Addressees(x) /\ z # x
  <2>1. d \in Endpoint \X {"active", "pending"}
    BY <1>0 DEF Rec
  <2>2. d[1] \in Addressees(x) \ {x}
    BY <1>2 DEF PtrInv, BoxInv, ListInv
  <2>3. QED
    BY <2>1, <2>2
<1>4. /\ rec'[x].at \in {"list", "sweep"} /\ rec'[x].dirs \subseteq rec[x].dirs
      /\ rec'[x].listed = rec[x].listed /\ rec'[x].todo = rec[x].todo
      /\ \A y \in Endpoint : y # x => rec'[y] = rec[y]
  BY <1>0, <1>2 DEF Advance, Rec
<1> HIDE DEF Next2
<1>5. Follows(x)
  BY <1>1, <1>4 DEF Follows, Waits, Known
<1>6. /\ \A y \in Endpoint : y # z => box'[y] = box[y]
      /\ box'[z].active \subseteq box[z].active /\ box'[z].pending \subseteq box[z].pending
      /\ \A p \in box[z].active : p \in box'[z].active \/ Redundant(p)
      /\ \A p \in box[z].pending : p \in box'[z].pending \/ Redundant(p)
  <2>1. \A dir, S : Kept(d, dir, S) \subseteq S /\ \A p \in S : p \in Kept(d, dir, S) \/ Redundant(p)
    OBVIOUS
  <2> HIDE DEF Kept, Redundant
  <2>2. box' = [box EXCEPT ![z].active = Kept(d, "active", @), ![z].pending = Kept(d, "pending", @)]
    BY <1>2, <1>3
  <2>3. /\ \A y \in Endpoint : y # z => box'[y] = box[y]
        /\ box'[z].active = Kept(d, "active", box[z].active)
        /\ box'[z].pending = Kept(d, "pending", box[z].pending)
    BY <1>0, <2>2 DEF Mailbox
  <2>4. QED
    BY <2>1, <2>3
<1>7. PICK G : G = {p \in Pointers(z) : Redundant(p)}
  OBVIOUS
<1>8. \A p \in G : Committed(p) /\ (Lives(p.id) => Held(x, p.id))
  <2> TAKE p \in G
  <2>1. p \in Pointers(z) /\ MatchesCanonical(p, Addressees(x))
        /\ (p.id \in delivered \/ Terminal(p.thread, p.id))
    BY <1>7
  <2>2. Committed(p)
    BY <1>0, <2>1, KnownTyped, MatchedIsThere DEF Committed
  <2>3. CASE Terminal(p.thread, p.id)
    BY <1>0, <2>2, <2>3, SettledHere
  <2>4. CASE p.id \in delivered
    <3>1. PICK s \in rec[x].listed : s.id = p.id
      BY <2>4 DEF Ids
    <3>2. Lives(s.id) => Held(x, s.id)
      BY <1>1 DEF PtrInv, BoxInv, ListInv
    <3>3. QED
      BY <2>2, <3>1, <3>2
  <2>5. QED
    BY <2>1, <2>3, <2>4
<1>9. /\ \A p \in box[z].active : p \in box'[z].active \/ p \in G
      /\ \A p \in box[z].pending : p \in box'[z].pending \/ p \in G
  BY <1>6, <1>7 DEF Pointers
<1> HIDE DEF delivered, Redundant, Kept
<1>10. SameEndpoints /\ Grows /\ \A y : Addressees(y)' = Addressees(y)
  BY <1>1, SamePredecessors DEF SameEndpoints
<1>11. Keeps
  <2> SUFFICES ASSUME NEW y, NEW m, Lives(m), Held(y, m)
               PROVE  Held(y, m)'
    BY DEF Keeps
  <2>1. PICK w \in Endpoint : y \in Addressees(w) /\ m \in Ids(Pointers(w))
    BY DEF Held
  <2>2. CASE m \in Ids(Pointers(w))'
    BY <1>10, <2>1, <2>2 DEF Held
  <2>3. CASE m \notin Ids(Pointers(w))'
    <3>1. PICK p \in Pointers(w) : m = p.id
      BY <2>1 DEF Ids
    <3>2. p \notin Pointers(w)'
      BY <2>3, <3>1 DEF Ids
    <3>3. w = z /\ p \in G
      BY <1>6, <1>9, <3>1, <3>2 DEF Pointers
    <3>4. Held(x, m)
      BY <1>8, <3>1, <3>3
    <3>5. PICK v \in Endpoint : x \in Addressees(v) /\ m \in Ids(Pointers(v))
      BY <3>4 DEF Held
    <3>6. v # z
      BY <1>3, <3>5 DEF PtrInv, LineInv
    <3>7. m \in Ids(Pointers(v))'
      BY <1>6, <3>5, <3>6 DEF Ids, Pointers
    <3>8. y \in Addressees(v)
      <4>1. Addressees(z) \subseteq Addressees(x)
        BY <1>0, <1>3, Inheritance
      <4>2. Addressees(x) \subseteq Addressees(v)
        BY <1>0, <3>5, Inheritance
      <4>3. QED
        BY <2>1, <3>3, <4>1, <4>2
    <3>9. QED
      BY <1>10, <3>7, <3>8 DEF Held
  <2>4. QED
    BY <2>2, <2>3
<1>12. \A y \in Endpoint :
         /\ \A s \in Pointers(y)' : s \in Pointers(y) \/ Committed(s)
         /\ \A s \in box'[y].active : s \in box[y].active \/ Committed(s)
         /\ \A s \in box'[y].pending :
               s \in box[y].pending \/ \A r \in Messages(s.id) : EntryAt(r).to = y
         /\ rec'[y] = rec[y] \/ Follows(y)
  BY <1>4, <1>5, <1>6 DEF Pointers
<1>13. \A f \in Endpoint : at[f] = "commit" => Pointer(send[f]) \in box'[send[f].hash.to].pending
  <2>1. \A y \in Endpoint : \A s \in box[y].pending : s \in box'[y].pending \/ Messages(s.id) # {}
    BY <1>6, <1>8, <1>9 DEF Committed
  <2>2. QED
    BY <2>1, IntentsKept
<1>14. nextId' \in Nat /\ nextId' >= nextId
  BY <1>0, <1>1
<1>15. QED
  BY <1>1, <1>10, <1>11, <1>12, <1>13, <1>14, QuietStep DEF SameEndpoints
----------------------------------------------------------------------------
(* An entry is appended. *)

\* A message that is appended has its pointer where it belongs.
Awaited(t, m) ==
    /\ m.to \in Endpoint /\ m.to = m.hash.to /\ Messages(m.id) = {}
    /\ \A x \in Endpoint : \A p \in Known(x) : p.id = m.id =>
          x = m.to /\ p.thread = t /\ p.pos = Len(log[t]) + 1
    /\ \E p \in Pointers(m.to) : p.id = m.id

LEMMA PublishedThread ==
    ASSUME MailInv, NEW f \in Endpoint, at[f] \in Publishing
    PROVE  send[f].thread \in Id
<1>1. /\ CallInv(f) /\ at[f] \in Sending
  BY DEF MailInv, Sending
<1>2. /\ send[f].thread = IF send[f].hash.into = 0 THEN send[f].id ELSE send[f].hash.into
      /\ send[f].id \in Id /\ send[f].hash \in Hash
  BY <1>1 DEF CallInv, AskedOf, PublicationOf
<1>3. QED
  BY <1>2 DEF Hash, Id

LEMMA AppendedPtr ==
    ASSUME IInv, PtrInv, NEW t \in Id, NEW m \in Entry, Appends(t, m),
           UNCHANGED <<box, rec, ep, joining, nextId>>,
           m.type \in {"park", "resolve", "reopen"} => State(t) # "resolved",
           m.type = "message" => Awaited(t, m),
           \A f \in Endpoint : SenderInv(f)' \/
               /\ at'[f] = at[f] /\ send'[f] = send[f]
               /\ at[f] \in {"park", "parkEntry"} => send[f].thread # t
    PROVE  PtrInv'
<1>0. PICK n : n = Len(log[t]) + 1
  OBVIOUS
<1>1. TypeOK /\ MailInv
  BY DEF IInv, MailInv
<1>2. /\ Places' = Places \cup {<<t, n>>} /\ <<t, n>> \notin Places
      /\ EntryAt(<<t, n>>)' = m /\ \A q \in Places : EntryAt(q)' = EntryAt(q)
  BY <1>0, <1>1, AppendedPlaces
<1>3. \A k : Messages(k)' = Messages(k) \cup (IF m.type = "message" /\ m.id = k THEN {<<t, n>>} ELSE {})
  <2> TAKE k
  <2>1. Messages(k)' = {q \in Places' : EntryAt(q)'.type = "message" /\ EntryAt(q)'.id = k}
    BY DEF Messages
  <2>2. QED
    BY <1>2, <2>1 DEF Messages
<1>4. \A u \in Id : Acked(u) \subseteq Acked(u)' /\ (u \in Threads => u \in Threads')
  <2> TAKE u \in Id
  <2>1. /\ \A i \in 1..Len(log[u]) : i \in 1..Len(log'[u]) /\ log'[u][i] = log[u][i]
        /\ log \in [Id -> Seq(Entry)]
    BY <1>1, AppendedLog DEF TypeOK
  <2>2. Acked(u) \subseteq Acked(u)'
    BY <2>1 DEF Acked
  <2>3. log[u] # <<>> => log'[u] # <<>>
    <3>1. ASSUME log[u] # <<>>
          PROVE  1 \in 1..Len(log[u])
      BY <2>1, <3>1
    <3>2. QED
      BY <2>1, <3>1
  <2>4. QED
    BY <2>2, <2>3 DEF Threads
<1>5. \A u \in Id : (u # t => State(u)' = State(u)) /\ (State(u) = "resolved" => State(u)' = "resolved")
  BY <1>1, AppendedState
<1>6. \A u \in Id : \A k : Terminal(u, k) => Terminal(u, k)'
  BY <1>4, <1>5 DEF Terminal
<1>7. \A k : Lives(k)' => Lives(k) \/ (m.type = "message" /\ k = m.id)
  <2> TAKE k
  <2>1. HAVE Lives(k)'
  <2>2. PICK q \in Messages(k)' : ~Terminal(q[1], k)'
    BY <2>1 DEF Lives
  <2>3. CASE q \in Messages(k)
    <3>1. q[1] \in Id
      BY <1>1, <2>3, OneOf
    <3>2. ~Terminal(q[1], k)
      BY <1>6, <2>2, <3>1
    <3>3. QED
      BY <2>3, <3>2 DEF Lives
  <2>4. QED
    BY <1>3, <2>2, <2>3
<1>8. \A x : Pointers(x)' = Pointers(x) /\ Known(x)' = Known(x)
  BY DEF Pointers, Known
<1>9. /\ \A x : Addressees(x)' = Addressees(x)
      /\ \A x, k : Held(x, k)' = Held(x, k)
  BY <1>8, SamePredecessors DEF Held, Ids
<1>10. LineInv'
  <2>1. joining # None => joining.new \in Endpoint /\ joining.old \in Endpoint
    BY <1>1 DEF TypeOK
  <2>2. QED
    BY <2>1, SameLine DEF PtrInv
<1>11. m.type = "message" => /\ m.to \in Endpoint /\ Held(m.to, m.id)
                             /\ \A x \in Endpoint : \A p \in Known(x) : p.id = m.id => Held(x, p.id)
  <2> HAVE m.type = "message"
  <2>1. m.to \in Endpoint
    BY DEF Awaited
  <2>2. PICK p \in Pointers(m.to) : p.id = m.id
    BY DEF Awaited
  <2>3. Held(m.to, m.id)
    BY <1>1, <2>1, <2>2, OwnIsHeld
  <2>4. QED
    BY <2>1, <2>3 DEF Awaited
<1>12. \A x \in Endpoint : BoxInv(x)'
  <2> TAKE x \in Endpoint
  <2>1. BoxInv(x)
    BY DEF PtrInv
  <2>2. KnownInv(x)'
    BY <1>8, <2>1 DEF BoxInv, KnownInv
  <2>3. PlaceInv(x)'
    <3>1. ASSUME NEW p \in Pointers(x), NEW q \in Messages(p.id)'
          PROVE  /\ q = <<p.thread, p.pos>>
                 /\ p \in box[x].pending => EntryAt(q)'.to = x
      <4>1. CASE q \in Messages(p.id)
        <5>1. q = <<p.thread, p.pos>> /\ (p \in box[x].pending => EntryAt(q).to = x)
          BY <2>1, <4>1 DEF BoxInv, PlaceInv, Placed
        <5>2. EntryAt(q)' = EntryAt(q)
          BY <1>2, <4>1 DEF Messages
        <5>3. QED
          BY <5>1, <5>2
      <4>2. CASE q \notin Messages(p.id)
        <5>1. m.type = "message" /\ m.id = p.id /\ q = <<t, n>>
          BY <1>3, <3>1, <4>2
        <5>2. p \in Known(x)
          BY DEF Known
        <5>3. x = m.to /\ p.thread = t /\ p.pos = n
          BY <1>0, <5>1, <5>2 DEF Awaited
        <5>4. QED
          BY <1>2, <5>1, <5>3
      <4>3. QED
        BY <4>1, <4>2
    <3>2. Pointers(x)' = Pointers(x) /\ box'[x].pending \subseteq Pointers(x) /\ box' = box
      BY <1>8 DEF Pointers
    <3>3. \A p \in Pointers(x) : Placed(p)'
      BY <3>1 DEF Placed
    <3>4. \A p \in box'[x].pending : \A q \in Messages(p.id)' : EntryAt(q)'.to = x
      BY <3>1, <3>2
    <3>5. QED
      BY <3>2, <3>3, <3>4 DEF PlaceInv
  <2>4. ListInv(x)'
    <3>1. ASSUME rec[x].at \in {"list2", "sweep"}, NEW p \in rec[x].listed, Lives(p.id)'
          PROVE  Held(x, p.id)
      <4>1. p \in Known(x)
        BY <3>1 DEF Known
      <4>2. QED
        BY <1>7, <1>11, <2>1, <3>1, <4>1 DEF BoxInv, ListInv
    <3>2. QED
      BY <1>9, <2>1, <3>1 DEF BoxInv, ListInv
  <2>5. QED
    BY <2>2, <2>3, <2>4 DEF BoxInv
<1>13. ASSUME NEW f \in Endpoint, at'[f] = at[f], send'[f] = send[f],
              at[f] \in {"park", "parkEntry"} => send[f].thread # t
       PROVE  SenderInv(f)'
  <2>1. SenderInv(f) /\ Pointer(send[f])' = Pointer(send[f])
    BY <1>13 DEF PtrInv, Pointer
  <2>2. FreshInv(f)'
    BY <1>8, <1>13, <2>1 DEF SenderInv, FreshInv
  <2>3. IntentInv(f)' /\ LockInv(f)'
    BY <1>13, <2>1 DEF SenderInv, IntentInv, LockInv
  <2>4. ParkInv(f)'
    <3>1. SUFFICES ASSUME at[f] \in {"park", "parkEntry"}
                   PROVE  State(send[f].thread)' # "resolved"
      BY <1>13 DEF ParkInv
    <3>2. PICK u \in Id : u = send[f].thread
      BY <1>1, <3>1, PublishedThread DEF Publishing
    <3>3. State(u)' = State(u) /\ State(u) # "resolved"
      BY <1>5, <1>13, <2>1, <3>1, <3>2 DEF SenderInv, ParkInv
    <3>4. send'[f].thread = u
      BY <1>13, <3>2
    <3>5. QED
      BY <3>3, <3>4 DEF State
  <2>5. AckInv(f)'
    <3>1. SUFFICES ASSUME at[f] = "ackClean"
                   PROVE  (send[f].thread \in Threads /\ send[f].id \in Acked(send[f].thread))'
      BY <1>13 DEF AckInv
    <3>2. PICK u \in Id : u = send[f].thread /\ u \in Threads /\ send[f].id \in Acked(u)
      BY <2>1, <3>1 DEF SenderInv, AckInv, Threads
    <3>3. PICK k : k = send[f].id
      OBVIOUS
    <3>4. u \in Threads' /\ k \in Acked(u)' /\ send'[f].thread = u /\ send'[f].id = k
      BY <1>4, <1>13, <3>2, <3>3
    <3>5. QED
      BY <3>4 DEF Acked
  <2>6. QED
    BY <2>2, <2>3, <2>4, <2>5 DEF SenderInv
<1>14. ToInv'
  <2>1. m.type = "message" => m.to = m.hash.to
    BY DEF Awaited
  <2>2. \A q \in Places : EntryAt(q)'.type = "message" => EntryAt(q)'.to = EntryAt(q)'.hash.to
    BY <1>2 DEF PtrInv, ToInv
  <2>3. QED
    BY <1>2, <2>1, <2>2 DEF ToInv
<1>15. HoldInv'
  <2>1. ASSUME NEW q \in Places', EntryAt(q)'.type = "message", ~Terminal(q[1], EntryAt(q).id)'
        PROVE  Held(EntryAt(q).to, EntryAt(q).id)'
    <3>1. PICK y, k : y = EntryAt(q)'.to /\ k = EntryAt(q)'.id
      OBVIOUS
    <3>2. Held(y, k)
      <4>1. CASE q \in Places
        <5>1. y = EntryAt(q).to /\ k = EntryAt(q).id /\ EntryAt(q).type = "message"
          BY <1>2, <2>1, <3>1, <4>1
        <5>2. q[1] \in Id
          BY <1>1, <4>1, PlaceType
        <5>3. Terminal(q[1], EntryAt(q).id)' <=> Terminal(q[1], k)'
          BY <3>1 DEF Terminal, Acked, State
        <5>4. ~Terminal(q[1], k)
          BY <1>6, <2>1, <5>2, <5>3
        <5>5. QED
          BY <4>1, <5>1, <5>4 DEF PtrInv, HoldInv
      <4>2. CASE q = <<t, n>>
        BY <1>2, <1>11, <2>1, <3>1, <4>2
      <4>3. QED
        BY <1>2, <4>1, <4>2
    <3>3. Held(y, k)'
      BY <1>9, <3>2
    <3>4. QED
      BY <3>1, <3>3 DEF Held
  <2>2. QED
    BY <2>1 DEF HoldInv
<1>16. \A f \in Endpoint : SenderInv(f)'
  BY <1>13
<1>17. QED
  BY <1>10, <1>12, <1>14, <1>15, <1>16 DEF PtrInv

\* The thread that a park entry is for is locked, and nobody else's.
LEMMA ParkedThread ==
    ASSUME MailInv, NEW f \in Endpoint, at[f] \in {"park", "parkEntry"}
    PROVE  /\ send[f].thread = send[f].hash.into /\ send[f].thread \in Threads
           /\ ThreadLocked(send[f].thread)
<1>1. CallInv(f) /\ at[f] \in Sending /\ at[f] \in Publishing /\ at[f] \in Parks
  BY DEF MailInv, Sending, Publishing, Parks
<1>2. send[f].hash.into # 0 /\ send[f].thread = send[f].hash.into /\ log[send[f].hash.into] # <<>>
  BY <1>1 DEF CallInv, AskedOf, PublicationOf
<1>3. send[f].thread \in Id
  BY <1>1, PublishedThread
<1>4. QED
  BY <1>1, <1>2, <1>3 DEF Threads, ThreadLocked

\* What is committed is no intent any more, and its pointer is in its mailbox.
LEMMA CommitEntryPtr ==
    ASSUME IInv, PtrInv, NEW e \in Endpoint, CommitEntry(e)
    PROVE  PtrInv'
<1>0. TypeOK /\ MailInv /\ CallInv(e)
  BY DEF IInv, MailInv
<1>1. /\ at[e] \in {"commit", "parkEntry"} /\ Len(log[send[e].thread]) = send[e].pos - 1
      /\ Appends(send[e].thread, Published(e))
      /\ \A f \in Endpoint : f # e => at'[f] = at[f]
  BY <1>0, CommitEntryMail
<1>2. at[e] \in Publishing /\ at[e] \in Sending /\ at[e] \in Numbered
  BY <1>1 DEF Publishing, Sending, Numbered
<1>3. PICK t \in Id, m \in Entry : t = send[e].thread /\ m = Published(e)
  BY <1>0, <1>1, PublishedEntry
<1>4. /\ m.type = (IF at[e] = "parkEntry" THEN "park" ELSE "message")
      /\ m.id = send[e].id /\ m.to = send[e].hash.to /\ m.hash = send[e].hash
  BY <1>0, <1>1, <1>3, PublishedEntry
<1>5. send[e].pos \in Nat \ {0} /\ Len(log[t]) = send[e].pos - 1 /\ Len(log[t]) \in Nat
  <2>1. send[e].pos \in Nat \ {0}
    BY <1>0, <1>2 DEF CallInv, PublicationOf
  <2>2. log[t] \in Seq(Entry)
    BY <1>0 DEF TypeOK
  <2>3. QED
    BY <1>1, <1>3, <2>1, <2>2
<1>6. /\ send' = send /\ Goto(e, IF at[e] = "parkEntry" THEN "parkFinal" ELSE "activate")
      /\ UNCHANGED <<box, receipt, ep, joining, walk, rec, hook, nextId, faults, seen, told>>
  <2>1. ~(Len(log[send[e].thread]) >= send[e].pos)
    BY <1>3, <1>5
  <2>2. QED
    BY <2>1 DEF CommitEntry
<1>7. at'[e] \in {"parkFinal", "activate"}
  BY <1>0, <1>6, GotoTyped DEF Sending, Publishing
<1>8. SenderInv(e)'
  BY <1>7, SenderOut DEF Numbered
<1>9. ASSUME NEW f \in Endpoint, f # e
      PROVE  /\ at'[f] = at[f] /\ send'[f] = send[f]
             /\ at[f] \in {"park", "parkEntry"} => send[f].thread # t
  <2>1. at'[f] = at[f] /\ send'[f] = send[f]
    BY <1>1, <1>6, <1>9
  <2>2. ASSUME at[f] \in {"park", "parkEntry"}, send[f].thread = t
        PROVE  FALSE
    <3>1. send[f].thread = send[f].hash.into /\ t \in Threads
      BY <1>0, <2>2, ParkedThread
    <3>2. at[f] \in Publishing /\ Apart(e, f)
      BY <1>0, <2>2 DEF Publishing, MailInv
    <3>3. send[e].hash.into # t
      BY <1>2, <1>9, <2>2, <3>1, <3>2 DEF Apart
    <3>4. QED
      BY <1>0, <1>2, <1>3, <3>1, <3>3, NumberedElsewhere
  <2>3. QED
    BY <2>1, <2>2
<1>10. m.type \in {"park", "resolve", "reopen"} => State(t) # "resolved"
  <2>1. m.type \in {"park", "resolve", "reopen"} => at[e] = "parkEntry"
    BY <1>4
  <2>2. QED
    BY <1>3, <2>1 DEF PtrInv, SenderInv, ParkInv
<1>11. m.type = "message" => Awaited(t, m)
  <2>1. HAVE m.type = "message"
  <2>2. at[e] = "commit" /\ SenderInv(e)
    BY <1>1, <1>4, <2>1 DEF PtrInv
  <2>3. m.to \in Endpoint /\ m.to = m.hash.to
    BY <1>0, <1>2, <1>4, PublishedTyped
  <2>4. Messages(m.id) = {}
    BY <1>0, <1>2, <1>4, NotYetSent
  <2>5. PICK p : p = Pointer(send[e])
    OBVIOUS
  <2>6. /\ p.id = m.id /\ p.thread = t /\ p.pos = Len(log[t]) + 1
        /\ p \in box[m.to].pending
    BY <1>3, <1>4, <1>5, <2>2, <2>5 DEF SenderInv, IntentInv, Pointer
  <2>7. \A x \in Endpoint : \A q \in Known(x) : q.id = m.id => x = m.to /\ q = p
    BY <1>2, <1>4, <2>2, <2>5 DEF SenderInv, FreshInv
  <2>8. QED
    BY <2>3, <2>4, <2>6, <2>7 DEF Awaited, Pointers
<1>12. \A f \in Endpoint : SenderInv(f)' \/
               /\ at'[f] = at[f] /\ send'[f] = send[f]
               /\ at[f] \in {"park", "parkEntry"} => send[f].thread # t
  BY <1>8, <1>9
<1>13. QED
  BY <1>1, <1>3, <1>6, <1>10, <1>11, <1>12, AppendedPtr

LEMMA AcknowledgePtr ==
    ASSUME IInv, PtrInv, NEW e \in Endpoint, AcknowledgeBusMessage(e)
    PROVE  PtrInv'
<1>1. /\ TypeOK /\ MailInv /\ at[e] = "idle" /\ Goto(e, "ackClean")
      /\ UNCHANGED <<box, receipt, ep, joining, walk, rec, hook, nextId, faults, seen, told>>
  BY DEF AcknowledgeBusMessage, IInv, MailInv
<1>2. PICK t \in Threads : \E i \in 1..Len(log[t]) :
          /\ log[t][i].id \in seen \ Acked(t) /\ ~ThreadLocked(t)
          /\ log' = [log EXCEPT ![t] = Append(@, StateEntry("ack", log[t][i].id, e))]
          /\ send' = [send EXCEPT ![e] = [NoPub EXCEPT !.thread = t, !.id = log[t][i].id]]
  BY DEF AcknowledgeBusMessage
<1>3. PICK i \in 1..Len(log[t]) :
          /\ log[t][i].id \in seen \ Acked(t) /\ ~ThreadLocked(t)
          /\ log' = [log EXCEPT ![t] = Append(@, StateEntry("ack", log[t][i].id, e))]
          /\ send' = [send EXCEPT ![e] = [NoPub EXCEPT !.thread = t, !.id = log[t][i].id]]
  BY <1>2
<1>4. PICK id : id = log[t][i].id
  OBVIOUS
<1>5. t \in Id /\ id \in Id /\ id \in 0..MaxId
  BY <1>1, <1>3, <1>4 DEF Threads, TypeOK, Id
<1> DEFINE m == StateEntry("ack", id, e)
<1>6. m \in Entry /\ m.type = "ack" /\ m.id = id
  BY <1>5, StateEntryType
<1> HIDE DEF m
<1>7. Appends(t, m)
  BY <1>3, <1>4 DEF Appends, m
<1>8. /\ send'[e].thread = t /\ send'[e].id = id
      /\ \A f \in Endpoint : f # e => send'[f] = send[f]
  <2>1. send' = [send EXCEPT ![e] = [NoPub EXCEPT !.thread = t, !.id = id]]
    BY <1>3, <1>4
  <2>2. QED
    BY <1>1, <2>1 DEF TypeOK, NoPub
<1>9. at'[e] = "ackClean" /\ \A f \in Endpoint : f # e => at'[f] = at[f]
  BY <1>1, GotoTyped
<1>10. t \in Threads' /\ id \in Acked(t)'
  <2>1. PICK n : n = Len(log[t]) + 1
    OBVIOUS
  <2>2. log' \in [Id -> Seq(Entry)] /\ Len(log'[t]) = n /\ log'[t][n] = m /\ Len(log[t]) \in Nat
    BY <1>1, <1>5, <1>6, <1>7, <2>1, AppendedLog
  <2>3. n \in 1..Len(log'[t]) /\ log'[t] # <<>>
    <3>1. n \in Nat /\ n >= 1
      BY <2>1, <2>2
    <3>2. QED
      BY <2>2, <3>1
  <2>4. QED
    BY <1>5, <1>6, <2>2, <2>3 DEF Threads, Acked
<1>11. SenderInv(e)'
  <2>1. AckInv(e)'
    BY <1>8, <1>10 DEF AckInv, Acked
  <2>2. QED
    BY <1>9, <2>1 DEF SenderInv, FreshInv, IntentInv, LockInv, ParkInv, Numbered
<1>12. \A f \in Endpoint : at[f] \in {"park", "parkEntry"} => send[f].thread # t
  BY <1>1, <1>3, ParkedThread
<1>13. \A f \in Endpoint : SenderInv(f)' \/
               /\ at'[f] = at[f] /\ send'[f] = send[f]
               /\ at[f] \in {"park", "parkEntry"} => send[f].thread # t
  BY <1>8, <1>9, <1>11, <1>12
<1>14. QED
  BY <1>1, <1>5, <1>6, <1>7, <1>13, AppendedPtr

LEMMA UpdatePtr ==
    ASSUME IInv, PtrInv, NEW e \in Endpoint, UpdateBusThread(e)
    PROVE  PtrInv'
<1>1. /\ TypeOK /\ MailInv
      /\ UNCHANGED <<box, receipt, ep, joining, at, send, walk, rec, hook, nextId, faults, seen, told>>
  BY DEF UpdateBusThread, IInv, MailInv
<1>2. PICK t \in Threads, action \in Updates :
          /\ ~ThreadLocked(t)
          /\ CASE action = "park" -> State(t) = "open"
               [] action = "resolve" -> State(t) # "resolved"
               [] action = "reopen" -> State(t) = "parked"
          /\ log' = [log EXCEPT ![t] = Append(@, StateEntry(action, 0, e))]
  BY DEF UpdateBusThread
<1>3. action \in {"park", "resolve", "reopen"} /\ 0 \in 0..MaxId /\ t \in Id
  BY MailboxAssumption DEF Threads
<1>4. State(t) # "resolved"
  BY <1>2, <1>3
<1> DEFINE m == StateEntry(action, 0, e)
<1>5. m \in Entry /\ m.type = action
  BY <1>3, StateEntryType
<1> HIDE DEF m
<1>6. Appends(t, m)
  BY <1>2 DEF Appends, m
<1>7. \A f \in Endpoint : at[f] \in {"park", "parkEntry"} => send[f].thread # t
  BY <1>1, <1>2, ParkedThread
<1>8. m.type # "message"
  BY <1>3, <1>5
<1>9. QED
  BY <1>1, <1>3, <1>4, <1>5, <1>6, <1>7, <1>8, AppendedPtr
----------------------------------------------------------------------------
(* Replacements, and the whole. *)

LEMMA JoinPtr ==
    ASSUME IInv, PtrInv,
           \/ \E new, old \in Endpoint : RetireIncumbent(new, old)
           \/ CreateSuccessor \/ JoinFails \/ UNCHANGED vars
    PROVE  PtrInv'
<1>1. TypeOK /\ MailInv /\ LineInv /\ nextId \in Nat
  BY DEF IInv, MailInv, PtrInv, TypeOK
<1>2. UNCHANGED <<log, box, at, send, rec, nextId>>
  BY DEF RetireIncumbent, CreateSuccessor, JoinFails, vars
<1>3. LineInv' /\ Grows
  <2>1. CASE \E new, old \in Endpoint : RetireIncumbent(new, old)
    BY <1>1, <2>1, RetireLine
  <2>2. CASE CreateSuccessor
    BY <1>1, <2>2, SuccessorLine
  <2>3. CASE JoinFails \/ UNCHANGED vars
    <3>1. /\ joining' \in {joining, None} /\ ep' = ep
          /\ joining # None => joining.new \in Endpoint /\ joining.old \in Endpoint
      BY <1>1, <2>3 DEF JoinFails, TypeOK, vars
    <3>2. QED
      BY <1>1, <3>1, SameLine
  <2>4. QED
    BY <2>1, <2>2, <2>3
<1>4. \A x \in Endpoint : Pointers(x)' = Pointers(x) /\ Known(x)' = Known(x)
  BY <1>2 DEF Pointers, Known
<1>5. Keeps
  BY <1>3, <1>4, NothingTaken
<1>6. \A f \in Endpoint : SenderInv(f)'
  <2> TAKE f \in Endpoint
  <2>1. at[f] = "commit" => Pointer(send[f]) \in box'[send[f].hash.to].pending
    BY <1>2 DEF PtrInv, SenderInv, IntentInv
  <2>2. QED
    BY <1>2, <1>4, <2>1, SenderKept
<1>7. \A x \in Endpoint : BoxInv(x)'
  <2> TAKE x \in Endpoint
  <2>1. rec'[x].at = "intent" => rec'[x].todo # {} \/ rec'[x] = rec[x]
    BY <1>2
  <2>2. \A p \in rec'[x].listed : rec'[x].at \in {"list2", "sweep"} =>
           (rec[x].at \in {"list2", "sweep"} /\ p \in rec[x].listed)
    BY <1>2
  <2>3. nextId' \in Nat /\ nextId' >= nextId
    BY <1>1, <1>2
  <2>4. QED
    BY <1>2, <1>3, <1>4, <1>5, <2>1, <2>2, <2>3, BoxKept
<1>8. QED
  BY <1>1, <1>2, <1>3, <1>5, <1>6, <1>7, QuietPtr

LEMMA InitPtr == Init => PtrInv
<1> SUFFICES ASSUME Init
             PROVE  PtrInv
  OBVIOUS
<1>1. /\ \A e \in Endpoint : at[e] = "idle" /\ rec[e] = NoRec
      /\ \A e \in Endpoint : Pointers(e) = {} /\ box[e].active = {} /\ box[e].pending = {}
      /\ \A e \in Endpoint : ep[e].pred = None
      /\ \A t \in Id : log[t] = <<>>
      /\ joining = None
  BY DEF Init, Pointers
<1>2. Places = {}
  BY <1>1 DEF Places
<1>3. \A x \in Endpoint : Known(x) = {}
  BY <1>1 DEF Known, NoRec
<1>4. LineInv
  <2>1. \A y \in Endpoint : Addressees(y) \subseteq {y}
    <3> TAKE y \in Endpoint
    <3>1. Inherits({y})
      BY <1>1 DEF Inherits
    <3>2. QED
      BY <3>1 DEF Addressees
  <2>2. \A e \in Endpoint : \A f \in Endpoint : ep[f].pred # e
    BY <1>1, MailboxAssumption
  <2>3. QED
    BY <1>1, <2>1, <2>2 DEF LineInv
<1>5. \A e \in Endpoint : SenderInv(e)
  BY <1>1 DEF SenderInv, FreshInv, IntentInv, LockInv, ParkInv, AckInv, Numbered
<1>6. \A x \in Endpoint : BoxInv(x)
  BY <1>1, <1>3 DEF BoxInv, KnownInv, PlaceInv, ListInv, NoRec
<1>7. QED
  BY <1>2, <1>4, <1>5, <1>6 DEF PtrInv, ToInv, HoldInv

LEMMA StepPtr == IInv /\ PtrInv /\ [Next]_vars => PtrInv'
<1> SUFFICES ASSUME IInv, PtrInv, [Next]_vars
             PROVE  PtrInv'
  OBVIOUS
<1>1. ASSUME NEW e \in Endpoint, SendBusMessage(e) \/ SendStep(e)
      PROVE  PtrInv'
  BY <1>1, SendBusMessagePtr, RecoverReceiptPtr, ForgetReceiptPtr, RedeliverPtr, ReactivatePtr,
     CreateThreadPtr, ReplyToThreadPtr, WriteReceiptPtr, PublishPointerIntentPtr, CommitEntryPtr,
     ActivatePointerPtr, EndingPtr DEF SendStep
<1>2. ASSUME NEW e \in Endpoint, StartPoll(e) \/ MaterializeSuccessorMailbox(e)
      PROVE  PtrInv'
  BY <1>2, BeginPtr
<1>3. ASSUME NEW e \in Endpoint, ReconcileStep(e)
      PROVE  PtrInv'
  BY <1>3, PickIntentPtr, RecoverPendingIntentPtr, ListActivePtr, ListPendingPtr, ScanPtr,
     AllocatePointerPtr, CreatePointerPtr, SweepPtr DEF ReconcileStep
<1>4. ASSUME NEW e \in Endpoint, PollStep(e)
      PROVE  PtrInv'
  BY <1>4, WalkPointerPtr, PersistCursorPtr, EndingPtr DEF PollStep
<1>5. ASSUME NEW e \in Endpoint, AcknowledgeBusMessage(e) \/ AckClean(e) \/ UpdateBusThread(e)
      PROVE  PtrInv'
  BY <1>5, AcknowledgePtr, AckCleanPtr, UpdatePtr
<1>6. ASSUME NEW e \in Endpoint,
             ReadPendingCursor(e) \/ ClaimPendingDelivery(e) \/ LoseCounter(e)
      PROVE  PtrInv'
  BY <1>6, HookPtr
<1>7. ASSUME NEW e \in Endpoint, CallFails(e) \/ SetupFails(e)
      PROVE  PtrInv'
  BY <1>7, FailurePtr
<1>8. CASE \/ \E new, old \in Endpoint : RetireIncumbent(new, old)
           \/ CreateSuccessor \/ JoinFails \/ UNCHANGED vars
  BY <1>8, JoinPtr
<1>9. QED
  BY <1>1, <1>2, <1>3, <1>4, <1>5, <1>6, <1>7, <1>8 DEF Next

LEMMA PtrInvariance == Spec => []PtrInv
BY InitPtr, StepPtr, Invariance, PTL DEF Spec

\* Mail is never lost on the way: whatever dies in the middle of a send, a
\* poll, a recovery or a sweep, and however often endpoints are replaced, a
\* committed message that nobody has acknowledged, in a thread that is not
\* resolved, has a pointer to its very place in the log, in the mailbox of an
\* endpoint that inherits its addressee's mail.
THEOREM PointersAreKept == Spec => []UnackedKeepsAPointer
<1>1. ASSUME IInv, PtrInv
      PROVE  UnackedKeepsAPointer
  <2> SUFFICES ASSUME NEW q \in Places, EntryAt(q).type = "message", ~Terminal(q[1], EntryAt(q).id)
               PROVE  \E x \in Endpoint :
                         /\ EntryAt(q).to \in Addressees(x)
                         /\ \E p \in box[x].active \cup box[x].pending :
                               p.thread = q[1] /\ p.pos = q[2] /\ p.id = EntryAt(q).id
    BY DEF UnackedKeepsAPointer
  <2>1. PICK z \in Endpoint : /\ EntryAt(q).to \in Addressees(z)
                              /\ EntryAt(q).id \in Ids(Pointers(z))
    BY <1>1 DEF PtrInv, HoldInv, Held
  <2>2. PICK p \in Pointers(z) : p.id = EntryAt(q).id
    BY <2>1 DEF Ids
  <2>3. q \in Messages(p.id)
    BY <2>2 DEF Messages
  <2>4. q = <<p.thread, p.pos>>
    BY <1>1, <2>3 DEF PtrInv, BoxInv, PlaceInv, Placed
  <2>5. QED
    BY <2>1, <2>2, <2>4 DEF Pointers
<1>2. QED
  BY <1>1, Invariance, PtrInvariance, PTL
----------------------------------------------------------------------------
(* The numbers of a mailbox.  What has a claim to a number: a pointer, the *)
(* receipt of a delivery, a publication that is to write its receipt, and  *)
(* a reconciliation that is to write a pointer.                            *)

Counts(r, x)  == r.state # "none" /\ r.outcome = "delivered" /\ r.hash.to = x
ReceiptsOf(x) == {r \in UNION {{receipt[e][k] : k \in Key} : e \in Endpoint} : Counts(r, x)}
Allotted(x)   == {e \in Endpoint : at[e] = "receipt" /\ send[e].hash.to = x}
Claims(x) ==
    {<<p.seq, p.id>> : p \in Pointers(x) \cup ReceiptsOf(x)}
        \cup {<<send[e].seq, send[e].id>> : e \in Allotted(x)}
        \cup {<<rec[y].seq, 0>> : y \in {z \in {x} : rec[z].at = "write"}}

\* The counter is past all of them, and one message has a claim to a number.
SeqInv(x) == \A d \in Claims(x) : /\ d[1] < box[x].next
                                  /\ \A g \in Claims(x) : d[1] = g[1] => d[2] = g[2]
NumInv == \A x \in Endpoint : SeqInv(x)

LEMMA ClaimOf ==
    ASSUME NEW x, NEW d
    PROVE  d \in Claims(x) <=>
              \/ \E p \in Pointers(x) : d = <<p.seq, p.id>>
              \/ \E e \in Endpoint : \E k \in Key :
                    Counts(receipt[e][k], x) /\ d = <<receipt[e][k].seq, receipt[e][k].id>>
              \/ \E e \in Endpoint : /\ at[e] = "receipt" /\ send[e].hash.to = x
                                     /\ d = <<send[e].seq, send[e].id>>
              \/ rec[x].at = "write" /\ d = <<rec[x].seq, 0>>
<1>1. \A r : r \in ReceiptsOf(x) <=> \E e \in Endpoint : \E k \in Key : r = receipt[e][k] /\ Counts(r, x)
  BY DEF ReceiptsOf
<1>2. \A e : e \in Allotted(x) <=> e \in Endpoint /\ at[e] = "receipt" /\ send[e].hash.to = x
  BY DEF Allotted
<1>3. QED
  BY <1>1, <1>2 DEF Claims

LEMMA NextClaimOf ==
    ASSUME NEW x, NEW d
    PROVE  d \in Claims(x)' <=>
              \/ \E p \in Pointers(x)' : d = <<p.seq, p.id>>
              \/ \E e \in Endpoint : \E k \in Key :
                    Counts(receipt'[e][k], x) /\ d = <<receipt'[e][k].seq, receipt'[e][k].id>>
              \/ \E e \in Endpoint : /\ at'[e] = "receipt" /\ send'[e].hash.to = x
                                     /\ d = <<send'[e].seq, send'[e].id>>
              \/ rec'[x].at = "write" /\ d = <<rec'[x].seq, 0>>
<1>1. \A r : r \in ReceiptsOf(x)' <=> \E e \in Endpoint : \E k \in Key : r = receipt'[e][k] /\ Counts(r, x)
  BY DEF ReceiptsOf, Counts
<1>2. \A e : e \in Allotted(x)' <=> e \in Endpoint /\ at'[e] = "receipt" /\ send'[e].hash.to = x
  BY DEF Allotted
<1>3. QED
  BY <1>1, <1>2 DEF Claims

LEMMA ClaimTyped ==
    ASSUME MailInv, NEW x \in Endpoint, NEW d \in Claims(x)
    PROVE  /\ d[1] \in Nat /\ d = <<d[1], d[2]>>
           /\ d[2] \in Id \/ (d[2] = 0 /\ rec[x].at = "write" /\ d[1] = rec[x].seq)
<1>1. TypeOK
  BY DEF MailInv
<1>2. CASE \E p \in Pointers(x) : d = <<p.seq, p.id>>
  BY <1>1, <1>2, KnownTyped DEF Ptr
<1>3. CASE \E e \in Endpoint : \E k \in Key :
              Counts(receipt[e][k], x) /\ d = <<receipt[e][k].seq, receipt[e][k].id>>
  <2>1. PICK e \in Endpoint : \E k \in Key :
           Counts(receipt[e][k], x) /\ d = <<receipt[e][k].seq, receipt[e][k].id>>
    BY <1>3
  <2>2. PICK k \in Key : Counts(receipt[e][k], x) /\ d = <<receipt[e][k].seq, receipt[e][k].id>>
    BY <2>1
  <2>3. receipt[e][k] \in Receipt /\ ReceiptInv(e, k)
    BY <1>1 DEF TypeOK, MailInv
  <2>4. receipt[e][k].seq \in Nat /\ receipt[e][k].id \in Id
    BY <2>2, <2>3 DEF Counts, ReceiptInv, Receipt
  <2>5. QED
    BY <2>2, <2>4
<1>4. CASE \E e \in Endpoint : /\ at[e] = "receipt" /\ send[e].hash.to = x
                               /\ d = <<send[e].seq, send[e].id>>
  <2>1. PICK e \in Endpoint : at[e] = "receipt" /\ d = <<send[e].seq, send[e].id>>
    BY <1>4
  <2>2. send[e].id \in Id /\ send[e] \in Pub
    BY <1>1, <2>1 DEF MailInv, CallInv, PublicationOf, Publishing, TypeOK
  <2>3. QED
    BY <2>1, <2>2 DEF Pub
<1>5. CASE rec[x].at = "write" /\ d = <<rec[x].seq, 0>>
  BY <1>1, <1>5 DEF TypeOK, Rec
<1>6. QED
  BY <1>2, <1>3, <1>4, <1>5, ClaimOf

LEMMA NumbersKept ==
    ASSUME NumInv,
           \A x \in Endpoint :
              /\ box'[x].next = box[x].next
              /\ \A p \in Pointers(x)' : <<p.seq, p.id>> \in Claims(x)
              /\ rec'[x].at = "write" => rec[x].at = "write" /\ rec'[x].seq = rec[x].seq
              /\ \A e \in Endpoint : \A k \in Key : Counts(receipt'[e][k], x) =>
                    <<receipt'[e][k].seq, receipt'[e][k].id>> \in Claims(x),
           \A e \in Endpoint : at'[e] = "receipt" => at[e] = "receipt" /\ send'[e] = send[e]
    PROVE  NumInv'
<1>1. SUFFICES ASSUME NEW x \in Endpoint
               PROVE  SeqInv(x)'
  BY DEF NumInv
<1>2. SeqInv(x) /\ box'[x].next = box[x].next
  BY DEF NumInv
<1>3. ASSUME NEW d, d \in Claims(x)'
      PROVE  d \in Claims(x)
  <2>1. \/ \E p \in Pointers(x)' : d = <<p.seq, p.id>>
        \/ \E e \in Endpoint : \E k \in Key :
              Counts(receipt'[e][k], x) /\ d = <<receipt'[e][k].seq, receipt'[e][k].id>>
        \/ \E e \in Endpoint : /\ at'[e] = "receipt" /\ send'[e].hash.to = x
                               /\ d = <<send'[e].seq, send'[e].id>>
        \/ rec'[x].at = "write" /\ d = <<rec'[x].seq, 0>>
    BY <1>3, NextClaimOf
  <2>2. QED
    BY <2>1, ClaimOf
<1>4. QED
  BY <1>2, <1>3 DEF SeqInv

\* No pointer is new, no receipt and no number.
LEMMA SameNumbers ==
    ASSUME NumInv, receipt' = receipt,
           \A x \in Endpoint :
              /\ box'[x].next = box[x].next
              /\ \A p \in Pointers(x)' : p \in Pointers(x)
              /\ rec'[x].at = "write" => rec'[x] = rec[x],
           \A e \in Endpoint : at'[e] = "receipt" => at[e] = "receipt" /\ send'[e] = send[e]
    PROVE  NumInv'
<1>1. ASSUME NEW x \in Endpoint
      PROVE  /\ \A p \in Pointers(x)' : <<p.seq, p.id>> \in Claims(x)
             /\ \A e \in Endpoint : \A k \in Key : Counts(receipt'[e][k], x) =>
                    <<receipt'[e][k].seq, receipt'[e][k].id>> \in Claims(x)
  BY ClaimOf
<1>2. QED
  BY <1>1, NumbersKept

\* A number is taken: x's next one, for i.
LEMMA NumberTaken ==
    ASSUME IInv, NumInv, NEW x \in Endpoint, NEW i,
           box'[x].next = AllocSeq(x) + 1,
           \A y \in Endpoint : y # x => box'[y].next = box[y].next /\ Claims(y)' \subseteq Claims(y),
           Claims(x)' \subseteq Claims(x) \cup {<<AllocSeq(x), i>>}
    PROVE  NumInv'
<1>1. TypeOK /\ MailInv /\ BoundInv(x)
  BY DEF IInv, MailInv
<1>2. PICK n : n = AllocSeq(x)
  OBVIOUS
<1>3. box[x] \in Mailbox /\ ep[x] \in Record
  BY <1>1 DEF TypeOK
<1>4. n \in Nat /\ box[x].next \in Nat /\ n >= box[x].next
  BY <1>1, <1>2, <1>3, AllocSeqAbove DEF BoundInv, Mailbox
<1>5. \A d \in Claims(x) : d[1] \in Nat /\ d[1] < box[x].next
  BY <1>1, ClaimTyped DEF NumInv, SeqInv
<1>6. \A d \in Claims(x) : d[1] < n
  BY <1>4, <1>5
<1>7. SeqInv(x)'
  <2>1. \A d \in Claims(x)' : d \in Claims(x) \/ d = <<n, i>>
    BY <1>2
  <2>2. box'[x].next = n + 1
    BY <1>2
  <2>3. ASSUME NEW d \in Claims(x)'
        PROVE  d[1] < box'[x].next
    <3>1. CASE d \in Claims(x)
      <4>1. d[1] \in Nat /\ d[1] < n
        BY <1>5, <1>6, <3>1
      <4>2. QED
        BY <1>4, <2>2, <4>1
    <3>2. CASE d = <<n, i>>
      BY <1>4, <2>2, <3>2
    <3>3. QED
      BY <2>1, <3>1, <3>2
  <2>4. ASSUME NEW d \in Claims(x)', NEW g \in Claims(x)', d[1] = g[1]
        PROVE  d[2] = g[2]
    <3>1. CASE d \in Claims(x) /\ g \in Claims(x)
      BY <2>4, <3>1 DEF NumInv, SeqInv
    <3>2. CASE d = <<n, i>> /\ g = <<n, i>>
      BY <3>2
    <3>3. \A h \in Claims(x) : h[1] # n
      BY <1>4, <1>5, <1>6
    <3>4. QED
      BY <2>1, <2>4, <3>1, <3>2, <3>3
  <2>5. QED
    BY <2>3, <2>4 DEF SeqInv
<1>8. \A y \in Endpoint : y # x => SeqInv(y)'
  <2> SUFFICES ASSUME NEW y \in Endpoint, y # x
               PROVE  SeqInv(y)'
    OBVIOUS
  <2>1. SeqInv(y) /\ box'[y].next = box[y].next /\ \A d \in Claims(y)' : d \in Claims(y)
    BY DEF NumInv
  <2>2. QED
    BY <2>1 DEF SeqInv
<1>9. QED
  BY <1>7, <1>8 DEF NumInv

\* A call that is at another step than before the receipt.
LEMMA CallNumbers ==
    ASSUME NumInv, UNCHANGED <<receipt, rec>>, NEW e \in Endpoint, at'[e] # "receipt",
           \A f \in Endpoint : f # e => at'[f] = at[f] /\ send'[f] = send[f],
           \A x \in Endpoint : box'[x].next = box[x].next /\ Pointers(x)' \subseteq Pointers(x)
    PROVE  NumInv'
BY SameNumbers

LEMMA RenamedNumbers ==
    ASSUME TypeOK, NEW x \in Endpoint, NEW p,
           box' = [box EXCEPT ![x] = Renamed(@, p)] \/ box' = box
    PROVE  \A y \in Endpoint : box'[y].next = box[y].next /\ Pointers(y)' \subseteq Pointers(y)
<1>1. CASE box' = box
  BY <1>1 DEF Pointers
<1>2. CASE box' = [box EXCEPT ![x] = Renamed(@, p)]
  <2>1. Pointers(x)' = Pointers(x) /\ \A y \in Endpoint : y # x => box'[y] = box[y]
    BY <1>2, RenamedBox
  <2>2. box[x] \in Mailbox /\ box'[x] = Renamed(box[x], p)
    BY <1>2 DEF TypeOK
  <2>3. box'[x].next = box[x].next
    BY <2>2 DEF Renamed, Mailbox
  <2>4. QED
    BY <2>1, <2>3 DEF Pointers
<1>3. QED
  BY <1>1, <1>2

LEMMA PlainCallNumbers ==
    ASSUME IInv, NumInv, NEW e \in Endpoint,
           \/ SendBusMessage(e) \/ CommitEntry(e) \/ LockTimesOut(e)
           \/ PersistCursor(e) \/ AnswerPoll(e) \/ AcknowledgeBusMessage(e)
    PROVE  NumInv'
<1>1. TypeOK
  BY DEF IInv, MailInv
<1>2. UNCHANGED <<box, receipt, rec>>
  BY DEF SendBusMessage, CommitEntry, LockTimesOut, PersistCursor, AnswerPoll, AcknowledgeBusMessage
<1>3. /\ Return(e) \/ \E l \in {"recover", "fresh", "activate", "parkFinal", "answer", "ackClean"} : Goto(e, l)
      /\ Return(e) \/ send' = send \/ \E s : send' = [send EXCEPT ![e] = s]
  <2>1. CASE SendBusMessage(e)
    BY <2>1 DEF SendBusMessage
  <2>2. CASE CommitEntry(e)
    <3>1. Return(e) \/ (send' = send /\ Goto(e, IF at[e] = "parkEntry" THEN "parkFinal" ELSE "activate"))
      BY <2>2 DEF CommitEntry
    <3>2. QED
      BY <3>1
  <2>3. CASE LockTimesOut(e) \/ AnswerPoll(e)
    BY <2>3 DEF LockTimesOut, AnswerPoll
  <2>4. CASE PersistCursor(e)
    BY <2>4 DEF PersistCursor
  <2>5. CASE AcknowledgeBusMessage(e)
    BY <2>5 DEF AcknowledgeBusMessage
  <2>6. QED
    BY <2>1, <2>2, <2>3, <2>4, <2>5
<1>4. at'[e] # "receipt" /\ \A f \in Endpoint : f # e => at'[f] = at[f]
  <2>1. CASE Return(e)
    BY <1>1, <2>1, ReturnTyped
  <2>2. ASSUME NEW l \in {"recover", "fresh", "activate", "parkFinal", "answer", "ackClean"}, Goto(e, l)
        PROVE  at'[e] # "receipt" /\ \A f \in Endpoint : f # e => at'[f] = at[f]
    <3>1. l \in {"idle", "ackClean"} \cup Sending \cup Polling /\ l # "receipt"
      BY DEF Sending, Publishing, Polling
    <3>2. QED
      BY <1>1, <2>2, <3>1, GotoTyped
  <2>3. QED
    BY <1>3, <2>1, <2>2
<1>5. \A f \in Endpoint : f # e => send'[f] = send[f]
  <2>1. CASE Return(e)
    BY <1>1, <2>1, ReturnTyped
  <2>2. CASE send' = send \/ \E s : send' = [send EXCEPT ![e] = s]
    BY <1>1, <2>2 DEF TypeOK
  <2>3. QED
    BY <1>3, <2>1, <2>2
<1>6. QED
  BY <1>2, <1>4, <1>5, CallNumbers DEF Pointers

LEMMA RenamingNumbers ==
    ASSUME IInv, PtrInv, NumInv, NEW e \in Endpoint, Reactivate(e) \/ ActivatePointer(e)
    PROVE  NumInv'
<1>1. TypeOK /\ MailInv
  BY DEF IInv, MailInv
<1>2. /\ UNCHANGED <<receipt, rec>>
      /\ \/ Return(e)
         \/ send' = send /\ \E l \in {"confirm", "finalize"} : Goto(e, l)
      /\ box' = box \/ \E p : box' = [box EXCEPT ![send[e].hash.to] = Renamed(@, p)]
  BY DEF Reactivate, ActivatePointer
<1>3. /\ at'[e] # "receipt"
      /\ \A f \in Endpoint : f # e => at'[f] = at[f] /\ send'[f] = send[f]
  <2>1. CASE Return(e)
    BY <1>1, <2>1, ReturnTyped
  <2>2. ASSUME send' = send, NEW l \in {"confirm", "finalize"}, Goto(e, l)
        PROVE  /\ at'[e] # "receipt"
               /\ \A f \in Endpoint : f # e => at'[f] = at[f] /\ send'[f] = send[f]
    <3>1. l \in {"idle", "ackClean"} \cup Sending \cup Polling /\ l # "receipt"
      BY DEF Sending, Publishing, Polling
    <3>2. QED
      BY <1>1, <2>2, <3>1, GotoTyped
  <2>3. QED
    BY <1>2, <2>1, <2>2
<1>4. send[e].hash.to \in Endpoint
  BY <1>1, RecoveredIsCommitted, PublishedTyped DEF Reactivate, ActivatePointer, Publishing
<1>5. \A y \in Endpoint : box'[y].next = box[y].next /\ Pointers(y)' \subseteq Pointers(y)
  BY <1>1, <1>2, <1>4, RenamedNumbers
<1>6. QED
  BY <1>2, <1>3, <1>5, CallNumbers

\* Calls and reconciliations that take pointers away.
LEMMA TakingNumbers ==
    ASSUME IInv, NumInv, NEW e \in Endpoint, WalkPointer(e) \/ AckClean(e)
    PROVE  NumInv'
<1>1. TypeOK /\ box \in [Endpoint -> Mailbox]
  BY DEF IInv, MailInv, TypeOK
<1>2. /\ UNCHANGED <<receipt, rec>> /\ at[e] # "receipt"
      /\ Return(e) \/ UNCHANGED <<at, send>>
      /\ box' = box \/ \E S : box' = [box EXCEPT ![e].active = @ \ S, ![e].pending = @ \ S]
  BY DEF WalkPointer, AckClean, RemovePointer
<1>3. /\ at'[e] # "receipt"
      /\ \A f \in Endpoint : f # e => at'[f] = at[f] /\ send'[f] = send[f]
  BY <1>1, <1>2, ReturnTyped
<1>4. \A y \in Endpoint : box'[y].next = box[y].next /\ Pointers(y)' \subseteq Pointers(y)
  <2>1. ASSUME NEW S, box' = [box EXCEPT ![e].active = @ \ S, ![e].pending = @ \ S]
        PROVE  \A y \in Endpoint : box'[y].next = box[y].next /\ Pointers(y)' \subseteq Pointers(y)
    BY <1>1, <2>1 DEF Mailbox, Pointers
  <2>2. QED
    BY <1>2, <2>1 DEF Pointers
<1>5. QED
  BY <1>2, <1>3, <1>4, CallNumbers

\* Neither calls nor receipts, nor a number for a pointer.
LEMMA AsideNumbers ==
    ASSUME NumInv, UNCHANGED <<at, send, receipt>>,
           \A x \in Endpoint : rec'[x].at = "write" => rec'[x] = rec[x],
           \A x \in Endpoint : box'[x].next = box[x].next /\ Pointers(x)' \subseteq Pointers(x)
    PROVE  NumInv'
BY SameNumbers

\* A reconciliation that is not about to write a pointer.
LEMMA RecNumbers ==
    ASSUME IInv, NumInv, UNCHANGED <<box, receipt, send>>, NEW x \in Endpoint,
           at' = at \/ Goto(x, "reconcile") \/ Goto(x, "walk"),
           rec'[x].at # "write", \A y \in Endpoint : y # x => rec'[y] = rec[y]
    PROVE  NumInv'
<1>1. TypeOK
  BY DEF IInv, MailInv
<1>2. \A e \in Endpoint : at'[e] = "receipt" => at[e] = "receipt"
  BY <1>1, GotoTyped DEF Polling
<1>3. QED
  BY <1>2, SameNumbers DEF Pointers

LEMMA ReconcilingNumbers ==
    ASSUME IInv, NumInv, NEW x \in Endpoint,
           \/ StartPoll(x) \/ MaterializeSuccessorMailbox(x) \/ PickIntent(x) \/ ListActive(x)
           \/ FoldThread(x) \/ EndScan(x)
    PROVE  NumInv'
<1>1. TypeOK /\ rec \in [Endpoint -> Rec] /\ rec[x] \in Rec
  BY DEF IInv, MailInv, TypeOK
<1>2. /\ UNCHANGED <<box, receipt, send>>
      /\ at' = at \/ Goto(x, "reconcile")
  BY DEF StartPoll, MaterializeSuccessorMailbox, PickIntent, ListActive, FoldThread, EndScan
<1>3. rec'[x].at # "write" /\ \A y \in Endpoint : y # x => rec'[y] = rec[y]
  <2>1. CASE StartPoll(x) \/ MaterializeSuccessorMailbox(x)
    BY <1>1, <2>1 DEF StartPoll, MaterializeSuccessorMailbox, Begun, NoRec, Advance
  <2>2. CASE PickIntent(x)
    <3>1. PICK p, l :
             \/ Advance(x, [rec[x] EXCEPT !.todo = @ \ {p}])
             \/ Advance(x, [rec[x] EXCEPT !.at = "intent", !.lockOn = l])
      BY <2>2 DEF PickIntent
    <3>2. rec[x].at = "intents"
      BY <2>2 DEF PickIntent
    <3>3. QED
      BY <1>1, <3>1, <3>2 DEF Advance, Rec
  <2>3. CASE ListActive(x)
    BY <1>1, <2>3 DEF ListActive, Advance, Rec
  <2>4. CASE FoldThread(x)
    <3>1. PICK t, S : Advance(x, [rec[x] EXCEPT !.threads = @ \ {t}, !.missing = S, !.next = "create",
                                       !.at = IF S = {} THEN "scan" ELSE "list"])
      BY <2>4 DEF FoldThread
    <3>2. QED
      BY <1>1, <3>1 DEF Advance, Rec
  <2>5. CASE EndScan(x)
    BY <1>1, <2>5 DEF EndScan, Advance, Rec
  <2>6. QED
    BY <2>1, <2>2, <2>3, <2>4, <2>5
<1>4. QED
  BY <1>2, <1>3, RecNumbers

LEMMA ListPendingNumbers ==
    ASSUME IInv, NumInv, NEW x \in Endpoint, ListPending(x)
    PROVE  NumInv'
<1> DEFINE listed == Listing(rec[x].listed, box[x].pending)
           known == [rec[x] EXCEPT !.at = "scan", !.known = Ids(listed),
                                   !.threads = Threads, !.listed = {}]
           going == [rec[x] EXCEPT !.at = rec[x].next, !.listed = listed]
<1>1. TypeOK /\ rec \in [Endpoint -> Rec] /\ rec[x] \in Rec
  BY DEF IInv, MailInv, TypeOK
<1>2. UNCHANGED <<box, receipt, send>>
  BY DEF ListPending
<1>3. /\ \/ Advance(x, known)
         \/ rec[x].next \in {"create", "sweep"} /\ Advance(x, going)
         \/ Advance(x, NoRec)
      /\ at' = at \/ Goto(x, "walk")
  <2>1. rec[x].next \in {"known", "create", "sweep", "done"}
    BY <1>1 DEF Rec
  <2>2. /\ rec[x].next = "known" => Advance(x, known) /\ UNCHANGED <<at, walk>>
        /\ rec[x].next \in {"create", "sweep"} => Advance(x, going) /\ UNCHANGED <<at, walk>>
        /\ rec[x].next = "done" =>
              /\ Advance(x, NoRec)
              /\ UNCHANGED at \/ Goto(x, "walk")
    BY <2>1 DEF ListPending
  <2> HIDE DEF known, going
  <2>3. QED
    BY <2>1, <2>2
<1> HIDE DEF listed
<1>4. rec'[x].at # "write" /\ \A y \in Endpoint : y # x => rec'[y] = rec[y]
  <2>1. CASE Advance(x, known)
    BY <1>1, <2>1 DEF Advance, Rec
  <2>2. CASE rec[x].next \in {"create", "sweep"} /\ Advance(x, going)
    BY <1>1, <2>2 DEF Advance, Rec
  <2>3. CASE Advance(x, NoRec)
    BY <1>1, <2>3 DEF Advance, NoRec
  <2>4. QED
    BY <1>3, <2>1, <2>2, <2>3
<1>5. QED
  BY <1>2, <1>3, <1>4, RecNumbers

LEMMA CleaningNumbers ==
    ASSUME IInv, NumInv, NEW x \in Endpoint, RecoverPendingIntent(x) \/ Sweep(x)
    PROVE  NumInv'
<1>1. TypeOK /\ rec \in [Endpoint -> Rec] /\ rec[x] \in Rec /\ box \in [Endpoint -> Mailbox]
  BY DEF IInv, MailInv, TypeOK
<1>2. UNCHANGED <<at, send, receipt>>
  BY DEF RecoverPendingIntent, Sweep
<1>3. CASE RecoverPendingIntent(x)
  <2>1. PICK p : p = First(rec[x].todo)
    OBVIOUS
  <2>2. /\ Advance(x, [rec[x] EXCEPT !.at = "intents", !.todo = @ \ {p}])
        /\ \/ box' = box \/ box' = [box EXCEPT ![x] = Renamed(@, p)]
           \/ box' = [box EXCEPT ![x].pending = @ \ {p}]
    BY <1>3, <2>1 DEF RecoverPendingIntent
  <2>3. \A y \in Endpoint : rec'[y].at = "write" => rec'[y] = rec[y]
    BY <1>1, <2>2 DEF Advance, Rec
  <2>4. \A y \in Endpoint : box'[y].next = box[y].next /\ Pointers(y)' \subseteq Pointers(y)
    <3>1. CASE box' = [box EXCEPT ![x].pending = @ \ {p}]
      BY <1>1, <3>1 DEF Mailbox, Pointers
    <3>2. QED
      BY <1>1, <2>2, <3>1, RenamedNumbers
  <2>5. QED
    BY <1>2, <2>3, <2>4, AsideNumbers
<1>4. CASE Sweep(x)
  <2>1. PICK d \in rec[x].dirs :
           /\ \E A \in SUBSET box[d[1]].active : \E P \in SUBSET box[d[1]].pending :
                 box' = [box EXCEPT ![d[1]].active = A, ![d[1]].pending = P]
           /\ Advance(x, [rec[x] EXCEPT !.dirs = @ \ {d}, !.next = "done",
                            !.at = IF rec[x].dirs = {d} THEN "list" ELSE "sweep"])
    <3> DEFINE Redundant(p) ==
                  /\ MatchesCanonical(p, Addressees(x))
                  /\ \/ p.id \in Ids({q \in rec[x].listed : MatchesCanonical(q, Addressees(x))})
                     \/ Terminal(p.thread, p.id)
               Kept(d, dir, S) == IF d[2] = dir THEN {p \in S : ~Redundant(p)} ELSE S
    <3>1. PICK d \in rec[x].dirs :
            /\ box' = [box EXCEPT ![d[1]].active = Kept(d, "active", @),
                                  ![d[1]].pending = Kept(d, "pending", @)]
            /\ Advance(x, [rec[x] EXCEPT !.dirs = @ \ {d}, !.next = "done",
                            !.at = IF rec[x].dirs = {d} THEN "list" ELSE "sweep"])
      BY <1>4, Zenon DEF Sweep
    <3>2. \A dir, S : Kept(d, dir, S) \subseteq S
      OBVIOUS
    <3>3. d[1] \in Endpoint
      BY <1>1 DEF Rec
    <3> HIDE DEF Kept, Redundant
    <3>4. box' = [box EXCEPT ![d[1]].active = Kept(d, "active", box[d[1]].active),
                             ![d[1]].pending = Kept(d, "pending", box[d[1]].pending)]
      BY <1>1, <3>1, <3>3 DEF Mailbox
    <3>5. QED
      BY <3>1, <3>2, <3>4
  <2>2. d[1] \in Endpoint
    BY <1>1 DEF Rec
  <2>3. \A y \in Endpoint : rec'[y].at = "write" => rec'[y] = rec[y]
    BY <1>1, <2>1 DEF Advance, Rec
  <2>4. \A y \in Endpoint : box'[y].next = box[y].next /\ Pointers(y)' \subseteq Pointers(y)
    BY <1>1, <2>1, <2>2 DEF Mailbox, Pointers
  <2>5. QED
    BY <1>2, <2>3, <2>4, AsideNumbers
<1>5. QED
  BY <1>3, <1>4

\* Updates, hooks and replacements, and what fails.
LEMMA RestNumbers ==
    ASSUME IInv, NumInv,
           \/ \E e \in Endpoint : \/ UpdateBusThread(e) \/ ReadPendingCursor(e)
                                  \/ ClaimPendingDelivery(e) \/ CallFails(e) \/ SetupFails(e)
           \/ \E new, old \in Endpoint : RetireIncumbent(new, old)
           \/ CreateSuccessor \/ JoinFails \/ UNCHANGED vars
    PROVE  NumInv'
<1>1. TypeOK /\ rec \in [Endpoint -> Rec]
  BY DEF IInv, MailInv, TypeOK
<1>2. UNCHANGED <<box, receipt>>
  BY DEF UpdateBusThread, ReadPendingCursor, ClaimPendingDelivery, CallFails, SetupFails,
         RetireIncumbent, CreateSuccessor, JoinFails, vars
<1>3. UNCHANGED <<at, send>> \/ \E e \in Endpoint : Return(e)
  BY DEF UpdateBusThread, ReadPendingCursor, ClaimPendingDelivery, CallFails, SetupFails,
         RetireIncumbent, CreateSuccessor, JoinFails, vars
<1>4. \A e \in Endpoint : at'[e] = "receipt" => at[e] = "receipt" /\ send'[e] = send[e]
  BY <1>1, <1>3, ReturnTyped
<1>5. rec' = rec \/ \E e \in Endpoint : \/ rec' = [rec EXCEPT ![e] = NoRec]
                                        \/ rec' = [rec EXCEPT ![e] = IF at[e] = "reconcile" THEN NoRec ELSE @]
  BY DEF UpdateBusThread, ReadPendingCursor, ClaimPendingDelivery, CallFails, SetupFails, Advance,
         RetireIncumbent, CreateSuccessor, JoinFails, vars
<1>6. \A y \in Endpoint : rec'[y] = rec[y] \/ rec'[y] = NoRec
  BY <1>1, <1>5
<1>7. NoRec.at # "write"
  BY DEF NoRec
<1>8. QED
  BY <1>2, <1>4, <1>6, <1>7, SameNumbers DEF Pointers

\* What a receipt says of a delivery was claimed before.
LEMMA ReceiptNumbers ==
    ASSUME NumInv, rec' = rec, NEW e \in Endpoint, at'[e] # "receipt",
           \A f \in Endpoint : f # e => at'[f] = at[f] /\ send'[f] = send[f],
           \A x \in Endpoint : box'[x].next = box[x].next /\ Pointers(x)' \subseteq Pointers(x),
           \A f \in Endpoint : \A k \in Key :
              receipt'[f][k] = receipt[f][k] \/
                 \A x \in Endpoint : Counts(receipt'[f][k], x) =>
                    <<receipt'[f][k].seq, receipt'[f][k].id>> \in Claims(x)
    PROVE  NumInv'
<1>1. ASSUME NEW x \in Endpoint
      PROVE  /\ \A p \in Pointers(x)' : <<p.seq, p.id>> \in Claims(x)
             /\ \A f \in Endpoint : \A k \in Key : Counts(receipt'[f][k], x) =>
                    <<receipt'[f][k].seq, receipt'[f][k].id>> \in Claims(x)
  BY ClaimOf
<1>2. \A f \in Endpoint : at'[f] = "receipt" => at[f] = "receipt" /\ send'[f] = send[f]
  OBVIOUS
<1>3. QED
  BY <1>1, <1>2, NumbersKept

LEMMA ForgetReceiptNumbers ==
    ASSUME IInv, NumInv, NEW e \in Endpoint, ForgetReceipt(e)
    PROVE  NumInv'
<1>1. /\ TypeOK /\ at[e] = "forget" /\ CallInv(e) /\ at[e] \in Sending /\ SetReceipt(e, NoReceipt)
      /\ UNCHANGED <<log, box, ep, joining, walk, rec, hook, nextId, faults, seen, told>>
      /\ Return(e) \/ (Goto(e, "fresh") /\ UNCHANGED send)
  BY DEF ForgetReceipt, Afresh, IInv, MailInv, Sending
<1>2. send[e].key \in Key
  BY <1>1 DEF CallInv, AskedOf
<1>3. /\ at'[e] \in {"idle", "fresh"}
      /\ \A f \in Endpoint : f # e => at'[f] = at[f] /\ send'[f] = send[f]
  BY <1>1, GotoTyped, ReturnTyped DEF Sending
<1>4. \A f \in Endpoint : \A k \in Key : receipt'[f][k] = receipt[f][k] \/ receipt'[f][k] = NoReceipt
  BY <1>1, <1>2, SetReceiptTyped, NothingTyped
<1>5. \A x : ~Counts(NoReceipt, x)
  BY DEF Counts, NoReceipt
<1>6. QED
  BY <1>1, <1>3, <1>4, <1>5, ReceiptNumbers DEF Pointers

LEMMA RecoverReceiptNumbers ==
    ASSUME IInv, NumInv, NEW e \in Endpoint, RecoverReceipt(e)
    PROVE  NumInv'
<1> DEFINE r == receipt[e][send[e].key]
           final == [r EXCEPT !.state = "final"]
           kept == [box EXCEPT ![r.hash.to].pending = {p \in @ : p.seq # r.seq \/ p.id # r.id}]
<1>1. /\ TypeOK /\ MailInv /\ at[e] = "recover" /\ CallInv(e) /\ at[e] \in Sending
      /\ UNCHANGED <<log, ep, joining, walk, rec, hook, nextId, faults, seen, told>>
  BY DEF RecoverReceipt, IInv, MailInv, Sending
<1>2. send[e].key \in Key /\ r.state = "pending" /\ r \in Receipt /\ r.hash \in Hash
  <2>1. send[e].key \in Key /\ r.state = "pending"
    BY <1>1 DEF CallInv, AskedOf, ReceiptOf, Retries
  <2>2. ReceiptInv(e, send[e].key)
    BY <1>1, <2>1 DEF MailInv
  <2>3. QED
    BY <1>1, <2>1, <2>2 DEF ReceiptInv, TypeOK
<1>3. /\ \/ receipt' = receipt
         \/ r.outcome = "parked" /\ SetReceipt(e, final)
         \/ SetReceipt(e, NoReceipt)
      /\ box' = box \/ box' = kept
      /\ Return(e) \/ (send' = send /\ \E l \in {"redeliver", "fresh", "forget"} : Goto(e, l))
  <2>1. \/ Return(e) /\ UNCHANGED <<receipt, box>>
        \/ r.outcome = "parked" /\ SetReceipt(e, final) /\ Return(e) /\ UNCHANGED box
        \/ Goto(e, "redeliver") /\ UNCHANGED <<receipt, box, send>>
        \/ SetReceipt(e, NoReceipt) /\ Afresh(e) /\ UNCHANGED box
        \/ box' = kept /\ Goto(e, "forget") /\ UNCHANGED <<receipt, send>>
    BY DEF RecoverReceipt
  <2> HIDE DEF r, final, kept
  <2>2. QED
    BY <2>1 DEF Afresh
<1>4. /\ at'[e] # "receipt"
      /\ \A f \in Endpoint : f # e => at'[f] = at[f] /\ send'[f] = send[f]
  <2>1. CASE Return(e)
    BY <1>1, <2>1, ReturnTyped
  <2>2. ASSUME send' = send, NEW l \in {"redeliver", "fresh", "forget"}, Goto(e, l)
        PROVE  /\ at'[e] # "receipt"
               /\ \A f \in Endpoint : f # e => at'[f] = at[f] /\ send'[f] = send[f]
    BY <1>1, <2>2, GotoTyped DEF Sending
  <2>3. QED
    BY <1>3, <2>1, <2>2
<1>5. \A y \in Endpoint : box'[y].next = box[y].next /\ Pointers(y)' \subseteq Pointers(y)
  <2>1. CASE box' = box
    BY <2>1 DEF Pointers
  <2>2. CASE box' = kept
    <3>1. box \in [Endpoint -> Mailbox] /\ r.hash.to \in Endpoint
      BY <1>1, <1>2 DEF TypeOK, Hash
    <3>2. PICK x \in Endpoint : x = r.hash.to
      BY <3>1
    <3>3. PICK s, i : s = r.seq /\ i = r.id
      OBVIOUS
    <3>4. box' = [box EXCEPT ![x].pending = {p \in @ : p.seq # s \/ p.id # i}]
      BY <2>2, <3>2, <3>3
    <3>5. QED
      BY <3>1, <3>4 DEF Mailbox, Pointers
  <2>3. QED
    BY <1>3, <2>1, <2>2
<1>6. \A f \in Endpoint : \A k \in Key :
         receipt'[f][k] = receipt[f][k] \/ \A x \in Endpoint : ~Counts(receipt'[f][k], x)
  <2>1. CASE r.outcome = "parked" /\ SetReceipt(e, final)
    <3>1. final \in Receipt /\ final.outcome = "parked"
      BY <1>2, <2>1, FinalTyped DEF Receipt
    <3> HIDE DEF final
    <3>2. \A f \in Endpoint : \A k \in Key : receipt'[f][k] = receipt[f][k] \/ receipt'[f][k] = final
      BY <1>1, <1>2, <2>1, <3>1, SetReceiptTyped
    <3>3. QED
      BY <3>1, <3>2 DEF Counts
  <2>2. CASE SetReceipt(e, NoReceipt)
    <3>1. \A f \in Endpoint : \A k \in Key : receipt'[f][k] = receipt[f][k] \/ receipt'[f][k] = NoReceipt
      BY <1>1, <1>2, <2>2, SetReceiptTyped, NothingTyped
    <3>2. QED
      BY <3>1 DEF Counts, NoReceipt
  <2>3. QED
    BY <1>3, <2>1, <2>2
<1>7. QED
  BY <1>1, <1>4, <1>5, <1>6, ReceiptNumbers

\* The number that a publication was given, of a mailbox, is its receipt's.
LEMMA WriteReceiptNumbers ==
    ASSUME IInv, NumInv, NEW e \in Endpoint, WriteReceipt(e)
    PROVE  NumInv'
<1> DEFINE s == [state |-> "pending", hash |-> send[e].hash, thread |-> send[e].thread,
                 id |-> send[e].id, seq |-> send[e].seq, outcome |-> send[e].outcome]
<1>1. /\ TypeOK /\ at[e] \in {"receipt", "park"} /\ CallInv(e) /\ at[e] \in Sending
      /\ SetReceipt(e, s)
      /\ Goto(e, IF at[e] = "park" THEN "parkEntry" ELSE "intent")
      /\ UNCHANGED <<log, box, ep, joining, send, walk, rec, hook, nextId, faults, seen, told>>
  BY DEF WriteReceipt, IInv, MailInv, Sending, Publishing
<1>2. send[e].key \in Key /\ send[e].hash \in Hash /\ send[e] \in Pub
  BY <1>1 DEF CallInv, AskedOf, TypeOK
<1>3. /\ s \in Receipt /\ s.outcome = send[e].outcome /\ s.hash = send[e].hash
      /\ s.seq = send[e].seq /\ s.id = send[e].id
  BY <1>2 DEF Receipt, Pub
<1> HIDE DEF s
<1>4. \A f \in Endpoint : \A k \in Key : receipt'[f][k] = receipt[f][k] \/ receipt'[f][k] = s
  BY <1>1, <1>2, <1>3, SetReceiptTyped
<1>5. ASSUME NEW x \in Endpoint, Counts(s, x)
      PROVE  <<s.seq, s.id>> \in Claims(x)
  <2>1. send[e].outcome = "delivered" /\ send[e].hash.to = x
    BY <1>3, <1>5 DEF Counts
  <2>2. at[e] = "receipt"
    BY <1>1, <2>1 DEF CallInv, PublicationOf, Parks
  <2>3. QED
    BY <1>3, <2>1, <2>2, ClaimOf
<1>6. at'[e] # "receipt" /\ \A f \in Endpoint : f # e => at'[f] = at[f]
  BY <1>1, GotoTyped DEF Sending, Publishing
<1>7. QED
  BY <1>1, <1>4, <1>5, <1>6, ReceiptNumbers DEF Pointers

LEMMA FinalizeReceiptNumbers ==
    ASSUME IInv, NumInv, NEW e \in Endpoint, FinalizeReceipt(e)
    PROVE  NumInv'
<1>1. /\ TypeOK /\ at[e] \in {"finalize", "confirm", "parkFinal"} /\ CallInv(e) /\ at[e] \in Sending
      /\ receipt' = [receipt EXCEPT ![e][send[e].key].state = "final"] /\ Return(e)
      /\ UNCHANGED <<log, box, ep, joining, walk, rec, hook, nextId, faults, seen, told>>
  BY DEF FinalizeReceipt, IInv, MailInv, Sending, Publishing
<1>2. PICK k \in Key : k = send[e].key /\ receipt[e][k].state = "pending"
  BY <1>1 DEF CallInv, AskedOf, ReceiptOf, Retries, Publishing
<1>3. /\ receipt'[e][k].outcome = receipt[e][k].outcome /\ receipt'[e][k].hash = receipt[e][k].hash
      /\ receipt'[e][k].seq = receipt[e][k].seq /\ receipt'[e][k].id = receipt[e][k].id
      /\ \A f \in Endpoint : \A l \in Key : f # e \/ l # k => receipt'[f][l] = receipt[f][l]
  BY <1>1, <1>2 DEF TypeOK, Receipt
<1>4. ASSUME NEW x \in Endpoint, Counts(receipt'[e][k], x)
      PROVE  <<receipt'[e][k].seq, receipt'[e][k].id>> \in Claims(x)
  <2>1. Counts(receipt[e][k], x)
    BY <1>2, <1>3, <1>4 DEF Counts
  <2>2. QED
    BY <1>3, <2>1, ClaimOf
<1>5. at'[e] = "idle" /\ \A f \in Endpoint : f # e => at'[f] = at[f] /\ send'[f] = send[f]
  BY <1>1, ReturnTyped
<1>6. QED
  BY <1>1, <1>3, <1>4, <1>5, ReceiptNumbers DEF Pointers

\* A pointer is written with a number that its message has.
LEMMA LinkedNumbers ==
    ASSUME TypeOK, NumInv, UNCHANGED <<receipt, rec>>, NEW e \in Endpoint, at'[e] # "receipt",
           \A f \in Endpoint : f # e => at'[f] = at[f] /\ send'[f] = send[f],
           NEW x \in Endpoint, NEW p \in Ptr, <<p.seq, p.id>> \in Claims(x),
           box' = [box EXCEPT ![x].pending = @ \cup {p}]
    PROVE  NumInv'
<1>1. /\ box'[x].active = box[x].active /\ box'[x].pending = box[x].pending \cup {p}
      /\ box'[x].next = box[x].next
      /\ \A y \in Endpoint : y # x => box'[y] = box[y]
  BY LinkedTyped
<1>2. \A y \in Endpoint : box'[y].next = box[y].next
  BY <1>1
<1>3. \A y \in Endpoint : \A q \in Pointers(y)' : q \in Pointers(y) \/ (y = x /\ q = p)
  BY <1>1 DEF Pointers
<1>4. \A y \in Endpoint : \A q \in Pointers(y)' : <<q.seq, q.id>> \in Claims(y)
  BY <1>3, ClaimOf
<1>5. \A y \in Endpoint : \A f \in Endpoint : \A k \in Key : Counts(receipt'[f][k], y) =>
         <<receipt'[f][k].seq, receipt'[f][k].id>> \in Claims(y)
  BY ClaimOf
<1>6. \A f \in Endpoint : at'[f] = "receipt" => at[f] = "receipt" /\ send'[f] = send[f]
  OBVIOUS
<1>7. QED
  BY <1>2, <1>4, <1>5, <1>6, NumbersKept

LEMMA PublishPointerIntentNumbers ==
    ASSUME IInv, NumInv, NEW e \in Endpoint, PublishPointerIntent(e)
    PROVE  NumInv'
<1>1. /\ TypeOK /\ MailInv /\ at[e] = "intent" /\ CallInv(e) /\ at[e] \in Sending /\ at[e] \in Publishing
      /\ box' = [box EXCEPT ![send[e].hash.to].pending = @ \cup {Pointer(send[e])}]
      /\ Goto(e, "commit")
      /\ UNCHANGED <<log, receipt, ep, joining, send, walk, rec, hook, nextId, faults, seen, told>>
  BY DEF PublishPointerIntent, IInv, MailInv, Sending, Publishing
<1>2. at'[e] # "receipt" /\ \A f \in Endpoint : f # e => at'[f] = at[f]
  BY <1>1, GotoTyped DEF Sending, Publishing
<1>3. PICK x \in Endpoint : x = send[e].hash.to
  BY <1>1, PublishedTyped
<1>4. PICK p \in Ptr : p = Pointer(send[e])
  BY <1>1, PublishedTyped
<1>5. <<p.seq, p.id>> \in Claims(x)
  <2>1. PICK k \in Key : k = send[e].key
    BY <1>1 DEF CallInv, AskedOf
  <2>2. /\ receipt[e][k].state = "pending" /\ receipt[e][k].hash = send[e].hash
        /\ receipt[e][k].id = send[e].id /\ receipt[e][k].seq = send[e].seq
        /\ receipt[e][k].outcome = send[e].outcome /\ send[e].outcome = "delivered"
    BY <1>1, <2>1 DEF CallInv, ReceiptOf, PublicationOf, Publishing, Delivers
  <2>3. Counts(receipt[e][k], x)
    BY <1>3, <2>2 DEF Counts
  <2>4. p.seq = receipt[e][k].seq /\ p.id = receipt[e][k].id
    BY <1>4, <2>2 DEF Pointer
  <2>5. QED
    BY <2>3, <2>4, ClaimOf
<1>6. QED
  BY <1>1, <1>2, <1>3, <1>4, <1>5, LinkedNumbers

LEMMA RedeliverNumbers ==
    ASSUME IInv, NumInv, NEW e \in Endpoint, Redeliver(e)
    PROVE  NumInv'
<1>1. /\ TypeOK /\ MailInv /\ at[e] = "redeliver" /\ CallInv(e) /\ at[e] \in Sending
      /\ \/ Goto(e, "confirm") /\ UNCHANGED box
         \/ /\ box' = [box EXCEPT ![send[e].hash.to].pending = @ \cup {Recovered(e)}]
            /\ Goto(e, "reactivate")
      /\ UNCHANGED <<log, receipt, ep, joining, send, walk, rec, hook, nextId, faults, seen, told>>
  BY DEF Redeliver, IInv, MailInv, Sending
<1>2. at'[e] # "receipt" /\ \A f \in Endpoint : f # e => at'[f] = at[f]
  <2>1. ASSUME NEW l \in {"confirm", "reactivate"}, Goto(e, l)
        PROVE  at'[e] # "receipt" /\ \A f \in Endpoint : f # e => at'[f] = at[f]
    BY <1>1, <2>1, GotoTyped DEF Sending
  <2>2. QED
    BY <1>1, <2>1
<1>3. CASE UNCHANGED box
  BY <1>1, <1>2, <1>3, CallNumbers DEF Pointers
<1>4. CASE box' = [box EXCEPT ![send[e].hash.to].pending = @ \cup {Recovered(e)}]
  <2>1. PICK x \in Endpoint : x = send[e].hash.to
    BY <1>1, RecoveredTyped
  <2>2. PICK p \in Ptr : p = Recovered(e)
    BY <1>1, RecoveredTyped
  <2>3. PICK k \in Key : k = send[e].key
    BY <1>1, RecoveredTyped
  <2>4. p.seq = receipt[e][k].seq /\ p.id = receipt[e][k].id
    BY <1>1, <2>2, <2>3, RecoveredTyped
  <2>5. /\ receipt[e][k].state = "pending" /\ receipt[e][k].hash = send[e].hash
        /\ receipt[e][k].outcome = "delivered"
    BY <1>1, <2>3 DEF CallInv, ReceiptOf, Retries, Repeats
  <2>6. Counts(receipt[e][k], x)
    BY <2>1, <2>5 DEF Counts
  <2>7. <<p.seq, p.id>> \in Claims(x)
    BY <2>4, <2>6, ClaimOf
  <2>8. QED
    BY <1>1, <1>2, <1>4, <2>1, <2>2, <2>7, LinkedNumbers
<1>5. QED
  BY <1>1, <1>3, <1>4

\* A publication takes the next number of its addressee's mailbox.
LEMMA PrepareNumbers ==
    ASSUME IInv, NumInv, NEW e \in Endpoint, send[e].hash \in Hash, NEW t \in Id, NEW pos \in Nat,
           nextId <= MaxId, Prepare(e, t, pos), UNCHANGED <<receipt, rec>>
    PROVE  NumInv'
<1>1. TypeOK /\ box \in [Endpoint -> Mailbox] /\ send[e].hash.to \in Endpoint
  BY DEF IInv, MailInv, TypeOK, Hash
<1>2. PICK x \in Endpoint : x = send[e].hash.to
  BY <1>1
<1>3. PICK i : i = nextId
  OBVIOUS
<1>4. BoundInv(x)
  BY DEF IInv
<1>5. /\ at'[e] = "receipt" /\ \A f \in Endpoint : f # e => at'[f] = at[f] /\ send'[f] = send[f]
      /\ send'[e].hash = send[e].hash /\ send'[e].id = i /\ send'[e].seq = AllocSeq(x)
      /\ \A y \in Endpoint : box'[y].active = box[y].active /\ box'[y].pending = box[y].pending
  BY <1>1, <1>2, <1>3, <1>4, PrepareTyped
<1>6. box'[x].next = AllocSeq(x) + 1 /\ \A y \in Endpoint : y # x => box'[y].next = box[y].next
  BY <1>1, <1>2 DEF Prepare, Mailbox
<1>7. PICK n : n = AllocSeq(x)
  OBVIOUS
<1>8. ASSUME NEW y \in Endpoint, NEW d, d \in Claims(y)'
      PROVE  d \in Claims(y) \/ (y = x /\ d = <<n, i>>)
  <2>1. \A p : p \in Pointers(y)' => p \in Pointers(y)
    BY <1>5 DEF Pointers
  <2>2. \/ \E p \in Pointers(y) : d = <<p.seq, p.id>>
        \/ \E f \in Endpoint : \E k \in Key :
              Counts(receipt[f][k], y) /\ d = <<receipt[f][k].seq, receipt[f][k].id>>
        \/ \E f \in Endpoint : /\ at'[f] = "receipt" /\ send'[f].hash.to = y
                               /\ d = <<send'[f].seq, send'[f].id>>
        \/ rec[y].at = "write" /\ d = <<rec[y].seq, 0>>
    BY <1>8, <2>1, NextClaimOf
  <2>3. ASSUME NEW f \in Endpoint, at'[f] = "receipt", send'[f].hash.to = y,
               d = <<send'[f].seq, send'[f].id>>
        PROVE  d \in Claims(y) \/ (y = x /\ d = <<n, i>>)
    <3>1. CASE f = e
      BY <1>2, <1>5, <1>7, <2>3, <3>1
    <3>2. CASE f # e
      BY <1>5, <2>3, <3>2, ClaimOf
    <3>3. QED
      BY <3>1, <3>2
  <2>4. QED
    BY <2>2, <2>3, ClaimOf
<1>9. Claims(x)' \subseteq Claims(x) \cup {<<AllocSeq(x), i>>}
  BY <1>7, <1>8
<1>10. \A y \in Endpoint : y # x => Claims(y)' \subseteq Claims(y)
  BY <1>8
<1>11. QED
  BY <1>6, <1>9, <1>10, NumberTaken

LEMMA PublicationNumbers ==
    ASSUME IInv, NumInv, NEW e \in Endpoint, CreateThread(e) \/ ReplyToThread(e)
    PROVE  NumInv'
<1>1. /\ TypeOK /\ at[e] = "fresh" /\ CallInv(e) /\ at[e] \in Sending /\ nextId <= MaxId
      /\ UNCHANGED <<log, receipt, ep, joining, walk, rec, hook, faults, seen, told>>
  BY DEF CreateThread, ReplyToThread, IInv, MailInv, Sending
<1>2. send[e].hash \in Hash /\ nextId \in Id
  BY <1>1, MailboxAssumption DEF CallInv, AskedOf, TypeOK, Id
<1>3. CASE CreateThread(e)
  <2>1. Prepare(e, nextId, 1) /\ 1 \in Nat
    BY <1>3 DEF CreateThread
  <2>2. QED
    BY <1>1, <1>2, <2>1, PrepareNumbers
<1>4. CASE ReplyToThread(e)
  <2>1. PICK t : t = send[e].hash.into
    OBVIOUS
  <2>2. t # 0
    BY <1>4, <2>1 DEF ReplyToThread
  <2>3. t \in Id /\ Len(log[t]) + 1 \in Nat
    BY <1>1, <1>2, <2>1, <2>2 DEF Hash, Id, TypeOK
  <2>4. \/ Return(e) /\ UNCHANGED box
        \/ /\ send' = [send EXCEPT ![e].thread = t, ![e].id = nextId,
                         ![e].pos = Len(log[t]) + 1, ![e].outcome = "parked"]
           /\ Goto(e, "park") /\ UNCHANGED box
        \/ Prepare(e, t, Len(log[t]) + 1)
    BY <1>4, <2>1 DEF ReplyToThread
  <2>5. CASE Return(e) /\ UNCHANGED box
    BY <1>1, <2>5, ReturnTyped, CallNumbers DEF Pointers
  <2>6. CASE /\ send' = [send EXCEPT ![e].thread = t, ![e].id = nextId,
                            ![e].pos = Len(log[t]) + 1, ![e].outcome = "parked"]
             /\ Goto(e, "park") /\ UNCHANGED box
    <3>1. at'[e] = "park" /\ \A f \in Endpoint : f # e => at'[f] = at[f]
      BY <1>1, <2>6, GotoTyped DEF Sending, Publishing
    <3>2. \A f \in Endpoint : f # e => send'[f] = send[f]
      BY <1>1, <2>6 DEF TypeOK
    <3>3. QED
      BY <1>1, <2>6, <3>1, <3>2, CallNumbers DEF Pointers
  <2>7. CASE Prepare(e, t, Len(log[t]) + 1)
    BY <1>1, <1>2, <2>3, <2>7, PrepareNumbers
  <2>8. QED
    BY <2>4, <2>5, <2>6, <2>7
<1>5. QED
  BY <1>3, <1>4

LEMMA PointedNumbers ==
    ASSUME IInv, NEW x \in Endpoint, Pointed(x)
    PROVE  rec'[x].at # "write" /\ \A y \in Endpoint : y # x => rec'[y] = rec[y]
<1> DEFINE rest == rec[x].missing \ {FirstMissing(x)}
           r == [rec[x] EXCEPT !.missing = rest, !.known = @ \cup {MissingId(x)},
                      !.listed = {}, !.seq = 0, !.at = IF rest = {} THEN "scan" ELSE "list"]
<1>1. Advance(x, r)
  BY DEF Pointed
<1>2. rec[x] \in Rec /\ rec \in [Endpoint -> Rec]
  BY DEF IInv, MailInv, TypeOK
<1> HIDE DEF rest
<1>3. r.at \in {"scan", "list"}
  BY <1>2 DEF Rec
<1> HIDE DEF r
<1>4. QED
  BY <1>1, <1>2, <1>3 DEF Advance

\* A reconciliation takes one for a message it has found without a pointer.
LEMMA AllocatePointerNumbers ==
    ASSUME IInv, NumInv, NEW x \in Endpoint, AllocatePointer(x)
    PROVE  NumInv'
<1>0. TypeOK /\ rec[x] \in Rec /\ rec \in [Endpoint -> Rec] /\ box \in [Endpoint -> Mailbox]
  BY DEF IInv, MailInv, TypeOK
<1>1. /\ UNCHANGED <<log, receipt, ep, joining, at, send, walk, hook, nextId, faults, seen, told>>
      /\ \/ Pointed(x) /\ UNCHANGED box
         \/ /\ box' = [box EXCEPT ![x].next = AllocSeq(x) + 1]
            /\ Advance(x, [rec[x] EXCEPT !.at = "write", !.seq = AllocSeq(x)])
  BY DEF AllocatePointer
<1>2. CASE Pointed(x) /\ UNCHANGED box
  BY <1>1, <1>2, PointedNumbers, RecNumbers
<1>3. CASE /\ box' = [box EXCEPT ![x].next = AllocSeq(x) + 1]
           /\ Advance(x, [rec[x] EXCEPT !.at = "write", !.seq = AllocSeq(x)])
  <2>0. PICK n : n = AllocSeq(x)
    OBVIOUS
  <2>1. /\ rec'[x].at = "write" /\ rec'[x].seq = n
        /\ \A y \in Endpoint : y # x => rec'[y] = rec[y]
    BY <1>0, <1>3, <2>0 DEF Advance, Rec
  <2>2. box'[x].next = AllocSeq(x) + 1 /\ \A y \in Endpoint : y # x => box'[y].next = box[y].next
    BY <1>0, <1>3 DEF Mailbox
  <2>3. \A y \in Endpoint : Pointers(y)' = Pointers(y)
    BY <1>0, <1>3 DEF Mailbox, Pointers
  <2>4. ASSUME NEW y \in Endpoint, NEW d, d \in Claims(y)'
        PROVE  d \in Claims(y) \/ (y = x /\ d = <<n, 0>>)
    <3>1. \/ \E p \in Pointers(y) : d = <<p.seq, p.id>>
          \/ \E f \in Endpoint : \E k \in Key :
                Counts(receipt[f][k], y) /\ d = <<receipt[f][k].seq, receipt[f][k].id>>
          \/ \E f \in Endpoint : /\ at[f] = "receipt" /\ send[f].hash.to = y
                                 /\ d = <<send[f].seq, send[f].id>>
          \/ rec'[y].at = "write" /\ d = <<rec'[y].seq, 0>>
      BY <1>1, <2>3, <2>4, NextClaimOf
    <3>2. CASE y = x
      BY <2>1, <3>1, <3>2, ClaimOf
    <3>3. CASE y # x
      BY <2>1, <3>1, <3>3, ClaimOf
    <3>4. QED
      BY <3>2, <3>3
  <2>5. Claims(x)' \subseteq Claims(x) \cup {<<AllocSeq(x), 0>>}
    BY <2>0, <2>4
  <2>6. \A y \in Endpoint : y # x => Claims(y)' \subseteq Claims(y)
    BY <2>4
  <2>7. QED
    BY <2>2, <2>5, <2>6, NumberTaken
<1>4. QED
  BY <1>1, <1>2, <1>3

\* And gives it to the pointer that it writes.
LEMMA CreatePointerNumbers ==
    ASSUME IInv, NumInv, NEW x \in Endpoint, CreatePointer(x)
    PROVE  NumInv'
<1> DEFINE p == [seq |-> rec[x].seq, id |-> MissingId(x),
                 thread |-> FirstMissing(x).thread, pos |-> FirstMissing(x).pos]
<1>0. TypeOK /\ MailInv /\ box \in [Endpoint -> Mailbox]
  BY DEF IInv, MailInv, TypeOK
<1>1. /\ rec[x].at = "write" /\ box' = [box EXCEPT ![x].active = @ \cup {p}] /\ Pointed(x)
      /\ UNCHANGED <<log, receipt, ep, joining, at, send, walk, hook, nextId, faults, seen, told>>
  BY DEF CreatePointer
<1>2. PICK q : q = p
  OBVIOUS
<1>3. PICK n, i : n = rec[x].seq /\ i = MissingId(x)
  OBVIOUS
<1>4. q.seq = n /\ q.id = i
  BY <1>2, <1>3
<1> HIDE DEF p
<1>5. /\ box'[x].pending = box[x].pending /\ box'[x].active = box[x].active \cup {q}
      /\ box'[x].next = box[x].next
      /\ \A y \in Endpoint : y # x => box'[y] = box[y]
  BY <1>0, <1>1, <1>2 DEF Mailbox
<1>6. rec'[x].at # "write" /\ \A y \in Endpoint : y # x => rec'[y] = rec[y]
  BY <1>1, PointedNumbers
<1>7. i \in Id /\ i # 0
  BY <1>1, <1>3, MissingIsThere, NothingTyped
<1>8. <<n, 0>> \in Claims(x) /\ SeqInv(x)
  BY <1>1, <1>3, ClaimOf DEF NumInv
\* Nobody else had the number: it was claimed for no id.
<1>9. ASSUME NEW d, d \in Claims(x)'
      PROVE  d = <<n, i>> \/ (d \in Claims(x) /\ d[1] # n)
  <2>1. \A s : s \in Pointers(x)' => s \in Pointers(x) \/ s = q
    BY <1>5 DEF Pointers
  <2>2. \/ d = <<n, i>>
        \/ \E s \in Pointers(x) : d = <<s.seq, s.id>>
        \/ \E f \in Endpoint : \E k \in Key :
              Counts(receipt[f][k], x) /\ d = <<receipt[f][k].seq, receipt[f][k].id>>
        \/ \E f \in Endpoint : /\ at[f] = "receipt" /\ send[f].hash.to = x
                               /\ d = <<send[f].seq, send[f].id>>
    BY <1>1, <1>4, <1>6, <1>9, <2>1, NextClaimOf
  <2>3. ASSUME d # <<n, i>>
        PROVE  d \in Claims(x) /\ d[2] # 0
    <3>1. CASE \E s \in Pointers(x) : d = <<s.seq, s.id>>
      <4>1. PICK s \in Pointers(x) : d = <<s.seq, s.id>>
        BY <3>1
      <4>2. s.id \in Id
        BY <1>0, <4>1, KnownTyped DEF Ptr
      <4>3. QED
        BY <4>1, <4>2, NothingTyped, ClaimOf
    <3>2. CASE \E f \in Endpoint : \E k \in Key :
                  Counts(receipt[f][k], x) /\ d = <<receipt[f][k].seq, receipt[f][k].id>>
      <4>1. PICK f \in Endpoint : \E k \in Key :
               Counts(receipt[f][k], x) /\ d = <<receipt[f][k].seq, receipt[f][k].id>>
        BY <3>2
      <4>2. PICK k \in Key : Counts(receipt[f][k], x) /\ d = <<receipt[f][k].seq, receipt[f][k].id>>
        BY <4>1
      <4>3. receipt[f][k].id \in Id
        BY <1>0, <4>2 DEF MailInv, ReceiptInv, Counts
      <4>4. QED
        BY <4>2, <4>3, NothingTyped, ClaimOf
    <3>3. CASE \E f \in Endpoint : /\ at[f] = "receipt" /\ send[f].hash.to = x
                                   /\ d = <<send[f].seq, send[f].id>>
      <4>1. PICK f \in Endpoint : /\ at[f] = "receipt" /\ send[f].hash.to = x
                                  /\ d = <<send[f].seq, send[f].id>>
        BY <3>3
      <4>2. send[f].id \in Id
        BY <1>0, <4>1 DEF MailInv, CallInv, PublicationOf, Publishing
      <4>3. QED
        BY <4>1, <4>2, NothingTyped, ClaimOf
    <3>4. QED
      BY <2>2, <2>3, <3>1, <3>2, <3>3
  <2>4. ASSUME d \in Claims(x), d[2] # 0
        PROVE  d[1] # n
    <3>1. <<n, 0>>[1] = n /\ <<n, 0>>[2] = 0
      OBVIOUS
    <3>2. QED
      BY <1>8, <2>4, <3>1 DEF SeqInv
  <2>5. QED
    BY <2>3, <2>4
<1>10. SeqInv(x)'
  <2>1. n < box[x].next
    BY <1>8 DEF SeqInv
  <2>2. \A d \in Claims(x)' : d[1] < box'[x].next
    BY <1>5, <1>8, <1>9, <2>1 DEF SeqInv
  <2>3. ASSUME NEW d \in Claims(x)', NEW g \in Claims(x)', d[1] = g[1]
        PROVE  d[2] = g[2]
    BY <1>8, <1>9, <2>3 DEF SeqInv
  <2>4. QED
    BY <2>2, <2>3 DEF SeqInv
<1>11. ASSUME NEW y \in Endpoint, y # x
       PROVE  SeqInv(y)'
  <2>1. rec'[y] = rec[y] /\ Pointers(y)' = Pointers(y) /\ box'[y].next = box[y].next
    BY <1>5, <1>6, <1>11 DEF Pointers
  <2>2. \A d \in Claims(y)' : d \in Claims(y)
    BY <1>1, <2>1, ClaimOf, NextClaimOf
  <2>3. SeqInv(y)
    BY DEF NumInv
  <2>4. QED
    BY <2>1, <2>2, <2>3 DEF SeqInv
<1>12. QED
  BY <1>10, <1>11 DEF NumInv

LEMMA InitNum == Init => NumInv
<1> SUFFICES ASSUME Init, NEW x \in Endpoint, NEW d \in Claims(x)
             PROVE  FALSE
  BY DEF NumInv, SeqInv
<1>1. /\ \A e \in Endpoint : at[e] = "idle" /\ rec[e] = NoRec
      /\ \A e \in Endpoint : \A k \in Key : receipt[e][k] = NoReceipt
      /\ Pointers(x) = {}
  BY DEF Init, Pointers
<1>2. NoRec.at # "write" /\ NoReceipt.state = "none"
  BY DEF NoRec, NoReceipt
<1>3. QED
  BY <1>1, <1>2, ClaimOf DEF Counts

LEMMA StepNum == ~Lossy /\ IInv /\ PtrInv /\ NumInv /\ [Next]_vars => NumInv'
<1> SUFFICES ASSUME ~Lossy, IInv, PtrInv, NumInv, [Next]_vars
             PROVE  NumInv'
  OBVIOUS
<1>1. ASSUME NEW e \in Endpoint, SendBusMessage(e) \/ SendStep(e)
      PROVE  NumInv'
  BY <1>1, PlainCallNumbers, RecoverReceiptNumbers, ForgetReceiptNumbers, RedeliverNumbers,
     RenamingNumbers, PublicationNumbers, WriteReceiptNumbers, PublishPointerIntentNumbers,
     FinalizeReceiptNumbers DEF SendStep
<1>2. ASSUME NEW e \in Endpoint, StartPoll(e) \/ MaterializeSuccessorMailbox(e)
      PROVE  NumInv'
  BY <1>2, ReconcilingNumbers
<1>3. ASSUME NEW e \in Endpoint, ReconcileStep(e)
      PROVE  NumInv'
  BY <1>3, ReconcilingNumbers, ListPendingNumbers, CleaningNumbers, AllocatePointerNumbers,
     CreatePointerNumbers DEF ReconcileStep
<1>4. ASSUME NEW e \in Endpoint, PollStep(e)
      PROVE  NumInv'
  BY <1>4, TakingNumbers, PlainCallNumbers DEF PollStep
<1>5. ASSUME NEW e \in Endpoint, AcknowledgeBusMessage(e) \/ AckClean(e) \/ UpdateBusThread(e)
      PROVE  NumInv'
  BY <1>5, PlainCallNumbers, TakingNumbers, RestNumbers
<1>6. ASSUME NEW e \in Endpoint,
             ReadPendingCursor(e) \/ ClaimPendingDelivery(e) \/ CallFails(e) \/ SetupFails(e)
      PROVE  NumInv'
  BY <1>6, RestNumbers
<1>7. \A e \in Endpoint : ~LoseCounter(e)
  BY DEF LoseCounter
<1>8. CASE \/ \E new, old \in Endpoint : RetireIncumbent(new, old)
           \/ CreateSuccessor \/ JoinFails \/ UNCHANGED vars
  BY <1>8, RestNumbers
<1>9. QED
  BY <1>1, <1>2, <1>3, <1>4, <1>5, <1>6, <1>7, <1>8 DEF Next

LEMMA NumInvariance ==
    ASSUME ~Lossy
    PROVE  Spec => []NumInv
<1>1. Init => NumInv
  BY InitNum
<1>2. IInv /\ PtrInv /\ NumInv /\ [Next]_vars => NumInv'
  BY StepNum
<1>3. QED
  BY <1>1, <1>2, Invariance, PtrInvariance, PTL DEF Spec

LEMMA ClaimsDiffer ==
    ASSUME IInv, PtrInv, NumInv
    PROVE  SeqIsUnique
<1>0. MailInv /\ TypeOK
  BY DEF IInv, MailInv
<1> SUFFICES ASSUME NEW x \in Endpoint
             PROVE  LET all   == box[x].active \cup box[x].pending
                        owner == {e \in Endpoint : at[e] \in {"receipt", "intent"} /\ send[e].hash.to = x}
                    IN  /\ \A p, q \in all : p.seq = q.seq => p.id = q.id
                        /\ \A e \in owner : send[e].seq \notin {p.seq : p \in all}
                        /\ rec[x].at = "write" => rec[x].seq \notin
                              {p.seq : p \in all} \cup {send[e].seq : e \in owner}
  BY DEF SeqIsUnique
<1> DEFINE owner == {e \in Endpoint : at[e] \in {"receipt", "intent"} /\ send[e].hash.to = x}
<1>1. \A n, i, j : <<n, i>> \in Claims(x) /\ <<n, j>> \in Claims(x) => i = j
  <2> SUFFICES ASSUME NEW n, NEW i, NEW j, <<n, i>> \in Claims(x), <<n, j>> \in Claims(x)
               PROVE  i = j
    OBVIOUS
  <2>1. <<n, i>>[1] = n /\ <<n, j>>[1] = n /\ <<n, i>>[2] = i /\ <<n, j>>[2] = j
    OBVIOUS
  <2>2. QED
    BY <2>1 DEF NumInv, SeqInv
<1>2. \A p \in Pointers(x) : <<p.seq, p.id>> \in Claims(x) /\ p.id \in Id
  BY <1>0, ClaimOf, KnownTyped DEF Ptr
<1>3. ASSUME NEW e \in owner
      PROVE  /\ <<send[e].seq, send[e].id>> \in Claims(x) /\ send[e].id \in Id
             /\ \A p \in Pointers(x) : p.id # send[e].id
  <2>1. e \in Endpoint /\ at[e] \in Publishing /\ at[e] \in Numbered /\ at[e] # "commit"
    BY DEF Publishing, Numbered
  <2>2. send[e].id \in Id
    BY <1>0, <2>1 DEF MailInv, CallInv, PublicationOf
  <2>3. \A p \in Pointers(x) : p.id # send[e].id
    BY <2>1 DEF PtrInv, SenderInv, FreshInv, Known
  <2>4. CASE at[e] = "receipt"
    BY <2>1, <2>2, <2>3, <2>4, ClaimOf
  <2>5. CASE at[e] = "intent"
    <3>1. PICK k \in Key : k = send[e].key
      BY <1>0, <2>1 DEF MailInv, CallInv, AskedOf, Sending
    <3>2. /\ receipt[e][k].state = "pending" /\ receipt[e][k].hash = send[e].hash
          /\ receipt[e][k].id = send[e].id /\ receipt[e][k].seq = send[e].seq
          /\ receipt[e][k].outcome = send[e].outcome /\ send[e].outcome = "delivered"
      BY <1>0, <2>1, <2>5, <3>1 DEF MailInv, CallInv, ReceiptOf, PublicationOf, Publishing, Delivers
    <3>3. Counts(receipt[e][k], x)
      BY <3>2 DEF Counts
    <3>4. <<receipt[e][k].seq, receipt[e][k].id>> \in Claims(x)
      BY <2>1, <3>3, ClaimOf
    <3>5. QED
      BY <2>2, <2>3, <3>2, <3>4
  <2>6. QED
    BY <2>4, <2>5
<1>4. rec[x].at = "write" => <<rec[x].seq, 0>> \in Claims(x)
  BY ClaimOf
<1>5. \A p, q \in Pointers(x) : p.seq = q.seq => p.id = q.id
  BY <1>1, <1>2
<1>6. \A e \in owner : send[e].seq \notin {p.seq : p \in Pointers(x)}
  BY <1>1, <1>2, <1>3
<1>7. ASSUME rec[x].at = "write"
      PROVE  rec[x].seq \notin {p.seq : p \in Pointers(x)} \cup {send[e].seq : e \in owner}
  <2>1. <<rec[x].seq, 0>> \in Claims(x)
    BY <1>4, <1>7
  <2>2. \A p \in Pointers(x) : p.seq # rec[x].seq
    BY <1>1, <1>2, <2>1, NothingTyped
  <2>3. \A e \in owner : send[e].seq # rec[x].seq
    BY <1>1, <1>3, <2>1, NothingTyped
  <2> HIDE DEF owner
  <2>4. QED
    BY <2>2, <2>3
<1>8. QED
  BY <1>5, <1>6, <1>7 DEF Pointers

\* As long as no counter file is lost, a number of a mailbox is of one message:
\* not of two pointers, nor of a pointer and a publication or reconciliation
\* that was given it and has yet to write its pointer.
THEOREM NumbersAreUnique ==
    ASSUME ~Lossy
    PROVE  Spec => []SeqIsUnique
<1>1. Spec => []NumInv
  BY NumInvariance
<1>2. IInv /\ PtrInv /\ NumInv => SeqIsUnique
  BY ClaimsDiffer
<1>3. QED
  BY <1>1, <1>2, Invariance, PtrInvariance, PTL
----------------------------------------------------------------------------
(***************************************************************************)
(* A wait that says that nothing came in time: what its final poll has to  *)
(* bring up is the mail that was there at the deadline and still is.       *)
(***************************************************************************)
Owed(e) == {q \in Places : /\ EntryAt(q).type = "message" /\ EntryAt(q).id \in wait[e].due
                           /\ EntryAt(q).to \in Addressees(e) /\ ~Terminal(q[1], EntryAt(q).id)}

\* p is a pointer to the message at q.
PointsTo(p, q) == p.id = EntryAt(q).id /\ p.thread = q[1] /\ p.pos = q[2]

\* The poll found something odd, and will say so, or the message at q has a pointer
\* that nobody takes away.
Here(e, q) == wait[e].findings \/ EntryAt(q).id \in Ids(box[e].active)

\* An endpoint that is in use has no heir, and none that is on its way.
HeirInv == \A e \in Endpoint : Active(e) =>
               /\ \A f \in Endpoint : ep[f].pred # e
               /\ joining # None => joining.old # e

\* A request that is left is served: its worker is there.
WorkInv(e) == (Polls(e) <=> at[e] \in Polling) /\ (wait[e].pending => wait[e].worker # "none")

\* A poll's own reconciliation r: what it has at each of its stages.
StageInv(r) ==
    /\ r.at # "free" /\ r.by = "poll" /\ Bounded(r.listed)
    /\ r.at \in {"intents", "intent"} => r.next = "known" /\ r.known = {} /\ r.listed = {}
    /\ r.at = "scan" \/ r.next = "known" => r.missing = {}
    /\ r.at = "sweep" => r.next \in {"sweep", "done"}
    /\ r.next \in {"sweep", "done"} => r.threads = {} /\ r.missing = {}

\* A poll is its endpoint's, which stays in use, and runs its own reconciliation.
PollInv(e) ==
    /\ wait[e].at # "off" => ep[e].status # "absent"
    /\ at[e] \in Polling => Active(e)
    /\ at[e] = "reconcile" => StageInv(rec[e])

\* The reconciliation of the final poll: pending intents first, then the mail of
\* those that e replaced, a thread at a time.
SeekInv(e, q) ==
    LET r == rec[e]
        m == EntryAt(q).id
    IN  /\ m \in r.known \cup Ids(r.listed) => Here(e, q)
        /\ \A p \in r.listed : p.id = m => PointsTo(p, q)
        /\ EntryAt(q).to = e => \/ Here(e, q)
                                \/ /\ r.at \in {"intents", "intent"}
                                   /\ \E p \in r.todo : p \in box[e].pending /\ p.id = m
        /\ r.at = "scan" \/ r.next # "known" =>
              Here(e, q) \/ q[1] \in r.threads \/ [thread |-> q[1], pos |-> q[2]] \in r.missing
        /\ r.at = "list2" /\ r.next = "done" => wait[e].findings \/ m \in Ids(r.listed)

\* Its walk.
WalkInv(e, q) ==
    \/ wait[e].findings \/ EntryAt(q).id \in walk[e].shown
    \/ \E p \in walk[e].left : PointsTo(p, q)

\* A wait that is over its deadline: its final poll misses nothing of what it owes.
SearchInv(e) ==
    /\ at[e] = "reconcile" => \A q \in Owed(e) : SeekInv(e, q)
    /\ at[e] = "walk" => \A q \in Owed(e) : WalkInv(e, q)
    /\ at[e] = "answer" /\ Owed(e) # {} => wait[e].findings \/ walk[e].shown # {}
LastInv(e) ==
    /\ wait[e].at \in {"off", "blocked"} => wait[e].due = {}
    /\ wait[e].outcome = "timeout" => wait[e].at = "last" /\ Owed(e) = {}
    /\ wait[e].at = "last" =>
          /\ ~wait[e].pending /\ wait[e].worker \in {"none", "poll", "polling"}
          /\ wait[e].worker = "none" /\ wait[e].outcome = "none" => Owed(e) = {}
          /\ SearchInv(e)

\* What a wait remembers, and will print, is in the log.
ThereInv(e) == \A m \in wait[e].due \cup wait[e].messages : Messages(m) # {}

OneWait(e) == WorkInv(e) /\ PollInv(e) /\ LastInv(e) /\ ThereInv(e)
WaitInv == wait \in [Endpoint -> Wait] /\ HeirInv /\ \A e \in Endpoint : OneWait(e)
----------------------------------------------------------------------------
(* Messages are settled for good. *)

\* The steps of BusMailbox that a waiting process leaves to the others, and its own.
Step(f) ==
    \/ SendBusMessage(f) \/ SendStep(f) \/ MaterializeSuccessorMailbox(f) \/ AcknowledgeBusMessage(f)
    \/ AckClean(f) \/ ReconcileStep(f) \/ SetupFails(f) \/ CallFails(f)
    \/ StartPoll(f) \/ WalkPointer(f) \/ PersistCursor(f)
Joins == (\E new, old \in Endpoint : RetireIncumbent(new, old)) \/ CreateSuccessor \/ JoinFails

\* What the log has stays in it, what is settled stays settled, and a message that is
\* new was never there before.
Settles ==
    /\ \A q \in Places : /\ q \in Places' /\ EntryAt(q)' = EntryAt(q)
                         /\ \A m : Terminal(q[1], m) => Terminal(q[1], m)'
    /\ \A q \in Places' : q \in Places \/ EntryAt(q)'.type # "message"
                                       \/ Messages(EntryAt(q)'.id) = {}

LEMMA SameSettles ==
    ASSUME log' = log
    PROVE  Settles
BY SameLog DEF Settles

LEMMA AppendedSettles ==
    ASSUME TypeOK, NEW t \in Id, NEW m \in Entry, Appends(t, m),
           m.type \in {"park", "resolve", "reopen"} => State(t) # "resolved",
           m.type = "message" => Messages(m.id) = {}
    PROVE  Settles
<1>0. PICK n : n = Len(log[t]) + 1
  OBVIOUS
<1>1. /\ Places' = Places \cup {<<t, n>>} /\ EntryAt(<<t, n>>)' = m
      /\ \A q \in Places : EntryAt(q)' = EntryAt(q)
  BY <1>0, AppendedPlaces
<1>2. /\ Len(log[t]) \in Nat
      /\ \A u \in Id : \A i \in 1..Len(log[u]) : i \in 1..Len(log'[u]) /\ log'[u][i] = log[u][i]
      /\ \A u \in Id : u # t => log'[u] = log[u]
  BY AppendedLog
<1>3. \A u \in Id : Acked(u) \subseteq Acked(u)'
  BY <1>2 DEF Acked
<1>4. \A u \in Id : State(u) = "resolved" => State(u)' = "resolved"
  BY AppendedState
<1>5. \A u \in Id : \A i : Terminal(u, i) => Terminal(u, i)'
  BY <1>3, <1>4 DEF Terminal
<1>6. \A q \in Places : q[1] \in Id
  BY PlaceType
<1>7. QED
  BY <1>1, <1>5, <1>6 DEF Settles

LEMMA CommitSettles ==
    ASSUME IInv, PtrInv, NEW e \in Endpoint, CommitEntry(e)
    PROVE  Settles
<1>0. TypeOK /\ MailInv
  BY DEF IInv, MailInv
<1>1. /\ at[e] \in {"commit", "parkEntry"} /\ at[e] \in Numbered
      /\ Appends(send[e].thread, Published(e))
  BY <1>0, CommitEntryMail DEF Numbered
<1>2. /\ Published(e) \in Entry /\ send[e].thread \in Id
      /\ Published(e).type = (IF at[e] = "parkEntry" THEN "park" ELSE "message")
      /\ Published(e).id = send[e].id
  BY <1>0, <1>1, PublishedEntry
<1>3. Messages(send[e].id) = {}
  BY <1>0, <1>1, NotYetSent
<1>4. at[e] = "parkEntry" => State(send[e].thread) # "resolved"
  BY DEF PtrInv, SenderInv, ParkInv
<1>5. QED
  BY <1>0, <1>1, <1>2, <1>3, <1>4, AppendedSettles

LEMMA AcknowledgeSettles ==
    ASSUME IInv, NEW e \in Endpoint, AcknowledgeBusMessage(e)
    PROVE  Settles
<1>0. TypeOK /\ MailInv
  BY DEF IInv, MailInv
<1>1. PICK t \in Threads, i \in Nat :
         MessageAt(t, i) /\ Appends(t, StateEntry("ack", log[t][i].id, e))
  BY AcknowledgeStep
<1>2. t \in Id /\ log[t][i].id \in 0..MaxId
  <2>1. t \in Id /\ i \in 1..Len(log[t])
    BY <1>1 DEF Threads, MessageAt
  <2>2. log[t][i] \in Entry
    BY <1>0, <2>1, EntryType DEF MailInv
  <2>3. QED
    BY <2>1, <2>2 DEF Entry
<1>3. StateEntry("ack", log[t][i].id, e) \in Entry /\ StateEntry("ack", log[t][i].id, e).type = "ack"
  BY <1>2, StateEntryType
<1>4. QED
  BY <1>0, <1>1, <1>2, <1>3, AppendedSettles

LEMMA StepSettles ==
    ASSUME IInv, PtrInv, (\E f \in Endpoint : Step(f)) \/ Joins
    PROVE  Settles
<1>0. MailInv /\ \A x \in Endpoint : BoundInv(x)
  BY DEF IInv
<1>1. ASSUME NEW f \in Endpoint, SendStep(f)
      PROVE  Settles
  <2>1. CommitEntry(f) \/ log' = log
    BY <1>1 DEF SendStep, RecoverReceipt, ForgetReceipt, Redeliver, Reactivate, CreateThread,
       ReplyToThread, WriteReceipt, PublishPointerIntent, ActivatePointer, FinalizeReceipt,
       LockTimesOut
  <2>2. QED
    BY <2>1, CommitSettles, SameSettles
<1>2. ASSUME NEW f \in Endpoint, Step(f), ~SendStep(f), ~AcknowledgeBusMessage(f)
      PROVE  log' = log
  BY <1>2 DEF Step, SendBusMessage, MaterializeSuccessorMailbox, AckClean, ReconcileStep, SetupFails,
     CallFails, StartPoll, WalkPointer, PersistCursor, PickIntent, RecoverPendingIntent, ListActive,
     ListPending, FoldThread, AllocatePointer, CreatePointer, EndScan, Sweep
<1>3. Joins => log' = log
  BY DEF Joins, RetireIncumbent, CreateSuccessor, JoinFails
<1>4. QED
  BY <1>1, <1>2, <1>3, AcknowledgeSettles, SameSettles
----------------------------------------------------------------------------
(* Who is in use, and for whom. *)

\* An endpoint that exists inherits from the same as before, and a call keeps it in use.
Steady(e) ==
    /\ ep[e].status # "absent" => ep'[e].status # "absent" /\ Addressees(e)' = Addressees(e)
    /\ Active(e) /\ at[e] # "idle" => Active(e)'

LEMMA NoHeirs ==
    ASSUME TypeOK, HeirInv, NEW e \in Endpoint, Active(e), NEW z \in Endpoint, e \in Addressees(z)
    PROVE  z = e
<1>1. SUFFICES ASSUME z # e
               PROVE  FALSE
  OBVIOUS
<1>2. PICK S \in SUBSET Endpoint : S = Endpoint \ {e}
  OBVIOUS
<1>3. \A f \in S : ep[f].pred \in S \cup {None}
  <2>1. \A f \in Endpoint : ep[f].pred \in Endpoint \cup {None} /\ ep[f].pred # e
    BY DEF HeirInv, TypeOK, Record
  <2>2. QED
    BY <1>2, <2>1
<1>4. z \in S /\ Inherits(S)
  BY <1>1, <1>2, <1>3 DEF Inherits
<1>5. e \in S
  BY <1>4 DEF Addressees
<1>6. QED
  BY <1>2, <1>5

LEMMA SameSteady ==
    ASSUME HeirInv, joining' = joining, SameEndpoints
    PROVE  HeirInv' /\ \A e \in Endpoint : Steady(e)
<1>1. \A x : Addressees(x)' = Addressees(x)
  BY SamePredecessors DEF SameEndpoints
<1>2. QED
  BY <1>1 DEF HeirInv, Steady, SameEndpoints, Active

LEMMA SuccessorSteady ==
    ASSUME TypeOK, LineInv, HeirInv, CreateSuccessor
    PROVE  HeirInv' /\ \A e \in Endpoint : Steady(e)
<1>1. /\ joining # None /\ joining' = None
      /\ ep' = [ep EXCEPT ![joining.new] = [@ EXCEPT !.status = "active", !.pred = joining.old]]
      /\ ep \in [Endpoint -> Record]
  BY DEF CreateSuccessor, TypeOK
<1>2. PICK new \in Endpoint, old \in Endpoint : new = joining.new /\ old = joining.old
  BY <1>1 DEF TypeOK
<1>3. /\ ep[new].status = "absent" /\ ep[old].status # "absent" /\ ep[new].pred = None
      /\ \A f \in Endpoint : ep[f].pred # new
  BY <1>1, <1>2 DEF LineInv
<1>4. /\ ep'[new].pred = old /\ ep'[new].status = "active"
      /\ \A e \in Endpoint : e # new => ep'[e] = ep[e]
  BY <1>1, <1>2 DEF Record
<1>5. ep[old].status # "active"
  BY <1>1, <1>2 DEF HeirInv, Active
<1>6. HeirInv'
  BY <1>1, <1>3, <1>4, <1>5 DEF HeirInv, Active
<1>7. ASSUME NEW f \in Endpoint, f # new
      PROVE  Addressees(f)' = Addressees(f)
  <2>1. Inherits(Endpoint \ {new})
    BY <1>1, <1>3 DEF Inherits, Record
  <2>2. new \notin Addressees(f)
    BY <1>7, <2>1 DEF Addressees
  <2>3. f \in Addressees(f) /\ Inherits(Addressees(f)) /\ Addressees(f) \in SUBSET Endpoint
    BY Inheritance
  <2>4. PICK S \in SUBSET Endpoint : S = Addressees(f)
    BY <2>3
  <2>5. Inherits(S)'
    BY <1>4, <2>2, <2>3, <2>4 DEF Inherits
  <2>6. Addressees(f)' \subseteq Addressees(f)
    BY <2>3, <2>4, <2>5 DEF Addressees
  <2>7. Addressees(f) \subseteq Addressees(f)'
    BY SuccessorLine DEF Grows
  <2>8. QED
    BY <2>6, <2>7
<1>8. QED
  BY <1>3, <1>4, <1>6, <1>7 DEF Steady, Active

LEMMA JoinsSteady ==
    ASSUME TypeOK, LineInv, HeirInv, Joins
    PROVE  HeirInv' /\ \A e \in Endpoint : Steady(e)
<1>1. ASSUME NEW new \in Endpoint, NEW old \in Endpoint, RetireIncumbent(new, old)
      PROVE  HeirInv' /\ \A e \in Endpoint : Steady(e)
  <2>1. /\ at[old] = "idle" /\ ep' = [ep EXCEPT ![old].status = "retired"]
        /\ joining' = [new |-> new, old |-> old] /\ ep \in [Endpoint -> Record]
    BY <1>1 DEF RetireIncumbent, TypeOK
  <2>2. /\ \A e \in Endpoint : ep'[e].pred = ep[e].pred
        /\ \A e \in Endpoint : e # old => ep'[e] = ep[e]
        /\ ep'[old].status = "retired"
    BY <2>1 DEF Record
  <2>3. \A x : Addressees(x)' = Addressees(x)
    BY <2>2, SamePredecessors
  <2>4. HeirInv'
    BY <2>1, <2>2 DEF HeirInv, Active
  <2>5. QED
    BY <2>1, <2>2, <2>3, <2>4 DEF Steady, Active
<1>2. ASSUME JoinFails
      PROVE  HeirInv' /\ \A e \in Endpoint : Steady(e)
  <2>1. ep' = ep /\ joining' = None
    BY <1>2 DEF JoinFails
  <2>2. \A x : Addressees(x)' = Addressees(x)
    BY <2>1, SamePredecessors
  <2>3. QED
    BY <2>1, <2>2 DEF HeirInv, Steady, Active
<1>3. QED
  BY <1>1, <1>2, SuccessorSteady DEF Joins

LEMMA StepEndpoints ==
    ASSUME TypeOK, NEW f \in Endpoint, Step(f)
    PROVE  joining' = joining /\ SameEndpoints
<1>1. ASSUME ep' = ep, joining' = joining
      PROVE  joining' = joining /\ SameEndpoints
  BY <1>1 DEF SameEndpoints
<1>2. ASSUME PersistCursor(f)
      PROVE  joining' = joining /\ SameEndpoints
  <2>1. joining' = joining /\ ep' = [ep EXCEPT ![f].polled = Max({@, walk[f].cursor})]
    BY <1>2 DEF PersistCursor
  <2>2. ep \in [Endpoint -> Record]
    BY DEF TypeOK
  <2>3. QED
    BY <2>1, <2>2 DEF SameEndpoints, Record
<1>3. SendStep(f) => ep' = ep /\ joining' = joining
  BY DEF SendStep, CommitEntry, RecoverReceipt, ForgetReceipt, Redeliver, Reactivate, CreateThread,
     ReplyToThread, WriteReceipt, PublishPointerIntent, ActivatePointer, FinalizeReceipt, LockTimesOut
<1>4. ReconcileStep(f) => ep' = ep /\ joining' = joining
  BY DEF ReconcileStep, PickIntent, RecoverPendingIntent, ListActive, ListPending, FoldThread,
     AllocatePointer, CreatePointer, EndScan, Sweep
<1>5. /\ (SendBusMessage(f) \/ MaterializeSuccessorMailbox(f) \/ AcknowledgeBusMessage(f) \/ AckClean(f)
             => ep' = ep /\ joining' = joining)
      /\ (SetupFails(f) \/ CallFails(f) \/ StartPoll(f) \/ WalkPointer(f) => ep' = ep /\ joining' = joining)
  BY DEF SendBusMessage, MaterializeSuccessorMailbox, AcknowledgeBusMessage, AckClean, SetupFails,
     CallFails, StartPoll, WalkPointer
<1>6. QED
  BY <1>1, <1>2, <1>3, <1>4, <1>5 DEF Step
----------------------------------------------------------------------------
(* What the mailbox of a poll keeps while it is reconciled. *)

Tends(e) ==
    /\ box[e].active \subseteq box'[e].active
    /\ \A p \in box[e].pending : p \in Pointers(e)' \/ Messages(p.id) = {}

LEMMA SameTends ==
    ASSUME NEW e, box[e].active \subseteq box'[e].active, box[e].pending \subseteq box'[e].pending
    PROVE  Tends(e)
BY DEF Tends, Pointers

LEMMA RenamedTends ==
    ASSUME TypeOK, NEW x \in Endpoint, NEW p,
           box' = [box EXCEPT ![x] = Renamed(@, p)] \/ box' = box, NEW e \in Endpoint
    PROVE  Tends(e)
<1>1. CASE box' = box
  BY <1>1, SameTends
<1>2. CASE box' = [box EXCEPT ![x] = Renamed(@, p)]
  <2>1. box \in [Endpoint -> Mailbox] /\ box[x] \in Mailbox
    BY DEF TypeOK
  <2>2. box'[x] = Renamed(box[x], p) /\ box[x].active \subseteq box'[x].active
    BY <1>2, <2>1, RenamedTyped
  <2>3. Pointers(x)' = Pointers(x) /\ \A y \in Endpoint : y # x => box'[y] = box[y]
    BY <1>2, RenamedBox
  <2>4. QED
    BY <2>2, <2>3 DEF Tends, Pointers
<1>3. QED
  BY <1>1, <1>2

LEMMA LinkedTends ==
    ASSUME TypeOK, NEW x \in Endpoint, NEW p \in Ptr,
           box' = [box EXCEPT ![x].pending = @ \cup {p}], NEW e \in Endpoint
    PROVE  Tends(e)
<1>1. /\ box'[x].active = box[x].active /\ box'[x].pending = box[x].pending \cup {p}
      /\ \A y \in Endpoint : y # x => box'[y] = box[y]
  BY LinkedTyped
<1>2. QED
  BY <1>1, SameTends

LEMMA RecoverReceiptTends ==
    ASSUME IInv, NEW f \in Endpoint, RecoverReceipt(f), NEW e \in Endpoint
    PROVE  Tends(e)
<1> DEFINE k == send[f].key
           r == receipt[f][k]
           kind == IF r.outcome = "parked" THEN "park" ELSE "message"
           committed == \E i \in 1..Len(log[r.thread]) :
                           log[r.thread][i].type = kind /\ log[r.thread][i].id = r.id
           kept == [box EXCEPT ![r.hash.to].pending = {p \in @ : p.seq # r.seq \/ p.id # r.id}]
<1>1. MailInv /\ TypeOK /\ at[f] = "recover" /\ box \in [Endpoint -> Mailbox]
  BY DEF IInv, MailInv, TypeOK, RecoverReceipt
<1>2. k \in Key /\ r.state = "pending" /\ r.hash \in Hash
  <2>1. k \in Key /\ r.state = "pending"
    BY <1>1 DEF MailInv, CallInv, AskedOf, ReceiptOf, Retries, Sending
  <2>2. ReceiptInv(f, k)
    BY <1>1, <2>1 DEF MailInv
  <2>3. QED
    BY <2>1, <2>2 DEF ReceiptInv
<1>3. committed <=> Keyed(f, k) # {}
  BY <1>1, <1>2, CommittedIsKeyed
<1>4. box' = box \/ (~committed /\ box' = kept)
  BY DEF RecoverReceipt, Afresh
<1>5. CASE box' = box
  BY <1>5, SameTends
<1>6. CASE ~committed /\ box' = kept
  <2>0. PICK m : m = r.id
    OBVIOUS
  <2>1. PICK x \in Endpoint : x = r.hash.to
    BY <1>2 DEF Hash
  <2>2. /\ \A y \in Endpoint : y # x => box'[y] = box[y]
        /\ box'[x].active = box[x].active
        /\ \A p \in box[x].pending : p \in box'[x].pending \/ p.id = m
    BY <1>1, <1>6, <2>0, <2>1 DEF Mailbox
  <2>3. Keyed(f, k) = {} /\ r.state # "none"
    BY <1>2, <1>3, <1>6
  <2>4. Messages(r.id) = {}
    BY <1>1, <1>2, <2>3, NeverSent
  <2>5. QED
    BY <2>0, <2>2, <2>4 DEF Tends, Pointers
<1>7. QED
  <2> HIDE DEF committed, kept
  <2> QED  BY <1>4, <1>5, <1>6

LEMMA SenderTends ==
    ASSUME IInv, NEW f \in Endpoint, SendStep(f), NEW e \in Endpoint
    PROVE  Tends(e)
<1>0. MailInv /\ TypeOK /\ \A x \in Endpoint : BoundInv(x)
  BY DEF IInv, MailInv
<1>1. ASSUME box' = box
      PROVE  Tends(e)
  BY <1>1, SameTends
<1>2. CASE RecoverReceipt(f)
  BY <1>2, RecoverReceiptTends
<1>3. CASE CreateThread(f) \/ ReplyToThread(f)
  <2>1. \A y \in Endpoint : box'[y].active = box[y].active /\ box'[y].pending = box[y].pending
    BY <1>0, <1>3, CreateThreadMail, ReplyToThreadMail
  <2>2. QED
    BY <2>1, SameTends
<1>4. CASE Redeliver(f)
  <2>1. PICK x, p : x = send[f].hash.to /\ p = Recovered(f)
    OBVIOUS
  <2>2. at[f] = "redeliver" /\ (box' = box \/ box' = [box EXCEPT ![x].pending = @ \cup {p}])
    BY <1>4, <2>1 DEF Redeliver
  <2>3. x \in Endpoint /\ p \in Ptr
    BY <1>0, <2>1, <2>2, RecoveredTyped
  <2>4. QED
    BY <1>0, <1>1, <2>2, <2>3, LinkedTends
<1>5. CASE Reactivate(f)
  <2>1. PICK x, p : x = send[f].hash.to /\ p = Recovered(f)
    OBVIOUS
  <2>2. at[f] = "reactivate" /\ (box' = box \/ box' = [box EXCEPT ![x] = Renamed(@, p)])
    BY <1>5, <2>1 DEF Reactivate
  <2>3. x \in Endpoint
    BY <1>0, <2>1, <2>2, RecoveredTyped
  <2>4. QED
    BY <1>0, <2>2, <2>3, RenamedTends
<1>6. CASE PublishPointerIntent(f)
  <2>1. /\ at[f] \in Publishing
        /\ box' = [box EXCEPT ![send[f].hash.to].pending = @ \cup {Pointer(send[f])}]
    BY <1>6 DEF PublishPointerIntent, Publishing
  <2>2. Pointer(send[f]) \in Ptr /\ send[f].hash.to \in Endpoint
    BY <1>0, <2>1, PublishedTyped
  <2>3. QED
    BY <1>0, <2>1, <2>2, LinkedTends
<1>7. CASE ActivatePointer(f)
  <2>1. PICK x, p : x = send[f].hash.to /\ p = Pointer(send[f])
    OBVIOUS
  <2>2. at[f] \in Publishing /\ (box' = [box EXCEPT ![x] = Renamed(@, p)] \/ box' = box)
    BY <1>7, <2>1 DEF ActivatePointer, Publishing
  <2>3. x \in Endpoint
    BY <1>0, <2>1, <2>2, PublishedTyped
  <2>4. QED
    BY <1>0, <2>2, <2>3, RenamedTends
<1>8. CASE ForgetReceipt(f) \/ WriteReceipt(f) \/ CommitEntry(f) \/ FinalizeReceipt(f) \/ LockTimesOut(f)
  <2>1. box' = box
    BY <1>8 DEF ForgetReceipt, WriteReceipt, CommitEntry, FinalizeReceipt, LockTimesOut
  <2>2. QED
    BY <1>1, <2>1
<1>9. QED
  BY <1>2, <1>3, <1>4, <1>5, <1>6, <1>7, <1>8 DEF SendStep

LEMMA IntentTends ==
    ASSUME IInv, PtrInv, NEW f \in Endpoint, RecoverPendingIntent(f), NEW e \in Endpoint
    PROVE  Tends(e)
<1>0. TypeOK /\ box \in [Endpoint -> Mailbox] /\ rec[f] \in Rec
  BY DEF IInv, MailInv, TypeOK
<1>1. PICK p : p = First(rec[f].todo)
  OBVIOUS
<1>2. \/ box' = box
      \/ box' = [box EXCEPT ![f] = Renamed(@, p)]
      \/ ~MatchesCanonical(p, {f}) /\ box' = [box EXCEPT ![f].pending = @ \ {p}]
  BY <1>1 DEF RecoverPendingIntent
<1>3. CASE ~MatchesCanonical(p, {f}) /\ box' = [box EXCEPT ![f].pending = @ \ {p}]
  <2>1. /\ \A y \in Endpoint : y # f => box'[y] = box[y]
        /\ box'[f].active = box[f].active /\ box'[f].pending = box[f].pending \ {p}
    BY <1>0, <1>3 DEF Mailbox
  <2>2. ASSUME p \in box[f].pending, NEW q \in Messages(p.id)
        PROVE  FALSE
    <3>1. q = <<p.thread, p.pos>> /\ EntryAt(q).to = f
      BY <2>2 DEF PtrInv, BoxInv, PlaceInv, Placed, Pointers
    <3>2. q \in Places /\ EntryAt(q).type = "message" /\ EntryAt(q).id = p.id
      BY <2>2 DEF Messages
    <3>3. q[1] \in Id /\ q[2] \in 1..Len(log[q[1]])
      BY <1>0, <3>2, PlaceType
    <3>4. MatchesCanonical(p, {f})
      BY <3>1, <3>2, <3>3 DEF MatchesCanonical, MessageAt, EntryAt
    <3>5. QED
      BY <1>3, <3>4
  <2>3. p \in box[f].pending => Messages(p.id) = {}
    BY <2>2
  <2>4. QED
    BY <2>1, <2>3 DEF Tends, Pointers
<1>4. CASE box' = box \/ box' = [box EXCEPT ![f] = Renamed(@, p)]
  BY <1>0, <1>4, RenamedTends
<1>5. QED
  BY <1>2, <1>3, <1>4

LEMMA CreatedBox ==
    ASSUME TypeOK, NEW x \in Endpoint, CreatePointer(x)
    PROVE  /\ box'[x].active = box[x].active \cup
                 {[seq |-> rec[x].seq, id |-> MissingId(x),
                   thread |-> FirstMissing(x).thread, pos |-> FirstMissing(x).pos]}
           /\ box'[x].pending = box[x].pending
           /\ \A y \in Endpoint : y # x => box'[y] = box[y]
<1>1. box \in [Endpoint -> Mailbox]
  BY DEF TypeOK
<1>2. PICK p : p = [seq |-> rec[x].seq, id |-> MissingId(x),
                    thread |-> FirstMissing(x).thread, pos |-> FirstMissing(x).pos]
  OBVIOUS
<1>3. box' = [box EXCEPT ![x].active = @ \cup {p}]
  BY <1>2 DEF CreatePointer
<1>4. /\ box'[x].active = box[x].active \cup {p} /\ box'[x].pending = box[x].pending
      /\ \A y \in Endpoint : y # x => box'[y] = box[y]
  BY <1>1, <1>3 DEF Mailbox
<1>5. QED
  BY <1>2, <1>4

\* A sweep is of mailboxes whose endpoints are replaced.
LEMMA SweepTends ==
    ASSUME IInv, PtrInv, HeirInv, NEW f \in Endpoint, Sweep(f), NEW e \in Endpoint, Active(e)
    PROVE  box'[e] = box[e]
<1> DEFINE Redundant(p) == /\ MatchesCanonical(p, Addressees(f))
                           /\ \/ p.id \in Ids({s \in rec[f].listed : MatchesCanonical(s, Addressees(f))})
                              \/ Terminal(p.thread, p.id)
           Kept(d, dir, S) == IF d[2] = dir THEN {p \in S : ~Redundant(p)} ELSE S
<1>0. TypeOK /\ rec[f] \in Rec /\ box \in [Endpoint -> Mailbox]
  BY DEF IInv, MailInv, TypeOK
<1>1. PICK d \in rec[f].dirs :
          box' = [box EXCEPT ![d[1]].active = Kept(d, "active", @),
                             ![d[1]].pending = Kept(d, "pending", @)]
  BY Zenon DEF Sweep
<1>2. d[1] \in Addressees(f) \ {f} /\ d[1] \in Endpoint
  <2>1. d \in Endpoint \X {"active", "pending"}
    BY <1>0 DEF Rec
  <2>2. QED
    BY <1>1, <2>1 DEF PtrInv, BoxInv, ListInv
<1>3. d[1] # e
  BY <1>0, <1>2, NoHeirs
<1> HIDE DEF Kept
<1>4. QED
  BY <1>0, <1>1, <1>3

LEMMA ReconcilingTends ==
    ASSUME IInv, PtrInv, HeirInv, NEW f \in Endpoint, ReconcileStep(f), NEW e \in Endpoint, Active(e)
    PROVE  Tends(e)
<1>0. TypeOK /\ box \in [Endpoint -> Mailbox]
  BY DEF IInv, MailInv, TypeOK
<1>1. ASSUME box' = box
      PROVE  Tends(e)
  BY <1>1, SameTends
<1>2. CASE RecoverPendingIntent(f)
  BY <1>2, IntentTends
<1>3. CASE AllocatePointer(f)
  <2>1. box' = box \/ box' = [box EXCEPT ![f].next = AllocSeq(f) + 1]
    BY <1>3 DEF AllocatePointer
  <2>2. box'[e].active = box[e].active /\ box'[e].pending = box[e].pending
    BY <1>0, <2>1 DEF Mailbox
  <2>3. QED
    BY <2>2, SameTends
<1>4. CASE CreatePointer(f)
  BY <1>0, <1>4, CreatedBox, SameTends
<1>5. CASE Sweep(f)
  BY <1>5, SweepTends, SameTends
<1>6. CASE PickIntent(f) \/ ListActive(f) \/ ListPending(f) \/ FoldThread(f) \/ EndScan(f)
  <2>1. box' = box
    BY <1>6 DEF PickIntent, ListActive, ListPending, FoldThread, EndScan
  <2>2. QED
    BY <1>1, <2>1
<1>7. QED
  BY <1>2, <1>3, <1>4, <1>5, <1>6 DEF ReconcileStep

LEMMA StepTends ==
    ASSUME IInv, PtrInv, HeirInv, NEW f \in Endpoint, Step(f), NEW e \in Endpoint, Active(e),
           at[e] = "reconcile"
    PROVE  Tends(e)
<1>0. TypeOK /\ box \in [Endpoint -> Mailbox]
  BY DEF IInv, MailInv, TypeOK
<1>1. ASSUME box' = box \/ (at[f] # "reconcile" /\ \A y \in Endpoint : y # f => box'[y] = box[y])
      PROVE  Tends(e)
  BY <1>1, SameTends
<1>2. CASE AckClean(f)
  <2>1. /\ at[f] # "reconcile"
        /\ \E S : box' = [box EXCEPT ![f].active = @ \ S, ![f].pending = @ \ S]
    BY <1>2 DEF AckClean
  <2>2. \A y \in Endpoint : y # f => box'[y] = box[y]
    BY <1>0, <2>1
  <2>3. QED
    BY <1>1, <2>1, <2>2
<1>3. CASE WalkPointer(f)
  <2>1. at[f] # "reconcile" /\ (box' = box \/ \E p : RemovePointer(f, p))
    BY <1>3 DEF WalkPointer
  <2>2. \A y \in Endpoint : y # f => box'[y] = box[y]
    BY <1>0, <2>1 DEF RemovePointer
  <2>3. QED
    BY <1>1, <2>1, <2>2
<1>4. CASE \/ SendBusMessage(f) \/ MaterializeSuccessorMailbox(f) \/ AcknowledgeBusMessage(f)
           \/ SetupFails(f) \/ CallFails(f) \/ StartPoll(f) \/ PersistCursor(f)
  <2>1. box' = box
    BY <1>4 DEF SendBusMessage, MaterializeSuccessorMailbox, AcknowledgeBusMessage, SetupFails,
       CallFails, StartPoll, PersistCursor
  <2>2. QED
    BY <1>1, <2>1
<1>5. QED
  BY <1>2, <1>3, <1>4, SenderTends, ReconcilingTends DEF Step
----------------------------------------------------------------------------
(* A step that leaves a waiting process alone. *)

Lets(e) ==
    /\ wait'[e] = wait[e]
    /\ at'[e] = at[e] \/ (at[e] \notin Polling /\ at'[e] \notin Polling)
    /\ at[e] = "reconcile" => rec'[e] = rec[e] /\ Tends(e)
    /\ at[e] \in {"walk", "answer"} => walk'[e] = walk[e]

LEMMA SettledMessages ==
    ASSUME Settles, NEW m
    PROVE  Messages(m) \subseteq Messages(m)'
BY DEF Settles, Messages

\* What is owed was committed before, and gets less.
LEMMA OwedShrinks ==
    ASSUME Settles, NEW e, ThereInv(e), wait'[e].due = wait[e].due, Addressees(e)' = Addressees(e)
    PROVE  Owed(e)' \subseteq Owed(e) /\ \A q \in Owed(e) : EntryAt(q)' = EntryAt(q)
<1>1. \A q \in Owed(e) : q \in Places
  BY DEF Owed
<1>2. ASSUME NEW q \in Owed(e)'
      PROVE  q \in Owed(e)
  <2>1. /\ q \in Places' /\ EntryAt(q)'.type = "message" /\ EntryAt(q)'.id \in wait[e].due
        /\ EntryAt(q)'.to \in Addressees(e) /\ ~Terminal(q[1], EntryAt(q).id)'
    BY <1>2 DEF Owed
  <2>2. Messages(EntryAt(q)'.id) # {}
    BY <2>1 DEF ThereInv
  <2>3. q \in Places /\ EntryAt(q)' = EntryAt(q)
    BY <2>1, <2>2 DEF Settles
  <2>4. ~Terminal(q[1], EntryAt(q).id)
    <3>1. PICK m : m = EntryAt(q)'.id
      OBVIOUS
    <3>2. ~Terminal(q[1], m)'
      BY <2>1, <3>1 DEF Terminal
    <3>3. QED
      BY <2>3, <3>1, <3>2 DEF Settles
  <2>5. QED
    BY <2>1, <2>3, <2>4 DEF Owed
<1>3. QED
  BY <1>1, <1>2 DEF Settles

LEMMA SeekKept ==
    ASSUME NEW e, NEW q \in Owed(e), SeekInv(e, q), EntryAt(q)' = EntryAt(q), rec'[e] = rec[e],
           wait'[e].findings = wait[e].findings, Tends(e)
    PROVE  SeekInv(e, q)'
<1>1. PICK m : m = EntryAt(q).id /\ m = EntryAt(q)'.id
  OBVIOUS
<1>2. Messages(m) # {}
  BY <1>1 DEF Owed, Messages
<1>3. Here(e, q) => Here(e, q)'
  <2>1. Ids(box[e].active) \subseteq Ids(box'[e].active)
    BY DEF Tends, Ids
  <2>2. QED
    BY <2>1 DEF Here
<1>4. \A p : PointsTo(p, q)' <=> PointsTo(p, q)
  BY DEF PointsTo
<1>5. \A p \in box[e].pending : p.id = m => p \in box'[e].pending \/ Here(e, q)'
  <2>1. ASSUME NEW p \in box'[e].active, p.id = m
        PROVE  Here(e, q)'
    BY <1>1, <2>1 DEF Here, Ids
  <2>2. QED
    BY <1>2, <2>1 DEF Tends, Pointers
<1>6. /\ m \in rec'[e].known \cup Ids(rec'[e].listed) => Here(e, q)'
      /\ \A p \in rec'[e].listed : p.id = m => PointsTo(p, q)'
  BY <1>1, <1>3, <1>4 DEF SeekInv
<1>7. EntryAt(q)'.to = e =>
         \/ Here(e, q)'
         \/ /\ rec'[e].at \in {"intents", "intent"}
            /\ \E p \in rec'[e].todo : p \in box'[e].pending /\ p.id = m
  BY <1>1, <1>3, <1>5 DEF SeekInv
<1>8. /\ rec'[e].at = "scan" \/ rec'[e].next # "known" =>
            Here(e, q)' \/ q[1] \in rec'[e].threads \/ [thread |-> q[1], pos |-> q[2]] \in rec'[e].missing
      /\ rec'[e].at = "list2" /\ rec'[e].next = "done" => wait'[e].findings \/ m \in Ids(rec'[e].listed)
  BY <1>1, <1>3 DEF SeekInv
<1>9. Ids(rec[e].listed)' = Ids(rec'[e].listed)
  BY DEF Ids
<1>10. QED
  BY <1>1, <1>6, <1>7, <1>8, <1>9 DEF SeekInv

LEMMA LetsWait ==
    ASSUME NEW e \in Endpoint, OneWait(e), Settles, Steady(e), Lets(e)
    PROVE  OneWait(e)'
<1>1. WorkInv(e)'
  BY DEF OneWait, WorkInv, Lets, Polls
<1>2. PollInv(e)'
  <2>1. wait'[e].at # "off" => ep'[e].status # "absent"
    BY DEF OneWait, PollInv, Lets, Steady
  <2>2. at'[e] \in Polling => Active(e)'
    BY DEF OneWait, PollInv, Lets, Steady, Polling
  <2>3. at'[e] = "reconcile" => at[e] = "reconcile" /\ rec'[e] = rec[e]
    BY DEF Lets, Polling
  <2>4. at[e] = "reconcile" => StageInv(rec[e])
    BY DEF OneWait, PollInv
  <2>5. rec'[e] = rec[e] /\ StageInv(rec[e]) => StageInv(rec[e])'
    BY DEF StageInv, Bounded
  <2>6. QED
    BY <2>1, <2>2, <2>3, <2>4, <2>5 DEF PollInv
<1>3. ThereInv(e)'
  <2>1. \A m : Messages(m) # {} => Messages(m)' # {}
    BY SettledMessages
  <2>2. QED
    BY <2>1 DEF OneWait, ThereInv, Lets
<1>4. wait[e].at # "off" =>
         /\ Owed(e)' \subseteq Owed(e) /\ \A q \in Owed(e) : EntryAt(q)' = EntryAt(q)
  <2>1. wait[e].at # "off" => Addressees(e)' = Addressees(e)
    BY DEF OneWait, PollInv, Steady
  <2>2. QED
    BY <2>1, OwedShrinks DEF OneWait, Lets
<1>5. ASSUME wait[e].at = "last"
      PROVE  SearchInv(e)'
  <2>1. SearchInv(e) /\ wait'[e] = wait[e]
    BY <1>5 DEF OneWait, LastInv, Lets
  <2>2. Owed(e)' \subseteq Owed(e) /\ \A q \in Owed(e) : EntryAt(q)' = EntryAt(q)
    BY <1>4, <1>5
  <2>3. ASSUME at'[e] = "reconcile", NEW q \in Owed(e)'
        PROVE  SeekInv(e, q)'
    <3>1. at[e] = "reconcile" /\ rec'[e] = rec[e] /\ Tends(e)
      BY <2>3 DEF Lets, Polling
    <3>2. q \in Owed(e) /\ SeekInv(e, q)
      BY <2>1, <2>2, <2>3, <3>1 DEF SearchInv
    <3>3. QED
      BY <2>1, <2>2, <3>1, <3>2, SeekKept
  <2>4. ASSUME at'[e] = "walk", NEW q \in Owed(e)'
        PROVE  WalkInv(e, q)'
    <3>1. at[e] = "walk" /\ walk'[e] = walk[e]
      BY <2>4 DEF Lets, Polling
    <3>2. q \in Owed(e) /\ WalkInv(e, q) /\ EntryAt(q)' = EntryAt(q)
      BY <2>1, <2>2, <2>4, <3>1 DEF SearchInv
    <3>3. QED
      BY <2>1, <3>1, <3>2 DEF WalkInv, PointsTo
  <2>5. ASSUME at'[e] = "answer", Owed(e)' # {}
        PROVE  wait'[e].findings \/ walk'[e].shown # {}
    <3>1. at[e] = "answer" /\ walk'[e] = walk[e] /\ Owed(e) # {}
      BY <2>2, <2>5 DEF Lets, Polling
    <3>2. QED
      BY <2>1, <3>1 DEF SearchInv
  <2>6. QED
    BY <2>3, <2>4, <2>5 DEF SearchInv
<1>6. LastInv(e)'
  <2>1. wait'[e] = wait[e] /\ LastInv(e)
    BY DEF Lets, OneWait
  <2>2. wait[e].at = "last" => (Owed(e) = {} => Owed(e)' = {})
    BY <1>4
  <2>3. QED
    BY <1>5, <2>1, <2>2 DEF LastInv
<1>7. QED
  BY <1>1, <1>2, <1>3, <1>6 DEF OneWait
----------------------------------------------------------------------------
(* What the others do. *)

LEMMA SendingAt ==
    ASSUME IInv, NEW f \in Endpoint, SendStep(f)
    PROVE  /\ at[f] \in Sending /\ at'[f] \notin Polling /\ UNCHANGED <<rec, walk>>
           /\ \A e \in Endpoint : e # f => at'[e] = at[e]
<1>0. MailInv /\ TypeOK /\ \A x \in Endpoint : BoundInv(x)
  BY DEF IInv, MailInv
<1>1. /\ at[f] \in Sending /\ UNCHANGED <<rec, walk>>
      /\ \A e \in Endpoint : e # f => at'[e] = at[e]
  <2>1. CASE RecoverReceipt(f) \/ ForgetReceipt(f) \/ Redeliver(f) \/ Reactivate(f)
    BY <1>0, <2>1, RecoverReceiptMail, ForgetReceiptMail, RedeliverMail, ReactivateMail DEF Sending
  <2>2. CASE CreateThread(f) \/ ReplyToThread(f) \/ LockTimesOut(f)
    BY <1>0, <2>2, CreateThreadMail, ReplyToThreadMail, LockTimesOutMail DEF Sending
  <2>3. CASE WriteReceipt(f) \/ PublishPointerIntent(f) \/ ActivatePointer(f) \/ FinalizeReceipt(f)
    BY <1>0, <2>3, WriteReceiptMail, PublishPointerIntentMail, ActivatePointerMail, FinalizeReceiptMail
       DEF Sending, Publishing
  <2>4. CASE CommitEntry(f)
    BY <1>0, <2>4, CommitEntryMail DEF Sending, Publishing
  <2>5. QED
    BY <2>1, <2>2, <2>3, <2>4 DEF SendStep
<1>2. Return(f) \/ \E l \in Sending : Goto(f, l)
  <2>1. CASE RecoverReceipt(f) \/ ForgetReceipt(f) \/ Redeliver(f) \/ Reactivate(f)
    BY <2>1 DEF RecoverReceipt, ForgetReceipt, Redeliver, Reactivate, Afresh, Sending
  <2>2. CASE CreateThread(f) \/ ReplyToThread(f) \/ LockTimesOut(f)
    BY <2>2 DEF CreateThread, ReplyToThread, LockTimesOut, Prepare, Sending, Publishing
  <2>3. CASE WriteReceipt(f) \/ PublishPointerIntent(f) \/ ActivatePointer(f) \/ FinalizeReceipt(f)
    BY <2>3 DEF WriteReceipt, PublishPointerIntent, ActivatePointer, FinalizeReceipt, Sending, Publishing
  <2>4. CASE CommitEntry(f)
    BY <2>4 DEF CommitEntry, Sending, Publishing
  <2>5. QED
    BY <2>1, <2>2, <2>3, <2>4 DEF SendStep
<1>3. \A l \in Sending : l \notin Polling
  BY DEF Sending, Publishing, Polling
<1>4. at'[f] \notin Polling
  <2>1. CASE Return(f)
    BY <1>0, <2>1, ReturnTyped DEF Polling
  <2>2. ASSUME NEW l \in Sending, Goto(f, l)
        PROVE  at'[f] \notin Polling
    BY <1>0, <1>3, <2>2, GotoTyped
  <2>3. QED
    BY <1>2, <2>1, <2>2
<1>5. QED
  BY <1>1, <1>4

LEMMA ReconcilingAt ==
    ASSUME IInv, NEW f \in Endpoint, ReconcileStep(f)
    PROVE  /\ rec[f].at # "free"
           /\ \/ UNCHANGED <<at, walk>>
              \/ /\ rec[f].by # "setup" /\ Goto(f, "walk")
                 /\ \E w : walk' = [walk EXCEPT ![f] = w]
           /\ \A e \in Endpoint : e # f => rec'[e] = rec[e]
<1>1. TypeOK /\ rec \in [Endpoint -> Rec] /\ rec[f] \in Rec
  BY DEF IInv, MailInv, TypeOK
<1>2. rec[f].at # "free" /\ \E r : Advance(f, r)
  <2>1. CASE PickIntent(f) \/ RecoverPendingIntent(f) \/ ListActive(f) \/ EndScan(f)
    BY <2>1 DEF PickIntent, RecoverPendingIntent, ListActive, EndScan
  <2>2. CASE FoldThread(f)
    BY <2>2 DEF FoldThread
  <2>3. CASE AllocatePointer(f) \/ CreatePointer(f)
    BY <2>3 DEF AllocatePointer, CreatePointer, Pointed
  <2>4. CASE Sweep(f)
    BY <2>4 DEF Sweep
  <2>5. CASE ListPending(f)
    <3>1. rec[f].next \in {"known", "create", "sweep", "done"}
      BY <1>1 DEF Rec
    <3>2. QED
      BY <2>5, <3>1 DEF ListPending
  <2>6. QED
    BY <2>1, <2>2, <2>3, <2>4, <2>5 DEF ReconcileStep
<1>3. CASE ListPending(f)
  <2>1. rec[f].next \in {"known", "create", "sweep", "done"}
    BY <1>1 DEF Rec
  <2>2. \/ UNCHANGED <<at, walk>>
        \/ /\ rec[f].by # "setup" /\ Goto(f, "walk")
           /\ \E w : walk' = [walk EXCEPT ![f] = w]
    BY <1>3, <2>1 DEF ListPending
  <2>3. QED
    BY <1>1, <1>2, <2>2 DEF Advance
<1>4. CASE ~ListPending(f)
  <2>1. UNCHANGED <<at, walk>>
    BY <1>4 DEF ReconcileStep, PickIntent, RecoverPendingIntent, ListActive, FoldThread,
       AllocatePointer, CreatePointer, EndScan, Sweep
  <2>2. QED
    BY <1>1, <1>2, <2>1 DEF Advance
<1>5. QED
  BY <1>3, <1>4

\* A step of f, to another endpoint.
LEMMA OtherCalls ==
    ASSUME IInv, NEW f \in Endpoint, Step(f), NEW e \in Endpoint, e # f
    PROVE  at'[e] = at[e] /\ rec'[e] = rec[e] /\ walk'[e] = walk[e]
<1>0. /\ TypeOK /\ rec \in [Endpoint -> Rec] /\ walk \in [Endpoint -> Walk]
      /\ at \in [Endpoint -> {"idle", "ackClean"} \cup Sending \cup Polling]
  BY DEF IInv, MailInv, TypeOK
<1>1. CASE SendStep(f)
  BY <1>1, SendingAt
<1>2. CASE ReconcileStep(f)
  BY <1>0, <1>2, ReconcilingAt DEF Goto
<1>3. CASE SendBusMessage(f) \/ AcknowledgeBusMessage(f) \/ AckClean(f)
  <2>1. UNCHANGED <<rec, walk>> /\ \E l : Goto(f, l)
    BY <1>3 DEF SendBusMessage, AcknowledgeBusMessage, AckClean, Return
  <2>2. QED
    BY <1>0, <2>1 DEF Goto
<1>4. CASE MaterializeSuccessorMailbox(f) \/ SetupFails(f)
  <2>1. UNCHANGED <<at, walk>> /\ \E r : Advance(f, r)
    BY <1>4 DEF MaterializeSuccessorMailbox, SetupFails
  <2>2. QED
    BY <1>0, <2>1 DEF Advance
<1>5. CASE CallFails(f)
  <2>1. /\ at' = [at EXCEPT ![f] = "idle"] /\ walk' = [walk EXCEPT ![f] = NoWalk]
        /\ \E r : rec' = [rec EXCEPT ![f] = r]
    BY <1>5 DEF CallFails, Return, Goto
  <2>2. QED
    BY <1>0, <2>1
<1>6. CASE StartPoll(f)
  <2>1. walk' = walk /\ Goto(f, "reconcile") /\ \E r : Advance(f, r)
    BY <1>6 DEF StartPoll
  <2>2. QED
    BY <1>0, <2>1 DEF Goto, Advance
<1>7. CASE WalkPointer(f)
  <2>1. UNCHANGED <<at, rec>> /\ \E w : walk' = [walk EXCEPT ![f] = w]
    BY <1>7 DEF WalkPointer
  <2>2. QED
    BY <1>0, <2>1
<1>8. CASE PersistCursor(f)
  <2>1. UNCHANGED <<rec, walk>> /\ Goto(f, "answer")
    BY <1>8 DEF PersistCursor
  <2>2. QED
    BY <1>0, <2>1 DEF Goto
<1>9. QED
  BY <1>1, <1>2, <1>3, <1>4, <1>5, <1>6, <1>7, <1>8 DEF Step

LEMMA OtherLets ==
    ASSUME IInv, PtrInv, HeirInv, NEW f \in Endpoint, Step(f), NEW e \in Endpoint, e # f,
           PollInv(e), wait'[e] = wait[e]
    PROVE  Lets(e)
<1>1. at'[e] = at[e] /\ rec'[e] = rec[e] /\ walk'[e] = walk[e]
  BY OtherCalls
<1>2. at[e] = "reconcile" => Tends(e)
  BY StepTends DEF PollInv, Polling
<1>3. QED
  BY <1>1, <1>2 DEF Lets

\* What goes on at e besides its wait.
Besides(e) ==
    \/ SendBusMessage(e) \/ SendStep(e) \/ MaterializeSuccessorMailbox(e)
    \/ AcknowledgeBusMessage(e) \/ AckClean(e) \/ OthersReconcile(e) \/ SetupFails(e)
    \/ ~Polls(e) /\ CallFails(e)

LEMMA BesidesLets ==
    ASSUME IInv, NEW e \in Endpoint, Besides(e), WorkInv(e), PollInv(e), wait'[e] = wait[e]
    PROVE  Lets(e)
<1>0. /\ TypeOK /\ rec \in [Endpoint -> Rec] /\ walk \in [Endpoint -> Walk]
      /\ at \in [Endpoint -> {"idle", "ackClean"} \cup Sending \cup Polling]
  BY DEF IInv, MailInv, TypeOK
<1>1. ASSUME at[e] \notin Polling, at'[e] \notin Polling
      PROVE  Lets(e)
  BY <1>1 DEF Lets, Polling
<1>2. ASSUME at[e] # "reconcile", UNCHANGED <<at, walk>>
      PROVE  Lets(e)
  BY <1>2 DEF Lets
<1>3. CASE SendStep(e)
  <2>1. \A l \in Sending : l \notin Polling
    BY DEF Sending, Publishing, Polling
  <2>2. at[e] \notin Polling /\ at'[e] \notin Polling
    BY <1>3, <2>1, SendingAt
  <2>3. QED
    BY <1>1, <2>2
<1>4. CASE SendBusMessage(e) \/ AcknowledgeBusMessage(e) \/ AckClean(e)
  <2>1. at[e] \in {"idle", "ackClean"} /\ \E l \in {"recover", "fresh", "ackClean", "idle"} : Goto(e, l)
    BY <1>4 DEF SendBusMessage, AcknowledgeBusMessage, AckClean, Return
  <2>2. at'[e] \in {"recover", "fresh", "ackClean", "idle"}
    BY <1>0, <2>1 DEF Goto
  <2>3. at[e] \notin Polling /\ at'[e] \notin Polling
    BY <2>1, <2>2 DEF Polling
  <2>4. QED
    BY <1>1, <2>3
<1>5. CASE MaterializeSuccessorMailbox(e)
  <2>1. UNCHANGED <<at, walk>> /\ rec[e].at = "free"
    BY <1>5 DEF MaterializeSuccessorMailbox, ReconcileLocked
  <2>2. at[e] # "reconcile"
    BY <2>1 DEF PollInv, StageInv
  <2>3. QED
    BY <1>2, <2>1, <2>2
<1>6. CASE SetupFails(e)
  <2>1. UNCHANGED <<at, walk>> /\ rec[e].by = "setup"
    BY <1>6 DEF SetupFails
  <2>2. at[e] # "reconcile"
    BY <2>1 DEF PollInv, StageInv
  <2>3. QED
    BY <1>2, <2>1, <2>2
<1>7. CASE OthersReconcile(e)
  <2>1. ReconcileStep(e) /\ (~Polls(e) \/ rec[e].by = "setup")
    BY <1>7 DEF OthersReconcile
  <2>2. at[e] # "reconcile"
    BY <2>1 DEF WorkInv, PollInv, StageInv, Polling
  <2>3. rec[e].at # "free" /\ rec[e].by # "setup" => at[e] = "reconcile"
    <3>1. rec[e].by \in {"poll", "setup"}
      BY <1>0 DEF Rec
    <3>2. QED
      BY <3>1 DEF IInv, RecInv
  <2>4. UNCHANGED <<at, walk>>
    BY <2>1, <2>2, <2>3, ReconcilingAt
  <2>5. QED
    BY <1>2, <2>2, <2>4
<1>8. CASE ~Polls(e) /\ CallFails(e)
  <2>1. at[e] \notin Polling /\ at'[e] = "idle"
    BY <1>0, <1>8 DEF WorkInv, CallFails, Return, Goto
  <2>2. QED
    BY <1>1, <2>1 DEF Polling
<1>9. QED
  BY <1>3, <1>4, <1>5, <1>6, <1>7, <1>8 DEF Besides
----------------------------------------------------------------------------
(* What a poll's reconciliation comes to. *)

\* A listing drops no message.
LEMMA ListingComplete ==
    ASSUME NEW A \in SUBSET Ptr, NEW B \in SUBSET Ptr, Bounded(A \cup B), NEW m \in Ids(A \cup B)
    PROVE  m \in Ids(Listing(A, B))
<1>1. PICK b \in Nat : \A p \in A \cup B : p.seq <= b
  BY DEF Bounded
<1>2. ASSUME NEW C \in SUBSET Ptr, NEW s \in C, s.id = m, C \subseteq A \cup B
      PROVE  \E p \in C : p.id = m /\ \A q \in C : q.id = m => ~(q.seq > p.seq)
  <2>1. PICK N \in SUBSET Nat : N = {p.seq : p \in {x \in C : x.id = m}}
    <3>1. \A p \in C : p.seq \in Nat
      BY DEF Ptr
    <3>2. {p.seq : p \in {x \in C : x.id = m}} \in SUBSET Nat
      BY <3>1
    <3>3. QED
      BY <3>2
  <2>2. s.seq \in N /\ \A n \in N : n <= b
    BY <1>1, <1>2, <2>1
  <2>3. Max(N) \in N /\ \A n \in N : n <= Max(N)
    BY <2>2, GreatestNumber
  <2>4. PICK p \in C : p.id = m /\ p.seq = Max(N)
    BY <2>1, <2>3
  <2>5. \A q \in C : q.id = m => q.seq <= p.seq /\ q.seq \in Nat
    BY <2>1, <2>3, <2>4
  <2>6. p.seq \in Nat
    BY <2>4, <2>3
  <2>7. QED
    BY <2>4, <2>5, <2>6
<1>3. CASE \E s \in B : s.id = m
  <2>1. PICK p \in B : p.id = m /\ \A q \in B : q.id = m => ~(q.seq > p.seq)
    BY <1>2, <1>3
  <2>2. p \in Listing(A, B)
    BY <2>1 DEF Listing
  <2>3. QED
    BY <2>1, <2>2 DEF Ids
<1>4. CASE \A s \in B : s.id # m
  <2>1. PICK s \in A : s.id = m
    BY <1>4 DEF Ids
  <2>2. PICK p \in A : p.id = m /\ \A q \in A : q.id = m => ~(q.seq > p.seq)
    BY <1>2, <2>1
  <2>3. p \in Listing(A, B)
    BY <1>4, <2>2 DEF Listing
  <2>4. QED
    BY <2>2, <2>3 DEF Ids
<1>5. QED
  BY <1>3, <1>4

LEMMA BothBounded ==
    ASSUME NEW A, NEW B, Bounded(A), Bounded(B), A \subseteq Ptr, B \subseteq Ptr
    PROVE  Bounded(A \cup B)
<1>1. PICK a \in Nat : \A p \in A : p.seq <= a
  BY DEF Bounded
<1>2. PICK b \in Nat : \A p \in B : p.seq <= b
  BY DEF Bounded
<1>3. a + b \in Nat /\ \A p \in A \cup B : p.seq <= a + b
  <2>1. \A p \in A \cup B : p.seq \in Nat
    BY DEF Ptr
  <2>2. QED
    BY <1>1, <1>2, <2>1
<1>4. QED
  BY <1>3 DEF Bounded

\* What is owed is a message of its thread that nobody settled.
LEMMA OwedIsThere ==
    ASSUME TypeOK, NEW e, NEW q \in Owed(e)
    PROVE  /\ q \in Messages(EntryAt(q).id) /\ q[1] \in Id /\ q[2] \in 1..Len(log[q[1]])
           /\ q = <<q[1], q[2]>> /\ EntryAt(q) = log[q[1]][q[2]] /\ EntryAt(q).type = "message"
           /\ MessageAt(q[1], q[2]) /\ EntryAt(q).to \in Addressees(e)
           /\ ~Terminal(q[1], EntryAt(q).id)
<1>1. q \in Places /\ EntryAt(q).type = "message" /\ EntryAt(q).to \in Addressees(e)
      /\ ~Terminal(q[1], EntryAt(q).id)
  BY DEF Owed
<1>2. q[1] \in Id /\ q[2] \in 1..Len(log[q[1]]) /\ q = <<q[1], q[2]>>
  BY <1>1, PlaceType
<1>3. QED
  BY <1>1, <1>2 DEF Messages, EntryAt, MessageAt

\* A pointer of the mailbox with the message's id points to it.
LEMMA OwnPointsTo ==
    ASSUME TypeOK, PtrInv, NEW e \in Endpoint, NEW q \in Owed(e), NEW p \in Pointers(e),
           p.id = EntryAt(q).id
    PROVE  PointsTo(p, q) /\ (p \in box[e].pending => EntryAt(q).to = e)
<1>1. q \in Messages(p.id) /\ q = <<q[1], q[2]>>
  BY OwedIsThere
<1>2. q = <<p.thread, p.pos>> /\ (p \in box[e].pending => EntryAt(q).to = e)
  BY <1>1 DEF PtrInv, BoxInv, PlaceInv, Placed
<1>3. QED
  BY <1>2 DEF PointsTo

\* A step of a poll's own reconciliation, and what it may do to the search.
Runs(e) ==
    /\ IInv /\ PtrInv /\ HeirInv /\ Active(e) /\ at[e] = "reconcile" /\ StageInv(rec[e])
    /\ ReconcileStep(e)
    /\ wait'[e].findings <=> (wait[e].findings \/ Finds(e))
Seeks(e) == \A q \in Owed(e) : SeekInv(e, q) => SeekInv(e, q)'

LEMMA RunsKnown ==
    ASSUME NEW e \in Endpoint, Runs(e)
    PROVE  /\ TypeOK /\ MailInv /\ PtrInv /\ rec[e] \in Rec /\ rec \in [Endpoint -> Rec]
           /\ box[e] \in Mailbox /\ RecFits(rec[e])
           /\ Bounded(Pointers(e)) /\ log' = log /\ Tends(e)
           /\ \A q : EntryAt(q)' = EntryAt(q)
           /\ \A q : Here(e, q) => Here(e, q)'
           /\ \A q : wait[e].findings => wait'[e].findings
<1>1. /\ TypeOK /\ MailInv /\ PtrInv /\ rec[e] \in Rec /\ rec \in [Endpoint -> Rec]
      /\ box[e] \in Mailbox /\ RecFits(rec[e]) /\ Bounded(Pointers(e))
  BY DEF Runs, IInv, MailInv, TypeOK, RecInv, BoundInv, Pointers
<1>2. log' = log
  BY DEF Runs, ReconcileStep, PickIntent, RecoverPendingIntent, ListActive, ListPending, FoldThread,
     AllocatePointer, CreatePointer, EndScan, Sweep
<1>3. Tends(e)
  BY ReconcilingTends DEF Runs
<1>4. \A q : EntryAt(q)' = EntryAt(q)
  BY <1>2, SameLog
<1>5. \A q : Here(e, q) => Here(e, q)'
  BY <1>3, <1>4 DEF Here, Tends, Ids, Runs
<1>6. QED
  BY <1>1, <1>2, <1>3, <1>4, <1>5 DEF Runs

LEMMA SeekNext ==
    ASSUME NEW e, NEW q, NEW m, m = EntryAt(q).id, EntryAt(q)' = EntryAt(q), NEW r, r = rec'[e],
           m \in r.known \cup Ids(r.listed) => Here(e, q)',
           \A p \in r.listed : p.id = m => PointsTo(p, q),
           EntryAt(q).to = e =>
               \/ Here(e, q)'
               \/ /\ r.at \in {"intents", "intent"}
                  /\ \E p \in r.todo : p \in box'[e].pending /\ p.id = m,
           r.at = "scan" \/ r.next # "known" =>
               Here(e, q)' \/ q[1] \in r.threads \/ [thread |-> q[1], pos |-> q[2]] \in r.missing,
           r.at = "list2" /\ r.next = "done" => wait'[e].findings \/ m \in Ids(r.listed)
    PROVE  SeekInv(e, q)'
<1>1. \A p : PointsTo(p, q)' <=> PointsTo(p, q)
  BY DEF PointsTo
<1>2. Ids(rec[e].listed)' = Ids(r.listed)
  BY DEF Ids
<1>3. QED
  BY <1>1, <1>2 DEF SeekInv

LEMMA PickIntentSeeks ==
    ASSUME NEW e \in Endpoint, Runs(e), PickIntent(e)
    PROVE  at' = at /\ StageInv(rec[e])' /\ Seeks(e)
<1>0. /\ TypeOK /\ rec[e] \in Rec /\ rec \in [Endpoint -> Rec]
      /\ \A q : EntryAt(q)' = EntryAt(q) /\ (Here(e, q) => Here(e, q)')
      /\ \A q : wait[e].findings => wait'[e].findings
  BY RunsKnown
<1>1. PICK p : p = First(rec[e].todo)
  OBVIOUS
<1>2. /\ rec[e].at = "intents" /\ at' = at /\ box' = box
      /\ Advance(e, IF p \notin box[e].pending THEN [rec[e] EXCEPT !.todo = @ \ {p}]
                    ELSE [rec[e] EXCEPT !.at = "intent",
                             !.lockOn = IF p.thread \in Threads THEN p.thread ELSE 0])
  BY <1>1 DEF PickIntent
<1>3. PICK r : r = rec'[e]
  OBVIOUS
<1>4. /\ r.at \in {"intents", "intent"} /\ r.next = rec[e].next /\ r.known = rec[e].known
      /\ r.listed = rec[e].listed /\ r.threads = rec[e].threads /\ r.missing = rec[e].missing
      /\ r.by = rec[e].by
      /\ \A s \in rec[e].todo : s \in r.todo \/ s \notin box[e].pending
  BY <1>0, <1>2, <1>3 DEF Advance, Rec
<1>5. StageInv(rec[e])'
  <2>1. StageInv(r)
    BY <1>2, <1>4 DEF Runs, StageInv
  <2>2. QED
    BY <1>3, <2>1 DEF StageInv, Bounded
<1>6. ASSUME NEW q \in Owed(e), SeekInv(e, q)
      PROVE  SeekInv(e, q)'
  <2>1. PICK m : m = EntryAt(q).id
    OBVIOUS
  <2>2. m \in r.known \cup Ids(r.listed) => Here(e, q)'
    BY <1>0, <1>4, <1>6, <2>1 DEF SeekInv
  <2>3. EntryAt(q).to = e => \/ Here(e, q)'
                             \/ /\ r.at \in {"intents", "intent"}
                                /\ \E s \in r.todo : s \in box'[e].pending /\ s.id = m
    BY <1>0, <1>2, <1>4, <1>6, <2>1 DEF SeekInv
  <2>4. /\ \A s \in r.listed : s.id = m => PointsTo(s, q)
        /\ ~(r.at = "scan" \/ r.next # "known") /\ ~(r.at = "list2" /\ r.next = "done")
    BY <1>2, <1>4, <1>6, <2>1 DEF SeekInv, Runs, StageInv
  <2>5. /\ \A s \in r.listed : s.id = m => PointsTo(s, q)
        /\ r.at = "scan" \/ r.next # "known" =>
              Here(e, q)' \/ q[1] \in r.threads \/ [thread |-> q[1], pos |-> q[2]] \in r.missing
        /\ r.at = "list2" /\ r.next = "done" => wait'[e].findings \/ m \in Ids(r.listed)
    BY <2>4
  <2>6. EntryAt(q)' = EntryAt(q)
    BY <1>0
  <2>7. QED
    BY <1>3, <2>1, <2>2, <2>3, <2>5, <2>6, SeekNext
<1>7. QED
  BY <1>2, <1>5, <1>6 DEF Seeks

LEMMA RecoverPendingIntentSeeks ==
    ASSUME NEW e \in Endpoint, Runs(e), RecoverPendingIntent(e)
    PROVE  at' = at /\ StageInv(rec[e])' /\ Seeks(e)
<1>0. /\ TypeOK /\ PtrInv /\ rec[e] \in Rec /\ rec \in [Endpoint -> Rec] /\ Tends(e)
      /\ \A q : EntryAt(q)' = EntryAt(q) /\ (Here(e, q) => Here(e, q)')
      /\ \A q : wait[e].findings => wait'[e].findings
  BY RunsKnown
<1>1. PICK p : p = First(rec[e].todo)
  OBVIOUS
<1>2. /\ rec[e].at = "intent" /\ at' = at
      /\ Advance(e, [rec[e] EXCEPT !.at = "intents", !.todo = @ \ {p}])
  BY <1>1 DEF RecoverPendingIntent
<1>3. PICK r : r = rec'[e]
  OBVIOUS
<1>4. /\ r.at = "intents" /\ r.next = rec[e].next /\ r.known = rec[e].known
      /\ r.listed = rec[e].listed /\ r.threads = rec[e].threads /\ r.missing = rec[e].missing
      /\ r.by = rec[e].by /\ r.todo = rec[e].todo \ {p}
  BY <1>0, <1>2, <1>3 DEF Advance, Rec
<1>5. StageInv(rec[e])'
  <2>1. StageInv(r)
    BY <1>2, <1>4 DEF Runs, StageInv
  <2>2. QED
    BY <1>3, <2>1 DEF StageInv, Bounded
<1>6. ASSUME NEW q \in Owed(e), SeekInv(e, q)
      PROVE  SeekInv(e, q)'
  <2>1. PICK m : m = EntryAt(q).id
    OBVIOUS
  <2>2. m \in r.known \cup Ids(r.listed) => Here(e, q)'
    BY <1>0, <1>4, <1>6, <2>1 DEF SeekInv
  <2>3. ASSUME NEW s \in rec[e].todo, s \in box[e].pending, s.id = m
        PROVE  \/ Here(e, q)'
               \/ \E x \in r.todo : x \in box'[e].pending /\ x.id = m
    <3>1. Messages(m) # {}
      BY <1>0, <2>1, OwedIsThere
    <3>2. s \in box'[e].active \/ s \in box'[e].pending
      BY <1>0, <2>3, <3>1 DEF Tends, Pointers
    <3>3. CASE s \in box'[e].active
      BY <1>0, <2>1, <2>3, <3>3 DEF Here, Ids
    <3>4. CASE s \in box'[e].pending /\ s = p
      <4>1. Finds(e)
        BY <1>1, <1>2, <3>4 DEF Finds, Runs
      <4>2. QED
        BY <4>1 DEF Runs, Here
    <3>5. CASE s \in box'[e].pending /\ s # p
      BY <1>4, <2>3, <3>5
    <3>6. QED
      BY <3>2, <3>3, <3>4, <3>5
  <2>4. EntryAt(q).to = e => \/ Here(e, q)'
                             \/ /\ r.at \in {"intents", "intent"}
                                /\ \E s \in r.todo : s \in box'[e].pending /\ s.id = m
    BY <1>0, <1>4, <1>6, <2>1, <2>3 DEF SeekInv
  <2>5. /\ \A s \in r.listed : s.id = m => PointsTo(s, q)
        /\ ~(r.at = "scan" \/ r.next # "known") /\ ~(r.at = "list2" /\ r.next = "done")
    BY <1>2, <1>4, <1>6, <2>1 DEF SeekInv, Runs, StageInv
  <2>6. /\ \A s \in r.listed : s.id = m => PointsTo(s, q)
        /\ r.at = "scan" \/ r.next # "known" =>
              Here(e, q)' \/ q[1] \in r.threads \/ [thread |-> q[1], pos |-> q[2]] \in r.missing
        /\ r.at = "list2" /\ r.next = "done" => wait'[e].findings \/ m \in Ids(r.listed)
    BY <2>5
  <2>7. EntryAt(q)' = EntryAt(q)
    BY <1>0
  <2>8. QED
    BY <1>3, <2>1, <2>2, <2>4, <2>6, <2>7, SeekNext
<1>7. QED
  BY <1>2, <1>5, <1>6 DEF Seeks

LEMMA ListActiveSeeks ==
    ASSUME NEW e \in Endpoint, Runs(e), ListActive(e)
    PROVE  at' = at /\ StageInv(rec[e])' /\ Seeks(e)
<1>0. /\ TypeOK /\ PtrInv /\ rec[e] \in Rec /\ rec \in [Endpoint -> Rec] /\ Bounded(Pointers(e))
      /\ \A q : EntryAt(q)' = EntryAt(q) /\ (Here(e, q) => Here(e, q)')
      /\ \A q : wait[e].findings => wait'[e].findings
  BY RunsKnown
<1>1. /\ rec[e].at = "list" \/ (rec[e].at = "intents" /\ rec[e].todo = {})
      /\ at' = at /\ box' = box
      /\ Advance(e, [rec[e] EXCEPT !.at = "list2", !.listed = box[e].active])
  BY DEF ListActive
<1>2. PICK r : r = rec'[e]
  OBVIOUS
<1>3. /\ r.at = "list2" /\ r.next = rec[e].next /\ r.known = rec[e].known
      /\ r.listed = box[e].active /\ r.threads = rec[e].threads /\ r.missing = rec[e].missing
      /\ r.by = rec[e].by
  BY <1>0, <1>1, <1>2 DEF Advance, Rec
<1>4. StageInv(rec[e])'
  <2>1. Bounded(r.listed)
    BY <1>0, <1>3 DEF Bounded, Pointers
  <2>2. StageInv(r)
    BY <1>3, <2>1 DEF Runs, StageInv
  <2>3. QED
    BY <1>2, <2>2 DEF StageInv, Bounded
<1>5. ASSUME NEW q \in Owed(e), SeekInv(e, q)
      PROVE  SeekInv(e, q)'
  <2>1. PICK m : m = EntryAt(q).id
    OBVIOUS
  <2>2. m \in Ids(r.listed) => Here(e, q)
    BY <1>3, <2>1 DEF Here
  <2>3. m \in r.known \cup Ids(r.listed) => Here(e, q)'
    BY <1>0, <1>3, <1>5, <2>1, <2>2 DEF SeekInv
  <2>4. \A s \in r.listed : s.id = m => PointsTo(s, q)
    BY <1>0, <1>3, <2>1, OwnPointsTo DEF Pointers
  <2>5. EntryAt(q).to = e => Here(e, q)'
    BY <1>0, <1>1, <1>5, <2>1 DEF SeekInv
  <2>6. r.next # "known" =>
           Here(e, q) \/ q[1] \in r.threads \/ [thread |-> q[1], pos |-> q[2]] \in r.missing
    BY <1>3, <1>5 DEF SeekInv
  <2>7. r.next = "done" => wait'[e].findings \/ m \in Ids(r.listed)
    <3>1. r.next = "done" => r.threads = {} /\ r.missing = {}
      BY <1>3 DEF Runs, StageInv
    <3>2. r.next = "done" => Here(e, q)
      BY <2>6, <3>1
    <3>3. QED
      BY <1>0, <1>3, <2>1, <3>2 DEF Here
  <2>8. QED
    BY <1>0, <1>2, <1>3, <2>1, <2>3, <2>4, <2>5, <2>6, <2>7, SeekNext
<1>6. QED
  BY <1>1, <1>4, <1>5 DEF Seeks

\* A listing of what is there holds only what is here, for what e has pointers to.
LEMMA ListedIsHere ==
    ASSUME NEW e \in Endpoint, Runs(e), rec[e].at = "list2", NEW q \in Owed(e), SeekInv(e, q),
           NEW s \in Listing(rec[e].listed, box[e].pending), s.id = EntryAt(q).id
    PROVE  Here(e, q) /\ PointsTo(s, q)
<1>0. TypeOK /\ PtrInv
  BY RunsKnown
<1>1. s \in rec[e].listed \/ s \in box[e].pending
  BY DEF Listing
<1>2. CASE s \in rec[e].listed
  BY <1>2 DEF SeekInv, Ids
<1>3. CASE s \in box[e].pending
  <2>1. PointsTo(s, q) /\ EntryAt(q).to = e
    BY <1>0, <1>3, OwnPointsTo DEF Pointers
  <2>2. QED
    BY <2>1 DEF SeekInv
<1>4. QED
  BY <1>1, <1>2, <1>3

LEMMA ListPendingSeeks ==
    ASSUME NEW e \in Endpoint, Runs(e), ListPending(e), rec[e].next # "done"
    PROVE  at' = at /\ StageInv(rec[e])' /\ Seeks(e)
<1>0. /\ TypeOK /\ PtrInv /\ rec[e] \in Rec /\ rec \in [Endpoint -> Rec] /\ Bounded(Pointers(e))
      /\ box[e] \in Mailbox
      /\ \A q : EntryAt(q)' = EntryAt(q) /\ (Here(e, q) => Here(e, q)')
      /\ \A q : wait[e].findings => wait'[e].findings
  BY RunsKnown
<1>1. PICK L : L = Listing(rec[e].listed, box[e].pending)
  OBVIOUS
<1>2. /\ rec[e].at = "list2" /\ at' = at
      /\ \/ /\ rec[e].next = "known"
            /\ Advance(e, [rec[e] EXCEPT !.at = "scan", !.known = Ids(L), !.threads = Threads, !.listed = {}])
         \/ /\ rec[e].next \in {"create", "sweep"}
            /\ Advance(e, [rec[e] EXCEPT !.at = rec[e].next, !.listed = L])
  <2>1. rec[e].next \in {"known", "create", "sweep"}
    BY <1>0 DEF Rec
  <2>2. QED
    BY <1>1, <2>1 DEF ListPending
<1>3. L \subseteq Ptr /\ Bounded(L)
  <2>1. rec[e].listed \in SUBSET Ptr /\ box[e].pending \in SUBSET Ptr
    BY <1>0 DEF Rec, Mailbox
  <2>2. Bounded(rec[e].listed) /\ Bounded(box[e].pending)
    BY <1>0 DEF Runs, StageInv, Bounded, Pointers
  <2>3. Bounded(rec[e].listed \cup box[e].pending)
    BY <2>1, <2>2, BothBounded
  <2>4. L \subseteq rec[e].listed \cup box[e].pending
    BY <1>1 DEF Listing
  <2>5. QED
    BY <2>1, <2>3, <2>4 DEF Bounded
<1>4. PICK r : r = rec'[e]
  OBVIOUS
<1>5. /\ r.next = rec[e].next /\ r.missing = rec[e].missing /\ r.by = rec[e].by
      /\ \/ /\ r.next = "known" /\ r.at = "scan" /\ r.known = Ids(L) /\ r.threads = Threads /\ r.listed = {}
         \/ /\ r.next \in {"create", "sweep"} /\ r.at = r.next /\ r.known = rec[e].known
            /\ r.threads = rec[e].threads /\ r.listed = L
  <2>1. CASE /\ rec[e].next = "known"
             /\ Advance(e, [rec[e] EXCEPT !.at = "scan", !.known = Ids(L), !.threads = Threads, !.listed = {}])
    BY <1>0, <1>4, <2>1 DEF Advance, Rec
  <2>2. CASE /\ rec[e].next \in {"create", "sweep"}
             /\ Advance(e, [rec[e] EXCEPT !.at = rec[e].next, !.listed = L])
    BY <1>0, <1>4, <2>2 DEF Advance, Rec
  <2>3. QED
    BY <1>2, <2>1, <2>2
<1>6. StageInv(rec[e])'
  <2>1. Bounded(r.listed)
    BY <1>3, <1>5 DEF Bounded
  <2>2. StageInv(r)
    BY <1>5, <2>1 DEF Runs, StageInv
  <2>3. QED
    BY <1>4, <2>2 DEF StageInv, Bounded
<1>7. ASSUME NEW q \in Owed(e), SeekInv(e, q)
      PROVE  SeekInv(e, q)'
  <2>1. PICK m : m = EntryAt(q).id
    OBVIOUS
  <2>2. m \in Ids(L) => Here(e, q)
    BY <1>1, <1>2, <1>7, <2>1, ListedIsHere DEF Ids
  <2>3. m \in r.known \cup Ids(r.listed) => Here(e, q)'
    <3>1. m \in rec[e].known => Here(e, q)
      BY <1>7, <2>1 DEF SeekInv
    <3>2. r.listed = {} => m \notin Ids(r.listed)
      BY DEF Ids
    <3>3. QED
      BY <1>0, <1>5, <2>2, <3>1, <3>2
  <2>4. \A s \in r.listed : s.id = m => PointsTo(s, q)
    BY <1>1, <1>2, <1>5, <1>7, <2>1, ListedIsHere
  <2>5. EntryAt(q).to = e => Here(e, q)'
    BY <1>0, <1>2, <1>7, <2>1 DEF SeekInv
  <2>6. r.at = "scan" \/ r.next # "known" =>
           Here(e, q)' \/ q[1] \in r.threads \/ [thread |-> q[1], pos |-> q[2]] \in r.missing
    <3>1. CASE r.next = "known"
      <4>1. q[1] \in Id /\ q[2] \in 1..Len(log[q[1]])
        BY <1>0, OwedIsThere
      <4>2. q[1] \in Threads
        <5>1. log[q[1]] # <<>>
          BY <4>1
        <5>2. QED
          BY <4>1, <5>1 DEF Threads
      <4>3. QED
        BY <1>5, <3>1, <4>2
    <3>2. CASE r.next # "known"
      BY <1>0, <1>5, <1>7, <3>2 DEF SeekInv
    <3>3. QED
      BY <3>1, <3>2
  <2>7. ~(r.at = "list2" /\ r.next = "done")
    BY <1>5
  <2>8. QED
    BY <1>0, <1>4, <2>1, <2>3, <2>4, <2>5, <2>6, <2>7, SeekNext
<1>8. QED
  BY <1>2, <1>6, <1>7 DEF Seeks

\* The last listing of all is walked.
LEMMA ListedIsWalked ==
    ASSUME NEW e \in Endpoint, Runs(e), ListPending(e), rec[e].next = "done"
    PROVE  /\ at'[e] = "walk"
           /\ \A q \in Owed(e) : SeekInv(e, q) => WalkInv(e, q)'
<1>0. /\ TypeOK /\ PtrInv /\ rec[e] \in Rec /\ Bounded(Pointers(e)) /\ box[e] \in Mailbox
      /\ walk \in [Endpoint -> Walk]
      /\ \A q : EntryAt(q)' = EntryAt(q) /\ (Here(e, q) => Here(e, q)')
      /\ \A q : wait[e].findings => wait'[e].findings
  BY RunsKnown DEF TypeOK
<1>1. PICK L : L = Listing(rec[e].listed, box[e].pending)
  OBVIOUS
<1>2. /\ rec[e].at = "list2" /\ Goto(e, "walk")
      /\ walk' = [walk EXCEPT ![e] = [left |-> L, cursor |-> ep[e].polled, shown |-> {}]]
  BY <1>1 DEF ListPending, Runs, StageInv
<1>3. at'[e] = "walk" /\ walk'[e].left = L
  BY <1>0, <1>2, GotoTyped DEF Polling
<1>4. ASSUME NEW q \in Owed(e), SeekInv(e, q)
      PROVE  WalkInv(e, q)'
  <2>1. PICK m : m = EntryAt(q).id
    OBVIOUS
  <2>2. wait[e].findings \/ m \in Ids(rec[e].listed)
    BY <1>2, <1>4, <2>1 DEF SeekInv
  <2>3. CASE m \in Ids(rec[e].listed)
    <3>1. rec[e].listed \in SUBSET Ptr /\ box[e].pending \in SUBSET Ptr
      BY <1>0 DEF Rec, Mailbox
    <3>2. Bounded(rec[e].listed) /\ Bounded(box[e].pending)
      BY <1>0 DEF Runs, StageInv, Bounded, Pointers
    <3>3. Bounded(rec[e].listed \cup box[e].pending)
      BY <3>1, <3>2, BothBounded
    <3>4. m \in Ids(rec[e].listed \cup box[e].pending)
      BY <2>3 DEF Ids
    <3>5. m \in Ids(L)
      BY <1>1, <3>1, <3>3, <3>4, ListingComplete
    <3>6. PICK s \in L : s.id = m
      BY <3>5 DEF Ids
    <3>7. PointsTo(s, q)
      BY <1>1, <1>2, <1>4, <2>1, <3>6, ListedIsHere
    <3>8. PointsTo(s, q)'
      BY <1>0, <3>7 DEF PointsTo
    <3>9. QED
      BY <1>3, <3>6, <3>8 DEF WalkInv
  <2>4. QED
    BY <1>0, <2>2, <2>3 DEF WalkInv
<1>5. QED
  BY <1>3, <1>4

LEMMA FoldThreadSeeks ==
    ASSUME NEW e \in Endpoint, Runs(e), FoldThread(e)
    PROVE  at' = at /\ StageInv(rec[e])' /\ Seeks(e)
<1> DEFINE Due(t, j) == /\ MessageAt(t, j) /\ log[t][j].to \in Addressees(e)
                        /\ log[t][j].id \notin Acked(t) \cup rec[e].known
           Misses(t) == IF State(t) = "resolved" THEN {}
                        ELSE {[thread |-> t, pos |-> i] : i \in {j \in 1..Len(log[t]) : Due(t, j)}}
<1>0. /\ TypeOK /\ PtrInv /\ rec[e] \in Rec /\ rec \in [Endpoint -> Rec]
      /\ \A q : EntryAt(q)' = EntryAt(q) /\ (Here(e, q) => Here(e, q)')
      /\ \A q : wait[e].findings => wait'[e].findings
  BY RunsKnown
<1>1. PICK t \in rec[e].threads :
         Advance(e, [rec[e] EXCEPT !.threads = @ \ {t}, !.missing = Misses(t), !.next = "create",
                                   !.at = IF Misses(t) = {} THEN "scan" ELSE "list"])
  BY Zenon DEF FoldThread
<1>2. rec[e].at = "scan" /\ at' = at
  BY DEF FoldThread
<1>3. PICK r : r = rec'[e]
  OBVIOUS
<1>4. PICK M : M = Misses(t)
  OBVIOUS
<1>5. /\ r.next = "create" /\ r.known = rec[e].known /\ r.listed = rec[e].listed /\ r.by = rec[e].by
      /\ r.threads = rec[e].threads \ {t} /\ r.missing = M
      /\ (M = {} /\ r.at = "scan") \/ (M # {} /\ r.at = "list")
  <2> HIDE DEF Misses
  <2> QED  BY <1>0, <1>1, <1>3, <1>4 DEF Advance, Rec
<1>6. StageInv(rec[e])'
  <2>1. StageInv(r)
    BY <1>5 DEF Runs, StageInv
  <2>2. QED
    BY <1>3, <2>1 DEF StageInv, Bounded
<1>7. ASSUME NEW q \in Owed(e), SeekInv(e, q)
      PROVE  SeekInv(e, q)'
  <2>1. PICK m : m = EntryAt(q).id
    OBVIOUS
  <2>2. m \in r.known \cup Ids(r.listed) => Here(e, q)'
    BY <1>0, <1>5, <1>7, <2>1 DEF SeekInv
  <2>3. /\ \A s \in r.listed : s.id = m => PointsTo(s, q)
        /\ EntryAt(q).to = e => Here(e, q)'
    BY <1>0, <1>2, <1>5, <1>7, <2>1 DEF SeekInv
  <2>4. Here(e, q) \/ q[1] \in rec[e].threads
    BY <1>2, <1>7 DEF SeekInv, Runs, StageInv
  <2>5. q[1] = t => Here(e, q) \/ [thread |-> q[1], pos |-> q[2]] \in M
    <3>1. ASSUME q[1] = t, ~Here(e, q)
          PROVE  [thread |-> t, pos |-> q[2]] \in M
      <4>1. /\ q[2] \in 1..Len(log[t]) /\ MessageAt(t, q[2]) /\ log[t][q[2]].id = m
            /\ log[t][q[2]].to \in Addressees(e) /\ ~Terminal(t, m)
        BY <1>0, <2>1, <3>1, OwedIsThere
      <4>2. m \notin Acked(t) /\ State(t) # "resolved"
        BY <4>1 DEF Terminal
      <4>3. m \notin rec[e].known
        BY <1>7, <2>1, <3>1 DEF SeekInv
      <4>4. Due(t, q[2])
        BY <4>1, <4>2, <4>3
      <4>5. QED
        BY <1>4, <4>1, <4>2, <4>4
    <3>2. QED
      BY <3>1
  <2>6. Here(e, q)' \/ q[1] \in r.threads \/ [thread |-> q[1], pos |-> q[2]] \in r.missing
    BY <1>0, <1>5, <2>4, <2>5
  <2>7. ~(r.at = "list2" /\ r.next = "done")
    BY <1>5
  <2>8. EntryAt(q)' = EntryAt(q) /\ r.at \notin {"intents", "intent"}
    BY <1>0, <1>5
  <2>9. QED
    BY <1>3, <2>1, <2>2, <2>3, <2>6, <2>7, <2>8, SeekNext
<1>8. QED
  BY <1>2, <1>6, <1>7 DEF Seeks

\* The message of the moment has its pointer, here.
LEMMA PointedSeeks ==
    ASSUME NEW e \in Endpoint, Runs(e), rec[e].at \in {"create", "write"}, Pointed(e), at' = at,
           \A q \in Owed(e) : SeekInv(e, q) /\ EntryAt(q).id = MissingId(e) => Here(e, q)'
    PROVE  StageInv(rec[e])' /\ Seeks(e)
<1>0. /\ TypeOK /\ PtrInv /\ rec[e] \in Rec /\ rec \in [Endpoint -> Rec] /\ RecFits(rec[e])
      /\ \A q : EntryAt(q)' = EntryAt(q) /\ (Here(e, q) => Here(e, q)')
      /\ \A q : wait[e].findings => wait'[e].findings
  BY RunsKnown
<1>1. PICK f, i : f = FirstMissing(e) /\ i = MissingId(e)
  OBVIOUS
<1>2. rec[e].next = "create"
  BY <1>0 DEF RecFits
<1>3. PICK rest : rest = rec[e].missing \ {f}
  OBVIOUS
<1>4. Advance(e, [rec[e] EXCEPT !.missing = rest, !.known = @ \cup {i}, !.listed = {}, !.seq = 0,
                                !.at = IF rest = {} THEN "scan" ELSE "list"])
  BY <1>1, <1>3 DEF Pointed
<1>5. PICK r : r = rec'[e]
  OBVIOUS
<1>6. /\ r.next = "create" /\ r.known = rec[e].known \cup {i} /\ r.listed = {} /\ r.by = rec[e].by
      /\ r.threads = rec[e].threads /\ r.missing = rest
      /\ (rest = {} /\ r.at = "scan") \/ (rest # {} /\ r.at = "list")
  BY <1>0, <1>2, <1>4, <1>5 DEF Advance, Rec
<1>7. StageInv(rec[e])'
  <2>1. StageInv(r)
    BY <1>6 DEF Runs, StageInv, Bounded
  <2>2. QED
    BY <1>5, <2>1 DEF StageInv, Bounded
<1>8. ASSUME NEW q \in Owed(e), SeekInv(e, q)
      PROVE  SeekInv(e, q)'
  <2>1. PICK m : m = EntryAt(q).id
    OBVIOUS
  <2>2. m = i => Here(e, q)'
    BY <1>1, <1>8, <2>1
  <2>3. m \in r.known \cup Ids(r.listed) => Here(e, q)'
    <3>1. m \notin Ids(r.listed)
      BY <1>6 DEF Ids
    <3>2. m \in rec[e].known => Here(e, q)
      BY <1>8, <2>1 DEF SeekInv
    <3>3. QED
      BY <1>0, <1>6, <2>2, <3>1, <3>2
  <2>4. EntryAt(q).to = e => Here(e, q)'
    BY <1>0, <1>8 DEF SeekInv
  <2>5. Here(e, q) \/ q[1] \in rec[e].threads \/ [thread |-> q[1], pos |-> q[2]] \in rec[e].missing
    BY <1>2, <1>8 DEF SeekInv
  <2>6. [thread |-> q[1], pos |-> q[2]] = f => m = i
    BY <1>0, <1>1, <2>1, OwedIsThere DEF MissingId
  <2>7. Here(e, q)' \/ q[1] \in r.threads \/ [thread |-> q[1], pos |-> q[2]] \in r.missing
    BY <1>0, <1>3, <1>6, <2>2, <2>5, <2>6
  <2>8. ~(r.at = "list2" /\ r.next = "done") /\ \A s \in r.listed : s.id = m => PointsTo(s, q)
    BY <1>6
  <2>9. QED
    BY <1>0, <1>5, <2>1, <2>3, <2>4, <2>7, <2>8, SeekNext
<1>9. QED
  BY <1>7, <1>8 DEF Seeks

LEMMA AllocatePointerSeeks ==
    ASSUME NEW e \in Endpoint, Runs(e), AllocatePointer(e)
    PROVE  at' = at /\ StageInv(rec[e])' /\ Seeks(e)
<1>0. /\ TypeOK /\ PtrInv /\ rec[e] \in Rec /\ rec \in [Endpoint -> Rec] /\ RecFits(rec[e])
      /\ \A q : EntryAt(q)' = EntryAt(q) /\ (Here(e, q) => Here(e, q)')
      /\ \A q : wait[e].findings => wait'[e].findings
  BY RunsKnown
<1>1. rec[e].at = "create" /\ at' = at
  BY DEF AllocatePointer
<1>2. CASE MissingId(e) \in Ids(rec[e].listed) /\ Pointed(e)
  <2>1. \A q \in Owed(e) : SeekInv(e, q) /\ EntryAt(q).id = MissingId(e) => Here(e, q)'
    BY <1>0, <1>2 DEF SeekInv
  <2>2. QED
    BY <1>1, <1>2, <2>1, PointedSeeks
<1>3. CASE Advance(e, [rec[e] EXCEPT !.at = "write", !.seq = AllocSeq(e)])
  <2>1. PICK r : r = rec'[e]
    OBVIOUS
  <2>2. /\ r.at = "write" /\ r.next = rec[e].next /\ r.known = rec[e].known /\ r.by = rec[e].by
        /\ r.listed = rec[e].listed /\ r.threads = rec[e].threads /\ r.missing = rec[e].missing
    BY <1>0, <1>3, <2>1 DEF Advance, Rec
  <2>3. StageInv(rec[e])'
    <3>1. StageInv(r)
      BY <2>2 DEF Runs, StageInv
    <3>2. QED
      BY <2>1, <3>1 DEF StageInv, Bounded
  <2>4. ASSUME NEW q \in Owed(e), SeekInv(e, q)
        PROVE  SeekInv(e, q)'
    <3>1. PICK m : m = EntryAt(q).id
      OBVIOUS
    <3>2. m \in r.known \cup Ids(r.listed) => Here(e, q)'
      BY <1>0, <2>2, <2>4, <3>1 DEF SeekInv
    <3>3. /\ \A s \in r.listed : s.id = m => PointsTo(s, q)
          /\ EntryAt(q).to = e => Here(e, q)'
      BY <1>0, <1>1, <2>2, <2>4, <3>1 DEF SeekInv
    <3>4. r.at = "scan" \/ r.next # "known" =>
             Here(e, q)' \/ q[1] \in r.threads \/ [thread |-> q[1], pos |-> q[2]] \in r.missing
      BY <1>0, <2>2, <2>4 DEF SeekInv
    <3>5. ~(r.at = "list2" /\ r.next = "done")
      BY <2>2
    <3>6. QED
      BY <1>0, <2>1, <3>1, <3>2, <3>3, <3>4, <3>5, SeekNext
  <2>5. QED
    BY <1>1, <2>3, <2>4 DEF Seeks
<1>4. QED
  BY <1>2, <1>3 DEF AllocatePointer

LEMMA CreatePointerSeeks ==
    ASSUME NEW e \in Endpoint, Runs(e), CreatePointer(e)
    PROVE  at' = at /\ StageInv(rec[e])' /\ Seeks(e)
<1>0. TypeOK /\ \A q : EntryAt(q)' = EntryAt(q)
  BY RunsKnown
<1>1. rec[e].at = "write" /\ at' = at /\ Pointed(e)
  BY DEF CreatePointer
<1>2. \E p \in box'[e].active : p.id = MissingId(e)
  <2>1. PICK p : p = [seq |-> rec[e].seq, id |-> MissingId(e),
                      thread |-> FirstMissing(e).thread, pos |-> FirstMissing(e).pos]
    OBVIOUS
  <2>2. box'[e].active = box[e].active \cup {p}
    BY <1>0, <2>1, CreatedBox
  <2>3. QED
    BY <2>1, <2>2
<1>3. \A q \in Owed(e) : EntryAt(q).id = MissingId(e) => Here(e, q)'
  BY <1>0, <1>2 DEF Here, Ids
<1>4. QED
  BY <1>1, <1>3, PointedSeeks

LEMMA EndScanSeeks ==
    ASSUME NEW e \in Endpoint, Runs(e), EndScan(e)
    PROVE  at' = at /\ StageInv(rec[e])' /\ Seeks(e)
<1>0. /\ TypeOK /\ PtrInv /\ rec[e] \in Rec /\ rec \in [Endpoint -> Rec]
      /\ \A q : EntryAt(q)' = EntryAt(q) /\ (Here(e, q) => Here(e, q)')
      /\ \A q : wait[e].findings => wait'[e].findings
  BY RunsKnown
<1>1. PICK n \in {"done", "sweep"} :
         Advance(e, [rec[e] EXCEPT !.at = "list", !.dirs = AncestorDirs(e), !.known = {}, !.next = n])
  BY DEF EndScan
<1>2. rec[e].at = "scan" /\ rec[e].threads = {} /\ at' = at /\ rec[e].missing = {}
  BY DEF EndScan, Runs, StageInv
<1>3. PICK r : r = rec'[e]
  OBVIOUS
<1>4. /\ r.at = "list" /\ r.next = n /\ r.known = {} /\ r.by = rec[e].by
      /\ r.listed = rec[e].listed /\ r.threads = {} /\ r.missing = {}
  BY <1>0, <1>1, <1>2, <1>3 DEF Advance, Rec
<1>5. StageInv(rec[e])'
  <2>1. StageInv(r)
    BY <1>4 DEF Runs, StageInv
  <2>2. QED
    BY <1>3, <2>1 DEF StageInv, Bounded
<1>6. ASSUME NEW q \in Owed(e), SeekInv(e, q)
      PROVE  SeekInv(e, q)'
  <2>1. PICK m : m = EntryAt(q).id
    OBVIOUS
  <2>2. Here(e, q)'
    BY <1>0, <1>2, <1>6 DEF SeekInv
  <2>3. \A s \in r.listed : s.id = m => PointsTo(s, q)
    BY <1>4, <1>6, <2>1 DEF SeekInv
  <2>4. ~(r.at = "list2" /\ r.next = "done")
    BY <1>4
  <2>5. QED
    BY <1>0, <1>3, <2>1, <2>2, <2>3, <2>4, SeekNext
<1>7. QED
  BY <1>2, <1>5, <1>6 DEF Seeks

LEMMA SweepSeeks ==
    ASSUME NEW e \in Endpoint, Runs(e), Sweep(e)
    PROVE  at' = at /\ StageInv(rec[e])' /\ Seeks(e)
<1>0. /\ TypeOK /\ PtrInv /\ rec[e] \in Rec /\ rec \in [Endpoint -> Rec]
      /\ \A q : EntryAt(q)' = EntryAt(q) /\ (Here(e, q) => Here(e, q)')
      /\ \A q : wait[e].findings => wait'[e].findings
  BY RunsKnown
<1>1. PICK d \in rec[e].dirs :
         Advance(e, [rec[e] EXCEPT !.dirs = @ \ {d}, !.next = "done",
                                   !.at = IF rec[e].dirs = {d} THEN "list" ELSE "sweep"])
  BY Zenon DEF Sweep
<1>2. rec[e].at = "sweep" /\ at' = at
  BY DEF Sweep
<1>3. rec[e].next \in {"sweep", "done"} /\ rec[e].threads = {} /\ rec[e].missing = {}
  BY <1>2 DEF Runs, StageInv
<1>4. PICK r : r = rec'[e]
  OBVIOUS
<1>5. /\ r.at \in {"list", "sweep"} /\ r.next = "done" /\ r.known = rec[e].known /\ r.by = rec[e].by
      /\ r.listed = rec[e].listed /\ r.threads = {} /\ r.missing = {}
  BY <1>0, <1>1, <1>3, <1>4 DEF Advance, Rec
<1>6. StageInv(rec[e])'
  <2>1. StageInv(r)
    BY <1>5 DEF Runs, StageInv
  <2>2. QED
    BY <1>4, <2>1 DEF StageInv, Bounded
<1>7. ASSUME NEW q \in Owed(e), SeekInv(e, q)
      PROVE  SeekInv(e, q)'
  <2>1. PICK m : m = EntryAt(q).id
    OBVIOUS
  <2>2. Here(e, q)'
    BY <1>0, <1>3, <1>7 DEF SeekInv
  <2>3. \A s \in r.listed : s.id = m => PointsTo(s, q)
    BY <1>5, <1>7, <2>1 DEF SeekInv
  <2>4. ~(r.at = "list2" /\ r.next = "done")
    BY <1>5
  <2>5. QED
    BY <1>0, <1>4, <2>1, <2>2, <2>3, <2>4, SeekNext
<1>8. QED
  BY <1>2, <1>6, <1>7 DEF Seeks

\* A step of the reconciliation searches on, or ends the search.
LEMMA ReconcilingSeeks ==
    ASSUME NEW e \in Endpoint, Runs(e)
    PROVE  \/ at' = at /\ StageInv(rec[e])' /\ Seeks(e)
           \/ at'[e] = "walk" /\ \A q \in Owed(e) : SeekInv(e, q) => WalkInv(e, q)'
BY PickIntentSeeks, RecoverPendingIntentSeeks, ListActiveSeeks, ListPendingSeeks, ListedIsWalked,
   FoldThreadSeeks, AllocatePointerSeeks, CreatePointerSeeks, EndScanSeeks, SweepSeeks
   DEF Runs, ReconcileStep
----------------------------------------------------------------------------
(* What a waiting process does between its polls. *)

LEMMA WaitSet ==
    ASSUME wait \in [Endpoint -> Wait], NEW e \in Endpoint, NEW w \in Wait, SetWait(e, w)
    PROVE  /\ wait' \in [Endpoint -> Wait] /\ wait'[e] = w
           /\ \A x \in Endpoint : x # e => wait'[x] = wait[x]
BY DEF SetWait

\* A step that leaves the mailbox, the locks and the log alone.
LEMMA QuietWait ==
    ASSUME wait \in [Endpoint -> Wait], NEW e \in Endpoint, NEW w \in Wait, SetWait(e, w), OneWait(e),
           UNCHANGED <<log, box, ep, at, walk, rec>>,
           w.at # "off" => ep[e].status # "absent",
           w.worker = "polling" <=> Polls(e), w.pending => w.worker # "none",
           w.at \in {"off", "blocked"} => w.due = {},
           w.at = "last" =>
               /\ ~w.pending /\ w.worker \in {"none", "poll", "polling"} /\ w.due = wait[e].due
               /\ w.worker = "none" /\ w.outcome = "none" => Owed(e) = {}
               /\ at[e] \in Polling => wait[e].at = "last" /\ w.findings = wait[e].findings,
           w.outcome = "timeout" => w.at = "last" /\ Owed(e) = {},
           \A m \in w.due \cup w.messages : Messages(m) # {}
    PROVE  OneWait(e)'
<1>1. wait'[e] = w
  BY WaitSet
<1>2. Addressees(e)' = Addressees(e)
  BY SamePredecessors
<1>3. w.due = wait[e].due => Owed(e)' = Owed(e)
  BY <1>1, <1>2, SameLog DEF Owed
<1>4. WorkInv(e)'
  BY <1>1 DEF OneWait, WorkInv, Polls
<1>5. PollInv(e)'
  BY <1>1 DEF OneWait, PollInv, Active, StageInv, Bounded
<1>6. ThereInv(e)'
  BY <1>1, SameLog DEF ThereInv
<1>7. ASSUME w.at = "last"
      PROVE  SearchInv(e)'
  <2>1. CASE at[e] \notin Polling
    BY <2>1 DEF SearchInv, Polling
  <2>2. CASE at[e] \in Polling
    <3>1. wait[e].at = "last" /\ w.findings = wait[e].findings /\ Owed(e)' = Owed(e) /\ SearchInv(e)
      BY <1>3, <1>7, <2>2 DEF OneWait, LastInv
    <3>2. \A q : Here(e, q) => Here(e, q)'
      BY <1>1, <3>1, SameLog DEF Here, Ids
    <3>3. \A p, q : PointsTo(p, q)' <=> PointsTo(p, q)
      BY SameLog DEF PointsTo
    <3>4. \A q : WalkInv(e, q) => WalkInv(e, q)'
      BY <1>1, <3>1, <3>3, SameLog DEF WalkInv
    <3>5. ASSUME NEW q \in Owed(e), at[e] = "reconcile"
          PROVE  SeekInv(e, q)'
      <4>1. SeekInv(e, q) /\ EntryAt(q)' = EntryAt(q)
        BY <3>1, <3>5, SameLog DEF SearchInv
      <4>2. Tends(e)
        BY SameTends
      <4>3. QED
        BY <1>1, <3>1, <4>1, <4>2, SeekKept
    <3>6. QED
      BY <1>1, <3>1, <3>4, <3>5 DEF SearchInv
  <2>3. QED
    BY <2>1, <2>2
<1>8. LastInv(e)'
  BY <1>1, <1>3, <1>7 DEF LastInv
<1>9. QED
  BY <1>4, <1>5, <1>6, <1>8 DEF OneWait

\* Requests and checks are states of a wait.
LEMMA WaitTyped ==
    /\ Off \in Wait
    /\ \A w \in Wait, s \in BOOLEAN :
          /\ Requested(w, s) \in Wait /\ Unsettled(w) \in Wait
          /\ [w EXCEPT !.at = "last"] \in Wait
    /\ \A w \in Wait, M \in SUBSET Id, o \in {"message", "timeout", "error", "signal"} :
          Concluded(w, o, M) \in Wait
<1>1. Off \in Wait
  BY DEF Off, Wait
<1>2. ASSUME NEW w \in Wait, NEW s \in BOOLEAN
      PROVE  Requested(w, s) \in Wait /\ Unsettled(w) \in Wait /\ [w EXCEPT !.at = "last"] \in Wait
  <2>1. Check(s) \in {"scan", "poll"} /\ Check(w.surely) \in {"scan", "poll"}
    BY DEF Check
  <2>2. (w.surely \/ s) \in BOOLEAN
    OBVIOUS
  <2>3. Requested(w, s) \in Wait
    BY <2>1, <2>2 DEF Requested, Wait
  <2>4. Unsettled(w) \in Wait
    BY <2>1 DEF Unsettled, Wait
  <2>5. QED
    BY <2>3, <2>4 DEF Wait
<1>3. ASSUME NEW w \in Wait, NEW M \in SUBSET Id, NEW o \in {"message", "timeout", "error", "signal"}
      PROVE  Concluded(w, o, M) \in Wait
  BY DEF Concluded, Wait
<1>4. QED
  BY <1>1, <1>2, <1>3

\* The steps of the coordinator and of the worker that take no lock.
Idles(e) ==
    \/ StartWait(e) \/ WatchEvent(e) \/ Tick(e) \/ Signal(e) \/ Deadline(e) \/ FinalPoll(e)
    \/ TimesOut(e) \/ EndWait(e) \/ Scan(e) \/ PollRefused(e) \/ WaiterDies(e)

LEMMA RequestedWait ==
    ASSUME wait \in [Endpoint -> Wait], NEW e \in Endpoint, OneWait(e), NEW s \in BOOLEAN,
           WatchEvent(e) \/ Tick(e), SetWait(e, Requested(wait[e], s)), UNCHANGED vars
    PROVE  OneWait(e)'
<1>1. wait[e].at = "blocked" /\ wait[e].outcome = "none" /\ wait[e] \in Wait
  BY DEF WatchEvent, Tick, Accepting
<1>2. PICK w : w = Requested(wait[e], s)
  OBVIOUS
<1>3. w \in Wait
  BY <1>1, <1>2, WaitTyped
<1>4. /\ w.at = "blocked" /\ w.outcome = "none" /\ w.due = wait[e].due /\ w.messages = wait[e].messages
      /\ w.worker = "polling" <=> wait[e].worker = "polling"
      /\ w.pending => w.worker # "none"
  <2>1. CASE wait[e].worker = "none"
    <3>1. w = [wait[e] EXCEPT !.worker = Check(s)]
      BY <1>2, <2>1 DEF Requested
    <3>2. QED
      BY <1>1, <2>1, <3>1 DEF Wait, Check
  <2>2. CASE wait[e].worker # "none"
    <3>1. w = [wait[e] EXCEPT !.pending = TRUE, !.surely = @ \/ s]
      BY <1>2, <2>2 DEF Requested
    <3>2. QED
      BY <1>1, <2>2, <3>1 DEF Wait
  <2>3. QED
    BY <2>1, <2>2
<1>5. ep[e].status # "absent" /\ wait[e].due = {} /\ \A m \in wait[e].messages : Messages(m) # {}
  BY <1>1 DEF OneWait, PollInv, LastInv, ThereInv
<1>6. UNCHANGED <<log, box, ep, at, walk, rec>>
  BY DEF vars
<1>7. QED
  BY <1>2, <1>3, <1>4, <1>5, <1>6, QuietWait DEF Polls

LEMMA DeadlineWait ==
    ASSUME IInv, wait \in [Endpoint -> Wait], NEW e \in Endpoint, OneWait(e), Deadline(e)
    PROVE  wait' \in [Endpoint -> Wait] /\ OneWait(e)'
<1>1. /\ wait[e].at = "blocked" /\ wait[e].outcome = "none" /\ wait[e] \in Wait
      /\ SetWait(e, [wait[e] EXCEPT !.at = "late", !.due = Mail(e)])
      /\ UNCHANGED <<log, box, ep, at, walk, rec>>
  BY DEF Deadline, vars
<1>2. \A m \in Mail(e) : m \in Id /\ Messages(m) # {}
  <2>1. ASSUME NEW m \in Mail(e)
        PROVE  m \in Id /\ Messages(m) # {}
    <3>1. PICK q \in Places : EntryAt(q).type = "message" /\ EntryAt(q).id = m
      BY DEF Mail
    <3>2. m \in Id
      BY <3>1, MessageIsKeyed DEF IInv
    <3>3. q \in Messages(m)
      BY <3>1 DEF Messages
    <3>4. QED
      BY <3>2, <3>3
  <2>2. QED
    BY <2>1
<1>3. PICK M \in SUBSET Id : M = Mail(e)
  BY <1>2
<1>4. PICK w : w = [wait[e] EXCEPT !.at = "late", !.due = M]
  OBVIOUS
<1>5. /\ w \in Wait /\ w.at = "late" /\ w.worker = wait[e].worker /\ w.pending = wait[e].pending
      /\ w.outcome = "none" /\ w.due = M /\ w.messages = wait[e].messages
  BY <1>1, <1>4 DEF Wait
<1>6. SetWait(e, w)
  BY <1>1, <1>3, <1>4
<1>7. /\ ep[e].status # "absent" /\ \A m \in wait[e].messages : Messages(m) # {}
      /\ wait[e].pending => wait[e].worker # "none"
  BY <1>1 DEF OneWait, PollInv, ThereInv, WorkInv
<1>8. \A m \in w.due \cup w.messages : Messages(m) # {}
  BY <1>2, <1>3, <1>5, <1>7
<1>9. wait' \in [Endpoint -> Wait]
  BY <1>5, <1>6, WaitSet
<1>10. w.worker = "polling" <=> Polls(e)
  BY <1>5 DEF Polls
<1>11. QED
  BY <1>1, <1>5, <1>6, <1>7, <1>8, <1>9, <1>10, QuietWait

LEMMA ScanWait ==
    ASSUME wait \in [Endpoint -> Wait], NEW e \in Endpoint, OneWait(e), Scan(e)
    PROVE  wait' \in [Endpoint -> Wait] /\ OneWait(e)'
<1>1. PICK w : SetWait(e, w) /\ \/ w \in {[wait[e] EXCEPT !.worker = "poll"], [wait[e] EXCEPT !.worker = "scan2"]}
                                \/ w = Unsettled(wait[e])
  BY DEF Scan
<1>2. wait[e] \in Wait /\ wait[e].worker \in {"scan", "scan2"} /\ UNCHANGED <<log, box, ep, at, walk, rec>>
  BY DEF Scan, vars
<1>3. /\ w \in Wait /\ w.at = wait[e].at /\ w.worker # "polling" /\ w.outcome = wait[e].outcome
      /\ w.due = wait[e].due /\ w.messages = wait[e].messages
      /\ w.pending => w.worker # "none"
  <2>1. CASE w = Unsettled(wait[e])
    <3>1. w \in Wait
      BY <1>2, <2>1, WaitTyped
    <3>2. QED
      BY <1>2, <2>1, <3>1 DEF Wait, Unsettled, Check
  <2>2. CASE w # Unsettled(wait[e])
    BY <1>1, <1>2, <2>2 DEF Wait
  <2>3. QED
    BY <2>1, <2>2
<1>4. /\ wait[e].at # "last" /\ wait[e].outcome # "timeout"
      /\ wait[e].at \in {"off", "blocked"} => wait[e].due = {}
  BY <1>2 DEF OneWait, LastInv
<1>5. /\ wait[e].at # "off" => ep[e].status # "absent"
      /\ \A m \in wait[e].due \cup wait[e].messages : Messages(m) # {}
  BY DEF OneWait, PollInv, ThereInv
<1>6. wait' \in [Endpoint -> Wait]
  BY <1>1, <1>3, WaitSet
<1>7. w.worker = "polling" <=> Polls(e)
  BY <1>2, <1>3 DEF Polls
<1>8. \A m \in w.due \cup w.messages : Messages(m) # {}
  <2>1. w.due = wait[e].due /\ w.messages = wait[e].messages
    BY <1>3
  <2>2. QED
    BY <1>5, <2>1
<1>9. /\ w.at # "off" => ep[e].status # "absent"
      /\ w.at \in {"off", "blocked"} => w.due = {}
      /\ w.at # "last" /\ w.outcome # "timeout"
      /\ w \in Wait /\ (w.pending => w.worker # "none")
  BY <1>3, <1>4, <1>5
<1>10. OneWait(e)'
  BY <1>1, <1>2, <1>7, <1>8, <1>9, QuietWait
<1>11. QED
  BY <1>6, <1>10

LEMMA FinalPollWait ==
    ASSUME wait \in [Endpoint -> Wait], NEW e \in Endpoint, OneWait(e), FinalPoll(e)
    PROVE  wait' \in [Endpoint -> Wait] /\ OneWait(e)'
<1>1. /\ wait[e].at = "late" /\ wait[e].outcome = "none" /\ wait[e].worker = "none" /\ wait[e] \in Wait
      /\ SetWait(e, Requested([wait[e] EXCEPT !.at = "last"], TRUE))
      /\ UNCHANGED <<log, box, ep, at, walk, rec>>
  BY DEF FinalPoll, vars
<1>2. PICK w : w = Requested([wait[e] EXCEPT !.at = "last"], TRUE)
  OBVIOUS
<1>3. w \in Wait
  BY <1>1, <1>2, WaitTyped
<1>4. /\ w.at = "last" /\ w.outcome = "none" /\ w.due = wait[e].due /\ w.messages = wait[e].messages
      /\ w.worker = "poll" /\ w.pending = wait[e].pending
  BY <1>1, <1>2 DEF Requested, Wait, Check
<1>5. /\ ep[e].status # "absent" /\ at[e] \notin Polling /\ ~wait[e].pending
      /\ \A m \in wait[e].due \cup wait[e].messages : Messages(m) # {}
  BY <1>1 DEF OneWait, PollInv, ThereInv, WorkInv, Polls
<1>6. QED
  BY <1>1, <1>2, <1>3, <1>4, <1>5, QuietWait, WaitSet DEF Polls

LEMMA OffWait ==
    ASSUME wait \in [Endpoint -> Wait], NEW e \in Endpoint, OneWait(e), SetWait(e, Off), ~Polls(e),
           UNCHANGED <<log, box, ep, at, walk, rec>>
    PROVE  wait' \in [Endpoint -> Wait] /\ OneWait(e)'
<1>1. /\ Off \in Wait /\ Off.at = "off" /\ Off.worker = "none" /\ ~Off.pending /\ Off.outcome = "none"
      /\ Off.due = {} /\ Off.messages = {}
  BY WaitTyped DEF Off
<1>2. QED
  BY <1>1, QuietWait, WaitSet

LEMMA StartWaitWait ==
    ASSUME wait \in [Endpoint -> Wait], NEW e \in Endpoint, OneWait(e), StartWait(e)
    PROVE  wait' \in [Endpoint -> Wait] /\ OneWait(e)'
<1>1. /\ Active(e) /\ wait[e] = Off /\ SetWait(e, Requested([Off EXCEPT !.at = "blocked"], TRUE))
      /\ UNCHANGED <<log, box, ep, at, walk, rec>>
  BY DEF StartWait, vars
<1>2. PICK w : w = Requested([Off EXCEPT !.at = "blocked"], TRUE)
  OBVIOUS
<1>3. /\ w.at = "blocked" /\ w.worker = "poll" /\ ~w.pending /\ w.outcome = "none" /\ w.due = {}
      /\ w.messages = {} /\ w \in Wait
  BY <1>2 DEF Requested, Off, Check, Wait
<1>4. ep[e].status # "absent" /\ ~Polls(e)
  BY <1>1 DEF Active, Polls, Off
<1>5. QED
  BY <1>1, <1>2, <1>3, <1>4, QuietWait, WaitSet

\* What ends a wait without a poll: its outcome is there.
LEMMA OutcomeWait ==
    ASSUME wait \in [Endpoint -> Wait], NEW e \in Endpoint, OneWait(e),
           Signal(e) \/ TimesOut(e) \/ PollRefused(e)
    PROVE  wait' \in [Endpoint -> Wait] /\ OneWait(e)'
<1>1. wait[e] \in Wait /\ UNCHANGED <<log, box, ep, at, walk, rec>>
  BY DEF Signal, TimesOut, PollRefused, vars
<1>2. /\ wait[e].at # "off" => ep[e].status # "absent"
      /\ \A m \in wait[e].due \cup wait[e].messages : Messages(m) # {}
      /\ wait[e].pending => wait[e].worker # "none"
      /\ wait[e].at \in {"off", "blocked"} => wait[e].due = {}
      /\ wait[e].outcome = "timeout" => wait[e].at = "last" /\ Owed(e) = {}
      /\ wait[e].at = "last" => ~wait[e].pending /\ wait[e].worker \in {"none", "poll", "polling"}
      /\ wait[e].at = "last" /\ wait[e].worker = "none" /\ wait[e].outcome = "none" => Owed(e) = {}
  BY DEF OneWait, PollInv, ThereInv, WorkInv, LastInv
<1>3. CASE Signal(e)
  <2>1. PICK w : w = [wait[e] EXCEPT !.outcome = "signal"]
    OBVIOUS
  <2>2. /\ SetWait(e, w) /\ w \in Wait /\ w.at = wait[e].at /\ w.worker = wait[e].worker
        /\ w.pending = wait[e].pending /\ w.outcome = "signal" /\ w.due = wait[e].due
        /\ w.messages = wait[e].messages /\ w.findings = wait[e].findings
    BY <1>1, <1>3, <2>1 DEF Signal, Wait
  <2>3. QED
    BY <1>1, <1>2, <2>2, QuietWait, WaitSet DEF Polls
<1>4. CASE TimesOut(e)
  <2>1. PICK w : w = [wait[e] EXCEPT !.outcome = "timeout"]
    OBVIOUS
  <2>2. /\ SetWait(e, w) /\ w \in Wait /\ w.at = wait[e].at /\ w.worker = wait[e].worker
        /\ w.pending = wait[e].pending /\ w.outcome = "timeout" /\ w.due = wait[e].due
        /\ w.messages = wait[e].messages /\ w.findings = wait[e].findings
        /\ wait[e].at = "last" /\ wait[e].outcome = "none" /\ wait[e].worker = "none"
    BY <1>1, <1>4, <2>1 DEF TimesOut, Wait
  <2>3. QED
    BY <1>1, <1>2, <2>2, QuietWait, WaitSet DEF Polls
<1>5. CASE PollRefused(e)
  <2>1. PICK w : w = Concluded(wait[e], "error", {})
    OBVIOUS
  <2>2. SetWait(e, w) /\ w \in Wait /\ wait[e].worker = "poll"
    BY <1>1, <1>5, <2>1, WaitTyped DEF PollRefused
  <2>3. /\ w.at = wait[e].at /\ w.worker = "none" /\ ~w.pending /\ w.due = wait[e].due
        /\ w.outcome # "none" /\ (w.outcome = "timeout" => wait[e].outcome = "timeout")
        /\ w.messages \subseteq wait[e].messages
    BY <1>1, <2>1 DEF Concluded, Wait
  <2>4. at[e] \notin Polling /\ ~Polls(e)
    BY <2>2 DEF OneWait, WorkInv, Polls
  <2>5. QED
    BY <1>1, <1>2, <2>2, <2>3, <2>4, QuietWait, WaitSet
<1>6. QED
  BY <1>3, <1>4, <1>5

LEMMA IdlesWait ==
    ASSUME IInv, wait \in [Endpoint -> Wait], NEW e \in Endpoint, OneWait(e), Idles(e)
    PROVE  /\ UNCHANGED <<log, box, ep, joining, at, walk, rec>>
           /\ wait' \in [Endpoint -> Wait] /\ OneWait(e)'
           /\ \A x \in Endpoint : x # e => wait'[x] = wait[x]
<1>1. UNCHANGED <<log, box, ep, joining, at, walk, rec>> /\ \E w : SetWait(e, w)
  BY DEF Idles, StartWait, WatchEvent, Tick, Signal, Deadline, FinalPoll, TimesOut, EndWait, Scan,
     PollRefused, WaiterDies, vars
<1>2. \A x \in Endpoint : x # e => wait'[x] = wait[x]
  BY <1>1 DEF SetWait
<1>3. ASSUME WatchEvent(e) \/ Tick(e)
      PROVE  wait' \in [Endpoint -> Wait] /\ OneWait(e)'
  <2>1. PICK s \in BOOLEAN : SetWait(e, Requested(wait[e], s)) /\ UNCHANGED vars
    BY <1>3 DEF WatchEvent, Tick
  <2>2. Requested(wait[e], s) \in Wait
    BY WaitTyped
  <2>3. QED
    BY <1>3, <2>1, <2>2, RequestedWait, WaitSet
<1>4. ASSUME EndWait(e) \/ WaiterDies(e)
      PROVE  wait' \in [Endpoint -> Wait] /\ OneWait(e)'
  BY <1>1, <1>4, OffWait DEF EndWait, WaiterDies, Polls
<1>5. QED
  BY <1>1, <1>2, <1>3, <1>4, StartWaitWait, DeadlineWait, FinalPollWait, ScanWait, OutcomeWait DEF Idles
----------------------------------------------------------------------------
(* What its polls do. *)

\* What e is owed depends on the log, on whom it replaced and on its deadline.
LEMMA SameOwed ==
    ASSUME NEW e, log' = log, SameEndpoints, wait'[e].due = wait[e].due
    PROVE  Owed(e)' = Owed(e)
<1>1. Addressees(e)' = Addressees(e)
  BY SamePredecessors DEF SameEndpoints
<1>2. QED
  BY <1>1, SameLog DEF Owed

LEMMA PollsOn ==
    ASSUME wait \in [Endpoint -> Wait], NEW e \in Endpoint, OneWait(e), log' = log, SameEndpoints,
           NEW w \in Wait, wait'[e] = w, w.worker = "polling", w.at = wait[e].at,
           w.pending = wait[e].pending, w.outcome = wait[e].outcome, w.due = wait[e].due,
           w.messages = wait[e].messages, at'[e] \in Polling, Active(e),
           at'[e] = "reconcile" => StageInv(rec[e])', w.at = "last" => SearchInv(e)'
    PROVE  OneWait(e)'
<1>1. WorkInv(e)'
  BY DEF WorkInv, Polls
<1>2. PollInv(e)'
  BY DEF PollInv, Active, SameEndpoints
<1>3. ThereInv(e)'
  BY SameLog DEF OneWait, ThereInv
<1>4. Owed(e)' = Owed(e)
  BY SameOwed
<1>5. /\ wait[e].at \in {"off", "blocked"} => wait[e].due = {}
      /\ wait[e].outcome = "timeout" => wait[e].at = "last" /\ Owed(e) = {}
      /\ wait[e].at = "last" => ~wait[e].pending
  BY DEF OneWait, LastInv
<1>6. LastInv(e)'
  BY <1>4, <1>5 DEF LastInv
<1>7. QED
  BY <1>1, <1>2, <1>3, <1>6 DEF OneWait

LEMMA BeginPollWait ==
    ASSUME IInv, PtrInv, HeirInv, wait \in [Endpoint -> Wait], NEW e \in Endpoint, OneWait(e),
           BeginPoll(e)
    PROVE  wait' \in [Endpoint -> Wait] /\ OneWait(e)'
<1>0. TypeOK
  BY DEF IInv, MailInv
<1>1. /\ wait[e] \in Wait /\ wait[e].worker = "poll" /\ Active(e)
      /\ SetWait(e, [wait[e] EXCEPT !.worker = "polling"])
      /\ Goto(e, "reconcile") /\ rec' = [rec EXCEPT ![e] = Begun(e, "poll")]
      /\ UNCHANGED <<log, box, ep, walk>>
  BY DEF BeginPoll, StartPoll, Advance
<1>2. PICK w : w = [wait[e] EXCEPT !.worker = "polling"]
  OBVIOUS
<1>3. /\ w \in Wait /\ w.worker = "polling" /\ w.at = wait[e].at /\ w.pending = wait[e].pending
      /\ w.outcome = wait[e].outcome /\ w.due = wait[e].due /\ w.messages = wait[e].messages
  BY <1>1, <1>2 DEF Wait
<1>4. wait' \in [Endpoint -> Wait] /\ wait'[e] = w
  BY <1>1, <1>2, <1>3, WaitSet
<1>5. PICK r : r = rec'[e]
  OBVIOUS
<1>6. /\ r.at = "intents" /\ r.by = "poll" /\ r.todo = box[e].pending /\ r.known = {} /\ r.listed = {}
      /\ r.missing = {} /\ r.next = "known"
  <2>1. r = Begun(e, "poll")
    BY <1>0, <1>1, <1>5 DEF TypeOK
  <2>2. QED
    BY <2>1 DEF Begun, NoRec
<1>7. at'[e] = "reconcile" /\ SameEndpoints
  BY <1>0, <1>1, GotoTyped DEF Polling, SameEndpoints
<1>8. StageInv(rec[e])'
  <2>1. StageInv(r)
    BY <1>6 DEF StageInv, Bounded
  <2>2. QED
    BY <1>5, <2>1 DEF StageInv, Bounded
<1>9. SearchInv(e)'
  <2>1. Owed(e)' = Owed(e)
    BY <1>1, <1>3, <1>4, <1>7, SameOwed
  <2>2. ASSUME NEW q \in Owed(e)
        PROVE  SeekInv(e, q)'
    <3>1. PICK m : m = EntryAt(q).id
      OBVIOUS
    <3>2. /\ q \in Places /\ EntryAt(q).type = "message" /\ ~Terminal(q[1], m)
          /\ EntryAt(q).to \in Addressees(e)
      BY <3>1 DEF Owed
    <3>3. EntryAt(q).to = e => m \in Ids(Pointers(e))
      <4>1. Held(EntryAt(q).to, m)
        BY <3>1, <3>2 DEF PtrInv, HoldInv
      <4>2. SUFFICES ASSUME EntryAt(q).to = e
                     PROVE  m \in Ids(Pointers(e))
        OBVIOUS
      <4>3. PICK z \in Endpoint : e \in Addressees(z) /\ m \in Ids(Pointers(z))
        BY <4>1, <4>2 DEF Held
      <4>4. z = e
        BY <1>0, <1>1, <4>3, NoHeirs
      <4>5. QED
        BY <4>3, <4>4
    <3>4. EntryAt(q)' = EntryAt(q)
      BY <1>1, SameLog
    <3>5. EntryAt(q).to = e =>
             \/ Here(e, q)'
             \/ /\ r.at \in {"intents", "intent"}
                /\ \E p \in r.todo : p \in box'[e].pending /\ p.id = m
      BY <1>1, <1>6, <3>1, <3>3, <3>4 DEF Here, Pointers, Ids
    <3>6. /\ m \in r.known \cup Ids(r.listed) => Here(e, q)'
          /\ \A p \in r.listed : p.id = m => PointsTo(p, q)
          /\ ~(r.at = "scan" \/ r.next # "known") /\ ~(r.at = "list2" /\ r.next = "done")
      BY <1>6 DEF Ids
    <3>7. r.at = "scan" \/ r.next # "known" =>
             Here(e, q)' \/ q[1] \in r.threads \/ [thread |-> q[1], pos |-> q[2]] \in r.missing
      BY <3>6
    <3>8. r.at = "list2" /\ r.next = "done" => wait'[e].findings \/ m \in Ids(r.listed)
      BY <3>6
    <3>9. QED
      BY <1>5, <3>1, <3>4, <3>5, <3>6, <3>7, <3>8, SeekNext
  <2>3. QED
    BY <1>7, <2>1, <2>2 DEF SearchInv
<1>10. at'[e] \in Polling
  BY <1>7 DEF Polling
<1>11. OneWait(e)'
  BY <1>1, <1>3, <1>4, <1>7, <1>8, <1>9, <1>10, PollsOn
<1>12. QED
  BY <1>4, <1>11

LEMMA FindsOn ==
    ASSUME wait \in [Endpoint -> Wait], NEW e \in Endpoint, PollGoesOn(e)
    PROVE  \E w \in Wait :
              /\ wait'[e] = w /\ wait' \in [Endpoint -> Wait] /\ w.worker = "polling" /\ w.at = wait[e].at
              /\ w.pending = wait[e].pending /\ w.outcome = wait[e].outcome /\ w.due = wait[e].due
              /\ w.messages = wait[e].messages
              /\ w.findings <=> (wait[e].findings \/ Finds(e))
<1>1. PICK b \in BOOLEAN : b <=> Finds(e)
  OBVIOUS
<1>2. wait[e] \in Wait /\ wait[e].worker = "polling"
  BY DEF PollGoesOn, Polls
<1>3. PICK c \in BOOLEAN : c = (wait[e].findings \/ Finds(e))
  OBVIOUS
<1>4. PICK w : w = [wait[e] EXCEPT !.findings = c]
  OBVIOUS
<1>5. /\ w \in Wait /\ w.worker = "polling" /\ w.at = wait[e].at
      /\ w.pending = wait[e].pending /\ w.outcome = wait[e].outcome /\ w.due = wait[e].due
      /\ w.messages = wait[e].messages /\ w.findings = c
  BY <1>2, <1>4 DEF Wait
<1>6. SetWait(e, w)
  BY <1>3, <1>4 DEF PollGoesOn
<1>7. QED
  BY <1>3, <1>5, <1>6, WaitSet

LEMMA ReconcileWait ==
    ASSUME IInv, PtrInv, HeirInv, wait \in [Endpoint -> Wait], NEW e \in Endpoint, OneWait(e),
           PollGoesOn(e), rec[e].by = "poll", ReconcileStep(e)
    PROVE  OneWait(e)'
<1>0. TypeOK
  BY DEF IInv, MailInv
<1>1. at[e] \in Polling /\ Active(e)
  BY DEF PollGoesOn, OneWait, WorkInv, PollInv
<1>2. at[e] = "reconcile" /\ StageInv(rec[e])
  <2>1. rec[e].at # "free"
    BY ReconcilingAt
  <2>2. at[e] = "reconcile"
    BY <2>1 DEF IInv, RecInv
  <2>3. QED
    BY <2>2 DEF OneWait, PollInv
<1>3. PICK w \in Wait :
         /\ wait'[e] = w /\ w.worker = "polling" /\ w.at = wait[e].at
         /\ w.pending = wait[e].pending /\ w.outcome = wait[e].outcome /\ w.due = wait[e].due
         /\ w.messages = wait[e].messages
         /\ w.findings <=> (wait[e].findings \/ Finds(e))
  BY FindsOn
<1>4. Runs(e)
  BY <1>1, <1>2, <1>3 DEF Runs
<1>5. log' = log
  BY <1>4, RunsKnown
<1>6. SameEndpoints
  BY <1>0, StepEndpoints DEF Step
<1>7. Owed(e)' = Owed(e)
  BY <1>3, <1>5, <1>6, SameOwed
<1>8. ASSUME at' = at, StageInv(rec[e])', Seeks(e)
      PROVE  OneWait(e)'
  <2>1. w.at = "last" => SearchInv(e)'
    <3>1. w.at = "last" => \A q \in Owed(e) : SeekInv(e, q)
      BY <1>2, <1>3 DEF OneWait, LastInv, SearchInv
    <3>2. w.at = "last" => \A q \in Owed(e)' : SeekInv(e, q)'
      BY <1>7, <1>8, <3>1 DEF Seeks
    <3>3. QED
      BY <1>2, <1>8, <3>2 DEF SearchInv
  <2>2. at'[e] \in Polling
    BY <1>1, <1>8
  <2>3. QED
    BY <1>1, <1>3, <1>5, <1>6, <1>8, <2>1, <2>2, PollsOn
<1>9. ASSUME at'[e] = "walk", \A q \in Owed(e) : SeekInv(e, q) => WalkInv(e, q)'
      PROVE  OneWait(e)'
  <2>1. w.at = "last" => SearchInv(e)'
    <3>1. w.at = "last" => \A q \in Owed(e) : SeekInv(e, q)
      BY <1>2, <1>3 DEF OneWait, LastInv, SearchInv
    <3>2. w.at = "last" => \A q \in Owed(e)' : WalkInv(e, q)'
      BY <1>7, <1>9, <3>1
    <3>3. QED
      BY <1>9, <3>2 DEF SearchInv
  <2>2. at'[e] \in Polling /\ at'[e] # "reconcile"
    BY <1>9 DEF Polling
  <2>3. QED
    BY <1>1, <1>3, <1>5, <1>6, <2>1, <2>2, PollsOn
<1>10. QED
  BY <1>4, <1>8, <1>9, ReconcilingSeeks

\* What is walked over was shown, or was no mail.
LEMMA WalkPointerWait ==
    ASSUME IInv, wait \in [Endpoint -> Wait], NEW e \in Endpoint, OneWait(e),
           PollGoesOn(e), WalkPointer(e)
    PROVE  OneWait(e)'
<1>0. TypeOK /\ walk \in [Endpoint -> Walk] /\ walk[e] \in Walk
  BY DEF IInv, MailInv, TypeOK
<1>1. Active(e)
  BY DEF PollGoesOn, OneWait, WorkInv, PollInv
<1>2. PICK w \in Wait :
         /\ wait'[e] = w /\ w.worker = "polling" /\ w.at = wait[e].at
         /\ w.pending = wait[e].pending /\ w.outcome = wait[e].outcome /\ w.due = wait[e].due
         /\ w.messages = wait[e].messages
         /\ w.findings <=> (wait[e].findings \/ Finds(e))
  BY FindsOn
<1>3. PICK p : p = First(walk[e].left)
  OBVIOUS
<1>4. PICK rest : rest = walk[e].left \ {p}
  OBVIOUS
<1>5. /\ at[e] = "walk" /\ ~WalkOver(e) /\ UNCHANGED <<log, ep, at>>
      /\ \/ ~MatchesCanonical(p, Addressees(e)) /\ walk' = [walk EXCEPT ![e].left = rest]
         \/ /\ Terminal(p.thread, p.id) /\ walk' = [walk EXCEPT ![e].left = rest]
         \/ walk' = [walk EXCEPT ![e] = [left |-> rest, shown |-> @.shown \cup {p.id},
                                         cursor |-> Max({@.cursor, p.seq})]]
  BY <1>3, <1>4 DEF WalkPointer
<1>6. /\ walk'[e].left = rest /\ walk[e].shown \subseteq walk'[e].shown
      /\ \/ ~MatchesCanonical(p, Addressees(e))
         \/ Terminal(p.thread, p.id)
         \/ p.id \in walk'[e].shown
  <2>1. CASE /\ ~MatchesCanonical(p, Addressees(e)) \/ Terminal(p.thread, p.id)
             /\ walk' = [walk EXCEPT ![e].left = rest]
    <3>1. walk'[e] = [walk[e] EXCEPT !.left = rest]
      BY <1>0, <2>1
    <3>2. walk'[e].left = rest /\ walk'[e].shown = walk[e].shown
      BY <1>0, <3>1 DEF Walk
    <3>3. QED
      BY <2>1, <3>2
  <2>2. CASE walk' = [walk EXCEPT ![e] = [left |-> rest, shown |-> @.shown \cup {p.id},
                                          cursor |-> Max({@.cursor, p.seq})]]
    <3>1. walk'[e] = [left |-> rest, shown |-> walk[e].shown \cup {p.id},
                      cursor |-> Max({walk[e].cursor, p.seq})]
      BY <1>0, <2>2
    <3>2. QED
      BY <3>1
  <2>3. QED
    BY <1>5, <2>1, <2>2
<1>7. log' = log /\ SameEndpoints /\ at'[e] = "walk"
  BY <1>5 DEF SameEndpoints
<1>8. Owed(e)' = Owed(e)
  BY <1>2, <1>7, SameOwed
<1>9. ASSUME NEW q \in Owed(e), WalkInv(e, q)
      PROVE  WalkInv(e, q)'
  <2>1. /\ EntryAt(q)' = EntryAt(q) /\ \A s : PointsTo(s, q)' <=> PointsTo(s, q)
    BY <1>7, SameLog DEF PointsTo
  <2>2. CASE wait[e].findings \/ EntryAt(q).id \in walk[e].shown
    BY <1>2, <1>6, <2>1, <2>2 DEF WalkInv
  <2>3. CASE \E s \in walk[e].left : PointsTo(s, q)
    <3>1. PICK s \in walk[e].left : PointsTo(s, q)
      BY <2>3
    <3>2. CASE s # p
      BY <1>4, <1>6, <2>1, <3>1, <3>2 DEF WalkInv
    <3>3. CASE s = p
      <4>1. /\ MessageAt(q[1], q[2]) /\ EntryAt(q) = log[q[1]][q[2]]
            /\ EntryAt(q).to \in Addressees(e) /\ ~Terminal(q[1], EntryAt(q).id)
        BY <1>0, OwedIsThere
      <4>2. p.id = EntryAt(q).id /\ p.thread = q[1] /\ p.pos = q[2]
        BY <3>1, <3>3 DEF PointsTo
      <4>3. MatchesCanonical(p, Addressees(e)) /\ ~Terminal(p.thread, p.id)
        BY <4>1, <4>2 DEF MatchesCanonical
      <4>4. p.id \in walk'[e].shown
        BY <1>6, <4>3
      <4>5. QED
        BY <2>1, <4>2, <4>4 DEF WalkInv
    <3>4. QED
      BY <3>2, <3>3
  <2>4. QED
    BY <1>9, <2>2, <2>3 DEF WalkInv
<1>10. w.at = "last" => SearchInv(e)'
  <2>1. w.at = "last" => \A q \in Owed(e) : WalkInv(e, q)
    BY <1>2, <1>5 DEF OneWait, LastInv, SearchInv
  <2>2. w.at = "last" => \A q \in Owed(e)' : WalkInv(e, q)'
    BY <1>8, <1>9, <2>1
  <2>3. QED
    BY <1>7, <2>2 DEF SearchInv
<1>11. at'[e] \in Polling /\ at'[e] # "reconcile"
  BY <1>7 DEF Polling
<1>12. QED
  BY <1>1, <1>2, <1>7, <1>10, <1>11, PollsOn

LEMMA PersistCursorWait ==
    ASSUME IInv, wait \in [Endpoint -> Wait], NEW e \in Endpoint, OneWait(e),
           PollGoesOn(e), PersistCursor(e)
    PROVE  OneWait(e)'
<1>0. TypeOK
  BY DEF IInv, MailInv
<1>1. Active(e)
  BY DEF PollGoesOn, OneWait, WorkInv, PollInv
<1>2. PICK w \in Wait :
         /\ wait'[e] = w /\ w.worker = "polling" /\ w.at = wait[e].at
         /\ w.pending = wait[e].pending /\ w.outcome = wait[e].outcome /\ w.due = wait[e].due
         /\ w.messages = wait[e].messages
         /\ w.findings <=> (wait[e].findings \/ Finds(e))
  BY FindsOn
<1>3. at[e] = "walk" /\ WalkOver(e) /\ Goto(e, "answer") /\ UNCHANGED <<log, walk>>
  BY DEF PersistCursor
<1>4. SameEndpoints
  BY <1>0, StepEndpoints DEF Step
<1>5. at'[e] = "answer"
  BY <1>0, <1>3, GotoTyped DEF Polling
<1>6. Owed(e)' = Owed(e)
  BY <1>2, <1>3, <1>4, SameOwed
<1>7. walk[e].left = {} \/ walk[e].shown # {}
  <2>1. PollLimit \in Nat \ {0}
    BY MailboxAssumption
  <2>2. Cardinality({}) = 0
    BY FS_EmptySet
  <2>3. walk[e].left = {} \/ Cardinality(walk[e].shown) >= PollLimit
    BY <1>3 DEF WalkOver
  <2>4. QED
    BY <2>1, <2>2, <2>3
<1>8. w.at = "last" => SearchInv(e)'
  <2>1. ASSUME w.at = "last", NEW q \in Owed(e)
        PROVE  wait'[e].findings \/ walk'[e].shown # {}
    <3>1. WalkInv(e, q)
      BY <1>2, <1>3, <2>1 DEF OneWait, LastInv, SearchInv
    <3>2. QED
      BY <1>2, <1>3, <1>7, <3>1 DEF WalkInv
  <2>2. QED
    BY <1>5, <1>6, <2>1 DEF SearchInv
<1>9. at'[e] \in Polling /\ at'[e] # "reconcile"
  BY <1>5 DEF Polling
<1>10. QED
  BY <1>1, <1>2, <1>3, <1>4, <1>8, <1>9, PollsOn

\* A poll that is over.
LEMMA PollEnds ==
    ASSUME wait \in [Endpoint -> Wait], NEW e \in Endpoint, OneWait(e), NEW w \in Wait, SetWait(e, w),
           UNCHANGED <<log, ep>>, at'[e] \notin Polling, w.worker # "polling",
           w.pending => w.worker # "none",
           w = Off \/ (w.at = wait[e].at /\ w.due = wait[e].due),
           w.at = "last" => /\ ~w.pending /\ w.worker = "none"
                            /\ w.outcome = "none" => Owed(e) = {},
           w.outcome = "timeout" => wait[e].outcome = "timeout",
           \A m \in w.messages : m \in wait[e].messages \/ Messages(m) # {}
    PROVE  wait' \in [Endpoint -> Wait] /\ OneWait(e)'
<1>1. wait' \in [Endpoint -> Wait] /\ wait'[e] = w
  BY WaitSet
<1>2. /\ Off.at = "off" /\ Off.worker = "none" /\ ~Off.pending /\ Off.outcome = "none"
      /\ Off.due = {} /\ Off.messages = {}
  BY DEF Off
<1>3. /\ wait[e].at # "off" => ep[e].status # "absent"
      /\ \A m \in wait[e].due \cup wait[e].messages : Messages(m) # {}
      /\ wait[e].at \in {"off", "blocked"} => wait[e].due = {}
      /\ wait[e].outcome = "timeout" => wait[e].at = "last" /\ Owed(e) = {}
  BY DEF OneWait, PollInv, ThereInv, LastInv
<1>4. WorkInv(e)'
  BY <1>1 DEF WorkInv, Polls
<1>5. PollInv(e)'
  BY <1>1, <1>2, <1>3 DEF PollInv, Polling
<1>6. ThereInv(e)'
  <2>1. \A m \in w.due \cup w.messages : Messages(m) # {}
    BY <1>2, <1>3
  <2>2. QED
    BY <1>1, <2>1, SameLog DEF ThereInv
<1>7. w # Off => Owed(e)' = Owed(e)
  <2>1. SameEndpoints
    BY DEF SameEndpoints
  <2>2. QED
    BY <1>1, <2>1, SameOwed
<1>8. LastInv(e)'
  <2>1. SearchInv(e)'
    BY DEF SearchInv, Polling
  <2>2. CASE w = Off
    BY <1>1, <1>2, <2>2 DEF LastInv
  <2>3. CASE w # Off
    BY <1>1, <1>3, <1>7, <2>1, <2>3 DEF LastInv
  <2>4. QED
    BY <2>2, <2>3
<1>9. QED
  BY <1>1, <1>4, <1>5, <1>6, <1>8 DEF OneWait

LEMMA PollFailsWait ==
    ASSUME IInv, wait \in [Endpoint -> Wait], NEW e \in Endpoint, OneWait(e), PollFails(e)
    PROVE  wait' \in [Endpoint -> Wait] /\ OneWait(e)'
<1>0. TypeOK
  BY DEF IInv, MailInv
<1>1. Return(e) /\ UNCHANGED <<log, ep>> /\ wait[e] \in Wait
  BY DEF PollFails, CallFails
<1>2. at'[e] \notin Polling
  BY <1>0, <1>1, ReturnTyped DEF Polling
<1>3. CASE SetWait(e, Off)
  <2>1. /\ Off \in Wait /\ Off.at = "off" /\ Off.worker = "none" /\ ~Off.pending
        /\ Off.outcome = "none" /\ Off.messages = {}
    BY WaitTyped DEF Off
  <2>2. QED
    BY <1>1, <1>2, <1>3, <2>1, PollEnds
<1>4. CASE SetWait(e, Concluded(wait[e], "error", {}))
  <2>1. PICK w : w = Concluded(wait[e], "error", {})
    OBVIOUS
  <2>2. w \in Wait
    BY <1>1, <2>1, WaitTyped
  <2>3. /\ w.at = wait[e].at /\ w.worker = "none" /\ ~w.pending /\ w.due = wait[e].due
        /\ w.outcome # "none" /\ (w.outcome = "timeout" => wait[e].outcome = "timeout")
        /\ w.messages \subseteq wait[e].messages
    BY <1>1, <2>1 DEF Concluded, Wait
  <2>4. QED
    BY <1>1, <1>2, <1>4, <2>1, <2>2, <2>3, PollEnds
<1>5. QED
  BY <1>3, <1>4 DEF PollFails

LEMMA PollAnswersWait ==
    ASSUME IInv, wait \in [Endpoint -> Wait], NEW e \in Endpoint, OneWait(e), PollAnswers(e)
    PROVE  wait' \in [Endpoint -> Wait] /\ OneWait(e)'
<1>0. TypeOK /\ walk[e] \in Walk
  BY DEF IInv, MailInv, TypeOK
<1>1. /\ Return(e) /\ UNCHANGED <<log, ep>> /\ wait[e] \in Wait /\ at[e] = "answer"
      /\ SetWait(e, IF walk[e].shown # {} THEN Concluded(wait[e], "message", walk[e].shown)
                    ELSE IF wait[e].findings THEN Concluded(wait[e], "error", {})
                    ELSE Unsettled(wait[e]))
  BY DEF PollAnswers
<1>2. at'[e] \notin Polling
  BY <1>0, <1>1, ReturnTyped DEF Polling
<1>3. walk[e].shown \in SUBSET Id /\ \A m \in walk[e].shown : Messages(m) # {}
  BY <1>0 DEF IInv, ShownInv, Walk
<1>4. ASSUME NEW o \in {"message", "error"}, NEW M \in SUBSET Id, M \subseteq walk[e].shown,
             SetWait(e, Concluded(wait[e], o, M))
      PROVE  wait' \in [Endpoint -> Wait] /\ OneWait(e)'
  <2>1. PICK w : w = Concluded(wait[e], o, M)
    OBVIOUS
  <2>2. w \in Wait
    BY <1>1, <2>1, WaitTyped
  <2>3. /\ w.at = wait[e].at /\ w.worker = "none" /\ ~w.pending /\ w.due = wait[e].due
        /\ w.outcome # "none" /\ (w.outcome = "timeout" => wait[e].outcome = "timeout")
        /\ w.messages = M \/ w.messages = wait[e].messages
    BY <1>1, <2>1 DEF Concluded, Wait
  <2>4. \A m \in w.messages : m \in wait[e].messages \/ Messages(m) # {}
    BY <1>3, <1>4, <2>3
  <2>5. QED
    BY <1>1, <1>2, <1>4, <2>1, <2>2, <2>3, <2>4, PollEnds
<1>5. ASSUME walk[e].shown = {}, ~wait[e].findings, SetWait(e, Unsettled(wait[e]))
      PROVE  wait' \in [Endpoint -> Wait] /\ OneWait(e)'
  <2>1. PICK w : w = Unsettled(wait[e])
    OBVIOUS
  <2>2. w \in Wait
    BY <1>1, <2>1, WaitTyped
  <2>3. /\ w.at = wait[e].at /\ w.worker # "polling" /\ ~w.pending /\ w.due = wait[e].due
        /\ w.outcome = wait[e].outcome /\ w.messages = wait[e].messages
        /\ (~wait[e].pending => w.worker = "none")
    BY <1>1, <2>1 DEF Unsettled, Check, Wait
  <2>4. wait[e].at = "last" => ~wait[e].pending /\ Owed(e) = {}
    BY <1>1, <1>5 DEF OneWait, LastInv, SearchInv
  <2>5. SetWait(e, w)
    BY <1>5, <2>1
  <2>6. QED
    BY <1>1, <1>2, <2>2, <2>3, <2>4, <2>5, PollEnds
<1>6. CASE walk[e].shown # {}
  BY <1>1, <1>3, <1>4, <1>6
<1>7. CASE walk[e].shown = {} /\ wait[e].findings
  BY <1>1, <1>4, <1>7
<1>8. CASE walk[e].shown = {} /\ ~wait[e].findings
  BY <1>1, <1>5, <1>8
<1>9. QED
  BY <1>6, <1>7, <1>8
----------------------------------------------------------------------------
(* Every step. *)

LEMMA LetsAll ==
    ASSUME WaitInv, Settles, HeirInv', \A x \in Endpoint : Steady(x), wait' \in [Endpoint -> Wait],
           \A x \in Endpoint : OneWait(x)' \/ Lets(x)
    PROVE  WaitInv'
<1>1. \A x \in Endpoint : OneWait(x)'
  BY LetsWait DEF WaitInv
<1>2. QED
  BY <1>1 DEF WaitInv

\* A step that leaves the calls and the mailboxes alone.
LEMMA AloneLets ==
    ASSUME NEW x, wait'[x] = wait[x], at'[x] = at[x], rec'[x] = rec[x], walk'[x] = walk[x], box' = box
    PROVE  Lets(x)
BY SameTends DEF Lets

LEMMA IdlesKeep ==
    ASSUME IInv, WaitInv, NEW e \in Endpoint, Idles(e)
    PROVE  WaitInv'
<1>1. /\ UNCHANGED <<log, box, ep, joining, at, walk, rec>> /\ wait' \in [Endpoint -> Wait]
      /\ OneWait(e)' /\ \A x \in Endpoint : x # e => wait'[x] = wait[x]
  BY IdlesWait DEF WaitInv
<1>2. \A x \in Endpoint : x # e => Lets(x)
  BY <1>1, AloneLets
<1>3. HeirInv' /\ \A x \in Endpoint : Steady(x)
  BY <1>1, SameSteady DEF WaitInv, SameEndpoints
<1>4. Settles
  BY <1>1, SameSettles
<1>5. QED
  BY <1>1, <1>2, <1>3, <1>4, LetsAll

\* A call's step, of a waiting process or of another.
LEMMA StepKeeps ==
    ASSUME IInv, PtrInv, WaitInv, NEW e \in Endpoint, Step(e), wait' \in [Endpoint -> Wait],
           OneWait(e)' \/ Lets(e), \A x \in Endpoint : x # e => wait'[x] = wait[x]
    PROVE  WaitInv'
<1>1. TypeOK /\ HeirInv
  BY DEF IInv, MailInv, WaitInv
<1>2. HeirInv' /\ \A x \in Endpoint : Steady(x)
  BY <1>1, StepEndpoints, SameSteady
<1>3. Settles
  BY StepSettles
<1>4. \A x \in Endpoint : x # e => Lets(x)
  BY <1>1, OtherLets DEF WaitInv, OneWait
<1>5. QED
  BY <1>2, <1>3, <1>4, LetsAll

LEMMA PollGoesOnKeeps ==
    ASSUME IInv, PtrInv, WaitInv, NEW e \in Endpoint, PollGoesOn(e)
    PROVE  WaitInv'
<1>1. wait \in [Endpoint -> Wait] /\ OneWait(e) /\ HeirInv
  BY DEF WaitInv
<1>2. OneWait(e)' /\ Step(e)
  BY <1>1, ReconcileWait, WalkPointerWait, PersistCursorWait DEF PollGoesOn, Step
<1>3. wait' \in [Endpoint -> Wait]
  BY <1>1, FindsOn
<1>4. \A x \in Endpoint : x # e => wait'[x] = wait[x]
  BY <1>1 DEF PollGoesOn, SetWait
<1>5. QED
  BY <1>2, <1>3, <1>4, StepKeeps

LEMMA PollBoundsKeep ==
    ASSUME IInv, PtrInv, WaitInv, NEW e \in Endpoint, BeginPoll(e) \/ PollFails(e)
    PROVE  WaitInv'
<1>1. wait \in [Endpoint -> Wait] /\ OneWait(e) /\ HeirInv
  BY DEF WaitInv
<1>2. OneWait(e)' /\ wait' \in [Endpoint -> Wait]
  BY <1>1, BeginPollWait, PollFailsWait
<1>3. Step(e)
  BY DEF BeginPoll, PollFails, Step
<1>4. \A x \in Endpoint : x # e => wait'[x] = wait[x]
  BY <1>1 DEF BeginPoll, PollFails, SetWait
<1>5. QED
  BY <1>2, <1>3, <1>4, StepKeeps

LEMMA PollAnswersKeep ==
    ASSUME IInv, WaitInv, NEW e \in Endpoint, PollAnswers(e)
    PROVE  WaitInv'
<1>0. TypeOK /\ walk \in [Endpoint -> Walk]
  BY DEF IInv, MailInv, TypeOK
<1>1. wait \in [Endpoint -> Wait] /\ OneWait(e) /\ HeirInv
  BY DEF WaitInv
<1>2. OneWait(e)' /\ wait' \in [Endpoint -> Wait]
  BY <1>1, PollAnswersWait
<1>3. /\ Return(e) /\ walk' = [walk EXCEPT ![e] = NoWalk] /\ \E w : SetWait(e, w)
      /\ UNCHANGED <<log, box, ep, joining, rec>>
  BY DEF PollAnswers
<1>4. \A x \in Endpoint : x # e => wait'[x] = wait[x] /\ at'[x] = at[x] /\ walk'[x] = walk[x]
  BY <1>0, <1>1, <1>3, ReturnTyped DEF SetWait
<1>5. \A x \in Endpoint : x # e => Lets(x)
  BY <1>3, <1>4, AloneLets
<1>6. HeirInv' /\ \A x \in Endpoint : Steady(x)
  BY <1>1, <1>3, SameSteady DEF SameEndpoints
<1>7. Settles
  BY <1>3, SameSettles
<1>8. QED
  BY <1>2, <1>5, <1>6, <1>7, LetsAll

LEMMA OthersKeep ==
    ASSUME IInv, PtrInv, WaitInv, NEW e \in Endpoint, Others(e)
    PROVE  WaitInv'
<1>1. Besides(e) /\ wait' = wait
  BY DEF Others, Besides
<1>2. Step(e)
  BY <1>1 DEF Besides, OthersReconcile, Step
<1>3. Lets(e)
  BY <1>1, BesidesLets DEF WaitInv, OneWait
<1>4. wait' \in [Endpoint -> Wait]
  BY <1>1 DEF WaitInv
<1>5. QED
  BY <1>1, <1>2, <1>3, <1>4, StepKeeps

LEMMA SuccessionKeeps ==
    ASSUME IInv, PtrInv, WaitInv, Succession
    PROVE  WaitInv'
<1>1. Joins /\ wait' = wait
  BY DEF Succession, Joins
<1>2. UNCHANGED <<box, at, rec, walk>>
  BY <1>1 DEF Joins, RetireIncumbent, CreateSuccessor, JoinFails
<1>3. \A x \in Endpoint : Lets(x)
  BY <1>1, <1>2, AloneLets
<1>4. HeirInv' /\ \A x \in Endpoint : Steady(x)
  BY <1>1, JoinsSteady DEF IInv, MailInv, PtrInv, WaitInv
<1>5. Settles
  BY <1>1, StepSettles
<1>6. QED
  BY <1>1, <1>3, <1>4, <1>5, LetsAll DEF WaitInv

LEMMA StutterKeeps ==
    ASSUME WaitInv, UNCHANGED busWaitVars
    PROVE  WaitInv'
<1>1. UNCHANGED <<log, box, ep, joining, at, walk, rec, wait>>
  BY DEF busWaitVars, vars
<1>2. \A x \in Endpoint : Lets(x)
  BY <1>1, AloneLets
<1>3. HeirInv' /\ \A x \in Endpoint : Steady(x)
  BY <1>1, SameSteady DEF WaitInv, SameEndpoints
<1>4. Settles
  BY <1>1, SameSettles
<1>5. QED
  BY <1>1, <1>2, <1>3, <1>4, LetsAll DEF WaitInv

----------------------------------------------------------------------------
(* A waiting process keeps what the mailboxes keep. *)

\* The steps that are not BusMailbox's: a failure is counted, the messages are printed.
LEMMA OutcomesKeepMail ==
    ASSUME IInv, PtrInv, WaitInv, NEW e \in Endpoint,
           Signal(e) \/ PollRefused(e) \/ WaiterDies(e) \/ EndWait(e)
    PROVE  IInv' /\ PtrInv'
<1>0. TypeOK /\ wait[e] \in Wait
  BY DEF IInv, MailInv, WaitInv
<1>1. /\ UNCHANGED <<log, box, receipt, ep, joining, at, send, walk, rec, hook, nextId, told>>
      /\ seen' = seen \/ seen' = seen \cup wait[e].messages
      /\ faults' = faults \/ Fail
  BY DEF Signal, PollRefused, WaiterDies, EndWait
<1>2. faults' \in 0..MaxFaults
  <2>1. MaxFaults \in Nat
    BY MailboxAssumption
  <2>2. QED
    BY <1>0, <1>1, <2>1 DEF TypeOK, Fail
<1>3. wait[e].messages \subseteq Id /\ \A m \in wait[e].messages : Messages(m) # {}
  BY <1>0 DEF WaitInv, OneWait, ThereInv, Wait
<1>4. TypeOK'
  BY <1>0, <1>1, <1>2, <1>3 DEF TypeOK
<1>5. \A m \in seen' \cup UNION {walk'[x].shown : x \in Endpoint} :
         m \in seen \cup UNION {walk[x].shown : x \in Endpoint} \/ Messages(m) # {}
  BY <1>1, <1>3
<1>6. IInv'
  <2>1. UNCHANGED <<log, receipt, nextId, rec, at, send, box, hook>>
    BY <1>1
  <2>2. \A y \in Endpoint : Linked(y)
    BY <1>0, <2>1, SameLinks
  <2>3. QED
    BY <1>4, <1>5, <2>1, <2>2, AsideRest
<1>7. PtrInv'
  BY <1>1, AsidePtr DEF SameEndpoints, SamePointers
<1>8. QED
  BY <1>6, <1>7

\* The poll's answer is the worker's, not yet its agent's.
LEMMA AnswersKeepMail ==
    ASSUME IInv, PtrInv, NEW e \in Endpoint, PollAnswers(e)
    PROVE  IInv' /\ PtrInv'
<1>1. /\ TypeOK /\ walk \in [Endpoint -> Walk] /\ at[e] = "answer"
      /\ walk' = [walk EXCEPT ![e] = NoWalk] /\ Return(e)
      /\ UNCHANGED <<log, box, receipt, ep, joining, rec, hook, nextId, faults, seen, told>>
  BY DEF PollAnswers, IInv, MailInv, TypeOK
<1>2. /\ walk' \in [Endpoint -> Walk] /\ walk'[e].shown = {}
      /\ \A y \in Endpoint : y # e => walk'[y] = walk[y]
  BY <1>1, NothingTyped DEF NoWalk
<1>3. /\ at' \in [Endpoint -> {"idle", "ackClean"} \cup Sending \cup Polling]
      /\ at'[e] = "idle" /\ \A f \in Endpoint : f # e => at'[f] = at[f]
      /\ send' \in [Endpoint -> Pub] /\ \A f \in Endpoint : f # e => send'[f] = send[f]
  BY <1>1, ReturnTyped
<1>4. TypeOK'
  BY <1>1, <1>2, <1>3 DEF TypeOK
<1>5. \A y \in Endpoint : (at'[y] = at[y] /\ send'[y] = send[y]) \/ at'[y] \notin Sending
  BY <1>3 DEF Sending, Publishing
<1>6. \A m \in seen' \cup UNION {walk'[y].shown : y \in Endpoint} :
         m \in seen \cup UNION {walk[y].shown : y \in Endpoint}
  BY <1>1, <1>2
<1>7. \A y \in Endpoint : at[y] = "reconcile" => at'[y] = "reconcile"
  BY <1>1, <1>3
<1>8. IInv'
  BY <1>1, <1>4, <1>5, <1>6, <1>7, SameLinks, AsideRest
<1>9. PtrInv'
  BY <1>1, EndedPtr DEF SamePointers
<1>10. QED
  BY <1>8, <1>9

LEMMA WaitStepInv ==
    IInv /\ PtrInv /\ WaitInv /\ [WaitNext]_busWaitVars => IInv' /\ PtrInv' /\ WaitInv'
<1> SUFFICES ASSUME IInv, PtrInv, WaitInv, [WaitNext]_busWaitVars
             PROVE  IInv' /\ PtrInv' /\ WaitInv'
  OBVIOUS
<1>1. ASSUME Next \/ UNCHANGED vars
      PROVE  IInv' /\ PtrInv'
  BY <1>1, StepInv, StepPtr
<1>2. ASSUME NEW e \in Endpoint, StartWait(e) \/ WatchEvent(e) \/ Tick(e) \/ Deadline(e)
                                  \/ FinalPoll(e) \/ TimesOut(e) \/ Scan(e)
      PROVE  IInv' /\ PtrInv' /\ WaitInv'
  <2>1. UNCHANGED vars /\ Idles(e)
    BY <1>2 DEF StartWait, WatchEvent, Tick, Deadline, FinalPoll, TimesOut, Scan, Idles
  <2>2. QED
    BY <1>1, <2>1, IdlesKeep
<1>3. ASSUME NEW e \in Endpoint, Signal(e) \/ PollRefused(e) \/ WaiterDies(e) \/ EndWait(e)
      PROVE  IInv' /\ PtrInv' /\ WaitInv'
  BY <1>3, OutcomesKeepMail, IdlesKeep DEF Idles
<1>4. ASSUME NEW e \in Endpoint, PollGoesOn(e)
      PROVE  IInv' /\ PtrInv' /\ WaitInv'
  <2>1. Next
    BY <1>4 DEF PollGoesOn, Next, PollStep
  <2>2. QED
    BY <1>1, <1>4, <2>1, PollGoesOnKeeps
<1>5. ASSUME NEW e \in Endpoint, BeginPoll(e) \/ PollFails(e)
      PROVE  IInv' /\ PtrInv' /\ WaitInv'
  <2>1. Next
    BY <1>5 DEF BeginPoll, PollFails, Next
  <2>2. QED
    BY <1>1, <1>5, <2>1, PollBoundsKeep
<1>6. ASSUME NEW e \in Endpoint, PollAnswers(e)
      PROVE  IInv' /\ PtrInv' /\ WaitInv'
  BY <1>6, AnswersKeepMail, PollAnswersKeep
<1>7. ASSUME NEW e \in Endpoint, Others(e)
      PROVE  IInv' /\ PtrInv' /\ WaitInv'
  <2>1. Next
    BY <1>7 DEF Others, OthersReconcile, Next
  <2>2. QED
    BY <1>1, <1>7, <2>1, OthersKeep
<1>8. ASSUME Succession
      PROVE  IInv' /\ PtrInv' /\ WaitInv'
  <2>1. Next
    BY <1>8 DEF Succession, Next
  <2>2. QED
    BY <1>1, <1>8, <2>1, SuccessionKeeps
<1>9. ASSUME UNCHANGED busWaitVars
      PROVE  IInv' /\ PtrInv' /\ WaitInv'
  <2>1. UNCHANGED vars
    BY <1>9 DEF busWaitVars
  <2>2. QED
    BY <1>1, <1>9, <2>1, StutterKeeps
<1>10. QED
  BY <1>2, <1>3, <1>4, <1>5, <1>6, <1>7, <1>8, <1>9 DEF WaitNext, WaiterGoes

LEMMA WaitInitInv == WaitInit => IInv /\ PtrInv /\ WaitInv
<1> SUFFICES ASSUME WaitInit
             PROVE  IInv /\ PtrInv /\ WaitInv
  OBVIOUS
<1>1. Init /\ wait = [e \in Endpoint |-> Off]
  BY DEF WaitInit
<1>2. IInv /\ PtrInv
  BY <1>1, InitInv, InitPtr
<1>3. wait \in [Endpoint -> Wait]
  BY <1>1, WaitTyped
<1>4. HeirInv
  <2>1. joining = None /\ \A f \in Endpoint : ep[f].pred = None
    BY <1>1 DEF Init
  <2>2. QED
    BY <2>1, NothingTyped DEF HeirInv
<1>5. ASSUME NEW e \in Endpoint
      PROVE  OneWait(e)
  <2>1. wait[e] = Off /\ at[e] = "idle"
    BY <1>1 DEF Init
  <2>2. QED
    BY <2>1 DEF OneWait, WorkInv, PollInv, LastInv, ThereInv, Off, Polls, Polling
<1>6. QED
  BY <1>2, <1>3, <1>4, <1>5 DEF WaitInv

LEMMA WaitInvariant == WaitSpec => [](IInv /\ PtrInv /\ WaitInv)
<1>1. WaitInit => IInv /\ PtrInv /\ WaitInv
  BY WaitInitInv
<1>2. IInv /\ PtrInv /\ WaitInv /\ [WaitNext]_busWaitVars => (IInv /\ PtrInv /\ WaitInv)'
  BY WaitStepInv
<1>3. QED
  BY <1>1, <1>2, PTL DEF WaitSpec

\* Whatever a process that waits does, and whatever goes on besides, the mailboxes keep
\* their types; its poll has the locks it thinks it has, and it forgets no request
\* (requestCheck and drainLoop of wait.ts).
THEOREM WaiterTypeCorrect == WaitSpec => []WaitTypeOK
<1>1. IInv /\ PtrInv /\ WaitInv => WaitTypeOK
  <2>1. Reading \subseteq Endpoint
    BY MailboxAssumption
  <2>2. QED
    BY <2>1 DEF IInv, MailInv, WaitInv, OneWait, WorkInv, WaitTypeOK
<1>2. QED
  BY <1>1, WaitInvariant, PTL

\* An agent that is told that nothing came in time has no mail that was there at its
\* deadline, whoever sent it and wherever its pointer was: the final poll reconciles,
\* lists and walks every message that it owes, or says that something is odd
\* (onDeadline and the worker of wait.ts, pollBus).
THEOREM TimeoutsAreHonest == WaitSpec => []TimeoutIsHonest
<1>1. IInv /\ PtrInv /\ WaitInv => TimeoutIsHonest
  <2>1. SUFFICES ASSUME WaitInv, NEW e \in Reading, wait[e].outcome = "timeout"
                 PROVE  wait[e].due \cap Mail(e) = {}
    BY DEF TimeoutIsHonest
  <2>2. Owed(e) = {}
    BY <2>1, MailboxAssumption DEF WaitInv, OneWait, LastInv
  <2>3. ASSUME NEW m \in wait[e].due, m \in Mail(e)
        PROVE  FALSE
    <3>1. PICK q \in Places : /\ EntryAt(q).type = "message" /\ EntryAt(q).to \in Addressees(e)
                              /\ ~Terminal(q[1], EntryAt(q).id) /\ EntryAt(q).id = m
      BY <2>3 DEF Mail
    <3>2. q \in Owed(e)
      BY <2>3, <3>1 DEF Owed
    <3>3. QED
      BY <2>2, <3>2
  <2>4. QED
    BY <2>3
<1>2. QED
  BY <1>1, WaitInvariant, PTL
=============================================================================
