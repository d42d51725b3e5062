------------------------ MODULE ChannelInboxProofs ------------------------
(***************************************************************************)
(* No event of the inbox is dropped before it was sent or refused often    *)
(* enough, and none is sent more often than servers were started, for any  *)
(* finite set of servers, any number of overlapping drains of each, of     *)
(* events, tries and mishaps, and any depth of a batch.                    *)
(***************************************************************************)
EXTENDS ChannelInbox, FiniteSetTheorems, WellFoundedInduction, TLAPS

(***************************************************************************)
(* The strengthening.  What a call has in its hands, if nothing disturbed  *)
(* it, is its alone and claimed; and it gives a file up with a reason.     *)
(***************************************************************************)
Reason(e) ==
    \/ sent[e] > 0
    \/ refused[e] = MaxTries
    \/ kind[e] = "request" /\ e \in aged /\ refused[e] > 0

Has(d, e) == At(d) \in Holding /\ Current(d) = e

BatchInv == \A d \in Call : At(d) \in Holding \cup {"claim"} => drain[d].todo # {}

TriesInv == \A s \in Server, e \in Event : tries[s][e] <= refused[e]

HolderInv ==
    \A e \in Event \ disturbed :
        /\ \A d \in Call : Has(d, e) => file[e] = "claimed"
        /\ \A c, d \in Call : Has(c, e) /\ Has(d, e) => c = d

ReasonInv ==
    \A e \in Event \ disturbed, d \in Call :
        kind[e] # "malformed" /\ Current(d) = e =>
            /\ At(d) = "unlink" => sent[e] > 0
            /\ At(d) \in {"quarantine", "drop"} => Reason(e)

KeptInv == TypeOK /\ BatchInv /\ TriesInv /\ HolderInv /\ ReasonInv /\ KeptUntilSent

(***************************************************************************)
(* How often an event may yet be sent without another start: once for each *)
(* call that claimed it and has not sent it, for each starting server that *)
(* will put it back, and for its file in the inbox.                        *)
(***************************************************************************)
Ahead == {"read", "send", "back"}
Sending(e) == {d \in Call : At(d) \in Ahead /\ Current(d) = e}
Returning(e) == {s \in Server : e \in stale[s]}
InInbox(e) == IF file[e] \in {"none", "inbox"} THEN 1 ELSE 0

Untouched ==
    /\ \A s \in Server : server[s] = "down" /\ stale[s] = {}
    /\ \A d \in Call : drain[d] = Idle
    /\ \A e \in Event : file[e] \in {"none", "inbox"} /\ sent[e] = 0

ChancesInv ==
    \/ starts = 0 /\ Untouched
    \/ \A e \in Event :
          sent[e] + Cardinality(Sending(e)) + Cardinality(Returning(e)) + InInbox(e) <= starts

OnceInv == TypeOK /\ BatchInv /\ ChancesInv

----------------------------------------------------------------------------
(* Sets of events and calls. *)

LEMMA CallType ==
    /\ \A d \in Call : d[1] \in Server
    /\ \A s \in Server : <<s, 1>> \in Call
BY InboxAssumption DEF Call

LEMMA CallFinite == IsFiniteSet(Call)
<1> DEFINE Of(s) == {s} \X (1..Drains[s])
           Parts == {Of(s) : s \in Server}
           part  == [s \in Server |-> Of(s)]
<1>1. part \in Surjection(Server, Parts)
  BY DEF Surjection
<1>2. IsFiniteSet(Parts)
  <2> HIDE DEF Parts, part
  <2> QED  BY <1>1, FS_Surjection, InboxAssumption
<1>3. ASSUME NEW s \in Server
      PROVE  IsFiniteSet(Of(s))
  <2>1. IsFiniteSet({s})
    BY FS_Singleton
  <2>2. IsFiniteSet(1..Drains[s])
    BY FS_Interval, InboxAssumption
  <2>3. QED
    BY <2>1, <2>2, FS_Product
<1>4. \A T \in Parts : IsFiniteSet(T)
  BY <1>3
<1>5. IsFiniteSet(UNION Parts)
  <2> HIDE DEF Parts
  <2> QED  BY <1>2, <1>4, FS_UNION
<1>6. QED
  BY <1>5 DEF Call

LEMMA LeastEvent ==
    ASSUME NEW S \in SUBSET Event, S # {}
    PROVE  Min(S) \in S /\ \A e \in S : Min(S) <= e
<1> DEFINE Below(e) == 1..e
           Family == {Below(e) : e \in S}
<1>1. S \subseteq Nat
  BY InboxAssumption DEF Event
<1>2. Family \subseteq FiniteSubsetsOf(Nat) /\ Family # {}
  <2>1. \A e \in S : IsFiniteSet(Below(e)) /\ Below(e) \subseteq Nat
    BY <1>1, FS_Interval
  <2>2. QED
    BY <2>1 DEF FiniteSubsetsOf
<1>3. PICK T \in Family : \A U \in Family : ~(<<U, T>> \in StrictSubsetOrdering(Nat))
  <2> HIDE DEF Family
  <2> QED  BY <1>2, FS_StrictSubsetOrderingWellFounded, WFMin
<1>4. PICK m \in S : T = Below(m)
  OBVIOUS
<1>5. ASSUME NEW e \in S, e < m
      PROVE  FALSE
  <2>1. Below(e) \subseteq Below(m) /\ m \in Below(m) /\ m \notin Below(e)
    BY <1>1, <1>5, InboxAssumption DEF Event
  <2>2. Below(e) \in SUBSET Nat /\ Below(m) \in SUBSET Nat
    BY <1>1
  <2>3. <<Below(e), Below(m)>> \in StrictSubsetOrdering(Nat)
    BY <2>1, <2>2 DEF StrictSubsetOrdering
  <2>4. QED
    BY <1>3, <1>4, <2>3
<1>6. \A e \in S : m <= e
  BY <1>1, <1>5
<1>7. QED
  BY <1>6 DEF Min

\* A batch holds files of the listing, and some if there are any.
LEMMA OldestType ==
    ASSUME NEW S \in SUBSET Event, NEW n \in Int
    PROVE  /\ Oldest(S, n) \subseteq S
           /\ S # {} /\ n > 0 => Oldest(S, n) # {}
<1>1. Oldest(S, n) \subseteq S
  BY DEF Oldest
<1>2. ASSUME S # {}, n > 0
      PROVE  Min(S) \in Oldest(S, n)
  <2>1. Min(S) \in S /\ \A e \in S : Min(S) <= e
    BY <1>2, LeastEvent
  <2>2. \A f \in S : ~(f < Min(S))
    <3> DEFINE m == Min(S)
    <3>1. m \in S /\ \A f \in S : m <= f
      BY <2>1
    <3> HIDE DEF m
    <3>2. \A f \in S : ~(f < m)
      BY <3>1, InboxAssumption DEF Event
    <3>3. QED
      BY <3>2 DEF m
  <2>3. QED
    BY <1>2, <2>1, <2>2, FS_EmptySet DEF Oldest
<1>3. QED
  BY <1>1, <1>2

\* A set that differs from a finite one in one element at most.
LEMMA OneElement ==
    ASSUME NEW S, IsFiniteSet(S), NEW T, NEW x, T \ {x} = S \ {x}
    PROVE  /\ Cardinality(S) \in Nat /\ Cardinality(T) \in Nat
           /\ Cardinality(T) + (IF x \in S THEN 1 ELSE 0) = Cardinality(S) + (IF x \in T THEN 1 ELSE 0)
<1>1. IsFiniteSet(S \ {x}) /\ IsFiniteSet(T)
  <2>1. IsFiniteSet(S \ {x})
    BY FS_RemoveElement
  <2>2. IsFiniteSet((S \ {x}) \cup {x})
    BY <2>1, FS_AddElement
  <2>3. T \in SUBSET ((S \ {x}) \cup {x})
    OBVIOUS
  <2>4. QED
    BY <2>1, <2>2, <2>3, FS_Subset
<1>2. Cardinality(S) \in Nat /\ Cardinality(T) \in Nat
  BY <1>1, FS_CardinalityType
<1>3. Cardinality(S \ {x}) = IF x \in S THEN Cardinality(S) - 1 ELSE Cardinality(S)
  BY FS_RemoveElement
<1>4. Cardinality(T \ {x}) = IF x \in T THEN Cardinality(T) - 1 ELSE Cardinality(T)
  BY <1>1, FS_RemoveElement
<1>5. QED
  BY <1>2, <1>3, <1>4

----------------------------------------------------------------------------
(* What the steps of a call do to it. *)

LEMMA CurrentType ==
    ASSUME TypeOK, BatchInv, NEW d \in Call, At(d) \in Holding \cup {"claim"}
    PROVE  Current(d) \in Event /\ Current(d) \in drain[d].todo
<1>1. drain[d].todo \in SUBSET Event /\ drain[d].todo # {}
  BY DEF TypeOK, BatchInv, Drain
<1>2. QED
  BY <1>1, LeastEvent DEF Current

LEMMA GotoEffect ==
    ASSUME TypeOK, NEW d \in Call, NEW at \in Holding, Goto(d, at)
    PROVE  /\ drain' \in [Call -> Drain]
           /\ drain'[d].at = at /\ drain'[d].todo = drain[d].todo
           /\ \A c \in Call : c # d => drain'[c] = drain[c]
<1>1. [drain[d] EXCEPT !.at = at] \in Drain
  BY DEF TypeOK, Drain, Holding
<1>2. drain' = [drain EXCEPT ![d] = [drain[d] EXCEPT !.at = at]]
  BY DEF TypeOK, Goto
<1>3. drain[d] \in Drain
  BY DEF TypeOK
<1>4. QED
  BY <1>1, <1>2, <1>3 DEF TypeOK, Drain

LEMMA NextEffect ==
    ASSUME TypeOK, NEW d \in Call, NextFile(d)
    PROVE  /\ drain' \in [Call -> Drain]
           /\ drain'[d].at \in {"claim", "list", "trim"}
           /\ drain'[d].at = "claim" => drain'[d].todo # {}
           /\ \A c \in Call : c # d => drain'[c] = drain[c]
<1> DEFINE rest == drain[d].todo \ {Current(d)}
           then == IF rest # {} THEN "claim" ELSE IF drain[d].more THEN "list" ELSE "trim"
           new  == [drain[d] EXCEPT !.todo = rest, !.at = then]
<1>1. drain[d] \in Drain
  BY DEF TypeOK
<1>2. new \in Drain /\ new.at = then /\ new.todo = rest
  BY <1>1 DEF Drain
<1>3. drain' = [drain EXCEPT ![d] = new]
  BY <1>1 DEF NextFile, TypeOK, Drain
<1>4. QED
  BY <1>2, <1>3 DEF TypeOK

----------------------------------------------------------------------------
(* Types, and batches that are not empty while they are worked on. *)

LEMMA InitTypes == Init => TypeOK /\ BatchInv
<1> SUFFICES ASSUME Init
             PROVE  TypeOK /\ BatchInv
  OBVIOUS
<1>1. drain \in [Call -> Drain] /\ BatchInv
  BY DEF Init, BatchInv, Drain, Idle, At, Holding
<1>2. tries \in [Server -> [Event -> 0..(MaxTries - 1)]]
  BY InboxAssumption DEF Init
<1>3. kind \in [Event -> {"verdict", "request", "malformed"}] /\ \A e \in Event : kind[e] \in Kinds[e]
  BY DEF Init
<1>4. QED
  BY <1>1, <1>2, <1>3, InboxAssumption DEF Init, TypeOK

\* A counter of refusals is set.
LEMMA TriesType ==
    ASSUME TypeOK, NEW s \in Server, NEW e, NEW n \in 0..(MaxTries - 1),
           tries' = [tries EXCEPT ![s][e] = n]
    PROVE  tries' \in [Server -> [Event -> 0..(MaxTries - 1)]]
<1>1. [tries[s] EXCEPT ![e] = n] \in [Event -> 0..(MaxTries - 1)]
  BY DEF TypeOK
<1>2. QED
  BY <1>1 DEF TypeOK

LEMMA AppTypes ==
    ASSUME TypeOK, BatchInv, NEW e \in Event, Write(e) \/ Age(e)
    PROVE  TypeOK' /\ BatchInv'
<1>1. file' \in [Event -> {"none", "inbox", "claimed", "failed", "gone"}] /\ aged' \subseteq Event
  BY DEF Write, Age, TypeOK
<1>2. UNCHANGED <<kind, server, stale, tries, drain, faults, sent, refused, starts, disturbed>>
  BY DEF Write, Age
<1>3. QED
  BY <1>1, <1>2 DEF TypeOK, BatchInv, At

LEMMA ServerTypes ==
    ASSUME TypeOK, BatchInv, NEW s \in Server, Die(s) \/ Start(s) \/ Recover(s)
    PROVE  TypeOK' /\ BatchInv'
<1>1. CASE Die(s)
  <2>1. drain' \in [Call -> Drain] /\ \A d \in Call : drain'[d] \in {Idle, drain[d]}
    BY <1>1 DEF Die, TypeOK, Drain, Idle
  <2>2. tries' \in [Server -> [Event -> 0..(MaxTries - 1)]]
    BY <1>1, InboxAssumption DEF Die, TypeOK
  <2>3. TypeOK'
    BY <1>1, <2>1, <2>2, InboxAssumption DEF Die, Fault, TypeOK
  <2>4. BatchInv'
    BY <2>1 DEF BatchInv, At, Idle, Holding
  <2>5. QED
    BY <2>3, <2>4
<1>2. CASE Start(s)
  BY <1>2 DEF Start, Claimed, TypeOK, BatchInv, At
<1>3. CASE Recover(s)
  <2>1. CASE stale[s] = {}
    <3>1. <<s, 1>> \in Call
      BY CallType
    <3>2. drain' = [drain EXCEPT ![<<s, 1>>] = [drain[<<s, 1>>] EXCEPT !.at = "list"]]
      BY <1>3, <2>1, <3>1 DEF Recover, TypeOK
    <3>4. drain[<<s, 1>>] \in Drain
      BY <3>1 DEF TypeOK
    <3>3. [drain[<<s, 1>>] EXCEPT !.at = "list"] \in Drain
      BY <3>4 DEF Drain
    <3>5. drain' \in [Call -> Drain] /\ drain'[<<s, 1>>].at = "list"
          /\ \A d \in Call : d # <<s, 1>> => drain'[d] = drain[d]
      BY <3>1, <3>2, <3>3, <3>4 DEF TypeOK, Drain
    <3>6. TypeOK'
      BY <1>3, <2>1, <3>5 DEF Recover, TypeOK
    <3>7. BatchInv'
      BY <3>5 DEF BatchInv, At, Holding
    <3>8. QED
      BY <3>6, <3>7
  <2>2. CASE stale[s] # {}
    <3>1. UNCHANGED <<drain, server, kind, tries, aged, faults, sent, refused, starts>>
      BY <1>3, <2>2 DEF Recover
    <3>2. PICK e \in stale[s] :
             /\ stale' = [stale EXCEPT ![s] = @ \ {e}]
             /\ file' = IF file[e] = "claimed" THEN [file EXCEPT ![e] = "inbox"] ELSE file
             /\ disturbed' \in {disturbed, disturbed \cup {e}}
      BY <1>3, <2>2 DEF Recover
    <3>3. e \in Event /\ stale[s] \ {e} \subseteq Event
      BY DEF TypeOK
    <3>4. TypeOK'
      BY <3>1, <3>2, <3>3 DEF TypeOK
    <3>5. QED
      BY <3>1, <3>4 DEF BatchInv, At
  <2>3. QED
    BY <2>1, <2>2
<1>4. QED
  BY <1>1, <1>2, <1>3

\* A listing gives a batch, or none.
LEMMA ListEffect ==
    ASSUME TypeOK, NEW d \in Call, List(d)
    PROVE  /\ drain' \in [Call -> Drain]
           /\ drain'[d].at \in {"claim", "trim"}
           /\ drain'[d].at = "claim" => drain'[d].todo # {}
           /\ \A c \in Call : c # d => drain'[c] = drain[c]
<1> DEFINE W == {e \in Event : file[e] = "inbox"}
           new == IF W = {} THEN [Idle EXCEPT !.at = "trim"]
                  ELSE [at |-> "claim", todo |-> Oldest(W, Depth), more |-> Cardinality(W) > Depth]
<1>1. drain' = [drain EXCEPT ![d] = new]
  BY DEF List
<1>2. Oldest(W, Depth) \subseteq Event /\ (W # {} => Oldest(W, Depth) # {})
  <2>1. W \in SUBSET Event /\ Depth \in Int /\ Depth > 0
    BY InboxAssumption
  <2>2. QED
    BY <2>1, OldestType
<1>3. (Cardinality(W) > Depth) \in BOOLEAN
  OBVIOUS
<1>4. new \in Drain /\ new.at \in {"claim", "trim"} /\ (new.at = "claim" => new.todo # {})
  <2>1. CASE W = {}
    BY <2>1 DEF Drain, Idle
  <2>2. CASE W # {}
    <3>1. new = [at |-> "claim", todo |-> Oldest(W, Depth), more |-> Cardinality(W) > Depth]
      BY <2>2
    <3>2. QED
      BY <1>2, <1>3, <2>2, <3>1 DEF Drain
  <2>3. QED
    BY <2>1, <2>2
<1>5. QED
  <2> HIDE DEF new
  <2> QED  BY <1>1, <1>4 DEF TypeOK

LEMMA TrimEffect ==
    ASSUME TypeOK, NEW d \in Call, Trim(d)
    PROVE  /\ drain' \in [Call -> Drain] /\ drain'[d] = Idle
           /\ \A c \in Call : c # d => drain'[c] = drain[c]
           /\ file' \in [Event -> {"none", "inbox", "claimed", "failed", "gone"}]
           /\ \A e \in Event : file'[e] = file[e] \/ (file[e] = "failed" /\ file'[e] = "gone")
<1> DEFINE F == {e \in Event : file[e] = "failed"}
           n == Cardinality(F) - MaxFailed
<1>1. \A m : Oldest(F, m) \subseteq F
  BY DEF Oldest
<1>2. file' = [e \in Event |-> IF e \in Oldest(F, n) THEN "gone" ELSE file[e]]
  BY DEF Trim
<1>3. drain' = [drain EXCEPT ![d] = Idle] /\ Idle \in Drain
  BY DEF Trim, Idle, Drain
<1>4. QED
  BY <1>1, <1>2, <1>3 DEF TypeOK

LEMMA WorkTypes ==
    ASSUME TypeOK, BatchInv, NEW d \in Call, Work(d) \/ OperationFails(d)
    PROVE  TypeOK' /\ BatchInv'
<1> DEFINE Effect == /\ drain' \in [Call -> Drain]
                     /\ \A c \in Call : c # d => drain'[c] = drain[c]
                     /\ drain'[d].at \in Holding \cup {"claim"} => drain'[d].todo # {}
<1>1. ASSUME Effect
      PROVE  BatchInv'
  BY <1>1 DEF BatchInv, At
<1>2. ASSUME NEW at \in Holding, Goto(d, at), At(d) \in Holding \cup {"claim"}
      PROVE  Effect
  BY <1>2, GotoEffect DEF BatchInv, At
<1>3. ASSUME NextFile(d)
      PROVE  Effect
  BY <1>3, NextEffect DEF Holding
<1>4. Holding = {"read", "send", "back", "unlink", "quarantine", "drop"} /\ d[1] \in Server
  BY CallType DEF Holding
<1>5. CASE List(d)
  <2>1. Effect
    BY <1>5, ListEffect DEF Holding
  <2>2. TypeOK'
    BY <1>5, <2>1 DEF List, TypeOK
  <2> QED  BY <1>1, <2>1, <2>2
<1>6. CASE Claim(d)
  <2>1. Effect
    BY <1>2, <1>3, <1>4, <1>6 DEF Claim
  <2>2. TypeOK'
    BY <1>6, <2>1 DEF Claim, TypeOK
  <2> QED  BY <1>1, <2>1, <2>2
<1>7. CASE Read(d)
  <2>1. Effect
    BY <1>2, <1>4, <1>7 DEF Read
  <2>2. TypeOK'
    BY <1>7, <2>1 DEF Read, TypeOK
  <2> QED  BY <1>1, <2>1, <2>2
<1>8. CASE Send(d)
  <2>1. Effect
    BY <1>2, <1>4, <1>8 DEF Send
  <2>2. Current(d) \in Event
    BY <1>4, <1>8, CurrentType DEF Send
  <2>3. TypeOK'
    BY <1>4, <1>8, <2>1, <2>2, InboxAssumption DEF Send, TypeOK
  <2> QED  BY <1>1, <2>1, <2>3
<1>9. CASE SendFails(d)
  <2>1. Effect
    BY <1>2, <1>4, <1>9 DEF SendFails
  <2>2. Current(d) \in Event
    BY <1>4, <1>9, CurrentType DEF SendFails
  <2>3. tries' \in [Server -> [Event -> 0..(MaxTries - 1)]]
    BY <1>4, <1>9, <2>2, InboxAssumption DEF SendFails, TypeOK
  <2>4. refused' \in [Event -> 0..MaxTries]
    <3>1. refused[Current(d)] + 1 \in 1..(MaxTries + 1)
      BY <2>2, InboxAssumption DEF TypeOK
    <3>2. Min({refused[Current(d)] + 1, MaxTries}) \in 0..MaxTries
      BY <3>1, InboxAssumption DEF Min
    <3>3. QED
      BY <1>9, <2>2, <3>2 DEF SendFails, TypeOK
  <2>5. TypeOK'
    BY <1>9, <2>1, <2>3, <2>4 DEF SendFails, TypeOK
  <2> QED  BY <1>1, <2>1, <2>5
<1>10. CASE PutBack(d)
  <2>1. Effect
    BY <1>2, <1>3, <1>4, <1>10 DEF PutBack
  <2>2. tries' \in [Server -> [Event -> 0..(MaxTries - 1)]]
    <3>1. 0 \in 0..(MaxTries - 1)
      BY InboxAssumption
    <3>2. UNCHANGED tries \/ tries' = [tries EXCEPT ![d[1]][Current(d)] = 0]
      BY <1>10 DEF PutBack
    <3>3. QED
      BY <1>4, <3>1, <3>2, TriesType DEF TypeOK
  <2>3. TypeOK'
    BY <1>10, <2>1, <2>2 DEF PutBack, TypeOK
  <2> QED  BY <1>1, <2>1, <2>3
<1>11. CASE Unlink(d) \/ Drop(d)
  <2>1. Effect
    BY <1>3, <1>11 DEF Unlink, Drop
  <2>2. TypeOK'
    BY <1>11, <2>1 DEF Unlink, Drop, TypeOK
  <2> QED  BY <1>1, <2>1, <2>2
<1>12. CASE Quarantine(d)
  <2>1. Effect
    BY <1>2, <1>3, <1>4, <1>12 DEF Quarantine
  <2>2. TypeOK'
    BY <1>12, <2>1 DEF Quarantine, TypeOK
  <2> QED  BY <1>1, <2>1, <2>2
<1>13. CASE Trim(d)
  <2>1. Effect
    BY <1>13, TrimEffect DEF Holding, Idle
  <2>2. TypeOK'
    BY <1>4, <1>13, <2>1, TrimEffect DEF Trim, TypeOK
  <2> QED  BY <1>1, <2>1, <2>2
<1>14. CASE OperationFails(d)
  <2>1. Effect
    BY <1>2, <1>3, <1>4, <1>14 DEF OperationFails
  <2>2. tries' \in [Server -> [Event -> 0..(MaxTries - 1)]]
    <3>1. 0 \in 0..(MaxTries - 1)
      BY InboxAssumption
    <3>2. UNCHANGED tries \/ tries' = [tries EXCEPT ![d[1]][Current(d)] = 0]
      BY <1>14 DEF OperationFails
    <3>3. QED
      BY <1>4, <3>1, <3>2, TriesType DEF TypeOK
  <2>3. Current(d) \in Event
    BY <1>4, <1>14, CurrentType DEF OperationFails
  <2>4. TypeOK'
    BY <1>14, <2>1, <2>2, <2>3, InboxAssumption DEF OperationFails, Fault, TypeOK
  <2> QED  BY <1>1, <2>1, <2>4
<1>15. QED
  BY <1>5, <1>6, <1>7, <1>8, <1>9, <1>10, <1>11, <1>12, <1>13, <1>14 DEF Work

LEMMA NextTypes == TypeOK /\ BatchInv /\ [Next]_vars => TypeOK' /\ BatchInv'
<1> SUFFICES ASSUME TypeOK, BatchInv, [Next]_vars
             PROVE  TypeOK' /\ BatchInv'
  OBVIOUS
<1>1. CASE UNCHANGED vars
  BY <1>1 DEF vars, TypeOK, BatchInv, At
<1>2. CASE Next
  BY <1>2, AppTypes, ServerTypes, WorkTypes DEF Next
<1>3. QED
  BY <1>1, <1>2

\* Every variable keeps its type, and no call works on an empty batch.
THEOREM TypeCorrect == Spec => [](TypeOK /\ BatchInv)
BY InitTypes, NextTypes, PTL DEF Spec

----------------------------------------------------------------------------
(* No event is dropped without a reason. *)

LEMMA InitKept == Init => KeptInv
<1> SUFFICES ASSUME Init
             PROVE  KeptInv
  OBVIOUS
<1>1. TypeOK /\ BatchInv
  BY InitTypes
<1>2. TriesInv
  BY DEF Init, TriesInv
<1>3. \A d \in Call : At(d) = "idle"
  BY DEF Init, At, Idle
<1>4. HolderInv /\ ReasonInv
  BY <1>3 DEF HolderInv, ReasonInv, Has, Holding
<1>5. KeptUntilSent
  BY DEF Init, KeptUntilSent
<1>6. QED
  BY <1>1, <1>2, <1>4, <1>5 DEF KeptInv

\* A reason for giving an event up stays one.
LEMMA ReasonStays ==
    ASSUME TypeOK, TypeOK', NEW e \in Event, kind' = kind, aged \subseteq aged',
           sent'[e] >= sent[e], refused'[e] >= refused[e], Reason(e)
    PROVE  Reason(e)'
<1>1. sent[e] \in Nat /\ sent'[e] \in Nat
  BY DEF TypeOK
<1>2. refused[e] \in 0..MaxTries /\ refused'[e] \in 0..MaxTries /\ MaxTries \in Nat
  BY InboxAssumption DEF TypeOK
<1>3. QED
  BY <1>1, <1>2 DEF Reason

LEMMA AppKept ==
    ASSUME KeptInv, TypeOK', BatchInv', NEW e \in Event, Write(e) \/ Age(e)
    PROVE  KeptInv'
<1> USE DEF KeptInv
<1>1. /\ UNCHANGED <<kind, drain, tries, sent, refused, disturbed>> /\ aged \subseteq aged'
      /\ \A f \in Event : file[f] # "none" => file'[f] = file[f]
      /\ \A f \in Event : file'[f] \in {file[f], "inbox"}
  BY DEF Write, Age, TypeOK
<1>2. TriesInv'
  BY <1>1 DEF TriesInv
<1>3. HolderInv'
  BY <1>1 DEF HolderInv, Has, At, Current
<1>4. ReasonInv' /\ KeptUntilSent'
  BY <1>1 DEF ReasonInv, KeptUntilSent, Reason, At, Current
<1>5. QED
  BY <1>2, <1>3, <1>4

LEMMA ServerKept ==
    ASSUME KeptInv, TypeOK', BatchInv', NEW s \in Server, Die(s) \/ Start(s) \/ Recover(s)
    PROVE  KeptInv'
<1> USE DEF KeptInv
<1>1. CASE Die(s)
  <2>1. \A d \in Call : drain'[d] \in {Idle, drain[d]}
    BY <1>1 DEF Die
  <2>2. UNCHANGED <<kind, file, aged, sent, refused, disturbed>>
    BY <1>1 DEF Die
  <2>3. \A d \in Call : drain'[d] = drain[d] \/ At(d)' \notin Holding
    BY <2>1 DEF At, Idle, Holding
  <2>4. HolderInv'
    BY <2>2, <2>3 DEF HolderInv, Has, At, Current
  <2>5. ReasonInv'
    BY <2>2, <2>3 DEF ReasonInv, Reason, At, Current, Holding
  <2>6. TriesInv'
    <3>1. \A r \in Server, e \in Event : tries'[r][e] \in {0, tries[r][e]}
      BY <1>1 DEF Die, TypeOK
    <3>2. QED
      BY <2>2, <3>1 DEF TriesInv, TypeOK
  <2>7. QED
    BY <2>2, <2>4, <2>5, <2>6 DEF KeptUntilSent, Reason
<1>2. CASE Start(s)
  BY <1>2 DEF Start, TriesInv, HolderInv, ReasonInv, KeptUntilSent, Reason, Has, At, Current
<1>3. CASE Recover(s)
  <2>1. UNCHANGED <<kind, tries, aged, sent, refused>>
    BY <1>3 DEF Recover
  <2>2. CASE stale[s] = {}
    <3>1. UNCHANGED <<file, disturbed>> /\ <<s, 1>> \in Call
      BY <1>3, <2>2, CallType DEF Recover
    <3>2. drain' = [drain EXCEPT ![<<s, 1>>] = [drain[<<s, 1>>] EXCEPT !.at = "list"]]
      BY <1>3, <2>2, <3>1 DEF Recover, TypeOK
    <3>3. drain[<<s, 1>>] \in Drain
      BY <3>1 DEF TypeOK
    <3>4. \A d \in Call : drain'[d] = drain[d] \/ At(d)' \notin Holding
      BY <3>1, <3>2, <3>3 DEF At, Holding, TypeOK, Drain
    <3>5. HolderInv'
      BY <3>1, <3>4 DEF HolderInv, Has, At, Current
    <3>6. ReasonInv' /\ KeptUntilSent'
      BY <2>1, <3>1, <3>4 DEF ReasonInv, KeptUntilSent, Reason, At, Current, Holding
    <3>7. QED
      BY <2>1, <3>5, <3>6 DEF TriesInv
  <2>3. CASE stale[s] # {}
    <3>1. UNCHANGED drain
      BY <1>3, <2>3 DEF Recover
    <3>2. PICK e \in stale[s] :
             /\ file' = IF file[e] = "claimed" THEN [file EXCEPT ![e] = "inbox"] ELSE file
             /\ disturbed' = IF file[e] = "claimed" /\ Working(e) THEN disturbed \cup {e}
                             ELSE disturbed
      BY <1>3, <2>3 DEF Recover
    <3>3. e \in Event
      BY DEF TypeOK
    <3>4. disturbed \subseteq disturbed'
      BY <3>2
    <3>5. \A f \in Event : file'[f] = file[f] \/ (f = e /\ file'[f] = "inbox" /\ file[e] = "claimed")
      BY <3>2, <3>3 DEF TypeOK
    <3>6. HolderInv'
      <4>1. \A f \in Event : f \notin disturbed' =>
                file'[f] = file[f] \/ \A d \in Call : ~Has(d, f)
        BY <3>2, <3>5 DEF Working, Has
      <4>2. QED
        BY <3>1, <3>4, <4>1 DEF HolderInv, Has, At, Current
    <3>7. ReasonInv'
      BY <2>1, <3>1, <3>4 DEF ReasonInv, Reason, At, Current
    <3>8. KeptUntilSent'
      BY <2>1, <3>4, <3>5 DEF KeptUntilSent, Reason
    <3>9. QED
      BY <2>1, <3>6, <3>7, <3>8 DEF TriesInv
  <2>4. QED
    BY <2>2, <2>3
<1>4. QED
  BY <1>1, <1>2, <1>3

\* A call that gets to another place with the same file, or is done with it,
\* leaves the others alone; what it may then be asked for is little.
LEMMA WorkKept ==
    ASSUME KeptInv, TypeOK', BatchInv', NEW d \in Call, Work(d) \/ OperationFails(d)
    PROVE  KeptInv'
<1> USE DEF KeptInv
<1> DEFINE e == Current(d)
           Others == \A c \in Call : c # d => drain'[c] = drain[c]
           Stays(at) == drain'[d].at = at /\ Current(d)' = e
           Leaves == drain'[d].at \notin Holding
<1>1. ASSUME NEW at \in Holding, Goto(d, at)
      PROVE  Others /\ Stays(at)
  BY <1>1, GotoEffect DEF Current
<1>2. ASSUME NextFile(d)
      PROVE  Others /\ Leaves
  BY <1>2, NextEffect DEF Holding
<1>3. At(d) \in Holding \cup {"claim"} => e \in Event
  BY CurrentType
<1>4. Holding = {"read", "send", "back", "unlink", "quarantine", "drop"} /\ d[1] \in Server
  BY CallType DEF Holding
\* Whoever has an event keeps it, and keeps its reason.
<1>5. ASSUME Others, disturbed \subseteq disturbed',
             Leaves \/ (Current(d)' = e /\ (At(d) \in Holding \/ file[e] = "inbox")),
             \A f \in Event \ disturbed' : \A c \in Call : Has(c, f)' => file'[f] = "claimed"
      PROVE  HolderInv'
  <2>1. \A c \in Call, f \in Event : c # d => (Has(c, f)' <=> Has(c, f))
    BY <1>5 DEF Has, At, Current
  <2>2. \A f \in Event \ disturbed' : Has(d, f)' => f = e /\ (Has(d, f) \/ file[f] = "inbox")
    BY <1>5 DEF Has, At
  <2>3. QED
    BY <1>5, <2>1, <2>2 DEF HolderInv
<1>6. ASSUME Others, disturbed \subseteq disturbed', kind' = kind, aged' = aged,
             \A f \in Event : sent'[f] >= sent[f] /\ refused'[f] >= refused[f],
             Leaves
                \/ (Current(d)' = e /\ (e \in Event \ disturbed' /\ kind[e] # "malformed" =>
                      /\ drain'[d].at = "unlink" => sent'[e] > 0
                      /\ drain'[d].at \in {"quarantine", "drop"} => Reason(e)'))
      PROVE  ReasonInv'
  <2>1. \A f \in Event : Reason(f) => Reason(f)'
    BY <1>6, ReasonStays
  <2>2. \A f \in Event : sent[f] > 0 => sent'[f] > 0
    BY <1>6 DEF TypeOK
  <2>3. ASSUME NEW f \in Event \ disturbed', NEW c \in Call, c # d, kind[f] # "malformed",
               Current(c)' = f
        PROVE  /\ At(c)' = "unlink" => sent'[f] > 0
               /\ At(c)' \in {"quarantine", "drop"} => Reason(f)'
    BY <1>6, <2>1, <2>2, <2>3 DEF ReasonInv, At, Current
  <2>4. QED
    BY <1>4, <1>6, <2>3 DEF ReasonInv, At
<1>7. ASSUME disturbed \subseteq disturbed', kind' = kind, aged' = aged,
             \A f \in Event : sent'[f] >= sent[f] /\ refused'[f] >= refused[f],
             \A f \in Event \ disturbed' :
                kind[f] # "malformed" /\ file'[f] \in {"failed", "gone"} =>
                    file[f] \in {"failed", "gone"} \/ Reason(f)
      PROVE  KeptUntilSent'
  <2>1. \A f \in Event : Reason(f) => Reason(f)'
    BY <1>7, ReasonStays
  <2>2. KeptUntilSent <=> \A f \in Event \ disturbed :
            kind[f] # "malformed" /\ file[f] \in {"failed", "gone"} => Reason(f)
    BY DEF KeptUntilSent, Reason
  <2>3. KeptUntilSent' <=> \A f \in Event \ disturbed' :
            kind'[f] # "malformed" /\ file'[f] \in {"failed", "gone"} => Reason(f)'
    BY DEF KeptUntilSent, Reason
  <2>4. QED
    BY <1>7, <2>1, <2>2, <2>3
\* Most steps count nothing.
<1>8. ASSUME UNCHANGED <<sent, refused>>
      PROVE  \A f \in Event : sent'[f] >= sent[f] /\ refused'[f] >= refused[f]
  BY <1>8, InboxAssumption DEF TypeOK
<1>9. CASE List(d)
  <2>1. Others /\ Leaves
    BY <1>9, ListEffect DEF Holding
  <2>2. UNCHANGED <<kind, file, aged, tries, sent, refused, disturbed>>
    BY <1>9 DEF List
  <2>3. \A f \in Event \ disturbed' : \A c \in Call : Has(c, f)' => file'[f] = "claimed"
    BY <2>1, <2>2 DEF HolderInv, Has, At, Current
  <2>4. QED
    BY <1>5, <1>6, <1>7, <1>8, <2>1, <2>2, <2>3 DEF TriesInv
<1>10. CASE Claim(d)
  <2>1. e \in Event /\ UNCHANGED <<kind, aged, tries, sent, refused, disturbed>>
    BY <1>3, <1>10 DEF Claim
  <2>2. Others /\ (Leaves \/ (Stays("read") /\ file[e] = "inbox" /\ file'[e] = "claimed"))
    BY <1>1, <1>2, <1>4, <1>10, <2>1 DEF Claim, TypeOK
  <2>3. \A f \in Event : file'[f] = file[f] \/ (f = e /\ file'[f] = "claimed")
    BY <1>10, <2>1 DEF Claim, TypeOK
  <2>4. \A f \in Event \ disturbed' : \A c \in Call : Has(c, f)' => file'[f] = "claimed"
    BY <2>1, <2>2, <2>3 DEF HolderInv, Has, At, Current
  <2>5. QED
    BY <1>5, <1>6, <1>7, <1>8, <2>1, <2>2, <2>3, <2>4 DEF TriesInv
<1>11. CASE Read(d)
  <2>1. e \in Event /\ UNCHANGED <<kind, file, aged, tries, sent, refused, disturbed>>
    BY <1>3, <1>4, <1>11 DEF Read
  <2>2. Others /\ (Stays("send") \/ (Stays("quarantine") /\ ~(file[e] = "claimed" /\ kind[e] # "malformed")))
    BY <1>1, <1>4, <1>11 DEF Read
  <2>3. Has(d, e)
    BY <1>4, <1>11 DEF Read, Has
  <2>4. e \in disturbed \/ Stays("send") \/ kind[e] = "malformed"
    BY <2>1, <2>2, <2>3 DEF HolderInv
  <2>5. \A f \in Event \ disturbed' : \A c \in Call : Has(c, f)' => file'[f] = "claimed"
    BY <2>1, <2>2, <2>3 DEF HolderInv, Has, At, Current
  <2>6. QED
    BY <1>5, <1>6, <1>7, <1>8, <2>1, <2>2, <2>3, <2>4, <2>5 DEF TriesInv, Has
<1>12. CASE Send(d)
  <2>1. e \in Event /\ Has(d, e)
    BY <1>3, <1>4, <1>12 DEF Send, Has
  <2>2. UNCHANGED <<kind, file, aged, refused, disturbed>>
    BY <1>12 DEF Send
  <2>3. Others /\ Stays("unlink")
    BY <1>1, <1>4, <1>12 DEF Send
  <2>4. /\ sent'[e] > 0
        /\ \A f \in Event : sent'[f] >= sent[f] /\ refused'[f] >= refused[f]
    BY <1>12, <2>1, <2>2, InboxAssumption DEF Send, TypeOK
  <2>5. \A f \in Event \ disturbed' : \A c \in Call : Has(c, f)' => file'[f] = "claimed"
    BY <2>1, <2>2, <2>3 DEF HolderInv, Has, At, Current
  <2>6. TriesInv'
    <3>1. \A s \in Server, f \in Event : tries'[s][f] \in {0, tries[s][f]}
      BY <1>4, <1>12 DEF Send, TypeOK
    <3>2. \A f \in Event : refused[f] >= 0
      BY InboxAssumption DEF TypeOK
    <3>3. QED
      BY <2>2, <3>1, <3>2 DEF TriesInv
  <2>7. QED
    BY <1>5, <1>6, <1>7, <2>1, <2>2, <2>3, <2>4, <2>5, <2>6 DEF Has
<1>13. CASE SendFails(d)
  <2> DEFINE n == tries[d[1]][e] + 1
             give == (kind[e] # "verdict" /\ e \in aged) \/ n >= MaxTries
  <2>1. e \in Event /\ Has(d, e)
    BY <1>3, <1>4, <1>13 DEF SendFails, Has
  <2>2. UNCHANGED <<kind, file, aged, sent, disturbed>>
    BY <1>13 DEF SendFails
  <2>3. Others /\ Stays(IF give THEN "quarantine" ELSE "back")
    BY <1>1, <1>4, <1>13 DEF SendFails
  <2>4. /\ refused[e] \in 0..MaxTries /\ MaxTries \in Nat \ {0}
        /\ tries[d[1]][e] \in 0..(MaxTries - 1) /\ tries[d[1]][e] <= refused[e]
    BY <1>4, <2>1, InboxAssumption DEF TypeOK, TriesInv
  <2>5. refused'[e] = IF refused[e] < MaxTries THEN refused[e] + 1 ELSE MaxTries
    <3>1. refused'[e] = Min({refused[e] + 1, MaxTries})
      BY <1>13, <2>1 DEF SendFails, TypeOK
    <3>2. QED
      BY <2>4, <3>1 DEF Min
  <2>6. \A f \in Event : f # e => refused'[f] = refused[f]
    BY <1>13, <2>1 DEF SendFails, TypeOK
  <2>7. \A f \in Event : sent'[f] >= sent[f] /\ refused'[f] >= refused[f]
    <3>1. \A f \in Event : sent[f] \in Int /\ refused[f] \in Int
      BY InboxAssumption DEF TypeOK
    <3>2. refused'[e] >= refused[e]
      BY <2>4, <2>5
    <3>3. QED
      BY <2>2, <2>6, <3>1, <3>2
  <2>8. give /\ kind[e] # "malformed" => Reason(e)'
    <3>1. kind[e] \in {"verdict", "request", "malformed"}
      BY <2>1 DEF TypeOK
    <3>2. refused'[e] > 0
      BY <2>4, <2>5
    <3>3. n >= MaxTries => refused'[e] = MaxTries
      BY <2>4, <2>5
    <3>4. kind'[e] = kind[e] /\ aged' = aged
      BY <2>2
    <3>5. Current(d)' = e
      BY <2>3
    <3>6. QED
      BY <3>1, <3>2, <3>3, <3>4, <3>5 DEF Reason
  <2>9. \A f \in Event \ disturbed' : \A c \in Call : Has(c, f)' => file'[f] = "claimed"
    BY <2>1, <2>2, <2>3 DEF HolderInv, Has, At, Current
  <2>10. TriesInv'
    <3>1. \A s \in Server, f \in Event :
             tries'[s][f] = IF s = d[1] /\ f = e THEN (IF give THEN 0 ELSE n) ELSE tries[s][f]
      BY <1>4, <1>13, <2>1 DEF SendFails, TypeOK
    <3>2. \A s \in Server, f \in Event : tries[s][f] <= refused[f] /\ tries[s][f] \in Int
                                         /\ refused[f] \in Int /\ refused'[f] \in Int
      BY InboxAssumption DEF TriesInv, TypeOK
    <3>3. ~give => n <= refused'[e]
      BY <2>4, <2>5
    <3>4. 0 <= refused'[e]
      BY <2>4, <2>5
    <3>5. QED
      BY <2>7, <3>1, <3>2, <3>3, <3>4 DEF TriesInv
  <2>11. QED
    <3>1. HolderInv'
      BY <1>4, <1>5, <2>1, <2>2, <2>3, <2>9 DEF Has
    <3>2. ReasonInv'
      BY <1>6, <2>2, <2>3, <2>7, <2>8
    <3>3. KeptUntilSent'
      BY <1>7, <2>2, <2>7
    <3>4. QED
      BY <2>10, <3>1, <3>2, <3>3
<1>14. CASE PutBack(d)
  <2>1. e \in Event /\ Has(d, e)
    BY <1>3, <1>4, <1>14 DEF PutBack, Has
  <2>2. UNCHANGED <<kind, aged, sent, refused, disturbed>>
    BY <1>14 DEF PutBack
  <2>3. /\ Others
        /\ \/ file[e] = "claimed" /\ Leaves /\ file' = [file EXCEPT ![e] = "inbox"]
           \/ file[e] # "claimed" /\ Stays("quarantine") /\ UNCHANGED file
    BY <1>1, <1>2, <1>4, <1>14 DEF PutBack
  <2>4. \A f \in Event : file'[f] = file[f] \/ (f = e /\ file'[f] = "inbox")
    BY <2>1, <2>3 DEF TypeOK
  <2>5. \A f \in Event \ disturbed' : \A c \in Call : Has(c, f)' => file'[f] = "claimed"
    BY <2>1, <2>2, <2>3, <2>4 DEF HolderInv, Has, At, Current
  <2>6. e \in disturbed \/ Leaves
    BY <2>1, <2>3 DEF HolderInv
  <2>7. TriesInv'
    <3>1. \A s \in Server, f \in Event : tries'[s][f] \in {0, tries[s][f]}
      BY <1>4, <1>14 DEF PutBack, TypeOK
    <3>2. \A f \in Event : refused[f] >= 0
      BY InboxAssumption DEF TypeOK
    <3>3. QED
      BY <2>2, <3>1, <3>2 DEF TriesInv
  <2>8. QED
    BY <1>5, <1>6, <1>7, <1>8, <2>1, <2>2, <2>3, <2>4, <2>5, <2>6, <2>7 DEF Has
<1>15. CASE Unlink(d) \/ Quarantine(d) \/ Drop(d)
  <2>1. e \in Event /\ Has(d, e)
    BY <1>3, <1>4, <1>15 DEF Unlink, Quarantine, Drop, Has
  <2>2. UNCHANGED <<kind, aged, tries, sent, refused, disturbed>>
    BY <1>15 DEF Unlink, Quarantine, Drop
  <2>3. /\ Others
        /\ Leaves \/ (Stays("drop") /\ UNCHANGED file /\ file[e] # "claimed")
    BY <1>1, <1>2, <1>4, <1>15 DEF Unlink, Quarantine, Drop
  <2>4. \A f \in Event : file'[f] = file[f] \/ f = e
    BY <1>15, <2>1 DEF Unlink, Quarantine, Drop, TypeOK
  <2>5. e \in disturbed \/ Leaves
    BY <2>1, <2>3 DEF HolderInv
  <2>6. e \in Event \ disturbed /\ kind[e] # "malformed" => Reason(e)
    BY <1>15, <2>1 DEF Unlink, Quarantine, Drop, ReasonInv, Reason
  <2>7. \A f \in Event \ disturbed' : \A c \in Call : Has(c, f)' => file'[f] = "claimed"
    BY <2>1, <2>2, <2>3, <2>4, <2>5 DEF HolderInv, Has, At, Current
  <2>8. QED
    BY <1>5, <1>6, <1>7, <1>8, <2>1, <2>2, <2>3, <2>4, <2>5, <2>6, <2>7 DEF Has, TriesInv
<1>16. CASE Trim(d)
  <2>1. Others /\ Leaves
    BY <1>16, TrimEffect DEF Holding, Idle
  <2>2. UNCHANGED <<kind, aged, tries, sent, refused, disturbed>>
    BY <1>16 DEF Trim
  <2>3. \A f \in Event : file'[f] = file[f] \/ (file[f] = "failed" /\ file'[f] = "gone")
    BY <1>16, TrimEffect
  <2>4. \A f \in Event \ disturbed' : \A c \in Call : Has(c, f)' => file'[f] = "claimed"
    BY <2>1, <2>2, <2>3 DEF HolderInv, Has, At, Current
  <2>5. QED
    BY <1>5, <1>6, <1>7, <1>8, <2>1, <2>2, <2>3, <2>4 DEF TriesInv
<1>17. CASE OperationFails(d)
  <2>1. e \in Event /\ UNCHANGED <<kind, file, aged, sent, refused>> /\ disturbed' = disturbed \cup {e}
    BY <1>3, <1>4, <1>17 DEF OperationFails
  <2>2. Others /\ (Leaves \/ (Current(d)' = e /\ At(d) \in Holding))
    BY <1>1, <1>2, <1>4, <1>17 DEF OperationFails
  <2>3. \A f \in Event \ disturbed' : \A c \in Call : Has(c, f)' => file'[f] = "claimed"
    BY <2>1, <2>2 DEF HolderInv, Has, At, Current
  <2>4. TriesInv'
    <3>1. \A s \in Server, f \in Event : tries'[s][f] \in {0, tries[s][f]}
      BY <1>4, <1>17 DEF OperationFails, TypeOK
    <3>2. \A f \in Event : refused[f] >= 0
      BY InboxAssumption DEF TypeOK
    <3>3. QED
      BY <2>1, <3>1, <3>2 DEF TriesInv
  <2>5. QED
    BY <1>5, <1>6, <1>7, <1>8, <2>1, <2>2, <2>3, <2>4
<1>18. QED
  BY <1>9, <1>10, <1>11, <1>12, <1>13, <1>14, <1>15, <1>16, <1>17 DEF Work

LEMMA NextKept == KeptInv /\ [Next]_vars => KeptInv'
<1> SUFFICES ASSUME KeptInv, [Next]_vars
             PROVE  KeptInv'
  OBVIOUS
<1>1. TypeOK' /\ BatchInv'
  BY NextTypes DEF KeptInv
<1>2. CASE UNCHANGED vars
  BY <1>1, <1>2 DEF vars, KeptInv, TriesInv, HolderInv, ReasonInv, KeptUntilSent, Reason, Has, At, Current
<1>3. CASE Next
  BY <1>1, <1>3, AppKept, ServerKept, WorkKept DEF Next
<1>4. QED
  BY <1>2, <1>3

\* What leaves the inbox was sent, or refused as often as it may be tried, or
\* was a request too old to try again, unless its file's operations failed or a
\* starting server took it from a living one (processEventFile).
THEOREM Kept == Spec => []KeptUntilSent
<1>1. KeptInv => KeptUntilSent
  BY DEF KeptInv
<1>2. QED
  BY <1>1, InitKept, NextKept, PTL DEF Spec

----------------------------------------------------------------------------
(* No event is sent more often than servers were started. *)

LEMMA InitOnce == Init => OnceInv
<1> SUFFICES ASSUME Init
             PROVE  OnceInv
  OBVIOUS
<1>1. Untouched
  BY DEF Init, Untouched
<1>2. QED
  BY <1>1, InitTypes DEF Init, OnceInv, ChancesInv

LEMMA Counts ==
    ASSUME NEW e \in Event
    PROVE  /\ IsFiniteSet(Sending(e)) /\ Cardinality(Sending(e)) \in Nat
           /\ IsFiniteSet(Returning(e)) /\ Cardinality(Returning(e)) \in Nat
           /\ InInbox(e) \in {0, 1}
<1>1. Sending(e) \in SUBSET Call /\ Returning(e) \in SUBSET Server
  BY DEF Sending, Returning
<1>2. IsFiniteSet(Sending(e)) /\ IsFiniteSet(Returning(e))
  BY <1>1, CallFinite, InboxAssumption, FS_Subset
<1>3. QED
  BY <1>2, FS_CardinalityType DEF InInbox

\* A step of one call: what it may yet send, its file and what was sent do not
\* grow together.
LEMMA CallCount ==
    ASSUME OnceInv, TypeOK', ~Untouched, NEW d \in Call,
           \A c \in Call : c # d => drain'[c] = drain[c],
           UNCHANGED <<stale, starts>>,
           \A e \in Event :
              sent'[e] + (IF d \in Sending(e)' THEN 1 ELSE 0) + InInbox(e)'
                 <= sent[e] + (IF d \in Sending(e) THEN 1 ELSE 0) + InInbox(e)
    PROVE  ChancesInv'
<1>1. ASSUME NEW e \in Event
      PROVE  sent'[e] + Cardinality(Sending(e)') + Cardinality(Returning(e)') + InInbox(e)' <= starts'
  <2>1. Sending(e)' \ {d} = Sending(e) \ {d}
    BY DEF Sending, At, Current
  <2>2. Cardinality(Sending(e)') \in Nat /\ Cardinality(Sending(e)) \in Nat
        /\ Cardinality(Sending(e)') + (IF d \in Sending(e) THEN 1 ELSE 0)
             = Cardinality(Sending(e)) + (IF d \in Sending(e)' THEN 1 ELSE 0)
    BY <2>1, Counts, OneElement
  <2>3. Returning(e)' = Returning(e) /\ Cardinality(Returning(e)) \in Nat
    BY Counts DEF Returning
  <2>4. sent[e] \in Nat /\ sent'[e] \in Nat /\ starts \in Nat /\ starts' = starts
    BY DEF OnceInv, TypeOK
  <2>5. InInbox(e) \in {0, 1} /\ InInbox(e)' \in {0, 1}
    BY DEF InInbox
  <2>6. sent[e] + Cardinality(Sending(e)) + Cardinality(Returning(e)) + InInbox(e) <= starts
    BY DEF OnceInv, ChancesInv
  <2>7. sent'[e] + (IF d \in Sending(e)' THEN 1 ELSE 0) + InInbox(e)'
                 <= sent[e] + (IF d \in Sending(e) THEN 1 ELSE 0) + InInbox(e)
    OBVIOUS
  <2> DEFINE a == Cardinality(Sending(e))
             b == Cardinality(Sending(e)')
             r == Cardinality(Returning(e))
             x == InInbox(e)
             y == InInbox(e)'
             v == IF d \in Sending(e) THEN 1 ELSE 0
             w == IF d \in Sending(e)' THEN 1 ELSE 0
  <2>8. v \in {0, 1} /\ w \in {0, 1}
    OBVIOUS
  <2>9. /\ a \in Nat /\ b \in Nat /\ r \in Nat /\ x \in Nat /\ y \in Nat
        /\ b + v = a + w /\ sent'[e] + w + y <= sent[e] + v + x /\ sent[e] + a + r + x <= starts
    BY <2>2, <2>3, <2>5, <2>6, <2>7
  <2>10. Cardinality(Returning(e)') = r
    BY <2>3
  <2> HIDE DEF a, b, r, x, y, v, w
  <2>11. sent'[e] + b + r + y <= starts'
    BY <2>4, <2>8, <2>9
  <2>12. QED
    BY <2>10, <2>11 DEF b, y
<1>2. QED
  BY <1>1 DEF ChancesInv

LEMMA AppOnce ==
    ASSUME OnceInv, TypeOK', BatchInv', NEW e \in Event, Write(e) \/ Age(e)
    PROVE  OnceInv'
<1> USE DEF OnceInv
<1>1. /\ UNCHANGED <<server, stale, drain, sent, starts>>
      /\ \A f \in Event : file'[f] = file[f] \/ (file[f] = "none" /\ file'[f] = "inbox")
  BY DEF Write, Age, TypeOK
<1>2. Untouched => Untouched'
  BY <1>1 DEF Untouched
<1>3. \A f \in Event : InInbox(f)' = InInbox(f)
  BY <1>1 DEF InInbox
<1>4. \A f \in Event : Sending(f)' = Sending(f) /\ Returning(f)' = Returning(f)
  BY <1>1 DEF Sending, Returning, At, Current
<1>5. QED
  BY <1>1, <1>2, <1>3, <1>4 DEF ChancesInv

LEMMA ServerOnce ==
    ASSUME OnceInv, TypeOK', BatchInv', NEW s \in Server, Die(s) \/ Start(s) \/ Recover(s)
    PROVE  OnceInv'
<1> USE DEF OnceInv
<1> DEFINE Total(e) == sent[e] + Cardinality(Sending(e)) + Cardinality(Returning(e)) + InInbox(e)
<1>1. \A e \in Event : sent[e] \in Nat /\ starts \in Nat
  BY DEF TypeOK
<1>2. CASE Die(s)
  <2>1. ~Untouched /\ UNCHANGED <<sent, file, starts>>
    BY <1>2 DEF Die, Untouched
  <2>2. ASSUME NEW e \in Event
        PROVE  Total(e)' <= starts'
    <3>1. Sending(e)' \in SUBSET Sending(e)
      BY <1>2 DEF Die, Sending, At, Current, Ahead, Idle
    <3>2. Returning(e)' \in SUBSET Returning(e)
      BY <1>2 DEF Die, Returning, TypeOK
    <3>3. /\ Cardinality(Sending(e)') <= Cardinality(Sending(e)) /\ Cardinality(Sending(e)') \in Nat
          /\ Cardinality(Returning(e)') <= Cardinality(Returning(e)) /\ Cardinality(Returning(e)') \in Nat
      BY <3>1, <3>2, Counts, FS_Subset, FS_CardinalityType
    <3>4. InInbox(e)' = InInbox(e) /\ Total(e) <= starts
      BY <2>1 DEF InInbox, ChancesInv
    <3>5. QED
      BY <1>1, <2>1, <3>3, <3>4, Counts
  <2>3. QED
    BY <2>2 DEF ChancesInv
<1>3. CASE Start(s)
  <2>1. UNCHANGED <<sent, file, drain>> /\ starts' = starts + 1
    BY <1>3 DEF Start
  <2>2. ASSUME NEW e \in Event
        PROVE  Sending(e)' = Sending(e) /\ InInbox(e)' = InInbox(e)
    BY <2>1 DEF Sending, InInbox, At, Current
  <2>3. CASE Untouched
    <3>1. ASSUME NEW e \in Event
          PROVE  Total(e)' <= starts'
      <4>1. Sending(e) = {}
        BY <2>3 DEF Untouched, Sending, At, Idle, Ahead
      <4>2. Returning(e)' = {}
        BY <1>3, <2>3 DEF Start, Untouched, Returning, Claimed, TypeOK
      <4>3. sent[e] = 0 /\ InInbox(e) \in {0, 1}
        BY <2>3 DEF Untouched, InInbox
      <4>4. QED
        BY <1>1, <2>1, <2>2, <4>1, <4>2, <4>3, FS_EmptySet
    <3>2. QED
      BY <3>1 DEF ChancesInv
  <2>4. CASE ~Untouched
    <3>1. ASSUME NEW e \in Event
          PROVE  Total(e)' <= starts'
      <4>1. Returning(e)' \ {s} = Returning(e) \ {s}
        BY <1>3 DEF Start, Returning, TypeOK
      <4>2. Cardinality(Returning(e)') \in Nat /\ Cardinality(Returning(e)') <= Cardinality(Returning(e)) + 1
        BY <4>1, Counts, OneElement
      <4>3. Total(e) <= starts
        BY <2>4 DEF ChancesInv
      <4>4. QED
        BY <1>1, <2>1, <2>2, <4>2, <4>3, Counts
    <3>2. QED
      BY <3>1 DEF ChancesInv
  <2>5. QED
    BY <2>3, <2>4
<1>4. CASE Recover(s)
  <2>1. ~Untouched /\ UNCHANGED <<sent, starts>>
    BY <1>4 DEF Recover, Untouched
  <2>2. \A e \in Event : Total(e) <= starts
    BY <2>1 DEF ChancesInv
  <2>3. CASE stale[s] = {}
    <3>1. UNCHANGED <<file, stale>> /\ <<s, 1>> \in Call
      BY <1>4, <2>3, CallType DEF Recover
    <3>2. drain' = [drain EXCEPT ![<<s, 1>>] = [drain[<<s, 1>>] EXCEPT !.at = "list"]]
      BY <1>4, <2>3, <3>1 DEF Recover, TypeOK
    <3>3. drain[<<s, 1>>] \in Drain
      BY <3>1 DEF TypeOK
    <3>4. /\ \A c \in Call : c # <<s, 1>> => drain'[c] = drain[c]
          /\ drain'[<<s, 1>>].at = "list"
      BY <3>1, <3>2, <3>3 DEF TypeOK, Drain
    <3>5. ASSUME NEW e \in Event
          PROVE  <<s, 1>> \notin Sending(e)' /\ InInbox(e)' = InInbox(e)
      BY <3>1, <3>4 DEF Sending, At, Ahead, InInbox
    <3>6. QED
      BY <2>1, <3>1, <3>4, <3>5, CallCount, Counts, <1>1
  <2>4. CASE stale[s] # {}
    <3>1. UNCHANGED drain
      BY <1>4, <2>4 DEF Recover
    <3>2. PICK e \in stale[s] :
             /\ stale' = [stale EXCEPT ![s] = @ \ {e}]
             /\ file' = IF file[e] = "claimed" THEN [file EXCEPT ![e] = "inbox"] ELSE file
      BY <1>4, <2>4 DEF Recover
    <3>3. e \in Event
      BY DEF TypeOK
    <3>4. ASSUME NEW f \in Event
          PROVE  Total(f)' <= starts'
      <4>1. Sending(f)' = Sending(f)
        BY <3>1 DEF Sending, At, Current
      <4>2. f # e => Returning(f)' = Returning(f) /\ InInbox(f)' = InInbox(f)
        BY <3>2, <3>3 DEF Returning, InInbox, TypeOK
      <4>3. f = e => s \in Returning(f) /\ Returning(f)' = Returning(f) \ {s}
        BY <3>2, <3>3 DEF Returning, TypeOK
      <4>4. f = e => /\ Cardinality(Returning(f)') = Cardinality(Returning(f)) - 1
                     /\ InInbox(f)' \in {0, 1} /\ (InInbox(f) = 1 => InInbox(f)' = 1)
        <5>1. IsFiniteSet(Returning(f))
          BY Counts
        <5>2. f = e => Cardinality(Returning(f)') = Cardinality(Returning(f)) - 1
          BY <4>3, <5>1, FS_RemoveElement
        <5>3. f = e => InInbox(f)' \in {0, 1} /\ (InInbox(f) = 1 => InInbox(f)' = 1)
          BY <3>2, <3>3 DEF InInbox, TypeOK
        <5>4. QED
          BY <5>2, <5>3
      <4>5. f = e => InInbox(f)' <= InInbox(f) + 1
        BY Counts, <4>4
      <4>6. QED
        BY <1>1, <2>1, <2>2, <4>1, <4>2, <4>4, <4>5, Counts
    <3>5. QED
      BY <3>4 DEF ChancesInv
  <2>5. QED
    BY <2>3, <2>4
<1>5. QED
  BY <1>2, <1>3, <1>4

LEMMA WorkOnce ==
    ASSUME OnceInv, TypeOK', BatchInv', NEW d \in Call, Work(d) \/ OperationFails(d)
    PROVE  OnceInv'
<1> USE DEF OnceInv
<1> DEFINE e == Current(d)
           Others == \A c \in Call : c # d => drain'[c] = drain[c]
           Stays(at) == drain'[d].at = at /\ Current(d)' = e
           Leaves == drain'[d].at \notin Holding
           May(f) == IF d \in Sending(f) THEN 1 ELSE 0
           MayThen(f) == IF d \in Sending(f)' THEN 1 ELSE 0
<1>1. ASSUME NEW at \in Holding, Goto(d, at)
      PROVE  Others /\ Stays(at)
  BY <1>1, GotoEffect DEF Current
<1>2. ASSUME NextFile(d)
      PROVE  Others /\ Leaves
  BY <1>2, NextEffect DEF Holding
<1>3. At(d) \in Holding \cup {"claim"} => e \in Event
  BY CurrentType
<1>4. /\ Holding = {"read", "send", "back", "unlink", "quarantine", "drop"}
      /\ Ahead = {"read", "send", "back"} /\ d[1] \in Server
  BY CallType DEF Holding, Ahead
<1>5. ~Untouched
  <2>1. CASE Untouched
    <3>1. At(d) = "idle" /\ server[d[1]] = "down"
      BY <1>4, <2>1 DEF Untouched, At, Idle
    <3>2. QED
      BY <3>1 DEF Work, OperationFails, List, Claim, Read, Send, SendFails, PutBack, Unlink,
                  Quarantine, Drop, Trim
  <2>2. QED
    BY <2>1
<1>6. UNCHANGED <<stale, starts>>
  BY DEF Work, OperationFails, List, Claim, Read, Send, SendFails, PutBack, Unlink, Quarantine, Drop, Trim
<1>7. \A f \in Event : /\ (d \in Sending(f) <=> At(d) \in Ahead /\ f = e)
                       /\ (d \in Sending(f)' <=> drain'[d].at \in Ahead /\ f = Current(d)')
  BY DEF Sending, At
<1>8. \A f \in Event : sent[f] \in Nat
  BY DEF TypeOK
\* It is enough to count what the call, the file and the history say.
<1>9. ASSUME Others, \A f \in Event : sent'[f] + MayThen(f) + InInbox(f)' <= sent[f] + May(f) + InInbox(f)
      PROVE  OnceInv'
  BY <1>5, <1>6, <1>9, CallCount
\* A step that neither sends nor returns a file, and claims none.
<1>10. ASSUME Others, UNCHANGED sent, \A f \in Event : InInbox(f)' = InInbox(f),
              Leaves \/ drain'[d].at \notin Ahead \/ (At(d) \in Ahead /\ Current(d)' = e)
       PROVE  OnceInv'
  <2>1. \A f \in Event : MayThen(f) <= May(f)
    BY <1>4, <1>7, <1>10
  <2>2. \A f \in Event : MayThen(f) \in {0, 1} /\ May(f) \in {0, 1} /\ InInbox(f) \in {0, 1}
    BY Counts
  <2>3. QED
    BY <1>8, <1>9, <1>10, <2>1, <2>2
<1>11. CASE List(d)
  <2>1. Others /\ Leaves /\ UNCHANGED <<file, sent>>
    BY <1>11, ListEffect DEF List, Holding
  <2>2. QED
    BY <1>10, <2>1 DEF InInbox
<1>12. CASE Claim(d)
  <2>1. e \in Event /\ UNCHANGED sent /\ At(d) = "claim"
    BY <1>3, <1>12 DEF Claim
  <2>2. CASE file[e] = "inbox"
    <3>1. Others /\ Stays("read") /\ file' = [file EXCEPT ![e] = "claimed"]
      BY <1>1, <1>4, <1>12, <2>2 DEF Claim
    <3>2. ASSUME NEW f \in Event
          PROVE  sent'[f] + MayThen(f) + InInbox(f)' <= sent[f] + May(f) + InInbox(f)
      <4>1. CASE f = e
        <5>1. MayThen(f) = 1 /\ May(f) = 0
          BY <1>4, <1>7, <2>1, <3>1, <4>1
        <5>2. InInbox(f) = 1 /\ InInbox(f)' = 0
          BY <2>1, <2>2, <3>1, <4>1 DEF InInbox, TypeOK
        <5>3. QED
          BY <1>8, <2>1, <5>1, <5>2
      <4>2. CASE f # e
        <5>1. MayThen(f) = 0 /\ May(f) = 0
          BY <1>7, <3>1, <4>2
        <5>2. InInbox(f)' = InInbox(f)
          BY <2>1, <3>1, <4>2 DEF InInbox, TypeOK
        <5>3. QED
          BY <1>8, <2>1, <5>1, <5>2, Counts
      <4>3. QED
        BY <4>1, <4>2
    <3>3. QED
      BY <1>9, <3>1, <3>2
  <2>3. CASE file[e] # "inbox"
    <3>1. Others /\ Leaves /\ UNCHANGED file
      BY <1>2, <1>12, <2>3 DEF Claim
    <3>2. QED
      BY <1>10, <2>1, <3>1 DEF InInbox
  <2>4. QED
    BY <2>2, <2>3
<1>13. CASE Read(d)
  <2>1. Others /\ UNCHANGED <<file, sent>> /\ At(d) = "read" /\ Current(d)' = e
    BY <1>1, <1>4, <1>13 DEF Read
  <2>2. QED
    BY <1>4, <1>10, <2>1 DEF InInbox
<1>14. CASE Send(d)
  <2>1. e \in Event /\ At(d) = "send" /\ UNCHANGED file /\ sent' = [sent EXCEPT ![e] = @ + 1]
    BY <1>3, <1>4, <1>14 DEF Send
  <2>2. Others /\ Stays("unlink")
    BY <1>1, <1>4, <1>14 DEF Send
  <2>3. ASSUME NEW f \in Event
        PROVE  sent'[f] + MayThen(f) + InInbox(f)' <= sent[f] + May(f) + InInbox(f)
    <3>1. MayThen(f) = 0 /\ May(f) = IF f = e THEN 1 ELSE 0
      BY <1>4, <1>7, <2>1, <2>2
    <3>2. sent'[f] = IF f = e THEN sent[f] + 1 ELSE sent[f]
      BY <2>1 DEF TypeOK
    <3>3. InInbox(f)' = InInbox(f)
      BY <2>1 DEF InInbox
    <3>4. QED
      BY <1>8, <3>1, <3>2, <3>3, Counts
  <2>4. QED
    BY <1>9, <2>2, <2>3
<1>15. CASE SendFails(d)
  <2>1. Others /\ UNCHANGED <<file, sent>> /\ At(d) = "send" /\ Current(d)' = e
    BY <1>1, <1>4, <1>15 DEF SendFails
  <2>2. QED
    BY <1>4, <1>10, <2>1 DEF InInbox
<1>16. CASE PutBack(d)
  <2>1. e \in Event /\ At(d) = "back" /\ UNCHANGED sent
    BY <1>3, <1>4, <1>16 DEF PutBack
  <2>2. CASE file[e] = "claimed"
    <3>1. Others /\ Leaves /\ file' = [file EXCEPT ![e] = "inbox"]
      BY <1>2, <1>16, <2>2 DEF PutBack
    <3>2. ASSUME NEW f \in Event
          PROVE  sent'[f] + MayThen(f) + InInbox(f)' <= sent[f] + May(f) + InInbox(f)
      <4>1. MayThen(f) = 0 /\ May(f) = IF f = e THEN 1 ELSE 0
        BY <1>4, <1>7, <2>1, <3>1
      <4>2. f # e => InInbox(f)' = InInbox(f)
        BY <3>1 DEF InInbox, TypeOK
      <4>3. f = e => InInbox(f) = 0 /\ InInbox(f)' = 1
        BY <2>2, <3>1 DEF InInbox, TypeOK
      <4>4. QED
        BY <1>8, <2>1, <4>1, <4>2, <4>3, Counts
    <3>3. QED
      BY <1>9, <3>1, <3>2
  <2>3. CASE file[e] # "claimed"
    <3>1. Others /\ Stays("quarantine") /\ UNCHANGED file
      BY <1>1, <1>4, <1>16, <2>3 DEF PutBack
    <3>2. QED
      BY <1>4, <1>10, <2>1, <3>1 DEF InInbox
  <2>4. QED
    BY <2>2, <2>3
<1>17. CASE Unlink(d) \/ Quarantine(d) \/ Drop(d)
  <2>1. e \in Event /\ UNCHANGED sent
    BY <1>3, <1>4, <1>17 DEF Unlink, Quarantine, Drop
  <2>2. Others /\ drain'[d].at \notin Ahead
    BY <1>1, <1>2, <1>4, <1>17 DEF Unlink, Quarantine, Drop
  <2>3. \A f \in Event : file'[f] = file[f] \/ (file[f] = "claimed" /\ file'[f] \in {"gone", "failed"})
    BY <1>17, <2>1 DEF Unlink, Quarantine, Drop, TypeOK
  <2>4. QED
    BY <1>10, <2>1, <2>2, <2>3 DEF InInbox
<1>18. CASE Trim(d)
  <2>1. Others /\ Leaves /\ UNCHANGED sent
    BY <1>18, TrimEffect DEF Trim, Holding, Idle
  <2>2. \A f \in Event : file'[f] = file[f] \/ (file[f] = "failed" /\ file'[f] = "gone")
    BY <1>18, TrimEffect
  <2>3. QED
    BY <1>10, <2>1, <2>2 DEF InInbox
<1>19. CASE OperationFails(d)
  <2>1. Others /\ drain'[d].at \notin Ahead /\ UNCHANGED <<file, sent>>
    BY <1>1, <1>2, <1>4, <1>19 DEF OperationFails
  <2>2. QED
    BY <1>10, <2>1 DEF InInbox
<1>20. QED
  BY <1>11, <1>12, <1>13, <1>14, <1>15, <1>16, <1>17, <1>18, <1>19 DEF Work

LEMMA NextOnce == OnceInv /\ [Next]_vars => OnceInv'
<1> SUFFICES ASSUME OnceInv, [Next]_vars
             PROVE  OnceInv'
  OBVIOUS
<1>1. TypeOK' /\ BatchInv'
  BY NextTypes DEF OnceInv
<1>2. CASE UNCHANGED vars
  BY <1>1, <1>2 DEF vars, OnceInv, ChancesInv, Untouched, Sending, Returning, InInbox, At, Current
<1>3. CASE Next
  BY <1>1, <1>3, AppOnce, ServerOnce, WorkOnce DEF Next
<1>4. QED
  BY <1>2, <1>3

\* An event is sent at most once for each start of a server, however many
\* drains run at the same time and whatever dies (processInbox's claim by rename).
THEOREM SentOnce == Spec => []SentOncePerStart
<1>1. OnceInv => SentOncePerStart
  <2>1. ASSUME OnceInv, NEW e \in Event
        PROVE  sent[e] <= starts
    <3>1. sent[e] \in Nat /\ starts \in Nat
      BY <2>1 DEF OnceInv, TypeOK
    <3>2. QED
      BY <2>1, <3>1, Counts DEF OnceInv, ChancesInv, Untouched
  <2>2. QED
    BY <2>1 DEF SentOncePerStart
<1>2. QED
  BY <1>1, InitOnce, NextOnce, PTL DEF Spec
=============================================================================
