------------------------ MODULE BusEndpointsProofs ------------------------
(***************************************************************************)
(* The registry of endpoints implements BusRegistry, replaces nobody whose *)
(* process runs and keeps every mailbox, for any callers, conversations,   *)
(* sessions and processes, any number of endpoints and succession records, *)
(* and any budget of exits, deaths and failures.                           *)
(***************************************************************************)
EXTENDS BusEndpoints, FiniteSetTheorems, WellFoundedInduction, TLAPS

(***************************************************************************)
(* The strengthening.  endpoints.lock is held by the one call that joins   *)
(* or passes a seat on; an endpoint's lock across two steps only by one    *)
(* that passes it on.                                                      *)
(***************************************************************************)
UnderOuter == {"mailbox", "incumbent", "create", "claim", "rebind", "settle"}
UnderInner == {"rebind", "settle"}
HookSteps  == {"consume", "claim", "rebind", "settle", "find"}
OfEndpoint == {"incumbent", "leave", "force", "mint", "claim", "rebind", "settle",
               "refresh", "persist"}

\* What a call works with.
CallOf(x) ==
    /\ call[x].at \notin {"idle", "force"} => call[x].s \in Session
    /\ call[x].at \in OfEndpoint => call[x].e \in Endpoint
    /\ call[x].at \in {"leave", "force", "mint", "rebind", "settle", "refresh", "persist"} =>
          call[x].e \in Registered
    /\ call[x].at \in {"incumbent", "create"} => call[x].id \in Endpoint
    /\ call[x].at \in {"claim", "rebind", "settle"} => call[x].l \in Lineage

LocksOf(x) ==
    /\ call[x].at \in UnderOuter => outer = x
    /\ call[x].at \in UnderInner => inner[call[x].e] = x

\* A call is for a session up to the present one, a hook for the present one.
SessionOf(x) ==
    /\ call[x].s \in Session => call[x].s[2] <= client[call[x].s[1]].k
    /\ call[x].at \in HookSteps => call[x].s[2] = client[call[x].s[1]].k

\* A join that passed its checks: its session has no seat, there is one for it,
\* and the endpoint it replaces has no heir.
JoinOf(x) ==
    call[x].at \in {"mailbox", "incumbent", "create"} =>
        /\ Seats(call[x].s) = {}
        /\ Cardinality(Active \ {call[x].e}) < 2
        /\ call[x].e # None => /\ call[x].e \in Registered
                               /\ \A f \in Endpoint : ep[f].pred # call[x].e
        /\ call[x].at = "create" => call[x].e \notin Active
        /\ call[x].at # "mailbox" => call[x].id \in box \ Registered

\* A hook that passes a seat on.
PassOf(x) ==
    call[x].at \in {"claim", "rebind", "settle"} =>
        /\ lin[call[x].l].state # "absent" /\ lin[call[x].l].from[1] = call[x].s[1]
        /\ call[x].at = "rebind" => /\ call[x].e \in Active
                                    /\ ep[call[x].e].owner = lin[call[x].l].from
                                    /\ lin[call[x].l].from # call[x].s

CallInv(x) == CallOf(x) /\ LocksOf(x) /\ SessionOf(x) /\ JoinOf(x) /\ PassOf(x)

\* A registered endpoint has an owner; what was inherited is over.
RecordInv(e) ==
    /\ e \in Registered => ep[e].owner \in Session
    /\ ep[e].pred # None => ep[e].pred \in Registered \ Active

LineageInv(l) ==
    lin[l].state # "absent" =>
        /\ lin[l].seat \in Endpoint /\ lin[l].from \in Session
        /\ lin[l].from[2] <= client[lin[l].from[1]].k

IInv ==
    /\ TypeOK
    /\ \A x \in Caller : CallInv(x)
    /\ \A e \in Endpoint : RecordInv(e)
    /\ \A l \in Lineage : LineageInv(l)
    /\ MailboxesAreKept

----------------------------------------------------------------------------
(* Numbers, sessions and processes. *)

LEMMA LeastNumber ==
    ASSUME NEW S \in SUBSET Nat, S # {}
    PROVE  Min(S) \in S /\ \A n \in S : Min(S) <= n
<1> DEFINE Below(n) == 1..n
           Family == {Below(n) : n \in S}
<1>1. Family \subseteq FiniteSubsetsOf(Nat) /\ Family # {}
  <2>1. \A n \in S : IsFiniteSet(Below(n)) /\ Below(n) \subseteq Nat
    BY FS_Interval
  <2>2. QED
    BY <2>1 DEF FiniteSubsetsOf
<1>2. PICK T \in Family : \A U \in Family : ~(<<U, T>> \in StrictSubsetOrdering(Nat))
  <2> HIDE DEF Family
  <2> QED  BY <1>1, FS_StrictSubsetOrderingWellFounded, WFMin
<1>3. PICK m \in S : T = Below(m)
  OBVIOUS
<1>4. ASSUME NEW n \in S, n < m
      PROVE  FALSE
  <2>1. Below(n) \subseteq Below(m) /\ m \in Below(m) /\ m \notin Below(n)
    BY <1>4
  <2>2. Below(n) \in SUBSET Nat /\ Below(m) \in SUBSET Nat
    OBVIOUS
  <2>3. <<Below(n), Below(m)>> \in StrictSubsetOrdering(Nat)
    BY <2>1, <2>2 DEF StrictSubsetOrdering
  <2>4. QED
    BY <1>2, <1>3, <2>3
<1>5. \A n \in S : m <= n
  BY <1>4
<1>6. QED
  BY <1>5 DEF Min

LEMMA NoNone ==
    /\ None \notin Endpoint /\ None \notin Lineage /\ None \notin Session
    /\ None \notin Process /\ None \notin Caller
BY NoneAssumption

LEMMA SessionType ==
    /\ \A s \in Session : s[1] \in Conversation /\ s[2] \in Nat /\ s = <<s[1], s[2]>>
    /\ \A c \in Conversation, k \in Nat : k \in 1..MaxSessions[c] => <<c, k>> \in Session
BY EndpointsAssumption DEF Session

LEMMA NowType ==
    ASSUME TypeOK, NEW c \in Conversation
    PROVE  Now(c) \in Session /\ Now(c)[1] = c /\ Now(c)[2] = client[c].k
BY SessionType DEF Now, TypeOK, Client

LEMMA DetectedType ==
    ASSUME TypeOK, NEW c \in Conversation
    PROVE  Detected(c) \subseteq Process \cup {None}
<1>1. <<c, client[c].proc>> \in Process
  BY DEF TypeOK, Process
<1>2. QED
  BY <1>1 DEF Detected

LEMMA ActiveFinite ==
    /\ \A S \in SUBSET Endpoint : IsFiniteSet(S) /\ Cardinality(S) \in Nat
    /\ \A S, T \in SUBSET Endpoint : S \subseteq T => Cardinality(S) <= Cardinality(T)
<1>1. IsFiniteSet(Endpoint)
  BY FS_Interval, EndpointsAssumption DEF Endpoint
<1>2. \A S \in SUBSET Endpoint : IsFiniteSet(S)
  BY <1>1, FS_Subset
<1>3. QED
  BY <1>2, FS_Subset, FS_CardinalityType

\* The record that calls itself nothing, and calls that are over.
LEMMA IdleType ==
    /\ Idle \in Call /\ NoLineage \in Succession /\ NoRecord \in Record
BY DEF Idle, Call, NoLineage, Succession, NoRecord, Record

----------------------------------------------------------------------------
(* Types *)

LEMMA InitTypes == Init => TypeOK
BY EndpointsAssumption, IdleType DEF Init, TypeOK, Client

\* The ways in which a call goes on.
LEMMA CallSteps ==
    ASSUME TypeOK, NEW x \in Caller
    PROVE  /\ \A at \in {"idle", "attach", "leave", "force", "mint"} \cup Joining \cup Starting :
                 Go(x, at) => /\ call' \in [Caller -> Call]
                              /\ call'[x] = [call[x] EXCEPT !.at = at]
                              /\ \A y \in Caller : y # x => call'[y] = call[y]
           /\ End(x) => /\ call' \in [Caller -> Call] /\ call'[x] = Idle
                        /\ \A y \in Caller : y # x => call'[y] = call[y]
           /\ FreeOuter(x) => outer' \in Caller \cup {None}
           /\ FreeInner(x) => inner' \in [Endpoint -> Caller \cup {None}]
<1>1. ASSUME NEW at \in {"idle", "attach", "leave", "force", "mint"} \cup Joining \cup Starting, Go(x, at)
      PROVE  /\ call' \in [Caller -> Call]
             /\ call'[x] = [call[x] EXCEPT !.at = at]
             /\ \A y \in Caller : y # x => call'[y] = call[y]
  <2>1. call[x] \in Call /\ call' = [call EXCEPT ![x] = [call[x] EXCEPT !.at = at]]
    BY <1>1 DEF TypeOK, Go
  <2>2. [call[x] EXCEPT !.at = at] \in Call
    BY <1>1, <2>1 DEF Call
  <2>3. QED
    BY <2>1, <2>2 DEF TypeOK
<1>2. End(x) => /\ call' \in [Caller -> Call] /\ call'[x] = Idle
                /\ \A y \in Caller : y # x => call'[y] = call[y]
  BY IdleType DEF TypeOK, End
<1>3. FreeOuter(x) => outer' \in Caller \cup {None}
  BY DEF TypeOK, FreeOuter
<1>4. FreeInner(x) => inner' \in [Endpoint -> Caller \cup {None}]
  BY DEF TypeOK, FreeInner
<1>5. QED
  BY <1>1, <1>2, <1>3, <1>4

\* A record that is retired, refreshed or passed on is a record.
LEMMA RecordSteps ==
    ASSUME TypeOK, NEW e \in Endpoint
    PROVE  /\ \A how \in {"active", "replaced", "left", "forced"} :
                 ep' = [ep EXCEPT ![e] = Retired(@, how)] =>
                    /\ ep' \in [Endpoint -> Record]
                    /\ ep'[e] = [ep[e] EXCEPT !.status = how]
                    /\ \A f \in Endpoint : f # e => ep'[f] = ep[f]
           /\ \A r \in Process \cup {None} :
                 ep' = [ep EXCEPT ![e].ref = r] =>
                    /\ ep' \in [Endpoint -> Record]
                    /\ ep'[e] = [ep[e] EXCEPT !.ref = r]
                    /\ \A f \in Endpoint : f # e => ep'[f] = ep[f]
           /\ \A s \in Session :
                 ep' = [ep EXCEPT ![e] = [@ EXCEPT !.owner = s]] =>
                    /\ ep' \in [Endpoint -> Record]
                    /\ ep'[e] = [ep[e] EXCEPT !.owner = s]
                    /\ \A f \in Endpoint : f # e => ep'[f] = ep[f]
<1>1. ep[e] \in Record
  BY DEF TypeOK
<1>2. \A how \in {"active", "replaced", "left", "forced"} : [ep[e] EXCEPT !.status = how] \in Record
  BY <1>1 DEF Record
<1>3. \A r \in Process \cup {None} : [ep[e] EXCEPT !.ref = r] \in Record
  BY <1>1 DEF Record
<1>4. \A s \in Session : [ep[e] EXCEPT !.owner = s] \in Record
  BY <1>1 DEF Record
<1>5. QED
  BY <1>1, <1>2, <1>3, <1>4 DEF TypeOK, Retired

----------------------------------------------------------------------------
(* What a step of one call leaves to the others: without endpoints.lock, it *)
(* may retire endpoints and refresh them, but not add one nor pass one on.  *)

Shrinks ==
    /\ Active' \subseteq Active
    /\ \A e \in Endpoint : ep'[e].owner = ep[e].owner /\ ep'[e].pred = ep[e].pred
    /\ \A e \in Endpoint : inner[e] # None => ep'[e] = ep[e]
    /\ box \subseteq box' /\ Registered' = Registered

Frame(x) ==
    /\ \A y \in Caller : y # x => call'[y] = call[y]
    /\ Registered \subseteq Registered'
    /\ outer = x \/ (Shrinks /\ (outer' = outer \/ outer = None))
    /\ \A e \in Endpoint : inner[e] \notin {None, x} => inner'[e] = inner[e]
    /\ \A l \in Lineage : lin[l].state # "absent" =>
          /\ lin'[l].state # "absent"
          /\ lin'[l].from = lin[l].from /\ lin'[l].seat = lin[l].seat
    /\ \A c \in Conversation : client'[c].k = client[c].k

LEMMA OtherCalls ==
    ASSUME IInv, TypeOK', NEW x \in Caller, Frame(x), NEW y \in Caller, y # x
    PROVE  CallInv(y)'
<1>1. call'[y] = call[y] /\ CallInv(y)
  BY DEF Frame, IInv
<1>2. CallOf(y)'
  BY <1>1 DEF CallInv, CallOf, Frame
<1>3. outer = x => call[y].at \notin UnderOuter
  BY <1>1 DEF CallInv, LocksOf
<1>4. LocksOf(y)'
  <2>1. call[y].at \in UnderOuter => outer' = y
    BY <1>1, <1>3, NoNone DEF CallInv, LocksOf, Frame
  <2>2. call[y].at \in UnderInner => inner'[call[y].e] = y
    BY <1>1, NoNone DEF CallInv, CallOf, LocksOf, Frame, UnderInner, OfEndpoint
  <2>3. QED
    BY <1>1, <2>1, <2>2 DEF LocksOf
<1>5. SessionOf(y)'
  <2>1. \A s \in Session : client'[s[1]].k = client[s[1]].k
    BY SessionType DEF Frame
  <2>2. call[y].at \in HookSteps => call[y].s \in Session
    BY <1>1 DEF CallInv, CallOf, HookSteps
  <2>3. QED
    BY <1>1, <2>1, <2>2 DEF CallInv, SessionOf
<1>6. JoinOf(y)'
  <2>1. CASE outer = x
    BY <1>1, <1>3, <2>1 DEF JoinOf, UnderOuter
  <2>2. CASE outer # x
    <3>1. Shrinks
      BY <2>2 DEF Frame
    <3>2. Seats(call[y].s) = {} => Seats(call[y].s)' = {}
      BY <1>1, <3>1 DEF Shrinks, Seats, Owns
    <3>3. Cardinality((Active \ {call[y].e})') <= Cardinality(Active \ {call[y].e})
      <4>1. (Active \ {call[y].e})' \subseteq Active \ {call[y].e}
        BY <1>1, <3>1 DEF Shrinks
      <4>2. Active \ {call[y].e} \in SUBSET Endpoint /\ (Active \ {call[y].e})' \in SUBSET Endpoint
        BY DEF Active
      <4>3. QED
        BY <4>1, <4>2, ActiveFinite
    <3>4. Cardinality((Active \ {call[y].e})') \in Nat /\ Cardinality(Active \ {call[y].e}) \in Nat
      <4>1. Active \ {call[y].e} \in SUBSET Endpoint /\ (Active \ {call[y].e})' \in SUBSET Endpoint
        BY DEF Active
      <4>2. QED
        BY <4>1, ActiveFinite
    <3>5. Cardinality(Active \ {call[y].e}) < 2 => Cardinality((Active \ {call[y].e})') < 2
      BY <3>3, <3>4
    <3>6. QED
      BY <1>1, <3>1, <3>2, <3>5 DEF CallInv, JoinOf, Shrinks
  <2>3. QED
    BY <2>1, <2>2
<1>7. PassOf(y)'
  <2>1. CASE call[y].at \notin {"claim", "rebind", "settle"}
    BY <1>1, <2>1 DEF PassOf
  <2>2. CASE call[y].at \in {"claim", "rebind", "settle"}
    <3>1. outer # x /\ call[y].l \in Lineage
      BY <1>1, <1>3, <2>2 DEF CallInv, CallOf, UnderOuter
    <3>2. /\ lin[call[y].l].state # "absent" /\ lin[call[y].l].from[1] = call[y].s[1]
          /\ lin'[call[y].l].state # "absent" /\ lin'[call[y].l].from = lin[call[y].l].from
      BY <1>1, <2>2, <3>1 DEF CallInv, PassOf, Frame
    <3>3. call[y].at = "rebind" => /\ call[y].e \in Endpoint /\ inner[call[y].e] # None
                                   /\ ep'[call[y].e] = ep[call[y].e]
      BY <1>1, <3>1, NoNone DEF CallInv, CallOf, LocksOf, Frame, Shrinks, UnderInner, OfEndpoint
    <3>4. QED
      BY <1>1, <3>2, <3>3 DEF CallInv, PassOf, Active
  <2>3. QED
    BY <2>1, <2>2
<1>8. QED
  BY <1>2, <1>4, <1>5, <1>6, <1>7 DEF CallInv

\* Without endpoints.lock, records keep their owner and what they inherited.
LEMMA RecordsShrink ==
    ASSUME IInv, Shrinks
    PROVE  (\A e \in Endpoint : RecordInv(e))' /\ MailboxesAreKept'
BY DEF IInv, Shrinks, RecordInv, MailboxesAreKept, Registered, Active

\* Lineages that a step does not make.
LEMMA LineagesStay ==
    ASSUME IInv, NEW x, Frame(x), NEW l \in Lineage,
           lin'[l].state # "absent" => lin[l].state # "absent"
    PROVE  LineageInv(l)'
<1>1. lin[l].state # "absent" => lin[l].from[1] \in Conversation
  BY SessionType DEF IInv, LineageInv
<1>2. QED
  BY <1>1 DEF IInv, LineageInv, Frame

\* Enough for a step of one call.
LEMMA StepInv ==
    ASSUME IInv, TypeOK', NEW x \in Caller, Frame(x), CallInv(x)',
           (\A e \in Endpoint : RecordInv(e))', (\A l \in Lineage : LineageInv(l))', MailboxesAreKept'
    PROVE  IInv'
BY OtherCalls DEF IInv

----------------------------------------------------------------------------
(* Joins *)

\* A call that is over needs nothing.
LEMMA OverInv ==
    ASSUME NEW x \in Caller, call'[x] = Idle
    PROVE  CallInv(x)'
BY NoNone DEF CallInv, CallOf, LocksOf, SessionOf, JoinOf, PassOf, Idle, OfEndpoint, UnderOuter,
              UnderInner, HookSteps

LEMMA JoinChecksInv ==
    ASSUME IInv, NEW x \in Caller, JoinChecks(x)
    PROVE  IInv'
<1> DEFINE s == call[x].s
           r == call[x].e
<1>1. TypeOK /\ CallInv(x) /\ s \in Session /\ call[x] \in Call
  BY DEF IInv, CallInv, CallOf, JoinChecks, TypeOK
<1>2. UNCHANGED <<ep, lin, inner, client, promise, spent>> /\ outer = None
  BY DEF JoinChecks
<1>3. UNCHANGED <<Active, Registered>>
  BY <1>2 DEF Active, Registered
<1>4. ASSUME box \subseteq box', box' \subseteq Endpoint, outer' \in {x, None},
             call' \in [Caller -> Call], \A y \in Caller : y # x => call'[y] = call[y], CallInv(x)'
      PROVE  IInv'
  <2>1. TypeOK'
    BY <1>1, <1>2, <1>4 DEF TypeOK
  <2>2. Shrinks /\ Frame(x)
    BY <1>2, <1>3, <1>4 DEF Shrinks, Frame
  <2>3. (\A l \in Lineage : LineageInv(l))'
    BY <1>2, <2>2, LineagesStay
  <2>4. QED
    BY <1>4, <2>1, <2>2, <2>3, RecordsShrink, StepInv
<1>5. CASE call' = [call EXCEPT ![x] = Idle] /\ box \subseteq box' /\ box' \subseteq Endpoint /\ outer' = outer
  BY <1>1, <1>2, <1>4, <1>5, IdleType, OverInv DEF TypeOK
<1>6. ASSUME NEW e \in Seats(s), box' = box \cup {e}, UNCHANGED outer,
             call' = [call EXCEPT ![x] = [Idle EXCEPT !.at = "refresh", !.s = s, !.e = e]]
      PROVE  IInv'
  <2> DEFINE new == [Idle EXCEPT !.at = "refresh", !.s = s, !.e = e]
  <2>1. e \in Registered /\ e \in Endpoint
    BY DEF Seats, Owns, Active, Registered
  <2>2. /\ new.at = "refresh" /\ new.s = s /\ new.e = e /\ new.id = None /\ new.l = None
        /\ new \in Call
    BY <1>1, <2>1, IdleType DEF Call, Idle, Starting
  <2>3. /\ call' \in [Caller -> Call] /\ call'[x] = new
        /\ \A y \in Caller : y # x => call'[y] = call[y]
    <3> HIDE DEF new
    <3> QED  BY <1>1, <1>6, <2>2 DEF TypeOK, new
  <2>4. client[s[1]].k = client'[s[1]].k /\ s[2] <= client[s[1]].k
    BY <1>1, <1>2 DEF CallInv, SessionOf
  <2>5. CallInv(x)'
    <3> HIDE DEF new
    <3> QED  BY <1>1, <1>3, <2>1, <2>2, <2>3, <2>4 DEF CallInv, CallOf, LocksOf, SessionOf, JoinOf, PassOf, OfEndpoint,
              UnderOuter, UnderInner, HookSteps
  <2>6. box' \subseteq Endpoint
    BY <1>1, <1>6, <2>1 DEF TypeOK
  <2>7. QED
    BY <1>2, <1>4, <1>6, <2>3, <2>5, <2>6
<1>7. ASSUME Seats(s) = {}, Cardinality(Active \ {r}) < 2, r # None => Replaceable(r),
             outer' = x, Go(x, "mailbox"), UNCHANGED box
      PROVE  IInv'
  <2>1. /\ call' \in [Caller -> Call] /\ call'[x] = [call[x] EXCEPT !.at = "mailbox"]
        /\ \A y \in Caller : y # x => call'[y] = call[y]
    BY <1>1, <1>7, CallSteps DEF Joining
  <2>2. call'[x].at = "mailbox" /\ call'[x].s = s /\ call'[x].e = r
    BY <1>1, <2>1 DEF Call
  <2>3. r # None => r \in Active /\ r \in Registered
    BY <1>1, <1>7, NoNone DEF Replaceable, Active, Registered, Call
  <2>4. r # None => \A f \in Endpoint : ep[f].pred # r
    BY <2>3 DEF IInv, RecordInv
  <2>5. client[s[1]].k = client'[s[1]].k /\ s[2] <= client[s[1]].k
    BY <1>1, <1>2 DEF CallInv, SessionOf
  <2>6. Seats(s)' = {} /\ call'[x].s = s
    BY <1>2, <1>7, <2>2 DEF Seats, Owns, Active
  <2>7. CallOf(x)' /\ LocksOf(x)' /\ SessionOf(x)' /\ PassOf(x)'
    BY <1>1, <1>7, <2>2, <2>5 DEF CallOf, LocksOf, SessionOf, PassOf, OfEndpoint, UnderInner, HookSteps
  <2>8. JoinOf(x)'
    BY <1>2, <1>3, <1>7, <2>2, <2>3, <2>4, <2>6 DEF JoinOf, Seats
  <2>9. box' \subseteq Endpoint
    BY <1>1, <1>7 DEF TypeOK
  <2>10. QED
    BY <1>2, <1>4, <1>7, <2>1, <2>7, <2>8, <2>9 DEF CallInv
<1>8. ASSUME NEW e \in Seats(s), box' = box \cup {e}, UNCHANGED outer, call' = [call EXCEPT ![x] = Idle]
      PROVE  IInv'
  <2>1. box \subseteq box' /\ box' \subseteq Endpoint
    BY <1>1, <1>8 DEF TypeOK, Seats
  <2>2. QED
    BY <1>5, <1>8, <2>1
<1>9. ASSUME End(x), UNCHANGED <<box, outer>>
      PROVE  IInv'
  BY <1>1, <1>5, <1>9 DEF TypeOK, End
<1>10. QED
  <2>1. ASSUME NEW e \in Seats(s), box' = box \cup {e}, UNCHANGED outer,
               call' = [call EXCEPT ![x] = IF call[x].child THEN Idle
                              ELSE [Idle EXCEPT !.at = "refresh", !.s = s, !.e = e]]
        PROVE  IInv'
    BY <1>6, <1>8, <2>1
  <2>2. QED
    BY <1>7, <1>9, <2>1 DEF JoinChecks

LEMMA MakeMailboxInv ==
    ASSUME IInv, NEW x \in Caller, MakeMailbox(x)
    PROVE  IInv'
<1> DEFINE kept == box \cap Registered
           r == call[x].e
<1>1. TypeOK /\ CallInv(x) /\ call[x] \in Call /\ call[x].s \in Session /\ outer = x
  BY DEF IInv, CallInv, CallOf, LocksOf, MakeMailbox, TypeOK, UnderOuter
<1>2. UNCHANGED <<ep, lin, inner, client, promise, spent>> /\ call[x].at = "mailbox"
  BY DEF MakeMailbox
<1>3. UNCHANGED <<Active, Registered>> /\ kept = Registered
  BY <1>2 DEF Active, Registered, IInv, MailboxesAreKept
<1>4. ASSUME Registered \subseteq box', box' \subseteq Endpoint, outer' \in {x, None},
             call' \in [Caller -> Call], \A y \in Caller : y # x => call'[y] = call[y], CallInv(x)'
      PROVE  IInv'
  <2>1. TypeOK'
    BY <1>1, <1>2, <1>4 DEF TypeOK
  <2>2. Frame(x)
    BY <1>1, <1>2, <1>3, <1>4 DEF Frame
  <2>3. (\A l \in Lineage : LineageInv(l))'
    BY <1>2, <2>2, LineagesStay
  <2>4. (\A e \in Endpoint : RecordInv(e))'
    BY <1>2, <1>3 DEF IInv, RecordInv
  <2>5. MailboxesAreKept'
    BY <1>3, <1>4 DEF MailboxesAreKept
  <2>6. QED
    BY <1>4, <2>1, <2>2, <2>3, <2>4, <2>5, StepInv
<1>5. PICK ref \in Detected(call[x].s[1]), id \in Endpoint :
         /\ id \notin Registered \cup box
         /\ box' = kept \cup {id}
         /\ call' = [call EXCEPT ![x].at = IF r = None THEN "create" ELSE "incumbent",
                                 ![x].ref = ref, ![x].id = id]
         /\ UNCHANGED outer
  BY <1>3 DEF MakeMailbox
<1> DEFINE at == IF r = None THEN "create" ELSE "incumbent"
           new == [call[x] EXCEPT !.at = at, !.ref = ref, !.id = id]
<1>6. ref \in Process \cup {None}
  BY <1>1, DetectedType, SessionType
<1>7. new \in Call /\ new.at = at /\ new.id = id /\ new.s = call[x].s /\ new.e = r
  BY <1>1, <1>6 DEF Call, Joining
<1>8. /\ call' \in [Caller -> Call] /\ call'[x] = new
      /\ \A y \in Caller : y # x => call'[y] = call[y]
  <2>1. call' = [call EXCEPT ![x] = new]
    BY <1>1, <1>5 DEF TypeOK, Call
  <2> HIDE DEF new
  <2>2. QED
    BY <1>1, <1>7, <2>1 DEF TypeOK
<1>9. CallInv(x)'
  <2> HIDE DEF new
  <2>1. r = None \/ r \in Endpoint
    BY <1>1 DEF Call
  <2>2. CallOf(x)' /\ LocksOf(x)' /\ SessionOf(x)' /\ PassOf(x)'
    <3>1. call[x].s[2] <= client[call[x].s[1]].k
      BY <1>1 DEF CallInv, SessionOf
    <3>2. QED
      BY <1>1, <1>2, <1>5, <1>7, <1>8, <2>1, <3>1 DEF CallOf, LocksOf, SessionOf, PassOf, OfEndpoint,
         UnderOuter, UnderInner, HookSteps
  <2>3. /\ Seats(call[x].s) = {} /\ Cardinality(Active \ {r}) < 2
        /\ r # None => r \in Registered /\ \A f \in Endpoint : ep[f].pred # r
    BY <1>1, <1>2 DEF CallInv, JoinOf
  <2>4. Seats(call[x].s)' = {}
    BY <1>2, <1>7, <1>8, <2>3 DEF Seats, Owns, Active
  <2>5. None \notin Active
    BY NoNone DEF Active
  <2>6. QED
    BY <1>2, <1>3, <1>5, <1>7, <1>8, <2>2, <2>3, <2>4, <2>5 DEF CallInv, JoinOf, Seats
<1>10. box' \subseteq Endpoint
  BY <1>5 DEF Registered
<1>11. QED
  BY <1>1, <1>3, <1>4, <1>5, <1>8, <1>9, <1>10

\* A join's mailbox is removed while no record needs it.
LEMMA GiveUpInv ==
    ASSUME IInv, NEW x \in Caller, call[x].at \in {"incumbent"}, GiveUpJoin(x),
           UNCHANGED <<lin, inner, client>>, promise' \in [Conversation -> Endpoint \cup {None}],
           spent' \in 0..Budget, ep' \in [Endpoint -> Record],
           \A e \in Endpoint : RecordInv(e)', Registered' = Registered
    PROVE  IInv'
<1>1. TypeOK /\ CallInv(x) /\ outer = x /\ call[x].id \in box \ Registered
  BY DEF IInv, CallInv, LocksOf, JoinOf, UnderOuter
<1>2. /\ call' \in [Caller -> Call] /\ call'[x] = Idle
      /\ \A y \in Caller : y # x => call'[y] = call[y]
      /\ outer' = None /\ box' = box \ {call[x].id}
  BY <1>1, CallSteps DEF GiveUpJoin, FreeOuter
<1>3. TypeOK'
  BY <1>1, <1>2 DEF TypeOK
<1>4. Frame(x)
  BY <1>1, <1>2 DEF Frame
<1>5. (\A l \in Lineage : LineageInv(l))'
  BY <1>4, LineagesStay
<1>6. MailboxesAreKept'
  BY <1>1, <1>2 DEF IInv, MailboxesAreKept
<1>7. QED
  BY <1>2, <1>3, <1>4, <1>5, <1>6, OverInv, StepInv

\* What retiring an endpoint does to the registry.
LEMMA RetireEffect ==
    ASSUME IInv, NEW e \in Endpoint, NEW how \in {"replaced", "left", "forced"}, e \in Registered,
           ep' = [ep EXCEPT ![e] = Retired(@, how)]
    PROVE  /\ ep' \in [Endpoint -> Record]
           /\ Registered' = Registered /\ Active' = Active \ {e}
           /\ \A f \in Endpoint : ep'[f].owner = ep[f].owner /\ ep'[f].pred = ep[f].pred
           /\ \A f \in Endpoint : f # e => ep'[f] = ep[f]
           /\ \A f \in Endpoint : RecordInv(f)'
<1>1. /\ ep' \in [Endpoint -> Record] /\ ep[e] \in Record
      /\ ep'[e] = [ep[e] EXCEPT !.status = how]
      /\ \A f \in Endpoint : f # e => ep'[f] = ep[f]
  BY RecordSteps DEF IInv, TypeOK
<1>2. ep'[e].status = how /\ ep'[e].owner = ep[e].owner /\ ep'[e].pred = ep[e].pred
  BY <1>1 DEF Record
<1>3. Registered' = Registered /\ Active' = Active \ {e}
  BY <1>1, <1>2 DEF Registered, Active
<1>4. \A f \in Endpoint : ep'[f].owner = ep[f].owner /\ ep'[f].pred = ep[f].pred
  BY <1>1, <1>2
<1>5. QED
  BY <1>1, <1>3, <1>4 DEF IInv, RecordInv

LEMMA ReplaceInv ==
    ASSUME IInv, NEW x \in Caller, Replace(x)
    PROVE  IInv'
<1> DEFINE r == call[x].e
<1>1. TypeOK /\ CallInv(x) /\ call[x] \in Call /\ r \in Endpoint /\ outer = x
  BY DEF IInv, CallInv, CallOf, LocksOf, Replace, TypeOK, OfEndpoint, UnderOuter
<1>2. UNCHANGED <<lin, inner, client, promise, spent>> /\ call[x].at = "incumbent"
  BY DEF Replace
<1>3. CASE Replaceable(r) /\ ep' = [ep EXCEPT ![r] = Retired(@, "replaced")] /\ Go(x, "create")
           /\ UNCHANGED <<box, outer>>
  <2>1. r \in Registered /\ r \in Active
    BY <1>3 DEF Replaceable, Active, Registered
  <2>2. /\ ep' \in [Endpoint -> Record]
        /\ Registered' = Registered /\ Active' = Active \ {r}
        /\ \A f \in Endpoint : ep'[f].owner = ep[f].owner /\ ep'[f].pred = ep[f].pred
        /\ \A f \in Endpoint : RecordInv(f)'
    BY <1>1, <1>3, <2>1, RetireEffect
  <2>3. /\ call' \in [Caller -> Call] /\ call'[x] = [call[x] EXCEPT !.at = "create"]
        /\ \A y \in Caller : y # x => call'[y] = call[y]
    BY <1>1, <1>3, CallSteps DEF Joining
  <2>4. /\ call'[x].at = "create" /\ call'[x].s = call[x].s /\ call'[x].e = r
        /\ call'[x].id = call[x].id
    BY <1>1, <2>3 DEF Call
  <2>5. TypeOK'
    BY <1>1, <1>2, <1>3, <2>2, <2>3 DEF TypeOK
  <2>6. Frame(x)
    BY <1>1, <1>2, <1>3, <2>2, <2>3 DEF Frame
  <2>7. CallOf(x)' /\ LocksOf(x)' /\ SessionOf(x)' /\ PassOf(x)'
    <3>1. call[x].s \in Session /\ call[x].id \in Endpoint /\ call[x].s[2] <= client[call[x].s[1]].k
      BY <1>1, <1>2 DEF CallInv, CallOf, SessionOf
    <3>2. QED
      BY <1>1, <1>2, <1>3, <2>4, <3>1 DEF CallOf, LocksOf, SessionOf, PassOf, OfEndpoint, UnderInner, HookSteps
  <2>8. JoinOf(x)'
    <3>1. /\ Seats(call[x].s) = {} /\ Cardinality(Active \ {r}) < 2
          /\ \A f \in Endpoint : ep[f].pred # r
          /\ call[x].id \in box \ Registered
      BY <1>1, <1>2, NoNone DEF CallInv, JoinOf
    <3>2. Seats(call[x].s)' = {}
      BY <2>2, <2>4, <3>1 DEF Seats, Owns
    <3>3. (Active \ {r})' = Active \ {r} /\ r \notin Active'
      BY <2>2, <2>4
    <3>4. QED
      BY <1>3, <2>1, <2>2, <2>4, <3>1, <3>2, <3>3 DEF JoinOf
  <2>9. (\A l \in Lineage : LineageInv(l))'
    BY <1>2, <2>6, LineagesStay
  <2>10. MailboxesAreKept'
    BY <1>3, <2>2 DEF IInv, MailboxesAreKept
  <2>11. QED
    BY <2>2, <2>5, <2>6, <2>7, <2>8, <2>9, <2>10, StepInv DEF CallInv
<1>4. CASE GiveUpJoin(x) /\ UNCHANGED ep
  <2>1. \A e \in Endpoint : RecordInv(e)'
    BY <1>4 DEF IInv, RecordInv, Registered, Active
  <2>2. Registered' = Registered
    BY <1>4 DEF Registered
  <2>3. QED
    BY <1>1, <1>2, <1>4, <2>1, <2>2, GiveUpInv DEF TypeOK
<1>5. QED
  BY <1>3, <1>4 DEF Replace

LEMMA ReplaceFailsInv ==
    ASSUME IInv, NEW x \in Caller, ReplaceFails(x)
    PROVE  IInv'
<1> DEFINE r == call[x].e
<1>1. TypeOK /\ CallInv(x) /\ call[x] \in Call /\ r \in Endpoint /\ outer = x
  BY DEF IInv, CallInv, CallOf, LocksOf, ReplaceFails, TypeOK, OfEndpoint, UnderOuter
<1>2. UNCHANGED <<lin, inner, client, promise>> /\ call[x].at = "incumbent" /\ r \in Registered
      /\ r \in Active /\ GiveUpJoin(x)
  BY DEF ReplaceFails, Replaceable, Active, Registered
<1>3. spent' \in 0..Budget
  BY <1>1, EndpointsAssumption DEF ReplaceFails, Spend, TypeOK
<1>4. PICK how \in {"active", "replaced"} : ep' = [ep EXCEPT ![r] = Retired(@, how)]
  BY DEF ReplaceFails
<1>5. CASE how = "replaced"
  <2>1. /\ ep' \in [Endpoint -> Record] /\ Registered' = Registered
        /\ \A f \in Endpoint : RecordInv(f)'
    BY <1>1, <1>2, <1>4, <1>5, RetireEffect
  <2>2. QED
    BY <1>1, <1>2, <1>3, <2>1, GiveUpInv DEF TypeOK
<1>6. CASE how = "active"
  <2>1. ep' = ep
    <3>1. ep[r] \in Record /\ ep[r].status = "active"
      BY <1>1, <1>2 DEF TypeOK, Active
    <3>2. [ep[r] EXCEPT !.status = "active"] = ep[r]
      BY <3>1 DEF Record
    <3>3. QED
      BY <1>1, <1>4, <1>6, <3>2 DEF TypeOK, Retired
  <2>2. Registered' = Registered /\ \A e \in Endpoint : RecordInv(e)'
    BY <2>1 DEF IInv, RecordInv, Registered, Active
  <2>3. QED
    BY <1>1, <1>2, <1>3, <2>1, <2>2, GiveUpInv DEF TypeOK
<1>7. QED
  BY <1>5, <1>6

\* The new record, its owner and what it inherits.
LEMMA CreateEffect ==
    ASSUME IInv, NEW x \in Caller, call[x].at = "create",
           ep' = [ep EXCEPT ![call[x].id] = NewRecord(x)]
    PROVE  /\ call[x].id \in Endpoint /\ call[x].id \in box \ Registered /\ call[x].s \in Session
           /\ ep' \in [Endpoint -> Record] /\ ep'[call[x].id] = NewRecord(x)
           /\ \A f \in Endpoint : f # call[x].id => ep'[f] = ep[f]
           /\ Registered' = Registered \cup {call[x].id}
           /\ Active' = Active \cup {call[x].id}
           /\ \A f \in Endpoint : RecordInv(f)'
<1> DEFINE i == call[x].id
<1>1. /\ TypeOK /\ call[x] \in Call /\ CallInv(x) /\ i \in Endpoint /\ i \in box \ Registered
      /\ call[x].s \in Session
  BY DEF IInv, CallInv, CallOf, JoinOf, TypeOK
<1>2. NewRecord(x) \in Record /\ NewRecord(x).status = "active" /\ NewRecord(x).owner = call[x].s
      /\ NewRecord(x).pred = call[x].e
  BY <1>1 DEF NewRecord, Record, Call
<1>3. /\ ep' \in [Endpoint -> Record] /\ ep'[i] = NewRecord(x)
      /\ \A f \in Endpoint : f # i => ep'[f] = ep[f]
  BY <1>1, <1>2 DEF TypeOK
<1>4. Registered' = Registered \cup {i} /\ Active' = Active \cup {i}
  BY <1>1, <1>2, <1>3 DEF Registered, Active
<1>5. call[x].e # None => call[x].e \in Registered \ Active
  BY <1>1 DEF CallInv, JoinOf
<1>6. ASSUME NEW f \in Endpoint
      PROVE  RecordInv(f)'
  <2>1. CASE f = i
    BY <1>1, <1>2, <1>3, <1>4, <1>5, <2>1 DEF RecordInv
  <2>2. CASE f # i
    BY <1>1, <1>3, <1>4, <2>2 DEF IInv, RecordInv
  <2>3. QED
    BY <2>1, <2>2
<1>7. QED
  BY <1>1, <1>3, <1>4, <1>6

LEMMA CreateInv ==
    ASSUME IInv, NEW x \in Caller, CreateEndpoint(x) \/ CreateFails(x)
    PROVE  IInv'
<1>1. TypeOK /\ CallInv(x) /\ outer = x /\ call[x].at = "create"
  BY DEF IInv, CallInv, LocksOf, CreateEndpoint, CreateFails, UnderOuter
<1>2. UNCHANGED <<box, lin, inner, client, promise>> /\ spent' \in 0..Budget
  BY <1>1, EndpointsAssumption DEF CreateEndpoint, CreateFails, Spend, TypeOK
<1>3. /\ call' \in [Caller -> Call] /\ call'[x] = Idle
      /\ \A y \in Caller : y # x => call'[y] = call[y]
      /\ outer' = None
  BY <1>1, CallSteps DEF CreateEndpoint, CreateFails, FreeOuter
<1>4. ep' = ep \/ ep' = [ep EXCEPT ![call[x].id] = NewRecord(x)]
  BY <1>1 DEF CreateEndpoint, CreateFails, TypeOK
<1>5. /\ ep' \in [Endpoint -> Record] /\ Registered \subseteq Registered' /\ Registered' \subseteq box
      /\ \A f \in Endpoint : RecordInv(f)'
  <2>1. CASE ep' = ep
    <3>1. Registered' = Registered /\ Active' = Active
      BY <2>1 DEF Registered, Active
    <3>2. \A f \in Endpoint : RecordInv(f)'
      BY <2>1, <3>1 DEF IInv, RecordInv
    <3>3. ep' \in [Endpoint -> Record]
      BY <1>1, <2>1 DEF TypeOK
    <3>4. Registered \subseteq box
      BY DEF IInv, MailboxesAreKept
    <3>5. QED
      BY <3>1, <3>2, <3>3, <3>4
  <2>2. CASE ep' = [ep EXCEPT ![call[x].id] = NewRecord(x)]
    <3>1. /\ ep' \in [Endpoint -> Record] /\ call[x].id \in box
          /\ Registered' = Registered \cup {call[x].id}
          /\ \A f \in Endpoint : RecordInv(f)'
      BY <1>1, <2>2, CreateEffect
    <3>2. Registered \subseteq box
      BY DEF IInv, MailboxesAreKept
    <3>3. QED
      BY <3>1, <3>2
  <2>3. QED
    BY <1>4, <2>1, <2>2
<1>6. TypeOK'
  BY <1>1, <1>2, <1>3, <1>5 DEF TypeOK
<1>7. Frame(x)
  BY <1>1, <1>2, <1>3, <1>5 DEF Frame
<1>8. (\A l \in Lineage : LineageInv(l))'
  BY <1>2, <1>7, LineagesStay
<1>9. MailboxesAreKept'
  BY <1>2, <1>5 DEF MailboxesAreKept
<1>10. QED
  BY <1>3, <1>5, <1>6, <1>7, <1>8, <1>9, OverInv, StepInv

----------------------------------------------------------------------------
(* Steps that add no record: at most, an endpoint is retired or refreshed.   *)

\* Enough for a step that takes no lock, makes no lineage and changes no seat.
LEMMA PlainInv ==
    ASSUME IInv, TypeOK', NEW x \in Caller, Shrinks, outer' = outer \/ (outer = x /\ outer' = None),
           UNCHANGED <<lin, inner, client>>,
           \A y \in Caller : y # x => call'[y] = call[y], CallInv(x)'
    PROVE  IInv'
<1>1. Frame(x)
  BY DEF Frame, Shrinks
<1>2. (\A l \in Lineage : LineageInv(l))'
  BY <1>1, LineagesStay
<1>3. QED
  BY <1>1, <1>2, RecordsShrink, StepInv

\* Nothing of the registry changes.
LEMMA SameRegistry ==
    ASSUME UNCHANGED <<ep, box>>
    PROVE  Shrinks /\ Registered' = Registered /\ Active' = Active
BY DEF Shrinks, Registered, Active

LEMMA CallOnlyInv ==
    ASSUME IInv, NEW x \in Caller, UNCHANGED <<ep, box, lin, outer, inner, client, promise, spent>>,
           call' \in [Caller -> Call], \A y \in Caller : y # x => call'[y] = call[y], CallInv(x)'
    PROVE  IInv'
<1>1. TypeOK'
  BY DEF IInv, TypeOK
<1>2. Shrinks
  BY SameRegistry
<1>3. outer' = outer /\ UNCHANGED <<lin, inner, client>>
  OBVIOUS
<1>4. QED
  BY <1>1, <1>2, <1>3, PlainInv

\* What a call that asks for a seat, an endpoint's lock or nothing more needs.
LEMMA LooseInv ==
    ASSUME NEW x \in Caller, call'[x].at \in {"attach", "join", "leave", "mint", "consume", "find", "refresh",
                                              "persist"},
           call'[x].s \in Session, SessionOf(x)',
           call'[x].at \in {"leave", "mint", "refresh", "persist"} => call'[x].e \in Registered'
    PROVE  CallInv(x)'
BY DEF CallInv, CallOf, LocksOf, JoinOf, PassOf, OfEndpoint, UnderOuter, UnderInner, Registered

LEMMA DecideInv ==
    ASSUME IInv, NEW x \in Caller, Decide(x)
    PROVE  IInv'
<1>1. TypeOK /\ CallInv(x) /\ call[x] \in Call /\ call[x].s \in Session
  BY DEF IInv, CallInv, CallOf, Decide, TypeOK
<1>2. UNCHANGED <<ep, box, lin, outer, inner, client, promise, spent>> /\ call[x].at = "attach"
  BY DEF Decide
<1>3. PICK Offline \in SUBSET {e \in Active : "offline" \in Liveness(ep[e])} :
          call' = IF Seats(call[x].s) # {} THEN [call EXCEPT ![x] = Idle]
                  ELSE IF Offline # {}
                  THEN [call EXCEPT ![x].at = "join", ![x].e = Min(Offline)]
                  ELSE IF Cardinality(Active) < 2 THEN [call EXCEPT ![x].at = "join"]
                  ELSE [call EXCEPT ![x] = Idle]
  BY DEF Decide
<1>4. Offline # {} => Min(Offline) \in Endpoint
  <2>1. Offline \in SUBSET Nat /\ Offline \subseteq Endpoint
    BY DEF Active, Endpoint
  <2>2. QED
    BY <2>1, LeastNumber
<1>5. ASSUME call'[x] = Idle, call' = [call EXCEPT ![x] = Idle]
      PROVE  IInv'
  <2>1. call' \in [Caller -> Call] /\ \A y \in Caller : y # x => call'[y] = call[y]
    BY <1>1, <1>5, IdleType DEF TypeOK
  <2>2. QED
    BY <1>2, <1>5, <2>1, OverInv, CallOnlyInv
<1>6. ASSUME NEW e \in Endpoint \cup {None}, call' = [call EXCEPT ![x] = [call[x] EXCEPT !.at = "join", !.e = e]]
      PROVE  IInv'
  <2>1. [call[x] EXCEPT !.at = "join", !.e = e] \in Call
    BY <1>1 DEF Call, Joining
  <2>2. call' \in [Caller -> Call]
    BY <1>1, <1>6, <2>1 DEF TypeOK
  <2>3. /\ call'[x].at = "join" /\ call'[x].s = call[x].s
        /\ \A y \in Caller : y # x => call'[y] = call[y]
    BY <1>1, <1>6 DEF TypeOK, Call
  <2>4. SessionOf(x)'
    BY <1>1, <1>2, <2>3 DEF CallInv, SessionOf, HookSteps
  <2>5. CallInv(x)'
    BY <1>1, <2>3, <2>4, LooseInv
  <2>6. QED
    BY <1>2, <2>2, <2>3, <2>5, CallOnlyInv
<1>7. QED
  <2>1. CASE call' = [call EXCEPT ![x] = Idle]
    BY <1>1, <1>5, <2>1 DEF TypeOK
  <2>2. CASE Offline # {} /\ call' = [call EXCEPT ![x].at = "join", ![x].e = Min(Offline)]
    <3>1. call' = [call EXCEPT ![x] = [call[x] EXCEPT !.at = "join", !.e = Min(Offline)]]
      BY <1>1, <2>2 DEF TypeOK
    <3>2. QED
      BY <1>4, <1>6, <2>2, <3>1
  <2>3. CASE call' = [call EXCEPT ![x].at = "join"]
    <3>1. [call[x] EXCEPT !.at = "join"] = [call[x] EXCEPT !.at = "join", !.e = call[x].e]
      BY <1>1 DEF Call
    <3>2. call' = [call EXCEPT ![x] = [call[x] EXCEPT !.at = "join", !.e = call[x].e]]
      BY <1>1, <2>3, <3>1 DEF TypeOK
    <3>3. call[x].e \in Endpoint \cup {None}
      BY <1>1 DEF Call
    <3>4. QED
      BY <1>6, <3>2, <3>3
  <2>4. QED
    BY <1>3, <2>1, <2>2, <2>3

LEMMA AssertCallerInv ==
    ASSUME IInv, NEW x \in Caller, AssertCaller(x)
    PROVE  IInv'
<1>1. TypeOK /\ CallInv(x) /\ call[x] \in Call /\ call[x].s \in Session /\ call[x].e \in Registered
  BY DEF IInv, CallInv, CallOf, AssertCaller, TypeOK
<1>2. UNCHANGED <<ep, box, lin, outer, inner, client, promise, spent>> /\ call[x].at = "refresh"
  BY DEF AssertCaller
<1>3. ASSUME NEW ref \in Detected(call[x].s[1]),
             call' = [call EXCEPT ![x].at = "persist", ![x].ref = ref]
      PROVE  IInv'
  <2>1. ref \in Process \cup {None}
    BY <1>1, DetectedType, SessionType
  <2>2. [call[x] EXCEPT !.at = "persist", !.ref = ref] \in Call
    BY <1>1, <2>1 DEF Call, Starting
  <2>3. call' = [call EXCEPT ![x] = [call[x] EXCEPT !.at = "persist", !.ref = ref]]
    BY <1>1, <1>3 DEF TypeOK
  <2>4. call' \in [Caller -> Call]
    BY <1>1, <2>2, <2>3 DEF TypeOK
  <2>5. /\ call'[x].at = "persist" /\ call'[x].s = call[x].s /\ call'[x].e = call[x].e
        /\ \A y \in Caller : y # x => call'[y] = call[y]
    BY <1>1, <2>3 DEF TypeOK, Call
  <2>6. SessionOf(x)'
    BY <1>1, <1>2, <2>5 DEF CallInv, SessionOf, HookSteps
  <2>7. CallInv(x)'
    BY <1>1, <1>2, <2>5, <2>6, LooseInv, SameRegistry
  <2>8. QED
    BY <1>2, <2>4, <2>5, <2>7, CallOnlyInv
<1>4. ASSUME End(x)
      PROVE  IInv'
  <2>1. /\ call' \in [Caller -> Call] /\ call'[x] = Idle
        /\ \A y \in Caller : y # x => call'[y] = call[y]
    BY <1>1, <1>4, CallSteps
  <2>2. QED
    BY <1>2, <2>1, OverInv, CallOnlyInv
<1>5. QED
  BY <1>3, <1>4 DEF AssertCaller

\* A call that changes its endpoint's record under the endpoint's lock, and ends.
LEMMA UnderLockInv ==
    ASSUME IInv, NEW x \in Caller, End(x), UNCHANGED <<box, lin, outer, inner, client, promise>>,
           spent' \in 0..Budget, ep' \in [Endpoint -> Record], NEW e \in Endpoint, inner[e] = None,
           Active' \subseteq Active, Registered' = Registered,
           \A f \in Endpoint : ep'[f].owner = ep[f].owner /\ ep'[f].pred = ep[f].pred,
           \A f \in Endpoint : f # e => ep'[f] = ep[f]
    PROVE  IInv'
<1>1. TypeOK
  BY DEF IInv
<1>2. /\ call' \in [Caller -> Call] /\ call'[x] = Idle
      /\ \A y \in Caller : y # x => call'[y] = call[y]
  BY <1>1, CallSteps
<1>3. TypeOK'
  BY <1>1, <1>2 DEF TypeOK
<1>4. Shrinks
  BY DEF Shrinks
<1>5. QED
  BY <1>2, <1>3, <1>4, OverInv, PlainInv

LEMMA PersistInv ==
    ASSUME IInv, NEW x \in Caller, Persist(x)
    PROVE  IInv'
<1> DEFINE e == call[x].e
<1>1. TypeOK /\ call[x] \in Call /\ e \in Endpoint /\ call[x].ref \in Process \cup {None}
      /\ call[x].at = "persist" /\ inner[e] = None
  BY DEF IInv, CallInv, CallOf, Persist, TypeOK, OfEndpoint, Call
<1>2. UNCHANGED <<box, lin, outer, inner, client, promise, spent>> /\ End(x)
  BY DEF Persist
<1>3. CASE ep' = ep
  <2>1. Active' = Active /\ Registered' = Registered
    BY <1>3 DEF Active, Registered
  <2>2. QED
    BY <1>1, <1>2, <1>3, <2>1, UnderLockInv DEF TypeOK
<1>4. CASE ep' = [ep EXCEPT ![e].ref = call[x].ref]
  <2>1. /\ ep' \in [Endpoint -> Record] /\ ep'[e] = [ep[e] EXCEPT !.ref = call[x].ref]
        /\ \A f \in Endpoint : f # e => ep'[f] = ep[f]
    BY <1>1, <1>4, RecordSteps
  <2>2. ep'[e].status = ep[e].status /\ ep'[e].owner = ep[e].owner /\ ep'[e].pred = ep[e].pred
    BY <1>1, <2>1 DEF TypeOK, Record
  <2>3. Active' = Active /\ Registered' = Registered
    BY <2>1, <2>2 DEF Active, Registered
  <2>4. QED
    BY <1>1, <1>2, <2>1, <2>2, <2>3, UnderLockInv DEF TypeOK
<1>5. QED
  BY <1>3, <1>4 DEF Persist

LEMMA LeaveInv ==
    ASSUME IInv, NEW x \in Caller, Leave(x) \/ ForceRetire(x)
    PROVE  IInv'
<1> DEFINE e == call[x].e
<1>1. TypeOK /\ e \in Registered /\ e \in Endpoint /\ inner[e] = None
  BY DEF IInv, CallInv, CallOf, Leave, ForceRetire, Registered
<1>2. UNCHANGED <<box, lin, outer, inner, client, promise, spent>> /\ End(x)
  BY DEF Leave, ForceRetire
<1>3. CASE ep' = ep
  <2>1. Active' = Active /\ Registered' = Registered
    BY <1>3 DEF Active, Registered
  <2>2. QED
    BY <1>1, <1>2, <1>3, <2>1, UnderLockInv DEF TypeOK
<1>4. ASSUME NEW how \in {"left", "forced"}, ep' = [ep EXCEPT ![e] = Retired(@, how)]
      PROVE  IInv'
  <2>1. /\ ep' \in [Endpoint -> Record]
        /\ Registered' = Registered /\ Active' = Active \ {e}
        /\ \A f \in Endpoint : ep'[f].owner = ep[f].owner /\ ep'[f].pred = ep[f].pred
        /\ \A f \in Endpoint : f # e => ep'[f] = ep[f]
    BY <1>1, <1>4, RetireEffect
  <2>2. QED
    BY <1>1, <1>2, <2>1, UnderLockInv DEF TypeOK
<1>5. QED
  BY <1>3, <1>4 DEF Leave, ForceRetire

----------------------------------------------------------------------------
(* Steps that change no seat: calls that begin, hooks, and a succession.     *)

LEMMA BeginInv ==
    ASSUME IInv, NEW x \in Caller, UNCHANGED <<ep, box, lin, outer, inner>>,
           client' \in [Conversation -> Client],
           \A c \in Conversation : client'[c].k = client[c].k /\ client'[c].proc = client[c].proc,
           promise' \in [Conversation -> Endpoint \cup {None}], spent' \in 0..Budget,
           call' \in [Caller -> Call], \A y \in Caller : y # x => call'[y] = call[y], CallInv(x)'
    PROVE  IInv'
<1>1. TypeOK /\ MailboxesAreKept
  BY DEF IInv
<1>2. TypeOK'
  BY <1>1 DEF TypeOK
<1>3. Shrinks /\ Registered' = Registered /\ Active' = Active
  BY SameRegistry
<1>4. Frame(x)
  BY <1>3 DEF Frame
<1>5. (\A l \in Lineage : LineageInv(l))'
  BY <1>4, LineagesStay
<1>6. (\A e \in Endpoint : RecordInv(e))' /\ MailboxesAreKept'
  BY <1>3, RecordsShrink
<1>7. QED
  BY <1>2, <1>4, <1>5, <1>6, StepInv

LEMMA BeginTypes ==
    ASSUME IInv, NEW x \in Caller, NEW c \in Conversation, NEW new \in Call,
           new.at \in {"attach", "leave", "mint", "consume", "find", "join"}, new.s = Now(c),
           new.at \in {"leave", "mint"} => new.e \in Registered,
           call' = [call EXCEPT ![x] = new],
           UNCHANGED ep, \A d \in Conversation : client'[d].k = client[d].k
    PROVE  /\ call' \in [Caller -> Call] /\ CallInv(x)'
           /\ \A y \in Caller : y # x => call'[y] = call[y]
<1>1. TypeOK /\ Now(c) \in Session /\ Now(c)[1] = c /\ Now(c)[2] = client[c].k
  BY NowType DEF IInv
<1>2. /\ call' \in [Caller -> Call] /\ call'[x] = new
      /\ \A y \in Caller : y # x => call'[y] = call[y]
  BY <1>1 DEF TypeOK
<1>3. SessionOf(x)'
  <2>1. client[c].k \in Nat
    BY <1>1 DEF TypeOK, Client
  <2>2. call'[x].s = Now(c) /\ client'[c].k = client[c].k
    BY <1>2
  <2>3. QED
    BY <1>1, <2>1, <2>2 DEF SessionOf
<1>4. Registered' = Registered
  BY DEF Registered
<1>5. CallInv(x)'
  BY <1>1, <1>2, <1>3, <1>4, LooseInv
<1>6. QED
  BY <1>2, <1>5

LEMMA BeginAttachInv ==
    ASSUME IInv, NEW x \in Caller, NEW c \in Conversation, BeginAttach(x, c)
    PROVE  IInv'
<1> DEFINE new == [Idle EXCEPT !.at = "attach", !.s = Now(c), !.child = TRUE]
<1>1. TypeOK /\ Now(c) \in Session
  BY NowType DEF IInv
<1>2. new \in Call /\ new.at = "attach" /\ new.s = Now(c)
  BY <1>1 DEF Call, Idle
<1>3. UNCHANGED <<ep, box, lin, outer, inner, client, promise, spent>> /\ call' = [call EXCEPT ![x] = new]
  BY DEF BeginAttach
<1>4. /\ call' \in [Caller -> Call] /\ CallInv(x)'
      /\ \A y \in Caller : y # x => call'[y] = call[y]
  <2> HIDE DEF new
  <2> QED  BY <1>1, <1>2, <1>3, BeginTypes
<1>5. QED
  BY <1>3, <1>4, CallOnlyInv

LEMMA BeginLeaveInv ==
    ASSUME IInv, NEW x \in Caller, NEW c \in Conversation, BeginLeave(x, c)
    PROVE  IInv'
<1>1. TypeOK /\ Now(c) \in Session
  BY NowType DEF IInv
<1>2. PICK e \in Seats(Now(c)) : Begin(x, "leave", Now(c), e)
  BY DEF BeginLeave
<1> DEFINE new == [Idle EXCEPT !.at = "leave", !.s = Now(c), !.e = e]
<1>3. e \in Endpoint /\ e \in Registered
  BY DEF Seats, Owns, Active, Registered
<1>4. new \in Call /\ new.at = "leave" /\ new.s = Now(c) /\ new.e = e
  BY <1>1, <1>3 DEF Call, Idle, Joining, Starting
<1>5. UNCHANGED <<ep, box, lin, outer, inner>> /\ call' = [call EXCEPT ![x] = new]
  BY <1>2 DEF Begin
<1>6. UNCHANGED <<client, promise>> /\ spent' \in 0..Budget
  BY <1>1, EndpointsAssumption DEF BeginLeave, Spend, TypeOK
<1>7. /\ call' \in [Caller -> Call] /\ CallInv(x)'
      /\ \A y \in Caller : y # x => call'[y] = call[y]
  <2> HIDE DEF new
  <2> QED  BY <1>1, <1>3, <1>4, <1>5, <1>6, BeginTypes
<1>8. client' \in [Conversation -> Client] /\ promise' \in [Conversation -> Endpoint \cup {None}]
  BY <1>1, <1>6 DEF TypeOK
<1>9. QED
  BY <1>5, <1>6, <1>7, <1>8, BeginInv

LEMMA BeginJoinInv ==
    ASSUME IInv, NEW x \in Caller, NEW c \in Conversation, NEW r \in Endpoint \cup {None}, BeginJoin(x, c, r)
    PROVE  IInv'
<1> DEFINE new == [Idle EXCEPT !.at = "join", !.s = Now(c), !.e = r]
<1>1. TypeOK /\ Now(c) \in Session
  BY NowType DEF IInv
<1>2. new \in Call /\ new.at = "join" /\ new.s = Now(c)
  BY <1>1 DEF Call, Idle, Joining, Starting
<1>3. UNCHANGED <<ep, box, lin, outer, inner, client, promise, spent>> /\ call' = [call EXCEPT ![x] = new]
  BY DEF BeginJoin, Begin
<1>4. /\ call' \in [Caller -> Call] /\ CallInv(x)'
      /\ \A y \in Caller : y # x => call'[y] = call[y]
  <2> HIDE DEF new
  <2> QED  BY <1>1, <1>2, <1>3, BeginTypes
<1>5. QED
  BY <1>3, <1>4, CallOnlyInv

\* A client whose hooks go on.
LEMMA PhaseType ==
    ASSUME TypeOK, NEW c \in Conversation, NEW phase \in {"start", "on", "compacting", "restart"},
           client' = [client EXCEPT ![c].phase = phase]
    PROVE  /\ client' \in [Conversation -> Client]
           /\ \A d \in Conversation : client'[d].k = client[d].k /\ client'[d].proc = client[d].proc
<1>1. [client[c] EXCEPT !.phase = phase] \in Client /\ client[c] \in Client
  BY DEF TypeOK, Client
<1>2. client' = [client EXCEPT ![c] = [client[c] EXCEPT !.phase = phase]]
  BY DEF TypeOK
<1>3. client'[c].k = client[c].k /\ client'[c].proc = client[c].proc
  BY <1>1, <1>2 DEF TypeOK, Client
<1>4. QED
  BY <1>1, <1>2, <1>3 DEF TypeOK

LEMMA StartHookInv ==
    ASSUME IInv, NEW x \in Caller, NEW c \in Conversation, StartHook(x, c)
    PROVE  IInv'
<1> DEFINE at == IF client[c].phase = "restart" THEN "consume" ELSE "find"
           new == [Idle EXCEPT !.at = at, !.s = Now(c), !.e = None]
<1>1. TypeOK /\ Now(c) \in Session
  BY NowType DEF IInv
<1>2. new \in Call /\ new.at = at /\ new.s = Now(c)
  BY <1>1 DEF Call, Idle, Joining, Starting
<1>3. UNCHANGED <<ep, box, lin, outer, inner, promise, spent>> /\ call' = [call EXCEPT ![x] = new]
  BY DEF StartHook, Begin
<1>4. /\ client' \in [Conversation -> Client]
      /\ \A d \in Conversation : client'[d].k = client[d].k /\ client'[d].proc = client[d].proc
  BY <1>1, PhaseType DEF StartHook
<1>5. /\ call' \in [Caller -> Call] /\ CallInv(x)'
      /\ \A y \in Caller : y # x => call'[y] = call[y]
  <2> HIDE DEF new
  <2> QED  BY <1>1, <1>2, <1>3, <1>4, BeginTypes
<1>6. promise' \in [Conversation -> Endpoint \cup {None}] /\ spent' \in 0..Budget
  BY <1>1, <1>3 DEF TypeOK
<1>7. QED
  BY <1>3, <1>4, <1>5, <1>6, BeginInv

LEMMA BeginForceInv ==
    ASSUME IInv, NEW x \in Caller, NEW e \in Endpoint, BeginForce(x, e)
    PROVE  IInv'
<1> DEFINE new == [Idle EXCEPT !.at = "force", !.s = None, !.e = e]
<1>1. TypeOK /\ e \in Registered /\ UNCHANGED <<ep, box, lin, outer, inner, client, promise>>
  BY DEF IInv, BeginForce, Begin, Active, Registered
<1>2. new \in Call /\ new.at = "force" /\ new.s = None /\ new.e = e
  BY DEF Call, Idle
<1>3. /\ call' \in [Caller -> Call] /\ call'[x] = new
      /\ \A y \in Caller : y # x => call'[y] = call[y]
  BY <1>1, <1>2 DEF TypeOK, BeginForce, Begin
<1>4. CallInv(x)'
  <2>1. Registered' = Registered
    BY <1>1 DEF Registered
  <2> HIDE DEF new
  <2>2. QED
    BY <1>1, <1>2, <1>3, <2>1, NoNone DEF CallInv, CallOf, LocksOf, SessionOf, JoinOf, PassOf, OfEndpoint,
       UnderOuter, UnderInner, HookSteps
<1>5. spent' \in 0..Budget
  BY <1>1, EndpointsAssumption DEF BeginForce, Spend, TypeOK
<1>6. client' \in [Conversation -> Client] /\ promise' \in [Conversation -> Endpoint \cup {None}]
  BY <1>1 DEF TypeOK
<1>7. QED
  BY <1>1, <1>3, <1>4, <1>5, <1>6, BeginInv

LEMMA CompactHookInv ==
    ASSUME IInv, NEW x \in Caller, NEW c \in Conversation, CompactHook(x, c)
    PROVE  IInv'
<1>1. TypeOK /\ Now(c) \in Session
  BY NowType DEF IInv
<1>2. /\ client' \in [Conversation -> Client]
      /\ \A d \in Conversation : client'[d].k = client[d].k /\ client'[d].proc = client[d].proc
  BY <1>1, PhaseType DEF CompactHook
<1>3. UNCHANGED <<ep, box, lin, outer, inner>>
  BY DEF CompactHook, Begin
<1>4. promise' \in [Conversation -> Endpoint \cup {None}] /\ spent' \in 0..Budget
  BY <1>1, EndpointsAssumption DEF CompactHook, TypeOK, Spend
<1>5. ASSUME NEW e \in Seats(Now(c)), Begin(x, "mint", Now(c), e)
      PROVE  /\ call' \in [Caller -> Call] /\ CallInv(x)'
             /\ \A y \in Caller : y # x => call'[y] = call[y]
  <2> DEFINE new == [Idle EXCEPT !.at = "mint", !.s = Now(c), !.e = e]
  <2>1. e \in Registered /\ e \in Endpoint
    BY DEF Seats, Owns, Active, Registered
  <2>2. new \in Call /\ new.at = "mint" /\ new.s = Now(c) /\ new.e = e
    BY <1>1, <2>1 DEF Call, Idle, Joining, Starting
  <2>3. call' = [call EXCEPT ![x] = new]
    BY <1>5 DEF Begin
  <2> HIDE DEF new
  <2>4. QED
    BY <1>1, <1>2, <1>3, <2>1, <2>2, <2>3, BeginTypes
<1>6. ASSUME call[x].at = "idle", UNCHANGED call
      PROVE  /\ call' \in [Caller -> Call] /\ CallInv(x)'
             /\ \A y \in Caller : y # x => call'[y] = call[y]
  <2>1. CallInv(x)
    BY DEF IInv
  <2>2. call[x].s \in Session => call[x].s[1] \in Conversation
    BY SessionType
  <2>3. CallInv(x)'
    BY <1>2, <1>6, <2>1, <2>2 DEF CallInv, CallOf, LocksOf, SessionOf, JoinOf, PassOf, OfEndpoint,
       UnderOuter, UnderInner, HookSteps
  <2>4. QED
    BY <1>1, <1>6, <2>3 DEF TypeOK
<1>7. /\ call' \in [Caller -> Call] /\ CallInv(x)'
      /\ \A y \in Caller : y # x => call'[y] = call[y]
  BY <1>5, <1>6 DEF CompactHook
<1>8. QED
  BY <1>2, <1>3, <1>4, <1>7, BeginInv

----------------------------------------------------------------------------
(* Deaths, timeouts, and steps of clients and clocks.                        *)

LEMMA ForgottenType ==
    ASSUME TypeOK, NEW s \in Session \cup {None}
    PROVE  Forgotten(s) \in [Conversation -> Endpoint \cup {None}]
BY DEF TypeOK, Forgotten

LEMMA LockTimesOutInv ==
    ASSUME IInv, NEW x \in Caller, LockTimesOut(x)
    PROVE  IInv'
<1>1. TypeOK /\ call[x] \in Call /\ UNCHANGED <<ep, lin, inner, client>> /\ End(x) /\ FreeOuter(x)
  BY DEF IInv, TypeOK, LockTimesOut
<1>2. spent' \in 0..Budget
  BY <1>1, EndpointsAssumption DEF LockTimesOut, Spend, TypeOK
<1>3. promise' \in [Conversation -> Endpoint \cup {None}]
  <2>1. call[x].s \in Session \cup {None}
    BY <1>1 DEF Call
  <2>2. QED
    BY <1>1, <2>1, ForgottenType DEF LockTimesOut, TypeOK
<1>4. CASE call[x].at = "incumbent"
  <2>1. GiveUpJoin(x)
    BY <1>1, <1>4 DEF GiveUpJoin, LockTimesOut
  <2>2. Registered' = Registered /\ \A e \in Endpoint : RecordInv(e)'
    BY <1>1 DEF IInv, RecordInv, Registered, Active
  <2>3. QED
    BY <1>1, <1>2, <1>3, <1>4, <2>1, <2>2, GiveUpInv DEF TypeOK
<1>5. CASE call[x].at # "incumbent"
  <2>1. UNCHANGED <<ep, box>>
    BY <1>1, <1>5 DEF LockTimesOut
  <2>2. /\ call' \in [Caller -> Call] /\ call'[x] = Idle
        /\ \A y \in Caller : y # x => call'[y] = call[y]
        /\ outer' \in Caller \cup {None}
    BY <1>1, CallSteps
  <2>3. TypeOK'
    BY <1>1, <1>2, <1>3, <2>1, <2>2 DEF TypeOK
  <2>4. outer' = outer \/ (outer = x /\ outer' = None)
    BY <1>1 DEF FreeOuter
  <2>5. Shrinks /\ UNCHANGED <<lin, inner, client>>
    BY <1>1, <2>1, SameRegistry
  <2>6. QED
    BY <2>2, <2>3, <2>4, <2>5, OverInv, PlainInv
<1>6. QED
  BY <1>4, <1>5

LEMMA CrashInv ==
    ASSUME IInv, NEW x \in Caller, Crash(x)
    PROVE  IInv'
<1>1. TypeOK /\ call[x] \in Call /\ UNCHANGED <<ep, box, lin, client>>
  BY DEF IInv, TypeOK, Crash
<1>2. spent' \in 0..Budget
  BY <1>1, EndpointsAssumption DEF Crash, Spend, TypeOK
<1>3. promise' \in [Conversation -> Endpoint \cup {None}]
  <2>1. call[x].s \in Session \cup {None}
    BY <1>1 DEF Call
  <2>2. QED
    BY <1>1, <2>1, ForgottenType DEF Crash, TypeOK
<1>4. /\ call' \in [Caller -> Call] /\ call'[x] = Idle
      /\ \A y \in Caller : y # x => call'[y] = call[y]
      /\ outer' \in Caller \cup {None} /\ inner' \in [Endpoint -> Caller \cup {None}]
  BY <1>1, CallSteps DEF Crash
<1>5. TypeOK'
  BY <1>1, <1>2, <1>3, <1>4 DEF TypeOK
<1>6. outer' = outer \/ (outer = x /\ outer' = None)
  BY DEF Crash, FreeOuter
<1>7. \A e \in Endpoint : inner[e] # x => inner'[e] = inner[e]
  BY DEF Crash, FreeInner
<1>8. Shrinks /\ Registered' = Registered
  BY <1>1, SameRegistry
<1>9. Frame(x)
  BY <1>1, <1>4, <1>6, <1>7, <1>8 DEF Frame
<1>10. (\A l \in Lineage : LineageInv(l))'
  BY <1>1, <1>9, LineagesStay
<1>11. (\A e \in Endpoint : RecordInv(e))' /\ MailboxesAreKept'
  BY <1>8, RecordsShrink
<1>12. QED
  BY <1>4, <1>5, <1>9, <1>10, <1>11, OverInv, StepInv

\* Enough for a step of no call: sessions only go on, and not during a hook.
LEMMA ClientInv ==
    ASSUME IInv, TypeOK', UNCHANGED <<ep, box, outer, inner, call>>,
           \A l \in Lineage : /\ lin'[l].state = lin[l].state
                              /\ lin'[l].from = lin[l].from /\ lin'[l].seat = lin[l].seat,
           \A c \in Conversation : client[c].k <= client'[c].k,
           \A x \in Caller : call[x].at \in HookSteps => client'[call[x].s[1]].k = client[call[x].s[1]].k
    PROVE  IInv'
<1>1. TypeOK
  BY DEF IInv
<1>2. \A c \in Conversation : client[c].k \in Nat /\ client'[c].k \in Nat
  BY <1>1 DEF TypeOK, Client
<1>3. Registered' = Registered /\ Active' = Active
  BY DEF Registered, Active
<1>4. ASSUME NEW x \in Caller
      PROVE  CallInv(x)'
  <2>1. CallInv(x)
    BY DEF IInv
  <2>2. CallOf(x)' /\ LocksOf(x)'
    BY <1>3, <2>1 DEF CallInv, CallOf, LocksOf
  <2>3. SessionOf(x)'
    <3>1. call[x].s \in Session => call[x].s[2] \in Nat /\ call[x].s[1] \in Conversation
      BY SessionType
    <3>2. QED
      BY <1>2, <2>1, <3>1 DEF CallInv, SessionOf
  <2>4. JoinOf(x)'
    <3>1. Seats(call[x].s)' = Seats(call[x].s)
      BY <1>3 DEF Seats, Owns
    <3>2. QED
      BY <1>3, <2>1, <3>1 DEF CallInv, JoinOf
  <2>5. PassOf(x)'
    <3>1. call[x].at \in {"claim", "rebind", "settle"} => call[x].l \in Lineage
      BY <2>1 DEF CallInv, CallOf
    <3>2. QED
      BY <1>3, <2>1, <3>1 DEF CallInv, PassOf
  <2>6. QED
    BY <2>2, <2>3, <2>4, <2>5 DEF CallInv
<1>5. (\A e \in Endpoint : RecordInv(e))'
  BY <1>3 DEF IInv, RecordInv
<1>6. ASSUME NEW l \in Lineage
      PROVE  LineageInv(l)'
  <2>1. LineageInv(l)
    BY DEF IInv
  <2>2. lin[l].state # "absent" => lin[l].from[1] \in Conversation /\ lin[l].from[2] \in Nat
    BY <2>1, SessionType DEF LineageInv
  <2>3. QED
    BY <1>2, <2>1, <2>2 DEF LineageInv
<1>7. MailboxesAreKept'
  BY <1>3 DEF IInv, MailboxesAreKept
<1>8. QED
  BY <1>4, <1>5, <1>6, <1>7 DEF IInv

LEMMA CompactedInv ==
    ASSUME IInv, NEW c \in Conversation, Compacted(c)
    PROVE  IInv'
<1>1. PICK k \in {client[c].k, client[c].k + 1} \cap (1..MaxSessions[c]) :
         client' = [client EXCEPT ![c].k = k, ![c].phase = "restart"]
  BY DEF Compacted
<1>2. TypeOK /\ client[c] \in Client /\ client[c].k \in Nat /\ k \in Nat /\ client[c].k <= k
  BY EndpointsAssumption DEF IInv, TypeOK, Client
<1> DEFINE new == [client[c] EXCEPT !.k = k, !.phase = "restart"]
<1>3. new \in Client /\ new.k = k /\ new.proc = client[c].proc
  BY <1>2 DEF Client
<1>4. client' = [client EXCEPT ![c] = new]
  BY <1>1, <1>2 DEF TypeOK
<1>5. UNCHANGED <<ep, box, lin, outer, inner, call, promise, spent>>
  BY DEF Compacted
<1>6. /\ client' \in [Conversation -> Client] /\ client'[c] = new
      /\ \A d \in Conversation : d # c => client'[d] = client[d]
  <2> HIDE DEF new
  <2> QED  BY <1>2, <1>3, <1>4 DEF TypeOK
<1>7. TypeOK'
  <2> HIDE DEF new
  <2> QED  BY <1>1, <1>2, <1>3, <1>5, <1>6 DEF TypeOK
<1>8. \A d \in Conversation : client[d].k <= client'[d].k
  <2>1. \A d \in Conversation : client[d].k \in Nat
    BY <1>2 DEF TypeOK, Client
  <2> HIDE DEF new
  <2>2. QED
    BY <1>2, <1>3, <1>6, <2>1
<1>9. ASSUME NEW x \in Caller, call[x].at \in HookSteps
      PROVE  client'[call[x].s[1]].k = client[call[x].s[1]].k
  <2>1. CallInv(x) /\ call[x].s \in Session /\ call[x].s[1] \in Conversation
    BY <1>9, SessionType DEF IInv, CallInv, CallOf, HookSteps
  <2>2. call[x].s[1] # c
    <3>1. call[x].s = <<call[x].s[1], call[x].s[2]>> /\ call[x].s[2] = client[call[x].s[1]].k
      BY <1>9, <2>1, SessionType DEF CallInv, SessionOf
    <3>2. call[x].s # Now(c)
      BY <1>9 DEF Compacted, HookRuns, HookSteps, Starting
    <3>3. QED
      BY <3>1, <3>2 DEF Now
  <2>3. QED
    BY <1>6, <2>1, <2>2
<1>10. QED
  BY <1>5, <1>7, <1>8, <1>9, ClientInv

LEMMA ComesAndGoes ==
    ASSUME IInv, NEW c \in Conversation, Exit(c) \/ Resume(c)
    PROVE  IInv'
<1>1. TypeOK /\ client[c] \in Client /\ client[c].proc \in Nat /\ UNCHANGED <<ep, box, lin, outer, inner, call>>
  BY DEF IInv, TypeOK, Client, Exit, Resume
<1>2. PICK new \in Client : /\ client' = [client EXCEPT ![c] = new]
                            /\ new.k = client[c].k /\ new.proc \in 1..MaxProcesses[c]
  <2>1. CASE Exit(c)
    <3> DEFINE r == [client[c] EXCEPT !.up = FALSE, !.phase = "on"]
    <3>1. r \in Client /\ r.k = client[c].k /\ r.proc = client[c].proc
      BY <1>1 DEF Client
    <3>2. client' = [client EXCEPT ![c] = r]
      BY <1>1, <2>1 DEF Exit, TypeOK
    <3> HIDE DEF r
    <3>3. QED
      BY <1>1, <3>1, <3>2 DEF TypeOK
  <2>2. CASE Resume(c)
    <3> DEFINE p == client[c].proc + 1
               r == [client[c] EXCEPT !.proc = p, !.up = TRUE, !.phase = "start"]
    <3>1. MaxProcesses[c] \in Nat /\ client[c].proc \in 1..MaxProcesses[c]
          /\ client[c].proc < MaxProcesses[c]
      BY <1>1, <2>2, EndpointsAssumption DEF Resume, TypeOK
    <3>2. client' = [client EXCEPT ![c] = r]
      BY <1>1, <2>2 DEF Resume, TypeOK
    <3>3. p \in Nat /\ p \in 1..MaxProcesses[c]
      BY <3>1
    <3> HIDE DEF p
    <3>4. r \in Client /\ r.k = client[c].k /\ r.proc = p
      BY <1>1, <3>3 DEF Client
    <3> HIDE DEF r
    <3>5. QED
      BY <3>2, <3>3, <3>4
  <2>3. QED
    BY <2>1, <2>2
<1>3. /\ client' \in [Conversation -> Client] /\ client'[c] = new
      /\ \A d \in Conversation : d # c => client'[d] = client[d]
  BY <1>1, <1>2 DEF TypeOK
<1>4. promise' \in [Conversation -> Endpoint \cup {None}] /\ spent' \in 0..Budget
  BY <1>1, EndpointsAssumption DEF Exit, Resume, Spend, TypeOK
<1>5. TypeOK'
  BY <1>1, <1>2, <1>3, <1>4 DEF TypeOK
<1>6. \A d \in Conversation : client[d].k \in Nat /\ client'[d].k = client[d].k
  BY <1>1, <1>2, <1>3 DEF TypeOK, Client
<1>7. \A x \in Caller : call[x].at \in HookSteps => call[x].s[1] \in Conversation
  BY SessionType DEF IInv, CallInv, CallOf, HookSteps
<1>8. QED
  BY <1>1, <1>5, <1>6, <1>7, ClientInv

LEMMA ExpireInv ==
    ASSUME IInv, NEW l \in Lineage, Expire(l)
    PROVE  IInv'
<1>1. TypeOK /\ lin[l] \in Succession /\ UNCHANGED <<ep, box, outer, inner, call, client>>
  BY DEF IInv, TypeOK, Expire
<1>2. spent' \in 0..Budget
  BY <1>1, EndpointsAssumption DEF Expire, Spend, TypeOK
<1>3. promise' \in [Conversation -> Endpoint \cup {None}]
  BY <1>1, ForgottenType DEF Expire, Succession
<1>4. lin' = [lin EXCEPT ![l] = [lin[l] EXCEPT !.expired = TRUE]] /\ [lin[l] EXCEPT !.expired = TRUE] \in Succession
  BY <1>1 DEF Expire, TypeOK, Succession
<1>5. lin' \in [Lineage -> Succession]
  BY <1>1, <1>4 DEF TypeOK
<1>6. TypeOK'
  BY <1>1, <1>2, <1>3, <1>5 DEF TypeOK
<1>7. \A m \in Lineage : /\ lin'[m].state = lin[m].state
                         /\ lin'[m].from = lin[m].from /\ lin'[m].seat = lin[m].seat
  BY <1>1, <1>4 DEF TypeOK, Succession
<1>8. \A c \in Conversation : client[c].k \in Nat /\ client'[c].k = client[c].k
  BY <1>1 DEF TypeOK, Client
<1>9. QED
  BY <1>1, <1>6, <1>7, <1>8, ClientInv

----------------------------------------------------------------------------
(* Succession: the two hooks.                                                *)

\* Unlinking what has expired.
LEMMA SweptType ==
    ASSUME TypeOK
    PROVE  /\ Swept \in [Lineage -> Succession]
           /\ \A l \in Lineage : /\ Swept[l].state = "absent" <=> lin[l].state = "absent"
                                 /\ Swept[l].from = lin[l].from /\ Swept[l].seat = lin[l].seat
<1>1. \A l \in Lineage : lin[l] \in Succession /\ [lin[l] EXCEPT !.state = "gone"] \in Succession
  BY DEF TypeOK, Succession
<1>2. \A l \in Lineage : Swept[l] = IF lin[l].expired /\ lin[l].state \in {"fresh", "consumed"}
                                    THEN [lin[l] EXCEPT !.state = "gone"] ELSE lin[l]
  BY DEF Swept
<1>3. Swept \in [Lineage -> Succession]
  BY <1>1 DEF Swept
<1>4. QED
  BY <1>1, <1>2, <1>3 DEF Succession

\* Enough for a hook's step that changes no endpoint's record.
LEMMA HookInv ==
    ASSUME IInv, NEW x \in Caller, UNCHANGED <<ep, box, client, spent>>,
           lin' \in [Lineage -> Succession],
           \A l \in Lineage : lin[l].state # "absent" =>
               lin'[l].state # "absent" /\ lin'[l].from = lin[l].from /\ lin'[l].seat = lin[l].seat,
           \A l \in Lineage : lin'[l].state # "absent" /\ lin[l].state = "absent" =>
               /\ lin'[l].seat \in Endpoint /\ lin'[l].from \in Session
               /\ lin'[l].from[2] <= client[lin'[l].from[1]].k,
           outer' \in Caller \cup {None}, inner' \in [Endpoint -> Caller \cup {None}],
           outer = x \/ outer' = outer \/ outer = None,
           \A e \in Endpoint : inner[e] \notin {None, x} => inner'[e] = inner[e],
           promise' \in [Conversation -> Endpoint \cup {None}],
           call' \in [Caller -> Call], \A y \in Caller : y # x => call'[y] = call[y], CallInv(x)'
    PROVE  IInv'
<1>1. TypeOK
  BY DEF IInv
<1>2. TypeOK'
  BY <1>1 DEF TypeOK
<1>3. Shrinks /\ Registered' = Registered
  BY SameRegistry
<1>4. Frame(x)
  BY <1>3 DEF Frame
<1>5. ASSUME NEW l \in Lineage
      PROVE  LineageInv(l)'
  <2>1. CASE lin[l].state # "absent"
    BY <1>4, <2>1, LineagesStay
  <2>2. CASE lin[l].state = "absent"
    BY <2>2 DEF LineageInv
  <2>3. QED
    BY <2>1, <2>2
<1>6. (\A e \in Endpoint : RecordInv(e))' /\ MailboxesAreKept'
  BY <1>3, RecordsShrink
<1>7. QED
  BY <1>2, <1>4, <1>5, <1>6, StepInv

LEMMA MintInv ==
    ASSUME IInv, NEW x \in Caller, Mint(x)
    PROVE  IInv'
<1> DEFINE e == call[x].e
           s == call[x].s
           Free == {l \in Lineage : lin[l].state = "absent"}
           new == [NoLineage EXCEPT !.state = "fresh", !.seat = e, !.from = s]
<1>1. TypeOK /\ CallInv(x) /\ e \in Endpoint /\ s \in Session /\ s[1] \in Conversation
      /\ s[2] <= client[s[1]].k
  BY SessionType DEF IInv, CallInv, CallOf, SessionOf, Mint, OfEndpoint
<1>2. UNCHANGED <<ep, box, outer, inner, client, spent>>
  BY DEF Mint
<1>3. /\ call' \in [Caller -> Call] /\ call'[x] = Idle
      /\ \A y \in Caller : y # x => call'[y] = call[y]
  BY <1>1, CallSteps DEF Mint
<1>4. promise' \in [Conversation -> Endpoint \cup {None}]
      /\ outer' \in Caller \cup {None} /\ inner' \in [Endpoint -> Caller \cup {None}]
  BY <1>1 DEF Mint, TypeOK
<1>5. lin' = Swept \/ (Free # {} /\ lin' = [Swept EXCEPT ![Min(Free)] = new])
  BY DEF Mint
<1>6. new \in Succession /\ new.state = "fresh" /\ new.seat = e /\ new.from = s
  BY <1>1 DEF NoLineage, Succession
<1>7. Free # {} => Min(Free) \in Free
  <2>1. Free \in SUBSET Nat
    BY DEF Lineage
  <2>2. QED
    BY <2>1, LeastNumber
<1>8. lin' \in [Lineage -> Succession]
  <2> HIDE DEF new
  <2> QED  BY <1>1, <1>5, <1>6, <1>7, SweptType
<1>9. \A l \in Lineage : lin[l].state # "absent" =>
               lin'[l].state # "absent" /\ lin'[l].from = lin[l].from /\ lin'[l].seat = lin[l].seat
  <2> HIDE DEF new
  <2> QED  BY <1>1, <1>5, <1>7, SweptType
<1>10. \A l \in Lineage : lin'[l].state # "absent" /\ lin[l].state = "absent" =>
               /\ lin'[l].seat \in Endpoint /\ lin'[l].from \in Session
               /\ lin'[l].from[2] <= client[lin'[l].from[1]].k
  <2>1. \A l \in Lineage : lin'[l].state # "absent" /\ lin[l].state = "absent" => lin'[l] = new
    <3> HIDE DEF new
    <3> QED  BY <1>1, <1>5, <1>7, SweptType
  <2> HIDE DEF new
  <2>2. QED
    BY <1>1, <1>6, <2>1
<1>11. CallInv(x)'
  BY <1>3, OverInv
<1>12. QED
  BY <1>2, <1>3, <1>4, <1>8, <1>9, <1>10, <1>11, HookInv

\* The greatest of some lineages is one of them.
LEMMA GreatestLineage ==
    ASSUME NEW S \in SUBSET Lineage, S # {}
    PROVE  Max(S) \in S
<1> DEFINE T == {MaxLineages - l : l \in S}
<1>1. MaxLineages \in Nat /\ \A l \in S : l \in Nat /\ l <= MaxLineages
  BY EndpointsAssumption DEF Lineage
<1>2. T \in SUBSET Nat /\ T # {}
  BY <1>1
<1>3. Min(T) \in T /\ \A n \in T : Min(T) <= n
  <2> HIDE DEF T
  <2> QED  BY <1>2, LeastNumber
<1>4. PICK m \in S : Min(T) = MaxLineages - m
  BY <1>3
<1>5. \A l \in S : m >= l
  <2>1. \A l \in S : MaxLineages - m <= MaxLineages - l
    BY <1>3, <1>4
  <2>2. QED
    BY <1>1, <2>1
<1>6. QED
  BY <1>5 DEF Max

LEMMA ConsumeInv ==
    ASSUME IInv, NEW x \in Caller, Consume(x)
    PROVE  IInv'
<1> DEFINE s == call[x].s
           New   == {l \in Lineage : Fresh(l) /\ Conv(l) = s[1]}
           Retry == {l \in Lineage : Live(l) /\ Conv(l) = s[1] /\ lin[l].state = "consumed"
                                        /\ lin[l].to = s}
           Match == IF Cardinality(New) = 1 THEN New
                    ELSE IF New = {} /\ Cardinality({lin[l].seat : l \in Retry}) = 1
                    THEN {Max(Retry)} ELSE {}
<1>1. TypeOK /\ CallInv(x) /\ call[x] \in Call /\ s \in Session /\ s[1] \in Conversation
      /\ call[x].at = "consume" /\ outer = None
      /\ s[2] = client[s[1]].k /\ s[2] <= client[s[1]].k
  BY SessionType DEF IInv, CallInv, CallOf, SessionOf, Consume, HookSteps, TypeOK
<1>2. UNCHANGED <<ep, box, inner, client, promise, spent>> /\ lin' = Swept
  BY DEF Consume
<1>3. \A l \in Match : l \in Lineage /\ lin[l].state \in {"fresh", "consumed"} /\ lin[l].from[1] = s[1]
  <2>1. \A l \in New \cup Retry : l \in Lineage /\ lin[l].state \in {"fresh", "consumed"}
                                  /\ lin[l].from[1] = s[1]
    BY DEF Fresh, Live, Conv
  <2>2. Cardinality({lin[l].seat : l \in Retry}) = 1 => Retry # {}
    <3>1. Retry = {} => {lin[l].seat : l \in Retry} = {}
      OBVIOUS
    <3>2. QED
      BY <3>1, FS_EmptySet
  <2>3. Retry # {} => Max(Retry) \in Retry
    <3>1. Retry \in SUBSET Lineage
      OBVIOUS
    <3> HIDE DEF Retry
    <3>2. QED
      BY <3>1, GreatestLineage
  <2>4. Match \subseteq New \cup Retry
    <3> HIDE DEF New, Retry
    <3> QED  BY <2>2, <2>3
  <2> HIDE DEF New, Retry, Match
  <2>5. QED
    BY <2>1, <2>4
<1>4. /\ lin' \in [Lineage -> Succession]
      /\ \A l \in Lineage : lin[l].state # "absent" =>
               lin'[l].state # "absent" /\ lin'[l].from = lin[l].from /\ lin'[l].seat = lin[l].seat
      /\ \A l \in Lineage : lin[l].state = "absent" => lin'[l].state = "absent"
  BY <1>1, <1>2, SweptType
<1>5. inner' \in [Endpoint -> Caller \cup {None}] /\ promise' \in [Conversation -> Endpoint \cup {None}]
  BY <1>1, <1>2 DEF TypeOK
<1>6. ASSUME outer' \in {x, None}, call' \in [Caller -> Call],
             \A y \in Caller : y # x => call'[y] = call[y], CallInv(x)'
      PROVE  IInv'
  <2>1. outer' \in Caller \cup {None}
    BY <1>6
  <2>2. QED
    BY <1>1, <1>2, <1>4, <1>5, <1>6, <2>1, HookInv
<1>7. CASE Go(x, "find") /\ UNCHANGED outer
  <2>1. /\ call' \in [Caller -> Call] /\ call'[x] = [call[x] EXCEPT !.at = "find"]
        /\ \A y \in Caller : y # x => call'[y] = call[y]
    BY <1>1, <1>7, CallSteps DEF Starting
  <2>2. call'[x].at = "find" /\ call'[x].s = s
    BY <1>1, <2>1 DEF Call
  <2>3. SessionOf(x)'
    BY <1>1, <1>2, <2>2 DEF SessionOf
  <2>4. CallInv(x)'
    BY <1>1, <2>2, <2>3, LooseInv
  <2>5. QED
    BY <1>1, <1>6, <1>7, <2>1, <2>4
<1>8. ASSUME NEW l \in Match, outer' = x,
             call' = [call EXCEPT ![x].at = "claim", ![x].l = l, ![x].e = lin[l].seat]
      PROVE  IInv'
  <2> DEFINE new == [call[x] EXCEPT !.at = "claim", !.l = l, !.e = lin[l].seat]
  <2>1. /\ l \in Lineage /\ lin[l].state # "absent" /\ lin[l].from[1] = s[1]
        /\ lin[l].seat \in Endpoint
    BY <1>3, <1>8 DEF IInv, LineageInv
  <2>2. new \in Call /\ new.at = "claim" /\ new.s = s /\ new.e = lin[l].seat /\ new.l = l
    BY <1>1, <2>1 DEF Call, Starting
  <2>3. call' = [call EXCEPT ![x] = new]
    BY <1>1, <1>8 DEF TypeOK
  <2> HIDE DEF new, Match
  <2>4. /\ call' \in [Caller -> Call] /\ call'[x] = new
        /\ \A y \in Caller : y # x => call'[y] = call[y]
    BY <1>1, <2>2, <2>3 DEF TypeOK
  <2>5. CallInv(x)'
    BY <1>1, <1>2, <1>4, <1>8, <2>1, <2>2, <2>4 DEF CallInv, CallOf, LocksOf, SessionOf, JoinOf, PassOf,
       OfEndpoint, UnderOuter, UnderInner, HookSteps
  <2>6. QED
    BY <1>6, <1>8, <2>4, <2>5
<1>9. QED
  BY <1>7, <1>8 DEF Consume

LEMMA ClaimInv ==
    ASSUME IInv, NEW x \in Caller, Claim(x)
    PROVE  IInv'
<1> DEFINE e == call[x].e
           s == call[x].s
           l == lin[call[x].l]
<1>1. /\ TypeOK /\ CallInv(x) /\ call[x] \in Call /\ s \in Session /\ s[1] \in Conversation
      /\ e \in Endpoint /\ call[x].l \in Lineage /\ call[x].at = "claim" /\ outer = x /\ inner[e] = None
      /\ s[2] = client[s[1]].k /\ s[2] <= client[s[1]].k
      /\ l.state # "absent" /\ l.from[1] = s[1]
  BY SessionType DEF IInv, CallInv, CallOf, LocksOf, SessionOf, PassOf, Claim, HookSteps, OfEndpoint,
     UnderOuter, TypeOK
<1>2. UNCHANGED <<ep, box, lin, client, spent>>
  BY DEF Claim
<1>3. Registered' = Registered /\ Active' = Active
  BY <1>2, SameRegistry
<1>4. promise' \in [Conversation -> Endpoint \cup {None}] /\ lin' \in [Lineage -> Succession]
  BY <1>1, <1>2 DEF Claim, TypeOK
<1>5. ASSUME outer' \in {x, None}, inner' \in [Endpoint -> Caller \cup {None}],
             \A f \in Endpoint : inner[f] \notin {None, x} => inner'[f] = inner[f],
             call' \in [Caller -> Call],
             \A y \in Caller : y # x => call'[y] = call[y], CallInv(x)'
      PROVE  IInv'
  <2>1. outer' \in Caller \cup {None}
    BY <1>5
  <2>2. QED
    BY <1>1, <1>2, <1>4, <1>5, <2>1, HookInv
<1>6. FreeOuter(x) => outer' \in {x, None}
  BY <1>1 DEF FreeOuter
<1>7. CASE End(x) /\ FreeOuter(x) /\ UNCHANGED inner
  <2>1. /\ call' \in [Caller -> Call] /\ call'[x] = Idle
        /\ \A y \in Caller : y # x => call'[y] = call[y]
    BY <1>1, <1>7, CallSteps
  <2>2. inner' \in [Endpoint -> Caller \cup {None}]
    BY <1>1, <1>7 DEF TypeOK
  <2>3. QED
    BY <1>5, <1>6, <1>7, <2>1, <2>2, OverInv
<1>8. ASSUME NEW at \in {"find", "refresh"}, at = "refresh" => e \in Active,
             call' = [call EXCEPT ![x].at = at, ![x].l = None, ![x].e = IF at = "refresh" THEN e ELSE None],
             FreeOuter(x), UNCHANGED inner
      PROVE  IInv'
  <2> DEFINE f == IF at = "refresh" THEN e ELSE None
             new == [call[x] EXCEPT !.at = at, !.l = None, !.e = f]
  <2>1. f \in Endpoint \cup {None}
    BY <1>1
  <2>2. new \in Call /\ new.at = at /\ new.s = s /\ new.e = f
    <3> HIDE DEF f
    <3> QED  BY <1>1, <2>1 DEF Call, Starting
  <2>3. call' = [call EXCEPT ![x] = new]
    BY <1>1, <1>8 DEF TypeOK
  <2> HIDE DEF new
  <2>4. /\ call' \in [Caller -> Call] /\ call'[x] = new
        /\ \A y \in Caller : y # x => call'[y] = call[y]
    BY <1>1, <2>2, <2>3 DEF TypeOK
  <2>5. SessionOf(x)'
    BY <1>1, <1>2, <2>2, <2>4 DEF SessionOf
  <2>6. at = "refresh" => f \in Registered'
    BY <1>3, <1>8 DEF Active, Registered
  <2>7. CallInv(x)'
    BY <1>1, <2>2, <2>4, <2>5, <2>6, LooseInv
  <2>8. inner' \in [Endpoint -> Caller \cup {None}]
    BY <1>1, <1>8 DEF TypeOK
  <2>9. QED
    BY <1>5, <1>6, <1>8, <2>4, <2>7, <2>8
<1>9. ASSUME NEW at \in {"settle", "rebind"}, e \in Active,
             at = "rebind" => ep[e].owner = l.from /\ l.from # s,
             inner' = [inner EXCEPT ![e] = x], UNCHANGED outer, Go(x, at)
      PROVE  IInv'
  <2>1. /\ call' \in [Caller -> Call] /\ call'[x] = [call[x] EXCEPT !.at = at]
        /\ \A y \in Caller : y # x => call'[y] = call[y]
    BY <1>1, <1>9, CallSteps DEF Starting
  <2>2. call'[x].at = at /\ call'[x].s = s /\ call'[x].e = e /\ call'[x].l = call[x].l
    BY <1>1, <2>1 DEF Call
  <2>3. inner' \in [Endpoint -> Caller \cup {None}] /\ inner'[e] = x
        /\ \A f \in Endpoint : f # e => inner'[f] = inner[f]
    BY <1>1, <1>9 DEF TypeOK
  <2>4. e \in Registered
    BY <1>9 DEF Active, Registered
  <2>5. CallOf(x)' /\ LocksOf(x)' /\ SessionOf(x)' /\ JoinOf(x)'
    BY <1>1, <1>2, <1>3, <1>9, <2>2, <2>3, <2>4 DEF CallOf, LocksOf, SessionOf, JoinOf,
       OfEndpoint, UnderOuter, UnderInner, HookSteps
  <2>6. PassOf(x)'
    BY <1>1, <1>2, <1>3, <1>9, <2>2 DEF PassOf
  <2>7. CallInv(x)'
    BY <2>5, <2>6 DEF CallInv
  <2>8. outer' \in {x, None}
    BY <1>1, <1>9
  <2>9. QED
    BY <1>1, <1>5, <2>1, <2>3, <2>7, <2>8
<1>10. e \in Active /\ ~Owns(e, s) /\ Owns(e, l.from) => ep[e].owner = l.from /\ l.from # s
  BY DEF Owns
<1>11. Owns(e, s) => e \in Active
  BY DEF Owns
<1>12. QED
  BY <1>7, <1>8, <1>9, <1>10, <1>11 DEF Claim

\* What passing a seat on does to the registry.
LEMMA RebindEffect ==
    ASSUME IInv, NEW x \in Caller, Rebind(x)
    PROVE  /\ call[x].e \in Active /\ call[x].e \in Endpoint /\ call[x].s \in Session
           /\ ep' \in [Endpoint -> Record] /\ ep'[call[x].e] = [ep[call[x].e] EXCEPT !.owner = call[x].s]
           /\ \A f \in Endpoint : f # call[x].e => ep'[f] = ep[f]
           /\ \A f \in Endpoint : ep'[f].status = ep[f].status /\ ep'[f].pred = ep[f].pred
           /\ Registered' = Registered /\ Active' = Active
<1>1. TypeOK /\ call[x].e \in Active /\ call[x].e \in Endpoint /\ call[x].s \in Session
  BY DEF IInv, CallInv, CallOf, PassOf, Rebind, OfEndpoint
<1>2. /\ ep' \in [Endpoint -> Record] /\ ep'[call[x].e] = [ep[call[x].e] EXCEPT !.owner = call[x].s]
      /\ \A f \in Endpoint : f # call[x].e => ep'[f] = ep[f]
  BY <1>1, RecordSteps DEF Rebind
<1>3. ep'[call[x].e].status = ep[call[x].e].status /\ ep'[call[x].e].pred = ep[call[x].e].pred
  BY <1>1, <1>2 DEF TypeOK, Record
<1>4. Registered' = Registered /\ Active' = Active
  BY <1>2, <1>3 DEF Registered, Active
<1>5. QED
  BY <1>1, <1>2, <1>3, <1>4

LEMMA RebindInv ==
    ASSUME IInv, NEW x \in Caller, Rebind(x)
    PROVE  IInv'
<1> DEFINE e == call[x].e
           s == call[x].s
<1>1. /\ TypeOK /\ CallInv(x) /\ call[x] \in Call /\ call[x].at = "rebind" /\ outer = x
      /\ inner[e] = x /\ s \in Session
  BY DEF IInv, CallInv, CallOf, LocksOf, Rebind, UnderOuter, UnderInner, TypeOK
<1>2. UNCHANGED <<box, lin, outer, inner, client, promise, spent>>
  BY DEF Rebind
<1>3. /\ e \in Active /\ e \in Endpoint
      /\ ep' \in [Endpoint -> Record] /\ ep'[e] = [ep[e] EXCEPT !.owner = s]
      /\ \A f \in Endpoint : f # e => ep'[f] = ep[f]
      /\ \A f \in Endpoint : ep'[f].status = ep[f].status /\ ep'[f].pred = ep[f].pred
      /\ Registered' = Registered /\ Active' = Active
  BY RebindEffect
<1>4. /\ call' \in [Caller -> Call] /\ call'[x] = [call[x] EXCEPT !.at = "settle"]
      /\ \A y \in Caller : y # x => call'[y] = call[y]
  BY <1>1, CallSteps DEF Rebind, Starting
<1>5. call'[x].at = "settle" /\ call'[x].s = s /\ call'[x].e = e /\ call'[x].l = call[x].l
  BY <1>1, <1>4 DEF Call
<1>6. TypeOK'
  BY <1>1, <1>2, <1>3, <1>4 DEF TypeOK
<1>7. Frame(x)
  BY <1>1, <1>2, <1>3, <1>4 DEF Frame
<1>8. CallInv(x)'
  <2>1. CallOf(x) /\ SessionOf(x) /\ PassOf(x)
    BY <1>1 DEF CallInv
  <2>2. CallOf(x)' /\ LocksOf(x)' /\ JoinOf(x)'
    BY <1>1, <1>2, <1>3, <1>5, <2>1 DEF CallOf, LocksOf, JoinOf, OfEndpoint, UnderOuter, UnderInner
  <2>3. SessionOf(x)' /\ PassOf(x)'
    BY <1>1, <1>2, <1>5, <2>1 DEF SessionOf, PassOf, HookSteps
  <2>4. QED
    BY <2>2, <2>3 DEF CallInv
<1>9. ASSUME NEW f \in Endpoint
      PROVE  RecordInv(f)'
  <2>1. f = e => ep'[f].owner = s
    BY <1>1, <1>3 DEF TypeOK, Record
  <2>2. RecordInv(f)
    BY DEF IInv
  <2>3. QED
    BY <1>1, <1>3, <2>1, <2>2 DEF RecordInv
<1>10. (\A l \in Lineage : LineageInv(l))'
  BY <1>2, <1>7, LineagesStay
<1>11. MailboxesAreKept'
  BY <1>2, <1>3 DEF IInv, MailboxesAreKept
<1>12. QED
  BY <1>6, <1>7, <1>8, <1>9, <1>10, <1>11, StepInv

LEMMA SettleInv ==
    ASSUME IInv, NEW x \in Caller, Settle(x)
    PROVE  IInv'
<1> DEFINE e == call[x].e
           s == call[x].s
           l == call[x].l
           new == [call[x] EXCEPT !.at = "refresh", !.l = None]
           rec == [lin[l] EXCEPT !.state = "consumed", !.to = s]
<1>1. /\ TypeOK /\ CallInv(x) /\ call[x] \in Call /\ call[x].at = "settle" /\ outer = x
      /\ s \in Session /\ e \in Registered /\ l \in Lineage /\ lin[l] \in Succession
      /\ s[2] <= client[s[1]].k
  BY DEF IInv, CallInv, CallOf, LocksOf, SessionOf, Settle, UnderOuter, TypeOK
<1>2. UNCHANGED <<ep, box, client, promise, spent>>
  BY DEF Settle
<1>3. rec \in Succession /\ rec.state = "consumed" /\ rec.from = lin[l].from /\ rec.seat = lin[l].seat
  BY <1>1 DEF Succession
<1>4. lin' = [lin EXCEPT ![l] = rec]
  BY <1>1 DEF Settle, TypeOK
<1>5. /\ lin' \in [Lineage -> Succession] /\ lin'[l] = rec
      /\ \A m \in Lineage : m # l => lin'[m] = lin[m]
  <2> HIDE DEF rec
  <2> QED  BY <1>1, <1>3, <1>4 DEF TypeOK
<1>6. l \in Lineage /\ lin[l].state # "absent"
  BY <1>1 DEF CallInv, PassOf
<1>7. new \in Call /\ new.at = "refresh" /\ new.s = s /\ new.e = e
  BY <1>1 DEF Call, Starting
<1>8. call' = [call EXCEPT ![x] = new]
  BY <1>1 DEF Settle, TypeOK
<1>9. /\ call' \in [Caller -> Call] /\ call'[x] = new
      /\ \A y \in Caller : y # x => call'[y] = call[y]
  <2> HIDE DEF new
  <2> QED  BY <1>1, <1>7, <1>8 DEF TypeOK
<1>10. CallInv(x)'
  <2> HIDE DEF new
  <2>1. Registered' = Registered
    BY <1>2, SameRegistry
  <2>2. SessionOf(x)'
    BY <1>1, <1>2, <1>7, <1>9 DEF SessionOf, HookSteps
  <2>3. QED
    BY <1>1, <1>7, <1>9, <2>1, <2>2, LooseInv
<1>11. /\ outer' \in Caller \cup {None} /\ inner' \in [Endpoint -> Caller \cup {None}]
       /\ \A f \in Endpoint : inner[f] \notin {None, x} => inner'[f] = inner[f]
  BY <1>1, CallSteps DEF Settle, FreeInner
<1>12. promise' \in [Conversation -> Endpoint \cup {None}]
  BY <1>1, <1>2 DEF TypeOK
<1>13. \A m \in Lineage : lin[m].state # "absent" =>
               lin'[m].state # "absent" /\ lin'[m].from = lin[m].from /\ lin'[m].seat = lin[m].seat
  <2> HIDE DEF rec
  <2> QED  BY <1>3, <1>5
<1>14. \A m \in Lineage : lin'[m].state # "absent" => lin[m].state # "absent"
  <2> HIDE DEF rec
  <2> QED  BY <1>5, <1>6
<1>15. QED
  BY <1>1, <1>2, <1>5, <1>9, <1>10, <1>11, <1>12, <1>13, <1>14, HookInv

LEMMA FindInv ==
    ASSUME IInv, NEW x \in Caller, Find(x)
    PROVE  IInv'
<1>1. TypeOK /\ CallInv(x) /\ call[x] \in Call /\ call[x].s \in Session /\ call[x].at = "find"
  BY DEF IInv, CallInv, CallOf, Find, TypeOK
<1>2. UNCHANGED <<ep, box, lin, outer, inner, client, promise, spent>>
  BY DEF Find
<1>3. ASSUME NEW e \in Seats(call[x].s), call' = [call EXCEPT ![x].at = "refresh", ![x].e = e]
      PROVE  IInv'
  <2> DEFINE new == [call[x] EXCEPT !.at = "refresh", !.e = e]
  <2>1. e \in Registered /\ e \in Endpoint
    BY DEF Seats, Owns, Active, Registered
  <2>2. new \in Call /\ new.at = "refresh" /\ new.s = call[x].s /\ new.e = e
    BY <1>1, <2>1 DEF Call, Starting
  <2>3. call' = [call EXCEPT ![x] = new]
    BY <1>1, <1>3 DEF TypeOK
  <2> HIDE DEF new
  <2>4. /\ call' \in [Caller -> Call] /\ call'[x] = new
        /\ \A y \in Caller : y # x => call'[y] = call[y]
    BY <1>1, <2>2, <2>3 DEF TypeOK
  <2>5. SessionOf(x)'
    BY <1>1, <1>2, <2>2, <2>4 DEF CallInv, SessionOf, HookSteps
  <2>6. CallInv(x)'
    BY <1>1, <1>2, <2>1, <2>2, <2>4, <2>5, LooseInv, SameRegistry
  <2>7. QED
    BY <1>2, <2>4, <2>6, CallOnlyInv
<1>4. ASSUME End(x)
      PROVE  IInv'
  <2>1. /\ call' \in [Caller -> Call] /\ call'[x] = Idle
        /\ \A y \in Caller : y # x => call'[y] = call[y]
    BY <1>1, <1>4, CallSteps
  <2>2. QED
    BY <1>2, <2>1, OverInv, CallOnlyInv
<1>5. QED
  BY <1>3, <1>4 DEF Find

----------------------------------------------------------------------------
(* The invariant. *)

LEMMA InitIInv == Init => IInv
<1> SUFFICES ASSUME Init PROVE IInv
  OBVIOUS
<1>1. TypeOK
  BY InitTypes
<1>2. Registered = {} /\ Active = {}
  BY DEF Init, Registered, Active, NoRecord
<1>3. \A x \in Caller : CallInv(x)
  BY NoNone DEF Init, CallInv, CallOf, LocksOf, SessionOf, JoinOf, PassOf, Idle, OfEndpoint, UnderOuter,
     UnderInner, HookSteps
<1>4. \A e \in Endpoint : RecordInv(e)
  BY <1>2 DEF Init, RecordInv, NoRecord
<1>5. \A l \in Lineage : LineageInv(l)
  BY DEF Init, LineageInv, NoLineage
<1>6. QED
  BY <1>1, <1>2, <1>3, <1>4, <1>5 DEF IInv, MailboxesAreKept

LEMMA StutterInv == IInv /\ UNCHANGED vars => IInv'
<1> SUFFICES ASSUME IInv, UNCHANGED vars PROVE IInv'
  OBVIOUS
<1>1. TypeOK /\ UNCHANGED <<ep, box, lin, outer, inner, call, client, promise, spent>>
  BY DEF IInv, vars
<1>2. TypeOK'
  BY <1>1 DEF TypeOK
<1>3. \A c \in Conversation : client[c].k \in Nat /\ client'[c].k = client[c].k
  BY <1>1 DEF TypeOK, Client
<1>4. QED
  BY <1>1, <1>2, <1>3, ClientInv

LEMMA NextIInv == IInv /\ [Next]_vars => IInv'
<1> SUFFICES ASSUME IInv, Next PROVE IInv'
  BY StutterInv
<1>1. ASSUME NEW x \in Caller, Step(x)
      PROVE  IInv'
  BY <1>1, JoinChecksInv, MakeMailboxInv, ReplaceInv, CreateInv, DecideInv, AssertCallerInv, PersistInv,
     LeaveInv, MintInv, ConsumeInv, ClaimInv, RebindInv, SettleInv, FindInv DEF Step
<1>2. ASSUME NEW x \in Caller, ReplaceFails(x) \/ CreateFails(x) \/ LockTimesOut(x) \/ Crash(x)
      PROVE  IInv'
  BY <1>2, ReplaceFailsInv, CreateInv, LockTimesOutInv, CrashInv
<1>3. ASSUME NEW x \in Caller, NEW c \in Conversation,
             \/ BeginAttach(x, c) \/ BeginLeave(x, c) \/ StartHook(x, c) \/ CompactHook(x, c)
             \/ \E r \in Active \cup {None} : BeginJoin(x, c, r)
      PROVE  IInv'
  <2>1. Active \subseteq Endpoint
    BY DEF Active
  <2>2. QED
    BY <1>3, <2>1, BeginAttachInv, BeginLeaveInv, StartHookInv, CompactHookInv, BeginJoinInv
<1>4. ASSUME NEW c \in Conversation, Compacted(c) \/ Exit(c) \/ Resume(c)
      PROVE  IInv'
  BY <1>4, CompactedInv, ComesAndGoes
<1>5. QED
  BY <1>1, <1>2, <1>3, <1>4, BeginForceInv, ExpireInv DEF Next

LEMMA Invariance == Spec => []IInv
BY InitIInv, NextIInv, PTL DEF Spec

----------------------------------------------------------------------------
(* The safety properties the run checks. *)

\* Every variable keeps its type, for any callers, clients and bounds.
THEOREM TypeCorrect == Spec => []TypeOK
<1>1. IInv => TypeOK
  BY DEF IInv
<1>2. QED
  BY Invariance, <1>1, PTL

\* A registered endpoint has its mailbox, whatever joins die or are undone:
\* the mailbox a join removes is its own, and no record names it.
THEOREM MailboxesKept == Spec => []MailboxesAreKept
<1>1. IInv => MailboxesAreKept
  BY DEF IInv
<1>2. QED
  BY Invariance, <1>1, PTL

----------------------------------------------------------------------------
(* The steps that change the registry.                                       *)

Creates(x) == /\ call[x].at = "create"
              /\ ep' = [ep EXCEPT ![call[x].id] = NewRecord(x)]
Replaces(x) == /\ call[x].at = "incumbent" /\ Replaceable(call[x].e)
               /\ ep' = [ep EXCEPT ![call[x].e] = Retired(@, "replaced")]
Refreshes(x) == call[x].at = "persist" /\ ep' = [ep EXCEPT ![call[x].e].ref = call[x].ref]
Retires(e) == \E how \in {"left", "forced"} : ep' = [ep EXCEPT ![e] = Retired(@, how)]

LEMMA RegistrySteps ==
    ASSUME IInv, [Next]_vars
    PROVE  \/ UNCHANGED ep
           \/ \E x \in Caller : Creates(x) \/ Replaces(x) \/ Refreshes(x) \/ Rebind(x)
           \/ \E e \in Registered : Retires(e)
<1>1. CASE UNCHANGED vars
  BY <1>1 DEF vars
<1>2. ASSUME NEW x \in Caller, Replace(x) \/ ReplaceFails(x)
      PROVE  UNCHANGED ep \/ Replaces(x)
  <2>1. call[x].e \in Endpoint
    BY <1>2 DEF IInv, CallInv, CallOf, Replace, ReplaceFails, OfEndpoint
  <2>2. ASSUME call[x].e \in Active, ep' = [ep EXCEPT ![call[x].e] = Retired(@, "active")]
        PROVE  UNCHANGED ep
    <3>1. ep \in [Endpoint -> Record] /\ ep[call[x].e] \in Record /\ ep[call[x].e].status = "active"
      BY <2>1, <2>2 DEF IInv, TypeOK, Active
    <3>2. [ep[call[x].e] EXCEPT !.status = "active"] = ep[call[x].e]
      BY <3>1 DEF Record
    <3>3. QED
      BY <2>1, <2>2, <3>1, <3>2 DEF Retired
  <2>3. QED
    BY <1>2, <2>2 DEF Replace, ReplaceFails, Replaces, Replaceable
<1>3. ASSUME NEW x \in Caller, CreateEndpoint(x) \/ CreateFails(x)
      PROVE  UNCHANGED ep \/ Creates(x)
  <2>1. call[x].id \in Endpoint /\ ep \in [Endpoint -> Record]
    BY <1>3 DEF IInv, TypeOK, CallInv, CallOf, CreateEndpoint, CreateFails
  <2>2. QED
    BY <1>3, <2>1 DEF CreateEndpoint, CreateFails, Creates
<1>4. ASSUME NEW x \in Caller, Persist(x)
      PROVE  UNCHANGED ep \/ Refreshes(x)
  BY <1>4 DEF Persist, Refreshes
<1>5. ASSUME NEW x \in Caller, Leave(x) \/ ForceRetire(x)
      PROVE  UNCHANGED ep \/ \E e \in Registered : Retires(e)
  <2>1. call[x].e \in Registered
    BY <1>5 DEF IInv, CallInv, CallOf, Leave, ForceRetire
  <2>2. QED
    BY <1>5, <2>1 DEF Leave, ForceRetire, Retires
<1>6. ASSUME NEW x \in Caller, Step(x)
      PROVE  \/ UNCHANGED ep \/ Creates(x) \/ Replaces(x) \/ Refreshes(x) \/ Rebind(x)
             \/ \E e \in Registered : Retires(e)
  <2>1. CASE \/ JoinChecks(x) \/ MakeMailbox(x) \/ Decide(x) \/ AssertCaller(x) \/ Mint(x)
             \/ Consume(x) \/ Claim(x) \/ Settle(x) \/ Find(x)
    BY <2>1 DEF JoinChecks, MakeMailbox, Decide, AssertCaller, Mint, Consume, Claim, Settle, Find
  <2>2. QED
    BY <1>2, <1>3, <1>4, <1>5, <1>6, <2>1 DEF Step
<1>7. ASSUME NEW x \in Caller, NEW c \in Conversation,
             \/ BeginAttach(x, c) \/ BeginLeave(x, c) \/ StartHook(x, c) \/ CompactHook(x, c)
             \/ \E r \in Active \cup {None} : BeginJoin(x, c, r)
      PROVE  UNCHANGED ep
  BY <1>7 DEF BeginAttach, BeginLeave, StartHook, CompactHook, BeginJoin, Begin
<1>8. ASSUME \/ \E x \in Caller : LockTimesOut(x) \/ Crash(x) \/ \E e \in Endpoint : BeginForce(x, e)
             \/ \E c \in Conversation : Compacted(c) \/ Exit(c) \/ Resume(c)
             \/ \E l \in Lineage : Expire(l)
      PROVE  UNCHANGED ep
  BY <1>8 DEF LockTimesOut, Crash, BeginForce, Begin, Compacted, Exit, Resume, Expire
<1>9. QED
  BY <1>1, <1>2, <1>3, <1>6, <1>7, <1>8 DEF Next

\* What one step may do to the record of an endpoint.
NeverReplacesLive ==
    \A e \in Endpoint : ep[e].status = "active" /\ ep'[e].status = "replaced" =>
        ep[e].ref # None /\ ~Alive(ep[e].ref)

\* Whoever is replaced has a recorded process, and it is dead at that step,
\* whatever its session's hooks have recorded since the join listed it.
THEOREM LiveStays == Spec => LiveIsNeverReplaced
<1>1. ASSUME IInv, [Next]_vars
      PROVE  NeverReplacesLive
  <2>1. \A e \in Endpoint : ep[e] \in Record /\ ep \in [Endpoint -> Record]
    BY <1>1 DEF IInv, TypeOK
  <2>2. CASE UNCHANGED ep
    BY <2>2 DEF NeverReplacesLive
  <2>3. ASSUME NEW x \in Caller, Creates(x)
        PROVE  NeverReplacesLive
    <3>1. call[x].id \notin Registered /\ \A f \in Endpoint : f # call[x].id => ep'[f] = ep[f]
      BY <1>1, <2>3, CreateEffect DEF Creates
    <3>2. QED
      BY <3>1 DEF NeverReplacesLive, Registered
  <2>4. ASSUME NEW x \in Caller, Replaces(x)
        PROVE  NeverReplacesLive
    <3>1. Replaceable(call[x].e) => ep[call[x].e].ref # None /\ ~Alive(ep[call[x].e].ref)
      BY DEF Replaceable, Liveness
    <3>2. call[x].e \in Endpoint
      BY <2>4 DEF Replaces, Replaceable, Active
    <3>3. \A f \in Endpoint : f # call[x].e => ep'[f] = ep[f]
      BY <1>1, <2>4, <3>2, RecordSteps DEF Replaces, IInv
    <3>4. QED
      BY <2>4, <3>1, <3>3 DEF NeverReplacesLive, Replaces
  <2>5. ASSUME NEW x \in Caller, Refreshes(x)
        PROVE  NeverReplacesLive
    <3>1. call[x].e \in Endpoint /\ call[x].ref \in Process \cup {None} /\ ep[call[x].e] \in Record
      BY <1>1, <2>1, <2>5 DEF IInv, TypeOK, CallInv, CallOf, Refreshes, OfEndpoint, Call
    <3>2. /\ ep'[call[x].e] = [ep[call[x].e] EXCEPT !.ref = call[x].ref]
          /\ \A f \in Endpoint : f # call[x].e => ep'[f] = ep[f]
      BY <1>1, <2>5, <3>1, RecordSteps DEF Refreshes, IInv
    <3>3. ep'[call[x].e].status = ep[call[x].e].status
      BY <3>1, <3>2 DEF Record
    <3>4. QED
      BY <3>2, <3>3 DEF NeverReplacesLive
  <2>6. ASSUME NEW x \in Caller, Rebind(x)
        PROVE  NeverReplacesLive
    BY <1>1, <2>6, RebindEffect DEF NeverReplacesLive
  <2>7. ASSUME NEW e \in Registered, Retires(e)
        PROVE  NeverReplacesLive
    <3>1. e \in Endpoint
      BY DEF Registered
    <3>2. PICK how \in {"left", "forced"} : ep' = [ep EXCEPT ![e] = Retired(@, how)]
      BY <2>7 DEF Retires
    <3>3. /\ ep'[e] = [ep[e] EXCEPT !.status = how]
          /\ \A f \in Endpoint : f # e => ep'[f] = ep[f]
      BY <1>1, <3>1, <3>2, RecordSteps DEF IInv
    <3>4. ep'[e].status = how
      BY <2>1, <3>1, <3>3 DEF Record
    <3>5. QED
      BY <3>3, <3>4 DEF NeverReplacesLive
  <2>8. QED
    BY <1>1, <2>2, <2>3, <2>4, <2>5, <2>6, <2>7, RegistrySteps
<1>2. QED
  BY Invariance, <1>1, PTL DEF Spec, LiveIsNeverReplaced, NeverReplacesLive

----------------------------------------------------------------------------
(* The refinement. *)

HeldBy == [e \in Endpoint |-> IF e \in Active THEN ep[e].owner ELSE None]
Over   == Registered \ Active
Heir   == [e \in Endpoint |-> ep[e].pred]

Granted == Registry!RegistryNext \/ UNCHANGED <<HeldBy, Over, Heir>>

LEMMA HeldAreActive == IInv => Registry!Held = Active
<1> SUFFICES ASSUME IInv PROVE Registry!Held = Active
  OBVIOUS
<1>1. \A e \in Active : ep[e].owner \in Session /\ e \in Endpoint
  BY DEF IInv, RecordInv, Active, Registered
<1>2. QED
  BY <1>1, NoNone DEF Registry!Held, Active

LEMMA SameCardinality == \A S : Registry!Cardinality(S) = Cardinality(S)
BY DEF Registry!Cardinality, Cardinality

LEMMA Quiet ==
    ASSUME Active' = Active, Registered' = Registered,
           \A e \in Endpoint : ep'[e].owner = ep[e].owner /\ ep'[e].pred = ep[e].pred
    PROVE  Granted
BY DEF Granted, HeldBy, Over, Heir

\* An active endpoint that is retired gives its seat up; the mark of one that
\* was retired before changes nothing.
LEMMA RetireGranted ==
    ASSUME IInv, NEW e \in Endpoint, NEW how \in {"replaced", "left", "forced"}, e \in Registered,
           ep' = [ep EXCEPT ![e] = Retired(@, how)]
    PROVE  Granted
<1>1. /\ Registered' = Registered /\ Active' = Active \ {e}
      /\ \A f \in Endpoint : ep'[f].owner = ep[f].owner /\ ep'[f].pred = ep[f].pred
  BY RetireEffect
<1>2. CASE e \notin Active
  BY <1>1, <1>2, Quiet
<1>3. CASE e \in Active
  <2>1. HeldBy[e] # None
    BY <1>3, NoNone DEF IInv, RecordInv, HeldBy, Active, Registered
  <2>2. HeldBy' = [HeldBy EXCEPT ![e] = None]
    BY <1>1 DEF HeldBy
  <2>3. Over' = Over \cup {e} /\ Heir' = Heir
    BY <1>1 DEF Over, Heir
  <2>4. Registry!GiveUp(e)
    BY <2>1, <2>2, <2>3 DEF Registry!GiveUp, HeldBy, Over, Heir
  <2>5. QED
    BY <2>4 DEF Granted, Registry!RegistryNext
<1>4. QED
  BY <1>2, <1>3

LEMMA CreateGranted ==
    ASSUME IInv, NEW x \in Caller, Creates(x)
    PROVE  Granted
<1>0. PICK i \in Endpoint, s \in Session, r \in Endpoint \cup {None} :
         i = call[x].id /\ s = call[x].s /\ r = call[x].e
  BY CreateEffect DEF Creates, IInv, TypeOK, Call
<1>1. /\ i \in Endpoint /\ i \notin Registered /\ s \in Session
      /\ ep'[i] = NewRecord(x)
      /\ \A f \in Endpoint : f # i => ep'[f] = ep[f]
      /\ Registered' = Registered \cup {i} /\ Active' = Active \cup {i}
  BY <1>0, CreateEffect DEF Creates
<1>2. /\ Seats(s) = {} /\ Cardinality(Active \ {r}) < 2 /\ r \notin Active
      /\ r # None => r \in Registered /\ \A f \in Endpoint : ep[f].pred # r
  BY <1>0 DEF Creates, IInv, CallInv, JoinOf
<1>3. i \notin Active /\ Active \ {r} = Active
  BY <1>1, <1>2 DEF Active, Registered
<1>4. ep'[i].owner = s /\ ep'[i].pred = r
  BY <1>0, <1>1 DEF NewRecord
<1>5. Registry!Free(i)
  BY <1>1, <1>3 DEF Registry!Free
<1>6. Registry!Held = Active
  BY HeldAreActive
<1>7. Cardinality(Registry!Held) < 2
  BY <1>2, <1>3, <1>6
<1>8. \A f \in Registry!Held : HeldBy[f] # s
  BY <1>2, <1>6 DEF HeldBy, Seats, Owns, Active
<1>9. r # None => r \in Over /\ \A f \in Endpoint : Heir[f] # r
  BY <1>2 DEF Over, Heir
<1>10. HeldBy' = [HeldBy EXCEPT ![i] = s] /\ Heir' = [Heir EXCEPT ![i] = r]
  BY <1>1, <1>4 DEF HeldBy, Heir
<1>11. Over' = Over
  BY <1>1, <1>3 DEF Over
<1>12. Registry!Take(i)
  <2>1. \E u \in Session, p \in Endpoint \cup {None} :
           /\ \A f \in Registry!Held : HeldBy[f] # u
           /\ p # None => p \in Over /\ \A f \in Endpoint : Heir[f] # p
           /\ HeldBy' = [HeldBy EXCEPT ![i] = u]
           /\ Heir' = [Heir EXCEPT ![i] = p]
    BY <1>8, <1>9, <1>10
  <2>2. QED
    BY <1>5, <1>7, <1>11, <2>1, SameCardinality DEF Registry!Take, HeldBy, Over, Heir
<1>13. QED
  BY <1>1, <1>12 DEF Granted, Registry!RegistryNext

LEMMA RebindGranted ==
    ASSUME IInv, NEW x \in Caller, Rebind(x)
    PROVE  Granted
<1>0. PICK e \in Endpoint, s \in Session : e = call[x].e /\ s = call[x].s
  BY RebindEffect
<1> DEFINE from == lin[call[x].l].from
<1>1. /\ e \in Active /\ e \in Endpoint /\ s \in Session
      /\ ep' \in [Endpoint -> Record] /\ ep'[e] = [ep[e] EXCEPT !.owner = s]
      /\ \A f \in Endpoint : f # e => ep'[f] = ep[f]
      /\ \A f \in Endpoint : ep'[f].status = ep[f].status /\ ep'[f].pred = ep[f].pred
      /\ Registered' = Registered /\ Active' = Active
  BY <1>0, RebindEffect
<1>2. /\ call[x].at = "rebind" /\ CallInv(x) /\ call[x].l \in Lineage
      /\ lin[call[x].l].state # "absent" /\ from[1] = s[1] /\ ep[e].owner = from /\ from # s
      /\ s[2] = client[s[1]].k
  BY <1>0 DEF Rebind, IInv, CallInv, CallOf, SessionOf, PassOf, HookSteps
<1>3. from \in Session /\ from[2] <= client[from[1]].k
  BY <1>2 DEF IInv, LineageInv
<1>4. Registry!Later(s, from)
  <2>1. /\ s[2] \in Nat /\ from[2] \in Nat /\ s = <<s[1], s[2]>> /\ from = <<from[1], from[2]>>
    BY <1>1, <1>3, SessionType
  <2>2. from[2] <= s[2] /\ from[2] # s[2]
    BY <1>2, <1>3, <2>1
  <2>3. s[2] > from[2]
    BY <2>1, <2>2
  <2>4. QED
    BY <1>2, <2>3 DEF Registry!Later
<1>5. ep'[e].owner = s
  BY <1>1 DEF IInv, TypeOK, Record
<1>6. HeldBy[e] = from /\ from # None
  BY <1>1, <1>2, <1>3, NoNone DEF HeldBy
<1>7. HeldBy' = [HeldBy EXCEPT ![e] = s]
  BY <1>1, <1>5 DEF HeldBy
<1>8. Over' = Over /\ Heir' = Heir
  BY <1>1 DEF Over, Heir
<1>9. Registry!Pass(e)
  BY <1>1, <1>4, <1>6, <1>7, <1>8 DEF Registry!Pass, HeldBy, Over, Heir
<1>10. QED
  BY <1>1, <1>9 DEF Granted, Registry!RegistryNext

\* The endpoints' records implement BusRegistry: two seats, one per session,
\* one heir each, and no seat is passed on but to a later session of the
\* conversation that held it.
THEOREM Refinement == Spec => ImplementsRegistry
<1>1. Init => Registry!RegistryInit
  <2>1. Init => Registered = {} /\ Active = {}
    BY DEF Init, Registered, Active, NoRecord
  <2>2. QED
    BY <2>1 DEF Init, NoRecord, Registry!RegistryInit
<1>2. ASSUME IInv, [Next]_vars
      PROVE  Granted
  <2>1. CASE UNCHANGED ep
    BY <2>1, Quiet DEF Active, Registered
  <2>2. ASSUME NEW x \in Caller, Replaces(x)
        PROVE  Granted
    <3>1. call[x].e \in Endpoint /\ call[x].e \in Registered
      BY <2>2 DEF Replaces, Replaceable, Active, Registered
    <3>2. QED
      BY <1>2, <2>2, <3>1, RetireGranted DEF Replaces
  <2>3. ASSUME NEW x \in Caller, Refreshes(x)
        PROVE  Granted
    <3> DEFINE e == call[x].e
    <3>1. e \in Endpoint /\ call[x].ref \in Process \cup {None} /\ ep[e] \in Record
      BY <1>2, <2>3 DEF IInv, TypeOK, CallInv, CallOf, Refreshes, OfEndpoint, Call
    <3>2. /\ ep'[e] = [ep[e] EXCEPT !.ref = call[x].ref]
          /\ \A f \in Endpoint : f # e => ep'[f] = ep[f]
      BY <1>2, <2>3, <3>1, RecordSteps DEF Refreshes, IInv
    <3>3. ep'[e].status = ep[e].status /\ ep'[e].owner = ep[e].owner /\ ep'[e].pred = ep[e].pred
      BY <3>1, <3>2 DEF Record
    <3>4. Active' = Active /\ Registered' = Registered
      BY <3>2, <3>3 DEF Active, Registered
    <3>5. QED
      BY <3>2, <3>3, <3>4, Quiet
  <2>4. ASSUME NEW e \in Registered, Retires(e)
        PROVE  Granted
    BY <1>2, <2>4, RetireGranted DEF Retires, Registered
  <2>5. QED
    BY <1>2, <2>1, <2>2, <2>3, <2>4, CreateGranted, RebindGranted, RegistrySteps
<1>3. QED
  BY Invariance, <1>1, <1>2, PTL DEF Spec, ImplementsRegistry, Registry!RegistrySpec, Registry!rvars, Granted,
     HeldBy, Over, Heir

----------------------------------------------------------------------------
(* A compaction keeps the seat.  The promise of a PreCompact hook is kept    *)
(* in one of a few ways at every step of the hooks that follow; of the hooks *)
(* that work on a conversation's seat, no two run at the same time while a   *)
(* promise is open.                                                          *)

Passers    == HookSteps \cup {"mint"}
Passing(c) == {x \in Caller : call[x].at \in Passers /\ call[x].s[1] = c}

\* A hook works for the present session, on the seat its record names.
HookOf(x) ==
    /\ call[x].at = "mint" => /\ call[x].s[2] = client[call[x].s[1]].k
                              /\ ep[call[x].e].owner[1] = call[x].s[1]
    /\ call[x].at \in {"claim", "rebind", "settle"} => call[x].e = lin[call[x].l].seat
    /\ call[x].at = "settle" => ep[call[x].e].owner = call[x].s

\* A succession record is of the conversation that owns its seat.
LineageOf(l) ==
    lin[l].state # "absent" => /\ lin[l].seat \in Registered
                               /\ ep[lin[l].seat].owner[1] = lin[l].from[1]

\* While a compaction goes on, its PreCompact hook is alone, and then none runs.
ClientOf(c) ==
    /\ ~client[c].up => promise[c] = None /\ client[c].phase = "on"
    /\ client[c].phase = "restart" => Passing(c) = {}
    /\ client[c].phase = "compacting" => \A x \in Passing(c) :
          /\ call[x].at = "mint" /\ promise[c] = None
          /\ call[x].e \notin Active \/ ep[call[x].e].owner = call[x].s
          /\ \A y \in Passing(c) : y = x

\* The ways in which a promise is kept.
FreshOf(c, e) == \E l \in Lineage : Fresh(l) /\ lin[l].seat = e /\ Conv(l) = c
Waits(c, e)   == /\ FreshOf(c, e)
                 /\ \/ client[c].phase \in {"compacting", "restart"}
                    \/ \E x \in Passing(c) : call[x].at = "consume"
Works(c, e)   == \E x \in Passing(c) :
                    /\ call[x].e = e
                    /\ call[x].at = "rebind" \/ (call[x].at = "claim" /\ Fresh(call[x].l))
Excused(c, e) == e \notin Active \/ Ambiguous(c) \/ FormerOwners(e)
Seated(c, e)  == client[c].phase = "on" /\ ep[e].owner = Now(c)

PromiseInv(c) ==
    promise[c] # None =>
        /\ promise[c] \in Registered /\ ep[promise[c]].owner[1] = c
        /\ client[c].phase # "start"
        /\ \A x, y \in Passing(c) : x = y
        /\ \A x \in Passing(c) : call[x].at # "mint"
        /\ \A l \in Lineage : lin[l].state \in {"fresh", "consumed"} /\ Conv(l) = c => ~lin[l].expired
        /\ \A x \in Passing(c) : call[x].at \in {"claim", "rebind", "settle"} =>
              /\ ~lin[call[x].l].expired
              /\ \A l \in Lineage : Fresh(l) /\ Conv(l) = c => l = call[x].l
        /\ \/ Excused(c, promise[c]) \/ Seated(c, promise[c])
           \/ Waits(c, promise[c]) \/ Works(c, promise[c])

SeatInv ==
    /\ IInv
    /\ \A x \in Caller : HookOf(x)
    /\ \A l \in Lineage : LineageOf(l)
    /\ \A c \in Conversation : ClientOf(c)
    /\ \A c \in Conversation : PromiseInv(c)

\* Whatever is not passed on keeps its owner, and what is over stays over.
RecordsAside ==
    /\ Registered \subseteq Registered'
    /\ \A e \in Registered : ep'[e].owner = ep[e].owner /\ (e \notin Active => e \notin Active')

LEMMA RecordsStay ==
    ASSUME IInv, [Next]_vars
    PROVE  RecordsAside \/ \E x \in Caller : Rebind(x)
<1>1. \A e \in Endpoint : ep[e] \in Record
  BY DEF IInv, TypeOK
<1>2. CASE UNCHANGED ep
  BY <1>2 DEF RecordsAside, Active, Registered
<1>3. ASSUME NEW x \in Caller, Creates(x)
      PROVE  RecordsAside
  <2>1. /\ call[x].id \notin Registered
        /\ \A f \in Endpoint : f # call[x].id => ep'[f] = ep[f]
        /\ Registered' = Registered \cup {call[x].id}
        /\ Active' = Active \cup {call[x].id}
    BY <1>3, CreateEffect DEF Creates
  <2>2. Registered \subseteq Endpoint
    BY DEF Registered
  <2>3. QED
    BY <2>1, <2>2 DEF RecordsAside
<1>4. ASSUME NEW e \in Registered, NEW how \in {"replaced", "left", "forced"},
             ep' = [ep EXCEPT ![e] = Retired(@, how)]
      PROVE  RecordsAside
  <2>1. e \in Endpoint /\ Registered \subseteq Endpoint
    BY DEF Registered
  <2>2. /\ Registered' = Registered /\ Active' = Active \ {e}
        /\ \A f \in Endpoint : ep'[f].owner = ep[f].owner
    BY <1>4, <2>1, RetireEffect
  <2>3. QED
    BY <2>1, <2>2 DEF RecordsAside
<1>5. ASSUME NEW x \in Caller, Replaces(x)
      PROVE  RecordsAside
  <2>1. call[x].e \in Registered
    BY <1>5 DEF Replaces, Replaceable, Active, Registered
  <2>2. QED
    BY <1>4, <1>5, <2>1 DEF Replaces
<1>6. ASSUME NEW x \in Caller, Refreshes(x)
      PROVE  RecordsAside
  <2> DEFINE e == call[x].e
  <2>1. e \in Endpoint /\ call[x].ref \in Process \cup {None} /\ ep[e] \in Record /\ TypeOK
    BY <1>1, <1>6 DEF IInv, TypeOK, CallInv, CallOf, Refreshes, OfEndpoint, Call
  <2>2. /\ ep'[e] = [ep[e] EXCEPT !.ref = call[x].ref]
        /\ \A f \in Endpoint : f # e => ep'[f] = ep[f]
    BY <1>6, <2>1, RecordSteps DEF Refreshes
  <2>3. ep'[e].status = ep[e].status /\ ep'[e].owner = ep[e].owner
    BY <2>1, <2>2 DEF Record
  <2>4. Active' = Active /\ Registered' = Registered
    BY <2>2, <2>3 DEF Active, Registered
  <2>5. Registered \subseteq Endpoint
    BY DEF Registered
  <2>6. QED
    BY <2>2, <2>3, <2>4, <2>5 DEF RecordsAside
<1>7. ASSUME NEW e \in Registered, Retires(e)
      PROVE  RecordsAside
  BY <1>4, <1>7 DEF Retires
<1>8. QED
  BY <1>2, <1>3, <1>5, <1>6, <1>7, RegistrySteps

\* What is not a hook of the conversation leaves its promise alone, or ends it.
Aside(d) ==
    /\ client'[d] = client[d] /\ promise'[d] \in {promise[d], None}
    /\ \A y \in Caller : y \in Passing(d)' => y \in Passing(d) /\ call'[y] = call[y]
    /\ Registered \subseteq Registered'
    /\ \A e \in Registered : /\ ep[e].owner[1] = d => ep'[e].owner = ep[e].owner
                             /\ e \notin Active => e \notin Active'
    /\ promise'[d] # None =>
          /\ \A l \in Lineage :
                \/ lin[l].state # "absent" /\ lin[l].from[1] = d
                \/ lin'[l].state # "absent" /\ lin'[l].from[1] = d
                => lin'[l] = lin[l]
          /\ \A y \in Passing(d) : call[y].at \in {"consume", "claim", "rebind"} => call'[y] = call[y]

LEMMA AsideInv ==
    ASSUME SeatInv, NEW d \in Conversation, Aside(d)
    PROVE  ClientOf(d)' /\ PromiseInv(d)'
<1>1. IInv /\ ClientOf(d) /\ PromiseInv(d)
  BY DEF SeatInv
<1>2. client'[d] = client[d] /\ promise'[d] \in {promise[d], None}
      /\ \A y \in Passing(d)' : y \in Passing(d) /\ call'[y] = call[y]
  BY DEF Aside, Passing
<1>3. \A x \in Passing(d) : call[x].at = "mint" =>
          /\ call[x].e \in Registered /\ ep[call[x].e].owner[1] = d
  BY DEF SeatInv, IInv, CallInv, CallOf, HookOf, Passing
<1>4. ClientOf(d)'
  <2>1. \A x \in Passing(d)' : call[x].at = "mint" /\ (call[x].e \notin Active \/ ep[call[x].e].owner = call[x].s) =>
           call'[x].e \notin Active' \/ ep'[call'[x].e].owner = call'[x].s
    BY <1>2, <1>3 DEF Aside
  <2>2. QED
    BY <1>1, <1>2, <2>1 DEF ClientOf
<1>5. PromiseInv(d)'
  <2> SUFFICES ASSUME promise'[d] # None PROVE PromiseInv(d)'
    BY DEF PromiseInv
  <2> DEFINE e == promise[d]
  <2>1. promise'[d] = e /\ e # None
    BY <1>2
  <2>2. /\ e \in Registered /\ ep[e].owner[1] = d
        /\ client[d].phase # "start"
        /\ \A x, y \in Passing(d) : x = y
        /\ \A x \in Passing(d) : call[x].at # "mint"
        /\ \A l \in Lineage : lin[l].state \in {"fresh", "consumed"} /\ Conv(l) = d => ~lin[l].expired
        /\ \A x \in Passing(d) : call[x].at \in {"claim", "rebind", "settle"} =>
              /\ ~lin[call[x].l].expired
              /\ \A l \in Lineage : Fresh(l) /\ Conv(l) = d => l = call[x].l
        /\ Excused(d, e) \/ Seated(d, e) \/ Waits(d, e) \/ Works(d, e)
    BY <1>1, <2>1 DEF PromiseInv
  <2>3. e \in Registered' /\ ep'[e].owner = ep[e].owner /\ (e \notin Active => e \notin Active')
    BY <2>2 DEF Aside
  <2>4. ASSUME NEW l \in Lineage
        PROVE  /\ lin'[l].state \in {"fresh", "consumed"} /\ Conv(l)' = d => lin'[l] = lin[l]
               /\ Fresh(l)' /\ Conv(l)' = d => Fresh(l) /\ Conv(l) = d /\ lin'[l] = lin[l]
               /\ Fresh(l) /\ Conv(l) = d => Fresh(l)' /\ Conv(l)' = d /\ lin'[l] = lin[l]
    <3>1. lin'[l].state # "absent" /\ lin'[l].from[1] = d => lin'[l] = lin[l]
      BY DEF Aside
    <3>2. lin[l].state # "absent" /\ lin[l].from[1] = d => lin'[l] = lin[l]
      BY DEF Aside
    <3>3. QED
      BY <3>1, <3>2 DEF Fresh, Live, Conv
  <2>5. \A y \in Passing(d) : call[y].at \in {"consume", "claim", "rebind"} =>
           call'[y] = call[y] /\ y \in Passing(d)'
    BY DEF Aside, Passing
  <2>6. Excused(d, e) => Excused(d, e)'
    <3>1. Ambiguous(d) => Ambiguous(d)'
      BY <2>4 DEF Ambiguous
    <3>2. FormerOwners(e) => FormerOwners(e)'
      <4>1. ASSUME NEW l \in Lineage, Fresh(l), lin[l].seat = e
            PROVE  Conv(l) = d
        BY <2>2, <4>1 DEF SeatInv, LineageOf, Fresh, Live, Conv
      <4>2. QED
        BY <2>1, <2>3, <2>4, <4>1 DEF FormerOwners
    <3>3. QED
      BY <2>1, <2>3, <3>1, <3>2 DEF Excused
  <2>7. Seated(d, e) => Seated(d, e)'
    BY <1>2, <2>1, <2>3 DEF Seated, Now
  <2>8. Waits(d, e) => Waits(d, e)'
    <3>1. FreshOf(d, e) => FreshOf(d, e)'
      BY <2>1, <2>4 DEF FreshOf
    <3>2. QED
      BY <1>2, <2>5, <3>1 DEF Waits
  <2>9. Works(d, e) => Works(d, e)'
    <3>1. ASSUME NEW x \in Passing(d), call[x].at = "claim", Fresh(call[x].l)
          PROVE  Fresh(call[x].l)'
      <4>1. call[x].l \in Lineage /\ Conv(call[x].l) = d /\ call'[x] = call[x]
        BY <2>5, <3>1 DEF SeatInv, IInv, CallInv, CallOf, PassOf, Passing, Conv
      <4>2. QED
        BY <2>4, <3>1, <4>1
    <3>2. QED
      BY <2>1, <2>5, <3>1 DEF Works
  <2>10. \A x \in Passing(d)' : call'[x].at \in {"claim", "rebind", "settle"} =>
            /\ ~lin'[call'[x].l].expired
            /\ \A l \in Lineage : Fresh(l)' /\ Conv(l)' = d => l = call'[x].l
    <3>1. ASSUME NEW x \in Passing(d), call[x].at \in {"claim", "rebind", "settle"}
          PROVE  lin'[call[x].l] = lin[call[x].l]
      <4>1. call[x].l \in Lineage /\ lin[call[x].l].state # "absent" /\ lin[call[x].l].from[1] = d
        BY <3>1 DEF SeatInv, IInv, CallInv, CallOf, PassOf, Passing
      <4>2. QED
        BY <2>1, <4>1 DEF Aside
    <3>2. QED
      BY <1>2, <2>2, <2>4, <3>1
  <2>11. \A l \in Lineage : lin'[l].state \in {"fresh", "consumed"} /\ Conv(l)' = d => ~lin'[l].expired
    BY <2>2, <2>4 DEF Conv
  <2>12. QED
    BY <1>2, <2>1, <2>2, <2>3, <2>6, <2>7, <2>8, <2>9, <2>10, <2>11 DEF PromiseInv
<1>6. QED
  BY <1>4, <1>5

\* Owners stay in their conversation, and succession records stay what they are.
Belongings ==
    /\ \A e \in Registered : e \in Registered' /\ ep'[e].owner[1] = ep[e].owner[1]
    /\ \A l \in Lineage : lin[l].state # "absent" =>
          /\ lin'[l].state # "absent"
          /\ lin'[l].from = lin[l].from /\ lin'[l].seat = lin[l].seat

\* A call that a step leaves alone.
LEMMA OthersHookOf ==
    ASSUME SeatInv, Belongings, NEW y \in Caller, call'[y] = call[y],
           call[y].at = "mint" => client'[call[y].s[1]].k = client[call[y].s[1]].k,
           call[y].at = "settle" => ep'[call[y].e].owner = ep[call[y].e].owner
    PROVE  HookOf(y)'
<1>1. HookOf(y) /\ CallInv(y)
  BY DEF SeatInv, IInv
<1>2. call[y].at = "mint" => call[y].e \in Registered
  BY <1>1 DEF CallInv, CallOf
<1>3. call[y].at \in {"claim", "rebind", "settle"} => call[y].l \in Lineage /\ lin[call[y].l].state # "absent"
  BY <1>1 DEF CallInv, CallOf, PassOf
<1>4. QED
  BY <1>1, <1>2, <1>3 DEF HookOf, Belongings

\* Enough for one step.
LEMMA StepSeatInv ==
    ASSUME SeatInv, IInv', Belongings,
           \A x \in Caller : HookOf(x)',
           \A l \in Lineage : lin[l].state = "absent" => LineageOf(l)',
           \A c \in Conversation : Aside(c) \/ (ClientOf(c)' /\ PromiseInv(c)')
    PROVE  SeatInv'
<1>1. ASSUME NEW l \in Lineage
      PROVE  LineageOf(l)'
  <2>1. CASE lin[l].state # "absent"
    BY <2>1 DEF SeatInv, LineageOf, Belongings
  <2>2. QED
    BY <2>1
<1>2. ASSUME NEW c \in Conversation
      PROVE  ClientOf(c)' /\ PromiseInv(c)'
  BY AsideInv
<1>3. QED
  BY <1>1, <1>2 DEF SeatInv

\* Enough for a step that no hook of a conversation needs.
LEMMA StillSeatInv ==
    ASSUME SeatInv, IInv', RecordsAside, UNCHANGED <<lin, client>>,
           NEW x \in Caller, \A y \in Caller : y # x => call'[y] = call[y],
           call'[x].at \notin Passers,
           \A c \in Conversation : promise'[c] \in {promise[c], None},
           call[x].at \in {"consume", "claim", "rebind"} => promise'[call[x].s[1]] = None
    PROVE  SeatInv'
<1>1. IInv /\ \A y \in Caller : CallInv(y)
  BY DEF SeatInv, IInv
<1>2. Belongings
  BY DEF RecordsAside, Belongings
<1>3. \A y \in Caller : call[y].at = "settle" => call[y].e \in Registered
  BY <1>1 DEF CallInv, CallOf
<1>4. ASSUME NEW y \in Caller
      PROVE  HookOf(y)'
  <2>1. CASE y = x
    BY <2>1 DEF HookOf, Passers, HookSteps
  <2>2. CASE y # x
    BY <1>2, <1>3, <2>2, OthersHookOf DEF RecordsAside
  <2>3. QED
    BY <2>1, <2>2
<1>5. ASSUME NEW c \in Conversation
      PROVE  Aside(c)
  <2>1. \A y \in Caller : y \in Passing(c)' => y \in Passing(c) /\ call'[y] = call[y]
    BY DEF Passing
  <2>2. \A y \in Passing(c) : promise'[c] # None /\ call[y].at \in {"consume", "claim", "rebind"} =>
           call'[y] = call[y]
    BY DEF Passing
  <2>3. QED
    BY <2>1, <2>2 DEF Aside, RecordsAside
<1>6. QED
  BY <1>2, <1>4, <1>5, StepSeatInv DEF SeatInv, LineageOf

\* The calls that are no hook's, hooks that find their seat, and ends of any call.
LEMMA OtherCallsSeat ==
    ASSUME SeatInv, IInv', [Next]_vars, NEW x \in Caller,
           \/ JoinChecks(x) \/ MakeMailbox(x) \/ Replace(x) \/ CreateEndpoint(x)
           \/ Decide(x) \/ AssertCaller(x) \/ Persist(x) \/ Leave(x) \/ ForceRetire(x) \/ Find(x)
           \/ ReplaceFails(x) \/ CreateFails(x) \/ LockTimesOut(x) \/ Crash(x)
    PROVE  SeatInv'
<1>1. IInv /\ TypeOK /\ TypeOK' /\ call[x] \in Call /\ call'[x] \in Call
  BY DEF SeatInv, IInv, TypeOK
<1>2. UNCHANGED <<lin, client>>
  BY DEF JoinChecks, MakeMailbox, Replace, CreateEndpoint, Decide, AssertCaller, Persist, Leave, ForceRetire,
     Find, ReplaceFails, CreateFails, LockTimesOut, Crash
<1>3. /\ \A y \in Caller : y # x => call'[y] = call[y]
      /\ call'[x].at \notin Passers
  <2>1. ASSUME End(x)
        PROVE  /\ \A y \in Caller : y # x => call'[y] = call[y]
               /\ call'[x].at \notin Passers
    BY <1>1, <2>1, CallSteps DEF Idle, Passers, HookSteps
  <2>2. ASSUME NEW at \in {"mailbox", "create"}, Go(x, at)
        PROVE  /\ \A y \in Caller : y # x => call'[y] = call[y]
               /\ call'[x].at \notin Passers
    <3>1. /\ \A y \in Caller : y # x => call'[y] = call[y]
          /\ call'[x] = [call[x] EXCEPT !.at = at]
      BY <1>1, <2>2, CallSteps DEF Joining
    <3>2. call'[x].at = at
      BY <1>1, <3>1 DEF Call
    <3>3. QED
      BY <3>1, <3>2 DEF Passers, HookSteps
  <2>3. CASE JoinChecks(x)
    <3>1. ASSUME NEW e, call' = [call EXCEPT ![x] = IF call[x].child THEN Idle
                              ELSE [Idle EXCEPT !.at = "refresh", !.s = call[x].s, !.e = e]]
          PROVE  /\ \A y \in Caller : y # x => call'[y] = call[y]
                 /\ call'[x].at \notin Passers
      BY <1>1, <3>1 DEF Idle, TypeOK, Passers, HookSteps
    <3>2. QED
      BY <2>1, <2>2, <2>3, <3>1 DEF JoinChecks
  <2>4. CASE MakeMailbox(x)
    <3>1. ASSUME NEW ref, NEW id, NEW at \in {"create", "incumbent"},
                 call' = [call EXCEPT ![x].at = at, ![x].ref = ref, ![x].id = id]
          PROVE  /\ \A y \in Caller : y # x => call'[y] = call[y]
                 /\ call'[x].at \notin Passers
      BY <1>1, <3>1 DEF TypeOK, Call, Passers, HookSteps
    <3>2. QED
      BY <2>1, <2>4, <3>1 DEF MakeMailbox
  <2>5. CASE Replace(x)
    BY <2>1, <2>2, <2>5 DEF Replace, GiveUpJoin
  <2>6. CASE Decide(x)
    <3>1. ASSUME NEW e, call' = [call EXCEPT ![x].at = "join", ![x].e = e]
          PROVE  /\ \A y \in Caller : y # x => call'[y] = call[y]
                 /\ call'[x].at \notin Passers
      BY <1>1, <3>1 DEF TypeOK, Call, Passers, HookSteps
    <3>2. ASSUME call' = [call EXCEPT ![x].at = "join"]
          PROVE  /\ \A y \in Caller : y # x => call'[y] = call[y]
                 /\ call'[x].at \notin Passers
      BY <1>1, <3>2 DEF TypeOK, Call, Passers, HookSteps
    <3>3. QED
      BY <2>1, <2>6, <3>1, <3>2 DEF Decide, End
  <2>7. CASE AssertCaller(x)
    <3>1. ASSUME NEW ref, call' = [call EXCEPT ![x].at = "persist", ![x].ref = ref]
          PROVE  /\ \A y \in Caller : y # x => call'[y] = call[y]
                 /\ call'[x].at \notin Passers
      BY <1>1, <3>1 DEF TypeOK, Call, Passers, HookSteps
    <3>2. QED
      BY <2>1, <2>7, <3>1 DEF AssertCaller
  <2>8. CASE Find(x)
    <3>1. ASSUME NEW e, call' = [call EXCEPT ![x].at = "refresh", ![x].e = e]
          PROVE  /\ \A y \in Caller : y # x => call'[y] = call[y]
                 /\ call'[x].at \notin Passers
      BY <1>1, <3>1 DEF TypeOK, Call, Passers, HookSteps
    <3>2. QED
      BY <2>1, <2>8, <3>1 DEF Find
  <2>9. CASE \/ CreateEndpoint(x) \/ Persist(x) \/ Leave(x) \/ ForceRetire(x) \/ ReplaceFails(x)
             \/ CreateFails(x) \/ LockTimesOut(x) \/ Crash(x)
    BY <2>1, <2>9 DEF CreateEndpoint, Persist, Leave, ForceRetire, ReplaceFails, CreateFails, GiveUpJoin,
       LockTimesOut, Crash
  <2>10. QED
    BY <2>3, <2>4, <2>5, <2>6, <2>7, <2>8, <2>9
<1>4. RecordsAside
  <2>1. ASSUME NEW y \in Caller, Rebind(y)
        PROVE  FALSE
    <3>1. call[y] \in Call /\ call[y].at = "rebind" /\ call'[y] = [call[y] EXCEPT !.at = "settle"]
      BY <1>1, <2>1, CallSteps DEF Rebind, Starting, TypeOK
    <3>2. call'[y].at = "settle"
      BY <3>1 DEF Call
    <3>3. QED
      BY <1>3, <3>1, <3>2 DEF Passers, HookSteps
  <2>2. QED
    BY <1>1, <2>1, RecordsStay
<1>5. /\ \A c \in Conversation : promise'[c] \in {promise[c], None}
      /\ call[x].at \in {"consume", "claim", "rebind"} => promise'[call[x].s[1]] = None
  <2>1. promise \in [Conversation -> Endpoint \cup {None}]
    BY <1>1 DEF TypeOK
  <2>2. call[x].at \in Starting => call[x].s \in Session /\ call[x].s[1] \in Conversation
    BY <1>1, SessionType DEF IInv, CallInv, CallOf, Starting
  <2>3. ASSUME NEW s \in Session \cup {None}, promise' = Forgotten(s)
        PROVE  /\ \A c \in Conversation : promise'[c] \in {promise[c], None}
               /\ s \in Session => promise'[s[1]] = None
    BY <2>1, <2>3, NoNone, SessionType DEF Forgotten
  <2>4. call[x].s \in Session \cup {None}
    BY <1>1 DEF Call
  <2>5. CASE LockTimesOut(x) \/ Crash(x)
    BY <2>2, <2>3, <2>4, <2>5 DEF LockTimesOut, Crash, Starting
  <2>6. CASE ~(LockTimesOut(x) \/ Crash(x))
    BY <2>6 DEF JoinChecks, MakeMailbox, Replace, CreateEndpoint, Decide, AssertCaller, Persist, Leave, ForceRetire,
       Find, ReplaceFails, CreateFails
  <2>7. QED
    BY <2>5, <2>6
<1>6. QED
  BY <1>2, <1>3, <1>4, <1>5, StillSeatInv

----------------------------------------------------------------------------
(* Calls that begin, and steps of clients and clocks. *)

\* Nothing is passed on, and no succession record is made or settled.
LEMMA QuietBelongings ==
    ASSUME UNCHANGED <<ep, lin>>
    PROVE  RecordsAside /\ Belongings /\ UNCHANGED <<Registered, Active>>
BY DEF RecordsAside, Belongings, Registered, Active

LEMMA BeginsSeat ==
    ASSUME SeatInv, IInv', NEW x \in Caller,
           \/ \E c \in Conversation : \/ BeginAttach(x, c) \/ BeginLeave(x, c)
                                     \/ \E r \in Active \cup {None} : BeginJoin(x, c, r)
           \/ \E e \in Endpoint : BeginForce(x, e)
    PROVE  SeatInv'
<1>1. call \in [Caller -> Call] /\ call[x].at = "idle"
  BY DEF SeatInv, IInv, TypeOK, BeginAttach, BeginLeave, BeginJoin, BeginForce, Begin
<1>2. UNCHANGED <<ep, lin, client, promise>>
  BY DEF BeginAttach, BeginLeave, BeginJoin, BeginForce, Begin
<1>3. \A y \in Caller : y # x => call'[y] = call[y]
  BY <1>1 DEF BeginAttach, BeginLeave, BeginJoin, BeginForce, Begin
<1>4. call'[x].at \notin Passers
  <2>1. ASSUME NEW at, NEW s, NEW e, Begin(x, at, s, e)
        PROVE  call'[x].at = at
    BY <1>1, <2>1 DEF Begin, Idle
  <2>2. \A c \in Conversation : BeginAttach(x, c) => call'[x].at = "attach"
    BY <1>1 DEF BeginAttach, Idle
  <2>3. call'[x].at \in {"attach", "leave", "join", "force"}
    BY <2>1, <2>2 DEF BeginLeave, BeginJoin, BeginForce
  <2>4. QED
    BY <2>3 DEF Passers, HookSteps
<1>5. QED
  BY <1>1, <1>2, <1>3, <1>4, QuietBelongings, StillSeatInv

\* No hook of a conversation runs: none works on its seat.
LEMMA Vacant ==
    ASSUME SeatInv, NEW c \in Conversation, ~HookRuns(c)
    PROVE  Passing(c) = {}
<1> SUFFICES ASSUME NEW x \in Passing(c) PROVE FALSE
  OBVIOUS
<1>1. x \in Caller /\ call[x].at \in Passers /\ call[x].s[1] = c
  BY DEF Passing
<1>2. call[x].s \in Session /\ call[x].s[2] = client[c].k
  BY <1>1 DEF SeatInv, IInv, CallInv, CallOf, SessionOf, HookOf, Passers, HookSteps
<1>3. call[x].s = Now(c)
  BY <1>1, <1>2, SessionType DEF Now
<1>4. call[x].at \in Starting \cup {"mint"}
  BY <1>1 DEF Passers, HookSteps, Starting
<1>5. QED
  BY <1>1, <1>3, <1>4 DEF HookRuns

\* A step of one client that begins at most its own hook: all others are aside.
LEMMA OneClient ==
    ASSUME SeatInv, IInv', NEW c \in Conversation, UNCHANGED <<ep, lin>>,
           \A d \in Conversation : d # c => client'[d] = client[d] /\ promise'[d] = promise[d],
           \A y \in Caller : call'[y] = call[y] \/ (call'[y].s[1] = c /\ HookOf(y)'),
           \A y \in Caller : call[y].at = "mint" => client'[call[y].s[1]].k = client[call[y].s[1]].k,
           \A y \in Caller : call'[y] # call[y] => call[y].at = "idle",
           ClientOf(c)', PromiseInv(c)'
    PROVE  SeatInv'
<1>1. RecordsAside /\ Belongings
  BY QuietBelongings
<1>2. ASSUME NEW y \in Caller
      PROVE  HookOf(y)'
  BY <1>1, OthersHookOf
<1>3. ASSUME NEW d \in Conversation, d # c
      PROVE  Aside(d)
  <2>1. \A y \in Caller : y \in Passing(d)' => y \in Passing(d) /\ call'[y] = call[y]
    BY <1>3 DEF Passing
  <2>2. \A y \in Passing(d) : call'[y] = call[y]
    BY DEF Passing, Passers, HookSteps
  <2>3. QED
    BY <1>1, <1>3, <2>1, <2>2 DEF Aside, RecordsAside
<1>4. QED
  BY <1>1, <1>2, <1>3, StepSeatInv DEF SeatInv, LineageOf

LEMMA StartHookSeat ==
    ASSUME SeatInv, IInv', NEW x \in Caller, NEW c \in Conversation, StartHook(x, c)
    PROVE  SeatInv'
<1> DEFINE at == IF client[c].phase = "restart" THEN "consume" ELSE "find"
           new == [Idle EXCEPT !.at = at, !.s = Now(c), !.e = None]
<1>1. TypeOK /\ Now(c)[1] = c
  BY NowType DEF SeatInv, IInv
<1>2. new.at = at /\ new.s = Now(c)
  BY DEF Idle
<1>3. UNCHANGED <<ep, lin, promise>> /\ call[x].at = "idle" /\ call' = [call EXCEPT ![x] = new]
      /\ client[c].phase \in {"start", "restart"} /\ client[c].up
  BY DEF StartHook, Begin
<1>4. /\ call'[x] = new
      /\ \A y \in Caller : y # x => call'[y] = call[y]
  <2> HIDE DEF new
  <2> QED  BY <1>1, <1>3 DEF TypeOK
<1>5. /\ client'[c] = [client[c] EXCEPT !.phase = "on"]
      /\ \A d \in Conversation : d # c => client'[d] = client[d]
      /\ \A d \in Conversation : client'[d].k = client[d].k
  BY <1>1, PhaseType DEF StartHook, TypeOK
<1>6. client'[c].phase = "on" /\ client'[c].up
  BY <1>1, <1>3, <1>5 DEF TypeOK, Client
<1>7. call'[x].s[1] = c /\ call'[x].at = at /\ HookOf(x)'
  <2> HIDE DEF new
  <2> QED  BY <1>1, <1>2, <1>4 DEF HookOf
<1>8. ClientOf(c)'
  BY <1>6 DEF ClientOf
<1>9. PromiseInv(c)'
  <2> SUFFICES ASSUME promise[c] # None PROVE PromiseInv(c)'
    BY <1>3 DEF PromiseInv
  <2> DEFINE e == promise[c]
  <2> HIDE DEF new
  <2>1. /\ e \in Registered /\ ep[e].owner[1] = c
        /\ client[c].phase # "start"
        /\ \A l \in Lineage : lin[l].state \in {"fresh", "consumed"} /\ Conv(l) = c => ~lin[l].expired
        /\ Excused(c, e) \/ Seated(c, e) \/ Waits(c, e) \/ Works(c, e)
    BY DEF SeatInv, PromiseInv
  <2>2. client[c].phase = "restart" /\ Passing(c) = {}
    BY <1>3, <2>1 DEF SeatInv, ClientOf
  <2>3. Passing(c)' = {x}
    <3>1. \A y \in Caller : y # x => y \notin Passing(c)'
      BY <1>4, <2>2 DEF Passing
    <3>2. x \in Passing(c)'
      BY <1>7, <2>2 DEF Passing, Passers, HookSteps
    <3>3. QED
      BY <3>1, <3>2 DEF Passing
  <2>4. Excused(c, e) \/ FreshOf(c, e)
    BY <2>1, <2>2 DEF Seated, Waits, Works
  <2>5. Registered' = Registered /\ Active' = Active
    BY <1>3, QuietBelongings
  <2>6. \A l \in Lineage : (Fresh(l)' <=> Fresh(l)) /\ Conv(l)' = Conv(l)
    BY <1>3 DEF Fresh, Live, Conv
  <2>7. Excused(c, e) => Excused(c, promise[c])'
    BY <1>3, <2>5, <2>6 DEF Excused, Ambiguous, FormerOwners
  <2>8. FreshOf(c, e) => Waits(c, promise[c])'
    BY <1>3, <1>7, <2>2, <2>3, <2>6 DEF FreshOf, Waits
  <2>9. QED
    BY <1>3, <1>6, <1>7, <2>1, <2>2, <2>3, <2>4, <2>5, <2>6, <2>7, <2>8 DEF PromiseInv
<1>10. \A y \in Caller : call[y].at = "mint" => client'[call[y].s[1]].k = client[call[y].s[1]].k
  BY <1>5, SessionType DEF SeatInv, IInv, CallInv, CallOf
<1>11. QED
  <2> HIDE DEF new
  <2> QED  BY <1>3, <1>4, <1>5, <1>7, <1>8, <1>9, <1>10, OneClient

LEMMA CompactHookSeat ==
    ASSUME SeatInv, IInv', NEW x \in Caller, NEW c \in Conversation, CompactHook(x, c)
    PROVE  SeatInv'
<1>1. TypeOK /\ Now(c)[1] = c /\ Now(c)[2] = client[c].k /\ Passing(c) = {}
  BY NowType, Vacant DEF SeatInv, IInv, CompactHook
<1>2. UNCHANGED <<ep, lin>> /\ call[x].at = "idle" /\ client[c].up
      /\ promise' = [promise EXCEPT ![c] = None]
  BY DEF CompactHook, Begin
<1>3. /\ client'[c] = [client[c] EXCEPT !.phase = "compacting"]
      /\ \A d \in Conversation : d # c => client'[d] = client[d]
      /\ \A d \in Conversation : client'[d].k = client[d].k
  BY <1>1, PhaseType DEF CompactHook, TypeOK
<1>4. client'[c].phase = "compacting" /\ client'[c].up
  BY <1>1, <1>2, <1>3 DEF TypeOK, Client
<1>5. promise'[c] = None /\ \A d \in Conversation : d # c => promise'[d] = promise[d]
  BY <1>1, <1>2 DEF TypeOK
<1>6. PromiseInv(c)'
  BY <1>5 DEF PromiseInv
<1>7. \A y \in Caller : call[y].at = "mint" => client'[call[y].s[1]].k = client[call[y].s[1]].k
  BY <1>3, SessionType DEF SeatInv, IInv, CallInv, CallOf
<1>8. CASE UNCHANGED call
  <2>1. Passing(c)' = {}
    BY <1>1, <1>8 DEF Passing
  <2>2. ClientOf(c)'
    BY <1>4, <1>5, <2>1 DEF ClientOf
  <2>3. QED
    BY <1>2, <1>3, <1>5, <1>6, <1>7, <1>8, <2>2, OneClient
<1>9. ASSUME NEW e \in Seats(Now(c)), Begin(x, "mint", Now(c), e)
      PROVE  SeatInv'
  <2> DEFINE new == [Idle EXCEPT !.at = "mint", !.s = Now(c), !.e = e]
  <2>1. new.at = "mint" /\ new.s = Now(c) /\ new.e = e
    BY DEF Idle
  <2>2. call' = [call EXCEPT ![x] = new]
    BY <1>9 DEF Begin
  <2> HIDE DEF new
  <2>3. /\ call'[x] = new
        /\ \A y \in Caller : y # x => call'[y] = call[y]
    BY <1>1, <2>2 DEF TypeOK
  <2>4. e \in Active /\ e \in Endpoint /\ ep[e].owner = Now(c)
    BY DEF Seats, Owns
  <2>5. HookOf(x)' /\ call'[x].s[1] = c
    BY <1>1, <1>2, <1>3, <2>1, <2>3, <2>4 DEF HookOf
  <2>6. Passing(c)' \subseteq {x}
    BY <1>1, <2>3 DEF Passing
  <2>7. ClientOf(c)'
    BY <1>2, <1>4, <1>5, <2>1, <2>3, <2>4, <2>6 DEF ClientOf
  <2>8. QED
    BY <1>2, <1>3, <1>5, <1>6, <1>7, <2>3, <2>5, <2>7, OneClient
<1>10. QED
  BY <1>8, <1>9 DEF CompactHook

LEMMA CompactedSeat ==
    ASSUME SeatInv, IInv', NEW c \in Conversation, Compacted(c)
    PROVE  SeatInv'
<1>1. TypeOK /\ Passing(c) = {} /\ client[c] \in Client
  BY Vacant DEF SeatInv, IInv, Compacted, TypeOK
<1>2. UNCHANGED <<ep, lin, call, promise>> /\ client[c].phase = "compacting" /\ client[c].up
  BY DEF Compacted
<1>3. PICK k : client' = [client EXCEPT ![c].k = k, ![c].phase = "restart"]
  BY DEF Compacted
<1>4. client'[c].phase = "restart" /\ client'[c].up
      /\ \A d \in Conversation : d # c => client'[d] = client[d]
  BY <1>1, <1>2, <1>3 DEF TypeOK, Client
<1>5. Passing(c)' = {}
  BY <1>1, <1>2 DEF Passing
<1>6. ClientOf(c)'
  BY <1>4, <1>5 DEF ClientOf
<1>7. PromiseInv(c)'
  <2> SUFFICES ASSUME promise[c] # None PROVE PromiseInv(c)'
    BY <1>2 DEF PromiseInv
  <2> DEFINE e == promise[c]
  <2>1. /\ e \in Registered /\ ep[e].owner[1] = c
        /\ \A l \in Lineage : lin[l].state \in {"fresh", "consumed"} /\ Conv(l) = c => ~lin[l].expired
        /\ Excused(c, e) \/ Seated(c, e) \/ Waits(c, e) \/ Works(c, e)
    BY DEF SeatInv, PromiseInv
  <2>2. Excused(c, e) \/ FreshOf(c, e)
    BY <1>1, <1>2, <2>1 DEF Seated, Waits, Works
  <2>3. Registered' = Registered /\ Active' = Active
    BY <1>2, QuietBelongings
  <2>4. \A l \in Lineage : (Fresh(l)' <=> Fresh(l)) /\ Conv(l)' = Conv(l)
    BY <1>2 DEF Fresh, Live, Conv
  <2>5. Excused(c, e) => Excused(c, promise[c])'
    BY <1>2, <2>3, <2>4 DEF Excused, Ambiguous, FormerOwners
  <2>6. FreshOf(c, e) => Waits(c, promise[c])'
    BY <1>2, <1>4, <2>4 DEF FreshOf, Waits
  <2>7. QED
    BY <1>2, <1>4, <1>5, <2>1, <2>2, <2>3, <2>4, <2>5, <2>6 DEF PromiseInv
<1>8. ASSUME NEW y \in Caller, call[y].at = "mint"
      PROVE  client'[call[y].s[1]].k = client[call[y].s[1]].k
  <2>1. call[y].s[1] \in Conversation
    BY <1>8, SessionType DEF SeatInv, IInv, CallInv, CallOf
  <2>2. call[y].s[1] # c
    BY <1>1, <1>8 DEF Passing, Passers
  <2>3. QED
    BY <1>4, <2>1, <2>2
<1>9. QED
  BY <1>2, <1>4, <1>6, <1>7, <1>8, OneClient

LEMMA ComesAndGoesSeat ==
    ASSUME SeatInv, IInv', NEW c \in Conversation, Exit(c) \/ Resume(c)
    PROVE  SeatInv'
<1>1. TypeOK /\ client[c] \in Client /\ ClientOf(c)
  BY DEF SeatInv, IInv, TypeOK
<1>2. UNCHANGED <<ep, lin, call>>
  BY DEF Exit, Resume
<1>3. /\ client'[c].k = client[c].k
      /\ \A d \in Conversation : d # c => client'[d] = client[d]
      /\ client'[c].phase \in {"on", "start"}
      /\ ~client'[c].up => client'[c].phase = "on"
  BY <1>1 DEF TypeOK, Client, Exit, Resume
<1>4. promise'[c] = None /\ \A d \in Conversation : d # c => promise'[d] = promise[d]
  BY <1>1 DEF TypeOK, Exit, Resume, ClientOf
<1>5. ClientOf(c)' /\ PromiseInv(c)'
  BY <1>3, <1>4 DEF ClientOf, PromiseInv
<1>6. \A y \in Caller : call[y].at = "mint" => client'[call[y].s[1]].k = client[call[y].s[1]].k
  BY <1>3, SessionType DEF SeatInv, IInv, CallInv, CallOf
<1>7. QED
  BY <1>2, <1>3, <1>4, <1>5, <1>6, OneClient

LEMMA ExpireSeat ==
    ASSUME SeatInv, IInv', NEW l \in Lineage, Expire(l)
    PROVE  SeatInv'
<1>1. TypeOK /\ lin[l] \in Succession /\ lin[l].state # "absent" /\ LineageInv(l)
  BY DEF SeatInv, IInv, TypeOK, Expire
<1>2. UNCHANGED <<ep, call, client>> /\ lin' = [lin EXCEPT ![l] = [lin[l] EXCEPT !.expired = TRUE]]
  BY <1>1 DEF Expire, TypeOK
<1>3. /\ \A m \in Lineage : m # l => lin'[m] = lin[m]
      /\ \A m \in Lineage : /\ lin'[m].state = lin[m].state
                            /\ lin'[m].from = lin[m].from /\ lin'[m].seat = lin[m].seat
  BY <1>1, <1>2 DEF TypeOK, Succession
<1>4. lin[l].from \in Session /\ lin[l].from[1] \in Conversation /\ lin[l].from # None
  BY <1>1, SessionType, NoNone DEF LineageInv
<1>5. promise' = [promise EXCEPT ![lin[l].from[1]] = None]
  BY <1>4 DEF Expire, Forgotten
<1>6. Registered' = Registered /\ Active' = Active /\ Belongings
  BY <1>2, <1>3 DEF Registered, Active, Belongings
<1>7. ASSUME NEW y \in Caller
      PROVE  HookOf(y)'
  BY <1>2, <1>6, OthersHookOf
<1>8. ASSUME NEW d \in Conversation
      PROVE  Aside(d)
  <2>1. promise'[d] \in {promise[d], None} /\ (promise'[d] # None => d # lin[l].from[1])
    BY <1>1, <1>4, <1>5 DEF TypeOK
  <2>2. Passing(d)' = Passing(d)
    BY <1>2 DEF Passing
  <2>3. QED
    BY <1>2, <1>3, <1>6, <2>1, <2>2 DEF Aside
<1>9. QED
  BY <1>3, <1>6, <1>7, <1>8, StepSeatInv DEF LineageOf

----------------------------------------------------------------------------
(* The hooks themselves. *)

\* A hook's step: the other conversations are aside, whatever it does to its own.
LEMMA HookSeat ==
    ASSUME SeatInv, IInv', Belongings, NEW x \in Caller, NEW c \in Conversation,
           call[x].s[1] = c, call'[x].at \in Passers => call'[x].s[1] = c,
           \A y \in Caller : y # x => call'[y] = call[y],
           UNCHANGED client, \A d \in Conversation : d # c => promise'[d] = promise[d],
           Registered' = Registered, Active' = Active,
           \A e \in Registered : ep[e].owner[1] # c => ep'[e].owner = ep[e].owner,
           \A y \in Caller : y # x /\ call[y].at = "settle" => ep'[call[y].e].owner = ep[call[y].e].owner,
           \A d \in Conversation, l \in Lineage :
               /\ d # c /\ promise[d] # None
               /\ \/ lin[l].state # "absent" /\ lin[l].from[1] = d
                  \/ lin'[l].state # "absent" /\ lin'[l].from[1] = d
               => lin'[l] = lin[l],
           HookOf(x)', \A l \in Lineage : lin[l].state = "absent" => LineageOf(l)',
           ClientOf(c)', PromiseInv(c)'
    PROVE  SeatInv'
<1>1. ASSUME NEW y \in Caller
      PROVE  HookOf(y)'
  BY OthersHookOf
<1>2. ASSUME NEW d \in Conversation, d # c
      PROVE  Aside(d)
  <2>1. \A y \in Caller : y \in Passing(d)' => y \in Passing(d) /\ call'[y] = call[y]
    BY <1>2 DEF Passing
  <2>2. \A y \in Passing(d) : call'[y] = call[y]
    BY <1>2 DEF Passing
  <2>3. QED
    BY <1>2, <2>1, <2>2 DEF Aside
<1>3. QED
  BY <1>1, <1>2, StepSeatInv

\* Unlinking what has expired takes no record from an open promise.
LEMMA SweptSeat ==
    ASSUME SeatInv
    PROVE  /\ \A l \in Lineage : /\ Swept[l].state = "absent" <=> lin[l].state = "absent"
                                 /\ Swept[l].from = lin[l].from /\ Swept[l].seat = lin[l].seat
                                 /\ Fresh(l) => Swept[l] = lin[l]
                                 /\ Swept[l].state \in {"fresh", "consumed"} =>
                                       Swept[l] = lin[l] /\ ~Swept[l].expired
           /\ \A d \in Conversation, l \in Lineage :
                 promise[d] # None /\ lin[l].state # "absent" /\ lin[l].from[1] = d => Swept[l] = lin[l]
<1>1. TypeOK
  BY DEF SeatInv, IInv
<1>2. \A l \in Lineage : lin[l] \in Succession
  BY <1>1 DEF TypeOK
<1>3. ASSUME NEW l \in Lineage
      PROVE  /\ Swept[l] = lin[l] \/ (/\ Swept[l] = [lin[l] EXCEPT !.state = "gone"]
                                      /\ lin[l].expired /\ lin[l].state \in {"fresh", "consumed"})
             /\ lin[l].state \in {"fresh", "consumed"} /\ ~lin[l].expired => Swept[l] = lin[l]
             /\ lin[l].state \in {"fresh", "consumed"} /\ lin[l].expired => Swept[l].state = "gone"
  BY <1>2 DEF Swept, Succession
<1>4. \A l \in Lineage : /\ Fresh(l) => Swept[l] = lin[l]
                         /\ Swept[l].state \in {"fresh", "consumed"} =>
                                       Swept[l] = lin[l] /\ ~Swept[l].expired
  BY <1>2, <1>3 DEF Fresh, Live, Succession
<1>5. \A d \in Conversation, l \in Lineage :
                 promise[d] # None /\ lin[l].state # "absent" /\ lin[l].from[1] = d => Swept[l] = lin[l]
  BY <1>3 DEF SeatInv, PromiseInv, Conv
<1>6. QED
  BY <1>1, <1>4, <1>5, SweptType

LEMMA MintSeat ==
    ASSUME SeatInv, IInv', NEW x \in Caller, Mint(x)
    PROVE  SeatInv'
<1>0. PICK c \in Conversation, e \in Endpoint, s \in Session :
         c = call[x].s[1] /\ e = call[x].e /\ s = call[x].s
  BY SessionType DEF SeatInv, IInv, CallInv, CallOf, Mint, OfEndpoint
<1> DEFINE Again == {l \in Lineage : Fresh(l) /\ lin[l].seat = e /\ Conv(l) = c}
           Free  == {l \in Lineage : lin[l].state = "absent"}
           new == [NoLineage EXCEPT !.state = "fresh", !.seat = e, !.from = s]
<1>1. /\ TypeOK /\ call[x].at = "mint" /\ e \in Registered /\ s[1] = c
      /\ s = Now(c) /\ ep[e].owner[1] = c /\ ClientOf(c) /\ PromiseInv(c) /\ x \in Passing(c)
  BY <1>0, SessionType DEF SeatInv, IInv, CallInv, CallOf, HookOf, Mint, Now, Passing, Passers
<1>2. UNCHANGED <<ep, client>> /\ Registered' = Registered /\ Active' = Active
  BY DEF Mint, Registered, Active
<1>3. /\ call'[x] = Idle
      /\ \A y \in Caller : y # x => call'[y] = call[y]
  BY <1>1, CallSteps DEF Mint
<1>4. new \in Succession /\ new.state = "fresh" /\ new.seat = e /\ new.from = s /\ new.expired = FALSE
  BY <1>1 DEF NoLineage, Succession
<1>5. \/ Again # {} /\ lin' = Swept
      \/ Free # {} /\ lin' = [Swept EXCEPT ![Min(Free)] = new]
  BY <1>0 DEF Mint
<1>6. Free # {} => Min(Free) \in Free
  <2>1. Free \in SUBSET Nat
    BY DEF Lineage
  <2> HIDE DEF Free
  <2>2. QED
    BY <2>1, LeastNumber
<1>7. Swept \in [Lineage -> Succession]
  BY <1>1, SweptType
<1>8. \A l \in Lineage : lin'[l] = Swept[l] \/ (lin[l].state = "absent" /\ lin'[l] = new)
  <2> HIDE DEF new
  <2> QED  BY <1>5, <1>6, <1>7
<1>9. Belongings
  BY <1>2, <1>8, SweptSeat DEF Belongings
<1>10. HookOf(x)' /\ call'[x].at \notin Passers
  BY <1>3 DEF HookOf, Idle, Passers, HookSteps
<1>11. ASSUME NEW l \in Lineage, lin[l].state = "absent"
       PROVE  LineageOf(l)'
  <2> HIDE DEF new
  <2> QED  BY <1>1, <1>2, <1>4, <1>8, <1>11, SweptSeat DEF LineageOf
<1>12. ASSUME NEW d \in Conversation, NEW l \in Lineage, d # c, promise[d] # None,
              \/ lin[l].state # "absent" /\ lin[l].from[1] = d
              \/ lin'[l].state # "absent" /\ lin'[l].from[1] = d
       PROVE  lin'[l] = lin[l]
  <2> HIDE DEF new
  <2>1. CASE lin'[l] = Swept[l]
    BY <1>12, <2>1, SweptSeat
  <2>2. CASE lin[l].state = "absent" /\ lin'[l] = new
    BY <1>1, <1>4, <1>12, <2>2
  <2>3. QED
    BY <1>8, <2>1, <2>2
<1>13. promise[c] = None
  BY <1>1 DEF PromiseInv
<1>14. \A d \in Conversation : d # c => promise'[d] = promise[d]
  BY <1>0, <1>1 DEF Mint, TypeOK
<1>15. CASE client[c].phase = "compacting"
  <2>1. promise'[c] = e
    BY <1>0, <1>1, <1>15 DEF Mint, TypeOK
  <2>2. /\ e \notin Active \/ ep[e].owner = s
        /\ \A y \in Passing(c) : y = x
        /\ client[c].up
    BY <1>0, <1>1, <1>15 DEF ClientOf
  <2>3. Passing(c)' = {}
    BY <1>3, <1>10, <2>2 DEF Passing
  <2>4. ClientOf(c)'
    BY <1>2, <1>15, <2>2, <2>3 DEF ClientOf
  <2>5. \A l \in Lineage : lin'[l].state \in {"fresh", "consumed"} => ~lin'[l].expired
    <3> HIDE DEF new
    <3> QED  BY <1>4, <1>8, SweptSeat
  <2>6. FreshOf(c, e)'
    <3> HIDE DEF new
    <3>1. CASE Again # {} /\ lin' = Swept
      <4>1. PICK l \in Lineage : Fresh(l) /\ lin[l].seat = e /\ Conv(l) = c
        BY <3>1
      <4>2. lin'[l] = lin[l]
        BY <3>1, <4>1, SweptSeat
      <4>3. QED
        BY <4>1, <4>2 DEF FreshOf, Fresh, Live, Conv
    <3>2. CASE Free # {} /\ lin' = [Swept EXCEPT ![Min(Free)] = new]
      <4>1. Min(Free) \in Lineage /\ lin'[Min(Free)] = new
        BY <1>6, <1>7, <3>2
      <4>2. QED
        BY <1>1, <1>4, <4>1 DEF FreshOf, Fresh, Live, Conv
    <3>3. QED
      BY <1>5, <3>1, <3>2
  <2>7. Waits(c, promise[c])'
    BY <1>2, <1>15, <2>1, <2>6 DEF Waits, FreshOf
  <2>8. PromiseInv(c)'
    BY <1>1, <1>2, <1>15, <2>1, <2>3, <2>5, <2>7 DEF PromiseInv
  <2>9. QED
    BY <1>0, <1>2, <1>3, <1>9, <1>10, <1>11, <1>12, <1>14, <2>4, <2>8, HookSeat
<1>16. CASE client[c].phase # "compacting"
  <2>1. promise'[c] = None
    BY <1>0, <1>13, <1>16 DEF Mint
  <2>2. PromiseInv(c)'
    BY <2>1 DEF PromiseInv
  <2>3. ClientOf(c)'
    BY <1>1, <1>2, <1>16, <2>1 DEF ClientOf
  <2>4. QED
    BY <1>0, <1>2, <1>3, <1>9, <1>10, <1>11, <1>12, <1>14, <2>2, <2>3, HookSeat
<1>17. QED
  BY <1>15, <1>16

\* A hook that passes a seat on is the only one of its conversation while a
\* promise is open, and no compaction goes on.
LEMMA HookAlone ==
    ASSUME SeatInv, NEW x \in Caller, call[x].at \in HookSteps
    PROVE  \E c \in Conversation :
              /\ c = call[x].s[1] /\ call[x].s \in Session /\ call[x].s = Now(c) /\ x \in Passing(c)
              /\ ClientOf(c) /\ PromiseInv(c)
              /\ client[c].phase \notin {"restart", "compacting"}
              /\ promise[c] # None => client[c].phase = "on" /\ Passing(c) = {x}
<1>1. PICK c \in Conversation : c = call[x].s[1] /\ call[x].s \in Session /\ call[x].s[2] = client[c].k
  BY SessionType DEF SeatInv, IInv, CallInv, CallOf, SessionOf, HookSteps
<1>2. call[x].s = Now(c) /\ x \in Passing(c) /\ ClientOf(c) /\ PromiseInv(c) /\ client[c] \in Client
  BY <1>1, SessionType DEF SeatInv, IInv, TypeOK, Now, Passing, Passers
<1>3. client[c].phase \notin {"restart", "compacting"}
  BY <1>2 DEF ClientOf, HookSteps
<1>4. promise[c] # None => client[c].phase = "on" /\ Passing(c) = {x}
  BY <1>2, <1>3 DEF PromiseInv, Client
<1>5. QED
  BY <1>1, <1>2, <1>3, <1>4

\* What a step of a hook leaves of its own conversation.
LEMMA HookClient ==
    ASSUME NEW c \in Conversation, ClientOf(c), UNCHANGED client, promise'[c] \in {promise[c], None},
           client[c].phase \notin {"restart", "compacting"}
    PROVE  ClientOf(c)'
BY DEF ClientOf

\* Succession records that are not exactly one are none or two.
LEMMA OneRecord ==
    ASSUME NEW S \in SUBSET Lineage, NEW a \in S
    PROVE  /\ Cardinality(S) = 1 => \A b \in S : b = a
           /\ Cardinality(S) # 1 => \E b \in S : b # a
<1>1. IsFiniteSet(S)
  <2>1. IsFiniteSet(Lineage)
    BY EndpointsAssumption, FS_Interval DEF Lineage
  <2>2. QED
    BY <2>1, FS_Subset
<1>2. Cardinality(S) = 1 <=> \E b : S = {b}
  BY <1>1, FS_Singleton
<1>3. (\A b \in S : b = a) => S = {a}
  OBVIOUS
<1>4. QED
  BY <1>2, <1>3

LEMMA ConsumeSeat ==
    ASSUME SeatInv, IInv', NEW x \in Caller, Consume(x)
    PROVE  SeatInv'
<1>0. PICK c \in Conversation :
         /\ c = call[x].s[1] /\ call[x].s \in Session /\ call[x].s = Now(c) /\ x \in Passing(c)
         /\ ClientOf(c) /\ PromiseInv(c)
         /\ client[c].phase \notin {"restart", "compacting"}
         /\ promise[c] # None => client[c].phase = "on" /\ Passing(c) = {x}
  BY HookAlone DEF Consume, HookSteps
<1>1. PICK s \in Session : s = call[x].s /\ s[1] = c
  BY <1>0
<1> DEFINE New   == {l \in Lineage : Fresh(l) /\ Conv(l) = call[x].s[1]}
           Retry == {l \in Lineage : Live(l) /\ Conv(l) = call[x].s[1] /\ lin[l].state = "consumed"
                                        /\ lin[l].to = call[x].s}
           Match == IF Cardinality(New) = 1 THEN New
                    ELSE IF New = {} /\ Cardinality({lin[l].seat : l \in Retry}) = 1
                    THEN {Max(Retry)} ELSE {}
<1>2. /\ TypeOK /\ call[x] \in Call /\ call[x].at = "consume" /\ lin' = Swept
      /\ UNCHANGED <<ep, client, promise>>
      /\ Registered' = Registered /\ Active' = Active
  BY DEF SeatInv, IInv, TypeOK, Consume, Registered, Active
<1>3. \/ Match = {} /\ Go(x, "find")
      \/ \E l \in Match : call' = [call EXCEPT ![x].at = "claim", ![x].l = l, ![x].e = lin[l].seat]
  BY DEF Consume
<1>4. \A l \in Match : l \in Lineage /\ Live(l) /\ Conv(l) = c
  <2>1. Cardinality({lin[l].seat : l \in Retry}) = 1 => Retry # {}
    <3>1. Retry = {} => {lin[l].seat : l \in Retry} = {}
      OBVIOUS
    <3>2. QED
      BY <3>1, FS_EmptySet
  <2>2. Retry # {} => Max(Retry) \in Retry
    <3>1. Retry \in SUBSET Lineage
      OBVIOUS
    <3> HIDE DEF Retry
    <3>2. QED
      BY <3>1, GreatestLineage
  <2>3. \A l \in New \cup Retry : l \in Lineage /\ Live(l) /\ Conv(l) = c
    BY <1>0 DEF Fresh
  <2>4. Match \subseteq New \cup Retry
    <3> HIDE DEF New, Retry
    <3> QED  BY <2>1, <2>2
  <2> HIDE DEF New, Retry, Match
  <2>5. QED
    BY <2>3, <2>4
<1>5. \A l \in Lineage : /\ lin'[l].from = lin[l].from /\ lin'[l].seat = lin[l].seat
                         /\ lin'[l].state = "absent" <=> lin[l].state = "absent"
                         /\ Fresh(l) => lin'[l] = lin[l]
                         /\ lin'[l].state \in {"fresh", "consumed"} => lin'[l] = lin[l] /\ ~lin'[l].expired
  BY <1>2, SweptSeat
<1>6. \A d \in Conversation, l \in Lineage :
         promise[d] # None /\ (\/ lin[l].state # "absent" /\ lin[l].from[1] = d
                               \/ lin'[l].state # "absent" /\ lin'[l].from[1] = d) => lin'[l] = lin[l]
  BY <1>2, <1>5, SweptSeat
<1>7. \A l \in Lineage : (Fresh(l)' <=> Fresh(l)) /\ Conv(l)' = Conv(l)
  BY <1>5 DEF Fresh, Live, Conv
<1>8. Belongings
  BY <1>2, <1>5 DEF Belongings
<1>9. ASSUME NEW at \in {"find", "claim"}, call'[x].at = at, call'[x].s = s,
             \A y \in Caller : y # x => call'[y] = call[y],
             at = "find" => Match = {},
             at = "claim" => /\ call'[x].l \in Match
                             /\ call'[x].e = lin[call'[x].l].seat
      PROVE  SeatInv'
  <2>1. ClientOf(c)'
    BY <1>0, <1>2, HookClient
  <2>2. HookOf(x)'
    BY <1>4, <1>5, <1>9 DEF HookOf
  <2>3. \A l \in Lineage : lin[l].state = "absent" => LineageOf(l)'
    BY <1>5 DEF LineageOf
  <2>4. PromiseInv(c)'
    <3> SUFFICES ASSUME promise[c] # None PROVE PromiseInv(c)'
      BY <1>2 DEF PromiseInv
    <3> DEFINE e == promise[c]
    <3>1. /\ e \in Registered /\ ep[e].owner[1] = c
          /\ client[c].phase = "on" /\ Passing(c) = {x}
          /\ Excused(c, e) \/ Seated(c, e) \/ Waits(c, e) \/ Works(c, e)
      BY <1>0 DEF PromiseInv
    <3>2. Passing(c)' = {x}
      <4>1. x \in Passing(c)'
        BY <1>1, <1>9 DEF Passing, Passers, HookSteps
      <4>2. \A y \in Caller : y # x => y \notin Passing(c)'
        BY <1>9, <3>1 DEF Passing
      <4>3. QED
        BY <4>1, <4>2 DEF Passing
    <3>3. ASSUME at = "claim", NEW l \in New
          PROVE  l = call'[x].l
      <4>0. New \in SUBSET Lineage
        OBVIOUS
      <4> HIDE DEF New, Retry
      <4>1. Cardinality(New) = 1 /\ call'[x].l \in New
        BY <1>9, <3>3
      <4>2. QED
        BY <3>3, <4>0, <4>1, OneRecord
    <3>4. at = "claim" => ~lin'[call'[x].l].expired
      <4> HIDE DEF Match
      <4>1. at = "claim" => lin'[call'[x].l] = lin[call'[x].l] /\ ~lin[call'[x].l].expired
        BY <1>4, <1>6, <1>9 DEF Live, Conv
      <4>2. QED
        BY <4>1
    <3>5. \A l \in Lineage : lin'[l].state \in {"fresh", "consumed"} /\ Conv(l)' = c => ~lin'[l].expired
      BY <1>5
    <3>6. Excused(c, e) => Excused(c, promise[c])'
      BY <1>2, <1>5, <1>7 DEF Excused, Ambiguous, FormerOwners
    <3>7. Seated(c, e) => Seated(c, promise[c])'
      BY <1>2 DEF Seated, Now
    <3>8. ~Works(c, e)
      BY <1>2, <3>1 DEF Works
    <3>9. ASSUME NEW l \in New, lin[l].seat = e, ~Ambiguous(c)
          PROVE  Works(c, promise[c])'
      <4>1. \A m \in New : m = l
        BY <1>0, <3>9 DEF Ambiguous
      <4>2. Match # {}
        <5>1. New \in SUBSET Lineage
          OBVIOUS
        <5> HIDE DEF New, Retry
        <5>2. Cardinality(New) = 1
          BY <3>9, <4>1, <5>1, OneRecord
        <5>3. QED
          BY <3>9, <5>2
      <4>3. at = "claim" /\ call'[x].l = l
        <5> HIDE DEF New, Match
        <5> QED  BY <1>9, <3>3, <4>2
      <4>4. QED
        BY <1>2, <1>7, <1>9, <3>2, <3>9, <4>3 DEF Works
    <3>10. Waits(c, e) => Excused(c, promise[c])' \/ Works(c, promise[c])'
      <4>1. Ambiguous(c) => Excused(c, e)
        BY DEF Excused
      <4>2. Waits(c, e) => \E l \in New : lin[l].seat = e
        BY <1>0 DEF Waits, FreshOf
      <4>3. QED
        BY <3>6, <3>9, <4>1, <4>2
    <3>11. \A y \in Passing(c)' : call'[y].at \in {"claim", "rebind", "settle"} =>
              /\ ~lin'[call'[y].l].expired
              /\ \A l \in Lineage : Fresh(l)' /\ Conv(l)' = c => l = call'[y].l
      <4>1. \A l \in Lineage : Fresh(l)' /\ Conv(l)' = c => l \in New
        BY <1>0, <1>7
      <4> HIDE DEF New, Match
      <4>2. QED
        BY <1>9, <3>2, <3>3, <3>4, <4>1
    <3>12. \A y \in Passing(c)' : call'[y].at # "mint"
      BY <1>9, <3>2
    <3>13. QED
      BY <1>2, <3>1, <3>2, <3>5, <3>6, <3>7, <3>8, <3>10, <3>11, <3>12 DEF PromiseInv
  <2>5. QED
    BY <1>0, <1>1, <1>2, <1>6, <1>8, <1>9, <2>1, <2>2, <2>3, <2>4, HookSeat
<1>10. CASE Match = {} /\ Go(x, "find")
  <2>1. /\ call'[x] = [call[x] EXCEPT !.at = "find"]
        /\ \A y \in Caller : y # x => call'[y] = call[y]
    BY <1>2, <1>10, CallSteps DEF Starting
  <2>2. call'[x].at = "find" /\ call'[x].s = s
    BY <1>1, <1>2, <2>1 DEF Call
  <2> HIDE DEF Match
  <2>3. QED
    BY <1>9, <1>10, <2>1, <2>2
<1>11. ASSUME NEW l \in Match,
              call' = [call EXCEPT ![x].at = "claim", ![x].l = l, ![x].e = lin[l].seat]
       PROVE  SeatInv'
  <2> DEFINE new == [call[x] EXCEPT !.at = "claim", !.l = l, !.e = lin[l].seat]
  <2>1. new.at = "claim" /\ new.s = s /\ new.e = lin[l].seat /\ new.l = l
    BY <1>1, <1>2 DEF Call
  <2>2. call' = [call EXCEPT ![x] = new]
    BY <1>2, <1>11 DEF TypeOK
  <2> HIDE DEF new, Match
  <2>3. /\ call'[x] = new
        /\ \A y \in Caller : y # x => call'[y] = call[y]
    BY <1>2, <2>2 DEF TypeOK
  <2>4. QED
    BY <1>9, <1>11, <2>1, <2>3
<1>12. QED
  BY <1>3, <1>10, <1>11

LEMMA ClaimSeat ==
    ASSUME SeatInv, IInv', NEW x \in Caller, Claim(x)
    PROVE  SeatInv'
<1>0. PICK c \in Conversation :
         /\ c = call[x].s[1] /\ call[x].s \in Session /\ call[x].s = Now(c) /\ x \in Passing(c)
         /\ ClientOf(c) /\ PromiseInv(c)
         /\ client[c].phase \notin {"restart", "compacting"}
         /\ promise[c] # None => client[c].phase = "on" /\ Passing(c) = {x}
  BY HookAlone DEF Claim, HookSteps
<1>1. PICK s \in Session, e \in Endpoint, l \in Lineage :
         s = call[x].s /\ e = call[x].e /\ l = call[x].l
  BY <1>0 DEF SeatInv, IInv, CallInv, CallOf, Claim, OfEndpoint
<1>2. /\ TypeOK /\ call[x] \in Call /\ call[x].at = "claim" /\ s[1] = c
      /\ UNCHANGED <<ep, lin, client>>
      /\ RecordsAside /\ Belongings /\ Registered' = Registered /\ Active' = Active
      /\ lin[l].seat = e
  BY <1>0, <1>1, QuietBelongings DEF SeatInv, IInv, TypeOK, HookOf, Claim
<1>3. \A m \in Lineage : (Fresh(m)' <=> Fresh(m)) /\ Conv(m)' = Conv(m)
  BY <1>2 DEF Fresh, Live, Conv
\* Where the call goes on, and what it has seen.
<1>4. ASSUME NEW at \in {"idle", "find", "refresh", "settle", "rebind"},
             call'[x].at = at, at # "idle" => call'[x].s = s,
             at \in {"settle", "rebind"} => call'[x].e = e /\ call'[x].l = l,
             \A y \in Caller : y # x => call'[y] = call[y],
             promise' = IF at = "idle" THEN [promise EXCEPT ![c] = None] ELSE promise,
             at \in {"find", "refresh"} => e \notin Active \/ lin[l].state = "consumed"
                                            \/ ~Owns(e, lin[l].from),
             at = "settle" => Owns(e, s)
      PROVE  SeatInv'
  <2>1. /\ promise'[c] \in {promise[c], None} /\ (at = "idle" => promise'[c] = None)
        /\ \A d \in Conversation : d # c => promise'[d] = promise[d]
    BY <1>2, <1>4 DEF TypeOK
  <2>2. ClientOf(c)'
    BY <1>0, <1>2, <2>1, HookClient
  <2>3. HookOf(x)'
    BY <1>1, <1>2, <1>4 DEF HookOf, Owns
  <2>4. PromiseInv(c)'
    <3> SUFFICES ASSUME promise'[c] # None PROVE PromiseInv(c)'
      BY DEF PromiseInv
    <3>1. /\ promise'[c] = promise[c] /\ promise[c] # None /\ at # "idle"
      BY <2>1
    <3> DEFINE f == promise[c]
    <3>2. /\ f \in Registered /\ ep[f].owner[1] = c
          /\ client[c].phase = "on" /\ Passing(c) = {x}
          /\ \A m \in Lineage : lin[m].state \in {"fresh", "consumed"} /\ Conv(m) = c => ~lin[m].expired
          /\ ~lin[l].expired
          /\ \A m \in Lineage : Fresh(m) /\ Conv(m) = c => m = l
          /\ Excused(c, f) \/ Seated(c, f) \/ Waits(c, f) \/ Works(c, f)
      BY <1>0, <1>1, <1>2, <3>1 DEF PromiseInv
    <3>3. Passing(c)' \subseteq {x}
      BY <1>4, <3>2 DEF Passing
    <3>4. Excused(c, f) => Excused(c, promise[c])'
      BY <1>2, <1>3, <3>1 DEF Excused, Ambiguous, FormerOwners
    <3>5. Seated(c, f) => Seated(c, promise[c])'
      BY <1>2, <3>1 DEF Seated, Now
    <3>6. ~Waits(c, f)
      BY <1>2, <3>2 DEF Waits
    <3>7. Works(c, f) => f = e /\ Fresh(l)
      BY <1>1, <1>2, <3>2 DEF Works
    <3>8. ASSUME f = e, Fresh(l), at \in {"find", "refresh"}
          PROVE  Excused(c, f)
      BY <1>2, <1>4, <3>8 DEF Excused, FormerOwners, Owns, Fresh
    <3>9. ASSUME f = e, at = "settle"
          PROVE  Seated(c, promise[c])'
      BY <1>0, <1>1, <1>2, <1>4, <3>1, <3>2, <3>9 DEF Seated, Owns, Now
    <3>10. ASSUME f = e, at = "rebind"
           PROVE  Works(c, promise[c])'
      <4>1. x \in Passing(c)'
        BY <1>2, <1>4, <3>10 DEF Passing, Passers, HookSteps
      <4>2. QED
        BY <1>4, <3>1, <3>10, <4>1 DEF Works
    <3>11. \A y \in Passing(c)' : call'[y].at \in {"claim", "rebind", "settle"} =>
              /\ ~lin'[call'[y].l].expired
              /\ \A m \in Lineage : Fresh(m)' /\ Conv(m)' = c => m = call'[y].l
      BY <1>2, <1>3, <1>4, <3>2, <3>3
    <3>12. \A y \in Passing(c)' : call'[y].at # "mint"
      BY <1>4, <3>3
    <3>13. Excused(c, promise[c])' \/ Seated(c, promise[c])' \/ Works(c, promise[c])'
      BY <1>4, <3>1, <3>2, <3>4, <3>5, <3>6, <3>7, <3>8, <3>9, <3>10
    <3>14. \A m \in Lineage : lin'[m].state \in {"fresh", "consumed"} /\ Conv(m)' = c => ~lin'[m].expired
      BY <1>2, <1>3, <3>2
    <3>15. \A y, z \in Passing(c)' : y = z
      BY <3>3
    <3>16. promise'[c] \in Registered' /\ ep'[promise'[c]].owner[1] = c /\ client'[c].phase # "start"
      BY <1>2, <3>1, <3>2
    <3>17. QED
      BY <3>11, <3>12, <3>13, <3>14, <3>15, <3>16 DEF PromiseInv
  <2>5. QED
    BY <1>0, <1>1, <1>2, <1>4, <2>1, <2>2, <2>3, <2>4, HookSeat DEF LineageOf, Passers, HookSteps
<1>5. CASE /\ lin[l].state = "gone" /\ End(x) /\ promise' = [promise EXCEPT ![c] = None]
  <2>1. /\ call'[x] = Idle
        /\ \A y \in Caller : y # x => call'[y] = call[y]
    BY <1>2, <1>5, CallSteps
  <2>2. call'[x].at = "idle"
    BY <2>1 DEF Idle
  <2>3. QED
    BY <1>4, <1>5, <2>1, <2>2
<1>6. ASSUME NEW at \in {"find", "refresh"}, UNCHANGED promise,
             call' = [call EXCEPT ![x].at = at, ![x].l = None, ![x].e = IF at = "refresh" THEN e ELSE None],
             e \notin Active \/ lin[l].state = "consumed" \/ ~Owns(e, lin[l].from)
      PROVE  SeatInv'
  <2> DEFINE new == [call[x] EXCEPT !.at = at, !.l = None, !.e = IF at = "refresh" THEN e ELSE None]
  <2>1. new.at = at /\ new.s = s
    BY <1>1, <1>2 DEF Call
  <2>2. call' = [call EXCEPT ![x] = new]
    BY <1>2, <1>6 DEF TypeOK
  <2> HIDE DEF new
  <2>3. /\ call'[x] = new
        /\ \A y \in Caller : y # x => call'[y] = call[y]
    BY <1>2, <2>2 DEF TypeOK
  <2>4. QED
    BY <1>4, <1>6, <2>1, <2>3
<1>7. ASSUME NEW at \in {"settle", "rebind"}, UNCHANGED promise, Go(x, at), at = "settle" => Owns(e, s)
      PROVE  SeatInv'
  <2>1. /\ call'[x] = [call[x] EXCEPT !.at = at]
        /\ \A y \in Caller : y # x => call'[y] = call[y]
    BY <1>2, <1>7, CallSteps DEF Starting
  <2>2. call'[x].at = at /\ call'[x].s = s /\ call'[x].e = e /\ call'[x].l = l
    BY <1>1, <1>2, <2>1 DEF Call
  <2>3. QED
    BY <1>4, <1>7, <2>1, <2>2
<1>8. QED
  BY <1>0, <1>1, <1>5, <1>6, <1>7 DEF Claim

LEMMA RebindSeat ==
    ASSUME SeatInv, IInv', NEW x \in Caller, Rebind(x)
    PROVE  SeatInv'
<1>0. PICK c \in Conversation :
         /\ c = call[x].s[1] /\ call[x].s \in Session /\ call[x].s = Now(c) /\ x \in Passing(c)
         /\ ClientOf(c) /\ PromiseInv(c)
         /\ client[c].phase \notin {"restart", "compacting"}
         /\ promise[c] # None => client[c].phase = "on" /\ Passing(c) = {x}
  BY HookAlone DEF Rebind, HookSteps
<1>1. PICK s \in Session, e \in Endpoint, l \in Lineage :
         s = call[x].s /\ e = call[x].e /\ l = call[x].l
  BY <1>0 DEF SeatInv, IInv, CallInv, CallOf, Rebind, OfEndpoint
<1>2. /\ IInv /\ TypeOK /\ call[x] \in Call /\ call[x].at = "rebind" /\ s[1] = c
      /\ UNCHANGED <<lin, client, promise>> /\ outer = x
      /\ lin[l].seat = e /\ lin[l].from[1] = c /\ ep[e].owner = lin[l].from
  BY <1>0, <1>1 DEF SeatInv, IInv, TypeOK, HookOf, Rebind, CallInv, LocksOf, PassOf, UnderOuter
<1>3. /\ e \in Active
      /\ ep'[e] = [ep[e] EXCEPT !.owner = s] /\ ep[e] \in Record
      /\ \A f \in Endpoint : f # e => ep'[f] = ep[f]
      /\ Registered' = Registered /\ Active' = Active
  BY <1>1, <1>2, RebindEffect DEF TypeOK
<1>4. ep'[e].owner = s
  BY <1>3 DEF Record
<1>5. /\ call'[x] = [call[x] EXCEPT !.at = "settle"]
      /\ \A y \in Caller : y # x => call'[y] = call[y]
  BY <1>2, CallSteps DEF Rebind, Starting
<1>6. call'[x].at = "settle" /\ call'[x].s = s /\ call'[x].e = e /\ call'[x].l = l
  BY <1>1, <1>2, <1>5 DEF Call
<1>7. Belongings
  BY <1>2, <1>3, <1>4 DEF Belongings, Registered
<1>8. ASSUME NEW y \in Caller, y # x, call[y].at = "settle"
      PROVE  ep'[call[y].e].owner = ep[call[y].e].owner
  <2>1. outer = y
    BY <1>8 DEF SeatInv, IInv, CallInv, LocksOf, UnderOuter
  <2>2. QED
    BY <1>2, <1>8, <2>1
<1>9. ClientOf(c)'
  BY <1>0, <1>2, HookClient
<1>10. HookOf(x)'
  BY <1>2, <1>4, <1>6 DEF HookOf
<1>11. \A m \in Lineage : (Fresh(m)' <=> Fresh(m)) /\ Conv(m)' = Conv(m) /\ lin'[m] = lin[m]
  BY <1>2 DEF Fresh, Live, Conv
<1>12. PromiseInv(c)'
  <2> SUFFICES ASSUME promise[c] # None PROVE PromiseInv(c)'
    BY <1>2 DEF PromiseInv
  <2> DEFINE f == promise[c]
  <2>1. /\ f \in Registered /\ ep[f].owner[1] = c /\ f \in Endpoint
        /\ client[c].phase = "on" /\ Passing(c) = {x}
        /\ \A m \in Lineage : lin[m].state \in {"fresh", "consumed"} /\ Conv(m) = c => ~lin[m].expired
        /\ ~lin[l].expired
        /\ \A m \in Lineage : Fresh(m) /\ Conv(m) = c => m = l
        /\ Excused(c, f) \/ Seated(c, f) \/ Waits(c, f) \/ Works(c, f)
    BY <1>0, <1>1, <1>2 DEF PromiseInv, Registered
  <2>2. Passing(c)' \subseteq {x}
    BY <1>5, <2>1 DEF Passing
  <2>3. Excused(c, promise[c])' \/ Seated(c, promise[c])'
    <3>1. f = e => Seated(c, promise[c])'
      BY <1>0, <1>1, <1>2, <1>4, <2>1 DEF Seated, Now
    <3>2. ASSUME f # e
          PROVE  Excused(c, promise[c])' \/ Seated(c, promise[c])'
      <4>1. ep'[f] = ep[f] /\ ~Waits(c, f) /\ ~Works(c, f)
        BY <1>1, <1>2, <1>3, <2>1, <3>2 DEF Waits, Works
      <4>2. Excused(c, f) => Excused(c, promise[c])'
        BY <1>2, <1>3, <1>11, <4>1 DEF Excused, Ambiguous, FormerOwners
      <4>3. Seated(c, f) => Seated(c, promise[c])'
        BY <1>2, <4>1 DEF Seated, Now
      <4>4. QED
        BY <2>1, <4>1, <4>2, <4>3
    <3>3. QED
      BY <3>1, <3>2
  <2>4. \A y \in Passing(c)' : call'[y].at \in {"claim", "rebind", "settle"} =>
            /\ ~lin'[call'[y].l].expired
            /\ \A m \in Lineage : Fresh(m)' /\ Conv(m)' = c => m = call'[y].l
    BY <1>2, <1>6, <1>11, <2>1, <2>2
  <2>5. \A y \in Passing(c)' : call'[y].at # "mint"
    BY <1>6, <2>2
  <2>6. \A m \in Lineage : lin'[m].state \in {"fresh", "consumed"} /\ Conv(m)' = c => ~lin'[m].expired
    BY <1>11, <2>1
  <2>7. promise'[c] \in Registered' /\ ep'[promise'[c]].owner[1] = c /\ client'[c].phase # "start"
    BY <1>2, <1>3, <1>4, <2>1
  <2>8. QED
    BY <2>2, <2>3, <2>4, <2>5, <2>6, <2>7 DEF PromiseInv
<1>13. \A g \in Registered : ep[g].owner[1] # c => ep'[g].owner = ep[g].owner
  BY <1>2, <1>3 DEF Registered
<1>14. \A m \in Lineage : lin[m].state = "absent" => LineageOf(m)'
  BY <1>2 DEF LineageOf
<1>15. QED
  BY <1>0, <1>1, <1>2, <1>3, <1>5, <1>6, <1>7, <1>8, <1>9, <1>10, <1>12, <1>13, <1>14, HookSeat

LEMMA SettleSeat ==
    ASSUME SeatInv, IInv', NEW x \in Caller, Settle(x)
    PROVE  SeatInv'
<1>0. PICK c \in Conversation :
         /\ c = call[x].s[1] /\ call[x].s \in Session /\ call[x].s = Now(c) /\ x \in Passing(c)
         /\ ClientOf(c) /\ PromiseInv(c)
         /\ client[c].phase \notin {"restart", "compacting"}
         /\ promise[c] # None => client[c].phase = "on" /\ Passing(c) = {x}
  BY HookAlone DEF Settle, HookSteps
<1>1. PICK s \in Session, e \in Endpoint, l \in Lineage :
         s = call[x].s /\ e = call[x].e /\ l = call[x].l
  BY <1>0 DEF SeatInv, IInv, CallInv, CallOf, Settle, OfEndpoint
<1> DEFINE new == [call[x] EXCEPT !.at = "refresh", !.l = None]
           rec == [lin[l] EXCEPT !.state = "consumed", !.to = s]
<1>2. /\ TypeOK /\ call[x] \in Call /\ call[x].at = "settle" /\ s[1] = c
      /\ UNCHANGED <<ep, client, promise>> /\ Registered' = Registered /\ Active' = Active
      /\ lin[l].seat = e /\ lin[l].from[1] = c /\ lin[l].state # "absent" /\ ep[e].owner = s
      /\ lin[l] \in Succession
  BY <1>0, <1>1 DEF SeatInv, IInv, TypeOK, HookOf, Settle, CallInv, PassOf, Registered, Active
<1>3. /\ rec.state = "consumed" /\ rec.from = lin[l].from /\ rec.seat = lin[l].seat
      /\ rec.expired = lin[l].expired
  BY <1>2 DEF Succession
<1>4. lin' = [lin EXCEPT ![l] = rec] /\ call' = [call EXCEPT ![x] = new]
  BY <1>1, <1>2 DEF Settle, TypeOK
<1>5. new.at = "refresh"
  BY <1>2 DEF Call
<1> HIDE DEF new, rec
<1>6. /\ lin'[l] = rec /\ call'[x] = new
      /\ \A m \in Lineage : m # l => lin'[m] = lin[m]
      /\ \A y \in Caller : y # x => call'[y] = call[y]
  BY <1>2, <1>4 DEF TypeOK
<1>7. Belongings
  BY <1>2, <1>3, <1>6 DEF Belongings
<1>8. HookOf(x)' /\ call'[x].at \notin Passers
  BY <1>5, <1>6 DEF HookOf, Passers, HookSteps
<1>9. ClientOf(c)'
  BY <1>0, <1>2, HookClient
<1>10. PromiseInv(c)'
  <2> SUFFICES ASSUME promise[c] # None PROVE PromiseInv(c)'
    BY <1>2 DEF PromiseInv
  <2> DEFINE f == promise[c]
  <2>1. /\ f \in Registered /\ ep[f].owner[1] = c
        /\ client[c].phase = "on" /\ Passing(c) = {x}
        /\ \A m \in Lineage : lin[m].state \in {"fresh", "consumed"} /\ Conv(m) = c => ~lin[m].expired
        /\ ~lin[l].expired
        /\ \A m \in Lineage : Fresh(m) /\ Conv(m) = c => m = l
        /\ Excused(c, f) \/ Seated(c, f) \/ Waits(c, f) \/ Works(c, f)
    BY <1>0, <1>1, <1>2 DEF PromiseInv
  <2>2. Passing(c)' = {}
    BY <1>6, <1>8, <2>1 DEF Passing
  <2>3. ~Ambiguous(c) /\ ~Waits(c, f) /\ ~Works(c, f)
    BY <1>2, <2>1 DEF Ambiguous, Waits, Works
  <2>4. FormerOwners(f) => f = e
    <3>1. \A m \in Lineage : Fresh(m) /\ lin[m].seat = f => Conv(m) = c
      BY <2>1 DEF SeatInv, LineageOf, Fresh, Live, Conv
    <3>2. QED
      BY <1>2, <2>1, <3>1 DEF FormerOwners
  <2>5. f = e => Seated(c, f)
    BY <1>0, <1>1, <1>2, <2>1 DEF Seated
  <2>6. f \notin Active \/ Seated(c, f)
    BY <2>1, <2>3, <2>4, <2>5 DEF Excused
  <2>7. Excused(c, promise[c])' \/ Seated(c, promise[c])'
    BY <1>2, <2>6 DEF Excused, Seated, Now
  <2>8. \A m \in Lineage : lin'[m].state \in {"fresh", "consumed"} /\ Conv(m)' = c => ~lin'[m].expired
    BY <1>3, <1>6, <2>1 DEF Conv
  <2>9. QED
    BY <1>2, <2>1, <2>2, <2>7, <2>8 DEF PromiseInv
<1>11. ASSUME NEW d \in Conversation, NEW m \in Lineage, d # c,
              \/ lin[m].state # "absent" /\ lin[m].from[1] = d
              \/ lin'[m].state # "absent" /\ lin'[m].from[1] = d
       PROVE  lin'[m] = lin[m]
  BY <1>2, <1>3, <1>6, <1>11
<1>12. \A m \in Lineage : lin[m].state = "absent" => LineageOf(m)'
  BY <1>2, <1>6 DEF LineageOf
<1>13. QED
  BY <1>0, <1>2, <1>6, <1>7, <1>8, <1>9, <1>10, <1>11, <1>12, HookSeat

----------------------------------------------------------------------------
(* The invariant, and what it says once the hooks have run. *)

LEMMA InitSeatInv == Init => SeatInv
<1> SUFFICES ASSUME Init PROVE SeatInv
  OBVIOUS
<1>1. IInv
  BY InitIInv
<1>2. \A x \in Caller : HookOf(x)
  BY DEF Init, HookOf, Idle
<1>3. \A l \in Lineage : LineageOf(l)
  BY DEF Init, LineageOf, NoLineage
<1>4. \A c \in Conversation : ClientOf(c) /\ PromiseInv(c)
  BY DEF Init, ClientOf, PromiseInv
<1>5. QED
  BY <1>1, <1>2, <1>3, <1>4 DEF SeatInv

LEMMA StutterSeatInv == SeatInv /\ IInv' /\ UNCHANGED vars => SeatInv'
<1> SUFFICES ASSUME SeatInv, IInv', UNCHANGED vars PROVE SeatInv'
  OBVIOUS
<1>1. UNCHANGED <<ep, box, lin, outer, inner, call, client, promise, spent>>
  BY DEF vars
<1>2. RecordsAside /\ Belongings
  BY <1>1, QuietBelongings
<1>3. \A x \in Caller : HookOf(x)'
  BY <1>1, <1>2, OthersHookOf
<1>4. \A c \in Conversation : Passing(c)' = Passing(c)
  BY <1>1 DEF Passing
<1>5. \A c \in Conversation : Aside(c)
  BY <1>1, <1>2, <1>4 DEF Aside, RecordsAside
<1>6. \A l \in Lineage : lin[l].state = "absent" => LineageOf(l)'
  BY <1>1 DEF LineageOf
<1>7. QED
  BY <1>2, <1>3, <1>5, <1>6, StepSeatInv

LEMMA NextSeatInv == SeatInv /\ [Next]_vars => SeatInv'
<1> SUFFICES ASSUME SeatInv, [Next]_vars PROVE SeatInv'
  OBVIOUS
<1>1. IInv'
  BY NextIInv DEF SeatInv
<1>2. CASE UNCHANGED vars
  BY <1>1, <1>2, StutterSeatInv
<1>3. ASSUME NEW x \in Caller, Step(x)
      PROVE  SeatInv'
  BY <1>1, <1>3, OtherCallsSeat, MintSeat, ConsumeSeat, ClaimSeat, RebindSeat, SettleSeat DEF Step
<1>4. ASSUME NEW x \in Caller, ReplaceFails(x) \/ CreateFails(x) \/ LockTimesOut(x) \/ Crash(x)
      PROVE  SeatInv'
  BY <1>1, <1>4, OtherCallsSeat
<1>5. ASSUME NEW x \in Caller,
             \/ \E c \in Conversation : \/ BeginAttach(x, c) \/ BeginLeave(x, c)
                                       \/ \E r \in Active \cup {None} : BeginJoin(x, c, r)
             \/ \E e \in Endpoint : BeginForce(x, e)
      PROVE  SeatInv'
  BY <1>1, <1>5, BeginsSeat
<1>6. ASSUME NEW x \in Caller, NEW c \in Conversation, StartHook(x, c) \/ CompactHook(x, c)
      PROVE  SeatInv'
  BY <1>1, <1>6, StartHookSeat, CompactHookSeat
<1>7. ASSUME NEW c \in Conversation, Compacted(c) \/ Exit(c) \/ Resume(c)
      PROVE  SeatInv'
  BY <1>1, <1>7, CompactedSeat, ComesAndGoesSeat
<1>8. ASSUME NEW l \in Lineage, Expire(l)
       PROVE  SeatInv'
  BY <1>1, <1>8, ExpireSeat
<1>9. QED
  BY <1>2, <1>3, <1>4, <1>5, <1>6, <1>7, <1>8 DEF Next

\* After a compaction whose PreCompact hook has provided for the seat, and the
\* SessionStart hook of the next session, the seat is that session's, unless
\* it was given up or the evidence could not say whose it is: for any number
\* of conversations, sessions, processes, calls, deaths and timeouts.
THEOREM SeatKept == Spec => []CompactionKeepsSeat
<1>1. SeatInv => CompactionKeepsSeat
  <2> SUFFICES ASSUME SeatInv, NEW c \in Conversation,
                      promise[c] # None, client[c].phase = "on", ~HookRuns(c)
               PROVE  \/ promise[c] \notin Active
                      \/ ep[promise[c]].owner = Now(c)
                      \/ Ambiguous(c) \/ FormerOwners(promise[c])
    BY DEF CompactionKeepsSeat
  <2>1. Passing(c) = {}
    BY Vacant
  <2>2. \/ Excused(c, promise[c]) \/ Seated(c, promise[c])
        \/ Waits(c, promise[c]) \/ Works(c, promise[c])
    BY DEF SeatInv, PromiseInv
  <2>3. ~Waits(c, promise[c]) /\ ~Works(c, promise[c])
    BY <2>1 DEF Waits, Works
  <2>4. QED
    BY <2>2, <2>3 DEF Excused, Seated
<1>2. QED
  BY <1>1, InitSeatInv, NextSeatInv, PTL DEF Spec
=============================================================================
