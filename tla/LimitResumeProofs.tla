-------------------------- MODULE LimitResumeProofs --------------------------
(***************************************************************************)
(* Theorems about LimitResume, for every set of handlers and attempts, all *)
(* caps and every number of incidents.                                     *)
(***************************************************************************)
EXTENDS LimitResume, FiniteSetTheorems, TLAPS

USE LimitResumeAssumption, NoneIsNoRecord

-----------------------------------------------------------------------------
(* Types and caps.                                                           *)

V == waker.view

\* What the waker has in hand at each of its steps.
PhaseInv ==
    /\ waker.pc = "settle" => waker.verdict \in Outcomes
    /\ waker.pc \in {"kill", "commit"} => waker.verdict \in Verdicts \ {"none", "manual", "stopped"}
    /\ waker.pc \in {"check", "file", "spawn", "settle", "record", "note", "orphan", "kill", "commit"}
          => V.att # None

\* A claim was made below the cap, and nothing raises the count before the spawn.
CapInv ==
    /\ waker.pc \in {"check", "file", "spawn", "record"} =>
          /\ CanRecordSpawn(rec, V.att.id) => rec.tries < MaxAttempts
          /\ rec.status = "preparing" /\ rec.prev # None /\ CanRecordSpawn(rec.prev, V.att.id)
                => rec.prev.tries < MaxAttempts
    /\ waker.pc = "claim" =>
          /\ rec.tries <= V.tries
          /\ rec.status = "preparing" /\ rec.prev # None => rec.prev.tries <= V.tries

LEMMA StatusNames ==
    /\ {"absent", "preparing", "stopped", "deferred", "resuming", "interactive", "manual",
        "cancelling", "cancelled", "resumed", "notified", "failed"} \subseteq Statuses
    /\ Outcomes \subseteq Statuses
  BY DEF Statuses, Outcomes

LEMMA RequeueType ==
    ASSUME NEW S, NEW r \in RecordTypeOver(S)
    PROVE  RequeueRecord(r) \in RecordTypeOver(S)
  <1>1. 0 \in 0..MaxAttempts /\ 0 \in 0..MaxDefers
    OBVIOUS
  <1> QED
    BY <1>1, StatusNames DEF RequeueRecord, RecordTypeOver

LEMMA MutatorsType ==
    ASSUME NEW S, NEW r \in RecordTypeOver(S), NEW a \in Attempt, NEW g \in Nat
    PROVE  /\ AttachOrphanChildPid(r, a) \in RecordTypeOver(S)
           /\ ClearSupersededAttempt(r, a) \in RecordTypeOver(S)
           /\ ClearConfirmedDeadAttempt(r, a) \in RecordTypeOver(S)
           /\ ClearInteractiveAttempt(r, a) \in RecordTypeOver(S)
           /\ ClearCancellingAttempt(r, a) \in RecordTypeOver(S)
           /\ FailProjectGoneConfirmed(r, a, g) \in RecordTypeOver(S)
           /\ MarkNotified(r, g) \in RecordTypeOver(S)
           /\ FailRecord(r, g) \in RecordTypeOver(S)
           /\ MarkResumed(r, g) \in RecordTypeOver(S)
           /\ MarkInteractive(r) \in RecordTypeOver(S)
           /\ BeginCancellation(r) \in RecordTypeOver(S)
           /\ CompleteCancellation(r, g) \in RecordTypeOver(S)
           /\ BlockCancellation(r) \in RecordTypeOver(S)
           /\ RequeueRecord(r) \in RecordTypeOver(S)
           /\ \A out \in Outcomes, pre \in BOOLEAN : SettleAttempt(r, a, out, pre) \in RecordTypeOver(S)
           /\ MovedOn(r) \in RecordTypeOver(S)
           /\ ProjectGone(r) \in RecordTypeOver(S)
           /\ r.tries < MaxAttempts /\ r.att # None => RecordAttemptSpawn(r, a) \in RecordTypeOver(S)
  <1> USE StatusNames DEF RecordTypeOver
  <1>1. AttachOrphanChildPid(r, a) \in RecordTypeOver(S)
    BY DEF AttachOrphanChildPid, AttemptType, Has
  <1>2. ClearSupersededAttempt(r, a) \in RecordTypeOver(S)
    BY DEF ClearSupersededAttempt
  <1>3. ClearConfirmedDeadAttempt(r, a) \in RecordTypeOver(S)
    BY DEF ClearConfirmedDeadAttempt
  <1>4. ClearInteractiveAttempt(r, a) \in RecordTypeOver(S)
    BY DEF ClearInteractiveAttempt
  <1>5. ClearCancellingAttempt(r, a) \in RecordTypeOver(S)
    BY DEF ClearCancellingAttempt
  <1>6. FailProjectGoneConfirmed(r, a, g) \in RecordTypeOver(S)
    BY DEF FailProjectGoneConfirmed
  <1>7. MarkNotified(r, g) \in RecordTypeOver(S)
    BY DEF MarkNotified
  <1>8. FailRecord(r, g) \in RecordTypeOver(S)
    BY DEF FailRecord
  <1>9. MarkResumed(r, g) \in RecordTypeOver(S)
    BY DEF MarkResumed
  <1>10. MarkInteractive(r) \in RecordTypeOver(S)
    BY DEF MarkInteractive
  <1>11. BeginCancellation(r) \in RecordTypeOver(S)
    BY DEF BeginCancellation
  <1>12. CompleteCancellation(r, g) \in RecordTypeOver(S)
    BY DEF CompleteCancellation
  <1>13. BlockCancellation(r) \in RecordTypeOver(S)
    BY DEF BlockCancellation
  <1>14. RequeueRecord(r) \in RecordTypeOver(S)
    BY RequeueType
  <1>15. ASSUME NEW out \in Outcomes, NEW pre \in BOOLEAN
         PROVE  SettleAttempt(r, a, out, pre) \in RecordTypeOver(S)
    <2>1. CASE ~(r.status = "resuming" /\ Has(r, a) /\ r.att.gen = r.gen)
      BY <2>1 DEF SettleAttempt
    <2>2. CASE /\ r.status = "resuming" /\ Has(r, a) /\ r.att.gen = r.gen
               /\ out = "deferred" /\ pre /\ r.defers >= MaxDefers
      BY <2>2 DEF SettleAttempt
    <2>3. CASE /\ r.status = "resuming" /\ Has(r, a) /\ r.att.gen = r.gen
               /\ ~(out = "deferred" /\ pre /\ r.defers >= MaxDefers)
      <3> DEFINE n == IF out = "deferred" /\ pre THEN r.defers + 1 ELSE r.defers
      <3>1. n \in 0..MaxDefers /\ out \in Statuses
        BY <2>3
      <3>2. [r EXCEPT !.status = out, !.blocked = FALSE, !.att = None, !.defers = n]
                \in RecordTypeOver(S)
        <4> HIDE DEF n
        <4> QED
          BY <3>1
      <3>3. SettleAttempt(r, a, out, pre)
              = [r EXCEPT !.status = out, !.blocked = FALSE, !.att = None, !.defers = n]
        BY <2>3 DEF SettleAttempt
      <3> QED
        BY <3>2, <3>3
    <2> QED
      BY <2>1, <2>2, <2>3
  <1>16. MovedOn(r) \in RecordTypeOver(S)
    BY DEF MovedOn
  <1>17. ProjectGone(r) \in RecordTypeOver(S)
    BY DEF ProjectGone
  <1>18. ASSUME r.tries < MaxAttempts, r.att # None
         PROVE  RecordAttemptSpawn(r, a) \in RecordTypeOver(S)
    <2>1. [r.att EXCEPT !.pid = TRUE] \in AttemptType /\ r.tries + 1 \in 0..MaxAttempts
      <3>1. r.att \in AttemptType /\ r.tries \in 0..MaxAttempts
        BY <1>18
      <3> HIDE DEF RecordTypeOver
      <3>2. [r.att EXCEPT !.pid = TRUE] \in AttemptType
        BY <3>1 DEF AttemptType
      <3> QED
        BY <1>18, <3>1, <3>2
    <2>2. 0 \in 0..MaxDefers
      OBVIOUS
    <2> DEFINE att == [r.att EXCEPT !.pid = TRUE]
               n == r.tries + 1
    <2>3. [r EXCEPT !.att = att, !.tries = n, !.defers = 0] \in RecordTypeOver(S)
      <3> HIDE DEF att, n
      <3>1. att \in AttemptType /\ n \in 0..MaxAttempts
        BY <2>1 DEF att, n
      <3> QED
        BY <3>1, <2>2
    <2>4. RecordAttemptSpawn(r, a) = [r EXCEPT !.att = att, !.tries = n, !.defers = 0]
      BY DEF RecordAttemptSpawn
    <2> QED
      BY <2>3, <2>4
  <1> QED
    BY <1>1, <1>2, <1>3, <1>4, <1>5, <1>6, <1>7, <1>8, <1>9, <1>10, <1>11, <1>12, <1>13, <1>14, <1>15, <1>16, <1>17, <1>18

LEMMA AbsentType == Absent \in CopyType /\ Absent \in RecordType
  BY DEF Absent, RecordType, CopyType, RecordTypeOver, Statuses

\* What a filed stop keeps of the record it replaces.
LEMMA UpsertType ==
    ASSUME NEW r \in RecordType, NEW phase \in {"preparing", "stopped"},
           NEW kind \in {"autonomous", "plain"}, NEW mode \in {"headless", "notify"},
           NEW h \in Handler
    PROVE  /\ UpsertStop(r, phase, kind, mode, h) \in RecordType
           /\ [r EXCEPT !.prev = None] \in CopyType
  <1>1. [r EXCEPT !.prev = None] \in CopyType
    BY DEF RecordType, CopyType, RecordTypeOver
  <1> QED
    BY <1>1 DEF UpsertStop, RecordType, RecordTypeOver, Statuses

LEMMA CopiesAreRecords == CopyType \subseteq RecordType
  BY DEF CopyType, RecordType, RecordTypeOver

LEMMA ActivatedType ==
    ASSUME NEW r \in RecordType
    PROVE  Activated(r) \in RecordType
  BY StatusNames DEF Activated, RecordType, RecordTypeOver

LEMMA RestoredType ==
    ASSUME NEW r \in RecordType
    PROVE  Restored(r) \in RecordType
  <1>1. r.prev \in CopyType \cup {None}
    BY DEF RecordType, RecordTypeOver
  <1> QED
    BY <1>1, AbsentType, CopiesAreRecords DEF Restored

LEMMA ClaimAttemptType ==
    ASSUME NEW r \in RecordType, NEW a \in Attempt
    PROVE  ClaimAttempt(r, a) \in RecordType /\ ClaimAttempt(r, a).att # None
  <1> DEFINE att == [id |-> a, gen |-> r.gen, pid |-> FALSE]
  <1>1. att \in AttemptType
    BY DEF RecordType, RecordTypeOver, AttemptType
  <1>2. [r EXCEPT !.status = "resuming", !.att = att] \in RecordType
        /\ [r EXCEPT !.status = "resuming", !.att = att].att = att
    <2> HIDE DEF att
    <2> QED
      BY <1>1, StatusNames DEF RecordType, RecordTypeOver
  <1> QED
    BY <1>1, <1>2 DEF ClaimAttempt

LEMMA ReconciledType ==
    ASSUME NEW r \in RecordType, NEW late \in BOOLEAN
    PROVE  Reconciled(r, late) \in RecordType
  <1> DEFINE Stopped == [r EXCEPT !.status = "stopped"]
             StoppedFree == [r EXCEPT !.status = "stopped", !.att = None]
             Resumption == [r EXCEPT !.status = "resumed"]
  <1>1. /\ Stopped \in RecordType /\ StoppedFree \in RecordType /\ Resumption \in RecordType
    BY StatusNames DEF RecordType, RecordTypeOver
  <1>2. MovedOn(r) \in RecordType /\ ProjectGone(r) \in RecordType
    BY StatusNames DEF MovedOn, ProjectGone, RecordType, RecordTypeOver
  <1>3. Activated(r) \in RecordType /\ Restored(r) \in RecordType
    BY ActivatedType, RestoredType
  <1>4. Reconciled(r, late) \in {r, Activated(r), Restored(r), MovedOn(r), ProjectGone(r),
                                 Stopped, StoppedFree, Resumption}
    BY DEF Reconciled
  <1> QED
    BY <1>1, <1>2, <1>3, <1>4

LEMMA CommittedType ==
    ASSUME NEW r \in RecordType, NEW v \in RecordType, v.att # None,
           NEW w \in Verdicts \ {"none", "orphan"}
    PROVE  Committed(r, v, w) \in RecordType
  <1>1. v.att.id \in Attempt /\ v.gen \in Nat
    BY DEF RecordType, RecordTypeOver, AttemptType
  <1>2. r \in RecordTypeOver(CopyType \cup {None})
    BY DEF RecordType
  <1>3. CASE w = "superseded"
    BY <1>1, <1>2, <1>3, MutatorsType DEF Committed, RecordType
  <1>4. CASE w = "dead"
    BY <1>1, <1>2, <1>4, MutatorsType DEF Committed, RecordType
  <1>5. CASE w = "interactive"
    BY <1>1, <1>2, <1>5, MutatorsType DEF Committed, RecordType
  <1>6. CASE w = "cancel"
    BY <1>1, <1>2, <1>6, MutatorsType DEF Committed, RecordType
  <1>7. CASE w = "projgone"
    BY <1>1, <1>2, <1>7, MutatorsType DEF Committed, RecordType
  <1>8. CASE w \in Outcomes
    <2>1. Committed(r, v, w) = SettleAttempt(r, v.att.id, w, FALSE)
      BY <1>8 DEF Committed, Outcomes
    <2>2. \A out \in Outcomes, pre \in BOOLEAN :
              SettleAttempt(r, v.att.id, out, pre) \in RecordTypeOver(CopyType \cup {None})
      BY <1>1, <1>2, MutatorsType
    <2> QED
      BY <1>8, <2>1, <2>2 DEF RecordType
  <1> QED
    BY <1>3, <1>4, <1>5, <1>6, <1>7, <1>8 DEF Verdicts

\* The fields of a record that other components look at.
LEMMA FieldTypes ==
    ASSUME NEW r \in RecordType
    PROVE  /\ r.status \in Statuses /\ r.gen \in Nat /\ r.event \in Handler \cup {None}
           /\ r.att \in AttemptType \cup {None} /\ r.tries \in 0..MaxAttempts
           /\ r.blocked \in BOOLEAN /\ r.mode \in {"headless", "notify"}
           /\ r.kind \in {"autonomous", "plain"} /\ r.owner \in Handler \cup {None}
           /\ r.prev \in CopyType \cup {None}
           /\ r.att # None => /\ r.att.id \in Attempt /\ r.att.gen \in Nat
                              /\ r.att.pid \in BOOLEAN
  BY DEF RecordType, RecordTypeOver, AttemptType

LEMMA WithPid ==
    ASSUME NEW r \in RecordType, r.att # None
    PROVE  /\ [r EXCEPT !.att.pid = TRUE] \in RecordType
           /\ [r EXCEPT !.att.pid = TRUE].att # None
           /\ [r EXCEPT !.att.pid = TRUE].att.id = r.att.id
           /\ [r EXCEPT !.att.pid = TRUE].att.pid
  <1>1. r.att \in AttemptType
    BY DEF RecordType, RecordTypeOver
  <1> DEFINE att == [r.att EXCEPT !.pid = TRUE]
  <1>2. att \in AttemptType /\ att.id = r.att.id /\ att.pid
    BY <1>1 DEF AttemptType
  <1>3. [r EXCEPT !.att = att] \in RecordType /\ [r EXCEPT !.att = att].att = att
    <2> HIDE DEF att
    <2> QED
      BY <1>2 DEF RecordType, RecordTypeOver
  <1>4. [r EXCEPT !.att.pid = TRUE] = [r EXCEPT !.att = att]
    BY DEF RecordType, RecordTypeOver
  <1> QED
    BY <1>2, <1>3, <1>4

LEMMA InitTypes == Init => TypeOK /\ PhaseInv /\ CapInv
  <1> SUFFICES ASSUME Init PROVE TypeOK /\ PhaseInv /\ CapInv
    OBVIOUS
  <1>1. /\ rec \in RecordType /\ cancel.view \in RecordType /\ waker.view \in RecordType
        /\ waker = Asleep /\ cancel = NotCancelling
    BY AbsentType DEF Init, Asleep, NotCancelling
  <1>2. waker \in [pc : WakerPcs, view : RecordType, verdict : Verdicts]
    BY <1>1, AbsentType DEF Asleep, WakerPcs, Verdicts
  <1>3. cancel \in [pc : {"idle", "kill", "clear", "unpark", "complete"},
                   how : {"limit-status", "stop"}, view : RecordType]
    BY <1>1, AbsentType DEF NotCancelling
  <1>4. sess \in [kind : {"live", "parked", "compact", "ended", "gone"}, event : Handler \cup {None},
                 blocked : BOOLEAN, final : BOOLEAN, owner : Attempt \cup {"user", None}]
    <2>1. PICK final \in BOOLEAN :
              sess = [kind |-> "live", event |-> None, blocked |-> FALSE, final |-> final,
                      owner |-> "user"]
      BY Zenon DEF Init
    <2> QED
      BY <2>1
  <1>5. /\ hand \in [Handler -> [pc : {"idle", "intent", "parked", "failed", "aborted", "done", "dead"},
                                 gen : Nat]]
        /\ user \in [at : {"open", "away", "reading", "wait", "go", "told"},
                     claim : ClaimType \cup {None}]
    BY DEF Init, NotReading, NobodySeen
  <1>6. waker.pc = "down"
    BY <1>1 DEF Asleep
  <1> QED
    BY <1>1, <1>2, <1>3, <1>4, <1>5, <1>6 DEF Init, TypeOK, PhaseInv, CapInv

LEMMA HandlerTypes ==
    ASSUME TypeOK, NEW h \in Handler,
           HandlerFiles(h) \/ HandlerStep(h) \/ HandlerDies(h)
    PROVE  TypeOK'
  <1> USE DEF TypeOK
  <1>1. CASE HandlerFiles(h)
    <2>1. rec' \in RecordType
      <3> DEFINE phase == IF sess.kind = "ended" THEN "stopped" ELSE "preparing"
                 kind  == IF sess.kind = "ended" THEN "plain" ELSE "autonomous"
                 mode  == IF sess.kind = "ended" \/ sess.final THEN "notify" ELSE "headless"
      <3>1. rec' = rec \/ rec' = UpsertStop(rec, phase, kind, mode, h)
        BY <1>1 DEF HandlerFiles
      <3>2. /\ phase \in {"preparing", "stopped"} /\ kind \in {"autonomous", "plain"}
            /\ mode \in {"headless", "notify"}
        OBVIOUS
      <3>3. UpsertStop(rec, phase, kind, mode, h) \in RecordType
        BY <3>2, UpsertType
      <3> QED
        BY <3>1, <3>3
    <2>2. rec'.gen \in Nat
      BY <2>1, FieldTypes
    <2>3. hand' \in [Handler -> [pc : {"idle", "intent", "parked", "failed", "aborted", "done", "dead"},
                                 gen : Nat]]
      <3>1. \/ hand' = [hand EXCEPT ![h].pc = "done"]
            \/ \E p \in {"intent", "done"} : hand' = [hand EXCEPT ![h] = [pc |-> p, gen |-> rec'.gen]]
        BY <1>1 DEF HandlerFiles
      <3> QED
        BY <2>2, <3>1
    <2>4. user' \in [at : {"open", "away", "reading", "wait", "go", "told"}, claim : ClaimType \cup {None}]
          /\ child' \in [Attempt -> {"gone", "fresh", "live", "idle", "joined"}]
      BY <1>1 DEF HandlerFiles, LimitHits
    <2>5. budget' \in 0..Budget
      BY <1>1 DEF HandlerFiles, Spend, KeepBudget
    <2> QED
      BY <1>1, <2>1, <2>3, <2>4, <2>5 DEF HandlerFiles
  <1>2. CASE HandlerParks(h)
    <2>1. /\ \E p \in {"parked", "failed"} : hand' = [hand EXCEPT ![h].pc = p]
          /\ sess' = [sess EXCEPT !.kind = "parked", !.event = h, !.blocked = FALSE] \/ sess' = sess
          /\ slock' \in {slock, h} /\ budget' \in {budget, budget - 1} /\ (budget' # budget => budget > 0)
      BY <1>2 DEF HandlerParks, Spend, KeepBudget, HandlerFails
    <2>2. /\ hand' \in [Handler -> [pc : {"idle", "intent", "parked", "failed", "aborted", "done",
                                           "dead"}, gen : Nat]]
          /\ budget' \in 0..Budget /\ slock' \in Handler \cup {None, "cli"}
      BY <2>1
    <2>3. sess' \in [kind : {"live", "parked", "compact", "ended", "gone"}, event : Handler \cup {None},
                     blocked : BOOLEAN, final : BOOLEAN, owner : Attempt \cup {"user", None}]
      BY <2>1
    <2> QED
      BY <1>2, <2>2, <2>3 DEF HandlerParks
  <1>3. CASE HandlerActivates(h)
    <2>1. rec' \in RecordType
      <3>1. \A mode \in {"headless", "notify"} :
                UpsertStop(rec, "stopped", "autonomous", mode, h) \in RecordType
        BY UpsertType
      <3>2. Activated(rec) \in RecordType
        BY ActivatedType
      <3> QED
        BY <1>3, <3>1, <3>2 DEF HandlerActivates, RepairParked
    <2> QED
      BY <1>3, <2>1 DEF HandlerActivates
  <1>4. CASE HandlerAborts(h)
    <2>1. Restored(rec) \in RecordType
      BY RestoredType
    <2>2. rec' \in RecordType /\ \E p \in {"aborted", "done"} : hand' = [hand EXCEPT ![h].pc = p]
      BY <1>4, <2>1 DEF HandlerAborts
    <2> QED
      BY <1>4, <2>2 DEF HandlerAborts
  <1>5. CASE HandlerFallsBack(h)
    <2>1. rec' = rec \/ rec' = UpsertStop(rec, "stopped", "plain", "notify", h)
      BY <1>5 DEF HandlerFallsBack
    <2> QED
      <3>1. UpsertStop(rec, "stopped", "plain", "notify", h) \in RecordType
        BY UpsertType
      <3> QED
        BY <1>5, <2>1, <3>1 DEF HandlerFallsBack
  <1>6. CASE HandlerDies(h)
    BY <1>6 DEF HandlerDies, HandlerFails, Spend
  <1> QED
    BY <1>1, <1>2, <1>3, <1>4, <1>5, <1>6 DEF HandlerStep

LEMMA CanWithdraw ==
    ASSUME TypeOK, NEW i, Spend(i) \/ KeepBudget
    PROVE  budget' \in 0..Budget
  BY DEF TypeOK, Spend, KeepBudget

LEMMA JudgementsType ==
    ASSUME NEW r \in RecordType, NEW j \in Judgements(r)
    PROVE  \/ j = Skip
           \/ /\ r.att # None
              /\ \E w \in {"superseded", "dead", "interactive", "failed", "deferred", "resumed"} :
                    j = Kill(w) \/ j = Settle(w)
  <1> USE DEF Judgements
  <1>1. CASE r.att = None
    BY <1>1
  <1>2. CASE r.att # None
    <2>1. j \in {Skip, Kill("superseded"), Kill("dead"), Kill("interactive"), Kill("failed"),
                 Settle("resumed"), Kill("deferred"), Settle("deferred")}
      BY <1>2
    <2> QED
      BY <1>2, <2>1
  <1> QED
    BY <1>1, <1>2

LEMMA DowngradedType ==
    ASSUME TypeOK, NEW v
    PROVE  Downgraded(v) \in [kind : {"live", "parked", "compact", "ended", "gone"},
                             event : Handler \cup {None}, blocked : BOOLEAN, final : BOOLEAN,
                             owner : Attempt \cup {"user", None}]
  <1> USE DEF TypeOK
  <1>1. CASE sess.kind # "parked" \/ sess.event # v.event
    BY <1>1 DEF Downgraded
  <1>2. CASE ~(sess.kind # "parked" \/ sess.event # v.event) /\ sess.final
    BY <1>2 DEF Downgraded
  <1>3. CASE ~(sess.kind # "parked" \/ sess.event # v.event) /\ ~sess.final
    BY <1>3 DEF Downgraded
  <1> QED
    BY <1>1, <1>2, <1>3

LEMMA WakerTypesA ==
    ASSUME TypeOK, PhaseInv,
           \/ WakerStarts \/ WakerDies \/ WakerSupervises \/ WakerReconciles
           \/ WakerFinishesCancel \/ WakerUnparks \/ WakerCompletesCancel \/ WakerEndsTick
    PROVE  TypeOK' /\ PhaseInv'
  <1> USE DEF TypeOK, PhaseInv, V, At, AtWith, Verdicts, WakerPcs, Outcomes
  <1>1. CASE WakerStarts
    BY <1>1 DEF WakerStarts
  <1>2. CASE WakerDies
    <2>1. budget' \in 0..Budget
      BY <1>2, CanWithdraw DEF WakerDies
    <2> QED
      BY <1>2, <2>1, AbsentType DEF WakerDies, Asleep
  <1>3. CASE WakerSupervises
    <2>1. PICK j \in Judgements(rec) :
              waker' = [pc |-> j.pc, view |-> IF j.pc = "reconcile" THEN Absent ELSE rec,
                        verdict |-> j.verdict]
      BY <1>3 DEF WakerSupervises
    <2>2. \/ j.pc = "reconcile" /\ j.verdict = "none"
          \/ /\ j.pc \in {"kill", "commit"} /\ rec.att # None
             /\ j.verdict \in {"superseded", "dead", "interactive", "failed", "deferred", "resumed"}
      BY JudgementsType DEF Skip, Kill, Settle
    <2>3. waker' \in [pc : WakerPcs, view : RecordType, verdict : Verdicts] /\ PhaseInv'
      BY <2>1, <2>2, AbsentType
    <2> QED
      BY <1>3, <2>3 DEF WakerSupervises
  <1>4. CASE WakerReconciles
    <2>1. rec' \in RecordType
      <3>1. Late(rec) \subseteq BOOLEAN
        BY DEF Late
      <3> QED
        BY <1>4, <3>1, ReconciledType DEF WakerReconciles
    <2>2. waker' \in [pc : WakerPcs, view : RecordType, verdict : Verdicts] /\ PhaseInv'
      BY <1>4, AbsentType DEF WakerReconciles, MustKillFirst
    <2> QED
      BY <1>4, <2>1, <2>2 DEF WakerReconciles
  <1>5. CASE WakerFinishesCancel
    <2>1. waker' \in [pc : WakerPcs, view : RecordType, verdict : Verdicts] /\ PhaseInv'
      BY <1>5, AbsentType DEF WakerFinishesCancel
    <2> QED
      BY <1>5, <2>1 DEF WakerFinishesCancel
  <1>6. CASE WakerUnparks
    <2>1. sess' \in [kind : {"live", "parked", "compact", "ended", "gone"}, event : Handler \cup {None},
                     blocked : BOOLEAN, final : BOOLEAN, owner : Attempt \cup {"user", None}]
      BY <1>6, DowngradedType DEF WakerUnparks
    <2>2. waker' \in [pc : WakerPcs, view : RecordType, verdict : Verdicts] /\ PhaseInv'
      BY <1>6 DEF WakerUnparks
    <2>3. claim' \in {claim, None}
      BY <1>6 DEF WakerUnparks
    <2> QED
      BY <1>6, <2>1, <2>2, <2>3 DEF WakerUnparks
  <1>7. CASE WakerCompletesCancel
    <2>1. rec' \in RecordType
      <3>1. waker.view.gen \in Nat
        BY FieldTypes
      <3>2. CompleteCancellation(rec, waker.view.gen) \in RecordType
        BY <3>1, StatusNames DEF CompleteCancellation, RecordType, RecordTypeOver
      <3> QED
        BY <1>7, <3>2 DEF WakerCompletesCancel
    <2> QED
      BY <1>7, <2>1, AbsentType DEF WakerCompletesCancel
  <1>8. CASE WakerEndsTick
    BY <1>8, AbsentType DEF WakerEndsTick, Asleep
  <1> QED
    BY <1>1, <1>2, <1>3, <1>4, <1>5, <1>6, <1>7, <1>8

LEMMA SuccessorTypes ==
    ASSUME TypeOK
    PROVE  \A a \in Attempt :
              /\ AttachOrphanChildPid(rec, a) \in RecordType
              /\ CanRecordSpawn(rec, a) /\ rec.tries < MaxAttempts
                    => RecordAttemptSpawn(rec, a) \in RecordType
              /\ \A out \in Outcomes, pre \in BOOLEAN : SettleAttempt(rec, a, out, pre) \in RecordType
  <1>1. rec \in RecordTypeOver(CopyType \cup {None})
    BY DEF TypeOK, RecordType
  <1> TAKE a \in Attempt
  <1>2. AttachOrphanChildPid(rec, a) \in RecordTypeOver(CopyType \cup {None})
    BY <1>1, MutatorsType
  <1>3. \A out \in Outcomes, pre \in BOOLEAN :
            SettleAttempt(rec, a, out, pre) \in RecordTypeOver(CopyType \cup {None})
    BY <1>1, MutatorsType
  <1>4. rec.tries < MaxAttempts /\ rec.att # None
            => RecordAttemptSpawn(rec, a) \in RecordTypeOver(CopyType \cup {None})
    BY <1>1, MutatorsType
  <1> QED
    BY <1>2, <1>3, <1>4 DEF RecordType, CanRecordSpawn, Has

LEMMA WakerTypesB ==
    ASSUME TypeOK, PhaseInv, CapInv,
           \/ WakerKills \/ WakerCommits \/ WakerSelects \/ WakerNotifies \/ WakerGivesUp
           \/ WakerClaims \/ WakerChecks \/ WakerFilesClaim \/ WakerSpawns \/ WakerSettles
           \/ WakerRecords \/ WakerNotesPid
    PROVE  TypeOK' /\ PhaseInv'
  <1> USE DEF TypeOK, PhaseInv, V, At, AtWith, Verdicts, WakerPcs, Outcomes
  <1>f. waker.view \in RecordType /\ waker.view.gen \in Nat
        /\ (waker.view.att # None => waker.view.att.id \in Attempt)
    BY FieldTypes
  <1>1. CASE WakerKills
    <2>1. rec' \in RecordType
      <3>1. BlockCancellation(rec) \in RecordType
        BY StatusNames DEF BlockCancellation, RecordType, RecordTypeOver
      <3> QED
        BY <1>1, <3>1 DEF WakerKills
    <2>2. waker' \in [pc : WakerPcs, view : RecordType, verdict : Verdicts] /\ PhaseInv'
      BY <1>1 DEF WakerKills
    <2>3. child' \in [Attempt -> {"gone", "fresh", "live", "idle", "joined"}]
      BY <1>1 DEF WakerKills
    <2>4. budget' \in 0..Budget
      BY <1>1, CanWithdraw DEF WakerKills
    <2> QED
      BY <1>1, <2>1, <2>2, <2>3, <2>4 DEF WakerKills
  <1>2. CASE WakerCommits
    <2>1. rec' \in RecordType
      BY <1>2, CommittedType DEF WakerCommits
    <2>2. waker' \in [pc : WakerPcs, view : RecordType, verdict : Verdicts] /\ PhaseInv'
      BY <1>2 DEF WakerCommits
    <2>3. claim' \in {claim, None}
      BY <1>2 DEF WakerCommits
    <2> QED
      BY <1>2, <2>1, <2>2, <2>3 DEF WakerCommits
  <1>3. CASE WakerSelects
    BY <1>3, AbsentType DEF WakerSelects
  <1>4. CASE WakerNotifies
    <2>1. MarkNotified(rec, waker.view.gen) \in RecordType
      BY <1>f, StatusNames DEF MarkNotified, RecordType, RecordTypeOver
    <2> QED
      BY <1>4, <2>1, AbsentType DEF WakerNotifies
  <1>5. CASE WakerGivesUp
    <2>1. FailRecord(rec, waker.view.gen) \in RecordType
      BY <1>f, StatusNames DEF FailRecord, RecordType, RecordTypeOver
    <2> QED
      BY <1>5, <2>1, AbsentType DEF WakerGivesUp
  <1>6. CASE WakerClaims
    <2>1. CASE CanClaim
      <3>1. PICK a \in Attempt :
                /\ rec' = ClaimAttempt(rec, a) /\ mine' = mine \cup {a}
                /\ waker' = [pc |-> "check", view |-> rec', verdict |-> "none"]
        BY <1>6, <2>1 DEF WakerClaims
      <3>2. rec' \in RecordType /\ rec'.att # None
        BY <3>1, ClaimAttemptType
      <3> QED
        BY <1>6, <3>1, <3>2 DEF WakerClaims
    <2>2. CASE ~CanClaim
      BY <1>6, <2>2, AbsentType DEF WakerClaims
    <2> QED
      BY <2>1, <2>2
  <1>7. CASE WakerChecks
    <2>1. \/ waker' = [waker EXCEPT !.pc = "file"]
          \/ \E w \in Outcomes : waker' = [pc |-> "settle", view |-> waker.view, verdict |-> w]
      BY <1>7 DEF WakerChecks
    <2>2. budget' \in 0..Budget
      BY <1>7, CanWithdraw DEF WakerChecks
    <2>3. waker' \in [pc : WakerPcs, view : RecordType, verdict : Verdicts] /\ PhaseInv'
      BY <1>7, <2>1 DEF WakerChecks
    <2> QED
      BY <1>7, <2>2, <2>3 DEF WakerChecks
  <1>8. CASE WakerFilesClaim
    <2>1. budget' \in 0..Budget
      BY <1>8, CanWithdraw DEF WakerFilesClaim
    <2>2. waker' \in [pc : WakerPcs, view : RecordType, verdict : Verdicts] /\ PhaseInv'
      BY <1>8 DEF WakerFilesClaim
    <2>3. claim' \in ClaimType \cup {None}
      <3>1. [id |-> waker.view.att.id, pid |-> FALSE] \in ClaimType
        BY <1>8, <1>f DEF WakerFilesClaim, ClaimType
      <3> QED
        BY <1>8, <3>1 DEF WakerFilesClaim
    <2> QED
      BY <1>8, <2>1, <2>2, <2>3 DEF WakerFilesClaim
  <1>9. CASE WakerSpawns
    <2>1. budget' \in 0..Budget
      BY <1>9, CanWithdraw DEF WakerSpawns
    <2>2. waker' \in [pc : WakerPcs, view : RecordType, verdict : Verdicts] /\ PhaseInv'
      BY <1>9 DEF WakerSpawns
    <2>3. claim' \in {claim, None} /\ child' \in [Attempt -> {"gone", "fresh", "live", "idle", "joined"}]
      BY <1>9 DEF WakerSpawns
    <2> QED
      BY <1>9, <2>1, <2>2, <2>3 DEF WakerSpawns
  <1>10. CASE WakerSettles
    <2>1. rec' \in RecordType
      BY <1>10, <1>f, SuccessorTypes DEF WakerSettles
    <2>2. waker' \in [pc : WakerPcs, view : RecordType, verdict : Verdicts] /\ PhaseInv'
      BY <1>10, AbsentType DEF WakerSettles
    <2>3. UNCHANGED <<sess, slock, claim, child, hand, mine, user, cancel, evid, budget>>
      BY <1>10 DEF WakerSettles
    <2> QED
      BY <2>1, <2>2, <2>3
  <1>11. CASE WakerRecords
    <2>1. rec' \in RecordType
      <3>1. waker.view.att.id \in Attempt
        BY <1>11, <1>f DEF WakerRecords
      <3> QED
        BY <1>11, <3>1, SuccessorTypes DEF WakerRecords, CapInv
    <2>2. waker' \in [pc : WakerPcs, view : RecordType, verdict : Verdicts] /\ PhaseInv'
      BY <1>11 DEF WakerRecords
    <2> QED
      BY <1>11, <2>1, <2>2 DEF WakerRecords
  <1>12. CASE WakerNotesPid
    <2>1. claim' \in ClaimType \cup {None}
      BY <1>12, <1>f DEF WakerNotesPid, ClaimType
    <2>2. [waker.view EXCEPT !.att.pid = TRUE] \in RecordType
          /\ [waker.view EXCEPT !.att.pid = TRUE].att # None
      BY <1>12, <1>f, WithPid DEF WakerNotesPid
    <2>3. waker' \in [pc : WakerPcs, view : RecordType, verdict : Verdicts] /\ PhaseInv'
      <3> DEFINE v == [waker.view EXCEPT !.att.pid = TRUE]
      <3>1. \/ waker' = [pc |-> "end", view |-> Absent, verdict |-> "none"]
            \/ waker' = [pc |-> "kill", view |-> v, verdict |-> "orphan"]
        BY <1>12 DEF WakerNotesPid
      <3>2. v \in RecordType /\ v.att # None
        BY <2>2
      <3> HIDE DEF v
      <3> QED
        BY <3>1, <3>2, AbsentType
    <2> QED
      BY <1>12, <2>1, <2>3 DEF WakerNotesPid
  <1> QED
    BY <1>1, <1>2, <1>3, <1>4, <1>5, <1>6, <1>7, <1>8, <1>9, <1>10, <1>11, <1>12

LEMMA ResumedType ==
    ASSUME TypeOK, NEW by \in Attempt \cup {"user"}
    PROVE  Resumed(by) \in [kind : {"live", "parked", "compact", "ended", "gone"},
                            event : Handler \cup {None}, blocked : BOOLEAN, final : BOOLEAN,
                            owner : Attempt \cup {"user", None}]
  BY DEF TypeOK, Resumed

LEMMA OtherTypes ==
    ASSUME TypeOK,
           \/ \E a \in Attempt : ChildStarts(a) \/ ChildResumes(a) \/ ChildEnds(a)
           \/ UserCloses \/ UserStep \/ StopHookReads \/ StopHookMarks \/ ProjectVanishes
    PROVE  TypeOK'
  <1> USE DEF TypeOK
  <1>1. ASSUME NEW a \in Attempt, ChildStarts(a) PROVE TypeOK'
    BY <1>1 DEF ChildStarts
  <1>2. ASSUME NEW a \in Attempt, ChildResumes(a) PROVE TypeOK'
    <2>1. /\ child' \in [Attempt -> {"gone", "fresh", "live", "idle", "joined"}]
          /\ sess' \in {sess, Resumed(a), [sess EXCEPT !.blocked = TRUE]}
      BY <1>2 DEF ChildResumes
    <2>2. budget' \in 0..Budget
      BY <1>2, CanWithdraw DEF ChildResumes
    <2>3. sess' \in [kind : {"live", "parked", "compact", "ended", "gone"}, event : Handler \cup {None},
                     blocked : BOOLEAN, final : BOOLEAN, owner : Attempt \cup {"user", None}]
      <3>1. Resumed(a) \in [kind : {"live", "parked", "compact", "ended", "gone"},
                            event : Handler \cup {None}, blocked : BOOLEAN, final : BOOLEAN,
                            owner : Attempt \cup {"user", None}]
        BY ResumedType
      <3> QED
        BY <2>1, <3>1
    <2> QED
      BY <1>2, <2>1, <2>2, <2>3 DEF ChildResumes
  <1>3. ASSUME NEW a \in Attempt, ChildEnds(a) PROVE TypeOK'
    <2>1. PICK k \in {sess.kind, "ended"} :
              sess' = [sess EXCEPT !.kind = k, !.owner = IF sess.owner = a THEN None ELSE sess.owner]
      BY <1>3 DEF ChildEnds
    <2>2. sess' \in [kind : {"live", "parked", "compact", "ended", "gone"}, event : Handler \cup {None},
                     blocked : BOOLEAN, final : BOOLEAN, owner : Attempt \cup {"user", None}]
      BY <2>1
    <2>3. child' \in [Attempt -> {"gone", "fresh", "live", "idle", "joined"}]
      BY <1>3 DEF ChildEnds
    <2> QED
      BY <1>3, <2>2, <2>3 DEF ChildEnds
  <1>4. CASE UserCloses
    BY <1>4 DEF UserCloses, NotReading
  <1>5. CASE UserReopens
    <2>1. Answer(rec) \in {"wait", "told"}
      BY DEF Answer
    <2>2. user' \in [at : {"open", "away", "reading", "wait", "go", "told"},
                     claim : ClaimType \cup {None}]
      BY <1>5, <2>1 DEF UserReopens, NotReading
    <2>3. budget' \in 0..Budget
      BY <1>5, CanWithdraw DEF UserReopens
    <2> QED
      BY <1>5, <2>2, <2>3 DEF UserReopens
  <1>6. CASE UserTakesOver
    <2>1. rec' \in RecordType
      <3>1. MarkInteractive(rec) \in RecordType
        BY StatusNames DEF MarkInteractive, RecordType, RecordTypeOver
      <3> QED
        BY <1>6, <3>1 DEF UserTakesOver
    <2>2. user' \in [at : {"open", "away", "reading", "wait", "go", "told"},
                     claim : ClaimType \cup {None}]
      BY <1>6 DEF UserTakesOver, NotReading
    <2>3. child' \in [Attempt -> {"gone", "fresh", "live", "idle", "joined"}]
      BY <1>6 DEF UserTakesOver
    <2>4. claim' \in {claim, None}
      BY <1>6 DEF UserTakesOver
    <2> QED
      BY <1>6, <2>1, <2>2, <2>3, <2>4 DEF UserTakesOver
  <1>7. CASE UserResumes
    <2>1. /\ sess' \in {sess, Resumed("user"), [sess EXCEPT !.blocked = TRUE]}
          /\ user' \in [at : {"open", "away", "reading", "wait", "go", "told"},
                        claim : ClaimType \cup {None}]
      BY <1>7 DEF UserResumes, NotReading
    <2>2. budget' \in 0..Budget
      BY <1>7, CanWithdraw DEF UserResumes
    <2>3. sess' \in [kind : {"live", "parked", "compact", "ended", "gone"}, event : Handler \cup {None},
                     blocked : BOOLEAN, final : BOOLEAN, owner : Attempt \cup {"user", None}]
      <3>1. Resumed("user") \in [kind : {"live", "parked", "compact", "ended", "gone"},
                            event : Handler \cup {None}, blocked : BOOLEAN, final : BOOLEAN,
                            owner : Attempt \cup {"user", None}]
        BY ResumedType
      <3> QED
        BY <2>1, <3>1
    <2> QED
      BY <1>7, <2>1, <2>2, <2>3 DEF UserResumes
  <1>8. CASE UserRequeues
    <2>1. RequeueRecord(rec) \in RecordTypeOver(CopyType \cup {None})
      BY RequeueType DEF RecordType
    <2>2. budget' \in 0..Budget
      BY <1>8, CanWithdraw DEF UserRequeues
    <2> QED
      BY <1>8, <2>1, <2>2 DEF UserRequeues, RecordType
  <1>9. CASE StopHookReads
    <2>1. budget' \in 0..Budget
      BY <1>9, CanWithdraw DEF StopHookReads
    <2>2. evid' \in Nat
      BY <1>9, FieldTypes DEF StopHookReads
    <2> QED
      BY <1>9, <2>1, <2>2 DEF StopHookReads
  <1>10. CASE StopHookMarks
    <2>1. MarkResumed(rec, evid) \in RecordType
      BY StatusNames DEF MarkResumed, RecordType, RecordTypeOver
    <2> QED
      BY <1>10, <2>1 DEF StopHookMarks
  <1>11. CASE ProjectVanishes
    <2>1. budget' \in 0..Budget
      BY <1>11, CanWithdraw DEF ProjectVanishes
    <2>2. sess' \in [kind : {"live", "parked", "compact", "ended", "gone"}, event : Handler \cup {None},
                     blocked : BOOLEAN, final : BOOLEAN, owner : Attempt \cup {"user", None}]
      BY <1>11 DEF ProjectVanishes
    <2> QED
      BY <1>11, <2>1, <2>2 DEF ProjectVanishes
  <1> QED
    BY <1>1, <1>2, <1>3, <1>4, <1>5, <1>6, <1>7, <1>8, <1>9, <1>10, <1>11 DEF UserStep

LEMMA CancelTypes ==
    ASSUME TypeOK,
           (\E how \in {"limit-status", "stop"} : CancelBegins(how)) \/ CancelStep \/ CancelDies
    PROVE  TypeOK'
  <1> USE DEF TypeOK
  <1>1. ASSUME NEW how \in {"limit-status", "stop"}, CancelBegins(how) PROVE TypeOK'
    <2>1. rec' \in RecordType
      <3>1. BeginCancellation(rec) \in RecordType
        BY StatusNames DEF BeginCancellation, RecordType, RecordTypeOver
      <3> QED
        BY <1>1, <3>1 DEF CancelBegins
    <2>2. cancel' \in [pc : {"idle", "kill", "clear", "unpark", "complete"},
                       how : {"limit-status", "stop"}, view : RecordType]
      BY <1>1, <2>1 DEF CancelBegins
    <2>3. budget' \in 0..Budget
      BY <1>1, CanWithdraw DEF CancelBegins
    <2>4. claim' \in {claim, None} /\ slock' \in {slock, "cli"}
      BY <1>1 DEF CancelBegins
    <2> QED
      BY <1>1, <2>1, <2>2, <2>3, <2>4 DEF CancelBegins
  <1>2. CASE CancelKills
    <2>1. rec' \in RecordType
      <3>1. BlockCancellation(rec) \in RecordType
        BY StatusNames DEF BlockCancellation, RecordType, RecordTypeOver
      <3> QED
        BY <1>2, <3>1 DEF CancelKills
    <2>2. cancel' \in [pc : {"idle", "kill", "clear", "unpark", "complete"},
                       how : {"limit-status", "stop"}, view : RecordType]
      BY <1>2, AbsentType DEF CancelKills, CancelGoesTo, CancelOver, NotCancelling
    <2>3. budget' \in 0..Budget
      BY <1>2 DEF CancelKills, Spend
    <2>4. slock' \in {slock, None} /\ child' \in [Attempt -> {"gone", "fresh", "live", "idle", "joined"}]
      BY <1>2 DEF CancelKills, CancelOver
    <2> QED
      BY <1>2, <2>1, <2>2, <2>3, <2>4 DEF CancelKills
  <1>3. CASE CancelClears
    <2>1. rec' \in RecordType
      <3>1. ClearCancellingAttempt(rec, cancel.view.att.id) \in RecordType
        BY StatusNames DEF ClearCancellingAttempt, RecordType, RecordTypeOver
      <3> QED
        BY <1>3, <3>1 DEF CancelClears
    <2> QED
      BY <1>3, <2>1 DEF CancelClears, CancelGoesTo
  <1>4. CASE CancelUnparks
    <2>1. sess' \in [kind : {"live", "parked", "compact", "ended", "gone"}, event : Handler \cup {None},
                     blocked : BOOLEAN, final : BOOLEAN, owner : Attempt \cup {"user", None}]
      <3>1. [sess EXCEPT !.kind = "ended", !.event = None, !.blocked = FALSE] \in
              [kind : {"live", "parked", "compact", "ended", "gone"}, event : Handler \cup {None},
               blocked : BOOLEAN, final : BOOLEAN, owner : Attempt \cup {"user", None}]
        OBVIOUS
      <3>2. Downgraded(cancel.view) \in
              [kind : {"live", "parked", "compact", "ended", "gone"}, event : Handler \cup {None},
               blocked : BOOLEAN, final : BOOLEAN, owner : Attempt \cup {"user", None}]
        BY DowngradedType
      <3>3. sess' \in {sess, Downgraded(cancel.view),
                      [sess EXCEPT !.kind = "ended", !.event = None, !.blocked = FALSE]}
        BY <1>4 DEF CancelUnparks
      <3> QED
        BY <3>1, <3>2, <3>3
    <2>2. claim' \in {claim, None} /\ slock' \in {slock, None}
      BY <1>4 DEF CancelUnparks
    <2> QED
      BY <1>4, <2>1, <2>2 DEF CancelUnparks, CancelGoesTo
  <1>5. CASE CancelCompletes
    <2>1. rec' \in RecordType
      <3>1. CompleteCancellation(rec, cancel.view.gen) \in RecordType
        BY StatusNames DEF CompleteCancellation, RecordType, RecordTypeOver
      <3> QED
        BY <1>5, <3>1 DEF CancelCompletes
    <2> QED
      BY <1>5, <2>1, AbsentType DEF CancelCompletes, NotCancelling
  <1>6. CASE CancelDies
    <2>1. budget' \in 0..Budget
      BY <1>6, CanWithdraw DEF CancelDies
    <2> QED
      BY <1>6, <2>1, AbsentType DEF CancelDies, CancelOver, NotCancelling
  <1> QED
    BY <1>1, <1>2, <1>3, <1>4, <1>5, <1>6 DEF CancelStep

-----------------------------------------------------------------------------
(* The count of spawned children.                                            *)

\* A step of the ledger that spawns no child and files no stop.
Lowers(r, s) ==
    /\ s.tries <= r.tries
    /\ s.status = "resuming" => r.status = "resuming"
    /\ s.status = "preparing" => r.status = "preparing" /\ s.prev = r.prev
    /\ s.att # None => r.att # None /\ s.att.id = r.att.id

LEMMA MutatorsLower ==
    ASSUME NEW r \in RecordType, NEW a, NEW g
    PROVE  /\ Lowers(r, r)
           /\ Lowers(r, AttachOrphanChildPid(r, a))
           /\ Lowers(r, ClearSupersededAttempt(r, a))
           /\ Lowers(r, ClearConfirmedDeadAttempt(r, a))
           /\ Lowers(r, ClearInteractiveAttempt(r, a))
           /\ Lowers(r, ClearCancellingAttempt(r, a))
           /\ Lowers(r, FailProjectGoneConfirmed(r, a, g))
           /\ Lowers(r, MarkNotified(r, g))
           /\ Lowers(r, FailRecord(r, g))
           /\ Lowers(r, MarkResumed(r, g))
           /\ Lowers(r, MarkInteractive(r))
           /\ Lowers(r, BeginCancellation(r))
           /\ Lowers(r, CompleteCancellation(r, g))
           /\ Lowers(r, BlockCancellation(r))
           /\ Lowers(r, RequeueRecord(r))
           /\ Lowers(r, Activated(r))
           /\ Lowers(r, MovedOn(r))
           /\ Lowers(r, ProjectGone(r))
           /\ \A out \in Outcomes, pre \in BOOLEAN : Lowers(r, SettleAttempt(r, a, out, pre))
  <1> USE DEF Lowers, RecordType, RecordTypeOver
  <1>0. Lowers(r, r)
    OBVIOUS
  <1>1. Lowers(r, AttachOrphanChildPid(r, a))
    <2>1. CASE ~Has(r, a)
      BY <2>1 DEF AttachOrphanChildPid
    <2>2. CASE Has(r, a)
      <3> DEFINE att == [r.att EXCEPT !.pid = TRUE]
      <3>1. r.att \in AttemptType /\ att.id = r.att.id
        BY <2>2 DEF Has, AttemptType
      <3>2. AttachOrphanChildPid(r, a) = [r EXCEPT !.att = att]
        BY <2>2 DEF AttachOrphanChildPid
      <3>3. Lowers(r, [r EXCEPT !.att = att])
        <4> HIDE DEF att
        <4> QED
          BY <2>2, <3>1 DEF Has
      <3> QED
        BY <3>2, <3>3
    <2> QED
      BY <2>1, <2>2
  <1>2. Lowers(r, ClearSupersededAttempt(r, a))
    BY DEF ClearSupersededAttempt
  <1>3. Lowers(r, ClearConfirmedDeadAttempt(r, a))
    BY DEF ClearConfirmedDeadAttempt
  <1>4. Lowers(r, ClearInteractiveAttempt(r, a))
    BY DEF ClearInteractiveAttempt
  <1>5. Lowers(r, ClearCancellingAttempt(r, a))
    BY DEF ClearCancellingAttempt
  <1>6. Lowers(r, FailProjectGoneConfirmed(r, a, g))
    BY DEF FailProjectGoneConfirmed
  <1>7. Lowers(r, MarkNotified(r, g))
    BY DEF MarkNotified
  <1>8. Lowers(r, FailRecord(r, g))
    BY DEF FailRecord
  <1>9. Lowers(r, MarkResumed(r, g))
    BY DEF MarkResumed
  <1>10. Lowers(r, MarkInteractive(r))
    BY DEF MarkInteractive
  <1>11. Lowers(r, BeginCancellation(r))
    BY DEF BeginCancellation
  <1>12. Lowers(r, CompleteCancellation(r, g))
    BY DEF CompleteCancellation
  <1>13. Lowers(r, BlockCancellation(r))
    BY DEF BlockCancellation
  <1>14. Lowers(r, RequeueRecord(r))
    BY DEF RequeueRecord
  <1>15. Lowers(r, Activated(r))
    BY DEF Activated
  <1>16. Lowers(r, MovedOn(r))
    BY DEF MovedOn
  <1>17. Lowers(r, ProjectGone(r))
    BY DEF ProjectGone
  <1>18. ASSUME NEW out \in Outcomes, NEW pre \in BOOLEAN
         PROVE  Lowers(r, SettleAttempt(r, a, out, pre))
    <2> DEFINE n == IF out = "deferred" /\ pre THEN r.defers + 1 ELSE r.defers
    <2>1. SettleAttempt(r, a, out, pre) \in
            {r, [r EXCEPT !.status = "failed", !.att = None],
             [r EXCEPT !.status = out, !.blocked = FALSE, !.att = None, !.defers = n]}
      BY DEF SettleAttempt
    <2>2. Lowers(r, [r EXCEPT !.status = "failed", !.att = None])
      OBVIOUS
    <2>3. Lowers(r, [r EXCEPT !.status = out, !.blocked = FALSE, !.att = None, !.defers = n])
      <3> HIDE DEF n
      <3> QED
        BY DEF Outcomes
    <2> HIDE DEF Lowers, n
    <2> QED
      BY <1>0, <2>1, <2>2, <2>3
  <1> HIDE DEF Lowers
  <1> QED
    BY <1>0, <1>1, <1>2, <1>3, <1>4, <1>5, <1>6, <1>7, <1>8, <1>9, <1>10, <1>11, <1>12, <1>13, <1>14, <1>15, <1>16, <1>17, <1>18

LEMMA ReconciledLowers ==
    ASSUME NEW r \in RecordType, NEW late
    PROVE  \/ Lowers(r, Reconciled(r, late))
           \/ r.status = "preparing" /\ Reconciled(r, late) = Restored(r)
  <1> DEFINE Stopped == [r EXCEPT !.status = "stopped"]
             StoppedFree == [r EXCEPT !.status = "stopped", !.att = None]
             Resumption == [r EXCEPT !.status = "resumed"]
  <1>1. Lowers(r, Stopped) /\ Lowers(r, StoppedFree) /\ Lowers(r, Resumption)
    BY DEF Lowers, RecordType, RecordTypeOver
  <1>2. \/ Reconciled(r, late) \in {r, Activated(r), MovedOn(r), ProjectGone(r), Stopped, StoppedFree,
                                   Resumption}
        \/ r.status = "preparing" /\ Reconciled(r, late) = Restored(r)
    BY DEF Reconciled
  <1>3. Lowers(r, r) /\ Lowers(r, Activated(r)) /\ Lowers(r, MovedOn(r)) /\ Lowers(r, ProjectGone(r))
    BY MutatorsLower
  <1> QED
    BY <1>1, <1>2, <1>3

LEMMA CommittedLowers ==
    ASSUME NEW r \in RecordType, NEW v, NEW w \in Verdicts \ {"none", "orphan"}
    PROVE  Lowers(r, Committed(r, v, w))
  <1>1. /\ Lowers(r, ClearSupersededAttempt(r, v.att.id))
        /\ Lowers(r, ClearConfirmedDeadAttempt(r, v.att.id))
        /\ Lowers(r, ClearInteractiveAttempt(r, v.att.id))
        /\ Lowers(r, ClearCancellingAttempt(r, v.att.id))
        /\ Lowers(r, FailProjectGoneConfirmed(r, v.att.id, v.gen))
        /\ w \in Outcomes => Lowers(r, SettleAttempt(r, v.att.id, w, FALSE))
    BY MutatorsLower
  <1> QED
    BY <1>1 DEF Committed, Verdicts

LEMMA CapUnderLowers ==
    ASSUME TypeOK, TypeOK', CapInv, Lowers(rec, rec') \/ UNCHANGED rec,
           waker' = waker \/ waker'.pc \notin {"claim", "check", "file", "spawn", "record"}
    PROVE  CapInv'
  <1>1. CASE waker' = waker
    <2>1. rec.tries \in Nat /\ rec'.tries \in Nat /\ waker.view.tries \in Nat
      BY FieldTypes DEF TypeOK
    <2>2. UNCHANGED V
      BY <1>1 DEF V
    <2>3. CASE UNCHANGED rec
      BY <1>1, <2>2, <2>3 DEF CapInv, CanRecordSpawn, Has
    <2>4. CASE Lowers(rec, rec')
      <3>1. \A a : CanRecordSpawn(rec', a) => CanRecordSpawn(rec, a)
        BY <2>4 DEF Lowers, CanRecordSpawn, Has
      <3>2. \A p, a : CanRecordSpawn(p, a) <=> p.status = "resuming" /\ p.att # None /\ p.att.id = a
        BY DEF CanRecordSpawn, Has
      <3> QED
        BY <1>1, <2>1, <2>2, <2>4, <3>1 DEF CapInv, Lowers, V
    <2> QED
      BY <2>3, <2>4
  <1>2. CASE waker'.pc \notin {"claim", "check", "file", "spawn", "record"}
    BY <1>2 DEF CapInv
  <1> QED
    BY <1>1, <1>2

LEMMA CapUnderRestored ==
    ASSUME TypeOK, TypeOK', CapInv, rec.status = "preparing", rec' = Restored(rec),
           waker' = waker \/ waker'.pc \notin {"claim", "check", "file", "spawn", "record"}
    PROVE  CapInv'
  <1>1. CASE waker' = waker
    <2>1. waker.view.tries \in Nat
      BY FieldTypes DEF TypeOK
    <2>2. CASE rec.prev = None
      <3>1. rec'.tries = 0 /\ rec'.status = "absent"
        BY <2>2 DEF Restored, Absent
      <3> QED
        BY <1>1, <2>1, <3>1 DEF CapInv, CanRecordSpawn, V
    <2>3. CASE rec.prev # None
      <3>1. rec' = rec.prev
        BY <2>3 DEF Restored
      <3>2. rec.prev \in CopyType
        BY <2>3, FieldTypes DEF TypeOK
      <3>3. rec.prev.prev = None
        BY <3>2 DEF CopyType, RecordTypeOver
      <3> QED
        BY <1>1, <2>1, <2>3, <3>1, <3>3 DEF CapInv, V
    <2> QED
      BY <2>2, <2>3
  <1>2. CASE waker'.pc \notin {"claim", "check", "file", "spawn", "record"}
    BY <1>2 DEF CapInv
  <1> QED
    BY <1>1, <1>2

LEMMA CapUnderUpsert ==
    ASSUME TypeOK, TypeOK', CapInv, NEW phase \in {"preparing", "stopped"}, NEW kind, NEW mode,
           NEW h, rec' = UpsertStop(rec, phase, kind, mode, h), UNCHANGED waker
    PROVE  CapInv'
  <1>1. /\ rec'.status = phase /\ rec'.tries \in {rec.tries, 0}
        /\ rec'.prev = (IF phase = "preparing" /\ rec.status # "absent"
                        THEN [rec EXCEPT !.prev = None] ELSE None)
    BY DEF UpsertStop
  <1>2. /\ [rec EXCEPT !.prev = None].tries = rec.tries
        /\ [rec EXCEPT !.prev = None].status = rec.status
        /\ [rec EXCEPT !.prev = None].att = rec.att
    BY DEF TypeOK, RecordType, RecordTypeOver
  <1>3. rec.tries \in Nat /\ waker.view.tries \in Nat
    BY FieldTypes DEF TypeOK
  <1> QED
    BY <1>1, <1>2, <1>3 DEF CapInv, CanRecordSpawn, Has, V

LEMMA CapStep ==
    ASSUME TypeOK, TypeOK', PhaseInv, CapInv, [Next]_vars
    PROVE  CapInv'
  <1>r. rec \in RecordType /\ waker.view \in RecordType /\ cancel.view \in RecordType
    BY DEF TypeOK
  <1>1. ASSUME NEW h \in Handler, HandlerFiles(h) \/ HandlerStep(h) \/ HandlerDies(h)
        PROVE  CapInv'
    <2>1. UNCHANGED waker
      BY <1>1 DEF HandlerFiles, HandlerStep, HandlerParks, HandlerActivates, HandlerAborts,
             HandlerFallsBack, HandlerDies
    <2>2. \/ UNCHANGED rec
          \/ rec' = Activated(rec)
          \/ rec.status = "preparing" /\ rec' = Restored(rec)
          \/ \E phase \in {"preparing", "stopped"}, kind \in {"autonomous", "plain"},
                mode \in {"headless", "notify"} : rec' = UpsertStop(rec, phase, kind, mode, h)
      BY <1>1 DEF HandlerFiles, HandlerStep, HandlerParks, HandlerActivates, HandlerAborts,
             HandlerFallsBack, HandlerDies, OwnsIntent, RepairParked
    <2>3. Lowers(rec, Activated(rec))
      BY <1>r, MutatorsLower
    <2> QED
      BY <2>1, <2>2, <2>3, CapUnderLowers, CapUnderRestored, CapUnderUpsert
  <1>2. CASE WakerStarts \/ WakerDies \/ WakerEndsTick \/ WakerSupervises \/ WakerFinishesCancel
             \/ WakerUnparks \/ WakerNotesPid
    <2>1. UNCHANGED rec
      BY <1>2 DEF WakerStarts, WakerDies, WakerEndsTick, WakerSupervises, WakerFinishesCancel,
             WakerUnparks, WakerNotesPid
    <2>2. waker'.pc \notin {"claim", "check", "file", "spawn", "record"}
      <3>1. CASE WakerSupervises
        BY <3>1, <1>r, JudgementsType DEF WakerSupervises, AtWith, Skip, Kill, Settle
      <3>2. CASE ~WakerSupervises
        BY <1>2, <3>2 DEF WakerStarts, WakerDies, WakerEndsTick, WakerFinishesCancel,
             WakerUnparks, WakerNotesPid, At, AtWith, Asleep, TypeOK
      <3> QED
        BY <3>1, <3>2
    <2> QED
      BY <2>1, <2>2, CapUnderLowers
  <1>3. CASE WakerReconciles
    <2>1. waker'.pc \notin {"claim", "check", "file", "spawn", "record"}
      BY <1>3 DEF WakerReconciles, AtWith
    <2> QED
      BY <1>3, <1>r, <2>1, ReconciledLowers, CapUnderLowers, CapUnderRestored DEF WakerReconciles
  <1>4. CASE WakerKills
    <2>1. waker'.pc \notin {"claim", "check", "file", "spawn", "record"}
      BY <1>4 DEF WakerKills, At, TypeOK
    <2>2. Lowers(rec, rec')
      BY <1>4, <1>r, MutatorsLower DEF WakerKills
    <2> QED
      BY <2>1, <2>2, CapUnderLowers
  <1>5. CASE WakerCommits
    <2>1. waker'.pc \notin {"claim", "check", "file", "spawn", "record"}
      BY <1>5 DEF WakerCommits, At, TypeOK
    <2>2. Lowers(rec, rec')
      BY <1>5, <1>r, MutatorsLower, CommittedLowers DEF WakerCommits, PhaseInv
    <2> QED
      BY <2>1, <2>2, CapUnderLowers
  <1>6. CASE WakerCompletesCancel \/ WakerNotifies \/ WakerGivesUp \/ WakerSettles
    <2>1. waker'.pc \notin {"claim", "check", "file", "spawn", "record"}
      <3>1. \E pc \in {"dispatch", "end"} : waker' = [pc |-> pc, view |-> Absent, verdict |-> "none"]
        BY <1>6 DEF WakerCompletesCancel, WakerNotifies, WakerGivesUp, WakerSettles, AtWith
      <3> QED
        BY <3>1
    <2>2. Lowers(rec, rec')
      <3>1. WakerSettles => waker.verdict \in Outcomes
        BY DEF PhaseInv, WakerSettles
      <3> QED
        BY <1>6, <1>r, <3>1, MutatorsLower
           DEF WakerCompletesCancel, WakerNotifies, WakerGivesUp, WakerSettles
    <2> QED
      BY <2>1, <2>2, CapUnderLowers
  <1>7. CASE WakerSelects
    BY <1>7, <1>r, FieldTypes DEF WakerSelects, AtWith, CapInv, V, Dispatchable
  <1>8. CASE WakerClaims
    <2>1. CASE CanClaim
      <3>1. PICK a \in Attempt : /\ rec' = ClaimAttempt(rec, a)
                                 /\ waker' = [pc |-> "check", view |-> rec', verdict |-> "none"]
        BY <1>8, <2>1 DEF WakerClaims, AtWith
      <3>2. rec'.tries = rec.tries /\ rec'.status = "resuming"
        BY <1>r, <3>1 DEF ClaimAttempt, RecordType, RecordTypeOver
      <3>3. rec.tries <= waker.view.tries /\ waker.view.tries < MaxAttempts
        BY <1>8 DEF WakerClaims, CapInv, V
      <3>4. rec.tries \in Nat /\ waker.view.tries \in Nat
        BY <1>r, FieldTypes
      <3> QED
        BY <3>1, <3>2, <3>3, <3>4 DEF CapInv
    <2>2. CASE ~CanClaim
      BY <1>8, <2>2 DEF WakerClaims, AtWith, CapInv
    <2> QED
      BY <2>1, <2>2
  <1>9. CASE WakerChecks
    BY <1>9 DEF WakerChecks, At, AtWith, CapInv, V, TypeOK
  <1>10. CASE WakerFilesClaim
    BY <1>10 DEF WakerFilesClaim, At, AtWith, CapInv, V, TypeOK
  <1>11. CASE WakerSpawns
    BY <1>11 DEF WakerSpawns, At, AtWith, CapInv, V, TypeOK
  <1>12. CASE WakerRecords
    BY <1>12 DEF WakerRecords, At, CapInv, TypeOK
  <1>13. ASSUME NEW a \in Attempt, ChildStarts(a) \/ ChildResumes(a) \/ ChildEnds(a)
         PROVE  CapInv'
    BY <1>13, CapUnderLowers DEF ChildStarts, ChildResumes, ChildEnds
  <1>14. CASE UserCloses \/ UserStep \/ StopHookReads \/ StopHookMarks \/ ProjectVanishes
    <2>1. UNCHANGED waker
      BY <1>14 DEF UserCloses, UserStep, UserReopens, UserTakesOver, UserResumes, UserRequeues,
             StopHookReads, StopHookMarks, ProjectVanishes
    <2>2. rec' \in {rec, MarkInteractive(rec), RequeueRecord(rec), MarkResumed(rec, evid)}
      BY <1>14 DEF UserCloses, UserStep, UserReopens, UserTakesOver, UserResumes, UserRequeues,
             StopHookReads, StopHookMarks, ProjectVanishes
    <2>3. Lowers(rec, rec')
      BY <1>r, <2>2, MutatorsLower
    <2> QED
      BY <2>1, <2>3, CapUnderLowers
  <1>15. CASE (\E how \in {"limit-status", "stop"} : CancelBegins(how)) \/ CancelStep \/ CancelDies
    <2>1. UNCHANGED waker
      BY <1>15 DEF CancelBegins, CancelStep, CancelKills, CancelClears, CancelUnparks,
             CancelCompletes, CancelDies
    <2>2. rec' \in {rec, BeginCancellation(rec), BlockCancellation(rec),
                    ClearCancellingAttempt(rec, cancel.view.att.id),
                    CompleteCancellation(rec, cancel.view.gen)}
      BY <1>15 DEF CancelBegins, CancelStep, CancelKills, CancelClears, CancelUnparks,
             CancelCompletes, CancelDies
    <2>3. Lowers(rec, rec')
      BY <1>r, <2>2, MutatorsLower
    <2> QED
      BY <2>1, <2>3, CapUnderLowers
  <1>16. CASE UNCHANGED vars
    BY <1>16, CapUnderLowers DEF vars
  <1> QED
    BY <1>1, <1>2, <1>3, <1>4, <1>5, <1>6, <1>7, <1>8, <1>9, <1>10, <1>11, <1>12, <1>13, <1>14,
       <1>15, <1>16 DEF Next, WakerStep

LEMMA TypesStep ==
    ASSUME TypeOK, PhaseInv, CapInv, [Next]_vars
    PROVE  TypeOK' /\ PhaseInv' /\ CapInv'
  <1>1. ASSUME NEW h \in Handler, HandlerFiles(h) \/ HandlerStep(h) \/ HandlerDies(h)
        PROVE  TypeOK' /\ PhaseInv'
    <2>1. UNCHANGED waker
      BY <1>1 DEF HandlerFiles, HandlerStep, HandlerParks, HandlerActivates, HandlerAborts,
             HandlerFallsBack, HandlerDies
    <2> QED
      BY <1>1, <2>1, HandlerTypes DEF PhaseInv, V
  <1>2. ASSUME WakerStarts \/ WakerStep \/ WakerDies PROVE TypeOK' /\ PhaseInv'
    <2>1. CASE \/ WakerStarts \/ WakerDies \/ WakerSupervises \/ WakerReconciles
               \/ WakerFinishesCancel \/ WakerUnparks \/ WakerCompletesCancel \/ WakerEndsTick
      BY <2>1, WakerTypesA
    <2>2. CASE \/ WakerKills \/ WakerCommits \/ WakerSelects \/ WakerNotifies \/ WakerGivesUp
               \/ WakerClaims \/ WakerChecks \/ WakerFilesClaim \/ WakerSpawns \/ WakerSettles
               \/ WakerRecords \/ WakerNotesPid
      BY <2>2, WakerTypesB
    <2> QED
      BY <1>2, <2>1, <2>2 DEF WakerStep
  <1>3. ASSUME \/ \E a \in Attempt : ChildStarts(a) \/ ChildResumes(a) \/ ChildEnds(a)
               \/ UserCloses \/ UserStep \/ StopHookReads \/ StopHookMarks \/ ProjectVanishes
        PROVE  TypeOK' /\ PhaseInv'
    <2>1. UNCHANGED waker
      BY <1>3 DEF ChildStarts, ChildResumes, ChildEnds, UserCloses, UserStep, UserReopens,
             UserTakesOver, UserResumes, UserRequeues, StopHookReads, StopHookMarks, ProjectVanishes
    <2>2. TypeOK'
      BY <1>3, OtherTypes
    <2> QED
      BY <2>1, <2>2 DEF PhaseInv, V
  <1>4. ASSUME (\E how \in {"limit-status", "stop"} : CancelBegins(how)) \/ CancelStep \/ CancelDies
        PROVE  TypeOK' /\ PhaseInv'
    <2>1. UNCHANGED waker
      BY <1>4 DEF CancelBegins, CancelStep, CancelKills, CancelClears, CancelUnparks,
             CancelCompletes, CancelDies
    <2>2. TypeOK'
      BY <1>4, CancelTypes
    <2> QED
      BY <2>1, <2>2 DEF PhaseInv, V
  <1>5. ASSUME UNCHANGED vars PROVE TypeOK' /\ PhaseInv'
    <2>1. UNCHANGED <<rec, sess, slock, claim, child, hand, waker, mine, user, cancel, evid, budget>>
      BY <1>5 DEF vars
    <2>2. TypeOK'
      BY <2>1 DEF TypeOK
    <2> QED
      BY <2>1, <2>2 DEF PhaseInv, V
  <1>6. TypeOK' /\ PhaseInv'
    BY <1>1, <1>2, <1>3, <1>4, <1>5 DEF Next
  <1> QED
    BY <1>6, CapStep

\* Every component keeps its type whatever happens: the record never counts more
\* spawned children than limitResume.maxAttempts nor more deferrals in a row than
\* MAX_DEFER_COUNT, in the ledger and in the copy that an intent keeps.
THEOREM TypeCorrect == Spec => []TypeOK
<1>1. Init => TypeOK /\ PhaseInv /\ CapInv
  BY InitTypes
<1>2. TypeOK /\ PhaseInv /\ CapInv /\ [Next]_vars => (TypeOK /\ PhaseInv /\ CapInv)'
  BY TypesStep
<1> QED
  BY <1>1, <1>2, PTL DEF Spec

-----------------------------------------------------------------------------
(* What every step of the ledger does to a record.                           *)

\* A record makes sense: an attempt is of its generation or an older one, is the
\* current one while the record is being resumed, is an older one while the record
\* waits, and is gone once the record is settled.
Sound(r) ==
    /\ r.att # None => r.att.gen <= r.gen
    /\ r.status = "resuming" => r.att # None /\ r.att.gen = r.gen /\ r.mode = "headless"
    /\ r.status \in {"preparing", "stopped", "deferred"} /\ r.att # None => r.att.gen < r.gen
    /\ r.status \in {"absent", "cancelled", "resumed", "notified", "failed"} => r.att = None
    /\ r.status = "manual" /\ ~r.blocked => r.att = None
    /\ IF r.status = "absent" THEN r.gen = 0 ELSE r.gen >= 1
    /\ r.status = "preparing" /\ r.prev = None => r.gen = 1 /\ r.att = None
    /\ r.mode = "headless" => r.kind = "autonomous"

\* A step within an episode: it files no stop, claims nothing, names no new child.
Follows(r, s) ==
    /\ s.gen = r.gen /\ s.event = r.event /\ s.mode = r.mode /\ s.kind = r.kind
    /\ s.tries <= r.tries
    /\ s.status = "preparing" => r.status = "preparing" /\ s.prev = r.prev /\ s.owner = r.owner
    /\ s.status = "resuming" => r.status = "resuming"
    /\ s.status = "absent" => r.status = "absent"
    /\ s.att # None => /\ r.att # None /\ s.att.id = r.att.id /\ s.att.gen = r.att.gen
                       /\ r.att.pid => s.att.pid

LEMMA AttachOrphanChildPidSteps ==
    ASSUME NEW r \in RecordType, NEW a, Sound(r)
    PROVE  Sound(AttachOrphanChildPid(r, a)) /\ Follows(r, AttachOrphanChildPid(r, a))
  <1>1. CASE ~Has(r, a)
    BY <1>1 DEF AttachOrphanChildPid, Sound, Follows, RecordType, RecordTypeOver
  <1>2. CASE Has(r, a)
    <2> DEFINE att == [r.att EXCEPT !.pid = TRUE]
    <2>1. /\ r.att \in AttemptType /\ att.id = r.att.id /\ att.gen = r.att.gen /\ att.pid = TRUE
          /\ att \in AttemptType
      BY <1>2 DEF Has, RecordType, RecordTypeOver, AttemptType
    <2>2. AttachOrphanChildPid(r, a) = [r EXCEPT !.att = att]
      BY <1>2 DEF AttachOrphanChildPid, RecordType, RecordTypeOver
    <2>3. Sound([r EXCEPT !.att = att]) /\ Follows(r, [r EXCEPT !.att = att])
      <3> HIDE DEF att
      <3> QED
        BY <1>2, <2>1 DEF Has, Sound, Follows, RecordType, RecordTypeOver
    <2> QED
      BY <2>2, <2>3
  <1> QED
    BY <1>1, <1>2

LEMMA ClearSupersededAttemptSteps ==
    ASSUME NEW r \in RecordType, NEW a, Sound(r)
    PROVE  Sound(ClearSupersededAttempt(r, a)) /\ Follows(r, ClearSupersededAttempt(r, a))
  BY DEF ClearSupersededAttempt, Has, Sound, Follows, RecordType, RecordTypeOver

LEMMA ClearConfirmedDeadAttemptSteps ==
    ASSUME NEW r \in RecordType, NEW a, Sound(r)
    PROVE  Sound(ClearConfirmedDeadAttempt(r, a)) /\ Follows(r, ClearConfirmedDeadAttempt(r, a))
  BY DEF ClearConfirmedDeadAttempt, Dispatchable, Has, Sound, Follows, RecordType, RecordTypeOver

LEMMA ClearInteractiveAttemptSteps ==
    ASSUME NEW r \in RecordType, NEW a, Sound(r)
    PROVE  Sound(ClearInteractiveAttempt(r, a)) /\ Follows(r, ClearInteractiveAttempt(r, a))
  BY DEF ClearInteractiveAttempt, Has, Sound, Follows, RecordType, RecordTypeOver

LEMMA ClearCancellingAttemptSteps ==
    ASSUME NEW r \in RecordType, NEW a, Sound(r)
    PROVE  Sound(ClearCancellingAttempt(r, a)) /\ Follows(r, ClearCancellingAttempt(r, a))
  BY DEF ClearCancellingAttempt, InCancelFlow, Has, Sound, Follows, RecordType, RecordTypeOver

LEMMA FailProjectGoneConfirmedSteps ==
    ASSUME NEW r \in RecordType, NEW a, NEW g, Sound(r),
           Has(r, a) /\ r.status = "resuming" => r.gen = g
    PROVE  Sound(FailProjectGoneConfirmed(r, a, g)) /\ Follows(r, FailProjectGoneConfirmed(r, a, g))
  <1>1. CASE ~Has(r, a) \/ Terminal(r)
    BY <1>1 DEF FailProjectGoneConfirmed, Sound, Follows, RecordType, RecordTypeOver
  <1>2. CASE Has(r, a) /\ ~Terminal(r) /\ r.gen # g
    BY <1>2 DEF FailProjectGoneConfirmed, Has, Terminal, Sound, Follows, RecordType, RecordTypeOver
  <1>3. CASE Has(r, a) /\ ~Terminal(r) /\ r.gen = g
    BY <1>3 DEF FailProjectGoneConfirmed, Has, Terminal, Sound, Follows, RecordType, RecordTypeOver
  <1> QED
    BY <1>1, <1>2, <1>3

LEMMA MarkNotifiedSteps ==
    ASSUME NEW r \in RecordType, NEW g, Sound(r)
    PROVE  Sound(MarkNotified(r, g)) /\ Follows(r, MarkNotified(r, g))
  BY DEF MarkNotified, Dispatchable, Sound, Follows, RecordType, RecordTypeOver

LEMMA FailRecordSteps ==
    ASSUME NEW r \in RecordType, NEW g, Sound(r)
    PROVE  Sound(FailRecord(r, g)) /\ Follows(r, FailRecord(r, g))
  BY DEF FailRecord, Pending, Terminal, Sound, Follows, RecordType, RecordTypeOver

LEMMA MarkResumedSteps ==
    ASSUME NEW r \in RecordType, NEW g, Sound(r)
    PROVE  Sound(MarkResumed(r, g)) /\ Follows(r, MarkResumed(r, g))
  BY DEF MarkResumed, Sound, Follows, RecordType, RecordTypeOver

LEMMA MarkInteractiveSteps ==
    ASSUME NEW r \in RecordType, Sound(r),
           CanTakeOver(r)
    PROVE  Sound(MarkInteractive(r)) /\ Follows(r, MarkInteractive(r))
  BY DEF MarkInteractive, CanTakeOver, Sound, Follows, RecordType, RecordTypeOver

LEMMA BeginCancellationSteps ==
    ASSUME NEW r \in RecordType, Sound(r),
           Pending(r)
    PROVE  Sound(BeginCancellation(r)) /\ Follows(r, BeginCancellation(r))
  BY DEF BeginCancellation, Pending, Terminal, Sound, Follows, RecordType, RecordTypeOver

LEMMA CompleteCancellationSteps ==
    ASSUME NEW r \in RecordType, NEW g, Sound(r)
    PROVE  Sound(CompleteCancellation(r, g)) /\ Follows(r, CompleteCancellation(r, g))
  BY DEF CompleteCancellation, InCancelFlow, Sound, Follows, RecordType, RecordTypeOver

LEMMA BlockCancellationSteps ==
    ASSUME NEW r \in RecordType, Sound(r)
    PROVE  Sound(BlockCancellation(r)) /\ Follows(r, BlockCancellation(r))
  BY DEF BlockCancellation, Sound, Follows, RecordType, RecordTypeOver

LEMMA RequeueRecordSteps ==
    ASSUME NEW r \in RecordType, Sound(r),
           r.status \in {"manual", "failed"} /\ r.att = None
    PROVE  Sound(RequeueRecord(r)) /\ Follows(r, RequeueRecord(r))
  BY DEF RequeueRecord, Sound, Follows, RecordType, RecordTypeOver

LEMMA ActivatedSteps ==
    ASSUME NEW r \in RecordType, Sound(r),
           r.status = "preparing"
    PROVE  Sound(Activated(r)) /\ Follows(r, Activated(r))
  BY DEF Activated, Sound, Follows, RecordType, RecordTypeOver

LEMMA SettleAttemptSteps ==
    ASSUME NEW r \in RecordType, NEW a, NEW out \in Outcomes, NEW pre \in BOOLEAN, Sound(r)
    PROVE  /\ Sound(SettleAttempt(r, a, out, pre)) /\ Follows(r, SettleAttempt(r, a, out, pre))
           /\ \/ SettleAttempt(r, a, out, pre) = r
              \/ /\ r.status = "resuming" /\ Has(r, a) /\ r.att.gen = r.gen
                 /\ SettleAttempt(r, a, out, pre).status \in {out, "failed"}
                 /\ SettleAttempt(r, a, out, pre).att = None
  <1> USE DEF SettleAttempt
  <1>1. CASE ~(r.status = "resuming" /\ Has(r, a) /\ r.att.gen = r.gen)
    BY <1>1 DEF Sound, Follows, RecordType, RecordTypeOver
  <1>2. CASE /\ r.status = "resuming" /\ Has(r, a) /\ r.att.gen = r.gen
             /\ out = "deferred" /\ pre /\ r.defers >= MaxDefers
    BY <1>2 DEF Sound, Follows, RecordType, RecordTypeOver
  <1>3. CASE /\ r.status = "resuming" /\ Has(r, a) /\ r.att.gen = r.gen
             /\ ~(out = "deferred" /\ pre /\ r.defers >= MaxDefers)
    <2> DEFINE n == IF out = "deferred" /\ pre THEN r.defers + 1 ELSE r.defers
               s == [r EXCEPT !.status = out, !.blocked = FALSE, !.att = None, !.defers = n]
    <2>1. SettleAttempt(r, a, out, pre) = s
      BY <1>3
    <2>2. Sound(s) /\ Follows(r, s) /\ s.status = out /\ s.att = None
      <3> HIDE DEF n
      <3> QED
        BY <1>3 DEF Sound, Follows, RecordType, RecordTypeOver, Outcomes
    <2> QED
      BY <1>3, <2>1, <2>2
  <1> QED
    BY <1>1, <1>2, <1>3

LEMMA RecordAttemptSpawnSteps ==
    ASSUME NEW r \in RecordType, NEW a, Sound(r), CanRecordSpawn(r, a)
    PROVE  LET s == RecordAttemptSpawn(r, a) IN
           /\ Sound(s)
           /\ s.gen = r.gen /\ s.event = r.event /\ s.mode = r.mode /\ s.kind = r.kind
           /\ s.status = "resuming" /\ s.prev = r.prev /\ s.owner = r.owner
           /\ s.att # None /\ s.att.id = r.att.id /\ s.att.gen = r.att.gen /\ s.att.pid
  <1> DEFINE att == [r.att EXCEPT !.pid = TRUE]
             n == r.tries + 1
             s == [r EXCEPT !.att = att, !.tries = n, !.defers = 0]
  <1>1. /\ r.att \in AttemptType /\ att.id = r.att.id /\ att.gen = r.att.gen /\ att.pid
        /\ att \in AttemptType
    BY DEF CanRecordSpawn, Has, RecordType, RecordTypeOver, AttemptType
  <1>2. RecordAttemptSpawn(r, a) = s
    BY DEF RecordAttemptSpawn, RecordType, RecordTypeOver
  <1>3. /\ s.gen = r.gen /\ s.event = r.event /\ s.mode = r.mode /\ s.kind = r.kind
        /\ s.status = r.status /\ s.prev = r.prev /\ s.owner = r.owner /\ s.blocked = r.blocked
        /\ s.att = att
    <2> HIDE DEF att, n
    <2> QED
      BY DEF RecordType, RecordTypeOver
  <1>4. Sound(s)
    <2> HIDE DEF s, att
    <2> QED
      BY <1>1, <1>3 DEF Sound, CanRecordSpawn, Has
  <1> HIDE DEF s, att
  <1> QED
    BY <1>1, <1>2, <1>3, <1>4 DEF CanRecordSpawn

LEMMA ClaimAttemptSteps ==
    ASSUME NEW r \in RecordType, NEW a \in Attempt, Sound(r), Dispatchable(r), r.mode = "headless"
    PROVE  LET s == ClaimAttempt(r, a) IN
           /\ Sound(s)
           /\ s.gen = r.gen /\ s.event = r.event /\ s.mode = r.mode /\ s.kind = r.kind
           /\ s.tries = r.tries /\ s.prev = r.prev /\ s.owner = r.owner
           /\ s.status = "resuming"
           /\ s.att # None /\ s.att.id = a /\ s.att.gen = r.gen /\ ~s.att.pid
  <1> DEFINE att == [id |-> a, gen |-> r.gen, pid |-> FALSE]
             s == [r EXCEPT !.status = "resuming", !.att = att]
  <1>1. att \in AttemptType /\ att # None /\ att.id = a /\ att.gen = r.gen /\ ~att.pid
    <2>1. r.gen \in Nat
      BY FieldTypes
    <2>2. att \in AttemptType
      BY <2>1 DEF AttemptType
    <2> QED
      BY <2>2
  <1>2. /\ s.gen = r.gen /\ s.event = r.event /\ s.mode = r.mode /\ s.kind = r.kind
        /\ s.tries = r.tries /\ s.prev = r.prev /\ s.owner = r.owner
        /\ s.status = "resuming" /\ s.att = att
    <2> HIDE DEF att
    <2> QED
      BY DEF RecordType, RecordTypeOver
  <1>3. Sound(s)
    <2>1. r.gen \in Nat
      BY FieldTypes
    <2> HIDE DEF s, att
    <2> QED
      BY <1>1, <1>2, <2>1 DEF Sound, Dispatchable
  <1>4. ClaimAttempt(r, a) = s
    BY DEF ClaimAttempt
  <1> HIDE DEF s, att
  <1> QED
    BY <1>1, <1>2, <1>3, <1>4

LEMMA UpsertStopSteps ==
    ASSUME NEW r \in RecordType, NEW phase \in {"preparing", "stopped"},
           NEW kind \in {"autonomous", "plain"}, NEW mode \in {"headless", "notify"},
           NEW h \in Handler, Sound(r), mode = "headless" => kind = "autonomous"
    PROVE  LET s == UpsertStop(r, phase, kind, mode, h) IN
           /\ Sound(s)
           /\ s.gen = r.gen + 1 /\ s.event = h /\ s.mode = mode /\ s.kind = kind
           /\ s.tries <= r.tries /\ s.status = phase /\ s.att = r.att
           /\ s.owner = IF phase = "preparing" THEN h ELSE None
           /\ s.prev # None => s.prev.tries = r.tries /\ s.prev.status = r.status
                               /\ s.prev.att = r.att
  <1> DEFINE s == UpsertStop(r, phase, kind, mode, h)
  <1>f. /\ r.gen \in Nat /\ r.tries \in 0..MaxAttempts
        /\ r.att # None => r.att.gen \in Nat
        /\ r.status \in Statuses
    BY FieldTypes
  <1>1. /\ s.gen = r.gen + 1 /\ s.event = h /\ s.mode = mode /\ s.kind = kind
        /\ s.tries = (IF Pending(r) THEN r.tries ELSE 0) /\ s.status = phase /\ s.att = r.att
        /\ s.owner = (IF phase = "preparing" THEN h ELSE None)
        /\ s.prev = (IF phase = "preparing" /\ r.status # "absent"
                     THEN [r EXCEPT !.prev = None] ELSE None)
        /\ s.blocked = FALSE
    BY DEF UpsertStop
  <1>2. [r EXCEPT !.prev = None] \in CopyType
    BY UpsertType
  <1>3. /\ [r EXCEPT !.prev = None].tries = r.tries /\ [r EXCEPT !.prev = None].status = r.status
        /\ [r EXCEPT !.prev = None].att = r.att
    BY DEF RecordType, RecordTypeOver
  <1> HIDE DEF s
  <1>4. Sound(s)
    BY <1>f, <1>1, <1>2 DEF Sound
  <1> QED
    BY <1>f, <1>1, <1>2, <1>3, <1>4 DEF s

LEMMA RepairParkedSteps ==
    ASSUME NEW r \in RecordType, NEW mode \in {"headless", "notify"}, NEW h \in Handler, Sound(r)
    PROVE  \/ RepairParked(r, mode, h) = r /\ Pending(r) /\ r.event = h
           \/ /\ RepairParked(r, mode, h) = UpsertStop(r, "stopped", "autonomous", mode, h)
              /\ ~(Pending(r) /\ r.event = h)
  BY DEF RepairParked

LEMMA ReconciledSteps ==
    ASSUME NEW r \in RecordType, NEW late \in BOOLEAN, Sound(r),
           r.status = "preparing" => OwnerAlive(r)
    PROVE  Sound(Reconciled(r, late)) /\ Follows(r, Reconciled(r, late))
  <1> DEFINE Stopped == [r EXCEPT !.status = "stopped"]
             StoppedFree == [r EXCEPT !.status = "stopped", !.att = None]
             Resumption == [r EXCEPT !.status = "resumed"]
  <1>1. Sound(r) /\ Follows(r, r)
    BY DEF Follows, RecordType, RecordTypeOver
  <1>2. r.status \in {"interactive", "resumed"} /\ r.att = None
            => Sound(Stopped) /\ Follows(r, Stopped)
    BY DEF Sound, Follows, RecordType, RecordTypeOver
  <1>3. r.status # "absent" => Sound(StoppedFree) /\ Follows(r, StoppedFree)
    BY DEF Sound, Follows, RecordType, RecordTypeOver
  <1>4. r.status # "absent" /\ r.att = None => Sound(Resumption) /\ Follows(r, Resumption)
    BY DEF Sound, Follows, RecordType, RecordTypeOver
  <1>5. r.status # "absent" => Sound(MovedOn(r)) /\ Follows(r, MovedOn(r))
    BY DEF MovedOn, Sound, Follows, RecordType, RecordTypeOver
  <1>6. r.status # "absent" => Sound(ProjectGone(r)) /\ Follows(r, ProjectGone(r))
    <2>1. ProjectGone(r) \in {r, [r EXCEPT !.status = "failed", !.att = None]}
      BY DEF ProjectGone
    <2> QED
      BY <1>1, <2>1 DEF Sound, Follows, RecordType, RecordTypeOver
  <1>7. CASE r.status = "preparing"
    BY <1>1, <1>7 DEF Reconciled
  <1>8. CASE r.status \in {"manual", "stopped", "deferred"} /\ ~InCancelFlow(r)
    <2>1. Reconciled(r, late) \in {MovedOn(r), ProjectGone(r), r}
      BY <1>8 DEF Reconciled
    <2> QED
      BY <1>1, <1>5, <1>6, <1>8, <2>1
  <1>9. CASE r.status = "resuming"
    <2>1. Reconciled(r, late) \in {MovedOn(r), ProjectGone(r), r, StoppedFree}
      BY <1>9 DEF Reconciled, Sound
    <2> QED
      BY <1>1, <1>3, <1>5, <1>6, <1>9, <2>1
  <1>10. CASE r.status = "interactive"
    <2>1. Reconciled(r, late) \in {ProjectGone(r), r}
          \/ (r.att = None /\ Reconciled(r, late) \in {Resumption, Stopped})
      BY <1>10 DEF Reconciled
    <2> QED
      BY <1>1, <1>2, <1>4, <1>6, <1>10, <2>1
  <1>11. CASE r.status = "resumed"
    <2>1. Reconciled(r, late) \in {Stopped, r} /\ r.att = None
      BY <1>11 DEF Reconciled, Sound
    <2> QED
      BY <1>1, <1>2, <1>11, <2>1
  <1>12. CASE /\ ~(r.status \in {"manual", "stopped", "deferred"} /\ ~InCancelFlow(r))
              /\ r.status \notin {"preparing", "resuming", "interactive", "resumed"}
    <2>1. Reconciled(r, late) = r
      BY <1>12 DEF Reconciled
    <2> QED
      BY <1>1, <2>1
  <1> QED
    BY <1>7, <1>8, <1>9, <1>10, <1>11, <1>12

LEMMA ReflexiveFollows ==
    ASSUME NEW r \in RecordType
    PROVE  Follows(r, r)
  BY DEF Follows, RecordType, RecordTypeOver

-----------------------------------------------------------------------------
(* Generations. As long as no intent is aborted over a record that it had    *)
(* replaced, generations only grow, and what a process read of a generation  *)
(* stays true of it.                                                         *)

\* No handler fails or dies over a session that it could still park. The theorems need
\* it: with "prep" among the incidents, and enough stops, TLC finds each of the state
\* and action properties false, for an intent that is undone puts an old record back.
IntentsHold == "prep" \notin Incident
\* Nor does a session end between an intent and its park over a record that the
\* intent replaced, for what is proved of sessions that are over as well.
SessionsLast == "ends" \notin Incident

Over == sess.kind \in {"ended", "gone"}
Settled(r) == r.status \notin {"absent", "preparing"}

\* An intent belongs to a handler that is at work on it, which gives it up only
\* when the session is over.
IntentInv ==
    /\ rec.status = "preparing" =>
          /\ rec.owner # None /\ rec.owner = rec.event
          /\ hand[rec.owner].pc \in {"intent", "parked", "failed"} /\ hand[rec.owner].gen = rec.gen
    /\ \A h \in Handler :
          /\ hand[h].pc = "failed" /\ OwnsIntent(rec, h, hand[h].gen) => rec.prev = None /\ Over
          /\ hand[h].pc = "intent" /\ rec.event = h => rec.gen = hand[h].gen
          /\ hand[h].pc = "idle" => rec.event # h

\* A Stop hook's evidence is about a generation that the session has left.
EvidenceInv ==
    evid # 0 =>
        /\ evid <= rec.gen
        /\ rec.gen = evid => /\ rec.status # "preparing"
                             /\ rec.kind = "autonomous" => ~SessionStillPending(rec)

LedgerInv == Sound(rec) /\ IntentInv /\ EvidenceInv

\* The record that the waker works from is of this generation or an older one.
ViewInv ==
    /\ Settled(V) =>
          /\ V.gen >= 1 /\ V.gen <= rec.gen
          /\ rec.gen = V.gen => /\ rec.status # "preparing" /\ rec.event = V.event
                                /\ rec.mode = V.mode /\ rec.kind = V.kind
    /\ \A h \in Handler :
          /\ hand[h].pc = "intent" /\ V.event = h => V.gen = hand[h].gen
          /\ hand[h].pc = "idle" => V.event # h

\* While the waker deals with an attempt the record names no other.
VerdictInv ==
    /\ waker.pc \in {"check", "file", "spawn", "record", "note", "orphan", "settle", "kill", "commit"}
       /\ rec.att # None => rec.att.id = V.att.id /\ rec.att.gen = V.att.gen
    /\ waker.pc \in {"check", "file", "spawn", "record", "settle"} =>
          V.status = "resuming" /\ V.att.gen = V.gen /\ V.mode = "headless"
    /\ waker.pc = "claim" => Dispatchable(V)
    /\ waker.pc \in {"settle", "kill", "commit"} /\ waker.verdict = "resumed" =>
          V.status = "resuming" /\ V.att.gen = V.gen /\ ~SessionStillPending(V)
    /\ waker.pc \in {"kill", "commit"} /\ waker.verdict = "projgone" =>
          Settled(V) /\ V.att.gen <= V.gen

GenInv == LedgerInv /\ ViewInv /\ VerdictInv

\* No action but a handler's parks the session, or opens one that is over.
SessionKeeps ==
    /\ sess'.kind = "parked" => sess.kind = "parked" /\ sess'.event = sess.event
    /\ Over => Over'

LEMMA LedgerUnderFollows ==
    ASSUME TypeOK, TypeOK', LedgerInv, Sound(rec'), Follows(rec, rec'), SessionKeeps,
           UNCHANGED hand, evid' \in {evid, 0}
    PROVE  LedgerInv'
  <1>1. IntentInv'
    BY DEF LedgerInv, IntentInv, Follows, OwnsIntent, SessionKeeps
  <1>2. EvidenceInv'
    BY DEF LedgerInv, EvidenceInv, Follows, SessionKeeps, SessionStillPending
  <1> QED
    BY <1>1, <1>2 DEF LedgerInv

LEMMA ViewUnderFollows ==
    ASSUME TypeOK, TypeOK', ViewInv, VerdictInv, Follows(rec, rec'), SessionKeeps,
           UNCHANGED <<hand, waker>>
    PROVE  ViewInv' /\ VerdictInv'
  <1>1. UNCHANGED V
    BY DEF V
  <1>2. ViewInv'
    BY <1>1 DEF ViewInv, Follows, Settled
  <1>3. VerdictInv'
    BY <1>1 DEF VerdictInv, Follows, SessionKeeps, SessionStillPending, Settled, Dispatchable
  <1> QED
    BY <1>2, <1>3

LEMMA ViewOfNothing ==
    ASSUME waker'.view = Absent,
           waker'.pc \notin {"check", "file", "spawn", "record", "note", "orphan", "settle", "kill",
                             "commit", "claim"}
    PROVE  ViewInv' /\ VerdictInv'
  BY DEF ViewInv, VerdictInv, V, Absent, Settled

LEMMA ViewOfRecord ==
    ASSUME TypeOK, TypeOK', LedgerInv, Follows(rec, rec'), UNCHANGED hand, waker'.view = rec
    PROVE  ViewInv'
  <1>1. V' = rec
    BY DEF V
  <1>2. rec.gen \in Nat
    BY FieldTypes DEF TypeOK
  <1> QED
    BY <1>1, <1>2 DEF LedgerInv, ViewInv, Sound, IntentInv, Settled, Follows

LEMMA ChildrenKeepSession ==
    ASSUME TypeOK, NEW a \in Attempt, ChildStarts(a) \/ ChildResumes(a) \/ ChildEnds(a)
    PROVE  SessionKeeps /\ UNCHANGED <<rec, hand, waker, evid>>
  <1> USE DEF TypeOK, SessionKeeps, Over
  <1>1. CASE ChildStarts(a)
    BY <1>1 DEF ChildStarts
  <1>2. CASE ChildResumes(a)
    BY <1>2 DEF ChildResumes, Resumable, Resumed
  <1>3. CASE ChildEnds(a)
    BY <1>3 DEF ChildEnds
  <1> QED
    BY <1>1, <1>2, <1>3

LEMMA DowngradedKeepsSession ==
    ASSUME TypeOK, NEW v, sess' = Downgraded(v)
    PROVE  SessionKeeps
  BY DEF TypeOK, SessionKeeps, Over, Downgraded

LEMMA UserKeepsSession ==
    ASSUME TypeOK, UserCloses \/ UserStep \/ StopHookReads \/ StopHookMarks \/ ProjectVanishes
    PROVE  SessionKeeps /\ UNCHANGED <<hand, waker>>
  <1> USE DEF TypeOK, SessionKeeps, Over
  <1>1. CASE UserResumes
    BY <1>1 DEF UserResumes, Resumable, Resumed
  <1>2. CASE ProjectVanishes
    BY <1>2 DEF ProjectVanishes
  <1>3. CASE UserCloses \/ UserReopens \/ UserTakesOver \/ UserRequeues \/ StopHookReads
             \/ StopHookMarks
    BY <1>3 DEF UserCloses, UserReopens, UserTakesOver, UserRequeues, StopHookReads, StopHookMarks
  <1> QED
    BY <1>1, <1>2, <1>3 DEF UserStep

LEMMA CancelKeepsSession ==
    ASSUME TypeOK,
           (\E how \in {"limit-status", "stop"} : CancelBegins(how)) \/ CancelStep \/ CancelDies
    PROVE  SessionKeeps /\ UNCHANGED <<hand, waker, evid>>
  <1>1. CASE CancelUnparks
    <2>1. \/ sess' = [sess EXCEPT !.kind = "ended", !.event = None, !.blocked = FALSE]
          \/ sess' = sess
          \/ sess' = Downgraded(cancel.view)
      BY <1>1 DEF CancelUnparks
    <2>2. sess' = Downgraded(cancel.view) => SessionKeeps
      BY DowngradedKeepsSession
    <2>3. sess' # Downgraded(cancel.view) => SessionKeeps
      BY <2>1 DEF TypeOK, SessionKeeps, Over
    <2> QED
      BY <1>1, <2>2, <2>3 DEF CancelUnparks
  <1>2. CASE ~CancelUnparks
    BY <1>2 DEF CancelBegins, CancelStep, CancelKills, CancelClears, CancelCompletes, CancelDies,
           SessionKeeps, Over
  <1> QED
    BY <1>1, <1>2

\* What is over stays over.
LEMMA OverStays ==
    ASSUME TypeOK, Over, [Next]_vars
    PROVE  Over'
  <1>1. CASE UNCHANGED vars
    BY <1>1 DEF vars, Over
  <1>2. ASSUME NEW h \in Handler, HandlerFiles(h) \/ HandlerStep(h) \/ HandlerDies(h)
        PROVE  Over'
    BY <1>2 DEF HandlerFiles, HandlerStep, HandlerParks, HandlerActivates, HandlerAborts,
       HandlerFallsBack, HandlerDies, Over
  <1>3. CASE WakerStarts \/ WakerStep \/ WakerDies
    <2>1. sess' = sess \/ sess' = Downgraded(V)
      BY <1>3 DEF WakerStarts, WakerStep, WakerDies, WakerSupervises, WakerKills, WakerCommits,
         WakerReconciles, WakerFinishesCancel, WakerUnparks, WakerCompletesCancel, WakerSelects,
         WakerNotifies, WakerGivesUp, WakerClaims, WakerChecks, WakerFilesClaim, WakerSpawns,
         WakerSettles, WakerRecords, WakerNotesPid, WakerEndsTick, V
    <2> QED
      BY <2>1 DEF Over, Downgraded
  <1>4. CASE \/ \E a \in Attempt : ChildStarts(a) \/ ChildResumes(a) \/ ChildEnds(a)
             \/ UserCloses \/ UserStep \/ StopHookReads \/ StopHookMarks \/ ProjectVanishes
             \/ (\E how \in {"limit-status", "stop"} : CancelBegins(how)) \/ CancelStep \/ CancelDies
    BY <1>4, ChildrenKeepSession, UserKeepsSession, CancelKeepsSession DEF SessionKeeps
  <1> QED
    BY <1>1, <1>2, <1>3, <1>4 DEF Next

LEMMA UserFollows ==
    ASSUME TypeOK, LedgerInv,
           UserCloses \/ UserStep \/ StopHookReads \/ StopHookMarks \/ ProjectVanishes
    PROVE  Sound(rec') /\ Follows(rec, rec')
  <1>r. rec \in RecordType /\ Sound(rec)
    BY DEF TypeOK, LedgerInv
  <1>1. CASE UserTakesOver
    BY <1>r, <1>1, MarkInteractiveSteps, ReflexiveFollows DEF UserTakesOver
  <1>2. CASE UserRequeues
    BY <1>r, <1>2, RequeueRecordSteps DEF UserRequeues
  <1>3. CASE StopHookMarks
    BY <1>r, <1>3, MarkResumedSteps DEF StopHookMarks
  <1>4. CASE ~(UserTakesOver \/ UserRequeues \/ StopHookMarks)
    <2>1. rec' = rec
      BY <1>4 DEF UserStep, UserCloses, UserReopens, UserResumes, StopHookReads, ProjectVanishes
    <2> QED
      BY <1>r, <2>1, ReflexiveFollows
  <1> QED
    BY <1>1, <1>2, <1>3, <1>4

LEMMA CancelFollows ==
    ASSUME TypeOK, LedgerInv,
           (\E how \in {"limit-status", "stop"} : CancelBegins(how)) \/ CancelStep \/ CancelDies
    PROVE  Sound(rec') /\ Follows(rec, rec')
  <1>r. rec \in RecordType /\ Sound(rec)
    BY DEF TypeOK, LedgerInv
  <1>1. ASSUME NEW how, CancelBegins(how) PROVE Sound(rec') /\ Follows(rec, rec')
    BY <1>r, <1>1, BeginCancellationSteps DEF CancelBegins
  <1>2. CASE CancelKills
    BY <1>r, <1>2, BlockCancellationSteps, ReflexiveFollows DEF CancelKills
  <1>3. CASE CancelClears
    BY <1>r, <1>3, ClearCancellingAttemptSteps DEF CancelClears
  <1>4. CASE CancelCompletes
    BY <1>r, <1>4, CompleteCancellationSteps DEF CancelCompletes
  <1>5. CASE CancelUnparks \/ CancelDies
    <2>1. rec' = rec
      BY <1>5 DEF CancelUnparks, CancelDies
    <2> QED
      BY <1>r, <2>1, ReflexiveFollows
  <1> QED
    BY <1>1, <1>2, <1>3, <1>4, <1>5 DEF CancelStep

LEMMA GenOthers ==
    ASSUME TypeOK, TypeOK', GenInv,
           \/ \E a \in Attempt : ChildStarts(a) \/ ChildResumes(a) \/ ChildEnds(a)
           \/ UserCloses \/ UserStep \/ StopHookReads \/ StopHookMarks \/ ProjectVanishes
           \/ (\E how \in {"limit-status", "stop"} : CancelBegins(how)) \/ CancelStep \/ CancelDies
    PROVE  GenInv'
  <1>r. rec \in RecordType /\ LedgerInv /\ ViewInv /\ VerdictInv
    BY DEF TypeOK, GenInv
  <1>1. ASSUME NEW a \in Attempt, ChildStarts(a) \/ ChildResumes(a) \/ ChildEnds(a)
        PROVE  GenInv'
    <2>1. SessionKeeps /\ UNCHANGED <<rec, hand, waker, evid>>
      BY <1>1, ChildrenKeepSession
    <2>2. Sound(rec') /\ Follows(rec, rec')
      BY <1>r, <2>1, ReflexiveFollows DEF LedgerInv
    <2> QED
      BY <1>r, <2>1, <2>2, LedgerUnderFollows, ViewUnderFollows DEF GenInv
  <1>2. ASSUME UserCloses \/ UserStep \/ StopHookReads \/ StopHookMarks \/ ProjectVanishes
        PROVE  GenInv'
    <2>1. SessionKeeps /\ UNCHANGED <<hand, waker>>
      BY <1>2, UserKeepsSession
    <2>2. Sound(rec') /\ Follows(rec, rec')
      BY <1>r, <1>2, UserFollows
    <2>3. LedgerInv'
      <3>1. CASE StopHookReads
        <4>1. UNCHANGED <<rec, sess, hand>> /\ evid' = rec.gen
              /\ rec.status \in {"stopped", "deferred", "interactive"}
              /\ (rec.kind = "autonomous" => SessionAdvanced(rec))
          BY <3>1 DEF StopHookReads
        <4>2. rec.gen \in Nat
          BY <1>r, FieldTypes
        <4>3. EvidenceInv'
          BY <4>1, <4>2 DEF EvidenceInv, SessionAdvanced, SessionStillPending
        <4>4. IntentInv' /\ Sound(rec)'
          BY <1>r, <4>1 DEF LedgerInv, IntentInv, Over, OwnsIntent
        <4> QED
          BY <4>3, <4>4 DEF LedgerInv
      <3>2. CASE ~StopHookReads
        <4>1. evid' \in {evid, 0}
          BY <1>2, <3>2 DEF UserCloses, UserStep, UserReopens, UserTakesOver, UserResumes,
                 UserRequeues, StopHookMarks, ProjectVanishes
        <4> QED
          BY <1>r, <2>1, <2>2, <4>1, LedgerUnderFollows
      <3> QED
        BY <3>1, <3>2
    <2> QED
      BY <1>r, <2>1, <2>2, <2>3, ViewUnderFollows DEF GenInv
  <1>3. ASSUME (\E how \in {"limit-status", "stop"} : CancelBegins(how)) \/ CancelStep \/ CancelDies
        PROVE  GenInv'
    <2>1. SessionKeeps /\ UNCHANGED <<hand, waker, evid>>
      BY <1>3, CancelKeepsSession
    <2>2. Sound(rec') /\ Follows(rec, rec')
      BY <1>r, <1>3, CancelFollows
    <2> QED
      BY <1>r, <2>1, <2>2, LedgerUnderFollows, ViewUnderFollows DEF GenInv
  <1> QED
    BY <1>1, <1>2, <1>3

\* Filing a stop begins a generation of its own.
LEMMA GenUnderUpsert ==
    ASSUME TypeOK, TypeOK', GenInv, NEW h \in Handler, NEW phase \in {"preparing", "stopped"},
           NEW kind \in {"autonomous", "plain"}, NEW mode \in {"headless", "notify"},
           mode = "headless" => kind = "autonomous",
           rec' = UpsertStop(rec, phase, kind, mode, h),
           hand[h].pc # "intent", UNCHANGED <<sess, waker, evid>>,
           \A x \in Handler : x # h => hand'[x] = hand[x],
           hand'[h].pc \in {"intent", "done"}, hand'[h].pc = "intent" <=> phase = "preparing",
           hand'[h].pc = "intent" => hand'[h].gen = rec.gen + 1,
           phase = "preparing" => hand[h].pc = "idle"
    PROVE  GenInv'
  <1>1. /\ Sound(rec') /\ rec'.gen = rec.gen + 1 /\ rec'.event = h /\ rec'.mode = mode
        /\ rec'.kind = kind /\ rec'.status = phase /\ rec'.att = rec.att
        /\ rec'.owner = IF phase = "preparing" THEN h ELSE None
    BY UpsertStopSteps DEF TypeOK, GenInv, LedgerInv
  <1>2. rec.gen \in Nat /\ evid \in Nat /\ V.gen \in Nat
    BY FieldTypes DEF TypeOK, V
  <1>3. UNCHANGED V
    BY DEF V
  <1>4. hand'[h].pc = "intent" => hand'[h].gen = rec'.gen
    BY <1>1
  <1>5. IntentInv'
    BY <1>1, <1>4 DEF GenInv, LedgerInv, IntentInv, OwnsIntent
  <1>6. EvidenceInv'
    BY <1>1, <1>2 DEF GenInv, LedgerInv, EvidenceInv
  <1>7. ViewInv'
    <2>1. Settled(V)' => V'.gen >= 1 /\ V'.gen <= rec.gen
      BY <1>3 DEF GenInv, ViewInv, Settled
    <2>2. Settled(V)' => V'.gen # rec'.gen /\ V'.gen <= rec'.gen
      BY <1>1, <1>2, <1>3, <2>1
    <2>3. ASSUME NEW x \in Handler
          PROVE  /\ hand'[x].pc = "intent" /\ V'.event = x => V'.gen = hand'[x].gen
                 /\ hand'[x].pc = "idle" => V'.event # x
      BY <1>3, <1>4, <2>3 DEF GenInv, ViewInv
    <2> QED
      BY <2>1, <2>2, <2>3 DEF ViewInv
  <1>8. VerdictInv'
    BY <1>1, <1>3 DEF GenInv, VerdictInv, SessionStillPending, Settled, Dispatchable
  <1> QED
    BY <1>1, <1>5, <1>6, <1>7, <1>8 DEF GenInv, LedgerInv

\* A handler comes to its end without writing the ledger.
LEMMA GenUnderDone ==
    ASSUME TypeOK, TypeOK', GenInv, NEW h \in Handler, NEW p \in {"done", "dead"},
           hand' = [hand EXCEPT ![h].pc = p], ~OwnsIntent(rec, h, hand[h].gen),
           rec' = rec, UNCHANGED <<sess, waker, evid>>
    PROVE  GenInv'
  <1>1. UNCHANGED V
    BY DEF V
  <1>2. /\ \A x \in Handler : hand'[x].gen = hand[x].gen /\ (x # h => hand'[x] = hand[x])
        /\ hand'[h].pc = p
    BY DEF TypeOK
  <1>3. IntentInv'
    BY <1>2 DEF GenInv, LedgerInv, IntentInv, OwnsIntent, Over
  <1>4. EvidenceInv' /\ Sound(rec)'
    BY DEF GenInv, LedgerInv, EvidenceInv, SessionStillPending
  <1>5. ViewInv'
    BY <1>1, <1>2 DEF GenInv, ViewInv, Settled
  <1>6. VerdictInv'
    BY <1>1 DEF GenInv, VerdictInv, SessionStillPending, Settled, Dispatchable
  <1> QED
    BY <1>3, <1>4, <1>5, <1>6 DEF GenInv, LedgerInv

LEMMA GenParks ==
    ASSUME IntentsHold, ~Over \/ SessionsLast, TypeOK, TypeOK', GenInv, NEW h \in Handler, HandlerParks(h)
    PROVE  GenInv'
  <1>h. /\ hand[h].pc = "intent" /\ UNCHANGED <<rec, waker, evid>>
    BY DEF HandlerParks
  <1>v. UNCHANGED V
    BY <1>h DEF V
  <1>1. CASE sess' # sess
    <2>1. /\ OwnsIntent(rec, h, hand[h].gen) /\ hand' = [hand EXCEPT ![h].pc = "parked"]
          /\ sess' = [sess EXCEPT !.kind = "parked", !.event = h, !.blocked = FALSE]
          /\ ~Over
      BY <1>1 DEF HandlerParks, Over
    <2>2. /\ \A x \in Handler : hand'[x].gen = hand[x].gen /\ (x # h => hand'[x] = hand[x])
          /\ hand'[h].pc = "parked"
      BY <2>1 DEF TypeOK
    <2>3. sess'.kind = "parked" /\ sess'.event = h
      BY <2>1 DEF TypeOK
    <2>4. IntentInv'
      BY <1>h, <2>1, <2>2 DEF GenInv, LedgerInv, IntentInv, OwnsIntent
    <2>5. EvidenceInv'
      BY <1>h, <2>1 DEF GenInv, LedgerInv, EvidenceInv, OwnsIntent
    <2>6. ViewInv'
      BY <1>h, <1>v, <2>2 DEF GenInv, ViewInv, Settled
    <2>7. VerdictInv'
      <3>1. Settled(V) => V.event # h
        BY <1>h, <2>1 DEF GenInv, ViewInv, OwnsIntent
      <3>2. V.status = "resuming" => Settled(V)
        BY DEF Settled
      <3>3. V.status = "resuming" => ~SessionStillPending(V)'
        BY <1>v, <2>3, <3>1, <3>2 DEF SessionStillPending
      <3> QED
        BY <1>h, <1>v, <3>3 DEF GenInv, VerdictInv, Settled, Dispatchable
    <2> QED
      BY <1>h, <2>4, <2>5, <2>6, <2>7 DEF GenInv, LedgerInv
  <1>2. CASE sess' = sess
    <2>2. PICK p \in {"parked", "failed"} :
              /\ hand' = [hand EXCEPT ![h].pc = p]
              /\ (p = "failed" /\ OwnsIntent(rec, h, hand[h].gen)) => (rec.prev = None /\ Over)
      <3>1. sess.kind \in {"live", "parked", "compact", "ended", "gone"}
        BY DEF TypeOK
      <3>2. ~HandlerFails
        BY DEF HandlerFails, Spend, IntentsHold
      <3> QED
        BY <3>1, <3>2 DEF HandlerParks, Over, SessionsLast
    <2>3. /\ \A x \in Handler : hand'[x].gen = hand[x].gen /\ (x # h => hand'[x] = hand[x])
          /\ hand'[h].pc = p
      BY <2>2 DEF TypeOK
    <2>4. IntentInv'
      BY <1>h, <1>2, <2>2, <2>3 DEF GenInv, LedgerInv, IntentInv, OwnsIntent, Over
    <2>5. EvidenceInv' /\ Sound(rec)'
      BY <1>h, <1>2 DEF GenInv, LedgerInv, EvidenceInv, SessionStillPending
    <2>6. ViewInv'
      BY <1>h, <1>v, <2>3 DEF GenInv, ViewInv, Settled
    <2>7. VerdictInv'
      BY <1>h, <1>v, <1>2 DEF GenInv, VerdictInv, SessionStillPending, Settled, Dispatchable
    <2> QED
      BY <2>4, <2>5, <2>6, <2>7 DEF GenInv, LedgerInv
  <1> QED
    BY <1>1, <1>2

LEMMA GenFiles ==
    ASSUME TypeOK, TypeOK', GenInv, NEW h \in Handler, HandlerFiles(h)
    PROVE  GenInv'
  <1> DEFINE phase == IF sess.kind = "ended" THEN "stopped" ELSE "preparing"
             kind  == IF sess.kind = "ended" THEN "plain" ELSE "autonomous"
             mode  == IF sess.kind = "ended" \/ sess.final THEN "notify" ELSE "headless"
  <1>1. hand[h].pc = "idle" /\ UNCHANGED <<sess, waker, evid>>
    BY DEF HandlerFiles
  <1>2. \/ rec' = rec /\ hand' = [hand EXCEPT ![h].pc = "done"]
        \/ /\ rec' = UpsertStop(rec, phase, kind, mode, h)
           /\ hand' = [hand EXCEPT ![h] =
                         [pc |-> IF phase = "preparing" THEN "intent" ELSE "done", gen |-> rec'.gen]]
    BY DEF HandlerFiles
  <1>3. CASE rec' = rec /\ hand' = [hand EXCEPT ![h].pc = "done"]
    <2>1. ~OwnsIntent(rec, h, hand[h].gen)
      BY <1>1 DEF GenInv, LedgerInv, IntentInv, OwnsIntent
    <2> QED
      BY <1>1, <1>3, <2>1, GenUnderDone
  <1>4. CASE /\ rec' = UpsertStop(rec, phase, kind, mode, h)
             /\ hand' = [hand EXCEPT ![h] =
                         [pc |-> IF phase = "preparing" THEN "intent" ELSE "done", gen |-> rec'.gen]]
    <2>1. /\ phase \in {"preparing", "stopped"} /\ kind \in {"autonomous", "plain"}
          /\ mode \in {"headless", "notify"} /\ (mode = "headless" => kind = "autonomous")
      OBVIOUS
    <2>2. rec'.gen = rec.gen + 1
      BY <1>4 DEF UpsertStop
    <2>3. /\ \A x \in Handler : x # h => hand'[x] = hand[x]
          /\ hand'[h].pc \in {"intent", "done"} /\ (hand'[h].pc = "intent" <=> phase = "preparing")
          /\ hand'[h].gen = rec.gen + 1
      BY <1>4, <2>2 DEF TypeOK
    <2> HIDE DEF phase, kind, mode
    <2> QED
      BY <1>1, <1>4, <2>1, <2>3, GenUnderUpsert
  <1> QED
    BY <1>2, <1>3, <1>4

\* A handler that writes a stopped record, or leaves the one that is there.
LEMMA GenUnderStop ==
    ASSUME TypeOK, TypeOK', GenInv, NEW h \in Handler, hand[h].pc \in {"parked", "aborted"},
           NEW kind \in {"autonomous", "plain"}, NEW mode \in {"headless", "notify"},
           mode = "headless" => kind = "autonomous", ~OwnsIntent(rec, h, hand[h].gen),
           rec' \in {rec, UpsertStop(rec, "stopped", kind, mode, h)},
           hand' = [hand EXCEPT ![h].pc = "done"], UNCHANGED <<sess, waker, evid>>
    PROVE  GenInv'
  <1>1. CASE rec' = rec
    BY <1>1, GenUnderDone
  <1>2. CASE rec' = UpsertStop(rec, "stopped", kind, mode, h)
    <2>1. (\A x \in Handler : x # h => hand'[x] = hand[x]) /\ hand'[h].pc = "done"
      BY DEF TypeOK
    <2> QED
      BY <1>2, <2>1, GenUnderUpsert
  <1> QED
    BY <1>1, <1>2

LEMMA GenActivates ==
    ASSUME TypeOK, TypeOK', GenInv, NEW h \in Handler, HandlerActivates(h)
    PROVE  GenInv'
  <1>h. /\ hand[h].pc = "parked" /\ hand' = [hand EXCEPT ![h].pc = "done"]
        /\ UNCHANGED <<sess, waker, evid>>
    BY DEF HandlerActivates
  <1>r. rec \in RecordType /\ Sound(rec)
    BY DEF TypeOK, GenInv, LedgerInv
  <1>1. CASE ~OwnsIntent(rec, h, hand[h].gen)
    <2> DEFINE mode == IF sess.final THEN "notify" ELSE "headless"
    <2>1. rec' = RepairParked(rec, mode, h) /\ mode \in {"headless", "notify"}
      BY <1>1 DEF HandlerActivates
    <2> HIDE DEF mode
    <2>2. rec' \in {rec, UpsertStop(rec, "stopped", "autonomous", mode, h)}
      BY <2>1 DEF RepairParked
    <2> QED
      BY <1>h, <1>1, <2>1, <2>2, GenUnderStop
  <1>2. CASE OwnsIntent(rec, h, hand[h].gen)
    <2>1. rec' = Activated(rec) /\ rec.status = "preparing"
      BY <1>2 DEF HandlerActivates, OwnsIntent
    <2>2. Sound(rec') /\ Follows(rec, rec') /\ rec'.status = "stopped"
      BY <1>r, <2>1, ActivatedSteps DEF Activated, RecordType, RecordTypeOver
    <2>3. (\A x \in Handler : x # h => hand'[x] = hand[x]) /\ hand'[h].pc = "done"
      BY <1>h DEF TypeOK
    <2>4. UNCHANGED V
      BY <1>h DEF V
    <2>5. IntentInv'
      BY <2>2, <2>3 DEF GenInv, LedgerInv, IntentInv, OwnsIntent, Follows
    <2>6. EvidenceInv'
      BY <1>h, <2>1, <2>2 DEF GenInv, LedgerInv, EvidenceInv, Follows
    <2>7. ViewInv'
      BY <2>1, <2>2, <2>3, <2>4 DEF GenInv, ViewInv, Follows, Settled
    <2>8. VerdictInv'
      BY <1>h, <2>2, <2>4 DEF GenInv, VerdictInv, Follows, SessionStillPending, Settled, Dispatchable
    <2> QED
      BY <2>2, <2>5, <2>6, <2>7, <2>8 DEF GenInv, LedgerInv
  <1> QED
    BY <1>1, <1>2

LEMMA GenAborts ==
    ASSUME TypeOK, TypeOK', GenInv, NEW h \in Handler, HandlerAborts(h)
    PROVE  GenInv'
  <1>h. hand[h].pc = "failed" /\ UNCHANGED <<sess, waker, evid>>
    BY DEF HandlerAborts
  <1>1. CASE ~OwnsIntent(rec, h, hand[h].gen)
    BY <1>h, <1>1, GenUnderDone DEF HandlerAborts
  <1>2. CASE OwnsIntent(rec, h, hand[h].gen)
    <2>1. /\ rec.status = "preparing" /\ rec.prev = None /\ rec.gen = 1
      BY <1>h, <1>2 DEF GenInv, LedgerInv, IntentInv, OwnsIntent, Sound
    <2>2. rec' = Absent /\ hand' = [hand EXCEPT ![h].pc = "aborted"]
      BY <1>2, <2>1 DEF HandlerAborts, Restored
    <2>3. (\A x \in Handler : x # h => hand'[x] = hand[x]) /\ hand'[h].pc = "aborted"
      BY <2>2 DEF TypeOK
    <2>4. UNCHANGED V
      BY <1>h DEF V
    <2>5. IntentInv' /\ Sound(rec)'
      BY <2>2, <2>3, LimitResumeAssumption DEF GenInv, LedgerInv, IntentInv, OwnsIntent, Absent, Sound
    <2>6. EvidenceInv'
      BY <1>h, <2>1 DEF GenInv, LedgerInv, EvidenceInv, TypeOK
    <2>7. ~Settled(V)
      BY <2>1, FieldTypes DEF GenInv, ViewInv, V, TypeOK
    <2>8. ViewInv'
      BY <2>3, <2>4, <2>7 DEF GenInv, ViewInv, Settled
    <2>9. VerdictInv'
      BY <1>h, <2>2, <2>4 DEF GenInv, VerdictInv, SessionStillPending, Settled, Dispatchable, Absent
    <2> QED
      BY <2>5, <2>6, <2>8, <2>9 DEF GenInv, LedgerInv
  <1> QED
    BY <1>1, <1>2

LEMMA GenFallsBack ==
    ASSUME TypeOK, TypeOK', GenInv, NEW h \in Handler, HandlerFallsBack(h)
    PROVE  GenInv'
  <1>1. /\ hand[h].pc = "aborted" /\ hand' = [hand EXCEPT ![h].pc = "done"]
        /\ rec' \in {rec, UpsertStop(rec, "stopped", "plain", "notify", h)}
        /\ UNCHANGED <<sess, waker, evid>>
    BY DEF HandlerFallsBack
  <1>2. ~OwnsIntent(rec, h, hand[h].gen)
    BY <1>1 DEF GenInv, LedgerInv, IntentInv, OwnsIntent
  <1> QED
    BY <1>1, <1>2, GenUnderStop

LEMMA GenHandlers ==
    ASSUME IntentsHold, ~Over \/ SessionsLast, TypeOK, TypeOK', GenInv, NEW h \in Handler,
           HandlerFiles(h) \/ HandlerStep(h) \/ HandlerDies(h)
    PROVE  GenInv'
  <1>1. ~HandlerDies(h)
    BY DEF HandlerDies, HandlerFails, Spend, IntentsHold
  <1> QED
    BY <1>1, GenFiles, GenParks, GenActivates, GenAborts, GenFallsBack DEF HandlerStep

LEMMA CommittedSteps ==
    ASSUME NEW r \in RecordType, NEW v, NEW w \in Verdicts \ {"none", "orphan"}, Sound(r),
           w = "projgone" /\ Has(r, v.att.id) /\ r.status = "resuming" => r.gen = v.gen
    PROVE  Sound(Committed(r, v, w)) /\ Follows(r, Committed(r, v, w))
  <1> DEFINE Steps(s) == Sound(s) /\ Follows(r, s)
  <1>1. /\ Steps(ClearSupersededAttempt(r, v.att.id))
        /\ Steps(ClearConfirmedDeadAttempt(r, v.att.id))
        /\ Steps(ClearInteractiveAttempt(r, v.att.id))
        /\ Steps(ClearCancellingAttempt(r, v.att.id))
        /\ w = "projgone" => Steps(FailProjectGoneConfirmed(r, v.att.id, v.gen))
        /\ w \in Outcomes => Steps(SettleAttempt(r, v.att.id, w, FALSE))
    BY ClearSupersededAttemptSteps, ClearConfirmedDeadAttemptSteps, ClearInteractiveAttemptSteps,
       ClearCancellingAttemptSteps, FailProjectGoneConfirmedSteps, SettleAttemptSteps
  <1> HIDE DEF Steps
  <1>2. Steps(Committed(r, v, w))
    BY <1>1 DEF Committed, Verdicts
  <1> QED
    BY <1>2 DEF Steps

\* An attempt dies once, whichever commit lays it to rest: the record that a
\* "projgone" verdict is committed to is still of the generation that was judged.
LEMMA CommitSteps ==
    ASSUME TypeOK, PhaseInv, GenInv, waker.pc = "commit", waker.verdict # "orphan"
    PROVE  /\ Sound(Committed(rec, V, waker.verdict))
           /\ Follows(rec, Committed(rec, V, waker.verdict))
  <1>1. rec \in RecordType /\ Sound(rec) /\ waker.verdict \in Verdicts \ {"none", "orphan"}
    BY DEF TypeOK, GenInv, LedgerInv, PhaseInv
  <1>2. rec.gen \in Nat /\ V.gen \in Nat /\ (rec.att # None => rec.att.gen \in Nat)
    BY FieldTypes DEF TypeOK, V
  <1>3. waker.verdict = "projgone" /\ Has(rec, V.att.id) /\ rec.status = "resuming"
           => rec.gen = V.gen
    BY <1>1, <1>2 DEF GenInv, ViewInv, VerdictInv, Has, Sound
  <1> QED
    BY <1>1, <1>3, CommittedSteps

\* Steps of the waker that stay within an episode.
LEMMA GenWakerLedger ==
    ASSUME TypeOK, TypeOK', PhaseInv, GenInv,
           \/ WakerStarts \/ WakerDies \/ WakerSupervises \/ WakerKills \/ WakerCommits
           \/ WakerReconciles \/ WakerFinishesCancel \/ WakerUnparks \/ WakerCompletesCancel
           \/ WakerSelects \/ WakerNotifies \/ WakerGivesUp \/ WakerChecks \/ WakerFilesClaim
           \/ WakerSpawns \/ WakerSettles \/ WakerNotesPid \/ WakerEndsTick
    PROVE  /\ LedgerInv' /\ Sound(rec') /\ Follows(rec, rec')
           /\ SessionKeeps /\ UNCHANGED <<hand, evid>>
  <1>r. rec \in RecordType /\ Sound(rec) /\ LedgerInv
    BY DEF TypeOK, GenInv, LedgerInv
  <1>1. UNCHANGED <<hand, evid>>
    BY DEF WakerStarts, WakerDies, WakerSupervises, WakerKills, WakerCommits,
           WakerReconciles, WakerFinishesCancel, WakerUnparks, WakerCompletesCancel,
           WakerSelects, WakerNotifies, WakerGivesUp, WakerChecks, WakerFilesClaim,
           WakerSpawns, WakerSettles, WakerNotesPid, WakerEndsTick
  <1>2. SessionKeeps
    <2>1. CASE WakerUnparks
      <3>1. sess' \in {sess, Downgraded(waker.view)}
        BY <2>1 DEF WakerUnparks
      <3> QED
        BY <3>1, DowngradedKeepsSession DEF SessionKeeps, Over
    <2>2. CASE ~WakerUnparks
      <3>1. sess' = sess
        BY <2>2 DEF WakerStarts, WakerDies, WakerSupervises, WakerKills, WakerCommits,
           WakerReconciles, WakerFinishesCancel, WakerCompletesCancel,
           WakerSelects, WakerNotifies, WakerGivesUp, WakerChecks, WakerFilesClaim,
           WakerSpawns, WakerSettles, WakerNotesPid, WakerEndsTick
      <3> QED
        BY <3>1 DEF SessionKeeps, Over
    <2> QED
      BY <2>1, <2>2
  <1>3. Sound(rec') /\ Follows(rec, rec')
    <2>1. CASE \/ WakerStarts \/ WakerDies \/ WakerSupervises \/ WakerFinishesCancel
               \/ WakerUnparks \/ WakerSelects \/ WakerChecks \/ WakerFilesClaim
               \/ WakerSpawns \/ WakerNotesPid \/ WakerEndsTick
      <3>1. rec' = rec
        BY <2>1 DEF WakerStarts, WakerDies, WakerSupervises, WakerFinishesCancel, WakerUnparks,
           WakerSelects, WakerChecks, WakerFilesClaim, WakerSpawns, WakerNotesPid, WakerEndsTick
      <3> QED
        BY <1>r, <3>1, ReflexiveFollows
    <2>2. CASE WakerKills
      BY <1>r, <2>2, BlockCancellationSteps, ReflexiveFollows DEF WakerKills
    <2>3. CASE WakerCommits
      BY <1>r, <2>3, CommitSteps, ReflexiveFollows DEF WakerCommits, V
    <2>4. CASE WakerReconciles
      <3>1. rec.status = "preparing" => OwnerAlive(rec)
        BY <1>r DEF LedgerInv, IntentInv, OwnerAlive, HandlerRuns
      <3>2. PICK late \in BOOLEAN : rec' = Reconciled(rec, late)
        BY <2>4 DEF WakerReconciles, Late
      <3> QED
        BY <1>r, <3>1, <3>2, ReconciledSteps
    <2>5. CASE WakerCompletesCancel
      BY <1>r, <2>5, CompleteCancellationSteps DEF WakerCompletesCancel
    <2>6. CASE WakerNotifies
      BY <1>r, <2>6, MarkNotifiedSteps DEF WakerNotifies
    <2>7. CASE WakerGivesUp
      BY <1>r, <2>7, FailRecordSteps DEF WakerGivesUp
    <2>8. CASE WakerSettles
      BY <1>r, <2>8, SettleAttemptSteps DEF WakerSettles, PhaseInv
    <2> QED
      BY <2>1, <2>2, <2>3, <2>4, <2>5, <2>6, <2>7, <2>8
  <1>4. LedgerInv'
    BY <1>r, <1>1, <1>2, <1>3, LedgerUnderFollows
  <1> QED
    BY <1>1, <1>2, <1>3, <1>4

\* The waker goes on with the record it has.
LEMMA ViewKept ==
    ASSUME TypeOK, TypeOK', ViewInv, Follows(rec, rec'), UNCHANGED hand, waker'.view = waker.view
    PROVE  ViewInv'
  <1>1. UNCHANGED V
    BY DEF V
  <1> QED
    BY <1>1 DEF ViewInv, Follows, Settled

LEMMA GenWakerIdles ==
    ASSUME TypeOK, TypeOK', PhaseInv, GenInv,
           \/ WakerStarts \/ WakerDies \/ WakerCommits \/ WakerUnparks \/ WakerCompletesCancel
           \/ WakerNotifies \/ WakerGivesUp \/ WakerSettles \/ WakerEndsTick
    PROVE  ViewInv' /\ VerdictInv'
  <1>1. CASE WakerStarts \/ WakerUnparks \/ WakerCommits
    <2>1. /\ waker'.view = waker.view
          /\ waker'.pc \in {"supervise", "complete", "dispatch", "unpark", "end", "reconcile"}
      BY <1>1 DEF WakerStarts, WakerUnparks, WakerCommits, At, TypeOK
    <2>2. Follows(rec, rec') /\ UNCHANGED hand
      BY <1>1, GenWakerLedger
    <2> QED
      BY <2>1, <2>2, ViewKept DEF GenInv, VerdictInv
  <1>2. CASE \/ WakerDies \/ WakerCompletesCancel \/ WakerNotifies \/ WakerGivesUp
             \/ WakerSettles \/ WakerEndsTick
    <2>1. \E pc \in {"down", "dispatch", "end", "supervise"} :
             waker' = [pc |-> pc, view |-> Absent, verdict |-> "none"]
      BY <1>2 DEF WakerDies, WakerCompletesCancel, WakerNotifies, WakerGivesUp, WakerSettles,
             WakerEndsTick, AtWith, Asleep
    <2> QED
      BY <2>1, ViewOfNothing
  <1> QED
    BY <1>1, <1>2

LEMMA GenWakerSupervises ==
    ASSUME TypeOK, TypeOK', PhaseInv, GenInv, WakerSupervises
    PROVE  ViewInv' /\ VerdictInv'
  <1>r. rec \in RecordType /\ Sound(rec) /\ LedgerInv
    BY DEF TypeOK, GenInv, LedgerInv
  <1>1. PICK j \in Judgements(rec) :
            waker' = [pc |-> j.pc, view |-> IF j.pc = "reconcile" THEN Absent ELSE rec,
                      verdict |-> j.verdict]
    BY DEF WakerSupervises, AtWith
  <1>2. UNCHANGED <<rec, sess, hand>>
    BY DEF WakerSupervises
  <1>3. CASE j = Skip
    BY <1>1, <1>3, ViewOfNothing DEF Skip
  <1>4. CASE j # Skip
    <2>1. \E w \in {"superseded", "dead", "interactive", "failed", "deferred", "resumed"} :
             j = Kill(w) \/ j = Settle(w)
      BY <1>r, <1>4, JudgementsType
    <2>2. j.pc \in {"kill", "commit"} /\ j.verdict # "projgone"
      BY <2>1 DEF Kill, Settle
    <2>3. j.verdict = "resumed"
             => rec.status = "resuming" /\ rec.att.gen = rec.gen /\ ~SessionStillPending(rec)
      BY DEF Judgements, Skip, Kill, Settle
    <2>4. waker'.view = rec /\ V' = rec /\ waker'.pc \in {"kill", "commit"} /\ waker'.verdict = j.verdict
      BY <1>1, <2>2 DEF V
    <2>5. ViewInv'
      BY <1>r, <1>2, <2>4, ViewOfRecord, ReflexiveFollows
    <2>6. VerdictInv'
      BY <1>2, <2>2, <2>3, <2>4 DEF VerdictInv, SessionStillPending
    <2> QED
      BY <2>5, <2>6
  <1> QED
    BY <1>3, <1>4

LEMMA GenWakerReadsOn ==
    ASSUME TypeOK, TypeOK', PhaseInv, GenInv, WakerReconciles \/ WakerFinishesCancel \/ WakerSelects
    PROVE  ViewInv' /\ VerdictInv'
  <1>r. rec \in RecordType /\ Sound(rec) /\ LedgerInv
    BY DEF TypeOK, GenInv, LedgerInv
  <1>f. Follows(rec, rec') /\ UNCHANGED hand
    BY GenWakerLedger
  <1>1. CASE \E pc \in {"finish", "dispatch", "end"} :
                 waker' = [pc |-> pc, view |-> Absent, verdict |-> "none"]
    BY <1>1, ViewOfNothing
  <1>2. CASE waker' = [pc |-> "kill", view |-> rec, verdict |-> "projgone"] /\ MustKillFirst(rec)
    <2>1. V' = rec /\ waker'.view = rec /\ Settled(rec) /\ rec.att # None /\ rec.att.gen <= rec.gen
      BY <1>r, <1>2 DEF V, MustKillFirst, Settled, Sound
    <2>2. ViewInv'
      BY <1>r, <1>f, <2>1, ViewOfRecord
    <2>3. VerdictInv'
      BY <1>f, <1>2, <2>1 DEF VerdictInv, Settled, Follows
    <2> QED
      BY <2>2, <2>3
  <1>3. CASE WakerFinishesCancel /\
             \E pc \in {"unpark", "kill", "commit"} :
                 waker' = [pc |-> pc, view |-> rec, verdict |-> "cancel"]
    <2>1. V' = rec /\ waker'.view = rec
      BY <1>3 DEF V
    <2>2. ViewInv'
      BY <1>r, <1>f, <2>1, ViewOfRecord
    <2>3. VerdictInv'
      BY <1>f, <1>3, <2>1 DEF VerdictInv, Follows
    <2> QED
      BY <2>2, <2>3
  <1>4. CASE waker' = [pc |-> "claim", view |-> rec, verdict |-> "none"] /\ Dispatchable(rec)
    <2>1. V' = rec /\ waker'.view = rec
      BY <1>4 DEF V
    <2>2. ViewInv'
      BY <1>r, <1>f, <2>1, ViewOfRecord
    <2>3. VerdictInv'
      BY <1>f, <1>4, <2>1 DEF VerdictInv, Follows, Dispatchable
    <2> QED
      BY <2>2, <2>3
  <1> QED
    BY <1>1, <1>2, <1>3, <1>4 DEF WakerReconciles, WakerFinishesCancel, WakerSelects, AtWith

LEMMA GenWakerGoesOn ==
    ASSUME TypeOK, TypeOK', PhaseInv, GenInv,
           WakerKills \/ WakerChecks \/ WakerFilesClaim \/ WakerSpawns \/ WakerNotesPid
    PROVE  ViewInv' /\ VerdictInv'
  <1>f. Follows(rec, rec') /\ UNCHANGED hand
    BY GenWakerLedger
  <1>g. GenInv /\ ViewInv /\ VerdictInv
    BY DEF GenInv
  <1>1. CASE WakerKills
    <2>1. /\ waker'.view = waker.view /\ UNCHANGED sess /\ V' = V
          /\ waker'.pc \in {"commit", "dispatch", "end", "reconcile"} /\ waker'.verdict = waker.verdict
          /\ waker.pc = "kill"
      BY <1>1 DEF WakerKills, At, TypeOK, V
    <2>2. ViewInv'
      BY <1>f, <1>g, <2>1, ViewKept
    <2>3. VerdictInv'
      BY <1>f, <1>g, <2>1 DEF VerdictInv, Follows, SessionStillPending, Settled
    <2> QED
      BY <2>2, <2>3
  <1>2. CASE WakerChecks
    <2>1. /\ waker'.view = waker.view /\ UNCHANGED <<rec, sess>> /\ V' = V /\ waker.pc = "check"
          /\ \/ waker'.pc = "file"
             \/ waker'.pc = "settle" /\ (waker'.verdict = "resumed" => ~SessionStillPending(V))
      BY <1>2 DEF WakerChecks, At, AtWith, TypeOK, V
    <2>2. ViewInv'
      BY <1>f, <1>g, <2>1, ViewKept
    <2>3. VerdictInv'
      BY <1>f, <1>g, <2>1 DEF VerdictInv, SessionStillPending, Settled
    <2> QED
      BY <2>2, <2>3
  <1>3. CASE WakerFilesClaim \/ WakerSpawns
    <2>1. /\ waker'.view = waker.view /\ UNCHANGED <<rec, sess>> /\ V' = V
          /\ waker.pc \in {"file", "spawn"}
          /\ \/ waker'.pc \in {"spawn", "record"}
             \/ waker'.pc = "settle" /\ waker'.verdict # "resumed"
      BY <1>3 DEF WakerFilesClaim, WakerSpawns, At, AtWith, TypeOK, V
    <2>2. ViewInv'
      BY <1>f, <1>g, <2>1, ViewKept
    <2>3. VerdictInv'
      BY <1>f, <1>g, <2>1 DEF VerdictInv
    <2> QED
      BY <2>2, <2>3
  <1>4. CASE WakerNotesPid
    <2>1. CASE waker.pc = "note"
      BY <1>4, <2>1, ViewOfNothing DEF WakerNotesPid, AtWith
    <2>2. CASE waker.pc = "orphan"
      <3> DEFINE s == [V EXCEPT !.att.pid = TRUE]
      <3>1. waker' = [pc |-> "kill", view |-> s, verdict |-> "orphan"] /\ UNCHANGED <<rec, sess>>
        BY <1>4, <2>2 DEF WakerNotesPid, AtWith, V
      <3>2. /\ s.gen = V.gen /\ s.event = V.event /\ s.mode = V.mode /\ s.kind = V.kind
            /\ s.status = V.status /\ s.att.id = V.att.id /\ s.att.gen = V.att.gen
        <4>1. V \in RecordType /\ V.att # None
          BY <2>2 DEF TypeOK, PhaseInv, V
        <4>2. V.att \in AttemptType
          BY <4>1, FieldTypes
        <4> DEFINE att == [V.att EXCEPT !.pid = TRUE]
        <4>3. att.id = V.att.id /\ att.gen = V.att.gen
          BY <4>2 DEF AttemptType
        <4>4. s = [V EXCEPT !.att = att]
          BY <4>1 DEF RecordType, RecordTypeOver
        <4>5. /\ [V EXCEPT !.att = att].gen = V.gen /\ [V EXCEPT !.att = att].event = V.event
              /\ [V EXCEPT !.att = att].mode = V.mode /\ [V EXCEPT !.att = att].kind = V.kind
              /\ [V EXCEPT !.att = att].status = V.status /\ [V EXCEPT !.att = att].att = att
          <5> HIDE DEF att
          <5> QED
            BY <4>1 DEF RecordType, RecordTypeOver
        <4> QED
          BY <4>3, <4>4, <4>5
      <3>3. V' = s
        BY <3>1 DEF V
      <3> HIDE DEF s
      <3>4. ViewInv'
        BY <1>f, <1>g, <3>1, <3>2, <3>3 DEF ViewInv, Settled
      <3>5. VerdictInv'
        BY <1>g, <2>2, <3>1, <3>2, <3>3 DEF VerdictInv
      <3> QED
        BY <3>4, <3>5
    <2> QED
      BY <1>4, <2>1, <2>2 DEF WakerNotesPid
  <1> QED
    BY <1>1, <1>2, <1>3, <1>4

\* Recording the spawn changes nothing but the attempt's child and the counts.
LEMMA GenWakerRecords ==
    ASSUME TypeOK, TypeOK', PhaseInv, GenInv, WakerRecords
    PROVE  GenInv'
  <1>r. rec \in RecordType /\ Sound(rec) /\ LedgerInv /\ ViewInv /\ VerdictInv
    BY DEF TypeOK, GenInv, LedgerInv
  <1>1. waker.pc = "record" /\ UNCHANGED <<sess, hand, evid>>
    BY DEF WakerRecords
  <1>2. /\ waker'.view = waker.view /\ waker'.pc \in {"note", "orphan"} /\ V' = V
    BY DEF WakerRecords, At, TypeOK, V
  <1>3. CASE ~CanRecordSpawn(rec, V.att.id)
    <2>1. Sound(rec') /\ Follows(rec, rec')
      BY <1>r, <1>3, AttachOrphanChildPidSteps DEF WakerRecords, V
    <2>2. LedgerInv'
      BY <1>r, <1>1, <2>1, LedgerUnderFollows DEF SessionKeeps, Over
    <2>3. ViewInv'
      BY <1>r, <1>1, <1>2, <2>1, ViewKept
    <2>4. VerdictInv'
      BY <1>r, <1>1, <1>2, <2>1 DEF VerdictInv, Follows
    <2> QED
      BY <2>2, <2>3, <2>4 DEF GenInv
  <1>4. CASE CanRecordSpawn(rec, V.att.id)
    <2>1. rec' = RecordAttemptSpawn(rec, V.att.id)
      BY <1>4 DEF WakerRecords, V
    <2>2. /\ Sound(rec')
          /\ rec'.gen = rec.gen /\ rec'.event = rec.event /\ rec'.mode = rec.mode
          /\ rec'.kind = rec.kind /\ rec'.status = "resuming" /\ rec.status = "resuming"
          /\ rec'.att # None /\ rec.att # None
          /\ rec'.att.id = rec.att.id /\ rec'.att.gen = rec.att.gen
      BY <1>r, <1>4, <2>1, RecordAttemptSpawnSteps DEF CanRecordSpawn, Has
    <2>3. IntentInv' /\ EvidenceInv'
      BY <1>r, <1>1, <2>2 DEF LedgerInv, IntentInv, EvidenceInv, OwnsIntent, SessionStillPending
    <2>4. ViewInv' /\ VerdictInv'
      BY <1>r, <1>1, <1>2, <2>2 DEF ViewInv, VerdictInv, Settled
    <2> QED
      BY <2>2, <2>3, <2>4 DEF GenInv, LedgerInv
  <1> QED
    BY <1>3, <1>4

LEMMA GenWakerClaims ==
    ASSUME TypeOK, TypeOK', PhaseInv, GenInv, WakerClaims
    PROVE  GenInv'
  <1>r. rec \in RecordType /\ Sound(rec) /\ LedgerInv /\ ViewInv /\ VerdictInv
    BY DEF TypeOK, GenInv, LedgerInv
  <1>1. waker.pc = "claim" /\ V.mode = "headless" /\ UNCHANGED <<sess, hand, evid>>
    BY DEF WakerClaims, V
  <1>2. CASE ~CanClaim
    <2>1. rec' = rec /\ waker' = [pc |-> "end", view |-> Absent, verdict |-> "none"]
      BY <1>2 DEF WakerClaims, AtWith
    <2>2. LedgerInv'
      BY <1>r, <1>1, <2>1, LedgerUnderFollows, ReflexiveFollows DEF SessionKeeps, Over
    <2> QED
      BY <2>1, <2>2, ViewOfNothing DEF GenInv
  <1>3. CASE CanClaim
    <2>1. PICK a \in Attempt : /\ rec' = ClaimAttempt(rec, a)
                               /\ waker' = [pc |-> "check", view |-> rec', verdict |-> "none"]
      BY <1>3 DEF WakerClaims, AtWith
    <2>2. Dispatchable(rec) /\ rec.mode = "headless"
      BY <1>r, <1>1, <1>3 DEF CanClaim, ViewInv, VerdictInv, V, Settled, Dispatchable
    <2>3. /\ Sound(rec')
          /\ rec'.gen = rec.gen /\ rec'.event = rec.event /\ rec'.mode = rec.mode
          /\ rec'.kind = rec.kind /\ rec'.status = "resuming" /\ rec.status # "preparing"
          /\ rec'.att # None /\ rec'.att.gen = rec'.gen
      BY <1>r, <2>1, <2>2, ClaimAttemptSteps DEF Dispatchable
    <2>4. V' = rec'
      BY <2>1 DEF V
    <2>5. IntentInv' /\ EvidenceInv'
      BY <1>r, <1>1, <2>3 DEF LedgerInv, IntentInv, EvidenceInv, OwnsIntent, SessionStillPending
    <2>6. ViewInv' /\ VerdictInv'
      <3>1. rec'.gen \in Nat /\ rec'.gen >= 1
        BY <2>3, FieldTypes DEF TypeOK, Sound
      <3>2. ViewInv'
        BY <1>r, <1>1, <2>3, <2>4, <3>1 DEF LedgerInv, IntentInv, ViewInv
      <3>3. VerdictInv'
        BY <1>1, <2>1, <2>2, <2>3, <2>4 DEF VerdictInv
      <3> QED
        BY <3>2, <3>3
    <2> QED
      BY <2>3, <2>5, <2>6 DEF GenInv, LedgerInv
  <1> QED
    BY <1>2, <1>3

LEMMA GenWaker ==
    ASSUME TypeOK, TypeOK', PhaseInv, GenInv, WakerStarts \/ WakerStep \/ WakerDies
    PROVE  GenInv'
  <1>1. CASE WakerRecords \/ WakerClaims
    BY <1>1, GenWakerRecords, GenWakerClaims
  <1>2. CASE ~(WakerRecords \/ WakerClaims)
    <2>1. LedgerInv'
      BY <1>2, GenWakerLedger DEF WakerStep
    <2>2. ViewInv' /\ VerdictInv'
      BY <1>2, GenWakerIdles, GenWakerSupervises, GenWakerReadsOn, GenWakerGoesOn DEF WakerStep
    <2> QED
      BY <2>1, <2>2 DEF GenInv
  <1> QED
    BY <1>1, <1>2

LEMMA GenStep ==
    ASSUME IntentsHold, ~Over \/ SessionsLast, TypeOK, TypeOK', PhaseInv, GenInv, [Next]_vars
    PROVE  GenInv'
  <1>1. CASE UNCHANGED vars
    <2>1. UNCHANGED <<rec, sess, hand, waker, evid>>
      BY <1>1 DEF vars
    <2> QED
      BY <2>1 DEF GenInv, LedgerInv, IntentInv, EvidenceInv, ViewInv, VerdictInv, V, OwnsIntent,
                  Over, SessionStillPending, Settled, Dispatchable, Sound
  <1> QED
    BY <1>1, GenHandlers, GenWaker, GenOthers DEF Next

LEMMA GenInit ==
    ASSUME Init
    PROVE  GenInv
  <1>1. rec = Absent /\ V = Absent /\ evid = 0 /\ waker.pc = "down"
        /\ \A h \in Handler : hand[h].pc = "idle"
    BY DEF Init, Asleep, NobodySeen, V
  <1> QED
    BY <1>1, LimitResumeAssumption DEF GenInv, LedgerInv, IntentInv, EvidenceInv, ViewInv,
       VerdictInv, Absent, Sound, Settled

-----------------------------------------------------------------------------
(* A record is marked resumed only once its session has moved on.            *)

MovesOn == rec.kind = "autonomous" /\ rec.status # "resumed" /\ rec'.status = "resumed"
               => ~SessionStillPending(rec)

\* Only three mutators ever write `resumed`.
LEMMA OthersDoNotResume ==
    ASSUME NEW r \in RecordType, NEW a, NEW g, r.status # "resumed"
    PROVE  /\ MarkNotified(r, g).status # "resumed" /\ FailRecord(r, g).status # "resumed"
           /\ CompleteCancellation(r, g).status # "resumed"
           /\ BlockCancellation(r).status # "resumed" /\ BeginCancellation(r).status # "resumed"
           /\ RequeueRecord(r).status # "resumed" /\ MarkInteractive(r).status # "resumed"
           /\ AttachOrphanChildPid(r, a).status # "resumed"
           /\ RecordAttemptSpawn(r, a).status # "resumed"
           /\ ClaimAttempt(r, a).status # "resumed"
           /\ ClearSupersededAttempt(r, a).status # "resumed"
           /\ ClearConfirmedDeadAttempt(r, a).status # "resumed"
           /\ ClearInteractiveAttempt(r, a).status # "resumed"
           /\ ClearCancellingAttempt(r, a).status # "resumed"
           /\ FailProjectGoneConfirmed(r, a, g).status # "resumed"
           /\ Activated(r).status # "resumed"
           /\ ProjectGone(r).status # "resumed"
  <1>1. /\ MarkNotified(r, g).status # "resumed" /\ FailRecord(r, g).status # "resumed"
        /\ CompleteCancellation(r, g).status # "resumed"
        /\ BlockCancellation(r).status # "resumed" /\ BeginCancellation(r).status # "resumed"
        /\ RequeueRecord(r).status # "resumed" /\ MarkInteractive(r).status # "resumed"
        /\ Activated(r).status # "resumed"
    BY DEF MarkNotified, FailRecord, CompleteCancellation, BlockCancellation, BeginCancellation,
           RequeueRecord, MarkInteractive, Activated, RecordType, RecordTypeOver
  <1>2. ProjectGone(r).status # "resumed"
    <2>1. ProjectGone(r) \in {r, [r EXCEPT !.status = "failed", !.att = None]}
      BY DEF ProjectGone
    <2> QED
      BY <2>1 DEF RecordType, RecordTypeOver
  <1>3. /\ ClearSupersededAttempt(r, a).status # "resumed"
        /\ ClearConfirmedDeadAttempt(r, a).status # "resumed"
        /\ ClearInteractiveAttempt(r, a).status # "resumed"
        /\ ClearCancellingAttempt(r, a).status # "resumed"
    BY DEF ClearSupersededAttempt, ClearConfirmedDeadAttempt, ClearInteractiveAttempt,
           ClearCancellingAttempt, RecordType, RecordTypeOver
  <1>4. FailProjectGoneConfirmed(r, a, g).status # "resumed"
    BY DEF FailProjectGoneConfirmed, RecordType, RecordTypeOver
  <1>5. AttachOrphanChildPid(r, a).status # "resumed" /\ RecordAttemptSpawn(r, a).status # "resumed"
    <2>1. \A att, n : /\ [r EXCEPT !.att = att].status = r.status
                      /\ [r EXCEPT !.att = att, !.tries = n, !.defers = 0].status = r.status
      BY DEF RecordType, RecordTypeOver
    <2>2. AttachOrphanChildPid(r, a) \in {r, [r EXCEPT !.att = [r.att EXCEPT !.pid = TRUE]]}
      BY DEF AttachOrphanChildPid, RecordType, RecordTypeOver
    <2>3. RecordAttemptSpawn(r, a)
             = [r EXCEPT !.att = [r.att EXCEPT !.pid = TRUE], !.tries = r.tries + 1, !.defers = 0]
      BY DEF RecordAttemptSpawn, RecordType, RecordTypeOver
    <2> QED
      BY <2>1, <2>2, <2>3
  <1>6. ClaimAttempt(r, a).status # "resumed"
    <2>1. \A att : [r EXCEPT !.status = "resuming", !.att = att].status = "resuming"
      BY DEF RecordType, RecordTypeOver
    <2> QED
      BY <2>1 DEF ClaimAttempt
  <1> QED
    BY <1>1, <1>2, <1>3, <1>4, <1>5, <1>6

LEMMA HandlersMoveOn ==
    ASSUME IntentsHold, TypeOK, GenInv, NEW h \in Handler,
           HandlerFiles(h) \/ HandlerStep(h) \/ HandlerDies(h)
    PROVE  MovesOn
  <1>r. rec \in RecordType
    BY DEF TypeOK
  <1>1. ASSUME NEW phase \in {"preparing", "stopped"}, NEW kind, NEW mode,
               rec' = UpsertStop(rec, phase, kind, mode, h)
        PROVE  MovesOn
    BY <1>1 DEF UpsertStop, MovesOn
  <1>2. CASE rec' = rec
    BY <1>2 DEF MovesOn
  <1>3. CASE HandlerFiles(h)
    BY <1>1, <1>2, <1>3 DEF HandlerFiles
  <1>4. CASE HandlerParks(h) \/ HandlerDies(h)
    BY <1>2, <1>4 DEF HandlerParks, HandlerDies
  <1>5. CASE HandlerActivates(h)
    <2>1. CASE rec' = Activated(rec)
      BY <1>r, <2>1, OthersDoNotResume DEF MovesOn
    <2> QED
      BY <1>1, <1>2, <1>5, <2>1 DEF HandlerActivates, RepairParked
  <1>6. CASE HandlerAborts(h)
    <2>1. CASE OwnsIntent(rec, h, hand[h].gen)
      <3>1. rec.prev = None
        BY <1>6, <2>1 DEF HandlerAborts, GenInv, LedgerInv, IntentInv
      <3>2. rec'.status = "absent"
        BY <1>6, <2>1, <3>1 DEF HandlerAborts, Restored, Absent
      <3> QED
        BY <3>2 DEF MovesOn
    <2> QED
      BY <1>2, <1>6, <2>1 DEF HandlerAborts
  <1>7. CASE HandlerFallsBack(h)
    BY <1>1, <1>2, <1>7 DEF HandlerFallsBack
  <1> QED
    BY <1>3, <1>4, <1>5, <1>6, <1>7 DEF HandlerStep

\* A verdict is settled only on the attempt it is about, whose session has moved on.
LEMMA SettlementMovesOn ==
    ASSUME TypeOK, PhaseInv, GenInv, waker.pc \in {"settle", "commit"}, NEW pre \in BOOLEAN,
           waker.verdict \in Outcomes, rec' = SettleAttempt(rec, V.att.id, waker.verdict, pre)
    PROVE  MovesOn
  <1>r. rec \in RecordType /\ Sound(rec)
    BY DEF TypeOK, GenInv, LedgerInv
  <1>1. CASE rec' = rec
    BY <1>1 DEF MovesOn
  <1>2. CASE /\ rec.status = "resuming" /\ Has(rec, V.att.id) /\ rec.att.gen = rec.gen
             /\ rec'.status \in {waker.verdict, "failed"}
    <2>1. waker.verdict = "resumed" => /\ V.status = "resuming" /\ V.gen = rec.gen
                                       /\ ~SessionStillPending(V)
      BY <1>2 DEF GenInv, VerdictInv, Has
    <2>2. waker.verdict = "resumed" => V.event = rec.event
      BY <2>1 DEF GenInv, ViewInv, Settled
    <2> QED
      BY <1>2, <2>1, <2>2 DEF MovesOn, SessionStillPending
  <1> QED
    BY <1>r, <1>1, <1>2, SettleAttemptSteps

LEMMA ReconciliationMovesOn ==
    ASSUME TypeOK, GenInv, NEW late \in BOOLEAN, rec' = Reconciled(rec, late)
    PROVE  MovesOn
  <1>r. rec \in RecordType
    BY DEF TypeOK
  <1>1. CASE SessionAdvanced(rec)
    BY <1>1 DEF MovesOn, SessionAdvanced, SessionStillPending
  <1>2. CASE rec.status = "resumed"
    BY <1>2 DEF MovesOn
  <1>3. CASE ~SessionAdvanced(rec) /\ rec.status # "resumed"
    <2>1. rec.status = "preparing" => OwnerAlive(rec)
      BY DEF GenInv, LedgerInv, IntentInv, OwnerAlive, HandlerRuns
    <2>2. rec' \in {rec, ProjectGone(rec), [rec EXCEPT !.status = "stopped"],
                    [rec EXCEPT !.status = "stopped", !.att = None]}
      BY <1>3, <2>1 DEF Reconciled
    <2>3. rec'.status # "resumed"
      BY <1>r, <1>3, <2>2, OthersDoNotResume DEF RecordType, RecordTypeOver
    <2> QED
      BY <2>3 DEF MovesOn
  <1> QED
    BY <1>1, <1>2, <1>3

LEMMA WakerMovesOn ==
    ASSUME TypeOK, PhaseInv, GenInv, WakerStarts \/ WakerStep \/ WakerDies
    PROVE  MovesOn
  <1>r. rec \in RecordType
    BY DEF TypeOK
  <1>0. CASE rec' = rec
    BY <1>0 DEF MovesOn
  <1>1. CASE WakerCommits
    <2>1. CASE waker.verdict \in Outcomes
      BY <1>1, <2>1, SettlementMovesOn DEF WakerCommits, Committed, Outcomes, V
    <2>2. CASE waker.verdict \notin Outcomes
      <3>1. \/ rec' = rec
            \/ rec' \in {ClearSupersededAttempt(rec, V.att.id),
                         ClearConfirmedDeadAttempt(rec, V.att.id),
                         ClearInteractiveAttempt(rec, V.att.id),
                         ClearCancellingAttempt(rec, V.att.id),
                         FailProjectGoneConfirmed(rec, V.att.id, V.gen)}
        BY <1>1, <2>2 DEF WakerCommits, Committed, PhaseInv, Verdicts, V
      <3> QED
        BY <1>r, <1>0, <3>1, OthersDoNotResume DEF MovesOn
    <2> QED
      BY <2>1, <2>2
  <1>2. CASE WakerSettles
    BY <1>2, SettlementMovesOn DEF WakerSettles, PhaseInv, V
  <1>3. CASE WakerReconciles
    BY <1>3, ReconciliationMovesOn DEF WakerReconciles, Late
  <1>4. CASE WakerKills \/ WakerCompletesCancel \/ WakerNotifies \/ WakerGivesUp \/ WakerRecords
    <2>1. \/ rec' = rec
          \/ rec' \in {BlockCancellation(rec), CompleteCancellation(rec, V.gen),
                       MarkNotified(rec, V.gen), FailRecord(rec, V.gen),
                       RecordAttemptSpawn(rec, V.att.id), AttachOrphanChildPid(rec, V.att.id)}
      BY <1>4 DEF WakerKills, WakerCompletesCancel, WakerNotifies, WakerGivesUp, WakerRecords, V
    <2> QED
      BY <1>r, <1>0, <2>1, OthersDoNotResume DEF MovesOn
  <1>5. CASE WakerClaims
    BY <1>r, <1>0, <1>5, OthersDoNotResume DEF WakerClaims, MovesOn
  <1> QED
    BY <1>0, <1>1, <1>2, <1>3, <1>4, <1>5
       DEF WakerStep, WakerStarts, WakerDies, WakerSupervises, WakerFinishesCancel, WakerUnparks,
           WakerSelects, WakerChecks, WakerFilesClaim, WakerSpawns, WakerNotesPid, WakerEndsTick

LEMMA OthersMoveOn ==
    ASSUME TypeOK, GenInv,
           \/ \E a \in Attempt : ChildStarts(a) \/ ChildResumes(a) \/ ChildEnds(a)
           \/ UserCloses \/ UserStep \/ StopHookReads \/ StopHookMarks \/ ProjectVanishes
           \/ (\E how \in {"limit-status", "stop"} : CancelBegins(how)) \/ CancelStep \/ CancelDies
    PROVE  MovesOn
  <1>r. rec \in RecordType
    BY DEF TypeOK
  <1>0. CASE rec' = rec
    BY <1>0 DEF MovesOn
  <1>1. CASE StopHookMarks
    <2>1. CASE rec.gen = evid
      BY <1>1, <2>1 DEF StopHookMarks, GenInv, LedgerInv, EvidenceInv, MovesOn
    <2>2. CASE rec.gen # evid
      BY <1>0, <1>1, <2>2 DEF StopHookMarks, MarkResumed
    <2> QED
      BY <2>1, <2>2
  <1>2. CASE rec' \in {MarkInteractive(rec), RequeueRecord(rec), BeginCancellation(rec),
                       BlockCancellation(rec), ClearCancellingAttempt(rec, cancel.view.att.id),
                       CompleteCancellation(rec, cancel.view.gen)}
    BY <1>r, <1>2, OthersDoNotResume DEF MovesOn
  <1> QED
    BY <1>0, <1>1, <1>2
       DEF ChildStarts, ChildResumes, ChildEnds, UserCloses, UserStep, UserReopens, UserTakesOver,
           UserResumes, UserRequeues, StopHookReads, ProjectVanishes, CancelBegins, CancelStep,
           CancelKills, CancelClears, CancelUnparks, CancelCompletes, CancelDies

\* However old the evidence of a Stop hook, however late a settlement, and whoever
\* filed a stop in between: as long as no handler fails or dies over a session that it
\* could still park ("prep", with which TLC finds the claim false), a record becomes
\* `resumed` only when its session no longer waits for the stop that it is about. An
\* intent that a session which "ends" undoes is covered: what is over waits for nothing.
THEOREM ResumedIsMovedOn ==
    ASSUME IntentsHold
    PROVE  Spec => ResumedMeansMovedOn
<1> DEFINE IInv == TypeOK /\ PhaseInv /\ CapInv /\ (Over \/ GenInv)
<1>1. Init => IInv
  BY InitTypes, GenInit
<1>2. IInv /\ [Next]_vars => IInv'
  BY TypesStep, OverStays, GenStep
<1>3. IInv /\ [Next]_vars => [MovesOn]_vars
  <2>1. Over => MovesOn
    BY DEF Over, MovesOn, SessionStillPending
  <2> QED
    BY <2>1, HandlersMoveOn, WakerMovesOn, OthersMoveOn DEF Next
<1>4. [MovesOn]_vars
         => [rec.kind = "autonomous" /\ rec.status # "resumed" /\ rec'.status = "resumed"
                => ~SessionStillPending(rec)]_vars
  BY DEF MovesOn
<1> QED
  BY <1>1, <1>2, <1>3, <1>4, PTL DEF Spec, ResumedMeansMovedOn

-----------------------------------------------------------------------------
(* Wake children. The record names every child that may still resume the     *)
(* session, so an attempt may be dropped only when its child is done for.    *)

\* Beyond the intents: the waker outlives a spawn until it is recorded, a cancel
\* command ends before the next stop is due, a user acts on the hook's answer. Each of
\* the three is needed: with "midspawn", "slowcli" or "tardy" among the incidents, and
\* enough stops, TLC finds every property of this section false.
ChildrenKept == {"midspawn", "slowcli", "tardy"} \cap Incident = {}

Holding == user.at \in {"go", "told"}
\* Loose, or about to be.
Active(a) == Loose(a) \/ (waker.pc = "spawn" /\ Has(V, a))
Wakeable(r) == CanTakeOver(r) /\ r.mode = "headless"
Dispatches == waker.pc \in {"check", "file", "spawn", "record", "settle"}

\* The record names a wake child, or the waker is about to name it.
NamedInv ==
    \A a \in Attempt :
       Loose(a) => Has(rec, a) /\ (rec.att.pid \/ (waker.pc = "record" /\ Has(V, a)))

\* The claim that the waker dispatches stays on the record.
DispatchInv == Dispatches => rec.att = V.att /\ ~V.att.pid /\ V.att.id \in mine

\* An attempt is laid to rest, and a session given back, after its child's death.
WakerDeaths ==
    /\ waker.pc = "commit" /\ waker.verdict # "orphan" => ~Loose(V.att.id)
    /\ waker.pc \in {"kill", "commit"} /\ rec.att # None /\ rec.att.pid => V.att.pid
    /\ waker.pc \in {"unpark", "complete"} => \A a \in Attempt : ~Loose(a)
CancelDeaths ==
    /\ cancel.pc = "clear" => ~Loose(cancel.view.att.id)
    /\ cancel.pc \in {"unpark", "complete"} => \A a \in Attempt : ~Loose(a)
    /\ cancel.pc \in {"kill", "clear"} =>
          /\ cancel.view.att # None
          /\ rec.att # None => rec.att.id = cancel.view.att.id
    /\ cancel.pc = "kill" => cancel.view.att.pid
DeathInv == WakerDeaths /\ CancelDeaths

\* Nothing is claimed beside an attempt, and nothing at all beside a cancel command.
DueInv ==
    /\ waker.pc = "claim" /\ rec.gen = V.gen => rec.att = None
    /\ cancel.pc # "idle" => ~Dispatches
    /\ cancel.pc # "idle" /\ waker.pc = "claim" /\ rec.gen = V.gen =>
          rec.status \in {"cancelling", "cancelled"}

\* A user who was told to resume does not meet the waker over a parked session.
UserInv ==
    Holding /\ sess.kind = "parked" =>
        /\ waker.pc = "claim" /\ V.mode = "headless" => ~CanClaim
        /\ waker.pc \in {"check", "file"} => rec.status # "resuming"

\* A child at large means a session still parked, which nobody else will resume.
RaceInv ==
    /\ rec.att # None /\ Active(rec.att.id) /\ Wakeable(rec) =>
          \/ sess.kind = "gone"
          \/ /\ sess.kind = "parked" /\ ~Holding
             /\ rec.status = "resuming" => sess.event = rec.event
    /\ user.at = "go" /\ rec.att # None /\ rec.att.gen = rec.gen => ~Active(rec.att.id)

\* Who parks a session holds its lock until the record is activated.
LockInv ==
    /\ \A h \in Handler :
          /\ hand[h].pc = "parked" => slock = h /\ sess.kind = "parked" /\ sess.event = h
          /\ hand[h].pc = "aborted" => Over
    /\ cancel.pc \notin {"idle", "complete"} /\ cancel.how = "stop" => slock = "cli"

\* Meanwhile no other record of the stop is there to wake, nor a user to resume it.
StopInv ==
    \A h \in Handler : hand[h].pc = "parked" /\ (Holding \/ Dispatchable(rec)) => rec.att = None

AttemptInv == NamedInv /\ DispatchInv /\ DeathInv
ChildInv == AttemptInv /\ DueInv /\ UserInv /\ RaceInv /\ LockInv /\ StopInv

\* What leaves the record's attempt alone, and starts no child, keeps it named.
LEMMA AttemptFrame ==
    ASSUME TypeOK, PhaseInv, AttemptInv, rec'.att = rec.att, UNCHANGED <<waker, mine, cancel>>,
           \A a \in Attempt : Loose(a)' => Loose(a)
    PROVE  AttemptInv'
  <1>1. UNCHANGED V
    BY DEF V
  <1>a. /\ waker.pc = "commit" => V.att.id \in Attempt
        /\ cancel.view.att # None => cancel.view.att.id \in Attempt
    BY FieldTypes DEF TypeOK, PhaseInv, V
  <1>2. NamedInv'
    BY <1>1 DEF AttemptInv, NamedInv, Has
  <1>3. DispatchInv'
    BY <1>1 DEF AttemptInv, DispatchInv, Dispatches
  <1>4. DeathInv'
    BY <1>1, <1>a DEF AttemptInv, DeathInv, WakerDeaths, CancelDeaths
  <1> QED
    BY <1>2, <1>3, <1>4 DEF AttemptInv

\* A handler never touches an attempt, and leaves every generation but the record's
\* own: what the waker read of a generation is still on record, or of an older one.
LEMMA HandlerKeepsAttempt ==
    ASSUME IntentsHold, TypeOK, GenInv, NEW h \in Handler,
           HandlerFiles(h) \/ HandlerStep(h) \/ HandlerDies(h)
    PROVE  /\ rec'.att = rec.att /\ UNCHANGED <<waker, mine, cancel, evid, V>>
           /\ \A a \in Attempt : Loose(a)' => Loose(a)
           /\ Settled(V) /\ rec'.gen = V.gen => rec' = rec
           /\ rec'.status = "resuming" => rec' = rec
           /\ rec' # rec /\ rec'.att # None => rec'.att.gen < rec'.gen
           /\ Wakeable(rec') => \/ rec' = rec
                                \/ hand[h].pc = "parked" /\ sess' = sess /\ rec'.status = "stopped"
           /\ Holding' => Holding /\ user'.at = user.at
  <1>r. /\ rec \in RecordType /\ Sound(rec)
        /\ rec.att # None => rec.att.gen \in Nat /\ rec.att.gen <= rec.gen
    BY FieldTypes DEF TypeOK, GenInv, LedgerInv, Sound
  <1>f. rec.gen \in Nat /\ V.gen \in Nat /\ (Settled(V) => V.gen >= 1 /\ V.gen <= rec.gen)
    BY FieldTypes DEF TypeOK, V, GenInv, ViewInv
  <1> DEFINE Keeps == /\ rec'.att = rec.att
                      /\ Settled(V) /\ rec'.gen = V.gen => rec' = rec
                      /\ rec'.status = "resuming" => rec' = rec
                      /\ rec' # rec /\ rec'.att # None => rec'.att.gen < rec'.gen
                      /\ Wakeable(rec') => \/ rec' = rec
                                           \/ /\ hand[h].pc = "parked" /\ sess' = sess
                                              /\ rec'.status = "stopped"
  <1>1. ASSUME NEW phase \in {"preparing", "stopped"}, NEW kind, NEW mode,
               rec' = UpsertStop(rec, phase, kind, mode, h),
               phase = "stopped" => \/ mode = "notify"
                                    \/ hand[h].pc = "parked" /\ sess' = sess
        PROVE  Keeps
    <2>1. rec'.att = rec.att /\ rec'.gen = rec.gen + 1 /\ rec'.status = phase /\ rec'.mode = mode
      BY <1>1 DEF UpsertStop
    <2> QED
      BY <1>1, <1>f, <1>r, <2>1 DEF Wakeable, CanTakeOver
  <1>2. rec' = rec => Keeps
    OBVIOUS
  <1>3. HandlerFiles(h) => Keeps
    BY <1>1, <1>2 DEF HandlerFiles
  <1>4. HandlerParks(h) \/ HandlerDies(h) => Keeps
    BY <1>2 DEF HandlerParks, HandlerDies
  <1>5. ASSUME HandlerActivates(h) PROVE Keeps
    <2>0. hand[h].pc = "parked" /\ sess' = sess
      BY <1>5 DEF HandlerActivates
    <2>1. ASSUME OwnsIntent(rec, h, hand[h].gen) PROVE Keeps
      <3>1. rec' = Activated(rec) /\ rec.status = "preparing"
        BY <1>5, <2>1 DEF HandlerActivates, OwnsIntent
      <3>2. rec'.att = rec.att /\ rec'.gen = rec.gen /\ rec'.status = "stopped"
        BY <1>r, <3>1 DEF Activated, RecordType, RecordTypeOver
      <3>3. /\ Settled(V) => rec.gen # V.gen
            /\ rec.att # None => rec.att.gen < rec.gen
        BY <1>r, <3>1 DEF GenInv, ViewInv, Sound
      <3> QED
        BY <2>0, <3>2, <3>3
    <2>2. ASSUME ~OwnsIntent(rec, h, hand[h].gen) PROVE Keeps
      <3>1. \/ rec' = rec
            \/ \E mode : rec' = UpsertStop(rec, "stopped", "autonomous", mode, h)
        BY <1>5, <2>2 DEF HandlerActivates, RepairParked
      <3> QED
        BY <1>1, <1>2, <2>0, <3>1
    <2> QED
      BY <2>1, <2>2
  <1>6. ASSUME HandlerAborts(h) PROVE Keeps
    <2>1. ASSUME OwnsIntent(rec, h, hand[h].gen) PROVE Keeps
      <3>1. rec.status = "preparing" /\ rec.prev = None /\ rec' = Absent
        BY <1>6, <2>1 DEF HandlerAborts, Restored, GenInv, LedgerInv, IntentInv, OwnsIntent
      <3>2. rec.att = None
        BY <1>r, <3>1 DEF Sound
      <3>3. rec'.att = None /\ rec'.gen = 0 /\ rec'.status = "absent"
        BY <3>1 DEF Absent
      <3> QED
        BY <1>f, <3>2, <3>3 DEF Wakeable, CanTakeOver
    <2> QED
      BY <1>2, <1>6, <2>1 DEF HandlerAborts
  <1>7. HandlerFallsBack(h) => Keeps
    BY <1>1, <1>2 DEF HandlerFallsBack
  <1>8. Keeps
    BY <1>3, <1>4, <1>5, <1>6, <1>7 DEF HandlerStep
  <1> HIDE DEF Keeps
  <1>9. UNCHANGED <<waker, mine, cancel, evid>>
    BY DEF HandlerStep, HandlerFiles, HandlerParks, HandlerActivates, HandlerAborts,
           HandlerFallsBack, HandlerDies
  <1>10. /\ \A a \in Attempt : Loose(a)' => Loose(a)
         /\ Holding' => Holding /\ user'.at = user.at
    <2>1. CASE HandlerFiles(h)
      BY <2>1 DEF HandlerFiles, LimitHits, Loose, Holding, TypeOK
    <2>2. CASE ~HandlerFiles(h)
      <3>1. UNCHANGED <<child, user>>
        BY <2>2 DEF HandlerStep, HandlerParks, HandlerActivates, HandlerAborts,
           HandlerFallsBack, HandlerDies
      <3> QED
        BY <3>1 DEF Loose, Holding
    <2> QED
      BY <2>1, <2>2
  <1> QED
    BY <1>8, <1>9, <1>10 DEF V, Keeps

\* Which session file a handler writes, and when.
LEMMA HandlerSessions ==
    ASSUME IntentsHold, ChildrenKept, TypeOK, GenInv, LockInv, NEW h \in Handler,
           HandlerFiles(h) \/ HandlerStep(h) \/ HandlerDies(h)
    PROVE  /\ LockInv'
           /\ \/ sess' = sess
              \/ /\ ~Holding /\ ~Holding' /\ slock = None /\ rec' = rec /\ rec.status = "preparing"
                 /\ sess'.kind = "parked"
  <1>1. CASE HandlerFiles(h)
    <2>1. UNCHANGED <<sess, slock, cancel>>
      BY <1>1 DEF HandlerFiles
    <2>2. \A x \in Handler : hand'[x].pc \in {"parked", "aborted"} => hand'[x] = hand[x]
      <3>1. \/ hand' = [hand EXCEPT ![h].pc = "done"]
            \/ \E pc \in {"done", "intent"} : hand' = [hand EXCEPT ![h] = [pc |-> pc, gen |-> rec'.gen]]
        BY <1>1 DEF HandlerFiles
      <3>2. CASE hand' = [hand EXCEPT ![h].pc = "done"]
        BY <3>2 DEF TypeOK
      <3>3. CASE \E pc \in {"done", "intent"} : hand' = [hand EXCEPT ![h] = [pc |-> pc, gen |-> rec'.gen]]
        BY <3>3 DEF TypeOK
      <3> QED
        BY <3>1, <3>2, <3>3
    <2> QED
      BY <2>1, <2>2 DEF LockInv, Over
  <1>2. CASE HandlerParks(h)
    <2>1. CASE slock' = slock
      <3>1. sess' = sess /\ UNCHANGED cancel
        BY <1>2, <2>1, LimitResumeAssumption DEF HandlerParks
      <3>2. \A x \in Handler : hand'[x].pc \in {"parked", "aborted"} => hand'[x] = hand[x]
        BY <1>2, <2>1, LimitResumeAssumption DEF HandlerParks, TypeOK
      <3> QED
        BY <2>1, <3>1, <3>2 DEF LockInv, Over
    <2>2. CASE slock' # slock
      <3>1. /\ sess' = [sess EXCEPT !.kind = "parked", !.event = h, !.blocked = FALSE]
            /\ hand' = [hand EXCEPT ![h].pc = "parked"] /\ slock = None /\ slock' = h
            /\ ActsOnItsAnswer /\ OwnsIntent(rec, h, hand[h].gen) /\ UNCHANGED <<rec, user, cancel>>
            /\ sess.kind \in {"live", "compact", "parked"}
        BY <1>2, <2>2 DEF HandlerParks
      <3>2. sess'.kind = "parked" /\ sess'.event = h
        BY <3>1 DEF TypeOK
      <3>3. \A x \in Handler : x # h => hand'[x] = hand[x]
        BY <3>1 DEF TypeOK
      <3>4. hand'[h].pc = "parked"
        BY <3>1 DEF TypeOK
      <3>5. \A x \in Handler : hand[x].pc \notin {"parked", "aborted"}
        BY <3>1, LimitResumeAssumption DEF LockInv, Over
      <3>6. ~Holding /\ ~Holding'
        BY <3>1 DEF ActsOnItsAnswer, ChildrenKept, Holding
      <3>7. LockInv'
        BY <3>1, <3>2, <3>3, <3>4, <3>5, LimitResumeAssumption DEF LockInv
      <3> QED
        BY <3>1, <3>2, <3>6, <3>7 DEF OwnsIntent
    <2> QED
      BY <2>1, <2>2
  <1>3. CASE HandlerActivates(h)
    <2>1. UNCHANGED <<sess, cancel>> /\ slock' = None /\ hand[h].pc = "parked"
      BY <1>3 DEF HandlerActivates
    <2>2. hand'[h].pc = "done" /\ \A x \in Handler : x # h => hand'[x] = hand[x]
      BY <1>3 DEF HandlerActivates, TypeOK
    <2>3. slock = h
      BY <2>1 DEF LockInv
    <2> QED
      BY <2>1, <2>2, <2>3, LimitResumeAssumption DEF LockInv, Over
  <1>4. CASE HandlerAborts(h)
    <2>1. UNCHANGED <<sess, slock, cancel>> /\ hand[h].pc = "failed"
      BY <1>4 DEF HandlerAborts
    <2>2. \A x \in Handler : x # h => hand'[x] = hand[x]
      BY <1>4 DEF HandlerAborts, TypeOK
    <2>3. hand'[h].pc \in {"aborted", "done"}
          /\ (hand'[h].pc = "aborted" => OwnsIntent(rec, h, hand[h].gen))
      BY <1>4 DEF HandlerAborts, TypeOK
    <2>4. hand'[h].pc = "aborted" => Over
      BY <2>1, <2>3 DEF GenInv, LedgerInv, IntentInv
    <2> QED
      BY <2>1, <2>2, <2>3, <2>4 DEF LockInv, Over
  <1>5. CASE HandlerFallsBack(h)
    <2>1. UNCHANGED <<sess, slock, cancel>>
      BY <1>5 DEF HandlerFallsBack
    <2>2. hand'[h].pc = "done" /\ \A x \in Handler : x # h => hand'[x] = hand[x]
      BY <1>5 DEF HandlerFallsBack, TypeOK
    <2> QED
      BY <2>1, <2>2 DEF LockInv, Over
  <1>6. ~HandlerDies(h)
    BY DEF HandlerDies, HandlerFails, Spend, IntentsHold
  <1> QED
    BY <1>1, <1>2, <1>3, <1>4, <1>5, <1>6 DEF HandlerStep

LEMMA StopHandlers ==
    ASSUME IntentsHold, ChildrenKept, TypeOK, PhaseInv, GenInv, LockInv, StopInv, NEW h \in Handler,
           HandlerFiles(h) \/ HandlerStep(h) \/ HandlerDies(h)
    PROVE  StopInv'
  <1>k. rec'.att = rec.att /\ (Holding' => Holding)
    BY HandlerKeepsAttempt
  <1> SUFFICES ASSUME NEW x \in Handler, hand'[x].pc = "parked", Holding' \/ Dispatchable(rec')
               PROVE  rec'.att = None
    BY DEF StopInv
  <1>1. CASE hand[x].pc = "parked" /\ (Holding \/ Dispatchable(rec))
    BY <1>k, <1>1 DEF StopInv
  <1>2. CASE hand[x].pc # "parked"
    <2>1. HandlerParks(h) /\ hand' = [hand EXCEPT ![h].pc = "parked"]
      BY <1>2 DEF HandlerStep, HandlerFiles, HandlerParks, HandlerActivates, HandlerAborts,
           HandlerFallsBack, HandlerDies, TypeOK
    <2>2. slock' # slock
      <3>1. h \in Handler /\ None \notin Handler
        BY LimitResumeAssumption
      <3>2. hand'[h].pc = "parked"
        BY <2>1 DEF TypeOK
      <3>3. [hand EXCEPT ![h].pc = "failed"][h].pc = "failed"
        BY DEF TypeOK
      <3> QED
        BY <2>1, <3>1, <3>2, <3>3 DEF HandlerParks
    <2>3. ActsOnItsAnswer /\ OwnsIntent(rec, h, hand[h].gen) /\ UNCHANGED <<rec, user>>
      BY <2>1, <2>2 DEF HandlerParks
    <2> QED
      BY <2>3 DEF ActsOnItsAnswer, ChildrenKept, Holding, OwnsIntent, Dispatchable
  <1>3. CASE hand[x].pc = "parked" /\ ~Holding /\ ~Dispatchable(rec)
    <2>1. slock = x /\ sess.kind = "parked" /\ ~Over
      BY <1>3 DEF LockInv, Over
    <2>2. Dispatchable(rec') /\ rec' # rec
      BY <1>k, <1>3
    <2>3. CASE HandlerFiles(h)
      BY <2>1, <2>2, <2>3 DEF HandlerFiles, UpsertStop, Dispatchable
    <2>4. CASE HandlerActivates(h)
      <3>1. h = x
        BY <2>1, <2>4 DEF HandlerActivates, LockInv
      <3>2. hand'[h].pc = "done"
        BY <2>4 DEF HandlerActivates, TypeOK
      <3> QED
        BY <3>1, <3>2
    <2>5. CASE HandlerAborts(h)
      <3>1. OwnsIntent(rec, h, hand[h].gen)
        BY <2>2, <2>5 DEF HandlerAborts
      <3> QED
        BY <2>1, <2>5, <3>1 DEF HandlerAborts, GenInv, LedgerInv, IntentInv
    <2>6. CASE HandlerFallsBack(h)
      BY <2>1, <2>6 DEF HandlerFallsBack, LockInv
    <2>7. CASE HandlerParks(h) \/ HandlerDies(h)
      BY <2>2, <2>7 DEF HandlerParks, HandlerDies
    <2> QED
      BY <2>3, <2>4, <2>5, <2>6, <2>7 DEF HandlerStep
  <1> QED
    BY <1>1, <1>2, <1>3

LEMMA ChildHandlers ==
    ASSUME IntentsHold, ChildrenKept, TypeOK, TypeOK', PhaseInv, GenInv, ChildInv, NEW h \in Handler,
           HandlerFiles(h) \/ HandlerStep(h) \/ HandlerDies(h)
    PROVE  ChildInv'
  <1>c. AttemptInv /\ DueInv /\ UserInv /\ RaceInv /\ LockInv /\ StopInv
    BY DEF ChildInv
  <1>r. rec \in RecordType
    BY DEF TypeOK
  <1>k. /\ rec'.att = rec.att /\ UNCHANGED <<waker, mine, cancel, evid, V>>
        /\ \A a \in Attempt : Loose(a)' => Loose(a)
        /\ Settled(V) /\ rec'.gen = V.gen => rec' = rec
        /\ rec'.status = "resuming" => rec' = rec
        /\ rec' # rec /\ rec'.att # None => rec'.att.gen < rec'.gen
        /\ Wakeable(rec') => \/ rec' = rec
                             \/ hand[h].pc = "parked" /\ sess' = sess /\ rec'.status = "stopped"
        /\ Holding' => Holding /\ user'.at = user.at
    BY HandlerKeepsAttempt
  <1>s. /\ LockInv'
        /\ \/ sess' = sess
           \/ /\ ~Holding /\ ~Holding' /\ slock = None /\ rec' = rec /\ rec.status = "preparing"
              /\ sess'.kind = "parked"
    BY <1>c, HandlerSessions
  <1>v. waker.pc = "claim" => Settled(V)
    BY DEF GenInv, VerdictInv, Dispatchable, Settled
  <1>1. AttemptInv'
    BY <1>c, <1>k, AttemptFrame
  <1>2. DueInv'
    BY <1>c, <1>k, <1>v DEF DueInv, Dispatches
  <1>3. UserInv'
    BY <1>c, <1>k, <1>s, <1>v DEF UserInv, CanClaim, V
  <1>4. StopInv'
    BY <1>c, StopHandlers
  <1>a. rec'.att # None => rec'.att = rec.att /\ (Active(rec.att.id)' => Active(rec.att.id))
    <2>1. rec.att # None => rec.att.id \in Attempt
      BY <1>r, FieldTypes
    <2> QED
      BY <1>k, <2>1 DEF Active
  <1>5. ASSUME rec'.att # None, Active(rec.att.id)', Wakeable(rec')
        PROVE  \/ sess'.kind = "gone"
               \/ /\ sess'.kind = "parked" /\ ~Holding'
                  /\ rec'.status = "resuming" => sess'.event = rec'.event
    <2>1. CASE rec' = rec
      <3>1. sess' = sess
        BY <1>s, <1>5, <2>1 DEF Wakeable, CanTakeOver
      <3> QED
        BY <1>c, <1>k, <1>a, <1>5, <2>1, <3>1 DEF RaceInv
    <2>2. CASE hand[h].pc = "parked" /\ sess' = sess /\ rec'.status = "stopped"
      BY <1>c, <1>k, <1>5, <2>2 DEF LockInv, StopInv
    <2> QED
      BY <1>k, <1>5, <2>1, <2>2
  <1>6. ASSUME user'.at = "go", rec'.att # None, rec'.att.gen = rec'.gen
        PROVE  ~Active(rec.att.id)'
    <2>1. rec' = rec
      <3>1. rec'.att.gen \in Nat
        BY <1>6, FieldTypes DEF TypeOK
      <3> QED
        BY <1>k, <1>6, <3>1
    <2>2. user.at = "go"
      BY <1>k, <1>6 DEF Holding
    <2> QED
      BY <1>c, <1>a, <1>6, <2>1, <2>2 DEF RaceInv
  <1>7. RaceInv'
    BY <1>5, <1>6 DEF RaceInv
  <1> QED
    BY <1>1, <1>2, <1>3, <1>4, <1>7, <1>s DEF ChildInv

LEMMA UserKeepsAttempt ==
    ASSUME TypeOK, UserCloses \/ UserStep \/ StopHookReads \/ StopHookMarks \/ ProjectVanishes
    PROVE  /\ rec'.att = rec.att /\ rec'.gen = rec.gen /\ rec'.mode = rec.mode
           /\ UNCHANGED <<waker, mine, cancel, hand, slock, V>>
           /\ \A a \in Attempt : Loose(a)' => Loose(a)
           /\ \/ rec' = rec
              \/ /\ rec.status \in {"resuming", "stopped", "deferred", "interactive"}
                 /\ rec'.status \in {"interactive", "resumed"}
              \/ /\ rec.att = None /\ rec.status \in {"manual", "failed"}
                 /\ rec'.status = "stopped" /\ user.at = "away" /\ user' = user
           /\ \/ sess' = sess
              \/ slock = None /\ (sess'.kind = "gone" \/ (UserResumes /\ rec' = rec))
  <1>r. rec \in RecordType
    BY DEF TypeOK
  <1>1. CASE UserTakesOver
    BY <1>r, <1>1 DEF UserTakesOver, MarkInteractive, CanTakeOver, RecordType, RecordTypeOver, V,
       Loose, TypeOK
  <1>2. CASE UserRequeues
    BY <1>r, <1>2 DEF UserRequeues, RequeueRecord, RecordType, RecordTypeOver, V, Loose
  <1>3. CASE StopHookMarks
    BY <1>r, <1>3 DEF StopHookMarks, MarkResumed, RecordType, RecordTypeOver, V, Loose
  <1>4. CASE ProjectVanishes
    BY <1>4 DEF ProjectVanishes, TypeOK, V, Loose
  <1>5. CASE UserCloses \/ UserReopens \/ UserResumes \/ StopHookReads
    BY <1>5 DEF UserCloses, UserReopens, UserResumes, StopHookReads, V, Loose
  <1> QED
    BY <1>1, <1>2, <1>3, <1>4, <1>5 DEF UserStep

\* Who is told to resume, and when.
LEMMA ToldToResume ==
    ASSUME TypeOK, Sound(rec), Holding', ~Holding,
           UserCloses \/ UserStep \/ StopHookReads \/ StopHookMarks \/ ProjectVanishes
    PROVE  /\ UNCHANGED sess
           /\ \/ /\ rec' = rec /\ user'.at = "told"
                 /\ \/ sess.kind = "compact"
                    \/ ~Wakeable(rec) /\ (rec.att # None => Dispatchable(rec))
              \/ rec'.status = "interactive" /\ Dispatchable(rec)
  <1>1. CASE UserReopens
    <2>1. /\ UNCHANGED <<rec, sess>> /\ sess.kind \in {"parked", "compact"}
          /\ \/ sess.kind = "compact" /\ user'.at = "told"
             \/ ~Wakeable(rec) /\ user'.at = Answer(rec)
      BY <1>1 DEF UserReopens, NotReading, Holding, Wakeable
    <2>2. Answer(rec) \in {"wait", "told"}
      BY DEF Answer
    <2>3. Answer(rec) = "told" /\ rec.att # None => Dispatchable(rec)
      BY DEF Answer, Sound, Pending, Terminal
    <2> QED
      BY <2>1, <2>2, <2>3 DEF Holding
  <1>2. CASE UserTakesOver
    <2>1. CanTakeOver(rec) /\ rec' = MarkInteractive(rec) /\ ~StandsDown /\ UNCHANGED sess
      BY <1>2 DEF UserTakesOver, NotReading, Holding
    <2>2. rec'.status = "interactive"
      BY <2>1 DEF MarkInteractive, TypeOK, RecordType, RecordTypeOver
    <2> QED
      BY <2>1, <2>2 DEF CanTakeOver, StandsDown, Dispatchable
  <1>3. CASE UserCloses \/ UserResumes
    BY <1>3 DEF UserCloses, UserResumes, NotReading, Holding
  <1>4. CASE UserRequeues \/ StopHookReads \/ StopHookMarks \/ ProjectVanishes
    BY <1>4 DEF UserRequeues, StopHookReads, StopHookMarks, ProjectVanishes, Holding
  <1> QED
    BY <1>1, <1>2, <1>3, <1>4 DEF UserStep

LEMMA ChildUsers ==
    ASSUME TypeOK, TypeOK', PhaseInv, GenInv, ChildInv,
           UserCloses \/ UserStep \/ StopHookReads \/ StopHookMarks \/ ProjectVanishes
    PROVE  ChildInv'
  <1>c. AttemptInv /\ DueInv /\ UserInv /\ RaceInv /\ LockInv /\ StopInv
    BY DEF ChildInv
  <1>r. rec \in RecordType /\ Sound(rec)
    BY DEF TypeOK, GenInv, LedgerInv
  <1>k. /\ rec'.att = rec.att /\ rec'.gen = rec.gen /\ rec'.mode = rec.mode
        /\ UNCHANGED <<waker, mine, cancel, hand, slock, V>>
        /\ \A a \in Attempt : Loose(a)' => Loose(a)
        /\ \/ rec' = rec
           \/ /\ rec.status \in {"resuming", "stopped", "deferred", "interactive"}
              /\ rec'.status \in {"interactive", "resumed"}
           \/ /\ rec.att = None /\ rec.status \in {"manual", "failed"}
              /\ rec'.status = "stopped" /\ user.at = "away" /\ user' = user
        /\ \/ sess' = sess
           \/ slock = None /\ (sess'.kind = "gone" \/ (UserResumes /\ rec' = rec))
    BY UserKeepsAttempt
  <1>h. Holding' /\ ~Holding =>
           /\ UNCHANGED sess
           /\ \/ /\ rec' = rec /\ user'.at = "told"
                 /\ \/ sess.kind = "compact"
                    \/ ~Wakeable(rec) /\ (rec.att # None => Dispatchable(rec))
              \/ rec'.status = "interactive" /\ Dispatchable(rec)
    BY <1>r, ToldToResume
  <1>u. UserResumes => Holding /\ ~Holding'
    BY DEF UserResumes, NotReading, Holding
  <1>v. waker.pc = "claim" => Settled(V)
    BY DEF GenInv, VerdictInv, Dispatchable, Settled
  <1>1. AttemptInv'
    BY <1>c, <1>k, AttemptFrame
  <1>2. DueInv'
    BY <1>c, <1>k DEF DueInv, Dispatches
  <1>3. LockInv'
    <2>1. Over => Over'
      BY UserKeepsSession DEF SessionKeeps
    <2> QED
      BY <1>c, <1>k, <2>1, LimitResumeAssumption DEF LockInv
  <1>4. StopInv'
    BY <1>c, <1>k, <1>h DEF StopInv, LockInv, Dispatchable
  <1>5. UserInv'
    <2> SUFFICES ASSUME Holding', sess'.kind = "parked"
                 PROVE  /\ waker'.pc = "claim" /\ V'.mode = "headless" => ~CanClaim'
                        /\ waker'.pc \in {"check", "file"} => rec'.status # "resuming"
      BY DEF UserInv
    <2>1. sess' = sess
      BY <1>k, <1>u
    <2>2. CASE Holding
      BY <1>c, <1>k, <2>1, <2>2 DEF UserInv, CanClaim, Dispatchable, V, Holding
    <2>3. CASE ~Holding
      <3>1. (rec' = rec /\ ~Wakeable(rec)) \/ rec'.status = "interactive"
        BY <1>h, <2>1, <2>3
      <3>2. waker.pc = "claim" /\ V.mode = "headless" /\ CanClaim => Wakeable(rec)
        BY <1>v DEF CanClaim, GenInv, ViewInv, Wakeable, CanTakeOver, Dispatchable, V
      <3>3. rec.status = "resuming" => Wakeable(rec)
        BY <1>r DEF Sound, Wakeable, CanTakeOver
      <3> QED
        BY <1>k, <3>1, <3>2, <3>3 DEF CanClaim, Dispatchable, V
    <2> QED
      BY <2>2, <2>3
  <1>a. rec.att # None => (Active(rec.att.id)' => Active(rec.att.id))
    <2>1. rec.att # None => rec.att.id \in Attempt
      BY <1>r, FieldTypes
    <2> QED
      BY <1>k, <2>1 DEF Active
  <1>6. ASSUME rec.att # None, Active(rec.att.id)', Wakeable(rec')
        PROVE  \/ sess'.kind = "gone"
               \/ /\ sess'.kind = "parked" /\ ~Holding'
                  /\ rec'.status = "resuming" => sess'.event = rec'.event
    <2>1. rec' = rec
      BY <1>k, <1>6 DEF Wakeable, CanTakeOver
    <2>2. \/ sess.kind = "gone"
          \/ /\ sess.kind = "parked" /\ ~Holding
             /\ rec.status = "resuming" => sess.event = rec.event
      BY <1>c, <1>a, <1>6, <2>1 DEF RaceInv
    <2>3. sess' = sess \/ sess'.kind = "gone"
      <3>1. UserResumes => sess' = sess
        BY <1>u, <2>2 DEF UserResumes, Resumable
      <3> QED
        BY <1>k, <3>1
    <2>4. sess.kind = "parked" /\ ~Holding => ~Holding'
      BY <1>h, <1>6, <2>1 DEF Wakeable, CanTakeOver
    <2> QED
      BY <2>1, <2>2, <2>3, <2>4
  <1>7. ASSUME user'.at = "go", rec.att # None, rec.att.gen = rec.gen
        PROVE  ~Active(rec.att.id)'
    <2>1. Holding'
      BY <1>7 DEF Holding
    <2>2. ~Dispatchable(rec)
      BY <1>r, <1>7, FieldTypes DEF Sound, Dispatchable
    <2>3. Holding
      BY <1>7, <1>h, <2>1, <2>2
    <2>4. user.at = "go"
      BY <1>7, <2>3 DEF UserCloses, UserStep, UserReopens, UserTakesOver, UserResumes, UserRequeues,
             StopHookReads, StopHookMarks, ProjectVanishes, NotReading, Holding
    <2> QED
      BY <1>c, <1>a, <1>7, <2>4 DEF RaceInv
  <1>8. RaceInv'
    BY <1>k, <1>6, <1>7 DEF RaceInv
  <1> QED
    BY <1>1, <1>2, <1>3, <1>4, <1>5, <1>8 DEF ChildInv

LEMMA ChildChildren ==
    ASSUME TypeOK, TypeOK', PhaseInv, GenInv, ChildInv,
           NEW a \in Attempt, ChildStarts(a) \/ ChildResumes(a) \/ ChildEnds(a)
    PROVE  ChildInv'
  <1>c. AttemptInv /\ DueInv /\ UserInv /\ RaceInv /\ LockInv /\ StopInv
    BY DEF ChildInv
  <1>r. rec \in RecordType /\ Sound(rec)
    BY DEF TypeOK, GenInv, LedgerInv
  <1>k. /\ UNCHANGED <<rec, waker, mine, cancel, hand, slock, user, V>>
        /\ \A x \in Attempt : Loose(x)' => Loose(x)
        /\ sess' = sess \/ slock = None
        /\ Over => Over'
    <2>1. UNCHANGED <<rec, waker, mine, cancel, hand, slock, user, V>>
      BY DEF ChildStarts, ChildResumes, ChildEnds, V
    <2>2. \A x \in Attempt : Loose(x)' => Loose(x)
      <3>1. \/ child' = [child EXCEPT ![a] = "live"] /\ child[a] = "fresh"
            \/ \E at \in {"idle", "joined", "gone"} : child' = [child EXCEPT ![a] = at]
        BY DEF ChildStarts, ChildResumes, ChildEnds
      <3> QED
        BY <3>1 DEF Loose, TypeOK
    <2>3. sess' = sess \/ slock = None
      BY DEF ChildStarts, ChildResumes, ChildEnds
    <2> QED
      BY <2>1, <2>2, <2>3, ChildrenKeepSession DEF SessionKeeps
  <1>1. AttemptInv'
    BY <1>c, <1>k, AttemptFrame
  <1>2. DueInv' /\ StopInv'
    BY <1>c, <1>k DEF DueInv, Dispatches, StopInv, Holding
  <1>3. LockInv'
    BY <1>c, <1>k, LimitResumeAssumption DEF LockInv
  <1>4. UserInv'
    <2>1. sess'.kind = "parked" => sess.kind = "parked"
      BY ChildrenKeepSession DEF SessionKeeps
    <2> QED
      BY <1>c, <1>k, <2>1 DEF UserInv, Holding, CanClaim, V
  <1>5. ASSUME rec.att # None, Active(rec.att.id)', Wakeable(rec)
        PROVE  \/ sess'.kind = "gone"
               \/ /\ sess'.kind = "parked" /\ ~Holding
                  /\ rec.status = "resuming" => sess'.event = rec.event
    <2>1. rec.att.id \in Attempt /\ Active(rec.att.id)
      BY <1>r, <1>k, <1>5, FieldTypes DEF Active
    <2>2. \/ sess.kind = "gone"
          \/ /\ sess.kind = "parked" /\ ~Holding
             /\ rec.status = "resuming" => sess.event = rec.event
      BY <1>c, <1>5, <2>1 DEF RaceInv
    <2>3. CASE ChildStarts(a)
      BY <2>2, <2>3 DEF ChildStarts
    <2>4. CASE ChildEnds(a)
      <3>1. PICK owner : sess' = [sess EXCEPT !.kind = sess.kind, !.owner = owner]
        BY <2>2, <2>4 DEF ChildEnds
      <3>2. sess'.kind = sess.kind /\ sess'.event = sess.event
        BY <3>1 DEF TypeOK
      <3> QED
        BY <2>2, <3>2
    <2>5. CASE ChildResumes(a)
      <3>1. child[a] = "live" /\ Has(rec, a) /\ (rec.att.pid \/ waker.pc = "record")
        BY <1>c, <2>5 DEF ChildResumes, AttemptInv, NamedInv, Loose
      <3>2. ~Loose(a)'
        BY <2>5 DEF ChildResumes, Loose, TypeOK
      <3>3. waker.pc # "spawn"
        BY <1>c, <3>1 DEF AttemptInv, DispatchInv, Dispatches
      <3> QED
        BY <1>k, <1>5, <3>1, <3>2, <3>3 DEF Active, Has
    <2> QED
      BY <2>3, <2>4, <2>5
  <1>6. RaceInv'
    <2>1. rec.att # None => (Active(rec.att.id)' => Active(rec.att.id))
      BY <1>r, <1>k, FieldTypes DEF Active
    <2> QED
      BY <1>c, <1>k, <1>5, <2>1 DEF RaceInv, Holding
  <1> QED
    BY <1>1, <1>2, <1>3, <1>4, <1>6 DEF ChildInv

LEMMA CancelKeepsRecord ==
    ASSUME TypeOK,
           (\E how \in {"limit-status", "stop"} : CancelBegins(how)) \/ CancelStep \/ CancelDies
    PROVE  /\ rec'.gen = rec.gen /\ rec'.att \in {rec.att, None}
           /\ rec'.att # rec.att => CancelClears
           /\ UNCHANGED <<waker, mine, hand, user, V>>
           /\ \A a \in Attempt : Loose(a)' => Loose(a)
           /\ Wakeable(rec') \/ Dispatchable(rec') \/ rec'.status = "resuming" => rec' = rec
           /\ sess' = sess \/ CancelUnparks
  <1>r. rec \in RecordType
    BY DEF TypeOK
  <1> USE DEF Wakeable, CanTakeOver, Dispatchable
  <1>1. UNCHANGED <<waker, mine, hand, user, V>>
    BY DEF CancelBegins, CancelStep, CancelKills, CancelClears, CancelUnparks, CancelCompletes,
           CancelDies, V
  <1>2. CASE \E how \in {"limit-status", "stop"} : CancelBegins(how)
    <2>1. rec' = [rec EXCEPT !.status = "cancelling"] /\ UNCHANGED <<child, sess>>
      BY <1>2 DEF CancelBegins, BeginCancellation
    <2> QED
      BY <1>r, <1>1, <2>1 DEF RecordType, RecordTypeOver, Loose
  <1>3. CASE CancelKills
    <2>1. /\ sess' = sess
          /\ rec' = rec \/ rec' = BlockCancellation(rec)
          /\ \A a \in Attempt : Loose(a)' => Loose(a)
      BY <1>3 DEF CancelKills, Loose, TypeOK
    <2> QED
      BY <1>r, <1>1, <2>1 DEF BlockCancellation, RecordType, RecordTypeOver
  <1>4. CASE CancelClears
    BY <1>r, <1>1, <1>4 DEF CancelClears, ClearCancellingAttempt, InCancelFlow, RecordType,
       RecordTypeOver, Loose
  <1>5. CASE CancelUnparks \/ CancelDies
    BY <1>r, <1>1, <1>5 DEF CancelUnparks, CancelDies, Loose
  <1>6. CASE CancelCompletes
    BY <1>r, <1>1, <1>6 DEF CancelCompletes, CompleteCancellation, InCancelFlow, RecordType,
       RecordTypeOver, Loose
  <1> QED
    BY <1>2, <1>3, <1>4, <1>5, <1>6 DEF CancelStep

\* A claim of the living waker is never in the way of a cancel command: it is left
\* to the waker, which is at work on it.
LEMMA ClaimsAreLeftAlone ==
    ASSUME PhaseInv, AttemptInv, rec.att = None \/ ~BareAndClaimed(rec.att)
    PROVE  /\ ~Dispatches
           /\ rec.att # None /\ ~rec.att.pid => ~Loose(rec.att.id) \/ rec.att.id \notin Attempt
           /\ rec.att = None => \A a \in Attempt : ~Loose(a)
  <1>1. ~Dispatches
    BY DEF Dispatches, DispatchInv, AttemptInv, BareAndClaimed, ClaimAbandoned, PhaseInv
  <1> QED
    BY <1>1 DEF AttemptInv, NamedInv, Dispatches, Has

LEMMA CancelAttempts ==
    ASSUME TypeOK, TypeOK', PhaseInv, GenInv, AttemptInv, DueInv,
           (\E how \in {"limit-status", "stop"} : CancelBegins(how)) \/ CancelStep \/ CancelDies
    PROVE  AttemptInv' /\ DueInv'
  <1>k. /\ rec'.gen = rec.gen /\ rec'.att \in {rec.att, None}
        /\ rec'.att # rec.att => CancelClears
        /\ UNCHANGED <<waker, mine, hand, user, V>>
        /\ \A a \in Attempt : Loose(a)' => Loose(a)
    BY CancelKeepsRecord
  <1>t. /\ waker.pc = "commit" => V.att.id \in Attempt
        /\ cancel.view.att # None => cancel.view.att.id \in Attempt
        /\ cancel'.view.att # None => cancel'.view.att.id \in Attempt
        /\ rec.att # None => rec.att.id \in Attempt
    BY FieldTypes DEF TypeOK, PhaseInv, V
  <1>n. cancel.pc = "clear" /\ (rec.att = None \/ Has(rec, cancel.view.att.id))
           => \A a \in Attempt : ~Loose(a)
    BY DEF AttemptInv, NamedInv, DeathInv, CancelDeaths, Has
  <1>w. /\ WakerDeaths'
        /\ waker'.pc = "claim" /\ rec'.gen = V'.gen => rec'.att = None
    <2>1. WakerDeaths'
      BY <1>k, <1>t DEF AttemptInv, DeathInv, WakerDeaths
    <2>2. waker'.pc = "claim" /\ rec'.gen = V'.gen => rec'.att = None
      BY <1>k DEF DueInv
    <2> QED
      BY <2>1, <2>2
  <1>1. CASE \E how \in {"limit-status", "stop"} : CancelBegins(how)
    <2>1. /\ cancel.pc = "idle" /\ UNCHANGED child /\ rec'.att = rec.att /\ rec'.status = "cancelling"
          /\ \/ UNCHANGED cancel
             \/ /\ rec.att = None \/ ~BareAndClaimed(rec.att)
                /\ cancel'.view = rec'
                /\ cancel'.pc = IF rec.att = None THEN "unpark"
                                ELSE IF rec.att.pid THEN "kill" ELSE "clear"
      BY <1>1 DEF CancelBegins, BeginCancellation, TypeOK, RecordType, RecordTypeOver
    <2>2. NamedInv' /\ DispatchInv'
      BY <1>k, <2>1 DEF AttemptInv, NamedInv, DispatchInv, Dispatches, Has
    <2>3. CASE UNCHANGED cancel
      BY <1>k, <1>w, <2>1, <2>2, <2>3 DEF AttemptInv, DeathInv, CancelDeaths, DueInv, Dispatches
    <2>4. CASE /\ rec.att = None \/ ~BareAndClaimed(rec.att)
               /\ cancel'.view = rec'
               /\ cancel'.pc = IF rec.att = None THEN "unpark"
                                ELSE IF rec.att.pid THEN "kill" ELSE "clear"
      <3>1. /\ ~Dispatches
            /\ rec.att # None /\ ~rec.att.pid => ~Loose(rec.att.id)
            /\ rec.att = None => \A a \in Attempt : ~Loose(a)
        BY <1>t, <2>4, ClaimsAreLeftAlone
      <3>2. DeathInv'
        BY <1>k, <1>w, <1>t, <2>1, <2>4, <3>1 DEF DeathInv, CancelDeaths
      <3>3. DueInv'
        BY <1>k, <1>w, <2>1, <3>1 DEF DueInv, Dispatches
      <3> QED
        BY <2>2, <3>2, <3>3 DEF AttemptInv
    <2> QED
      BY <2>1, <2>3, <2>4
  <1>2. CASE CancelKills
    <2>1. rec'.att = rec.att /\ cancel.pc = "kill"
      BY <1>k, <1>2 DEF CancelKills, CancelClears
    <2>2. NamedInv' /\ DispatchInv'
      BY <1>k, <2>1 DEF AttemptInv, NamedInv, DispatchInv, Dispatches, Has
    <2>3. \/ /\ cancel' = [cancel EXCEPT !.pc = "clear"] /\ rec' = rec
             /\ child' = [child EXCEPT ![cancel.view.att.id] = "gone"]
          \/ cancel' = NotCancelling
      BY <1>2 DEF CancelKills, CancelGoesTo, CancelOver
    <2>4. CASE cancel' = NotCancelling
      BY <1>k, <1>w, <2>2, <2>4 DEF AttemptInv, DeathInv, CancelDeaths, DueInv, NotCancelling
    <2>5. CASE /\ cancel' = [cancel EXCEPT !.pc = "clear"] /\ rec' = rec
               /\ child' = [child EXCEPT ![cancel.view.att.id] = "gone"]
      <3>1. cancel'.pc = "clear" /\ cancel'.view = cancel.view
        BY <2>5 DEF TypeOK
      <3>2. ~Loose(cancel.view.att.id)'
        BY <1>t, <2>1, <2>5, <3>1 DEF TypeOK, Loose, AttemptInv, DeathInv, CancelDeaths
      <3>3. DeathInv'
        BY <1>k, <1>w, <2>1, <2>5, <3>1, <3>2 DEF AttemptInv, DeathInv, CancelDeaths
      <3>4. DueInv'
        BY <1>k, <1>w, <2>1, <2>5, <3>1 DEF DueInv, Dispatches
      <3> QED
        BY <2>2, <3>3, <3>4 DEF AttemptInv
    <2> QED
      BY <2>3, <2>4, <2>5
  <1>3. CASE CancelClears
    <2>1. /\ cancel.pc = "clear" /\ UNCHANGED child
          /\ cancel'.pc = "unpark" /\ cancel'.view = cancel.view
          /\ rec' = ClearCancellingAttempt(rec, cancel.view.att.id)
      BY <1>3 DEF CancelClears, CancelGoesTo, TypeOK
    <2>2. \A a \in Attempt : ~Loose(a) /\ ~Loose(a)'
      BY <1>k, <1>n, <2>1 DEF AttemptInv, DeathInv, CancelDeaths, Has
    <2>3. NamedInv' /\ DispatchInv'
      BY <1>k, <2>1, <2>2 DEF NamedInv, DispatchInv, DueInv, Dispatches
    <2>4. DeathInv'
      BY <1>w, <2>1, <2>2 DEF DeathInv, CancelDeaths
    <2>5. rec'.status = rec.status
      BY <2>1 DEF ClearCancellingAttempt, TypeOK, RecordType, RecordTypeOver
    <2>6. DueInv'
      BY <1>k, <1>w, <2>1, <2>5 DEF DueInv, Dispatches
    <2> QED
      BY <2>3, <2>4, <2>6 DEF AttemptInv
  <1>4. CASE CancelUnparks
    <2>1. /\ cancel.pc = "unpark" /\ UNCHANGED <<child, rec>> /\ cancel'.pc = "complete"
      BY <1>4 DEF CancelUnparks, CancelGoesTo, TypeOK
    <2>2. NamedInv' /\ DispatchInv'
      BY <1>k, <2>1 DEF AttemptInv, NamedInv, DispatchInv, Dispatches, Has
    <2>3. DeathInv'
      BY <1>k, <1>w, <2>1 DEF AttemptInv, DeathInv, CancelDeaths
    <2>4. DueInv'
      BY <1>k, <1>w, <2>1 DEF DueInv, Dispatches
    <2> QED
      BY <2>2, <2>3, <2>4 DEF AttemptInv
  <1>5. CASE CancelCompletes \/ CancelDies
    <2>1. cancel' = NotCancelling /\ rec'.att = rec.att
      BY <1>k, <1>5 DEF CancelCompletes, CancelDies, CancelOver, CancelClears
    <2>2. NamedInv' /\ DispatchInv'
      BY <1>k, <2>1 DEF AttemptInv, NamedInv, DispatchInv, Dispatches, Has
    <2>3. DeathInv' /\ DueInv'
      BY <1>w, <2>1 DEF DeathInv, CancelDeaths, DueInv, NotCancelling
    <2> QED
      BY <2>2, <2>3 DEF AttemptInv
  <1> QED
    BY <1>1, <1>2, <1>3, <1>4, <1>5 DEF CancelStep

LEMMA CancelLocks ==
    ASSUME TypeOK, LockInv,
           (\E how \in {"limit-status", "stop"} : CancelBegins(how)) \/ CancelStep \/ CancelDies
    PROVE  LockInv'
  <1>1. (Over => Over') /\ hand' = hand
    BY CancelKeepsSession DEF SessionKeeps
  <1>2. CASE \E how \in {"limit-status", "stop"} : CancelBegins(how)
    BY <1>1, <1>2, LimitResumeAssumption DEF CancelBegins, LockInv
  <1>3. CASE CancelKills \/ CancelClears \/ CancelCompletes \/ CancelDies
    <2>1. /\ sess' = sess
          /\ \/ slock' = slock /\ cancel' = [cancel EXCEPT !.pc = cancel'.pc] /\ cancel.pc \in {"kill", "clear"}
             \/ cancel' = NotCancelling /\ slock' \in {slock, IF slock = "cli" THEN None ELSE slock}
      BY <1>3 DEF CancelKills, CancelClears, CancelCompletes, CancelDies, CancelGoesTo, CancelOver,
             TypeOK
    <2> QED
      BY <1>1, <2>1, LimitResumeAssumption DEF LockInv, NotCancelling, TypeOK
  <1>4. CASE CancelUnparks
    <2>1. cancel.pc = "unpark" /\ cancel' = [cancel EXCEPT !.pc = "complete"]
      BY <1>4 DEF CancelUnparks, CancelGoesTo
    <2>2. \/ UNCHANGED <<sess, slock>>
          \/ slock = None /\ slock' = None
          \/ slock = "cli" /\ slock' = None
      BY <1>4, <2>1 DEF CancelUnparks, LockInv
    <2> QED
      BY <1>1, <2>1, <2>2, LimitResumeAssumption DEF LockInv, TypeOK
  <1> QED
    BY <1>2, <1>3, <1>4 DEF CancelStep

LEMMA ChildCancels ==
    ASSUME TypeOK, TypeOK', PhaseInv, GenInv, ChildInv,
           (\E how \in {"limit-status", "stop"} : CancelBegins(how)) \/ CancelStep \/ CancelDies
    PROVE  ChildInv'
  <1>c. AttemptInv /\ DueInv /\ UserInv /\ RaceInv /\ LockInv /\ StopInv
    BY DEF ChildInv
  <1>k. /\ rec'.gen = rec.gen /\ rec'.att \in {rec.att, None}
        /\ UNCHANGED <<waker, mine, hand, user, V>>
        /\ \A a \in Attempt : Loose(a)' => Loose(a)
        /\ Wakeable(rec') \/ Dispatchable(rec') \/ rec'.status = "resuming" => rec' = rec
        /\ sess' = sess \/ CancelUnparks
    BY CancelKeepsRecord
  <1>s. sess'.kind = "parked" => sess.kind = "parked"
    BY CancelKeepsSession DEF SessionKeeps
  <1>1. AttemptInv' /\ DueInv' /\ LockInv'
    BY <1>c, CancelAttempts, CancelLocks
  <1>2. UserInv'
    BY <1>c, <1>k, <1>s DEF UserInv, Holding, CanClaim, V
  <1>3. StopInv'
    BY <1>c, <1>k DEF StopInv, Holding
  <1>4. RaceInv'
    <2>0. rec.att # None => rec.att.id \in Attempt
      BY FieldTypes DEF TypeOK
    <2>1. rec'.att # None => rec'.att = rec.att /\ (Active(rec.att.id)' => Active(rec.att.id))
      BY <1>k, <2>0 DEF Active
    <2>2. CASE sess' = sess
      BY <1>c, <1>k, <2>1, <2>2 DEF RaceInv, Holding
    <2>3. CASE CancelUnparks
      <3>1. rec.att # None => ~Active(rec.att.id)
        BY <1>c, <2>0, <2>3 DEF CancelUnparks, AttemptInv, DeathInv, CancelDeaths, DueInv, Dispatches,
           Active
      <3> QED
        BY <1>k, <2>1, <3>1 DEF RaceInv
    <2> QED
      BY <1>k, <2>2, <2>3
  <1> QED
    BY <1>1, <1>2, <1>3, <1>4 DEF ChildInv

\* What the waker does to a record, but for a claim: it drops the attempt or leaves
\* it, and makes nothing wakeable that has one.
Tame(r, s) ==
    /\ s.gen = r.gen /\ s.event = r.event
    /\ s.att # None =>
          /\ r.att # None /\ s.att.id = r.att.id /\ s.att.gen = r.att.gen
          /\ Wakeable(s) => Wakeable(r)
          /\ Dispatchable(s) => Dispatchable(r)
          /\ s.status = "resuming" => r.status = "resuming"

LEMMA ReflexiveTame ==
    ASSUME NEW r \in RecordType
    PROVE  Tame(r, r)
  BY DEF Tame

LEMMA FollowsTame ==
    ASSUME NEW r, NEW s, Follows(r, s), s.att = None \/ s.status = r.status
                                        \/ s.status \notin {"stopped", "deferred"}
    PROVE  Tame(r, s)
  BY DEF Follows, Tame, Wakeable, CanTakeOver, Dispatchable

LEMMA SettledTame ==
    ASSUME NEW r \in RecordType, NEW v, NEW w \in Verdicts \ {"none", "orphan"}, NEW pre \in BOOLEAN
    PROVE  /\ w \in Outcomes => \/ SettleAttempt(r, v.att.id, w, pre) = r
                                \/ SettleAttempt(r, v.att.id, w, pre).att = None
           /\ Committed(r, v, w) = r \/ Committed(r, v, w).att = None
           /\ Committed(r, v, w).att = None => r.att = None \/ Has(r, v.att.id)
           /\ w \in Outcomes /\ SettleAttempt(r, v.att.id, w, pre).att = None
                 => r.att = None \/ Has(r, v.att.id)
  <1> DEFINE Drops(s) == (s = r \/ s.att = None) /\ (s.att = None => r.att = None \/ Has(r, v.att.id))
  <1>1. /\ Drops(ClearSupersededAttempt(r, v.att.id)) /\ Drops(ClearConfirmedDeadAttempt(r, v.att.id))
        /\ Drops(ClearInteractiveAttempt(r, v.att.id)) /\ Drops(ClearCancellingAttempt(r, v.att.id))
    BY DEF ClearSupersededAttempt, ClearConfirmedDeadAttempt, ClearInteractiveAttempt,
           ClearCancellingAttempt, RecordType, RecordTypeOver
  <1>2. Drops(FailProjectGoneConfirmed(r, v.att.id, v.gen))
    BY DEF FailProjectGoneConfirmed, RecordType, RecordTypeOver
  <1>3. ASSUME NEW p \in BOOLEAN PROVE Drops(SettleAttempt(r, v.att.id, w, p))
    <2> DEFINE n == IF w = "deferred" /\ p THEN r.defers + 1 ELSE r.defers
    <2>1. \/ SettleAttempt(r, v.att.id, w, p) = r
          \/ /\ Has(r, v.att.id)
             /\ SettleAttempt(r, v.att.id, w, p) \in
                   {[r EXCEPT !.status = "failed", !.att = None],
                    [r EXCEPT !.status = w, !.blocked = FALSE, !.att = None, !.defers = n]}
      BY DEF SettleAttempt
    <2>2. /\ [r EXCEPT !.status = "failed", !.att = None].att = None
          /\ [r EXCEPT !.status = w, !.blocked = FALSE, !.att = None, !.defers = n].att = None
      <3> HIDE DEF n
      <3> QED
        BY DEF RecordType, RecordTypeOver
    <2> HIDE DEF n
    <2> QED
      BY <2>1, <2>2
  <1>4. Drops(Committed(r, v, w))
    <2> HIDE DEF Drops
    <2> QED
      BY <1>1, <1>2, <1>3 DEF Committed, Verdicts
  <1> QED
    BY <1>3, <1>4

LEMMA ReconciledTame ==
    ASSUME NEW r \in RecordType, NEW late \in BOOLEAN, Sound(r), r.status = "preparing" => OwnerAlive(r)
    PROVE  Tame(r, Reconciled(r, late))
  <1>f. Follows(r, Reconciled(r, late))
    BY ReconciledSteps
  <1>1. \/ Reconciled(r, late).att = None
        \/ Reconciled(r, late) = r
    <2>1. /\ MovedOn(r).att = None /\ (ProjectGone(r) = r \/ ProjectGone(r).att = None)
          /\ [r EXCEPT !.status = "stopped", !.att = None].att = None
          /\ r.att = None => /\ [r EXCEPT !.status = "stopped"].att = None
                             /\ [r EXCEPT !.status = "resumed"].att = None
      BY DEF MovedOn, ProjectGone, RecordType, RecordTypeOver
    <2> QED
      BY <2>1 DEF Reconciled, Sound
  <1> QED
    BY <1>f, <1>1, FollowsTame

LEMMA WakerTame ==
    ASSUME TypeOK, PhaseInv, GenInv,
           \/ WakerStarts \/ WakerDies \/ WakerSupervises \/ WakerKills \/ WakerCommits
           \/ WakerReconciles \/ WakerFinishesCancel \/ WakerUnparks \/ WakerCompletesCancel
           \/ WakerNotifies \/ WakerGivesUp \/ WakerSettles \/ WakerRecords \/ WakerNotesPid
           \/ WakerEndsTick \/ WakerSelects \/ WakerChecks \/ WakerFilesClaim \/ WakerSpawns
    PROVE  Tame(rec, rec')
  <1>r. rec \in RecordType /\ Sound(rec)
    BY DEF TypeOK, GenInv, LedgerInv
  <1>0. rec' = rec => Tame(rec, rec')
    BY <1>r, ReflexiveTame
  <1>1. CASE WakerCommits
    <2>1. CASE waker.verdict = "orphan"
      BY <1>0, <1>1, <2>1 DEF WakerCommits
    <2>2. CASE waker.verdict # "orphan"
      <3>1. rec' = Committed(rec, V, waker.verdict) /\ waker.pc = "commit"
        BY <1>1, <2>2 DEF WakerCommits, V
      <3>2. Follows(rec, rec')
        BY <2>2, <3>1, CommitSteps
      <3>3. rec' = rec \/ rec'.att = None
        BY <1>r, <2>2, <3>1, SettledTame DEF PhaseInv
      <3> QED
        BY <1>0, <3>2, <3>3, FollowsTame
    <2> QED
      BY <2>1, <2>2
  <1>2. CASE WakerSettles
    <2>1. rec' = SettleAttempt(rec, V.att.id, waker.verdict, TRUE) /\ waker.verdict \in Outcomes
      BY <1>2 DEF WakerSettles, PhaseInv, V
    <2>2. waker.verdict \in Verdicts \ {"none", "orphan"}
      BY <2>1 DEF Outcomes, Verdicts
    <2>3. Follows(rec, rec')
      BY <1>r, <2>1, SettleAttemptSteps
    <2>4. rec' = rec \/ rec'.att = None
      BY <1>r, <2>1, <2>2, SettledTame
    <2> QED
      BY <1>0, <2>3, <2>4, FollowsTame
  <1>3. CASE WakerReconciles
    <2>1. rec.status = "preparing" => OwnerAlive(rec)
      BY DEF GenInv, LedgerInv, IntentInv, OwnerAlive, HandlerRuns
    <2> QED
      BY <1>r, <1>3, <2>1, ReconciledTame DEF WakerReconciles, Late
  <1>4. CASE WakerKills
    <2>1. rec' = rec \/ rec' = BlockCancellation(rec)
      BY <1>4 DEF WakerKills
    <2>2. BlockCancellation(rec) = rec \/ BlockCancellation(rec).status = "manual"
      BY <1>r DEF BlockCancellation, RecordType, RecordTypeOver
    <2> QED
      BY <1>r, <1>0, <2>1, <2>2, BlockCancellationSteps, FollowsTame
  <1>5. CASE WakerCompletesCancel
    <2>1. rec' = CompleteCancellation(rec, V.gen)
      BY <1>5 DEF WakerCompletesCancel, V
    <2>2. rec' = rec \/ rec'.status = "cancelled"
      BY <1>r, <2>1 DEF CompleteCancellation, RecordType, RecordTypeOver
    <2> QED
      BY <1>r, <1>0, <2>1, <2>2, CompleteCancellationSteps, FollowsTame
  <1>6. CASE WakerNotifies
    <2>1. rec' = MarkNotified(rec, V.gen)
      BY <1>6 DEF WakerNotifies, V
    <2>2. rec' = rec \/ rec'.status = "notified"
      BY <1>r, <2>1 DEF MarkNotified, RecordType, RecordTypeOver
    <2> QED
      BY <1>r, <1>0, <2>1, <2>2, MarkNotifiedSteps, FollowsTame
  <1>7. CASE WakerGivesUp
    <2>1. rec' = FailRecord(rec, V.gen)
      BY <1>7 DEF WakerGivesUp, V
    <2>2. rec' = rec \/ rec'.status = "failed"
      BY <1>r, <2>1 DEF FailRecord, RecordType, RecordTypeOver
    <2> QED
      BY <1>r, <1>0, <2>1, <2>2, FailRecordSteps, FollowsTame
  <1>8. CASE WakerRecords
    <2>1. CASE CanRecordSpawn(rec, V.att.id)
      <3>1. rec' = RecordAttemptSpawn(rec, V.att.id)
        BY <1>8, <2>1 DEF WakerRecords, V
      <3> QED
        BY <1>r, <2>1, <3>1, RecordAttemptSpawnSteps
           DEF Tame, CanRecordSpawn, Has, Wakeable, CanTakeOver, Dispatchable
    <2>2. CASE ~CanRecordSpawn(rec, V.att.id)
      <3>1. rec' = AttachOrphanChildPid(rec, V.att.id)
        BY <1>8, <2>2 DEF WakerRecords, V
      <3>2. rec'.status = rec.status
        <4>1. \A att : [rec EXCEPT !.att = att].status = rec.status
          BY <1>r DEF RecordType, RecordTypeOver
        <4>2. rec' \in {rec, [rec EXCEPT !.att = [rec.att EXCEPT !.pid = TRUE]]}
          BY <1>r, <3>1 DEF AttachOrphanChildPid, RecordType, RecordTypeOver
        <4> QED
          BY <4>1, <4>2
      <3> QED
        BY <1>r, <3>1, <3>2, AttachOrphanChildPidSteps, FollowsTame
    <2> QED
      BY <2>1, <2>2
  <1>9. CASE \/ WakerStarts \/ WakerDies \/ WakerSupervises \/ WakerFinishesCancel \/ WakerUnparks
             \/ WakerNotesPid \/ WakerEndsTick \/ WakerSelects \/ WakerChecks \/ WakerFilesClaim
             \/ WakerSpawns
    BY <1>0, <1>9 DEF WakerStarts, WakerDies, WakerSupervises, WakerFinishesCancel, WakerUnparks,
       WakerNotesPid, WakerEndsTick, WakerSelects, WakerChecks, WakerFilesClaim, WakerSpawns
  <1> QED
    BY <1>1, <1>2, <1>3, <1>4, <1>5, <1>6, <1>7, <1>8, <1>9

\* What no step of the waker disturbs unless it gives the session back.
LEMMA WakerFrame ==
    ASSUME TypeOK, TypeOK', GenInv, ChildInv, Tame(rec, rec'),
           UNCHANGED <<hand, user, cancel, slock, sess>>,
           rec'.att # None => (Active(rec.att.id)' => Active(rec.att.id))
    PROVE  RaceInv' /\ LockInv' /\ StopInv'
  <1>c. RaceInv /\ LockInv /\ StopInv
    BY DEF ChildInv
  <1>1. LockInv'
    BY <1>c DEF LockInv, Over
  <1>2. StopInv'
    BY <1>c DEF StopInv, Tame, Holding
  <1>3. RaceInv'
    <2>1. CASE rec'.att = None
      BY <2>1 DEF RaceInv
    <2>2. CASE rec'.att # None
      <3>1. /\ rec.att # None /\ rec'.att.id = rec.att.id /\ rec'.att.gen = rec.att.gen
            /\ rec'.gen = rec.gen /\ rec'.event = rec.event
            /\ Wakeable(rec') => Wakeable(rec)
            /\ rec'.status = "resuming" => rec.status = "resuming"
        BY <2>2 DEF Tame
      <3> QED
        BY <1>c, <2>2, <3>1 DEF RaceInv, Holding
    <2> QED
      BY <2>1, <2>2
  <1> QED
    BY <1>1, <1>2, <1>3

\* A step of the waker that dispatches nothing.
LEMMA WakerAside ==
    ASSUME TypeOK, TypeOK', PhaseInv, GenInv, ChildInv, Tame(rec, rec'),
           UNCHANGED <<hand, user, cancel, slock, sess>>,
           \A a \in Attempt : Loose(a)' => Loose(a),
           waker'.pc \notin {"check", "file", "spawn", "record", "settle", "claim"},
           NamedInv', WakerDeaths'
    PROVE  ChildInv'
  <1>t. /\ cancel.view.att # None => cancel.view.att.id \in Attempt
        /\ rec'.att # None => rec'.att.id \in Attempt /\ rec'.att.id = rec.att.id /\ rec.att # None
    BY FieldTypes DEF TypeOK, Tame
  <1>1. DispatchInv' /\ DueInv' /\ UserInv'
    BY DEF DispatchInv, Dispatches, DueInv, UserInv
  <1>2. CancelDeaths'
    BY <1>t DEF ChildInv, AttemptInv, DeathInv, CancelDeaths
  <1>3. rec'.att # None => (Active(rec.att.id)' => Active(rec.att.id))
    BY <1>t DEF Active
  <1>4. RaceInv' /\ LockInv' /\ StopInv'
    BY <1>3, WakerFrame
  <1> QED
    BY <1>1, <1>2, <1>4 DEF ChildInv, AttemptInv, DeathInv

LEMMA NamedFrame ==
    ASSUME TypeOK, NamedInv, Follows(rec, rec'), waker.pc # "record",
           \A a \in Attempt : Loose(a)' => Loose(a),
           rec'.att = None => rec.att = None \/ ~Loose(rec.att.id)
    PROVE  NamedInv'
  BY FieldTypes DEF TypeOK, NamedInv, Has, Follows

\* An attempt whose child may be loose is dropped by no reconciliation.
LEMMA ReconciledKeepsChild ==
    ASSUME TypeOK, GenInv, ChildInv, NEW late \in BOOLEAN, waker.pc = "reconcile",
           rec.att # None, Reconciled(rec, late).att = None
    PROVE  ~Loose(rec.att.id)
  <1>r. rec \in RecordType /\ Sound(rec) /\ rec.att.id \in Attempt
    BY FieldTypes DEF TypeOK, GenInv, LedgerInv
  <1> SUFFICES ASSUME Loose(rec.att.id)
               PROVE  FALSE
    OBVIOUS
  <1>1. rec.att.pid /\ Running(rec.att.id)
    BY <1>r DEF ChildInv, AttemptInv, NamedInv, Loose, Running
  <1>2. Active(rec.att.id)
    BY DEF Active
  <1>3. Wakeable(rec) => sess.kind \in {"gone", "parked"}
    BY <1>2 DEF ChildInv, RaceInv
  <1>4. ~SessionAdvanced(rec) \/ ~Wakeable(rec)
    BY <1>3 DEF SessionAdvanced
  <1>5. ProjectGone(rec) = rec
    BY <1>1 DEF ProjectGone
  <1>6. rec.status = "preparing" => OwnerAlive(rec)
    BY DEF GenInv, LedgerInv, IntentInv, OwnerAlive, HandlerRuns
  <1>7. /\ rec.status = "resuming" => Wakeable(rec) /\ rec.att.gen = rec.gen
        /\ rec.status \notin {"absent", "cancelled", "resumed", "notified", "failed"}
        /\ rec.status = "manual" => InCancelFlow(rec)
    BY <1>r DEF Sound, Wakeable, CanTakeOver, InCancelFlow
  <1>8. Reconciled(rec, late).att # None
    <2>1. CASE rec.status = "preparing"
      BY <1>6, <2>1 DEF Reconciled
    <2>2. CASE rec.status \in {"manual", "stopped", "deferred"}
      BY <1>4, <1>5, <1>7, <2>2 DEF Reconciled, Wakeable, CanTakeOver, InCancelFlow
    <2>3. CASE rec.status = "resuming"
      BY <1>1, <1>4, <1>5, <1>7, <2>3 DEF Reconciled
    <2>4. CASE rec.status = "interactive"
      BY <2>4 DEF Reconciled
    <2>5. CASE rec.status \notin {"preparing", "manual", "stopped", "deferred", "resuming", "interactive",
                                  "resumed"}
      BY <2>5 DEF Reconciled
    <2> QED
      BY <1>7, <2>1, <2>2, <2>3, <2>4, <2>5
  <1> QED
    BY <1>8

LEMMA ChildWakerSupervises ==
    ASSUME TypeOK, TypeOK', PhaseInv, GenInv, ChildInv, WakerSupervises
    PROVE  ChildInv'
  <1>c. AttemptInv /\ RaceInv /\ NamedInv
    BY DEF ChildInv, AttemptInv
  <1>r. rec \in RecordType /\ Sound(rec)
    BY DEF TypeOK, GenInv, LedgerInv
  <1>u. /\ UNCHANGED <<rec, hand, user, cancel, slock, sess, child, mine>> /\ waker.pc = "supervise"
        /\ \A a \in Attempt : Loose(a)' => Loose(a)
    BY DEF WakerSupervises, Loose
  <1>1. PICK j \in Judgements(rec) :
            waker' = [pc |-> j.pc, view |-> IF j.pc = "reconcile" THEN Absent ELSE rec,
                      verdict |-> j.verdict]
    BY DEF WakerSupervises, AtWith
  <1>2. \/ j = Skip
        \/ j.pc \in {"kill", "commit"}
    <2>1. \/ j = Skip
          \/ \E w \in {"superseded", "dead", "interactive", "failed", "deferred", "resumed"} :
                j = Kill(w) \/ j = Settle(w)
      BY <1>r, JudgementsType
    <2> QED
      BY <2>1 DEF Kill, Settle
  <1>3. j.pc = "commit" =>
           /\ rec.status = "resuming" /\ rec.att # None /\ sess.kind # "gone"
           /\ ~SessionStillPending(rec) \/ ~Running(rec.att.id)
    <2>1. j.pc = "commit" => j \in {Settle("resumed"), Settle("deferred")}
      BY DEF Judgements, Skip, Kill, Settle
    <2> QED
      BY <2>1 DEF Judgements, Skip, Kill, Settle
  <1>4. j.pc = "commit" => ~Loose(rec.att.id)
    <2>1. rec.status = "resuming" => Wakeable(rec)
      BY <1>r DEF Sound, Wakeable, CanTakeOver
    <2> QED
      BY <1>c, <1>3, <2>1 DEF RaceInv, Active, SessionStillPending, Loose, Running
  <1>5. WakerDeaths'
    BY <1>1, <1>2, <1>4, <1>u DEF WakerDeaths, V, Skip, Loose
  <1>6. NamedInv'
    BY <1>c, <1>u DEF NamedInv, Has
  <1>7. waker'.pc \in {"reconcile", "kill", "commit"}
    BY <1>1, <1>2 DEF Skip
  <1> QED
    BY <1>r, <1>u, <1>5, <1>6, <1>7, ReflexiveTame, WakerAside

LEMMA ChildWakerKills ==
    ASSUME TypeOK, TypeOK', PhaseInv, GenInv, ChildInv, WakerKills
    PROVE  ChildInv'
  <1>c. NamedInv /\ WakerDeaths
    BY DEF ChildInv, AttemptInv, DeathInv
  <1>r. rec \in RecordType /\ Sound(rec) /\ V.att # None /\ V.att.id \in Attempt
    BY FieldTypes DEF TypeOK, PhaseInv, V, WakerKills, GenInv, LedgerInv
  <1>1. /\ waker.pc = "kill" /\ UNCHANGED <<hand, user, cancel, slock, sess>>
        /\ waker'.pc \in {"commit", "dispatch", "end", "reconcile"} /\ V' = V
        /\ Tame(rec, rec') /\ Follows(rec, rec')
    BY WakerTame, GenWakerLedger DEF WakerKills, At, TypeOK, V
  <1>2. /\ \A a \in Attempt : Loose(a)' => Loose(a)
        /\ waker'.pc = "commit" => rec' = rec /\ (V.att.pid => ~Loose(V.att.id)')
    BY <1>r DEF WakerKills, At, Loose, TypeOK, V
  <1>3. rec'.att = rec.att
    BY <1>r DEF WakerKills, BlockCancellation, RecordType, RecordTypeOver
  <1>4. NamedInv'
    BY <1>c, <1>1, <1>2, <1>3 DEF NamedInv, Has
  <1>5. WakerDeaths'
    <2>1. ~V.att.pid => ~Loose(V.att.id)
      BY <1>c, <1>r, <1>1 DEF NamedInv, WakerDeaths, Has
    <2> QED
      BY <1>c, <1>r, <1>1, <1>2, <2>1 DEF WakerDeaths
  <1> QED
    BY <1>1, <1>2, <1>4, <1>5, WakerAside

LEMMA ChildWakerCommits ==
    ASSUME TypeOK, TypeOK', PhaseInv, GenInv, ChildInv, WakerCommits
    PROVE  ChildInv'
  <1>c. NamedInv /\ WakerDeaths
    BY DEF ChildInv, AttemptInv, DeathInv
  <1>r. rec \in RecordType /\ (rec.att # None => rec.att.id = V.att.id)
    BY DEF TypeOK, GenInv, VerdictInv, WakerCommits
  <1>1. /\ waker.pc = "commit" /\ UNCHANGED <<hand, user, cancel, slock, sess, child>>
        /\ waker'.pc \in {"unpark", "dispatch", "end", "reconcile"}
        /\ waker.verdict = "orphan" => waker'.pc = "end" /\ rec' = rec
        /\ Tame(rec, rec') /\ Follows(rec, rec')
        /\ \A a \in Attempt : Loose(a)' => Loose(a)
    BY WakerTame, GenWakerLedger DEF WakerCommits, At, TypeOK, Loose
  <1>2. waker.verdict # "orphan" => \A a \in Attempt : ~Loose(a)
    BY <1>c, <1>r, <1>1 DEF NamedInv, WakerDeaths, Has
  <1>3. NamedInv'
    BY <1>c, <1>1, <1>2 DEF NamedInv, Has
  <1>4. WakerDeaths'
    BY <1>1, <1>2 DEF WakerDeaths
  <1> QED
    BY <1>1, <1>3, <1>4, WakerAside

LEMMA ChildWakerReconciles ==
    ASSUME TypeOK, TypeOK', PhaseInv, GenInv, ChildInv, WakerReconciles
    PROVE  ChildInv'
  <1>c. NamedInv
    BY DEF ChildInv, AttemptInv
  <1>1. /\ waker.pc = "reconcile" /\ UNCHANGED <<hand, user, cancel, slock, sess, child>>
        /\ Tame(rec, rec') /\ Follows(rec, rec')
        /\ \A a \in Attempt : Loose(a)' => Loose(a)
    BY WakerTame, GenWakerLedger DEF WakerReconciles, Loose
  <1>2. rec'.att = None => rec.att = None \/ ~Loose(rec.att.id)
    <2>1. PICK late \in BOOLEAN : rec' = Reconciled(rec, late)
      BY DEF WakerReconciles, Late
    <2> QED
      BY <1>1, <2>1, ReconciledKeepsChild
  <1>3. NamedInv'
    BY <1>c, <1>1, <1>2, NamedFrame
  <1>4. \/ waker' = [pc |-> "kill", view |-> rec, verdict |-> "projgone"] /\ rec.att.pid
        \/ \E pc \in {"finish", "dispatch"} : waker' = [pc |-> pc, view |-> Absent, verdict |-> "none"]
    BY DEF WakerReconciles, AtWith, MustKillFirst
  <1>5. WakerDeaths'
    BY <1>4 DEF WakerDeaths, V
  <1> QED
    BY <1>1, <1>3, <1>4, <1>5, WakerAside

LEMMA ChildWakerFinishes ==
    ASSUME TypeOK, TypeOK', PhaseInv, GenInv, ChildInv, WakerFinishesCancel
    PROVE  ChildInv'
  <1>c. NamedInv
    BY DEF ChildInv, AttemptInv
  <1>r. rec \in RecordType /\ (rec.att # None => rec.att.id \in Attempt)
    BY FieldTypes DEF TypeOK
  <1>1. /\ waker.pc = "finish" /\ UNCHANGED <<rec, hand, user, cancel, slock, sess, child>>
        /\ \A a \in Attempt : Loose(a)' => Loose(a)
    BY DEF WakerFinishesCancel, Loose
  <1>2. \/ waker' = [pc |-> "dispatch", view |-> Absent, verdict |-> "none"]
        \/ rec.att = None /\ waker' = [pc |-> "unpark", view |-> rec, verdict |-> "cancel"]
        \/ /\ rec.att # None
           /\ waker' = [pc |-> IF rec.att.pid THEN "kill" ELSE "commit", view |-> rec,
                        verdict |-> "cancel"]
    BY DEF WakerFinishesCancel, AtWith
  <1>3. NamedInv'
    BY <1>c, <1>1 DEF NamedInv, Has
  <1>4. /\ rec.att = None => \A a \in Attempt : ~Loose(a)
        /\ rec.att # None /\ ~rec.att.pid => ~Loose(rec.att.id)
    BY <1>c, <1>r, <1>1 DEF NamedInv, Has
  <1>5. WakerDeaths'
    BY <1>1, <1>2, <1>4 DEF WakerDeaths, V, Loose
  <1> QED
    BY <1>r, <1>1, <1>2, <1>3, <1>5, ReflexiveTame, WakerAside

\* Steps after which the waker has nothing at hand.
LEMMA ChildWakerIdles ==
    ASSUME ChildrenKept, TypeOK, TypeOK', PhaseInv, GenInv, ChildInv,
           \/ WakerStarts \/ WakerDies \/ WakerCompletesCancel \/ WakerNotifies \/ WakerGivesUp
           \/ WakerSettles \/ WakerEndsTick
    PROVE  ChildInv'
  <1>c. NamedInv /\ DispatchInv /\ DueInv
    BY DEF ChildInv, AttemptInv
  <1>r. rec \in RecordType /\ (rec.att # None => rec.att.id \in Attempt)
    BY FieldTypes DEF TypeOK
  <1>1. /\ UNCHANGED <<hand, user, cancel, slock, sess, child>> /\ waker.pc # "record"
        /\ \A a \in Attempt : Loose(a)' => Loose(a)
        /\ Tame(rec, rec') /\ Follows(rec, rec')
        /\ waker'.pc \in {"down", "supervise", "dispatch", "end"}
    <2>1. UNCHANGED <<hand, user, cancel, slock, sess, child>> /\ waker.pc # "record"
      BY DEF WakerStarts, WakerDies, WakerCompletesCancel, WakerNotifies, WakerGivesUp, WakerSettles,
             WakerEndsTick, MidSpawn, ChildrenKept
    <2>2. waker'.pc \in {"down", "supervise", "dispatch", "end"}
      <3>1. ASSUME WakerStarts
            PROVE  waker'.pc = "supervise"
        BY <3>1 DEF WakerStarts, At, TypeOK
      <3>2. ASSUME WakerDies \/ WakerEndsTick
            PROVE  waker'.pc \in {"down", "supervise"}
        BY <3>2 DEF WakerDies, WakerEndsTick, AtWith, Asleep
      <3>3. ASSUME WakerCompletesCancel \/ WakerNotifies \/ WakerGivesUp \/ WakerSettles
            PROVE  waker'.pc \in {"dispatch", "end"}
        <4>1. \E pc \in {"dispatch", "end"} : waker' = [pc |-> pc, view |-> Absent, verdict |-> "none"]
          BY <3>3 DEF WakerCompletesCancel, WakerNotifies, WakerGivesUp, WakerSettles, AtWith
        <4> QED
          BY <4>1
      <3> QED
        BY <3>1, <3>2, <3>3
    <2> QED
      BY <2>1, <2>2, WakerTame, GenWakerLedger DEF Loose
  <1>2. rec'.att = None => rec.att = None \/ ~Loose(rec.att.id)
    <2>1. CASE WakerSettles
      BY <1>c, <1>r, <2>1 DEF WakerSettles, NamedInv, DispatchInv, Dispatches, Has
    <2>2. CASE WakerNotifies
      BY <1>c, <2>2 DEF WakerNotifies, MarkNotified, DueInv, V
    <2>3. CASE WakerGivesUp \/ WakerCompletesCancel
      <3>1. rec'.att = rec.att
        BY <1>r, <2>3 DEF WakerGivesUp, WakerCompletesCancel, FailRecord, CompleteCancellation,
           RecordType, RecordTypeOver
      <3> QED
        BY <1>r, <2>3, <3>1 DEF WakerGivesUp, WakerCompletesCancel, FailRecord, CompleteCancellation
    <2>4. CASE WakerStarts \/ WakerDies \/ WakerEndsTick
      BY <2>4 DEF WakerStarts, WakerDies, WakerEndsTick
    <2> QED
      BY <2>1, <2>2, <2>3, <2>4
  <1>3. NamedInv'
    BY <1>c, <1>1, <1>2, NamedFrame
  <1>4. WakerDeaths'
    BY <1>1 DEF WakerDeaths
  <1> QED
    BY <1>1, <1>3, <1>4, WakerAside

LEMMA ChildWakerUnparks ==
    ASSUME TypeOK, TypeOK', PhaseInv, GenInv, ChildInv, WakerUnparks
    PROVE  ChildInv'
  <1>c. /\ NamedInv /\ WakerDeaths /\ CancelDeaths /\ RaceInv /\ LockInv /\ StopInv
    BY DEF ChildInv, AttemptInv, DeathInv
  <1>r. rec \in RecordType /\ (rec.att # None => rec.att.id \in Attempt)
    BY FieldTypes DEF TypeOK
  <1>1. /\ waker.pc = "unpark" /\ UNCHANGED <<rec, hand, user, cancel, slock, child, mine>>
        /\ waker'.pc \in {"complete", "dispatch"} /\ waker'.view = waker.view
        /\ sess' = sess \/ slock = None
    BY DEF WakerUnparks, At, TypeOK
  <1>2. \A a \in Attempt : ~Loose(a) /\ ~Loose(a)'
    BY <1>c, <1>1 DEF WakerDeaths, Loose
  <1>3. NamedInv' /\ WakerDeaths' /\ DispatchInv' /\ DueInv' /\ UserInv'
    BY <1>1, <1>2 DEF NamedInv, WakerDeaths, DispatchInv, Dispatches, DueInv, UserInv
  <1>4. CancelDeaths'
    BY <1>c, <1>1 DEF CancelDeaths, Loose
  <1>5. RaceInv'
    BY <1>r, <1>1, <1>2 DEF RaceInv, Active
  <1>6. LockInv'
    <2>1. Over => Over'
      BY GenWakerLedger DEF SessionKeeps
    <2> QED
      BY <1>c, <1>1, <2>1, LimitResumeAssumption DEF LockInv
  <1>7. StopInv'
    BY <1>c, <1>1 DEF StopInv, Holding
  <1> QED
    BY <1>3, <1>4, <1>5, <1>6, <1>7 DEF ChildInv, AttemptInv, DeathInv

LEMMA ChildWakerNotes ==
    ASSUME TypeOK, TypeOK', PhaseInv, GenInv, ChildInv, WakerNotesPid
    PROVE  ChildInv'
  <1>c. NamedInv
    BY DEF ChildInv, AttemptInv
  <1>r. rec \in RecordType
    BY DEF TypeOK
  <1>1. /\ waker.pc \in {"note", "orphan"} /\ UNCHANGED <<rec, hand, user, cancel, slock, sess, child, mine>>
        /\ \A a \in Attempt : Loose(a)' => Loose(a)
        /\ waker.view \in RecordType /\ waker.view.att # None
    BY DEF WakerNotesPid, Loose, TypeOK, PhaseInv, V
  <1>2. \/ waker'.pc = "end"
        \/ waker'.pc = "kill" /\ V'.att.pid
    <2>1. CASE waker.pc = "note"
      BY <2>1 DEF WakerNotesPid, AtWith
    <2>2. CASE waker.pc = "orphan"
      <3>1. waker'.pc = "kill" /\ V' = [waker.view EXCEPT !.att.pid = TRUE]
        BY <2>2 DEF WakerNotesPid, AtWith, V
      <3> QED
        BY <1>1, <3>1, WithPid
    <2> QED
      BY <1>1, <2>1, <2>2
  <1>3. NamedInv'
    BY <1>c, <1>1 DEF NamedInv, Has
  <1>4. WakerDeaths'
    BY <1>2 DEF WakerDeaths
  <1>5. waker'.pc \notin {"check", "file", "spawn", "record", "settle", "claim"}
    BY <1>2
  <1> QED
    BY <1>r, <1>1, <1>3, <1>4, <1>5, ReflexiveTame, WakerAside

\* The child that was just spawned is recorded, by the attempt or as its orphan.
LEMMA ChildWakerRecords ==
    ASSUME TypeOK, TypeOK', PhaseInv, GenInv, ChildInv, WakerRecords
    PROVE  ChildInv'
  <1>c. NamedInv /\ DispatchInv
    BY DEF ChildInv, AttemptInv
  <1>1. /\ waker.pc = "record" /\ UNCHANGED <<hand, user, cancel, slock, sess, child, mine>>
        /\ \A a \in Attempt : Loose(a)' => Loose(a)
        /\ waker'.pc \in {"note", "orphan"}
    BY DEF WakerRecords, Loose, At, TypeOK
  <1>2. rec.att # None /\ rec.att = V.att /\ Has(rec, V.att.id) /\ rec \in RecordType
    BY <1>c, <1>1 DEF DispatchInv, Dispatches, PhaseInv, Has, TypeOK
  <1>3. Tame(rec, rec')
    BY WakerTame
  <1>4. rec'.att # None /\ rec'.att.id = rec.att.id /\ rec'.att.pid
    <2>1. rec' \in {RecordAttemptSpawn(rec, V.att.id), AttachOrphanChildPid(rec, V.att.id)}
      BY DEF WakerRecords, V
    <2>2. /\ [rec EXCEPT !.att.pid = TRUE].att # None
          /\ [rec EXCEPT !.att.pid = TRUE].att.id = rec.att.id
          /\ [rec EXCEPT !.att.pid = TRUE].att.pid
      BY <1>2, WithPid
    <2>3. AttachOrphanChildPid(rec, V.att.id) = [rec EXCEPT !.att.pid = TRUE]
      BY <1>2 DEF AttachOrphanChildPid
    <2>4. RecordAttemptSpawn(rec, V.att.id).att = [rec EXCEPT !.att.pid = TRUE].att
      BY <1>2, FieldTypes DEF RecordAttemptSpawn, RecordType, RecordTypeOver
    <2> QED
      BY <2>1, <2>2, <2>3, <2>4
  <1>5. NamedInv'
    BY <1>c, <1>1, <1>4 DEF NamedInv, Has
  <1>6. WakerDeaths'
    BY <1>1 DEF WakerDeaths
  <1>7. waker'.pc \notin {"check", "file", "spawn", "record", "settle", "claim"}
    BY <1>1
  <1> QED
    BY <1>1, <1>3, <1>5, <1>6, <1>7, WakerAside

LEMMA ChildWakerSelects ==
    ASSUME ChildrenKept, TypeOK, TypeOK', PhaseInv, GenInv, ChildInv, WakerSelects
    PROVE  ChildInv'
  <1>c. NamedInv
    BY DEF ChildInv, AttemptInv
  <1>r. rec \in RecordType
    BY DEF TypeOK
  <1>1. /\ waker.pc = "dispatch" /\ UNCHANGED <<rec, hand, user, cancel, slock, sess, child, mine>>
        /\ \A a \in Attempt : Loose(a)' => Loose(a)
    BY DEF WakerSelects, Loose
  <1>2. NamedInv'
    BY <1>c, <1>1 DEF NamedInv, Has
  <1>3. waker'.pc \in {"claim", "end"}
    BY DEF WakerSelects, AtWith
  <1>4. WakerDeaths'
    BY <1>3 DEF WakerDeaths
  <1>5. CASE waker'.pc = "end"
    <2>1. waker'.pc \notin {"check", "file", "spawn", "record", "settle", "claim"}
      BY <1>5
    <2> QED
      BY <1>r, <1>1, <1>2, <1>4, <2>1, ReflexiveTame, WakerAside
  <1>6. CASE waker'.pc = "claim"
    <2>1. rec.att = None /\ Due
      BY <1>6 DEF WakerSelects, AtWith
    <2>2. cancel.pc = "idle" /\ ~Holding
      BY <2>1 DEF Due, ActsOnItsAnswer, ChildrenKept, Holding
    <2>3. DispatchInv' /\ DueInv' /\ UserInv'
      BY <1>1, <1>6, <2>1, <2>2 DEF DispatchInv, Dispatches, DueInv, UserInv, Holding
    <2>4. CancelDeaths'
      BY <1>1, <2>2 DEF CancelDeaths
    <2>5. RaceInv' /\ LockInv' /\ StopInv'
      BY <1>r, <1>1, <2>1, ReflexiveTame, WakerFrame
    <2> QED
      BY <1>2, <1>4, <2>3, <2>4, <2>5 DEF ChildInv, AttemptInv, DeathInv
  <1> QED
    BY <1>3, <1>5, <1>6

\* A new claim names no child yet, and is made beside neither an attempt, nor a
\* cancel command, nor a user who is about to resume the parked session.
LEMMA ChildWakerClaims ==
    ASSUME TypeOK, TypeOK', PhaseInv, GenInv, ChildInv, WakerClaims
    PROVE  ChildInv'
  <1>c. NamedInv /\ DueInv /\ UserInv /\ LockInv /\ StopInv
    BY DEF ChildInv, AttemptInv
  <1>r. rec \in RecordType
    BY DEF TypeOK
  <1>1. /\ waker.pc = "claim" /\ V.mode = "headless"
        /\ UNCHANGED <<hand, user, cancel, slock, sess, child>>
        /\ \A a \in Attempt : Loose(a)' => Loose(a)
    BY DEF WakerClaims, Loose, V
  <1>2. CASE ~CanClaim
    <2>1. rec' = rec /\ waker'.pc = "end"
      BY <1>2 DEF WakerClaims, AtWith
    <2>2. NamedInv' /\ WakerDeaths'
      BY <1>c, <1>1, <2>1 DEF NamedInv, WakerDeaths, Has
    <2>3. waker'.pc \notin {"check", "file", "spawn", "record", "settle", "claim"}
      BY <2>1
    <2> QED
      BY <1>r, <1>1, <2>1, <2>2, <2>3, ReflexiveTame, WakerAside
  <1>3. CASE CanClaim
    <2>1. PICK a \in Attempt : /\ rec' = ClaimAttempt(rec, a) /\ mine' = mine \cup {a}
                               /\ waker' = [pc |-> "check", view |-> rec', verdict |-> "none"]
      BY <1>3 DEF WakerClaims, AtWith
    <2>2. /\ rec'.status = "resuming"
          /\ rec'.att = [id |-> a, gen |-> rec.gen, pid |-> FALSE]
      BY <1>r, <2>1 DEF ClaimAttempt, RecordType, RecordTypeOver
    <2>3. waker'.pc = "check" /\ V' = rec'
      BY <2>1 DEF V
    <2>4. \A b \in Attempt : ~Loose(b)'
      BY <1>c, <1>1, <1>3 DEF NamedInv, CanClaim, Has
    <2>5. cancel.pc = "idle" /\ ~(Holding /\ sess.kind = "parked")
      BY <1>c, <1>1, <1>3 DEF DueInv, UserInv, CanClaim, Dispatchable, V
    <2>6. NamedInv' /\ WakerDeaths' /\ DispatchInv'
      BY <2>1, <2>2, <2>3, <2>4 DEF NamedInv, WakerDeaths, DispatchInv
    <2>7. CancelDeaths' /\ DueInv' /\ UserInv'
      BY <1>1, <2>3, <2>5 DEF CancelDeaths, DueInv, UserInv, Holding
    <2>8. RaceInv'
      <3>1. ~Active(a)'
        BY <2>3, <2>4 DEF Active
      <3>2. rec'.att.id = a
        BY <2>2
      <3> QED
        BY <3>1, <3>2 DEF RaceInv
    <2>9. LockInv'
      BY <1>c, <1>1 DEF LockInv, Over
    <2>10. StopInv'
      BY <1>c, <1>1, <2>2, <2>5 DEF StopInv, LockInv, Holding, Dispatchable
    <2> QED
      BY <2>6, <2>7, <2>8, <2>9, <2>10 DEF ChildInv, AttemptInv, DeathInv
  <1> QED
    BY <1>2, <1>3

LEMMA ChildWakerChecks ==
    ASSUME TypeOK, TypeOK', PhaseInv, GenInv, ChildInv, WakerChecks
    PROVE  ChildInv'
  <1>c. NamedInv /\ DispatchInv /\ CancelDeaths /\ DueInv /\ UserInv
    BY DEF ChildInv, AttemptInv, DeathInv
  <1>r. rec \in RecordType
    BY DEF TypeOK
  <1>1. waker.pc = "check" /\ UNCHANGED <<rec, hand, user, cancel, slock, sess, child, mine>>
    BY DEF WakerChecks
  <1>2. waker'.pc \in {"file", "settle"} /\ V' = V
    BY DEF WakerChecks, AtWith, At, TypeOK, V
  <1>3. NamedInv' /\ WakerDeaths' /\ CancelDeaths'
    BY <1>c, <1>1, <1>2 DEF NamedInv, WakerDeaths, CancelDeaths, Has, Loose
  <1>4. DispatchInv' /\ DueInv' /\ UserInv'
    BY <1>c, <1>1, <1>2 DEF DispatchInv, Dispatches, DueInv, UserInv, Holding
  <1>5. rec'.att # None => (Active(rec.att.id)' => Active(rec.att.id))
    BY <1>1, <1>2 DEF Active, Loose
  <1>6. RaceInv' /\ LockInv' /\ StopInv'
    BY <1>r, <1>1, <1>5, ReflexiveTame, WakerFrame
  <1> QED
    BY <1>3, <1>4, <1>6 DEF ChildInv, AttemptInv, DeathInv

\* Before a child is spawned the claim is looked at once more: the session still
\* waits for the stop that the record is about, and no user is about to resume it.
LEMMA ChildWakerFilesClaim ==
    ASSUME TypeOK, TypeOK', PhaseInv, GenInv, ChildInv, WakerFilesClaim
    PROVE  ChildInv'
  <1>c. NamedInv /\ DispatchInv /\ CancelDeaths /\ DueInv /\ UserInv /\ LockInv /\ StopInv
    BY DEF ChildInv, AttemptInv, DeathInv
  <1>r. rec \in RecordType /\ Sound(rec) /\ ViewInv /\ VerdictInv
    BY DEF TypeOK, GenInv, LedgerInv
  <1>1. waker.pc = "file" /\ UNCHANGED <<rec, hand, user, cancel, slock, sess, child, mine>>
    BY DEF WakerFilesClaim
  <1>2. waker'.pc \in {"spawn", "settle"} /\ V' = V
    BY DEF WakerFilesClaim, AtWith, At, TypeOK, V
  <1>3. NamedInv' /\ WakerDeaths' /\ CancelDeaths'
    BY <1>c, <1>1, <1>2 DEF NamedInv, WakerDeaths, CancelDeaths, Has, Loose
  <1>4. DispatchInv' /\ DueInv' /\ UserInv'
    BY <1>c, <1>1, <1>2 DEF DispatchInv, Dispatches, DueInv, UserInv
  <1>5. CASE waker'.pc = "settle"
    <2>1. rec'.att # None => (Active(rec.att.id)' => Active(rec.att.id))
      BY <1>1, <1>2, <1>5 DEF Active, Loose
    <2>2. RaceInv' /\ LockInv' /\ StopInv'
      BY <1>r, <1>1, <2>1, ReflexiveTame, WakerFrame
    <2> QED
      BY <1>3, <1>4, <2>2 DEF ChildInv, AttemptInv, DeathInv
  <1>6. CASE waker'.pc = "spawn"
    <2>1. rec.status = "resuming" /\ sess.kind = "parked" /\ sess.event = V.event
      BY <1>6 DEF WakerFilesClaim, AtWith, CanRecordSpawn, SessionStillPending, V
    <2>2. ~Holding
      BY <1>c, <1>1, <2>1 DEF UserInv
    <2>3. rec.event = V.event
      <3>1. rec.gen = V.gen /\ Settled(V)
        BY <1>c, <1>r, <1>1, <2>1 DEF DispatchInv, Dispatches, Sound, VerdictInv, Settled
      <3> QED
        BY <1>r, <3>1 DEF ViewInv
    <2>4. RaceInv'
      BY <1>1, <2>1, <2>2, <2>3 DEF RaceInv, Holding
    <2>5. LockInv' /\ StopInv'
      BY <1>c, <1>1 DEF LockInv, StopInv, Over, Holding
    <2> QED
      BY <1>3, <1>4, <2>4, <2>5 DEF ChildInv, AttemptInv, DeathInv
  <1> QED
    BY <1>2, <1>5, <1>6

\* The child is spawned under the claim, which the record still carries.
LEMMA ChildWakerSpawns ==
    ASSUME TypeOK, TypeOK', PhaseInv, GenInv, ChildInv, WakerSpawns
    PROVE  ChildInv'
  <1>c. NamedInv /\ DispatchInv /\ DueInv
    BY DEF ChildInv, AttemptInv
  <1>r. rec \in RecordType
    BY DEF TypeOK
  <1>1. waker.pc = "spawn" /\ UNCHANGED <<rec, hand, user, cancel, slock, sess, mine>>
    BY DEF WakerSpawns
  <1>2. /\ rec.att # None /\ rec.att = V.att /\ ~V.att.pid /\ V.att.id \in mine
        /\ cancel.pc = "idle"
    BY <1>c, <1>1 DEF DispatchInv, DueInv, Dispatches, PhaseInv
  <1>3. V' = V /\ \/ waker'.pc = "settle" /\ child' = child
                  \/ waker'.pc = "record" /\ child' = [child EXCEPT ![V.att.id] = "fresh"]
    BY DEF WakerSpawns, AtWith, At, TypeOK, V
  <1>4. \A a \in Attempt : Loose(a)' => waker'.pc = "record" /\ a = V.att.id
    <2>1. \A a \in Attempt : ~Loose(a)
      BY <1>c, <1>1, <1>2 DEF NamedInv, Has
    <2> QED
      BY <1>3, <2>1 DEF Loose, TypeOK
  <1>5. NamedInv'
    BY <1>1, <1>2, <1>3, <1>4 DEF NamedInv, Has
  <1>6. DispatchInv' /\ DueInv' /\ UserInv' /\ WakerDeaths' /\ CancelDeaths'
    BY <1>1, <1>2, <1>3 DEF DispatchInv, DueInv, UserInv, WakerDeaths, CancelDeaths
  <1>7. rec'.att # None => (Active(rec.att.id)' => Active(rec.att.id))
    BY <1>1, <1>2 DEF Active, Has
  <1>8. RaceInv' /\ LockInv' /\ StopInv'
    BY <1>r, <1>1, <1>7, ReflexiveTame, WakerFrame
  <1> QED
    BY <1>5, <1>6, <1>8 DEF ChildInv, AttemptInv, DeathInv

LEMMA ChildWaker ==
    ASSUME ChildrenKept, TypeOK, TypeOK', PhaseInv, GenInv, ChildInv,
           WakerStarts \/ WakerStep \/ WakerDies
    PROVE  ChildInv'
  <1>1. CASE \/ WakerStarts \/ WakerDies \/ WakerCompletesCancel \/ WakerNotifies \/ WakerGivesUp
             \/ WakerSettles \/ WakerEndsTick
    BY <1>1, ChildWakerIdles
  <1>2. CASE \/ WakerSupervises \/ WakerKills \/ WakerCommits \/ WakerReconciles
             \/ WakerFinishesCancel \/ WakerUnparks
    BY <1>2, ChildWakerSupervises, ChildWakerKills, ChildWakerCommits, ChildWakerReconciles,
       ChildWakerFinishes, ChildWakerUnparks
  <1>3. CASE \/ WakerSelects \/ WakerClaims \/ WakerChecks \/ WakerFilesClaim \/ WakerSpawns
             \/ WakerRecords \/ WakerNotesPid
    BY <1>3, ChildWakerSelects, ChildWakerClaims, ChildWakerChecks, ChildWakerFilesClaim,
       ChildWakerSpawns, ChildWakerRecords, ChildWakerNotes
  <1> QED
    BY <1>1, <1>2, <1>3 DEF WakerStep

LEMMA ChildStep ==
    ASSUME IntentsHold, ChildrenKept, TypeOK, TypeOK', PhaseInv, GenInv, ChildInv, [Next]_vars
    PROVE  ChildInv'
  <1>1. CASE UNCHANGED vars
    <2>1. UNCHANGED <<rec, sess, slock, child, hand, waker, mine, user, cancel>>
      BY <1>1 DEF vars
    <2>2. AttemptInv'
      BY <2>1, AttemptFrame DEF ChildInv, Loose
    <2>3. DueInv' /\ UserInv'
      BY <2>1 DEF ChildInv, DueInv, UserInv, Dispatches, Holding, CanClaim, Dispatchable, V
    <2>4. RaceInv' /\ LockInv' /\ StopInv'
      <3>1. rec \in RecordType
        BY DEF TypeOK
      <3>2. rec'.att # None => (Active(rec.att.id)' => Active(rec.att.id))
        BY <2>1 DEF Active, Loose, V
      <3> QED
        BY <2>1, <3>1, <3>2, ReflexiveTame, WakerFrame
    <2> QED
      BY <2>2, <2>3, <2>4 DEF ChildInv
  <1>2. ASSUME NEW h \in Handler, HandlerFiles(h) \/ HandlerStep(h) \/ HandlerDies(h)
        PROVE  ChildInv'
    BY <1>2, ChildHandlers
  <1>3. CASE WakerStarts \/ WakerStep \/ WakerDies
    BY <1>3, ChildWaker
  <1>4. ASSUME NEW a \in Attempt, ChildStarts(a) \/ ChildResumes(a) \/ ChildEnds(a)
        PROVE  ChildInv'
    BY <1>4, ChildChildren
  <1>5. CASE UserCloses \/ UserStep \/ StopHookReads \/ StopHookMarks \/ ProjectVanishes
    BY <1>5, ChildUsers
  <1>6. CASE (\E how \in {"limit-status", "stop"} : CancelBegins(how)) \/ CancelStep \/ CancelDies
    BY <1>6, ChildCancels
  <1> QED
    BY <1>1, <1>2, <1>3, <1>4, <1>5, <1>6 DEF Next

LEMMA ChildInit ==
    ASSUME Init
    PROVE  ChildInv
  <1>1. /\ rec = Absent /\ rec.att = None /\ waker.pc = "down" /\ cancel.pc = "idle" /\ user.at = "open"
        /\ \A h \in Handler : hand[h].pc = "idle"
        /\ \A a \in Attempt : child[a] = "gone"
    BY DEF Init, Asleep, NobodySeen, Absent, NotCancelling, NotReading
  <1>2. \A a \in Attempt : ~Loose(a)
    BY <1>1 DEF Loose
  <1>3. AttemptInv
    BY <1>1, <1>2 DEF AttemptInv, NamedInv, DispatchInv, Dispatches, DeathInv, WakerDeaths, CancelDeaths
  <1>4. DueInv /\ UserInv /\ RaceInv /\ LockInv /\ StopInv
    BY <1>1 DEF DueInv, UserInv, RaceInv, LockInv, StopInv, Dispatches, Holding
  <1> QED
    BY <1>3, <1>4 DEF ChildInv

\* As long as the session is not over. After that ("ends") an intent may be undone
\* over an attempt that is gone by then; no wake is dispatched any more, though, so
\* the children only become fewer.
OneActive == \A a, b \in Attempt : Active(a) /\ Active(b) => a = b

LEMMA FewerWhenOver ==
    ASSUME TypeOK, PhaseInv, Over, [Next]_vars, NEW a \in Attempt, Active(a)'
    PROVE  Active(a)
  <1>1. CASE UNCHANGED vars
    BY <1>1 DEF vars, Active, Loose, V
  <1>2. ASSUME NEW h \in Handler, HandlerFiles(h) \/ HandlerStep(h) \/ HandlerDies(h)
        PROVE  Active(a)
    <2>1. UNCHANGED waker /\ (Loose(a)' => Loose(a))
      BY <1>2 DEF HandlerFiles, LimitHits, HandlerStep, HandlerParks, HandlerActivates,
         HandlerAborts, HandlerFallsBack, HandlerDies, Loose, TypeOK
    <2> QED
      BY <2>1 DEF Active, V
  <1>3. CASE WakerSpawns
    <2>1. waker.pc = "spawn" /\ waker'.pc # "spawn"
      BY <1>3 DEF WakerSpawns, At, AtWith, TypeOK
    <2>2. CASE a = V.att.id
      BY <2>1, <2>2 DEF Active, Has, PhaseInv, V
    <2>3. CASE a # V.att.id
      <3>1. child'[a] = child[a]
        BY <1>3, <2>3 DEF WakerSpawns, V, TypeOK
      <3> QED
        BY <2>1, <3>1 DEF Active, Loose
    <2> QED
      BY <2>2, <2>3
  <1>4. CASE (WakerStarts \/ WakerStep \/ WakerDies) /\ ~WakerSpawns
    <2>1. waker'.pc # "spawn"
      <3>1. CASE WakerSupervises
        <4>1. \E j \in Judgements(rec) : waker'.pc = j.pc
          BY <3>1 DEF WakerSupervises, AtWith
        <4>2. \A j \in Judgements(rec) : j.pc # "spawn"
          BY DEF Judgements, Skip, Kill, Settle
        <4> QED
          BY <4>1, <4>2
      <3>2. CASE WakerFilesClaim
        BY <3>2 DEF WakerFilesClaim, AtWith, Over, SessionStillPending
      <3>3. CASE WakerStarts \/ WakerDies \/ WakerKills \/ WakerCommits
        BY <3>3 DEF WakerStarts, WakerDies, WakerKills, WakerCommits, At, Asleep, TypeOK
      <3>4. CASE \/ WakerReconciles \/ WakerFinishesCancel \/ WakerUnparks \/ WakerCompletesCancel
                 \/ WakerSelects
        BY <3>4 DEF WakerReconciles, WakerFinishesCancel, WakerUnparks, WakerCompletesCancel,
           WakerSelects, At, AtWith, TypeOK
      <3>5. CASE WakerNotifies \/ WakerGivesUp \/ WakerClaims \/ WakerChecks
        BY <3>5 DEF WakerNotifies, WakerGivesUp, WakerClaims, WakerChecks, At, AtWith, TypeOK
      <3>6. CASE WakerSettles \/ WakerRecords \/ WakerEndsTick
        <4>1. CASE WakerRecords
          <5>1. \E p \in {"note", "orphan"} : waker' = [waker EXCEPT !.pc = p]
            BY <4>1, Zenon DEF WakerRecords, At
          <5> QED
            BY <5>1 DEF TypeOK
        <4>2. CASE WakerSettles
          BY <4>2 DEF WakerSettles, AtWith
        <4>3. CASE WakerEndsTick
          BY <4>3 DEF WakerEndsTick, AtWith, Asleep
        <4> QED
          BY <3>6, <4>1, <4>2, <4>3
      <3>7. CASE WakerNotesPid
        <4>1. \E v, w : \E p \in {"end", "kill"} : waker' = [pc |-> p, view |-> v, verdict |-> w]
          BY <3>7, Zenon DEF WakerNotesPid, AtWith
        <4> QED
          BY <4>1
      <3> QED
        BY <1>4, <3>1, <3>2, <3>3, <3>4, <3>5, <3>6, <3>7 DEF WakerStep
    <2>2. child' = child \/ WakerKills
      BY <1>4 DEF WakerStarts, WakerStep, WakerDies, WakerSupervises, WakerKills,
         WakerCommits, WakerReconciles, WakerFinishesCancel, WakerUnparks, WakerCompletesCancel,
         WakerSelects, WakerNotifies, WakerGivesUp, WakerClaims, WakerChecks, WakerFilesClaim,
         WakerSettles, WakerRecords, WakerNotesPid, WakerEndsTick
    <2>3. Loose(a)' => Loose(a)
      BY <2>2 DEF WakerKills, Loose, TypeOK
    <2> QED
      BY <2>1, <2>3 DEF Active
  <1>5. ASSUME NEW x \in Attempt, ChildStarts(x) \/ ChildResumes(x) \/ ChildEnds(x)
        PROVE  Active(a)
    <2>1. UNCHANGED waker /\ (Loose(a)' => Loose(a))
      BY <1>5 DEF ChildStarts, ChildResumes, ChildEnds, Loose, TypeOK
    <2> QED
      BY <2>1 DEF Active, V
  <1>6. CASE \/ UserCloses \/ UserStep \/ StopHookReads \/ StopHookMarks \/ ProjectVanishes
             \/ (\E how \in {"limit-status", "stop"} : CancelBegins(how)) \/ CancelStep \/ CancelDies
    <2>1. UNCHANGED waker
      BY <1>6 DEF UserCloses, UserStep, UserReopens, UserTakesOver, UserResumes, UserRequeues,
         StopHookReads, StopHookMarks, ProjectVanishes, CancelBegins, CancelStep, CancelKills,
         CancelClears, CancelUnparks, CancelCompletes, CancelDies
    <2>2. child' = child \/ UserTakesOver \/ CancelKills
      BY <1>6 DEF UserCloses, UserStep, UserReopens, UserResumes, UserRequeues,
         StopHookReads, StopHookMarks, ProjectVanishes, CancelBegins, CancelStep,
         CancelClears, CancelUnparks, CancelCompletes, CancelDies
    <2>3. Loose(a)' => Loose(a)
      BY <2>2 DEF UserTakesOver, CancelKills, Loose, TypeOK
    <2> QED
      BY <2>1, <2>3 DEF Active, V
  <1> QED
    BY <1>1, <1>2, <1>3, <1>4, <1>5, <1>6 DEF Next

LEMMA ChildrenAreKept ==
    ASSUME IntentsHold, ChildrenKept
    PROVE  Spec => [](TypeOK /\ OneActive /\ (Over \/ (GenInv /\ ChildInv)))
<1> DEFINE IInv == TypeOK /\ PhaseInv /\ CapInv /\ OneActive /\ (Over \/ (GenInv /\ ChildInv))
<1>1. Init => IInv
  <2>1. Init => \A a \in Attempt : ~Active(a)
    BY DEF Init, Asleep, Active, Loose
  <2> QED
    BY <2>1, InitTypes, GenInit, ChildInit DEF OneActive
<1>2. IInv /\ [Next]_vars => IInv'
  <2> SUFFICES ASSUME IInv, [Next]_vars
               PROVE  IInv'
    OBVIOUS
  <2>1. (TypeOK /\ PhaseInv /\ CapInv)'
    BY TypesStep
  <2>2. CASE Over
    <3>1. Over'
      BY <2>2, OverStays
    <3>2. OneActive'
      BY <2>2, FewerWhenOver DEF OneActive
    <3> QED
      BY <2>1, <3>1, <3>2
  <2>3. CASE ~Over
    <3>1. GenInv' /\ ChildInv'
      BY <2>1, <2>3, GenStep, ChildStep
    <3>2. OneActive'
      BY <2>1, <3>1 DEF ChildInv, AttemptInv, NamedInv, DispatchInv, Dispatches, OneActive, Active,
         Has, V
    <3> QED
      BY <2>1, <3>1, <3>2
  <2> QED
    BY <2>2, <2>3
<1> QED
  BY <1>1, <1>2, PTL DEF Spec

\* Through takeovers, new stops, cancels, failed kills, sessions that end and deaths
\* of the waker outside a spawn, the record names every wake child that may still
\* resume the parked session, or the waker is just about to name it. It takes
\* handlers that do not fail, and none of the three incidents of ChildrenKept.
THEOREM ChildrenAreNamed ==
    ASSUME IntentsHold, ChildrenKept
    PROVE  Spec => []ChildIsNamed
<1>1. TypeOK /\ (Over \/ (GenInv /\ ChildInv)) => ChildIsNamed
  BY DEF Over, ChildInv, AttemptInv, NamedInv, ChildIsNamed, InHand, V
<1> QED
  BY <1>1, ChildrenAreKept, PTL

\* Under the same assumptions there are never two wake children that could both
\* resume the session, however many attempts there were.
THEOREM OneChildAtMost ==
    ASSUME IntentsHold, ChildrenKept
    PROVE  Spec => []OneWakeChild
<1>1. ASSUME TypeOK, OneActive
      PROVE  OneWakeChild
  <2>1. \E x : {a \in Attempt : Loose(a)} \in {{}, {x}}
    <3>1. CASE \A a \in Attempt : ~Loose(a)
      BY <3>1
    <3>2. CASE \E a \in Attempt : Loose(a)
      <4>1. PICK x \in Attempt : Loose(x)
        BY <3>2
      <4>2. \A a \in Attempt : Loose(a) => a = x
        BY <1>1, <4>1 DEF OneActive, Active
      <4> QED
        BY <4>1, <4>2
    <3> QED
      BY <3>1, <3>2
  <2>2. PICK x : {a \in Attempt : Loose(a)} \in {{}, {x}}
    BY <2>1
  <2>3. Cardinality({}) = 0 /\ Cardinality({x}) = 1
    BY FS_EmptySet, FS_Singleton
  <2>4. Cardinality({a \in Attempt : Loose(a)}) \in {0, 1}
    BY <2>2, <2>3
  <2> QED
    BY <2>4 DEF OneWakeChild
<1>2. TypeOK /\ OneActive => OneWakeChild
  BY <1>1
<1> QED
  BY <1>2, ChildrenAreKept, PTL

\* The last two need the invariant after the end of the session as well, so they
\* assume that no session "ends" between a handler's intent and its park over a record
\* that the intent replaced.
LEMMA ChildrenAreKeptThroughout ==
    ASSUME IntentsHold, ChildrenKept, SessionsLast
    PROVE  Spec => [](TypeOK /\ GenInv /\ ChildInv)
<1>1. Init => TypeOK /\ PhaseInv /\ CapInv /\ GenInv /\ ChildInv
  BY InitTypes, GenInit, ChildInit
<1>2. (TypeOK /\ PhaseInv /\ CapInv /\ GenInv /\ ChildInv) /\ [Next]_vars
         => (TypeOK /\ PhaseInv /\ CapInv /\ GenInv /\ ChildInv)'
  BY TypesStep, GenStep, ChildStep
<1> QED
  BY <1>1, <1>2, PTL DEF Spec

\* A user who is told to resume has no live wake child beside them, whatever was
\* dispatched or displaced while the hook was reading, unless the record still names
\* the attempt of an older stop. The user acts on the answer before the session is
\* parked anew or a wake is due: with "tardy" among the incidents the claim is false.
THEOREM TakeoversStandDown ==
    ASSUME IntentsHold, ChildrenKept, SessionsLast
    PROVE  Spec => []TakeoverStandsDown
<1>1. TypeOK /\ GenInv /\ ChildInv => TakeoverStandsDown
  BY DEF ChildInv, AttemptInv, NamedInv, RaceInv, TakeoverStandsDown, OneDriver, Active, Loose, Has
<1> QED
  BY <1>1, ChildrenAreKeptThroughout, PTL

\* Once a record is `cancelled`, no wake child is left that could act on the session
\* that the cancel gave back. The cancel command ends before the next stop is due, and
\* no intent is undone: with "slowcli", or with "ends", the claim is false.
THEOREM CancelsAreFinal ==
    ASSUME IntentsHold, ChildrenKept, SessionsLast
    PROVE  Spec => CancelIsFinal
<1>1. (TypeOK /\ GenInv /\ ChildInv)'
         => [rec.status # "cancelled" /\ rec'.status = "cancelled"
                => \A a \in Attempt : ~Loose(a)']_vars
  BY DEF GenInv, LedgerInv, Sound, ChildInv, AttemptInv, NamedInv, Has
<1> QED
  BY <1>1, ChildrenAreKeptThroughout, PTL DEF CancelIsFinal

-----------------------------------------------------------------------------
(* A parked session is found through its record alone. Nothing looks for     *)
(* parked sessions that have none.                                           *)

ParkedIsOnRecord == sess.kind = "parked" => rec.status # "absent"

\* Generations tell whether there is a record, and no step goes back to none while
\* the session is parked.
LEMMA OnRecordByGeneration ==
    ASSUME TypeOK, TypeOK', GenInv, GenInv', ParkedIsOnRecord, rec'.gen >= rec.gen, SessionKeeps
    PROVE  ParkedIsOnRecord'
  <1>1. Sound(rec) /\ Sound(rec') /\ rec.gen \in Nat /\ rec'.gen \in Nat
    BY DEF GenInv, LedgerInv, TypeOK, RecordType, RecordTypeOver, Sound
  <1> QED
    BY <1>1 DEF Sound, ParkedIsOnRecord, SessionKeeps

LEMMA OnRecordHandlers ==
    ASSUME IntentsHold, TypeOK, TypeOK', GenInv, GenInv', ParkedIsOnRecord, NEW h \in Handler,
           HandlerFiles(h) \/ HandlerStep(h) \/ HandlerDies(h)
    PROVE  ParkedIsOnRecord'
  <1>g. rec.gen \in Nat
    BY DEF TypeOK, RecordType, RecordTypeOver
  <1>u. \A phase, kind, mode, event : UpsertStop(rec, phase, kind, mode, event).gen = rec.gen + 1
    BY DEF UpsertStop
  <1>1. CASE HandlerFiles(h)
    <2>1. \/ rec' = rec
          \/ \E phase, kind, mode : rec' = UpsertStop(rec, phase, kind, mode, h)
      BY <1>1 DEF HandlerFiles
    <2>2. sess' = sess
      BY <1>1 DEF HandlerFiles
    <2>3. rec'.gen >= rec.gen
      BY <1>g, <1>u, <2>1
    <2> QED
      BY <2>2, <2>3, OnRecordByGeneration DEF SessionKeeps, Over
  <1>2. CASE HandlerParks(h)
    <2>1. rec' = rec /\ (sess' = sess \/ OwnsIntent(rec, h, hand[h].gen))
      BY <1>2 DEF HandlerParks
    <2> QED
      BY <2>1 DEF ParkedIsOnRecord, OwnsIntent
  <1>3. CASE HandlerActivates(h)
    <2>1. /\ sess' = sess
          /\ rec' = Activated(rec) \/ \E mode : rec' = RepairParked(rec, mode, h)
      BY <1>3 DEF HandlerActivates
    <2>2. Activated(rec).gen = rec.gen
      BY DEF Activated, TypeOK, RecordType, RecordTypeOver
    <2>3. \A mode : RepairParked(rec, mode, h).gen \in {rec.gen, rec.gen + 1}
      BY <1>u DEF RepairParked
    <2> QED
      BY <1>g, <2>1, <2>2, <2>3, OnRecordByGeneration DEF SessionKeeps, Over
  <1>4. CASE HandlerAborts(h)
    <2>1. CASE OwnsIntent(rec, h, hand[h].gen)
      <3>1. Over /\ sess' = sess
        BY <1>4, <2>1 DEF HandlerAborts, GenInv, LedgerInv, IntentInv
      <3> QED
        BY <3>1 DEF Over, ParkedIsOnRecord
    <2>2. CASE ~OwnsIntent(rec, h, hand[h].gen)
      BY <1>4, <2>2 DEF HandlerAborts, ParkedIsOnRecord
    <2> QED
      BY <2>1, <2>2
  <1>5. CASE HandlerFallsBack(h)
    <2>1. sess' = sess /\ rec' \in {rec, UpsertStop(rec, "stopped", "plain", "notify", h)}
      BY <1>5 DEF HandlerFallsBack
    <2> QED
      BY <1>g, <1>u, <2>1, OnRecordByGeneration DEF SessionKeeps, Over
  <1>6. ~HandlerDies(h)
    BY DEF HandlerDies, HandlerFails, Spend, IntentsHold
  <1> QED
    BY <1>1, <1>2, <1>3, <1>4, <1>5, <1>6 DEF HandlerStep

LEMMA OnRecordWaker ==
    ASSUME TypeOK, TypeOK', PhaseInv, GenInv, GenInv', ParkedIsOnRecord,
           WakerStarts \/ WakerStep \/ WakerDies
    PROVE  ParkedIsOnRecord'
  <1>g. rec \in RecordType /\ rec.gen \in Nat
    BY DEF TypeOK, RecordType, RecordTypeOver
  <1>1. CASE WakerRecords \/ WakerClaims
    <2>1. \A a : /\ ClaimAttempt(rec, a).gen = rec.gen /\ RecordAttemptSpawn(rec, a).gen = rec.gen
                 /\ AttachOrphanChildPid(rec, a).gen = rec.gen
      BY <1>g DEF ClaimAttempt, RecordAttemptSpawn, AttachOrphanChildPid, RecordType, RecordTypeOver
    <2>2. sess' = sess /\ rec'.gen = rec.gen
      BY <1>1, <2>1 DEF WakerRecords, WakerClaims
    <2> QED
      BY <1>g, <2>2, OnRecordByGeneration DEF SessionKeeps, Over
  <1>2. CASE ~(WakerRecords \/ WakerClaims)
    <2>1. Follows(rec, rec') /\ SessionKeeps
      BY <1>2, GenWakerLedger DEF WakerStep
    <2> QED
      BY <1>g, <2>1, OnRecordByGeneration DEF Follows
  <1> QED
    BY <1>1, <1>2

LEMMA OnRecordOthers ==
    ASSUME TypeOK, TypeOK', GenInv, GenInv', ParkedIsOnRecord,
           \/ \E a \in Attempt : ChildStarts(a) \/ ChildResumes(a) \/ ChildEnds(a)
           \/ UserCloses \/ UserStep \/ StopHookReads \/ StopHookMarks \/ ProjectVanishes
           \/ (\E how \in {"limit-status", "stop"} : CancelBegins(how)) \/ CancelStep \/ CancelDies
    PROVE  ParkedIsOnRecord'
  <1>g. LedgerInv /\ rec.gen \in Nat
    BY DEF GenInv, TypeOK, RecordType, RecordTypeOver
  <1>1. SessionKeeps /\ (rec' = rec \/ Follows(rec, rec'))
    BY <1>g, ChildrenKeepSession, UserKeepsSession, UserFollows, CancelKeepsSession, CancelFollows
  <1>2. rec'.gen >= rec.gen
    BY <1>g, <1>1 DEF Follows
  <1> QED
    BY <1>1, <1>2, OnRecordByGeneration

\* Whatever interleaves with a park, a takeover or a cancel, a parked session always
\* has a record, as long as no handler fails or dies over a session that it could
\* still park ("prep").
THEOREM ParkedIsFound ==
    ASSUME IntentsHold
    PROVE  Spec => []ParkedIsOnRecord
<1> DEFINE IInv == TypeOK /\ PhaseInv /\ CapInv /\ (Over \/ GenInv)
<1>1. Init => IInv /\ ParkedIsOnRecord
  <2>1. Init => IInv
    BY InitTypes, GenInit
  <2>2. Init => sess.kind = "live"
    BY DEF Init
  <2> QED
    BY <2>1, <2>2 DEF ParkedIsOnRecord
<1>2. IInv /\ [Next]_vars => IInv'
  BY TypesStep, OverStays, GenStep
<1>3. IInv /\ IInv' /\ ParkedIsOnRecord /\ [Next]_vars => ParkedIsOnRecord'
  <2>1. CASE UNCHANGED vars
    BY <2>1 DEF vars, ParkedIsOnRecord
  <2>2. CASE Over'
    BY <2>2 DEF Over, ParkedIsOnRecord
  <2>3. Over /\ [Next]_vars /\ TypeOK => Over'
    BY OverStays
  <2> QED
    BY <2>1, <2>2, <2>3, OnRecordHandlers, OnRecordWaker, OnRecordOthers DEF Next
<1> QED
  BY <1>1, <1>2, <1>3, PTL DEF Spec
==============================================================================
