----------------------------- MODULE LimitResume -----------------------------
(* The automatic resumption of an autonomous session that hit a usage limit:   *)
(* one Claude task, its session in .story/sessions, and its record in the      *)
(* global limit ledger. Actors, each a process of its own:                     *)
(*                                                                             *)
(*   StopFailure handlers  file the stop: an intent in the ledger, then the    *)
(*                         parked session, then the activated record;          *)
(*   the waker             supervises, reconciles, and spawns `claude -p       *)
(*                         --resume` children, one poll ("tick") at a time;    *)
(*   wake children         check the ledger when they start, then resume;      *)
(*   the user              reopens the session (the SessionStart hook), closes *)
(*                         it, cancels, requeues;                              *)
(*   the Stop hook         marks a record resumed on outside evidence.         *)
(*                                                                             *)
(* One action is one ledger transaction, one write of the session file, or one *)
(* effect on a process: what runs under one lock is one step, and whatever a   *)
(* process read before is in its view. Clocks are left to chance: a record is  *)
(* due, an interactive claim late and a child inactive whenever the code could *)
(* find it so. The waker is a singleton (core/limit-lock.ts, a live holder is  *)
(* never replaced).                                                            *)
EXTENDS Naturals, FiniteSets

CONSTANTS Handler,       \* runs of the StopFailure hook; each mints an event id
          Attempt,       \* wake attempt ids, reused once nobody remembers them
          None,
          MaxAttempts,   \* limitResume.maxAttempts: spawns in one episode
          MaxDefers,     \* MAX_DEFER_COUNT: pre-spawn deferrals in a row
          Incident,      \* which of the incidents below may happen
          Budget         \* and how many of them

ASSUME LimitResumeAssumption ==
    /\ None \notin Handler \cup Attempt \cup {"user", "cli"}
    /\ {"user", "cli"} \cap (Handler \cup Attempt) = {}
    /\ MaxAttempts \in Nat /\ MaxDefers \in Nat /\ Budget \in Nat

VARIABLES rec,      \* the ledger's record of the task
          sess,     \* the session's state file
          slock,    \* who holds the session lock
          claim,    \* the wake claim file
          child,    \* wake children by attempt
          hand,     \* StopFailure handlers
          waker,    \* the waker process
          mine,     \* the attempts the running waker claimed
          user,     \* the interactive client
          cancel,   \* a cancel command
          evid,     \* the generation a Stop hook found resumed
          budget    \* incidents left

vars == <<rec, sess, slock, claim, child, hand, waker, mine, user, cancel, evid, budget>>

-----------------------------------------------------------------------------
(* The record, its statuses and what they mean.                                *)

Absent == [status |-> "absent", gen |-> 0, event |-> None, att |-> None, tries |-> 0,
           defers |-> 0, blocked |-> FALSE, mode |-> "headless", kind |-> "autonomous",
           owner |-> None, prev |-> None]

Statuses == {"absent", "preparing", "stopped", "deferred", "resuming", "interactive",
             "manual", "cancelling", "cancelled", "resumed", "notified", "failed"}

AttemptType == [id : Attempt, gen : Nat, pid : BOOLEAN]
RecordTypeOver(prevs) ==
    [status : Statuses, gen : Nat, event : Handler \cup {None}, att : AttemptType \cup {None},
     tries : 0..MaxAttempts, defers : 0..MaxDefers, blocked : BOOLEAN,
     mode : {"headless", "notify"}, kind : {"autonomous", "plain"},
     owner : Handler \cup {None}, prev : prevs]
\* The copy that an intent keeps of the record it replaced carries no copy itself.
CopyType   == RecordTypeOver({None})
RecordType == RecordTypeOver(CopyType \cup {None})
ClaimType  == [id : Attempt, pid : BOOLEAN]

ASSUME NoneIsNoRecord == None \notin AttemptType /\ None \notin CopyType

Terminal(r)     == r.status \in {"cancelled", "resumed", "notified", "failed"}
Pending(r)      == r.status # "absent" /\ ~Terminal(r)
Dispatchable(r) == r.status \in {"stopped", "deferred"}
InCancelFlow(r) == r.status = "cancelling" \/ (r.status = "manual" /\ r.blocked)

\* Mutants: takeovers, and cancels, are left to whoever began them.
Actionable_NotInteractive(r) ==
    Pending(r) /\ r.status # "interactive" /\ (r.status = "manual" => r.att # None \/ r.blocked)
Actionable_NotCancelling(r) ==
    Pending(r) /\ r.status # "cancelling" /\ (r.status = "manual" => r.att # None \/ r.blocked)

\* A record the waker still has to work on.
Actionable(r) == Pending(r) /\ (r.status = "manual" => r.att # None \/ r.blocked)

Has(r, a) == r.att # None /\ r.att.id = a

\* Mutant: a claim without a child is nobody's.
ClaimAbandoned_Always(att) == ~att.pid

\* A bare claim is abandoned once the waker that made it is dead.
ClaimAbandoned(att) == ~att.pid /\ ~(waker.pc # "down" /\ att.id \in mine)
BareAndClaimed(att) == ~att.pid /\ ~ClaimAbandoned(att)

\* The session still waits for the stop this record is about.
SessionStillPending(r) == sess.kind = "parked" /\ sess.event = r.event
SessionAdvanced(r) == r.kind = "autonomous" /\ sess.kind \in {"live", "compact", "ended"}
SessionAbsent(r)   == r.kind = "autonomous" /\ sess.kind = "gone"

Running(a) == child[a] \in {"fresh", "live", "idle", "joined"}
\* The owner's heartbeat, which its client writes while it runs.
HeartbeatFresh == \/ sess.owner = "user" /\ user.at = "open"
                  \/ sess.owner \in Attempt /\ Running(sess.owner)

\* What a guide may resume: a park of either kind, never a FINALIZE limit park.
Resumable == sess.kind = "compact" \/ (sess.kind = "parked" /\ ~sess.final)

\* A user who was told to resume does so, or closes, before the session is parked
\* anew or a wake is dispatched; one who is "tardy" may not.
ActsOnItsAnswer == user.at \notin {"go", "told"} \/ "tardy" \in Incident

Spend(i) == i \in Incident /\ budget > 0 /\ budget' = budget - 1
KeepBudget == UNCHANGED budget

-----------------------------------------------------------------------------
(* The ledger's mutators: from the record to the record they would commit.     *)

\* upsertStop; `recent`: a duplicate report inside the dedupe window.
Deduped(r, recent) == recent /\ r.status \in {"preparing", "stopped", "deferred"}
UpsertStop(r, phase, kind, mode, event) ==
    [status |-> phase, gen |-> r.gen + 1, event |-> event, att |-> r.att,
     tries |-> IF Pending(r) THEN r.tries ELSE 0,
     defers |-> 0, blocked |-> FALSE, mode |-> mode, kind |-> kind,
     owner |-> IF phase = "preparing" THEN event ELSE None,
     prev |-> IF phase = "preparing" /\ r.status # "absent"
              THEN [r EXCEPT !.prev = None] ELSE None]

OwnsIntent(r, h, g) == r.status = "preparing" /\ r.gen = g /\ r.owner = h
Activated(r) == [r EXCEPT !.status = "stopped", !.owner = None, !.prev = None]
Restored(r)  == IF r.prev = None THEN Absent ELSE r.prev

\* repairParkedSessionRecord
RepairParked(r, mode, event) ==
    IF Pending(r) /\ r.event = event THEN r
    ELSE UpsertStop(r, "stopped", "autonomous", mode, event)

ClaimAttempt(r, a) == [r EXCEPT !.status = "resuming",
                                !.att = [id |-> a, gen |-> r.gen, pid |-> FALSE]]
CanRecordSpawn(r, a) == r.status = "resuming" /\ Has(r, a)
RecordAttemptSpawn(r, a) == [r EXCEPT !.att.pid = TRUE, !.tries = @ + 1, !.defers = 0]
\* Mutant: an orphan's pid is recorded only while its attempt is dispatched.
AttachOrphanChildPid_Resuming(r, a) ==
    IF CanRecordSpawn(r, a) THEN [r EXCEPT !.att.pid = TRUE] ELSE r

AttachOrphanChildPid(r, a) == IF Has(r, a) THEN [r EXCEPT !.att.pid = TRUE] ELSE r

ClearSupersededAttempt(r, a) ==
    IF Has(r, a) /\ r.att.gen # r.gen THEN [r EXCEPT !.att = None] ELSE r
ClearConfirmedDeadAttempt(r, a) ==
    IF Has(r, a) /\ Dispatchable(r) THEN [r EXCEPT !.att = None] ELSE r
ClearInteractiveAttempt(r, a) ==
    IF Has(r, a) /\ r.status = "interactive" THEN [r EXCEPT !.att = None] ELSE r
ClearCancellingAttempt(r, a) ==
    IF Has(r, a) /\ InCancelFlow(r) THEN [r EXCEPT !.att = None] ELSE r
FailProjectGoneConfirmed(r, a, g) ==
    IF ~Has(r, a) \/ Terminal(r) THEN r
    ELSE IF r.gen # g THEN [r EXCEPT !.att = None]
    ELSE [r EXCEPT !.status = "failed", !.att = None]

MarkNotified(r, g) ==
    IF r.gen = g /\ Dispatchable(r) THEN [r EXCEPT !.status = "notified", !.att = None] ELSE r
FailRecord(r, g) ==
    IF r.gen = g /\ Pending(r) /\ r.status # "cancelling" /\ r.att = None
    THEN [r EXCEPT !.status = "failed"] ELSE r

\* settleAttempt; `pre`: asserted by the four pre-spawn sites, which are capped.
SettleAttempt(r, a, out, pre) ==
    IF ~(r.status = "resuming" /\ Has(r, a) /\ r.att.gen = r.gen) THEN r
    ELSE IF out = "deferred" /\ pre /\ r.defers >= MaxDefers
    THEN [r EXCEPT !.status = "failed", !.att = None]
    ELSE [r EXCEPT !.status = out, !.blocked = FALSE, !.att = None,
                   !.defers = IF out = "deferred" /\ pre THEN @ + 1 ELSE @]

\* Mutant: evidence counts for whatever generation is there.
MarkResumed_AnyGeneration(r, g) ==
    IF r.status \in {"stopped", "deferred", "interactive"} /\ r.att = None
    THEN [r EXCEPT !.status = "resumed", !.blocked = FALSE] ELSE r

MarkResumed(r, g) ==
    IF r.gen = g /\ r.status \in {"stopped", "deferred", "interactive"} /\ r.att = None
    THEN [r EXCEPT !.status = "resumed", !.blocked = FALSE] ELSE r
CanTakeOver(r) == r.status \in {"resuming", "stopped", "deferred"}
MarkInteractive(r) == [r EXCEPT !.status = "interactive"]

BeginCancellation(r) == [r EXCEPT !.status = "cancelling"]
CompleteCancellation(r, g) ==
    IF r.gen = g /\ InCancelFlow(r) /\ r.att = None
    THEN [r EXCEPT !.status = "cancelled", !.blocked = FALSE] ELSE r
BlockCancellation(r) ==
    IF r.status = "cancelling" THEN [r EXCEPT !.status = "manual", !.blocked = TRUE] ELSE r
RequeueRecord(r) == [r EXCEPT !.status = "stopped", !.blocked = FALSE, !.tries = 0, !.defers = 0]

\* The commit that follows a supervision verdict once the child is confirmed dead.
Committed(r, v, verdict) ==
    CASE verdict = "superseded"  -> ClearSupersededAttempt(r, v.att.id)
      [] verdict = "dead"        -> ClearConfirmedDeadAttempt(r, v.att.id)
      [] verdict = "interactive" -> ClearInteractiveAttempt(r, v.att.id)
      [] verdict = "cancel"      -> ClearCancellingAttempt(r, v.att.id)
      [] verdict = "projgone"    -> FailProjectGoneConfirmed(r, v.att.id, v.gen)
      [] OTHER                   -> SettleAttempt(r, v.att.id, verdict, FALSE)

-----------------------------------------------------------------------------
(* The StopFailure handler.                                                    *)

NobodySeen == [pc |-> "idle", gen |-> 0]

\* The client that hit the limit: its turn is over.
LimitHits ==
    \/ user.at \in {"open", "go", "told", "wait"} /\ user' = [user EXCEPT !.at = "open"] /\ UNCHANGED child
    \/ \E a \in Attempt : /\ child[a] \in {"live", "joined"}
                          /\ child' = [child EXCEPT ![a] = "idle"] /\ UNCHANGED user

\* The handler's first write: the intent for an active session, a plain stop
\* when there is none, and nothing for a duplicate report of the same stop.
HandlerFiles(h) ==
    /\ hand[h].pc = "idle" /\ h = CHOOSE x \in Handler : hand[x].pc = "idle"
    /\ sess.kind # "gone"
    /\ LimitHits
    /\ IF \A x \in Handler : hand[x].pc = "idle" THEN KeepBudget ELSE Spend("relimit")
    /\ LET phase == IF sess.kind = "ended" THEN "stopped" ELSE "preparing"
           kind  == IF sess.kind = "ended" THEN "plain" ELSE "autonomous"
           mode  == IF sess.kind = "ended" \/ sess.final THEN "notify" ELSE "headless"
       IN \E recent \in BOOLEAN :
            IF Deduped(rec, recent)
            THEN rec' = rec /\ hand' = [hand EXCEPT ![h].pc = "done"]
            ELSE /\ rec' = UpsertStop(rec, phase, kind, mode, h)
                 /\ hand' = [hand EXCEPT ![h] =
                        [pc |-> IF phase = "preparing" THEN "intent" ELSE "done", gen |-> rec'.gen]]
    /\ UNCHANGED <<sess, slock, claim, waker, mine, cancel, evid>>

\* A handler's failure restores the record its intent replaced. When that copy
\* carries an attempt it may be stale by then, which is an incident of its own.
HandlerFails == /\ Spend("prep")
                /\ rec.prev # None /\ rec.prev.att # None => "stalecopy" \in Incident

\* Under the session lock: re-verify the intent, then park the session. One that
\* "ends" between an intent and the park puts back the record the intent replaced.
HandlerParks(h) ==
    /\ hand[h].pc = "intent" /\ slock = None
    /\ IF OwnsIntent(rec, h, hand[h].gen) /\ sess.kind \in {"live", "compact", "parked"}
       THEN \/ /\ ActsOnItsAnswer
               /\ sess' = [sess EXCEPT !.kind = "parked", !.event = h, !.blocked = FALSE]
               /\ slock' = h /\ hand' = [hand EXCEPT ![h].pc = "parked"] /\ KeepBudget
            \/ /\ HandlerFails /\ hand' = [hand EXCEPT ![h].pc = "failed"]
               /\ UNCHANGED <<sess, slock>>
       ELSE /\ OwnsIntent(rec, h, hand[h].gen) /\ rec.prev # None => "ends" \in Incident
            /\ hand' = [hand EXCEPT ![h].pc = "failed"] /\ UNCHANGED <<sess, slock, budget>>
    /\ UNCHANGED <<rec, claim, child, waker, mine, user, cancel, evid>>

\* activateOrRepair, still under the session lock, which is then released.
HandlerActivates(h) ==
    /\ hand[h].pc = "parked"
    /\ rec' = IF OwnsIntent(rec, h, hand[h].gen) THEN Activated(rec)
              ELSE RepairParked(rec, IF sess.final THEN "notify" ELSE "headless", h)
    /\ slock' = None /\ hand' = [hand EXCEPT ![h].pc = "done"]
    /\ UNCHANGED <<sess, claim, child, waker, mine, user, cancel, evid, budget>>

\* The preparation failed: abortIntent, if the intent is still ours.
HandlerAborts(h) ==
    /\ hand[h].pc = "failed"
    /\ IF OwnsIntent(rec, h, hand[h].gen)
       THEN rec' = Restored(rec) /\ hand' = [hand EXCEPT ![h].pc = "aborted"]
       ELSE rec' = rec /\ hand' = [hand EXCEPT ![h].pc = "done"]
    /\ UNCHANGED <<sess, slock, claim, child, waker, mine, user, cancel, evid, budget>>

\* After its own abort the stop is filed as a plain one. The record that the abort
\* put back was too old, or of the wrong status, for the intent to merge with.
HandlerFallsBack(h) ==
    /\ hand[h].pc = "aborted"
    /\ \E recent \in {b \in BOOLEAN : b => rec.gen >= hand[h].gen} :
         rec' = IF Deduped(rec, recent) THEN rec
                ELSE UpsertStop(rec, "stopped", "plain", "notify", h)
    /\ hand' = [hand EXCEPT ![h].pc = "done"]
    /\ UNCHANGED <<sess, slock, claim, child, waker, mine, user, cancel, evid, budget>>

HandlerRuns(h) == hand[h].pc \in {"intent", "parked", "failed", "aborted"}
HandlerDies(h) ==
    /\ HandlerRuns(h) /\ HandlerFails
    /\ hand' = [hand EXCEPT ![h].pc = "dead"]
    /\ slock' = IF slock = h THEN None ELSE slock
    /\ UNCHANGED <<rec, sess, claim, child, waker, mine, user, cancel, evid>>

-----------------------------------------------------------------------------
(* The waker, one tick after another.                                          *)

Asleep == [pc |-> "down", view |-> Absent, verdict |-> "none"]
At(pc) == waker' = [waker EXCEPT !.pc = pc]
AtWith(pc, v, verdict) == waker' = [pc |-> pc, view |-> v, verdict |-> verdict]

\* spawnWakerIfNeeded, from any CLI command or hook, and runWaker.
WakerStarts ==
    /\ waker.pc = "down" /\ Actionable(rec)
    /\ At("supervise") /\ mine' = {}
    /\ UNCHANGED <<rec, sess, slock, claim, child, hand, user, cancel, evid, budget>>

\* Between spawnChild and recordAttemptSpawn the child has no name yet.
MidSpawn == waker.pc \in {"record", "orphan"} \/ (waker.pc = "kill" /\ waker.verdict = "orphan")
WakerDies ==
    /\ waker.pc # "down" /\ Spend("crash") /\ (MidSpawn => "midspawn" \in Incident)
    /\ waker' = Asleep /\ mine' = {}
    /\ UNCHANGED <<rec, sess, slock, claim, child, hand, user, cancel, evid>>

\* superviseAttempt up to its first await: where the tick goes next, and what is
\* to be committed there. "kill" first confirms the child's death.
Skip == [pc |-> "reconcile", verdict |-> "none"]
Kill(w) == [pc |-> "kill", verdict |-> w]
Settle(w) == [pc |-> "commit", verdict |-> w]
Judgements(r) ==
    IF r.att = None \/ BareAndClaimed(r.att) THEN {Skip}
    ELSE IF r.att.gen # r.gen THEN {Kill("superseded")}
    ELSE IF Dispatchable(r) THEN {Kill("dead")}
    ELSE IF r.status = "interactive" THEN {Kill("interactive")}
    ELSE IF r.status # "resuming" \/ ~r.att.pid THEN {Skip}
    ELSE IF sess.kind = "gone" \/ (SessionStillPending(r) /\ sess.blocked) THEN {Kill("failed")}
    ELSE IF ~SessionStillPending(r) THEN {Settle("resumed")}
    ELSE IF Running(r.att.id) THEN {Skip, Kill("deferred")} \* inactive for too long
    ELSE {Settle("deferred")}

WakerSupervises ==
    /\ waker.pc = "supervise"
    /\ \E j \in Judgements(rec) :
         AtWith(j.pc, IF j.pc = "reconcile" THEN Absent ELSE rec, j.verdict)
    /\ UNCHANGED <<rec, sess, slock, claim, child, hand, mine, user, cancel, evid, budget>>

\* Mutant: the child is signalled and taken for dead.
WakerKills_Unconfirmed ==
    /\ waker.pc = "kill" /\ At("commit")
    /\ \E dead \in BOOLEAN :
         child' = [child EXCEPT ![waker.view.att.id] = IF dead /\ waker.view.att.pid THEN "gone" ELSE @]
    /\ UNCHANGED <<rec, sess, slock, claim, hand, mine, user, cancel, evid, budget>>

\* terminateConfirmed. A bare attempt names no child and confirms at once.
WakerKills ==
    /\ waker.pc = "kill"
    /\ LET a == waker.view.att.id
       IN \/ /\ IF waker.view.att.pid THEN child' = [child EXCEPT ![a] = "gone"] ELSE UNCHANGED child
             /\ At("commit") /\ KeepBudget /\ UNCHANGED rec
          \/ /\ waker.view.att.pid /\ Running(a) /\ Spend("unkillable") /\ UNCHANGED child
             /\ rec' = IF waker.verdict = "cancel" THEN BlockCancellation(rec) ELSE rec
             /\ At(CASE waker.verdict \in {"cancel", "projgone"} -> "dispatch"
                     [] waker.verdict = "orphan" -> "end"
                     [] OTHER -> "reconcile")
    /\ UNCHANGED <<sess, slock, claim, hand, mine, user, cancel, evid>>

\* The ledger transaction that the verdict asks for; an orphan only loses the claim.
WakerCommits ==
    /\ waker.pc = "commit"
    /\ IF waker.verdict = "orphan"
       THEN claim' = None /\ UNCHANGED rec
       ELSE rec' = Committed(rec, waker.view, waker.verdict) /\ UNCHANGED claim
    /\ At(CASE waker.verdict = "cancel" -> "unpark"
            [] waker.verdict = "projgone" -> "dispatch"
            [] waker.verdict = "orphan" -> "end"
            [] OTHER -> "reconcile")
    /\ UNCHANGED <<sess, slock, child, hand, mine, user, cancel, evid, budget>>

\* failProjectGone inside reconciliation.
ProjectGone(r) ==
    IF r.att # None /\ BareAndClaimed(r.att) THEN r
    ELSE IF r.att # None /\ r.att.pid /\ Running(r.att.id) THEN r
    ELSE [r EXCEPT !.status = "failed", !.att = None]
MustKillFirst(r) ==
    /\ SessionAbsent(r) /\ r.att # None /\ r.att.pid /\ Running(r.att.id)
    /\ r.status \in {"manual", "stopped", "deferred", "resuming"} /\ ~InCancelFlow(r)

OwnerAlive(r) == r.owner # None /\ HandlerRuns(r.owner)
\* What the clock may say: a dead child silent for long enough or not yet; the
\* thirty minutes of a takeover over only when the user did not act on it.
Late(r) == IF r.status # "interactive" THEN BOOLEAN
           ELSE IF user.at \in {"away", "open"} THEN {TRUE}
           ELSE IF user.at \in {"go", "told"} /\ "linger" \notin Incident THEN {FALSE}
           ELSE BOOLEAN

MovedOn(r) == [r EXCEPT !.status = "resumed", !.att = None]
\* reconcileLimitLedger's switch on the status of a record.
Reconciled(r, late) ==
    CASE r.status = "preparing" ->
           IF OwnerAlive(r) THEN r
           ELSE IF r.kind = "plain" \/ SessionStillPending(r) THEN Activated(r)
           ELSE Restored(r)
      [] r.status \in {"manual", "stopped", "deferred"} /\ ~InCancelFlow(r) ->
           IF SessionAdvanced(r) /\ r.mode = "headless" THEN MovedOn(r)
           ELSE IF SessionAbsent(r) THEN ProjectGone(r) ELSE r
      [] r.status = "resuming" ->
           IF r.att # None /\ r.att.gen = r.gen /\ BareAndClaimed(r.att) THEN r
           ELSE IF SessionAdvanced(r) THEN MovedOn(r)
           ELSE IF SessionAbsent(r) THEN ProjectGone(r)
           ELSE IF r.att = None THEN [r EXCEPT !.status = "stopped"]
           ELSE IF r.att.gen # r.gen THEN r
           ELSE IF ~r.att.pid \/ (~Running(r.att.id) /\ late)
           THEN [r EXCEPT !.status = "stopped", !.att = None]
           ELSE r
      [] r.status = "interactive" ->
           IF r.att # None THEN r
           ELSE IF SessionAdvanced(r) THEN [r EXCEPT !.status = "resumed"]
           ELSE IF SessionAbsent(r) THEN ProjectGone(r)
           ELSE IF late THEN [r EXCEPT !.status = "stopped"] ELSE r
      [] r.status = "resumed" ->
           IF r.kind = "autonomous" /\ SessionStillPending(r) /\ r.mode = "headless"
           THEN [r EXCEPT !.status = "stopped"] ELSE r
      [] OTHER -> r

\* One ledger transaction; what must be done outside it is done next.
WakerReconciles ==
    /\ waker.pc = "reconcile"
    /\ \E late \in Late(rec) : rec' = Reconciled(rec, late)
    /\ IF MustKillFirst(rec) THEN AtWith("kill", rec, "projgone")
       ELSE IF InCancelFlow(rec) THEN AtWith("finish", Absent, "none")
       ELSE AtWith("dispatch", Absent, "none")
    /\ UNCHANGED <<sess, slock, claim, child, hand, mine, user, cancel, evid, budget>>

\* finishCancel: its read of the record, and what stands in the way.
WakerFinishesCancel ==
    /\ waker.pc = "finish"
    /\ IF ~InCancelFlow(rec) \/ (rec.att # None /\ BareAndClaimed(rec.att))
       THEN AtWith("dispatch", Absent, "none")
       ELSE IF rec.att = None THEN AtWith("unpark", rec, "cancel")
       ELSE AtWith(IF rec.att.pid THEN "kill" ELSE "commit", rec, "cancel")
    /\ UNCHANGED <<rec, sess, slock, claim, child, hand, mine, user, cancel, evid, budget>>

\* downgradeLimitParkToCompact: an ordinary park, but FINALIZE stays a limit park.
Downgraded(v) ==
    IF sess.kind # "parked" \/ sess.event # v.event THEN sess
    ELSE IF sess.final THEN [sess EXCEPT !.blocked = FALSE]
    ELSE [sess EXCEPT !.kind = "compact", !.event = None, !.blocked = FALSE]
\* Under the session lock. Without it the waker tries again at its next tick.
WakerUnparks ==
    /\ waker.pc = "unpark"
    /\ IF waker.view.kind = "plain" THEN At("complete") /\ UNCHANGED <<sess, claim>>
       ELSE IF slock # None THEN At("dispatch") /\ UNCHANGED <<sess, claim>>
       ELSE /\ sess' = Downgraded(waker.view) /\ At("complete")
            /\ claim' = IF sess.kind = "gone" THEN claim ELSE None
    /\ UNCHANGED <<rec, slock, child, hand, mine, user, cancel, evid, budget>>

WakerCompletesCancel ==
    /\ waker.pc = "complete"
    /\ rec' = CompleteCancellation(rec, waker.view.gen)
    /\ AtWith("dispatch", Absent, "none")
    /\ UNCHANGED <<sess, slock, claim, child, hand, mine, user, cancel, evid, budget>>

\* A limit resets minutes to hours after the stop: what is filed while a cancel
\* command runs is not due before the command ends, unless "slowcli" says so, nor
\* before a user who was told to resume does.
Due == /\ cancel.pc = "idle" \/ "slowcli" \in Incident
       /\ ActsOnItsAnswer

\* selectDueRecords reads the ledger; whoever is due now is claimed by a CAS.
WakerSelects ==
    /\ waker.pc = "dispatch"
    /\ IF Dispatchable(rec) /\ rec.att = None /\ Due THEN AtWith("claim", rec, "none")
       ELSE AtWith("end", Absent, "none")
    /\ UNCHANGED <<rec, sess, slock, claim, child, hand, mine, user, cancel, evid, budget>>

\* An attempt id nobody remembers; the code's are random and never come back.
Remembered(a) ==
    \/ Running(a) \/ sess.owner = a \/ (claim # None /\ claim.id = a)
    \/ \E r \in {rec, waker.view, cancel.view} :
         Has(r, a) \/ (r.prev # None /\ Has(r.prev, a))
    \/ user.claim # None /\ user.claim.id = a
NewAttempt == CHOOSE a \in Attempt : ~Remembered(a)

WakerNotifies ==
    /\ waker.pc = "claim" /\ waker.view.mode = "notify"
    /\ rec' = MarkNotified(rec, waker.view.gen) /\ AtWith("end", Absent, "none")
    /\ UNCHANGED <<sess, slock, claim, child, hand, mine, user, cancel, evid, budget>>

WakerGivesUp ==
    /\ waker.pc = "claim" /\ waker.view.mode = "headless" /\ waker.view.tries >= MaxAttempts
    /\ rec' = FailRecord(rec, waker.view.gen) /\ AtWith("end", Absent, "none")
    /\ UNCHANGED <<sess, slock, claim, child, hand, mine, user, cancel, evid, budget>>

CanClaim == Dispatchable(rec) /\ rec.gen = waker.view.gen /\ rec.att = None
WakerClaims ==
    /\ waker.pc = "claim" /\ waker.view.mode = "headless" /\ waker.view.tries < MaxAttempts
    /\ IF CanClaim
       THEN \E a \in Attempt :
              /\ ~Remembered(a) /\ a = NewAttempt
              /\ rec' = ClaimAttempt(rec, a) /\ mine' = mine \cup {a} /\ AtWith("check", rec', "none")
       ELSE AtWith("end", Absent, "none") /\ UNCHANGED <<rec, mine>>
    /\ UNCHANGED <<sess, slock, claim, child, hand, user, cancel, evid, budget>>

\* dispatchClaimed's checks before it touches the claim file, in their order.
WakerChecks ==
    /\ waker.pc = "check"
    /\ IF sess.kind = "gone" THEN AtWith("settle", waker.view, "failed") /\ KeepBudget
       ELSE \/ Spend("noclaude") /\ AtWith("settle", waker.view, "deferred")
            \/ KeepBudget /\ IF ~SessionStillPending(waker.view)
                             THEN AtWith("settle", waker.view, "resumed")
                             ELSE IF HeartbeatFresh
                             THEN AtWith("settle", waker.view, "deferred")
                             ELSE At("file")
            \/ \* past the grace a live client, or a posture not opted in: to the user
               /\ SessionStillPending(waker.view) /\ Spend("manual")
               /\ AtWith("settle", waker.view, "manual")
    /\ UNCHANGED <<rec, sess, slock, claim, child, hand, mine, user, cancel, evid>>

\* The recheck and the claim, under the wake-claim lock.
WakerFilesClaim ==
    /\ waker.pc = "file"
    /\ \/ /\ CanRecordSpawn(rec, waker.view.att.id) /\ SessionStillPending(waker.view)
          /\ claim' = [id |-> waker.view.att.id, pid |-> FALSE]
          /\ At("spawn") /\ KeepBudget
       \/ /\ IF CanRecordSpawn(rec, waker.view.att.id) /\ SessionStillPending(waker.view)
             THEN Spend("spawnfail") ELSE KeepBudget
          /\ AtWith("settle", waker.view, "stopped") /\ UNCHANGED claim
    /\ UNCHANGED <<rec, sess, slock, child, hand, mine, user, cancel, evid>>

WakerSpawns ==
    /\ waker.pc = "spawn"
    /\ \/ /\ child' = [child EXCEPT ![waker.view.att.id] = "fresh"]
          /\ At("record") /\ UNCHANGED claim /\ KeepBudget
       \/ /\ Spend("spawnfail") /\ claim' = None /\ AtWith("settle", waker.view, "deferred")
          /\ UNCHANGED child
    /\ UNCHANGED <<rec, sess, slock, hand, mine, user, cancel, evid>>

\* The pre-spawn settlements.
WakerSettles ==
    /\ waker.pc = "settle"
    /\ rec' = SettleAttempt(rec, waker.view.att.id, waker.verdict, TRUE)
    /\ AtWith("end", Absent, "none")
    /\ UNCHANGED <<sess, slock, claim, child, hand, mine, user, cancel, evid, budget>>

\* recordAttemptSpawn; if the record moved meanwhile the child is an orphan.
WakerRecords ==
    /\ waker.pc = "record"
    /\ LET a == waker.view.att.id
       IN IF CanRecordSpawn(rec, a)
          THEN rec' = RecordAttemptSpawn(rec, a) /\ At("note")
          ELSE rec' = AttachOrphanChildPid(rec, a) /\ At("orphan")
    /\ UNCHANGED <<sess, slock, claim, child, hand, mine, user, cancel, evid, budget>>

\* The claim file learns the child's pid; an orphan is then killed.
WakerNotesPid ==
    /\ waker.pc \in {"note", "orphan"}
    /\ claim' = [id |-> waker.view.att.id, pid |-> TRUE]
    /\ IF waker.pc = "note" THEN AtWith("end", Absent, "none")
       ELSE AtWith("kill", [waker.view EXCEPT !.att.pid = TRUE], "orphan")
    /\ UNCHANGED <<rec, sess, slock, child, hand, mine, user, cancel, evid, budget>>

\* The end of the tick: another one, or, with nothing left to do, the exit.
WakerEndsTick ==
    /\ waker.pc = "end"
    /\ IF Actionable(rec) THEN AtWith("supervise", Absent, "none") /\ UNCHANGED mine
       ELSE waker' = Asleep /\ mine' = {}
    /\ UNCHANGED <<rec, sess, slock, claim, child, hand, user, cancel, evid, budget>>

-----------------------------------------------------------------------------
(* Wake children. Their SessionStart hook trusts the ledger, not the claim.    *)

ChildStarts(a) ==
    /\ child[a] = "fresh"
    /\ child' = [child EXCEPT ![a] =
           IF sess.kind = "compact" \/ (sess.kind = "parked" /\ CanRecordSpawn(rec, a))
           THEN "live" ELSE "idle"]
    /\ UNCHANGED <<rec, sess, slock, claim, hand, waker, mine, user, cancel, evid, budget>>

\* The guide's resume: it needs a park, and git to validate HEAD.
Resumed(by) == [sess EXCEPT !.kind = "live", !.event = None, !.blocked = FALSE, !.owner = by]
ChildResumes(a) ==
    /\ child[a] = "live" /\ slock = None
    /\ \/ /\ Resumable /\ sess' = Resumed(a) /\ child' = [child EXCEPT ![a] = "joined"] /\ KeepBudget
       \/ /\ Resumable /\ Spend("git") /\ sess' = [sess EXCEPT !.blocked = TRUE]
          /\ child' = [child EXCEPT ![a] = "idle"]
       \/ ~Resumable /\ child' = [child EXCEPT ![a] = "idle"] /\ KeepBudget /\ UNCHANGED sess
    /\ UNCHANGED <<rec, slock, claim, hand, waker, mine, user, cancel, evid>>

\* A child ends for any reason; one that resumed the session may have finished it.
ChildEnds(a) ==
    /\ child[a] \in {"fresh", "live", "idle", "joined"} /\ slock = None
    /\ child' = [child EXCEPT ![a] = "gone"]
    /\ \E k \in {sess.kind} \cup (IF child[a] = "joined" /\ sess.kind = "live" THEN {"ended"} ELSE {}) :
         sess' = [sess EXCEPT !.kind = k, !.owner = IF @ = a THEN None ELSE @]
    /\ UNCHANGED <<rec, slock, claim, hand, waker, mine, user, cancel, evid, budget>>

-----------------------------------------------------------------------------
(* The user and the SessionStart hook of a client the user opens.              *)

NotReading(at) == [at |-> at, claim |-> None]

UserCloses ==
    /\ user.at \in {"open", "wait", "go", "told"}
    /\ user' = NotReading("away")
    /\ UNCHANGED <<rec, sess, slock, claim, child, hand, waker, mine, cancel, evid, budget>>

Answer(r) ==
    IF r.status = "manual" THEN IF r.blocked THEN "wait" ELSE "told"
    ELSE IF Pending(r) /\ ~Dispatchable(r) THEN "wait" ELSE "told"

\* The hook reads the claim and the record: it takes a record over that the waker
\* may wake, and answers for any other. An ordinary park is resumed unasked.
UserReopens ==
    /\ user.at \in {"away", "wait"} /\ sess.kind \in {"parked", "compact"} /\ Spend("reopen")
    /\ user' = IF sess.kind = "compact" THEN NotReading("told")
               ELSE IF sess.final THEN NotReading("wait")
               ELSE IF CanTakeOver(rec) /\ rec.mode = "headless"
               THEN [at |-> "reading", claim |-> claim]
               ELSE NotReading(Answer(rec))
    /\ UNCHANGED <<rec, sess, slock, claim, child, hand, waker, mine, cancel, evid>>

\* The child that a takeover displaces: named by the attempt, else by the claim.
Displaced == IF rec.att # None /\ rec.att.pid THEN {rec.att.id}
             ELSE IF user.claim # None /\ user.claim.pid THEN {user.claim.id} ELSE {}
\* A signal reaches a process that carries the attempt's markers.
Signalled == {a \in Displaced : rec.att = None \/ rec.att.id = a}

\* Mutant: an attempt in flight counts only once its child is known.
StandsDown_IfKnown == Displaced # {}

\* A wake may be in flight: the user is asked to come back.
StandsDown == rec.status = "resuming" \/ Displaced # {}

\* markInteractive and the revoked claim, under the wake-claim lock; the child is
\* signalled without waiting for its exit. A lost CAS tells the user to retry.
UserTakesOver ==
    /\ user.at = "reading"
    /\ IF CanTakeOver(rec)
       THEN /\ rec' = MarkInteractive(rec) /\ claim' = None
            /\ user' = NotReading(IF StandsDown THEN "wait" ELSE "go")
            /\ \E dead \in {{}, Signalled} :
                 child' = [a \in Attempt |-> IF a \in dead /\ Running(a) THEN "gone" ELSE child[a]]
       ELSE user' = NotReading("wait") /\ UNCHANGED <<rec, claim, child>>
    /\ UNCHANGED <<sess, slock, hand, waker, mine, cancel, evid, budget>>

UserResumes ==
    /\ user.at \in {"go", "told"} /\ slock = None
    /\ \/ Resumable /\ sess' = Resumed("user") /\ user' = NotReading("open") /\ KeepBudget
       \/ /\ Resumable /\ Spend("git") /\ sess' = [sess EXCEPT !.blocked = TRUE]
          /\ user' = NotReading("wait")
       \/ ~Resumable /\ user' = NotReading("open") /\ KeepBudget /\ UNCHANGED sess
    /\ UNCHANGED <<rec, slock, claim, child, hand, waker, mine, cancel, evid>>

\* limit-status --requeue, by a user who is not resuming the session by hand.
UserRequeues ==
    /\ user.at = "away" /\ rec.status \in {"manual", "failed"} /\ rec.att = None /\ Spend("requeue")
    /\ rec' = RequeueRecord(rec)
    /\ UNCHANGED <<sess, slock, claim, child, hand, waker, mine, user, cancel, evid>>

\* markLimitEvidenceAndRespawn of a Stop hook: the reads, then the fenced mark.
\* Of a plain record a completed turn is evidence enough, and counts as an incident.
StopHookReads ==
    /\ evid = 0 /\ "evidence" \in Incident
    /\ rec.status \in {"stopped", "deferred", "interactive"} /\ rec.att = None
    /\ IF rec.kind = "autonomous" THEN SessionAdvanced(rec) /\ KeepBudget ELSE Spend("evidence")
    /\ evid' = rec.gen
    /\ UNCHANGED <<rec, sess, slock, claim, child, hand, waker, mine, user, cancel>>
StopHookMarks ==
    /\ evid # 0
    /\ rec' = MarkResumed(rec, evid) /\ evid' = 0
    /\ UNCHANGED <<sess, slock, claim, child, hand, waker, mine, user, cancel, budget>>

\* Everything about the project disappears.
ProjectVanishes ==
    /\ sess.kind # "gone" /\ slock = None /\ Spend("gone")
    /\ sess' = [sess EXCEPT !.kind = "gone", !.event = None, !.blocked = FALSE]
    /\ UNCHANGED <<rec, slock, claim, child, hand, waker, mine, user, cancel, evid>>

-----------------------------------------------------------------------------
(* Cancelling: `limit-status --cancel`, or `session stop`, which holds the     *)
(* session lock from start to end, revokes the claim and ends the session.     *)

NotCancelling == [pc |-> "idle", how |-> "limit-status", view |-> Absent]
CancelGoesTo(pc) == cancel' = [cancel EXCEPT !.pc = pc]
CancelOver == cancel' = NotCancelling /\ slock' = IF slock = "cli" THEN None ELSE slock

CancelBegins(how) ==
    /\ cancel.pc = "idle" /\ Pending(rec) /\ Spend("cancel")
    /\ how = "stop" => slock = None /\ sess.kind = "parked"
    /\ rec' = BeginCancellation(rec)
    /\ claim' = IF how = "stop" THEN None ELSE claim
    /\ IF rec.att # None /\ BareAndClaimed(rec.att)
       THEN UNCHANGED <<cancel, slock>> \* a wake is mid-spawn: the waker finishes this
       ELSE /\ cancel' = [how |-> how, view |-> rec',
                          pc |-> IF rec.att = None THEN "unpark"
                                 ELSE IF rec.att.pid THEN "kill" ELSE "clear"]
            /\ slock' = IF how = "stop" THEN "cli" ELSE slock
    /\ UNCHANGED <<sess, child, hand, waker, mine, user, evid>>

CancelKills ==
    /\ cancel.pc = "kill"
    /\ LET a == cancel.view.att.id
       IN \/ /\ child' = [child EXCEPT ![a] = "gone"] /\ CancelGoesTo("clear")
             /\ UNCHANGED <<rec, slock, budget>>
          \/ /\ Running(a) /\ Spend("unkillable") /\ rec' = BlockCancellation(rec)
             /\ CancelOver /\ UNCHANGED child
    /\ UNCHANGED <<sess, claim, hand, waker, mine, user, evid>>

CancelClears ==
    /\ cancel.pc = "clear"
    /\ rec' = ClearCancellingAttempt(rec, cancel.view.att.id) /\ CancelGoesTo("unpark")
    /\ UNCHANGED <<sess, slock, claim, child, hand, waker, mine, user, evid, budget>>

CancelUnparks ==
    /\ cancel.pc = "unpark"
    /\ IF cancel.how = "stop"
       THEN /\ sess' = [sess EXCEPT !.kind = "ended", !.event = None, !.blocked = FALSE]
            /\ slock' = None /\ UNCHANGED claim
       ELSE IF cancel.view.kind = "plain" THEN UNCHANGED <<sess, claim, slock>>
       ELSE /\ slock = None /\ sess' = Downgraded(cancel.view)
            /\ claim' = (IF sess.kind = "gone" THEN claim ELSE None) /\ UNCHANGED slock
    /\ CancelGoesTo("complete")
    /\ UNCHANGED <<rec, child, hand, waker, mine, user, evid, budget>>

CancelCompletes ==
    /\ cancel.pc = "complete"
    /\ rec' = CompleteCancellation(rec, cancel.view.gen) /\ cancel' = NotCancelling
    /\ UNCHANGED <<sess, slock, claim, child, hand, waker, mine, user, evid, budget>>

CancelDies ==
    /\ cancel.pc # "idle" /\ Spend("crash") /\ CancelOver
    /\ UNCHANGED <<rec, sess, claim, child, hand, waker, mine, user, evid>>

-----------------------------------------------------------------------------
Init ==
    /\ rec = Absent /\ slock = None /\ claim = None /\ evid = 0 /\ mine = {}
    /\ \E final \in IF "finalize" \in Incident THEN BOOLEAN ELSE {FALSE} :
         sess = [kind |-> "live", event |-> None, blocked |-> FALSE, final |-> final, owner |-> "user"]
    /\ child = [a \in Attempt |-> "gone"]
    /\ hand = [h \in Handler |-> NobodySeen]
    /\ waker = Asleep /\ user = NotReading("open") /\ cancel = NotCancelling
    /\ budget = Budget

WakerStep == \/ WakerSupervises \/ WakerKills \/ WakerCommits \/ WakerReconciles
             \/ WakerFinishesCancel \/ WakerUnparks \/ WakerCompletesCancel
             \/ WakerSelects \/ WakerNotifies \/ WakerGivesUp \/ WakerClaims
             \/ WakerChecks \/ WakerFilesClaim \/ WakerSpawns \/ WakerSettles
             \/ WakerRecords \/ WakerNotesPid \/ WakerEndsTick
HandlerStep(h) == HandlerParks(h) \/ HandlerActivates(h) \/ HandlerAborts(h) \/ HandlerFallsBack(h)
CancelStep == CancelKills \/ CancelClears \/ CancelUnparks \/ CancelCompletes
UserStep == UserReopens \/ UserTakesOver \/ UserResumes \/ UserRequeues

Next == \/ \E h \in Handler : HandlerFiles(h) \/ HandlerStep(h) \/ HandlerDies(h)
        \/ WakerStarts \/ WakerStep \/ WakerDies
        \/ \E a \in Attempt : ChildStarts(a) \/ ChildResumes(a) \/ ChildEnds(a)
        \/ UserCloses \/ UserStep \/ StopHookReads \/ StopHookMarks
        \/ ProjectVanishes
        \/ (\E how \in {"limit-status", "stop"} : CancelBegins(how)) \/ CancelStep \/ CancelDies

\* Processes that started run on; some CLI command or hook finds pending records
\* and starts a waker; a headless child ends, if only at its 24-hour cap; the
\* user closes a client that has nothing to do.
Fairness == /\ WF_vars(WakerStarts) /\ WF_vars(WakerStep)
            /\ \A h \in Handler : WF_vars(HandlerStep(h))
            /\ \A a \in Attempt : WF_vars(ChildStarts(a)) /\ WF_vars(ChildEnds(a))
            /\ WF_vars(UserCloses) /\ WF_vars(UserTakesOver) /\ WF_vars(CancelStep)
Spec == Init /\ [][Next]_vars /\ Fairness

-----------------------------------------------------------------------------
WakerPcs == {"down", "supervise", "kill", "commit", "reconcile", "finish", "unpark", "complete",
             "dispatch", "claim", "check", "file", "spawn", "settle", "record", "note", "orphan",
             "end"}
\* What superviseAttempt, finishCancel, reconciliation and a dispatch may conclude.
Outcomes == {"failed", "resumed", "deferred", "manual", "stopped"}
Verdicts == {"none", "superseded", "dead", "interactive", "cancel", "projgone", "orphan"}
            \cup Outcomes

\* Every component keeps its type; the counters that end an episode keep to
\* their caps (limitResume.maxAttempts, MAX_DEFER_COUNT) whatever happens between.
TypeOK ==
    /\ rec \in RecordType /\ claim \in ClaimType \cup {None} /\ evid \in Nat /\ budget \in 0..Budget
    /\ sess \in [kind : {"live", "parked", "compact", "ended", "gone"}, event : Handler \cup {None},
                 blocked : BOOLEAN, final : BOOLEAN, owner : Attempt \cup {"user", None}]
    /\ slock \in Handler \cup {None, "cli"}
    /\ child \in [Attempt -> {"gone", "fresh", "live", "idle", "joined"}]
    /\ hand \in [Handler -> [pc : {"idle", "intent", "parked", "failed", "aborted", "done", "dead"},
                             gen : Nat]]
    /\ waker \in [pc : WakerPcs, view : RecordType, verdict : Verdicts] /\ mine \subseteq Attempt
    /\ user \in [at : {"open", "away", "reading", "wait", "go", "told"}, claim : ClaimType \cup {None}]
    /\ cancel \in [pc : {"idle", "kill", "clear", "unpark", "complete"},
                   how : {"limit-status", "stop"}, view : RecordType]

\* A wake child that may still call the guide.
Loose(a) == child[a] \in {"fresh", "live"}
\* Somebody answers for it: the record names it, or the waker has it in hand.
InHand(a) == \/ Has(rec, a) /\ rec.att.pid
             \/ waker.pc \in {"record", "orphan", "kill"} /\ Has(waker.view, a)

\* While the session is parked no wake child is out of everybody's sight: through
\* takeovers, re-limits, cancels and restarts of the waker, the record names it or
\* the waker is about to (attachOrphanChildPid, claimAbandoned).
ChildIsNamed == sess.kind = "parked" => \A a \in Attempt : Loose(a) => InHand(a)

\* The waker never has two children that could both resume the session:
\* claimAttempt refuses a record whose last attempt is not known to be dead.
OneWakeChild == Cardinality({a \in Attempt : Loose(a)}) <= 1

\* A user whom the SessionStart hook told to resume has no live wake child beside
\* them (session-compact.ts:713: "there is no in-flight child to race").  Of a record
\* that still has the attempt of a superseded stop this is false.
OneDriver == user.at = "go" /\ rec.kind = "autonomous" => \A a \in Attempt : child[a] # "live"

\* It holds as long as no superseded attempt lingers on the record.
TakeoverStandsDown == (rec.att = None \/ rec.att.gen = rec.gen) => OneDriver

\* A record becomes `cancelled` only when no wake child is left to act on the
\* session that the cancel gave back ("never cleared under a possibly-live child").
CancelIsFinal == [][rec.status # "cancelled" /\ rec'.status = "cancelled"
                    => \A a \in Attempt : ~Loose(a)']_vars

\* A record is marked resumed only for the stop it is about: never while the
\* session waits for that very stop, however old the evidence (markResumed).
ResumedMeansMovedOn ==
    [][rec.kind = "autonomous" /\ rec.status # "resumed" /\ rec'.status = "resumed"
       => ~SessionStillPending(rec)]_vars

\* A bare claim of the living waker that its dispatch can neither spawn nor settle:
\* the record left `resuming` before the spawn, and settleAttempt wants `resuming`.
Wedged == rec.att # None /\ BareAndClaimed(rec.att) /\ rec.status # "resuming"

\* "A recorded claimant does not wedge either": no claim outlives its dispatch for
\* ever.
NoClaimWedges == []<>~Wedged

\* Unless a claim wedges, a parked session does not stay parked unnoticed: it is
\* resumed or given back, or its record ends in a status that tells the user.
Resolved == sess.kind # "parked" \/ rec.status \in {"manual", "failed", "notified", "cancelled"}
ParkedIsResolved == <>[]Wedged \/ (sess.kind = "parked" ~> Resolved)

\* Unless a claim wedges, a cancel that began is over some day, whoever dies on the
\* way and however often its child could not be killed.
CancelEnds == <>[]Wedged \/ (InCancelFlow(rec) ~> ~InCancelFlow(rec))
=============================================================================
