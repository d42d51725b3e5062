--------------------------- MODULE HardenedLock ---------------------------
(***************************************************************************)
(* The file lock of the message bus (src/src/bus/lock.ts).                 *)
(*                                                                         *)
(* A lock is a file whose body names its owner (process id, process        *)
(* signature, random token).  It is taken by hard-linking a private,       *)
(* complete temporary file to the lock's path: the link fails if the path  *)
(* exists.  It is released, and a dead owner's lock is broken, by          *)
(* compareAndUnlink: open and compare, then unlink BY PATH, which are two  *)
(* steps.  A second file, "<lock>.reap", is the reaper guard: only its     *)
(* owner may break a dead owner's lock, and it is itself never broken.     *)
(*                                                                         *)
(* A Task is one call of acquireHardenedLock or tryAcquireHardenedLock     *)
(* (one at a time per task); tasks of one process share its fate.  A       *)
(* file's content is abstracted to the task that created it: a task has    *)
(* one staged file at a time and a dead one never stages another, so the   *)
(* owner identifies the inode and the token.  (A task whose file could not *)
(* be removed may stage another, but that one cannot be linked while the   *)
(* first is at the path.)                                                  *)
(***************************************************************************)
EXTENDS Naturals

CONSTANTS
    Task,        \* the concurrent callers
    Process,     \* the operating-system processes they run in
    ProcOf,      \* ProcOf[t]: the process task t runs in
    Modes,       \* which calls are made: a subset of {"wait", "try"}
    Signatures,  \* whether captureProcessSignature works: a subset of BOOLEAN
    MaxFaults,   \* bound: how often the file system fails
    NoOne        \* the path does not exist

ASSUME LockAssumption ==
    /\ ProcOf \in [Task -> Process]
    /\ Modes \subseteq {"wait", "try"}
    /\ Signatures \subseteq BOOLEAN
    /\ MaxFaults \in Nat
    /\ NoOne \notin Task

VARIABLES
    lock,        \* who created the file now at the lock's path
    signed,      \* its body has a process signature
    guard,       \* who created the file now at the reaper guard's path
    proc,        \* each process id: "alive", "dead" (ESRCH), or "reused"
    pc,          \* where each task is
    call,        \* the local variables of each task's call
    faults,      \* how often the file system has failed
    leaked       \* history: which of the two files their owners gave up on

vars == <<lock, signed, guard, proc, pc, call, faults, leaked>>
disk == <<faults, leaked>>

Reaping  == {"reread", "compare", "unlink", "unguardCompare", "unguardUnlink"}
Owning   == {"linked", "held", "releaseCompare", "releaseUnlink"}
Trying   == {"link", "read", "guard"}
Location == {"idle"} \cup Trying \cup Reaping \cup Owning

Call == [mode     : {"wait", "try"},        \* which of the two calls
         attempts : 0..2,                   \* left to a try-lock; 0 once the
                                            \* call failed after a link
         late     : BOOLEAN,                \* a waiting call's deadline passed
         seen     : Task \cup {NoOne}]      \* the body read under the guard

NoCall == [mode |-> "wait", attempts |-> 0, late |-> FALSE, seen |-> NoOne]

Alive(t) == proc[ProcOf[t]] = "alive"

TypeOK ==
    /\ lock \in Task \cup {NoOne}
    /\ signed \in BOOLEAN
    /\ guard \in Task \cup {NoOne}
    /\ proc \in [Process -> {"alive", "dead", "reused"}]
    /\ pc \in [Task -> Location]
    /\ call \in [Task -> Call]
    /\ faults \in 0..MaxFaults
    /\ leaked \subseteq {"lock", "guard"}

Init ==
    /\ lock = NoOne
    /\ signed = FALSE
    /\ guard = NoOne
    /\ proc = [p \in Process |-> "alive"]
    /\ pc = [t \in Task |-> "idle"]
    /\ call = [t \in Task |-> NoCall]
    /\ faults = 0
    /\ leaked = {}

(***************************************************************************)
(* inspectProcessIdentity(pid, signature) of the body at the lock's path.  *)
(* "dead" is answered when the process id does not exist, or when it does  *)
(* with another signature; a missing signature, or one that cannot be      *)
(* captured now, gives "unknown".  A process's signature is taken to be    *)
(* stable for its life.                                                    *)
(***************************************************************************)
inspectProcessIdentity ==
    IF proc[ProcOf[lock]] = "dead" THEN {"dead"}
    ELSE {"unknown"} \cup
         {v \in {"alive", "dead"} : signed /\ (v = "alive" <=> Alive(lock))}

Goto(t, l) == pc' = [pc EXCEPT ![t] = l]

\* The call answers (or throws): its temporary file and locals are gone.
Return(t) ==
    /\ Goto(t, "idle")
    /\ call' = [call EXCEPT ![t] = NoCall]

\* A "retry" of one attempt: the waiting call loops, the try-lock has one
\* further attempt and then answers null.  A failed call throws.
Again(t) ==
    LET left == IF call[t].mode = "try" THEN call[t].attempts - 1 ELSE 1
    IN  IF call[t].attempts > 0 /\ left > 0
          THEN Goto(t, "link") /\ call' = [call EXCEPT ![t].attempts = left]
          ELSE Return(t)

\* A "busy": the waiting call polls again, the try-lock answers null.
Busy(t) ==
    \/ call[t].mode = "wait" /\ Goto(t, "link") /\ UNCHANGED call
    \/ call[t].mode = "try" /\ Return(t)

\* The loops run while the deadline has not passed.  Date.now() and the
\* attempt it precedes are one step: the clock is read nowhere else.
InTime(t) == call[t].mode = "try" \/ ~call[t].late

\* An operation on the file system, or the parsing of what it read, fails.
Fault == faults < MaxFaults /\ faults' = faults + 1

----------------------------------------------------------------------------
(* acquireHardenedLock and tryAcquireHardenedLock *)

\* writeLockTemp.
Start(t) ==
    /\ pc[t] = "idle"
    /\ \E m \in Modes :
          call' = [call EXCEPT ![t] = [mode |-> m, late |-> FALSE, seen |-> NoOne,
                                       attempts |-> IF m = "try" THEN 2 ELSE 1]]
    /\ Goto(t, "link")
    /\ UNCHANGED <<lock, signed, guard, proc, disk>>

\* Mutant: the guard is awaited without a deadline.
TimeOut_NotForGuard(t) ==
    /\ pc[t] = "link"
    /\ ~InTime(t)
    /\ Return(t)
    /\ UNCHANGED <<lock, signed, guard, proc, disk>>

\* The loop's test of the deadline; the error unlinks the temporary file.
TimeOut(t) ==
    /\ pc[t] \in {"link", "guard"}
    /\ ~InTime(t)
    /\ Return(t)
    /\ UNCHANGED <<lock, signed, guard, proc, disk>>

\* link(tempPath, lockPath).  The body it publishes was staged by
\* writeLockTemp, with a signature if one could be captured.
Link(t) ==
    /\ pc[t] = "link"
    /\ InTime(t)
    /\ \/ lock = NoOne /\ lock' = t /\ Goto(t, "linked") /\ signed' \in Signatures
       \/ lock # NoOne /\ Goto(t, "read") /\ UNCHANGED <<lock, signed>>
    /\ UNCHANGED <<guard, proc, call, disk>>

\* The steps after the link succeed, and the handle is returned.
Acquired(t) ==
    /\ pc[t] = "linked"
    /\ Goto(t, "held")
    /\ UNCHANGED <<lock, signed, guard, proc, call, disk>>

\* readLock after EEXIST, and the verdict on the holder.
Read(t) ==
    /\ pc[t] = "read"
    /\ \/ lock = NoOne /\ Again(t)
       \/ /\ lock # NoOne
          /\ \E verdict \in inspectProcessIdentity :
                \/ verdict = "dead" /\ Goto(t, "guard") /\ UNCHANGED call
                \/ verdict # "dead" /\ Busy(t)
    /\ UNCHANGED <<lock, signed, guard, proc, disk>>

\* Mutant: dead holders are reclaimed without the guard's exclusion.
LinkGuard_NoExclusion(t) ==
    /\ pc[t] = "guard"
    /\ guard' = t
    /\ Goto(t, "reread")
    /\ UNCHANGED <<lock, signed, proc, call, disk>>

\* acquireReaperGuard polls until the deadline, tryAcquireReaperGuard gives
\* up at once.
LinkGuard(t) ==
    /\ pc[t] = "guard"
    /\ InTime(t)
    /\ \/ guard = NoOne /\ guard' = t /\ Goto(t, "reread") /\ UNCHANGED call
       \/ guard # NoOne /\ call[t].mode = "try" /\ Return(t) /\ UNCHANGED guard
    /\ UNCHANGED <<lock, signed, proc, disk>>

\* Mutant: the verdict of before the guard is trusted.
Reread_TrustsFirstVerdict(t) ==
    /\ pc[t] = "reread"
    /\ call' = [call EXCEPT ![t].seen = lock]
    /\ Goto(t, IF lock = NoOne THEN "unguardCompare" ELSE "compare")
    /\ UNCHANGED <<lock, signed, guard, proc, disk>>

\* The second readLock, under the guard, and the second verdict.
Reread(t) ==
    /\ pc[t] = "reread"
    /\ call' = [call EXCEPT ![t].seen = lock]
    /\ \/ lock = NoOne /\ Goto(t, "unguardCompare")
       \/ /\ lock # NoOne
          /\ \E verdict \in inspectProcessIdentity :
                Goto(t, IF verdict = "dead" THEN "compare" ELSE "unguardCompare")
    /\ UNCHANGED <<lock, signed, guard, proc, disk>>

\* compareAndUnlink of what was read: the comparison ...
Compare(t) ==
    /\ pc[t] = "compare"
    /\ Goto(t, IF lock = call[t].seen THEN "unlink" ELSE "unguardCompare")
    /\ UNCHANGED <<lock, signed, guard, proc, call, disk>>

\* ... and the unlink, of whatever is at the path by now.
Unlink(t) ==
    /\ pc[t] = "unlink"
    /\ lock' = NoOne
    /\ leaked' = leaked \ {"lock"}
    /\ Goto(t, "unguardCompare")
    /\ UNCHANGED <<signed, guard, proc, call, faults>>

\* releaseHardenedLock(reaper), the finally of the reclamation, then "retry".
UnguardCompare(t) ==
    /\ pc[t] = "unguardCompare"
    /\ \/ guard = t /\ Goto(t, "unguardUnlink") /\ UNCHANGED call
       \/ guard # t /\ Again(t)
    /\ UNCHANGED <<lock, signed, guard, proc, disk>>

UnguardUnlink(t) ==
    /\ pc[t] = "unguardUnlink"
    /\ guard' = NoOne
    /\ Again(t)
    /\ UNCHANGED <<lock, signed, proc, disk>>

\* releaseHardenedLock
Release(t) ==
    /\ pc[t] = "held"
    /\ Goto(t, "releaseCompare")
    /\ UNCHANGED <<lock, signed, guard, proc, call, disk>>

ReleaseCompare(t) ==
    /\ pc[t] = "releaseCompare"
    /\ \/ lock = t /\ Goto(t, "releaseUnlink") /\ UNCHANGED call
       \/ lock # t /\ Return(t)
    /\ UNCHANGED <<lock, signed, guard, proc, disk>>

ReleaseUnlink(t) ==
    /\ pc[t] = "releaseUnlink"
    /\ lock' = NoOne
    /\ Return(t)
    /\ UNCHANGED <<guard, signed, proc, disk>>

----------------------------------------------------------------------------
(* Where the file system may fail *)

\* The link, readLock ("corrupt") or the guard's link: the call throws.
AttemptFails(t) ==
    /\ pc[t] \in Trying
    /\ Fault
    /\ Return(t)
    /\ UNCHANGED <<lock, signed, guard, proc, leaked>>

\* Mutant: a failure after the link throws without removing the lock.
PublishFails_NoCleanup(t) ==
    /\ pc[t] = "linked"
    /\ Fault
    /\ Return(t)
    /\ UNCHANGED <<lock, signed, guard, proc, leaked>>

\* A step after the link: the lock just published is compared and unlinked.
PublishFails(t) ==
    /\ pc[t] = "linked"
    /\ Fault
    /\ Goto(t, "releaseCompare")
    /\ call' = [call EXCEPT ![t].attempts = 0]
    /\ UNCHANGED <<lock, signed, guard, proc, leaked>>

\* Mutant: a failure after the guard's link throws and leaves the guard.
GuardFails_NoCleanup(t) ==
    /\ pc[t] = "guard"
    /\ InTime(t)
    /\ guard = NoOne
    /\ guard' = t
    /\ Fault
    /\ Return(t)
    /\ UNCHANGED <<lock, signed, proc, leaked>>

\* A step after the guard's link: the call gives the guard back and throws.
GuardFails(t) ==
    /\ pc[t] = "guard"
    /\ InTime(t)
    /\ guard = NoOne
    /\ guard' = t
    /\ Fault
    /\ Goto(t, "unguardCompare")
    /\ call' = [call EXCEPT ![t].attempts = 0]
    /\ UNCHANGED <<lock, signed, proc, leaked>>

\* The second readLock ("corrupt"): the call throws, after its finally.
RereadFails(t) ==
    /\ pc[t] = "reread"
    /\ Fault
    /\ Goto(t, "unguardCompare")
    /\ call' = [call EXCEPT ![t].attempts = 0]
    /\ UNCHANGED <<lock, signed, guard, proc, leaked>>

\* compareAndUnlink of the dead owner's lock answers false, which nobody looks
\* at: the call goes on as if it had removed it.
ReclaimFails(t) ==
    /\ pc[t] \in {"compare", "unlink"}
    /\ Fault
    /\ Goto(t, "unguardCompare")
    /\ UNCHANGED <<lock, signed, guard, proc, call, leaked>>

\* compareAndUnlink of the call's own guard answers false, which nobody looks
\* at: the guard stays.
UnguardFails(t) ==
    /\ pc[t] \in {"unguardCompare", "unguardUnlink"}
    /\ Fault
    /\ leaked' = leaked \cup {"guard"}
    /\ Again(t)
    /\ UNCHANGED <<lock, signed, guard, proc>>

\* compareAndUnlink of the call's own lock answers false, which nobody looks
\* at: the lock stays, and names a live process.
ReleaseFails(t) ==
    /\ pc[t] \in {"releaseCompare", "releaseUnlink"}
    /\ Fault
    /\ leaked' = leaked \cup {"lock"}
    /\ Return(t)
    /\ UNCHANGED <<lock, signed, guard, proc>>

----------------------------------------------------------------------------
(* The environment *)

\* A process ends anywhere (SIGKILL, power loss).
Crash(p) ==
    /\ proc[p] = "alive"
    /\ proc' = [proc EXCEPT ![p] = "dead"]
    /\ UNCHANGED <<lock, signed, guard, pc, call, disk>>

\* The system gives a dead process's id to an unrelated process, which ends
\* in its turn.
ReusePid(p) ==
    /\ proc[p] # "alive"
    /\ proc' = [proc EXCEPT ![p] = IF @ = "dead" THEN "reused" ELSE "dead"]
    /\ UNCHANGED <<lock, signed, guard, pc, call, disk>>

\* Date.now() passes the deadline of a waiting call.
Tick(t) ==
    /\ pc[t] \in Trying \cup Reaping
    /\ call[t].mode = "wait"
    /\ ~call[t].late
    /\ call' = [call EXCEPT ![t].late = TRUE]
    /\ UNCHANGED <<lock, signed, guard, proc, pc, disk>>

----------------------------------------------------------------------------
Step(t) ==
    \/ TimeOut(t) \/ Link(t) \/ Acquired(t) \/ Read(t)
    \/ LinkGuard(t) \/ Reread(t) \/ Compare(t) \/ Unlink(t)
    \/ UnguardCompare(t) \/ UnguardUnlink(t)
    \/ Release(t) \/ ReleaseCompare(t) \/ ReleaseUnlink(t)

Fail(t) ==
    \/ AttemptFails(t) \/ PublishFails(t) \/ GuardFails(t) \/ RereadFails(t)
    \/ ReclaimFails(t) \/ UnguardFails(t) \/ ReleaseFails(t)

Next ==
    \/ \E t \in Task : Alive(t) /\ (Start(t) \/ Step(t) \/ Fail(t) \/ Tick(t))
    \/ \E p \in Process : Crash(p) \/ ReusePid(p)

Spec == Init /\ [][Next]_vars

(***************************************************************************)
(* A call that runs makes progress, time passes, and the callers come back *)
(* (the bus's commands and waiters call again).  Processes need not crash, *)
(* and the file system need not fail.  The deadline does not pass, in call *)
(* after call, between the verdict and the first look at the guard.        *)
(***************************************************************************)
Fairness ==
    \A t \in Task :
        /\ WF_vars(Alive(t) /\ Step(t))
        /\ WF_vars(Alive(t) /\ Tick(t))
        /\ WF_vars(Alive(t) /\ Start(t))
        /\ SF_vars(Alive(t) /\ LinkGuard(t) /\ pc'[t] = "reread")

FairSpec == Spec /\ Fairness

----------------------------------------------------------------------------
(* Properties *)

\* withHardenedLock runs its handler between acquisition and release: two
\* live tasks are never both between the two, whoever crashed, reaped or
\* was reaped on the way.
MutualExclusion ==
    \A t, u \in Task :
        (t # u /\ Alive(t) /\ Alive(u) /\ pc[t] = "held") => pc[u] # "held"

\* The by-path unlink of a release or of a reclamation always removes the
\* file its comparison saw: between the two steps nobody replaced it.
UnlinksWhatItCompared ==
    \A t \in Task : Alive(t) =>
        /\ pc[t] = "unlink" => lock = call[t].seen
        /\ pc[t] = "releaseUnlink" => lock = t
        /\ pc[t] = "unguardUnlink" => guard = t

\* The lock of a live owner is removed by its owner only, and nobody breaks
\* a reaper guard, not even a dead task's (lock.test.ts: "does not
\* recursively break an abandoned reaper guard").
OnlyDeadAreReaped ==
    [][/\ \A t \in Task :
            (lock = t /\ lock' # t /\ Alive(t)) => pc[t] = "releaseUnlink"
       /\ \A t \in Task :
            (guard = t /\ guard' # t) => (Alive(t) /\ pc[t] = "unguardUnlink")]_vars

\* To its users the lock is LockService: the file's creator is the owner, and
\* a task is in the critical section while its handler runs.
Service == INSTANCE LockService
               WITH owner  <- lock,
                    inside <- {t \in Task : Alive(t) /\ pc[t] = "held"},
                    up     <- {t \in Task : Alive(t)}

ImplementsService == Service!ServiceSpec

\* A call that has answered leaves no file naming its live process, however
\* it ended (timeout, failure before or after a link, busy, reclamation),
\* unless the removal of that very file was tried and failed: otherwise every
\* later call would be busy until the process exits.
LeftOnlyByFailure ==
    \A t \in Task : (Alive(t) /\ pc[t] = "idle") =>
        /\ lock = t => "lock" \in leaked
        /\ guard = t => "guard" \in leaked

\* Every acquisition ends: with the lock, with busy or with a timeout,
\* whatever happens to the guard and the holder.
AcquisitionEnds ==
    \A t \in Task :
        pc[t] \in Trying \cup Reaping ~>
            (pc[t] \in {"idle", "linked"} \/ ~Alive(t))

\* A dead holder's lock is reclaimed, unless its process id was reused, a
\* reaper died holding the guard or failed to remove it (nobody breaks it),
\* nobody is left, or a call's deadline passes before it has found the holder
\* dead.
DeadHolderReclaimed ==
    (lock # NoOne /\ ~Alive(lock)) ~>
        \/ lock = NoOne
        \/ proc[ProcOf[lock]] = "reused"
        \/ guard # NoOne /\ ~Alive(guard)
        \/ "guard" \in leaked
        \/ \A t \in Task : ~Alive(t)
        \/ \E t \in Task : Alive(t) /\ pc[t] \in {"link", "read"} /\ ~InTime(t)
============================================================================
