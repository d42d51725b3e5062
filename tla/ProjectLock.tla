---------------------------- MODULE ProjectLock ----------------------------
(***************************************************************************)
(* The lock of a project, .story/.lock (src/src/core/project-lock.ts).     *)
(*                                                                         *)
(* It is a file whose body names its owner, taken by hard-linking a        *)
(* private temporary file to the path.  Only a provably dead owner's file  *)
(* is removed, under ".lock-steal": a directory made with mkdir and        *)
(* removed with rmdir, which names nobody and is never reclaimed.  The     *)
(* releases before 1.9.0 made a directory at the lock's path instead; it   *)
(* is waited for, and reclaimed when it is empty and has not been touched  *)
(* for a minute, which the old releases do every five seconds.             *)
(*                                                                         *)
(* A Task is a caller of acquireProjectLockAsync, one call at a time; the  *)
(* tasks of a process share its fate.  A file is named by the task that    *)
(* created it, which stands for its inode and token: a dead task creates   *)
(* no other.  Of a directory, which has no owner, the incarnation counts.  *)
(* The private temporary file, seen by its creator only, is left out, and  *)
(* so is a directory with something in it, which is waited for like a      *)
(* fresh one.                                                              *)
(***************************************************************************)
EXTENDS Naturals, FiniteSets

CONSTANTS
    Task,        \* the concurrent callers
    Process,     \* the operating-system processes they run in
    ProcOf,      \* ProcOf[t]: the process task t runs in
    NoOne,       \* the path does not exist
    Dir,         \* a directory is at the path
    MaxDirs,     \* bound: directories the old release makes
    MaxFailures  \* bound: file operations that fail

ASSUME LockAssumption ==
    /\ ProcOf \in [Task -> Process]
    /\ NoOne \notin Task /\ Dir \notin Task /\ NoOne # Dir
    /\ MaxDirs \in Nat /\ MaxFailures \in Nat

VARIABLES
    lock,        \* at .story/.lock: a task's file, a directory, nothing
    steal,       \* who made the directory at .story/.lock-steal
    proc,        \* each process id: "alive", "dead" (ESRCH), or "reused"
    old,         \* the old release's directory, and the process that made it
    pc,          \* where each task is
    call,        \* the local variables of each task's call
    failed       \* history: the operations that failed

vars == <<lock, steal, proc, old, pc, call, failed>>

Waiting  == {"link", "inspect", "classify", "mkdir"}
Stealing == {"recheck", "unlink", "relink", "rmdir"}
Owning   == {"linked", "held", "verify", "release"}
Location == {"idle"} \cup Waiting \cup Stealing \cup Owning

Call == [seen : Task \cup {NoOne, Dir},         \* the abandoned lock it found
         dir  : 0..MaxDirs,                     \* and which directory
         then : {"retry", "acquired", "throw"}]  \* how the steal ended
NoCall == [seen |-> NoOne, dir |-> 0, then |-> "retry"]

Alive(t) == proc[ProcOf[t]] = "alive"

TypeOK ==
    /\ lock \in Task \cup {NoOne, Dir}
    /\ steal \in Task \cup {NoOne}
    /\ proc \in [Process -> {"alive", "dead", "reused"}]
    /\ old \in [made : 0..MaxDirs, by : {"none", "alive", "dead"}, stale : BOOLEAN]
    /\ pc \in [Task -> Location]
    /\ call \in [Task -> Call]
    /\ failed \subseteq Task \X Location

Init ==
    /\ lock = NoOne
    /\ steal = NoOne
    /\ proc = [p \in Process |-> "alive"]
    /\ old = [made |-> 0, by |-> "none", stale |-> FALSE]
    /\ pc = [t \in Task |-> "idle"]
    /\ call = [t \in Task |-> NoCall]
    /\ failed = {}

Goto(t, l) == pc' = [pc EXCEPT ![t] = l]

\* The call answers or throws.
Return(t) ==
    /\ Goto(t, "idle")
    /\ call' = [call EXCEPT ![t] = NoCall]

\* The steal ends: with the lock, with another attempt, or with an error.
End(t, how) ==
    /\ Goto(t, "rmdir")
    /\ call' = [call EXCEPT ![t].then = how]

(***************************************************************************)
(* classifyIdentityCached of the body task o wrote.  A process that exists *)
(* with the recorded signature, or with none to compare, is not dead.  One *)
(* that does not exist is dead, and so is an id that was reused and has    *)
(* another signature or another user; but an earlier verdict is believed   *)
(* for half a second, and a signature may not be had.                      *)
(***************************************************************************)
classifyIdentity(o) == IF Alive(o) THEN {"poll"} ELSE {"dead", "poll"}

\* The directory looks abandoned: nobody has touched it for a minute.
Reclaimable == lock = Dir /\ old.stale

----------------------------------------------------------------------------
(* acquireProjectLockAsync *)

Start(t) ==
    /\ pc[t] = "idle"
    /\ Goto(t, "link")
    /\ UNCHANGED <<lock, steal, proc, old, call, failed>>

\* linkSync(tmpPath, lockPath)
Link(t) ==
    /\ pc[t] = "link"
    /\ \/ lock = NoOne /\ lock' = t /\ Goto(t, "linked")
       \/ lock # NoOne /\ Goto(t, "inspect") /\ UNCHANGED lock
    /\ UNCHANGED <<steal, proc, old, call, failed>>

\* statSync(tmpPath), and the handle is returned.
Acquired(t) ==
    /\ pc[t] = "linked"
    /\ Goto(t, "held")
    /\ UNCHANGED <<lock, steal, proc, old, call, failed>>

\* The deadline is tested after inspectHolder, whatever it answered.  The
\* clock is read nowhere else but in acquireStealLock: whether it has passed
\* is left open at each test.
TimeOut(t) ==
    /\ pc[t] = "inspect"
    /\ Return(t)
    /\ UNCHANGED <<lock, steal, proc, old, failed>>

\* inspectHolder, the deadline not having passed.
InspectHolder(t) ==
    /\ pc[t] = "inspect"
    /\ \/ lock = Dir /\ Goto(t, "classify") /\ UNCHANGED call
       \/ lock = NoOne /\ Goto(t, "link") /\ UNCHANGED call
       \/ /\ lock \in Task
          /\ \E verdict \in classifyIdentity(lock) :
               \/ /\ verdict = "dead"
                  /\ Goto(t, "mkdir")
                  /\ call' = [call EXCEPT ![t].seen = lock]
               \/ verdict = "poll" /\ Goto(t, "link") /\ UNCHANGED call
    /\ UNCHANGED <<lock, steal, proc, old, failed>>

\* classifyLegacyLock
ClassifyLegacyLock(t) ==
    /\ pc[t] = "classify"
    /\ \/ /\ Reclaimable
          /\ Goto(t, "mkdir")
          /\ call' = [call EXCEPT ![t].seen = Dir, ![t].dir = old.made]
       \/ ~Reclaimable /\ Goto(t, "link") /\ UNCHANGED call
    /\ UNCHANGED <<lock, steal, proc, old, failed>>

----------------------------------------------------------------------------
(* attemptSteal and attemptLegacyReclaim, between acquireStealLock and      *)
(* releaseStealLock                                                         *)

\* Mutant: the directory of the steal excludes nobody.
AcquireStealLock_Shared(t) ==
    /\ pc[t] = "mkdir"
    /\ steal' = t
    /\ Goto(t, "recheck")
    /\ UNCHANGED <<lock, proc, old, call, failed>>

\* Mutant: a steal lock that is in the way is waited for without a deadline.
AcquireStealLock_Forever(t) ==
    /\ pc[t] = "mkdir"
    /\ steal = NoOne
    /\ steal' = t
    /\ Goto(t, "recheck")
    /\ UNCHANGED <<lock, proc, old, call, failed>>

\* acquireStealLock polls until the deadline.
AcquireStealLock(t) ==
    /\ pc[t] = "mkdir"
    /\ \/ steal = NoOne /\ steal' = t /\ Goto(t, "recheck") /\ UNCHANGED call
       \/ steal # NoOne /\ Return(t) /\ UNCHANGED steal
    /\ UNCHANGED <<lock, proc, old, failed>>

\* Mutant: what was read without the steal lock is trusted.
Recheck_TrustsAdvisory(t) ==
    /\ pc[t] = "recheck"
    /\ Goto(t, "unlink")
    /\ UNCHANGED <<lock, steal, proc, old, call, failed>>

\* The second look, with the steal lock: the same incarnation, still dead.
Recheck(t) ==
    /\ pc[t] = "recheck"
    /\ LET same == lock = call[t].seen /\ (lock = Dir => old.made = call[t].dir)
           verdicts == IF ~same THEN {"poll"}
                       ELSE IF lock # Dir THEN classifyIdentity(lock)
                       ELSE {IF Reclaimable THEN "dead" ELSE "poll"}
       IN \E verdict \in verdicts :
             \/ verdict = "dead" /\ Goto(t, "unlink") /\ UNCHANGED call
             \/ verdict = "poll" /\ End(t, "retry")
    /\ UNCHANGED <<lock, steal, proc, old, failed>>

\* unlinkSync, or rmdirSync of a directory, of whatever is at the path by
\* now: nothing, or the wrong kind of thing, is an error of its own.
RemoveAbandoned(t) ==
    /\ pc[t] = "unlink"
    /\ \/ /\ lock # NoOne /\ (lock = Dir <=> call[t].seen = Dir)
          /\ lock' = NoOne /\ Goto(t, "relink") /\ UNCHANGED call
       \/ /\ lock # NoOne /\ ~(lock = Dir <=> call[t].seen = Dir)
          /\ End(t, "throw") /\ UNCHANGED lock
       \/ /\ lock = NoOne /\ UNCHANGED lock
          /\ \/ call[t].seen = Dir /\ End(t, "retry")
             \/ call[t].seen # Dir /\ Goto(t, "relink") /\ UNCHANGED call
    /\ UNCHANGED <<steal, proc, old, failed>>

\* The stealer's own link; somebody may have been faster.
Relink(t) ==
    /\ pc[t] = "relink"
    /\ \/ lock = NoOne /\ lock' = t /\ End(t, "acquired")
       \/ lock # NoOne /\ UNCHANGED lock /\ End(t, "retry")
    /\ UNCHANGED <<steal, proc, old, failed>>

AfterSteal(t) ==
    CASE call[t].then = "acquired" -> Goto(t, "linked") /\ UNCHANGED call
      [] call[t].then = "retry" -> Goto(t, "link") /\ UNCHANGED call
      [] call[t].then = "throw" -> Return(t)

\* releaseStealLock, the finally of both
ReleaseStealLock(t) ==
    /\ pc[t] = "rmdir"
    /\ steal' = NoOne
    /\ AfterSteal(t)
    /\ UNCHANGED <<lock, proc, old, failed>>

----------------------------------------------------------------------------
(* releaseProjectLock: safeUnlinkLock verifies, then unlinks by path *)

Release(t) ==
    /\ pc[t] = "held"
    /\ Goto(t, "verify")
    /\ UNCHANGED <<lock, steal, proc, old, call, failed>>

VerifyOwnership(t) ==
    /\ pc[t] = "verify"
    /\ \/ lock = t /\ Goto(t, "release") /\ UNCHANGED call
       \/ lock # t /\ Return(t)
    /\ UNCHANGED <<lock, steal, proc, old, failed>>

UnlinkOwn(t) ==
    /\ pc[t] = "release"
    /\ lock' = NoOne
    /\ Return(t)
    /\ UNCHANGED <<steal, proc, old, failed>>

\* Mutant: without the finally.
Fails_NoFinally(t) ==
    /\ Cardinality(failed) < MaxFailures
    /\ failed' = failed \cup {<<t, pc[t]>>}
    /\ \/ pc[t] \in {"link", "mkdir", "unlink", "relink", "verify", "release"} /\ Return(t)
       \/ pc[t] = "rmdir" /\ AfterSteal(t)
    /\ UNCHANGED <<lock, steal, proc, old>>

(***************************************************************************)
(* An operation fails with an error the code does not expect.  It throws   *)
(* out of the loop, and the finally gives the steal lock back; but the     *)
(* removals at the end only log: what they should have removed stays.      *)
(***************************************************************************)
Fails(t) ==
    /\ Cardinality(failed) < MaxFailures
    /\ failed' = failed \cup {<<t, pc[t]>>}
    /\ \/ pc[t] \in {"link", "mkdir", "verify", "release"} /\ Return(t)
       \/ pc[t] \in {"unlink", "relink"} /\ End(t, "throw")
       \/ pc[t] = "rmdir" /\ AfterSteal(t)
    /\ UNCHANGED <<lock, steal, proc, old>>

----------------------------------------------------------------------------
(* The environment *)

\* A process ends anywhere (SIGKILL, power loss).
Crash(p) ==
    /\ proc[p] = "alive"
    /\ proc' = [proc EXCEPT ![p] = "dead"]
    /\ UNCHANGED <<lock, steal, old, pc, call, failed>>

\* The system gives a dead process's id to another process.
ReusePid(p) ==
    /\ proc[p] = "dead"
    /\ proc' = [proc EXCEPT ![p] = "reused"]
    /\ UNCHANGED <<lock, steal, old, pc, call, failed>>

(***************************************************************************)
(* An old release takes the lock: it makes the directory, or takes over    *)
(* one that is stale, in any moment but between a stealer's second look    *)
(* and its rmdir: the code narrows that window to two system calls, says   *)
(* that it is there, and cannot close it.                                  *)
(***************************************************************************)
Removing == \E t \in Task : Alive(t) /\ pc[t] = "unlink" /\ call[t].seen = Dir
OldTakes ==
    /\ old.made < MaxDirs
    /\ lock = NoOne \/ (Reclaimable /\ ~Removing)
    /\ lock' = Dir
    /\ old' = [made |-> old.made + 1, by |-> "alive", stale |-> FALSE]
    /\ UNCHANGED <<steal, proc, pc, call, failed>>

OldReleases ==
    /\ old.by = "alive"
    /\ lock' = IF lock = Dir THEN NoOne ELSE lock
    /\ old' = [old EXCEPT !.by = "none"]
    /\ UNCHANGED <<steal, proc, pc, call, failed>>

OldDies ==
    /\ old.by = "alive"
    /\ old' = [old EXCEPT !.by = "dead"]
    /\ UNCHANGED <<lock, steal, proc, pc, call, failed>>

\* Nobody refreshes a dead process's directory (a live one is not paused).
GoesStale ==
    /\ lock = Dir /\ old.by = "dead" /\ ~old.stale
    /\ old' = [old EXCEPT !.stale = TRUE]
    /\ UNCHANGED <<lock, steal, proc, pc, call, failed>>

\* The steal lock names nobody that would remove it.
Stuck == steal # NoOne /\ ~(Alive(steal) /\ pc[steal] \in Stealing)

\* The error asks for it: confirm that no process is running, then remove
\* .lock-steal by hand.
OperatorClears ==
    /\ Stuck
    /\ \A t \in Task : Alive(t) => pc[t] = "idle"
    /\ steal' = NoOne
    /\ UNCHANGED <<lock, proc, old, pc, call, failed>>

----------------------------------------------------------------------------
Step(t) ==
    \/ Link(t) \/ Acquired(t) \/ TimeOut(t) \/ InspectHolder(t) \/ ClassifyLegacyLock(t)
    \/ AcquireStealLock(t) \/ Recheck(t) \/ RemoveAbandoned(t) \/ Relink(t)
    \/ ReleaseStealLock(t)
    \/ Release(t) \/ VerifyOwnership(t) \/ UnlinkOwn(t)

Next ==
    \/ \E t \in Task : Alive(t) /\ (Start(t) \/ Step(t) \/ Fails(t))
    \/ \E p \in Process : Crash(p) \/ ReusePid(p)
    \/ OldTakes \/ OldReleases \/ OldDies \/ GoesStale
    \/ OperatorClears

Spec == Init /\ [][Next]_vars

(***************************************************************************)
(* A call that runs makes progress, its deadline passes if it goes on long *)
(* enough, callers come back, and not every look at an abandoned lock is   *)
(* late or meets a cached verdict (cached for 0.5 s of a call's 5 s).      *)
(* Nobody need crash, release a directory or clear the steal lock; a dead  *)
(* directory does grow old.                                                *)
(***************************************************************************)
Fairness ==
    /\ \A t \in Task :
        /\ WF_vars(Alive(t) /\ (Start(t) \/ Step(t)))
        /\ SF_vars(Alive(t) /\ TimeOut(t))
    /\ SF_vars(\E t \in Task :
            Alive(t) /\ InspectHolder(t) /\ pc'[t] \in {"classify", "mkdir"})
    /\ SF_vars(\E t \in Task : Alive(t) /\ Recheck(t) /\ pc'[t] = "unlink")
    /\ WF_vars(GoesStale)

FairSpec == Spec /\ Fairness

----------------------------------------------------------------------------
(* Properties *)

\* "Hang a contender, never remove a live holder's state": whoever stole,
\* crashed, timed out or failed on the way, a live holder's file stays at the
\* path until its own release (the fence before a commit never finds it
\* gone), and so does a live old release's directory.
HolderKeepsLock ==
    /\ \A t \in Task :
         (Alive(t) /\ (pc[t] \in Owning \/ (pc[t] = "rmdir" /\ call[t].then = "acquired")))
            => lock = t
    /\ old.by = "alive" => lock = Dir

\* To those who work under it the project lock is LockService, the same as
\* the lock of the bus.
Service == INSTANCE LockService
               WITH owner  <- IF lock = Dir THEN NoOne ELSE lock,
                    inside <- {t \in Task : Alive(t) /\ pc[t] = "held"},
                    up     <- {t \in Task : Alive(t)}

ImplementsService == Service!ServiceSpec

\* Every acquisition ends, even behind a stuck steal lock.
AcquisitionEnds ==
    \A t \in Task : []<>(pc[t] \notin Waiting \cup Stealing \/ ~Alive(t))

\* The lock of a dead process, or a directory nobody refreshes, is removed
\* as long as somebody asks for the lock, unless a stealer died holding the
\* steal lock or could not remove it: a steal that fails gives it back.
Abandoned == \/ lock = Dir /\ old.by = "dead"
             \/ lock \in Task /\ ~Alive(lock)
Interrupted == steal # NoOne /\ (~Alive(steal) \/ <<steal, "rmdir">> \in failed)
AbandonedIsReclaimed ==
    Abandoned ~> (~Abandoned \/ Interrupted \/ \A t \in Task : ~Alive(t))
============================================================================
