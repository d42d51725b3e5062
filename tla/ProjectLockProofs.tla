------------------------- MODULE ProjectLockProofs -------------------------
(***************************************************************************)
(* A live holder keeps the project lock, and the lock implements           *)
(* LockService, for any tasks, processes and assignment of tasks to        *)
(* processes, and for every number of failed operations and of directories *)
(* that old releases make.                                                 *)
(***************************************************************************)
EXTENDS ProjectLock, TLAPS

(***************************************************************************)
(* The strengthening.  A live stealer has the steal lock, so it is alone;  *)
(* what it is about to remove it has seen itself, and nobody else removes  *)
(* or replaces it: a dead task's file, or a directory whose release is     *)
(* not alive.                                                              *)
(***************************************************************************)
Holds(t) == pc[t] \in Owning \/ (pc[t] = "rmdir" /\ call[t].then = "acquired")

OwnerInv == \A t \in Task : Alive(t) /\ Holds(t) => lock = t

OldInv == old.by = "alive" => lock = Dir /\ ~old.stale

StealInv == \A t \in Task : Alive(t) /\ pc[t] \in Stealing => steal = t

SeenInv ==
    /\ \A t \in Task : pc[t] \in {"mkdir", "recheck", "unlink"} => call[t].seen # NoOne
    /\ \A t \in Task : Alive(t) /\ pc[t] = "unlink" =>
          /\ lock = call[t].seen
          /\ lock = Dir => old.by # "alive"
          /\ lock # Dir => ~Alive(lock)

IInv == TypeOK /\ OwnerInv /\ OldInv /\ StealInv /\ SeenInv

----------------------------------------------------------------------------
(* What Return, End and AfterSteal do to the calls. *)

LEMMA ReturnType ==
    ASSUME TypeOK, NEW t \in Task, Return(t)
    PROVE  /\ pc' \in [Task -> Location]
           /\ call' \in [Task -> Call]
           /\ pc'[t] = "idle"
           /\ \A u \in Task : u # t => pc'[u] = pc[u] /\ call'[u] = call[u]
<1>1. NoCall \in Call
  BY LockAssumption DEF NoCall, Call
<1>2. "idle" \in Location
  BY DEF Location
<1>3. QED
  BY <1>1, <1>2 DEF TypeOK, Return, Goto

LEMMA EndType ==
    ASSUME TypeOK, NEW t \in Task, NEW how \in {"retry", "acquired", "throw"}, End(t, how)
    PROVE  /\ pc' \in [Task -> Location]
           /\ call' \in [Task -> Call]
           /\ pc'[t] = "rmdir" /\ call'[t].then = how
           /\ \A u \in Task : u # t => pc'[u] = pc[u] /\ call'[u] = call[u]
<1>1. [call[t] EXCEPT !.then = how] \in Call
  BY DEF TypeOK, Call
<1>2. "rmdir" \in Location
  BY DEF Location, Stealing
<1>3. call[t] \in Call /\ call' = [call EXCEPT ![t] = [call[t] EXCEPT !.then = how]]
  BY DEF TypeOK, End
<1>4. [call[t] EXCEPT !.then = how].then = how
  BY <1>3 DEF Call
<1>5. QED
  BY <1>1, <1>2, <1>3, <1>4 DEF TypeOK, End, Goto

LEMMA AfterStealType ==
    ASSUME TypeOK, NEW t \in Task, AfterSteal(t)
    PROVE  /\ pc' \in [Task -> Location]
           /\ call' \in [Task -> Call]
           /\ pc'[t] \in {"linked", "link", "idle"}
           /\ pc'[t] = "linked" => call[t].then = "acquired"
           /\ \A u \in Task : u # t => pc'[u] = pc[u] /\ call'[u] = call[u]
<1>1. CASE call[t].then = "acquired"
  BY <1>1 DEF AfterSteal, TypeOK, Goto, Location, Owning
<1>2. CASE call[t].then = "retry"
  BY <1>2 DEF AfterSteal, TypeOK, Goto, Location, Waiting
<1>3. CASE call[t].then = "throw"
  BY <1>3, ReturnType DEF AfterSteal
<1>4. QED
  BY <1>1, <1>2, <1>3 DEF TypeOK, Call

\* A live task's body is never given the verdict "dead".
LEMMA DeadVerdict ==
    ASSUME NEW o \in Task, "dead" \in classifyIdentity(o)
    PROVE  ~Alive(o)
BY DEF classifyIdentity

----------------------------------------------------------------------------
(* The invariant is inductive. *)

LEMMA InitIInv == Init => IInv
<1> SUFFICES ASSUME Init PROVE IInv
  OBVIOUS
<1> USE LockAssumption DEF Init
<1>1. NoCall \in Call
  BY DEF NoCall, Call
<1>2. TypeOK
  BY <1>1 DEF TypeOK, Location
<1>3. OwnerInv /\ OldInv /\ StealInv /\ SeenInv
  BY DEF OwnerInv, Holds, OldInv, StealInv, SeenInv, Owning, Stealing
<1>4. QED
  BY <1>2, <1>3 DEF IInv

(***************************************************************************)
(* A step of one task that leaves the files, the old release and the       *)
(* processes as they are keeps the invariant when the task takes nothing   *)
(* and starts no steal and no removal.                                     *)
(***************************************************************************)
LEMMA LocalStep ==
    ASSUME IInv, NEW t \in Task, Alive(t),
           UNCHANGED <<lock, steal, proc, old>>,
           failed' \subseteq Task \X Location,
           pc' \in [Task -> Location],
           call' \in [Task -> Call],
           \A u \in Task : u # t => pc'[u] = pc[u] /\ call'[u] = call[u],
           Holds(t)' => Holds(t),
           pc'[t] \in Stealing => pc[t] \in Stealing,
           pc'[t] \notin {"recheck", "unlink"},
           pc'[t] = "mkdir" => call'[t].seen # NoOne
    PROVE  IInv'
<1>1. \A u \in Task : Alive(u)' <=> Alive(u)
  BY DEF Alive
<1>2. TypeOK'
  BY DEF IInv, TypeOK
<1>3. OwnerInv'
  BY <1>1 DEF IInv, OwnerInv, Holds
<1>4. OldInv'
  BY DEF IInv, OldInv
<1>5. StealInv'
  BY <1>1 DEF IInv, StealInv
<1>6. SeenInv'
  <2>1. ASSUME NEW u \in Task, pc'[u] \in {"mkdir", "recheck", "unlink"}
        PROVE  call'[u].seen # NoOne
    BY <2>1 DEF IInv, SeenInv
  <2>2. ASSUME NEW u \in Task, Alive(u)', pc'[u] = "unlink"
        PROVE  (/\ lock = call[u].seen
                /\ lock = Dir => old.by # "alive"
                /\ lock # Dir => ~Alive(lock))'
    <3>1. u # t /\ Alive(u) /\ pc[u] = "unlink" /\ call'[u] = call[u]
      BY <1>1, <2>2
    <3>2. /\ lock = call[u].seen
          /\ lock = Dir => old.by # "alive"
          /\ lock # Dir => ~Alive(lock)
      BY <3>1 DEF IInv, SeenInv
    <3>3. Alive(lock)' <=> Alive(lock)
      BY DEF Alive
    <3>4. QED
      BY <3>1, <3>2, <3>3
  <2>3. QED
    BY <2>1, <2>2 DEF SeenInv
<1>7. QED
  BY <1>2, <1>3, <1>4, <1>5, <1>6 DEF IInv

(***************************************************************************)
(* So does a step that puts the task's own file where there was nothing.   *)
(***************************************************************************)
LEMMA TakeStep ==
    ASSUME IInv, NEW t \in Task, Alive(t),
           lock = NoOne, lock' = t,
           UNCHANGED <<steal, proc, old, failed>>,
           pc' \in [Task -> Location],
           call' \in [Task -> Call],
           \A u \in Task : u # t => pc'[u] = pc[u] /\ call'[u] = call[u],
           pc'[t] \in Stealing => pc[t] \in Stealing,
           pc'[t] \notin {"mkdir", "recheck", "unlink"}
    PROVE  IInv'
<1>1. \A u \in Task : Alive(u)' <=> Alive(u)
  BY DEF Alive
<1>2. TypeOK'
  BY DEF IInv, TypeOK
<1>3. OwnerInv'
  BY <1>1, LockAssumption DEF IInv, OwnerInv, Holds
<1>4. OldInv'
  BY LockAssumption DEF IInv, OldInv
<1>5. StealInv'
  BY <1>1 DEF IInv, StealInv
<1>6. SeenInv'
  <2>1. \A u \in Task : u # t => (pc'[u] = pc[u] /\ call'[u] = call[u])
    OBVIOUS
  <2>2. \A u \in Task : ~(Alive(u) /\ pc[u] = "unlink")
    BY DEF IInv, SeenInv
  <2>3. QED
    BY <1>1, <2>1, <2>2 DEF IInv, SeenInv
<1>7. QED
  BY <1>2, <1>3, <1>4, <1>5, <1>6 DEF IInv

\* And one that removes what nobody alive holds, or the task's own file.
LEMMA RemoveStep ==
    ASSUME IInv, NEW t \in Task, Alive(t),
           \/ lock = t /\ pc[t] = "release"
           \/ steal = t /\ pc[t] = "unlink",
           lock' = NoOne,
           UNCHANGED <<steal, proc, old, failed>>,
           pc' \in [Task -> Location],
           call' \in [Task -> Call],
           \A u \in Task : u # t => pc'[u] = pc[u] /\ call'[u] = call[u],
           pc'[t] \in {"idle", "relink"},
           pc'[t] = "relink" => pc[t] = "unlink"
    PROVE  IInv'
<1>1. \A u \in Task : Alive(u)' <=> Alive(u)
  BY DEF Alive
<1>2. TypeOK'
  BY DEF IInv, TypeOK
<1>3. \A u \in Task : u # t /\ Alive(u) => lock # u
  <2>1. CASE lock = t
    BY <2>1
  <2>2. CASE steal = t /\ pc[t] = "unlink"
    BY <2>2, LockAssumption DEF IInv, SeenInv
  <2>3. QED
    BY <2>1, <2>2
<1>4. OwnerInv'
  BY <1>1, <1>3 DEF IInv, OwnerInv, Holds, Owning
<1>5. OldInv'
  <2>1. old.by # "alive"
    BY LockAssumption DEF IInv, OldInv, SeenInv
  <2>2. QED
    BY <2>1 DEF OldInv
<1>6. StealInv'
  BY <1>1 DEF IInv, StealInv, Stealing
<1>7. SeenInv'
  <2>1. \A u \in Task : u # t => ~(Alive(u) /\ pc[u] = "unlink")
    <3>1. CASE lock = t
      BY <3>1, LockAssumption DEF IInv, SeenInv
    <3>2. CASE steal = t
      BY <3>2 DEF IInv, StealInv, Stealing
    <3>3. QED
      BY <3>1, <3>2
  <2>2. QED
    BY <1>1, <2>1 DEF IInv, SeenInv
<1>8. QED
  BY <1>2, <1>4, <1>5, <1>6, <1>7 DEF IInv

LEMMA StepIInv ==
    ASSUME IInv, NEW t \in Task, Alive(t), Start(t) \/ Step(t) \/ Fails(t)
    PROVE  IInv'
<1> USE DEF Location, Waiting, Stealing, Owning
<1>0. TypeOK /\ OwnerInv /\ OldInv /\ StealInv /\ SeenInv
  BY DEF IInv
<1>1. CASE Start(t)
  BY <1>0, <1>1, LocalStep DEF Start, Goto, TypeOK, Holds
<1>2. CASE Link(t)
  <2>1. CASE lock = NoOne
    <3>1. pc' = [pc EXCEPT ![t] = "linked"] /\ lock' = t
      BY <1>2, <2>1 DEF Link, Goto
    <3>2. QED
      BY <1>0, <1>2, <2>1, <3>1, TakeStep DEF Link, TypeOK
  <2>2. CASE lock # NoOne
    BY <1>0, <1>2, <2>2, LocalStep DEF Link, Goto, TypeOK, Holds
  <2>3. QED
    BY <2>1, <2>2
<1>3. CASE Acquired(t)
  BY <1>0, <1>3, LocalStep DEF Acquired, Goto, TypeOK, Holds
<1>4. CASE TimeOut(t)
  BY <1>0, <1>4, ReturnType, LocalStep DEF TimeOut, TypeOK, Holds
<1>5. CASE InspectHolder(t)
  <2>1. CASE lock \in Task /\ pc' = [pc EXCEPT ![t] = "mkdir"]
                 /\ call' = [call EXCEPT ![t].seen = lock]
    <3>1. /\ call' \in [Task -> Call] /\ call'[t].seen = lock
          /\ \A u \in Task : u # t => call'[u] = call[u]
      BY <1>0, <2>1 DEF TypeOK, Call
    <3>2. QED
      BY <1>0, <1>5, <2>1, <3>1, LocalStep, LockAssumption DEF InspectHolder, TypeOK, Holds
  <2>2. CASE (Goto(t, "classify") \/ Goto(t, "link")) /\ UNCHANGED call
    BY <1>0, <1>5, <2>2, LocalStep DEF InspectHolder, Goto, TypeOK, Holds
  <2>3. QED
    BY <1>5, <2>1, <2>2 DEF InspectHolder, Goto
<1>6. CASE ClassifyLegacyLock(t)
  <2>1. CASE pc' = [pc EXCEPT ![t] = "mkdir"]
                 /\ call' = [call EXCEPT ![t].seen = Dir, ![t].dir = old.made]
    <3>1. /\ call' \in [Task -> Call] /\ call'[t].seen = Dir
          /\ \A u \in Task : u # t => call'[u] = call[u]
      BY <1>0, <2>1 DEF TypeOK, Call
    <3>2. QED
      BY <1>0, <1>6, <2>1, <3>1, LocalStep, LockAssumption DEF ClassifyLegacyLock, TypeOK, Holds
  <2>2. CASE Goto(t, "link") /\ UNCHANGED call
    BY <1>0, <1>6, <2>2, LocalStep DEF ClassifyLegacyLock, Goto, TypeOK, Holds
  <2>3. QED
    BY <1>6, <2>1, <2>2 DEF ClassifyLegacyLock, Goto
<1>7. CASE AcquireStealLock(t)
  <2>1. CASE steal = NoOne
    <3>1. /\ steal' = t /\ pc' = [pc EXCEPT ![t] = "recheck"] /\ pc[t] = "mkdir"
          /\ UNCHANGED <<lock, proc, old, call, failed>>
      BY <1>7, <2>1, LockAssumption DEF AcquireStealLock, Goto
    <3>2. TypeOK' /\ OldInv'
      BY <1>0, <3>1 DEF TypeOK, OldInv
    <3>3. OwnerInv' /\ SeenInv'
      BY <1>0, <3>1 DEF TypeOK, OwnerInv, SeenInv, Holds, Alive
    <3>4. StealInv'
      BY <1>0, <2>1, <3>1, LockAssumption DEF TypeOK, StealInv, Alive
    <3>5. QED
      BY <3>2, <3>3, <3>4 DEF IInv
  <2>2. CASE steal # NoOne
    BY <1>0, <1>7, <2>2, ReturnType, LocalStep DEF AcquireStealLock, TypeOK, Holds
  <2>3. QED
    BY <2>1, <2>2
<1>8. CASE Recheck(t)
  <2>1. pc[t] = "recheck" /\ UNCHANGED <<lock, steal, proc, old, failed>>
    BY <1>8 DEF Recheck
  <2>2. CASE End(t, "retry")
    BY <1>0, <2>1, <2>2, EndType, LocalStep DEF TypeOK, Holds
  <2>3. CASE Goto(t, "unlink") /\ UNCHANGED call /\ ~End(t, "retry")
    <3>1. /\ lock = call[t].seen
          /\ lock = Dir => Reclaimable
          /\ lock # Dir => "dead" \in classifyIdentity(lock)
      BY <1>8, <2>3 DEF Recheck
    <3>2. lock = Dir \/ lock \in Task
      BY <1>0, <2>1, <3>1 DEF TypeOK, SeenInv
    <3>3. /\ lock = Dir => old.by # "alive"
          /\ lock # Dir => ~Alive(lock)
      BY <1>0, <3>1, <3>2, DeadVerdict DEF OldInv, Reclaimable
    <3>4. pc' = [pc EXCEPT ![t] = "unlink"]
      BY <2>3 DEF Goto
    <3>5. TypeOK' /\ OwnerInv' /\ OldInv' /\ StealInv'
      BY <1>0, <2>1, <2>3, <3>4 DEF TypeOK, OwnerInv, OldInv, StealInv, Holds, Alive
    <3>6. SeenInv'
      BY <1>0, <2>1, <2>3, <3>1, <3>3, <3>4 DEF TypeOK, SeenInv, Alive
    <3>7. QED
      BY <3>5, <3>6 DEF IInv
  <2>4. QED
    BY <1>8, <2>2, <2>3 DEF Recheck
<1>9. CASE RemoveAbandoned(t)
  <2>1. /\ pc[t] = "unlink" /\ steal = t /\ lock = call[t].seen
        /\ lock # NoOne
    BY <1>0, <1>9 DEF RemoveAbandoned, StealInv, SeenInv
  <2>2. /\ lock' = NoOne /\ pc' = [pc EXCEPT ![t] = "relink"]
        /\ UNCHANGED <<steal, proc, old, call, failed>>
    BY <1>9, <2>1 DEF RemoveAbandoned, Goto
  <2>3. QED
    BY <1>0, <2>1, <2>2, RemoveStep DEF TypeOK
<1>10. CASE Relink(t)
  <2>1. CASE lock = NoOne
    <3>1. lock' = t /\ End(t, "acquired") /\ pc[t] = "relink"
          /\ UNCHANGED <<steal, proc, old, failed>>
      BY <1>10, <2>1 DEF Relink
    <3>2. QED
      BY <1>0, <2>1, <3>1, EndType, TakeStep
  <2>2. CASE lock # NoOne
    <3>1. End(t, "retry") /\ pc[t] = "relink" /\ UNCHANGED <<lock, steal, proc, old, failed>>
      BY <1>10, <2>2 DEF Relink
    <3>2. QED
      BY <1>0, <3>1, EndType, LocalStep DEF TypeOK, Holds
  <2>3. QED
    BY <2>1, <2>2
<1>11. CASE ReleaseStealLock(t)
  <2>1. /\ pc[t] = "rmdir" /\ steal = t /\ steal' = NoOne
        /\ UNCHANGED <<lock, proc, old, failed>>
    BY <1>0, <1>11 DEF ReleaseStealLock, StealInv
  <2>2. /\ pc' \in [Task -> Location] /\ call' \in [Task -> Call]
        /\ pc'[t] \in {"linked", "link", "idle"}
        /\ pc'[t] = "linked" => call[t].then = "acquired"
        /\ \A u \in Task : u # t => pc'[u] = pc[u] /\ call'[u] = call[u]
    BY <1>0, <1>11, AfterStealType DEF ReleaseStealLock
  <2>3. TypeOK' /\ OldInv'
    BY <1>0, <2>1, <2>2 DEF TypeOK, OldInv
  <2>4. OwnerInv'
    BY <1>0, <2>1, <2>2 DEF OwnerInv, Holds, Alive
  <2>5. StealInv'
    BY <1>0, <2>1, <2>2 DEF StealInv, Alive
  <2>6. SeenInv'
    BY <1>0, <2>1, <2>2 DEF SeenInv, Alive
  <2>7. QED
    BY <2>3, <2>4, <2>5, <2>6 DEF IInv
<1>12. CASE Release(t)
  BY <1>0, <1>12, LocalStep DEF Release, Goto, TypeOK, Holds
<1>13. CASE VerifyOwnership(t)
  <2>1. CASE lock = t
    BY <1>0, <1>13, <2>1, LocalStep DEF VerifyOwnership, Goto, TypeOK, Holds
  <2>2. CASE lock # t
    BY <1>0, <1>13, <2>2, ReturnType, LocalStep DEF VerifyOwnership, TypeOK, Holds
  <2>3. QED
    BY <2>1, <2>2
<1>14. CASE UnlinkOwn(t)
  <2>1. pc[t] = "release" /\ lock = t /\ lock' = NoOne /\ Return(t)
        /\ UNCHANGED <<steal, proc, old, failed>>
    BY <1>0, <1>14 DEF UnlinkOwn, OwnerInv, Holds
  <2>2. QED
    BY <1>0, <2>1, ReturnType, RemoveStep
<1>15. CASE Fails(t)
  <2>1. UNCHANGED <<lock, steal, proc, old>> /\ failed' \subseteq Task \X Location
    BY <1>0, <1>15 DEF Fails, TypeOK
  <2>2. CASE Return(t)
    BY <1>0, <2>1, <2>2, ReturnType, LocalStep DEF Holds
  <2>3. CASE pc[t] \in {"unlink", "relink"} /\ End(t, "throw")
    BY <1>0, <2>1, <2>3, EndType, LocalStep DEF Holds
  <2>4. CASE pc[t] = "rmdir" /\ AfterSteal(t)
    BY <1>0, <2>1, <2>4, AfterStealType, LocalStep DEF Holds
  <2>5. QED
    BY <1>15, <2>2, <2>3, <2>4 DEF Fails
<1>16. QED
  BY <1>1, <1>2, <1>3, <1>4, <1>5, <1>6, <1>7, <1>8, <1>9, <1>10, <1>11,
     <1>12, <1>13, <1>14, <1>15 DEF Step

\* Processes only ever leave the life in which IInv says anything of them.
LEMMA ProcessIInv ==
    ASSUME IInv, NEW p \in Process, Crash(p) \/ ReusePid(p)
    PROVE  IInv'
<1>1. /\ UNCHANGED <<lock, steal, old, pc, call, failed>>
      /\ proc' \in [Process -> {"alive", "dead", "reused"}]
      /\ \A q \in Process : proc'[q] = "alive" => proc[q] = "alive"
  BY DEF IInv, TypeOK, Crash, ReusePid
<1>2. \A t \in Task : Alive(t)' => Alive(t)
  BY <1>1, LockAssumption DEF Alive
<1>3. TypeOK' /\ OwnerInv' /\ OldInv' /\ StealInv'
  BY <1>1, <1>2 DEF IInv, TypeOK, OwnerInv, Holds, OldInv, StealInv
<1>4. SeenInv'
  <2>1. ASSUME NEW t \in Task, Alive(t)', pc[t] = "unlink"
        PROVE  (lock # Dir => ~Alive(lock))'
    <3>1. lock # Dir => lock \in Task /\ ~Alive(lock)
      BY <1>2, <2>1 DEF IInv, TypeOK, SeenInv
    <3>2. QED
      BY <1>1, <1>2, <3>1
  <2>2. QED
    BY <1>1, <1>2, <2>1 DEF IInv, SeenInv
<1>5. QED
  BY <1>3, <1>4 DEF IInv

\* Old releases take nothing from a task, nor a directory that one is about to
\* remove; and the steal lock is cleared by hand when nobody steals.
LEMMA OldIInv ==
    ASSUME IInv, OldTakes \/ OldReleases \/ OldDies \/ GoesStale
    PROVE  IInv'
<1>0. /\ UNCHANGED <<steal, proc, pc, call, failed>>
      /\ \A t : Alive(t)' <=> Alive(t)
  BY DEF OldTakes, OldReleases, OldDies, GoesStale, Alive
<1>1. StealInv'
  BY <1>0 DEF IInv, StealInv
<1>2. CASE OldTakes
  <2>1. old.made \in 0..MaxDirs /\ old.made + 1 \in 0..MaxDirs
    BY <1>2, LockAssumption DEF IInv, TypeOK, OldTakes
  <2>2. TypeOK' /\ OldInv'
    BY <1>0, <1>2, <2>1 DEF IInv, TypeOK, OldInv, OldTakes
  <2>3. lock \notin Task
    BY <1>2, LockAssumption DEF OldTakes, Reclaimable, IInv, TypeOK
  <2>4. OwnerInv'
    BY <1>0, <2>3 DEF IInv, OwnerInv, Holds
  <2>5. \A t \in Task : ~(Alive(t) /\ pc[t] = "unlink")
    <3> SUFFICES ASSUME NEW t \in Task, Alive(t), pc[t] = "unlink" PROVE FALSE
      OBVIOUS
    <3>1. lock = call[t].seen /\ call[t].seen # NoOne
      BY DEF IInv, SeenInv
    <3>2. QED
      BY <1>2, <3>1 DEF OldTakes, Reclaimable, Removing
  <2>6. SeenInv'
    BY <1>0, <2>5 DEF IInv, SeenInv
  <2>7. QED
    BY <1>1, <2>2, <2>4, <2>6 DEF IInv
<1>3. CASE OldReleases
  <2>1. /\ old.by = "alive" /\ lock = Dir /\ lock' = NoOne
        /\ old' = [old EXCEPT !.by = "none"]
    BY <1>3 DEF OldReleases, IInv, OldInv
  <2>2. TypeOK' /\ OldInv'
    BY <1>0, <2>1 DEF IInv, TypeOK, OldInv
  <2>3. OwnerInv'
    BY <1>0, <2>1, LockAssumption DEF IInv, OwnerInv, Holds
  <2>4. SeenInv'
    BY <1>0, <2>1 DEF IInv, SeenInv
  <2>5. QED
    BY <1>1, <2>2, <2>3, <2>4 DEF IInv
<1>4. CASE OldDies \/ GoesStale
  <2>1. /\ UNCHANGED lock
        /\ old' \in [made : 0..MaxDirs, by : {"none", "alive", "dead"}, stale : BOOLEAN]
        /\ old'.by = "dead"
    BY <1>4 DEF IInv, TypeOK, OldDies, GoesStale
  <2>2. TypeOK' /\ OldInv' /\ OwnerInv'
    BY <1>0, <2>1 DEF IInv, TypeOK, OldInv, OwnerInv, Holds
  <2>3. SeenInv'
    BY <1>0, <2>1 DEF IInv, SeenInv
  <2>4. QED
    BY <1>1, <2>2, <2>3 DEF IInv
<1>5. QED
  BY <1>2, <1>3, <1>4

LEMMA ClearIInv == ASSUME IInv, OperatorClears PROVE IInv'
<1>1. /\ steal' = NoOne /\ UNCHANGED <<lock, proc, old, pc, call, failed>>
      /\ \A t \in Task : Alive(t) => pc[t] = "idle"
      /\ \A t : Alive(t)' <=> Alive(t)
  BY DEF OperatorClears, Alive
<1>2. TypeOK' /\ OwnerInv' /\ OldInv' /\ SeenInv'
  BY <1>1 DEF IInv, TypeOK, OwnerInv, Holds, OldInv, SeenInv
<1>3. StealInv'
  BY <1>1 DEF StealInv, Stealing
<1>4. QED
  BY <1>2, <1>3 DEF IInv

LEMMA NextIInv == IInv /\ [Next]_vars => IInv'
<1> SUFFICES ASSUME IInv, [Next]_vars PROVE IInv'
  OBVIOUS
<1>1. ASSUME NEW t \in Task, Alive(t), Start(t) \/ Step(t) \/ Fails(t) PROVE IInv'
  BY <1>1, StepIInv
<1>2. ASSUME NEW p \in Process, Crash(p) \/ ReusePid(p) PROVE IInv'
  BY <1>2, ProcessIInv
<1>3. CASE OldTakes \/ OldReleases \/ OldDies \/ GoesStale
  BY <1>3, OldIInv
<1>4. CASE OperatorClears
  BY <1>4, ClearIInv
<1>5. CASE UNCHANGED vars
  BY <1>5 DEF vars, IInv, TypeOK, OwnerInv, Holds, OldInv, StealInv, SeenInv, Alive
<1>6. QED
  BY <1>1, <1>2, <1>3, <1>4, <1>5 DEF Next

LEMMA Invariance == Spec => []IInv
BY InitIInv, NextIInv, PTL DEF Spec

----------------------------------------------------------------------------
(* The safety properties the run checks. *)

\* Every variable keeps its type, for any number of tasks and processes.
THEOREM TypeCorrect == Spec => []TypeOK
<1>1. IInv => TypeOK
  BY DEF IInv
<1>2. QED
  BY Invariance, <1>1, PTL

\* A live holder's file stays until it releases it, and so does the
\* directory of a live old release.
THEOREM HoldersKeep == Spec => []HolderKeepsLock
<1>1. IInv => HolderKeepsLock
  BY DEF IInv, OwnerInv, Holds, OldInv, HolderKeepsLock
<1>2. QED
  BY Invariance, <1>1, PTL

----------------------------------------------------------------------------
(* Which steps change the lock, and what that means to LockService. *)

\* What LockService sees, and a step of it.
Owner == IF lock = Dir THEN NoOne ELSE lock
In == {t \in Task : Alive(t) /\ pc[t] = "held"}
Up == {t \in Task : Alive(t)}
Served == Service!ServiceNext \/ UNCHANGED <<Owner, In, Up>>

LEMMA LockChanges ==
    ASSUME IInv, NEW t \in Task, Alive(t), Start(t) \/ Step(t) \/ Fails(t)
    PROVE  /\ UNCHANGED proc
           /\ \/ UNCHANGED Owner
              \/ Owner = NoOne /\ Owner' = t
              \/ Owner = t /\ Owner' = NoOne /\ pc[t] = "release"
              \/ Owner \in Task /\ ~Alive(Owner) /\ Owner' = NoOne
<1>1. CASE Link(t)
  BY <1>1, LockAssumption DEF Link, Owner
<1>2. CASE Relink(t)
  BY <1>2, LockAssumption DEF Relink, Owner
<1>3. CASE RemoveAbandoned(t)
  <2>1. /\ lock = call[t].seen /\ lock # NoOne /\ lock' = NoOne
        /\ lock # Dir => lock \in Task /\ ~Alive(lock)
    BY <1>3 DEF RemoveAbandoned, IInv, TypeOK, SeenInv
  <2>2. QED
    BY <1>3, <2>1, LockAssumption DEF RemoveAbandoned, Owner
<1>4. CASE UnlinkOwn(t)
  BY <1>4, LockAssumption DEF UnlinkOwn, IInv, OwnerInv, Holds, Owning, Owner
<1>5. CASE Start(t) \/ Acquired(t) \/ TimeOut(t) \/ InspectHolder(t) \/ ClassifyLegacyLock(t)
            \/ AcquireStealLock(t) \/ Recheck(t) \/ ReleaseStealLock(t)
            \/ Release(t) \/ VerifyOwnership(t) \/ Fails(t)
  BY <1>5 DEF Start, Acquired, TimeOut, InspectHolder, ClassifyLegacyLock, AcquireStealLock,
              Recheck, ReleaseStealLock, Release, VerifyOwnership, Fails, Owner
<1>6. QED
  BY <1>1, <1>2, <1>3, <1>4, <1>5 DEF Step

\* Only Acquired enters the critical section, and only Release leaves it.
LEMMA HeldChanges ==
    ASSUME IInv, NEW t \in Task, Start(t) \/ Step(t) \/ Fails(t), ~(Acquired(t) \/ Release(t))
    PROVE  \A u \in Task : pc'[u] = "held" <=> pc[u] = "held"
<1>1. CASE Start(t) \/ Link(t) \/ InspectHolder(t) \/ ClassifyLegacyLock(t)
  BY <1>1 DEF IInv, TypeOK, Start, Link, InspectHolder, ClassifyLegacyLock, Goto
<1>2. CASE TimeOut(t) \/ AcquireStealLock(t) \/ VerifyOwnership(t) \/ UnlinkOwn(t)
  BY <1>2, ReturnType DEF IInv, TypeOK, TimeOut, AcquireStealLock, VerifyOwnership, UnlinkOwn, Goto
<1>3. CASE Recheck(t) \/ RemoveAbandoned(t) \/ Relink(t)
  BY <1>3, EndType DEF IInv, TypeOK, Recheck, RemoveAbandoned, Relink, Goto
<1>4. CASE ReleaseStealLock(t)
  BY <1>4, AfterStealType DEF IInv, ReleaseStealLock
<1>5. CASE Fails(t)
  BY <1>5, ReturnType, EndType, AfterStealType DEF IInv, Fails
<1>6. QED
  BY <1>1, <1>2, <1>3, <1>4, <1>5 DEF Step

\* The lock file, the steal lock, old releases and deaths implement LockService.
THEOREM Refinement == Spec => ImplementsService
<1>1. Init => Service!ServiceInit
  BY LockAssumption DEF Init, Service!ServiceInit, Alive
<1>2. ASSUME IInv, NEW t \in Task, Alive(t), Start(t) \/ Step(t) \/ Fails(t)
      PROVE  Served
  <2>1. UNCHANGED Up /\ t \in Up /\ \A u \in Task : Alive(u)' <=> Alive(u)
    BY <1>2, LockChanges DEF Up, Alive
  <2>2. \A u \in Task : Alive(u) /\ pc[u] \in Owning => Owner = u
    BY <1>2, LockAssumption DEF IInv, OwnerInv, Holds, Owner
  <2>3. CASE Acquired(t)
    <3>1. Owner = t /\ UNCHANGED Owner
      BY <1>2, <2>2, <2>3 DEF Acquired, Owning, Owner
    <3>2. In' = {t}
      BY <1>2, <2>1, <2>2, <2>3 DEF Acquired, Goto, IInv, TypeOK, Owning, In
    <3>3. Service!Enter(t)
      BY <2>1, <3>1, <3>2 DEF Service!Enter, Owner, In, Up
    <3>4. QED
      BY <3>3 DEF Served, Service!ServiceNext
  <2>4. CASE Release(t)
    <3>1. Owner = t /\ UNCHANGED Owner
      BY <1>2, <2>2, <2>4 DEF Release, Owning, Owner
    <3>2. In' = {}
      BY <1>2, <2>1, <2>2, <2>4 DEF Release, Goto, IInv, TypeOK, Owning, In
    <3>3. Service!Leave(t)
      BY <2>1, <3>1, <3>2 DEF Service!Leave, Owner, In, Up
    <3>4. QED
      BY <3>3 DEF Served, Service!ServiceNext
  <2>5. CASE ~(Acquired(t) \/ Release(t))
    <3>1. UNCHANGED In
      BY <1>2, <2>1, <2>5, HeldChanges DEF In
    <3>2. CASE UNCHANGED Owner
      BY <2>1, <3>1, <3>2 DEF Served
    <3>3. CASE Owner = NoOne /\ Owner' = t
      <4>1. Service!Take(t)
        BY <2>1, <3>1, <3>3 DEF Service!Take, Owner, In, Up
      <4>2. QED
        BY <4>1 DEF Served, Service!ServiceNext
    <3>4. CASE Owner = t /\ Owner' = NoOne /\ pc[t] = "release"
      <4>1. Service!GiveUp(t)
        BY <2>1, <3>1, <3>4 DEF Service!GiveUp, Owner, In, Up
      <4>2. QED
        BY <4>1 DEF Served, Service!ServiceNext
    <3>5. CASE Owner \in Task /\ ~Alive(Owner) /\ Owner' = NoOne
      <4>1. Service!Break(t)
        BY <2>1, <3>1, <3>5, LockAssumption DEF Service!Break, Owner, In, Up
      <4>2. QED
        BY <4>1 DEF Served, Service!ServiceNext
    <3>6. QED
      BY <1>2, <3>2, <3>3, <3>4, <3>5, LockChanges
  <2>6. QED
    BY <2>3, <2>4, <2>5
<1>3. ASSUME IInv, NEW p \in Process, Crash(p) \/ ReusePid(p)
      PROVE  Served
  <2>1. UNCHANGED <<Owner, pc>> /\ Up' \subseteq Up
    BY <1>3, LockAssumption DEF Crash, ReusePid, IInv, TypeOK, Alive, Up, Owner
  <2>2. In' = In \ (Up \ Up')
    BY <2>1 DEF In, Up
  <2>3. CASE Up \ Up' = {}
    BY <2>1, <2>2, <2>3 DEF Served
  <2>4. CASE Up \ Up' # {}
    <3>1. PICK S \in SUBSET Task : S = Up \ Up'
      BY DEF Up
    <3>2. Service!Die(S)
      BY <2>1, <2>2, <2>4, <3>1 DEF Service!Die, Owner, In, Up
    <3>3. QED
      BY <3>2 DEF Served, Service!ServiceNext
  <2>5. QED
    BY <2>3, <2>4
<1>4. ASSUME IInv, OldTakes \/ OldReleases \/ OldDies \/ GoesStale \/ OperatorClears
      PROVE  Served
  <2>1. UNCHANGED <<pc, proc>>
    BY <1>4 DEF OldTakes, OldReleases, OldDies, GoesStale, OperatorClears
  <2>2. UNCHANGED Owner
    BY <1>4, LockAssumption DEF OldTakes, OldReleases, OldDies, GoesStale, OperatorClears,
       Reclaimable, Owner
  <2>3. QED
    BY <2>1, <2>2 DEF Served, In, Up, Alive
<1>5. IInv /\ [Next]_vars => [Service!ServiceNext]_(Service!svars)
  <2> SUFFICES ASSUME IInv, [Next]_vars PROVE Served
    BY DEF Served, Service!svars, Owner, In, Up
  <2>1. CASE UNCHANGED vars
    BY <2>1 DEF vars, Served, Owner, In, Up, Alive
  <2>2. QED
    BY <1>2, <1>3, <1>4, <2>1 DEF Next
<1>6. QED
  BY Invariance, <1>1, <1>5, PTL DEF Spec, ImplementsService, Service!ServiceSpec
=============================================================================
