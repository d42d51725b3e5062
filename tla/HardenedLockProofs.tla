------------------------ MODULE HardenedLockProofs ------------------------
(***************************************************************************)
(* Mutual exclusion of the bus lock, that its by-path unlinks remove what  *)
(* they compared, and that it implements LockService, for any tasks,       *)
(* processes, assignment of tasks to processes and number of failures.     *)
(***************************************************************************)
EXTENDS HardenedLock, TLAPS

(***************************************************************************)
(* The strengthening.  While a live task owns, it created the file at the  *)
(* lock's path, and while it reaps, the one at the guard's path; otherwise *)
(* it did so only if the removal failed.  What a reaper is about to remove *)
(* was created by a dead task and is still there.                          *)
(***************************************************************************)
OwnerInv ==
    \A t \in Task : Alive(t) =>
        /\ pc[t] \in Owning => lock = t
        /\ (lock = t /\ pc[t] \notin Owning) => "lock" \in leaked

GuardInv ==
    \A t \in Task : Alive(t) =>
        /\ pc[t] \in Reaping => guard = t
        /\ (guard = t /\ pc[t] \notin Reaping) => "guard" \in leaked

SeenInv ==
    \A t \in Task : (Alive(t) /\ pc[t] \in {"compare", "unlink"}) =>
        /\ call[t].seen \in Task
        /\ ~Alive(call[t].seen)
        /\ pc[t] = "unlink" => lock = call[t].seen

IInv == TypeOK /\ OwnerInv /\ GuardInv /\ SeenInv

----------------------------------------------------------------------------
(* What Return and Again do to the calls. *)

LEMMA ReturnType ==
    ASSUME TypeOK, NEW t \in Task, Return(t)
    PROVE  /\ pc' \in [Task -> Location]
           /\ call' \in [Task -> Call]
           /\ pc' = [pc EXCEPT ![t] = "idle"]
           /\ \A u \in Task : u # t => call'[u] = call[u]
<1>1. NoCall \in Call
  BY DEF NoCall, Call
<1>2. "idle" \in Location
  BY DEF Location
<1>3. QED
  BY <1>1, <1>2 DEF TypeOK, Return, Goto

LEMMA AgainType ==
    ASSUME TypeOK, NEW t \in Task, Again(t)
    PROVE  /\ pc' \in [Task -> Location]
           /\ call' \in [Task -> Call]
           /\ \/ pc' = [pc EXCEPT ![t] = "idle"]
              \/ pc' = [pc EXCEPT ![t] = "link"]
           /\ \A u \in Task : u # t => call'[u] = call[u]
<1> DEFINE left == IF call[t].mode = "try" THEN call[t].attempts - 1 ELSE 1
<1>1. CASE call[t].attempts > 0 /\ left > 0
  <2>1. /\ pc' = [pc EXCEPT ![t] = "link"]
        /\ call' = [call EXCEPT ![t].attempts = left]
    BY <1>1 DEF Again, Goto
  <2>2. left \in 0..2
    BY <1>1 DEF TypeOK, Call
  <2>3. "link" \in Location
    BY DEF Location, Trying
  <2>4. [call[t] EXCEPT !.attempts = left] \in Call
    BY <2>2 DEF TypeOK, Call
  <2>5. QED
    BY <2>1, <2>3, <2>4 DEF TypeOK
<1>2. CASE ~(call[t].attempts > 0 /\ left > 0)
  BY <1>2, ReturnType DEF Again
<1>3. QED
  BY <1>1, <1>2

LEMMA BusyType ==
    ASSUME TypeOK, NEW t \in Task, Busy(t)
    PROVE  /\ pc' \in [Task -> Location]
           /\ call' \in [Task -> Call]
           /\ \/ pc' = [pc EXCEPT ![t] = "idle"]
              \/ pc' = [pc EXCEPT ![t] = "link"]
           /\ \A u \in Task : u # t => call'[u] = call[u]
<1>1. CASE call[t].mode = "wait" /\ Goto(t, "link") /\ UNCHANGED call
  BY <1>1 DEF TypeOK, Goto, Location, Trying
<1>2. CASE call[t].mode = "try" /\ Return(t)
  BY <1>2, ReturnType
<1>3. QED
  BY <1>1, <1>2 DEF Busy

\* The body of a live task is never given the verdict "dead".
LEMMA DeadVerdict ==
    ASSUME "dead" \in inspectProcessIdentity
    PROVE  ~Alive(lock)
BY DEF inspectProcessIdentity, Alive


----------------------------------------------------------------------------
(* The invariant is inductive. *)

LEMMA InitIInv == Init => IInv
<1> SUFFICES ASSUME Init PROVE IInv
  OBVIOUS
<1> USE LockAssumption DEF Init
<1>1. NoCall \in Call
  BY DEF NoCall, Call
<1>2. TypeOK
  <2>1. faults \in 0..MaxFaults /\ leaked \subseteq {"lock", "guard"}
    OBVIOUS
  <2>2. /\ lock \in Task \cup {NoOne} /\ guard \in Task \cup {NoOne}
        /\ signed \in BOOLEAN
        /\ proc \in [Process -> {"alive", "dead", "reused"}]
        /\ pc \in [Task -> Location]
        /\ call \in [Task -> Call]
    BY <1>1 DEF Location
  <2>3. QED
    BY <2>1, <2>2 DEF TypeOK
<1>3. OwnerInv /\ GuardInv /\ SeenInv
  BY DEF OwnerInv, GuardInv, SeenInv, Owning, Reaping
<1>4. QED
  BY <1>2, <1>3 DEF IInv

(***************************************************************************)
(* Steps of one task that leave the lock, the guard and the processes as   *)
(* they are keep the invariant when the task enters neither the owning nor *)
(* the reaping locations, leaves them only when the removal has failed,    *)
(* and does not touch what it has read.                                    *)
(***************************************************************************)
LEMMA LocalStep ==
    ASSUME IInv, NEW t \in Task, Alive(t),
           UNCHANGED <<lock, signed, guard, proc>>,
           faults' \in 0..MaxFaults,
           leaked \subseteq leaked', leaked' \subseteq {"lock", "guard"},
           pc' \in [Task -> Location],
           call' \in [Task -> Call],
           \A u \in Task : u # t => pc'[u] = pc[u] /\ call'[u] = call[u],
           pc'[t] \in Owning => pc[t] \in Owning,
           pc[t] \in Owning => (pc'[t] \in Owning \/ "lock" \in leaked'),
           pc'[t] \in Reaping => pc[t] \in Reaping,
           pc[t] \in Reaping => (pc'[t] \in Reaping \/ "guard" \in leaked'),
           pc'[t] \notin {"compare", "unlink"}
    PROVE  IInv'
<1>1. \A u \in Task : Alive(u)' <=> Alive(u)
  BY DEF Alive
<1>2. TypeOK'
  BY DEF IInv, TypeOK
<1>3. OwnerInv'
  BY <1>1 DEF IInv, OwnerInv
<1>4. GuardInv'
  BY <1>1 DEF IInv, GuardInv
<1>5. SeenInv'
  <2> SUFFICES ASSUME NEW u \in Task, Alive(u)', pc'[u] \in {"compare", "unlink"}
               PROVE  (/\ call[u].seen \in Task
                       /\ ~Alive(call[u].seen)
                       /\ pc[u] = "unlink" => lock = call[u].seen)'
    BY DEF SeenInv
  <2>1. u # t /\ Alive(u) /\ pc'[u] = pc[u] /\ call'[u] = call[u]
    BY <1>1
  <2>2. QED
    BY <2>1, <1>1 DEF IInv, SeenInv
<1>6. QED
  BY <1>2, <1>3, <1>4, <1>5 DEF IInv

\* A task that creates the guard reaps.
LEMMA GuardTaken ==
    ASSUME IInv, NEW t \in Task, Alive(t),
           pc[t] = "guard", guard = NoOne, guard' = t,
           UNCHANGED <<lock, signed, proc, leaked>>,
           faults' \in 0..MaxFaults,
           NEW l \in {"reread", "unguardCompare"}, Goto(t, l),
           call' \in [Task -> Call],
           \A u \in Task : u # t => call'[u] = call[u]
    PROVE  IInv'
<1> USE DEF Location, Trying, Reaping, Owning
<1>1. pc' = [pc EXCEPT ![t] = l] /\ TypeOK /\ OwnerInv /\ GuardInv /\ SeenInv
  BY DEF Goto, IInv
<1>2. TypeOK'
  BY <1>1 DEF TypeOK
<1>3. OwnerInv' /\ GuardInv'
  BY <1>1, LockAssumption DEF TypeOK, OwnerInv, GuardInv, Alive
<1>4. SeenInv'
  BY <1>1 DEF TypeOK, SeenInv, Alive
<1>5. QED
  BY <1>2, <1>3, <1>4 DEF IInv

LEMMA FailIInv ==
    ASSUME IInv, NEW t \in Task, Alive(t), Fail(t)
    PROVE  IInv'
<1> USE DEF Location, Trying, Reaping, Owning
<1>0. TypeOK /\ GuardInv
  BY DEF IInv
<1>1. Fault /\ faults' \in 0..MaxFaults
  <2>1. Fault
    BY DEF Fail, AttemptFails, PublishFails, GuardFails, RereadFails, ReclaimFails,
           UnguardFails, ReleaseFails
  <2>2. QED
    BY <1>0, <2>1, LockAssumption DEF Fault, TypeOK
<1>2. CASE AttemptFails(t)
  BY <1>0, <1>1, <1>2, ReturnType, LocalStep DEF AttemptFails, TypeOK
<1>3. ASSUME call' = [call EXCEPT ![t].attempts = 0]
      PROVE  call' \in [Task -> Call] /\ \A u \in Task : u # t => call'[u] = call[u]
  BY <1>0, <1>3 DEF TypeOK, Call
<1>4. CASE PublishFails(t)
  BY <1>0, <1>1, <1>3, <1>4, LocalStep DEF PublishFails, Goto, TypeOK
<1>5. CASE GuardFails(t)
  BY <1>1, <1>3, <1>5, GuardTaken DEF GuardFails
<1>6. CASE RereadFails(t)
  BY <1>0, <1>1, <1>3, <1>6, LocalStep DEF RereadFails, Goto, TypeOK
<1>7. CASE ReclaimFails(t)
  BY <1>0, <1>1, <1>7, LocalStep DEF ReclaimFails, Goto, TypeOK
<1>8. CASE UnguardFails(t)
  BY <1>0, <1>1, <1>8, AgainType, LocalStep DEF UnguardFails, TypeOK
<1>9. CASE ReleaseFails(t)
  BY <1>0, <1>1, <1>9, ReturnType, LocalStep DEF ReleaseFails, TypeOK
<1>10. QED
  BY <1>2, <1>4, <1>5, <1>6, <1>7, <1>8, <1>9 DEF Fail

LEMMA StepIInv ==
    ASSUME IInv, NEW t \in Task, Alive(t), Start(t) \/ Step(t) \/ Fail(t) \/ Tick(t)
    PROVE  IInv'
<1> USE DEF Location, Trying, Reaping, Owning
<1>0. TypeOK /\ OwnerInv /\ GuardInv /\ SeenInv
  BY DEF IInv
<1>1. CASE Start(t)
  <2>1. PICK m \in Modes :
           call' = [call EXCEPT ![t] = [mode |-> m, late |-> FALSE, seen |-> NoOne,
                                        attempts |-> IF m = "try" THEN 2 ELSE 1]]
    BY <1>1 DEF Start
  <2>2. [mode |-> m, late |-> FALSE, seen |-> NoOne,
         attempts |-> IF m = "try" THEN 2 ELSE 1] \in Call
    BY LockAssumption DEF Call
  <2>3. call' \in [Task -> Call] /\ pc' = [pc EXCEPT ![t] = "link"] /\ pc[t] = "idle"
    BY <1>0, <1>1, <2>1, <2>2 DEF Start, TypeOK, Goto
  <2>4. QED
    BY <1>0, <1>1, <2>1, <2>3, LocalStep DEF Start, TypeOK, disk
<1>2. CASE TimeOut(t)
  BY <1>0, <1>2, ReturnType, LocalStep DEF TimeOut, TypeOK, disk
<1>3. CASE Link(t)
  <2>1. CASE lock = NoOne
    <3>1. lock' = t /\ pc' = [pc EXCEPT ![t] = "linked"] /\ pc[t] = "link"
      BY <1>3, <2>1 DEF Link, Goto
    <3>2. UNCHANGED <<guard, proc, call, faults, leaked>> /\ signed' \in BOOLEAN
      BY <1>3, <2>1, LockAssumption DEF Link, disk
    <3>3. TypeOK'
      BY <1>0, <3>1, <3>2 DEF TypeOK
    <3>4. OwnerInv' /\ GuardInv'
      BY <1>0, <2>1, <3>1, <3>2, LockAssumption DEF TypeOK, OwnerInv, GuardInv, Alive
    <3>5. SeenInv'
      BY <1>0, <2>1, <3>1, <3>2, LockAssumption DEF TypeOK, SeenInv, Alive
    <3>6. QED
      BY <3>3, <3>4, <3>5 DEF IInv
  <2>2. CASE lock # NoOne
    BY <1>0, <1>3, <2>2, LocalStep DEF Link, Goto, TypeOK, disk
  <2>3. QED
    BY <2>1, <2>2
<1>4. CASE Acquired(t)
  BY <1>0, <1>4, LocalStep DEF Acquired, Goto, TypeOK, disk
<1>5. CASE Read(t)
  <2>1. CASE Again(t)
    BY <1>0, <1>5, <2>1, AgainType, LocalStep DEF Read, TypeOK, disk
  <2>2. CASE Busy(t)
    BY <1>0, <1>5, <2>2, BusyType, LocalStep DEF Read, TypeOK, disk
  <2>3. CASE Goto(t, "guard") /\ UNCHANGED call
    BY <1>0, <1>5, <2>3, LocalStep DEF Read, Goto, TypeOK, disk
  <2>4. QED
    BY <1>5, <2>1, <2>2, <2>3 DEF Read
<1>6. CASE LinkGuard(t)
  <2>1. CASE guard = NoOne
    BY <1>0, <1>6, <2>1, GuardTaken DEF LinkGuard, Goto, TypeOK, disk
  <2>2. CASE guard # NoOne
    BY <1>0, <1>6, <2>2, ReturnType, LocalStep DEF LinkGuard, TypeOK, disk
  <2>3. QED
    BY <2>1, <2>2
<1>7. CASE Reread(t)
  <2>1. /\ pc[t] = "reread" /\ UNCHANGED <<lock, signed, guard, proc, faults, leaked>>
        /\ call' = [call EXCEPT ![t].seen = lock]
    BY <1>7 DEF Reread, disk
  <2>2. /\ call' \in [Task -> Call] /\ call'[t].seen = lock
        /\ \A u \in Task : u # t => call'[u] = call[u]
    BY <1>0, <2>1 DEF TypeOK, Call
  <2>3. CASE pc' = [pc EXCEPT ![t] = "unguardCompare"]
    BY <1>0, <2>1, <2>2, <2>3, LocalStep DEF TypeOK
  <2>4. CASE pc' = [pc EXCEPT ![t] = "compare"] /\ lock # NoOne
                /\ "dead" \in inspectProcessIdentity
    <3>1. lock \in Task /\ ~Alive(lock)
      BY <1>0, <2>4, DeadVerdict DEF TypeOK
    <3>2. TypeOK' /\ OwnerInv' /\ GuardInv'
      BY <1>0, <2>1, <2>2, <2>4 DEF TypeOK, OwnerInv, GuardInv, Alive
    <3>3. SeenInv'
      BY <1>0, <2>1, <2>2, <2>4, <3>1 DEF TypeOK, SeenInv, Alive
    <3>4. QED
      BY <3>2, <3>3 DEF IInv
  <2>5. QED
    BY <1>7, <2>3, <2>4 DEF Reread, Goto
<1>8. CASE Compare(t)
  <2>1. CASE lock = call[t].seen
    <3>1. pc' = [pc EXCEPT ![t] = "unlink"] /\ pc[t] = "compare" /\ UNCHANGED <<lock, signed, guard, proc, call, faults, leaked>>
      BY <1>8, <2>1 DEF Compare, Goto, disk
    <3>2. TypeOK' /\ OwnerInv' /\ GuardInv'
      BY <1>0, <3>1 DEF TypeOK, OwnerInv, GuardInv, Alive
    <3>3. SeenInv'
      BY <1>0, <2>1, <3>1 DEF TypeOK, SeenInv, Alive
    <3>4. QED
      BY <3>2, <3>3 DEF IInv
  <2>2. CASE lock # call[t].seen
    BY <1>0, <1>8, <2>2, LocalStep DEF Compare, Goto, TypeOK, disk
  <2>3. QED
    BY <2>1, <2>2
<1>9. CASE Unlink(t)
  <2>1. /\ pc' = [pc EXCEPT ![t] = "unguardCompare"] /\ pc[t] = "unlink" /\ lock' = NoOne
        /\ UNCHANGED <<signed, guard, proc, call, faults>> /\ leaked' = leaked \ {"lock"}
    BY <1>9 DEF Unlink, Goto
  <2>2. lock = call[t].seen /\ lock \in Task /\ ~Alive(lock) /\ guard = t
    BY <1>0, <2>1 DEF SeenInv, GuardInv
  <2>3. TypeOK' /\ OwnerInv' /\ GuardInv'
    BY <1>0, <2>1, <2>2, LockAssumption DEF TypeOK, OwnerInv, GuardInv, Alive
  <2>4. SeenInv'
    BY <1>0, <2>1, <2>2 DEF TypeOK, SeenInv, GuardInv, Alive
  <2>5. QED
    BY <2>3, <2>4 DEF IInv
<1>10. CASE UnguardCompare(t)
  <2>1. pc[t] = "unguardCompare" /\ guard = t
    BY <1>0, <1>10 DEF UnguardCompare, GuardInv
  <2>2. QED
    BY <1>0, <1>10, <2>1, LocalStep DEF UnguardCompare, Goto, TypeOK, disk
<1>11. CASE UnguardUnlink(t)
  <2>1. /\ pc[t] = "unguardUnlink" /\ guard = t /\ guard' = NoOne
        /\ UNCHANGED <<lock, signed, proc, faults, leaked>>
    BY <1>0, <1>11 DEF UnguardUnlink, GuardInv, disk
  <2>2. /\ pc' \in [Task -> Location] /\ call' \in [Task -> Call]
        /\ pc' = [pc EXCEPT ![t] = "idle"] \/ pc' = [pc EXCEPT ![t] = "link"]
        /\ \A u \in Task : u # t => call'[u] = call[u]
    BY <1>0, <1>11, AgainType DEF UnguardUnlink
  <2>3. TypeOK' /\ OwnerInv' /\ GuardInv'
    BY <1>0, <2>1, <2>2, LockAssumption DEF TypeOK, OwnerInv, GuardInv, Alive
  <2>4. SeenInv'
    BY <1>0, <2>1, <2>2 DEF TypeOK, SeenInv, Alive
  <2>5. QED
    BY <2>3, <2>4 DEF IInv
<1>12. CASE Release(t)
  BY <1>0, <1>12, LocalStep DEF Release, Goto, TypeOK, disk
<1>13. CASE ReleaseCompare(t)
  <2>1. pc[t] = "releaseCompare" /\ lock = t
    BY <1>0, <1>13 DEF ReleaseCompare, OwnerInv
  <2>2. QED
    BY <1>0, <1>13, <2>1, LocalStep DEF ReleaseCompare, Goto, TypeOK, disk
<1>14. CASE ReleaseUnlink(t)
  <2>1. /\ pc[t] = "releaseUnlink" /\ lock = t /\ lock' = NoOne
        /\ UNCHANGED <<guard, signed, proc, faults, leaked>>
    BY <1>0, <1>14 DEF ReleaseUnlink, OwnerInv, disk
  <2>2. /\ pc' = [pc EXCEPT ![t] = "idle"] /\ call' \in [Task -> Call]
        /\ \A u \in Task : u # t => call'[u] = call[u]
    BY <1>0, <1>14, ReturnType DEF ReleaseUnlink
  <2>3. TypeOK' /\ OwnerInv' /\ GuardInv'
    BY <1>0, <2>1, <2>2, LockAssumption DEF TypeOK, OwnerInv, GuardInv, Alive
  <2>4. SeenInv'
    BY <1>0, <2>1, <2>2 DEF TypeOK, SeenInv, Alive
  <2>5. QED
    BY <2>3, <2>4 DEF IInv
<1>15. CASE Tick(t)
  <2>1. /\ UNCHANGED <<lock, signed, guard, proc, pc, faults, leaked>>
        /\ call' = [call EXCEPT ![t].late = TRUE]
    BY <1>15 DEF Tick, disk
  <2>2. /\ call' \in [Task -> Call]
        /\ \A u \in Task : call'[u].seen = call[u].seen
    BY <1>0, <2>1 DEF TypeOK, Call
  <2>3. TypeOK' /\ OwnerInv' /\ GuardInv'
    BY <1>0, <2>1, <2>2 DEF TypeOK, OwnerInv, GuardInv, Alive
  <2>4. SeenInv'
    BY <1>0, <2>1, <2>2 DEF SeenInv, Alive
  <2>5. QED
    BY <2>3, <2>4 DEF IInv
<1>16. CASE Fail(t)
  BY <1>16, FailIInv
<1>17. QED
  BY <1>1, <1>2, <1>3, <1>4, <1>5, <1>6, <1>7, <1>8, <1>9, <1>10, <1>11,
     <1>12, <1>13, <1>14, <1>15, <1>16 DEF Step

\* Processes only ever leave the life in which IInv says anything of them.
LEMMA ProcessIInv ==
    ASSUME IInv, NEW p \in Process, Crash(p) \/ ReusePid(p)
    PROVE  IInv'
<1>1. /\ UNCHANGED <<lock, signed, guard, pc, call, faults, leaked>>
      /\ proc' \in [Process -> {"alive", "dead", "reused"}]
      /\ \A q \in Process : proc'[q] = "alive" => proc[q] = "alive"
  BY DEF IInv, TypeOK, Crash, ReusePid, disk
<1>2. \A t \in Task : Alive(t)' => Alive(t)
  BY <1>1, LockAssumption DEF Alive
<1>3. TypeOK' /\ OwnerInv' /\ GuardInv'
  BY <1>1, <1>2 DEF IInv, TypeOK, OwnerInv, GuardInv
<1>4. SeenInv'
  <2> SUFFICES ASSUME NEW t \in Task, Alive(t)', pc[t] \in {"compare", "unlink"}
               PROVE  (/\ call[t].seen \in Task
                       /\ ~Alive(call[t].seen)
                       /\ pc[t] = "unlink" => lock = call[t].seen)'
    BY <1>1 DEF SeenInv
  <2>1. /\ call[t].seen \in Task
        /\ ~Alive(call[t].seen)
        /\ pc[t] = "unlink" => lock = call[t].seen
    BY <1>2 DEF IInv, SeenInv
  <2>2. ~Alive(call[t].seen)'
    BY <1>1, <1>2, <2>1
  <2>3. QED
    BY <1>1, <2>1, <2>2
<1>5. QED
  BY <1>3, <1>4 DEF IInv

LEMMA NextIInv == IInv /\ [Next]_vars => IInv'
<1> SUFFICES ASSUME IInv, [Next]_vars PROVE IInv'
  OBVIOUS
<1>1. ASSUME NEW t \in Task, Alive(t), Start(t) \/ Step(t) \/ Fail(t) \/ Tick(t) PROVE IInv'
  BY <1>1, StepIInv
<1>2. ASSUME NEW p \in Process, Crash(p) \/ ReusePid(p) PROVE IInv'
  BY <1>2, ProcessIInv
<1>3. CASE UNCHANGED vars
  BY <1>3 DEF vars, disk, IInv, TypeOK, OwnerInv, GuardInv, SeenInv, Alive
<1>4. QED
  BY <1>1, <1>2, <1>3 DEF Next

LEMMA Invariance == Spec => []IInv
BY InitIInv, NextIInv, PTL DEF Spec

----------------------------------------------------------------------------
(* The safety properties the runs check. *)

\* Every variable keeps its type, for any number of tasks and processes.
THEOREM TypeCorrect == Spec => []TypeOK
<1>1. IInv => TypeOK
  BY DEF IInv
<1>2. QED
  BY Invariance, <1>1, PTL

\* Two live tasks are never both inside withHardenedLock's handler.
THEOREM Exclusion == Spec => []MutualExclusion
<1>1. IInv => MutualExclusion
  BY DEF IInv, OwnerInv, MutualExclusion, Owning
<1>2. QED
  BY Invariance, <1>1, PTL

\* No by-path unlink removes a file other than the one its comparison saw.
THEOREM ComparedUnlinks == Spec => []UnlinksWhatItCompared
<1>1. IInv => UnlinksWhatItCompared
  BY DEF IInv, OwnerInv, GuardInv, SeenInv, UnlinksWhatItCompared, Owning, Reaping
<1>2. QED
  BY Invariance, <1>1, PTL

\* A live task outside a call owns neither the lock nor the guard, except one
\* whose removal it tried and which failed.
THEOREM LeavesNothing == Spec => []LeftOnlyByFailure
<1>1. IInv => LeftOnlyByFailure
  BY DEF IInv, OwnerInv, GuardInv, LeftOnlyByFailure, Owning, Reaping
<1>2. QED
  BY Invariance, <1>1, PTL

----------------------------------------------------------------------------
(* Which steps change the lock, and what that means to LockService. *)

LEMMA LockChanges ==
    ASSUME IInv, NEW t \in Task, Alive(t), Start(t) \/ Step(t) \/ Fail(t) \/ Tick(t)
    PROVE  /\ UNCHANGED proc
           /\ \/ UNCHANGED lock
              \/ lock = NoOne /\ lock' = t
              \/ lock = t /\ lock' = NoOne /\ pc[t] = "releaseUnlink"
              \/ lock \in Task /\ ~Alive(lock) /\ lock' = NoOne /\ pc[t] = "unlink"
           /\ \/ UNCHANGED guard
              \/ guard = NoOne /\ guard' = t
              \/ guard = t /\ pc[t] = "unguardUnlink"
<1>1. CASE Link(t)
  BY <1>1 DEF Link
<1>2. CASE Unlink(t)
  <2>1. lock = call[t].seen /\ lock \in Task /\ ~Alive(lock)
    BY <1>2 DEF Unlink, IInv, SeenInv
  <2>2. QED
    BY <1>2, <2>1 DEF Unlink
<1>3. CASE ReleaseUnlink(t)
  BY <1>3 DEF ReleaseUnlink, IInv, OwnerInv, Owning
<1>4. CASE LinkGuard(t)
  BY <1>4 DEF LinkGuard
<1>5. CASE UnguardUnlink(t)
  BY <1>5 DEF UnguardUnlink, IInv, GuardInv, Reaping
<1>6. CASE Start(t) \/ TimeOut(t) \/ Acquired(t) \/ Read(t) \/ Reread(t) \/ Compare(t)
            \/ UnguardCompare(t) \/ Release(t) \/ ReleaseCompare(t) \/ Tick(t)
  BY <1>6 DEF Start, TimeOut, Acquired, Read, Reread, Compare, UnguardCompare,
              Release, ReleaseCompare, Tick, disk
<1>7. CASE Fail(t)
  BY <1>7 DEF Fail, AttemptFails, PublishFails, GuardFails, RereadFails, ReclaimFails,
              UnguardFails, ReleaseFails
<1>8. QED
  BY <1>1, <1>2, <1>3, <1>4, <1>5, <1>6, <1>7 DEF Step

\* A live owner's lock is removed by its owner, and a guard by its owner.
THEOREM DeadOnly == Spec => OnlyDeadAreReaped
<1> DEFINE A == /\ \A t \in Task :
                      (lock = t /\ lock' # t /\ Alive(t)) => pc[t] = "releaseUnlink"
                /\ \A t \in Task :
                      (guard = t /\ guard' # t) => (Alive(t) /\ pc[t] = "unguardUnlink")
<1>1. IInv /\ [Next]_vars => [A]_vars
  <2> SUFFICES ASSUME IInv, Next PROVE A
    BY DEF vars
  <2>1. ASSUME NEW u \in Task, Alive(u), Start(u) \/ Step(u) \/ Fail(u) \/ Tick(u) PROVE A
    <3>1. /\ \/ UNCHANGED lock
             \/ lock = NoOne /\ lock' = u
             \/ lock = u /\ lock' = NoOne /\ pc[u] = "releaseUnlink"
             \/ lock \in Task /\ ~Alive(lock) /\ lock' = NoOne /\ pc[u] = "unlink"
          /\ \/ UNCHANGED guard
             \/ guard = NoOne /\ guard' = u
             \/ guard = u /\ pc[u] = "unguardUnlink"
      BY <2>1, LockChanges
    <3>2. QED
      BY <2>1, <3>1, LockAssumption
  <2>2. ASSUME NEW p \in Process, Crash(p) \/ ReusePid(p) PROVE A
    BY <2>2 DEF Crash, ReusePid
  <2>3. QED
    BY <2>1, <2>2 DEF Next
<1>2. QED
  BY Invariance, <1>1, PTL DEF Spec, OnlyDeadAreReaped

\* A step seen through the refinement mapping.
Up == {t \in Task : Alive(t)}
In == {t \in Task : Alive(t) /\ pc[t] = "held"}
Served == Service!ServiceNext \/ UNCHANGED <<lock, In, Up>>

\* The lock file, its reaper guard and the crashes implement LockService.
THEOREM Refinement == Spec => ImplementsService
<1> USE DEF Up, In, Served, Alive
<1>1. Init => Service!ServiceInit
  BY LockAssumption DEF Init, Service!ServiceInit, Alive
<1>2. ASSUME IInv, NEW t \in Task, Alive(t), Start(t) \/ Step(t) \/ Fail(t) \/ Tick(t)
      PROVE  Served
  <2>1. UNCHANGED Up /\ t \in Up
    BY <1>2, LockChanges DEF Alive
  <2>2. CASE Acquired(t)
    <3>1. lock = t
      BY <1>2, <2>2 DEF Acquired, IInv, OwnerInv, Owning
    <3>2. pc' = [pc EXCEPT ![t] = "held"]
      BY <2>2 DEF Acquired, Goto
    <3>3. In' = {t} /\ UNCHANGED lock
      BY <1>2, <2>1, <2>2, <3>1, <3>2 DEF Acquired, IInv, TypeOK, OwnerInv, Owning, Alive
    <3>4. QED
      BY <2>1, <3>1, <3>3 DEF Service!ServiceNext, Service!Enter
  <2>3. CASE Release(t)
    <3>1. lock = t /\ UNCHANGED lock
      BY <1>2, <2>3 DEF Release, IInv, OwnerInv, Owning
    <3>2. In' = {}
      BY <1>2, <2>3, <3>1 DEF Release, Goto, IInv, TypeOK, OwnerInv, Owning, Alive
    <3>3. QED
      BY <2>1, <3>1, <3>2 DEF Service!ServiceNext, Service!Leave
  <2>4. CASE ~(Acquired(t) \/ Release(t))
    <3>1. UNCHANGED In
      <4>1. \A u \in Task : pc'[u] = "held" <=> pc[u] = "held"
        <5>1. CASE Fail(t)
          BY <1>2, <5>1, ReturnType, AgainType
             DEF IInv, TypeOK, Fail, AttemptFails, PublishFails, GuardFails, RereadFails,
                 ReclaimFails, UnguardFails, ReleaseFails, Trying, Goto
        <5>2. CASE ~Fail(t)
          BY <1>2, <2>4, <5>2, ReturnType, AgainType, BusyType
             DEF IInv, TypeOK, Step, Start, TimeOut, Link, Read, LinkGuard, Reread, Compare, Unlink,
                 UnguardCompare, UnguardUnlink, ReleaseCompare, ReleaseUnlink, Tick, Goto
        <5>3. QED
          BY <5>1, <5>2
      <4>2. QED
        BY <2>1, <4>1
    <3>2. \/ UNCHANGED lock
          \/ lock = NoOne /\ lock' = t
          \/ lock = t /\ lock' = NoOne /\ t \notin In
          \/ lock \in Task /\ lock \notin Up /\ lock' = NoOne
      BY <1>2, LockChanges
    <3>3. QED
      BY <2>1, <3>1, <3>2, LockAssumption
         DEF Service!ServiceNext, Service!Take, Service!GiveUp, Service!Break
  <2>5. QED
    BY <2>2, <2>3, <2>4
<1>3. ASSUME IInv, NEW p \in Process, Crash(p) \/ ReusePid(p)
      PROVE  Served
  <2>1. UNCHANGED <<lock, pc>> /\ Up' \subseteq Up
    BY <1>3, LockAssumption DEF Crash, ReusePid, IInv, TypeOK, Alive
  <2>2. In' = In \ (Up \ Up')
    BY <2>1
  <2>3. CASE Up \ Up' = {}
    BY <2>1, <2>2, <2>3
  <2>4. CASE Up \ Up' # {}
    <3>1. PICK S \in SUBSET Task : S = Up \ Up'
      OBVIOUS
    <3>2. Service!Die(S)
      BY <2>1, <2>2, <2>4, <3>1 DEF Service!Die
    <3>3. QED
      BY <3>2 DEF Service!ServiceNext
  <2>5. QED
    BY <2>3, <2>4
<1>4. IInv /\ [Next]_vars => [Service!ServiceNext]_(Service!svars)
  <2> SUFFICES ASSUME IInv, Next PROVE Served
    BY DEF vars, Service!svars, Alive
  <2>1. QED
    BY <1>2, <1>3 DEF Next
<1>5. QED
  BY Invariance, <1>1, <1>4, PTL DEF Spec, ImplementsService, Service!ServiceSpec
============================================================================
