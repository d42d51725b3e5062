------------------------- MODULE ProjectSaveProofs -------------------------
(***************************************************************************)
(* Theorems about ProjectSave, for every set of files, contents, process   *)
(* ids and transactions and every number of faults.                        *)
(***************************************************************************)
EXTENDS ProjectSave, TLAPS

\* The journal that the running transaction has written.
OwnJournal(marked) == [entries |-> txn, marked |-> marked, pid |-> pid]

\* What a started commit has still to do is what its temporary files contain.
PendingInv ==
    Pending => \A i \in Writes(journal.entries) :
                  temp[i][journal.pid] \in {NoFile, journal.entries[i]}

\* A running transaction.
TransactionInv ==
    /\ pc \in Preparing \cup {"committing", "cleanup"} =>
          txn \in Transactions /\ answer = "none"
    /\ pc \in {"handler", "journaling"} => journal = NoFile
    /\ pc = "staging" =>
          /\ journal = OwnJournal(FALSE)
          /\ left \subseteq Writes(txn)
          /\ \A i \in Writes(txn) \ left : temp[i][pid] = txn[i]
    /\ pc = "committing" =>
          /\ journal = OwnJournal(TRUE)
          /\ left \subseteq DOMAIN txn
          /\ \A i \in left \cap Writes(txn) : temp[i][pid] = txn[i]
    /\ pc = "cleanup" =>
          /\ Pending => journal = OwnJournal(TRUE)
          /\ left \subseteq Writes(txn)

\* What a commit or a replay has dealt with is in its place.
ProgressInv ==
    pc \in {"committing", "replay"} =>
        \A i \in DOMAIN journal.entries \ left :
            IF journal.entries[i] = NoFile THEN item[i] = NoFile
                                           ELSE temp[i][journal.pid] = NoFile

\* A running recovery.
RecoveryInv ==
    /\ pc = "rollback" =>
          /\ journal \in Journals /\ ~journal.marked
          /\ left \subseteq Writes(journal.entries)
    /\ pc = "replay" => Pending /\ left \subseteq DOMAIN journal.entries

IInv ==
    /\ TypeOK /\ NoTornFile
    /\ PendingInv /\ TransactionInv /\ ProgressInv /\ RecoveryInv

----------------------------------------------------------------------------
USE SaveAssumption

LEMMA InitHolds == Init => IInv
  BY DEF Init, IInv, TypeOK, NoTornFile, PendingInv, TransactionInv,
         ProgressInv, RecoveryInv, Pending, Journals, Contents, Location, Preparing,
         Recovering

LEMMA StepHolds ==
    ASSUME IInv, [Next]_vars
    PROVE  IInv'
  <1> USE DEF IInv, TypeOK, NoTornFile, PendingInv, TransactionInv,
         ProgressInv, RecoveryInv, Pending, Journals, Contents, Location, Preparing,
         Recovering, Writes, OwnJournal, Leaves, Fault
  <1>1. ASSUME NEW p \in Pids, WithProjectLock(p) PROVE IInv'
    BY <1>1 DEF WithProjectLock
  <1>2. ASSUME NEW p \in Pids, WithLock(p) PROVE IInv'
    BY <1>2 DEF WithLock
  <1>3. CASE ReadJournal
    BY <1>3 DEF ReadJournal
  <1>4. ASSUME NEW i \in Items, RollBack(i) PROVE IInv'
    BY <1>4 DEF RollBack
  <1>5. ASSUME NEW i \in Items, Replay(i) PROVE IInv'
    <2>1. CASE journal.entries[i] = NoFile
      BY <1>5, <2>1 DEF Replay
    <2>2. CASE journal.entries[i] # NoFile /\ temp[i][journal.pid] # NoFile
      <3>1. temp[i][journal.pid] = journal.entries[i] /\ journal.entries[i] \in Values
        BY <1>5, <2>2 DEF Replay
      <3>2. /\ item' = [item EXCEPT ![i] = journal.entries[i]]
            /\ temp' = [temp EXCEPT ![i][journal.pid] = NoFile]
        BY <1>5, <2>2, <3>1 DEF Replay
      <3>3. TypeOK' /\ NoTornFile'
        BY <1>5, <3>1, <3>2 DEF Replay
      <3>4. PendingInv' /\ TransactionInv' /\ ProgressInv' /\ RecoveryInv'
        BY <1>5, <2>2, <3>2 DEF Replay
      <3> QED
        BY <3>3, <3>4
    <2>3. CASE journal.entries[i] # NoFile /\ temp[i][journal.pid] = NoFile
      BY <1>5, <2>3 DEF Replay
    <2> QED
      BY <2>1, <2>2, <2>3
  <1>6. CASE RecoveryEnds
    BY <1>6 DEF RecoveryEnds
  <1>7. CASE RecoveryFails
    BY <1>7 DEF RecoveryFails
  <1>8. ASSUME NEW i \in Items, NEW v \in Contents, Save(i, v) PROVE IInv'
    BY <1>8 DEF Save
  <1>9. CASE Release
    BY <1>9 DEF Release
  <1>10. ASSUME NEW t \in Transactions, Begin(t) PROVE IInv'
    BY <1>10 DEF Begin
  <1>11. CASE WriteJournal
    BY <1>11 DEF WriteJournal
  <1>12. ASSUME NEW i \in Items, Stage(i) PROVE IInv'
    BY <1>12 DEF Stage
  <1>13. CASE CommitStarts
    BY <1>13 DEF CommitStarts
  <1>14. ASSUME NEW i \in Items, Commit(i) PROVE IInv'
    <2>1. CASE txn[i] = NoFile
      BY <1>14, <2>1 DEF Commit
    <2>2. CASE txn[i] # NoFile
      <3>1. temp[i][pid] = txn[i] /\ txn[i] \in Values
        BY <1>14, <2>2 DEF Commit
      <3>2. /\ item' = [item EXCEPT ![i] = txn[i]]
            /\ temp' = [temp EXCEPT ![i][pid] = NoFile]
        BY <1>14, <2>2, <3>1 DEF Commit
      <3>3. TypeOK' /\ NoTornFile'
        BY <1>14, <3>1, <3>2 DEF Commit
      <3>4. PendingInv' /\ TransactionInv' /\ ProgressInv' /\ RecoveryInv'
        BY <1>14, <2>2, <3>2 DEF Commit
      <3> QED
        BY <3>3, <3>4
    <2> QED
      BY <2>1, <2>2
  <1>15. CASE CommitEnds
    BY <1>15 DEF CommitEnds
  <1>16. CASE CommitFails
    BY <1>16 DEF CommitFails
  <1>17. CASE StageRefused
    BY <1>17 DEF StageRefused
  <1>18. CASE WriteFails
    <2>1. CASE pc = "journaling"
      <3>1. /\ journal' \in {NoFile, Torn, OwnJournal(FALSE)}
            /\ UNCHANGED <<item, temp, pid, answer>>
            /\ faults' \in 0..MaxFaults
        BY <1>18, <2>1 DEF WriteFails
      <3>2. \/ pc' = "cleanup" /\ left' = Writes(txn) /\ txn' = txn
            \/ pc' = "unlocked" /\ left' = {} /\ txn' = Empty
        BY <1>18, <2>1 DEF WriteFails
      <3>3. OwnJournal(FALSE) \in Journals /\ ~Pending'
        BY <2>1, <3>1
      <3>4. TypeOK' /\ NoTornFile'
        BY <2>1, <3>1, <3>2, <3>3
      <3> QED
        BY <2>1, <3>1, <3>2, <3>3, <3>4
    <2>2. CASE pc = "staging" /\ left # {} /\ UNCHANGED journal
      <3>1. PICK i \in left :
               \E f \in {NoFile, Torn, txn[i]} : temp' = [temp EXCEPT ![i][pid] = f]
        BY <1>18, <2>2 DEF WriteFails
      <3>2. PICK f \in {NoFile, Torn, txn[i]} : temp' = [temp EXCEPT ![i][pid] = f]
        BY <3>1
      <3>3. TypeOK'
        BY <1>18, <2>2, <3>2 DEF WriteFails
      <3>4. PendingInv' /\ TransactionInv' /\ ProgressInv' /\ RecoveryInv'
        BY <1>18, <2>2, <3>2 DEF WriteFails
      <3> QED
        BY <1>18, <2>2, <3>3, <3>4 DEF WriteFails
    <2>3. CASE pc = "staging" /\ left = {} /\ UNCHANGED temp
      <3>1. /\ journal' \in {journal, Torn, OwnJournal(TRUE)}
            /\ UNCHANGED <<item, pid, answer>>
            /\ faults' \in 0..MaxFaults
        BY <1>18, <2>3 DEF WriteFails
      <3>2. \/ pc' = "cleanup" /\ left' = Writes(txn) /\ txn' = txn
            \/ pc' = "unlocked" /\ left' = {} /\ txn' = Empty
        BY <1>18, <2>3 DEF WriteFails
      <3>3. /\ journal = OwnJournal(FALSE) /\ txn \in Transactions /\ answer = "none"
            /\ OwnJournal(TRUE) \in Journals
            /\ \A i \in Writes(txn) : temp[i][pid] = txn[i]
        BY <2>3
      <3>4. TypeOK' /\ NoTornFile'
        BY <2>3, <3>1, <3>2, <3>3
      <3>5. PendingInv'
        BY <2>3, <3>1, <3>2, <3>3
      <3>6. TransactionInv' /\ ProgressInv' /\ RecoveryInv'
        BY <2>3, <3>1, <3>2, <3>3
      <3> QED
        BY <3>4, <3>5, <3>6
    <2> QED
      BY <1>18, <2>1, <2>2, <2>3 DEF WriteFails
  <1>19. ASSUME NEW i \in Items, CleanUp(i) PROVE IInv'
    <2>1. /\ pc = "cleanup" /\ i \in left /\ left' = left \ {i}
          /\ UNCHANGED <<item, journal, pc, pid, txn, answer>>
          /\ faults' \in 0..MaxFaults
          /\ temp' \in {temp, [temp EXCEPT ![i][pid] = NoFile]}
      BY <1>19 DEF CleanUp
    <2>2. TypeOK' /\ NoTornFile'
      BY <2>1
    <2>3. PendingInv'
      BY <2>1
    <2>4. TransactionInv' /\ ProgressInv' /\ RecoveryInv'
      BY <2>1
    <2> QED
      BY <2>2, <2>3, <2>4
  <1>20. CASE CleanupEnds
    BY <1>20 DEF CleanupEnds
  <1>21. CASE Crash
    BY <1>21 DEF Crash
  <1>22. CASE UNCHANGED vars
    BY <1>22 DEF vars
  <1> QED
    BY <1>1, <1>2, <1>3, <1>4, <1>5, <1>6, <1>7, <1>8, <1>9, <1>10, <1>11, <1>12, <1>13,
       <1>14, <1>15, <1>16, <1>17, <1>18, <1>19, <1>20, <1>21, <1>22 DEF Next, Goes

THEOREM Inductive == Spec => []IInv
<1>1. Init => IInv
  BY InitHolds
<1>2. IInv /\ [Next]_vars => IInv'
  BY StepHolds
<1> QED
  BY <1>1, <1>2, PTL DEF Spec

\* The type invariant: among others, a journal always lists a transaction.
THEOREM SaveTypeCorrect == Spec => []TypeOK
<1>1. IInv => TypeOK
  BY DEF IInv
<1> QED
  BY Inductive, <1>1, PTL

\* No file ever gets the content of an interrupted write, whatever temporary
\* files dead processes left under the names of a transaction.
THEOREM NeverTorn == Spec => []NoTornFile
<1>1. IInv => NoTornFile
  BY DEF IInv
<1> QED
  BY Inductive, <1>1, PTL

\* A handler of withProjectLock runs on a project in which nothing is unfinished.
THEOREM SeesWhole == Spec => []HandlerSeesWhole
<1>1. IInv => HandlerSeesWhole
  <2> SUFFICES ASSUME IInv, pc = "handler"
               PROVE  journal = NoFile /\ Store = item
    BY DEF HandlerSeesWhole
  <2>1. journal = NoFile /\ ~Pending
    BY DEF IInv, TransactionInv, Pending
  <2>2. item = [i \in Items |-> item[i]]
    BY DEF IInv, TypeOK
  <2> QED
    BY <2>1, <2>2 DEF Store
<1> QED
  BY Inductive, <1>1, PTL

----------------------------------------------------------------------------
(* The refinement.                                                         *)

LEMMA InitRefines == Init => Abstract!StoreInit
<1> SUFFICES ASSUME Init PROVE Abstract!StoreInit
  OBVIOUS
<1>1. ~Pending
  BY DEF Init, Pending
<1>2. Store = item
  BY <1>1 DEF Init, Store
<1>3. Mode = "idle"
  BY DEF Init, Mode, Recovering, Preparing
<1> QED
  BY <1>2, <1>3 DEF Init, Abstract!StoreInit

LEMMA StepRefines ==
    ASSUME IInv, IInv', [Next]_vars
    PROVE  [Abstract!StoreNext]_(Abstract!svars)
  <1> USE DEF IInv, TypeOK, NoTornFile, PendingInv, TransactionInv, ProgressInv, RecoveryInv,
         Pending, Journals, Contents, Location, Preparing, Recovering, Writes, OwnJournal,
         Leaves, Fault, Store, Mode, Abstract!StoreNext, Abstract!svars, Abstract!Ends
  <1>1. ASSUME NEW p \in Pids, WithProjectLock(p) PROVE UNCHANGED Abstract!svars
    BY <1>1 DEF WithProjectLock
  <1>2. ASSUME NEW p \in Pids, WithLock(p) PROVE Abstract!Open
    BY <1>2 DEF WithLock, Abstract!Open
  <1>3. CASE ReadJournal
    BY <1>3 DEF ReadJournal, Abstract!Open
  <1>4. ASSUME NEW i \in Items, RollBack(i) PROVE UNCHANGED Abstract!svars
    BY <1>4 DEF RollBack
  <1>5. ASSUME NEW i \in Items, Replay(i) PROVE UNCHANGED Abstract!svars
    BY <1>5 DEF Replay
  <1>6. CASE RecoveryEnds
    BY <1>6 DEF RecoveryEnds, Abstract!Open
  <1>7. CASE RecoveryFails
    BY <1>7 DEF RecoveryFails, Abstract!Close
  <1>8. ASSUME NEW i \in Items, NEW v \in Contents, Save(i, v)
        PROVE  Abstract!Save(i, Store'[i]) /\ Store'[i] \in Contents
    <2>1. /\ pc \in {"handler", "bare"} /\ pc' \in {pc, "unlocked"}
          /\ item' = [item EXCEPT ![i] = v]
          /\ UNCHANGED <<temp, journal, txn, answer>>
      BY <1>8 DEF Save
    <2>2. Mode = "open" /\ Mode' \in {"open", "idle"}
      BY <2>1
    <2>3. Store'[i] \in Contents
      BY <2>1
    <2>4. Store' = [Store EXCEPT ![i] = Store'[i]]
      <3>1. \A j \in Items : j # i => Store'[j] = Store[j]
        BY <2>1
      <3> HIDE DEF Pending, IInv, TypeOK, NoTornFile, PendingInv, TransactionInv, ProgressInv,
               RecoveryInv
      <3> QED
        BY <3>1
    <2> HIDE DEF Store, Mode
    <2> QED
      BY <2>1, <2>2, <2>3, <2>4 DEF Abstract!Save
  <1>9. CASE Release
    BY <1>9 DEF Release, Abstract!Close
  <1>10. ASSUME NEW t \in Transactions, Begin(t) PROVE Abstract!Try(t)
    BY <1>10 DEF Begin, Abstract!Try
  <1>11. CASE WriteJournal
    BY <1>11 DEF WriteJournal
  <1>12. ASSUME NEW i \in Items, Stage(i) PROVE UNCHANGED Abstract!svars
    BY <1>12 DEF Stage
  <1>13. CASE CommitStarts
    BY <1>13 DEF CommitStarts, Abstract!Decide, Abstract!Effect
  <1>14. ASSUME NEW i \in Items, Commit(i) PROVE UNCHANGED Abstract!svars
    <2>1. UNCHANGED <<journal, pc, pid, txn, answer>>
      BY <1>14 DEF Commit
    <2>2. /\ journal = OwnJournal(TRUE) /\ txn \in Transactions
          /\ i \in left /\ i \in DOMAIN txn
      BY <1>14 DEF Commit
    <2>3. Pending /\ i \in DOMAIN journal.entries /\ journal.entries[i] = txn[i] /\ journal.pid = pid
      <3>1. journal.marked = TRUE /\ journal.entries = txn /\ journal.pid = pid
        BY <2>2
      <3>2. journal \in Journals
        BY <2>2
      <3> QED
        BY <2>2, <3>1, <3>2
    <2>4. Mode = "decided" /\ Mode' = "decided"
      BY <1>14, <2>1 DEF Commit
    <2>5. CASE txn[i] = NoFile
      <3>1. item' = [item EXCEPT ![i] = NoFile] /\ UNCHANGED temp
        BY <1>14, <2>5 DEF Commit
      <3>2. i \in DOMAIN journal.entries /\ journal.entries[i] = NoFile /\ Pending
        BY <2>5, <2>3
      <3>3. \A j \in Items : Store'[j] = Store[j]
        BY <2>1, <3>1, <3>2
      <3> QED
        BY <2>1, <2>4, <3>3
    <2>6. CASE txn[i] # NoFile
      <3>1. /\ item' = [item EXCEPT ![i] = txn[i]]
            /\ temp' = [temp EXCEPT ![i][pid] = NoFile]
            /\ temp[i][pid] = txn[i]
        BY <1>14, <2>6 DEF Commit
      <3>2. /\ i \in DOMAIN journal.entries /\ journal.entries[i] = txn[i]
            /\ journal.pid = pid /\ Pending
        BY <2>3
      <3>3. \A j \in Items : Store'[j] = Store[j]
        BY <2>1, <2>6, <3>1, <3>2
      <3> QED
        BY <2>1, <2>4, <3>3
    <2> QED
      BY <2>5, <2>6
  <1>15. CASE CommitEnds
    BY <1>15 DEF CommitEnds, Abstract!Answer
  <1>16. CASE CommitFails
    BY <1>16 DEF CommitFails, Abstract!Answer
  <1>17. CASE StageRefused
    BY <1>17 DEF StageRefused
  <1>18. CASE WriteFails
    <2>1. CASE ~Pending'
      BY <1>18, <2>1 DEF WriteFails, Abstract!Close
    <2>2. CASE Pending'
      <3>1. /\ pc = "staging" /\ left = {} /\ journal' = OwnJournal(TRUE)
            /\ UNCHANGED <<item, temp, pid, answer>>
        BY <1>18, <2>2 DEF WriteFails
      <3>2. txn \in Transactions /\ \A i \in Writes(txn) : temp[i][pid] = txn[i]
        BY <3>1
      <3>3. Store = item /\ Abstract!Effect
        BY <2>2, <3>1, <3>2 DEF Abstract!Effect
      <3>4. CASE pc' = "cleanup" /\ UNCHANGED txn
        BY <2>2, <3>1, <3>3, <3>4 DEF Abstract!Doubt, Abstract!Effect
      <3>5. CASE Leaves
        BY <3>1, <3>3, <3>5 DEF Abstract!DecideAndDie, Abstract!Effect
      <3> QED
        BY <1>18, <3>4, <3>5 DEF WriteFails
    <2> QED
      BY <2>1, <2>2
  <1>19. ASSUME NEW i \in Items, CleanUp(i)
         PROVE  Abstract!TakeBack(i) \/ UNCHANGED Abstract!svars
    <2>1. /\ pc = "cleanup" /\ i \in Writes(txn) /\ UNCHANGED <<item, journal, pc, pid, txn, answer>>
          /\ temp' \in {temp, [temp EXCEPT ![i][pid] = NoFile]}
      BY <1>19 DEF CleanUp
    <2>2. CASE ~Pending \/ UNCHANGED temp
      BY <2>1, <2>2
    <2>3. CASE Pending /\ temp' = [temp EXCEPT ![i][pid] = NoFile]
      <3>1. journal = OwnJournal(TRUE) /\ Mode = "wavering" /\ Mode' = "wavering"
        BY <2>1, <2>3
      <3>2. /\ i \in DOMAIN journal.entries /\ journal.entries[i] # NoFile
            /\ temp'[i][journal.pid] = NoFile
            /\ \A j \in Items : j # i => temp'[j] = temp[j]
        BY <2>1, <2>3, <3>1
      <3>3. Store'[i] = item[i] /\ \A j \in Items : j # i => Store'[j] = Store[j]
        BY <2>1, <3>2
      <3>4. Store' = [Store EXCEPT ![i] = item[i]]
        <4> HIDE DEF Pending, IInv, TypeOK, NoTornFile, PendingInv, TransactionInv, ProgressInv,
                 RecoveryInv
        <4> QED
          BY <3>3
      <3> QED
        BY <2>1, <3>1, <3>4 DEF Abstract!TakeBack
    <2> QED
      BY <2>1, <2>2, <2>3
  <1>20. CASE CleanupEnds
    BY <1>20 DEF CleanupEnds, Abstract!Answer
  <1>21. CASE Crash
    BY <1>21 DEF Crash, Abstract!Close
  <1>22. CASE UNCHANGED vars
    BY <1>22 DEF vars
  <1> HIDE DEF IInv, TypeOK, NoTornFile, PendingInv, TransactionInv, ProgressInv,
         RecoveryInv, Pending, Journals, Contents, Location, Preparing, Recovering, Writes,
         OwnJournal, Leaves, Fault, Store, Mode, Abstract!svars, Abstract!Ends
  <1> QED
    BY <1>1, <1>2, <1>3, <1>4, <1>5, <1>6, <1>7, <1>8, <1>9, <1>10, <1>11, <1>12, <1>13,
       <1>14, <1>15, <1>16, <1>17, <1>18, <1>19, <1>20, <1>21, <1>22 DEF Next, Goes

\* The saves are atomic: the files, overlaid with what a started commit has
\* still to do, change as AtomicStore says.
THEOREM Atomicity == Spec => SavesAreAtomic
<1>1. Init => Abstract!StoreInit
  BY InitRefines
<1>2. IInv /\ IInv' /\ [Next]_vars => [Abstract!StoreNext]_(Abstract!svars)
  BY StepRefines
<1> QED
  BY Inductive, <1>1, <1>2, PTL DEF Spec, SavesAreAtomic, Abstract!StoreSpec
============================================================================
