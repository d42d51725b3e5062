---------------------------- MODULE ProjectSave ----------------------------
(***************************************************************************)
(* How a project's files are saved (src/src/core/project-loader.ts).       *)
(*                                                                         *)
(* Every save happens under the project lock.  A single file is saved by   *)
(* renaming a private temporary file over it.  Several are saved by        *)
(* runTransactionUnlocked: a journal, .txn.json, lists them; each content  *)
(* is written to the file <target>.<process id>.tmp; the journal is        *)
(* rewritten with commitStarted = true; the temporary files are renamed    *)
(* one after the other; the journal is removed.  A process that dies, or a *)
(* step that fails, leaves a journal, and doRecoverTransaction completes   *)
(* or undoes it: before a load, and first thing under withProjectLock --   *)
(* but not under the bare withLock of writeTicket, deleteTicket and their  *)
(* like.                                                                   *)
(*                                                                         *)
(* The lock is held by one process at a time, and a dead holder's is taken *)
(* over: all locals are those of the one call that holds it, and the       *)
(* ownership test before each write never fails.  A transaction is a       *)
(* function from its targets to their contents (NoFile: a deletion); the   *)
(* order of its entries matters to nothing here, and is left open.         *)
(***************************************************************************)
EXTENDS Naturals

CONSTANTS
    Items,            \* the files of a project
    Values,           \* what a file may contain
    NoFile,           \* the file does not exist
    Torn,             \* what an interrupted write leaves of a file
    Pids,             \* process ids; a process's id may be reused after it
    Transactions,     \* the calls of runTransactionUnlocked to be considered
    MaxFaults         \* bound: crashes and failed file operations

Contents == Values \cup {NoFile}
Journals == [entries : Transactions, marked : BOOLEAN, pid : Pids]
Empty    == [i \in {} |-> NoFile]

ASSUME SaveAssumption ==
    /\ NoFile \notin Values /\ Torn \notin Values /\ NoFile # Torn
    /\ NoFile \notin Journals /\ Torn \notin Journals
    /\ \A t \in Transactions :
          DOMAIN t \subseteq Items /\ t \in [DOMAIN t -> Contents]
    /\ MaxFaults \in Nat

VARIABLES
    item,        \* the content of each file
    temp,        \* temp[i][p]: the content of the file <i>.<p>.tmp
    journal,     \* .txn.json, whose field marked is commitStarted
    pc,          \* where the holder of the lock is; "unlocked" if there is none
    pid,         \* its process id
    txn,         \* the transaction it runs
    left,        \* the entries it has still to deal with
    answer,      \* what the last transaction that ended told its caller
    faults       \* how many faults there were

vars == <<item, temp, journal, pc, pid, txn, left, answer, faults>>

Recovering == {"reading", "rollback", "replay"}
Preparing  == {"journaling", "staging"}
Location   == {"unlocked", "handler", "bare", "committing", "cleanup"}
              \cup Recovering \cup Preparing

TypeOK ==
    /\ item \in [Items -> Contents \cup {Torn}]
    /\ temp \in [Items -> [Pids -> Contents \cup {Torn}]]
    /\ journal \in Journals \cup {NoFile, Torn}
    /\ pc \in Location
    /\ pid \in Pids
    /\ txn \in Transactions \cup {Empty}
    /\ left \subseteq Items
    /\ answer \in {"none", "done", "failed", "pending"}
    /\ faults \in 0..MaxFaults

Init ==
    /\ item \in [Items -> Contents]
    /\ temp = [i \in Items |-> [p \in Pids |-> NoFile]]
    /\ journal = NoFile
    /\ pc = "unlocked"
    /\ pid \in Pids
    /\ txn = Empty
    /\ left = {}
    /\ answer = "none"
    /\ faults = 0

Writes(t) == {i \in DOMAIN t : t[i] # NoFile}
Pending   == journal \in Journals /\ journal.marked

Fault ==
    /\ faults < MaxFaults
    /\ faults' = faults + 1

\* The lock is released, and what the call knew is gone.
Leaves ==
    /\ pc' = "unlocked"
    /\ txn' = Empty
    /\ left' = {}

----------------------------------------------------------------------------
(* Taking the lock, and recovery.                                          *)

\* withProjectLock, or the recovery of loadProject, by a process with id p.
WithProjectLock(p) ==
    /\ pc = "unlocked"
    /\ pc' = "reading"
    /\ pid' = p
    /\ UNCHANGED <<item, temp, journal, txn, left, answer, faults>>

\* writeTicket, deleteTicket and their like.
WithLock(p) ==
    /\ pc = "unlocked"
    /\ pc' = "bare"
    /\ pid' = p
    /\ UNCHANGED <<item, temp, journal, txn, left, answer, faults>>

\* Mutant: the presence of a journal is probed with existsSync, which fails open.
ReadJournal_FailsOpen ==
    /\ pc = "reading"
    /\ pc' = "handler"
    /\ UNCHANGED <<item, temp, journal, pid, txn, left, answer, faults>>

\* A journal that does not parse is removed, with nothing done.
ReadJournal ==
    /\ pc = "reading"
    /\ \/ /\ journal \in {NoFile, Torn}
          /\ journal' = NoFile
          /\ pc' = "handler"
          /\ UNCHANGED left
       \/ /\ journal \in Journals /\ ~journal.marked
          /\ pc' = "rollback"
          /\ left' = Writes(journal.entries)
          /\ UNCHANGED journal
       \/ /\ Pending
          /\ pc' = "replay"
          /\ left' = DOMAIN journal.entries
          /\ UNCHANGED journal
    /\ UNCHANGED <<item, temp, pid, txn, answer, faults>>

RollBack(i) ==
    /\ pc = "rollback"
    /\ i \in left
    /\ left' = left \ {i}
    /\ temp' = [temp EXCEPT ![i][journal.pid] = NoFile]
    /\ UNCHANGED <<item, journal, pc, pid, txn, answer, faults>>

\* Mutant: an error of a probe is read as "already applied".
Replay_ErrorIsApplied(i) ==
    /\ pc = "replay"
    /\ i \in left
    /\ left' = left \ {i}
    /\ \/ /\ item' = [item EXCEPT ![i] = journal.entries[i]]
          /\ temp' = [temp EXCEPT ![i][journal.pid] = NoFile]
          /\ UNCHANGED faults
       \/ /\ Fault
          /\ UNCHANGED <<item, temp>>
    /\ UNCHANGED <<journal, pc, pid, txn, answer>>

\* The file system tells what was done: a write whose temporary file is gone
\* was applied; a deletion can be repeated.
Replay(i) ==
    /\ pc = "replay"
    /\ i \in left
    /\ left' = left \ {i}
    /\ \/ /\ journal.entries[i] = NoFile
          /\ item' = [item EXCEPT ![i] = NoFile]
          /\ UNCHANGED temp
       \/ /\ journal.entries[i] # NoFile
          /\ temp[i][journal.pid] # NoFile
          /\ item' = [item EXCEPT ![i] = temp[i][journal.pid]]
          /\ temp' = [temp EXCEPT ![i][journal.pid] = NoFile]
       \/ /\ journal.entries[i] # NoFile
          /\ temp[i][journal.pid] = NoFile
          /\ UNCHANGED <<item, temp>>
    /\ UNCHANGED <<journal, pc, pid, txn, answer, faults>>

\* Mutant: a journal that cannot be removed is taken for removed.
RecoveryEnds_IgnoresFailure ==
    /\ pc \in {"rollback", "replay"}
    /\ left = {}
    /\ \/ journal' = NoFile /\ UNCHANGED faults
       \/ Fault /\ UNCHANGED journal
    /\ pc' = "handler"
    /\ UNCHANGED <<item, temp, pid, txn, left, answer>>

RecoveryEnds ==
    /\ pc \in {"rollback", "replay"}
    /\ left = {}
    /\ journal' = NoFile
    /\ pc' = "handler"
    /\ UNCHANGED <<item, temp, pid, txn, left, answer, faults>>

\* Any failed operation ends the recovery, the journal being left for the next.
RecoveryFails ==
    /\ pc \in Recovering
    /\ Fault
    /\ Leaves
    /\ UNCHANGED <<item, temp, journal, pid, answer>>

----------------------------------------------------------------------------
(* Single saves.                                                           *)

\* atomicWrite, atomicCreate, and fencedUnlink of an existing file.  A bare
\* call saves one file and returns.
Save(i, v) ==
    /\ pc \in {"handler", "bare"}
    /\ v = NoFile => item[i] # NoFile
    /\ item' = [item EXCEPT ![i] = v]
    /\ pc' = IF pc = "bare" THEN "unlocked" ELSE pc
    /\ UNCHANGED <<temp, journal, pid, txn, left, answer, faults>>

\* The handler returns, or fails.
Release ==
    /\ pc \in {"handler", "bare"}
    /\ Leaves
    /\ UNCHANGED <<item, temp, journal, pid, answer, faults>>

----------------------------------------------------------------------------
(* runTransactionUnlocked.  It is the last thing its caller does under the *)
(* lock, so the lock is released as it returns.                            *)

Begin(t) ==
    /\ pc = "handler"
    /\ pc' = "journaling"
    /\ txn' = t
    /\ answer' = "none"
    /\ UNCHANGED <<item, temp, journal, pid, left, faults>>

WriteJournal ==
    /\ pc = "journaling"
    /\ journal' = [entries |-> txn, marked |-> FALSE, pid |-> pid]
    /\ left' = Writes(txn)
    /\ pc' = "staging"
    /\ UNCHANGED <<item, temp, pid, txn, answer, faults>>

\* The temporary file is created (O_EXCL) and written.
Stage(i) ==
    /\ pc = "staging"
    /\ i \in left
    /\ temp[i][pid] = NoFile
    /\ left' = left \ {i}
    /\ temp' = [temp EXCEPT ![i][pid] = txn[i]]
    /\ UNCHANGED <<item, journal, pc, pid, txn, answer, faults>>

CommitStarts ==
    /\ pc = "staging"
    /\ left = {}
    /\ journal' = [entries |-> txn, marked |-> TRUE, pid |-> pid]
    /\ left' = DOMAIN txn
    /\ pc' = "committing"
    /\ UNCHANGED <<item, temp, pid, txn, answer, faults>>

Commit(i) ==
    /\ pc = "committing"
    /\ i \in left
    /\ left' = left \ {i}
    /\ \/ /\ txn[i] = NoFile
          /\ item' = [item EXCEPT ![i] = NoFile]
          /\ UNCHANGED temp
       \/ /\ txn[i] # NoFile
          /\ temp[i][pid] # NoFile
          /\ item' = [item EXCEPT ![i] = temp[i][pid]]
          /\ temp' = [temp EXCEPT ![i][pid] = NoFile]
    /\ UNCHANGED <<journal, pc, pid, txn, answer, faults>>

CommitEnds ==
    /\ pc = "committing"
    /\ left = {}
    /\ journal' = NoFile
    /\ answer' = "done"
    /\ Leaves
    /\ UNCHANGED <<item, temp, pid, faults>>

\* TransactionRecoveryPendingError: the journal is left to a recovery.
CommitFails ==
    /\ pc = "committing"
    /\ Fault
    /\ answer' = "pending"
    /\ Leaves
    /\ UNCHANGED <<item, temp, journal, pid>>

\* A temporary file of this name is in the way.
StageRefused ==
    /\ pc = "staging"
    /\ \E i \in left : temp[i][pid] # NoFile
    /\ pc' = "cleanup"
    /\ left' = Writes(txn)
    /\ UNCHANGED <<item, temp, journal, pid, txn, answer, faults>>

\* fsyncWrite fails, or the process dies in it, with the file not opened,
\* truncated but not written, or written but not synced or not closed.  In the
\* last case the journal may say that the commit starts, and its writer does not
\* know.
WriteFails ==
    /\ \/ /\ pc = "journaling"
          /\ journal' \in {journal, Torn, [entries |-> txn, marked |-> FALSE, pid |-> pid]}
          /\ UNCHANGED temp
       \/ /\ pc = "staging"
          /\ \E i \in left :
                /\ temp[i][pid] = NoFile
                /\ \E f \in {NoFile, Torn, txn[i]} :
                      temp' = [temp EXCEPT ![i][pid] = f]
          /\ UNCHANGED journal
       \/ /\ pc = "staging"
          /\ left = {}
          /\ journal' \in {journal, Torn, [entries |-> txn, marked |-> TRUE, pid |-> pid]}
          /\ UNCHANGED temp
    /\ Fault
    /\ \/ pc' = "cleanup" /\ left' = Writes(txn) /\ UNCHANGED txn
       \/ Leaves
    /\ UNCHANGED <<item, pid, answer>>

\* The catch of a transaction that knows of no commit: it removes its
\* temporary files and the journal, and ignores that it may fail to.
CleanUp(i) ==
    /\ pc = "cleanup"
    /\ i \in left
    /\ left' = left \ {i}
    /\ \/ /\ temp' = [temp EXCEPT ![i][pid] = NoFile]
          /\ UNCHANGED faults
       \/ /\ Fault
          /\ UNCHANGED temp
    /\ UNCHANGED <<item, journal, pc, pid, txn, answer>>

CleanupEnds ==
    /\ pc = "cleanup"
    /\ left = {}
    /\ \/ /\ journal' = NoFile
          /\ UNCHANGED faults
       \/ /\ Fault
          /\ UNCHANGED journal
    /\ answer' = "failed"
    /\ Leaves
    /\ UNCHANGED <<item, temp, pid>>

\* The process dies; whoever wants the lock next takes it over.
Crash ==
    /\ pc # "unlocked"
    /\ Fault
    /\ Leaves
    /\ UNCHANGED <<item, temp, journal, pid, answer>>

----------------------------------------------------------------------------
Goes ==
    \/ ReadJournal \/ RecoveryEnds
    \/ WriteJournal \/ CommitStarts \/ CommitEnds \/ StageRefused \/ CleanupEnds
    \/ \E i \in Items : RollBack(i) \/ Replay(i) \/ Stage(i) \/ Commit(i) \/ CleanUp(i)

Next ==
    \/ Goes \/ Release
    \/ \E p \in Pids : WithProjectLock(p) \/ WithLock(p)
    \/ \E i \in Items, v \in Contents : Save(i, v)
    \/ \E t \in Transactions : Begin(t)
    \/ RecoveryFails \/ CommitFails \/ WriteFails \/ Crash

Spec == Init /\ [][Next]_vars

\* A call goes on and its handler returns; the project is loaded, or saved to
\* under withProjectLock, again and again.
Fairness ==
    /\ WF_vars(Goes)
    /\ SF_vars(Release)
    /\ SF_vars(\E p \in Pids : WithProjectLock(p))

FairSpec == Spec /\ Fairness

----------------------------------------------------------------------------
(* Properties.                                                             *)

\* What a load finds in the end: the files, with what a started commit has
\* still to do laid over them.
Store ==
    [i \in Items |->
        IF /\ Pending
           /\ i \in DOMAIN journal.entries
           /\ journal.entries[i] = NoFile \/ temp[i][journal.pid] # NoFile
        THEN journal.entries[i]
        ELSE item[i]]

Mode ==
    CASE pc \in Recovering \cup {"unlocked"}  -> "idle"
      [] pc \in {"handler", "bare"}           -> "open"
      [] pc \in Preparing                     -> "deciding"
      [] pc = "cleanup"                       -> IF Pending THEN "wavering" ELSE "deciding"
      [] pc = "committing"                    -> "decided"

Abstract == INSTANCE AtomicStore
    WITH store <- Store, mode <- Mode, doing <- txn,
         before <- IF Mode = "wavering" THEN item ELSE Empty

\* A transaction takes effect in the instant its journal is marked, whole, and
\* the answer tells whether it did; before and after, no crash, no failed
\* operation, no leftover of another process with the same id, no cleanup and
\* no recovery, complete or interrupted, changes what a load finds in the end
\* (runTransactionUnlocked with doRecoverTransaction).  The exception is the
\* call whose mark was written and whose fsyncWrite failed all the same: it
\* cleans up after a transaction that has taken effect.
SavesAreAtomic == Abstract!StoreSpec

\* A file never gets the content of an interrupted write, though temporary
\* files of dead processes linger under names that are used again
\* (fsyncWrite, and the renames of a commit and of a replay).
NoTornFile == \A i \in Items : item[i] # Torn

\* Under withProjectLock a handler sees the project whole: recovery has left
\* neither a journal nor an entry of one undone.
HandlerSeesWhole == pc = "handler" => journal = NoFile /\ Store = item

\* What the comment at project-loader.ts:1102 claims of a transaction whose
\* caller is told that it failed, and not that its recovery is pending ("A
\* pre-commit failure wrote nothing and a retry is correct"): it has left nothing
\* that a later recovery would carry out.
FailedIsVoid == answer = "failed" => ~Pending

\* Everyone who holds the lock and may save has completed the interrupted
\* commit of a predecessor.
RecoveredBeforeSaving == pc \in {"handler", "bare"} => ~Pending

\* An interrupted commit is completed, by whoever comes next, even if the first
\* recoveries fail.
PendingCompletes == Pending ~> ~Pending
=============================================================================
