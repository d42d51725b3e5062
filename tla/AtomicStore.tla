---------------------------- MODULE AtomicStore ----------------------------
(***************************************************************************)
(* What the saves of a project promise, and ProjectSave implements.  Calls *)
(* take turns.  One saves items singly, or tries to save several in one    *)
(* transaction, which takes effect in one instant with all its contents or *)
(* never; the answer says which.  Nothing else changes the store: neither  *)
(* a crash nor a recovery.                                                 *)
(*                                                                         *)
(* There is one exception.  A call may be told that its decision failed    *)
(* when it did not.  Such a call wavers: it takes items back one by one,   *)
(* and answers that it failed; if it, too, fails or dies, what it has not  *)
(* taken back stays.                                                       *)
(***************************************************************************)
CONSTANTS Items, Contents, Transactions, Empty

VARIABLES
    store,       \* what the project contains: a content for each item
    mode,        \* of the call whose turn it is; "idle" when it is nobody's
    doing,       \* the transaction it tries
    answer,      \* what the last transaction that ended answered
    before       \* of a wavering call: the store that it wants back

svars == <<store, mode, doing, answer, before>>

StoreInit ==
    /\ store \in [Items -> Contents]
    /\ mode = "idle" /\ doing = Empty /\ answer = "none" /\ before = Empty

Open ==
    /\ mode = "idle"
    /\ mode' = "open"
    /\ UNCHANGED <<store, doing, answer, before>>

Save(i, v) ==
    /\ mode = "open"
    /\ store' = [store EXCEPT ![i] = v]
    /\ mode' \in {"open", "idle"}
    /\ UNCHANGED <<doing, answer, before>>

Try(t) ==
    /\ mode = "open"
    /\ mode' = "deciding"
    /\ doing' = t
    /\ answer' = "none"
    /\ UNCHANGED <<store, before>>

Effect == store' = [i \in Items |-> IF i \in DOMAIN doing THEN doing[i] ELSE store[i]]

Ends == mode' = "idle" /\ doing' = Empty /\ before' = Empty

Decide ==
    /\ mode = "deciding"
    /\ Effect
    /\ mode' = "decided"
    /\ UNCHANGED <<doing, answer, before>>

\* The call dies as it decides.
DecideAndDie ==
    /\ mode = "deciding"
    /\ Effect
    /\ Ends
    /\ UNCHANGED answer

\* The call decides, and is told that it has not.
Doubt ==
    /\ mode = "deciding"
    /\ Effect
    /\ mode' = "wavering"
    /\ before' = store
    /\ UNCHANGED <<doing, answer>>

TakeBack(i) ==
    /\ mode = "wavering"
    /\ store' = [store EXCEPT ![i] = before[i]]
    /\ UNCHANGED <<mode, doing, answer, before>>

\* "pending": it took effect, but the program has not finished with it.
Answer(a) ==
    /\ \/ mode = "deciding" /\ a = "failed" /\ UNCHANGED store
       \/ mode = "wavering" /\ a = "failed" /\ store' \in {store, before}
       \/ mode = "decided" /\ a \in {"done", "pending"} /\ UNCHANGED store
    /\ answer' = a
    /\ Ends

\* The call returns without a transaction, or dies.
Close ==
    /\ Ends
    /\ UNCHANGED <<store, answer>>

StoreNext ==
    \/ Open \/ Decide \/ DecideAndDie \/ Doubt \/ Close
    \/ \E i \in Items : TakeBack(i) \/ \E v \in Contents : Save(i, v)
    \/ \E t \in Transactions : Try(t)
    \/ \E a \in {"done", "pending", "failed"} : Answer(a)

StoreSpec == StoreInit /\ [][StoreNext]_svars
============================================================================
