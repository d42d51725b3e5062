------------------------------ MODULE BusWaiter ------------------------------
(***************************************************************************)
(* Waiting for mail: `bus poll --wait` (src/src/bus/wait.ts), on top of    *)
(* the mailboxes of BusMailbox.                                            *)
(*                                                                         *)
(* The agent of an endpoint starts a process that polls once, and then     *)
(* again whenever the mailbox's directory changes or, each second, a scan  *)
(* of it finds a pointer; it ends with the first messages, an error, a     *)
(* signal, or the deadline, after which it polls one last time.  Requests  *)
(* for checks that come while one runs are coalesced into one more.  The   *)
(* event loop runs a callback to its end: a step is what happens between   *)
(* two awaits.  One process waits per endpoint (acquireWaiter, which takes *)
(* over from a dead one).  The agents of Reading wait, and do not poll      *)
(* besides; thread updates, prompts and lost counters stay with BusMailbox. *)
(***************************************************************************)
EXTENDS BusMailbox

VARIABLE wait        \* wait[e]: the process that waits for e

busWaitVars == <<vars, wait>>

Wait == [at       : {"off", "blocked", "late", "last"},
         worker   : {"none", "scan", "scan2", "poll", "polling"},
         pending  : BOOLEAN,            \* one more check is requested,
         surely   : BOOLEAN,            \* an authoritative one
         outcome  : {"none", "message", "timeout", "error", "signal"},
         messages : SUBSET Id,          \* what it will print
         findings : BOOLEAN,            \* the poll it makes found something odd
         due      : SUBSET Id]          \* history: the mail there was at the deadline

Off == [at |-> "off", worker |-> "none", pending |-> FALSE, surely |-> FALSE, outcome |-> "none",
        messages |-> {}, findings |-> FALSE, due |-> {}]

Polls(e) == wait[e].worker = "polling"

\* What a process waits for agrees with the locks: its poll holds its endpoint's,
\* and no request is left behind when its worker is done.
WaitTypeOK ==
    /\ TypeOK
    /\ wait \in [Endpoint -> Wait]
    /\ \A e \in Reading : /\ Polls(e) <=> at[e] \in Polling
                         /\ wait[e].pending => wait[e].worker # "none"

WaitInit == Init /\ wait = [e \in Endpoint |-> Off]

SetWait(e, w) == wait' = [wait EXCEPT ![e] = w]

\* A reconciliation of e that is not part of the waiter's poll: a setup's.
OthersReconcile(e) == ReconcileStep(e) /\ (~Polls(e) \/ rec[e].by = "setup")

\* The mail for e there is: committed, and neither acknowledged nor resolved.
Mail(e) == {EntryAt(q).id : q \in {r \in Places :
               /\ EntryAt(r).type = "message" /\ EntryAt(r).to \in Addressees(e)
               /\ ~Terminal(r[1], EntryAt(r).id)}}

----------------------------------------------------------------------------
(* Requests, and the worker that serves them one at a time.                *)

\* Mutant: requests are still taken after the deadline.
Accepting_Late(w) == w.at # "off" /\ w.outcome = "none"

Accepting(w) == w.at = "blocked" /\ w.outcome = "none"

Check(surely) == IF surely THEN "poll" ELSE "scan"

\* requestCheck.
Requested(w, surely) ==
    IF w.worker = "none" THEN [w EXCEPT !.worker = Check(surely)]
    ELSE [w EXCEPT !.pending = TRUE, !.surely = @ \/ surely]

\* drainLoop after a check that settled nothing.
Unsettled(w) ==
    [w EXCEPT !.pending = FALSE, !.surely = FALSE, !.findings = FALSE,
              !.worker = IF w.pending /\ w.outcome = "none" THEN Check(w.surely) ELSE "none"]

\* setOutcome by the worker: the first outcome stands.
Concluded(w, outcome, messages) ==
    [w EXCEPT !.worker = "none", !.pending = FALSE, !.surely = FALSE, !.findings = FALSE,
              !.outcome = IF w.outcome = "none" THEN outcome ELSE @,
              !.messages = IF w.outcome = "none" THEN messages ELSE @]

----------------------------------------------------------------------------
(* The coordinator.                                                        *)

\* The slot is acquired, the deadline armed, the startup check requested.
StartWait(e) ==
    /\ e \in Reading /\ Active(e) /\ wait[e] = Off
    /\ SetWait(e, Requested([Off EXCEPT !.at = "blocked"], TRUE))
    /\ UNCHANGED vars

\* Something changed in the directory, or seemed to.
WatchEvent(e) ==
    /\ Accepting(wait[e])
    /\ SetWait(e, Requested(wait[e], TRUE))
    /\ UNCHANGED vars

Tick(e) ==
    /\ Accepting(wait[e])
    /\ SetWait(e, Requested(wait[e], FALSE))
    /\ UNCHANGED vars

\* SIGINT or SIGTERM; each counts as a failure, so that an agent is not
\* interrupted for ever.
Signal(e) ==
    /\ wait[e].at # "off" /\ wait[e].outcome = "none" /\ Fail
    /\ SetWait(e, [wait[e] EXCEPT !.outcome = "signal"])
    /\ UNCHANGED <<log, box, receipt, ep, joining, at, send, walk, rec, hook, nextId, seen, told>>

\* onDeadline, up to its first await.
Deadline(e) ==
    /\ wait[e].at = "blocked" /\ wait[e].outcome = "none"
    /\ SetWait(e, [wait[e] EXCEPT !.at = "late", !.due = Mail(e)])
    /\ UNCHANGED vars

\* Mutant: what was in flight at the deadline is taken for the final poll.
FinalPoll_InFlight(e) ==
    /\ wait[e].at = "late" /\ wait[e].outcome = "none" /\ wait[e].worker = "none"
    /\ SetWait(e, [wait[e] EXCEPT !.at = "last"])
    /\ UNCHANGED vars

\* The worker is drained: the final poll.
FinalPoll(e) ==
    /\ wait[e].at = "late" /\ wait[e].outcome = "none" /\ wait[e].worker = "none"
    /\ SetWait(e, Requested([wait[e] EXCEPT !.at = "last"], TRUE))
    /\ UNCHANGED vars

TimesOut(e) ==
    /\ wait[e].at = "last" /\ wait[e].outcome = "none" /\ wait[e].worker = "none"
    /\ SetWait(e, [wait[e] EXCEPT !.outcome = "timeout"])
    /\ UNCHANGED vars

\* The outcome is there and the worker drained: the answer is printed.
EndWait(e) ==
    /\ wait[e].outcome # "none" /\ wait[e].worker = "none"
    /\ seen' = seen \cup wait[e].messages
    /\ SetWait(e, Off)
    /\ UNCHANGED <<log, box, receipt, ep, joining, at, send, walk, rec, hook, nextId, faults, told>>

----------------------------------------------------------------------------
(* The worker.                                                             *)

\* Mutant: only the active directory is scanned.
Scan_ActiveOnly(e) ==
    /\ wait[e].worker = "scan"
    /\ SetWait(e, IF box[e].active # {} THEN [wait[e] EXCEPT !.worker = "poll"]
                  ELSE Unsettled(wait[e]))
    /\ UNCHANGED vars

\* mailboxHasPointerCandidate, a directory at a time; a candidate is polled for.
Scan(e) ==
    /\ \/ /\ wait[e].worker = "scan"
          /\ SetWait(e, [wait[e] EXCEPT !.worker = IF box[e].active # {} THEN "poll" ELSE "scan2"])
       \/ /\ wait[e].worker = "scan2"
          /\ SetWait(e, IF box[e].pending # {} THEN [wait[e] EXCEPT !.worker = "poll"]
                        ELSE Unsettled(wait[e]))
    /\ UNCHANGED vars

BeginPoll(e) ==
    /\ wait[e].worker = "poll"
    /\ StartPoll(e)
    /\ SetWait(e, [wait[e] EXCEPT !.worker = "polling"])

\* The endpoint was retired; or, a failure, a lock stays taken for five seconds.
PollRefused(e) ==
    /\ wait[e].worker = "poll"
    /\ \/ ~Active(e) /\ UNCHANGED faults
       \/ (at[e] # "idle" \/ ReconcileLocked(e)) /\ Fail
    /\ SetWait(e, Concluded(wait[e], "error", {}))
    /\ UNCHANGED <<log, box, receipt, ep, joining, at, send, walk, rec, hook, nextId, seen, told>>

\* A pending pointer that could not be recovered; one that points to nothing.
Finds(e) ==
    \/ at[e] = "reconcile" /\ rec[e].at = "intent" /\ First(rec[e].todo) \in box'[e].pending
    \/ at[e] = "walk" /\ ~WalkOver(e) /\ ~MatchesCanonical(First(walk[e].left), Addressees(e))

PollGoesOn(e) ==
    /\ Polls(e)
    /\ (rec[e].by = "poll" /\ ReconcileStep(e)) \/ WalkPointer(e) \/ PersistCursor(e)
    /\ SetWait(e, [wait[e] EXCEPT !.findings = @ \/ Finds(e)])

\* The poll's answer goes to the worker, not yet to the agent.
PollAnswers(e) ==
    /\ Polls(e) /\ at[e] = "answer"
    /\ SetWait(e, IF walk[e].shown # {} THEN Concluded(wait[e], "message", walk[e].shown)
                  ELSE IF wait[e].findings THEN Concluded(wait[e], "error", {})
                  ELSE Unsettled(wait[e]))
    /\ walk' = [walk EXCEPT ![e] = NoWalk]
    /\ Return(e)
    /\ UNCHANGED <<log, box, receipt, ep, joining, rec, hook, nextId, faults, seen, told>>

\* The poll throws, or the process dies in it.
PollFails(e) ==
    /\ Polls(e)
    /\ CallFails(e)
    /\ SetWait(e, Concluded(wait[e], "error", {})) \/ SetWait(e, Off)

\* The process dies while it waits.
WaiterDies(e) ==
    /\ wait[e].at # "off" /\ ~Polls(e) /\ Fail
    /\ SetWait(e, Off)
    /\ UNCHANGED <<log, box, receipt, ep, joining, at, send, walk, rec, hook, nextId, seen, told>>

----------------------------------------------------------------------------
\* What the process does next.
WaiterGoes(e) == \/ FinalPoll(e) \/ TimesOut(e) \/ EndWait(e) \/ Scan(e)
                 \/ PollGoesOn(e) \/ PollAnswers(e)

\* What goes on besides.
Others(e) ==
    /\ \/ SendBusMessage(e) \/ SendStep(e) \/ MaterializeSuccessorMailbox(e)
       \/ AcknowledgeBusMessage(e) \/ AckClean(e) \/ OthersReconcile(e) \/ SetupFails(e)
       \/ ~Polls(e) /\ CallFails(e)
    /\ UNCHANGED wait

Succession ==
    /\ (\E new, old \in Endpoint : RetireIncumbent(new, old)) \/ CreateSuccessor \/ JoinFails
    /\ UNCHANGED wait

WaitNext ==
    \/ \E e \in Endpoint :
          \/ StartWait(e) \/ WatchEvent(e) \/ Tick(e) \/ Signal(e) \/ Deadline(e)
          \/ WaiterGoes(e) \/ BeginPoll(e) \/ PollRefused(e) \/ PollFails(e) \/ WaiterDies(e)
          \/ Others(e)
    \/ Succession

\* As in BusMailbox; besides, a process that waits goes on, its interval ticks,
\* it gets its endpoint's lock now and then, and its agent waits again.  No event
\* need arrive, and no deadline or signal need come.
WaitFairness ==
    /\ \A e \in Endpoint : /\ WF_busWaitVars(SendStep(e) /\ UNCHANGED wait)
                          /\ WF_busWaitVars(OthersReconcile(e) /\ UNCHANGED wait)
    /\ \A e \in Reading : /\ WF_busWaitVars(AckClean(e) /\ UNCHANGED wait)
                         /\ SF_busWaitVars(AcknowledgeBusMessage(e) /\ UNCHANGED wait)
    /\ \A e \in Reading : /\ WF_busWaitVars(WaiterGoes(e)) /\ WF_busWaitVars(Tick(e))
                         /\ WF_busWaitVars(StartWait(e)) /\ SF_busWaitVars(BeginPoll(e))
    /\ WF_busWaitVars(CreateSuccessor /\ UNCHANGED wait)

WaitSpec == WaitInit /\ [][WaitNext]_busWaitVars /\ WaitFairness

----------------------------------------------------------------------------
(* Properties *)

\* "On timeout it runs one final check" (skill/bus-mode.md): who is told that
\* nothing came in time left no mail behind that was there at the deadline,
\* wherever its sender and its pointer were then.
TimeoutIsHonest ==
    \A e \in Reading : wait[e].outcome = "timeout" => wait[e].due \cap Mail(e) = {}

\* A wait sees the mail its mailbox points to without an event and long before
\* its deadline, whatever a running check missed.
NoMailWaits ==
    \A e \in Reading : []<>~(/\ Accepting(wait[e]) /\ Active(e)
                            /\ \E p \in box[e].active \cup box[e].pending :
                                  MatchesCanonical(p, Addressees(e)) /\ ~Terminal(p.thread, p.id))

\* A committed message reaches an agent that only ever waits, though answers are
\* lost to signals and to deaths after the cursor was moved: by its deadline at
\* the latest, since an heir's mail may lie in a mailbox nobody watches.
DeadlinesCome == \A e \in Reading : WF_busWaitVars(Deadline(e))
MailIsShown == DeadlinesCome => CommittedIsShown

\* A wait that is past its deadline, or has its outcome, ends, and so does every
\* call: nothing keeps a worker busy for ever, and the order in which endpoint,
\* reconcile, thread and mailbox locks are taken leaves nobody waiting.
WaitsEnd ==
    /\ \A e \in Reading : []<>(wait[e].at \in {"off", "blocked"} /\ wait[e].outcome = "none")
    /\ CallsEnd
=============================================================================
