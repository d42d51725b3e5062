# Storybloq: specifications, model checking and proofs

Storybloq keeps a project's working memory in `.story/` (tickets, issues, notes, handovers, rulings)
and serves it to coding agents through a command line, an MCP server and client hooks. It also runs
an autonomous mode, in which an agent works through tickets under the guidance of a state machine,
and a **message bus**, by which two agents that work on one checkout talk to each other. The source
is TypeScript under `src/src`; everything it keeps is a file, and every operation is a short process
(a CLI call, an MCP request, a hook) that reads files, decides, and writes files. There is no server:
concurrency is concurrency of processes on one directory, and a crash is a process that stops
between two writes.

## 1. Inventory

| Component | Source | State | Operations |
|---|---|---|---|
| bus lock | `bus/lock.ts` | a lock file, its reaper guard, temporary files | acquire (waiting), try, release, reclaim from a dead holder |
| bus delivery | `bus/store.ts`, `bus/idempotency.ts` | threads of entries, mailboxes of pointers with a counter, receipts | send, reply, retry, poll, acknowledge, park, resolve, reopen, reconcile, sweep |
| bus threads | `bus/fold.ts`, `bus/refused.ts` | hash-chained entries, refused artifacts, derived files | fold, quarantine, derive |
| bus endpoints | `bus/endpoints.ts` | one record per endpoint, succession records | join, replace, refresh, leave, retire, mint and consume a succession |
| bus auto-attach | `bus/auto-attach*.ts` | outcome files | decide, spawn, join |
| bus hooks | `cli/commands/hook-status.ts`, `session-compact.ts` | the prompt high-waters of an endpoint | claim at turn end, claim at a tool call, carry a seat across a compaction |
| bus waiter | `bus/wait.ts` | a waiter marker, watchers, timers | wait for mail, take over a dead waiter |
| bus wake | `bus/wake.ts`, `wake-runner.ts`, `codex-app-server.ts` | wake entries of threads, a detached runner | request, observe, time out |
| bus administration | `bus/admin.ts`, `legacy-v1.ts` | the whole runtime directory | enable, reset, migrate |
| project saves | `core/project-loader.ts` | the project's files, the journal `.txn.json`, temporary files | save or delete one file, run a transaction over several, recover one |
| project lock | `core/project-lock.ts` | lock file, steal lock | acquire, steal from a dead holder, verify, release |
| usage limits | `core/limit-ledger.ts`, `autonomous/waker.ts`, `wake-claim.ts`, `cli/commands/session-compact.ts` | one record per stopped task, the session's state, the wake claim, wake children | file a stop, supervise, reconcile, claim and spawn, take over, cancel, requeue |
| channel inbox | `channel/inbox-watcher.ts` | event files in three places, retry counters | recover, drain, claim, send, retry, quarantine, trim |
| autonomous guide | `autonomous/guide.ts`, `session.ts`, `stages/` | sessions with leases and stages | start, report, resume, pick, finish |
| cancellation | `autonomous/cancellation-*.ts` | transition records | cancel, recover |
| claims, identifiers | `core/claims.ts`, `id-allocation.ts` | claims, reserved identifiers | claim, allocate, reconcile |
| merge driver | `core/merge-driver.ts`, `reconcile.ts` | ledger items | three-way merge |
| presence | `presence/*.ts` | heartbeat records | touch, list |
| federation | `federation/*.ts` | read-only caches | scan, resolve |
| CLI, MCP, formatting | `cli/`, `mcp/`, `core/output-formatter.ts` | none of their own | parse, call, print |

**Interactions.** Every write of the bus happens inside a call of `withHardenedLock`. A send runs
under its endpoint's lock, takes `threads.lock` or its thread's lock, and under it the lock of the
recipient's mailbox for an instant; it writes a receipt, a pending pointer in the *recipient's*
mailbox, an entry in the thread, renames the pointer, and rewrites the receipt. A poll runs under its
own endpoint's lock, takes its mailbox's reconcile lock, and under it the locks of threads; it mends
what dead senders left, gives every unacknowledged message a pointer, and removes those of the
endpoints it replaced. Acknowledgments append to a thread and drop a pointer. A waiter polls again and
again. The Stop hook reads the mailbox and the endpoint's record. A join lists the endpoints under
`endpoints.lock` and then replaces one under that endpoint's own lock; hooks of the same session bind
processes and carry seats over at the same time. The limit ledger is written by handlers, by the
waker, by hooks and by commands, each of which also writes the session or signals a process outside
the ledger's lock. The servers of two clients drain one inbox.

**What is hard**: a process may die between any two writes; locks are files whose holder may be dead;
locks are released by path; a number is allocated long before the pointer that carries it appears;
a directory pair is listed in two reads; a hook reads and claims in two lock holds; retries repeat
calls whose outcome nobody knows; replacements happen in two writes; a kill takes seconds and what it
was for may be over when it ends; a recovery cannot tell a dead owner's file from a living one's.

**What makes each component correct**:

* locks: mutual exclusion among live holders; nothing is unlinked but what was compared; a call
  that ended leaves a file behind only if the removal of that file failed; acquisitions end; dead holders are reclaimed.
* bus delivery: a key takes effect once; a final receipt is true; an unacknowledged message always has
  a pointer somebody will read; pointers are real, numbers unique; committed messages are shown.
* bus threads: entry numbers are contiguous, the hop cap holds, a chain is never broken by concurrency.
* bus endpoints: two seats, each inherited once; nobody is replaced whose process runs; a compaction
  keeps the seat.
* waiter: no lost wake-up, an honest timeout, every wait ends.
* project saves: a transaction takes effect whole or not at all, across crashes and failures, and its
  answer is true (but for one failure, section 3); an interrupted one is completed.
* usage limits: at most one child that could resume the session; a child is always in somebody's
  sight; cancelled means cancelled; a parked session is resolved.
* channel inbox: an event is sent or set aside for a reason, and repeated only where a server starts.

## 2. Modules

| Module | Models | Grain |
|---|---|---|
| `HardenedLock` | `bus/lock.ts` | a step per file-system operation |
| `ProjectLock` | `core/project-lock.ts` | a step per file-system operation |
| `LockService` | the abstract lock that both implement | one action per promise |
| `HardenedLockProofs`, `ProjectLockProofs` | theorems about the two locks | proofs |
| `BusMailbox` | delivery on the bus: `store.ts`, `idempotency.ts`, parts of `endpoints.ts`, `fold.ts`, `hook-status.ts` | a step per file written |
| `BusService` | what the bus promises to agents, implemented by `BusMailbox` | one action per promise |
| `BusMailboxProofs`, `BusPointersProofs` | theorems about `BusMailbox`: keys, receipts, entry numbers, hops; then pointers and their numbers, and the timeouts of `BusWaiter` | proofs |
| `BusWaiter` | `bus/wait.ts`, composed with `BusMailbox` (EXTENDS) | a step between two awaits |
| `BusEndpoints` | `bus/endpoints.ts`, `auto-attach.ts`, the bus part of the compaction hooks | a step per record written |
| `BusRegistry` | what the registry promises, implemented by `BusEndpoints` | one action per promise |
| `BusEndpointsProofs` | theorems about `BusEndpoints` | proofs |
| `ProjectSave` | saves, transactions and recovery: `core/project-loader.ts` | a step per file-system operation |
| `AtomicStore` | what saves promise, implemented by `ProjectSave` | one action per promise |
| `ProjectSaveProofs` | theorems about `ProjectSave` | proofs |
| `LimitResume` | `limit-ledger.ts`, `waker.ts`, `wake-claim.ts`, the handlers of `session-compact.ts` | a step per ledger transaction, session write or signal |
| `LimitResumeProofs` | theorems about `LimitResume` | proofs |
| `ChannelInbox` | `channel/inbox-watcher.ts` | a step per file-system operation or send |
| `ChannelInboxProofs` | theorems about `ChannelInbox` | proofs |
| `MC*` | the instances TLC checks | constants, constraints |

### HardenedLock and LockService

State: `lock` and `guard` are the files at the lock's path and at its reaper guard's (named by the
task that created them: a task has one staged file, whose inode and token identify it), `proc` the
processes and their ids, `pc` and `call` each caller's place and locals. Actions follow
`attemptHardenedAcquire`: `Link` (EEXIST or not), `Acquired` (the steps after it), `Read` (the
verdict of `inspectProcessIdentity`), `LinkGuard`, `Reread`, then the two halves of `compareAndUnlink`
(`Compare`, `Unlink`), and the same halves for the guard and for a release. Any of these may fail where a failure
can leave something behind or change what the call does next: `AttemptFails` before anything is linked, `PublishFails`,
`GuardFails` and `RereadFails` after a link, whose cleanup is the very release of the lock or the guard, and
`ReclaimFails`, `UnguardFails` and `ReleaseFails`, the failures inside `compareAndUnlink`, which it swallows: it answers
false, and no caller looks. `MaxFaults` bounds how many (`faults`); `leaked`, which is history, has what a failed removal
left behind. The environment crashes
processes, reuses their ids and lets deadlines pass. A process signature is taken to be constant for
a process's life and different from those of other processes; it may be unavailable, when it is written
or when it is compared.

### ProjectLock

The write lock of `.story/`. State: `lock` is a task's file, a directory of a release before 1.9.0, or
nothing; `steal` is the directory `.lock-steal`, which names nobody; `old` is the old release; `pc` and
`call` each caller's place and locals. `Link`, `InspectHolder` (the verdict on the owner, which may be
late: the code caches identities), `Classify` for directories, then a steal: `mkdir`, `Recheck` under the
steal lock, `unlink` or the removal of the directory, the stealer's own link, `rmdir`. Any of these may
fail; processes die and their ids are reused. It implements `LockService`, the same as the bus lock does.

Abstractions: the fence (`verifyProjectLockOwnership`) only reads, so `HolderKeepsLock` states what it
relies on; the residual windows that the code's own comments name as accepted (an unlink or an old
release's refresh between a check and the operation right after it, outside the protocol) are
excluded; a directory with something in it is waited for like a fresh one; `AbandonedIsReclaimed`
excuses a stealer that died inside the steal (`Interrupted`), since the code prefers a hang.

### BusMailbox

State and code:

| Variable | Files |
|---|---|
| `log` | `threads/<id>/entries/*.json` |
| `box` | `mailboxes/<endpoint>/` (`active`), its `pending/`, `counter.json` (`next`) |
| `receipt` | `idempotency/<endpoint>/<key>.json` |
| `ep` | `endpoints/<id>.json`: status, predecessor, `lastPolledMailboxSeq`, `lastBlockedMailboxSeq` |
| `joining` | a replacement between its two writes |
| `at`, `send`, `walk` | locals of the call that holds an endpoint's lock |
| `rec` | locals of the reconciliation that holds a mailbox's reconcile lock |
| `hook` | what the Stop hook has read and not yet claimed |
| `seen`, `told` | history only: messages shown by a poll, announced by the hook |

Each write of a file is an action, and so is each read on which a later step depends: a listing is two
(`ListActive`, `ListPending`), since `mailboxPointers` reads two directories and excludes no sender.
Locks are guards (`ThreadLocked`, `ThreadsLocked`, `ReconcileLocked`, `at[e] # "idle"`); that they are
locks is what `HardenedLock` shows. A wait for a lock may time out (`LockTimesOut`, and in
`RecoverPendingIntent`, where the code records a finding and goes on). `CallFails`, `SetupFails` and
`JoinFails` stop a call anywhere, as a killed process or a failed write does. `normalizeSend`'s payload
hash is the record `Hash`: content, recipient and thread.

Abstractions: a listing made by an acknowledgment or a hook is one step; the sweep folds a thread when
it looks at a pointer rather than once per run; only the first acknowledgment of a message is
modelled (deferred to accepted changes nothing here); only the Stop channel of the hooks (the tool
channel has the same shape with its own high-water); agents acknowledge what they were shown; replays
of final receipts change nothing and are left out; files are never corrupt and never edited by hand,
except that a counter may vanish (`LoseCounter`, a case the allocator is written for). A replacement is
two writes and no more: who may replace whom is `BusEndpoints`' matter. `Addressees` is the least set that has the
endpoint and, with an endpoint, its predecessor, which is what the loop of `endpointAddressees` collects.

A fact that TLC found and no run shows: `SeqIsUnique` needs the counters. If a counter file disappears after a
sender was allocated a number and before it has written the intent, and the successor's reconciliation allocates in
between, both get the same number. The comment at `store.ts:375` promises less, that the sequence does not fall below
what the recipient has seen, and that holds. `bus_delivery` loses a counter only where nobody is replaced; the
theorem about `SeqIsUnique` is for counters that are kept.

### BusWaiter

`bus poll --wait` on top of `BusMailbox`: `wait[e]` is the process that waits for `e`, with its worker, the
coalesced request (`pending`, `surely`), the outcome that stands, and what it will print. `StartWait`,
`WatchEvent`, `Tick` (the one-second scan), `Signal`, `Deadline`, `FinalPoll`, `TimesOut` and `EndWait` are the
coordinator's callbacks, `Scan`, `BeginPoll`, `PollGoesOn`, `PollAnswers`, `PollFails` and `Finds` the worker's; a
poll is `BusMailbox`' poll, step by step. The event loop runs a callback to its end, so a step is what
happens between two awaits.

What the model shows besides the properties: an heir's inherited mail lies in its predecessor's mailbox,
which no watcher and no scan looks at, so it is seen at the first or at the deadline's poll; a poll that
meets a living peer's uncommitted intent, or cannot get a thread's lock in time, records a finding, and
`--wait` then exits with an integrity error though nothing is damaged; a signal between the cursor's write
and the printed answer takes the messages below both hook gates unread, and the next poll shows them.
Endless signals would hide mail for ever; they count as failures, of which there are finitely many. A scan
lists each directory in one read; the refusals of `acquireWaiter` when it cannot tell whether the marker's
process lives are left out.

### BusEndpoints and BusRegistry

| Variable | Files |
|---|---|
| `ep` | `endpoints/<id>.json`: status, owner (a session), process, predecessor |
| `box` | the mailbox directories |
| `lin` | the succession records of a lineage |
| `outer`, `inner` | `endpoints.lock`, `endpoint-<id>.lock` |
| `call` | calls of the registry, with their locals |
| `client` | each conversation's session, process and pending hooks |
| `promise`, `spent` | history: the seat a PreCompact hook provided for; bound |

A call begins with what it read before any lock, lists under `endpoints.lock` (`JoinChecks`), prepares a mailbox,
re-reads the incumbent under its lock and replaces it (`Replace`), and creates its record (`CreateEndpoint`).
`Persist` is the write of a refresh, which was checked before the lock. `Mint` is the PreCompact hook;
`Consume`, `Claim`, `Rebind` and `Settle` the SessionStart hook of the next session. An auto-attach child
(`BeginAttach`, `Decide`) decides on a listing without lock and joins like anybody; there is one per session. Calls
die, fail and time out between any two writes.

`BusRegistry` has two seats: taken when free, given up, inherited once, and passed on only to a later
session of the same conversation.

What the code does and the model keeps: `retireEndpoint` does not test `retiredAt`; a mint reuses a record near its
expiry without renewing it; a consumption does not check that the new session already has a seat
(`bus-mode.md:5` says each task connects one); a slow auto-attach child may join for a session that was
compacted away meanwhile. Left out: client, surface and git checks, the healing of a lost mailbox beyond its
re-creation, outcome records; listings are one read; the sweep of expired successions is merged with
the call that makes it.

**A disagreement the passing run excuses.** If a SessionStart hook dies after it rebound the endpoint and
before it consumed the record (`endpoints.ts:908`), the record stays fresh and names the former owner. The
next PreCompact hook reuses it without comparing its owner (`:803`), and the session after that cannot
consume it: the seat is lost, until somebody joins again (needs three sessions and three mishaps).
`FormerOwners` is exactly that excuse.

### ProjectSave

A save happens under the project lock, so one call runs at a time: `pc`, `pid`, `txn` and `left` are
the locals of the call that holds the lock, and `item`, `temp` and `journal` are the files. `temp[i][p]`
is `<target>.<process id>.tmp`, which outlives its process and may be met again by a process with the
same id. Each step of `runTransactionUnlocked` and of `doRecoverTransaction` is an action; each may
instead fail or be cut by a death (`WriteFails`, `CommitFails`, `RecoveryFails`, the second
alternatives of `CleanUp` and `CleanupEnds`, `Crash`). A write by `fsyncWrite` that does not complete
leaves the old file, a torn one, or the new one unsynced; of the journal's mark too, so that a call may have committed
and be told that it has not.

`WithProjectLock` recovers before its handler runs (so does a load, whose handler saves nothing);
`WithLock` stands for `writeTicket`, `deleteTicket` and the other calls of `withLock` that do not.

The refinement (`Store`, `Mode`) says what the files *mean*: their contents, overlaid with what a
started commit has still to do. Under it the marking of the journal is the one step of a transaction
that changes the store; renames, recoveries, failures and deaths are stutters. The exception is the call whose mark
was written and whose `fsyncWrite` then failed: `Mode` says that it is `wavering`. Its cleanup removes temporary files of a
marked journal, which takes those entries back one by one, and then the journal; it answers "failed". `AtomicStore` states this
exception (`Doubt`, `TakeBack`), and nothing more: the store is never otherwise between two transactions, "done" and
"pending" are only said of transactions that took effect, and "failed" of those that did not, or that wavered.

Abstractions: the lock is exclusive and a dead holder's is taken over, which `ProjectLock` shows, so the
ownership test before each write (`checkProjectLockFencing`) always succeeds; the order of a
transaction's entries is left open, which admits the code's order and others; entries have different
targets, as every caller ensures; the private temporary files of single saves, whose names are random, are
not seen by anyone; a machine that loses power between a rename and its directory's sync is not modelled.
A load outside the lock may see a commit halfway; the code does not promise otherwise. `runTransaction`,
which takes the lock without recovering and would truncate the journal of an unfinished commit, is
exported but called by nothing, and not modelled.

### LimitResume

One Claude task that runs an autonomous session and hits a usage limit. `rec` is its record in the ledger, `sess` the session's state
file, `slock` the session lock, `claim` the wake claim; `hand` are the StopFailure handlers, `waker` and `mine`
the waker and the attempts it claimed, `child` the processes it spawned, `user`, `cancel` and `evid` the
interactive client, a cancel command and a Stop hook. One action is one ledger transaction, one write of the
session, or one effect on a process; whatever an actor read before is in its `view`. So the waker's tick is
`WakerSupervises` (with a kill of several seconds, `WakerKills`, and what is committed after it), `WakerReconciles`,
`WakerSelects`, `WakerClaims`, `WakerChecks`, `WakerFilesClaim`, `WakerSpawns`, `WakerRecords`; the ledger's operations
(`UpsertStop`, `ClaimAttempt`, `SettleAttempt`, `MarkResumed`, ...) are operators on the record. Clocks are left to
chance: a record is due, an interactive claim late and a child inactive whenever the code could find it so.

`Incident` names what may go wrong in a run, `Budget` how often. The passing run assumes that the waker does
not die in the middle of a spawn (`midspawn`: the code cannot know the child then), that a handler does not
fail while the copy it would restore carries an attempt (`stalecopy`), that the user acts before the deadline of an
interactive claim (`linger`), that a stop filed during a cancel is not due before the cancel ends (`slowcli`), and that
users resume through the SessionStart hook. Each of these, taken away, has a counterexample that is a known
limit of the design: an orphan child, a stale copy restored by `abortIntent`, a claim that lingers after its
deadline, a slow cancel command overtaken, a plain record written over an autonomous one, a wake-up lost at the
waker's exit. In the run are handlers that fail or die over an intent (`prep`), a session that ends between an intent
and its park, so that the intent is aborted (`ends`), and a user who was told to resume and takes so long that the
session is parked anew, or a wake dispatched, before they do (`tardy`). With these three the safety properties hold within
the run's two stops and two incidents only: in larger instances TLC refutes `ResumedMeansMovedOn`, and the four about children and
cancels, with `prep`, those four with `tardy`, and `CancelIsFinal` with `ends` (section 6). Not modelled: pruning, the upgrade of a
reset time, the plain headless mode, the kill switch, `maxConcurrent` (there is one task), and `clear-compact --force`.

`TakeoverStandsDown` excepts a record that still has the attempt of a superseded stop, for then it is false (section 3,
"A user beside a wake child").

### ChannelInbox

`file[e]` is where an event's file is: in the inbox, claimed (`.processing`), in `.failed/`, or gone. It is renamed
and never copied, so an event is in one place. `server[s]` and `stale[s]` follow `startInboxWatcher`: the files
left as `.processing` go back one by one (`Recover`), a first drain, then watch events, polls and the sweep, which are
one action, `List`, of an idle drain. `drain[d]` is a call of `processInbox`, where d is a server and a number: nothing
keeps a timer's call from starting while another runs, and `Drains` says how many may. A call has a batch, the
oldest `Depth` files, takes the oldest of it first (`Current`), and for each does `Claim`, `Read`, `Send` or
`SendFails`, `PutBack`, `Unlink`, or `Quarantine` and `Drop` (the two halves of `moveToFailed`). Any operation may
fail without effect; a server may die anywhere. The companion app (`Write`) is external.

Sends are free to fail: the transport is the client's, and `mcp/index.ts` starts the watcher before it connects
one. The validation of names, the formatting and the two kinds of notification are data; `.failed/` is trimmed
in one step.

Three facts that TLC found and the passing run excuses or does not show:
* Without the excuse `disturbed`, `KeptUntilSent` is violated. A second client's server starts while the first has
  claimed a permission verdict; its recovery renames the file back; the first server's read fails, and if the
  second has claimed it again, `moveToFailed` of the first quarantines it, unsent. `inbox-watcher.ts:322` says that
  verdicts "must not be silently dropped", and `:99` that the rename-claim "keeps concurrent processing safe".
* The same start makes both servers send the event. `SentOncePerStart` bounds how often.
* With more than `MAX_INBOX_DEPTH` files a drain lists again at once and takes the same oldest files, so that a
  client that is away for a moment uses up all tries in one drain, where `:331` speaks of "the next cycle".

## 3. Runs

| Run | Question | Bounds and why they are enough |
|---|---|---|
| `lock` | exclusion, unlinks, leftovers, refinement, ends, reclaiming | three tasks in three processes: a holder that dies, a reaper that may die, a survivor that takes the lock in between; one failure anywhere. Of the two that may die, one does not get as far as the guard |
| `project_lock` | the same of the project lock | three tasks, two directories of the old release, one failure; at most two things go wrong: a death, a reused id, a directory, a failure |
| `bus_delivery` | are final receipts true, numbers free, the cap held; does every message keep a pointer, are numbers unique, prompts news | three kinds of traffic: two keys, one retried with another content, two peers replying in one thread, cap two, one failure, a park, resolution or reopening; or a replacement with its set-up and sweep, with two messages until a poll has answered and one after it; or two messages and prompts with one failure or lost counter |
| `bus_wait` | are waits honest, prompt and finite, is mail shown, is `BusService` implemented | one message sent again after a failure, with the same or another content, a waiter, or its heir; polls limited to one message |
| `bus_silence` | **violated**: is a silent Stop hook right | two messages, no failure |
| `save_safety` | are transactions atomic, their answers true but for those that wavered, their temporary files harmless | two files, two contents, two process ids, three faults: a death in a commit, a failure of its recovery and a failure of the recovery's successor; fair |
| `save_delete` | **violated**: does every lock holder recover | one fault |
| `save_failed` | **violated**: is nothing left to carry out of a failed transaction | two faults: the mark's sync and the removal of the journal |
| `limit` | children, takeovers, cancels, resolution | two handlers (two stops), caps of two attempts and one deferral, any two incidents: enough for a race of a stop, a reopen or a cancel with a failure or a death. Three of the incidents break safety in larger instances (section 6) |
| `limit_wedge` | **violated**: does a claim end with its dispatch | one reopen |
| `endpoints` | seats, replacements, mailboxes, compactions | a conversation of three sessions and processes and one of one, two calls at a time, two mishaps: a death in one call and a failure or compaction against another |
| `inbox` | is an event dropped, repeated or stranded | two servers, a good event and a malformed one, two tries, batches of one, one mishap |

Deadlock is checked for `ProjectSave` and `ChannelInbox`. In `BusMailbox` and `BusWaiter`, when every command is
final and everything is acknowledged the bus is rightly quiet; in the locks all processes may be dead; in
`LimitResume` the episode is over; in `BusEndpoints` the bounded ids are used up.

`MaxId` bounds threads and messages ever created; in each run it admits every send and one repetition
per failure, so it never cuts a behaviour off. `MaxLog` only stops agents from parking and reopening
for ever. `MaxAttempts` and `MaxDefers` of `LimitResume`, `MaxTries`, `Depth` and `MaxFailed` of `ChannelInbox` are
the code's own limits, made small. The constraints in the MC modules say which mixtures a run explores: they
are about who fails, who replaces and who prompts, and each is an alternative of the same specification.

Larger instances were checked when the models were built: the safety properties of `LimitResume` with three (3.2
million states) and four incidents (17 million), `BusEndpoints` with three mishaps (5.9 million), `BusWaiter` with
more traffic, `BusMailbox`'s refinement of `BusService` in the first traffic of `bus_delivery` (with replies and parks) and its
second traffic with both messages throughout (420 thousand), the safety properties
of `HardenedLock` with two failures and two reapers that die (870 thousand states), and `ChannelInbox` with two overlapping drains in one server.

**Finding (`bus_silence`).** A poll's listing reads the active directory; a sender then activates
message 1 and sends message 2, whose pointer is pending; the listing reads the pending directory. The
poll shows message 2 only and moves `lastPolledMailboxSeq` to its number. Message 1 is unacknowledged
and was never shown, yet it is below both hook gates, so the Stop hook is silent about it. `bus-mode.md`
says the hook "injects a poll prompt when peer mail is pending". The message is not lost (the next poll
shows it), but nothing prompts for that poll. A successor's set-up reaches the same state
when it is allocated a number above one that a sender holds and has not published.

**Finding (`save_delete`).** `ruling.ts` says that every lock holder completes an interrupted transaction, and
`project-loader.ts` that it happens "at the next lock acquisition". The calls of the bare `withLock`
(`deleteTicket` and its like from the command line, `writeTicket` and its like) do not. A file that such a
call saves or deletes between the death and the recovery is overwritten, or brought back, by the recovery.
`SavesAreAtomic` holds all the same: the store is never between two transactions, but the single
save is lost.

**Finding (`limit_wedge`).** If the record leaves `resuming` between `claimAttempt` and the spawn (a takeover, a
cancel, a new stop), `settleAttempt` refuses it, and the claim stays with a living claimant and no child.
Supervision and reconciliation skip it, the waker does not exit, and the user is told to retry in a moment
as long as that waker runs. `limit-ledger.ts:759` says a recorded claimant "does not wedge". `ParkedIsResolved` and
`CancelEnds` hold in every behaviour that does not end this way.

**Finding (`save_failed`).** `fsyncWrite` of the marked journal may throw after the file was written. The
catch takes the failure for one before the commit ("pre-commit failure wrote nothing and a retry is
correct", `project-loader.ts:1102`). If it then cannot remove the journal, or the process dies first, the caller of a "failed"
transaction finds it carried out later: deletions always, renames if the removal of their temporary file
failed too.

Four more disagreements were met that no run shows, each with the instance in which TLC found it.

**A lock left behind.** `compareAndUnlink` swallows its own failures, and nobody looks at its answer. A call whose
directory sync fails after the link, and whose cleanup then fails too, throws and leaves its lock, which names a living process
that no caller reaps; the same of the guard, which nobody ever reaps. The comments at `lock.ts:75`, `:185` and `:297` say that
such a failure "must remove OUR guard hardlink" and must not leave the lock. It takes two failures (`MaxFaults = 2`). A release
whose removal fails once does the same to a lock that was held. What does hold is `LeftOnlyByFailure`.

**A user beside a wake child.** A user reopens the session and stops it again while the waker is between the spawn of a child and
its record: `upsertStop` keeps the attempt of the stop before, which has no pid yet. The next takeover finds a `stopped` record
and no child to kill, and tells the user to resume while the child runs. `session-compact.ts:713` says that "there is no
in-flight child to race". TLC shows it for `OneDriver`, with the incidents `reopen` and `relimit` and a budget of three.

**Generations that come again.** An intent keeps a copy of the record that it replaced, and the copy has no copy of its own
(`limit-ledger.ts:642`). If the hook of a second stop writes its intent over the first record and dies, or fails before it parks,
and the hook of a third one, after the dedupe window of a minute and before reconciliation gave the dead intent up, replaces
that intent and dies as well, then undoing the third brings the second back, and undoing the second deletes the record. The
next stop is of generation 1 again. Evidence of a Stop hook that read the first generation 1 is then taken for it: the new stop is
marked `resumed` while its session waits, although `limit-ledger.ts:1091` says that delayed evidence "must never terminalize a
newer generation". Reconciliation undoes that if a waker still has a tick to come. TLC shows it for `ResumedMeansMovedOn`, with four
handlers, `prep`, `relimit` and `evidence` and a budget of six.

**A parked session without a record.** With three handlers the same nesting leaves a parked session without any record: nothing
looks for those, and it waits until somebody reopens it (`ParkedIsOnRecord`, `relimit` and `prep`, a budget of four).
`limit-ledger.ts:231` says that an abort "restores EVERY prior field", and `session-compact.ts:1662` names the parked session
"with no ledger pointer" as what must not happen. Without intents undone over a record (`IntentsHold`), that a parked session
has a record is a theorem (`ParkedIsFound`).

## 4. Fairness

`HardenedLock!Fairness`: a running call takes steps, time passes and callers return (weak fairness); and a deadline
does not pass, in call after call, between the verdict and the first look at the guard, which is the next operation (strong
fairness of `LinkGuard`). No failure is excluded; `MaxFaults` bounds them. A waiting call may always be unlucky with its
deadline, so `DeadHolderReclaimed` excepts a deadline that passes before the call has found the holder dead. Its other excuses:
the holder's process id is in use again, nobody is left, a reaper died with the guard, or failed to remove it: that
guard is never broken, so a dead holder's lock stays for ever. That is how the code prefers it in the first case
(`lock.test.ts`: "does not recursively break an abandoned reaper guard"), and the effect of a swallowed failure (section 3) in the second.
`ProjectLock!Fairness` is the same: calls go on and return, deadlines pass, an identity is not unknown every
time it is inspected, and a directory nobody refreshes grows stale.

`BusMailbox!Fairness`: a call that runs goes on (its lock waits are bounded by
`lock.ts`), a replacement under way completes unless it fails, and the agents of `Reading` come back
to poll and to acknowledge. The last two are strong fairness: other calls of the same endpoint hold its lock
now and then, and the lock's poll loop gets it between them. Nobody is assumed to send, to
retry, to replace or to prompt. Reading agents are an assumption about the agents, not about the code:
the bus can only show mail to an agent that polls. `BusWaiter!WaitFairness` replaces their polls: a waiting process
goes on, its interval ticks, it gets its lock now and then, and its agent waits again. No watch event need
arrive and no deadline come; only `MailIsShown` assumes deadlines, for the mail of heirs.

`ProjectSave!Fairness`: a call goes on, a handler returns, and somebody loads the project, or saves under
`withProjectLock`, again and again (strong fairness, since other calls hold the lock now and then). The
bound on faults makes failures stop; a disk that fails for ever completes nothing.

`LimitResume!Fairness`: a waker is started when there is something to do and ticks (its start is a hook's and a
handler's side effect), handlers and cancel commands go on, children start and end some day, the
user decides and closes the client. Nobody is assumed to reopen, to cancel or to requeue.

`ChannelInbox!Fairness`: a server that is down is started again (some client is opened again and again), timers
fire and promises settle. No send need ever succeed: the retry caps end it.

`BusEndpoints` has safety properties only.

## 5. Hazards

`PROJECT.json` lists them at their lines with the properties that would notice. The most important ones:
the by-path unlink (`lock.ts:163`), the verdict that is older than the guard (`lock.ts:311`) or the steal lock
(`project-lock.ts:472`), the two reads of a listing (`store.ts:2524`), a reconciliation meeting an uncommitted
intent (`store.ts:2676`), numbers allocated before they are published, the sweep (`store.ts:2799`), the gap in a
replacement (`endpoints.ts:643`), a replacement decided on an old listing (`endpoints.ts:624`), the two lock
holds of the hook (`hook-status.ts:119`), an event during a check (`wait.ts:291`), a death between two renames
(`project-loader.ts:1048`), leftovers under a reused process id (`project-loader.ts:1033`), a takeover or cancel
during a spawn or a kill (`waker.ts:461`, `:583`), and a recovery that takes a living server's file
(`inbox-watcher.ts:185`).

## 6. Proofs

`HardenedLockProofs` proves, for every set of tasks and processes and every assignment of one to the
other, and every number of failures: `TypeCorrect`, `Exclusion`, `ComparedUnlinks`, `LeavesNothing` (`LeftOnlyByFailure`),
`DeadOnly` and `Refinement`.

All rest on one inductive invariant, `IInv`, the conjunction of
* `TypeOK`;
* `OwnerInv`: a live task between link and unlink owns the file at the lock's path, and a live task that
  owns it is there, or its removal has failed (`leaked`);
* `GuardInv`: the same for the reaper guard;
* `SeenInv`: what a live reaper has read and is about to unlink names a dead task, and is still there
  if the reaper has compared it.

Mutual exclusion alone is not inductive: an unlink by path could remove anything. `SeenInv` is the heart:
the lock a reaper compared can only be replaced after it was unlinked, only its (dead) owner or a
reaper could unlink it, and the reaper guard, which is never broken, admits one reaper. The
refinement maps the owner of the abstract lock to the creator of the file, its critical sections to the
live tasks at `held`.

Assumptions: those of `LockAssumption` alone.

`ProjectLockProofs` proves, for every set of tasks and processes, every number of failing operations and of
old directories: `TypeCorrect`, `HoldersKeep` (`HolderKeepsLock`, from which mutual exclusion follows) and
`Refinement`. Assumptions: `LockAssumption`. Its `IInv` adds to `TypeOK`:
* `OwnerInv`: a live holder's file is at the path (not the converse: a release that fails leaves the file);
* `OldInv`: a live old release has its directory there, and it is not stale;
* `StealInv`: a live stealer made the steal lock, so that it is alone (not the converse: it may be left behind);
* `SeenInv`: what a live stealer is about to remove is what it saw, a dead task's file or a directory whose
  release is not alive. This survives because only a stealer removes such a thing, and is preserved against
  old releases by the one window that the code's comments except (`Removing`).

`ProjectSaveProofs` proves, for every set of files, contents, process ids and transactions, and every
number of faults: `SaveTypeCorrect`, `NeverTorn` (`NoTornFile`), `SeesWhole` (`HandlerSeesWhole`) and `Atomicity`, the last being
that `ProjectSave` implements `AtomicStore`. Assumptions: `SaveAssumption` alone; a mark that is written and whose
synchronisation fails is among the faults. The invariant `IInv` adds to `TypeOK` and `NoTornFile`:
* `TransactionInv`: up to the commit the journal is the running transaction's own and unmarked, and what
  is staged is whole; during the commit it is marked, and what is left is staged;
* `ProgressInv`: what a commit or a replay has dealt with is in place;
* `PendingInv`: of a marked journal, a temporary file is gone or has the content of its entry. This is what
  makes "the file is gone" evidence of "it was applied", and a replay after a replay harmless;
* `RecoveryInv`: what a recovery walks is the journal on disk.

Atomicity follows with no further invariant: each step is a step of `AtomicStore` or leaves `Store` as it
was.

`ChannelInboxProofs` proves, for every finite set of servers, every number of overlapping drains of each, of
events, tries and mishaps, and every depth of a batch: `TypeCorrect`, `Kept` (`KeptUntilSent`) and `SentOnce`
(`SentOncePerStart`). Assumptions: `InboxAssumption`; the sets are finite because the second theorem counts.
* `KeptInv` adds to `KeptUntilSent` that of an event nothing has disturbed at most one call has the file in its
  hands, and then it is claimed (`HolderInv`); that such a call is at an unlink only after a send, and at a quarantine
  only with a reason (`ReasonInv`); and that a server's retry count is at most the number of refusals (`TriesInv`).
  Without `HolderInv` another call's unlink could be of a file that it has not sent.
* `OnceInv` counts chances: an event's sends, the calls that claimed it and have yet to send it, the starting servers
  that will put it back and its file in the inbox are together at most the starts (`ChancesInv`). A claim by rename
  moves a chance from the inbox to the call; only a start makes a new one.

`BusEndpointsProofs` proves, for every set of callers and conversations, any number of sessions, processes, endpoints
and succession records, and any budget of exits, deaths and failures: `TypeCorrect`, `MailboxesKept`, `LiveStays`
(`LiveIsNeverReplaced`, an action property), `Refinement` (of `BusRegistry`) and `SeatKept` (`CompactionKeepsSeat`).
Assumptions: `EndpointsAssumption`, `NoneAssumption`.
* `IInv` says who holds `endpoints.lock` and an endpoint's lock across two steps (`LocksOf`), what a join that passed
  its checks may still rely on after them: its session has no seat, one is free, nobody has inherited what it replaces
  and its mailbox is its own (`JoinOf`), and what a hook that passes a seat on has in hand (`PassOf`). The
  refinement follows: the two writes of a replacement are a give-up and a take or an inheritance.
* `CompactionKeepsSeat` speaks of the end of a chain of hooks and says nothing before it. `SeatInv` says what keeps a
  promise at each step in between: it is excused (given up, ambiguous evidence, or former owners), or seated, or it
  waits in a fresh succession record for its hook, or a hook works on it, past the consumption of its record. That
  no two hooks work on one promise, and that a record's seat belongs to its conversation, are parts of it.

`BusMailboxProofs` proves, for every set of endpoints, keys, payloads and commands, and every number of messages,
log entries, failures and lost counters: `TypeCorrect`, `ReceiptsAreTrue` (`FinalReceiptIsCommitted`),
`NumbersStayFree` (`NumberStaysFree`), `HopsAreCapped` (`HopCapHolds`) and `Refinement` (of `BusService`).
Assumptions: `MailboxAssumption`. Its `IInv` has
* `CallInv`: where a call is says what of its publication is written: nothing up to the commit, its entry after it,
  and from the receipt on what the receipt has of it;
* `ReceiptInv`: a key is in the log at most once, where its receipt says. This makes a retry's look at the one entry
  that its receipt names a look at the whole log;
* `IdInv`, `Apart`: an id belongs to one key of one endpoint, and two publications at the same time are in
  different threads. A hop counted, or an entry number taken, under the thread's lock is right until the entry is written;
* `EntryInv`, `RecInv`, `BoundInv`, `ShownInv`: entries are well-formed, a reconciliation misses only what is in the
  log, pointers have a largest number (so that the next is defined), what a poll has shown is in the log.

`BusPointersProofs` proves `PointersAreKept` (`UnackedKeepsAPointer`) under the same assumptions, lost counters
included, and `NumbersAreUnique` (`SeqIsUnique`) if no counter is lost (`~Lossy`).
* `PtrInv` is needed since "somebody has a pointer" is broken in one step by a sweep that believes a stale list.
  `ListInv`: what a sweeping reconciliation has listed as delivered is still held by an heir, which is not the
  ancestor that it sweeps, because inheritance is a forest that grows only at its leaves (`LineInv`). `IntentInv`,
  `LockInv`: the intent of a publication stays until its commit, since a reconciliation that looks at it
  waits for the publisher's lock. `FreshInv`: an id that is not committed is in no mailbox but in that intent.
  `PlaceInv`: a pointer to a committed message names its very place.
* `NumInv` gives each number of a mailbox's claims (pointers, receipts of deliveries, publications before their receipt,
  reconciliations before their pointer) one message, and keeps the counter above all of them. The receipts are in it
  because a retry puts a pointer back under the number that its receipt remembers, long after it was removed.

It goes on to `BusWaiter`, under the same assumptions: `WaiterTypeCorrect` (`WaitTypeOK`) and `TimeoutsAreHonest`
(`TimeoutIsHonest`). The steps of `WaitNext` are steps of `BusMailbox` or leave its variables alone, so that `IInv`
and `PtrInv` hold here too; on top of them
* `Owed`, the messages that were due to an agent at its deadline and are still unsettled, only shrinks: the log keeps
  what it has, what is settled stays settled, and a new message has a new id (`Settles`);
* `HeirInv`: an endpoint that is in use has no heir, so nobody sweeps its mailbox, and only its own acknowledgment
  removes a pointer from it. A pending one goes only to `active`, or if its message was never committed (`Tends`);
* `PollInv`, `StageInv`: a poll's endpoint stays in use, and what its reconciliation has in hand at each stage;
* `SeekInv`: where that reconciliation will still find what is owed: its own mail has a pointer, or an intent that it
  will recover; an ancestor's is known, or in a thread it has yet to read, or among the missing; after the last listing
  it is listed. `WalkInv` and `SearchInv` carry this through the walk to the answer;
* `LastInv`: between the deadline and the outcome the worker is idle only with nothing owed or an outcome set.

A poll that finds something odd on the way (an intent that it could not recover, a pointer that does not match its
thread) is excused from the last two: it ends the wait with an error or a message, not with a timeout (`Here`).

`LimitResumeProofs` proves, for every set of handlers and attempts, all caps and every number of incidents:
`TypeCorrect`, from `LimitResumeAssumption` and `NoneIsNoRecord` alone; `ResumedIsMovedOn` (`ResumedMeansMovedOn`)
and `ParkedIsFound` (a parked session has a record), under `IntentsHold`; `ChildrenAreNamed` (`ChildIsNamed`) and
`OneChildAtMost` (`OneWakeChild`), under `IntentsHold` and `ChildrenKept`; and `TakeoversStandDown` (`TakeoverStandsDown`) and
`CancelsAreFinal` (`CancelIsFinal`), under these two and `SessionsLast`.
* `TypeOK` says of the counters that they keep to their caps, which needs `CapInv`: a claim was made below the cap on
  attempts, and no step between the claim and the spawn raises the count of the record or of the copy that an intent may
  put back; a re-limit of a finished episode lowers it. `PhaseInv` says what the waker has in hand at each step.
* `GenInv` orders what processes have read. `Sound` relates a record's status to its attempt and their generations;
  `IntentInv` gives an intent to a handler that is at work on it; `EvidenceInv` and `ViewInv` say that the evidence of a
  Stop hook and the waker's view are of the record's generation or of an older one, and if of the same, that nothing they
  rest on has changed; `VerdictInv` carries a verdict from the look at the session to the commit, past a kill of several
  seconds. The mutators of the ledger come down to one relation, `Follows`: within an episode the generation and the event
  stay, and no attempt appears.
* `ChildInv` is about attempts and children. `NamedInv` alone would imply `ChildIsNamed` and `OneWakeChild`, but it is broken
  by any step that drops an attempt whose child lives. So `WakerDeaths` and `CancelDeaths` say that whoever is about to drop
  one has confirmed a death; `DispatchInv`, that a living waker's bare claim is left alone by all others; `RaceInv`, that
  while a child is at large under a record that may be woken the session is parked for that very stop and nobody was told
  to resume it, so reconciliation will not mistake the child's session for one that advanced; `DueInv`, `UserInv`, `LockInv`
  and `StopInv`, that claims, cancel commands, users and parks do not overlap in the ways `RaceInv` could not survive. The four
  theorems read off: a record that is `cancelled` has no attempt, hence no child.
* `OneActive`: when the session has ended the invariants may break (an intent undone then puts an older record back), but from
  then on no attempt becomes active, with a child at large or at its spawn (`FewerWhenOver`), so there are never two.

The theorems do not hold for every incident, because the properties do not; what each assumption leaves out, and what TLC
finds with it:

| Assumption | Without | In larger instances, or outside the run |
|---|---|---|
| `IntentsHold` | `prep`: a handler fails or dies between its intent and its park | `ResumedMeansMovedOn` and `ParkedIsOnRecord` (section 3), and the four about children and cancels are false |
| `ChildrenKept` | `midspawn`: the waker dies between a spawn and its record | the four are false: nobody knows the child |
| | `slowcli`: a cancel command is overtaken by the next stop's reset | the four are false: a wake is dispatched under the cancel |
| | `tardy`: a user resumes after the session was parked anew, or a wake dispatched | the four are false: the user resumes beside a wake child |
| `SessionsLast` | `ends`: the session ends between an intent and its park over a record | `CancelIsFinal` is false: the undone intent puts back the attempt of a record that was cancelled. `TakeoverStandsDown` was not refuted in 17 million states, nor proved |

The run `limit` has `prep`, `tardy` and `ends` among its incidents, any two of them, and finds no violation: it takes more than
two incidents, or more than two stops, to get there. So neither the run nor the theorems say that the design is safe against
them. All other incidents (reopens, cancels, new stops, stale evidence, deaths of the waker outside a spawn and of commands, children
that cannot be killed, failed spawns, git failures, requeues, a project that disappears) are in the theorems, any number of them.

Only model-checked: `PromptsAreNews` of `BusMailbox`, which is for endpoints that replaced nobody (an heir is prompted for
what its ancestor saw and did not acknowledge), as in the run; `TakeoverStandsDown` where a session ends between an
intent and its park; and all liveness (`MailIsShown`, `WaitsEnd`, `NoMailWaits`, `PendingCompletes`, `ParkedIsResolved`,
`EventsSettle` and the like), since fairness is out of the prover's reach. Worth proving next: `ResumedMeansMovedOn` and `ParkedIsOnRecord`
with intents that are undone but not nested, `TakeoverStandsDown` without `SessionsLast`, then `PromptsAreNews`.

## 7. Not modelled

* `bus/wake*.ts`, `codex-app-server.ts`: a best-effort nudge of an idle client after a send, most of it the
  protocol of an external app server. Messages are delivered without it; its entries are entries of a thread.
* `bus/admin.ts`, `legacy-v1.ts`: enabling, resetting and migrating the whole runtime by hand.
* The hash chain, quarantine, reopen evidence and derived files of threads: computed from the entries.
* The guide and its stages, candidate recovery, artifacts, reviews and knowledge: prompts and policy of one process per
  session, over text. What other processes do to a session is in `LimitResume`.
* `cancellation-*.ts`: the durable cancellation of a guided session; what a cancel does to a limit record and
  its child is in `LimitResume`.
* `core/claims.ts`, `id-allocation.ts`: identifiers are reserved in git branches, whose failures are git's.
* `core/merge-driver.ts`, `reconcile.ts`: a pure merge of records, field by field.
* Ledger snapshots, validation, queries, recommendation, session guard, presence, federation: sequential
  reads and rewrites of files, or pure functions of them; the last writer wins.
* The channel's outbox and schemas, the command line, the MCP tool table and formatting: no state of their own.
