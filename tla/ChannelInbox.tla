---------------------------- MODULE ChannelInbox ----------------------------
(***************************************************************************)
(* The inbox that carries the companion app's events to a coding agent     *)
(* (src/src/channel/inbox-watcher.ts).  The app writes a file per event;   *)
(* every MCP server of the project watches the directory, and each of its  *)
(* drains takes a file by renaming it to <name>.processing, sends it to    *)
(* its client, and removes it, puts it back, or moves it to .failed/.      *)
(*                                                                         *)
(* A file is never copied, so an event is in one place at a time; every    *)
(* step below is one call on the file system or one send.  Events are      *)
(* numbered in the order of their timestamps.                              *)
(***************************************************************************)
EXTENDS Integers, FiniteSets, FiniteSetsExt

CONSTANTS
    Server,        \* MCP servers of the project, one per client
    Drains,        \* Drains[s]: bound on the drains of s that overlap
    MaxEvents,     \* bound: events
    Kinds,         \* Kinds[e]: what e may be, among "verdict" (the answer to a
                   \* permission request), "request" and "malformed"
    MaxTries,      \* MAX_PERMISSION_RETRIES, MAX_EVENT_RETRIES
    Depth,         \* MAX_INBOX_DEPTH
    MaxFailed,     \* MAX_FAILED_FILES
    MaxFaults      \* bound: servers that die, operations on files that fail

Event == 1..MaxEvents

ASSUME InboxAssumption ==
    /\ IsFiniteSet(Server) /\ MaxEvents \in Nat
    /\ Kinds \in [Event -> SUBSET {"verdict", "request", "malformed"}]
    /\ Drains \in [Server -> Nat \ {0}]
    /\ MaxTries \in Nat \ {0} /\ Depth \in Nat \ {0} /\ MaxFailed \in Nat /\ MaxFaults \in Nat

\* The calls of processInbox that may run at the same time.
Call == UNION {{s} \X (1..Drains[s]) : s \in Server}

VARIABLES
    kind,      \* kind[e]: what the app writes as e
    file,      \* file[e]: where the event's file is
    server,    \* server[s]: is it down, recovering, in its first drain or up?
    stale,     \* stale[s]: the files that a starting server has yet to put back
    tries,     \* tries[s]: permissionRetryCount and eventRetryCount
    drain,     \* drain[d]: what the call d of processInbox does, with which files
    aged,      \* the requests older than EVENT_EXPIRY_MS
    faults,
    sent,      \* history: how often each event was sent,
    refused,   \*   how often its sending failed (MaxTries stands for more),
    starts,    \*   how many servers were started,
    disturbed  \*   the events whose file an operation failed on, or that a
               \*   starting server took from a living drain

vars == <<kind, file, server, stale, tries, drain, aged, faults, sent, refused, starts, disturbed>>

Drain == [at   : {"idle", "list", "claim", "read", "send", "back", "unlink",
                  "quarantine", "drop", "trim"},
          todo : SUBSET Event,      \* the files of the batch, the oldest first
          more : BOOLEAN]           \* whether others wait

Idle == [at |-> "idle", todo |-> {}, more |-> FALSE]

TypeOK ==
    /\ kind \in [Event -> {"verdict", "request", "malformed"}]
    /\ \A e \in Event : kind[e] \in Kinds[e]
    /\ file \in [Event -> {"none", "inbox", "claimed", "failed", "gone"}]
    /\ server \in [Server -> {"down", "recovering", "first", "up"}]
    /\ stale \in [Server -> SUBSET Event]
    /\ tries \in [Server -> [Event -> 0..(MaxTries - 1)]]
    /\ drain \in [Call -> Drain]
    /\ aged \subseteq Event /\ disturbed \subseteq Event
    /\ faults \in 0..MaxFaults
    /\ sent \in [Event -> Nat] /\ refused \in [Event -> 0..MaxTries] /\ starts \in Nat

Init ==
    /\ kind \in {k \in [Event -> {"verdict", "request", "malformed"}] : \A e \in Event : k[e] \in Kinds[e]}
    /\ file = [e \in Event |-> "none"]
    /\ server = [s \in Server |-> "down"]
    /\ stale = [s \in Server |-> {}]
    /\ tries = [s \in Server |-> [e \in Event |-> 0]]
    /\ drain = [d \in Call |-> Idle]
    /\ aged = {} /\ disturbed = {} /\ faults = 0 /\ starts = 0
    /\ sent = [e \in Event |-> 0]
    /\ refused = [e \in Event |-> 0]

----------------------------------------------------------------------------
(* The app and the clients.                                                  *)

Write(e) ==
    /\ file[e] = "none" /\ \A d \in 1..(e - 1) : file[d] # "none"
    /\ file' = [file EXCEPT ![e] = "inbox"]
    /\ UNCHANGED <<kind, server, stale, tries, drain, aged, faults, sent, refused, starts, disturbed>>

Age(e) ==
    /\ file[e] \in {"inbox", "claimed"} /\ kind[e] = "request" /\ e \notin aged
    /\ aged' = aged \cup {e}
    /\ UNCHANGED <<kind, file, server, stale, tries, drain, faults, sent, refused, starts, disturbed>>

Fault == faults < MaxFaults /\ faults' = faults + 1

Die(s) ==
    /\ server[s] # "down"
    /\ Fault
    /\ server' = [server EXCEPT ![s] = "down"]
    /\ stale' = [stale EXCEPT ![s] = {}]
    /\ tries' = [tries EXCEPT ![s] = [e \in Event |-> 0]]
    /\ drain' = [d \in Call |-> IF d[1] = s THEN Idle ELSE drain[d]]
    /\ UNCHANGED <<kind, file, aged, sent, refused, starts, disturbed>>

----------------------------------------------------------------------------
(* startInboxWatcher: what was left as .processing goes back, a first drain, *)
(* then watch events, polls and the sweep, which start drains that nothing   *)
(* keeps from overlapping.                                                   *)

Claimed == {e \in Event : file[e] = "claimed"}

\* Mutant: nothing is recovered.
Start_Clean(s) ==
    /\ server[s] = "down"
    /\ server' = [server EXCEPT ![s] = "recovering"]
    /\ starts' = starts + 1
    /\ UNCHANGED <<kind, file, stale, tries, drain, aged, faults, sent, refused, disturbed>>

Start(s) ==
    /\ server[s] = "down"
    /\ server' = [server EXCEPT ![s] = "recovering"]
    /\ stale' = [stale EXCEPT ![s] = Claimed]
    /\ starts' = starts + 1
    /\ UNCHANGED <<kind, file, tries, drain, aged, faults, sent, refused, disturbed>>

At(d)      == drain[d].at
Current(d) == Min(drain[d].todo)

\* d has a file in its hands.
Holding    == {"read", "send", "back", "unlink", "quarantine", "drop"}
Working(e) == \E d \in Call : At(d) \in Holding /\ Current(d) = e

\* recoverStaleProcessingFiles, file by file; it cannot tell whose they are.
Recover(s) ==
    /\ server[s] = "recovering"
    /\ IF stale[s] = {}
       THEN /\ server' = [server EXCEPT ![s] = "first"]
            /\ drain' = [drain EXCEPT ![<<s, 1>>].at = "list"]
            /\ UNCHANGED <<file, stale, disturbed>>
       ELSE \E e \in stale[s] :
            /\ stale' = [stale EXCEPT ![s] = @ \ {e}]
            /\ file' = IF file[e] = "claimed" THEN [file EXCEPT ![e] = "inbox"] ELSE file
            /\ disturbed' = IF file[e] = "claimed" /\ Working(e) THEN disturbed \cup {e}
                            ELSE disturbed
            /\ UNCHANGED <<server, drain>>
    /\ UNCHANGED <<kind, tries, aged, faults, sent, refused, starts>>

----------------------------------------------------------------------------
(* processInbox and processEventFile.                                        *)

Goto(d, at) == drain' = [drain EXCEPT ![d].at = at]

\* After a file: the next of the batch, the next batch, or the housekeeping.
NextFile(d) ==
    LET rest == drain[d].todo \ {Current(d)} IN
    drain' = [drain EXCEPT ![d].todo = rest,
                           ![d].at = IF rest # {} THEN "claim"
                                     ELSE IF drain[d].more THEN "list" ELSE "trim"]

Oldest(S, n) == {e \in S : Cardinality({f \in S : f < e}) < n}

\* readdir, at a start, at a tick of a timer, and after a full batch.
List(d) ==
    LET Waiting == {e \in Event : file[e] = "inbox"} IN
    /\ At(d) = "list" \/ (At(d) = "idle" /\ server[d[1]] = "up")
    /\ drain' = [drain EXCEPT ![d] =
                   IF Waiting = {} THEN [Idle EXCEPT !.at = "trim"]
                   ELSE [at |-> "claim", todo |-> Oldest(Waiting, Depth),
                         more |-> Cardinality(Waiting) > Depth]]
    /\ UNCHANGED <<kind, file, server, stale, tries, aged, faults, sent, refused, starts, disturbed>>

\* Mutant: a file that cannot be claimed is moved to .failed/.
Claim_OrQuarantine(d) ==
    LET e == Current(d) IN
    /\ At(d) = "claim"
    /\ IF file[e] = "inbox"
       THEN file' = [file EXCEPT ![e] = "claimed"] /\ Goto(d, "read")
       ELSE Goto(d, "quarantine") /\ UNCHANGED file
    /\ UNCHANGED <<kind, server, stale, tries, aged, faults, sent, refused, starts, disturbed>>

\* Mutant: a claimed file is taken as well.
Claim_Shared(d) ==
    LET e == Current(d) IN
    /\ At(d) = "claim"
    /\ IF file[e] \in {"inbox", "claimed"}
       THEN file' = [file EXCEPT ![e] = "claimed"] /\ Goto(d, "read")
       ELSE NextFile(d) /\ UNCHANGED file
    /\ UNCHANGED <<kind, server, stale, tries, aged, faults, sent, refused, starts, disturbed>>

Claim(d) ==
    LET e == Current(d) IN
    /\ At(d) = "claim"
    /\ IF file[e] = "inbox"
       THEN file' = [file EXCEPT ![e] = "claimed"] /\ Goto(d, "read")
       ELSE NextFile(d) /\ UNCHANGED file
    /\ UNCHANGED <<kind, server, stale, tries, aged, faults, sent, refused, starts, disturbed>>

Read(d) ==
    LET e == Current(d) IN
    /\ At(d) = "read"
    /\ Goto(d, IF file[e] = "claimed" /\ kind[e] # "malformed" THEN "send" ELSE "quarantine")
    /\ UNCHANGED <<kind, file, server, stale, tries, aged, faults, sent, refused, starts, disturbed>>

Send(d) ==
    LET e == Current(d) IN
    /\ At(d) = "send"
    /\ sent' = [sent EXCEPT ![e] = @ + 1]
    /\ tries' = [tries EXCEPT ![d[1]][e] = 0]
    /\ Goto(d, "unlink")
    /\ UNCHANGED <<kind, file, server, stale, aged, faults, refused, starts, disturbed>>

\* A failed send: an old event is given up at once, a verdict never for its age.
SendFails(d) ==
    LET e == Current(d)
        n == tries[d[1]][e] + 1
        expired == kind[e] # "verdict" /\ e \in aged
        give    == expired \/ n >= MaxTries
    IN
    /\ At(d) = "send"
    /\ tries' = [tries EXCEPT ![d[1]][e] = IF give THEN 0 ELSE n]
    /\ refused' = [refused EXCEPT ![e] = Min({@ + 1, MaxTries})]
    /\ Goto(d, IF give THEN "quarantine" ELSE "back")
    /\ UNCHANGED <<kind, file, server, stale, aged, faults, sent, starts, disturbed>>

PutBack(d) ==
    LET e == Current(d) IN
    /\ At(d) = "back"
    /\ IF file[e] = "claimed"
       THEN file' = [file EXCEPT ![e] = "inbox"] /\ NextFile(d) /\ UNCHANGED tries
       ELSE /\ tries' = [tries EXCEPT ![d[1]][e] = 0]
            /\ Goto(d, "quarantine") /\ UNCHANGED file
    /\ UNCHANGED <<kind, server, stale, aged, faults, sent, refused, starts, disturbed>>

Unlink(d) ==
    LET e == Current(d) IN
    /\ At(d) = "unlink"
    /\ file' = IF file[e] = "claimed" THEN [file EXCEPT ![e] = "gone"] ELSE file
    /\ NextFile(d)
    /\ UNCHANGED <<kind, server, stale, tries, aged, faults, sent, refused, starts, disturbed>>

\* moveToFailed: a rename, and where that fails an unlink.
Quarantine(d) ==
    LET e == Current(d) IN
    /\ At(d) = "quarantine"
    /\ IF file[e] = "claimed"
       THEN file' = [file EXCEPT ![e] = "failed"] /\ NextFile(d)
       ELSE Goto(d, "drop") /\ UNCHANGED file
    /\ UNCHANGED <<kind, server, stale, tries, aged, faults, sent, refused, starts, disturbed>>

Drop(d) ==
    LET e == Current(d) IN
    /\ At(d) = "drop"
    /\ file' = IF file[e] = "claimed" THEN [file EXCEPT ![e] = "gone"] ELSE file
    /\ NextFile(d)
    /\ UNCHANGED <<kind, server, stale, tries, aged, faults, sent, refused, starts, disturbed>>

\* An operation on the current file fails without effect.
OperationFails(d) ==
    LET e == Current(d) IN
    /\ At(d) \in {"claim", "read", "back", "unlink", "quarantine", "drop"}
    /\ Fault
    /\ disturbed' = disturbed \cup {e}
    /\ tries' = IF At(d) = "back" THEN [tries EXCEPT ![d[1]][e] = 0] ELSE tries
    /\ CASE At(d) \in {"read", "back"}           -> Goto(d, "quarantine")
         [] At(d) = "quarantine"                 -> Goto(d, "drop")
         [] At(d) \in {"claim", "unlink", "drop"} -> NextFile(d)
    /\ UNCHANGED <<kind, file, server, stale, aged, sent, refused, starts>>

\* trimFailedDirectory; the first drain was startInboxWatcher's own.
Trim(d) ==
    LET Failed == {e \in Event : file[e] = "failed"}
        Old    == Oldest(Failed, Cardinality(Failed) - MaxFailed)
    IN
    /\ At(d) = "trim"
    /\ file' = [e \in Event |-> IF e \in Old THEN "gone" ELSE file[e]]
    /\ drain' = [drain EXCEPT ![d] = Idle]
    /\ server' = [server EXCEPT ![d[1]] = "up"]
    /\ UNCHANGED <<kind, stale, tries, aged, faults, sent, refused, starts, disturbed>>

Work(d) ==
    \/ List(d) \/ Claim(d) \/ Read(d) \/ Send(d) \/ SendFails(d)
    \/ PutBack(d) \/ Unlink(d) \/ Quarantine(d) \/ Drop(d) \/ Trim(d)

Next ==
    \/ \E e \in Event : Write(e) \/ Age(e)
    \/ \E s \in Server : Die(s) \/ Start(s) \/ Recover(s)
    \/ \E d \in Call : Work(d) \/ OperationFails(d)

Spec == Init /\ [][Next]_vars

\* Some client is opened again and again; a server's timers fire and its
\* promises settle.
Fairness ==
    /\ \A s \in Server : WF_vars(Start(s)) /\ WF_vars(Recover(s))
    /\ \A d \in Call : WF_vars(Work(d))

FairSpec == Spec /\ Fairness

----------------------------------------------------------------------------
(* Properties.                                                               *)

\* What leaves the inbox was sent, or refused as often as it may be tried,
\* or was a request too old to try again, whatever drains overlap and servers
\* start or die: a verdict is never dropped.  Excused are events whose file an operation failed
\* on and those that a starting server took from a living one.
KeptUntilSent ==
    \A e \in Event \ disturbed :
        kind[e] # "malformed" /\ file[e] \in {"failed", "gone"} =>
            \/ sent[e] > 0
            \/ refused[e] = MaxTries
            \/ kind[e] = "request" /\ e \in aged /\ refused[e] > 0

\* An event is repeated only where a server starts: drains of the servers
\* that run, however many, send it once, and each start adds one at most.
SentOncePerStart == \A e \in Event : sent[e] <= starts

\* Every event is sent or set aside: none is left in the inbox, nor with a
\* drain or a server that is no more, unless its own operations failed.
EventsSettle ==
    \A e \in Event :
        file[e] = "inbox" ~> (sent[e] > 0 \/ file[e] \in {"failed", "gone"} \/ e \in disturbed)
=============================================================================
