----------------------------- MODULE AccountWorker -----------------------------
(***************************************************************************)
(* The owner thread of one account's SQLite file                           *)
(* (crates/okx-execution/src/account_worker.rs).  Callers put jobs in a    *)
(* bounded FIFO; the owner runs them one by one against a deadline that    *)
(* covers the wait, and between two jobs joins a finished backup thread    *)
(* and does the maintenance that is due.  A job is a series of SQLite      *)
(* transactions; SQLite's progress handler interrupts it at the deadline.  *)
(***************************************************************************)
EXTENDS Integers, Sequences, FiniteSets, SequencesExt

CONSTANTS
    Caller,          \* calls, one job each
    Capacity,        \* sync_channel bound, 128 in the code
    Transactions,    \* transactions a job commits one after the other
    MaxTime,         \* bound on the clock
    MaintenanceInterval, FirstBackupAfter, BackupInterval,
    HistoryMax       \* MAINTENANCE_HISTORY_MAX, 64 in the code

WorkerAssumption ==
    /\ {Capacity, Transactions, HistoryMax} \subseteq Nat \ {0}
    /\ {MaxTime, MaintenanceInterval, FirstBackupAfter, BackupInterval} \subseteq Nat

VARIABLES
    now,
    call,        \* per caller: where it is, its deadline and its answer
    queue,       \* accepted jobs, in order
    owner,       \* what the owner thread is doing
    committed,   \* transactions each job has committed
    jobs,        \* SqlTimingCounters.jobs
    backup,      \* the pending backup thread, its event and last success
    nextCheck,   \* MaintenanceCadence
    failed,      \* maintenance_error is set
    events,      \* MaintenanceHistory.events, oldest first
    nextId, evicted,
    accepted, started,   \* history: jobs in the order accepted and run
    panicked             \* history: events of backup threads that panicked

log == <<events, nextId, evicted>>
history == <<accepted, started, panicked>>
vars == <<now, call, queue, owner, committed, jobs, backup, nextCheck, failed, log, history>>

NoEvent == 0
Answer == {"none", "OK", "ERROR", "QUEUE_DEADLINE", "BACKPRESSURE", "STORAGE_DEADLINE", "STOPPED"}
Event == [id : Nat, kind : {"wal", "backup"}, outcome : {"in_progress", "ok", "error"}]

TypeOK ==
    /\ now \in 0..MaxTime
    /\ call \in [Caller -> [pc : {"idle", "waiting", "dropped", "done"},
                            deadline : 0..MaxTime + 1, answer : Answer]]
    /\ queue \in Seq(Caller) /\ Len(queue) <= Capacity
    /\ owner \in [pc : {"recv", "running", "join", "maintain", "stopped"},
                  job : {<<>>} \cup {<<c>> : c \in Caller}]
    /\ committed \in [Caller -> 0..Transactions]
    /\ jobs \in 0..Cardinality(Caller)
    /\ backup \in [thread : {"none", "copying", "ok", "failed", "panicked"}, event : Nat,
                   last : 0..MaxTime, ever : BOOLEAN]
    /\ nextCheck \in Nat /\ failed \in BOOLEAN
    /\ events \in Seq(Event) /\ Len(events) <= HistoryMax
    /\ nextId \in Nat /\ evicted \in Nat /\ nextId = Len(events) + evicted
    /\ panicked \subseteq 1..nextId

Init ==
    /\ now = 0
    /\ call = [c \in Caller |-> [pc |-> "idle", deadline |-> 0, answer |-> "none"]]
    /\ queue = <<>>
    /\ owner = [pc |-> "recv", job |-> <<>>]
    /\ committed = [c \in Caller |-> 0]
    /\ jobs = 0
    /\ backup = [thread |-> "none", event |-> NoEvent, last |-> 0, ever |-> FALSE]
    /\ nextCheck = 0 /\ failed = FALSE
    /\ events = <<>> /\ nextId = 0 /\ evicted = 0
    /\ accepted = <<>> /\ started = <<>> /\ panicked = {}
-----------------------------------------------------------------------------
\* MaintenanceHistory: a bounded ring whose events are closed by id.
ring_mutant(seq) == seq    \* a bug: nothing is evicted

ring(seq) == IF Len(seq) < HistoryMax THEN seq ELSE Tail(seq)

\* A bug: the newest event is closed, whoever began it.
finished_mutant(seq, id, ok) ==
    [i \in 1..Len(seq) |->
        IF i = Len(seq) THEN [seq[i] EXCEPT !.outcome = IF ok THEN "ok" ELSE "error"] ELSE seq[i]]

finished(seq, id, ok) ==
    [i \in 1..Len(seq) |->
        IF seq[i].id = id THEN [seq[i] EXCEPT !.outcome = IF ok THEN "ok" ELSE "error"] ELSE seq[i]]

backup_due == now - backup.last >= (IF backup.ever THEN BackupInterval ELSE FirstBackupAfter)
-----------------------------------------------------------------------------
\* The answer reaches a caller that still waits; one that dropped its future
\* never sees it.
answered(c, a) ==
    [call EXCEPT ![c].answer = a, ![c].pc = IF call[c].pc = "waiting" THEN "done" ELSE @]

\* call_with_timing_observed: deadline, then the bounded queue.
refuse(c, d, a) ==
    /\ call' = [call EXCEPT ![c] = [pc |-> "done", deadline |-> d, answer |-> a]]
    /\ UNCHANGED <<now, queue, owner, committed, jobs, backup, nextCheck, failed, log, history>>

CallExpired(c, d) == call[c].pc = "idle" /\ now >= d /\ refuse(c, d, "QUEUE_DEADLINE")

CallStopped(c, d) ==
    call[c].pc = "idle" /\ now < d /\ owner.pc = "stopped" /\ refuse(c, d, "STOPPED")

CallFull(c, d) ==
    /\ call[c].pc = "idle" /\ now < d /\ owner.pc # "stopped"
    /\ Len(queue) = Capacity
    /\ refuse(c, d, "BACKPRESSURE")

CallAccepted(c, d) ==
    /\ call[c].pc = "idle" /\ now < d /\ owner.pc # "stopped"
    /\ Len(queue) < Capacity
    /\ call' = [call EXCEPT ![c] = [pc |-> "waiting", deadline |-> d, answer |-> "none"]]
    /\ queue' = Append(queue, c)
    /\ accepted' = Append(accepted, c)
    /\ UNCHANGED <<now, owner, committed, jobs, backup, nextCheck, failed, log, started, panicked>>

\* The awaiting future is dropped; the job stays accepted.
DropCaller(c) ==
    /\ call[c].pc = "waiting"
    /\ call' = [call EXCEPT ![c].pc = "dropped"]
    /\ UNCHANGED <<now, queue, owner, committed, jobs, backup, nextCheck, failed, log, history>>
-----------------------------------------------------------------------------
\* A job starts only before its deadline; the wait in the queue counts.
startable(c) == now < call[c].deadline

\* A bug: the job is looked at but stays in the channel.
remaining_mutant(jobsLeft) == jobsLeft

\* The channel hands out the oldest job.
remaining(jobsLeft) == Tail(jobsLeft)

Receive ==
    /\ owner.pc = "recv" /\ queue # <<>>
    /\ LET c == Head(queue) IN
        /\ queue' = remaining(queue)
        /\ started' = Append(started, c)
        /\ IF startable(c)
           THEN /\ owner' = [pc |-> "running", job |-> <<c>>]
                /\ UNCHANGED <<call, jobs>>
           ELSE /\ owner' = [pc |-> "join", job |-> <<>>]
                /\ call' = answered(c, "QUEUE_DEADLINE")
                /\ jobs' = jobs + 1
    /\ UNCHANGED <<now, committed, backup, nextCheck, failed, log, accepted, panicked>>

\* recv_timeout: nothing to do for a second.
Idle ==
    /\ owner.pc = "recv" /\ queue = <<>>
    /\ owner' = [owner EXCEPT !.pc = "join"]
    /\ UNCHANGED <<now, call, queue, committed, jobs, backup, nextCheck, failed, log, history>>

\* Every handle is gone: what was queued has been received, the loop breaks, and
\* a backup under way is never joined.
Disconnected ==
    /\ owner.pc = "recv" /\ queue = <<>>
    /\ \A c \in Caller : call[c].pc \in {"dropped", "done"}
    /\ owner' = [owner EXCEPT !.pc = "stopped"]
    /\ UNCHANGED <<now, call, queue, committed, jobs, backup, nextCheck, failed, log, history>>

Running(c) == owner.pc = "running" /\ owner.job = <<c>>

Commit(c) ==
    /\ Running(c) /\ committed[c] < Transactions
    /\ committed' = [committed EXCEPT ![c] = @ + 1]
    /\ UNCHANGED <<now, call, queue, owner, jobs, backup, nextCheck, failed, log, history>>

jobDone(c, a) ==
    /\ call' = answered(c, a)
    /\ jobs' = jobs + 1
    /\ owner' = [pc |-> "join", job |-> <<>>]
    /\ UNCHANGED <<now, queue, committed, backup, nextCheck, failed, log, history>>

\* A bug: past the deadline the job answers an error whatever it committed.
outcome_mutant(c) ==
    IF now >= call[c].deadline THEN {"STORAGE_DEADLINE"}
    ELSE IF committed[c] = Transactions THEN {"OK"} ELSE {}

\* What run_before_deadline returns: the operation's own result, an error of
\* its own at any point too, except that an interrupted statement past the
\* deadline is a deadline error.
outcome(c) ==
    {"ERROR"} \cup (IF committed[c] = Transactions THEN {"OK"}
                   ELSE IF now >= call[c].deadline THEN {"STORAGE_DEADLINE"} ELSE {})

run_before_deadline(c) == Running(c) /\ \E a \in outcome(c) : jobDone(c, a)

\* A job that panics ends the thread: its sender and every queued job are
\* dropped, so each of their callers reads a stopped worker.
Panic(c) ==
    /\ Running(c)
    /\ owner' = [pc |-> "stopped", job |-> <<>>]
    /\ call' = [x \in Caller |->
                    IF x = c \/ \E i \in 1..Len(queue) : queue[i] = x
                    THEN answered(x, "STOPPED")[x] ELSE call[x]]
    /\ queue' = <<>>
    /\ UNCHANGED <<now, committed, jobs, backup, nextCheck, failed, log, history>>
-----------------------------------------------------------------------------
\* After every job and every idle second: a finished backup is joined.  Only
\* a success moves the cadence on and clears the error.
joined ==
    /\ owner' = [owner EXCEPT !.pc = "maintain"]
    /\ IF backup.thread \in {"ok", "failed", "panicked"}
       THEN /\ failed' = (backup.thread # "ok")
            /\ backup' = [thread |-> "none", event |-> NoEvent,
                          last |-> IF backup.thread = "ok" THEN now ELSE backup.last,
                          ever |-> backup.ever \/ backup.thread = "ok"]
       ELSE UNCHANGED <<failed, backup>>
    /\ UNCHANGED <<now, call, queue, committed, jobs, nextCheck, log, history>>

\* A bug: the owner waits for the copy to end.
Join_mutant == owner.pc = "join" /\ backup.thread # "copying" /\ joined

Join == owner.pc = "join" /\ joined

NotDue ==
    /\ owner.pc = "maintain" /\ now < nextCheck
    /\ owner' = [owner EXCEPT !.pc = "recv"]
    /\ UNCHANGED <<now, call, queue, committed, jobs, backup, nextCheck, failed, log, history>>

\* One passive checkpoint turn, opened and closed in the history (the event
\* is never evicted in between: the owner adds the next one), then the start
\* of the backup thread when none is pending and one is due.
Maintain(ok, spawned) ==
    /\ owner.pc = "maintain" /\ now >= nextCheck
    /\ owner' = [owner EXCEPT !.pc = "recv"]
    /\ nextCheck' = now + MaintenanceInterval
    /\ LET wal == [id |-> nextId + 1, kind |-> "wal", outcome |-> IF ok THEN "ok" ELSE "error"]
           after == Append(ring(events), wal)
           copy == [id |-> nextId + 2, kind |-> "backup",
                    outcome |-> IF spawned THEN "in_progress" ELSE "error"]
           starts == backup.thread = "none" /\ backup_due
       IN  /\ events' = IF starts THEN Append(ring(after), copy) ELSE after
           /\ nextId' = nextId + (IF starts THEN 2 ELSE 1)
           /\ evicted' = nextId' - Len(events')
           /\ backup' = IF starts /\ spawned
                        THEN [backup EXCEPT !.thread = "copying", !.event = nextId + 2] ELSE backup
           /\ failed' = (failed \/ ~ok \/ (starts /\ ~spawned))
    /\ UNCHANGED <<now, call, queue, committed, jobs, history>>

\* The backup thread closes its own event, then ends; one that panics ends
\* without closing it.
BackupEnds(how) ==
    /\ backup.thread = "copying"
    /\ backup' = [backup EXCEPT !.thread = how]
    /\ events' = IF how = "panicked" THEN events ELSE finished(events, backup.event, how = "ok")
    /\ panicked' = IF how = "panicked" THEN panicked \cup {backup.event} ELSE panicked
    /\ UNCHANGED <<now, call, queue, owner, committed, jobs, nextCheck, failed, nextId, evicted,
                   accepted, started>>

Tick ==
    /\ now < MaxTime
    /\ now' = now + 1
    /\ UNCHANGED <<call, queue, owner, committed, jobs, backup, nextCheck, failed, log, history>>

Owner ==
    \/ Receive \/ Idle \/ Join \/ NotDue
    \/ \E ok, spawned \in BOOLEAN : Maintain(ok, spawned)
    \/ \E c \in Caller : Commit(c) \/ run_before_deadline(c)

Next ==
    \/ Owner
    \/ \E c \in Caller, d \in 0..MaxTime + 1 :
            CallExpired(c, d) \/ CallStopped(c, d) \/ CallFull(c, d) \/ CallAccepted(c, d)
    \/ \E c \in Caller : DropCaller(c) \/ Panic(c)
    \/ \E how \in {"ok", "failed", "panicked"} : BackupEnds(how)
    \/ Disconnected \/ Tick

Spec == Init /\ [][Next]_vars

\* The owner thread is never suspended for ever: SQLite finishes or is
\* interrupted, and the loop has no other wait than its one-second receive.
FairSpec == Spec /\ WF_vars(Owner)
-----------------------------------------------------------------------------
\* What an answer says about the database (account_worker.rs:369-423): a job
\* refused by the queue or by the queue deadline has committed nothing, one
\* that answers OK has committed everything, one that answers the storage
\* deadline has not committed its last transaction (an error of the operation
\* says nothing).
AnswerTellsCommit ==
    \A c \in Caller :
        /\ call[c].answer \in {"QUEUE_DEADLINE", "BACKPRESSURE"} => committed[c] = 0
        /\ call[c].answer = "OK" => committed[c] = Transactions
        /\ call[c].answer = "STORAGE_DEADLINE" => committed[c] < Transactions

\* Jobs run in the order they were accepted, none is skipped and none runs
\* twice (the channel is the only order between financial writes).
RunsInOrder ==
    /\ IsPrefix(started, accepted)
    /\ owner.pc # "stopped" => accepted = started \o queue

\* An event shown as in progress belongs to the backup that is copying now, or
\* to one whose thread panicked: nobody closes that one, and only the ring
\* forgets it.
InProgressIsUnderWay ==
    \A i \in 1..Len(events) :
        events[i].outcome = "in_progress" =>
            \/ backup.thread = "copying" /\ backup.event = events[i].id
            \/ events[i].id \in panicked

\* Every accepted job is answered, also when the request that made it is
\* gone ("Dropping an HTTP request never cancels a SQL commit").
AcceptedIsAnswered ==
    \A c \in Caller : (call[c].pc \in {"waiting", "dropped"}) ~> (call[c].answer # "none")
===============================================================================
