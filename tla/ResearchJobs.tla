------------------------------ MODULE ResearchJobs ------------------------------
(***************************************************************************)
(* The research and market jobs of the agent (okx-agent/src/analytics):    *)
(* the SQLite catalog (jobs.rs), the tasks that compute a job under the    *)
(* heavy and the memory semaphores (mod.rs, market.rs, executor.rs), the   *)
(* content-addressed artifacts (okx-research/src/lib.rs) and the retention *)
(* that runs when the service starts.                                      *)
(*                                                                         *)
(* A job is named by the hash of its request, idempotency key included.  A *)
(* result is <<"leaf", i>> for one instrument, shared by every job that    *)
(* computes the same one, or <<"batch", S, F>> for a manifest that lists   *)
(* the leaves of S and the failures F.                                     *)
(***************************************************************************)
EXTENDS Integers, FiniteSets, FiniteSetsExt

CONSTANTS
    Research,   \* research jobs
    Market,     \* market queries
    GlobalRank, \* market queries that rank the whole venue
    Parts,      \* job -> instruments
    Cost,       \* job -> estimated memory
    Memory,     \* research_memory permits (4096 MiB)
    Heavy,      \* heavy permits (2)
    QueueLimit, \* jobs admitted as queued or running (34)
    RetainPage, \* retention candidates per start (128)
    Cancelling, \* jobs some client may cancel
    Pinning,    \* jobs some client may pin
    Aging,      \* jobs that may get seven days old
    MaxRuns,    \* bound: times a job is started
    MaxFaults,  \* bound: restarts and failed computations
    None

Jobs == Research \cup Market
Run == 1..MaxRuns

VARIABLES
    row,        \* job -> its row of research_jobs
    token,      \* job -> the run whose canceller is in the map
    signalled,  \* cancellers that were set
    runs,       \* job -> tasks spawned so far
    task,       \* <<job, run>> -> the task
    cancelling, \* cancel calls between their commit and their signal
    files,      \* artifacts on disk
    retire,     \* retention in progress: jobs to expire and files to delete
    phase,      \* "opening", "retaining" or "up"
    faults

vars == <<row, token, signalled, runs, task, cancelling, files, retire, phase, faults>>
catalog == <<row, files>>
signals == <<token, signalled, cancelling>>

Absent == [state |-> "absent", artifact |-> None, error |-> "none", pinned |-> FALSE, aged |-> FALSE]
NoTask == [pc |-> "none", todo |-> {}, ok |-> {}, bad |-> {}, error |-> "none"]
Active == {"queued", "running"}
Terminal == {"completed", "failed", "cancelled", "interrupted"}
Tasks == Jobs \X Run

Leaf(i) == <<"leaf", i>>
Result(j, ok, bad) == IF Cardinality(Parts[j]) = 1 THEN Leaf(CHOOSE i \in Parts[j]: TRUE)
                      ELSE <<"batch", ok, bad>>

\* artifact_graph: what a root keeps reachable.
artifact_graph(a) == {a} \cup (IF a[1] = "batch" THEN {Leaf(i): i \in a[2]} ELSE {})

\* A content-addressed file appears whole, by a rename, or was there.
publish_evidence(a) == files' = files \cup {a}

Fault == faults < MaxFaults /\ faults' = faults + 1
Calm == UNCHANGED faults

-----------------------------------------------------------------------------
(* Jobs: the catalog *)

is_transient_rate_defer_mutant(j) == row[j].state \in {"failed", "cancelled"}

\* A failure of the public rate budget is not an answer: it may run again.
is_transient_rate_defer(j) == row[j].state = "failed" /\ row[j].error = "defer"

Admitted == {j \in Jobs: row[j].state \in Active}

enqueue_new_mutant(j) == (row[j].state = "absent" /\ Cardinality(Admitted) < QueueLimit) \/ is_transient_rate_defer(j)

\* enqueue: a new or deferred job is admitted while the queue has room.
enqueue_new(j) ==
    /\ row[j].state = "absent" \/ is_transient_rate_defer(j)
    /\ Cardinality(Admitted) < QueueLimit

\* The commit of enqueue; the canceller is inserted after the lock is dropped.
Enqueue(j) ==
    /\ phase = "up" /\ runs[j] < MaxRuns /\ enqueue_new(j)
    /\ row' = [row EXCEPT ![j].state = "queued", ![j].artifact = None, ![j].error = "none"]
    /\ runs' = [runs EXCEPT ![j] = @ + 1]
    /\ task' = [task EXCEPT ![<<j, runs[j] + 1>>] = [NoTask EXCEPT !.pc = "register", !.todo = Parts[j]]]
    /\ UNCHANGED <<signals, files, retire, phase>> /\ Calm

updated_mutant(j, state, artifact, error) ==
    IF row[j].state \in Active \cup {"cancelled"}
    THEN row' = [row EXCEPT ![j].state = state, ![j].artifact = artifact, ![j].error = error]
    ELSE UNCHANGED row

\* update: only a queued or running row changes; late compute is ignored.
updated(j, state, artifact, error) ==
    IF row[j].state \in Active
    THEN row' = [row EXCEPT ![j].state = state, ![j].artifact = artifact, ![j].error = error]
    ELSE UNCHANGED row

Cancel(j) ==
    /\ phase = "up" /\ j \in Cancelling /\ row[j].state # "absent" /\ j \notin cancelling
    /\ row' = IF row[j].state \in Active THEN [row EXCEPT ![j].state = "cancelled"] ELSE row
    /\ cancelling' = IF row'[j].state = "cancelled" THEN cancelling \cup {j} ELSE cancelling
    /\ UNCHANGED <<token, signalled, runs, task, files, retire, phase>> /\ Calm

CancelSignal(j) ==
    /\ phase = "up" /\ j \in cancelling
    /\ cancelling' = cancelling \ {j}
    /\ signalled' = IF token[j] # None THEN signalled \cup {<<j, token[j]>>} ELSE signalled
    /\ token' = [token EXCEPT ![j] = None]
    /\ UNCHANGED <<catalog, runs, task, retire, phase>> /\ Calm

pin(j) ==
    /\ phase = "up" /\ j \in Pinning /\ row[j].state # "absent"
    /\ \E p \in BOOLEAN: row' = [row EXCEPT ![j].pinned = p]
    /\ UNCHANGED <<signals, runs, task, files, retire, phase>> /\ Calm

-----------------------------------------------------------------------------
(* The tasks *)

At(t, pc) == phase = "up" /\ task[t].pc = pc
Goto(t, pc) == task' = [task EXCEPT ![t].pc = pc]
Fails(t, error) == task' = [task EXCEPT ![t].pc = "fail", ![t].error = error]
Cancelled(t) == t \in signalled

Heavies == {t \in Tasks: \/ t[1] \in Research /\ task[t].pc \in {"memory", "start", "work", "publish", "finish", "fail"}
                         \/ t[1] \in GlobalRank /\ task[t].pc \in {"work", "publish", "finish", "fail"}}
memory_held_mutant(t) == task[t].pc \in {"start", "work", "publish", "finish", "fail", "untoken", "done"}
\* The reservation of a batch is held through its terminal transition.
memory_held(t) == task[t].pc \in {"start", "work", "publish", "finish", "fail"}
MemoryFree == Memory - MapThenSumSet(LAMBDA t: Cost[t[1]], {t \in Tasks: t[1] \in Research /\ memory_held(t)})

Register(j, r) ==
    /\ At(<<j, r>>, "register")
    /\ token' = [token EXCEPT ![j] = r]
    /\ Goto(<<j, r>>, IF j \in Research THEN "heavy" ELSE "start")
    /\ UNCHANGED <<catalog, signalled, runs, cancelling, retire, phase>> /\ Calm

AcquireHeavy(t) ==
    /\ At(t, "heavy")
    /\ \/ Cardinality(Heavies) < Heavy /\ Goto(t, "memory")
       \/ Cancelled(t) /\ Fails(t, "cancelled")
    /\ UNCHANGED <<catalog, signals, runs, retire, phase>> /\ Calm

AcquireMemory(t) ==
    /\ At(t, "memory")
    /\ \/ Cost[t[1]] <= MemoryFree /\ Goto(t, "start")
       \/ Cancelled(t) /\ Fails(t, "cancelled")
    /\ UNCHANGED <<catalog, signals, runs, retire, phase>> /\ Calm

Start(t) ==
    /\ At(t, "start")
    /\ updated(t[1], "running", None, "none")
    /\ Goto(t, IF t[1] \in GlobalRank THEN "scan" ELSE "work")
    /\ UNCHANGED <<signals, runs, files, retire, phase>> /\ Calm

\* A scan of the venue takes a heavy permit after it is marked as running.
AcquireScan(t) ==
    /\ At(t, "scan") /\ Cardinality(Heavies) < Heavy /\ Goto(t, "work")
    /\ UNCHANGED <<catalog, signals, runs, retire, phase>> /\ Calm

\* execute_one on the CPU executor: the leaf is published, or the
\* instrument fails by itself (source gap, rate defer, full CPU queue).
execute_one(t, i) ==
    /\ At(t, "work") /\ i \in task[t].todo /\ ~Cancelled(t)
    /\ \/ /\ publish_evidence(Leaf(i)) /\ Calm
          /\ task' = [task EXCEPT ![t].todo = @ \ {i}, ![t].ok = @ \cup {i}, ![t].pc = "publish"]
       \/ /\ Fault /\ UNCHANGED files
          /\ \E error \in {"defer", "source"}: task' =
                IF Cardinality(Parts[t[1]]) = 1 THEN [task EXCEPT ![t].pc = "fail", ![t].error = error]
                ELSE [task EXCEPT ![t].todo = @ \ {i}, ![t].bad = @ \cup {i}, ![t].pc = "publish"]
    /\ UNCHANGED <<row, signals, runs, retire, phase>>

StopWork(t) ==
    /\ At(t, "work") /\ Cancelled(t) /\ Fails(t, "cancelled")
    /\ UNCHANGED <<catalog, signals, runs, retire, phase>> /\ Calm

\* After each instrument of a batch its manifest is published and becomes
\* the job's artifact; the CPU queue may be full, or the write fail.  The
\* task of a market query returns that error and leaves its row running.
Publish(t) ==
    LET j == t[1]
        artifact == Result(j, task[t].ok, task[t].bad) IN
    /\ At(t, "publish")
    /\ \/ /\ ~Cancelled(t)
          /\ publish_evidence(artifact)
          /\ IF Cardinality(Parts[j]) = 1 \/ j \in Market THEN UNCHANGED row ELSE updated(j, "running", artifact, "none")
          /\ Goto(t, IF task[t].todo = {} THEN "finish" ELSE "work") /\ Calm
       \/ /\ Cancelled(t) \/ Fault
          /\ Cancelled(t) => Calm
          /\ UNCHANGED <<row, files>>
          /\ IF j \in Market THEN Goto(t, "abandoned")
             ELSE Fails(t, IF Cancelled(t) THEN "cancelled" ELSE "queue")
    /\ UNCHANGED <<signals, runs, retire, phase>>

\* The update's second half removes the canceller when the row changed.
Settled(t) == Goto(t, IF row[t[1]].state \in Active THEN "untoken" ELSE "done")

Finish(t) ==
    LET j == t[1] IN
    /\ At(t, "finish")
    /\ updated(j, "completed", Result(j, task[t].ok, task[t].bad), "none") /\ Settled(t)
    /\ UNCHANGED <<signals, runs, files, retire, phase>> /\ Calm

\* A failed research job keeps the manifest it had published.
Fail(t) ==
    LET j == t[1] IN
    /\ At(t, "fail")
    /\ updated(j, IF Cancelled(t) THEN "cancelled" ELSE "failed",
               IF j \in Market THEN None ELSE row[j].artifact, task[t].error)
    /\ Settled(t)
    /\ UNCHANGED <<signals, runs, files, retire, phase>> /\ Calm

Untoken(t) ==
    /\ At(t, "untoken") /\ Goto(t, "done")
    /\ token' = [token EXCEPT ![t[1]] = None]
    /\ UNCHANGED <<catalog, signalled, runs, cancelling, retire, phase>> /\ Calm

-----------------------------------------------------------------------------
(* Restart and retention *)

Crash ==
    /\ phase = "up" \/ phase = "retaining"
    /\ Fault
    /\ phase' = "opening"
    /\ task' = [t \in Tasks |-> IF task[t].pc = "none" THEN NoTask ELSE [task[t] EXCEPT !.pc = "done"]]
    /\ token' = [j \in Jobs |-> None] /\ signalled' = {} /\ cancelling' = {}
    /\ retire' = [jobs |-> {}, files |-> {}]
    /\ UNCHANGED <<catalog, runs>>

\* The wall clock passes seven days after a job was created.
Age(j) ==
    /\ j \in Aging /\ row[j].state # "absent" /\ ~row[j].aged
    /\ row' = [row EXCEPT ![j].aged = TRUE]
    /\ UNCHANGED <<signals, runs, task, files, retire, phase>> /\ Calm

Interrupted_mutant == [j \in Jobs |-> IF row[j].state = "running" THEN [row[j] EXCEPT !.state = "interrupted"] ELSE row[j]]
Interrupted == [j \in Jobs |-> IF row[j].state \in Active THEN [row[j] EXCEPT !.state = "interrupted"] ELSE row[j]]
Owned(rows, a) == {j \in Jobs: rows[j].artifact = a}
Roots(rows) == {rows[j].artifact: j \in Jobs} \ {None}

\* A root with more owners than are retiring protects its whole graph.
garbage(rows, expired) ==
    UNION {artifact_graph(rows[j].artifact): j \in expired} \
    UNION {artifact_graph(a): a \in {b \in Roots(rows): ~(Owned(rows, b) \subseteq expired)}}

retention_candidates(rows) ==
    {j \in Jobs: rows[j].state \in Terminal /\ rows[j].artifact # None /\ ~rows[j].pinned /\ rows[j].aged}

Open_mutant ==
    /\ phase = "opening"
    /\ row' = [j \in Jobs |-> IF row[j].state \in Active THEN [row[j] EXCEPT !.state = "completed"] ELSE row[j]]
    /\ retire' = [jobs |-> {}, files |-> {}]
    /\ phase' = "retaining"
    /\ UNCHANGED <<signals, runs, task, files>> /\ Calm

\* Jobs::open, then apply_retention on a page of the oldest candidates.
Open ==
    /\ phase = "opening" /\ row' = Interrupted
    /\ \E expired \in SUBSET retention_candidates(row'):
          /\ Cardinality(expired) = Min({RetainPage, Cardinality(retention_candidates(row'))})
          /\ retire' = [jobs |-> expired, files |-> garbage(row', expired)]
    /\ phase' = "retaining"
    /\ UNCHANGED <<signals, runs, task, files>> /\ Calm

Expire(j) ==
    /\ phase = "retaining" /\ j \in retire.jobs
    /\ row' = [row EXCEPT ![j].artifact = None, ![j].error = "expired"]
    /\ retire' = [retire EXCEPT !.jobs = @ \ {j}]
    /\ UNCHANGED <<signals, runs, task, files, phase>> /\ Calm

RemoveEvidence_mutant(a) ==
    /\ phase = "retaining" /\ a \in retire.files
    /\ files' = files \ {a}
    /\ retire' = [retire EXCEPT !.files = @ \ {a}]
    /\ UNCHANGED <<row, signals, runs, task, phase>> /\ Calm

\* Files go only after every job of the page is marked as expired.
RemoveEvidence(a) ==
    /\ phase = "retaining" /\ retire.jobs = {} /\ a \in retire.files
    /\ files' = files \ {a}
    /\ retire' = [retire EXCEPT !.files = @ \ {a}]
    /\ UNCHANGED <<row, signals, runs, task, phase>> /\ Calm

Ready ==
    /\ phase = "retaining" /\ retire = [jobs |-> {}, files |-> {}]
    /\ phase' = "up"
    /\ UNCHANGED <<catalog, signals, runs, task, retire>> /\ Calm

-----------------------------------------------------------------------------
Init ==
    /\ row = [j \in Jobs |-> Absent] /\ token = [j \in Jobs |-> None] /\ signalled = {}
    /\ runs = [j \in Jobs |-> 0] /\ task = [t \in Tasks |-> NoTask] /\ cancelling = {}
    /\ files = {} /\ retire = [jobs |-> {}, files |-> {}] /\ phase = "up" /\ faults = 0

Compute(t) ==
    \/ Register(t[1], t[2]) \/ AcquireHeavy(t) \/ AcquireMemory(t) \/ Start(t) \/ AcquireScan(t) \/ StopWork(t)
    \/ (\E i \in Parts[t[1]]: execute_one(t, i)) \/ Publish(t) \/ Finish(t) \/ Fail(t) \/ Untoken(t)

Recover == Open \/ Ready \/ (\E j \in Jobs: Expire(j)) \/ \E a \in retire.files: RemoveEvidence(a)

Next ==
    \/ \E j \in Jobs: Enqueue(j) \/ Cancel(j) \/ CancelSignal(j) \/ pin(j) \/ Age(j)
    \/ \E t \in Tasks: Compute(t)
    \/ Crash \/ Recover

Spec == Init /\ [][Next]_vars

\* Spawned tasks run on, a cancel call that committed signals, and a start
\* runs to its end.
FairSpec ==
    /\ Spec /\ WF_vars(Recover)
    /\ \A t \in Tasks: WF_vars(Compute(t))
    /\ \A j \in Jobs: WF_vars(CancelSignal(j))

-----------------------------------------------------------------------------
Live(t) == task[t].pc \notin {"none", "abandoned", "done"}
Computing(t) == Live(t) /\ task[t].pc # "untoken"
Abandoned(j) == \E r \in Run: task[<<j, r>>].pc = "abandoned"

TypeOK ==
    /\ \A j \in Jobs: /\ row[j].state \in {"absent"} \cup Active \cup Terminal
                      /\ token[j] \in {None} \cup Run
                      /\ row[j].state = "completed" => row[j].artifact # None \/ row[j].error = "expired"
    /\ phase \in {"opening", "retaining", "up"}

\* Whatever a job's row refers to is on disk with everything it links to,
\* over crashes at any point of the retention and with leaves and manifests
\* shared between jobs (apply_retention marks before it deletes).
ResultReadable ==
    \A j \in Jobs: row[j].artifact # None => artifact_graph(row[j].artifact) \subseteq files

\* A queued or running row has a task that will settle it, so that no job
\* hangs until the next restart (the task of AnalyticsService::submit), but
\* for a market query whose answer could not be published: the `?` after
\* its cpu.run leaves the row running with no task.
ActiveHasTask ==
    phase = "up" => \A j \in Jobs: row[j].state \in Active =>
        (\E r \in Run: Computing(<<j, r>>)) \/ (j \in Market /\ Abandoned(j))

\* One computation per request: duplicates and retries share it.
OneComputation ==
    \A j \in Jobs: Cardinality({r \in Run: Computing(<<j, r>>)}) <= 1

\* A terminal answer is final: late compute cannot revive a cancelled job,
\* and only a job deferred by the rate budget may start again.
TerminalStays ==
    \A j \in Jobs: row[j].state \in Terminal =>
        row'[j].state = row[j].state \/ (is_transient_rate_defer(j) /\ row'[j].state = "queued")
TerminalIsFinal == [][TerminalStays]_vars

\* The map of cancellers holds those of running requests only (its comment
\* in jobs.rs), but for the canceller of a task that abandoned its row, and
\* for one that enqueue inserted after the job was already cancelled.
CancellersAreOfTasks ==
    phase = "up" => \A j \in Jobs: token[j] # None =>
        (\E r \in Run: Live(<<j, r>>)) \/ Abandoned(j) \/ row[j].state = "cancelled"

\* Every admitted job ends, whatever waits for the permits before it, but for
\* a market query whose answer could not be published.
EveryJobEnds ==
    \A j \in Jobs: (row[j].state \in Active) ~> (row[j].state \notin Active \/ (j \in Market /\ Abandoned(j)))
=============================================================================
