----------------------------- MODULE MCServices -----------------------------
(***************************************************************************)
(* The services around the account for TLC: the update of the controller,  *)
(* the host agent it keeps, the mailbox and the polls it is asked through, *)
(* the release it fetches, the migration of its installation, the log of   *)
(* its process, the research jobs with their pages and sources, and the    *)
(* market queries. Every behaviour exercises one of them and the others    *)
(* stay at rest, so that a run has the sum of their states and not the     *)
(* product.                                                                *)
(***************************************************************************)
EXTENDS ControllerUpdate, Sequences

CONSTANT Parts   \* the components a run lets move

VARIABLES
    part,            \* the component this behaviour is about
    desiredFile, binary, staging, backup, provenance, control, process, lease, faults, requests,
    issue, clock, file, validator, poll, late, unknown, mailFaults, errors,
    pc, verified, failures, wait, due, age, taken, trouble, asked, unheard, identified,
    served, main, mains, moves, ask, fetchPc, zip, head, total, etag, elapsed, installed,
    rootFile, record, rootIssue, ctl, rootFaults, mig, legacy,
    pipe, closed, logFile, handle, size, logPc, n, line, complete, count, drained, logFaults,
    row, token, signalled, runs, task, cancelling, researchFiles, retire, phase, researchFaults,
    pagesSize, damaged, reader,
    now, confirmed, entries, locks, excluded, load,
    gen, live, source, jobs, walk

Order(op, version) == [op |-> op, version |-> version]
UpdateTo(version) == <<Order("stage", version), Order("handoff", version)>>
MCVersion == {"v0", "v1", "v2"}
SomeScripts ==
    {UpdateTo("v1") \o UpdateTo("v2"),
     <<Order("stage", "v1"), Order("arm", "v1")>> \o UpdateTo("v1"),
     <<Order("stage", "v1"), Order("arm", "v1"), Order("abort", "v1")>> \o UpdateTo("v2"),
     <<Order("arm", "v1"), Order("stage", "v1"), Order("stage", "v2"), Order("handoff", "v1")>>,
     UpdateTo("v1") \o <<Order("abort", "v1")>> \o UpdateTo("v2")}
FewScripts ==
    {UpdateTo("v1") \o UpdateTo("v2"), <<Order("stage", "v1"), Order("arm", "v1")>> \o UpdateTo("v1")}
\* Two releases of one size, one of a later tree, one too large.
Obj(name, bytes, tag, h, tree) == [name |-> name, size |-> bytes, etag |-> tag, head |-> h, tree |-> tree]
MCTagged == {Obj("a", 4, "x", "h1", "t1"), Obj("b", 4, "y", "h1", "t2"), Obj("c", 3, "z", "h2", "t1"),
             Obj("d", 6, "w", "h1", "t1")}
MCUntagged == {Obj("a", 4, "none", "h1", "t1"), Obj("b", 4, "none", "h2", "t1"), Obj("c", 4, "none", "h1", "t2")}
CiRun(accepted, expired, named) == [accepted |-> accepted, head |-> "h1", expired |-> expired, named |-> named]
MCRuns == {CiRun(TRUE, FALSE, "h1"), CiRun(FALSE, FALSE, "h1"), CiRun(TRUE, TRUE, "h1"), CiRun(TRUE, FALSE, "h2")}
PartsOf == [a |-> {"x"}, b |-> {"x", "y"}, c |-> {"x"}, m |-> {"q"}]
CostOf == [a |-> 1, b |-> 2, c |-> 2, m |-> 1]
\* Two loads of one range, one of another, and the reads that share the permits.
Range(kind, start, end) == [kind |-> kind, start |-> start, end |-> end]
SharedQueries == {Range("candles", 0, 3), Range("candles", 1, 4), Range("funding", 0, 4)}
PagedQueries == {Range("candles", 0, 4), Range("candles", 1, 5), Range("funding", 1, 5), Range("oi", 2, 4)}
Question(kind, names, fields, sort, min) ==
    [kind |-> kind, names |-> names, fields |-> fields, sort |-> sort, min |-> min]
Got(bars, quote, value, why) == [bars |-> bars, quote |-> quote, value |-> value, why |-> why]
RankRequests == {Question("rank", {}, {"returns"}, "returns", 1)}
ScreenRequests == {Question("explicit", {1, 2}, {"returns", "spread_bps"}, "returns", -1),
                   Question("explicit", {1}, {"returns"}, "none", -1),
                   Question("rank", {}, {"spread_bps"}, "spread_bps", -1)}
ScreenAndRank == {Question("rank", {}, {"returns"}, "returns", -1),
                  Question("explicit", {1, 2}, {"returns"}, "returns", -1)}
FewSources == {Got({1, 2}, TRUE, 0, "ok"), Got({1, 2}, TRUE, 1, "ok"), Got({1}, TRUE, 1, "ok"),
               Got({}, FALSE, 0, "deferred")}
GapSources == {Got({1, 2}, TRUE, 1, "ok"), Got({2}, TRUE, 0, "ok"), Got({1, 2}, FALSE, 1, "ok"),
               Got({}, FALSE, 0, "failed"), Got({}, FALSE, 0, "deferred")}
OneSource == {Got({1, 2}, TRUE, 1, "ok")}
TwoSources == {Got({1, 2}, TRUE, 1, "ok"), Got({}, FALSE, 0, "deferred")}

Agent == INSTANCE HostAgent WITH
    Release <- {"r1", "r2"}, ControllerRelease <- "r1", Process <- {"p1", "p2", "p3"}, None <- None,
    Operations <- {"start", "stop", "restart", "kill", "deploy", "backup", "restore"},
    MaxFaults <- 2, MaxRequests <- 3
Wanted == INSTANCE HostAgent WITH
    Release <- {"r1", "r2"}, ControllerRelease <- "r1", Process <- {"p1", "p2", "p3"}, None <- None,
    Operations <- {"start", "stop", "kill", "deploy"}, MaxFaults <- 2, MaxRequests <- 2
Mail == INSTANCE IssueMailbox WITH
    Request <- {"a", "b", "foreign", "malformed"}, Foreign <- "foreign", Malformed <- "malformed",
    PerPage <- 2, MaxPages <- 3, MaxComments <- 2, MaxSecond <- 2, MaxFaults <- 1, MaxErrors <- 1,
    faults <- mailFaults
Answers == INSTANCE IssueMailbox WITH
    Request <- {"a", "foreign"}, Foreign <- "foreign", Malformed <- "foreign", PerPage <- 1,
    MaxPages <- 3, MaxComments <- 3, MaxSecond <- 0, MaxFaults <- 1, MaxErrors <- 1,
    faults <- mailFaults
ControlPolls == INSTANCE ControlPoll WITH
    Transient <- <<1, 2>>, Slow <- <<2, 3>>, RetryAfter <- {1, 4}, Pending <- TRUE, MaxTrouble <- 4,
    CallTicks <- 2
Tagged == INSTANCE ReleaseFetch WITH
    Objects <- MCTagged, Runs <- MCRuns, Trees <- {"t1", "t2"}, Part <- 2, MaxZip <- 5,
    Deadline <- 2, Faults <- {"replace", "status", "range", "body", "refuse"}, MaxMoves <- 1,
    pc <- fetchPc
Untagged == INSTANCE ReleaseFetch WITH
    Objects <- MCUntagged, Runs <- MCRuns, Trees <- {"t1", "t2"}, Part <- 1, MaxZip <- 5,
    Deadline <- 2, Faults <- {"replace", "body", "refuse"}, MaxMoves <- 2, pc <- fetchPc
Root == INSTANCE RootMigration WITH
    Requests <- {"a", "b"}, Pids <- {1, 2}, MaxBorn <- 2, MaxFaults <- 3,
    Faults <- {"crash", "migrator", "lost", "spawn", "upgrade"}, LegacyFaults <- FALSE,
    Legacy <- FALSE, file <- rootFile, issue <- rootIssue, faults <- rootFaults
Bridge == INSTANCE RootMigration WITH
    Requests <- {"a"}, Pids <- {1, 2}, MaxBorn <- 2, MaxFaults <- 2,
    Faults <- {"crash", "migrator", "lost", "spawn", "upgrade"}, LegacyFaults <- TRUE, Legacy <- TRUE,
    file <- rootFile, issue <- rootIssue, faults <- rootFaults
Rooting == INSTANCE RootMigration WITH
    Requests <- {"a"}, Pids <- {1, 2}, MaxBorn <- 2, MaxFaults <- 2,
    Faults <- {"crash", "migrator", "lost", "spawn"}, LegacyFaults <- FALSE, Legacy <- FALSE,
    file <- rootFile, issue <- rootIssue, faults <- rootFaults
Log == INSTANCE ProcessLog WITH
    LOG_FILES <- 3, Limit <- 3, Lengths <- {1, 2}, PipeCapacity <- 1, MaxLines <- 4,
    Faults <- {"rename", "open", "write", "kill", "torn write"}, MaxFaults <- 2, file <- logFile,
    pc <- logPc, faults <- logFaults
Drain == INSTANCE ProcessLog WITH
    LOG_FILES <- 3, Limit <- 3, Lengths <- {1, 2}, PipeCapacity <- 1, MaxLines <- 3,
    Faults <- {"rename", "open", "write", "kill", "torn write"}, MaxFaults <- 1, file <- logFile,
    pc <- logPc, faults <- logFaults
Job == INSTANCE ResearchJobs WITH
    Research <- {"a"}, Market <- {"m"}, GlobalRank <- {"m"}, Parts <- PartsOf, Cost <- CostOf,
    Memory <- 2, Heavy <- 1, QueueLimit <- 2, RetainPage <- 1, Cancelling <- {"a", "m"}, Pinning <- {},
    Aging <- {}, MaxRuns <- 1, MaxFaults <- 1, None <- None, files <- researchFiles,
    faults <- researchFaults
Retry == INSTANCE ResearchJobs WITH
    Research <- {"a"}, Market <- {"m"}, GlobalRank <- {"m"}, Parts <- PartsOf, Cost <- CostOf,
    Memory <- 2, Heavy <- 1, QueueLimit <- 1, RetainPage <- 1, Cancelling <- {"a", "m"},
    Pinning <- {}, Aging <- {}, MaxRuns <- 2, MaxFaults <- 2, None <- None, files <- researchFiles,
    faults <- researchFaults
Retention == INSTANCE ResearchJobs WITH
    Research <- {"a", "b", "c"}, Market <- {}, GlobalRank <- {"m"}, Parts <- PartsOf,
    Cost <- CostOf, Memory <- 2, Heavy <- 2, QueueLimit <- 3, RetainPage <- 1, Cancelling <- {},
    Pinning <- {"a"}, Aging <- {"a", "b"}, MaxRuns <- 1, MaxFaults <- 1, None <- None,
    files <- researchFiles, faults <- researchFaults
Pages == INSTANCE ResultPages WITH
    Jobs <- {"j1", "j2"}, Views <- {"trades", "equity", "market"}, MaxRows <- 4, MaxSize <- 3,
    ChunkSize <- 2, Limits <- {1, 2, 3, 4}, Budget <- 2, Damages <- 1, size <- pagesSize
Paged == INSTANCE SourceCache WITH
    Loads <- {"l1", "l2"}, Queries <- PagedQueries, PageSize <- 2, Permits <- 2, Bytes <- 6,
    Metadata <- 2, First <- 1, Funded <- {0, 1, 2, 3, 4}, MaxTime <- 5, Faults <- {}
Shared == INSTANCE SourceCache WITH
    Loads <- {"l1", "l2", "l3"}, Queries <- SharedQueries, PageSize <- 2, Permits <- 2, Bytes <- 4,
    Metadata <- 1, First <- 0, Funded <- {1, 2, 3}, MaxTime <- 2, Faults <- {"failed", "dropped"}
Asking == INSTANCE MarketQuery WITH
    Names <- {1, 2, 3}, Window <- {1, 2}, Values <- {0, 1}, Requests <- ScreenAndRank,
    MaxExplicit <- 2, MaxRank <- 3, PageLimit <- 1, MaxGen <- 1, MaxJobs <- 2, Walking <- FALSE,
    Sources <- TwoSources
Rank == INSTANCE MarketQuery WITH
    Names <- {1, 2}, Window <- {1, 2}, Values <- {0, 1}, Requests <- RankRequests, MaxExplicit <- 2,
    MaxRank <- 2, PageLimit <- 1, MaxGen <- 2, MaxJobs <- 2, Walking <- FALSE, Sources <- FewSources
Screen == INSTANCE MarketQuery WITH
    Names <- {1, 2}, Window <- {1, 2}, Values <- {0, 1}, Requests <- ScreenRequests,
    MaxExplicit <- 2, MaxRank <- 2, PageLimit <- 1, MaxGen <- 1, MaxJobs <- 2, Walking <- FALSE,
    Sources <- GapSources
Walk == INSTANCE MarketQuery WITH
    Names <- {1, 2, 3, 4}, Window <- {1, 2}, Values <- {0, 1}, Requests <- {}, MaxExplicit <- 2,
    MaxRank <- 4, PageLimit <- 2, MaxGen <- 3, MaxJobs <- 2, Walking <- TRUE, Sources <- OneSource

ASSUME PartsAssumption ==
    /\ Agent!AgentAssumption /\ Wanted!AgentAssumption /\ Mail!MailboxAssumption
    /\ Answers!MailboxAssumption /\ ControlPolls!ControlPollAssumption /\ Tagged!ReleaseFetchAssumption
    /\ Untagged!ReleaseFetchAssumption /\ Root!RootMigrationAssumption /\ Bridge!RootMigrationAssumption /\ Rooting!RootMigrationAssumption
    /\ Log!ProcessLogAssumption /\ Drain!ProcessLogAssumption /\ Paged!SourceCacheAssumption
    /\ Shared!SourceCacheAssumption /\ Asking!MarketQueryAssumption /\ Rank!MarketQueryAssumption
    /\ Screen!MarketQueryAssumption /\ Walk!MarketQueryAssumption

agentVars ==
    <<desiredFile, binary, staging, backup, provenance, control, process, lease, faults, requests>>
mailVars == <<issue, clock, file, validator, poll, late, unknown, mailFaults, errors>>
pollVars == <<pc, verified, failures, wait, due, age, taken, trouble, asked, unheard, identified>>
fetchVars ==
    <<served, main, mains, moves, ask, fetchPc, zip, head, total, etag, elapsed, installed>>
rootVars == <<rootFile, record, rootIssue, ctl, rootFaults, mig, legacy>>
logVars ==
    <<pipe, closed, logFile, handle, size, logPc, n, line, complete, count, drained, logFaults>>
researchVars ==
    <<row, token, signalled, runs, task, cancelling, researchFiles, retire, phase, researchFaults>>
pagesVars == <<pagesSize, damaged, reader>>
cacheVars == <<now, confirmed, entries, locks, excluded, load>>
queryVars == <<gen, live, source, jobs, walk>>
mcVars == <<part, vars, agentVars, mailVars, pollVars, fetchVars, rootVars, logVars, researchVars, pagesVars, cacheVars, queryVars>>

FetchAtRest ==
    /\ served = Obj("a", 4, "x", "h1", "t1") /\ main = "t1"
    /\ ask.run = CiRun(TRUE, FALSE, "h1") /\ ask.tree = "t1" /\ ask.block = Tagged!Agent
QueryAtRest == live[1] = {1} /\ \A k \in {1, 2, 3} : source[k] = Got({1, 2}, TRUE, 1, "ok")

\* A behaviour is about one component; the others stay at rest where they start.
MCInit ==
    /\ part \in Parts
    /\ Init /\ (part # "update" => script = UpdateTo("v1") \o UpdateTo("v2"))
    /\ IF part = "wanted" THEN Wanted!Init ELSE Agent!Init
    /\ (part \notin {"agent", "wanted"} => desiredFile = "stopped")
    /\ IF part = "answers" THEN Answers!Init ELSE Mail!Init
    /\ (part \notin {"mail", "answers"} => issue = <<>>)
    /\ ControlPolls!Init
    /\ IF part = "untagged" THEN Untagged!Init ELSE Tagged!Init
    /\ (part \notin {"tagged", "untagged"} => FetchAtRest)
    /\ IF part = "rooting" THEN Rooting!Init ELSE IF part = "bridge" THEN Bridge!Init ELSE Root!Init
    /\ IF part = "drain" THEN Drain!Init ELSE Log!Init
    /\ IF part = "retry" THEN Retry!Init ELSE IF part = "retention" THEN Retention!Init ELSE Job!Init
    /\ Pages!Init /\ (part # "pages" => pagesSize = <<1>>)
    /\ IF part = "shared" THEN Shared!Init ELSE Paged!Init
    /\ (part \notin {"paged", "shared"} => now = 1)
    /\ IF part = "rank" THEN Rank!Init ELSE IF part = "screen" THEN Screen!Init ELSE IF part = "walk" THEN Walk!Init ELSE Asking!Init
    /\ (part \notin {"asking", "rank", "screen", "walk"} => QueryAtRest)

Acts(p, A) ==
    /\ part = p /\ A /\ UNCHANGED part
    /\ IF p = "update" THEN TRUE ELSE UNCHANGED vars
    /\ IF p \in {"agent", "wanted"} THEN TRUE ELSE UNCHANGED agentVars
    /\ IF p \in {"mail", "answers"} THEN TRUE ELSE UNCHANGED mailVars
    /\ IF p = "poll" THEN TRUE ELSE UNCHANGED pollVars
    /\ IF p \in {"tagged", "untagged"} THEN TRUE ELSE UNCHANGED fetchVars
    /\ IF p \in {"root", "bridge", "rooting"} THEN TRUE ELSE UNCHANGED rootVars
    /\ IF p \in {"log", "drain"} THEN TRUE ELSE UNCHANGED logVars
    /\ IF p \in {"research", "retry", "retention"} THEN TRUE ELSE UNCHANGED researchVars
    /\ IF p = "pages" THEN TRUE ELSE UNCHANGED pagesVars
    /\ IF p \in {"paged", "shared"} THEN TRUE ELSE UNCHANGED cacheVars
    /\ IF p \in {"asking", "rank", "screen", "walk"} THEN TRUE ELSE UNCHANGED queryVars

MCNext ==
    \/ Acts("update", Next)
    \/ Acts("agent", Agent!Next)
    \/ Acts("wanted", Wanted!Next)
    \/ Acts("mail", Mail!Next)
    \/ Acts("answers", Answers!Next)
    \/ Acts("poll", ControlPolls!Next)
    \/ Acts("tagged", Tagged!Next)
    \/ Acts("untagged", Untagged!Next)
    \/ Acts("root", Root!Next)
    \/ Acts("bridge", Bridge!Next)
    \/ Acts("rooting", Rooting!Next)
    \/ Acts("log", Log!Next)
    \/ Acts("drain", Drain!Next)
    \/ Acts("research", Job!Next)
    \/ Acts("retry", Retry!Next)
    \/ Acts("retention", Retention!Next)
    \/ Acts("pages", Pages!Next)
    \/ Acts("paged", Paged!Next)
    \/ Acts("shared", Shared!Next)
    \/ Acts("asking", Asking!Next)
    \/ Acts("rank", Rank!Next)
    \/ Acts("screen", Screen!Next)
    \/ Acts("walk", Walk!Next)

MCSpec == MCInit /\ [][MCNext]_mcVars

\* What the code's loops and the host go on doing (see the components' fair specifications).
MCFairSpec ==
    /\ MCSpec
    /\ WF_vars(part = "update" /\ LauncherRun)
    /\ \A p \in Process : WF_vars(part = "update" /\ ControllerStep(p))
    /\ WF_agentVars(part = "wanted" /\ Wanted!Step)
    /\ WF_agentVars(part = "wanted" /\ Wanted!reconcile_desired)
    /\ WF_agentVars(part = "wanted" /\ Wanted!BackoffEnds)
    /\ WF_agentVars(part = "wanted" /\ Wanted!ControllerStarts)
    /\ \A p \in {"p1", "p2", "p3"} : WF_agentVars(part = "wanted" /\ Wanted!Agent(p))
    /\ WF_mailVars(part = "answers" /\ Answers!Poll)
    /\ WF_pollVars(part = "poll" /\ ControlPolls!Tick) /\ WF_pollVars(part = "poll" /\ ControlPolls!Loop)
    /\ WF_pollVars(part = "poll" /\ ControlPolls!Restart) /\ WF_pollVars(part = "poll" /\ ControlPolls!Answered)
    /\ WF_rootVars(part = "rooting" /\ Rooting!Install) /\ WF_rootVars(part = "rooting" /\ Rooting!Migrate)
    /\ WF_rootVars(part = "rooting" /\ Rooting!SchedulerStarts)
    /\ WF_logVars(part = "drain" /\ (Drain!record \/ Drain!rotate \/ Drain!reopen \/ Drain!write \/ Drain!finish))
    /\ WF_researchVars(part = "research" /\ Job!Recover)
    /\ \A t \in Job!Tasks : WF_researchVars(part = "research" /\ Job!Compute(t))
    /\ \A j \in Job!Jobs : WF_researchVars(part = "research" /\ Job!CancelSignal(j))
    /\ WF_queryVars(part = "asking" /\ \E j \in jobs : Asking!Work(j))
    /\ \A r \in ScreenAndRank : WF_queryVars(part = "asking" /\ Asking!Ask(r))
-----------------------------------------------------------------------------
\* The Job of the host holds one engine, none when it was stopped and the one it verified, but for
\* an agent that a termination failed on; a binary is on disk at every moment of a deployment until
\* two in a row are cut short, what is installed is one accepted object of the main tree, and a
\* migration leaves a host that can start, or the controller in its backup where the older
\* activator stopped, and replaces nothing before its result is recorded.
HostIsSafe ==
    /\ [](part = "agent" => Agent!OneEngine /\ Agent!StoppedMeansStopped /\ Agent!VerifiedIsRunning /\ Agent!ABinaryIsOnDisk)
    /\ [](part = "tagged" => Tagged!ZipIsOneObject /\ Tagged!InstalledWasMain)
    /\ [](part = "untagged" => Untagged!InstalledIsAccepted)
    /\ [](part = "root" => Root!HostCanStart /\ Root!ReplacedAfterResult)
    /\ [](part = "bridge" => Bridge!HostCanStart /\ Bridge!ReplacedAfterResult)
    /\ Root!RecordOutlivesMigration

\* No comment of the mailbox is skipped or answered twice, a poll reads nothing as a mailbox that
\* it has not identified, the host is supervised through every failure and no poll begins before
\* the time the server asked the loop of this controller for, and the log of the process stays
\* within its limit, but for the bytes of failed writes, ordered, and complete where it says so.
ControlIsOrderly ==
    /\ [](part = "mail" => Mail!NothingSkipped /\ Mail!AnsweredOnce)
    /\ [](part = "poll" => ControlPolls!ReadsOnlyIdentified /\ ControlPolls!SupervisionGoesOn)
    /\ ControlPolls!HonoursRetryAfter
    /\ [](part = "log" => Log!FilesWithinLimit /\ Log!OrderedAcrossFiles /\ Log!CompleteIsTrue)

\* A finished research job has a readable result, an active one a task, but for a market query whose
\* answer could not be published, one that ended stays ended unless it was deferred, one key is
\* computed once at a time, a canceller outlives its task only for such a query or a job cancelled
\* before it was inserted, and the pages of a result are a prefix of it that ends only where it does.
ResearchIsOrderly ==
    /\ [](part = "retention" => Retention!ResultReadable /\ Retention!ActiveHasTask)
    /\ [](part = "retry" => Retry!OneComputation /\ Retry!ActiveHasTask /\ Retry!CancellersAreOfTasks)
    /\ [](part = "pages" => Pages!PagesAreAPrefix /\ Pages!EndIsComplete /\ Pages!ExportIsReadable)
    /\ [][part = "retry" => Retry!TerminalStays]_mcVars

\* A range of history that is read holds every confirmed bar and no open one, and one that is served
\* from the cache all but, it may be, a last bar that was confirmed since; loads of one range share
\* one flight, a ranking is of every instrument in a determined order, no value is made from a gap, a
\* deferral is no evidence of one, and a walk through the pages meets every instrument of the
\* generation its requests name, or every one that was live throughout where they name none.
MarketAnswersAreWhole ==
    /\ part = "paged" => Paged!NothingSkipped /\ Paged!OnlyClosedBars
    /\ part = "shared" => Shared!SingleFlight /\ Shared!PermitsAreFew /\ Shared!CacheIsBounded
    /\ part = "rank" => Rank!RankingIsOfEverything /\ Rank!OrderIsDetermined
    /\ part = "screen" => Screen!NoValueFromAGap /\ Screen!DeferralIsNotEvidence
    /\ part = "walk" => Walk!WalkIsWhole

\* A handoff whose PASS is on the issue is decided and a controller returns, the wanted agent runs,
\* every request of the mailbox is answered unless the comments outgrow the pages of a poll, and it is
\* polled again, an acknowledged migration is installed unless its migrators find the entrypoint open
\* again and again, the pipe of the process is drained, every job ends but a market query whose answer
\* could not be published, and a deferred query is asked again.
ServicesGoOn ==
    /\ part = "update" => ControllerReturns
    /\ part = "update" => HandoffIsDecided
    /\ part = "wanted" => Wanted!WantedRuns
    /\ part = "answers" => Answers!EveryRequestAnswered
    /\ part = "poll" => ControlPolls!PollsAgain
    /\ part = "rooting" => Rooting!AcknowledgedIsInstalled
    /\ part = "drain" => Drain!AlwaysDrained
    /\ part = "research" => Job!EveryJobEnds
    /\ part = "asking" => Asking!DeferralEnds
=============================================================================
