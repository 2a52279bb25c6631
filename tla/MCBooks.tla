------------------------------ MODULE MCBooks ------------------------------
(***************************************************************************)
(* The account's files and books for TLC: the recovery after a restore     *)
(* (StorageRecovery), the account's worker and its files, the financial    *)
(* ledger, the captures that feed it and the values made from it. Every    *)
(* behaviour exercises one of them and the others stay at rest, so that a  *)
(* run has the sum of their states and not the product.                    *)
(***************************************************************************)
EXTENDS StorageRecovery, Sequences, TLC

CONSTANT Parts   \* the components a run lets move

VARIABLES
    part,            \* the component this behaviour is about
    now, call, queue, owner, committed, jobs, backup, nextCheck, failed, events, nextId, evicted,
    accepted, started, panicked,
    filesNow, times, db, snap, marker, quarantine, engine, job, left, line, unproved,
    fills, pendingFills, bills, pendingFunding, receipts, flows, flowCache, entries, totals,
    instanceTotals, campaignLoss, lots, sealed, usdStop, fundingStop, unpriced,
    captureNow, captureVenue, gen, ledger, captureCursor, snapCursor, cap, nav, valued, attributed,
    overtaken, capitalNow, capitalVenue, rows, projected, points, highwater, legs, principal, latest,
    strategyNav, revision, recovering, request,
    state, version, recent, archive, factsFills, factsBills, factsEvents, faults, pc, snapshot, got,
    facts, began

MCfill(id, whose, op, side, qty, fee, pnl, time, billed) ==
    [id |-> id, owner |-> whose, op |-> op, side |-> side, qty |-> qty, fee |-> fee,
     pnl |-> pnl, time |-> time, billed |-> billed]
\* Two instances and a fill of nobody's, lots reduced after the funding, a fill after it.
MCOwned == {MCfill(1, "a", "open", "buy", 2, -1, 0, 1, FALSE),
            MCfill(2, "a", "open", "buy", 1, 0, 0, 2, FALSE),
            MCfill(3, "none", "open", "buy", 1, 0, 0, 3, FALSE),
            MCfill(4, "a", "reduce", "sell", 2, -1, 0, 5, FALSE),
            MCfill(5, "b", "open", "sell", 1, 0, 0, 6, FALSE)}
\* A fill priced by its bill.
MCPriced == {MCfill(2, "a", "open", "buy", 1, -1, -2, 2, TRUE)}
MCFunding == {[id |-> 11, kind |-> "funding", amount |-> -5, time |-> 4]}
MCCosts == {[id |-> 12, kind |-> "transfer", amount |-> -3, time |-> 2],
            [id |-> 14, kind |-> "interest", amount |-> -1, time |-> 3]}
\* An entry of an older ledger.
MCLegacy == {[key |-> <<"old", 1>>, component |-> "FEE", leg |-> "account", amount |-> -1,
              instance |-> "a", source |-> <<"old", 1>>]}
MCTypes == [o1 |-> "SWAP", o2 |-> "SWAP"]
OneOfEach == [o1 |-> "SWAP", o2 |-> "FUTURES"]

Job == INSTANCE AccountWorker WITH
    Caller <- {"c1", "c2"}, Capacity <- 1, Transactions <- 2, MaxTime <- 1,
    MaintenanceInterval <- 1, FirstBackupAfter <- 1, BackupInterval <- 2, HistoryMax <- 1
Upkeep == INSTANCE AccountWorker WITH
    Caller <- {"c1"}, Capacity <- 1, Transactions <- 1, MaxTime <- 2,
    MaintenanceInterval <- 1, FirstBackupAfter <- 1, BackupInterval <- 1, HistoryMax <- 2
OneJob == INSTANCE AccountWorker WITH
    Caller <- {"c1", "c2"}, Capacity <- 1, Transactions <- 1, MaxTime <- 1,
    MaintenanceInterval <- 1, FirstBackupAfter <- 1, BackupInterval <- 2, HistoryMax <- 1
Files == INSTANCE AccountFiles WITH
    Op <- {"o1"}, Retain <- 1, MaxTime <- 2, MaxCommits <- 1, MaxRestores <- 1, DiskFaults <- TRUE,
    now <- filesNow
Lots == INSTANCE FinanceLedger WITH
    Fill <- MCOwned, Bill <- MCFunding, Instance <- {"a", "b"}, PageSize <- 1, Rates <- {0, 1},
    Legacy <- {}
Costs == INSTANCE FinanceLedger WITH
    Fill <- MCPriced, Bill <- MCCosts, Instance <- {"a", "b"}, PageSize <- 1, Rates <- {0, 1, 2},
    Legacy <- MCLegacy
OneCapture == INSTANCE FinanceCapture WITH
    Stream <- {"fills", "bills"}, Capturer <- {"c1"}, PageSize <- 1, Skews <- {0, 1}, MaxTime <- 1,
    MaxFacts <- 1, MaxGen <- 1, now <- captureNow, venue <- captureVenue, cursor <- captureCursor
SkewedCapture == INSTANCE FinanceCapture WITH
    Stream <- {"fills"}, Capturer <- {"c1"}, PageSize <- 1, Skews <- {0, 1}, MaxTime <- 1,
    MaxFacts <- 2, MaxGen <- 2, now <- captureNow, venue <- captureVenue, cursor <- captureCursor
TwoCaptures == INSTANCE FinanceCapture WITH
    Stream <- {"fills"}, Capturer <- {"c1", "c2"}, PageSize <- 1, Skews <- {0}, MaxTime <- 1,
    MaxFacts <- 2, MaxGen <- 1, now <- captureNow, venue <- captureVenue, cursor <- captureCursor
Ingest == INSTANCE FinanceCapture WITH
    Stream <- {"fills"}, Capturer <- {"c1"}, PageSize <- 1, Skews <- {0, 1}, MaxTime <- 1,
    MaxFacts <- 2, MaxGen <- 2, now <- captureNow, venue <- captureVenue, cursor <- captureCursor
Assign == INSTANCE CapitalBook WITH
    Instance <- {"j1", "j2"}, Op <- {"o1", "o2"}, Deltas <- {2, -1}, Equities <- {2, 3},
    Quantities <- {1, -1}, Fresh <- 1, MaxTime <- 1, MaxFills <- 0, MaxPoints <- 2,
    MaxRevision <- 2, now <- capitalNow, venue <- capitalVenue
Summary == INSTANCE CapitalBook WITH
    Instance <- {"j1"}, Op <- {"o1"}, Deltas <- {2, -1}, Equities <- {4}, Quantities <- {1, -1},
    Fresh <- 1, MaxTime <- 1, MaxFills <- 2, MaxPoints <- 2, MaxRevision <- 1, now <- capitalNow,
    venue <- capitalVenue
Page == INSTANCE LedgerFacts WITH
    Orders <- {"o1", "o2"}, TypeOf <- MCTypes, PageLimit <- 1, MaxEvents <- 6, MaxFaults <- 1,
    fills <- factsFills, bills <- factsBills, events <- factsEvents
Types == INSTANCE LedgerFacts WITH
    Orders <- {"o1", "o2"}, TypeOf <- OneOfEach, PageLimit <- 2, MaxEvents <- 5, MaxFaults <- 0,
    fills <- factsFills, bills <- factsBills, events <- factsEvents
Quiet == INSTANCE LedgerFacts WITH
    Orders <- {"o1", "o2"}, TypeOf <- MCTypes, PageLimit <- 3, MaxEvents <- 4, MaxFaults <- 1,
    fills <- factsFills, bills <- factsBills, events <- factsEvents

ASSUME PartsAssumption ==
    /\ Job!WorkerAssumption /\ Upkeep!WorkerAssumption /\ OneJob!WorkerAssumption /\ Files!FilesAssumption
    /\ Lots!LedgerAssumption /\ Costs!LedgerAssumption /\ OneCapture!CaptureAssumption
    /\ SkewedCapture!CaptureAssumption
    /\ Ingest!CaptureAssumption /\ TwoCaptures!CaptureAssumption /\ Assign!CapitalAssumption
    /\ Summary!CapitalAssumption /\ Page!LedgerFactsAssumption /\ Types!LedgerFactsAssumption
    /\ Quiet!LedgerFactsAssumption

workerVars ==
    <<now, call, queue, owner, committed, jobs, backup, nextCheck, failed, events, nextId, evicted,
    accepted, started, panicked>>
filesVars == <<filesNow, times, db, snap, marker, quarantine, engine, job, left, line, unproved>>
ledgerVars ==
    <<fills, pendingFills, bills, pendingFunding, receipts, flows, flowCache, entries, totals,
    instanceTotals, campaignLoss, lots, sealed, usdStop, fundingStop, unpriced>>
captureVars ==
    <<captureNow, captureVenue, gen, ledger, captureCursor, snapCursor, cap, nav, valued, attributed,
    overtaken>>
capitalVars ==
    <<capitalNow, capitalVenue, rows, projected, points, highwater, legs, principal, latest,
    strategyNav, revision, recovering, request>>
factsVars ==
    <<state, version, recent, archive, factsFills, factsBills, factsEvents, faults, pc, snapshot, got,
    facts, began>>
mcVars == <<part, vars, workerVars, filesVars, ledgerVars, captureVars, capitalVars, factsVars>>

\* A behaviour is about one component; the others stay at rest where they start.
MCInit ==
    /\ part \in Parts
    /\ Init /\ (part # "recovery" => \A i \in Intent : local[i] = "absent" /\ order[i] = "none" /\ central[i] = "none")
    /\ CASE part = "oneJob" -> OneJob!Init [] part = "upkeep" -> Upkeep!Init [] OTHER -> Job!Init
    /\ Files!Init
    /\ IF part = "costs" THEN Costs!Init ELSE Lots!Init
    /\ CASE part = "ingest" -> Ingest!Init [] part = "captures" -> TwoCaptures!Init
         [] part = "skewed" -> SkewedCapture!Init [] OTHER -> OneCapture!Init
    /\ IF part = "summary" THEN Summary!Init ELSE Assign!Init
    /\ IF part = "types" THEN Types!Init ELSE IF part = "quiet" THEN Quiet!Init ELSE Page!Init

Move(p, A) ==
    /\ part = p /\ A /\ UNCHANGED part
    /\ IF p = "recovery" THEN TRUE ELSE UNCHANGED vars
    /\ IF p \in {"worker", "upkeep", "oneJob"} THEN TRUE ELSE UNCHANGED workerVars
    /\ IF p = "files" THEN TRUE ELSE UNCHANGED filesVars
    /\ IF p \in {"lots", "costs"} THEN TRUE ELSE UNCHANGED ledgerVars
    /\ IF p \in {"capture", "skewed", "ingest", "captures"} THEN TRUE ELSE UNCHANGED captureVars
    /\ IF p \in {"assign", "summary"} THEN TRUE ELSE UNCHANGED capitalVars
    /\ IF p \in {"page", "types", "quiet"} THEN TRUE ELSE UNCHANGED factsVars

MCNext ==
    \/ Move("recovery", Next)
    \/ Move("worker", Job!Next)
    \/ Move("upkeep", Upkeep!Next)
    \/ Move("oneJob", OneJob!Next)
    \/ Move("files", Files!Next)
    \/ Move("lots", Lots!Next)
    \/ Move("costs", Costs!Next)
    \/ Move("capture", OneCapture!Next)
    \/ Move("skewed", SkewedCapture!Next)
    \/ Move("ingest", Ingest!FairNext)
    \/ Move("captures", TwoCaptures!Next)
    \/ Move("assign", Assign!Next)
    \/ Move("summary", Summary!Next)
    \/ Move("page", Page!Next)
    \/ Move("types", Types!Next)
    \/ Move("quiet", Quiet!Next)

MCSpec == MCInit /\ [][MCNext]_mcVars

\* What the code's loops and the venue go on doing (see the components' fair specifications).
MCFairSpec ==
    /\ MCSpec
    /\ WF_vars(part = "recovery" /\ Audit)
    /\ \A i \in Intent :
          WF_vars(part = "recovery" /\ Maintain(i)) /\ WF_vars(part = "recovery" /\ OrderEnds(i))
    /\ WF_workerVars(part = "oneJob" /\ OneJob!Owner)
    /\ WF_captureVars(part = "ingest" /\ Ingest!Tick)
    /\ WF_captureVars(part = "ingest" /\ Ingest!Step("c1"))
    /\ WF_captureVars(part = "ingest" /\ Ingest!Abandon("c1") /\ cap["c1"].gen # gen)
    /\ WF_factsVars(part = "quiet" /\ Quiet!Snapshot)
    /\ WF_factsVars(part = "quiet" /\ Quiet!Read)
-----------------------------------------------------------------------------
\* What a caller was told of its transaction is what the database holds, through deadlines, retries
\* and the closing of the queue, and the history of the maintenance claims no work that has ended
\* but a panicked backup's; once a first backup has ended there is a restorable one whatever crashes
\* or rotates later, and the audit after a restore finds every fact the snapshot lost.
CommitsSurvive ==
    /\ part = "worker" => Job!AnswerTellsCommit /\ Job!InProgressIsUnderWay
    /\ part = "upkeep" => Upkeep!AnswerTellsCommit /\ Upkeep!InProgressIsUnderWay
    /\ part = "files" => Files!AlwaysRestorable /\ Files!AuditFindsMissingFacts

\* The entries of the ledger balance: the shares of a funding sum to it, the lots of an instance to
\* its fills, a loss is counted once however often it is captured or priced again, and a period is
\* sealed only with its proof.
LedgerBalances ==
    /\ part = "lots" => Lots!FundingConserved /\ Lots!LotsMatchFills
    /\ part = "costs" => Costs!LossCountedOnce /\ Costs!SealedIsProved

\* No fact is missed but those a host clock ahead of the venue's had overtaken: a watermark passes
\* no other fact that was not ingested and never goes back within a connection, with one capture or
\* two at once, a valuation sees every other fact before its time, a history that is called complete
\* holds every order and fill, and no older row replaces a newer one.
HistoryIsWhole ==
    /\ [](part = "capture" => OneCapture!WatermarkIsCovered /\ OneCapture!ValuationSeesHistory)
    /\ [](part = "skewed" => SkewedCapture!WatermarkIsCovered /\ SkewedCapture!ValuationSeesHistory)
    /\ [](part = "captures" => TwoCaptures!WatermarkIsCovered /\ TwoCaptures!ValuationSeesHistory)
    /\ [](part = "page" => Page!CompleteHistoriesHoldAll)
    /\ [](part = "types" => Types!NoOrderMissed /\ Types!NoOlderThanSnapshot)
    /\ TwoCaptures!WatermarkNeverRegresses

\* The capital of an instance is the replay of its changes: its principal is their sum, the
\* instances together are assigned no more than the equity the assignment was judged by, the
\* high-water mark is the peak of the points, and a summary that is called complete counts every
\* fill up to its point and lacks of its period only fills that an earlier one overtook.
CapitalIsReplay ==
    /\ part = "assign" => Assign!PrincipalIsReplay /\ Assign!AssignmentsCovered
    /\ part = "assign" => Assign!HighwaterIsPeak
    /\ part = "summary" => Summary!SummaryIsCurrent /\ Summary!SummaryLacksOnlyOvertaken

\* The gate of a restored ledger opens unless the backup grows too old or an intent blocks it for
\* good, an accepted job is answered whatever its caller does, every fact of the venue that no host
\* clock had overtaken is ingested unless its stream stays wedged, and a readback of a quiet account
\* is accepted.
BooksSettle ==
    /\ part = "recovery" => GateOpens
    /\ part = "oneJob" => OneJob!AcceptedIsAnswered
    /\ part = "ingest" => Ingest!EveryFactIngested
    /\ part = "quiet" => Quiet!EventuallyAccepted
=============================================================================
