----------------------------- MODULE MCSources -----------------------------
(***************************************************************************)
(* The sources of the account's evidence for TLC: the exchange's clock,    *)
(* the budget of requests, the public and the private stream, the registry *)
(* of accounts, the health of the sources and the search of the            *)
(* diagnostics. Every behaviour exercises one of them and the others stay  *)
(* at rest, so that a run has the sum of their states and not the product. *)
(***************************************************************************)
EXTENDS ExchangeClock, Sequences

CONSTANT Parts   \* the components a run lets move
CONSTANT None

VARIABLES
    part,            \* the component this behaviour is about
    rateNow, attempts, blocked, accountLimit, caller, hist,
    reference, markets, conn, coord, queue, callers, wire, venue, demanded, faults, stray,
    phase, link, generation, counter, login, acks, seen, sent, sequence, journal, algo_sequence,
    signal, privateVenue, clock, algo, asked, subs, privateWire, silent, delivered, reader, oco,
    captured, privateFaults, reads,
    op_file, catalog, legacy, ledger, registryPhase, config, pending, routes, failures, lease, task,
    registryFaults,
    healthNow, back, ws, verified, latest, cycle, jobs, samples, active, detailed, recent, diag, log,
    holders, available, searchFaults, request, lookups, report, begun

MCSkews == {-1, 0, 3}
MCJumps == {-2, 0, 1}
CredUid2 == [c1 |-> "u1", c2 |-> "u2", d2 |-> "u2"]
Requests3 == {[op |-> "o1", alias |-> "a", cred |-> "c1"],
              [op |-> "o2", alias |-> "a", cred |-> "c2"],
              [op |-> "o3", alias |-> "b", cred |-> "d2"]}
Legacy1(engines) ==
    [e \in engines |-> IF e = "e1" THEN {[uid |-> "u1", op |-> "o1", alias |-> "a", cred |-> "c1"]} ELSE {}]
AnyFault ==
    {"error", "unsubscribed", "denied", "upgrade", "notice", "other", "anonymous", "stray", "silent",
     "connect", "shutdown"}
TwoPhases == <<"account_nav_build", "account_nav_commit">>

Rate == INSTANCE RateBudget WITH
    Caller <- {"a", "b"}, Instrument <- {"btc"},
    Operations <- {"place", "amend", "cancel"},
    Paths <- {"orders"}, ReadLimit <- 1, ReadWindow <- 2, TradeLimit <- 1, TradeWindow <- 2,
    DefaultLimit <- 2, AccountLimits <- {1}, RetryAfter <- {0}, MaxDefer <- 3, MaxWait <- 3, MaxTime <- 2,
    MaxEvents <- 3, now <- rateNow
RateAlgo == INSTANCE RateBudget WITH
    Caller <- {"a", "b"}, Instrument <- {"btc"}, Operations <- {"cancelAlgo", "amendAlgo", "private"},
    Paths <- {"orders"}, ReadLimit <- 1, ReadWindow <- 2, TradeLimit <- 1, TradeWindow <- 2,
    DefaultLimit <- 2, AccountLimits <- {2}, RetryAfter <- {0}, MaxDefer <- 3, MaxWait <- 3, MaxTime <- 2,
    MaxEvents <- 2, now <- rateNow
RateQueue == INSTANCE RateBudget WITH
    Caller <- {"a", "b"}, Instrument <- {"btc"}, Operations <- {"queued", "public"},
    Paths <- {"candles"}, ReadLimit <- 1, ReadWindow <- 2, TradeLimit <- 1, TradeWindow <- 2,
    DefaultLimit <- 2, AccountLimits <- {2}, RetryAfter <- {0, 3}, MaxDefer <- 3, MaxWait <- 3, MaxTime <- 4,
    MaxEvents <- 3, now <- rateNow
Market == INSTANCE MarketStream WITH
    Instrument <- {"a"}, Channels <- {"index", "book"}, MaxActive <- 1,
    SubscriptionErrors <- TRUE, MaxDemands <- 2, MaxChanges <- 3, MaxRules <- 1, MaxFaults <- 2,
    MaxWire <- 2, MaxGen <- 3
Strays == INSTANCE MarketStream WITH
    Instrument <- {"a", "b"}, Channels <- {"index", "book"}, MaxActive <- 1,
    SubscriptionErrors <- TRUE, MaxDemands <- 3, MaxChanges <- 1, MaxRules <- 1, MaxFaults <- 1,
    MaxWire <- 2, MaxGen <- 2
Demand == INSTANCE MarketStream WITH
    Instrument <- {"a"}, Channels <- {"tick", "book"}, MaxActive <- 1,
    SubscriptionErrors <- TRUE, MaxDemands <- 1, MaxChanges <- 3, MaxRules <- 2, MaxFaults <- 1,
    MaxWire <- 2, MaxGen <- 12
Rivals == INSTANCE MarketStream WITH
    Instrument <- {"a", "b"}, Channels <- {"book"}, MaxActive <- 1,
    SubscriptionErrors <- TRUE, MaxDemands <- 2, MaxChanges <- 1, MaxRules <- 1, MaxFaults <- 1,
    MaxWire <- 2, MaxGen <- 12
Converge == INSTANCE PrivateStream WITH
    Capacity <- 1, Seed <- 1, MaxGen <- 2, MaxChanges <- 1, MaxAlgo <- 0, MaxFaults <- 1,
    Faults <- AnyFault, MaxReads <- 1, Readers <- {"converge"}, venue <- privateVenue, wire <- privateWire,
    faults <- privateFaults
OcoReads == INSTANCE PrivateStream WITH
    Capacity <- 1, Seed <- 1, MaxGen <- 3, MaxChanges <- 1, MaxAlgo <- 1, MaxFaults <- 1,
    Faults <- AnyFault, MaxReads <- 1, Readers <- {"oco"}, venue <- privateVenue, wire <- privateWire,
    faults <- privateFaults
Recovering == INSTANCE PrivateStream WITH
    Capacity <- 1, Seed <- 1, MaxGen <- 3, MaxChanges <- 0, MaxAlgo <- 0, MaxFaults <- 1,
    Faults <- AnyFault, MaxReads <- 0, Readers <- {}, venue <- privateVenue, wire <- privateWire,
    faults <- privateFaults
Readback == INSTANCE PrivateStream WITH
    Capacity <- 1, Seed <- 1, MaxGen <- 3, MaxChanges <- 1, MaxAlgo <- 0, MaxFaults <- 1,
    Faults <- {"upgrade", "connect", "shutdown"}, MaxReads <- 0, Readers <- {"ledger"},
    venue <- privateVenue, wire <- privateWire, faults <- privateFaults
Registry == INSTANCE AccountRegistry WITH
    Engines <- {"e1"}, Uid <- {"u1", "u2"}, CredUid <- CredUid2, Requests <- Requests3,
    Tasks <- {"t1", "t2", "t3"}, Legacy <- [e \in {"e1"} |-> {}], Quota <- 2, MaxFaults <- 2,
    None <- None, phase <- registryPhase, faults <- registryFaults
Shared == INSTANCE AccountRegistry WITH
    Engines <- {"e1", "e2"}, Uid <- {"u1", "u2"}, CredUid <- CredUid2, Requests <- Requests3,
    Tasks <- {"t1", "t2"}, Legacy <- Legacy1({"e1", "e2"}), Quota <- 2, MaxFaults <- 1,
    None <- None, phase <- registryPhase, faults <- registryFaults
Serving == INSTANCE AccountRegistry WITH
    Engines <- {"e1"}, Uid <- {"u1", "u2"}, CredUid <- CredUid2, Requests <- Requests3,
    Tasks <- {"t1", "t2"}, Legacy <- Legacy1({"e1"}), Quota <- 2, MaxFaults <- 2, None <- None,
    phase <- registryPhase, faults <- registryFaults
Window == INSTANCE SourceHealth WITH
    WindowMs <- 1, MaxTickGap <- 1, MaxSourceAge <- 1, Capacity <- 3, DetailMax <- 1, PhaseMax <- 1,
    NavPhases <- <<>>, Slow <- {FALSE}, MaxTime <- 2, MaxCycles <- 3, MaxGeneration <- 2,
    MaxStepsBack <- 1, MaxDiagnoses <- 0, now <- healthNow
Trace == INSTANCE SourceHealth WITH
    WindowMs <- 1, MaxTickGap <- 1, MaxSourceAge <- 1, Capacity <- 2, DetailMax <- 2, PhaseMax <- 1,
    NavPhases <- TwoPhases, Slow <- {TRUE, FALSE}, MaxTime <- 1, MaxCycles <- 3, MaxGeneration <- 1,
    MaxStepsBack <- 0, MaxDiagnoses <- 0, now <- healthNow
Diagnosis == INSTANCE SourceHealth WITH
    WindowMs <- 1, MaxTickGap <- 1, MaxSourceAge <- 1, Capacity <- 1, DetailMax <- 1, PhaseMax <- 1,
    NavPhases <- <<>>, Slow <- {FALSE}, MaxTime <- 1, MaxCycles <- 2, MaxGeneration <- 2,
    MaxStepsBack <- 1, MaxDiagnoses <- 1, now <- healthNow
Recording == INSTANCE SourceHealth WITH
    WindowMs <- 1, MaxTickGap <- 1, MaxSourceAge <- 1, Capacity <- 2, DetailMax <- 1, PhaseMax <- 2,
    NavPhases <- TwoPhases, Slow <- {FALSE}, MaxTime <- 1, MaxCycles <- 2, MaxGeneration <- 2,
    MaxStepsBack <- 0, MaxDiagnoses <- 0, now <- healthNow
Search == INSTANCE Diagnostics WITH
    Accounts <- {"a1", "a2", "a3"}, SearchLimit <- 3, Parallel <- 2, None <- None, MaxRequests <- 1,
    MaxFaults <- 2, faults <- searchFaults
Answering == INSTANCE Diagnostics WITH
    Accounts <- {"a1", "a2"}, SearchLimit <- 2, Parallel <- 1, None <- None, MaxRequests <- 1,
    MaxFaults <- 1, faults <- searchFaults
Wide == INSTANCE Diagnostics WITH
    Accounts <- {"a1", "a2"}, SearchLimit <- 1, Parallel <- 1, None <- None, MaxRequests <- 2,
    MaxFaults <- 1, faults <- searchFaults

ASSUME PartsAssumption ==
    /\ Rate!RateAssumption /\ RateAlgo!RateAssumption /\ RateQueue!RateAssumption /\ Market!StreamAssumption
    /\ Strays!StreamAssumption
    /\ Demand!StreamAssumption /\ Rivals!StreamAssumption /\ Converge!CapacityAssumption /\ OcoReads!CapacityAssumption
    /\ Readback!CapacityAssumption /\ Recovering!CapacityAssumption /\ Converge!SeedAssumption /\ OcoReads!SeedAssumption
    /\ Readback!SeedAssumption /\ Recovering!SeedAssumption /\ Window!BoundsAssumption /\ Trace!BoundsAssumption
    /\ Diagnosis!BoundsAssumption /\ Recording!BoundsAssumption /\ Search!SearchAssumption
    /\ Answering!SearchAssumption /\ Wide!SearchAssumption

rateVars == <<rateNow, attempts, blocked, accountLimit, caller, hist>>
marketVars == <<reference, markets, conn, coord, queue, callers, wire, venue, demanded, faults, stray>>
privateVars ==
    <<phase, link, generation, counter, login, acks, seen, sent, sequence, journal, algo_sequence,
    signal, privateVenue, clock, algo, asked, subs, privateWire, silent, delivered, reader, oco,
    captured, privateFaults, reads>>
registryVars ==
    <<op_file, catalog, legacy, ledger, registryPhase, config, pending, routes, failures, lease, task,
    registryFaults>>
healthVars ==
    <<healthNow, back, ws, verified, latest, cycle, jobs, samples, active, detailed, recent, diag, log>>
searchVars == <<holders, available, searchFaults, request, lookups, report, begun>>
mcVars == <<part, vars, rateVars, marketVars, privateVars, registryVars, healthVars, searchVars>>

\* A behaviour is about one component; the others stay at rest where they start.
MCInit ==
    /\ part \in Parts
    /\ Init /\ (part # "clock" => skew = 0 /\ wall = 0)
    /\ IF part = "rateQueue" THEN RateQueue!Init ELSE IF part = "rateAlgo" THEN RateAlgo!Init ELSE Rate!Init
    /\ CASE part = "demand" -> Demand!Init [] part = "rivals" -> Rivals!Init
         [] part = "strays" -> Strays!Init [] OTHER -> Market!Init
    /\ IF part = "oco" THEN OcoReads!Init ELSE IF part = "recovering" THEN Recovering!Init ELSE IF part = "readback" THEN Readback!Init ELSE Converge!Init
    /\ IF part = "shared" THEN Shared!Init ELSE IF part = "serving" THEN Serving!Init ELSE Registry!Init
    /\ IF part = "trace" THEN Trace!Init ELSE IF part = "diagnosis" THEN Diagnosis!Init ELSE IF part = "recording" THEN Recording!Init ELSE Window!Init
    /\ IF part = "answering" THEN Answering!Init ELSE IF part = "wide" THEN Wide!Init ELSE Search!Init
    /\ (part \notin {"search", "answering", "wide"} => holders = {})

Move(p, A) ==
    /\ part = p /\ A /\ UNCHANGED part
    /\ IF p = "clock" THEN TRUE ELSE UNCHANGED vars
    /\ IF p \in {"rate", "rateAlgo", "rateQueue"} THEN TRUE ELSE UNCHANGED rateVars
    /\ IF p \in {"market", "strays", "demand", "rivals"} THEN TRUE ELSE UNCHANGED marketVars
    /\ IF p \in {"private", "oco", "recovering", "readback"} THEN TRUE ELSE UNCHANGED privateVars
    /\ IF p \in {"registry", "shared", "serving"} THEN TRUE ELSE UNCHANGED registryVars
    /\ IF p \in {"window", "trace", "diagnosis", "recording"} THEN TRUE ELSE UNCHANGED healthVars
    /\ IF p \in {"search", "answering", "wide"} THEN TRUE ELSE UNCHANGED searchVars

MCNext ==
    \/ Move("clock", Next)
    \/ Move("rate", Rate!Next)
    \/ Move("rateAlgo", RateAlgo!Next)
    \/ Move("rateQueue", RateQueue!Next)
    \/ Move("market", Market!Next)
    \/ Move("strays", Strays!Next)
    \/ Move("demand", Demand!Next)
    \/ Move("rivals", Rivals!Next)
    \/ Move("private", Converge!Next)
    \/ Move("oco", OcoReads!Next)
    \/ Move("recovering", Recovering!Next)
    \/ Move("readback", Readback!Next)
    \/ Move("registry", Registry!Next)
    \/ Move("shared", Shared!Next)
    \/ Move("serving", Serving!Next)
    \/ Move("window", Window!Next)
    \/ Move("trace", Trace!Next)
    \/ Move("diagnosis", Diagnosis!Next)
    \/ Move("recording", Recording!Next)
    \/ Move("search", Search!Next)
    \/ Move("answering", Answering!Next)
    \/ Move("wide", Wide!Next)

MCSpec == MCInit /\ [][MCNext]_mcVars

\* What the code's loops and the venue go on doing (see the components' fair specifications).
DemandFair ==
    /\ WF_marketVars(part = "demand" /\ Demand!set_connecting)
    /\ WF_marketVars(part = "demand" /\ Demand!Connected)
    /\ WF_marketVars(part = "demand" /\ Demand!HeartbeatTimeout)
    /\ WF_marketVars(part = "demand" /\ Demand!BackoffEnds)
    /\ WF_marketVars(part = "demand" /\ Demand!Messages)
    /\ WF_marketVars(part = "demand" /\ Demand!apply_command)
    /\ SF_marketVars(part = "demand" /\ Demand!VenueServes)
    /\ WF_marketVars(part = "demand" /\ Demand!InsertMarket("a"))
    /\ \A s \in Demand!Sub : WF_marketVars(part = "demand" /\ Demand!VenueData(s))

RivalsFair ==
    /\ WF_marketVars(part = "rivals" /\ Rivals!set_connecting)
    /\ WF_marketVars(part = "rivals" /\ Rivals!Connected)
    /\ WF_marketVars(part = "rivals" /\ Rivals!HeartbeatTimeout)
    /\ WF_marketVars(part = "rivals" /\ Rivals!BackoffEnds)
    /\ WF_marketVars(part = "rivals" /\ Rivals!Messages)
    /\ WF_marketVars(part = "rivals" /\ Rivals!apply_command)
    /\ SF_marketVars(part = "rivals" /\ Rivals!VenueServes)
    /\ \A i \in {"a", "b"} : WF_marketVars(part = "rivals" /\ Rivals!InsertMarket(i))

MCFairSpec ==
    /\ MCSpec
    /\ WF_privateVars(part = "recovering" /\ Recovering!Coordinator)
    /\ WF_privateVars(part = "recovering" /\ Recovering!VenueAnswers)
    /\ WF_privateVars(part = "readback" /\ Readback!Coordinator)
    /\ WF_privateVars(part = "readback" /\ Readback!VenueAnswers)
    /\ WF_privateVars(part = "readback" /\ Readback!FinancialReadback)
    /\ WF_registryVars(part = "serving" /\ Serving!Opening("e1"))
    /\ \A u \in {"u1", "u2"} : WF_registryVars(part = "serving" /\ Serving!recover_unavailable("e1", u))
    /\ \A t \in {"t1", "t2"} : WF_registryVars(part = "serving" /\ Serving!Connecting(t))
    /\ WF_healthVars(part = "recording" /\ Recording!Loop)
    /\ WF_healthVars(part = "recording" /\ Recording!Owner)
    /\ DemandFair /\ RivalsFair
    /\ WF_searchVars(part = "answering" /\ Answering!Work)
-----------------------------------------------------------------------------
\* The requests admitted in a window never pass the limit of the venue, whoever asks; every
\* admission is counted, none happens while the venue throttles, and none waits longer than the
\* bound.
BudgetIsKept ==
    /\ part = "rate" => Rate!WindowLimit /\ Rate!BudgetCountsAdmissions
    /\ part = "rateAlgo" => RateAlgo!WindowLimit /\ RateAlgo!BudgetCountsAdmissions
    /\ part = "rateQueue" => RateQueue!NoneWhileThrottled /\ RateQueue!WaitIsBounded

\* What the streams serve is of their present connection: a book is the snapshot with every later
\* change, data are fresh only when this connection brought them and an instrument that nobody
\* wants is dropped, but for a market that the two steps of a demand left stray; the private
\* stream is ready only in the generation that was read, what it delivered stays in its window until
\* it was read, a snapshot that no change interrupted is the account, and a read that says nothing
\* changed was quiet.
StreamsAreTrue ==
    /\ [](part = "market" => Market!BookIsWhole /\ Market!FreshIsThisConnection /\ Market!NoMarketLeaks)
    /\ [](part = "strays" => Strays!BookIsWhole /\ Strays!FreshIsThisConnection /\ Strays!NoMarketLeaks)
    /\ [](part = "oco" => OcoReads!ReadyIsThisGeneration)
    /\ Converge!WindowHoldsTheDelivered /\ Converge!QuietSnapshotIsTheAccount
    /\ OcoReads!UnchangedMeansQuiet

\* An account has one writer, whichever processes and installations race for it, a catalogued
\* account has a ledger, what a connect answered is on disk, and no account that an installation
\* knows is lost by the promotion of its catalog or a crash within it.
RegistryIsSound ==
    /\ [](part = "registry" => Registry!OneWriter /\ Registry!CataloguedHasLedger /\ Registry!AnswerIsDurable)
    /\ [](part = "shared" => Shared!OneWriter)
    /\ [][part = "shared" => \A e \in {"e1", "e2"} : Shared!Known(e) \subseteq Shared!Known(e)']_mcVars

\* A window called clean had no gap or failure among its attempts, but for those stamped ahead
\* of a clock that stepped back since, a report belongs to the cycle that made it, the
\* latest problems are kept, a diagnosis is of the present state, a source is verified in its
\* generation, and a search finds an operation where it is, once, or says truly that it is nowhere.
DiagnosesAreTrue ==
    /\ [](part = "window" => Window!CleanWindowIsClean)
    /\ [](part = "trace" => Trace!ReportsStayInTheirCycle /\ Trace!LatestProblemsAreKept)
    /\ [](part = "diagnosis" => Diagnosis!DiagnosisIsCurrent)
    /\ [](part = "search" => Search!FoundIsUnique /\ Search!NotFoundIsTrue)
    /\ [](part = "wide" => Wide!RouteIsKept)
    /\ Window!VerifiedInItsGeneration

\* A demand for market data is served unless its market is evicted or delisted or the connection
\* that refused one of its subscriptions stays up, the private stream recovers and every change it
\* delivered is read back, every account is served again, every cycle is recorded and every
\* diagnostic request answered.
SourcesServe ==
    /\ part = "demand" => Demand!DemandIsServed
    /\ part = "rivals" => Rivals!DemandIsServed
    /\ part = "recovering" => Recovering!StreamRecovers
    /\ part = "readback" => Readback!DeltaIsReadBack("orders")
    /\ part = "serving" => Serving!EveryAccountServed
    /\ part = "recording" => Recording!EveryCycleIsRecorded
    /\ part = "answering" => Answering!EveryRequestAnswered
=============================================================================
