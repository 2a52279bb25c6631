------------------------------ MODULE MCOrders ------------------------------
(***************************************************************************)
(* What happens to an order around its execution, for TLC: the maintenance *)
(* of an entry and its stop (ProtectionExit), the census of the risk at    *)
(* the venue, the plan of an order and its size, the turn of a strategy,   *)
(* and the execution itself where its liveness is checked. Every behaviour *)
(* exercises one of them and the others stay at rest, so that a run has    *)
(* the sum of their states and not the product.                            *)
(***************************************************************************)
EXTENDS ProtectionExit, Sequences

CONSTANT Parts   \* the components a run lets move

VARIABLES
    part,            \* the component this behaviour is about
    userEntry, userPos, userAlgo, userIstate, userSaved, userStopped, userOps, userLots, userClosed,
    userPc, userRd, userPosts, userBare, userLate, userReplaced, userFaults,
    censusVenue, changes, censusFaults, generation, verified, cache, lock, census, read, steady,
    public, private, day, loss, drawdown, own, navComplete, planChanges, stops, manual, queue, plan,
    breached, crossed,
    order, pricing, sized, priced, sizingPc,
    instance, receipts, allocated, decisions, declined, intents, closes, strategyLots, fills,
    policy, bar, served, turn, aborts,
    sql, tradePolicy, expired, proc, tradeQueue, central, granted, sequence, tradeVenue, tradePosts,
    revoked, noise, tradeFaults

Everything == {"long", "stop", "manual", "stray", "trigger", "fx"}
EverythingKind == [long |-> "position", stop |-> "algo", manual |-> "order", stray |-> "position",
                   trigger |-> "algo", fx |-> "rate"]
EverythingScope == [stop |-> 1, trigger |-> 2]
Protected == [long |-> "stop"]
Asked(op, action, parameters, budget, expected) ==
    [op |-> op, action |-> action, parameters |-> parameters, budget |-> budget, expected |-> expected]
OnlyStart == {Asked("c", "create", 1, 2, 0), Asked("s", "start", 0, 0, 0)}
Reconfigured ==
    OnlyStart \cup {Asked("t", "stop", 0, 0, 0), Asked("s2", "start", 0, 0, 0),
                    Asked("u", "update", 2, 1, 2), Asked("v", "update", 1, 1, 3)}

ByUsers == INSTANCE ProtectionExit WITH
    Q <- 2, Turns <- {"maintenance"}, Users <- {"replace"}, AlgoOutcomes <- {"failed"},
    CloseOutcomes <- {"filled"}, Faults <- {"recheck"}, MaxFaults <- 1,
    entry <- userEntry, pos <- userPos, algo <- userAlgo, istate <- userIstate, saved <- userSaved,
    stopped <- userStopped, ops <- userOps, lots <- userLots, closed <- userClosed, pc <- userPc,
    rd <- userRd, posts <- userPosts, bare <- userBare, late <- userLate, replaced <- userReplaced,
    faults <- userFaults
ByCancel == INSTANCE ProtectionExit WITH
    Q <- 1, Turns <- {"maintenance"}, Users <- {"cancel"}, AlgoOutcomes <- {"failed"},
    CloseOutcomes <- {"filled"}, Faults <- {"crash"}, MaxFaults <- 1,
    entry <- userEntry, pos <- userPos, algo <- userAlgo, istate <- userIstate, saved <- userSaved,
    stopped <- userStopped, ops <- userOps, lots <- userLots, closed <- userClosed, pc <- userPc,
    rd <- userRd, posts <- userPosts, bare <- userBare, late <- userLate, replaced <- userReplaced,
    faults <- userFaults
Covered == INSTANCE ProtectionExit WITH
    Q <- 2, Turns <- {"maintenance"}, Users <- {}, AlgoOutcomes <- {"attached", "failed"},
    CloseOutcomes <- {"filled"}, Faults <- {"request", "reply", "crash"},
    MaxFaults <- 1, entry <- userEntry, pos <- userPos, algo <- userAlgo, istate <- userIstate,
    saved <- userSaved, stopped <- userStopped, ops <- userOps, lots <- userLots,
    closed <- userClosed, pc <- userPc, rd <- userRd, posts <- userPosts, bare <- userBare,
    late <- userLate, replaced <- userReplaced, faults <- userFaults
Removing == INSTANCE ProtectionExit WITH
    Q <- 1, Turns <- {"maintenance", "status"}, Users <- {}, AlgoOutcomes <- {"attached", "failed"},
    CloseOutcomes <- {"filled"}, Faults <- {"read", "clock", "request", "reply", "capture", "crash"},
    MaxFaults <- 1, entry <- userEntry, pos <- userPos, algo <- userAlgo, istate <- userIstate,
    saved <- userSaved, stopped <- userStopped, ops <- userOps, lots <- userLots,
    closed <- userClosed, pc <- userPc, rd <- userRd, posts <- userPosts, bare <- userBare,
    late <- userLate, replaced <- userReplaced, faults <- userFaults
DeadStop == INSTANCE ProtectionExit WITH
    Q <- 2, Turns <- {"maintenance"}, Users <- {}, AlgoOutcomes <- {"failed"},
    CloseOutcomes <- {"rejected"},
    Faults <- {"read", "clock", "request", "reply", "capture", "authority", "recheck", "crash"},
    MaxFaults <- 1, entry <- userEntry, pos <- userPos, algo <- userAlgo, istate <- userIstate,
    saved <- userSaved, stopped <- userStopped, ops <- userOps, lots <- userLots,
    closed <- userClosed, pc <- userPc, rd <- userRd, posts <- userPosts, bare <- userBare,
    late <- userLate, replaced <- userReplaced, faults <- userFaults
Census == INSTANCE RiskCensus WITH
    Accounts <- {"a1"}, Objects <- Everything, KindOf <- EverythingKind,
    Managed <- {"long", "stop"}, ProtectedBy <- Protected, ScopeOf <- EverythingScope,
    SampleLimit <- 2, Initially <- {"long", "stop"}, MaxChanges <- 2, MaxFaults <- 1,
    venue <- censusVenue, faults <- censusFaults
Sampled == INSTANCE RiskCensus WITH
    Accounts <- {"a1"}, Objects <- Everything, KindOf <- EverythingKind,
    Managed <- {"long", "stop"}, ProtectedBy <- Protected, ScopeOf <- EverythingScope,
    SampleLimit <- 1, Initially <- {"long", "stop"}, MaxChanges <- 2, MaxFaults <- 1,
    venue <- censusVenue, faults <- censusFaults
Plan == INSTANCE OrderPlan WITH
    Plans <- {"p1", "p2"}, Increase <- {"p1"}, Recording <- {"p1", "p2"}, Strategies <- {"p2"},
    MaxChanges <- 2, MaxDay <- 1, Happens <- {"public", "private"}, Overtaken <- FALSE,
    changes <- planChanges
Stops == INSTANCE OrderPlan WITH
    Plans <- {"p1", "p2"}, Increase <- {"p1", "p2"}, Recording <- {"p1", "p2"}, Strategies <- {},
    MaxChanges <- 1, MaxDay <- 2, Happens <- {"loss"}, Overtaken <- TRUE, changes <- planChanges
Previews == INSTANCE OrderPlan WITH
    Plans <- {"p1", "p2"}, Increase <- {"p1", "p2"}, Recording <- {"p1"}, Strategies <- {"p1"},
    MaxChanges <- 2, MaxDay <- 1, Happens <- {"loss"}, Overtaken <- FALSE, changes <- planChanges
Planning == INSTANCE OrderPlan WITH
    Plans <- {"p1"}, Increase <- {"p1"}, Recording <- {"p1"}, Strategies <- {"p1"}, MaxChanges <- 2,
    MaxDay <- 1, Happens <- {"public", "private", "time"}, Overtaken <- TRUE, changes <- planChanges
Sizing == INSTANCE EntrySizing WITH
    Precision <- 2, FeeUnit <- 2, UsdUnit <- 3, Prices <- {1, 3}, Lots <- {1, 2}, Minima <- {1, 3},
    FeeRates <- {0, 1}, Rates <- {9, 11}, Budgets <- {4, 9}, LossRates <- {5}, Quotes <- {7},
    Ticks <- {2}, Slips <- {0}, pc <- sizingPc
Precise == INSTANCE EntrySizing WITH
    Precision <- 1000, FeeUnit <- 10, UsdUnit <- 10, Prices <- {3}, Lots <- {1, 2}, Minima <- {1},
    FeeRates <- {1}, Rates <- {9, 10, 11}, Budgets <- {4, 9, 10}, LossRates <- {0, 7},
    Quotes <- {7}, Ticks <- {2}, Slips <- {0}, pc <- sizingPc
Pricing == INSTANCE EntrySizing WITH
    Precision <- 2, FeeUnit <- 1, UsdUnit <- 1, Prices <- {1}, Lots <- {1}, Minima <- {1},
    FeeRates <- {0}, Rates <- {10}, Budgets <- {4}, LossRates <- {5}, Quotes <- {2, 5, 6, 9},
    Ticks <- {1, 2, 3}, Slips <- {0, 1, 3}, pc <- sizingPc
Bars == INSTANCE StrategyTurn WITH
    Instruments <- <<"i1">>, Requests <- OnlyStart, Limits <- {2}, Signals <- {0, 1},
    Prompt <- FALSE, MaxBar <- 2, MaxRevision <- 3, MaxRevised <- 1, MaxAborts <- 1,
    lots <- strategyLots
Operators == INSTANCE StrategyTurn WITH
    Instruments <- <<"i1">>, Requests <- Reconfigured, Limits <- {1, 2}, Signals <- {0, 1},
    Prompt <- FALSE, MaxBar <- 1, MaxRevision <- 2, MaxRevised <- 0, MaxAborts <- 0,
    lots <- strategyLots
Position == INSTANCE StrategyTurn WITH
    Instruments <- <<"i1", "i2">>, Requests <- OnlyStart, Limits <- {2}, Signals <- {-1, 1},
    Prompt <- TRUE, MaxBar <- 2, MaxRevision <- 1, MaxRevised <- 0, MaxAborts <- 1,
    lots <- strategyLots
Settling == INSTANCE StrategyTurn WITH
    Instruments <- <<"i1">>, Requests <- OnlyStart, Limits <- {2}, Signals <- {-1, 1},
    Prompt <- FALSE, MaxBar <- 2, MaxRevision <- 1, MaxRevised <- 0, MaxAborts <- 1,
    lots <- strategyLots
Trade == INSTANCE TradeExecution WITH
    Intent <- {"i1"}, Executor <- {"e1"}, Reconciler <- {"m1"}, MaxTries <- 2, MaxQueue <- 3,
    MaxRevision <- 1, MaxNoise <- 0, MaxFaults <- 1, policy <- tradePolicy, queue <- tradeQueue,
    venue <- tradeVenue, posts <- tradePosts, faults <- tradeFaults

ASSUME PartsAssumption ==
    /\ Census!CensusAssumption /\ Sampled!CensusAssumption /\ Plan!OrderPlanAssumption /\ Stops!OrderPlanAssumption
    /\ Previews!OrderPlanAssumption
    /\ Planning!OrderPlanAssumption /\ Sizing!EntrySizingAssumption /\ Precise!EntrySizingAssumption
    /\ Pricing!EntrySizingAssumption /\ Bars!StrategyTurnAssumption /\ Operators!StrategyTurnAssumption
    /\ Position!StrategyTurnAssumption /\ Settling!StrategyTurnAssumption

userVars ==
    <<userEntry, userPos, userAlgo, userIstate, userSaved, userStopped, userOps, userLots, userClosed,
    userPc, userRd, userPosts, userBare, userLate, userReplaced, userFaults>>
censusVars ==
    <<censusVenue, changes, censusFaults, generation, verified, cache, lock, census, read, steady>>
planVars ==
    <<public, private, day, loss, drawdown, own, navComplete, planChanges, stops, manual, queue, plan,
    breached, crossed>>
sizingVars == <<order, pricing, sized, priced, sizingPc>>
strategyVars ==
    <<instance, receipts, allocated, decisions, declined, intents, closes, strategyLots, fills,
    policy, bar, served, turn, aborts>>
tradeVars ==
    <<sql, tradePolicy, expired, proc, tradeQueue, central, granted, sequence, tradeVenue, tradePosts,
    revoked, noise, tradeFaults>>
mcVars == <<part, vars, userVars, censusVars, planVars, sizingVars, strategyVars, tradeVars>>

\* A behaviour is about one component; the others stay at rest where they start.
MCInit ==
    /\ part \in Parts
    /\ Init
    /\ CASE part = "cancels" -> ByCancel!Init
         [] part = "covered" -> Covered!Init
         [] part = "removing" -> Removing!Init
         [] part = "dead" -> DeadStop!Init
         [] OTHER -> ByUsers!Init
    /\ Census!Init /\ (part \notin {"census", "sampled"} => \A a \in {"a1"} : cache[a] = Census!Empty)
    /\ CASE part = "stops" -> Stops!Init
         [] part = "previews" -> Previews!Init
         [] part = "planning" -> Planning!Init
         [] OTHER -> Plan!Init
    /\ CASE part = "sizing" -> Sizing!Init
         [] part = "precise" -> Precise!Init
         [] part = "price" -> Pricing!Init
         [] OTHER -> order = "off" /\ pricing = "off" /\ sized = "off" /\ priced = "off" /\ sizingPc = "off"
    /\ CASE part = "operators" -> Operators!Init
         [] part = "position" -> Position!Init
         [] part = "settling" -> Settling!Init
         [] OTHER -> Bars!Init
    /\ Trade!Init

Move(p, A) ==
    /\ part = p /\ A /\ UNCHANGED part
    /\ IF p = "exit" THEN TRUE ELSE UNCHANGED vars
    /\ IF p \in {"users", "cancels", "covered", "removing", "dead"} THEN TRUE ELSE UNCHANGED userVars
    /\ IF p \in {"census", "sampled"} THEN TRUE ELSE UNCHANGED censusVars
    /\ IF p \in {"plan", "stops", "previews", "planning"} THEN TRUE ELSE UNCHANGED planVars
    /\ IF p \in {"sizing", "precise", "price"} THEN TRUE ELSE UNCHANGED sizingVars
    /\ IF p \in {"bars", "operators", "position", "settling"} THEN TRUE ELSE UNCHANGED strategyVars
    /\ IF p = "trade" THEN TRUE ELSE UNCHANGED tradeVars

MCNext ==
    \/ Move("exit", Next)
    \/ Move("users", ByUsers!Next)
    \/ Move("cancels", ByCancel!Next)
    \/ Move("covered", Covered!Next)
    \/ Move("removing", Removing!Next)
    \/ Move("dead", DeadStop!Next)
    \/ Move("census", Census!Next)
    \/ Move("sampled", Sampled!Next)
    \/ Move("plan", Plan!Next)
    \/ Move("stops", Stops!Next)
    \/ Move("previews", Previews!Next)
    \/ Move("planning", Planning!Next)
    \/ Move("sizing", Sizing!Next)
    \/ Move("precise", Precise!Next)
    \/ Move("price", Pricing!Next)
    \/ Move("bars", Bars!Next)
    \/ Move("operators", Operators!Next)
    \/ Move("position", Position!Next)
    \/ Move("settling", Settling!Next)
    \/ Move("trade", Trade!Next)

MCSpec == MCInit /\ [][MCNext]_mcVars

\* What the code's loops and the venue go on doing (see the components' fair specifications).
MCFairSpec ==
    /\ MCSpec
    /\ \A p \in Procs : WF_vars(part = "exit" /\ Step(p))
    /\ WF_vars(part = "exit" /\ CancelTakesEffect) /\ WF_vars(part = "exit" /\ AlgoCancelTakesEffect)
    /\ \A p \in DeadStop!Procs : WF_userVars(part = "dead" /\ DeadStop!Step(p))
    /\ WF_userVars(part = "dead" /\ DeadStop!CancelTakesEffect)
    /\ WF_userVars(part = "dead" /\ DeadStop!AlgoCancelTakesEffect)
    /\ WF_planVars(part = "planning" /\ Planning!financial_admission)
    /\ WF_planVars(part = "planning" /\ Planning!Call("p1"))
    /\ WF_planVars(part = "planning" /\ Planning!Expire("p1"))
    /\ WF_strategyVars(part = "settling" /\ (Settling!strategy_turn \/ Settling!TurnStep))
    /\ WF_strategyVars(part = "settling" /\ Settling!Reconcile)
    /\ WF_strategyVars(part = "settling" /\ Settling!Capture)
    /\ WF_tradeVars(part = "trade" /\ Trade!expire("i1"))
    /\ WF_tradeVars(part = "trade" /\ Trade!ExecutorStep("e1"))
    /\ \A p \in {"e1", "m1"} : WF_tradeVars(part = "trade" /\ Trade!StatusStep(p))
    /\ SF_tradeVars(part = "trade" /\ Trade!maintain("m1", "i1"))
    /\ WF_tradeVars(part = "trade" /\ Trade!Deliver)
    /\ WF_tradeVars(part = "trade" /\ Trade!updateGovernance(tradePolicy.central))
-----------------------------------------------------------------------------
\* A receipt says what the venue shows and goes on showing: the entry whose cancel was receipted has
\* ended, and the stop whose removal was receipted is gone, with two turns at once, late fills and a
\* failed stop as well as an attached one.
ReceiptsHold ==
    /\ ReceiptsAreTrue
    /\ part = "covered" => Covered!ReceiptsAreTrue
    /\ part = "removing" => Removing!ReceiptsAreTrue

\* A cancel or a replacement of a user next to the maintenance of the entry posts no key twice, nor
\* do two turns that remove a stop; a replacement starts from a flat entry unless its readback failed
\* unseen, and the cleanup takes the stop of a position only where the entry filled after the
\* snapshot that said flat.
UsersAreSafe ==
    /\ part = "users" => ByUsers!OnePostPerKey /\ ByUsers!ReplacementStartsFlat
    /\ part = "cancels" => ByCancel!OnePostPerKey
    /\ part = "removing" => Removing!OnePostPerKey
    /\ part = "covered" => Covered!KeepsNeededStop

\* The evidence an order is judged by belongs together: a census answers from the reads made after
\* its account was held, of one generation of the private stream and with no foreign risk that stays
\* throughout it, a sample too small for the conditional orders hides no risk but one of those, and
\* a plan is made from sources of one generation.
EvidenceIsOneGeneration ==
    /\ part = "census" => Census!EvidenceAfterHeld /\ Census!OneGeneration /\ Census!NoForeignThroughout
    /\ part = "sampled" => Sampled!ForeignIsBeyondSample
    /\ part = "plan" => Plan!OneGenerationPlan

\* No entry is planned past a limit: once an admission finds the daily loss reached none is admitted
\* for the rest of that day, and the account stays stopped for it unless a job dated the day before
\* ran in it; a preview writes nothing, the size of an entry is the largest within every cap, its
\* modelled loss with fees stays within the budget after every rounding, and its price within the
\* bounds of the venue.
LossLimitsHold ==
    /\ [](part = "stops" => Stops!BreachIsStopped)
    /\ Stops!BreachEndsAdmission /\ [][part = "previews" => ~Previews!PreviewWrites]_planVars
    /\ [](part = "sizing" => Sizing!WithinEveryCap /\ Sizing!BudgetIsUsed)
    /\ [](part = "precise" => Precise!LossWithinLimit)
    /\ [](part = "price" => Pricing!PriceInBounds)

\* A strategy opens at most once for a bar, its outcome follows from the input it recorded whatever
\* is revised or aborted meanwhile, its configurations form one line whose allocations sum to the
\* budget, it holds one position, and after a stop it opens none.
StrategyIsOrderly ==
    /\ [](part = "bars" => Bars!OneOpenPerBar /\ Bars!OutcomeFollowsRecordedInput)
    /\ [](part = "operators" => Operators!LineageIsLinear /\ Operators!AllocationsSumToBudget)
    /\ [](part = "position" => Position!OnePosition)
    /\ Operators!StopEndsOpening

\* What an order leaves open is settled: a position without cover is left and a stop that is not
\* needed is removed, except behind a marker whose POST was never sent (and a position keeps what
\* its one close did not fill), an account with a dead stop is stopped, every plan and every bar
\* ends, and the risk of an order that was never sent is returned.
OrdersAreSettled ==
    /\ UncoveredIsLeftOrStranded /\ StopIsRemovedOrStranded
    /\ part = "dead" => DeadStop!UncoveredIsStopped
    /\ part = "planning" => Planning!EveryPlanEnds
    /\ part = "settling" => Settling!BarsAreSettled
    /\ part = "trade" => Trade!UnsentRiskIsReturned
=============================================================================
