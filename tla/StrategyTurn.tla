---------------------------- MODULE StrategyTurn ----------------------------
(***************************************************************************)
(* The autonomous strategy of an account (trade_service/strategies.rs and  *)
(* the strategy tables of ledger/sql): operators create, update, start and *)
(* stop an instance; once a second a turn reads the closed bars, claims    *)
(* the bar's decision in SQL, and closes, opens or declines.  The turn     *)
(* holds no lock across its awaits: the instance, the policy, the served   *)
(* history and the lots may all change between two of its steps.           *)
(*                                                                         *)
(* One instance.  A history digest is the served record itself; a version  *)
(* is its number and its parameters.  last_decision_key is written and     *)
(* never read, and is left out.                                            *)
(***************************************************************************)
EXTENDS Integers, Sequences, FiniteSets, FiniteSetsExt, SequencesExt

CONSTANTS
    Instruments,     \* the configured list of instruments, a sequence
    Requests,        \* operator requests [op, action, parameters, budget, expected]
    Limits,          \* campaign loss limits a policy may set
    Signals,         \* signals the kernel can compute from a bar
    Prompt,          \* orders settle and are captured before the next turn begins
    MaxBar, MaxRevision, MaxRevised, MaxAborts

Ops == {r.op : r \in Requests}
Traded == Range(Instruments)
Sides == {"long", "short"}

StrategyTurnAssumption ==
    /\ Signals \subseteq {-1, 0, 1}
    /\ {MaxBar, MaxRevision, MaxRevised, MaxAborts} \subseteq Nat
    /\ Prompt \in BOOLEAN
    /\ \A r \in Requests : r.action \in {"create", "update", "start", "stop"}

VARIABLES
    instance,    \* the row of strategy_instances
    receipts,    \* operation_receipts of the operators' mutations
    allocated,   \* the sum of the allocations rows
    decisions,   \* the decisions table, in rowid order
    declined,    \* the no-trade receipts
    intents,     \* opening intents
    closes,      \* keys of the closing intents
    lots,        \* captured open lots, per instrument
    fills,       \* fills of the exchange not captured yet
    policy,      \* the applied authority policy
    bar,         \* the last closed bar
    served,      \* what the history source answers, per instrument
    turn,        \* the strategy turn in progress
    aborts       \* failed reads and restarts so far

opsVars == <<instance, receipts, allocated>>
journal == <<decisions, declined>>
market == <<bar, served>>
vars == <<opsVars, journal, intents, closes, lots, fills, policy, market, turn, aborts>>

NoInstance == [exists |-> FALSE, enabled |-> FALSE, version |-> <<0, 0>>, revision |-> 0, budget |-> 0]
Idle == [pc |-> "idle", version |-> <<0, 0>>, todo |-> <<>>, bar |-> 0,
         seen |-> [signal |-> 0, revised |-> 0], rev |-> 0, claim |-> 0, opposite |-> {}]

Head1 == Head(turn.todo)
Side_mutant(signal) == IF signal > 0 THEN "buy" ELSE "sell"

Side(signal) == IF signal > 0 THEN "long" ELSE "short"

-----------------------------------------------------------------------------
(* Operators' mutations.                                                   *)

(* validate_strategy_risk_budget_usd applies to every mutation, stop       *)
(* included.                                                               *)
BudgetInRange(budget) == budget > 0 /\ budget <= policy.limit

(* The instance the service builds from the request and the stored row.    *)
Target(r) ==
    CASE r.action = "create" -> [exists |-> TRUE, enabled |-> FALSE, revision |-> 1,
                                 version |-> <<1, r.parameters>>, budget |-> r.budget]
      [] r.action = "update" -> [instance EXCEPT !.revision = r.expected + 1, !.budget = r.budget,
                                 !.version = IF r.parameters = instance.version[2]
                                             THEN instance.version
                                             ELSE <<instance.version[1] + 1, r.parameters>>]
      [] OTHER -> [instance EXCEPT !.revision = @ + 1, !.enabled = (r.action = "start")]

Acceptable(r) ==
    /\ instance.exists = (r.action # "create")
    /\ r.action = "start" => policy.access
    /\ BudgetInRange(Target(r).budget)
    /\ Target(r).revision = instance.revision + 1

Known_mutant(r) == FALSE

(* A receipt answers every retry, whatever has happened since.             *)
Known(r) == r.op \in receipts

Delta_mutant(r) == Target(r).budget

Delta(r) == Target(r).budget - instance.budget

mutate_instance(r) ==
    /\ ~Known(r)
    /\ Acceptable(r)
    /\ instance' = Target(r)
    /\ receipts' = receipts \cup {r.op}
    /\ allocated' = allocated + (IF r.action \in {"create", "update"} THEN Delta(r) ELSE 0)
    /\ UNCHANGED <<journal, intents, closes, lots, fills, policy, market, turn, aborts>>

-----------------------------------------------------------------------------
(* The strategy turn.                                                      *)

EndTurn == turn' = Idle
NextInstrument_mutant == EndTurn

NextInstrument ==
    turn' = IF Len(turn.todo) = 1 THEN Idle
            ELSE [turn EXCEPT !.todo = Tail(@), !.pc = "load", !.claim = 0, !.opposite = {}]
Goto(pc) == turn' = [turn EXCEPT !.pc = pc]

Open(i) == i.state \in {"POSTING", "UNKNOWN"}

(* maintenance_turn: the enabled instances are read once, then their turns *)
(* run.                                                                    *)
strategy_turn ==
    /\ turn.pc = "idle"
    /\ instance.enabled
    /\ Prompt => fills = {} /\ \A i \in intents : i.state # "UNKNOWN"
    /\ turn' = [Idle EXCEPT !.pc = "load", !.version = instance.version, !.todo = Instruments]
    /\ UNCHANGED <<opsVars, journal, intents, closes, lots, fills, policy, market, aborts>>

load_closed_closes ==
    /\ turn.pc = "load"
    /\ turn' = [turn EXCEPT !.bar = bar, !.seen = served[Head1], !.pc = "authority"]
    /\ UNCHANGED <<opsVars, journal, intents, closes, lots, fills, policy, market, aborts>>

authority ==
    /\ turn.pc = "authority"
    /\ IF policy.access
       THEN turn' = [turn EXCEPT !.rev = policy.revision, !.pc = "claim"]
       ELSE EndTurn
    /\ UNCHANGED <<opsVars, journal, intents, closes, lots, fills, policy, market, aborts>>

decision_key_mutant(version, instrument, b, rev) == <<version, instrument, b, rev>>

(* The key of a bar: account, instance, definition and its parameters,     *)
(* instrument, timeframe and the bar's time; not the policy revision.      *)
decision_key(version, instrument, b, rev) == <<version, instrument, b>>

Key == decision_key(turn.version, Head1, turn.bar, turn.rev)
HasIntent(key) == \E i \in intents : i.key = key

(* The rows of a bar, by rowid, whatever policy revision claimed them.     *)
Claims(version, instrument, b) ==
    {n \in DOMAIN decisions : /\ decisions[n].version = version
                              /\ decisions[n].instrument = instrument
                              /\ decisions[n].bar = b}
latest_strategy_claim(version) ==
    LET c == Claims(version, Head1, turn.bar) IN IF c = {} THEN 0 ELSE Max(c)

SameInput_mutant(n) == TRUE

SameInput(n) == decisions[n].digest = turn.seen

Terminal_mutant(n) == HasIntent(Key)

Terminal(n) == HasIntent(Key) \/ \E d \in declined : d.decision = n

Claimed(n) == turn' = [turn EXCEPT !.claim = n, !.pc = IF turn.seen.signal = 0 THEN "finish" ELSE "lots"]
NewClaim == [version |-> turn.version, instrument |-> Head1, bar |-> turn.bar,
             digest |-> turn.seen, rev |-> turn.rev]

(* One transaction of the account owner.                                   *)
claim_strategy_decision ==
    LET prior == latest_strategy_claim(turn.version)
        append == decisions' = Append(decisions, NewClaim) /\ Claimed(Len(decisions) + 1)
        refuse == EndTurn /\ UNCHANGED decisions
    IN  /\ turn.pc = "claim"
        /\ CASE instance.version # turn.version \/ ~instance.enabled -> refuse
             [] OTHER ->
                CASE prior = 0 -> append
                  [] prior # 0 /\ ~SameInput(prior) -> refuse
                  [] OTHER ->
                     CASE Terminal(prior) -> NextInstrument /\ UNCHANGED decisions
                       [] ~Terminal(prior) /\ decisions[prior].rev = turn.rev ->
                            Claimed(prior) /\ UNCHANGED decisions
                       [] ~Terminal(prior) /\ decisions[prior].rev > turn.rev -> refuse
                       [] ~Terminal(prior) /\ decisions[prior].rev < turn.rev -> append
        /\ UNCHANGED <<opsVars, declined, intents, closes, lots, fills, policy, market, aborts>>

finish_strategy_no_trade ==
    LET prior == latest_strategy_claim(instance.version)
    IN  /\ turn.pc = "finish"
        /\ IF prior # 0 /\ ~HasIntent(Key)
           THEN /\ declined' = declined \cup {[decision |-> prior, held |-> turn.seen.signal # 0]}
                /\ NextInstrument
           ELSE EndTurn /\ UNCHANGED declined
        /\ UNCHANGED <<opsVars, decisions, intents, closes, lots, fills, policy, market, aborts>>

Desired == Side(turn.seen.signal)

AfterLots_mutant(own) == IF \E l \in own : l.side = Desired THEN "finish" ELSE "execute"

(* Lots of the other side are closed first, the bar stays pending; lots of *)
(* the wanted side decline the bar.                                        *)
AfterLots(own) ==
    CASE \E l \in own : l.side # Desired -> "close"
      [] own # {} /\ \A l \in own : l.side = Desired -> "finish"
      [] own = {} -> "execute"

active_lots ==
    /\ turn.pc = "lots"
    /\ turn' = [turn EXCEPT !.pc = AfterLots(lots[Head1]),
                            !.opposite = {l \in lots[Head1] : l.side # Desired}]
    /\ UNCHANGED <<opsVars, journal, intents, closes, lots, fills, policy, market, aborts>>

(* One close per lot; a used key only reads the status of its close.  The  *)
(* immediate-or-cancel order fills or leaves the lot as it is.             *)
close ==
    /\ turn.pc = "close"
    /\ \E l \in turn.opposite :
        LET key == <<Key, l>>
            done == IF turn.opposite = {l} THEN NextInstrument
                    ELSE turn' = [turn EXCEPT !.opposite = @ \ {l}]
        IN  IF key \in closes THEN done /\ UNCHANGED <<closes, fills>>
            ELSE IF l \notin lots[Head1] \/ policy.revision # turn.rev
                 THEN EndTurn /\ UNCHANGED <<closes, fills>>
                 ELSE /\ closes' = closes \cup {key}
                      /\ done
                      /\ fills' \in {fills, fills \cup {[lot |-> l, instrument |-> Head1, opens |-> FALSE]}}
    /\ UNCHANGED <<opsVars, journal, intents, lots, policy, market, aborts>>

(* execute_for_definition: the idempotency key, the policy the turn        *)
(* started with, and the definition found while planning.                  *)
execute_for_definition ==
    /\ turn.pc = "execute"
    /\ IF ~HasIntent(Key) /\ policy.revision = turn.rev /\ instance.version = turn.version
       THEN Goto("prepare") ELSE EndTurn
    /\ UNCHANGED <<opsVars, journal, intents, closes, lots, fills, policy, market, aborts>>

prepare ==
    /\ turn.pc = "prepare"
    /\ IF /\ instance.version = turn.version
          /\ decisions[turn.claim].digest = turn.seen
          /\ decisions[turn.claim].rev = turn.rev
          /\ \A i \in intents : i.decision # turn.claim
       THEN /\ intents' = intents \cup {[key |-> Key, decision |-> turn.claim, side |-> Desired,
                                         state |-> "RESERVED"]}
            /\ Goto("post")
       ELSE EndTurn /\ UNCHANGED intents
    /\ UNCHANGED <<opsVars, journal, closes, lots, fills, policy, market, aborts>>

Mine == CHOOSE i \in intents : i.decision = turn.claim
Becomes(i, state) == intents' = (intents \ {i}) \cup {[i EXCEPT !.state = state]}

StillWanted_mutant == instance.version = turn.version

StillWanted == instance.enabled /\ instance.version = turn.version

begin_post ==
    /\ turn.pc = "post"
    /\ IF /\ StillWanted
          /\ policy.access /\ policy.revision = turn.rev
          /\ ~\E i \in intents : Open(i)
       THEN Becomes(Mine, "POSTING") /\ Goto("sent")
       ELSE Becomes(Mine, "REJECTED") /\ EndTurn
    /\ UNCHANGED <<opsVars, journal, closes, lots, fills, policy, market, aborts>>

Lot(i) == [side |-> i.side, decision |-> i.decision]
Filled(i) ==
    /\ Becomes(i, "FILLED")
    /\ fills' = fills \cup {[lot |-> Lot(i), instrument |-> decisions[i.decision].instrument,
                             opens |-> TRUE]}
Rejected(i) == Becomes(i, "REJECTED") /\ UNCHANGED fills

(* The fill-or-kill order fills, is refused, or its answer is lost.        *)
record_outcome ==
    /\ turn.pc = "sent"
    /\ \/ Filled(Mine)
       \/ Rejected(Mine)
       \/ Becomes(Mine, "UNKNOWN") /\ UNCHANGED fills
    /\ NextInstrument
    /\ UNCHANGED <<opsVars, journal, closes, lots, policy, market, aborts>>

-----------------------------------------------------------------------------
(* The surroundings.                                                       *)

(* An unknown order is reconciled, concurrently with the turn.             *)
Reconcile ==
    /\ \E i \in intents : i.state = "UNKNOWN" /\ (Filled(i) \/ Rejected(i))
    /\ UNCHANGED <<opsVars, journal, closes, lots, policy, market, turn, aborts>>

Capture ==
    /\ \E f \in fills :
        /\ fills' = fills \ {f}
        /\ lots' = [lots EXCEPT ![f.instrument] = IF f.opens THEN @ \cup {f.lot} ELSE @ \ {f.lot}]
    /\ UNCHANGED <<opsVars, journal, intents, closes, policy, market, turn, aborts>>

(* A protective stop at the exchange, or an operator's own close.          *)
ClosedElsewhere ==
    /\ \E i \in Traded : \E l \in lots[i] :
        /\ fills' = fills \cup {[lot |-> l, instrument |-> i, opens |-> FALSE]}
        /\ fills' # fills
    /\ UNCHANGED <<opsVars, journal, intents, closes, lots, policy, market, turn, aborts>>

apply_authority_policy ==
    /\ policy.revision < MaxRevision
    /\ \E access \in BOOLEAN, limit \in Limits :
        policy' = [revision |-> policy.revision + 1, access |-> access, limit |-> limit]
    /\ UNCHANGED <<opsVars, journal, intents, closes, lots, fills, market, turn, aborts>>

NewHistory == [Traded -> [signal : Signals, revised : {0}]]

BarCloses ==
    /\ bar < MaxBar
    /\ bar' = bar + 1
    /\ served' \in NewHistory
    /\ UNCHANGED <<opsVars, journal, intents, closes, lots, fills, policy, turn, aborts>>

(* The history source serves the same bar with other candles.              *)
HistoryRevised ==
    /\ \E i \in Traded, s \in Signals :
        /\ served[i].revised < MaxRevised
        /\ served' = [served EXCEPT ![i] = [signal |-> s, revised |-> @.revised + 1]]
    /\ UNCHANGED <<opsVars, journal, intents, closes, lots, fills, policy, bar, turn, aborts>>

(* A call of the turn fails, or the process stops; a restart finds a       *)
(* posting intent unknown and a reserved one unsent.                       *)
Interrupted ==
    /\ turn.pc # "idle" /\ aborts < MaxAborts
    /\ aborts' = aborts + 1
    /\ EndTurn
    /\ intents' = {IF i.state = "POSTING" THEN [i EXCEPT !.state = "UNKNOWN"]
                   ELSE IF i.state = "RESERVED" THEN [i EXCEPT !.state = "REJECTED"] ELSE i : i \in intents}
    /\ UNCHANGED <<opsVars, journal, closes, lots, fills, policy, market>>

-----------------------------------------------------------------------------
Init ==
    /\ instance = NoInstance /\ receipts = {} /\ allocated = 0
    /\ decisions = <<>> /\ declined = {} /\ intents = {} /\ closes = {}
    /\ lots = [i \in Traded |-> {}] /\ fills = {}
    /\ policy \in [revision : {1}, access : {TRUE}, limit : Limits]
    /\ bar = 1 /\ served \in NewHistory
    /\ turn = Idle /\ aborts = 0

TurnStep ==
    \/ load_closed_closes \/ authority \/ claim_strategy_decision \/ finish_strategy_no_trade
    \/ active_lots \/ close \/ execute_for_definition \/ prepare \/ begin_post \/ record_outcome

Next ==
    \/ \E r \in Requests : mutate_instance(r)
    \/ strategy_turn \/ TurnStep
    \/ Reconcile \/ Capture \/ ClosedElsewhere \/ apply_authority_policy
    \/ BarCloses \/ HistoryRevised \/ Interrupted

Spec == Init /\ [][Next]_vars

(* The one-second timer, the reconciler and the capture loop keep running. *)
LiveSpec == Spec /\ WF_vars(strategy_turn \/ TurnStep) /\ WF_vars(Reconcile) /\ WF_vars(Capture)

-----------------------------------------------------------------------------
(* Types of the journal, the intents and the turn.                         *)
TypeOK ==
    /\ receipts \subseteq Ops
    /\ instance.enabled => instance.exists
    /\ \A d \in declined : d.decision \in DOMAIN decisions
    /\ \A i \in intents : /\ i.decision \in DOMAIN decisions
                          /\ i.side \in Sides
                          /\ i.state \in {"RESERVED", "POSTING", "UNKNOWN", "FILLED", "REJECTED"}
    /\ turn.claim \in 0 .. Len(decisions)

(* However many policy revisions, restarts and lost answers a bar sees,    *)
(* one version of the strategy prepares at most one opening order on it.   *)
OneOpenPerBar ==
    \A i, j \in intents :
        LET d == decisions[i.decision]
            e == decisions[j.decision]
        IN  d.version = e.version /\ d.instrument = e.instrument /\ d.bar = e.bar => i = j

(* What a bar ends in was computed from the very history its decision row  *)
(* records, even when the source later serves other candles for it.        *)
OutcomeFollowsRecordedInput ==
    /\ \A i \in intents : i.side = Side(decisions[i.decision].digest.signal)
    /\ \A d \in declined : d.held \/ decisions[d.decision].digest.signal = 0

(* The rows of a bar form one lineage: a later row has a later policy, and *)
(* no row that was followed by another one was declined or traded.         *)
LineageIsLinear ==
    \A m, n \in DOMAIN decisions :
        LET d == decisions[m]
            e == decisions[n]
        IN  m < n /\ d.version = e.version /\ d.instrument = e.instrument /\ d.bar = e.bar =>
                /\ d.rev < e.rev
                /\ \A x \in declined : x.decision # m
                /\ \A i \in intents : i.decision # m

(* With orders settled and captured between turns, the instance never      *)
(* holds two positions on one instrument: it closes before it reverses.    *)
OnePosition ==
    \A i \in Traded :
        LET opened == {f.lot : f \in {g \in fills : g.instrument = i /\ g.opens}}
        IN  Cardinality(lots[i] \cup opened) <= 1

(* The allocations of the ledger sum to the budget of the instance.        *)
AllocationsSumToBudget == allocated = instance.budget

(* A retried request, however late, never starts, stops or reconfigures    *)
(* the strategy again: each operation takes effect once.                   *)
EachOperationOnce ==
    [][instance' # instance => \E r \in Requests : r.op \notin receipts /\ r.op \in receipts']_vars

(* Once a stop is answered nothing opens until the next start: an order    *)
(* handed to the exchange belongs to an enabled strategy and its current   *)
(* parameters, although the turn read both long before.                    *)
StopEndsOpening ==
    [][\A i \in intents' : i.state = "POSTING" /\ (\A j \in intents : j.decision = i.decision => j.state # "POSTING")
            => instance.enabled /\ instance.version = decisions[i.decision].version]_vars

(* The last bar is settled: on every instrument of a strategy that stays   *)
(* enabled the bar is traded or declined, or a close it needed first was   *)
(* not filled.                                                             *)
Settled(i) ==
    \/ \E n \in Claims(instance.version, i, bar) :
            (\E x \in declined : x.decision = n) \/ (\E x \in intents : x.decision = n)
    \/ \E k \in closes : k[1] = decision_key(instance.version, i, bar, 0) /\ k[2] \in lots[i]

\* Every bar of a strategy that stays enabled is settled in the end.
BarsAreSettled ==
    <>[](instance.enabled /\ policy.access) => <>(\A i \in Traded : Settled(i))

(* A stop is a protective command and is never refused for the budget.     *)
StopIsAccepted ==
    instance.enabled =>
        \A r \in Requests : r.action = "stop" /\ r.op \notin receipts => Acceptable(r)

=============================================================================
