------------------------------- MODULE RiskBook -------------------------------
(***************************************************************************)
(* The central RiskBook of the Cloudflare Worker                           *)
(* (cloudflare/okx-mcp/src/risk_book.ts), the native commands that reach   *)
(* it (risk_authority.ts) and the policy revisions that share its Durable  *)
(* Object storage (account_governance_store.ts).  Every handler is one     *)
(* storage transaction, hence one action.                                  *)
(*                                                                         *)
(* A command that is denied before it writes leaves the state alone and is *)
(* not an action; one that is denied after applyCensusLoss has charged     *)
(* newly observed losses keeps the charge (ChargeOnly).  A reservation     *)
(* body (plan hash, loss, USD conversion, strategy, instrument) is one     *)
(* value of Plan.  Digests, source_as_of_ms and latest_activity_ms are     *)
(* read by no guard and are left out.                                      *)
(***************************************************************************)
EXTENDS GovernancePolicy

CONSTANTS
    Intent, IntentAccount,            \* an intent's key names its account
    Plan, NoPlan,
    PlanLoss, PlanUsd,                \* loss_usdt, and loss_usd rounded up
    PlanStrategy, PlanInstrument,
    CampaignLimit,                    \* "10" in initializeRiskBook
    Window,                           \* MAX_CENSUS_AGE_MS and the POST window
    LimitChoice, TotalChoice, RowChoice,   \* inputs of the policy operations
    OccupiedChoice,                   \* and of the census
    MaxTime, MaxRevision, MaxGeneration   \* bounds of the explored instance

ASSUME FiniteAssumption == IsFiniteSet(Account) /\ IsFiniteSet(Intent)

ASSUME PlanAssumption ==
    /\ NoPlan \notin Plan
    /\ IntentAccount \in [Intent -> RealAccount]
    /\ PlanLoss \in [Plan -> Nat \ {0}]
    /\ PlanUsd \in [Plan -> Nat \ {0}]
    /\ PlanStrategy \in [Plan -> Strategy]
    /\ PlanInstrument \in [Plan -> Instrument]

\* The business fields of one account in a governance request.
Row == [enabled : BOOLEAN, explicit_pause : BOOLEAN, limits : Limits,
        strategies : [Strategy -> Nat]]

ASSUME BoundAssumption ==
    /\ CampaignLimit \in Nat \ {0}
    /\ {Window, MaxTime, MaxRevision, MaxGeneration} \subseteq Nat
    /\ TotalChoice \subseteq Nat
    /\ OccupiedChoice \subseteq Nat
    /\ LimitChoice \subseteq Limits
    /\ RowChoice \subseteq Row

VARIABLES
    governance,          \* account_governance document
    generation,          \* generation of the accepted runtime session
    sequence, occupied_usdt, occupied_usd, consumed_loss_usd,
    campaign_limit_usd, accounts,     \* risk_meta_v2
    entries,             \* risk_entry_v2
    fence,               \* risk_no_reserve_v1: the fenced plan
    strategy,            \* risk_strategy_v2
    aggregate,           \* risk_account_v2
    loss,                \* risk_loss_v2
    now,                 \* the Worker's clock
    realised,            \* environment: what each posted order really lost
    revoked              \* history: intents HELD when a STOP was committed

meta == <<sequence, occupied_usdt, occupied_usd, consumed_loss_usd,
          campaign_limit_usd, accounts>>
book == <<meta, entries, fence, strategy, aggregate, loss>>
vars == <<governance, generation, book, now, realised, revoked>>

EntryState == {"NONE", "HELD", "POSTED", "UNKNOWN", "OPEN", "RELEASED"}

RiskEntry == [state : EntryState, plan : Plan \cup {NoPlan}, revision : Nat,
              created : Nat, posted : Nat]       \* posted = 0: undefined

NoEntry == [state |-> "NONE", plan |-> NoPlan, revision |-> 0,
            created |-> 0, posted |-> 0]

Occupying(e) == e.state \in {"HELD", "POSTED", "UNKNOWN", "OPEN"}

SumOver(S, f) == MapThenSumSet(LAMBDA x : f[x], S)
-------------------------------------------------------------------------------
(***************************************************************************)
(* Checks every handler makes on what it read.                             *)
(***************************************************************************)
validMeta ==
    /\ campaign_limit_usd > 0
    /\ SumOver(Account, accounts) = occupied_usdt

validEntry(e) ==
    /\ e.state # "NONE"
    /\ e.created > 0
    /\ e.posted # 0 => e.posted > e.created

authority == projectRiskPolicy(governance)

\* A policy projects to a usable budget when it names a real account.
budget(policy) == policy.global_limit_usdt > 0 /\ DOMAIN policy.account_limits_usdt # {}
                  /\ \A a \in DOMAIN policy.account_limits_usdt :
                        /\ policy.account_limits_usdt[a] > 0
                        /\ policy.account_limits_usdt[a] <= policy.global_limit_usdt

\* A census covers exactly the real accounts of the policy, and is fresh: by
\* the Worker's clock, or (before a POST) by its own span.
censusRisk(c, policy, postHeldCausal) ==
    /\ c.floor > 0
    /\ c.floor <= c.generated
    /\ IF postHeldCausal THEN c.generated - c.floor <= Window
       ELSE c.generated <= now /\ now - c.generated <= Window
    /\ c.keys = DOMAIN policy.account_limits_usdt

\* Cumulative losses never go back; what they grew by is charged.
lossAdvances(c) == \A a \in c.keys : c.loss[a] >= loss[a]
added_mutant(c) == SumOver(c.keys, [a \in c.keys |-> loss[a] - c.loss[a]])
added(c) == SumOver(c.keys, [a \in c.keys |-> c.loss[a] - loss[a]])
charged_mutant(c) == 0
charged(c) == IF added(c) > 0 THEN 1 ELSE 0
lossAfter_mutant(c) == loss
lossAfter(c) == [a \in Account |-> IF a \in c.keys THEN c.loss[a] ELSE loss[a]]

ChargeOnly(c) ==
    /\ added(c) > 0
    /\ consumed_loss_usd' = consumed_loss_usd + added(c)
    /\ sequence' = sequence + charged(c)
    /\ loss' = lossAfter(c)
    /\ UNCHANGED <<occupied_usdt, occupied_usd, campaign_limit_usd, accounts,
                   entries, fence, strategy, aggregate>>

strategyAfter_mutant(a, s, usdt) == [strategy EXCEPT ![a][s] = @ + (IF usdt > 0 THEN usdt ELSE 0)]
strategyAfter(a, s, usdt) == [strategy EXCEPT ![a][s] = @ + usdt]

\* Writes entry e of intent i over a book whose sequence is at; sign is 1 for
\* a new reservation, -1 for a release, 0 for any other transition.  A missing
\* or negative aggregate aborts the transaction.
saveEntry(i, e, sign, at) ==
    LET a == IntentAccount[i]
        s == PlanStrategy[e.plan]
        usdt == sign * PlanLoss[e.plan]
        usd == sign * PlanUsd[e.plan]
        row == aggregate[a]
    IN  /\ row.occupied_usdt = accounts[a]
        /\ {row.active + sign, row.occupied_usd + usd, row.occupied_usdt + usdt,
            occupied_usdt + usdt, occupied_usd + usd, strategy[a][s] + usdt} \subseteq Nat
        /\ aggregate' = [aggregate EXCEPT ![a] =
              [active |-> row.active + sign, occupied_usd |-> row.occupied_usd + usd,
               occupied_usdt |-> row.occupied_usdt + usdt]]
        /\ accounts' = [accounts EXCEPT ![a] = @ + usdt]
        /\ occupied_usdt' = occupied_usdt + usdt
        /\ occupied_usd' = occupied_usd + usd
        /\ strategy' = strategyAfter(a, s, usdt)
        /\ entries' = [entries EXCEPT ![i] = e]
        /\ sequence' = at + 1
        /\ UNCHANGED <<campaign_limit_usd, fence>>
-------------------------------------------------------------------------------
(***************************************************************************)
(* The risk commands of the native runtime.  c is the census it sends, gen *)
(* the session the command came on.                                        *)
(***************************************************************************)
\* Book occupancy plus pessimistic external occupancy, per registered account.
occupied(c) == [a \in c.keys |-> c.occupied[a] + accounts[a]]

registered(c) == \A a \in Account \ c.keys : accounts[a] = 0

withinLimits(c, policy, requested, account) ==
    /\ registered(c)
    /\ \A a \in c.keys : occupied(c)[a] <= policy.account_limits_usdt[a]
    /\ occupied(c)[account] + requested <= policy.account_limits_usdt[account]
    /\ SumOver(c.keys, occupied(c)) + requested <= policy.global_limit_usdt

strategyCap(a, s) ==
    IF a.strategies[s] > 0 THEN a.strategies[s] ELSE a.limits.max_modelled_loss_usdt

newEntry(p) == [state |-> "HELD", plan |-> p, revision |-> governance.revision,
                created |-> now, posted |-> 0]

\* Consumed losses, open reservations and the new one fit under the ceiling.
campaignRoom_mutant(p, c) == consumed_loss_usd + added(c) + PlanUsd[p] <= campaign_limit_usd
campaignRoom(p, c) ==
    consumed_loss_usd + added(c) + occupied_usd + PlanUsd[p] <= campaign_limit_usd

\* The checks of RESERVE that follow the charge, for an intent without entry.
reservable(i, p, c) ==
    LET a == IntentAccount[i]
        access == governance.accounts[a]
        cap == strategyCap(access, PlanStrategy[p])
    IN  /\ entries[i].state = "NONE"
        /\ campaignRoom(p, c)
        /\ accessEnabled(access)
        /\ PlanInstrument[p] \in access.limits.allowed_instruments
        /\ PlanLoss[p] <= access.limits.max_order_loss_usdt
        /\ strategy[a][PlanStrategy[p]] + PlanLoss[p] <= cap
        /\ withinLimits(c, authority, PlanLoss[p], a)

\* A durable no-send release refuses every later RESERVE of the intent.
notFenced_mutant(i) == TRUE
notFenced(i) == fence[i] = NoPlan

\* A RESERVE for an intent that has an entry already, HELD or not, writes
\* nothing but the charge.
reserveRisk(i, p, c, gen) ==
    /\ gen = generation
    /\ notFenced(i)
    /\ censusRisk(c, authority, FALSE)
    /\ lossAdvances(c)
    /\ authority.enabled /\ budget(authority)
    /\ IntentAccount[i] \in DOMAIN authority.account_limits_usdt
    /\ validMeta
    /\ \/ /\ reservable(i, p, c)
          /\ saveEntry(i, newEntry(p), 1, sequence + charged(c))
          /\ consumed_loss_usd' = consumed_loss_usd + added(c)
          /\ loss' = lossAfter(c)
       \/ /\ ~reservable(i, p, c)
          /\ ChargeOnly(c)
    /\ UNCHANGED <<governance, generation, now, realised, revoked>>

heldUnderCurrentPolicy_mutant(e) == e.revision <= governance.revision
heldUnderCurrentPolicy(e) == e.revision = governance.revision

\* The checks of BEGIN_POST that follow the charge.  The campaign budget is
\* not among them: the reservation is already charged to it.
postable(i, p, c, expected) ==
    LET e == entries[i]
        access == governance.accounts[IntentAccount[i]]
    IN  /\ validEntry(e) /\ e.plan = p /\ e.state = "HELD"
        /\ heldUnderCurrentPolicy(e)
        /\ e.created <= now /\ now - e.created <= Window
        /\ sequence + charged(c) = expected
        /\ accessEnabled(access)
        /\ PlanInstrument[p] \in access.limits.allowed_instruments
        /\ withinLimits(c, authority, 0, IntentAccount[i])

beginRiskPost(i, p, c, expected, gen) ==
    /\ gen = generation
    /\ censusRisk(c, authority, TRUE)
    /\ lossAdvances(c)
    /\ authority.enabled
    /\ validMeta
    /\ \/ /\ postable(i, p, c, expected)
          /\ saveEntry(i, [entries[i] EXCEPT !.state = "POSTED", !.posted = now],
                       0, sequence + charged(c))
          /\ consumed_loss_usd' = consumed_loss_usd + added(c)
          /\ loss' = lossAfter(c)
       \/ /\ ~postable(i, p, c, expected)
          /\ ChargeOnly(c)
    /\ UNCHANGED <<governance, generation, now, realised, revoked>>

\* RESOLVE to UNKNOWN or OPEN.
resolveOpen(i, p, to, expected, gen) ==
    /\ validMeta
    /\ gen = generation /\ sequence = expected
    /\ validEntry(entries[i]) /\ entries[i].plan = p
    /\ to \in CASE entries[i].state = "HELD" -> {"UNKNOWN"}
                [] entries[i].state = "POSTED" -> {"UNKNOWN", "OPEN"}
                [] entries[i].state = "UNKNOWN" -> {"OPEN"}
                [] OTHER -> {}
    /\ saveEntry(i, [entries[i] EXCEPT !.state = to], 0, sequence)
    /\ UNCHANGED <<consumed_loss_usd, loss, governance, generation, now, realised, revoked>>

\* The terminal proof of a RELEASED resolution: order state t and cumulative
\* account loss ledger, read after the POST.
terminalProof(e, t, c) ==
    /\ e.posted # 0 \/ (e.state = "HELD" /\ t = "REJECTED")
    /\ LET since == IF e.posted # 0 THEN e.posted ELSE e.created
       IN  now > since /\ c.floor > since
    /\ censusRisk(c, authority, FALSE)

\* RESOLVE to RELEASED: charges the census, then the ledger's own loss.
resolveReleased(i, p, t, ledger, c, expected, gen) ==
    LET e == entries[i]
        a == IntentAccount[i]
        seen == lossAfter(c)
    IN  /\ gen = generation /\ sequence = expected
        /\ validEntry(e) /\ e.plan = p /\ Occupying(e)
        /\ terminalProof(e, t, c)
        /\ lossAdvances(c)
        /\ validMeta
        /\ \/ /\ ledger >= seen[a]
              /\ saveEntry(i, [e EXCEPT !.state = "RELEASED"], -1, sequence + charged(c))
              /\ consumed_loss_usd' = consumed_loss_usd + added(c) + (ledger - seen[a])
              /\ loss' = [seen EXCEPT ![a] = ledger]
           \/ /\ ledger < seen[a]
              /\ ChargeOnly(c)
        /\ UNCHANGED <<governance, generation, now, realised, revoked>>

\* RELEASE_UNSENT: releases the entry, or fences an intent that has none.
releaseUnsentRisk(i, p, expected, gen) ==
    /\ validMeta
    /\ gen = generation /\ sequence = expected
    /\ \/ /\ entries[i].state = "NONE" /\ fence[i] = NoPlan
          /\ fence' = [fence EXCEPT ![i] = p]
          /\ sequence' = sequence + 1
          /\ UNCHANGED <<occupied_usdt, occupied_usd, campaign_limit_usd, accounts,
                         entries, strategy, aggregate>>
       \/ /\ validEntry(entries[i]) /\ entries[i].plan = p
          /\ entries[i].state \in {"HELD", "POSTED"}
          /\ saveEntry(i, [entries[i] EXCEPT !.state = "RELEASED"], -1, sequence)
    /\ UNCHANGED <<consumed_loss_usd, loss, governance, generation, now, realised, revoked>>

\* INSPECT: what the native runtime reads back about one address.
inspect(i, p) ==
    IF validEntry(entries[i]) /\ entries[i].plan = p THEN entries[i].state
    ELSE IF fence[i] = p THEN "RELEASED"
    ELSE "RISK_RESERVATION_NOT_FOUND"

\* ACCOUNT_SUMMARY refuses to answer for an account whose rows disagree.
accountSummary(a) ==
    IF /\ aggregate[a].occupied_usdt = accounts[a]
       /\ (aggregate[a].active = 0) <=> (aggregate[a].occupied_usd = 0)
    THEN "OBSERVED" ELSE "RISK_ACCOUNT_AGGREGATE_CORRUPT"
-------------------------------------------------------------------------------
(***************************************************************************)
(* Policy revisions.  mutate commits the next document only when it is     *)
(* valid; the receipts that make a retry harmless are GovernanceStore's.   *)
(***************************************************************************)
commitPolicy(next) ==
    /\ governance.revision < MaxRevision
    /\ validGovernance(next)
    /\ governance' = next
    /\ UNCHANGED <<generation, now, realised>>

enrollObservedAccount(a, limits, enabled) ==
    /\ ~governance.accounts[a].enrolled
    /\ Cardinality(Enrolled(governance)) < MaxAccounts
    /\ commitPolicy(connect(governance, a, limits, enabled))
    /\ UNCHANGED <<book, revoked>>

setAccountPause(a, value) ==
    /\ governance.accounts[a].enrolled
    /\ commitPolicy(pause(governance, a, value))
    /\ UNCHANGED <<book, revoked>>

setAccountLimits(a, limits) ==
    /\ governance.accounts[a].enrolled
    /\ commitPolicy(setLimits(governance, a, limits))
    /\ UNCHANGED <<book, revoked>>

governanceRequest(total, rows) ==
    /\ commitPolicy(reviseGovernance(governance, total, rows))
    /\ UNCHANGED <<book, revoked>>

stopNewRealRisk ==
    /\ commitPolicy(stopReal(governance))
    /\ revoked' = revoked \cup {i \in Intent : entries[i].state = "HELD"}
    /\ UNCHANGED book

\* The policy's limit and the book's are lowered in one transaction.
lowerCampaignLimit(limit) ==
    /\ limit < governance.campaign_loss_limit_usd
    /\ commitPolicy(lowerCampaign(governance, limit))
    /\ validMeta
    /\ limit > 0 /\ limit < campaign_limit_usd
    /\ limit >= consumed_loss_usd + occupied_usd
    /\ campaign_limit_usd' = limit
    /\ sequence' = sequence + 1
    /\ UNCHANGED <<occupied_usdt, occupied_usd, consumed_loss_usd, accounts, entries,
                   fence, strategy, aggregate, loss, revoked>>

acceptRuntime ==
    /\ generation < MaxGeneration
    /\ generation' = generation + 1
    /\ UNCHANGED <<governance, book, now, realised, revoked>>
-------------------------------------------------------------------------------
(***************************************************************************)
(* The environment: the clock, and what the exchange really loses.  An     *)
(* order loses at most what it reserved, and only while its reservation    *)
(* is open; a census may lag behind it, the ledger of a terminal order     *)
(* holds the whole loss of that order and of those released before it.  A  *)
(* census stamped ahead of the Worker's clock is denied or, before a POST, *)
(* treated like one that is not, so none is enumerated.                    *)
(***************************************************************************)
Tick == /\ now < MaxTime
        /\ now' = now + 1
        /\ UNCHANGED <<governance, generation, book, realised, revoked>>

Lose(i, usd) ==
    /\ entries[i].posted # 0 /\ Occupying(entries[i])
    /\ realised[i] + usd <= PlanUsd[entries[i].plan]
    /\ realised' = [realised EXCEPT ![i] = @ + usd]
    /\ UNCHANGED <<governance, generation, book, now, revoked>>

IntentsOf(a) == {i \in Intent : IntentAccount[i] = a}

LostBy(S) == SumOver(S, realised)

Settled(i) == {j \in IntentsOf(IntentAccount[i]) : j = i \/ entries[j].state = "RELEASED"}

Census(keys) ==
    {c \in [keys : {keys}, occupied : [keys -> OccupiedChoice],
            loss : [keys -> 0..LostBy(Intent)], floor : 1..now, generated : 1..now] :
        c.floor <= c.generated /\ \A a \in keys : c.loss[a] <= LostBy(IntentsOf(a))}

Init ==
    /\ \E total \in TotalChoice : governance = InstalledGovernance(CampaignLimit, total)
    /\ generation = 0
    /\ sequence = 0 /\ occupied_usdt = 0 /\ occupied_usd = 0 /\ consumed_loss_usd = 0
    /\ campaign_limit_usd = CampaignLimit
    /\ accounts = [a \in Account |-> 0]
    /\ entries = [i \in Intent |-> NoEntry]
    /\ fence = [i \in Intent |-> NoPlan]
    /\ strategy = [a \in Account |-> NoStrategies]
    /\ aggregate = [a \in Account |-> [active |-> 0, occupied_usd |-> 0, occupied_usdt |-> 0]]
    /\ loss = [a \in Account |-> 0]
    /\ now = 1
    /\ realised = [i \in Intent |-> 0]
    /\ revoked = {}

\* Commands whose plan, session or sequence is refused have no effect; they
\* are enumerated only where a refused command may still charge a loss.
CensusCommand ==
    \E keys \in SUBSET RealAccount : \E c \in Census(keys) :
        \E i \in Intent, p \in Plan, gen \in 1..generation :
            \/ reserveRisk(i, p, c, gen)
            \/ \E expected \in sequence..(sequence + 1) : beginRiskPost(i, p, c, expected, gen)

ReleaseCommand ==
    \E i \in Intent, gen \in 1..generation :
        /\ Occupying(entries[i])
        /\ \E keys \in SUBSET RealAccount : \E c \in Census(keys) :
            \E t \in {"FILLED", "CANCELED", "REJECTED"},
               ledger \in LostBy(Settled(i))..LostBy(IntentsOf(IntentAccount[i])) :
                resolveReleased(i, entries[i].plan, t, ledger, c, sequence, gen)

ResolveCommand ==
    \E i \in Intent, p \in Plan, gen \in 1..generation :
        \/ \E to \in {"UNKNOWN", "OPEN"} : resolveOpen(i, p, to, sequence, gen)
        \/ realised[i] = 0 /\ releaseUnsentRisk(i, p, sequence, gen)

PolicyCommand ==
    \/ \E a \in Account, limits \in LimitChoice :
        \/ \E enabled \in BOOLEAN : enrollObservedAccount(a, limits, enabled)
        \/ setAccountLimits(a, limits)
    \/ \E a \in Account, value \in BOOLEAN : setAccountPause(a, value)
    \/ \E total \in TotalChoice, rows \in [Enrolled(governance) -> RowChoice] :
        governanceRequest(total, rows)
    \/ \E limit \in 1..CampaignLimit : lowerCampaignLimit(limit)
    \/ stopNewRealRisk

Environment ==
    \/ Tick
    \/ \E i \in Intent, usd \in 1..CampaignLimit : Lose(i, usd)

Next == \/ CensusCommand \/ ReleaseCommand \/ ResolveCommand
        \/ PolicyCommand \/ acceptRuntime \/ Environment

Spec == Init /\ [][Next]_vars
-------------------------------------------------------------------------------
(***************************************************************************)
(* Every stored document keeps its shape and no amount goes negative: the  *)
(* subtractions of saveEntry and of the loss charge never underflow.       *)
(***************************************************************************)
TypeOK ==
    /\ governance \in Governance
    /\ generation \in Nat /\ now \in Nat
    /\ {sequence, occupied_usdt, occupied_usd, consumed_loss_usd, campaign_limit_usd} \subseteq Nat
    /\ accounts \in [Account -> Nat] /\ loss \in [Account -> Nat]
    /\ entries \in [Intent -> RiskEntry]
    /\ fence \in [Intent -> Plan \cup {NoPlan}]
    /\ strategy \in [Account -> [Strategy -> Nat]]
    /\ aggregate \in [Account -> [active : Nat, occupied_usd : Nat, occupied_usdt : Nat]]
    /\ realised \in [Intent -> Nat]
    /\ revoked \subseteq Intent

Open == {i \in Intent : Occupying(entries[i])}
OccupyingIntents(a) == {i \in IntentsOf(a) : Occupying(entries[i])}
UsdtOf(S) == SumOver(S, [i \in S |-> PlanLoss[entries[i].plan]])
UsdOf(S) == SumOver(S, [i \in S |-> PlanUsd[entries[i].plan]])

(***************************************************************************)
(* The running totals equal what the entries say: however reservations,    *)
(* transitions and releases interleave, every occupying entry is counted   *)
(* exactly once in the account row, the strategy row and the aggregates    *)
(* saveEntry updates incrementally, and ACCOUNT_SUMMARY keeps answering.   *)
(***************************************************************************)
OccupancyIsSumOfEntries ==
    /\ validMeta
    /\ occupied_usd = SumOver(Account, [a \in Account |-> aggregate[a].occupied_usd])
    /\ \A a \in Account :
        /\ accountSummary(a) = "OBSERVED"
        /\ aggregate[a].active = Cardinality(OccupyingIntents(a))
        /\ aggregate[a].occupied_usd = UsdOf(OccupyingIntents(a))
        /\ accounts[a] = UsdtOf(OccupyingIntents(a))
        /\ \A s \in Strategy :
            strategy[a][s] = UsdtOf({i \in OccupyingIntents(a) : PlanStrategy[entries[i].plan] = s})

(***************************************************************************)
(* No loss is charged twice or dropped: the campaign's consumed loss is    *)
(* what applyCensusLoss and the terminal ledgers reported, per account, no *)
(* matter which commands reported it or were denied after the charge.      *)
(***************************************************************************)
ConsumedIsReportedLoss ==
    /\ consumed_loss_usd = SumOver(Account, loss)
    /\ \A a \in Account : loss[a] <= LostBy(IntentsOf(a))

(***************************************************************************)
(* The promise of the campaign ceiling: as long as an order loses no more  *)
(* than it reserved and a terminal ledger is complete, everything already  *)
(* lost plus everything the reservations may still lose stays within the   *)
(* limit, through late censuses, releases and lowered limits.              *)
(***************************************************************************)
CampaignLossBounded == LostBy(Intent \ Open) + UsdOf(Open) <= campaign_limit_usd

(***************************************************************************)
(* The two copies of the ceiling (policy document and book) never differ,  *)
(* although only one operation writes both.                                *)
(***************************************************************************)
CampaignCopiesAgree ==
    /\ governance.campaign_loss_limit_usd = campaign_limit_usd
    /\ campaign_limit_usd <= CampaignLimit

(***************************************************************************)
(* Risk never leaves the cohort: an account with open reservations is one  *)
(* the projected policy requires every census to cover, disabled or paused *)
(* as it may be, so its exposure cannot be left out of the limits.         *)
(***************************************************************************)
OccupiedAccountsRegistered ==
    \A a \in Account : accounts[a] > 0 => a \in DOMAIN authority.account_limits_usdt

(***************************************************************************)
(* What the campaign stands on, together: one ceiling, an exposure no      *)
(* census may leave out, totals that are the sums of the entries, losses   *)
(* counted once, and everything lost or at stake within the ceiling.       *)
(***************************************************************************)
CampaignLossHolds ==
    /\ CampaignCopiesAgree /\ OccupiedAccountsRegistered
    /\ OccupancyIsSumOfEntries /\ ConsumedIsReportedLoss /\ CampaignLossBounded

(***************************************************************************)
(* STOP is final for what was held: an intent that was HELD when the owner *)
(* committed an emergency STOP never gets a POST authorization, whatever   *)
(* is revised, resumed or retried afterwards.                              *)
(***************************************************************************)
StopRevokesHeld == \A i \in revoked : entries[i].posted = 0

(***************************************************************************)
(* The book sequence is a sound version number for compare-and-set: a      *)
(* sequence is never reused for a different book, so BEGIN_POST, RESOLVE   *)
(* and RELEASE_UNSENT never act on a book other than the one observed.     *)
(***************************************************************************)
SequenceIsVersion ==
    [][/\ sequence' >= sequence
       /\ sequence' = sequence => UNCHANGED book]_vars

(***************************************************************************)
(* INSPECT tells the truth the native runtime relies on: NOT_FOUND means   *)
(* that the address occupies no risk.                                      *)
(***************************************************************************)
NotFoundMeansNoRisk ==
    \A i \in Intent : Occupying(entries[i]) =>
        inspect(i, entries[i].plan) # "RISK_RESERVATION_NOT_FOUND"

Res == INSTANCE Reservation WITH
    state <- [i \in Intent |-> IF fence[i] # NoPlan THEN "FENCED" ELSE entries[i].state],
    granted <- {i \in Intent : entries[i].posted # 0}

(***************************************************************************)
(* The RiskBook implements the reservation protocol: at most one hold and  *)
(* one POST authorization per intent, released entries and no-send fences  *)
(* are final, and a fenced intent can never be reserved late.              *)
(***************************************************************************)
ImplementsReservation == Res!ResSpec
===============================================================================
