----------------------------- MODULE MCRiskBook -----------------------------
(***************************************************************************)
(* The central risk book for TLC, twice: one intent under every change of  *)
(* the policy, and two intents that compete for the campaign's loss        *)
(* (amounts are scaled down: the limit of 10 USD is 2 units). A behaviour  *)
(* exercises one of them and the other stays at rest.                      *)
(***************************************************************************)
EXTENDS RiskBook, TLC

CONSTANT Parts   \* the components a run lets move
CONSTANTS i1, i2   \* two intents of one account

VARIABLES
    part,            \* the component this behaviour is about
    campaignGovernance, campaignGeneration, campaignSequence, campaignOccupiedusdt,
    campaignOccupiedusd, campaignConsumedlossusd, campaignCampaignlimitusd, campaignAccounts,
    campaignEntries, campaignFence, campaignStrategy, campaignAggregate, campaignLoss, campaignNow,
    campaignRealised, campaignRevoked

OneAccount == [i \in Intent |-> "a1"]
OnePlan == [p \in Plan |-> 2]
OneStrategy == [p \in Plan |-> "s1"]
OneInstrument == [p \in Plan |-> "x1"]
Cap(total, order, instruments) ==
    [max_modelled_loss_usdt |-> total, max_order_loss_usdt |-> order,
     caps |-> TRUE, allowed_instruments |-> instruments]
TwoLimits == {Cap(4, 2, {"x1"}), Cap(2, 2, {"x1", "x2"})}
SomeRows == {[enabled |-> e, explicit_pause |-> ~e, limits |-> Cap(4, 2, {"x1"}),
              strategies |-> [s \in {"s1"} |-> 2]] : e \in BOOLEAN}
IntentSymmetry == Permutations({i1, i2})   \* sound: both have one account

Campaign == INSTANCE RiskBook WITH
    Intent <- {i1, i2}, IntentAccount <- [i \in {i1, i2} |-> "a1"], Plan <- {"p1", "p2"},
    NoPlan <- "none", PlanLoss <- [p1 |-> 1, p2 |-> 2], PlanUsd <- [p1 |-> 1, p2 |-> 2],
    PlanStrategy <- [p \in {"p1", "p2"} |-> "s1"], PlanInstrument <- [p \in {"p1", "p2"} |-> "x1"],
    CampaignLimit <- 2, Window <- 1, LimitChoice <- {Cap(4, 2, {"x1"})}, TotalChoice <- {4},
    RowChoice <- {}, OccupiedChoice <- {0, 1}, MaxTime <- 3, MaxRevision <- 2, MaxGeneration <- 1,
    Account <- {"a1"}, RealAccount <- {"a1"}, Strategy <- {"s1"}, Instrument <- {"x1"},
    MaxAccounts <- 2, governance <- campaignGovernance, generation <- campaignGeneration,
    sequence <- campaignSequence, occupied_usdt <- campaignOccupiedusdt,
    occupied_usd <- campaignOccupiedusd, consumed_loss_usd <- campaignConsumedlossusd,
    campaign_limit_usd <- campaignCampaignlimitusd, accounts <- campaignAccounts,
    entries <- campaignEntries, fence <- campaignFence, strategy <- campaignStrategy,
    aggregate <- campaignAggregate, loss <- campaignLoss, now <- campaignNow,
    realised <- campaignRealised, revoked <- campaignRevoked

campaignVars ==
    <<campaignGovernance, campaignGeneration, campaignSequence, campaignOccupiedusdt,
    campaignOccupiedusd, campaignConsumedlossusd, campaignCampaignlimitusd, campaignAccounts,
    campaignEntries, campaignFence, campaignStrategy, campaignAggregate, campaignLoss, campaignNow,
    campaignRealised, campaignRevoked>>
mcVars == <<part, vars, campaignVars>>

\* A behaviour is about one component; the others stay at rest where they start.
MCInit ==
    /\ part \in Parts
    /\ Init
    /\ Campaign!Init

Move(p, A) ==
    /\ part = p /\ A /\ UNCHANGED part
    /\ IF p = "policy" THEN TRUE ELSE UNCHANGED vars
    /\ IF p = "campaign" THEN TRUE ELSE UNCHANGED campaignVars

MCNext ==
    \/ Move("policy", Next)
    \/ Move("campaign", Campaign!Next)

MCSpec == MCInit /\ [][MCNext]_mcVars
-----------------------------------------------------------------------------
\* The same of two intents that compete for the loss of one campaign: their holds, posts, losses,
\* releases, late censuses and lowered limits interleave, and what a released order lost still
\* counts when the other one is held.
TwoIntentsHold == part = "campaign" => Campaign!CampaignLossHolds
=============================================================================
