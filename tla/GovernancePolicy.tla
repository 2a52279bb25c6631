--------------------------- MODULE GovernancePolicy ---------------------------
(***************************************************************************)
(* The account-access policy document of the Worker, and the pure          *)
(* functions that revise it and project it for the RiskBook                *)
(* (cloudflare/okx-mcp/src/account_governance.ts and the bodies passed to  *)
(* mutate in account_governance_store.ts).                                 *)
(*                                                                         *)
(* A governance document maps every account to its access record.  An      *)
(* account that was never connected has enrolled = FALSE.  Connection only *)
(* ever stores identity_verified = true and no function clears it, so the  *)
(* field is not kept.  The four optional caps that an enabled real account *)
(* must have are one flag, caps.                                           *)
(***************************************************************************)
EXTENDS Integers, FiniteSets, FiniteSetsExt

CONSTANTS
    Account,       \* account keys venue:environment:uid
    RealAccount,   \* the ones whose environment is "real"
    Strategy,      \* strategy identifiers
    Instrument,    \* instrument identifiers
    MaxAccounts    \* registry capacity, 32 in the code

ASSUME RealAssumption == RealAccount \subseteq Account
ASSUME CapacityAssumption == MaxAccounts \in Nat

Limits == [max_modelled_loss_usdt : Nat, max_order_loss_usdt : Nat,
           caps : BOOLEAN, allowed_instruments : SUBSET Instrument]

AccountAccess == [enrolled : BOOLEAN, enabled : BOOLEAN, explicit_pause : BOOLEAN,
                  policy_revision : Nat, limits : Limits,
                  strategies : [Strategy -> Nat]]   \* 0: absent or disabled

Governance == [revision : Nat, campaign_loss_limit_usd : Nat,
               max_total_modelled_loss_usdt : Nat,
               accounts : [Account -> AccountAccess]]

NoStrategies == [s \in Strategy |-> 0]

NotEnrolled ==
    [enrolled |-> FALSE, enabled |-> FALSE, explicit_pause |-> FALSE,
     policy_revision |-> 0, strategies |-> NoStrategies,
     limits |-> [max_modelled_loss_usdt |-> 0, max_order_loss_usdt |-> 0,
                 caps |-> FALSE, allowed_instruments |-> {}]]

Enrolled(g) == {a \in Account : g.accounts[a].enrolled}

RealEnrolled(g) == Enrolled(g) \cap RealAccount
-------------------------------------------------------------------------------
validLimits(l) ==
    /\ l.max_order_loss_usdt > 0
    /\ l.max_order_loss_usdt <= l.max_modelled_loss_usdt

\* The caps of the enabled strategies together fit in the account's own cap.
validStrategies(strategies, accountCap) ==
    MapThenSumSet(LAMBDA s : strategies[s], Strategy) <= accountCap

validAccount(key, a) ==
    /\ a.policy_revision > 0
    /\ validLimits(a.limits)
    /\ validStrategies(a.strategies, a.limits.max_modelled_loss_usdt)
    /\ a.enabled /\ key \in RealAccount =>
          a.limits.caps /\ a.limits.allowed_instruments # {}

validGovernance(g) ==
    /\ g.campaign_loss_limit_usd > 0
    /\ g.max_total_modelled_loss_usdt > 0
    /\ Cardinality(Enrolled(g)) <= MaxAccounts
    /\ \A a \in Enrolled(g) :
          /\ validAccount(a, g.accounts[a])
          /\ g.accounts[a].policy_revision <= g.revision

accessEnabled(a) == a.enrolled /\ a.enabled /\ ~a.explicit_pause

projectRiskPolicy_mutant(g) ==
    [revision |-> g.revision,
     enabled |-> \E a \in RealAccount : accessEnabled(g.accounts[a]),
     global_limit_usdt |-> g.max_total_modelled_loss_usdt,
     account_limits_usdt |->
        [a \in {r \in RealEnrolled(g) : g.accounts[r].enabled} |->
            g.accounts[a].limits.max_modelled_loss_usdt]]

\* What the RiskBook sees of a policy.  Disabled real accounts stay in the
\* cohort: they still occupy risk.
projectRiskPolicy(g) ==
    [revision |-> g.revision,
     enabled |-> \E a \in RealAccount : accessEnabled(g.accounts[a]),
     global_limit_usdt |-> g.max_total_modelled_loss_usdt,
     account_limits_usdt |->
        [a \in RealEnrolled(g) |-> g.accounts[a].limits.max_modelled_loss_usdt]]
-------------------------------------------------------------------------------
(***************************************************************************)
(* Revisions.  Each operator returns the next document; its caller commits *)
(* it only when validGovernance holds of it.                               *)
(***************************************************************************)
InstalledGovernance(campaign, total) ==
    [revision |-> 0, campaign_loss_limit_usd |-> campaign,
     max_total_modelled_loss_usdt |-> total,
     accounts |-> [a \in Account |-> NotEnrolled]]

WithAccount(g, key, a) ==
    [g EXCEPT !.revision = @ + 1,
              !.accounts[key] = [a EXCEPT !.policy_revision = g.revision + 1]]

connect(g, key, limits, enabled) ==
    WithAccount(g, key, [NotEnrolled EXCEPT !.enrolled = TRUE, !.enabled = enabled,
                                            !.limits = limits])

pause(g, key, value) ==
    WithAccount(g, key, [g.accounts[key] EXCEPT !.explicit_pause = value])

setLimits(g, key, limits) ==
    WithAccount(g, key, [g.accounts[key] EXCEPT !.limits = limits])

\* STOP without an enabled real account commits the document unchanged.
stopReal(g) ==
    IF \E a \in RealAccount : accessEnabled(g.accounts[a])
    THEN [g EXCEPT !.revision = @ + 1,
                   !.accounts = [a \in Account |->
                        IF a \in RealEnrolled(g)
                        THEN [@[a] EXCEPT !.explicit_pause = TRUE,
                                          !.policy_revision = g.revision + 1]
                        ELSE @[a]]]
    ELSE g

\* rows gives the new business fields of every enrolled account.
reviseGovernance(g, total, rows) ==
    [g EXCEPT !.revision = @ + 1,
              !.max_total_modelled_loss_usdt = total,
              !.accounts = [a \in Account |->
                  IF a \in Enrolled(g)
                  THEN [@[a] EXCEPT !.enabled = rows[a].enabled,
                                    !.explicit_pause = rows[a].explicit_pause,
                                    !.limits = rows[a].limits,
                                    !.strategies = rows[a].strategies,
                                    !.policy_revision = g.revision + 1]
                  ELSE @[a]]]

lowerCampaign_mutant(g, limit) == [g EXCEPT !.revision = @ + 1]
lowerCampaign(g, limit) ==
    [g EXCEPT !.revision = @ + 1, !.campaign_loss_limit_usd = limit]
===============================================================================
