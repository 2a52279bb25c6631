----------------------------- MODULE Reservation -----------------------------
(***************************************************************************)
(* What the central risk authority promises about one trading intent,      *)
(* whatever the policy, the census and the budget say: a reservation is    *)
(* held at most once, authorizes at most one order POST, and ends in a     *)
(* tombstone.  RiskBook implements this specification, and TradeExecution  *)
(* relies on nothing more.                                                 *)
(***************************************************************************)
EXTENDS Integers

CONSTANT Intent

VARIABLES
    state,    \* the lifecycle state the authority keeps for an intent
    granted   \* history: the intents whose POST was ever authorized

resVars == <<state, granted>>

\* A reservation in one of these states is charged against the budgets.
Active == {"HELD", "POSTED", "UNKNOWN", "OPEN"}

\* Tombstones: a released entry, or a fence against a RESERVE that comes late.
Final == {"RELEASED", "FENCED"}

ResState == {"NONE"} \cup Active \cup Final

\* next_state of RESOLVE, apart from RELEASED.
Resolution ==
    [HELD |-> {"UNKNOWN"}, POSTED |-> {"UNKNOWN", "OPEN"}, UNKNOWN |-> {"OPEN"}]
-------------------------------------------------------------------------------
ResInit ==
    /\ state = [i \in Intent |-> "NONE"]
    /\ granted = {}

Move(i, s) == state' = [state EXCEPT ![i] = s]

Hold(i) == state[i] = "NONE" /\ Move(i, "HELD") /\ UNCHANGED granted

Grant(i) == state[i] = "HELD" /\ Move(i, "POSTED") /\ granted' = granted \cup {i}

Resolve(i) ==
    /\ state[i] \in DOMAIN Resolution
    /\ \E s \in Resolution[state[i]] : Move(i, s)
    /\ UNCHANGED granted

\* A reservation resolved to UNKNOWN or OPEN is released only if it was posted.
Release(i) ==
    /\ state[i] \in Active
    /\ state[i] = "HELD" \/ i \in granted
    /\ Move(i, "RELEASED")
    /\ UNCHANGED granted

Fence(i) == state[i] = "NONE" /\ Move(i, "FENCED") /\ UNCHANGED granted

ResNext == \E i \in Intent : Hold(i) \/ Grant(i) \/ Resolve(i) \/ Release(i) \/ Fence(i)

ResSpec == ResInit /\ [][ResNext]_resVars
===============================================================================
