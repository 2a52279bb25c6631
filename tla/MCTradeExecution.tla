-------------------------- MODULE MCTradeExecution --------------------------
(***************************************************************************)
(* The execution of an order for TLC: one intent with an executor and a    *)
(* reconciler under faults, two intents of one account, and one intent     *)
(* that two executors race for. A behaviour exercises one of them and the  *)
(* others stay at rest.                                                    *)
(***************************************************************************)
EXTENDS TradeExecution

CONSTANT Parts   \* the components a run lets move

VARIABLES
    part,            \* the component this behaviour is about
    pairSql, pairPolicy, pairExpired, pairProc, pairQueue, pairCentral, pairGranted, pairSequence,
    pairVenue, pairPosts, pairRevoked, pairNoise, pairFaults

Pair == INSTANCE TradeExecution WITH
    Intent <- {"i1", "i2"}, Executor <- {"e1"}, Reconciler <- {}, MaxTries <- 1, MaxQueue <- 2,
    MaxRevision <- 1, MaxNoise <- 0, MaxFaults <- 1, sql <- pairSql, policy <- pairPolicy,
    expired <- pairExpired, proc <- pairProc, queue <- pairQueue, central <- pairCentral,
    granted <- pairGranted, sequence <- pairSequence, venue <- pairVenue, posts <- pairPosts,
    revoked <- pairRevoked, noise <- pairNoise, faults <- pairFaults
Race == INSTANCE TradeExecution WITH
    Intent <- {"i1"}, Executor <- {"e1", "e2"}, Reconciler <- {}, MaxTries <- 1, MaxQueue <- 2,
    MaxRevision <- 2, MaxNoise <- 0, MaxFaults <- 0, sql <- pairSql, policy <- pairPolicy,
    expired <- pairExpired, proc <- pairProc, queue <- pairQueue, central <- pairCentral,
    granted <- pairGranted, sequence <- pairSequence, venue <- pairVenue, posts <- pairPosts,
    revoked <- pairRevoked, noise <- pairNoise, faults <- pairFaults

pairVars ==
    <<pairSql, pairPolicy, pairExpired, pairProc, pairQueue, pairCentral, pairGranted, pairSequence,
    pairVenue, pairPosts, pairRevoked, pairNoise, pairFaults>>
mcVars == <<part, vars, pairVars>>

\* A behaviour is about one component; the others stay at rest where they start.
MCInit ==
    /\ part \in Parts
    /\ Init
    /\ IF part = "race" THEN Race!Init ELSE Pair!Init

Move(p, A) ==
    /\ part = p /\ A /\ UNCHANGED part
    /\ IF p = "faults" THEN TRUE ELSE UNCHANGED vars
    /\ IF p \in {"pair", "race"} THEN TRUE ELSE UNCHANGED pairVars

MCNext ==
    \/ Move("faults", Next)
    \/ Move("pair", Pair!Next)
    \/ Move("race", Race!Next)

MCSpec == MCInit /\ [][MCNext]_mcVars
-----------------------------------------------------------------------------
\* Two intents of an account never both wait for an unknown outcome, and two executors of one
\* intent post it once.
RivalsSendOne ==
    /\ part = "pair" => Pair!OneUnknown
    /\ part = "race" => Race!AtMostOnePost
=============================================================================
