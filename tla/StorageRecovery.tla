----------------------------- MODULE StorageRecovery -----------------------------
(***************************************************************************)
(* A ledger restored from a backup may not add risk until an audit has     *)
(* shown that it knows every order of the account and agrees with the      *)
(* central risk book (crates/okx-agent/src/trade_service/recovery.rs,      *)
(* recovery_snapshot and begin_post of the ledger).  What the old process  *)
(* did after the backup is in the initial states: the venue and the book   *)
(* may be ahead of the ledger, and a POST may still be under way.          *)
(* "reserved" is PREPARED or RESERVED, "posted" an order whose end is not  *)
(* known, "open" a filled and protected one, "unsent" and "closing" are    *)
(* ended orders whose reservation is not yet given back, "done" after it.  *)
(* Central "held" stands for HELD and POSTED.                              *)
(***************************************************************************)
EXTENDS Integers, FiniteSets

CONSTANTS
    Intent,
    Retention,    \* days the venue's archive keeps an order
    Limit,        \* age of a backup an audit accepts, 89 days in the code
    MaxDay, MaxGeneration, MaxAborts   \* bounds

ASSUME RecoveryAssumption ==
    /\ {Retention, Limit, MaxDay, MaxGeneration, MaxAborts} \subseteq Nat /\ Limit < Retention
    /\ MaxGeneration >= 1 /\ IsFiniteSet(Intent)

LocalState == {"absent", "reserved", "posted", "open", "unsent", "closing", "done"}
OrderState == {"none", "flight", "live", "filled", "closed", "canceled"}
CentralState == {"none", "held", "open", "released"}
Ended == {"filled", "closed", "canceled"}

VARIABLES
    day,         \* days since the backup
    generation,  \* connections of the private socket
    order, algo, \* the venue: an order and its protective stop
    updated,     \* the day of an order's last update
    central,     \* the reservation in the risk book
    local,       \* the restored ledger
    gate,        \* storage_recovery.requires_reconcile
    cursor,      \* generation of the account_snapshot cursor
    audit,
    aborts

venue == <<order, algo, updated>>
vars == <<day, generation, venue, central, local, gate, cursor, audit, aborts>>

Positions == {i \in Intent : order[i] = "filled"}
PendingOrders == {i \in Intent : order[i] = "live"}
Algos == {i \in Intent : algo[i]}
ActiveReservations == {i \in Intent : central[i] \in {"held", "open"}}

Known(i) == local[i] # "absent"
ActiveReceipts == {i \in Intent : local[i] \in {"reserved", "posted", "open", "unsent", "closing"}}
UnresolvedIntents == {i \in Intent : local[i] \in {"reserved", "posted"}}

NoAudit == [pc |-> "idle", generation |-> 0, day |-> 0, positions |-> {}, pending |-> {},
            algos |-> {}, receipts |-> {}, central |-> {}, todo |-> {}, fresh |-> {}]
Reads == {"account", "algos", "central", "protections"}

TypeOK ==
    /\ day \in 0..MaxDay /\ generation \in 1..MaxGeneration /\ cursor \in 0..MaxGeneration
    /\ order \in [Intent -> OrderState] /\ algo \in [Intent -> BOOLEAN]
    /\ updated \in [Intent -> 0..MaxDay]
    /\ central \in [Intent -> CentralState] /\ local \in [Intent -> LocalState]
    /\ gate \in BOOLEAN /\ aborts \in 0..MaxAborts
    /\ audit.pc \in {"idle", "history", "capture", "algos", "attribute", "central", "inspect",
                     "refresh", "compare", "commit"}
    /\ audit.fresh \subseteq Reads /\ audit.todo \subseteq Intent

\* How far the old process may have got with an intent ...
Truth == {<<"none", "none", FALSE>>, <<"none", "held", FALSE>>, <<"flight", "held", FALSE>>,
          <<"live", "held", FALSE>>, <<"filled", "held", TRUE>>, <<"filled", "open", TRUE>>,
          <<"canceled", "held", FALSE>>, <<"canceled", "released", FALSE>>,
          <<"closed", "open", FALSE>>, <<"closed", "released", FALSE>>}

\* ... and how much of it the backup may show.
Backed(l, t) ==
    \/ l = "absent"
    \/ l = "reserved" /\ t[2] # "none"
    \/ l = "posted" /\ t[1] # "none"
    \/ l = "open" /\ t[1] \in {"filled", "closed"} /\ t[2] # "held"

Init ==
    /\ day = 0 /\ generation = 1 /\ cursor = 0 /\ aborts = 0
    /\ \E t \in [Intent -> Truth] :
        /\ order = [i \in Intent |-> t[i][1]] /\ central = [i \in Intent |-> t[i][2]]
        /\ algo = [i \in Intent |-> t[i][3]]
        /\ local \in [Intent -> {"absent", "reserved", "posted", "open"}]
        /\ \A i \in Intent : Backed(local[i], t[i])
    /\ updated = [i \in Intent |-> 0]
    /\ gate = TRUE /\ audit = NoAudit
-----------------------------------------------------------------------------
\* An audit lasts at most a minute, so at most one day ends during it.
Tick ==
    /\ day < MaxDay /\ (audit.pc = "idle" \/ audit.day = day)
    /\ day' = day + 1
    /\ UNCHANGED <<generation, venue, central, local, gate, cursor, audit, aborts>>

Reconnect ==
    /\ generation < MaxGeneration /\ generation' = generation + 1
    /\ UNCHANGED <<day, venue, central, local, gate, cursor, audit, aborts>>

\* The finance loop captures the account meanwhile.
OtherCapture ==
    /\ cursor' = generation
    /\ UNCHANGED <<day, generation, venue, central, local, gate, audit, aborts>>

VenueMove(i, from, to, protected) ==
    /\ order[i] = from
    /\ order' = [order EXCEPT ![i] = to] /\ updated' = [updated EXCEPT ![i] = day]
    /\ algo' = [algo EXCEPT ![i] = protected]
    /\ UNCHANGED <<day, generation, central, local, gate, cursor, audit, aborts>>

OrderEnds(i) ==
    \/ VenueMove(i, "flight", "live", FALSE) \/ VenueMove(i, "flight", "none", FALSE)
    \/ VenueMove(i, "live", "filled", TRUE) \/ VenueMove(i, "live", "canceled", FALSE)

PositionCloses(i) == VenueMove(i, "filled", "closed", FALSE)
-----------------------------------------------------------------------------
\* The maintenance turn goes on while the gate is set (see TradeExecution):
\* an expired intent that the ledger never posted is rejected as unsent ...
RejectUnsent(i) ==
    /\ local[i] = "reserved" /\ local' = [local EXCEPT ![i] = "unsent"]
    /\ UNCHANGED <<day, generation, venue, central, gate, cursor, audit, aborts>>

\* A bug: the venue's word is stored.
AfterReadback_mutant(i) == order[i]

AfterReadback(i) == IF order[i] = "filled" THEN "open" ELSE "closing"

\* ... a posted one is read from the venue ...
ReadOrder(i) ==
    /\ local[i] = "posted" /\ (order[i] = "filled" => algo[i]) /\ order[i] \in Ended
    /\ local' = [local EXCEPT ![i] = AfterReadback(i)]
    /\ UNCHANGED <<day, generation, venue, central, gate, cursor, audit, aborts>>

\* ... the book is told ...
ResolveCentral(i) ==
    /\ \/ local[i] = "open" /\ order[i] = "filled" /\ central[i] = "held" /\ central' = [central EXCEPT ![i] = "open"]
       \/ /\ \/ local[i] \in {"open", "closing"} /\ order[i] \in {"closed", "canceled"}
             \/ local[i] = "unsent" /\ central[i] = "held"
          /\ central[i] # "released" /\ central' = [central EXCEPT ![i] = "released"]
    /\ UNCHANGED <<day, generation, venue, local, gate, cursor, audit, aborts>>

\* ... and its answer closes the receipt.
AcknowledgeRelease(i) ==
    /\ local[i] \in {"open", "closing", "unsent"} /\ central[i] = "released"
    /\ local' = [local EXCEPT ![i] = "done"]
    /\ UNCHANGED <<day, generation, venue, central, gate, cursor, audit, aborts>>
-----------------------------------------------------------------------------
AuditStep(next) ==
    /\ audit' = next
    /\ UNCHANGED <<day, generation, venue, central, local, gate, cursor, aborts>>

\* A source that fails or is too old, or the timeout of the audit: the next turn
\* starts again.
Timeout ==
    /\ audit.pc # "idle" /\ aborts < MaxAborts /\ aborts' = aborts + 1
    /\ audit' = NoAudit
    /\ UNCHANGED <<day, generation, venue, central, local, gate, cursor>>

\* A bug: the age of the backup is not looked at.
WithinArchive_mutant == TRUE

WithinArchive == day <= Limit

Begin ==
    /\ audit.pc = "idle" /\ gate /\ WithinArchive
    /\ AuditStep([NoAudit EXCEPT !.pc = "history", !.generation = generation, !.day = day])

History == {i \in Intent : order[i] \in Ended /\ day - updated[i] <= Retention}

\* A bug: only orders of the audit's own time are looked up.
LostOrder_mutant(i) == updated[i] > audit.day /\ ~Known(i)

\* A bug: every order since the backup counts as lost.
LostOrder_every(i) == updated[i] >= 0

\* An order updated since the backup that the ledger does not have.
LostOrder(i) == updated[i] >= 0 /\ ~Known(i)

ReadHistory ==
    /\ audit.pc = "history" /\ \A i \in History : ~LostOrder(i)
    /\ AuditStep([audit EXCEPT !.pc = "capture"])

\* capture_account_sources: the snapshot and, with it, its cursor.
Capture ==
    /\ audit.pc = "capture"
    /\ audit' = [audit EXCEPT !.pc = "algos", !.positions = Positions, !.pending = PendingOrders]
    /\ cursor' = generation
    /\ UNCHANGED <<day, generation, venue, central, local, gate, aborts>>

ReadAlgos ==
    /\ audit.pc = "algos"
    /\ AuditStep([audit EXCEPT !.pc = "attribute", !.algos = Algos])

\* Every position is owned by protected lots, the protections are the venue's
\* algos, and every pending order is known.
Attributed ==
    /\ \A i \in audit.positions : local[i] = "open"
    /\ audit.positions = audit.algos
    /\ \A i \in audit.pending : Known(i)

recovery_generation == audit.generation = generation

Attribute ==
    /\ audit.pc = "attribute" /\ Attributed /\ recovery_generation
    /\ AuditStep([audit EXCEPT !.pc = "central"])

ReadCentral ==
    /\ audit.pc = "central"
    /\ AuditStep([audit EXCEPT !.pc = "inspect", !.receipts = ActiveReceipts, !.todo = ActiveReceipts,
                               !.central = ActiveReservations])

\* Each active receipt has its lots in the snapshot and is Open in the book.
Covered(i) == i \in audit.positions /\ local[i] = "open" /\ central[i] = "open"

Inspect(i) ==
    /\ audit.pc = "inspect" /\ i \in audit.todo /\ Covered(i)
    /\ AuditStep([audit EXCEPT !.todo = @ \ {i}])

BeginRefresh ==
    /\ audit.pc = "inspect" /\ audit.todo = {}
    /\ AuditStep([audit EXCEPT !.pc = "refresh"])

\* The concurrent second reading agrees with the first: "central" compares the
\* counts and sums of the book.
Unchanged(what) ==
    CASE what = "account"     -> audit.positions = Positions /\ audit.pending = PendingOrders
      [] what = "algos"       -> audit.algos = Algos
      [] what = "central"     -> Cardinality(audit.central) = Cardinality(ActiveReservations)
      [] what = "protections" -> audit.receipts \subseteq Algos

Refresh(what) ==
    /\ audit.pc = "refresh" /\ what \in Reads \ audit.fresh /\ Unchanged(what)
    /\ AuditStep([audit EXCEPT !.fresh = @ \cup {what}])

\* A bug: the count of the book is not asked for.
recovery_matches_mutant == UnresolvedIntents = {}

\* The ledger is settled and has as many active receipts as the book.
recovery_matches ==
    /\ UnresolvedIntents = {}
    /\ Cardinality(audit.central) = Cardinality(ActiveReceipts)

Compare ==
    /\ audit.pc = "refresh" /\ audit.fresh = Reads /\ recovery_generation
    /\ audit' = [audit EXCEPT !.pc = "compare"]
    /\ cursor' = audit.generation
    /\ UNCHANGED <<day, generation, venue, central, local, gate, aborts>>

ReadLedger ==
    /\ audit.pc = "compare" /\ recovery_matches
    /\ AuditStep([audit EXCEPT !.pc = "commit", !.receipts = ActiveReceipts])

ProofStands == cursor = audit.generation /\ recovery_matches /\ audit.receipts = ActiveReceipts

Clear ==
    /\ audit.pc = "commit" /\ ProofStands
    /\ gate' = FALSE /\ audit' = NoAudit
    /\ UNCHANGED <<day, generation, venue, central, local, cursor, aborts>>

\* A check fails and the audit ends with its reason.
Refuse ==
    /\ \/ audit.pc = "history" /\ \E i \in History : LostOrder(i)
       \/ audit.pc = "attribute" /\ ~(Attributed /\ recovery_generation)
       \/ audit.pc = "inspect" /\ \E i \in audit.todo : ~Covered(i)
       \/ audit.pc = "refresh" /\ \E what \in Reads \ audit.fresh : ~Unchanged(what)
       \/ audit.pc = "refresh" /\ audit.fresh = Reads /\ ~recovery_generation
       \/ audit.pc = "compare" /\ ~recovery_matches
       \/ audit.pc = "commit" /\ ~ProofStands
    /\ AuditStep(NoAudit)

Audit ==
    \/ Begin \/ ReadHistory \/ Capture \/ ReadAlgos \/ Attribute \/ ReadCentral
    \/ \E i \in Intent : Inspect(i)
    \/ BeginRefresh \/ \E what \in Reads : Refresh(what)
    \/ Compare \/ ReadLedger \/ Clear \/ Refuse

Maintain(i) == RejectUnsent(i) \/ ReadOrder(i) \/ ResolveCentral(i) \/ AcknowledgeRelease(i)

Next ==
    \/ Audit \/ Timeout \/ Tick \/ Reconnect \/ OtherCapture
    \/ \E i \in Intent : OrderEnds(i) \/ PositionCloses(i) \/ Maintain(i)

Spec == Init /\ [][Next]_vars

\* The maintenance loop runs every second; an order or a POST under way comes to
\* an end, a position may stay.
FairSpec ==
    /\ Spec /\ WF_vars(Audit)
    /\ \A i \in Intent : WF_vars(Maintain(i)) /\ WF_vars(OrderEnds(i))
-----------------------------------------------------------------------------
\* Once the gate is open, an order the ledger does not know is neither at the
\* venue nor on its way: no POST made after the backup is lost, wherever it was
\* during the audit ("histories cannot establish absence of a lost POST",
\* recovery.rs:147).
ClearedKnowsOrders == ~gate => \A i \in Intent : Known(i) \/ order[i] = "none"

\* Once the gate is open, what the book still reserves for the account belongs
\* to receipts the ledger will give back: no reservation is stranded.
ClearedHoldsCentral == ~gate => ActiveReservations \subseteq ActiveReceipts

\* What keeps the gate shut: an intent the backup had lost that is at the venue
\* or in the book, a POST of the backup that never reached the venue, and an
\* intent taken back as unsent whose order is at the venue or open in the book.
Blocked(i) ==
    \/ ~Known(i) /\ (order[i] # "none" \/ i \in ActiveReservations)
    \/ local[i] = "posted" /\ order[i] = "none"
    \/ local[i] \in {"unsent", "done"} /\ order[i] \in {"flight", "live", "filled"}
    \/ local[i] = "unsent" /\ central[i] = "open"

\* A ledger that lost nothing comes back, with open positions or without and
\* however the audits were timed out, refused or overtaken by a reconnection:
\* the gate opens, the backup becomes too old to audit, or one intent blocks it
\* for good.
GateOpens == <>~gate \/ <>~WithinArchive \/ \E i \in Intent : <>[]Blocked(i)

\* A receipt REJECTED_UNSENT "is proof that this intent never touched venue"
\* (reconcile.rs:91): what it releases is no order that can still fill or has filled.
UnsentIsProof == \A i \in Intent :
    (local[i] = "unsent" /\ central[i] = "released") => order[i] \notin {"flight", "live", "filled"}
===============================================================================
