----------------------- MODULE StorageRecoveryProofs -----------------------
(***************************************************************************)
(* The gate of a restored ledger opens only over a ledger that knows every *)
(* order of the account and owns every reservation of the book, for any    *)
(* number of intents, any retention of the archive and any limit below it. *)
(*                                                                         *)
(* The audit reads its five sources at different moments, so no conjunct   *)
(* can compare them at once.  The argument is that each of them moves one  *)
(* way only while the gate is set: the book loses reservations, the ledger *)
(* loses active receipts, and an order the backup does not have is neither *)
(* learned nor released.                                                   *)
(***************************************************************************)
EXTENDS StorageRecovery, FiniteSetTheorems, TLAPS

AuditPc == {"idle", "history", "capture", "algos", "attribute", "central", "inspect",
            "refresh", "compare", "commit"}

AuditType ==
    audit \in [pc : AuditPc, generation : Nat, day : Nat, positions : SUBSET Intent,
               pending : SUBSET Intent, algos : SUBSET Intent, receipts : SUBSET Intent,
               central : SUBSET Intent, todo : SUBSET Intent, fresh : SUBSET Reads]

\* An order the backup does not have was reserved before it was sent.
LostIsReserved ==
    \A i \in Intent : ~Known(i) /\ order[i] \in {"flight", "live"} => i \in ActiveReservations

\* The audit began within the limit and lasts less than a day.
ArchiveReaches ==
    audit.pc # "idle" => audit.day <= Limit /\ day <= audit.day + 1

\* The orders that had ended were looked up in the archive; what ends after that
\* was reserved.
HistoryHolds ==
    audit.pc \notin {"idle", "history"} =>
        \A i \in Intent : Known(i) \/ order[i] = "none" \/ i \in ActiveReservations

\* The book only loses reservations after it was read.
BookHolds ==
    audit.pc \in {"inspect", "refresh", "compare", "commit"} => ActiveReservations \subseteq audit.central

\* The receipts that were looked at are reserved in the book.
ReceiptsHold ==
    /\ audit.pc = "inspect" =>
        /\ ActiveReceipts \subseteq audit.receipts
        /\ audit.receipts \ audit.todo \subseteq audit.central
    /\ audit.pc \in {"refresh", "compare", "commit"} => ActiveReceipts \subseteq audit.central

Evidence == LostIsReserved /\ ArchiveReaches /\ HistoryHolds /\ BookHolds /\ ReceiptsHold

IInv == TypeOK /\ AuditType /\ Evidence /\ ClearedKnowsOrders /\ ClearedHoldsCentral
-----------------------------------------------------------------------------
\* What a step does to the venue, the book and the ledger.
Moves ==
    /\ ActiveReservations' \subseteq ActiveReservations
    /\ ActiveReceipts' \subseteq ActiveReceipts
    /\ \A i \in Intent : /\ Known(i)' <=> Known(i)
                         /\ ~Known(i) => central'[i] = central[i]
                         /\ order[i] = "none" => order'[i] = "none"
                         /\ order[i] \in Ended => order'[i] \in Ended
                         /\ i \in ActiveReceipts /\ i \notin ActiveReceipts' => i \notin ActiveReservations'

World == <<order, central, local>>

\* An order that ends and a position that closes only move one way.
LEMMA VenueMoves ==
  ASSUME TypeOK, NEW i \in Intent, OrderEnds(i) \/ PositionCloses(i)
  PROVE  TypeOK' /\ Moves /\ UNCHANGED <<day, audit, gate>>
  <1>1. PICK from \in {"flight", "live", "filled"}, to \in OrderState, protected \in BOOLEAN :
          /\ VenueMove(i, from, to, protected)
          /\ from = "filled" => to \in Ended
    BY DEF OrderEnds, PositionCloses, OrderState, Ended
  <1>2. /\ order' = [order EXCEPT ![i] = to] /\ order[i] = from
        /\ UNCHANGED <<day, generation, central, local, gate, cursor, audit, aborts>>
    BY <1>1 DEF VenueMove
  <1>3. TypeOK'
    <2>1. updated' = [updated EXCEPT ![i] = day] /\ algo' = [algo EXCEPT ![i] = protected]
      BY <1>1 DEF VenueMove
    <2> QED
      BY <1>1, <1>2, <2>1 DEF TypeOK
  <1>4. Moves
    BY <1>1, <1>2 DEF TypeOK, Moves, ActiveReservations, ActiveReceipts, Known, Ended
  <1> QED
    BY <1>2, <1>3, <1>4

\* So does the maintenance turn.
LEMMA MaintainMoves ==
  ASSUME TypeOK, NEW i \in Intent, Maintain(i)
  PROVE  TypeOK' /\ Moves /\ UNCHANGED <<day, audit, gate>>
  <1>1. CASE RejectUnsent(i)
    BY <1>1 DEF RejectUnsent, venue, TypeOK, LocalState, Moves, ActiveReservations, ActiveReceipts, Known
  <1>2. CASE ReadOrder(i)
    <2>1. PICK l \in {"open", "closing"} : l = AfterReadback(i)
      BY DEF AfterReadback
    <2>2. /\ local[i] = "posted" /\ local' = [local EXCEPT ![i] = l]
          /\ UNCHANGED <<day, generation, venue, central, gate, cursor, audit, aborts>>
      BY <1>2, <2>1 DEF ReadOrder
    <2> QED
      BY <2>2 DEF venue, TypeOK, LocalState, Moves, ActiveReservations, ActiveReceipts, Known
  <1>3. CASE ResolveCentral(i)
    <2>1. PICK c \in {"open", "released"} :
            /\ central' = [central EXCEPT ![i] = c] /\ local[i] \in {"open", "closing", "unsent"}
            /\ c = "open" => central[i] = "held"
      BY <1>3 DEF ResolveCentral
    <2>2. UNCHANGED <<day, generation, venue, local, gate, cursor, audit, aborts>>
      BY <1>3 DEF ResolveCentral
    <2> QED
      BY <2>1, <2>2 DEF venue, TypeOK, CentralState, Moves, ActiveReservations, ActiveReceipts, Known
  <1>4. CASE AcknowledgeRelease(i)
    BY <1>4 DEF AcknowledgeRelease, venue, TypeOK, LocalState, Moves, ActiveReservations, ActiveReceipts, Known
  <1> QED
    BY <1>1, <1>2, <1>3, <1>4 DEF Maintain

\* A step of the world keeps what the audit has found so far.
LEMMA MovesKeepEvidence ==
  ASSUME IInv, Moves, UNCHANGED <<audit, gate>>, ArchiveReaches'
  PROVE  Evidence' /\ ClearedKnowsOrders' /\ ClearedHoldsCentral'
  <1> USE DEF IInv, Evidence
  <1>1. LostIsReserved'
    <2> SUFFICES ASSUME NEW i \in Intent, ~Known(i)', order'[i] \in {"flight", "live"}
                 PROVE  i \in ActiveReservations'
      BY DEF LostIsReserved
    <2>1. ~Known(i) /\ central'[i] = central[i] /\ order[i] \in {"flight", "live"}
      BY DEF Moves, TypeOK, OrderState, Ended
    <2> QED
      BY <2>1 DEF LostIsReserved, ActiveReservations
  <1>2. HistoryHolds'
    BY DEF HistoryHolds, Moves, ActiveReservations
  <1>3. BookHolds' /\ ReceiptsHold'
    BY DEF BookHolds, ReceiptsHold, Moves
  <1>4. ClearedKnowsOrders'
    BY DEF ClearedKnowsOrders, Moves
  <1>5. ClearedHoldsCentral'
    <2>1. ActiveReservations' \subseteq Intent
      BY DEF ActiveReservations
    <2> QED
      BY <2>1 DEF ClearedHoldsCentral, Moves
  <1> QED
    BY <1>1, <1>2, <1>3, <1>4, <1>5

\* A step of the audit leaves the world alone.
LEMMA AuditKeepsWorld ==
  ASSUME IInv, UNCHANGED World
  PROVE  /\ LostIsReserved'
         /\ gate' = gate => ClearedKnowsOrders' /\ ClearedHoldsCentral'
         /\ ActiveReservations' = ActiveReservations /\ ActiveReceipts' = ActiveReceipts
         /\ \A i \in Intent : Known(i)' = Known(i)
  BY DEF World, IInv, Evidence, LostIsReserved, ClearedKnowsOrders, ClearedHoldsCentral, ActiveReservations,
         ActiveReceipts, Known
-----------------------------------------------------------------------------
\* The archive is read over its whole retention, so nothing that ended escapes.
LEMMA HistoryIsRead ==
  ASSUME IInv, ReadHistory
  PROVE  HistoryHolds'
  <1>1. /\ audit.day <= Limit /\ day <= audit.day + 1 /\ audit.day \in Nat
    BY DEF ReadHistory, IInv, Evidence, ArchiveReaches, AuditType
  <1>2. ASSUME NEW i \in Intent, order[i] \in Ended
        PROVE  Known(i)
    <2>1. updated[i] \in Nat /\ day - updated[i] <= Retention
      BY <1>1, RecoveryAssumption DEF IInv, TypeOK
    <2> QED
      BY <1>2, <2>1 DEF ReadHistory, History, LostOrder
  <1>3. ASSUME NEW i \in Intent PROVE Known(i) \/ order[i] = "none" \/ i \in ActiveReservations
    <2>1. CASE order[i] \in {"flight", "live"}
      BY <2>1 DEF IInv, Evidence, LostIsReserved
    <2>2. CASE order[i] \in Ended
      BY <1>2, <2>2
    <2> QED
      BY <2>1, <2>2 DEF IInv, TypeOK, OrderState, Ended
  <1>4. UNCHANGED World
    BY DEF ReadHistory, AuditStep, venue, World
  <1> QED
    BY <1>3, <1>4, AuditKeepsWorld DEF HistoryHolds, World

\* The two counts agree and the receipts are among the reservations that were
\* read, so they are the same.
LEMMA CountsAgree ==
  ASSUME IInv, Clear
  PROVE  ActiveReservations \subseteq ActiveReceipts
  <1>1. /\ audit.pc = "commit" /\ Cardinality(audit.central) = Cardinality(ActiveReceipts)
    BY DEF Clear, ProofStands, recovery_matches
  <1>2. /\ ActiveReceipts \subseteq audit.central /\ ActiveReservations \subseteq audit.central
        /\ audit.central \subseteq Intent
    BY <1>1 DEF IInv, Evidence, ReceiptsHold, BookHolds, AuditType
  <1>3. IsFiniteSet(audit.central)
    BY <1>2, FS_Subset, RecoveryAssumption
  <1>4. ActiveReceipts = audit.central
    BY <1>1, <1>2, <1>3, FS_Subset
  <1> QED
    BY <1>2, <1>4

\* The idle audit is well formed.
LEMMA NoAuditIsTyped == /\ NoAudit \in [pc : AuditPc, generation : Nat, day : Nat, positions : SUBSET Intent,
                                        pending : SUBSET Intent, algos : SUBSET Intent,
                                        receipts : SUBSET Intent, central : SUBSET Intent,
                                        todo : SUBSET Intent, fresh : SUBSET Reads]
                        /\ NoAudit.pc = "idle"
  BY DEF NoAudit, AuditPc

\* An audit that ends, for whatever reason, leaves nothing to keep.
LEMMA EndOfAudit ==
  ASSUME IInv, audit' = NoAudit, UNCHANGED <<day, generation, venue, central, local>>,
         gate' = gate, cursor' \in 0..MaxGeneration, aborts' \in 0..MaxAborts
  PROVE  IInv'
  <1>1. UNCHANGED World /\ UNCHANGED <<algo, updated>>
    BY DEF World, venue
  <1>2. audit'.pc = "idle" /\ AuditType'
    BY NoAuditIsTyped DEF AuditType
  <1>3. TypeOK'
    BY <1>1, <1>2 DEF IInv, TypeOK, AuditType, World
  <1> QED
    BY <1>1, <1>2, <1>3, AuditKeepsWorld
       DEF IInv, Evidence, ArchiveReaches, HistoryHolds, BookHolds, ReceiptsHold

\* The same for a step within an audit that sets fields other than its day.
LEMMA WithinAudit ==
  ASSUME IInv, UNCHANGED <<day, generation, venue, central, local, gate, aborts>>,
         cursor' \in 0..MaxGeneration, AuditType', audit'.pc # "idle", audit.pc # "idle",
         audit'.day = audit.day
  PROVE  /\ TypeOK' /\ AuditType' /\ LostIsReserved' /\ ArchiveReaches'
         /\ ClearedKnowsOrders' /\ ClearedHoldsCentral'
         /\ ActiveReservations' = ActiveReservations /\ ActiveReceipts' = ActiveReceipts
         /\ audit.pc # "history" => HistoryHolds'
  <1>1. UNCHANGED World /\ UNCHANGED <<algo, updated>>
    BY DEF World, venue
  <1>2. TypeOK'
    BY <1>1 DEF IInv, TypeOK, AuditType, AuditPc, World
  <1>3. ArchiveReaches'
    BY DEF IInv, Evidence, ArchiveReaches
  <1>4. ASSUME audit.pc # "history" PROVE HistoryHolds'
    BY <1>1, <1>4, AuditKeepsWorld DEF IInv, Evidence, HistoryHolds, World
  <1> QED
    BY <1>1, <1>2, <1>3, <1>4, AuditKeepsWorld
-----------------------------------------------------------------------------
\* The invariant holds at the start.
LEMMA InitIInv == Init => IInv
  <1> SUFFICES ASSUME Init PROVE IInv
    OBVIOUS
  <1>1. /\ audit = NoAudit /\ audit.pc = "idle" /\ gate = TRUE /\ AuditType
        /\ audit.fresh = {} /\ audit.todo = {}
    BY NoAuditIsTyped DEF Init, NoAudit, AuditType
  <1>2. PICK t \in [Intent -> Truth] :
          /\ order = [i \in Intent |-> t[i][1]] /\ central = [i \in Intent |-> t[i][2]]
          /\ algo = [i \in Intent |-> t[i][3]]
    BY Zenon DEF Init
  <1>3. \A u \in Truth : /\ u[1] \in OrderState /\ u[2] \in CentralState
                         /\ u[1] \in {"flight", "live"} => u[2] = "held"
    <2> SUFFICES ASSUME NEW u \in Truth
                 PROVE  /\ u[1] \in OrderState /\ u[2] \in CentralState
                        /\ u[1] \in {"flight", "live"} => u[2] = "held"
      OBVIOUS
    <2>1. PICK o \in OrderState, c \in CentralState, b \in BOOLEAN :
            u = <<o, c, b>> /\ (o \in {"flight", "live"} => c = "held")
      BY DEF Truth, OrderState, CentralState
    <2> QED
      BY <2>1
  <1>4. order \in [Intent -> OrderState] /\ central \in [Intent -> CentralState]
    BY <1>2, <1>3
  <1>5. TypeOK
    <2>1. \A u \in Truth : u[3] = TRUE \/ u[3] = FALSE
      BY DEF Truth
    <2>2. algo \in [Intent -> BOOLEAN]
      BY <1>2, <2>1
    <2>3. /\ day = 0 /\ generation = 1 /\ cursor = 0 /\ aborts = 0 /\ updated = [i \in Intent |-> 0]
          /\ local \in [Intent -> LocalState]
      BY DEF Init, LocalState
    <2> QED
      BY <1>1, <1>4, <2>2, <2>3, RecoveryAssumption DEF TypeOK
  <1>6. LostIsReserved
    BY <1>2, <1>3 DEF LostIsReserved, ActiveReservations
  <1> QED
    BY <1>1, <1>5, <1>6 DEF IInv, Evidence, ArchiveReaches, HistoryHolds, BookHolds, ReceiptsHold,
       ClearedKnowsOrders, ClearedHoldsCentral

\* Every step of the audit preserves it.
LEMMA AuditIInv == ASSUME IInv, Audit PROVE IInv'
  <1>0. /\ cursor \in 0..MaxGeneration /\ generation \in 0..MaxGeneration /\ aborts \in 0..MaxAborts
        /\ day \in Nat /\ generation \in Nat /\ AuditType
    BY RecoveryAssumption DEF IInv, TypeOK
  <1>1. CASE Begin
    <2>1. audit' = [NoAudit EXCEPT !.pc = "history", !.generation = generation, !.day = day]
      BY <1>1 DEF Begin, AuditStep
    <2>2. audit'.pc = "history" /\ audit'.day = day /\ day <= Limit
      BY <1>1, <2>1, NoAuditIsTyped DEF Begin, WithinArchive
    <2>3. AuditType'
      BY <1>0, <2>1, NoAuditIsTyped DEF AuditType, AuditPc
    <2>4. UNCHANGED World /\ UNCHANGED <<day, generation, algo, updated, gate, cursor, aborts>>
      BY <1>1 DEF Begin, AuditStep, venue, World
    <2>5. TypeOK'
      BY <2>3, <2>4 DEF IInv, TypeOK, AuditType, AuditPc, World
    <2>6. ArchiveReaches'
      BY <1>0, <2>2, <2>4 DEF ArchiveReaches
    <2> QED
      BY <2>2, <2>3, <2>4, <2>5, <2>6, AuditKeepsWorld
         DEF IInv, Evidence, HistoryHolds, BookHolds, ReceiptsHold
  <1>2. CASE ReadHistory
    <2>1. audit' = [audit EXCEPT !.pc = "capture"]
          /\ UNCHANGED <<day, generation, venue, central, local, gate, cursor, aborts>> /\ audit.pc = "history"
      BY <1>2 DEF ReadHistory, AuditStep
    <2>2. AuditType' /\ audit'.pc = "capture" /\ audit'.day = audit.day
      BY <1>0, <2>1 DEF AuditType, AuditPc
    <2> QED
      BY <1>0, <1>2, <2>1, <2>2, WithinAudit, HistoryIsRead DEF IInv, Evidence, BookHolds, ReceiptsHold
  <1>3. CASE Capture
    <2>1. /\ audit' = [audit EXCEPT !.pc = "algos", !.positions = Positions, !.pending = PendingOrders]
          /\ UNCHANGED <<day, generation, venue, central, local, gate, aborts>> /\ cursor' = generation
          /\ audit.pc = "capture"
      BY <1>3 DEF Capture
    <2>2. AuditType' /\ audit'.pc = "algos" /\ audit'.day = audit.day
      BY <1>0, <2>1 DEF AuditType, AuditPc, Positions, PendingOrders
    <2> QED
      BY <1>0, <2>1, <2>2, WithinAudit DEF IInv, Evidence, BookHolds, ReceiptsHold
  <1>4. CASE ReadAlgos
    <2>1. /\ audit' = [audit EXCEPT !.pc = "attribute", !.algos = Algos] /\ audit.pc = "algos"
          /\ UNCHANGED <<day, generation, venue, central, local, gate, cursor, aborts>>
      BY <1>4 DEF ReadAlgos, AuditStep
    <2>2. AuditType' /\ audit'.pc = "attribute" /\ audit'.day = audit.day
      BY <1>0, <2>1 DEF AuditType, AuditPc, Algos
    <2> QED
      BY <1>0, <2>1, <2>2, WithinAudit DEF IInv, Evidence, BookHolds, ReceiptsHold
  <1>5. CASE Attribute
    <2>1. /\ audit' = [audit EXCEPT !.pc = "central"] /\ audit.pc = "attribute"
          /\ UNCHANGED <<day, generation, venue, central, local, gate, cursor, aborts>>
      BY <1>5 DEF Attribute, AuditStep
    <2>2. AuditType' /\ audit'.pc = "central" /\ audit'.day = audit.day
      BY <1>0, <2>1 DEF AuditType, AuditPc
    <2> QED
      BY <1>0, <2>1, <2>2, WithinAudit DEF IInv, Evidence, BookHolds, ReceiptsHold
  <1>6. CASE ReadCentral
    <2>1. /\ audit' = [audit EXCEPT !.pc = "inspect", !.receipts = ActiveReceipts, !.todo = ActiveReceipts,
                                    !.central = ActiveReservations]
          /\ UNCHANGED <<day, generation, venue, central, local, gate, cursor, aborts>>
          /\ audit.pc = "central"
      BY <1>6 DEF ReadCentral, AuditStep
    <2>2. ActiveReceipts \subseteq Intent /\ ActiveReservations \subseteq Intent
      BY DEF ActiveReceipts, ActiveReservations
    <2>3. /\ AuditType' /\ audit'.pc = "inspect" /\ audit'.day = audit.day
          /\ audit'.receipts = ActiveReceipts /\ audit'.todo = ActiveReceipts
          /\ audit'.central = ActiveReservations
      BY <1>0, <2>1, <2>2 DEF AuditType, AuditPc
    <2> QED
      BY <1>0, <2>1, <2>3, WithinAudit DEF IInv, Evidence, BookHolds, ReceiptsHold
  <1>7. CASE \E i \in Intent : Inspect(i)
    <2>1. PICK i \in Intent : /\ i \in audit.todo /\ Covered(i) /\ audit.pc = "inspect"
                              /\ audit' = [audit EXCEPT !.todo = @ \ {i}]
                              /\ UNCHANGED <<day, generation, venue, central, local, gate, cursor, aborts>>
      BY <1>7 DEF Inspect, AuditStep
    <2>2. /\ AuditType' /\ audit'.pc = "inspect" /\ audit'.day = audit.day
          /\ audit'.receipts = audit.receipts /\ audit'.todo = audit.todo \ {i}
          /\ audit'.central = audit.central
      BY <1>0, <2>1 DEF AuditType, AuditPc
    <2>3. i \in ActiveReservations
      BY <2>1 DEF Covered, ActiveReservations
    <2> QED
      BY <1>0, <2>1, <2>2, <2>3, WithinAudit DEF IInv, Evidence, BookHolds, ReceiptsHold
  <1>8. CASE BeginRefresh
    <2>1. /\ audit' = [audit EXCEPT !.pc = "refresh"] /\ audit.pc = "inspect" /\ audit.todo = {}
          /\ UNCHANGED <<day, generation, venue, central, local, gate, cursor, aborts>>
      BY <1>8 DEF BeginRefresh, AuditStep
    <2>2. /\ AuditType' /\ audit'.pc = "refresh" /\ audit'.day = audit.day
          /\ audit'.central = audit.central
      BY <1>0, <2>1 DEF AuditType, AuditPc
    <2> QED
      BY <1>0, <2>1, <2>2, WithinAudit DEF IInv, Evidence, BookHolds, ReceiptsHold
  <1>9. CASE \E what \in Reads : Refresh(what)
    <2>1. PICK what \in Reads :
            /\ audit' = [audit EXCEPT !.fresh = @ \cup {what}] /\ audit.pc = "refresh"
            /\ UNCHANGED <<day, generation, venue, central, local, gate, cursor, aborts>>
      BY <1>9 DEF Refresh, AuditStep
    <2>2. /\ AuditType' /\ audit'.pc = "refresh" /\ audit'.day = audit.day
          /\ audit'.central = audit.central
      BY <1>0, <2>1 DEF AuditType, AuditPc
    <2> QED
      BY <1>0, <2>1, <2>2, WithinAudit DEF IInv, Evidence, BookHolds, ReceiptsHold
  <1>10. CASE Compare
    <2>1. /\ audit' = [audit EXCEPT !.pc = "compare"] /\ audit.pc = "refresh" /\ cursor' = generation
          /\ UNCHANGED <<day, generation, venue, central, local, gate, aborts>>
      BY <1>10 DEF Compare, recovery_generation
    <2>2. /\ AuditType' /\ audit'.pc = "compare" /\ audit'.day = audit.day
          /\ audit'.central = audit.central
      BY <1>0, <2>1 DEF AuditType, AuditPc
    <2> QED
      BY <1>0, <2>1, <2>2, WithinAudit DEF IInv, Evidence, BookHolds, ReceiptsHold
  <1>11. CASE ReadLedger
    <2>1. /\ audit' = [audit EXCEPT !.pc = "commit", !.receipts = ActiveReceipts] /\ audit.pc = "compare"
          /\ UNCHANGED <<day, generation, venue, central, local, gate, cursor, aborts>>
      BY <1>11 DEF ReadLedger, AuditStep
    <2>2. ActiveReceipts \subseteq Intent
      BY DEF ActiveReceipts
    <2>3. /\ AuditType' /\ audit'.pc = "commit" /\ audit'.day = audit.day
          /\ audit'.central = audit.central
      BY <1>0, <2>1, <2>2 DEF AuditType, AuditPc
    <2> QED
      BY <1>0, <2>1, <2>3, WithinAudit DEF IInv, Evidence, BookHolds, ReceiptsHold
  <1>12. CASE Clear
    <2>1. /\ audit' = NoAudit /\ audit.pc = "commit" /\ gate' = FALSE
          /\ UNCHANGED World /\ UNCHANGED <<day, generation, algo, updated, cursor, aborts>>
      BY <1>12 DEF Clear, venue, World
    <2>2. audit'.pc = "idle" /\ AuditType'
      BY <2>1, NoAuditIsTyped DEF AuditType
    <2>3. TypeOK'
      BY <2>1, <2>2 DEF IInv, TypeOK, AuditType, World
    <2>4. \A i \in Intent : Known(i) \/ order[i] = "none"
      <3>1. ASSUME NEW i \in Intent, ~Known(i) PROVE i \notin ActiveReservations
        BY <1>12, <3>1, CountsAgree DEF Known, ActiveReceipts
      <3> QED
        BY <2>1, <3>1 DEF IInv, Evidence, HistoryHolds
    <2>5. ClearedKnowsOrders' /\ ClearedHoldsCentral'
      BY <1>12, <2>1, <2>4, CountsAgree, AuditKeepsWorld DEF ClearedKnowsOrders, ClearedHoldsCentral, World
    <2> QED
      BY <2>1, <2>2, <2>3, <2>5, AuditKeepsWorld
         DEF IInv, Evidence, ArchiveReaches, HistoryHolds, BookHolds, ReceiptsHold
  <1>13. CASE Refuse
    BY <1>0, <1>13, EndOfAudit DEF Refuse, AuditStep
  <1> QED
    BY <1>1, <1>2, <1>3, <1>4, <1>5, <1>6, <1>7, <1>8, <1>9, <1>10, <1>11, <1>12, <1>13 DEF Audit

\* Every step preserves it.
LEMMA NextIInv == IInv /\ [Next]_vars => IInv'
  <1> SUFFICES ASSUME IInv, [Next]_vars PROVE IInv'
    OBVIOUS
  <1>0. TypeOK /\ AuditType /\ Evidence
    BY DEF IInv
  <1>1. ASSUME TypeOK', Moves, UNCHANGED <<day, audit, gate>> PROVE IInv'
    BY <1>0, <1>1, MovesKeepEvidence DEF IInv, Evidence, AuditType, ArchiveReaches
  <1>2. ASSUME UNCHANGED World PROVE Moves
    BY <1>2 DEF World, Moves, ActiveReservations, ActiveReceipts, Known
  <1>3. CASE Audit
    BY <1>3, AuditIInv
  <1>4. CASE Timeout
    <2>1. aborts' \in 0..MaxAborts
      BY <1>0, <1>4, RecoveryAssumption DEF Timeout, TypeOK
    <2> QED
      BY <1>0, <1>4, <2>1, EndOfAudit DEF Timeout, TypeOK
  <1>5. CASE Tick
    <2>1. TypeOK' /\ AuditType' /\ UNCHANGED World /\ UNCHANGED <<audit, gate>>
      BY <1>0, <1>5, RecoveryAssumption DEF Tick, TypeOK, AuditType, World, venue
    <2>2. ArchiveReaches'
      BY <1>0, <1>5, RecoveryAssumption DEF Tick, Evidence, ArchiveReaches, TypeOK
    <2> QED
      BY <1>2, <2>1, <2>2, MovesKeepEvidence DEF IInv
  <1>6. CASE Reconnect
    <2>1. TypeOK' /\ UNCHANGED World /\ UNCHANGED <<day, audit, gate>>
      BY <1>0, <1>6, RecoveryAssumption DEF Reconnect, TypeOK, World, venue
    <2> QED
      BY <1>1, <1>2, <2>1
  <1>7. CASE OtherCapture
    <2>1. TypeOK' /\ UNCHANGED World /\ UNCHANGED <<day, audit, gate>>
      BY <1>0, <1>7, RecoveryAssumption DEF OtherCapture, TypeOK, World, venue
    <2> QED
      BY <1>1, <1>2, <2>1
  <1>8. ASSUME NEW i \in Intent, OrderEnds(i) \/ PositionCloses(i) PROVE IInv'
    BY <1>0, <1>1, <1>8, VenueMoves
  <1>9. ASSUME NEW i \in Intent, Maintain(i) PROVE IInv'
    BY <1>0, <1>1, <1>9, MaintainMoves
  <1>10. CASE UNCHANGED vars
    <2>1. TypeOK' /\ UNCHANGED World /\ UNCHANGED <<day, audit, gate>>
      BY <1>0, <1>10 DEF vars, venue, TypeOK, World
    <2> QED
      BY <1>1, <1>2, <2>1
  <1> QED
    BY <1>3, <1>4, <1>5, <1>6, <1>7, <1>8, <1>9, <1>10 DEF Next

\* So it always holds.
LEMMA RecoveryInvariance == Spec => []IInv
  BY InitIInv, NextIInv, PTL DEF Spec
-----------------------------------------------------------------------------
\* The ledger, the venue, the book and the audit keep the types of recovery.rs.
THEOREM RecoveryTypeCorrect == Spec => []TypeOK
  <1>1. IInv => TypeOK
    BY DEF IInv
  <1> QED
    BY <1>1, RecoveryInvariance, PTL

\* recovery.rs clears requires_reconcile only when every order at the venue or on
\* its way is one the ledger knows, whatever order the sources were read in.
THEOREM ClearedLedgerKnowsOrders == Spec => []ClearedKnowsOrders
  <1>1. IInv => ClearedKnowsOrders
    BY DEF IInv
  <1> QED
    BY <1>1, RecoveryInvariance, PTL

\* ... and when every reservation of the book belongs to a receipt that will give
\* it back, though the audit compares counts and not the reservations themselves.
THEOREM ClearedLedgerHoldsCentral == Spec => []ClearedHoldsCentral
  <1>1. IInv => ClearedHoldsCentral
    BY DEF IInv
  <1> QED
    BY <1>1, RecoveryInvariance, PTL
=============================================================================
