---------------------------- MODULE LedgerFacts ----------------------------
(***************************************************************************)
(* The account's ledger facts, put together from a snapshot taken earlier  *)
(* and from bounded histories that are read concurrently while the         *)
(* exchange goes on trading: the orders of each instrument type from two   *)
(* overlapping endpoints, recent first and then the archive, the fills of  *)
(* each type, and the bills.  A history is one page, newest row first, and *)
(* is complete only when the page was not full.                            *)
(*                                                                         *)
(* Amounts are counts: every fill pays one unit of fee and every bill      *)
(* moves one unit.  A closed position is a bill as far as reading and      *)
(* duplicate detection go.                                                 *)
(***************************************************************************)
EXTENDS Naturals, Sequences, SequencesExt, FiniteSets

CONSTANTS
    Orders,       \* exchange order identifiers
    TypeOf,       \* order -> its instrument type
    PageLimit,    \* HISTORY_PAGE_LIMIT
    MaxEvents,    \* bound on events at the exchange
    MaxFaults     \* bound on failed requests

Types == {TypeOf[o] : o \in Orders}

LedgerFactsAssumption ==
    DOMAIN TypeOf = Orders /\ PageLimit \in Nat \ {0}

VARIABLES
    state,      \* order -> none, live, filled or canceled
    version,    \* order -> uTime of its latest row
    recent,     \* orders in the recent order history, newest first
    archive,    \* rows in the archived order history, newest first
    fills,      \* orders of the fills, one fill each, newest first
    bills,      \* likewise, the bills
    events, faults,
    pc,         \* idle, reading, accepted or refused
    snapshot,   \* pending orders, as the snapshot found them
    got,        \* the responses so far
    facts,      \* the facts put together
    began       \* history: the exchange when the snapshot was taken

venue == <<state, version, recent, archive, fills, bills>>
vars == <<state, version, recent, archive, fills, bills, events, faults,
          pc, snapshot, got, facts, began>>

Row(o) == [id |-> o, version |-> version[o]]
NoHistory == [read |-> FALSE, rows |-> <<>>, complete |-> FALSE]
NotRead == [recent |-> [t \in Types |-> NoHistory], archive |-> [t \in Types |-> NoHistory],
            fills |-> [t \in Types |-> NoHistory], bills |-> NoHistory]
NoFacts == [orders |-> {}, ordersComplete |-> FALSE, fills |-> {}, fillsComplete |-> FALSE,
            fees |-> 0, bills |-> {}, billsComplete |-> FALSE, unresolved |-> 0]

Seen == [pending |-> {}, finished |-> {}, version |-> [o \in Orders |-> 0],
         fills |-> {}, bills |-> {}]

Init ==
    /\ state = [o \in Orders |-> "none"] /\ version = [o \in Orders |-> 0]
    /\ recent = <<>> /\ archive = <<>> /\ fills = <<>> /\ bills = <<>>
    /\ events = 0 /\ faults = 0
    /\ pc = "idle" /\ snapshot = [pending |-> {}]
    /\ got = NotRead /\ facts = NoFacts /\ began = Seen

----------------------------------------------------------------------------
(* The exchange.                                                           *)

Event ==
    /\ events < MaxEvents /\ events' = events + 1
    /\ UNCHANGED <<faults, pc, snapshot, got, facts, began>>

Place(o) ==
    /\ state[o] = "none" /\ Event
    /\ state' = [state EXCEPT ![o] = "live"]
    /\ version' = [version EXCEPT ![o] = 1]
    /\ UNCHANGED <<recent, archive, fills, bills>>

Finish(o) ==
    /\ state[o] = "live" /\ Event
    /\ version' = [version EXCEPT ![o] = @ + 1]
    /\ recent' = <<o>> \o recent
    /\ \/ state' = [state EXCEPT ![o] = "filled"] /\ fills' = <<o>> \o fills /\ bills' = <<o>> \o bills
       \/ state' = [state EXCEPT ![o] = "canceled"] /\ UNCHANGED <<fills, bills>>
    /\ UNCHANGED <<archive>>

(* A finished row is corrected; an archived copy of it is older until it   *)
(* is archived again.                                                      *)
Correct(o) ==
    /\ o \in Range(recent) /\ version[o] = 2 /\ Event
    /\ version' = [version EXCEPT ![o] = @ + 1]
    /\ UNCHANGED <<state, recent, archive, fills, bills>>

Archive(o) ==
    /\ o \in Range(recent) /\ state[o] = "filled" /\ Row(o) \notin Range(archive) /\ Event
    /\ archive' = <<Row(o)>> \o SelectSeq(archive, LAMBDA r : r.id # o)
    /\ UNCHANGED <<state, version, recent, fills, bills>>

(* The recent history forgets a filled order once it is archived, and a    *)
(* canceled one after two hours.                                           *)
Expire(o) ==
    /\ o \in Range(recent) /\ Event
    /\ state[o] = "canceled" \/ Row(o) \in Range(archive)
    /\ recent' = SelectSeq(recent, LAMBDA p : p # o)
    /\ UNCHANGED <<state, version, archive, fills, bills>>

----------------------------------------------------------------------------
(* Reading.                                                                *)

bounded_history_mutant(rows) ==
    [read |-> TRUE, complete |-> TRUE,
     rows |-> SubSeq(rows, 1, IF Len(rows) < PageLimit THEN Len(rows) ELSE PageLimit)]

bounded_history(rows) ==
    [read |-> TRUE, complete |-> Len(rows) < PageLimit,
     rows |-> SubSeq(rows, 1, IF Len(rows) < PageLimit THEN Len(rows) ELSE PageLimit)]

Snapshot ==
    /\ pc \in {"idle", "refused"}
    /\ pc' = "reading" /\ got' = NotRead /\ facts' = NoFacts
    /\ snapshot' = [pending |-> {Row(o) : o \in {p \in Orders : state[p] = "live"}}]
    /\ began' = [pending |-> {o \in Orders : state[o] = "live"},
                 finished |-> Range(recent) \cup {r.id : r \in Range(archive)},
                 version |-> version, fills |-> Range(fills), bills |-> Range(bills)]
    /\ UNCHANGED <<venue, events, faults>>

Response(received) ==
    /\ pc = "reading"
    /\ got' = received
    /\ UNCHANGED <<venue, events, faults, pc, snapshot, facts, began>>

RowsOf(t, rows) == SelectSeq(rows, LAMBDA r : TypeOf[r.id] = t)
RecentRows(t) == RowsOf(t, [k \in DOMAIN recent |-> Row(recent[k])])
FillRows(t) == RowsOf(t, [k \in DOMAIN fills |-> [id |-> fills[k], version |-> 0]])

orders_history_recent(t) ==
    /\ ~got.recent[t].read
    /\ Response([got EXCEPT !.recent[t] = bounded_history(RecentRows(t))])

(* The archive is requested when the recent history has been received.     *)
orders_history_archive(t) ==
    /\ got.recent[t].read /\ ~got.archive[t].read
    /\ Response([got EXCEPT !.archive[t] = bounded_history(RowsOf(t, archive))])

fills_history(t) ==
    /\ ~got.fills[t].read
    /\ Response([got EXCEPT !.fills[t] = bounded_history(FillRows(t))])

bills_history ==
    /\ ~got.bills.read
    /\ Response([got EXCEPT !.bills = bounded_history(bills)])

(* A request fails: try_join drops the others.                             *)
RequestFails ==
    /\ pc = "reading" /\ faults < MaxFaults
    /\ pc' = "refused" /\ faults' = faults + 1
    /\ UNCHANGED <<venue, events, snapshot, got, facts, began>>

----------------------------------------------------------------------------
(* merge_order_histories and AccountLedgerFacts::from_okx.                 *)

merge_archive_only(t) == Range(got.archive[t].rows)

merge_stale(t) ==
    {r \in Range(got.archive[t].rows) \cup Range(got.recent[t].rows) :
        r \in Range(got.archive[t].rows) \/ \A other \in Range(got.archive[t].rows) : other.id # r.id}

merge_order_histories_mutant(t) == Range(got.recent[t].rows) \cup Range(got.archive[t].rows)

(* The row with the later uTime of each order, of either endpoint.         *)
merge_order_histories(t) ==
    LET rows == Range(got.recent[t].rows) \cup Range(got.archive[t].rows)
    IN  {r \in rows : \A other \in rows : other.id = r.id => other.version <= r.version}

Complete(t) == got.recent[t].complete /\ got.archive[t].complete

Received ==
    /\ got.bills.read
    /\ \A t \in Types : got.archive[t].read /\ got.recent[t].read /\ got.fills[t].read

DuplicateOrder_mutant == FALSE

(* An order of the snapshot that finished before its history was read, or  *)
(* two rows of one order, are a duplicate identity.                        *)
DuplicateOrder ==
    LET merged == UNION {merge_order_histories(t) : t \in Types}
    IN  \/ \E r \in merged, p \in snapshot.pending : r.id = p.id
        \/ \E r, q \in merged : r # q /\ r.id = q.id

OrderRows == snapshot.pending \cup UNION {merge_order_histories(t) : t \in Types}
Known(o) == \E r \in OrderRows : r.id = o

FillOrderMissing ==
    \E t \in Types : Complete(t) /\ \E r \in Range(got.fills[t].rows) : ~Known(r.id)

FillsRead == UNION {{r.id : r \in Range(got.fills[t].rows)} : t \in Types}

from_okx ==
    /\ pc = "reading" /\ Received
    /\ IF DuplicateOrder \/ FillOrderMissing
       THEN pc' = "refused" /\ UNCHANGED facts
       ELSE /\ pc' = "accepted"
            /\ facts' = [orders |-> OrderRows,
                         ordersComplete |-> \A t \in Types : Complete(t),
                         fills |-> FillsRead,
                         fillsComplete |-> \A t \in Types : got.fills[t].complete,
                         fees |-> Cardinality(FillsRead),
                         bills |-> Range(got.bills.rows),
                         billsComplete |-> got.bills.complete,
                         unresolved |-> Cardinality({o \in FillsRead : ~Known(o)})]
    /\ UNCHANGED <<venue, events, faults, snapshot, got, began>>

Read ==
    \/ from_okx \/ bills_history
    \/ \E t \in Types : orders_history_recent(t) \/ orders_history_archive(t) \/ fills_history(t)

Exchange ==
    \E o \in Orders : Place(o) \/ Finish(o) \/ Correct(o) \/ Archive(o) \/ Expire(o)

Next == Exchange \/ Snapshot \/ Read \/ RequestFails

Spec == Init /\ [][Next]_vars

(* The caller takes a new snapshot after a refusal, and requests end.      *)
FairSpec == Spec /\ WF_vars(Snapshot) /\ WF_vars(Read)

----------------------------------------------------------------------------
(* Properties.                                                             *)

(* The facts name each order at most once and their fees count each fill   *)
(* read once; orders they do not know are counted as unresolved, and only  *)
(* when a history was truncated.                                           *)
TypeOK ==
    /\ pc \in {"idle", "reading", "accepted", "refused"}
    /\ \A r, q \in facts.orders : r.id = q.id => r = q
    /\ facts.fees = Cardinality(facts.fills)
    /\ facts.ordersComplete => facts.unresolved = 0

Accepted == pc = "accepted"

(* Accepted facts whose order history is complete miss no order that was   *)
(* pending or finished when the snapshot was taken, although it may        *)
(* finish, be archived and expire between the requests; only a canceled    *)
(* order the exchange has forgotten meanwhile may be missing.              *)
NoOrderMissed ==
    Accepted /\ facts.ordersComplete =>
        \A o \in began.pending \cup {p \in began.finished : state[p] = "filled" \/ p \in Range(recent)} :
            \E r \in facts.orders : r.id = o

(* A complete history of fills, or of bills, holds every row that existed  *)
(* when the snapshot was taken.                                            *)
CompleteHistoriesHoldAll ==
    Accepted =>
        /\ facts.fillsComplete => began.fills \subseteq facts.fills
        /\ facts.billsComplete => began.bills \subseteq facts.bills

(* No finished order is recorded in a state older than the one the         *)
(* exchange reported when the snapshot was taken.                          *)
NoOlderThanSnapshot ==
    Accepted /\ facts.ordersComplete =>
        \A r \in facts.orders : r.id \in began.finished => r.version >= began.version[r.id]

(* Once the exchange is quiet, a capture is accepted.                      *)
EventuallyAccepted == <>(pc = "accepted")

=============================================================================
