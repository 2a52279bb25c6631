------------------------------ MODULE FinanceLedger ------------------------------
(***************************************************************************)
(* The finance tables of one account store                                 *)
(* (crates/okx-execution/src/ledger/sql/finance.rs, finance/attribution.rs) *)
(* and the pages that source_capture.rs builds for them: fills and bills   *)
(* of one instrument arrive in any order and any number of times, fees and *)
(* profits become entries, fills become lots, funding is divided over the  *)
(* exposures of its moment.  A page is one transaction.  The projection of *)
(* fills and funding runs later, one transaction each, and the process may *)
(* end between any two of them.  Money is an integer; the conversion rate  *)
(* is the one of the page that records a loss first, 0 when the snapshot   *)
(* held no rate.                                                           *)
(***************************************************************************)
EXTENDS Integers, Sequences, FiniteSets, FiniteSetsExt

CONSTANTS
    Fill,       \* [id, owner, op, side, qty, fee, pnl, time, billed], the venue's fills
    Bill,       \* [id, kind, amount, time], funding, interest and transfer bills
    Instance,   \* strategy instances, the manual one excepted
    PageSize,   \* bound on the rows of a captured page of fills, 100 in the code
    Rates,      \* conversion rates a snapshot may give, 0 for none
    Legacy      \* entries of an older ledger whose sources are not known

NoOwner == "none"
Manual == "manual"
Component == {"FEE", "REALIZED_PNL", "FUNDING", "INTEREST", "EXTERNAL_FLOW_USD", "CAMPAIGN_LOSS_USD"}
Costs == {"FEE", "REALIZED_PNL", "FUNDING", "INTEREST"}

LedgerAssumption ==
    /\ \A f \in Fill : f.owner \in Instance \cup {Manual, NoOwner} /\ f.op \in {"open", "reduce"} /\ f.qty > 0
    /\ \A f, g \in Fill : f.id = g.id => f = g
    /\ \A b \in Bill : b.kind \in {"funding", "interest", "transfer"}
    /\ PageSize \in Nat \ {0} /\ 0 \in Rates /\ Rates \subseteq Nat

VARIABLES
    fills, pendingFills,       \* fills, fill_projection_pending
    bills,                     \* bills, the fills' trade bills included
    pendingFunding, receipts,  \* funding_projection_pending, receipts funding:<id>
    flows, flowCache,          \* cash_flows; cash_flow_totals_cache, <<>> when empty
    entries,                   \* finance_entries
    totals, instanceTotals,    \* finance_totals, instance_finance_totals
    campaignLoss,              \* account_policy.campaign_loss
    lots,                      \* position_lots: what remains of each fill's lot
    sealed,                    \* the finance_provenance cursor, -1 when absent
    usdStop, fundingStop,      \* risk_stops usd-conversion-unavailable, funding-attribution-incomplete
    unpriced                   \* history: sources refused for want of a rate and not recorded since

facts == <<fills, pendingFills, bills, pendingFunding, receipts, flows>>
money == <<entries, totals, instanceTotals, campaignLoss, lots, sealed>>
stops == <<usdStop, fundingStop>>
vars == <<facts, flowCache, money, stops, unpriced>>

Total(set, amountOf(_)) == MapThenSumSet(amountOf, set)
AmountOf(e) == e.amount

StopState == {"none", "latched", "resolved"}

TypeOK ==
    /\ pendingFills \subseteq fills /\ fills \subseteq Fill
    /\ bills \subseteq {<<"trade", f.id>> : f \in Fill} \cup {<<"other", b.id>> : b \in Bill}
    /\ pendingFunding \cup flows \subseteq Bill /\ receipts \subseteq {b.id : b \in Bill}
    /\ totals \in [Component -> Int] /\ instanceTotals \in [Instance \cup {Manual} -> [Component -> Int]]
    /\ campaignLoss \in Nat
    /\ DOMAIN lots = fills \ pendingFills
    /\ \A f \in DOMAIN lots : lots[f] \in 0..f.qty
    /\ sealed \in Nat \cup {-1}
    /\ usdStop \in StopState /\ fundingStop \in StopState
    /\ \A u \in unpriced : u[1] \in {"fill", "bill", "attribution"}

Init ==
    /\ fills = {} /\ pendingFills = {} /\ bills = {} /\ pendingFunding = {} /\ receipts = {}
    /\ flows = {} /\ flowCache = <<>>
    /\ entries \in {{}, Legacy}
    /\ totals = [c \in Component |-> Total({e \in entries : e.component = c}, AmountOf)]
    /\ instanceTotals = [i \in Instance \cup {Manual} |-> [c \in Component |->
            Total({e \in entries : e.component = c /\ e.instance = i}, AmountOf)]]
    /\ campaignLoss = 0 /\ lots = <<>> /\ sealed = -1
    /\ usdStop = "none" /\ fundingStop = "none" /\ unpriced = {}
-----------------------------------------------------------------------------
\* Economic event keys, as the capture and the projection build them.
FillKey(f) == <<"fill", f.id>>
BillKey(id) == <<"bill", id>>
CaptureKey(f) == IF f.billed THEN BillKey(f.id) ELSE FillKey(f)

Entry(key, component, leg, amount, instance, source) ==
    [key |-> key, component |-> component, leg |-> leg, amount |-> amount,
     instance |-> instance, source |-> source]

NonZero(set) == {e \in set : e.amount # 0}
SameEvent(e, o) == e.key = o.key /\ e.component = o.component /\ e.leg = o.leg

\* verify_strategy_finance_source: a strategy's entry needs its fill or bill,
\* and one fill pays one fee.
Proved(e, knownFills, knownBills) ==
    \/ e.instance \in {NoOwner, Manual} \/ e.component = "CAMPAIGN_LOSS_USD"
    \/ /\ e.source[1] = "fill"
       /\ \E f \in knownFills :
            /\ f.id = e.source[2]
            /\ e.component = "FEE" =>
                 /\ e.amount = f.fee
                 /\ ~\E o \in entries : o.source = e.source /\ o.component = "FEE" /\ o.key # e.key
    \/ /\ e.source[1] = "bill" /\ e.key = e.source
       /\ \E b \in knownBills : b[2] = e.source[2]

\* finance_rowid, provenance_watermark and advance_finance_provenance: the seal
\* moves only from the row before this transaction.
rowid == Cardinality(entries)

\* A bug: the seal follows the last row, whatever it stood at.
advance_finance_provenance_mutant(added) == IF added = {} THEN sealed ELSE rowid + Cardinality(added)

advance_finance_provenance(added) ==
    IF (sealed = rowid \/ (rowid = 0 /\ sealed = -1)) /\ added # {}
    THEN rowid + Cardinality(added) ELSE sealed

finance_proof_sealed == sealed = rowid \/ (rowid = 0 /\ sealed = -1)

EmptyPage == [fills |-> {}, bills |-> {}, funding |-> {}, flows |-> {}, entries |-> {},
              lots |-> <<>>, projected |-> {}, attributed |-> {}]

Accepted(page) ==
    /\ \A e \in page.entries : Proved(e, fills \cup page.fills, bills \cup page.bills)
    /\ \A e \in page.entries, o \in entries :
         SameEvent(e, o) => o.amount = e.amount /\ o.instance = e.instance

\* A bug: an entry whose event is recorded is added again.
Added_mutant(page) == page.entries

\* The insert leaves a recorded event alone.
Added(page) == {e \in page.entries : ~\E o \in entries : SameEvent(e, o)}

\* A bug: the cash flow totals stay cached over a new flow.
CacheAfter_mutant(page) == flowCache

CacheAfter(page) == IF page.flows \subseteq flows THEN flowCache ELSE <<>>

\* ingest_page_observed: one transaction for the whole page.
ingest_page(page) ==
    LET added == Added(page)
        of(c) == {e \in added : e.component = c}
        newFills == page.fills \ fills
    IN  /\ Accepted(page)
        /\ fills' = fills \cup page.fills
        /\ pendingFills' = (pendingFills \cup newFills) \ page.projected
        /\ bills' = bills \cup page.bills
        /\ pendingFunding' = (pendingFunding \cup {b \in page.funding : b.id \notin receipts})
                                \ {b \in Bill : b.id \in page.attributed}
        /\ receipts' = receipts \cup page.attributed
        /\ flows' = flows \cup page.flows
        /\ flowCache' = CacheAfter(page)
        /\ entries' = entries \cup added
        /\ totals' = [c \in Component |-> totals[c] + Total(of(c), AmountOf)]
        /\ instanceTotals' = [i \in Instance \cup {Manual} |-> [c \in Component |->
                instanceTotals[i][c] + Total({e \in of(c) : e.instance = i}, AmountOf)]]
        /\ campaignLoss' = campaignLoss + Total(of("CAMPAIGN_LOSS_USD"), AmountOf)
        /\ lots' = [f \in (DOMAIN lots \cup DOMAIN page.lots) |->
                        IF f \in DOMAIN page.lots THEN page.lots[f] ELSE lots[f]]
        /\ sealed' = advance_finance_provenance(added)

\* The losses and external flows of a page that have no USD entry yet.
LossId(e) == <<e.key, "CAMPAIGN_LOSS_USD", <<e.component, e.leg>>>>
FlowId(b) == <<BillKey(b.id), "EXTERNAL_FLOW_USD", "account">>
Recorded(id) == \E o \in entries : <<o.key, o.component, o.leg>> = id

UnpricedLosses(page) == {e \in page.entries : e.amount < 0 /\ e.component \in Costs /\ ~Recorded(LossId(e))}
UnpricedFlows(page) == {b \in page.flows : ~Recorded(FlowId(b))}

Priced(page, rate) ==
    [page EXCEPT !.entries = @
        \cup {Entry(e.key, "CAMPAIGN_LOSS_USD", <<e.component, e.leg>>, -e.amount * rate, e.instance, e.source) :
                e \in UnpricedLosses(page)}
        \cup {Entry(BillKey(b.id), "EXTERNAL_FLOW_USD", "account", b.amount * rate, NoOwner, BillKey(b.id)) :
                b \in UnpricedFlows(page)}]

NeedsRate(page) == UnpricedLosses(page) \cup UnpricedFlows(page) # {}

\* A bug: a loss without a rate is recorded at no loss.
Refuses_mutant(page, rate) == FALSE

Refuses(page, rate) == NeedsRate(page) /\ rate = 0

\* latch_stop: an insert that leaves a stop of that name as it is.
latch_stop(stop) == IF stop = "none" THEN "latched" ELSE stop
resolve_stop(stop) == IF stop = "latched" THEN "resolved" ELSE stop

\* ingest_page_with_usd: a page that needs a rate it has not latches the stop
\* and is refused whole.
ingest_page_with_usd(page, rate, sources) ==
    IF Refuses(page, rate)
    THEN /\ usdStop' = latch_stop(usdStop) /\ unpriced' = unpriced \cup sources
         /\ UNCHANGED <<facts, flowCache, money>>
    ELSE /\ ingest_page(Priced(page, rate))
         /\ unpriced' = unpriced \ sources
         /\ UNCHANGED usdStop

\* A capture whose five streams all ended has every source refused before.
Complete == \A u \in unpriced : u[1] = "attribution"
-----------------------------------------------------------------------------
\* capture_fills: a page of the venue's fills, each with its fee.
FillsPage(set) == [EmptyPage EXCEPT !.fills = set,
    !.entries = NonZero({Entry(CaptureKey(f), "FEE", "account", f.fee, f.owner, FillKey(f)) : f \in set})]

capture_fills(set, rate) ==
    /\ ingest_page_with_usd(FillsPage(set), rate, {FillKey(f) : f \in set})
    /\ UNCHANGED fundingStop

\* capture_bills: the fee and the profit of a trade.
TradeBillPage(f) == [EmptyPage EXCEPT !.bills = {<<"trade", f.id>>},
    !.entries = NonZero({Entry(BillKey(f.id), "FEE", "account", f.fee, f.owner, BillKey(f.id)),
                         Entry(BillKey(f.id), "REALIZED_PNL", "account", f.pnl, f.owner, BillKey(f.id))})]

OtherBillPage(b) ==
    LET named == [EmptyPage EXCEPT !.bills = {<<"other", b.id>>}] IN
    CASE b.kind = "funding" -> [named EXCEPT !.funding = {b}]
      [] b.kind = "transfer" -> [named EXCEPT !.flows = {b}]
      [] OTHER -> [named EXCEPT !.entries =
                      {Entry(BillKey(b.id), "INTEREST", "account", b.amount, NoOwner, BillKey(b.id))}]

capture_trade_bill(f, rate) ==
    /\ f.billed
    /\ ingest_page_with_usd(TradeBillPage(f), rate, {BillKey(f.id)})
    /\ UNCHANGED fundingStop

capture_bill(b, rate) ==
    /\ ingest_page_with_usd(OtherBillPage(b), rate, {BillKey(b.id)})
    /\ UNCHANGED fundingStop
-----------------------------------------------------------------------------
Before(f, g) == f.time < g.time \/ (f.time = g.time /\ f.id < g.id)
Earliest(set) == CHOOSE f \in set : \A g \in set \ {f} : Before(f, g)

PositionSide(f) == IF (f.op = "open") = (f.side = "buy") THEN "long" ELSE "short"

\* The lots a reduction may take from: its owner's, of its position side.
OwnLots(f) == {g \in DOMAIN lots : g.op = "open" /\ g.owner = f.owner
                                    /\ PositionSide(g) = PositionSide(f) /\ lots[g] > 0}
Remaining(g) == lots[g]

\* A bug: the newest lot is used up first.
OlderLots_mutant(f, g) == {h \in OwnLots(f) : Before(g, h)}

OlderLots(f, g) == {h \in OwnLots(f) : Before(h, g)}

\* A bug: the whole quantity is taken from every lot.
reduce_fifo_mutant(f) == [g \in OwnLots(f) |-> lots[g] - f.qty]

\* reduce_fifo: the oldest lots first.
reduce_fifo(f) == [g \in OwnLots(f) |->
    LET before == Total(OlderLots(f, g), Remaining) IN
    lots[g] - Max({0, Min({lots[g], f.qty - before})})]

\* ingest_attributed_fill of a pending fill: its fee under the fill's own key,
\* a lot of its own or a reduction of its owner's.
ProjectionPage(f) == [EmptyPage EXCEPT !.fills = {f}, !.projected = {f},
    !.entries = NonZero({Entry(FillKey(f), "FEE", "account", f.fee, f.owner, FillKey(f))}),
    !.lots = [g \in {f} \cup (IF f.op = "reduce" THEN OwnLots(f) ELSE {}) |->
                IF g # f THEN reduce_fifo(f)[g] ELSE IF f.op = "open" THEN f.qty ELSE 0]]

\* project_pending_fills, one fill: the earliest.  A reduction without an owner,
\* or of more than its owner's lots, is an error that ends the whole job.
project_pending_fill ==
    /\ Complete /\ pendingFills # {}
    /\ LET f == Earliest(pendingFills) IN
        /\ f.op = "reduce" => f.owner # NoOwner /\ f.qty <= Total(OwnLots(f), Remaining)
        /\ ingest_page(ProjectionPage(f))
    /\ UNCHANGED <<stops, unpriced>>
-----------------------------------------------------------------------------
Owners == Instance \cup {Manual, NoOwner}
Signed(f) == IF f.side = "buy" THEN f.qty ELSE -f.qty

\* A bug: every fill known by now counts, whenever it happened.
ExposureOf_mutant(owner, time) == Total({f \in fills : f.owner = owner}, Signed)

ExposureOf(owner, time) == Total({f \in fills : f.owner = owner /\ f.time <= time}, Signed)

TowardsZero(a, b) == LET q == (IF a < 0 THEN -a ELSE a) \div (IF b < 0 THEN -b ELSE b)
                     IN IF (a < 0) = (b < 0) THEN q ELSE -q

\* A bug: the rounding residual is dropped.
Residual_mutant(amount, shares) == 0

Residual(amount, shares) == amount - Total(DOMAIN shares, LAMBDA o : shares[o])

\* allocate_funding: a share for each exposed owner, and what rounding left.
allocate_funding(b) ==
    LET exposed == {o \in Owners : ExposureOf(o, b.time) # 0}
        total == Total(exposed, LAMBDA o : ExposureOf(o, b.time))
        shares == [o \in exposed |-> TowardsZero(b.amount * ExposureOf(o, b.time), total)]
    IN  IF total = 0 THEN [o \in {NoOwner} |-> b.amount]
        ELSE [o \in exposed \cup {"rounding_residual"} |->
                IF o \in exposed THEN shares[o] ELSE Residual(b.amount, shares)]

FundingPage(b) ==
    LET shares == allocate_funding(b) IN
    [EmptyPage EXCEPT !.attributed = {b.id},
        !.entries = {Entry(BillKey(b.id), "FUNDING", o, shares[o],
                           IF o \in Instance \cup {Manual} THEN o ELSE NoOwner, BillKey(b.id)) :
                        o \in {p \in DOMAIN shares : shares[p] # 0 \/ p = "rounding_residual"}}]

\* attribute_pending_funding, one event: reached in a job only when every
\* pending fill was projected.
attribute_pending_funding(rate) ==
    /\ Complete /\ pendingFills = {} /\ pendingFunding # {}
    /\ LET b == Earliest(pendingFunding)
           shares == allocate_funding(b)
       IN  /\ ingest_page_with_usd(FundingPage(b), rate, {<<"attribution", b.id>>})
           /\ fundingStop' = IF ~Refuses(FundingPage(b), rate)
                                 /\ NoOwner \in DOMAIN shares /\ shares[NoOwner] # 0
                             THEN latch_stop(fundingStop) ELSE fundingStop

\* The rest of a complete NAV job: the conversion stop is resolved and the
\* flow totals are read, and cached.
finish_projection ==
    /\ Complete /\ pendingFills = {} /\ pendingFunding = {}
    /\ usdStop' = resolve_stop(usdStop)
    /\ flowCache' = IF flowCache = <<>> THEN <<Total(flows, AmountOf)>> ELSE flowCache
    /\ UNCHANGED <<facts, money, fundingStop, unpriced>>

\* open_existing: the caches start empty and an unsealed ledger is audited.
open_existing ==
    /\ flowCache' = <<>>
    /\ sealed' = IF ~finance_proof_sealed /\ \A e \in entries : Proved(e, fills, bills) THEN rowid ELSE sealed
    /\ UNCHANGED <<facts, entries, totals, instanceTotals, campaignLoss, lots, stops, unpriced>>

Next ==
    \/ \E set \in {p \in SUBSET Fill : Cardinality(p) \in 1..PageSize}, rate \in Rates : capture_fills(set, rate)
    \/ \E f \in Fill, rate \in Rates : capture_trade_bill(f, rate)
    \/ \E b \in Bill, rate \in Rates : capture_bill(b, rate)
    \/ project_pending_fill
    \/ \E rate \in Rates : attribute_pending_funding(rate)
    \/ finish_projection
    \/ open_existing

Spec == Init /\ [][Next]_vars
-----------------------------------------------------------------------------
\* The totals that NAV and risk read are the sums of the journal, over every
\* replay of a page and every refused one: account, instance and campaign.
TotalsMatchEntries ==
    LET of(c) == {e \in entries : e.component = c} IN
    /\ \A c \in Component : totals[c] = Total(of(c), AmountOf)
    /\ \A i \in Instance \cup {Manual}, c \in Component :
         instanceTotals[i][c] = Total({e \in of(c) : e.instance = i}, AmountOf)
    /\ campaignLoss = Total(of("CAMPAIGN_LOSS_USD"), AmountOf)

\* A cost that reached the journal through a capture has its loss in the
\* campaign budget, exactly once, however its rate changed between the fill's
\* page and the bill's: no cost without a loss entry, no two for one event.
LossCountedOnce ==
    \A e \in {x \in entries : x.amount < 0 /\ x.component \in Costs /\ x \notin Legacy
                                /\ ~(x.component = "FEE" /\ x.key[1] = "fill")} :
        Cardinality({o \in entries : o.key = e.key /\ o.component = "CAMPAIGN_LOSS_USD"
                                        /\ o.leg = <<e.component, e.leg>> /\ o.amount > 0}) = 1

\* The funding of an attributed event is divided exactly: the shares, the
\* unattributed and the rounding residual add up to what the venue paid, and a
\* replayed funding bill adds nothing ("Signed exposure allocation preserves
\* the account amount", finance/attribution.rs:112).
FundingConserved ==
    \A b \in {x \in Bill : x.kind = "funding"} :
        LET parts == {e \in entries : e.key = BillKey(b.id) /\ e.component = "FUNDING"} IN
        /\ b.id \in receipts => Total(parts, AmountOf) = b.amount /\ b \notin pendingFunding
        /\ b.id \notin receipts => parts = {}

\* Funding is borne by the owners in the proportion of the moment it was paid:
\* an owner whose first recorded fill is later bears none of it.
LaterFillsBearNoFunding ==
    \A e \in entries : e.component = "FUNDING" /\ e.instance # NoOwner =>
        \E b \in Bill : /\ BillKey(b.id) = e.key
                        /\ \E f \in fills : f.owner = e.instance /\ f.time <= b.time

\* What remains of an owner's lots is what its projected fills opened less what
\* they reduced, and a lot is touched only when every older one of its owner
\* and side is used up.
Opened(set) == Total({f \in set : f.op = "open"}, LAMBDA f : f.qty)
Reduced(set) == Total({f \in set : f.op = "reduce"}, LAMBDA f : f.qty)
LotsMatchFills ==
    \A owner \in Instance \cup {Manual}, side \in {"long", "short"} :
        LET own == {f \in DOMAIN lots : f.owner = owner /\ PositionSide(f) = side}
            opened == {f \in own : f.op = "open"}
        IN  /\ Total(opened, Remaining) = Opened(own) - Reduced(own)
            /\ \A f, g \in opened : Before(f, g) /\ lots[g] < g.qty =>
                 lots[f] = 0 \/ \E h \in own : h.op = "reduce" /\ Before(h, f)

\* The cached totals of cash flows are the totals of the cash flows.
CacheFresh == flowCache # <<>> => flowCache[1] = Total(flows, AmountOf)

\* A sealed proof covers every strategy entry of the journal: old rows whose
\* source is unknown never come under the seal ("Existing unverified history
\* must not be silently grandfathered in", finance.rs:131).
SealedIsProved ==
    finance_proof_sealed =>
        \A e \in entries : e.instance \in Instance /\ e.component # "CAMPAIGN_LOSS_USD" =>
            \/ e.source[1] = "fill" /\ \E f \in fills : f.id = e.source[2]
            \/ e.source[1] = "bill" /\ \E b \in bills : b[2] = e.source[2]

\* One economic fee is charged once, whether its fill, its bill or the
\* projection of the fill recorded it ("the canonical economic-event uniqueness
\* prevents double charge", finance.rs:1686).
FeeChargedOnce ==
    \A f \in Fill : Cardinality({e \in entries : e.component = "FEE"
                                    /\ e.key \in {FillKey(f), BillKey(f.id)}}) <= 1

\* While a loss or a flow is refused for want of a rate, the account is stopped
\* for it ("assert_eq!(s.stops().unwrap()[0].2,
\* USD_CONVERSION_SOURCE_UNAVAILABLE)", account_store_tests.rs:345).
RefusedIsStopped == unpriced # {} => usdStop = "latched"
===============================================================================
