---------------------------- MODULE EntrySizing ----------------------------
(***************************************************************************)
(* The price and the size of an order: the venue price inside the          *)
(* slippage bound and the explicit limit, and the number of contracts that *)
(* a contract count, a loss limit or an entry budget allows under the      *)
(* ceiling of the account and of the command.                              *)
(*                                                                         *)
(* Rates are in tenths.  A quotient is rounded to Precision units (28      *)
(* digits in the code), the fee is rounded up to FeeUnit parts and the     *)
(* dollar total to UsdUnit parts (6 and 9 digits in the code), so that     *)
(* every rounding matters already for small numbers.                       *)
(***************************************************************************)
EXTENDS Integers, FiniteSetsExt

CONSTANTS
    Precision, FeeUnit, UsdUnit,
    Prices, Lots, Minima, FeeRates, Rates, Budgets,   \* inputs of size_order
    LossRates,                                        \* loss per contract, in tenths
    Quotes, Ticks, Slips                              \* inputs of quantize_executable_price

EntrySizingAssumption ==
    /\ {Precision, FeeUnit, UsdUnit} \subseteq Nat \ {0}
    /\ Prices \cup Lots \cup Minima \cup Rates \cup Quotes \cup Ticks \subseteq Nat \ {0}
    /\ FeeRates \cup Budgets \cup LossRates \cup Slips \subseteq Nat

VARIABLES
    order,     \* the inputs of size_order
    pricing,   \* the inputs of quantize_executable_price
    sized,     \* its outcome: a quantity, or 0 for an error
    priced,    \* likewise, a price or None
    pc

vars == <<order, pricing, sized, priced, pc>>

None == -1
Kinds == {"contracts", "max loss", "entry budget"}

Init ==
    /\ pc = "start" /\ sized = 0 /\ priced = None
    /\ order \in [kind : Kinds, amount : Budgets \ {0}, lot : Lots, minimum : Minima, price : Prices,
                  loss : LossRates, fx : Rates, fee : FeeRates, account : Budgets \cup {None},
                  request : Budgets \cup {None}, real : BOOLEAN, increase : BOOLEAN]
    /\ pricing \in [quote : Quotes, limit : Quotes \cup {None}, slip : Slips, tick : Ticks,
                    buy : BOOLEAN, post_only : BOOLEAN]

CeilDiv(a, b) == (a + b - 1) \div b

(* A quotient of the decimal type: rounded half up to Precision units.     *)
Quotient(a, b) == (2 * a * Precision + b) \div (2 * b)

FloorToUnit(q) == q \div Precision

----------------------------------------------------------------------------
(* entry_budget.rs                                                         *)

(* The dollar total of a quantity, in UsdUnit parts: the fee is rounded up *)
(* and then the sum is.                                                    *)
quote(o, qty) ==
    LET notional == qty * o.price
        usdt == notional * FeeUnit + CeilDiv(notional * o.fee * FeeUnit, 10)
    IN  CeilDiv(usdt * o.fx * UsdUnit, 10 * FeeUnit)

Invalid == -2

enforced_entry_ceiling_mutant(o) ==
    IF o.request = None THEN o.account ELSE o.request

(* The ceiling of the account, which a command may only tighten.           *)
enforced_entry_ceiling(o) ==
    LET caps == {o.account, o.request} \ {None}
    IN  CASE ~o.increase -> None
          [] o.increase /\ o.real /\ o.account = None -> Invalid
          [] o.increase /\ (o.real => o.account # None) /\ 0 \in caps -> Invalid
          [] OTHER -> IF caps = {} THEN None ELSE Min(caps)

(* Quantity bought by an amount of dollars, before rounding to lots.       *)
Affordable(o, usd) == Quotient(usd * 100, o.price * (10 + o.fee) * o.fx)

ToLots_mutant(o, quantity) == FloorToUnit(quantity)

ToLots(o, quantity) == FloorToUnit(Quotient(quantity, o.lot * Precision)) * o.lot

Requested_mutant(o) ==
    CASE o.kind = "contracts" -> o.amount
      [] o.kind = "max loss" -> ToLots(o, Quotient(o.amount * 10, o.loss))
      [] o.kind = "entry budget" -> ToLots(o, Affordable(o, o.amount))

Requested(o) ==
    CASE o.kind = "contracts" -> o.amount
      [] o.kind = "max loss" -> ToLots(o, Quotient(Quotient(o.amount * 10, o.fx) * 10, o.loss * Precision))
      [] o.kind = "entry budget" -> ToLots(o, Affordable(o, o.amount))

Refused(o) ==
    \/ enforced_entry_ceiling(o) = Invalid
    \/ o.kind = "contracts" /\ o.amount % o.lot # 0
    \/ o.kind = "max loss" /\ (~o.increase \/ o.loss = 0)
    \/ o.kind = "entry budget" /\ ~o.increase

Reduced_mutant(o, qty, cap) ==
    Max({q \in {qty - k * o.lot : k \in 0 .. qty \div o.lot} : q < o.minimum + o.lot \/ q = qty})

(* The loop that gives up one lot at a time while the total is above the   *)
(* cap and a lot more than the minimum is left.                            *)
Reduced(o, qty, cap) ==
    Max({q \in {qty - k * o.lot : k \in 0 .. qty \div o.lot} :
            q < o.minimum + o.lot \/ quote(o, q) <= cap * UsdUnit})

(* Zero stands for every error.                                            *)
size_order(o) ==
    LET cap == enforced_entry_ceiling(o)
        capped == cap # None
        most == ToLots(o, Affordable(o, cap))
        wanted == Requested(o)
        first == IF capped /\ most < wanted THEN most ELSE wanted
        second == IF capped THEN Reduced(o, first, cap) ELSE first
        third == IF o.kind = "entry budget" THEN Reduced(o, second, o.amount) ELSE second
    IN  IF \/ Refused(o)
           \/ capped /\ o.kind = "contracts" /\ wanted > most
           \/ first < o.minimum
           \/ capped /\ quote(o, second) > cap * UsdUnit
           \/ o.kind = "entry budget" /\ quote(o, third) > o.amount * UsdUnit
        THEN 0 ELSE third

----------------------------------------------------------------------------
(* quantize_executable_price                                               *)

(* The quote moved by the slippage, in tenths.                             *)
market_bound(p) == p.quote * (IF p.buy THEN 10 + p.slip ELSE 10 - p.slip)

Bound(p) ==
    IF p.limit = None THEN market_bound(p)
    ELSE IF p.buy THEN Min({p.limit * 10, market_bound(p)}) ELSE Max({p.limit * 10, market_bound(p)})

BeyondSlippage(p) ==
    p.limit # None /\ IF p.buy THEN p.limit * 10 > market_bound(p) ELSE p.limit * 10 < market_bound(p)

OnTick_mutant(p, tenths) == CeilDiv(tenths, 10 * p.tick) * p.tick

(* Down for a buy and up for a sale: never beyond the bound.               *)
OnTick(p, tenths) ==
    IF p.buy THEN (tenths \div (10 * p.tick)) * p.tick ELSE CeilDiv(tenths, 10 * p.tick) * p.tick

Crosses(p, price) == IF p.buy THEN price >= p.quote ELSE price <= p.quote

(* A bid below one tick is the price 0 and no error.                       *)
PostOnlyPrice(p) ==
    LET price == OnTick(p, p.limit * 10)
    IN  IF Crosses(p, price) THEN None ELSE price

TakerPrice(p) ==
    LET price == OnTick(p, Bound(p))
    IN  IF price <= 0 \/ ~Crosses(p, price) THEN None ELSE price

quantize_executable_price(p) ==
    IF BeyondSlippage(p) THEN None
    ELSE IF p.post_only THEN (IF p.limit = None THEN None ELSE PostOnlyPrice(p))
    ELSE TakerPrice(p)

----------------------------------------------------------------------------

Size ==
    /\ pc = "start"
    /\ sized' = size_order(order)
    /\ priced' = quantize_executable_price(pricing)
    /\ pc' = "done"
    /\ UNCHANGED <<order, pricing>>

Next == Size

Spec == Init /\ [][Next]_vars

----------------------------------------------------------------------------
(* Properties.                                                             *)

(* Reference: the quantities the venue accepts that an entry costing at    *)
(* most cap dollars, fee and both roundings included, may have.            *)
Feasible(o, cap) ==
    {q \in {k * o.lot : k \in 1 .. (cap * 10)} : q >= o.minimum /\ quote(o, q) <= cap * UsdUnit}

(* A quantity is on the venue's lot and not below its minimum.             *)
TypeOK ==
    /\ pc \in {"start", "done"}
    /\ sized # 0 => sized % order.lot = 0 /\ sized >= order.minimum

(* No increase costs more than the account's ceiling, the command's or the *)
(* requested budget.                                                       *)
WithinEveryCap ==
    sized # 0 /\ order.increase =>
        \A cap \in ({order.account, order.request} \ {None})
                       \cup (IF order.kind = "entry budget" THEN {order.amount} ELSE {}) :
            quote(order, sized) <= cap * UsdUnit

(* An entry budget buys the largest feasible quantity, and is refused only *)
(* when no quantity is feasible.                                           *)
BudgetIsUsed ==
    pc = "done" /\ order.kind = "entry budget" /\ ~Refused(order) =>
        LET cap == enforced_entry_ceiling(order)
            feasible == Feasible(order, IF cap = None THEN order.amount ELSE Min({cap, order.amount}))
        IN  sized = IF feasible = {} THEN 0 ELSE Max(feasible)

(* A quantity sized by a loss limit loses at most that limit.              *)
LossWithinLimit ==
    sized # 0 /\ order.kind = "max loss" => sized * order.loss * order.fx <= order.amount * 100

(* A price is on the venue's tick, inside the limit and the slippage       *)
(* bound, and positive but for a post-only bid below one tick; a post-only *)
(* price stays on its side of the quote, and any other is executable at    *)
(* once and the most aggressive such tick.                                 *)
PriceInBounds ==
    priced # None =>
        /\ priced % pricing.tick = 0
        /\ priced > 0 \/ (pricing.post_only /\ pricing.buy /\ pricing.limit < pricing.tick)
        /\ pricing.post_only <=> ~Crosses(pricing, priced)
        /\ ~pricing.post_only =>
               IF pricing.buy
               THEN priced * 10 <= Bound(pricing) /\ (priced + pricing.tick) * 10 > Bound(pricing)
               ELSE priced * 10 >= Bound(pricing) /\ (priced - pricing.tick) * 10 < Bound(pricing)
        /\ pricing.post_only => IF pricing.buy THEN priced <= pricing.limit ELSE priced >= pricing.limit

=============================================================================
