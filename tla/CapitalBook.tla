------------------------------- MODULE CapitalBook -------------------------------
(***************************************************************************)
(* Capital and valuation of one account (crates/okx-execution/src/ledger/  *)
(* sql/finance.rs: capital_state, commit_authorized_capital_assignment,    *)
(* reconcile_strategy_valuation, commit_reconciled_strategy_nav,           *)
(* nav_summary, financial_risk; trade_service/strategies.rs: CapitalAssign). *)
(* A fill is [time, qty]; its value is the fill itself, so that a          *)
(* valuation is the set of fills it counted.  Row numbers are positions in *)
(* the order of arrival.                                                   *)
(***************************************************************************)
EXTENDS Integers, Sequences, FiniteSets, FiniteSetsExt

CONSTANTS
    Instance,    \* strategy instances
    Op,          \* idempotency keys of assignments
    Deltas,      \* amounts assigned or taken back
    Equities,    \* equities a snapshot may show
    Quantities,  \* signed quantities of fills
    Fresh,       \* how long an account point serves, 5000 ms in the code
    MaxTime, MaxFills, MaxPoints, MaxRevision   \* bounds

CapitalAssumption ==
    /\ Deltas \subseteq Int \ {0} /\ Equities \subseteq Nat /\ Quantities \subseteq Int \ {0}
    /\ {Fresh, MaxTime, MaxFills, MaxPoints, MaxRevision} \subseteq Nat

Time == 0..MaxTime

VARIABLES
    now,
    venue,        \* fills of the exchange, in the order they happened
    rows,         \* fills of the ledger, in the order they arrived
    projected,    \* how many of them have become lots
    points,       \* account NAV points
    highwater,    \* nav_watermarks: <<time, peak, equity>>
    legs,         \* INTERNAL_CAPITAL_USD entries of strategies
    principal,    \* instance_finance_totals of INTERNAL_CAPITAL_USD
    latest,       \* latest_capital_assignment_time: <<>> unread, else <<its value>>
    strategyNav,  \* strategy points with their reconciliation receipts
    revision,     \* account_policy.revision
    recovering,   \* storage_recovery.requires_reconcile
    request       \* an assignment on its way to the SQL owner

market == <<now, venue>>
book == <<legs, principal, latest>>
vars == <<market, rows, projected, points, highwater, book, strategyNav, revision, recovering, request>>

NoRequest == [op |-> <<>>, instance |-> <<>>, delta |-> 0, time |-> 0, revision |-> 0]
Sum(set, amountOf(_)) == MapThenSumSet(amountOf, set)
Quantity(f) == f.qty
Delta(l) == l.delta
Elements(s) == {s[i] : i \in DOMAIN s}

TypeOK ==
    /\ now \in Time
    /\ Elements(rows) \subseteq Elements(venue) /\ projected \in 0..Len(rows)
    /\ \A i \in DOMAIN points : points[i].time \in Time /\ points[i].equity \in Equities
    /\ principal \in [Instance -> Nat]
    /\ latest \in {<<>>} \cup {<<t>> : t \in {-1} \cup Time}
    /\ \A p \in strategyNav : p.time \in Time /\ p.revision \in Seq(Nat)
    /\ revision \in 1..MaxRevision /\ recovering \in BOOLEAN

Init ==
    /\ now = 0 /\ venue = <<>> /\ rows = <<>> /\ projected = 0
    /\ points = <<>> /\ highwater = <<-1, 0, 0>>
    /\ legs = <<>> /\ principal = [i \in Instance |-> 0] /\ latest = <<>>
    /\ strategyNav = {} /\ revision = 1 /\ recovering = FALSE /\ request = NoRequest
-----------------------------------------------------------------------------
Tick ==
    /\ now < MaxTime /\ now' = now + 1
    /\ UNCHANGED <<venue, rows, projected, points, highwater, book, strategyNav, revision, recovering, request>>

Trade(q) ==
    /\ Len(venue) < MaxFills
    /\ venue' = Append(venue, [time |-> now, qty |-> q, id |-> Len(venue) + 1])
    /\ UNCHANGED <<now, rows, projected, points, highwater, book, strategyNav, revision, recovering, request>>

\* A fill is ingested, possibly long after it happened.
Arrive(f) ==
    /\ f \in Elements(venue) \ Elements(rows)
    /\ rows' = Append(rows, f)
    /\ UNCHANGED <<market, projected, points, highwater, book, strategyNav, revision, recovering, request>>

Project ==
    /\ projected < Len(rows) /\ projected' = Len(rows)
    /\ UNCHANGED <<market, rows, points, highwater, book, strategyNav, revision, recovering, request>>

SetPolicy ==
    /\ revision < MaxRevision /\ revision' = revision + 1
    /\ UNCHANGED <<market, rows, projected, points, highwater, book, strategyNav, recovering, request>>

\* A restored ledger, and its reconciliation; the caches of the process go.
Restart(restored) ==
    /\ recovering' = restored /\ latest' = <<>> /\ request' = NoRequest
    /\ UNCHANGED <<market, rows, projected, points, highwater, legs, principal, strategyNav, revision>>

\* A bug: the highwater follows the newest point down.
Peak_mutant(p) == p.equity

Peak(p) == IF highwater[1] = -1 THEN p.equity ELSE Max({highwater[2], p.equity})

\* The account's point of a capture: points come in the order of their times
\* (the account_snapshot cursor refuses the rest).
AccountNav(equity, complete) ==
    /\ Len(points) < MaxPoints
    /\ \A i \in DOMAIN points : points[i].time < now
    /\ LET p == [time |-> now, equity |-> equity, complete |-> complete,
                 position |-> Sum(Elements(venue), Quantity)] IN
        /\ points' = Append(points, p)
        /\ highwater' = <<now, Peak(p), equity>>
    /\ UNCHANGED <<market, rows, projected, book, strategyNav, revision, recovering, request>>
-----------------------------------------------------------------------------
Known(t) == {i \in DOMAIN points : points[i].time <= t}
LatestPoint(t) == points[Max(Known(t))]

\* The account's point serves capital at t.
SourceServes(t) ==
    /\ Known(t) # {} /\ ~recovering
    /\ LatestPoint(t).complete /\ t - LatestPoint(t).time <= Fresh

LegsUpTo(t) == {i \in DOMAIN legs : legs[i].time <= t}
Replayed(i, t) == Sum({k \in LegsUpTo(t) : legs[k].instance = i}, LAMBDA k : legs[k].delta)
LatestLeg == IF legs = <<>> THEN -1 ELSE Max({legs[i].time : i \in DOMAIN legs})
CachedLatest == IF latest = <<>> THEN LatestLeg ELSE latest[1]

\* A bug: the current totals answer for every moment.
Principal_mutant(i, t) == principal[i]

\* capital_state: the current projection unless an assignment is later.
Principal(i, t) == IF t < CachedLatest THEN Replayed(i, t) ELSE principal[i]

Assigned(t) == Sum(Instance, LAMBDA i : Principal(i, t))
UnattributedResidual(t) == LatestPoint(t).equity - Assigned(t)
-----------------------------------------------------------------------------
\* strategies, CapitalAssign: the revision is the authority's and the time is
\* taken before the SQL owner runs the job.
RequestAssignment(o, i, d) ==
    /\ request = NoRequest
    /\ request' = [op |-> <<o>>, instance |-> <<i>>, delta |-> d, time |-> now, revision |-> revision]
    /\ UNCHANGED <<market, rows, projected, points, highwater, book, strategyNav, revision, recovering>>

Assigned_before(o) == \E k \in DOMAIN legs : legs[k].op = o

\* A bug: nothing is asked for.
Affordable_unchecked(r, next) == TRUE

\* A bug: what is left over is not asked for.
Affordable_mutant(r, next) == next >= 0

Affordable(r, next) == next >= 0 /\ (r.delta > 0 => r.delta <= UnattributedResidual(r.time))

\* A bug: the cached time of the last assignment stays.
LatestAfter_mutant(r) == <<CachedLatest>>

\* The cached time is dropped by the commit and read again for the answer.
LatestAfter(r) == <<r.time>>

\* commit_authorized_capital_assignment, or the answer of an earlier receipt,
\* or a refusal.
CommitAssignment ==
    /\ request # NoRequest
    /\ LET r == request
           i == r.instance[1]
           next == Principal(i, r.time) + r.delta
       IN  IF /\ ~Assigned_before(r.op[1])
              /\ r.time >= LatestLeg
              /\ SourceServes(r.time)
              /\ Affordable(r, next)
              /\ r.revision = revision
           THEN /\ legs' = Append(legs, [op |-> r.op[1], instance |-> i, delta |-> r.delta, time |-> r.time,
                                         equity |-> LatestPoint(r.time).equity])
                /\ principal' = [principal EXCEPT ![i] = next]
                /\ latest' = LatestAfter(r)
           ELSE latest' = (IF SourceServes(r.time) THEN <<CachedLatest>> ELSE latest) /\ UNCHANGED <<legs, principal>>
    /\ request' = NoRequest
    /\ UNCHANGED <<market, rows, projected, points, highwater, strategyNav, revision, recovering>>
-----------------------------------------------------------------------------
MaxRow(set) == IF set = {} THEN 0 ELSE Max(set)

\* A bug: only fills are looked at.
Revision_mutant(t) == <<MaxRow({i \in DOMAIN rows : rows[i].time <= t})>>

\* strategy_valuation_revision_as_of: the last rows of the period.
Revision(t) == <<MaxRow({i \in DOMAIN rows : rows[i].time <= t}), MaxRow(LegsUpTo(t)), MaxRow(Known(t))>>

\* The owners' money: entries up to the moment, but the lots as they are.
Realized(t) == {f \in Elements(rows) : f.time <= t}
Lots == {rows[i] : i \in 1..projected}

\* A bug: lots that are still to come are not waited for.
ProjectionSettled_mutant == TRUE

ProjectionSettled == projected = Len(rows)

\* reconcile_strategy_valuation and the commit of its points, at the moment of
\* the capture's own account point, never over another value of its revision: the history up to it is ingested (the
\* cursors, see FinanceCapture) and the venue's position is the lots'.
ValueStrategies(t) ==
    /\ SourceServes(t) /\ LatestPoint(t).time = t
    /\ Assigned(t) <= LatestPoint(t).equity /\ legs # <<>>
    /\ \A f \in Elements(venue) : f.time <= t => f \in Elements(rows)
    /\ ProjectionSettled
    /\ Sum(Lots, Quantity) = LatestPoint(t).position
    /\ LET new == {[instance |-> i, time |-> t, revision |-> Revision(t), capital |-> Principal(i, t),
                     realized |-> Realized(t), lots |-> Lots] : i \in Instance}
       IN  /\ \A p \in strategyNav, q \in new :
                (p.instance = q.instance /\ p.time = t /\ p.revision = Revision(t)) => p = q
           /\ strategyNav' = strategyNav \cup new
    /\ latest' = <<CachedLatest>>
    /\ UNCHANGED <<market, rows, projected, points, highwater, legs, principal, revision, recovering, request>>

\* nav_summary of a strategy: the point of the current revision of the period,
\* if it is the account's latest.
Closing(i, t) == {p \in strategyNav : p.instance = i /\ p.time <= t /\ p.revision = Revision(t)}
SummaryPoint(i, t) == CHOOSE p \in Closing(i, t) : \A q \in Closing(i, t) : q.time <= p.time
SummaryComplete(i, t) ==
    /\ Closing(i, t) # {}
    /\ SummaryPoint(i, t).time = LatestPoint(t).time
    /\ t - SummaryPoint(i, t).time <= Fresh

Next ==
    \/ Tick \/ \E q \in Quantities : Trade(q)
    \/ \E f \in Elements(venue) : Arrive(f)
    \/ Project \/ SetPolicy
    \/ \E b \in BOOLEAN : Restart(b)
    \/ \E e \in Equities, b \in BOOLEAN : AccountNav(e, b)
    \/ \E o \in Op, i \in Instance, d \in Deltas : RequestAssignment(o, i, d)
    \/ CommitAssignment
    \/ \E t \in Time : ValueStrategies(t)

Spec == Init /\ [][Next]_vars
-----------------------------------------------------------------------------
\* The principal of any moment, as capital_state answers it from its cache and
\* its current totals, is the replay of the assignments up to it.
PrincipalIsReplay == \A i \in Instance, t \in Time : Principal(i, t) = Replayed(i, t)

\* No assignment is paid twice with one key, none takes an instance below zero
\* at any moment of its history, and after none do the instances together hold
\* more than the equity it was judged by, though capital_state answers from its
\* cache.
AssignmentsCovered ==
    /\ \A j, k \in DOMAIN legs : legs[j].op = legs[k].op => j = k
    /\ \A i \in Instance, t \in Time : Replayed(i, t) >= 0
    /\ \A k \in DOMAIN legs : legs[k].delta > 0 =>
           Sum(1..k, LAMBDA n : legs[n].delta) <= legs[k].equity

\* The highwater is the highest equity ever committed, so no sequence of points
\* lowers the drawdown that financial_risk reports.
HighwaterIsPeak == points # <<>> => highwater[2] = Max({points[i].equity : i \in DOMAIN points})

\* A point that makes a summary COMPLETE shows what the ledger knows now of the
\* time up to it: a late fill or a backdated assignment takes the claim away
\* ("A new financial event invalidates a prior revision", finance.rs:959).
SummaryIsCurrent ==
    \A i \in Instance, t \in Time : SummaryComplete(i, t) =>
        LET p == SummaryPoint(i, t) IN
        /\ p.realized = {f \in Elements(rows) : f.time <= p.time}
        /\ p.capital = Replayed(i, t)

\* Of the fills up to t that the ledger has, a summary that is COMPLETE through
\* t lacks only ones later than its point that arrived before a fill of the
\* point's time: the revision of a period is the last row that belongs to it
\* and says nothing of the rows before ("Late financial events invalidate a
\* historical period only when their exchange timestamp belongs to that
\* period", finance.rs:638).
SummaryLacksOnlyOvertaken ==
    \A i \in Instance, t \in Time : SummaryComplete(i, t) =>
        LET p == SummaryPoint(i, t) IN
        \A k \in DOMAIN rows : rows[k].time <= t /\ rows[k] \notin p.realized =>
            rows[k].time > p.time /\ k < p.revision[1]
===============================================================================
