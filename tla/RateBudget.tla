------------------------------- MODULE RateBudget -------------------------------
(***************************************************************************)
(* The shared request budget of the exchange client                        *)
(* (crates/okx-api/src/rate.rs) and the requests that pass through it      *)
(* (client.rs, trade.rs).  A request is planned over one or two rate       *)
(* domains, admitted against all of them or none, sent, and its answer may *)
(* block the domains of its plan.  Queued public reads wait for capacity.  *)
(* One tick is the finest duration told apart, so duration_ms_ceil rounds  *)
(* nothing.  Instant::now() and the lock that follows are one step.        *)
(***************************************************************************)
EXTENDS Integers, Sequences, FiniteSets, SequencesExt, FiniteSetTheorems, WellFoundedInduction, TLAPS

CONSTANTS
    Caller,
    Instrument,
    Operations,       \* what the callers of an instance do
    Paths,            \* endpoints of public and private reads
    ReadLimit, ReadWindow,   \* policy of a read endpoint
    TradeLimit, TradeWindow, \* TRADE_INSTRUMENT_LIMIT_PER_2S, TRADE_WINDOW_MS
    DefaultLimit,     \* DEFAULT_SUBACCOUNT_ORDER_LIMIT_PER_2S
    AccountLimits,    \* limits the exchange may report for the subaccount
    RetryAfter,       \* values of the Retry-After header, 0 when absent
    MaxDefer,         \* MAX_LOCAL_DEFER_MS
    MaxWait,          \* longest wait of a queued read
    MaxTime, MaxEvents       \* bounds

RateAssumption ==
    /\ {ReadLimit, ReadWindow, TradeLimit, TradeWindow, DefaultLimit, MaxDefer, MaxWait} \subseteq Nat \ {0}
    /\ AccountLimits \subseteq Nat
    /\ Operations \subseteq {"place", "amend", "cancel", "cancelAlgo", "amendAlgo",
                             "public", "private", "queued"}
    /\ RetryAfter \subseteq Nat /\ {MaxTime, MaxEvents} \subseteq Nat

Aggregate == <<"aggregate", "subaccount">>
TradeOps == {"place", "amend", "cancel"}
AlgoOps == {"cancelAlgo", "amendAlgo"}
Domain == {Aggregate} \cup (TradeOps \X Instrument) \cup (AlgoOps \X Instrument)
            \cup ({"public", "private"} \X Paths)
Codes == {"general", "subaccount", "http429"}   \* 50011, 50061, HTTP_429

VARIABLES
    now,
    attempts, blocked,  \* windows: stamps of the admitted requests, blocked_until (0: None)
    accountLimit,       \* current_subaccount_limit_per_2s
    caller,             \* what each caller is doing
    hist                \* admissions and throttles in order: the model's record

vars == <<now, attempts, blocked, accountLimit, caller, hist>>

Clamp(x, lo, hi) == Max({lo, Min({x, hi})})

Idle == [pc |-> "idle", plan |-> {}, queued |-> FALSE, started |-> 0, wake |-> 0]

Spec1(key, max, window) == [key |-> key, max |-> max, window |-> window]
public_rest_plan(path) == {Spec1(<<"public", path>>, ReadLimit, ReadWindow)}
private_rest_plan(key) == {Spec1(key, ReadLimit, ReadWindow)}
trade_rest_plan(op, i) ==
    {Spec1(<<op, i>>, TradeLimit, TradeWindow)}
        \cup IF op \in {"place", "amend"} THEN {Spec1(Aggregate, accountLimit, TradeWindow)} ELSE {}

prune_mutant(q, window, t) ==
    LET kept == {k \in 1..Len(q) : t - q[k] < window - 1}
    IN  IF kept = {} THEN <<>>
        ELSE SubSeq(q, CHOOSE k \in kept : \A j \in kept : k <= j, Len(q))

prune(q, window, t) ==
    LET kept == {k \in 1..Len(q) : t - q[k] < window}
    IN  IF kept = {} THEN <<>>
        ELSE SubSeq(q, CHOOSE k \in kept : \A j \in kept : k <= j, Len(q))

Keys(plan) == {s.key : s \in plan}
Pruned(plan) ==
    [d \in Domain |-> IF d \in Keys(plan)
                      THEN prune(attempts[d], (CHOOSE s \in plan : s.key = d).window, now)
                      ELSE attempts[d]]
Blocked(d) == blocked[d] > now
Full(s) == Len(Pruned({s})[s.key]) >= s.max /\ Pruned({s})[s.key] # <<>>

\* The wait one domain asks for, 0 when it has capacity.
WaitOf(s) ==
    IF Blocked(s.key) THEN blocked[s.key] - now
    ELSE IF Full(s)
    THEN LET release == Head(Pruned({s})[s.key]) + s.window
         IN  IF release > now THEN release - now ELSE 1
    ELSE 0
Wait(plan) == Max({WaitOf(s) : s \in plan})

admit_at_mutant(plan) ==
    /\ attempts' = [d \in Domain |->
            IF \E s \in plan : s.key = d /\ WaitOf(s) = 0 THEN Append(Pruned(plan)[d], now)
            ELSE Pruned(plan)[d]]
    /\ blocked' = [d \in Domain |-> IF d \in Keys(plan) /\ ~Blocked(d) THEN 0 ELSE blocked[d]]

\* admit_at: the windows of the plan are pruned and lapsed blocks cleared even
\* when the request is deferred; stamps are added to all domains or to none.
admit_at(plan) ==
    /\ attempts' = [d \in Domain |->
            IF d \in Keys(plan) /\ Wait(plan) = 0 THEN Append(Pruned(plan)[d], now)
            ELSE Pruned(plan)[d]]
    /\ blocked' = [d \in Domain |-> IF d \in Keys(plan) /\ ~Blocked(d) THEN 0 ELSE blocked[d]]

Admitted(plan) == [kind |-> "admit", at |-> now, plan |-> plan, until |-> now]
Throttled(plan, until) == [kind |-> "throttle", at |-> now, plan |-> plan, until |-> until]

TypeOK ==
    /\ now \in 0..MaxTime /\ accountLimit \in Nat \ {0}
    /\ DOMAIN attempts = Domain /\ \A d \in Domain : Range(attempts[d]) \subseteq 0..now
    /\ blocked \in [Domain -> 0..(MaxTime + MaxDefer)]
    /\ \A c \in Caller :
        /\ caller[c].pc \in {"idle", "planned", "waiting", "sent"}
        /\ Keys(caller[c].plan) \subseteq Domain

Init ==
    /\ now = 0 /\ accountLimit = DefaultLimit
    /\ attempts = [d \in Domain |-> <<>>] /\ blocked = [d \in Domain |-> 0]
    /\ caller = [c \in Caller |-> Idle] /\ hist = <<>>

Planned_mutant(c, plan, queued) ==
    /\ caller[c].pc = "idle" /\ Len(hist) < MaxEvents
    /\ caller' = [caller EXCEPT ![c] =
            [pc |-> "planning", plan |-> plan, queued |-> queued,
             started |-> IF queued THEN now ELSE 0, wake |-> 0]]
    /\ UNCHANGED <<now, attempts, blocked, accountLimit, hist>>


\* A plan is made from the policy of its endpoint and, for an order, from the
\* account limit known at that moment; its admission follows.
Planned(c, plan, queued) ==
    /\ caller[c].pc = "idle" /\ Len(hist) < MaxEvents
    /\ caller' = [caller EXCEPT ![c] =
            [pc |-> "planned", plan |-> plan, queued |-> queued,
             started |-> IF queued THEN now ELSE 0, wake |-> 0]]
    /\ UNCHANGED <<now, attempts, blocked, accountLimit, hist>>

PlaceOrder(c, i) == "place" \in Operations /\ Planned(c, trade_rest_plan("place", i), FALSE)
AmendOrder(c, i) == "amend" \in Operations /\ Planned(c, trade_rest_plan("amend", i), FALSE)
CancelOrder(c, i) == "cancel" \in Operations /\ Planned(c, trade_rest_plan("cancel", i), FALSE)
CancelAlgo(c, i) ==
    "cancelAlgo" \in Operations /\ Planned(c, private_rest_plan(<<"cancelAlgo", i>>), FALSE)
AmendAlgo(c, i) ==
    "amendAlgo" \in Operations /\ Planned(c, private_rest_plan(<<"amendAlgo", i>>), FALSE)
PublicRead(c, path) == "public" \in Operations /\ Planned(c, public_rest_plan(path), FALSE)
QueuedRead(c, path) == "queued" \in Operations /\ Planned(c, public_rest_plan(path), TRUE)
PrivateRead(c, path) ==
    "private" \in Operations /\ Planned(c, private_rest_plan(<<"private", path>>), FALSE)

Send(c) ==
    /\ Wait(caller[c].plan) = 0
    /\ caller' = [caller EXCEPT ![c].pc = "sent"]
    /\ hist' = Append(hist, Admitted(caller[c].plan))

\* Regular reads and every trading action fail at once.
FailFast(c) ==
    /\ Wait(caller[c].plan) > 0 /\ ~caller[c].queued
    /\ caller' = [caller EXCEPT ![c] = Idle] /\ UNCHANGED hist

Remaining_mutant(c) == MaxWait

local_defer(plan) == Clamp(Wait(plan), 1, MaxDefer)
Remaining(c) == Max({MaxWait - (now - caller[c].started), 0})

\* admit_wait sleeps for the wait the budget asks for, while it fits.
Defer(c) ==
    /\ Wait(caller[c].plan) > 0 /\ caller[c].queued
    /\ local_defer(caller[c].plan) <= Remaining(c)
    /\ caller' = [caller EXCEPT ![c].pc = "waiting", ![c].wake = now + local_defer(caller[c].plan)]
    /\ UNCHANGED hist
GiveUp(c) ==
    /\ Wait(caller[c].plan) > 0 /\ caller[c].queued
    /\ local_defer(caller[c].plan) > Remaining(c)
    /\ caller' = [caller EXCEPT ![c] = Idle] /\ UNCHANGED hist

\* The sleep may end late, never early.
Ready(c) == caller[c].pc = "planned" \/ (caller[c].pc = "waiting" /\ caller[c].wake <= now)
Admit(c) ==
    /\ Ready(c)
    /\ Send(c) \/ FailFast(c) \/ Defer(c) \/ GiveUp(c)
    /\ admit_at(caller[c].plan)
    /\ UNCHANGED <<now, accountLimit>>

\* The local window is at least 250 ms and at most the trade window.
exchange_defer(plan, code, retry) ==
    LET local == IF code = "subaccount" THEN TradeWindow
                 ELSE Clamp(Max({s.window : s \in plan}), 1, TradeWindow)
    IN  Clamp(Max({retry, local}), 1, MaxDefer)

Until_mutant(d, until) == until

\* record_exchange_throttle: a throttle never shortens an earlier one.
Until(d, until) == Max({blocked[d], until})

\* The answer of the exchange says that a limit was hit.
Throttle(c, code, retry) ==
    /\ caller[c].pc = "sent"
    /\ LET plan == caller[c].plan
           until == now + exchange_defer(plan, code, retry)
       IN  /\ blocked' = [d \in Domain |-> IF d \in Keys(plan) THEN Until(d, until) ELSE blocked[d]]
           /\ hist' = Append(hist, Throttled(plan, until))
    /\ caller' = [caller EXCEPT ![c] = Idle]
    /\ UNCHANGED <<now, attempts, accountLimit>>

\* Any other answer, an authentication refusal or a lost connection.
Answered(c) ==
    /\ caller[c].pc = "sent" /\ caller' = [caller EXCEPT ![c] = Idle]
    /\ UNCHANGED <<now, attempts, blocked, accountLimit, hist>>

\* account_rate_limit read the limit from the exchange.
update_subaccount_rate_limit(limit) ==
    /\ accountLimit' = Max({limit, 1})
    /\ UNCHANGED <<now, attempts, blocked, caller, hist>>

Tick == now < MaxTime /\ now' = now + 1 /\ UNCHANGED <<attempts, blocked, accountLimit, caller, hist>>

Finished == now = MaxTime /\ UNCHANGED vars

Next ==
    \/ \E c \in Caller, i \in Instrument :
        PlaceOrder(c, i) \/ AmendOrder(c, i) \/ CancelOrder(c, i) \/ CancelAlgo(c, i) \/ AmendAlgo(c, i)
    \/ \E c \in Caller, path \in Paths :
        PublicRead(c, path) \/ QueuedRead(c, path) \/ PrivateRead(c, path)
    \/ \E c \in Caller : Admit(c) \/ Answered(c)
    \/ \E c \in Caller, code \in Codes, retry \in RetryAfter : Throttle(c, code, retry)
    \/ \E limit \in AccountLimits : update_subaccount_rate_limit(limit)
    \/ Tick \/ Finished

Spec == Init /\ [][Next]_vars


Touches(e, d) == \E s \in e.plan : s.key = d
Admissions(d, from, to) ==
    {k \in 1..Len(hist) : hist[k].kind = "admit" /\ Touches(hist[k], d)
                           /\ hist[k].at >= from /\ hist[k].at <= to}

\* What the window of a domain held when the request at k was admitted, that one included.
InWindow(s, k) == {j \in Admissions(s.key, hist[k].at - s.window + 1, hist[k].at) : j <= k}

\* No window of any domain ever holds more requests than the limit of the
\* request that was admitted last in it, whatever callers, plans held across
\* a change of the account limit and deferred requests in between (admit_at).
WindowLimit ==
    \A k \in 1..Len(hist) : hist[k].kind = "admit" =>
        \A s \in hist[k].plan : Cardinality(InWindow(s, k)) <= s.max

WindowOf(d) == IF d = Aggregate \/ d[1] \in TradeOps THEN TradeWindow ELSE ReadWindow

\* A request that was deferred spent nothing: the stamps a domain keeps inside
\* its window are those of the admitted requests, in both domains of an order.
BudgetCountsAdmissions ==
    \A d \in Domain :
        Cardinality({k \in 1..Len(attempts[d]) : attempts[d][k] > now - WindowOf(d)})
            = Cardinality(Admissions(d, now - WindowOf(d) + 1, now))

\* Once the exchange has answered a throttle, no request of any of the plan's
\* domains leaves before the recorded time, even when a later and shorter
\* throttle arrives from a request sent earlier (record_exchange_throttle).
NoneWhileThrottled ==
    \A k, j \in 1..Len(hist) :
        k < j /\ hist[k].kind = "throttle" /\ hist[j].kind = "admit"
            /\ Keys(hist[k].plan) \cap Keys(hist[j].plan) # {}
        => hist[j].at >= hist[k].until

\* A queued read never sleeps past the wait its caller asked for, however
\* often it finds the window full again (admit_wait).
WaitIsBounded ==
    \A c \in Caller : caller[c].pc = "waiting" => caller[c].wake <= caller[c].started + MaxWait
-----------------------------------------------------------------------------
\* A plan names one or two domains of the budget, each once, with the window of that domain.
Specs == {s \in [key : Domain, max : Nat \ {0}, window : Nat \ {0}] : s.window = WindowOf(s.key)}
Plans == {p \in SUBSET Specs : \E a, b \in p : p = {a, b} /\ (a.key = b.key => a = b)}

Event == [kind : {"admit", "throttle"}, at : Nat, plan : Plans, until : Nat]

Shape ==
    /\ now \in 0..MaxTime /\ accountLimit \in Nat \ {0}
    /\ attempts \in [Domain -> Seq(0..now)] /\ blocked \in [Domain -> 0..(MaxTime + MaxDefer)]
    /\ hist \in Seq(Event) /\ \A k \in 1..Len(hist) : hist[k].at <= now

\* A caller that is not idle has a plan; one that sleeps started earlier.
CallerOK(r) ==
    /\ r \in [pc : {"idle", "planned", "waiting", "sent"}, plan : SUBSET Specs, queued : BOOLEAN,
              started : 0..now, wake : Nat]
    /\ r.pc # "idle" => r.plan \in Plans
    /\ r.pc = "waiting" => r.wake <= r.started + MaxWait

Callers == caller = [c \in Caller |-> caller[c]] /\ \A c \in Caller : CallerOK(caller[c])

\* The stamps of a window and the admissions of a domain, from time t on.
Stamps(q, t) == {k \in 1..Len(q) : q[k] >= t}
Since(d, t) == {k \in 1..Len(hist) : hist[k].kind = "admit" /\ Touches(hist[k], d) /\ hist[k].at >= t}

\* However often the window was pruned, what it still has to know it knows.
Tracks ==
    \A d \in Domain : \A t \in (now - WindowOf(d) + 1)..now :
        Cardinality(Stamps(attempts[d], t)) = Cardinality(Since(d, t))

\* A throttle that has not lapsed blocks its domains.
Blocks ==
    \A k \in 1..Len(hist) : hist[k].kind = "throttle" /\ hist[k].until > now =>
        \A d \in Keys(hist[k].plan) : blocked[d] >= hist[k].until

IInv == Shape /\ Callers /\ Tracks /\ Blocks /\ WindowLimit /\ NoneWhileThrottled
-----------------------------------------------------------------------------
\* A set of naturals has a least element.
LEMMA LeastExists ==
  ASSUME NEW S \in SUBSET Nat, S # {}
  PROVE  \E m \in S : \A n \in S : m <= n
  <1> DEFINE Less == {ss \in Nat \X Nat : ss[1] < ss[2]}
  <1>1. IsWellFoundedOn(Less, Nat)
    BY NatLessThanWellFounded, Zenon DEF OpToRel
  <1>2. \A a, b \in Nat : <<a, b>> \in Less <=> a < b
    OBVIOUS
  <1> HIDE DEF Less
  <1>3. PICK m \in S : \A n \in S : ~(<<n, m>> \in Less)
    BY <1>1, WFMin
  <1>4. \A n \in S : n \in Nat /\ ~(n < m)
    BY <1>2, <1>3
  <1>5. m \in Nat
    OBVIOUS
  <1> QED BY <1>4, <1>5

\* The larger and the smaller of two, and a value kept between two.
LEMMA Bounds ==
  /\ \A x, y \in Int : Max({x, y}) = IF x >= y THEN x ELSE y
  /\ \A x, y \in Int : Min({x, y}) = IF x <= y THEN x ELSE y
  /\ \A x \in Int, hi \in Nat \ {0} : Clamp(x, 1, hi) \in 1..hi
  <1>1. ASSUME NEW x \in Int, NEW y \in Int PROVE Max({x, y}) = IF x >= y THEN x ELSE y
    <2>1. \E z \in {x, y} : \A u \in {x, y} : z >= u
      OBVIOUS
    <2> DEFINE z == Max({x, y})
    <2>2. z \in {x, y} /\ \A u \in {x, y} : z >= u
      BY <2>1 DEF Max
    <2> HIDE DEF z
    <2>3. z = IF x >= y THEN x ELSE y
      BY <2>2
    <2> QED BY <2>3 DEF z
  <1>2. ASSUME NEW x \in Int, NEW y \in Int PROVE Min({x, y}) = IF x <= y THEN x ELSE y
    <2>1. \E z \in {x, y} : \A u \in {x, y} : z =< u
      OBVIOUS
    <2> DEFINE z == Min({x, y})
    <2>2. z \in {x, y} /\ \A u \in {x, y} : z =< u
      BY <2>1 DEF Min
    <2> HIDE DEF z
    <2>3. z = IF x <= y THEN x ELSE y
      BY <2>2
    <2> QED BY <2>3 DEF z
  <1>3. ASSUME NEW x \in Int, NEW hi \in Nat \ {0} PROVE Clamp(x, 1, hi) \in 1..hi
    <2> DEFINE m == Min({x, hi})
    <2>1. m \in Int /\ m <= hi
      BY <1>2
    <2> HIDE DEF m
    <2>2. Max({1, m}) = IF 1 >= m THEN 1 ELSE m
      BY <1>1, <2>1
    <2> QED BY <2>1, <2>2 DEF Clamp, m
  <1> QED BY <1>1, <1>2, <1>3

\* Stamps are finitely many.
LEMMA StampsFinite ==
  ASSUME NEW n, NEW q \in Seq(n), NEW t
  PROVE  /\ IsFiniteSet(Stamps(q, t)) /\ Cardinality(Stamps(q, t)) \in Nat
         /\ Cardinality(Stamps(q, t)) <= Len(q)
  <1>1. Len(q) \in Nat /\ Stamps(q, t) \in SUBSET (1..Len(q))
    BY DEF Stamps
  <1>2. \A k \in Nat : IsFiniteSet(1..k) /\ Cardinality(1..k) = k
    <2> SUFFICES ASSUME NEW k \in Nat PROVE IsFiniteSet(1..k) /\ Cardinality(1..k) = k
      OBVIOUS
    <2>1. 1 \in Int /\ k \in Int /\ (1 > k => k = 0) /\ k - 1 + 1 = k
      OBVIOUS
    <2>2. IsFiniteSet(1..k) /\ Cardinality(1..k) = IF 1 > k THEN 0 ELSE k - 1 + 1
      BY <2>1, FS_Interval
    <2> QED BY <2>1, <2>2
  <1> QED BY <1>1, <1>2, FS_Subset, FS_CardinalityType

\* prune only drops stamps that have left the window.
LEMMA PruneKeeps ==
  ASSUME NEW n \in Nat, NEW q \in Seq(0..n), NEW w \in Nat \ {0}
  PROVE  /\ prune(q, w, n) \in Seq(0..n)
         /\ \A t \in (n - w + 1)..n : Cardinality(Stamps(prune(q, w, n), t)) = Cardinality(Stamps(q, t))
  <1> DEFINE kept == {k \in 1..Len(q) : n - q[k] < w}
             p == prune(q, w, n)
  <1>0. Len(q) \in Nat /\ \A k \in 1..Len(q) : q[k] \in 0..n
    OBVIOUS
  <1>1. CASE kept = {}
    <2>1. p = <<>>
      BY <1>1 DEF prune
    <2>2. \A t \in (n - w + 1)..n : Stamps(p, t) = {} /\ Stamps(q, t) = {}
      BY <1>0, <1>1, <2>1 DEF Stamps
    <2>3. p \in Seq(0..n)
      BY <2>1
    <2> HIDE DEF p
    <2> QED BY <2>2, <2>3 DEF p
  <1>2. CASE kept # {}
    <2> DEFINE m == CHOOSE k \in kept : \A j \in kept : k <= j
    <2>1. p = SubSeq(q, m, Len(q))
      BY <1>2 DEF prune
    <2>2. kept \in SUBSET Nat
      BY <1>0
    <2>3. \E k \in kept : \A j \in kept : k <= j
      <3> HIDE DEF kept
      <3> QED BY <1>2, <2>2, LeastExists
    <2>4. m \in kept /\ \A j \in kept : m <= j
      BY <2>3
    <2> HIDE DEF m
    <2>5. m \in 1..Len(q)
      BY <2>4
    <2>6. /\ p \in Seq(0..n) /\ Len(p) = Len(q) - m + 1
          /\ \A k \in 1..Len(p) : p[k] = q[k + m - 1]
      BY <1>0, <2>1, <2>5
    <2> HIDE DEF p
    <2>7. ASSUME NEW t \in (n - w + 1)..n
          PROVE  Cardinality(Stamps(p, t)) = Cardinality(Stamps(q, t))
      <3> DEFINE S == Stamps(p, t)
                 T == Stamps(q, t)
                 f == [k \in S |-> k + m - 1]
      <3>1. \A k \in T : k \in kept
        BY <1>0 DEF Stamps
      <3>20. ASSUME NEW k \in S PROVE k + m - 1 \in T
        <4>1. k \in 1..Len(p) /\ p[k] >= t
          BY DEF Stamps
        <4>2. k + m - 1 \in 1..Len(q) /\ p[k] = q[k + m - 1]
          BY <1>0, <2>5, <2>6, <4>1
        <4> QED BY <4>1, <4>2 DEF Stamps
      <3>2. f \in [S -> T]
        BY <3>20
      <3>3. \A a, b \in S : f[a] = f[b] => a = b
        BY <2>5 DEF Stamps
      <3>4. ASSUME NEW k \in T PROVE k - m + 1 \in S /\ f[k - m + 1] = k
        <4>1. k \in 1..Len(q) /\ q[k] >= t /\ m <= k
          BY <2>4, <3>1 DEF Stamps
        <4>2. k - m + 1 \in 1..Len(p) /\ (k - m + 1) + m - 1 = k
          BY <1>0, <2>5, <2>6, <4>1
        <4>3. p[k - m + 1] = q[k]
          BY <2>6, <4>2
        <4>4. k - m + 1 \in S
          BY <4>1, <4>2, <4>3 DEF Stamps
        <4> QED BY <4>2, <4>4
      <3>5. f \in Bijection(S, T)
        <4> HIDE DEF S, T, f
        <4>1. \A k \in T : \E j \in S : f[j] = k
          BY <3>4
        <4>2. f \in Injection(S, T)
          BY <3>2, <3>3 DEF Injection, IsInjective
        <4>3. f \in Surjection(S, T)
          BY <3>2, <4>1 DEF Surjection
        <4> QED BY <4>2, <4>3 DEF Bijection
      <3>6. ExistsBijection(S, T)
        BY <3>5 DEF ExistsBijection
      <3>7. IsFiniteSet(S)
        BY <2>6, StampsFinite
      <3> HIDE DEF S, T, f
      <3>8. Cardinality(T) = Cardinality(S)
        BY <3>6, <3>7, FS_Bijection
      <3> QED BY <3>8 DEF S, T
    <2> QED BY <2>6, <2>7 DEF p
  <1> QED BY <1>1, <1>2

\* One more stamp counts once.
LEMMA AppendCounts ==
  ASSUME NEW n \in Nat, NEW q \in Seq(0..n), NEW t \in Int, t <= n
  PROVE  Cardinality(Stamps(Append(q, n), t)) = Cardinality(Stamps(q, t)) + 1
  <1>1. /\ Len(Append(q, n)) = Len(q) + 1 /\ Append(q, n)[Len(q) + 1] = n /\ Len(q) \in Nat
        /\ \A k \in 1..Len(q) : Append(q, n)[k] = q[k]
    OBVIOUS
  <1>2. /\ Stamps(Append(q, n), t) = Stamps(q, t) \cup {Len(q) + 1}
        /\ Len(q) + 1 \notin Stamps(q, t)
    BY <1>1 DEF Stamps
  <1> QED BY <1>2, StampsFinite, FS_AddElement

\* A domain is one of the budget, and its window is positive.
LEMMA Windows ==
  ASSUME RateAssumption
  PROVE  /\ \A d : WindowOf(d) \in Nat \ {0}
         /\ \A s \in Specs : /\ s.key \in Domain /\ s.max \in Nat \ {0} /\ s.window = WindowOf(s.key)
                             /\ s = Spec1(s.key, s.max, s.window)
  BY DEF RateAssumption, WindowOf, Specs, Spec1

\* The parts of a plan, and what pruning for a plan does.
LEMMA PlanFacts ==
  ASSUME RateAssumption, Shape, NEW plan \in Plans
  PROVE  /\ plan \in SUBSET Specs
         /\ \A s \in plan : s.key \in Keys(plan)
         /\ \A d \in Keys(plan) : d \in Domain /\ \E s \in plan : s.key = d
         /\ \A d \in Domain : d \in Keys(plan) => Pruned(plan)[d] = prune(attempts[d], WindowOf(d), now)
         /\ \A d \in Domain : d \notin Keys(plan) => Pruned(plan)[d] = attempts[d]
  <1>1. plan \in SUBSET Specs
    BY DEF Plans
  <1>2. /\ \A s \in plan : s.key \in Keys(plan)
        /\ \A d \in Keys(plan) : d \in Domain /\ \E s \in plan : s.key = d
    BY <1>1, Windows DEF Keys
  <1>3. ASSUME NEW d \in Keys(plan) PROVE (CHOOSE s \in plan : s.key = d).window = WindowOf(d)
    <2> DEFINE s == CHOOSE s \in plan : s.key = d
    <2>1. s \in plan /\ s.key = d
      BY <1>2
    <2> HIDE DEF s
    <2>2. s.window = WindowOf(d)
      BY <1>1, <2>1, Windows
    <2> QED BY <2>2 DEF s
  <1>4. \A d \in Domain : d \in Keys(plan) => Pruned(plan)[d] = prune(attempts[d], WindowOf(d), now)
    BY <1>3 DEF Pruned
  <1>5. \A d \in Domain : d \notin Keys(plan) => Pruned(plan)[d] = attempts[d]
    BY DEF Pruned
  <1> QED BY <1>1, <1>2, <1>4, <1>5

\* The stamps of a domain after pruning.
LEMMA PrunedStamps ==
  ASSUME RateAssumption, Shape, NEW d \in Domain
  PROVE  /\ prune(attempts[d], WindowOf(d), now) \in Seq(0..now)
         /\ \A t \in (now - WindowOf(d) + 1)..now :
              Cardinality(Stamps(prune(attempts[d], WindowOf(d), now), t)) = Cardinality(Stamps(attempts[d], t))
  <1>1. now \in Nat /\ attempts[d] \in Seq(0..now)
    BY DEF Shape
  <1>2. WindowOf(d) \in Nat \ {0}
    BY Windows
  <1> QED BY <1>1, <1>2, PruneKeeps

\* What one domain asks for.
LEMMA WaitOfOne ==
  ASSUME RateAssumption, Shape, NEW s \in Specs
  PROVE  /\ WaitOf(s) \in Nat
         /\ WaitOf(s) = 0 => /\ blocked[s.key] <= now
                             /\ Len(prune(attempts[s.key], WindowOf(s.key), now)) < s.max
  <1> DEFINE p == prune(attempts[s.key], WindowOf(s.key), now)
  <1>1. /\ s.key \in Domain /\ s.max \in Nat \ {0} /\ s.window = WindowOf(s.key) /\ WindowOf(s.key) \in Nat \ {0}
        /\ now \in Nat /\ blocked[s.key] \in Nat
    BY Windows DEF Shape, RateAssumption
  <1>2. p \in Seq(0..now)
    BY <1>1, PrunedStamps
  <1>3. Pruned({s})[s.key] = p
    <2>1. s.key \in Keys({s}) /\ (CHOOSE r \in {s} : r.key = s.key) = s
      BY DEF Keys
    <2> QED BY <1>1, <2>1 DEF Pruned
  <1>4. Full(s) <=> Len(p) >= s.max /\ p # <<>>
    BY <1>3 DEF Full
  <1>5. WaitOf(s) = IF blocked[s.key] > now THEN blocked[s.key] - now
                    ELSE IF Full(s)
                    THEN IF Head(p) + s.window > now THEN (Head(p) + s.window) - now ELSE 1
                    ELSE 0
    <2>1. WaitOf(s) = IF blocked[s.key] > now THEN blocked[s.key] - now
                      ELSE IF Full(s)
                      THEN IF Head(Pruned({s})[s.key]) + s.window > now
                           THEN (Head(Pruned({s})[s.key]) + s.window) - now ELSE 1
                      ELSE 0
      BY DEF WaitOf, Blocked
    <2> HIDE DEF p
    <2> QED BY <1>3, <2>1
  <1> HIDE DEF p
  <1>6. Len(p) \in Nat /\ (Len(p) >= s.max => p # <<>>) /\ (p # <<>> => Head(p) \in 0..now)
    BY <1>1, <1>2
  <1>7. WaitOf(s) \in Nat
    BY <1>1, <1>4, <1>5, <1>6
  <1>8. WaitOf(s) = 0 => blocked[s.key] <= now /\ Len(p) < s.max
    BY <1>1, <1>4, <1>5, <1>6
  <1> QED BY <1>7, <1>8 DEF p

\* A plan waits for the slower of its domains; with nothing to wait for, both have room.
LEMMA WaitOfPlan ==
  ASSUME RateAssumption, Shape, NEW plan \in Plans
  PROVE  /\ Wait(plan) \in Nat
         /\ Wait(plan) = 0 => \A s \in plan :
                /\ blocked[s.key] <= now
                /\ Len(prune(attempts[s.key], WindowOf(s.key), now)) < s.max
  <1>1. PICK a \in plan, b \in plan : plan = {a, b}
    BY DEF Plans
  <1>2. a \in Specs /\ b \in Specs
    BY DEF Plans
  <1>3. {WaitOf(s) : s \in plan} = {WaitOf(a), WaitOf(b)}
    BY <1>1
  <1>4. WaitOf(a) \in Nat /\ WaitOf(b) \in Nat
    BY <1>2, WaitOfOne
  <1>5. Wait(plan) = IF WaitOf(a) >= WaitOf(b) THEN WaitOf(a) ELSE WaitOf(b)
    <2>1. \A x, y \in Int : Max({x, y}) = IF x >= y THEN x ELSE y
      BY Bounds
    <2>2. Wait(plan) = Max({WaitOf(a), WaitOf(b)})
      BY <1>3, Zenon DEF Wait
    <2> QED BY <1>4, <2>1, <2>2
  <1>6. Wait(plan) \in Nat /\ (Wait(plan) = 0 => WaitOf(a) = 0 /\ WaitOf(b) = 0)
    BY <1>4, <1>5
  <1> QED BY <1>1, <1>2, <1>6, WaitOfOne

\* Every request makes a plan.
LEMMA PlansMade ==
  ASSUME RateAssumption, Shape
  PROVE  /\ \A op \in TradeOps, i \in Instrument : trade_rest_plan(op, i) \in Plans
         /\ \A op \in AlgoOps, i \in Instrument : private_rest_plan(<<op, i>>) \in Plans
         /\ \A path \in Paths : public_rest_plan(path) \in Plans /\ private_rest_plan(<<"private", path>>) \in Plans
  <1>1. ASSUME NEW d \in Domain, NEW max \in Nat \ {0}, NEW w, w = WindowOf(d)
        PROVE  Spec1(d, max, w) \in Specs /\ Spec1(d, max, w).key = d
    <2>1. w \in Nat \ {0}
      BY <1>1, Windows
    <2> QED BY <1>1, <2>1 DEF Spec1, Specs
  <1>2. ASSUME NEW a \in Specs PROVE {a} \in Plans
    <2>1. {a} = {a, a} /\ a \in {a}
      OBVIOUS
    <2> QED BY <2>1 DEF Plans
  <1>3. ASSUME NEW a \in Specs, NEW b \in Specs, a.key # b.key PROVE {a} \cup {b} \in Plans
    <2>1. {a} \cup {b} = {a, b} /\ a \in {a} \cup {b} /\ b \in {a} \cup {b}
      OBVIOUS
    <2> QED BY <1>3, <2>1 DEF Plans
  <1>4. ASSUME NEW op \in TradeOps, NEW i \in Instrument PROVE trade_rest_plan(op, i) \in Plans
    <2>1. <<op, i>> \in Domain /\ <<op, i>>[1] = op /\ <<op, i>> # Aggregate /\ Aggregate \in Domain
      BY DEF Domain, TradeOps, Aggregate
    <2>2. WindowOf(<<op, i>>) = TradeWindow /\ WindowOf(Aggregate) = TradeWindow
      BY <2>1 DEF WindowOf
    <2>3. TradeLimit \in Nat \ {0} /\ accountLimit \in Nat \ {0}
      BY DEF RateAssumption, Shape
    <2>4. /\ Spec1(<<op, i>>, TradeLimit, TradeWindow) \in Specs
          /\ Spec1(<<op, i>>, TradeLimit, TradeWindow).key = <<op, i>>
      BY <1>1, <2>1, <2>2, <2>3
    <2>5. /\ Spec1(Aggregate, accountLimit, TradeWindow) \in Specs
          /\ Spec1(Aggregate, accountLimit, TradeWindow).key = Aggregate
      BY <1>1, <2>1, <2>2, <2>3
    <2>6. CASE op \in {"place", "amend"}
      BY <1>3, <2>1, <2>4, <2>5, <2>6 DEF trade_rest_plan
    <2>7. CASE op \notin {"place", "amend"}
      BY <1>2, <2>4, <2>7 DEF trade_rest_plan
    <2> QED BY <2>6, <2>7
  <1>5. ASSUME NEW d \in Domain, d # Aggregate, d[1] \notin TradeOps
        PROVE  {Spec1(d, ReadLimit, ReadWindow)} \in Plans
    <2>1. ReadLimit \in Nat \ {0} /\ ReadWindow = WindowOf(d)
      BY <1>5 DEF RateAssumption, WindowOf
    <2> QED BY <1>1, <1>2, <2>1
  <1>6. ASSUME NEW op \in AlgoOps, NEW i \in Instrument PROVE private_rest_plan(<<op, i>>) \in Plans
    <2>1. <<op, i>> \in Domain /\ <<op, i>> # Aggregate /\ <<op, i>>[1] \notin TradeOps
      BY DEF Domain, TradeOps, AlgoOps, Aggregate
    <2> QED BY <1>5, <2>1 DEF private_rest_plan
  <1>7. ASSUME NEW path \in Paths, NEW side \in {"public", "private"}
        PROVE  {Spec1(<<side, path>>, ReadLimit, ReadWindow)} \in Plans
    <2>1. <<side, path>> \in Domain /\ <<side, path>> # Aggregate /\ <<side, path>>[1] \notin TradeOps
      BY DEF Domain, TradeOps, Aggregate
    <2> QED BY <1>5, <2>1
  <1> QED BY <1>4, <1>6, <1>7 DEF public_rest_plan, private_rest_plan

\* What was recorded.
LEMMA Recorded ==
  ASSUME Shape
  PROVE  /\ Len(hist) \in Nat /\ hist \in Seq(Event)
         /\ \A k \in 1..Len(hist) : /\ hist[k].at \in Nat /\ hist[k].at <= now /\ hist[k].until \in Nat
                                   /\ hist[k].kind \in {"admit", "throttle"} /\ hist[k].plan \in Plans
         /\ \A d \in Domain : attempts[d] \in Seq(0..now) /\ \A k \in 1..Len(attempts[d]) : attempts[d][k] \in 0..now
  <1>1. hist \in Seq(Event)
    BY DEF Shape
  <1>2. Len(hist) \in Nat /\ \A k \in 1..Len(hist) : hist[k] \in Event
    BY <1>1
  <1>3. \A e \in Event : /\ e.at \in Nat /\ e.until \in Nat
                         /\ e.kind \in {"admit", "throttle"} /\ e.plan \in Plans
    BY DEF Event
  <1>4. ASSUME NEW d \in Domain
        PROVE  attempts[d] \in Seq(0..now) /\ \A k \in 1..Len(attempts[d]) : attempts[d][k] \in 0..now
    <2>1. attempts[d] \in Seq(0..now)
      BY DEF Shape
    <2> DEFINE q == attempts[d]
               S == 0..now
    <2>2. q \in Seq(S)
      BY <2>1
    <2> HIDE DEF q, S
    <2>3. \A k \in 1..Len(q) : q[k] \in S
      BY <2>2
    <2> QED BY <2>1, <2>3 DEF q, S
  <1> QED BY <1>1, <1>2, <1>3, <1>4 DEF Shape

\* A step that only moves callers or the limit keeps the invariant.
LEMMA CallersKeep ==
  ASSUME IInv, UNCHANGED <<now, attempts, blocked, hist>>, accountLimit' \in Nat \ {0}, Callers'
  PROVE  IInv'
  <1>1. Shape'
    BY DEF IInv, Shape, Domain
  <1>2. Tracks' /\ Blocks'
    <2>1. ASSUME NEW d, NEW t PROVE Since(d, t)' = Since(d, t)
      BY DEF Since, Touches
    <2>2. Tracks'
      BY <2>1 DEF IInv, Tracks
    <2>3. Blocks'
      BY DEF IInv, Blocks, Keys
    <2> QED BY <2>2, <2>3
  <1>3. WindowLimit' /\ NoneWhileThrottled'
    BY DEF IInv, WindowLimit, InWindow, Admissions, Touches, NoneWhileThrottled, Keys
  <1> QED BY <1>1, <1>2, <1>3 DEF IInv

\* One caller moves to a state it may be in.
LEMMA CallerMoves ==
  ASSUME Callers, NEW c \in Caller, NEW r, CallerOK(r), caller' = [caller EXCEPT ![c] = r], UNCHANGED now
  PROVE  Callers'
  <1>1. /\ caller' = [b \in Caller |-> IF b = c THEN r ELSE caller[b]]
        /\ \A b \in Caller : CallerOK(caller[b])
    BY DEF Callers
  <1>2. caller' = [b \in Caller |-> caller'[b]] /\ \A b \in Caller : CallerOK(caller'[b])
    BY <1>1
  <1> QED BY <1>2 DEF Callers, CallerOK

\* An idle caller.
LEMMA IdleOK == ASSUME Shape PROVE CallerOK(Idle)
  BY DEF Shape, CallerOK, Idle

\* Planning keeps the invariant.
LEMMA PlannedKeeps ==
  ASSUME RateAssumption, IInv, NEW c \in Caller, NEW plan \in Plans, NEW queued \in BOOLEAN,
         Planned(c, plan, queued)
  PROVE  IInv'
  <1> DEFINE r == [pc |-> "planned", plan |-> plan, queued |-> queued,
                   started |-> IF queued THEN now ELSE 0, wake |-> 0]
  <1>1. now \in Nat /\ plan \in SUBSET Specs /\ Callers /\ accountLimit \in Nat \ {0}
    BY DEF IInv, Shape, Plans
  <1>2. CallerOK(r)
    BY <1>1 DEF CallerOK
  <1>3. caller' = [caller EXCEPT ![c] = r] /\ UNCHANGED <<now, attempts, blocked, accountLimit, hist>>
    BY DEF Planned
  <1> HIDE DEF r
  <1>4. Callers'
    BY <1>1, <1>2, <1>3, CallerMoves
  <1> QED BY <1>1, <1>3, <1>4, CallersKeep

\* So does an answer, or a new limit.
LEMMA AnswerKeeps ==
  ASSUME RateAssumption, IInv,
         (\E c \in Caller : Answered(c)) \/ (\E limit \in AccountLimits : update_subaccount_rate_limit(limit))
  PROVE  IInv'
  <1>1. Callers /\ Shape /\ accountLimit \in Nat \ {0}
    BY DEF IInv, Shape
  <1>2. ASSUME NEW c \in Caller, Answered(c) PROVE IInv'
    <2>1. caller' = [caller EXCEPT ![c] = Idle] /\ UNCHANGED <<now, attempts, blocked, accountLimit, hist>>
      BY <1>2 DEF Answered
    <2>2. Callers'
      BY <1>1, <2>1, IdleOK, CallerMoves
    <2> QED BY <1>1, <2>1, <2>2, CallersKeep
  <1>3. ASSUME NEW limit \in AccountLimits, update_subaccount_rate_limit(limit) PROVE IInv'
    <2>1. limit \in Int
      <3>1. AccountLimits \subseteq Nat
        BY Zenon DEF RateAssumption
      <3> QED BY <3>1
    <2>2. Max({limit, 1}) \in Nat \ {0}
      BY <2>1, Bounds
    <2>3. Callers'
      BY <1>1, <1>3 DEF update_subaccount_rate_limit, Callers, CallerOK
    <2> QED BY <1>3, <2>2, <2>3, CallersKeep DEF update_subaccount_rate_limit
  <1> QED BY <1>2, <1>3

\* Time keeps it: the windows move on and have nothing newer to count.
LEMMA TickKeeps == ASSUME RateAssumption, IInv, Tick PROVE IInv'
  <1>0. /\ now \in Nat /\ now' = now + 1 /\ now' \in 0..MaxTime
        /\ UNCHANGED <<attempts, blocked, accountLimit, caller, hist>>
        /\ Shape /\ Callers /\ Tracks /\ Blocks /\ WindowLimit /\ NoneWhileThrottled
    BY DEF IInv, Shape, Tick, RateAssumption
  <1>1. Shape'
    <2>1. \A q \in Seq(0..now) : q \in Seq(0..now')
      BY <1>0
    <2>2. attempts \in [Domain -> Seq(0..now')]
      BY <1>0, <2>1 DEF Shape
    <2>3. \A k \in 1..Len(hist) : hist[k].at <= now'
      <3>1. \A k \in 1..Len(hist) : hist[k].at \in Nat /\ hist[k].at <= now
        BY <1>0, Recorded
      <3> QED BY <1>0, <3>1
    <2> QED BY <1>0, <2>2, <2>3 DEF Shape, Domain
  <1>2. Callers'
    <2>1. \A c \in Caller : CallerOK(caller[c])'
      <3> SUFFICES ASSUME NEW c \in Caller PROVE CallerOK(caller[c])'
        OBVIOUS
      <3>1. CallerOK(caller[c])
        BY <1>0 DEF Callers
      <3>2. caller[c] \in [pc : {"idle", "planned", "waiting", "sent"}, plan : SUBSET Specs, queued : BOOLEAN,
                           started : 0..now', wake : Nat]
        BY <1>0, <3>1 DEF CallerOK
      <3> QED BY <1>0, <3>1, <3>2 DEF CallerOK
    <2> QED BY <1>0, <2>1 DEF Callers
  <1>3. Tracks'
    <2> SUFFICES ASSUME NEW d \in Domain, NEW t \in (now' - WindowOf(d) + 1)..now'
                 PROVE  Cardinality(Stamps(attempts[d], t)) = Cardinality(Since(d, t))
      <3>1. ASSUME NEW d \in Domain, NEW t
            PROVE  Stamps(attempts'[d], t) = Stamps(attempts[d], t) /\ Since(d, t)' = Since(d, t)
        BY <1>0 DEF Since, Touches
      <3> QED BY <3>1 DEF Tracks
    <2>0. WindowOf(d) \in Nat \ {0}
      BY Windows
    <2>1. CASE t <= now
      <3>1. t \in (now - WindowOf(d) + 1)..now
        BY <1>0, <2>0, <2>1
      <3> QED BY <1>0, <3>1 DEF Tracks
    <2>2. CASE t > now
      <3>1. /\ attempts[d] \in Seq(0..now)
            /\ \A k \in 1..Len(hist) : hist[k].at \in Nat /\ hist[k].at <= now
        BY <1>0, Recorded
      <3>2. \A k \in 1..Len(attempts[d]) : attempts[d][k] \in 0..now
        BY <1>0, Recorded
      <3>3. t \in Int
        BY <1>0, <2>0
      <3>4. Stamps(attempts[d], t) = {}
        BY <1>0, <2>2, <3>2, <3>3 DEF Stamps
      <3>5. Since(d, t) = {}
        BY <1>0, <2>2, <3>1, <3>3 DEF Since
      <3> QED BY <3>4, <3>5
    <2>3. t \in Int
      BY <1>0, <2>0
    <2> QED BY <1>0, <2>1, <2>2, <2>3
  <1>4. Blocks'
    <2>1. \A k \in 1..Len(hist) : hist[k].until \in Nat
      BY <1>0, Recorded
    <2> QED BY <1>0, <2>1 DEF Blocks, Keys
  <1>5. WindowLimit' /\ NoneWhileThrottled'
    BY <1>0 DEF WindowLimit, InWindow, Admissions, Touches, NoneWhileThrottled, Keys
  <1> QED BY <1>1, <1>2, <1>3, <1>4, <1>5 DEF IInv

\* What is recorded next.
LEMMA RecordedNext ==
  ASSUME Shape, NEW e \in Event, hist' = Append(hist, e)
  PROVE  /\ hist' \in Seq(Event) /\ Len(hist') = Len(hist) + 1 /\ hist'[Len(hist) + 1] = e
         /\ \A k \in 1..Len(hist) : hist'[k] = hist[k]
         /\ 1..Len(hist') = 1..Len(hist) \cup {Len(hist) + 1}
  <1>1. hist \in Seq(Event) /\ Len(hist) \in Nat
    BY Recorded
  <1>2. /\ hist' \in Seq(Event) /\ Len(hist') = Len(hist) + 1 /\ hist'[Len(hist) + 1] = e
        /\ \A k \in 1..Len(hist) : hist'[k] = hist[k]
    BY <1>1
  <1> QED BY <1>1, <1>2

\* A throttle keeps the invariant: it only makes blocks longer.
LEMMA ThrottleKeeps ==
  ASSUME RateAssumption, IInv, NEW c \in Caller, NEW code \in Codes, NEW retry \in RetryAfter,
         Throttle(c, code, retry)
  PROVE  IInv'
  <1> DEFINE plan == caller[c].plan
             until == now + exchange_defer(plan, code, retry)
             e == Throttled(plan, until)
  <1>0. /\ Shape /\ Callers /\ Tracks /\ Blocks /\ WindowLimit /\ NoneWhileThrottled
        /\ UNCHANGED <<now, attempts, accountLimit>> /\ caller' = [caller EXCEPT ![c] = Idle]
        /\ blocked' = [d \in Domain |-> IF d \in Keys(plan) THEN Until(d, until) ELSE blocked[d]]
        /\ hist' = Append(hist, e) /\ caller[c].pc = "sent"
    BY DEF IInv, Throttle
  <1>1. now \in Nat /\ now <= MaxTime /\ MaxTime \in Nat /\ MaxDefer \in Nat \ {0} /\ plan \in Plans
    BY <1>0 DEF Shape, Callers, CallerOK, RateAssumption
  <1>2. until \in Nat /\ until > now /\ until <= MaxTime + MaxDefer
    <2>1. PICK x : exchange_defer(plan, code, retry) = Clamp(Max({retry, x}), 1, MaxDefer) /\ x \in Int
      <3> DEFINE local == IF code = "subaccount" THEN TradeWindow
                          ELSE Clamp(Max({s.window : s \in plan}), 1, TradeWindow)
      <3>1. TradeWindow \in Nat \ {0}
        BY DEF RateAssumption
      <3>2. Max({s.window : s \in plan}) \in Int
        <4>1. PICK a \in plan, b \in plan : plan = {a, b}
          BY <1>1 DEF Plans
        <4>2. a \in Specs /\ b \in Specs
          BY <1>1 DEF Plans
        <4>3. a.window \in Int /\ b.window \in Int
          BY <4>2 DEF Specs
        <4>4. {s.window : s \in plan} = {a.window, b.window}
          BY <4>1
        <4>5. \A x, y \in Int : Max({x, y}) = IF x >= y THEN x ELSE y
          BY Bounds
        <4> QED BY <4>3, <4>4, <4>5
      <3>3. \A x \in Int, hi \in Nat \ {0} : Clamp(x, 1, hi) \in 1..hi
        BY Bounds
      <3>4. local \in Int
        BY <3>1, <3>2, <3>3
      <3>5. exchange_defer(plan, code, retry) = Clamp(Max({retry, local}), 1, MaxDefer)
        BY DEF exchange_defer
      <3> HIDE DEF local
      <3> QED BY <3>4, <3>5
    <2>2. retry \in Int
      <3>1. RetryAfter \subseteq Nat
        BY Zenon DEF RateAssumption
      <3> QED BY <3>1
    <2>3. Max({retry, x}) \in Int
      <3>1. \A u, v \in Int : Max({u, v}) = IF u >= v THEN u ELSE v
        BY Bounds
      <3> QED BY <2>1, <2>2, <3>1
    <2>4. exchange_defer(plan, code, retry) \in 1..MaxDefer
      <3>1. \A u \in Int, hi \in Nat \ {0} : Clamp(u, 1, hi) \in 1..hi
        BY Bounds
      <3> QED BY <1>1, <2>1, <2>3, <3>1
    <2> QED BY <1>1, <2>4
  <1>3. e \in Event /\ e.kind = "throttle" /\ e.at = now /\ e.plan = plan /\ e.until = until
    BY <1>1, <1>2 DEF Throttled, Event
  <1> HIDE DEF e, plan, until
  <1>4. /\ hist' \in Seq(Event) /\ Len(hist') = Len(hist) + 1 /\ hist'[Len(hist) + 1] = e
        /\ \A k \in 1..Len(hist) : hist'[k] = hist[k]
        /\ 1..Len(hist') = 1..Len(hist) \cup {Len(hist) + 1}
        /\ Len(hist) \in Nat
    BY <1>0, <1>3, RecordedNext, Recorded
  <1>5. \A d \in Domain : /\ blocked'[d] \in 0..(MaxTime + MaxDefer) /\ blocked'[d] >= blocked[d]
                          /\ d \in Keys(plan) => blocked'[d] >= until
    <2> SUFFICES ASSUME NEW d \in Domain
                 PROVE  /\ blocked'[d] \in 0..(MaxTime + MaxDefer) /\ blocked'[d] >= blocked[d]
                        /\ d \in Keys(plan) => blocked'[d] >= until
      OBVIOUS
    <2>1. blocked[d] \in 0..(MaxTime + MaxDefer)
      BY <1>0 DEF Shape
    <2>2. Until(d, until) = IF blocked[d] >= until THEN blocked[d] ELSE until
      <3>1. \A u, v \in Int : Max({u, v}) = IF u >= v THEN u ELSE v
        BY Bounds
      <3> QED BY <1>1, <1>2, <2>1, <3>1 DEF Until
    <2>3. blocked'[d] = IF d \in Keys(plan) THEN Until(d, until) ELSE blocked[d]
      BY <1>0
    <2> QED BY <1>1, <1>2, <2>1, <2>2, <2>3
  <1>6. Shape'
    <2>1. blocked' \in [Domain -> 0..(MaxTime + MaxDefer)]
      BY <1>0, <1>5
    <2>2. \A k \in 1..Len(hist') : hist'[k].at <= now'
      BY <1>0, <1>1, <1>3, <1>4, Recorded
    <2> QED BY <1>0, <1>4, <2>1, <2>2 DEF Shape, Domain
  <1>7. Callers'
    BY <1>0, IdleOK, CallerMoves
  <1>8. Tracks'
    <2>1. ASSUME NEW d, NEW t PROVE Since(d, t)' = Since(d, t)
      BY <1>3, <1>4 DEF Since, Touches
    <2>2. \A d \in Domain : attempts'[d] = attempts[d]
      BY <1>0
    <2> QED BY <1>0, <2>1, <2>2 DEF Tracks
  <1>9. Blocks'
    <2> SUFFICES ASSUME NEW k \in 1..Len(hist'), hist'[k].kind = "throttle", hist'[k].until > now,
                        NEW d \in Keys(hist'[k].plan)
                 PROVE  blocked'[d] >= hist'[k].until
      BY <1>0 DEF Blocks, Keys
    <2>1. CASE k = Len(hist) + 1
      <3>1. d \in Domain
        BY <1>0, <1>1, <1>3, <1>4, <2>1, PlanFacts
      <3> QED BY <1>3, <1>4, <1>5, <2>1, <3>1
    <2>2. CASE k \in 1..Len(hist)
      <3>1. d \in Keys(hist[k].plan) /\ hist[k].plan \in Plans /\ hist'[k] = hist[k] /\ hist[k].until \in Nat
        BY <1>0, <1>4, <2>2, Recorded
      <3>2. d \in Domain
        BY <1>0, <3>1, PlanFacts
      <3>3. blocked[d] >= hist[k].until
        BY <1>0, <2>2, <3>1 DEF Blocks
      <3>4. blocked[d] \in Nat /\ blocked'[d] \in Nat
        BY <1>0, <1>1, <1>5, <3>2 DEF Shape
      <3> QED BY <1>5, <3>1, <3>2, <3>3, <3>4
    <2> QED BY <1>4, <2>1, <2>2
  <1>10. WindowLimit'
    <2>1. ASSUME NEW k \in 1..Len(hist'), hist'[k].kind = "admit", NEW s \in hist'[k].plan
          PROVE  Cardinality(InWindow(s, k)') <= s.max
      <3>1. k \in 1..Len(hist) /\ hist'[k] = hist[k]
        BY <1>3, <1>4, <2>1
      <3>2. InWindow(s, k)' = InWindow(s, k)
        BY <1>3, <1>4, <3>1 DEF InWindow, Admissions, Touches
      <3> QED BY <1>0, <2>1, <3>1, <3>2 DEF WindowLimit
    <2> QED BY <2>1 DEF WindowLimit
  <1>11. NoneWhileThrottled'
    <2>1. \A k \in 1..Len(hist') : k < Len(hist) + 1 => k \in 1..Len(hist)
      BY <1>4
    <2> SUFFICES ASSUME NEW k \in 1..Len(hist'), NEW j \in 1..Len(hist'), k < j,
                        hist'[k].kind = "throttle", hist'[j].kind = "admit",
                        Keys(hist'[k].plan) \cap Keys(hist'[j].plan) # {}
                 PROVE  hist'[j].at >= hist'[k].until
      BY DEF NoneWhileThrottled, Keys
    <2>2. j \in 1..Len(hist) /\ k \in 1..Len(hist)
      BY <1>3, <1>4
    <2> QED BY <1>0, <1>4, <2>2 DEF NoneWhileThrottled
  <1> QED BY <1>6, <1>7, <1>8, <1>9, <1>10, <1>11 DEF IInv

\* What admission does to the windows, whether or not it lets the request through.
LEMMA Admitting ==
  ASSUME RateAssumption, Shape, NEW plan \in Plans, admit_at(plan)
  PROVE  /\ attempts' \in [Domain -> Seq(0..now)] /\ blocked' \in [Domain -> 0..(MaxTime + MaxDefer)]
         /\ \A d \in Domain : blocked[d] > now => blocked'[d] = blocked[d]
         /\ \A d \in Domain : \A t \in (now - WindowOf(d) + 1)..now :
              Cardinality(Stamps(attempts'[d], t))
                = IF d \in Keys(plan) /\ Wait(plan) = 0 THEN Cardinality(Stamps(attempts[d], t)) + 1
                  ELSE Cardinality(Stamps(attempts[d], t))
         /\ Wait(plan) = 0 => \A s \in plan : Len(attempts'[s.key]) <= s.max
  <1>0. now \in Nat /\ MaxTime \in Nat /\ MaxDefer \in Nat
    BY DEF Shape, RateAssumption
  <1>1. /\ attempts' = [d \in Domain |-> attempts'[d]] /\ blocked' = [d \in Domain |-> blocked'[d]]
        /\ \A d \in Domain : /\ attempts'[d] = IF d \in Keys(plan) /\ Wait(plan) = 0
                                               THEN Append(Pruned(plan)[d], now) ELSE Pruned(plan)[d]
                             /\ blocked'[d] = IF d \in Keys(plan) /\ ~Blocked(d) THEN 0 ELSE blocked[d]
    BY DEF admit_at
  <1>2. ASSUME NEW d \in Domain
        PROVE  /\ Pruned(plan)[d] \in Seq(0..now)
               /\ \A t \in (now - WindowOf(d) + 1)..now :
                    Cardinality(Stamps(Pruned(plan)[d], t)) = Cardinality(Stamps(attempts[d], t))
    <2>1. attempts[d] \in Seq(0..now)
      BY DEF Shape
    <2>2. CASE d \in Keys(plan)
      <3>1. Pruned(plan)[d] = prune(attempts[d], WindowOf(d), now)
        BY <2>2, PlanFacts
      <3> QED BY <3>1, PrunedStamps
    <2>3. CASE d \notin Keys(plan)
      <3>1. Pruned(plan)[d] = attempts[d]
        BY <2>3, PlanFacts
      <3> QED BY <2>1, <3>1
    <2> QED BY <2>2, <2>3
  <1>3. ASSUME NEW d \in Domain
        PROVE  /\ attempts'[d] \in Seq(0..now)
               /\ \A t \in (now - WindowOf(d) + 1)..now :
                    Cardinality(Stamps(attempts'[d], t))
                      = IF d \in Keys(plan) /\ Wait(plan) = 0 THEN Cardinality(Stamps(attempts[d], t)) + 1
                        ELSE Cardinality(Stamps(attempts[d], t))
    <2> DEFINE p == Pruned(plan)[d]
    <2>1. p \in Seq(0..now)
      BY <1>2
    <2>2. \A t \in (now - WindowOf(d) + 1)..now : Cardinality(Stamps(p, t)) = Cardinality(Stamps(attempts[d], t))
      BY <1>2
    <2>3. attempts'[d] = IF d \in Keys(plan) /\ Wait(plan) = 0 THEN Append(p, now) ELSE p
      BY <1>1
    <2> HIDE DEF p
    <2>4. Append(p, now) \in Seq(0..now)
      BY <1>0, <2>1
    <2>5. ASSUME NEW t \in (now - WindowOf(d) + 1)..now
          PROVE  Cardinality(Stamps(Append(p, now), t)) = Cardinality(Stamps(p, t)) + 1
      <3>1. t \in Int /\ t <= now
        <4>1. WindowOf(d) \in Nat
          BY Windows
        <4> QED BY <1>0, <4>1
      <3> QED BY <1>0, <2>1, <3>1, AppendCounts
    <2>6. CASE d \in Keys(plan) /\ Wait(plan) = 0
      <3>1. attempts'[d] = Append(p, now)
        BY <2>3, <2>6
      <3> QED BY <2>2, <2>4, <2>5, <2>6, <3>1
    <2>7. CASE ~(d \in Keys(plan) /\ Wait(plan) = 0)
      <3>1. attempts'[d] = p
        BY <2>3, <2>7
      <3> QED BY <2>1, <2>2, <2>7, <3>1
    <2> QED BY <2>6, <2>7
  <1>4. \A d \in Domain : /\ blocked'[d] \in 0..(MaxTime + MaxDefer)
                          /\ blocked[d] > now => blocked'[d] = blocked[d]
    BY <1>0, <1>1 DEF Shape, Blocked
  <1>5. ASSUME Wait(plan) = 0, NEW s \in plan PROVE Len(attempts'[s.key]) <= s.max
    <2> DEFINE p == prune(attempts[s.key], WindowOf(s.key), now)
    <2>1. s.key \in Keys(plan) /\ s.key \in Domain /\ s \in Specs
      BY PlanFacts
    <2>2. p \in Seq(0..now)
      BY <2>1, PrunedStamps
    <2>3. Len(p) < s.max /\ s.max \in Nat
      BY <1>5, <2>1, WaitOfPlan, Windows
    <2>4. attempts'[s.key] = Append(p, now)
      BY <1>1, <1>5, <2>1, PlanFacts
    <2> HIDE DEF p
    <2>5. Len(Append(p, now)) = Len(p) + 1 /\ Len(p) \in Nat
      BY <1>0, <2>2
    <2> QED BY <2>3, <2>4, <2>5
  <1>6. attempts' \in [Domain -> Seq(0..now)] /\ blocked' \in [Domain -> 0..(MaxTime + MaxDefer)]
    BY <1>1, <1>3, <1>4
  <1> QED BY <1>3, <1>4, <1>5, <1>6

\* The admissions of a domain are finitely many, and one more is one more.
LEMMA SinceFinite ==
  ASSUME Shape, NEW d, NEW t
  PROVE  IsFiniteSet(Since(d, t)) /\ Cardinality(Since(d, t)) \in Nat /\ Len(hist) + 1 \notin Since(d, t)
  <1>1. hist \in Seq(Event) /\ Len(hist) \in Nat
    BY Recorded
  <1>2. Since(d, t) \in SUBSET (1..Len(hist))
    BY DEF Since
  <1>3. IsFiniteSet(1..Len(hist))
    BY <1>1, FS_Interval
  <1>4. IsFiniteSet(Since(d, t))
    BY <1>2, <1>3, FS_Subset
  <1> QED BY <1>1, <1>2, <1>4, FS_CardinalityType

\* A request that waits, or gives up, leaves the record alone.
LEMMA DeferredKeeps ==
  ASSUME RateAssumption, IInv, NEW plan \in Plans, admit_at(plan), Wait(plan) > 0, Callers',
         UNCHANGED <<now, accountLimit, hist>>
  PROVE  IInv'
  <1>0. /\ Shape /\ Tracks /\ Blocks /\ WindowLimit /\ NoneWhileThrottled /\ now \in Nat
        /\ Wait(plan) \in Nat /\ Wait(plan) # 0
    BY WaitOfPlan DEF IInv, Shape
  <1>1. Shape'
    BY <1>0, Admitting DEF Shape, Domain
  <1>2. Tracks'
    <2>1. ASSUME NEW d \in Domain, NEW t \in (now - WindowOf(d) + 1)..now
          PROVE  Cardinality(Stamps(attempts'[d], t)) = Cardinality(Since(d, t))
      <3>1. Cardinality(Stamps(attempts'[d], t)) = Cardinality(Stamps(attempts[d], t))
        BY <1>0, Admitting
      <3> QED BY <1>0, <3>1 DEF Tracks
    <2>2. ASSUME NEW d, NEW t PROVE Since(d, t)' = Since(d, t)
      BY DEF Since, Touches
    <2> QED BY <2>1, <2>2 DEF Tracks
  <1>3. Blocks'
    <2> SUFFICES ASSUME NEW k \in 1..Len(hist), hist[k].kind = "throttle", hist[k].until > now,
                        NEW d \in Keys(hist[k].plan)
                 PROVE  blocked'[d] >= hist[k].until
      BY DEF Blocks, Keys
    <2>1. hist[k].plan \in Plans /\ hist[k].until \in Nat
      BY <1>0, Recorded
    <2>2. d \in Domain
      BY <1>0, <2>1, PlanFacts
    <2>3. blocked[d] >= hist[k].until
      BY <1>0 DEF Blocks
    <2>4. blocked[d] \in Nat
      BY <1>0, <2>2 DEF Shape, RateAssumption
    <2>5. blocked[d] > now => blocked'[d] = blocked[d]
      BY <1>0, <2>2, Admitting
    <2> QED BY <1>0, <2>1, <2>3, <2>4, <2>5
  <1>4. WindowLimit' /\ NoneWhileThrottled'
    BY <1>0 DEF WindowLimit, InWindow, Admissions, Touches, NoneWhileThrottled, Keys
  <1> QED BY <1>1, <1>2, <1>3, <1>4 DEF IInv

\* A request that is sent is one more in each of its windows, and there was room for it.
LEMMA SentKeeps ==
  ASSUME RateAssumption, IInv, NEW plan \in Plans, admit_at(plan), Wait(plan) = 0, Callers',
         hist' = Append(hist, Admitted(plan)), UNCHANGED <<now, accountLimit>>
  PROVE  IInv'
  <1> DEFINE e == Admitted(plan)
  <1>0. Shape /\ Tracks /\ Blocks /\ WindowLimit /\ NoneWhileThrottled /\ now \in Nat
    BY DEF IInv, Shape
  <1>1. e \in Event /\ e.kind = "admit" /\ e.at = now /\ e.plan = plan
    BY <1>0 DEF Admitted, Event
  <1> HIDE DEF e
  <1>2. PICK n \in Nat : n = Len(hist) + 1 /\ Len(hist) \in Nat /\ hist' = Append(hist, e)
    BY <1>0, Recorded DEF e
  <1>3. /\ hist' \in Seq(Event) /\ Len(hist') = n /\ hist'[n] = e
        /\ \A k \in 1..Len(hist) : hist'[k] = hist[k]
        /\ 1..Len(hist') = 1..Len(hist) \cup {n}
    BY <1>0, <1>1, <1>2, RecordedNext
  <1>4. \A k \in 1..Len(hist) : /\ hist[k].at \in Nat /\ hist[k].at <= now /\ hist[k].until \in Nat
                                /\ hist[k].plan \in Plans
    BY <1>0, Recorded
  <1>5. Shape'
    <2>1. \A k \in 1..Len(hist') : hist'[k].at <= now'
      BY <1>0, <1>1, <1>3, <1>4
    <2>2. attempts' \in [Domain -> Seq(0..now)] /\ blocked' \in [Domain -> 0..(MaxTime + MaxDefer)]
      BY <1>0, Admitting
    <2> QED BY <1>0, <1>3, <2>1, <2>2 DEF Shape, Domain
  <1>6. \A d : Touches(e, d) <=> d \in Keys(plan)
    BY <1>1 DEF Touches, Keys
  <1>7. ASSUME NEW d \in Domain, NEW t \in (now - WindowOf(d) + 1)..now
        PROVE  Cardinality(Stamps(attempts'[d], t)) = Cardinality(Since(d, t)')
    <2>0. t \in Int /\ t <= now
      <3>1. WindowOf(d) \in Nat
        BY Windows
      <3> QED BY <1>0, <3>1
    <2>1. Cardinality(Stamps(attempts[d], t)) = Cardinality(Since(d, t))
      BY <1>0 DEF Tracks
    <2>2. IsFiniteSet(Since(d, t)) /\ Cardinality(Since(d, t)) \in Nat /\ n \notin Since(d, t)
      BY <1>0, <1>2, SinceFinite
    <2>3. CASE d \in Keys(plan)
      <3>1. Since(d, t)' = Since(d, t) \cup {n}
        BY <1>0, <1>1, <1>3, <1>6, <2>0, <2>3 DEF Since, Touches
      <3>2. Cardinality(Since(d, t) \cup {n}) = Cardinality(Since(d, t)) + 1
        BY <2>2, FS_AddElement
      <3>3. Cardinality(Stamps(attempts'[d], t)) = Cardinality(Stamps(attempts[d], t)) + 1
        BY <1>0, <2>3, Admitting
      <3> QED BY <2>1, <3>1, <3>2, <3>3
    <2>4. CASE d \notin Keys(plan)
      <3>1. Since(d, t)' = Since(d, t)
        BY <1>0, <1>1, <1>3, <1>6, <2>4 DEF Since, Touches
      <3>3. Cardinality(Stamps(attempts'[d], t)) = Cardinality(Stamps(attempts[d], t))
        BY <1>0, <2>4, Admitting
      <3> QED BY <2>1, <3>1, <3>3
    <2> QED BY <2>3, <2>4
  <1>8. Tracks'
    BY <1>7 DEF Tracks
  <1>9. Blocks'
    <2> SUFFICES ASSUME NEW k \in 1..Len(hist'), hist'[k].kind = "throttle", hist'[k].until > now,
                        NEW d \in Keys(hist'[k].plan)
                 PROVE  blocked'[d] >= hist'[k].until
      BY <1>0 DEF Blocks, Keys
    <2>1. k \in 1..Len(hist) /\ hist'[k] = hist[k]
      BY <1>1, <1>3
    <2>2. d \in Domain
      BY <1>0, <1>4, <2>1, PlanFacts
    <2>3. blocked[d] >= hist[k].until
      BY <1>0, <2>1 DEF Blocks
    <2>4. blocked[d] \in Nat
      BY <1>0, <2>2 DEF Shape, RateAssumption
    <2>5. blocked[d] > now => blocked'[d] = blocked[d]
      BY <1>0, <2>2, Admitting
    <2> QED BY <1>0, <1>4, <2>1, <2>3, <2>4, <2>5
  <1>10. WindowLimit'
    <2>1. ASSUME NEW k \in 1..Len(hist), hist[k].kind = "admit", NEW s \in hist[k].plan
          PROVE  Cardinality(InWindow(s, k)') <= s.max
      <3>1. k \in Nat /\ ~(n <= k)
        BY <1>2
      <3>2. InWindow(s, k)' = InWindow(s, k)
        BY <1>3, <3>1 DEF InWindow, Admissions, Touches
      <3> QED BY <1>0, <2>1, <3>2 DEF WindowLimit
    <2>2. ASSUME NEW s \in plan PROVE Cardinality(InWindow(s, n)') <= s.max
      <3> DEFINE d == s.key
      <3>0. PICK t : t = now - WindowOf(d) + 1
        OBVIOUS
      <3>1. d \in Domain /\ s.window = WindowOf(d) /\ s.max \in Nat /\ WindowOf(d) \in Nat \ {0}
        BY <1>0, PlanFacts, Windows
      <3>2. t \in (now - WindowOf(d) + 1)..now
        BY <1>0, <3>0, <3>1
      <3>3. \A k \in 1..Len(hist') : k <= n /\ hist'[k].at <= now
        BY <1>0, <1>1, <1>3, <1>2, <1>4
      <3>4. InWindow(s, n)' = Since(d, t)'
        BY <1>1, <1>3, <3>0, <3>1, <3>3 DEF InWindow, Admissions, Since, Touches
      <3>5. Cardinality(Stamps(attempts'[d], t)) = Cardinality(Since(d, t)')
        BY <1>7, <3>1, <3>2
      <3>6. attempts'[d] \in Seq(0..now) /\ Len(attempts'[d]) <= s.max
        BY <1>0, <3>1, Admitting
      <3>7. /\ Cardinality(Stamps(attempts'[d], t)) \in Nat
            /\ Cardinality(Stamps(attempts'[d], t)) <= Len(attempts'[d]) /\ Len(attempts'[d]) \in Nat
        BY <3>6, StampsFinite
      <3> QED BY <3>1, <3>4, <3>5, <3>6, <3>7
    <2>3. ASSUME NEW k \in 1..Len(hist'), hist'[k].kind = "admit", NEW s \in hist'[k].plan
          PROVE  Cardinality(InWindow(s, k)') <= s.max
      <3>1. CASE k = n
        BY <1>1, <1>3, <2>2, <2>3, <3>1
      <3>2. CASE k \in 1..Len(hist)
        BY <1>3, <2>1, <2>3, <3>2
      <3> QED BY <1>3, <3>1, <3>2
    <2> QED BY <2>3 DEF WindowLimit
  <1>11. NoneWhileThrottled'
    <2> SUFFICES ASSUME NEW k \in 1..Len(hist'), NEW j \in 1..Len(hist'), k < j,
                        hist'[k].kind = "throttle", hist'[j].kind = "admit",
                        Keys(hist'[k].plan) \cap Keys(hist'[j].plan) # {}
                 PROVE  hist'[j].at >= hist'[k].until
      BY DEF NoneWhileThrottled, Keys
    <2>1. k \in 1..Len(hist) /\ hist'[k] = hist[k]
      BY <1>1, <1>3
    <2>2. CASE j \in 1..Len(hist)
      BY <1>0, <1>3, <2>1, <2>2 DEF NoneWhileThrottled
    <2>3. CASE j = n
      <3>1. PICK d : d \in Keys(hist[k].plan) /\ d \in Keys(plan)
        BY <1>1, <1>3, <2>1, <2>3
      <3>2. d \in Domain /\ \E s \in plan : s.key = d
        BY <1>0, <3>1, PlanFacts
      <3>3. blocked[d] <= now /\ blocked[d] \in Nat
        <4>1. \A s \in plan : blocked[s.key] <= now
          BY <1>0, WaitOfPlan
        <4>2. blocked[d] \in Nat
          BY <1>0, <3>2 DEF Shape, RateAssumption
        <4> QED BY <3>2, <4>1, <4>2
      <3>4. hist[k].until > now => blocked[d] >= hist[k].until
        BY <1>0, <2>1, <3>1 DEF Blocks
      <3> QED BY <1>0, <1>1, <1>3, <1>4, <2>1, <2>3, <3>3, <3>4
    <2> QED BY <1>3, <2>2, <2>3
  <1> QED BY <1>5, <1>8, <1>9, <1>10, <1>11 DEF IInv

\* An admission keeps the invariant, however it ends.
LEMMA AdmitKeeps ==
  ASSUME RateAssumption, IInv, NEW c \in Caller, Admit(c)
  PROVE  IInv'
  <1> DEFINE plan == caller[c].plan
  <1>0. /\ Shape /\ Callers /\ now \in Nat /\ CallerOK(caller[c]) /\ caller[c].pc # "idle" /\ admit_at(plan)
        /\ UNCHANGED <<now, accountLimit>> /\ MaxDefer \in Nat \ {0} /\ MaxWait \in Nat \ {0}
        /\ Send(c) \/ FailFast(c) \/ Defer(c) \/ GiveUp(c)
    BY DEF IInv, Shape, Callers, Admit, Ready, RateAssumption
  <1>1. /\ plan \in Plans /\ plan \in SUBSET Specs /\ caller[c].queued \in BOOLEAN /\ caller[c].started \in 0..now
        /\ caller[c].wake \in Nat /\ caller = [b \in Caller |-> caller[b]]
        /\ caller[c] = [pc |-> caller[c].pc, plan |-> caller[c].plan, queued |-> caller[c].queued,
                        started |-> caller[c].started, wake |-> caller[c].wake]
    BY <1>0 DEF CallerOK, Callers
  <1>2. Wait(plan) \in Nat
    BY <1>0, <1>1, WaitOfPlan
  <1>3. CASE Send(c)
    <2> DEFINE r == [caller[c] EXCEPT !.pc = "sent"]
    <2>1. /\ Wait(plan) = 0 /\ hist' = Append(hist, Admitted(plan)) /\ caller' = [caller EXCEPT ![c] = r]
      BY <1>1, <1>3 DEF Send
    <2>2. r = [pc |-> "sent", plan |-> caller[c].plan, queued |-> caller[c].queued,
               started |-> caller[c].started, wake |-> caller[c].wake]
      BY <1>1
    <2>3. CallerOK(r)
      BY <1>1, <2>2 DEF CallerOK
    <2> HIDE DEF r
    <2>4. Callers'
      BY <1>0, <2>1, <2>3, CallerMoves
    <2> QED BY <1>0, <1>1, <2>1, <2>4, SentKeeps
  <1>4. CASE FailFast(c) \/ GiveUp(c)
    <2>1. Wait(plan) > 0 /\ UNCHANGED hist /\ caller' = [caller EXCEPT ![c] = Idle]
      BY <1>4 DEF FailFast, GiveUp
    <2>2. Callers'
      BY <1>0, <2>1, IdleOK, CallerMoves
    <2> QED BY <1>0, <1>1, <2>1, <2>2, DeferredKeeps
  <1>5. CASE Defer(c)
    <2> DEFINE x == local_defer(plan)
               r == [caller[c] EXCEPT !.pc = "waiting", !.wake = now + x]
    <2>1. Wait(plan) > 0 /\ UNCHANGED hist /\ x <= Remaining(c) /\ caller' = [caller EXCEPT ![c] = r]
      BY <1>1, <1>5 DEF Defer
    <2>2. x \in Nat \ {0}
      <3>1. \A u \in Int, hi \in Nat \ {0} : Clamp(u, 1, hi) \in 1..hi
        BY Bounds
      <3>2. Clamp(Wait(plan), 1, MaxDefer) \in 1..MaxDefer
        BY <1>0, <1>2, <3>1
      <3> QED BY <1>0, <3>2 DEF local_defer
    <2>3. x <= MaxWait - (now - caller[c].started)
      <3> DEFINE y == MaxWait - (now - caller[c].started)
      <3>1. \A u, v \in Int : Max({u, v}) = IF u >= v THEN u ELSE v
        BY Bounds
      <3>2. y \in Int
        BY <1>0, <1>1
      <3>3. Remaining(c) = Max({y, 0})
        BY DEF Remaining
      <3> HIDE DEF y, x
      <3>4. Remaining(c) = IF y >= 0 THEN y ELSE 0
        BY <3>1, <3>2, <3>3
      <3>5. x <= y
        BY <2>1, <2>2, <3>2, <3>4
      <3> QED BY <3>5 DEF y
    <2> HIDE DEF x
    <2>4. now + x \in Nat /\ now + x <= caller[c].started + MaxWait
      BY <1>0, <1>1, <2>2, <2>3
    <2>5. /\ r \in [pc : {"idle", "planned", "waiting", "sent"}, plan : SUBSET Specs, queued : BOOLEAN,
                    started : 0..now, wake : Nat]
          /\ r.plan = plan /\ r.started = caller[c].started /\ r.wake = now + x
      BY <1>0, <1>1, <2>4 DEF CallerOK
    <2>6. CallerOK(r)
      BY <1>1, <2>4, <2>5 DEF CallerOK
    <2> HIDE DEF r
    <2>7. Callers'
      BY <1>0, <2>1, <2>6, CallerMoves
    <2> QED BY <1>0, <1>1, <2>1, <2>7, DeferredKeeps
  <1> QED BY <1>0, <1>3, <1>4, <1>5

\* The budget starts empty, and nothing has been recorded.
LEMMA InitKeeps == ASSUME RateAssumption, Init PROVE IInv
  <1>1. /\ now = 0 /\ now \in 0..MaxTime /\ accountLimit \in Nat \ {0} /\ hist = <<>>
        /\ attempts = [d \in Domain |-> <<>>] /\ blocked = [d \in Domain |-> 0]
        /\ caller = [c \in Caller |-> Idle] /\ MaxTime \in Nat /\ MaxDefer \in Nat
    BY DEF Init, RateAssumption
  <1>2. hist \in Seq(Event) /\ 1..Len(hist) = {}
    BY <1>1
  <1>3. Shape
    <2>1. <<>> \in Seq(0..now)
      OBVIOUS
    <2>2. attempts \in [Domain -> Seq(0..now)] /\ blocked \in [Domain -> 0..(MaxTime + MaxDefer)]
      BY <1>1, <2>1
    <2> QED BY <1>1, <1>2, <2>2 DEF Shape
  <1>4. Callers
    BY <1>1, <1>3, IdleOK DEF Callers
  <1>5. Tracks
    <2> SUFFICES ASSUME NEW d \in Domain, NEW t
                 PROVE  Cardinality(Stamps(attempts[d], t)) = Cardinality(Since(d, t))
      BY DEF Tracks
    <2>1. attempts[d] = <<>> /\ Len(<<>>) = 0
      BY <1>1
    <2>2. Stamps(attempts[d], t) = {}
      BY <2>1 DEF Stamps
    <2>3. Since(d, t) = {}
      BY <1>2 DEF Since
    <2> QED BY <2>2, <2>3
  <1>6. Blocks /\ WindowLimit /\ NoneWhileThrottled
    BY <1>2 DEF Blocks, WindowLimit, NoneWhileThrottled
  <1> QED BY <1>3, <1>4, <1>5, <1>6 DEF IInv

\* Every step keeps the invariant.
LEMMA NextKeeps == ASSUME RateAssumption, IInv, [Next]_vars PROVE IInv'
  <1>0. Shape /\ accountLimit \in Nat \ {0}
    BY DEF IInv, Shape
  <1>1. ASSUME NEW c \in Caller, NEW i \in Instrument,
               PlaceOrder(c, i) \/ AmendOrder(c, i) \/ CancelOrder(c, i) \/ CancelAlgo(c, i) \/ AmendAlgo(c, i)
        PROVE  IInv'
    <2>1. /\ \A op \in TradeOps : trade_rest_plan(op, i) \in Plans
          /\ \A op \in AlgoOps : private_rest_plan(<<op, i>>) \in Plans
      BY <1>0, PlansMade
    <2>2. PICK plan \in Plans : Planned(c, plan, FALSE)
      BY <1>1, <2>1, Zenon DEF PlaceOrder, AmendOrder, CancelOrder, CancelAlgo, AmendAlgo, TradeOps, AlgoOps
    <2> QED BY <2>2, PlannedKeeps
  <1>2. ASSUME NEW c \in Caller, NEW path \in Paths,
               PublicRead(c, path) \/ QueuedRead(c, path) \/ PrivateRead(c, path)
        PROVE  IInv'
    <2>1. public_rest_plan(path) \in Plans /\ private_rest_plan(<<"private", path>>) \in Plans
      BY <1>0, PlansMade
    <2>2. PICK plan \in Plans, queued \in BOOLEAN : Planned(c, plan, queued)
      BY <1>2, <2>1, Zenon DEF PublicRead, QueuedRead, PrivateRead
    <2> QED BY <2>2, PlannedKeeps
  <1>3. ASSUME NEW c \in Caller, Admit(c) \/ Answered(c) PROVE IInv'
    BY <1>3, AdmitKeeps, AnswerKeeps
  <1>4. ASSUME NEW c \in Caller, NEW code \in Codes, NEW retry \in RetryAfter, Throttle(c, code, retry)
        PROVE  IInv'
    BY <1>4, ThrottleKeeps
  <1>5. ASSUME NEW limit \in AccountLimits, update_subaccount_rate_limit(limit) PROVE IInv'
    BY <1>5, AnswerKeeps
  <1>6. CASE Tick
    BY <1>6, TickKeeps
  <1>7. CASE UNCHANGED vars
    <2>1. Callers'
      BY <1>7 DEF vars, IInv, Callers, CallerOK
    <2> QED BY <1>0, <1>7, <2>1, CallersKeep DEF vars
  <1> QED BY <1>1, <1>2, <1>3, <1>4, <1>5, <1>6, <1>7 DEF Next, Finished

\* The budget keeps its invariant whatever the callers, the limits and the answers are.
THEOREM Invariance == ASSUME RateAssumption PROVE Spec => []IInv
  <1>1. Init => IInv
    BY InitKeeps
  <1>2. IInv /\ [Next]_vars => IInv'
    BY NextKeeps
  <1> QED BY <1>1, <1>2, PTL DEF Spec

\* Every stamp is in the past, every caller in a known state and every plan
\* over domains of the budget (RateBudget and the clients of rate.rs).
THEOREM RateTypeCorrect == ASSUME RateAssumption PROVE Spec => []TypeOK
  <1>1. ASSUME IInv PROVE TypeOK
    <2>0. Shape /\ Callers
      BY <1>1 DEF IInv
    <2>1. ASSUME NEW d \in Domain PROVE Range(attempts[d]) \subseteq 0..now
      <3> DEFINE q == attempts[d]
      <3>1. q \in Seq(0..now) /\ \A k \in 1..Len(q) : q[k] \in 0..now
        BY <2>0, Recorded
      <3> HIDE DEF q
      <3>2. DOMAIN q = 1..Len(q)
        BY <3>1
      <3>3. Range(q) \subseteq 0..now
        BY <3>1, <3>2 DEF Range
      <3> QED BY <3>3 DEF q
    <2>2. ASSUME NEW c \in Caller
          PROVE  /\ caller[c].pc \in {"idle", "planned", "waiting", "sent"}
                 /\ Keys(caller[c].plan) \subseteq Domain
      <3>1. CallerOK(caller[c])
        BY <2>0 DEF Callers
      <3>2. caller[c].pc \in {"idle", "planned", "waiting", "sent"} /\ caller[c].plan \in SUBSET Specs
        BY <3>1 DEF CallerOK
      <3> QED BY <3>2, Windows DEF Keys
    <2>3. /\ now \in 0..MaxTime /\ accountLimit \in Nat \ {0} /\ DOMAIN attempts = Domain
          /\ blocked \in [Domain -> 0..(MaxTime + MaxDefer)]
      BY <2>0 DEF Shape
    <2> QED BY <2>1, <2>2, <2>3 DEF TypeOK
  <1> QED BY <1>1, Invariance, PTL

\* Within any window of any domain, never more requests leave than the limit
\* of the last of them allows (admit_at), whatever the account limit was set
\* to in between and however the callers interleave.
THEOREM WindowLimitHolds == ASSUME RateAssumption PROVE Spec => []WindowLimit
  <1>1. IInv => WindowLimit
    BY DEF IInv
  <1> QED BY <1>1, Invariance, PTL

\* Requests that were deferred or refused spent nothing: the window of every
\* domain counts exactly the requests that left (admit_at, prune).
THEOREM BudgetExact == ASSUME RateAssumption PROVE Spec => []BudgetCountsAdmissions
  <1>1. ASSUME IInv PROVE BudgetCountsAdmissions
    <2> SUFFICES ASSUME NEW d \in Domain
                 PROVE  Cardinality({k \in 1..Len(attempts[d]) : attempts[d][k] > now - WindowOf(d)})
                          = Cardinality(Admissions(d, now - WindowOf(d) + 1, now))
      BY DEF BudgetCountsAdmissions
    <2> DEFINE t == now - WindowOf(d) + 1
               q == attempts[d]
    <2>0. Shape /\ Tracks /\ now \in Nat /\ WindowOf(d) \in Nat \ {0}
      BY <1>1, Windows DEF IInv, Shape
    <2>1. t \in (now - WindowOf(d) + 1)..now
      BY <2>0
    <2>2. Cardinality(Stamps(q, t)) = Cardinality(Since(d, t))
      BY <2>0, <2>1 DEF Tracks
    <2>3. \A k \in 1..Len(q) : q[k] \in 0..now
      BY <2>0, Recorded
    <2>4. {k \in 1..Len(q) : q[k] > now - WindowOf(d)} = Stamps(q, t)
      BY <2>0, <2>3 DEF Stamps
    <2>5. \A k \in 1..Len(hist) : hist[k].at <= now
      BY <2>0, Recorded
    <2>6. Admissions(d, t, now) = Since(d, t)
      BY <2>5 DEF Admissions, Since
    <2> QED BY <2>2, <2>4, <2>6
  <1> QED BY <1>1, Invariance, PTL

\* Once the exchange answered a throttle, no request of its domains leaves
\* before the recorded time (record_exchange_throttle), even when admissions
\* clear lapsed blocks and answers arrive out of order.
THEOREM ThrottleRespected == ASSUME RateAssumption PROVE Spec => []NoneWhileThrottled
  <1>1. IInv => NoneWhileThrottled
    BY DEF IInv
  <1> QED BY <1>1, Invariance, PTL

\* A queued read never sleeps past the wait its caller asked for (admit_wait).
THEOREM QueueWaitBounded == ASSUME RateAssumption PROVE Spec => []WaitIsBounded
  <1>1. IInv => WaitIsBounded
    BY DEF IInv, Callers, CallerOK, WaitIsBounded
  <1> QED BY <1>1, Invariance, PTL
=================================================================================
