------------------------------- MODULE SourceCache -------------------------------
(***************************************************************************)
(* Public history for analytics and live signals (okx-agent/src/analytics):*)
(* Sources::candles and Sources::funding (sources.rs) over SourceCache     *)
(* (cache.rs), and the pages they read (market_bootstrap.rs, history.rs).  *)
(*                                                                         *)
(* Time is counted in bars: bar t is open from t to t + 1, the local clock *)
(* says that the bars before `now` are closed, and the exchange has marked *)
(* those before `confirmed`.  The exchange may be late by one bar.  Values *)
(* of bars are left out; the size of an entry is its number of bars.       *)
(*                                                                         *)
(* A load takes the lock of its key, looks the key up, waits for one of    *)
(* the permits and reads pages backwards.  The lock is owned by the loads  *)
(* that hold a reference to it: the map of locks keeps a weak one.  A load *)
(* can be dropped at any of its awaits (a deadline, a cancelled job).      *)
(***************************************************************************)
EXTENDS Integers, FiniteSets, FiniteSetsExt

CONSTANTS
    Loads,      \* tasks that load a range, once each
    Queries,    \* [kind |-> "candles" | "funding" | "oi", start, end] they may ask for
    PageSize,   \* rows of a page (100)
    Permits,    \* permits of the source (8)
    Bytes,      \* limit of the cache (256 MiB)
    Metadata,   \* entries of the map of excluded rows (1000)
    First,      \* the oldest bar the exchange has
    Funded,     \* times of funding events
    MaxTime,    \* bound: the clock stops here
    Faults      \* subset of {"failed", "dropped"}

SourceCacheAssumption ==
    /\ PageSize \in Nat \ {0} /\ Permits \in Nat \ {0} /\ Bytes \in Nat /\ Metadata \in Nat \ {0}
    /\ First \in Nat /\ MaxTime \in Nat

VARIABLES
    now,        \* bars that are closed by the local clock
    confirmed,  \* bars that the exchange marks confirmed
    entries,    \* set of [key, bars]: what the cache holds
    locks,      \* set of <<key, lock>>: the map of weak references
    excluded,   \* keys with a count of excluded rows
    load        \* task -> its progress

vars == <<now, confirmed, entries, locks, excluded, load>>

Key(q) == [start |-> q.start, end |-> q.end]
NoLock == 0
Idle == [pc |-> "idle", q |-> [kind |-> "candles", start |-> 0, end |-> 0], lock |-> NoLock,
         cursor |-> 0, rows |-> {}, known |-> {}]

\* What the exchange has, and what of it may be used.
Rows(kind) ==
    CASE kind = "funding" -> {t \in Funded: t < now}
      [] OTHER -> {t \in First..MaxTime: t < now}
Usable(kind) == IF kind = "candles" THEN {t \in Rows(kind): t < confirmed} ELSE Rows(kind)
InRange(q) == {t \in q.start..(q.end - 1): t >= 0}

-----------------------------------------------------------------------------
(* The cache *)

\* Locks some load still refers to.
Alive == {load[l].lock: l \in Loads} \ {NoLock}

lock_of_mutant(key) == Min(1..Cardinality(Loads) \ Alive)

\* The lock of a key: the one in the map if it is alive, or a new one.
lock_of(key) ==
    LET held == {p \in locks: p[1] = key /\ p[2] \in Alive}
    IN IF held # {} THEN (CHOOSE p \in held: TRUE)[2]
       ELSE Min(1..Cardinality(Loads) \ Alive)

Locked == {"permit", "fetch"}
HoldsPermit == {l \in Loads: load[l].pc = "fetch"}

Cost(es) == MapThenSumSet(LAMBDA e: Cardinality(e.bars), es)

\* The map is ordered by key: source, instrument, timeframe, start and end.
Before(a, b) == a.start < b.start \/ (a.start = b.start /\ a.end < b.end)

\* The n entries with the smallest keys go.
Evicted(es, n) ==
    {e \in es: Cardinality({f \in es: Before(f.key, e.key)}) < n}

stored_mutant(e) ==
    LET n == Min({k \in 0..Cardinality(entries): Cost(entries \ Evicted(entries, k)) <= Bytes})
    IN (entries \ Evicted(entries, n)) \cup {e}

\* Insertion evicts the first keys until the new entry fits.
stored(e) ==
    LET n == Min({k \in 0..Cardinality(entries):
                    Cost(entries \ Evicted(entries, k)) + Cardinality(e.bars) <= Bytes})
    IN (entries \ Evicted(entries, n)) \cup {e}

noted(keys, k) ==
    LET n == Max({0, Cardinality(keys) - Metadata + 1})
    IN {j \in keys: Cardinality({i \in keys: Before(i, j)}) >= n} \cup {k}

-----------------------------------------------------------------------------
(* A load *)

Set(l, r) == load' = [load EXCEPT ![l] = r]
Ends(l, status, rows, known) ==
    Set(l, [load[l] EXCEPT !.pc = status, !.rows = rows, !.known = known, !.lock = NoLock])

clipped(q) == [q EXCEPT !.end = IF q.kind = "candles" THEN Min({q.end, now}) ELSE q.end]

\* candles(): the end of the range is clipped to the last closed bar before
\* the key is made.  funding() and the reads of the ticker and of the open
\* interest only take a permit.
Begin(l, q) ==
    LET c == clipped(q) IN
    /\ load[l].pc = "idle"
    /\ IF q.kind = "candles" /\ c.end <= c.start
       THEN Ends(l, "refused", {}, {}) /\ UNCHANGED locks
       ELSE IF q.kind = "candles"
       THEN LET id == lock_of(Key(c)) IN
            /\ Set(l, [Idle EXCEPT !.pc = "lock", !.q = c, !.lock = id])
            /\ locks' = {p \in locks: p[2] \in Alive /\ p[1] # Key(c)} \cup {<<Key(c), id>>}
       ELSE Set(l, [Idle EXCEPT !.pc = "permit", !.q = c]) /\ UNCHANGED locks
    /\ UNCHANGED <<now, confirmed, entries, excluded>>

\* The lock is free for the next: look the key up.  `known` is a history
\* variable: the rows that a reading which begins now must find.
AcquireLock(l) ==
    /\ load[l].pc = "lock"
    /\ \A m \in Loads \ {l}: load[m].lock = load[l].lock => load[m].pc \notin Locked
    /\ LET hit == {e \in entries: e.key = Key(load[l].q)} IN
       IF hit # {}
       THEN \E e \in hit: Ends(l, "hit", e.bars, Usable("candles") \cap InRange(load[l].q))
       ELSE Set(l, [load[l] EXCEPT !.pc = "permit"])
    /\ UNCHANGED <<now, confirmed, entries, locks, excluded>>

HasPermit_mutant == TRUE
\* A permit that a failed load forgets to give back.
HasPermit_leak_mutant == Cardinality({l \in Loads: load[l].pc \in {"fetch", "failed"}}) < Permits
HasPermit == Cardinality(HoldsPermit) < Permits

AcquirePermit(l) ==
    /\ load[l].pc = "permit" /\ HasPermit
    /\ LET q == load[l].q IN
       Set(l, [load[l] EXCEPT !.pc = "fetch", !.rows = {},
                              !.cursor = IF q.kind = "oi" THEN MaxTime + 1 ELSE q.end,
                              !.known = Usable(q.kind) \cap InRange(q)])
    /\ UNCHANGED <<now, confirmed, entries, locks, excluded>>

page_mutant(kind, cursor) ==
    {t \in Rows(kind): t <= cursor /\ Cardinality({u \in Rows(kind): t < u /\ u <= cursor}) < PageSize}

\* A page: the newest rows before the cursor (normalize_research_candles
\* sorts them and refuses a row that appears twice).
page(kind, cursor) ==
    {t \in Rows(kind): t < cursor /\ Cardinality({u \in Rows(kind): t < u /\ u < cursor}) < PageSize}

usable_mutant(kind, rows, q) == rows \cap InRange(q)
usable(kind, rows, q) == rows \cap Usable(kind) \cap InRange(q)

last_page_mutant(rows, q, cursor) == Cardinality(rows) < PageSize \/ Min(rows) <= q.start + 1
last_page(rows, q, cursor) == rows = {} \/ Min(rows) <= q.start \/ Min(rows) >= cursor

\* OI_RANGE_INCOMPLETE: one page has to reach both ends of the range.
reaches(rows, q) == rows # {} /\ Min(rows) <= q.start + 1 /\ Max(rows) + 1 >= q.end

\* The end of a candle reading: an empty or a too large range is an error,
\* anything else is stored under its key.
Keep(l, rows) ==
    LET q == load[l].q
        e == [key |-> Key(q), bars |-> rows] IN
    IF rows = {} \/ Cardinality(rows) > Bytes
    THEN /\ Ends(l, "failed", {}, {}) /\ UNCHANGED entries
         /\ excluded' = IF rows = {} THEN excluded ELSE noted(excluded, Key(q))
    ELSE /\ Ends(l, "done", rows, load[l].known) /\ entries' = stored(e)
         /\ excluded' = noted(excluded, Key(q))

Page(l) ==
    /\ load[l].pc = "fetch"
    /\ LET q == load[l].q
           got == page(q.kind, load[l].cursor)
           rows == load[l].rows \cup usable(q.kind, got, q) IN
       CASE q.kind = "oi" ->
              /\ IF reaches(rows, q) THEN Ends(l, "done", rows, load[l].known)
                 ELSE Ends(l, "failed", {}, {})
              /\ UNCHANGED <<entries, excluded>>
         [] ~last_page(got, q, load[l].cursor) ->
              Set(l, [load[l] EXCEPT !.rows = rows, !.cursor = Min(got)]) /\ UNCHANGED <<entries, excluded>>
         [] q.kind = "candles" -> Keep(l, rows)
         [] OTHER ->
              /\ IF rows = {} THEN Ends(l, "failed", {}, {}) ELSE Ends(l, "done", rows, load[l].known)
              /\ UNCHANGED <<entries, excluded>>
    /\ UNCHANGED <<now, confirmed, locks>>

\* A page that cannot be read ends the load; nothing is stored.
PageFails(l) ==
    /\ "failed" \in Faults /\ load[l].pc = "fetch" /\ Ends(l, "failed", {}, {})
    /\ UNCHANGED <<now, confirmed, entries, locks, excluded>>

\* The deadline of load_closed_closes, or a cancelled job, drops the load at
\* an await: its lock and its permit are released.
Dropped(l) ==
    /\ "dropped" \in Faults /\ load[l].pc \in {"lock", "permit", "fetch"} /\ Ends(l, "failed", {}, {})
    /\ UNCHANGED <<now, confirmed, entries, locks, excluded>>

-----------------------------------------------------------------------------
Tick ==
    /\ now < MaxTime /\ confirmed = now /\ now' = now + 1
    /\ UNCHANGED <<confirmed, entries, locks, excluded, load>>

Confirm ==
    /\ confirmed < now /\ confirmed' = confirmed + 1
    /\ UNCHANGED <<now, entries, locks, excluded, load>>

Init ==
    /\ now \in 1..MaxTime /\ confirmed = now
    /\ entries = {} /\ locks = {} /\ excluded = {}
    /\ load = [l \in Loads |-> Idle]

Step(l) == AcquireLock(l) \/ AcquirePermit(l) \/ Page(l)

Next ==
    \/ \E l \in Loads: Step(l) \/ PageFails(l) \/ Dropped(l) \/ \E q \in Queries: Begin(l, q)
    \/ Tick \/ Confirm

Spec == Init /\ [][Next]_vars

\* tokio runs every task that can go on.
FairSpec == Spec /\ \A l \in Loads: WF_vars(Step(l))

-----------------------------------------------------------------------------
Started == {"lock", "permit", "fetch"}
Served == {"done", "hit"}

TypeOK ==
    /\ now \in 1..MaxTime /\ confirmed \in 0..now
    /\ \A l \in Loads: load[l].pc \in Started \cup {"idle", "refused", "failed"} \cup Served
    /\ \A e \in entries: e.bars \subseteq First..MaxTime
    /\ Cardinality({e.key: e \in entries}) = Cardinality(entries)

\* However loads of one range overlap, end or are dropped, at most one of
\* them reads it from the exchange (the lock of SourceCache::load).
SingleFlight ==
    \A l, m \in Loads: l # m /\ load[l].pc = "fetch" /\ load[m].pc = "fetch"
        /\ load[l].q.kind = "candles" /\ load[m].q.kind = "candles" => load[l].q # load[m].q

\* The source is read by at most Permits tasks at a time, those that take a
\* permit without the cache included (SourceCache::permit).
PermitsAreFew == Cardinality(HoldsPermit) <= Permits

\* The cache never holds more than its limit (the eviction of load).
CacheIsBounded == Cost(entries) <= Bytes /\ Cardinality(excluded) <= Metadata

\* A load that reads the pages has every usable row that existed when the
\* reading began, wherever they were cut.  One that is served from the cache
\* has every row that is usable now but, it may be, the last of its range:
\* the exchange had not confirmed that bar when the range was read, and the
\* short range is kept under the same key (sources.rs drops the bar, the
\* key of cache.rs does not say so).
NothingSkipped ==
    \A l \in Loads: load[l].pc \in Served /\ load[l].q.kind # "oi" =>
        load[l].known \ load[l].rows \subseteq IF load[l].pc = "hit" THEN {load[l].q.end - 1} ELSE {}

\* Only closed and confirmed bars of the range that was asked for are handed
\* out: a signal never sees the bar that is still moving.
OnlyClosedBars ==
    \A l \in Loads: load[l].pc \in Served /\ load[l].q.kind = "candles" =>
        \A t \in load[l].rows: t < confirmed /\ t \in InRange(load[l].q)

\* No order of locks, permits, failures and drops leaves a load waiting for
\* ever.
EveryLoadEnds == \A l \in Loads: load[l].pc \in Started ~> load[l].pc \notin Started
=============================================================================
