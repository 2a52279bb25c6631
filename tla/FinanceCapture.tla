------------------------------ MODULE FinanceCapture ------------------------------
(***************************************************************************)
(* The capture of an account's history from the venue                      *)
(* (crates/okx-agent/src/source_capture.rs): a snapshot, one page of each  *)
(* history stream, and the NAV job, every one of them an await.  Several   *)
(* captures run at once: the finance loop, the reconciliation and the      *)
(* recovery share the account's cursors.  A fact is its stream and its     *)
(* time; bills stand for both transfers and funding.  The ledger is the    *)
(* set of facts ingested (FinanceLedger has what becomes of them).  There  *)
(* are two clocks: the venue stamps the facts by its own and a capture     *)
(* ends its windows by the host's, which may be ahead and may be set back. *)
(***************************************************************************)
EXTENDS Integers, Sequences, FiniteSets, FiniteSetsExt

CONSTANTS
    Stream,     \* history streams: "fills" and "bills"; the code has four of fills
    Capturer,   \* tasks that may run a capture
    PageSize,   \* rows of a history page, 100 in the code
    Skews,      \* what the host's clock may be ahead of the venue's by
    MaxTime,    \* bound on the venue's clock
    MaxFacts,   \* bound on the facts of the venue
    MaxGen      \* bound on the generations of the private connection

CaptureAssumption == PageSize \in Nat \ {0} /\ Skews \subseteq Nat /\ Skews # {} /\ MaxTime \in Nat /\ MaxFacts \in Nat /\ MaxGen \in Nat \ {0}

T0 == 0
Time == T0..MaxTime
HostTime == T0..(MaxTime + Max(Skews))
Fact == Stream \X Time

VARIABLES
    now,         \* the venue's clock
    venue,       \* facts of the exchange
    gen,         \* connection_generation of the private socket
    ledger,      \* facts ingested
    cursor,      \* source_cursors of the streams
    snapCursor,  \* source_cursors account_snapshot
    cap,         \* captures under way
    nav,         \* the last account NAV point
    valued,      \* the last strategy valuation
    attributed,  \* funding events attributed, and the fills known then
    overtaken    \* history: facts stamped behind a moment already taken from the host's clock

world == <<now, venue, gen, overtaken>>
store == <<ledger, cursor, snapCursor, nav, valued, attributed>>
vars == <<world, store, cap>>

NoCursor == [watermark |-> -1, gen |-> 0, window |-> <<>>]
NoPoint == [time |-> -1, complete |-> FALSE, equity |-> {}, flows |-> {}]
Idle == [pc |-> "idle", gen |-> 0, at |-> 0, equity |-> <<>>, cursors |-> <<>>,
         rows |-> [s \in Stream |-> <<>>], done |-> [s \in Stream |-> "no"]]

TypeOK ==
    /\ now \in Time /\ overtaken \subseteq venue /\ venue \subseteq Fact /\ gen \in 1..MaxGen
    /\ ledger \subseteq venue
    /\ \A s \in Stream : cursor[s].watermark \in {-1} \cup HostTime /\ cursor[s].gen \in 0..MaxGen
                           /\ Len(cursor[s].window) \in {0, 3}
    /\ snapCursor.watermark \in {-1} \cup HostTime
    /\ \A c \in Capturer : cap[c].pc \in {"idle", "observe", "pages", "nav"}
    /\ valued.flows \subseteq venue

Init ==
    /\ now = T0 /\ venue = {} /\ gen = 1 /\ overtaken = {}
    /\ ledger = {} /\ cursor = [s \in Stream |-> NoCursor] /\ snapCursor = NoCursor
    /\ cap = [c \in Capturer |-> Idle]
    /\ nav = NoPoint /\ valued = NoPoint /\ attributed = {}
-----------------------------------------------------------------------------
\* The moments taken from the host's clock that captures, cursors and the valuation hold.
Taken ==
    LET held == {cursor} \cup {cap[c].cursors[1] : c \in {d \in Capturer : cap[d].cursors # <<>>}}
    IN  {cap[c].at : c \in Capturer} \cup {cursor[s].watermark : s \in Stream} \cup {valued.time}
        \cup UNION {{w[2] : w \in {h[s].window : h \in held} \ {<<>>}} : s \in Stream}

Trade ==
    /\ Cardinality(venue) < MaxFacts
    /\ \E s \in Stream :
          /\ <<s, now>> \notin venue
          /\ venue' = venue \cup {<<s, now>>}
          /\ overtaken' = IF \E t \in Taken : t > now THEN overtaken \cup {<<s, now>>} ELSE overtaken
    /\ UNCHANGED <<now, gen, store, cap>>

Tick ==
    /\ now < MaxTime
    /\ now' = now + 1
    /\ UNCHANGED <<venue, gen, overtaken, store, cap>>

Reconnect ==
    /\ gen < MaxGen
    /\ gen' = gen + 1
    /\ UNCHANGED <<now, venue, overtaken, store, cap>>
-----------------------------------------------------------------------------
\* A bug: a new window starts after the millisecond the last one ended at.
NewBegin_mutant(c) == IF c = NoCursor THEN T0 ELSE c.watermark + 1

\* One millisecond of overlap: a fact may appear within the last one read.
NewBegin(c) == IF c = NoCursor THEN T0 ELSE Max({T0, c.watermark - 1})

\* A bug: the unfinished window goes on with a new end.
resume_mutant(c, at) ==
    IF c.window # <<>>
    THEN [through |-> c.watermark, begin |-> c.window[1], end |-> at, after |-> c.window[3]]
    ELSE [through |-> IF c = NoCursor THEN T0 ELSE c.watermark, begin |-> NewBegin(c), end |-> at, after |-> Max(HostTime) + 1]

\* Window::resume: an unfinished window goes on where it was, with its old end.
resume(c, at) ==
    IF c.window # <<>>
    THEN [through |-> c.watermark, begin |-> c.window[1], end |-> c.window[2], after |-> c.window[3]]
    ELSE [through |-> IF c = NoCursor THEN T0 ELSE c.watermark, begin |-> NewBegin(c), end |-> at, after |-> Max(HostTime) + 1]

\* The venue's page: newest first, older than the last row of the page before.
InWindow(s, w) == {f \in venue : f[1] = s /\ f[2] >= w.begin /\ f[2] <= w.end /\ f[2] < w.after}
Newest(set) == {f \in set : Cardinality({g \in set : g[2] > f[2]}) < PageSize}
OldestTime(rows) == Min({f[2] : f \in rows})

PageComplete(rows) == Cardinality(rows) < PageSize

\* A bug: the watermark is the first millisecond not read.
next_cursor_mutant(w, rows, g) ==
    IF PageComplete(rows) THEN [watermark |-> w.end + 1, gen |-> g, window |-> <<>>]
    ELSE [watermark |-> w.through, gen |-> g, window |-> <<w.begin, w.end, OldestTime(rows)>>]

\* Window::cursor: the watermark moves when the window is exhausted.
next_cursor(w, rows, g) ==
    IF PageComplete(rows) THEN [watermark |-> w.end, gen |-> g, window |-> <<>>]
    ELSE [watermark |-> w.through, gen |-> g, window |-> <<w.begin, w.end, OldestTime(rows)>>]

\* A bug: an older capture's cursor replaces a newer one.
Regresses_mutant(old, new) == FALSE

\* upsert_source_cursor: SOURCE_CURSOR_REGRESSION.
Regresses(old, new) == new.gen < old.gen \/ (new.gen = old.gen /\ new.watermark < old.watermark)
-----------------------------------------------------------------------------
Begin(c) ==
    /\ cap[c].pc = "idle"
    /\ cap' = [cap EXCEPT ![c] = [Idle EXCEPT !.pc = "observe", !.gen = gen]]
    /\ UNCHANGED <<world, store>>

\* The snapshot and the cursors are read concurrently.
ReadSnapshot(c) ==
    /\ cap[c].pc = "observe" /\ cap[c].equity = <<>>
    /\ cap' = [cap EXCEPT ![c].equity = <<{f \in venue : f[1] = "bills"}>>]
    /\ UNCHANGED <<world, store>>

ReadCursors(c) ==
    /\ cap[c].pc = "observe" /\ cap[c].cursors = <<>>
    /\ cap' = [cap EXCEPT ![c].cursors = <<cursor>>]
    /\ UNCHANGED <<world, store>>

\* The host's clock is read once both are there; every window of this capture ends then.
Observed(c) ==
    /\ cap[c].pc = "observe" /\ cap[c].equity # <<>> /\ cap[c].cursors # <<>>
    /\ \E skew \in Skews : cap' = [cap EXCEPT ![c].pc = "pages", ![c].at = now + skew]
    /\ UNCHANGED <<world, store>>

WindowOf(c, s) == resume(cap[c].cursors[1][s], cap[c].at)

\* capture_fills and capture_bills up to the generation check.
FetchPage(c, s) ==
    /\ cap[c].pc = "pages" /\ cap[c].rows[s] = <<>> /\ cap[c].done[s] = "no" /\ gen = cap[c].gen
    /\ cap' = [cap EXCEPT ![c].rows[s] = <<Newest(InWindow(s, WindowOf(c, s)))>>]
    /\ UNCHANGED <<world, store>>

\* Their SQL job: the rows and the cursor in one transaction; a cursor that
\* regresses refuses both and fails the capture.
IngestPage(c, s) ==
    /\ cap[c].pc = "pages" /\ cap[c].rows[s] # <<>>
    /\ LET rows == cap[c].rows[s][1]
           next == next_cursor(WindowOf(c, s), rows, cap[c].gen)
       IN  IF Regresses(cursor[s], next)
           THEN cap' = [cap EXCEPT ![c] = Idle] /\ UNCHANGED <<ledger, cursor>>
           ELSE /\ ledger' = ledger \cup rows
                /\ cursor' = [cursor EXCEPT ![s] = next]
                /\ cap' = [cap EXCEPT ![c].rows[s] = <<>>,
                                      ![c].done[s] = IF PageComplete(rows) THEN "complete" ELSE "partial"]
    /\ UNCHANGED <<world, snapCursor, nav, valued, attributed>>

Captured(c) ==
    /\ cap[c].pc = "pages" /\ \A s \in Stream : cap[c].done[s] # "no"
    /\ gen = cap[c].gen
    /\ cap' = [cap EXCEPT ![c].pc = "nav", ![c].cursors = <<>>]
    /\ UNCHANGED <<world, store>>

\* A source that is not available, another generation or an expired deadline.
Abandon(c) ==
    /\ cap[c].pc # "idle"
    /\ cap' = [cap EXCEPT ![c] = Idle]
    /\ UNCHANGED <<world, store>>
-----------------------------------------------------------------------------
AllComplete(c) == \A s \in Stream : cap[c].done[s] = "complete"

\* A bug: the valuation trusts the capture's own complete pages.
HistoryCovers_mutant(at) == TRUE

\* reconcile_strategy_valuation: every stream without a gap up to the moment.
HistoryCovers(at) == \A s \in Stream : cursor[s].window = <<>> /\ cursor[s].watermark >= at

\* The NAV job of a capture: funding is attributed, the account's point and the
\* snapshot cursor are committed together, then the strategies are valued.
NavJob(c) ==
    /\ cap[c].pc = "nav"
    /\ LET at == cap[c].at
           complete == AllComplete(c)
           snap == [watermark |-> at, gen |-> cap[c].gen, window |-> <<>>]
           funding == {f \in ledger : f[1] = "bills"} \ {a[1] : a \in attributed}
           known(f) == {g \in ledger : g[1] = "fills" /\ g[2] <= f[2]}
           point == [time |-> at, complete |-> complete, equity |-> cap[c].equity[1],
                     flows |-> {f \in ledger : f[1] = "bills"}]
       IN  /\ attributed' = IF complete THEN attributed \cup {<<f, known(f)>> : f \in funding} ELSE attributed
           /\ IF Regresses(snapCursor, snap)
              THEN UNCHANGED <<snapCursor, nav, valued>>
              ELSE /\ snapCursor' = snap
                   /\ nav' = IF nav.time <= at THEN point ELSE nav
                   /\ valued' = IF complete /\ HistoryCovers(at) THEN [point EXCEPT !.flows = ledger] ELSE valued
    /\ cap' = [cap EXCEPT ![c] = Idle]
    /\ UNCHANGED <<world, ledger, cursor>>

Step(c) ==
    \/ Begin(c) \/ ReadSnapshot(c) \/ ReadCursors(c) \/ Observed(c)
    \/ \E s \in Stream : FetchPage(c, s) \/ IngestPage(c, s)
    \/ Captured(c) \/ NavJob(c)

Next == Trade \/ Tick \/ Reconnect \/ \E c \in Capturer : Step(c) \/ Abandon(c)

Spec == Init /\ [][Next]_vars

\* The finance loop goes on capturing; each await ends.  Abandon is never
\* forced, so what follows holds only if the sources keep answering: it is
\* left out of the fair specification.
FairNext == Trade \/ Tick \/ Reconnect \/ \E c \in Capturer : Step(c) \/ (Abandon(c) /\ cap[c].gen # gen)
FairSpec == Init /\ [][FairNext]_vars /\ WF_vars(Tick)
            /\ \A c \in Capturer : WF_vars(Step(c)) /\ WF_vars(Abandon(c) /\ cap[c].gen # gen)
-----------------------------------------------------------------------------
\* A stream's watermark is a promise: every fact of the venue older than it has
\* been ingested, over pages, resumed windows, facts that appear in the
\* millisecond a window ended at, abandoned and concurrent captures.  The code
\* keeps it but for the facts the venue stamps behind a moment some capture has
\* already taken from a host clock that is ahead (source_capture.rs:347): those
\* the next window, one millisecond wide, need not read.
WatermarkIsCovered ==
    \A f \in venue : f[2] < cursor[f[1]].watermark => f \in ledger \/ f \in overtaken

\* Within a generation of the connection a stream's watermark never goes back,
\* whichever of two captures ends last.
WatermarkNeverRegresses ==
    [][\A s \in Stream : cursor'[s].gen = cursor[s].gen => cursor'[s].watermark >= cursor[s].watermark]_vars

\* A strategy valuation rests on the whole history before its moment ("Only a
\* converged exchange snapshot and five complete post-T0 history streams may
\* supply a COMPLETE calculation", finance.rs:386), but for the facts a host
\* clock that is ahead had overtaken.
ValuationSeesHistory ==
    \A f \in venue : f[2] < valued.time => f \in valued.flows \/ f \in overtaken

\* A deposit is never profit: a COMPLETE account NAV takes off exactly the flows
\* its equity contains (test nav_window_excludes_deposit_and_reports_pre_t0_unavailable,
\* account_store_tests.rs:441).
DepositIsNotProfit == nav.complete => nav.flows = nav.equity

\* Funding is divided over the exposures of its moment, all of them known by
\* then ("funding allocation from signed exposure", docs/verification/398-w04.md:1).
FundingSeesItsFills ==
    \A a \in attributed, f \in venue : f[1] = "fills" /\ f[2] < a[1][2] => f \in a[2]

\* A host clock set back by a millisecond leaves an unfinished window that ends
\* before the watermark: exhausting it is SOURCE_CURSOR_REGRESSION, so every
\* capture resumes it and fails until there is another connection.
Wedged(s) == cursor[s].window # <<>> /\ cursor[s].window[2] < cursor[s].watermark

\* Every fact of the venue that no capture had overtaken is eventually ingested,
\* whatever the page size, however often a window was resumed, a connection was
\* lost or the host's clock was set, unless the stream stays wedged.
EveryFactIngested ==
    \A f \in Fact : f \in venue \ overtaken ~> (f \in ledger \/ []Wedged(f[1]))
===============================================================================
