------------------------------- MODULE MarketQuery -------------------------------
(***************************************************************************)
(* Screening the market (okx-agent/src/analytics/market.rs, with the       *)
(* universe of query.rs and the plan of planner.rs and query_plan.rs).     *)
(*                                                                         *)
(* A request names its instruments, or asks for a page of the universe of  *)
(* one reference generation, or for a ranking of that whole universe.  It  *)
(* becomes a job named by the hash of the request; the job loads every     *)
(* instrument while the sources go on changing, computes the rows and      *)
(* stores the result, which later requests with the same hash are given.   *)
(*                                                                         *)
(* An instrument is its place in the order of names.  A source is what a   *)
(* load of it would return: the bars of the window it has, a quote, a      *)
(* failure, or a deferral by the request budget (RateBudget).  There are   *)
(* two fields: "returns" is computed from the bars, "spread_bps" from the  *)
(* quote.  The life of jobs is ResearchJobs, their pages are ResultPages.  *)
(***************************************************************************)
EXTENDS Integers, Sequences, SequencesExt, FiniteSetsExt

CONSTANTS
    Names,        \* instruments, 1..n in the order of their names
    Window,       \* bars of the range of a request
    Values,       \* values of a metric
    Requests,     \* [kind, names, fields, sort, min]: what clients ask for
    MaxExplicit,  \* instruments of a compiled plan (100)
    MaxRank,      \* instruments of a ranking (512)
    PageLimit,    \* instruments of a page of the universe
    MaxGen,       \* bound: reference generations
    MaxJobs,      \* bound: jobs
    Walking,      \* bound: whether a client pages through the universe
    Sources       \* what a load may return

MarketQueryAssumption ==
    /\ Names \subseteq Nat \ {0} /\ Values \subseteq Nat
    /\ MaxExplicit \in Nat /\ MaxRank \in Nat /\ PageLimit \in Nat \ {0} /\ MaxGen \in Nat

VARIABLES
    gen,     \* current reference generation
    live,    \* generation -> its live instruments
    source,  \* instrument -> what a load of it returns now
    jobs,    \* set of jobs, one for each hash
    walk     \* a client that pages through the universe

vars == <<gen, live, source, jobs, walk>>

Null == -1          \* a metric that is missing: below every value, as None is
NoWalk == [gen |-> 0, upto |-> 0, pinned |-> TRUE, after |-> 0, seen |-> <<>>, status |-> "idle"]
Ascending(S) == SetToSortSeq(S, LAMBDA a, b: a < b)

-----------------------------------------------------------------------------
(* The universe (query.rs) *)

\* The reference in use changes: instruments are listed or suspended.
Refresh(names) ==
    /\ gen < MaxGen /\ gen' = gen + 1 /\ live' = [live EXCEPT ![gen + 1] = names]
    /\ UNCHANGED <<source, jobs, walk>>

after_mutant(names, last) == {n \in names: n > last + 1}
after(names, last) == {n \in names: n > last}

same_generation_mutant(w, names) == TRUE

\* A page after the first may name the generation that the first was taken from.
same_generation(w, names) == w.after = 0 \/ ~names \/ w.gen = gen

universe_page(names) == SubSeq(Ascending(names), 1, Min({PageLimit, Cardinality(names)}))

\* One page of names; one more name than the page is looked at to know
\* whether there are more.  An empty page is an error.  The history of the
\* walk is whether all its pages named the generation, and the last one used.
AskPage ==
    /\ Walking /\ walk.status \in {"idle", "more"}
    /\ \E named \in BOOLEAN:
        LET names == after(live[gen], walk.after)
            page == universe_page(names) IN
        walk' = IF ~same_generation(walk, named) THEN [walk EXCEPT !.status = "changed"]
                ELSE IF names = {} THEN [walk EXCEPT !.status = "empty"]
                ELSE [gen |-> IF walk.after = 0 THEN gen ELSE walk.gen, upto |-> gen,
                      pinned |-> walk.after = 0 \/ (walk.pinned /\ named), after |-> Last(page),
                      seen |-> walk.seen \o page,
                      status |-> IF Cardinality(names) > PageLimit THEN "more" ELSE "whole"]
    /\ UNCHANGED <<gen, live, source, jobs>>

StartOver == walk.status \in {"changed", "whole", "empty"} /\ walk' = NoWalk /\ UNCHANGED <<gen, live, source, jobs>>

-----------------------------------------------------------------------------
(* A job *)

NeedsBars(r) == "returns" \in r.fields
NeedsQuote(r) == "spread_bps" \in r.fields

\* The name of a job: the request, and the page of the universe it resolved to.
Hash(r, names) == [r |-> r, names |-> names, gen |-> IF r.kind = "rank" THEN gen ELSE 0]

kept_mutant(j) == TRUE

\* Jobs::enqueue hands out the job there is, except one that was deferred.
kept(j) == ~(j.state = "failed" /\ j.why = "deferred")

Fresh(h) == [hash |-> h, state |-> "queued", why |-> "none", loaded |-> <<>>, rows |-> <<>>]

Ask_mutant(r) ==
    LET names == IF r.kind = "rank" THEN live[gen] ELSE r.names IN
    /\ names # {} /\ Cardinality(names) <= MaxExplicit /\ Cardinality(jobs) < MaxJobs
    /\ jobs' = jobs \cup {Fresh(Hash(r, names))}
    /\ UNCHANGED <<gen, live, source, walk>>

\* A client asks, and asks again.  An empty universe, a ranking of more than
\* MaxRank instruments and a list of more than MaxExplicit are refused before
\* there is a job.
Ask(r) ==
    LET names == IF r.kind = "rank" THEN live[gen] ELSE r.names
        h == Hash(r, names)
        old == {j \in jobs: j.hash = h} IN
    /\ names # {} /\ Cardinality(names) <= (IF r.kind = "rank" THEN MaxRank ELSE MaxExplicit)
    /\ \A j \in old: ~kept(j)
    /\ Cardinality(jobs \ old) < MaxJobs
    /\ jobs' = (jobs \ old) \cup {Fresh(h)}
    /\ UNCHANGED <<gen, live, source, walk>>

Fails(j, why) == jobs' = (jobs \ {j}) \cup {[j EXCEPT !.state = "failed", !.why = why, !.loaded = <<>>]}

\* market_execute bounds the instruments as Ask did, but market_rows compiles
\* the plan for all of them, and the bound of a plan is MaxExplicit for a
\* ranking as well.
Start(j) ==
    /\ j.state = "queued"
    /\ IF Cardinality(j.hash.names) > MaxExplicit THEN Fails(j, "universe")
       ELSE jobs' = (jobs \ {j}) \cup {[j EXCEPT !.state = "running"]}
    /\ UNCHANGED <<gen, live, source, walk>>

\* The loads run a few at a time and end in the order of the names.
Load(j) ==
    /\ j.state = "running" /\ Len(j.loaded) < Cardinality(j.hash.names)
    /\ LET n == Ascending(j.hash.names)[Len(j.loaded) + 1] IN
       jobs' = (jobs \ {j}) \cup {[j EXCEPT !.loaded = Append(@, [name |-> n, got |-> source[n]])]}
    /\ UNCHANGED <<gen, live, source, walk>>

\* ClosedRange::coverage: every bar of the window, and no other.
covered_mutant(got) == got.bars # {}
covered(got) == got.bars = Window

\* A field has no value when its source is missing or has a gap.
metric(r, f, got) ==
    IF f = "returns" THEN (IF covered(got) THEN got.value ELSE Null)
    ELSE (IF got.quote THEN got.value ELSE Null)

compute_row(r, l) ==
    [name |-> l.name,
     metrics |-> [f \in r.fields |-> metric(r, f, l.got)],
     complete |-> /\ NeedsBars(r) => covered(l.got)
                  /\ NeedsQuote(r) => l.got.quote]

sorted_mutant(r, rows) ==
    IF r.sort = "none" THEN rows
    ELSE SetToSortSeq(ToSet(rows), LAMBDA a, b:
            \/ a.metrics[r.sort] > b.metrics[r.sort]
            \/ (a.metrics[r.sort] = b.metrics[r.sort] /\ a.name > b.name))

\* Largest first, and by name where the metric is the same.
sorted(r, rows) ==
    IF r.sort = "none" THEN rows
    ELSE SetToSortSeq(ToSet(rows), LAMBDA a, b:
            \/ a.metrics[r.sort] > b.metrics[r.sort]
            \/ (a.metrics[r.sort] = b.metrics[r.sort] /\ a.name < b.name))

passes(r, row) == r.min = Null \/ row.metrics[r.sort] >= r.min

deferred_mutant(r, l) == FALSE

\* market_source_rate_deferred looks at the sources that were loaded.
deferred(r, l) == l.got.why = "deferred" /\ (NeedsBars(r) \/ NeedsQuote(r))

rankable_mutant(r, rows) == TRUE

\* Every candidate of a ranking has its window and its metric, and this is
\* asked of all of them, before the filter takes any away.
rankable(r, rows) ==
    \A n \in 1..Len(rows): rows[n].complete /\ rows[n].metrics[r.sort] # Null

Compute(j) ==
    LET r == j.hash.r
        rows == [n \in 1..Len(j.loaded) |-> compute_row(r, j.loaded[n])]
        kind == r.kind IN
    /\ j.state = "running" /\ Len(j.loaded) = Cardinality(j.hash.names)
    /\ IF \E n \in 1..Len(j.loaded): deferred(r, j.loaded[n]) THEN Fails(j, "deferred")
       ELSE IF kind = "rank" /\ ~rankable(r, rows) THEN Fails(j, "incomplete")
       ELSE jobs' = (jobs \ {j}) \cup
                {[j EXCEPT !.state = "completed",
                           !.rows = SelectSeq(sorted(r, rows), LAMBDA row: passes(r, row))]}
    /\ UNCHANGED <<gen, live, source, walk>>

-----------------------------------------------------------------------------
Change(n, s) == source[n] # s /\ source' = [source EXCEPT ![n] = s] /\ UNCHANGED <<gen, live, jobs, walk>>

Init ==
    /\ gen = 1 /\ live \in {[g \in 1..MaxGen |-> IF g = 1 THEN names ELSE {}]: names \in SUBSET Names}
    /\ source \in [Names -> Sources]
    /\ jobs = {} /\ walk = NoWalk

Work(j) == Start(j) \/ Load(j) \/ Compute(j)

Next ==
    \/ \E names \in SUBSET Names: Refresh(names)
    \/ AskPage \/ StartOver
    \/ \E r \in Requests: Ask(r)
    \/ \E j \in jobs: Work(j)
    \/ \E n \in Names, s \in Sources: Change(n, s)

Spec == Init /\ [][Next]_vars

\* Jobs are worked on, and a client goes on asking.
FairSpec ==
    /\ Spec /\ WF_vars(\E j \in jobs: Work(j))
    /\ \A r \in Requests: WF_vars(Ask(r))

-----------------------------------------------------------------------------
TypeOK ==
    /\ gen \in 1..MaxGen /\ live \in [1..MaxGen -> SUBSET Names]
    /\ source \in [Names -> Sources]
    /\ Cardinality({j.hash: j \in jobs}) = Cardinality(jobs)
    /\ \A j \in jobs: j.state \in {"queued", "running", "completed", "failed"}

\* A client that followed the pages to the last one and named the generation
\* on each has seen every live instrument of that generation, once and in
\* order, whatever happened to the reference between its pages.  One that
\* left the generation out has seen none twice and every instrument that was
\* live through the whole walk.
WalkIsWhole ==
    walk.status = "whole" =>
        /\ walk.pinned => walk.seen = Ascending(live[walk.gen])
        /\ walk.seen = Ascending(ToSet(walk.seen))
        /\ \A n \in Names: (\A g \in walk.gen..walk.upto: n \in live[g]) => n \in ToSet(walk.seen)

Done == {j \in jobs: j.state = "completed"}
Reading(j, name) == CHOOSE got \in {l.got: l \in {m \in ToSet(j.loaded): m.name = name}}: TRUE

\* A ranking that was published ranks the whole universe of its generation:
\* every live instrument was loaded with its whole window, and is missing
\* from the rows only because its value is below the filter.
RankingIsOfEverything ==
    \A j \in Done: j.hash.r.kind = "rank" =>
        /\ {l.name: l \in ToSet(j.loaded)} = live[j.hash.gen]
        /\ \A n \in live[j.hash.gen]:
            /\ "returns" \in j.hash.r.fields => Reading(j, n).bars = Window
            /\ (\A row \in ToSet(j.rows): row.name # n) => Reading(j, n).value < j.hash.r.min

\* A published order is total: better first, equal ones by name, so that the
\* pages of two equal requests agree (sort_market_rows).
OrderIsDetermined ==
    \A j \in Done: j.hash.r.sort # "none" =>
        \A a, b \in 1..Len(j.rows): a < b =>
            LET x == j.rows[a] y == j.rows[b] f == j.hash.r.sort IN
            x.metrics[f] > y.metrics[f] \/ (x.metrics[f] = y.metrics[f] /\ x.name < y.name)

\* A value computed from bars rests on the whole window, in a screen with
\* partial rows as well (compute_row).
NoValueFromAGap ==
    \A j \in Done: \A row \in ToSet(j.rows):
        "returns" \in j.hash.r.fields /\ row.metrics["returns"] # Null => Reading(j, row.name).bars = Window

\* A deferral is never published as evidence (market_source_rate_deferred).
DeferralIsNotEvidence == \A j \in Done: \A l \in ToSet(j.loaded): l.got.why # "deferred"

\* The capabilities announce rankings of up to MaxRank instruments
\* (global_rank_max_instruments): one within it is not refused for its size.
RankWithinAnnouncedLimit == \A j \in jobs: j.hash.r.kind = "rank" => j.why # "universe"

\* Once the budget defers nothing any more, a client that goes on asking gets
\* past the deferral.
DeferralEnds ==
    <>[](\A n \in Names: source[n].why # "deferred") => []<>(\A j \in jobs: j.why # "deferred")
=============================================================================
