----------------------------- MODULE OrderPlan -----------------------------
(***************************************************************************)
(* TradeService::plan: the plan of an order is put together from a public  *)
(* quote, the instrument's rules, an account snapshot, fees and leverage,  *)
(* each read at its own time, then admitted against the account's losses   *)
(* by a job of the SQL owner, and handed out only when the sources are     *)
(* still the ones it began with.  The admission latches the account's      *)
(* stops; a preview runs the same code and must write nothing.             *)
(*                                                                         *)
(* Prices and sizes are in EntrySizing; here they make a plan fail or not. *)
(***************************************************************************)
EXTENDS Naturals, Sequences, FiniteSets

CONSTANTS
    Plans,       \* concurrent calls of plan
    Increase,    \* the ones that open, add or replace
    Recording,   \* the ones that record risk state; the others are previews
    Strategies,  \* the ones of a strategy instance; the others are manual
    MaxChanges,  \* bound on changes of the sources
    MaxDay,      \* bound on UTC days
    Happens,     \* what the instance lets happen: public, private, loss, time
    Overtaken    \* a thread may be preempted between reading the date and queueing its job

OrderPlanAssumption ==
    Increase \subseteq Plans /\ Recording \subseteq Plans /\ Strategies \subseteq Plans

VARIABLES
    public,     \* generation of the market stream, of its rules, and whether the quote is fresh
    private,    \* private generation and the verified one
    day,        \* the UTC day
    loss,       \* daily loss: 0, 1 (no headroom for an order) or 2 (at the limit)
    drawdown,   \* the account's drawdown reached its limit
    own,        \* instance NAV: ok, breached or incomplete
    navComplete,
    changes,
    stops,      \* risk_stops: name -> latched or resolved
    manual,     \* the manual instance exists
    queue,      \* admission jobs at the SQL owner
    plan,       \* the calls
    breached,   \* history: the day in which an admission found the daily limit reached
    crossed     \* history: the day in which an admission dated the day before ran

vars == <<public, private, day, loss, drawdown, own, navComplete, changes, stops, manual, queue, plan, breached, crossed>>
sources == <<public, private, day, loss, drawdown, own, navComplete, changes>>

DailyStop(d) == <<"daily", d>>

(* What a call holds, and the generations its facts were really read in.   *)
NoPlan == [pc |-> "idle", market |-> 0, rules |-> 0, private |-> 0, fresh |-> TRUE, expired |-> FALSE,
           utcDay |-> 0, readIn |-> 0, feeIn |-> 0]

Init ==
    /\ public = [generation |-> 1, rules |-> 1, ready |-> TRUE]
    /\ private = [generation |-> 1, verified |-> 1]
    /\ day = 1 /\ loss = 0 /\ drawdown = FALSE /\ own = "ok" /\ navComplete = TRUE
    /\ changes = 0
    /\ stops = [s \in {<<"drawdown", 0>>, <<"instance", 0>>} \cup {DailyStop(d) : d \in 1 .. MaxDay} |-> "none"]
    /\ manual = FALSE /\ queue = <<>>
    /\ plan = [p \in Plans |-> NoPlan]
    /\ breached = 0 /\ crossed = 0

----------------------------------------------------------------------------
(* The sources.                                                            *)

Change(kind) ==
    /\ kind \in Happens
    /\ changes < MaxChanges /\ changes' = changes + 1
    /\ UNCHANGED <<stops, manual, queue, plan, breached, crossed>>

PublicReconnect ==
    /\ Change("public")
    /\ public' = [public EXCEPT !.generation = @ + 1, !.ready = FALSE]
    /\ UNCHANGED <<private, day, loss, drawdown, own, navComplete>>

PublicRules ==
    /\ Change("public")
    /\ public' = [public EXCEPT !.rules = @ + 1]
    /\ UNCHANGED <<private, day, loss, drawdown, own, navComplete>>

PublicReady ==
    /\ ~public.ready
    /\ public' = [public EXCEPT !.ready = TRUE]
    /\ UNCHANGED <<private, day, loss, drawdown, own, navComplete, changes, stops, manual, queue, plan, breached, crossed>>

PrivateReconnect ==
    /\ Change("private")
    /\ private' = [private EXCEPT !.generation = @ + 1]
    /\ UNCHANGED <<public, day, loss, drawdown, own, navComplete>>

PrivateVerified ==
    /\ private.verified # private.generation
    /\ private' = [private EXCEPT !.verified = private.generation]
    /\ UNCHANGED <<public, day, loss, drawdown, own, navComplete, changes, stops, manual, queue, plan, breached, crossed>>

(* The loss of a day only grows.                                           *)
Losses ==
    /\ Change("loss")
    /\ \/ loss < 2 /\ loss' = loss + 1 /\ UNCHANGED <<drawdown, own, navComplete>>
       \/ drawdown' = ~drawdown /\ UNCHANGED <<loss, own, navComplete>>
       \/ own' \in {"ok", "breached", "incomplete"} \ {own} /\ UNCHANGED <<loss, drawdown, navComplete>>
       \/ navComplete' = ~navComplete /\ UNCHANGED <<loss, drawdown, own>>
    /\ UNCHANGED <<public, private, day>>

Midnight ==
    /\ day < MaxDay
    /\ day' = day + 1 /\ loss' \in 0 .. 2
    /\ UNCHANGED <<public, private, drawdown, own, navComplete, changes, stops, manual, queue, plan, breached, crossed>>

----------------------------------------------------------------------------
(* plan.                                                                   *)

At(p, pc) == plan[p].pc = pc
Step(p, next) == plan' = [plan EXCEPT ![p] = next]
Goto(p, pc) == Step(p, [plan[p] EXCEPT !.pc = pc])
Refuse(p) == Goto(p, "refused")

(* Time passes for one call: its snapshot is too old, or its deadline is   *)
(* reached.                                                                *)
SnapshotAges(p) ==
    /\ "time" \in Happens
    /\ plan[p].pc \notin {"idle", "refused", "planned"} /\ plan[p].fresh /\ plan[p].readIn # 0
    /\ Step(p, [plan[p] EXCEPT !.fresh = FALSE])
    /\ UNCHANGED <<sources, stops, manual, queue, breached, crossed>>

Expire(p) ==
    /\ "time" \in Happens
    /\ plan[p].pc \notin {"idle", "refused", "planned"} /\ ~plan[p].expired
    /\ Step(p, [plan[p] EXCEPT !.expired = TRUE])
    /\ UNCHANGED <<sources, stops, manual, queue, breached, crossed>>

(* The caller of a call that ended makes another one.                      *)
Begin(p) ==
    /\ plan[p].pc \in {"idle", "planned", "refused"}
    /\ \E pc \in {"market", "refused"} : Step(p, [NoPlan EXCEPT !.pc = pc])
    /\ UNCHANGED <<sources, stops, manual, queue, breached, crossed>>

ReadMarket_mutant(p) ==
    /\ At(p, "market") /\ public.ready
    /\ Step(p, [plan[p] EXCEPT !.pc = "rules", !.market = public.generation, !.rules = public.rules])
    /\ UNCHANGED <<sources, stops, manual, queue, breached, crossed>>

(* risk_fresh_snapshot, again every 50 ms until the deadline.              *)
ReadMarket(p) ==
    /\ At(p, "market")
    /\ \/ /\ public.ready
          /\ Step(p, [plan[p] EXCEPT !.pc = "rules", !.market = public.generation, !.rules = public.rules])
       \/ /\ ~public.ready /\ plan[p].expired
          /\ Refuse(p)
    /\ UNCHANGED <<sources, stops, manual, queue, breached, crossed>>

ReadRules(p) ==
    /\ At(p, "rules")
    /\ IF public.rules = plan[p].rules THEN Goto(p, "account") ELSE Refuse(p)
    /\ UNCHANGED <<sources, stops, manual, queue, breached, crossed>>

ReadGeneration(p) ==
    /\ At(p, "account")
    /\ IF p \in Increase /\ private.verified # private.generation
       THEN Refuse(p)
       ELSE Step(p, [plan[p] EXCEPT !.pc = "snapshot", !.private = private.generation])
    /\ UNCHANGED <<sources, stops, manual, queue, breached, crossed>>

ReadSnapshot(p) ==
    /\ At(p, "snapshot")
    /\ \/ Step(p, [plan[p] EXCEPT !.pc = "price", !.readIn = private.generation])
       \/ Refuse(p)
    /\ UNCHANGED <<sources, stops, manual, queue, breached, crossed>>

(* Fees, leverage, size and limits; a reducing order is compared with the  *)
(* position and with the lots its instance owns instead.                   *)
Price(p) ==
    /\ At(p, "price")
    /\ \/ Step(p, [plan[p] EXCEPT !.pc = IF p \in Increase THEN "date" ELSE "instance",
                                  !.feeIn = public.rules])
       \/ Refuse(p)
    /\ UNCHANGED <<sources, stops, manual, queue, breached, crossed>>

ReadDate(p) ==
    /\ At(p, "date")
    /\ Step(p, [plan[p] EXCEPT !.pc = IF Overtaken THEN "dated" ELSE "queued", !.utcDay = day])
    /\ queue' = IF Overtaken THEN queue ELSE Append(queue, p)
    /\ UNCHANGED <<sources, stops, manual, breached, crossed>>

(* The job is sent after the thread was preempted.                         *)
Send(p) ==
    /\ At(p, "dated")
    /\ Goto(p, "queued")
    /\ queue' = Append(queue, p)
    /\ UNCHANGED <<sources, stops, manual, breached, crossed>>

latch_stop(table, s) == [table EXCEPT ![s] = IF @ = "none" THEN "latched" ELSE @]

(* Every daily stop that is not of the call's day is resolved.             *)
Resolved(p) ==
    [s \in DOMAIN stops |->
        IF p \in Recording /\ s[1] = "daily" /\ s[2] # plan[p].utcDay /\ stops[s] = "latched"
        THEN "resolved" ELSE stops[s]]

Decision(p) ==
    CASE ~navComplete -> "unavailable"
      [] navComplete /\ loss = 2 -> "daily"
      [] navComplete /\ loss = 1 -> "headroom"
      [] navComplete /\ loss = 0 /\ drawdown -> "drawdown"
      [] navComplete /\ loss = 0 /\ ~drawdown /\ p \in Strategies /\ own = "incomplete" /\ p \in Recording -> "unavailable instance"
      [] navComplete /\ loss = 0 /\ ~drawdown /\ p \in Strategies /\ own = "breached" -> "instance"
      [] OTHER -> "admitted"

StopOf(p, decision) ==
    CASE decision = "daily" -> DailyStop(plan[p].utcDay)
      [] OTHER -> <<decision, 0>>

Latched_mutant(p, table, decision) ==
    IF p \in Recording /\ decision \in {"drawdown", "instance"}
    THEN latch_stop(table, StopOf(p, decision)) ELSE table

Latched(p, table, decision) ==
    IF p \in Recording /\ decision \in {"daily", "drawdown", "instance"}
    THEN latch_stop(table, StopOf(p, decision)) ELSE table

financial_admission_mutant ==
    /\ queue # <<>>
    /\ LET p == Head(queue)
           decision == Decision(p)
       IN  /\ stops' = Latched(p, Resolved(p), decision)
           /\ UNCHANGED <<breached, crossed>>
           /\ IF decision = "admitted" THEN Goto(p, "instance") ELSE Refuse(p)
    /\ UNCHANGED <<sources, manual, queue>>

(* The SQL owner runs the first admission job.                             *)
financial_admission ==
    /\ queue # <<>>
    /\ LET p == Head(queue)
           decision == Decision(p)
       IN  /\ stops' = IF decision = "unavailable" THEN stops ELSE Latched(p, Resolved(p), decision)
           /\ breached' = IF decision = "daily" /\ p \in Recording THEN day ELSE breached
           /\ crossed' = IF plan[p].utcDay # day /\ p \in Recording THEN day ELSE crossed
           /\ IF decision = "admitted" THEN Goto(p, "instance") ELSE Refuse(p)
    /\ queue' = Tail(queue)
    /\ UNCHANGED <<sources, manual>>

CheckInstance(p) ==
    /\ At(p, "instance")
    /\ Goto(p, "private") \/ Refuse(p)
    /\ UNCHANGED <<sources, stops, manual, queue, breached, crossed>>

RecheckPrivate_mutant(p) ==
    /\ At(p, "private")
    /\ Goto(p, "public")
    /\ UNCHANGED <<sources, stops, manual, queue, breached, crossed>>

RecheckPrivate(p) ==
    /\ At(p, "private")
    /\ IF p \in Increase /\ private.generation # plan[p].private THEN Refuse(p) ELSE Goto(p, "public")
    /\ UNCHANGED <<sources, stops, manual, queue, breached, crossed>>

RecheckPublic(p) ==
    /\ At(p, "public")
    /\ IF /\ public.ready /\ public.generation = plan[p].market /\ public.rules = plan[p].rules
          /\ plan[p].fresh /\ ~plan[p].expired
       THEN Goto(p, "bind") ELSE Refuse(p)
    /\ UNCHANGED <<sources, stops, manual, queue, breached, crossed>>

BindDefinition_mutant(p) ==
    /\ At(p, "bind")
    /\ \/ Goto(p, "planned") /\ manual' = (manual \/ p \notin Strategies)
       \/ Refuse(p) /\ UNCHANGED manual
    /\ UNCHANGED <<sources, stops, queue, breached, crossed>>

(* ensure_manual_instance, or the preview of it.                           *)
BindDefinition(p) ==
    /\ At(p, "bind")
    /\ \/ Goto(p, "planned") /\ manual' = (manual \/ (p \in Recording /\ p \notin Strategies))
       \/ Refuse(p) /\ UNCHANGED manual
    /\ UNCHANGED <<sources, stops, queue, breached, crossed>>

Call(p) ==
    \/ ReadMarket(p) \/ ReadRules(p) \/ ReadGeneration(p) \/ ReadSnapshot(p) \/ Price(p) \/ ReadDate(p)
    \/ Send(p) \/ CheckInstance(p) \/ RecheckPrivate(p) \/ RecheckPublic(p) \/ BindDefinition(p)

Next ==
    \/ PublicReconnect \/ PublicRules \/ PublicReady \/ PrivateReconnect \/ PrivateVerified
    \/ Losses \/ Midnight \/ financial_admission
    \/ \E p \in Plans : Begin(p) \/ Call(p) \/ SnapshotAges(p) \/ Expire(p)

Spec == Init /\ [][Next]_vars

(* Requests and jobs end, and deadlines come.                              *)
FairSpec ==
    /\ Spec
    /\ WF_vars(financial_admission)
    /\ \A p \in Plans : WF_vars(Call(p)) /\ WF_vars(Expire(p))

----------------------------------------------------------------------------
(* Properties.                                                             *)

(* Calls and jobs keep their types: a job is queued once for the call that *)
(* waits for it.                                                           *)
TypeOK ==
    /\ \A s \in DOMAIN stops : stops[s] \in {"none", "latched", "resolved"}
    /\ \A p \in Plans : At(p, "queued") <=> \E k \in DOMAIN queue : queue[k] = p
    /\ Len(queue) <= Cardinality(Plans)

(* A plan that increases risk rests on an account snapshot read in the     *)
(* private generation it names, and on rules and fees of one reference     *)
(* generation, whatever reconnected while it was made.                     *)
OneGenerationPlan ==
    \A p \in Plans :
        At(p, "planned") =>
            /\ plan[p].feeIn = plan[p].rules
            /\ p \in Increase => plan[p].readIn = plan[p].private

(* A preview changes no stop and creates no instance.                      *)
PreviewWrites == \E p \in Plans \ Recording : plan'[p] # plan[p] /\ <<stops, manual>>' # <<stops, manual>>

PreviewWritesNothing == [][~PreviewWrites]_vars

(* When an admission that records risk state found the daily limit         *)
(* reached, the account stays stopped for the rest of that UTC day, unless *)
(* an admission dated the day before ran in it: the date is read before    *)
(* the job is queued, such a job resolves the stop of today as a stale one *)
(* and a resolved stop is never latched again.                             *)
BreachIsStopped ==
    breached = day /\ crossed # day => \E s \in DOMAIN stops : stops[s] = "latched"

(* No order that adds risk is admitted in the rest of that day, whichever  *)
(* date its job carries and whatever became of the stop.                   *)
BreachEndsAdmission ==
    [][\A p \in Plans : At(p, "queued") /\ plan'[p].pc = "instance" => breached # day]_vars

(* Every plan that begins ends by its deadline, planned or refused.        *)
EveryPlanEnds == \A p \in Plans : plan[p].pc # "idle" ~> plan[p].pc \in {"planned", "refused"}

=============================================================================
