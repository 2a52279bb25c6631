---------------------------- MODULE SourceHealth ----------------------------
(***************************************************************************)
(* The financial source loop of one account and what it leaves behind for  *)
(* readers: the identity check of a private WebSocket generation, the      *)
(* latest snapshot, the ten-minute acceptance window, the trace of capture *)
(* cycles, and the account diagnosis that reads them.                      *)
(*                                                                         *)
(* The loop runs one cycle at a time.  The SQL owner of the NAV job is a   *)
(* thread of its own: a cycle whose caller stopped waiting is over while   *)
(* its job still reports phases.  The wall clock may step backwards.  What *)
(* a capture reads and ingests is the subject of FinanceCapture; here it   *)
(* fails or succeeds.  Reason codes and latencies are left out.            *)
(***************************************************************************)
EXTENDS Naturals, Sequences, SequencesExt, FiniteSets

CONSTANTS
    WindowMs,      \* WINDOW_MS, in clock units
    MaxTickGap,    \* MAX_TICK_GAP_MS
    MaxSourceAge,  \* MAX_SOURCE_AGE_MS, also the freshness limit of a diagnosis
    Capacity,      \* CAPACITY of the window
    DetailMax,     \* DETAIL_MAX cycles kept with their phases
    PhaseMax,      \* PHASE_MAX phases kept of one cycle
    NavPhases,     \* the phases of the NAV job, in order
    Slow,          \* whether a cycle may exceed the latency limits of the trace
    MaxTime,       \* bound on the wall clock
    MaxCycles,     \* bound on capture cycles
    MaxGeneration, \* bound on WebSocket generations
    MaxStepsBack,  \* bound on backward steps of the wall clock
    MaxDiagnoses   \* bound on diagnostic requests

BoundsAssumption ==
    /\ {WindowMs, MaxTickGap, MaxSourceAge, MaxTime, MaxCycles, MaxGeneration,
        MaxStepsBack, MaxDiagnoses} \subseteq Nat
    /\ {Capacity, DetailMax, PhaseMax} \subseteq Nat \ {0}
    /\ NavPhases \in Seq(STRING)
    /\ Slow \subseteq BOOLEAN /\ FALSE \in Slow

VARIABLES
    now,       \* the wall clock
    back,      \* backward steps taken
    ws,        \* status of the private WebSocket: generation and login
    verified,  \* verified_source_generation
    latest,    \* latest_snapshot: when its source was received, and in which generation it was read
    cycle,     \* the capture cycle of the source loop
    jobs,      \* NAV jobs at the SQL owner: cycle, next phase, whether it is running
    samples,   \* FinanceWindow.samples
    active,    \* FinanceTrace: the cycle in progress
    detailed,  \* FinanceTrace: the cycles kept in detail
    recent,    \* FinanceTrace: the summaries of finished cycles
    diag,      \* a diagnosis of the account
    log        \* history: every attempt recorded, never dropped

vars == <<now, back, ws, verified, latest, cycle, jobs, samples, active,
          detailed, recent, diag, log>>

loopVars == <<verified, latest, cycle, samples, log>>
traceVars == <<active, detailed, recent>>

NoSnapshot == [at |-> 0, generation |-> 0, some |-> FALSE]

NoCycle == [id |-> 0, phases |-> <<>>, outcome |-> "none", slow |-> FALSE, owner |-> 0]

Init ==
    /\ now = 0 /\ back = 0
    /\ ws = [generation |-> 0, logged_in |-> FALSE]
    /\ verified = 0
    /\ latest = NoSnapshot
    /\ cycle = [id |-> 0, pc |-> "idle", generation |-> 0, snapshot |-> NoSnapshot]
    /\ jobs = <<>>
    /\ samples = <<>>
    /\ active = NoCycle /\ detailed = <<>> /\ recent = <<>>
    /\ diag = [n |-> 0, pc |-> "idle", ready |-> FALSE, fresh |-> FALSE, good |-> FALSE, bad |-> FALSE]
    /\ log = <<>>

----------------------------------------------------------------------------
(* The identity and the freshness that readers of the account rely on.     *)

source_identity_ready ==
    /\ ws.generation > 0
    /\ ws.logged_in
    /\ verified = ws.generation

account_snapshot_fresh_at(snapshot, t) ==
    /\ snapshot.some
    /\ t >= snapshot.at
    /\ t - snapshot.at <= MaxSourceAge

----------------------------------------------------------------------------
(* FinanceWindow.                                                          *)

record_mutant(sample) ==
    LET all == Append(samples, sample)
    IN  IF Len(all) > Capacity THEN Tail(all) ELSE all

record_overfull(sample) ==
    LET kept == IF samples # <<>> /\ sample.at < Last(samples).at THEN <<>> ELSE samples
        all  == Append(kept, sample)
    IN  IF Len(all) > Capacity + 1 THEN Tail(all) ELSE all

record(sample) ==
    LET kept == IF samples # <<>> /\ sample.at < Last(samples).at THEN <<>> ELSE samples
        all  == Append(kept, sample)
    IN  IF Len(all) > Capacity THEN Tail(all) ELSE all

(* now_ms.saturating_sub cannot saturate on i64; the clock here starts at  *)
(* zero, so a window that would begin before it has no anchor.             *)
AnchorOf(t) ==
    {i \in DOMAIN samples : samples[i].at + WindowMs <= t}

Selected(t) ==
    {i \in DOMAIN samples : samples[i].at + WindowMs > t /\ samples[i].at <= t}

(* The samples the summary walks through: the anchor, then the window.     *)
Walked(t) ==
    LET anchor == AnchorOf(t)
        first  == IF anchor = {} THEN {} ELSE {CHOOSE i \in anchor : \A j \in anchor : j <= i}
    IN  SetToSortSeq(first \cup Selected(t), <)

SampleClean(s) ==
    /\ s.ok
    /\ s.aged \in 0 .. MaxSourceAge

summary(t) ==
    LET walk    == Walked(t)
        covered == /\ AnchorOf(t) # {}
                   /\ Selected(t) # {}
                   /\ t - samples[Last(walk)].at <= MaxTickGap
        gap     == \E k \in 2 .. Len(walk) :
                       \/ samples[walk[k]].at > samples[walk[k - 1]].at + MaxTickGap
                       \/ samples[walk[k]].generation # samples[walk[k - 1]].generation
        stale   == \E i \in Selected(t) : ~SampleClean(samples[i])
    IN  IF ~covered THEN "NOT_PROVEN" ELSE IF gap \/ stale THEN "FAILED" ELSE "OBSERVED_CLEAN"

----------------------------------------------------------------------------
(* FinanceTrace.                                                           *)

Problem(c) == c.outcome # "succeeded" \/ c.slow

retain_mutant(c) ==
    /\ detailed' = IF Problem(c) /\ Len(detailed) < DetailMax THEN Append(detailed, c) ELSE detailed
    /\ recent' = Append(recent, [id |-> c.id, outcome |-> c.outcome])

retain(c) ==
    /\ detailed' = IF ~Problem(c) THEN detailed
                   ELSE Append(IF Len(detailed) = DetailMax THEN Tail(detailed) ELSE detailed, c)
    /\ recent' = Append(recent, [id |-> c.id, outcome |-> c.outcome])

(* A cycle still open is closed as interrupted.  The loop ends every cycle *)
(* before its next tick, so it never finds one.                            *)
begin(id) ==
    /\ active' = [id |-> id, phases |-> <<>>, outcome |-> "in_progress", slow |-> FALSE, owner |-> 0]
    /\ IF active = NoCycle
       THEN UNCHANGED <<detailed, recent>>
       ELSE retain([active EXCEPT !.outcome = "interrupted"])

finish_mutant(id, ok, slow) ==
    IF active.id = id /\ ok
    THEN /\ active' = NoCycle
         /\ retain([active EXCEPT !.outcome = "succeeded", !.slow = slow])
    ELSE UNCHANGED traceVars

finish(id, ok, slow) ==
    IF active.id = id
    THEN /\ active' = NoCycle
         /\ retain([active EXCEPT !.outcome = IF ok THEN "succeeded" ELSE "failed", !.slow = slow])
    ELSE UNCHANGED traceVars

Reported_mutant(id) == active.id # 0

(* A report is applied only to the cycle it names.                         *)
Reported(id) == active.id = id

phase_started(id, name) ==
    active' = IF Reported(id) /\ Len(active.phases) < PhaseMax
              THEN [active EXCEPT !.phases = Append(@, [name |-> name, by |-> id, done |-> FALSE])]
              ELSE active

phase_finished(id, name) ==
    LET open == {k \in DOMAIN active.phases : active.phases[k].name = name /\ ~active.phases[k].done}
    IN  active' = IF Reported(id) /\ open # {}
                  THEN [active EXCEPT !.phases[CHOOSE k \in open : \A j \in open : j <= k].done = TRUE]
                  ELSE active

(* owner_finished; the statements and the transaction of a phase are       *)
(* reported in the same way, to the same cycle.                            *)
owner_finished(id) ==
    active' = IF Reported(id) THEN [active EXCEPT !.owner = id] ELSE active

(* The cycles a reader of the trace can select.                            *)
readback == {active.id} \cup {detailed[k].id : k \in DOMAIN detailed}

----------------------------------------------------------------------------
(* The clock and the private WebSocket.                                    *)

(* What an observer of the account may find at one instant, remembered for *)
(* the diagnosis in progress.                                              *)
Witness ==
    diag' = IF diag.pc \in {"facts", "identity"}
            THEN [diag EXCEPT !.good = @ \/ source_identity_ready',
                              !.bad = @ \/ ~(source_identity_ready' /\ account_snapshot_fresh_at(latest', now'))]
            ELSE diag

Pass ==
    /\ now < MaxTime
    /\ now' = now + 1
    /\ UNCHANGED <<back, ws, jobs, loopVars, traceVars>>
    /\ Witness

StepBack ==
    /\ back < MaxStepsBack /\ now > 0
    /\ \E t \in 0 .. now - 1 : now' = t
    /\ back' = back + 1
    /\ UNCHANGED <<ws, jobs, loopVars, traceVars>>
    /\ Witness

Reconnect ==
    /\ ws.generation < MaxGeneration
    /\ ws' = [generation |-> ws.generation + 1, logged_in |-> FALSE]
    /\ UNCHANGED <<now, back, jobs, loopVars, traceVars>>
    /\ Witness

Login ==
    /\ ws.generation > 0 /\ ~ws.logged_in
    /\ ws' = [ws EXCEPT !.logged_in = TRUE]
    /\ UNCHANGED <<now, back, jobs, loopVars, traceVars>>
    /\ Witness

----------------------------------------------------------------------------
(* The source loop.                                                        *)

Attempt(ok, snapshot) ==
    [at |-> now, generation |-> cycle.generation, ok |-> ok,
     aged |-> IF ok /\ now >= snapshot.at THEN now - snapshot.at ELSE MaxTime + 1]

Recorded(ok, snapshot) ==
    /\ samples' = record(Attempt(ok, snapshot))
    /\ log' = Append(log, Attempt(ok, snapshot))

(* The tick of the interval: the generation is read, the cycle is opened   *)
(* in the trace and its identity is checked when the generation is new.    *)
BeginCycle ==
    /\ cycle.pc = "idle" /\ cycle.id < MaxCycles
    /\ begin(cycle.id + 1)
    /\ cycle' = [id |-> cycle.id + 1, generation |-> ws.generation, snapshot |-> NoSnapshot,
                 pc |-> CASE ws.generation = 0 -> "failed"
                          [] ws.generation # 0 /\ verified # ws.generation -> "verify"
                          [] OTHER -> "capture"]
    /\ UNCHANGED <<now, back, ws, jobs, verified, latest, samples, log, diag>>

record_source_failure ==
    /\ cycle.pc = "failed"
    /\ \E slow \in Slow : finish(cycle.id, FALSE, slow)
    /\ Recorded(FALSE, NoSnapshot)
    /\ cycle' = [cycle EXCEPT !.pc = "idle", !.snapshot = NoSnapshot]
    /\ UNCHANGED <<now, back, ws, jobs, verified, latest, diag>>

(* observer.snapshot(): unavailable, of another account, or a snapshot.    *)
ObserveIdentity ==
    /\ cycle.pc = "verify"
    /\ \/ cycle' = [cycle EXCEPT !.pc = "failed"]
       \/ cycle' = [cycle EXCEPT !.pc = "verified",
                                 !.snapshot = [at |-> now, generation |-> ws.generation, some |-> TRUE]]
    /\ UNCHANGED <<now, back, ws, jobs, verified, latest, samples, log, traceVars, diag>>

AdoptGeneration_mutant ==
    /\ cycle.pc = "verified"
    /\ latest' = cycle.snapshot
    /\ verified' = ws.generation
    /\ cycle' = [cycle EXCEPT !.pc = "capture"]
    /\ UNCHANGED <<now, back, ws, jobs, samples, log, traceVars>>
    /\ Witness

(* The generation is compared again before it is taken as verified.        *)
AdoptGeneration ==
    /\ cycle.pc = "verified"
    /\ IF ws.generation # cycle.generation
       THEN /\ cycle' = [cycle EXCEPT !.pc = "failed", !.snapshot = NoSnapshot]
            /\ UNCHANGED <<verified, latest>>
       ELSE /\ latest' = cycle.snapshot
            /\ verified' = cycle.generation
            /\ cycle' = [cycle EXCEPT !.pc = "capture", !.snapshot = NoSnapshot]
    /\ UNCHANGED <<now, back, ws, jobs, samples, log, traceVars>>
    /\ Witness

(* The capture reads its own snapshot, then submits the NAV job.           *)
CaptureRead ==
    /\ cycle.pc = "capture"
    /\ cycle' = [cycle EXCEPT !.pc = "nav", !.snapshot = [at |-> now, generation |-> ws.generation, some |-> TRUE]]
    /\ jobs' = Append(jobs, [id |-> cycle.id, phase |-> 1, open |-> FALSE, ok |-> TRUE])
    /\ UNCHANGED <<now, back, ws, verified, latest, samples, log, traceVars, diag>>

CaptureFail ==
    /\ cycle.pc \in {"capture", "nav"}
    /\ cycle' = [cycle EXCEPT !.pc = "failed", !.snapshot = NoSnapshot]
    /\ UNCHANGED <<now, back, ws, jobs, verified, latest, samples, log, traceVars, diag>>

(* The answer of the NAV job reached the loop.                             *)
record_source_success ==
    /\ cycle.pc = "nav"
    /\ ~\E k \in DOMAIN jobs : jobs[k].id = cycle.id
    /\ latest' = cycle.snapshot
    /\ \E slow \in Slow : finish(cycle.id, TRUE, slow)
    /\ Recorded(TRUE, cycle.snapshot)
    /\ cycle' = [cycle EXCEPT !.pc = "idle", !.snapshot = NoSnapshot]
    /\ UNCHANGED <<now, back, ws, jobs, verified>>
    /\ Witness

----------------------------------------------------------------------------
(* The SQL owner runs one job at a time, in order, and reports its phases. *)

StartPhase ==
    /\ jobs # <<>> /\ ~Head(jobs).open /\ Head(jobs).phase <= Len(NavPhases)
    /\ phase_started(Head(jobs).id, NavPhases[Head(jobs).phase])
    /\ jobs' = [jobs EXCEPT ![1].open = TRUE]
    /\ UNCHANGED <<now, back, ws, loopVars, detailed, recent, diag>>

FinishPhase ==
    /\ jobs # <<>> /\ Head(jobs).open
    /\ phase_finished(Head(jobs).id, NavPhases[Head(jobs).phase])
    /\ jobs' = [jobs EXCEPT ![1].open = FALSE, ![1].phase = @ + 1]
    /\ UNCHANGED <<now, back, ws, loopVars, detailed, recent, diag>>

OwnerFinish ==
    /\ jobs # <<>> /\ ~Head(jobs).open /\ Head(jobs).phase > Len(NavPhases)
    /\ owner_finished(Head(jobs).id)
    /\ jobs' = Tail(jobs)
    /\ UNCHANGED <<now, back, ws, loopVars, detailed, recent, diag>>

----------------------------------------------------------------------------
(* account_diagnostics: the SQL facts, then the identity, then the latest  *)
(* snapshot, each after an await of its own.                               *)

Evidence == source_identity_ready /\ account_snapshot_fresh_at(latest, now)

DiagnoseFacts ==
    /\ diag.pc \in {"idle", "answered"} /\ diag.n < MaxDiagnoses
    /\ diag' = [n |-> diag.n + 1, pc |-> "facts", ready |-> source_identity_ready, fresh |-> FALSE,
                good |-> source_identity_ready, bad |-> ~Evidence]
    /\ UNCHANGED <<now, back, ws, jobs, loopVars, traceVars>>

DiagnoseIdentity_mutant ==
    /\ diag.pc = "facts"
    /\ diag' = [diag EXCEPT !.pc = "identity", !.good = source_identity_ready, !.bad = ~Evidence]
    /\ UNCHANGED <<now, back, ws, jobs, loopVars, traceVars>>

(* Read after the wait for the SQL owner: what was true before is dropped. *)
DiagnoseIdentity ==
    /\ diag.pc = "facts"
    /\ diag' = [diag EXCEPT !.pc = "identity", !.ready = source_identity_ready,
                            !.good = source_identity_ready, !.bad = ~Evidence]
    /\ UNCHANGED <<now, back, ws, jobs, loopVars, traceVars>>

account_diagnostics ==
    /\ diag.pc = "identity"
    /\ diag' = [diag EXCEPT !.pc = "answered", !.fresh = account_snapshot_fresh_at(latest, now)]
    /\ UNCHANGED <<now, back, ws, jobs, loopVars, traceVars>>

----------------------------------------------------------------------------

Loop ==
    \/ BeginCycle \/ record_source_failure \/ ObserveIdentity \/ AdoptGeneration
    \/ CaptureRead \/ CaptureFail \/ record_source_success

Owner == StartPhase \/ FinishPhase \/ OwnerFinish

Next ==
    \/ Pass \/ StepBack \/ Reconnect \/ Login
    \/ Loop \/ Owner
    \/ DiagnoseFacts \/ DiagnoseIdentity \/ account_diagnostics

Spec == Init /\ [][Next]_vars

(* Every wait of the loop is bounded by a deadline and the SQL owner is a  *)
(* thread that runs its jobs in order.                                     *)
FairSpec == Spec /\ WF_vars(Loop) /\ WF_vars(Owner)

----------------------------------------------------------------------------
(* Properties.                                                             *)

(* The clocks, the cycle, the trace and the diagnosis keep their types and *)
(* bounds.                                                                 *)
TypeOK ==
    /\ now \in 0 .. MaxTime
    /\ verified \in 0 .. MaxGeneration /\ ws.generation \in 0 .. MaxGeneration
    /\ cycle.pc \in {"idle", "failed", "verify", "verified", "capture", "nav"}
    /\ Len(samples) <= Capacity /\ Len(detailed) <= DetailMax /\ Len(active.phases) <= PhaseMax
    /\ diag.pc \in {"idle", "facts", "identity", "answered"}

Continuous(before, after) ==
    /\ after.at \in before.at .. before.at + MaxTickGap
    /\ after.generation = before.generation
    /\ SampleClean(after)

(* The attempts up to the given one cover the window without a fault.      *)
CleanUpTo(last) ==
    \E i \in 1 .. last :
        /\ log[i].at + WindowMs <= now
        /\ \A j \in i + 1 .. last : Continuous(log[j - 1], log[j])
        /\ now <= log[last].at + MaxTickGap

(* A window reported OBSERVED_CLEAN is clean: since some attempt at least  *)
(* a window ago every attempt succeeded with a fresh source, on one        *)
(* generation, without a gap, whatever the window dropped meanwhile and    *)
(* however the clock stepped between attempts.  The attempts it leaves out *)
(* are the last ones, if the clock has stepped back behind their stamps    *)
(* and no attempt was made since: the comment of FinanceWindow::record,    *)
(* that time regressions cannot produce a falsely complete window, does    *)
(* not hold of those.                                                      *)
CleanWindowIsClean ==
    summary(now) = "OBSERVED_CLEAN" =>
        \E last \in DOMAIN log :
            /\ \A k \in last + 1 .. Len(log) : log[k].at > now
            /\ CleanUpTo(last)

(* What the SQL owner reports lands in the cycle that submitted the     *)
(* job, never in the cycle that began while the job was still running.     *)
ReportsStayInTheirCycle ==
    \A c \in {active} \cup Range(detailed) :
        /\ \A k \in DOMAIN c.phases : c.phases[k].by = c.id
        /\ c.owner \in {0, c.id}

(* The last DetailMax cycles that failed can be read in detail: a burst of *)
(* failures displaces older cycles, not newer ones.                        *)
LatestProblemsAreKept ==
    LET failed == SelectSeq(recent, LAMBDA b : b.outcome = "failed")
    IN  failed # <<>> => \/ Last(failed).id \in readback
                         \/ Cardinality({k \in DOMAIN detailed : detailed[k].id > Last(failed).id}) = DetailMax

(* While the identity of a generation counts as verified, a snapshot was   *)
(* taken within that generation, between its start and its check.          *)
VerifiedInItsGeneration ==
    [][verified' # verified => latest'.generation = verified' /\ verified' = ws.generation]_vars

(* A diagnosis speaks of the time after the SQL wait: it reports missing   *)
(* evidence only when evidence was missing at some instant after it, and a *)
(* ready identity only when it was ready at some instant after it.         *)
DiagnosisIsCurrent ==
    diag.pc = "answered" =>
        /\ ~(diag.ready /\ diag.fresh) => diag.bad
        /\ diag.ready => diag.good

(* Every cycle that begins is recorded in the trace, whatever fails.       *)
EveryCycleIsRecorded ==
    \A id \in 1 .. MaxCycles : cycle.id = id ~> \E k \in DOMAIN recent : recent[k].id = id

============================================================================
