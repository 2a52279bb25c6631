------------------------------- MODULE ControlPoll -------------------------------
(***************************************************************************)
(* The loop of the host controller (run_until_shutdown in                  *)
(* okx-host-control/src/runtime.rs) and the delays it keeps with GitHub    *)
(* (GitHubBackoff, failure_class, classify_status and retry_delay_for in   *)
(* okx-github/src/lib.rs).                                                 *)
(*                                                                         *)
(* One task waits for the clock of the agent's supervision, for the clock  *)
(* of the poll and for its calls.  A call that fails sets the time before  *)
(* which the next poll is skipped, and the repository has to be identified *)
(* again.  Times are counted down in ticks of the supervision's clock; an  *)
(* action comes before the next tick unless it waits for GitHub.           *)
(***************************************************************************)
EXTENDS Integers, Sequences

CONSTANTS
    Transient,  \* delays after a network failure, by attempt
    Slow,       \* delays after a refusal, by attempt
    RetryAfter, \* values of Retry-After, and of the reset of the rate limit
    Pending,    \* whether an unacknowledged migration is on disk
    MaxTrouble, \* bound: calls that fail
    CallTicks   \* bound: ticks a call may take

ControlPollAssumption ==
    /\ Len(Transient) > 0 /\ Len(Slow) > 0 /\ Pending \in BOOLEAN
    /\ MaxTrouble \in Nat /\ CallTicks \in Nat \ {0}

VARIABLES
    pc,         \* what the task awaits
    verified,   \* github_verified
    failures,   \* GitHubBackoff: failure_count
    wait,       \* ticks until next_retry_at
    due,        \* clocks that have ticked: "reconcile", "poll"
    age,        \* ticks since the agent was last supervised
    taken,      \* ticks the call has taken
    trouble,    \* calls that failed so far
    asked,      \* ticks until GitHub, as it told this host, allows a call
    unheard,    \* history: ticks left of what GitHub told an operation, or an earlier controller
    identified  \* whether the repository was identified since a poll last failed

vars == <<pc, verified, failures, wait, due, age, taken, trouble, asked, unheard, identified>>
backoff == <<failures, wait>>
world == <<trouble, asked, unheard, identified>>

Lesser(a, b) == IF a < b THEN a ELSE b
Greater(a, b) == IF a > b THEN a ELSE b
Calls == {"first", "resuming", "verify", "resume", "fetch", "process"}

-----------------------------------------------------------------------------
(* Failures *)

\* What GitHub may answer instead of success: HTTP status, the remaining rate,
\* Retry-After and the reset of the rate, 0 standing for an absent header; a
\* status of 0 is a failure of the network or a timeout.
Refusals ==
    [status: {0, 401, 403, 429, 500}, exhausted: BOOLEAN, after: {0} \cup RetryAfter, reset: {0} \cup RetryAfter]

classify_status(e) ==
    CASE e.status = 0 -> "Network"
      [] e.status = 401 -> "Authentication"
      [] e.status \in {403, 429} /\ e.after # 0 -> "SecondaryRateLimit"
      [] e.status \in {403, 429} /\ e.exhausted -> "PrimaryRateLimit"
      [] e.status = 429 -> "SecondaryRateLimit"
      [] e.status = 500 -> "TransientServer"
      [] OTHER -> "PermissionOrResource"

At(table, attempt) == table[Lesser(attempt + 1, Len(table))]

retry_delay_for_mutant(e, attempt) ==
    IF classify_status(e) = "PrimaryRateLimit" THEN IF e.reset # 0 THEN Greater(e.reset, 1) ELSE Slow[1]
    ELSE IF classify_status(e) \in {"TransientServer", "Network"} THEN At(Transient, attempt)
    ELSE At(Slow, attempt)

retry_delay_for(e, attempt) ==
    IF e.status # 0 /\ e.after # 0 THEN Greater(e.after, 1)
    ELSE IF classify_status(e) = "PrimaryRateLimit" THEN IF e.reset # 0 THEN Greater(e.reset, 1) ELSE Slow[1]
    ELSE IF classify_status(e) \in {"TransientServer", "Network"} THEN At(Transient, attempt)
    ELSE At(Slow, attempt)

\* The count saturates; past the longest table it makes no difference.
on_error(e) ==
    /\ wait' = retry_delay_for(e, failures)
    /\ failures' = Lesser(failures + 1, Greater(Len(Transient), Len(Slow)))

on_success == failures' = 0 /\ wait' = 0

\* What the server asks of the client, told by its headers.
Demand(e) ==
    IF e.status = 0 THEN 0
    ELSE IF e.after # 0 THEN e.after
    ELSE IF e.status \in {403, 429} /\ e.exhausted THEN e.reset ELSE 0

-----------------------------------------------------------------------------
(* Time *)

supervised_here_mutant == pc = "idle"

\* await_network_with_reconcile, and the loop itself: the clock of the
\* supervision is heard beside the call.
supervised_here == pc \in {"first", "verify", "fetch", "idle"}

\* The task gets to what is due before the next tick, except for what waits:
\* a call, for at most CallTicks.
Busy ==
    \/ "reconcile" \in due /\ supervised_here
    \/ "poll" \in due /\ pc = "idle"
    \/ pc \in Calls /\ taken = CallTicks

Tick ==
    /\ ~Busy /\ pc # "gone"
    /\ wait' = Greater(wait - 1, 0) /\ asked' = Greater(asked - 1, 0) /\ unheard' = Greater(unheard - 1, 0)
    /\ due' = due \cup {"reconcile", "poll"}
    /\ age' = Lesser(age + 1, 2)
    /\ taken' = IF pc \in Calls THEN taken + 1 ELSE 0
    /\ UNCHANGED <<pc, verified, failures, trouble, identified>>

-----------------------------------------------------------------------------
(* The task *)

Reconcile ==
    /\ "reconcile" \in due /\ supervised_here
    /\ due' = due \ {"reconcile"} /\ age' = 0
    /\ UNCHANGED <<pc, verified, failures, wait, taken, world>>

Begin(call) == pc' = call /\ taken' = 0

\* A tick of the poll is skipped before the time; a clock that was missed
\* ticks once.
SkipPoll ==
    /\ pc = "idle" /\ "poll" \in due /\ wait > 0 /\ due' = due \ {"poll"}
    /\ UNCHANGED <<pc, verified, failures, wait, age, taken, world>>

ready == wait = 0

StartPoll_mutant ==
    /\ pc = "idle" /\ "poll" \in due /\ ready /\ verified
    /\ due' = due \ {"poll"} /\ Begin("resume")
    /\ UNCHANGED <<verified, failures, wait, age, world>>

StartPoll ==
    /\ pc = "idle" /\ "poll" \in due /\ ready
    /\ due' = due \ {"poll"} /\ Begin(IF verified THEN "resume" ELSE "verify")
    /\ UNCHANGED <<verified, failures, wait, age, world>>

\* A call succeeds: the next one of this poll follows at once.
Identified ==
    /\ pc \in {"first", "verify"} /\ on_success /\ verified' = TRUE /\ identified' = TRUE
    /\ Begin(IF pc = "first" THEN "resuming" ELSE "resume")
    /\ UNCHANGED <<due, age, trouble, asked, unheard>>

\* Without a record on disk nothing is asked of GitHub; with one, its result
\* is looked for and not found.  The initial look precedes the loop.
Resumed ==
    /\ pc \in {"resuming", "resume"} /\ Begin(IF pc = "resume" THEN "fetch" ELSE "idle")
    /\ UNCHANGED <<verified, failures, wait, due, age, world>>

Fetched ==
    /\ pc = "fetch" /\ Begin("process")
    /\ UNCHANGED <<verified, failures, wait, due, age, world>>

Processed ==
    /\ pc = "process" /\ on_success /\ Begin("idle")
    /\ UNCHANGED <<verified, due, age, world>>

\* A call of an operation is refused: it ends in a result of FAIL, which is
\* posted at once, and the loop hears of a success.
OperationRefused ==
    /\ pc = "process" /\ trouble < MaxTrouble /\ trouble' = trouble + 1 /\ Begin("process")
    /\ \E e \in Refusals: asked' = Greater(asked, Demand(e)) /\ unheard' = Greater(unheard, Demand(e))
    /\ UNCHANGED <<verified, failures, wait, due, age, identified>>

Fails(e) ==
    /\ trouble < MaxTrouble /\ trouble' = trouble + 1
    /\ asked' = Greater(asked, Demand(e))

\* An identification that fails leaves it unverified.
VerifyFails ==
    /\ pc \in {"first", "verify"}
    /\ \E e \in Refusals: Fails(e) /\ on_error(e)
    /\ Begin("idle")
    /\ UNCHANGED <<verified, due, age, unheard, identified>>

forget_mutant == UNCHANGED verified
forget == verified' = FALSE

PollFails ==
    /\ pc \in {"fetch", "process"} /\ identified' = FALSE
    /\ \E e \in Refusals: Fails(e) /\ on_error(e)
    /\ forget /\ Begin("idle")
    /\ UNCHANGED <<due, age, unheard>>

\* A failure that is not GitHub's own (a file, a body) only ends the poll.
LocalFailure ==
    /\ pc \in {"fetch", "process"} /\ trouble < MaxTrouble /\ trouble' = trouble + 1
    /\ Begin("idle")
    /\ UNCHANGED <<verified, failures, wait, due, age, asked, unheard, identified>>

\* The look for the result of a migration is not guarded: its failure ends
\* the controller, and the task starts the next one, which knows no delay.
ResumeFails ==
    /\ Pending /\ pc \in {"resuming", "resume"}
    /\ \E e \in Refusals: Fails(e)
    /\ pc' = "gone" /\ UNCHANGED <<verified, failures, wait, due, age, taken, unheard, identified>>

Restart ==
    /\ pc = "gone" /\ pc' = "first" /\ verified' = FALSE /\ failures' = 0 /\ wait' = 0
    /\ due' = {} /\ age' = 0 /\ taken' = 0 /\ unheard' = asked /\ identified' = FALSE
    /\ UNCHANGED <<trouble, asked>>

-----------------------------------------------------------------------------
Init ==
    /\ pc = "first" /\ verified = FALSE /\ failures = 0 /\ wait = 0 /\ due = {} /\ age = 0
    /\ taken = 0 /\ trouble = 0 /\ asked = 0 /\ unheard = 0 /\ identified = FALSE

Answered == Identified \/ Resumed \/ Fetched \/ Processed

Loop == Reconcile \/ SkipPoll \/ StartPoll

Next ==
    \/ Tick \/ Loop \/ Answered
    \/ VerifyFails \/ PollFails \/ OperationRefused \/ LocalFailure \/ ResumeFails \/ Restart

Spec == Init /\ [][Next]_vars

\* Time goes on, the task does what is due, every call has a timeout, and the
\* scheduled task starts the controller again.
FairSpec ==
    /\ Spec /\ WF_vars(Tick) /\ WF_vars(Loop) /\ WF_vars(Restart)
    /\ WF_vars(Answered)

-----------------------------------------------------------------------------
\* No poll begins before the time GitHub asked for, Retry-After or the reset
\* of the rate, whichever call of the loop it was told to and however the
\* loop came back to the poll.  What it told a call inside an operation, or
\* a controller that has ended since, the loop does not know of.
HonoursRetryAfter == [][StartPoll => asked <= unheard]_vars

\* After a poll failed no comments are read until the repository has been
\* identified again, unless only a local step failed.
ReadsOnlyIdentified == pc \in {"fetch", "process"} => identified

\* The agent is supervised at every tick, also while a call to identify the
\* repository or to read comments hangs.
SupervisionGoesOn == pc \in {"first", "verify", "fetch"} /\ taken > 0 => age <= 1

\* A controller that is not refused for ever finishes a poll again.
PollsAgain == []<>(pc = "process")
=============================================================================
