---------------------------- MODULE ControllerUpdate ----------------------------
(***************************************************************************)
(* Replacing the host controller by a new version (okx-host-launcher and   *)
(* the handoff of okx-host-control).  The controller answers requests of   *)
(* the control issue one by one; a request without a result is executed    *)
(* again.  A handoff writes an activation record, and once its PASS is on  *)
(* the issue the controller marks the record acknowledged and exits.  The  *)
(* Scheduler starts the launcher every minute; it activates the candidate, *)
(* waits for its proof of readiness and commits or rolls back.  Launcher   *)
(* and controllers are separate processes that share only files; each may  *)
(* die between any two of its writes.  A process is named by its pid and   *)
(* creation time, so a name is reused only when nothing refers to it.      *)
(***************************************************************************)
EXTENDS Integers, FiniteSets, Sequences

CONSTANTS
    Version, Initial,  \* controller binaries, and the one installed first
    Process,           \* process identities
    Scripts,           \* the request sequences that are tried
    None,
    MaxCrashes         \* bound on kills, reboots, lost answers and failed calls

Operation == {"stage", "handoff", "abort", "arm"}

ASSUME UpdateAssumption ==
    /\ Initial \in Version /\ None \notin Version \cup Process \cup Nat /\ MaxCrashes \in Nat
    /\ Scripts \subseteq Seq([op : Operation, version : Version])

VARIABLES
    active,     \* active-controller.json
    staged,     \* staged-controller.json
    pending,    \* activation/pending.json
    ready,      \* activation/ready.json
    failNext,   \* activation/fail-next.json
    lastResult, \* activation/last-result.json
    script,     \* the requests of the control issue, in order
    journal,    \* the results on the issue
    controller, \* the controller processes
    launcher,   \* the launcher and its copies of the files
    event,      \* the named event of a handoff: "none", "clear" or "set"
    outcomes,   \* history: every result the launcher recorded
    readied,    \* history: the requests and candidates that proved ready
    crashes

files == <<active, staged, pending, ready, failNext, lastResult>>
vars == <<files, script, journal, controller, launcher, event, outcomes, readied, crashes>>

NoPending == [req |-> None, old |-> None, prev |-> None, cand |-> None, ack |-> FALSE]
NoReady == [req |-> None, version |-> None, process |-> None]
NoResult == [req |-> None, outcome |-> "none"]
NoProcess == [version |-> None, activation |-> None, pc |-> "exited", req |-> None, status |-> "none"]
IdleLauncher == [pc |-> "idle", active |-> None, pending |-> NoPending, child |-> None, cleared |-> 0]

Requests == 1..Len(script)
Alive(p) == controller[p].pc # "exited"

\* Closed over the single-instance mutex: a process that has not taken it does not count.
controller_running == \E p \in Process : Alive(p) /\ controller[p].pc # "starting"

TypeOK ==
    /\ active \in Version /\ {staged, failNext} \subseteq Version \cup {None}
    /\ pending.req \in Requests \cup {None} /\ pending.ack \in BOOLEAN
    /\ (pending.req = None) = (pending = NoPending)
    /\ pending.req # None => pending.cand \in Version \ {pending.prev}
    /\ ready.process \in Process \cup {None}
    /\ event \in {"none", "clear", "set"} /\ event # "none" => launcher.pc = "wait"
    /\ \A p \in Process : controller[p].pc \in {"starting", "activation", "signal", "running", "post", "ack", "exited"}
    /\ launcher.pc \in {"idle", "classify", "exit", "save", "spawn", "wait", "restore", "result",
                        "commit", "clear", "clearRollback", "respawn"}

Init ==
    /\ active = Initial /\ staged = None /\ pending = NoPending /\ ready = NoReady
    /\ failNext = None /\ lastResult = NoResult /\ script \in Scripts /\ journal = {}
    /\ controller = [p \in Process |-> NoProcess]
    /\ launcher = IdleLauncher /\ event = "none" /\ outcomes = {} /\ readied = {} /\ crashes = 0
-----------------------------------------------------------------------------
\* The controller process.

Move(p, pc) == controller' = [controller EXCEPT ![p].pc = pc]
Exit(p) == controller' = [controller EXCEPT ![p] = NoProcess]

\* A kill, an error of the network that ends the controller, a reboot, a call that fails.
Crashing == crashes < MaxCrashes /\ crashes' = crashes + 1

\* SingleInstanceGuard: the second controller ends.
Acquire(p) ==
    /\ controller[p].pc = "starting"
    /\ \/ controller_running /\ Exit(p)
       \/ ~controller_running /\ Move(p, IF controller[p].activation = None THEN "running" ELSE "activation")
    /\ UNCHANGED <<files, script, journal, launcher, event, outcomes, readied, crashes>>

\* Process p was started for the acknowledged activation that is on disk.
Expected(p) ==
    /\ pending.ack /\ pending.req = controller[p].activation
    /\ controller[p].version = pending.cand

consume_fail_next_activation(p) ==
    /\ controller[p].pc = "activation" /\ failNext # None
    /\ failNext' = IF Expected(p) /\ failNext = pending.cand THEN None ELSE failNext
    /\ Exit(p)
    /\ UNCHANGED <<active, staged, pending, ready, lastResult, script, journal, launcher, event,
                   outcomes, readied, crashes>>

\* The record of readiness is written before the event is set: a launcher finds either alone.
signal_controller_ready(p) ==
    /\ controller[p].pc = "activation" /\ failNext = None
    /\ IF Expected(p)
       THEN /\ ready' = [req |-> pending.req, version |-> pending.cand, process |-> p]
            /\ readied' = readied \cup {[req |-> pending.req, version |-> pending.cand]}
            /\ Move(p, "signal")
       ELSE Exit(p) /\ UNCHANGED <<ready, readied>>
    /\ UNCHANGED <<active, staged, pending, failNext, lastResult, script, journal, launcher, event,
                   outcomes, crashes>>

\* Without its launcher there is no event to set: the candidate runs on its durable record.
signal_ready_event(p) ==
    /\ controller[p].pc = "signal" /\ Move(p, "running")
    /\ event' = IF event = "none" THEN "none" ELSE "set"
    /\ UNCHANGED <<files, script, journal, launcher, outcomes, readied, crashes>>

Terminal == {r.req : r \in journal}
Next_request == CHOOSE k \in Requests \ Terminal : \A j \in Requests \ Terminal : k <= j

durable_ack == [req |-> pending.req, status |-> "PASS"] \in journal

\* Each poll looks first for a handoff whose result is already on the issue: the record is
\* acknowledged, the Scheduler is asked for the launcher and the controller ends.
maybe_resume_controller_handoff(p) ==
    /\ controller[p].pc = "running" /\ pending.req # None /\ (pending.ack \/ durable_ack)
    /\ pending' = [pending EXCEPT !.ack = TRUE] /\ Exit(p)
    /\ UNCHANGED <<active, staged, ready, failNext, lastResult, script, journal, launcher, event,
                   outcomes, readied, crashes>>

Handling(p, op) ==
    /\ controller[p].pc = "running" /\ (pending.req = None \/ ~(pending.ack \/ durable_ack))
    /\ Requests \ Terminal # {} /\ script[Next_request].op = op

Answer(p, status) ==
    /\ controller' = [controller EXCEPT ![p].pc = "post", ![p].req = Next_request, ![p].status = status]
    /\ UNCHANGED <<active, lastResult, script, journal, launcher, event, outcomes, readied, crashes>>

Fails(p) == Answer(p, "FAIL") /\ UNCHANGED <<staged, pending, ready, failNext>>

stage_update(p) ==
    /\ Handling(p, "stage")
    /\ LET candidate == script[Next_request].version IN
       IF candidate # active /\ pending.req = None /\ staged \in {None, candidate}
       THEN staged' = candidate /\ Answer(p, "PASS") /\ UNCHANGED <<pending, ready, failNext>>
       ELSE Fails(p)

\* A bug: a handoff is prepared with nothing staged.
prepare_activation_mutant(p) ==
    /\ Handling(p, "handoff") /\ pending.req = None
    /\ pending' = [req |-> Next_request, old |-> p, prev |-> active, cand |-> staged, ack |-> FALSE]
    /\ ready' = NoReady
    /\ Answer(p, "PASS") /\ UNCHANGED <<staged, failNext>>

\* Only the process that prepared a handoff may repeat it.
prepare_activation(p) ==
    /\ Handling(p, "handoff")
    /\ \/ /\ pending.req = Next_request /\ pending.old = p
          /\ Answer(p, "PASS") /\ UNCHANGED <<staged, pending, ready, failNext>>
       \/ /\ pending.req = None /\ staged \notin {None, active}
          /\ pending' = [req |-> Next_request, old |-> p, prev |-> active, cand |-> staged, ack |-> FALSE]
          /\ ready' = NoReady
          /\ Answer(p, "PASS") /\ UNCHANGED <<staged, failNext>>
       \/ /\ IF pending.req = None THEN staged \in {None, active}
             ELSE pending.req # Next_request \/ pending.old # p
          /\ Fails(p)

arm_fail_next_activation(p) ==
    /\ Handling(p, "arm")
    /\ IF pending.req = None /\ staged # None
       THEN failNext' = staged /\ Answer(p, "PASS") /\ UNCHANGED <<staged, pending, ready>>
       ELSE Fails(p)

\* The files go one by one; an abort cut short by a crash is repeated.
abort_update(p) ==
    /\ Handling(p, "abort")
    /\ IF pending.req # None
       THEN /\ pending' = NoPending
            /\ UNCHANGED <<active, lastResult, script, journal, launcher, event, outcomes, readied,
                           crashes, staged, ready, failNext, controller>>
       ELSE IF staged # None
       THEN /\ staged' = None
            /\ UNCHANGED <<active, lastResult, script, journal, launcher, event, outcomes, readied,
                           crashes, pending, ready, failNext, controller>>
       ELSE /\ ready' = NoReady /\ failNext' = None
            /\ Answer(p, "PASS") /\ UNCHANGED <<staged, pending>>

\* The result reaches the issue or not, and the controller learns of it or not.
post_issue_comment(p) ==
    /\ controller[p].pc = "post"
    /\ \E posted, answered \in BOOLEAN :
        /\ answered => posted
        /\ IF answered THEN UNCHANGED crashes ELSE Crashing
        /\ journal' = IF posted THEN journal \cup {[req |-> controller[p].req, status |-> controller[p].status]}
                      ELSE journal
        /\ Move(p, IF answered /\ script[controller[p].req].op = "handoff" /\ controller[p].status = "PASS"
                   THEN "ack" ELSE "running")
    /\ UNCHANGED <<files, script, launcher, event, outcomes, readied>>

\* After its own PASS the controller acknowledges the record of that request, asks the Scheduler
\* for the launcher and exits; an error of either is logged, and the next poll goes on from there.
mark_terminal_ack(p) ==
    /\ controller[p].pc = "ack"
    /\ \/ /\ pending.req = controller[p].req /\ pending' = [pending EXCEPT !.ack = TRUE]
          /\ (Exit(p) /\ UNCHANGED crashes) \/ (Move(p, "running") /\ Crashing)
       \/ /\ UNCHANGED pending /\ Move(p, "running")
          /\ IF pending.req = controller[p].req THEN Crashing ELSE UNCHANGED crashes
    /\ UNCHANGED <<active, staged, ready, failNext, lastResult, script, journal, launcher, event,
                   outcomes, readied>>
-----------------------------------------------------------------------------
\* The launcher.

LauncherStep(next) ==
    /\ launcher' = next
    /\ UNCHANGED <<script, journal, readied, crashes>>

At(pc) == launcher.pc = pc
Goto(pc) == [launcher EXCEPT !.pc = pc]

Free(p) == ~Alive(p) /\ p \notin {pending.old, ready.process}

spawn_controller(p, version, activation) ==
    controller' = [controller EXCEPT ![p] = [version |-> version, activation |-> activation,
                                             pc |-> "starting", req |-> None, status |-> "none"]]

\* Both files are read before anything is probed.
Load ==
    /\ At("idle")
    /\ LauncherStep([IdleLauncher EXCEPT !.pc = "classify", !.active = active, !.pending = pending])
    /\ UNCHANGED <<files, controller, event, outcomes>>

\* The process of a ready record still runs.
ReadyExact(record) ==
    /\ ready.req = record.req /\ ready.version = record.cand
    /\ ready.process # None /\ Alive(ready.process)

\* A bug: an activation counts as acknowledged from the start.
Acknowledged_mutant(record) == record.req # None

Acknowledged(record) == record.ack

\* A bug: a candidate that is not there is waited for.
Provisional_mutant == "AwaitProvisionalReady"

Provisional ==
    IF controller_running THEN "AwaitProvisionalReady" ELSE "RollbackProvisional"

classify_recovery ==
    LET record == launcher.pending IN
    IF record.req = None
    THEN IF controller_running THEN "ControllerAlreadyRunning" ELSE "StartActive"
    ELSE IF ~Acknowledged(record)
    THEN IF controller_running THEN "WaitingForTerminalAck" ELSE "RestartPreviousWaitingForAck"
    ELSE IF launcher.active = record.cand
    THEN IF ReadyExact(record) THEN "CommitDurableReady" ELSE Provisional
    ELSE "ActivateCandidate"

\* The decisions that need nothing more, and those that start a controller.
Return ==
    /\ At("classify")
    /\ classify_recovery \in {"ControllerAlreadyRunning", "WaitingForTerminalAck", "AwaitProvisionalReady"}
    /\ LauncherStep(IdleLauncher)
    /\ UNCHANGED <<files, controller, event, outcomes>>

Start ==
    /\ At("classify") /\ classify_recovery \in {"StartActive", "RestartPreviousWaitingForAck"}
    /\ \E p \in Process :
        /\ Free(p)
        /\ spawn_controller(p, IF classify_recovery = "StartActive" THEN launcher.active
                               ELSE launcher.pending.prev, None)
    /\ LauncherStep(IdleLauncher)
    /\ UNCHANGED <<files, event, outcomes>>

Recover ==
    /\ At("classify")
    /\ classify_recovery \in {"CommitDurableReady", "RollbackProvisional", "ActivateCandidate"}
    /\ LauncherStep(Goto(CASE classify_recovery = "CommitDurableReady" -> "commit"
                           [] classify_recovery = "RollbackProvisional" -> "restore"
                           [] OTHER -> "exit"))
    /\ UNCHANGED <<files, controller, event, outcomes>>

\* wait_for_process_exit has no time limit; another controller is a conflict.
AwaitOldExit ==
    /\ At("exit") /\ ~Alive(launcher.pending.old)
    /\ LauncherStep(IF controller_running THEN IdleLauncher ELSE Goto("save"))
    /\ UNCHANGED <<files, controller, event, outcomes>>

SaveCandidate ==
    /\ At("save") /\ active' = launcher.pending.cand
    /\ LauncherStep(Goto("spawn"))
    /\ UNCHANGED <<staged, pending, ready, failNext, lastResult, controller, event, outcomes>>

SpawnCandidate ==
    /\ At("spawn") /\ ready' = NoReady /\ event' = "clear"
    /\ \E p \in Process :
        /\ Free(p) /\ spawn_controller(p, launcher.pending.cand, launcher.pending.req)
        /\ LauncherStep([launcher EXCEPT !.pc = "wait", !.child = p])
    /\ UNCHANGED <<active, staged, pending, failNext, lastResult, outcomes>>

\* The event is looked at before the process: one that proved ready and died is found here.
ReadyIsChild == ready.process = launcher.child /\ ReadyExact(launcher.pending)

\* A bug: the end of the candidate is taken for its readiness.
wait_with_child_mutant ==
    /\ At("wait") /\ (event = "set" \/ ~Alive(launcher.child))
    /\ LauncherStep(Goto("commit")) /\ event' = "none"
    /\ UNCHANGED <<files, controller, outcomes>>

wait_with_child ==
    /\ At("wait") /\ (event = "set" \/ ~Alive(launcher.child))
    /\ LauncherStep(Goto(IF event = "set" /\ ReadyIsChild THEN "commit" ELSE "restore"))
    /\ event' = "none"
    /\ UNCHANGED <<files, controller, outcomes>>

save_result(outcome) ==
    /\ lastResult' = [req |-> launcher.pending.req, outcome |-> outcome]
    /\ outcomes' = outcomes \cup {lastResult'}

\* A bug: the files are cleared without a result.
commit_activation_mutant ==
    /\ At("commit") /\ UNCHANGED <<lastResult, outcomes>>
    /\ LauncherStep(Goto("clear"))
    /\ UNCHANGED <<active, staged, pending, ready, failNext, controller, event>>

commit_activation ==
    /\ At("commit") /\ save_result("COMMITTED")
    /\ LauncherStep(Goto("clear"))
    /\ UNCHANGED <<active, staged, pending, ready, failNext, controller, event>>

\* A bug: the files are cleared before the old version is restored.
rollback_activation_mutant ==
    /\ At("restore") /\ pending' = NoPending
    /\ LauncherStep(Goto("result"))
    /\ UNCHANGED <<active, staged, ready, failNext, lastResult, controller, event, outcomes>>

rollback_activation ==
    /\ At("restore") /\ active' = launcher.pending.prev
    /\ LauncherStep(Goto("result"))
    /\ UNCHANGED <<staged, pending, ready, failNext, lastResult, controller, event, outcomes>>

RecordRollback ==
    /\ At("result") /\ save_result("ROLLED_BACK")
    /\ LauncherStep(Goto("clearRollback"))
    /\ UNCHANGED <<active, staged, pending, ready, failNext, controller, event>>

\* PENDING, STAGED, READY and FAIL_NEXT, in this order.
clear_activation_files ==
    /\ launcher.pc \in {"clear", "clearRollback"}
    /\ pending' = IF launcher.cleared = 0 THEN NoPending ELSE pending
    /\ staged' = IF launcher.cleared = 1 THEN None ELSE staged
    /\ ready' = IF launcher.cleared = 2 THEN NoReady ELSE ready
    /\ failNext' = IF launcher.cleared = 3 THEN None ELSE failNext
    /\ LauncherStep(IF launcher.cleared < 3 THEN [launcher EXCEPT !.cleared = @ + 1]
                    ELSE IF At("clear") THEN IdleLauncher ELSE Goto("respawn"))
    /\ UNCHANGED <<active, lastResult, controller, event, outcomes>>

RespawnPrevious ==
    /\ At("respawn")
    /\ \E p \in Process : Free(p) /\ spawn_controller(p, launcher.pending.prev, None)
    /\ LauncherStep(IdleLauncher)
    /\ UNCHANGED <<files, event, outcomes>>
-----------------------------------------------------------------------------
ControllerDies(p) ==
    /\ Crashing /\ Alive(p) /\ Exit(p)
    /\ UNCHANGED <<files, script, journal, launcher, event, outcomes, readied>>

LauncherDies ==
    /\ Crashing /\ ~At("idle") /\ launcher' = IdleLauncher /\ event' = "none"
    /\ UNCHANGED <<files, script, journal, controller, outcomes, readied>>

Reboot ==
    /\ Crashing /\ controller' = [p \in Process |-> NoProcess]
    /\ launcher' = IdleLauncher /\ event' = "none"
    /\ UNCHANGED <<files, script, journal, outcomes, readied>>

ControllerStep(p) ==
    \/ Acquire(p) \/ consume_fail_next_activation(p) \/ signal_controller_ready(p) \/ signal_ready_event(p)
    \/ maybe_resume_controller_handoff(p) \/ stage_update(p) \/ prepare_activation(p)
    \/ arm_fail_next_activation(p) \/ abort_update(p) \/ post_issue_comment(p) \/ mark_terminal_ack(p)

LauncherRun ==
    \/ Load \/ Return \/ Start \/ Recover \/ AwaitOldExit \/ SaveCandidate \/ SpawnCandidate
    \/ wait_with_child \/ commit_activation \/ rollback_activation \/ RecordRollback
    \/ clear_activation_files \/ RespawnPrevious

Next ==
    \/ \E p \in Process : ControllerStep(p) \/ ControllerDies(p)
    \/ LauncherRun \/ LauncherDies \/ Reboot

Spec == Init /\ [][Next]_vars

\* The Scheduler starts the launcher every minute, and a process that can run does.
Fairness == WF_vars(LauncherRun) /\ \A p \in Process : WF_vars(ControllerStep(p))

FairSpec == Spec /\ Fairness
-----------------------------------------------------------------------------
\* A candidate becomes the active version only after the PASS of its handoff is on the issue
\* (recovery_matrix_never_activates_before_terminal_ack): nobody is left without an answer.
CandidateNeedsAck ==
    pending.req # None /\ active = pending.cand => durable_ack

\* A recorded commit means that the candidate of that handoff proved ready, through every crash
\* of launcher and candidate.
CommittedWasReady ==
    lastResult.outcome = "COMMITTED" => \E r \in readied : r.req = lastResult.req

\* With no activation on disk the active version is the first one or one that proved ready: a
\* rollback cut short never leaves the failed candidate in charge.
ActiveIsAccepted ==
    pending.req = None => active = Initial \/ \E r \in readied : r.version = active

\* A handoff is committed or rolled back, not first one and then the other
\* ("deterministic commit/rollback across crash/reboot").
OneOutcome == \A a, b \in outcomes : a.req = b.req => a.outcome = b.outcome

\* Whatever the updates, failures and crashes did, in the end a controller runs and stays.
\* (Not always the active version: a process started just before a handoff and slow to take
\* the mutex may take it when the candidate leaves.)
ControllerReturns == <>[](\E p \in Process : controller[p].pc = "running")

\* A handoff whose PASS is on the issue ends in a result of the launcher, though the controller
\* that passed it may die before it acknowledges the record, or never learn that it has passed.
HandoffIsDecided ==
    \A r \in UNION {1..Len(s) : s \in Scripts} :
        (r \in Requests /\ script[r].op = "handoff" /\ [req |-> r, status |-> "PASS"] \in journal)
            ~> (\E o \in outcomes : o.req = r)
=============================================================================
