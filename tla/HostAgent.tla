------------------------------- MODULE HostAgent -------------------------------
(***************************************************************************)
(* The host controller as owner of the agent process                       *)
(* (okx-host-control/src/executor.rs, artifact.rs, provenance.rs).  An     *)
(* operation is a list of steps, done one after the other by the single    *)
(* control thread; the controller may be killed between any two, which     *)
(* closes the Job and kills what was assigned to it.  A process that was   *)
(* spawned and not yet assigned survives: an engine sees the end of its    *)
(* standard input and drains, a storage command runs to its end.  The      *)
(* agent takes the lease of engine.lock before it touches the accounts.    *)
(* A call of the operating system that fails ends the operation where it   *)
(* stands.                                                                 *)
(***************************************************************************)
EXTENDS Integers, Sequences, FiniteSets

CONSTANTS
    Release,            \* agent binaries
    ControllerRelease,  \* the release of the running controller
    Process,
    None,
    Operations,         \* the operations an instance tries
    MaxFaults,          \* bound on failed system calls and on ends of a controller or an agent
    MaxRequests         \* bound on the operations asked for

AgentAssumption ==
    /\ ControllerRelease \in Release /\ None \notin Release \cup Process
    /\ MaxFaults \in Nat /\ MaxRequests \in Nat

VARIABLES
    desiredFile, \* engine-state.pb: "running", "stopped" or "corrupt"
    binary,      \* okx-agent.exe
    staging,     \* okx-agent.exe.new
    backup,      \* okx-agent.exe.previous
    provenance,  \* installed-agent.json
    control,     \* HostExecutor, and whether the controller runs at all
    process,     \* the agent processes
    lease,       \* the processes that work on the accounts
    faults,
    requests

disk == <<desiredFile, binary, staging, backup, provenance>>
vars == <<disk, control, process, lease, faults, requests>>

Dead == [st |-> "dead", release |-> None, job |-> FALSE, kind |-> "engine"]
Alive(p) == process[p].st # "dead"
Free == {p \in Process : ~Alive(p)}
JobMembers == {p \in Process : Alive(p) /\ process[p].job /\ process[p].kind = "engine"}

\* A controller that has just read the desired state.  History: the agents of the Job whose
\* termination failed, and the installs cut short with a copy moved since the last complete one.
Loaded ==
    [up |-> TRUE, desired |-> IF desiredFile = "running" THEN "running" ELSE "stopped",
     error |-> desiredFile = "corrupt", child |-> None, pipe |-> FALSE, due |-> TRUE,
     todo |-> <<>>, release |-> None, stopped |-> FALSE, lost |-> {}, cut |-> 0]

TypeOK ==
    /\ desiredFile \in {"running", "stopped", "corrupt"}
    /\ {binary, staging, backup, provenance} \subseteq Release \cup {None}
    /\ control.child \in Process \cup {None} /\ Len(control.todo) <= 9 /\ control.cut \in 0 .. MaxFaults
    /\ control.child # None /\ control.todo = <<>> => control.pipe
    /\ \A p \in Process : process[p].st \in {"boot", "open", "drain", "dead"}
    /\ lease \subseteq {p \in Process : Alive(p)}

Init ==
    /\ desiredFile \in {"stopped", "corrupt"} /\ binary = ControllerRelease /\ provenance = ControllerRelease
    /\ staging = None /\ backup = None
    /\ control = Loaded /\ process = [p \in Process |-> Dead] /\ lease = {}
    /\ faults = 0 /\ requests = 0
-----------------------------------------------------------------------------
Idle == control.up /\ control.todo = <<>>

\* agent_is_running: an ended child is noticed, and a wanted one is put off until its backoff.
\* The pipe is not cleared.
Running == control.child # None /\ Alive(control.child)
Noticed ==
    IF control.child = None \/ Running THEN control
    ELSE [control EXCEPT !.child = None, !.due = control.desired # "running" /\ @]

lifecycle_gate(op) == op = "stop" \/ desiredFile # "corrupt"

\* Only a stopped controller with an empty Job and no pipe may touch the accounts' storage.
require_storage_stopped ==
    ~Running /\ control.desired = "stopped" /\ JobMembers = {} /\ ~control.pipe

\* installed-agent.json describes the installed binary.
Verified == binary # None /\ binary = provenance
require_release == Verified /\ provenance = ControllerRelease

\* initialize_native and storage_maintenance run the agent once, in a Job of its own.
StorageSteps == <<"storage", "assignStorage", "storageDone">>

Steps(op) ==
    CASE op = "start" -> IF Running THEN <<"wantRunning">> ELSE <<"wantRunning", "spawn", "assign">>
      [] op = "stop" -> <<"wantStopped", "shutdown", "exit", "stopped">>
      [] op = "restart" -> <<"wantRunning", "shutdown", "exit", "respawn", "reassign">>
      [] op = "kill" -> <<"shutdown", "exit", "backoff">>
      [] op = "deploy" -> (IF Running THEN <<"shutdown", "exit">> ELSE <<>>)
                          \o <<"write", "dropBackup", "keep", "install">>
                          \o (IF control.desired = "running" THEN <<"spawn", "assign">> ELSE <<>>)
                          \o <<"record">>
      [] op \in {"backup", "restore"} -> StorageSteps

Allowed(op) ==
    /\ lifecycle_gate(op)
    /\ CASE op = "start" -> Running \/ binary # None
         [] op = "kill" -> Running
         [] op = "backup" -> require_storage_stopped /\ binary # None
         [] op = "restore" -> require_storage_stopped /\ require_release
         [] OTHER -> TRUE

\* An operation of the control issue; a refused one changes nothing but what was noticed.
Execute(op, release) ==
    /\ Idle /\ requests < MaxRequests /\ requests' = requests + 1
    /\ op \in Operations /\ (op = "deploy" \/ release = ControllerRelease)
    /\ control' = IF Allowed(op)
                  THEN [Noticed EXCEPT !.todo = Steps(op), !.release = release, !.stopped = FALSE]
                  ELSE Noticed
    /\ UNCHANGED <<disk, process, lease, faults>>

\* A bug: an agent that ends is not started again.
reconcile_desired_mutant ==
    /\ Idle /\ control.desired = "stopped" /\ Running
    /\ control' = [Noticed EXCEPT !.todo = <<"shutdown", "exit">>]
    /\ UNCHANGED <<disk, process, lease, faults, requests>>

\* The tick.  A corrupt desired state leaves everything as it is.
reconcile_desired ==
    /\ Idle
    /\ control' = IF control.error THEN Noticed
                  ELSE IF control.desired = "stopped" /\ Running
                  THEN [Noticed EXCEPT !.todo = <<"shutdown", "exit">>]
                  ELSE IF control.desired = "running" /\ ~Running /\ Noticed.due
                  THEN [Noticed EXCEPT !.todo = <<"spawn", "assign">>]
                  ELSE Noticed
    /\ control' # control
    /\ UNCHANGED <<disk, process, lease, faults, requests>>

\* next_restart_at is reached.
BackoffEnds ==
    /\ control.up /\ ~control.due /\ control' = [control EXCEPT !.due = TRUE]
    /\ UNCHANGED <<disk, process, lease, faults, requests>>
-----------------------------------------------------------------------------
\* The steps of an operation.

Fault == faults < MaxFaults /\ faults' = faults + 1
Calm == UNCHANGED faults

At(step) == control.up /\ control.todo # <<>> /\ Head(control.todo) = step
Done == [control EXCEPT !.todo = Tail(@)]
Cut == control.cut + (IF At("keep") \/ At("install") THEN 1 ELSE 0)
Failed == [control EXCEPT !.todo = <<>>, !.cut = Cut]

\* A file that cannot be written, removed or renamed.
IoError ==
    /\ \E step \in {"wantRunning", "wantStopped", "write", "dropBackup", "keep", "record"} : At(step)
    /\ Fault /\ control' = Failed
    /\ UNCHANGED <<disk, process, lease, requests>>

persist_desired(state) ==
    /\ At(IF state = "running" THEN "wantRunning" ELSE "wantStopped")
    /\ desiredFile' = state /\ control' = [Done EXCEPT !.desired = state, !.error = FALSE]
    /\ UNCHANGED <<binary, staging, backup, provenance, process, lease, faults, requests>>

\* A bug: the running agent is left alone.
terminate_agent_owned_mutant ==
    /\ At("shutdown")
    /\ control' = [Done EXCEPT !.pipe = FALSE, !.child = None]
    /\ UNCHANGED <<disk, process, lease, faults, requests>>

\* Ask the child to drain ...
terminate_agent_owned ==
    /\ At("shutdown")
    /\ process' = IF Running THEN [process EXCEPT ![control.child].st = "drain"] ELSE process
    /\ control' = [Done EXCEPT !.pipe = FALSE]
    /\ UNCHANGED <<disk, lease, faults, requests>>

\* ... and wait for it; after ten seconds the Job is terminated.  Without a child nothing is.
\* When the wait or the termination fails the child, taken already, is forgotten as it is.
AwaitExit ==
    /\ At("exit")
    /\ LET killed == IF control.child = None THEN {} ELSE {control.child} \cup JobMembers IN
       \/ /\ process' = [p \in Process |-> IF p \in killed THEN Dead ELSE process[p]]
          /\ lease' = lease \ killed
          /\ control' = [Done EXCEPT !.child = None] /\ Calm
       \/ /\ Running /\ Fault
          /\ control' = [Failed EXCEPT !.child = None, !.lost = @ \cup {control.child}]
          /\ UNCHANGED <<process, lease>>
    /\ UNCHANGED <<disk, requests>>

Born(p, kind) ==
    /\ process' = [process EXCEPT ![p] = [st |-> "boot", release |-> binary, job |-> FALSE, kind |-> kind]]
    /\ control' = [Done EXCEPT !.child = p, !.lost = @ \ {p}]

\* A start that fails is put off; restart_agent leaves it to the next tick.
NotStarted == [Failed EXCEPT !.due = @ /\ (At("respawn") \/ At("reassign")), !.child = None]

start_agent_process_mutant ==
    /\ At("spawn") \/ At("respawn")
    /\ \/ /\ binary # None /\ Calm
          /\ \E p \in Free : Born(p, "engine")
       \/ /\ \/ binary = None /\ Calm
             \/ Fault
          /\ control' = NotStarted /\ UNCHANGED process
    /\ UNCHANGED <<disk, lease, requests>>

\* start_agent_process refuses an owned process and a missing binary.
start_agent_process ==
    /\ At("spawn") \/ At("respawn")
    /\ \/ /\ control.child = None /\ JobMembers = {} /\ binary # None /\ Calm
          /\ \E p \in Free : Born(p, "engine")
       \/ /\ \/ (JobMembers # {} \/ binary = None) /\ Calm
             \/ Fault
          /\ control' = NotStarted /\ UNCHANGED process
    /\ UNCHANGED <<disk, lease, requests>>

Ends(p) == process' = [process EXCEPT ![p] = Dead] /\ lease' = lease \ {p}

\* A child that cannot be assigned is killed.
Assign ==
    /\ At("assign") \/ At("reassign")
    /\ \/ /\ process' = IF Alive(control.child) THEN [process EXCEPT ![control.child].job = TRUE] ELSE process
          /\ control' = [Done EXCEPT !.pipe = TRUE, !.due = TRUE]
          /\ UNCHANGED lease /\ Calm
       \/ Fault /\ Ends(control.child) /\ control' = NotStarted
    /\ UNCHANGED <<disk, requests>>

\* stop_agent answers STOPPED; acceptance_kill_agent waits a second before the restart.
Answer ==
    /\ At("stopped") \/ At("backoff")
    /\ control' = [Done EXCEPT !.stopped = At("stopped"), !.due = At("stopped")]
    /\ UNCHANGED <<disk, process, lease, faults, requests>>

\* install_verified_agent, file by file.  The write is not atomic: it begins by truncating.
WriteStaging ==
    /\ At("write")
    /\ \/ staging # None /\ staging' = None /\ UNCHANGED control
       \/ staging = None /\ staging' = control.release /\ control' = Done
    /\ UNCHANGED <<desiredFile, binary, backup, provenance, process, lease, faults, requests>>

DropBackup ==
    /\ At("dropBackup") /\ backup' = None /\ control' = Done
    /\ UNCHANGED <<desiredFile, binary, staging, provenance, process, lease, faults, requests>>

KeepCurrent ==
    /\ At("keep") /\ control' = Done /\ binary' = None
    /\ backup' = IF binary # None THEN binary ELSE backup
    /\ UNCHANGED <<desiredFile, staging, provenance, process, lease, faults, requests>>

\* A rename that fails puts the previous binary back, if that rename does not fail too.
InstallStaging ==
    /\ At("install")
    /\ \/ /\ binary' = staging /\ staging' = None /\ UNCHANGED backup
          /\ control' = [Done EXCEPT !.cut = 0] /\ Calm
       \/ /\ backup # None /\ binary' = backup /\ backup' = None /\ UNCHANGED staging
          /\ control' = [Failed EXCEPT !.cut = control.cut] /\ Fault
       \/ UNCHANGED <<binary, staging, backup>> /\ control' = Failed /\ Fault
    /\ UNCHANGED <<desiredFile, provenance, process, lease, requests>>

RecordProvenance ==
    /\ At("record") /\ provenance' = control.release /\ control' = Done
    /\ UNCHANGED <<desiredFile, binary, staging, backup, process, lease, faults, requests>>

\* bounded_native_output: a Job of its own, five minutes, then the end is unknown and it is killed.
SpawnStorage ==
    /\ At("storage")
    /\ \E p \in Free : Born(p, "storage")
    /\ UNCHANGED <<disk, lease, faults, requests>>

AssignStorage ==
    /\ At("assignStorage")
    /\ \/ /\ process' = IF Alive(control.child) THEN [process EXCEPT ![control.child].job = TRUE] ELSE process
          /\ control' = Done /\ UNCHANGED lease /\ Calm
       \/ Fault /\ Ends(control.child) /\ control' = [Failed EXCEPT !.child = None]
    /\ UNCHANGED <<disk, requests>>

StorageDone ==
    /\ At("storageDone")
    /\ process' = [process EXCEPT ![control.child] = Dead] /\ lease' = lease \ {control.child}
    /\ control' = [Done EXCEPT !.child = None]
    /\ UNCHANGED <<disk, faults, requests>>
-----------------------------------------------------------------------------
\* The agent processes.

engine_lease(p) ==
    /\ process[p].st = "boot"
    /\ \/ lease = {} /\ lease' = {p} /\ process' = [process EXCEPT ![p].st = "open"]
       \/ lease # {} /\ Ends(p)
    /\ UNCHANGED <<disk, control, faults, requests>>

\* run_engine returns after it has drained; a storage command after its work.
AgentReturns(p) ==
    /\ \/ process[p].st = "drain"
       \/ process[p].st = "open" /\ process[p].kind = "storage"
    /\ Ends(p)
    /\ UNCHANGED <<disk, control, faults, requests>>

\* control_reader: the end of standard input is a request to stop.
InputEnds(p) ==
    /\ process[p].kind = "engine" /\ process[p].st = "open"
    /\ control.child # p
    /\ process' = [process EXCEPT ![p].st = "drain"]
    /\ UNCHANGED <<disk, control, lease, faults, requests>>

AgentDies(p) ==
    /\ Alive(p) /\ faults < MaxFaults /\ faults' = faults + 1 /\ Ends(p)
    /\ UNCHANGED <<disk, control, requests>>

ControllerDies ==
    /\ control.up /\ faults < MaxFaults /\ faults' = faults + 1
    /\ control' = [Failed EXCEPT !.up = FALSE, !.child = None, !.pipe = FALSE, !.stopped = FALSE, !.lost = {}]
    /\ process' = [p \in Process |-> IF process[p].job THEN Dead ELSE process[p]]
    /\ lease' = {p \in lease : ~process[p].job}
    /\ UNCHANGED <<disk, requests>>

ControllerStarts ==
    /\ ~control.up /\ control' = [Loaded EXCEPT !.cut = control.cut]
    /\ UNCHANGED <<disk, process, lease, faults, requests>>

Step ==
    \/ \E state \in {"running", "stopped"} : persist_desired(state)
    \/ terminate_agent_owned \/ AwaitExit \/ start_agent_process \/ Assign \/ Answer
    \/ IoError \/ WriteStaging \/ DropBackup \/ KeepCurrent \/ InstallStaging \/ RecordProvenance
    \/ SpawnStorage \/ AssignStorage \/ StorageDone

Control == Step \/ reconcile_desired \/ BackoffEnds \/ ControllerStarts

Agent(p) == engine_lease(p) \/ AgentReturns(p) \/ InputEnds(p)

Next ==
    \/ \E op \in Operations, r \in Release : Execute(op, r)
    \/ Control \/ ControllerDies
    \/ \E p \in Process : Agent(p) \/ AgentDies(p)

Spec == Init /\ [][Next]_vars

\* The controller's ticker and the Scheduler never stop; a process goes on until it ends.
Fairness ==
    /\ WF_vars(Step) /\ WF_vars(reconcile_desired) /\ WF_vars(BackoffEnds) /\ WF_vars(ControllerStarts)
    /\ \A p \in Process : WF_vars(Agent(p))

FairSpec == Spec /\ Fairness
-----------------------------------------------------------------------------
\* The Job never holds two engines, however terminations and assignments fail: an agent that was
\* forgotten alive keeps the next one from being started until it has ended.
OneEngine == Cardinality(JobMembers) <= 1

\* After STOPPED is answered no agent is left in the Job, until another is asked for, but one that
\* an earlier termination failed on: terminate_agent_owned returns early when it has no child, and
\* does not look at the Job then.
StoppedMeansStopped == control.stopped => JobMembers \subseteq control.lost

\* An engine the controller owns runs the release its provenance names, whenever the status says
\* VERIFIED: a deploy cut short shows as a mismatch.  Only an agent that a termination failed on
\* may be of an earlier release, as it drains.
VerifiedIsRunning ==
    Idle /\ Verified => \A p \in JobMembers \ control.lost : process[p].release = provenance

\* Between any two steps of an install some complete agent binary is on disk, unless two installs
\* since the last complete one were cut short after the removal of the backup: a third then begins
\* by truncating the only copy left.
ABinaryIsOnDisk == control.cut < 2 => {binary, staging, backup} # {None}

\* An agent that is wanted runs in the end, if its binary is there and the faults end.
WantedRuns ==
    <>[](desiredFile = "running" /\ binary # None) =>
        <>[](\E p \in Process : p \in lease /\ process[p].kind = "engine" /\ control.child = p)
=============================================================================
