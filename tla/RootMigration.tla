------------------------------ MODULE RootMigration ------------------------------
(***************************************************************************)
(* Putting the launcher under the scheduled task of a host                 *)
(* (okx-host-control/src/root_migration.rs, artifact.rs, runtime.rs, with  *)
(* install_root, install_launcher_entrypoint and upgrade_launcher_root of  *)
(* okx-host-launcher/src/lib.rs, and the older legacy_bootstrap.rs).       *)
(*                                                                         *)
(* The scheduled task starts one file, the entrypoint.  At first it is the *)
(* controller itself; afterwards it is the launcher, which starts the      *)
(* active controller version.  A controller that is asked to install the   *)
(* root writes the launcher, the version and the record of the active one, *)
(* leaves a migration record and posts its result; the migrator, a process *)
(* of its own, replaces the entrypoint once the controller is gone.        *)
(*                                                                         *)
(* Before that, a host may carry out one older kind of update: an          *)
(* activator renames the controller away and the staged one into place.    *)
(*                                                                         *)
(* A process is [pid, born]: the system uses a pid again.  A time of       *)
(* creation is told apart from those something still refers to.  A file in *)
(* use by a process cannot be replaced (Windows).  What files hold is named:   *)
(* "old" and "new" controllers, "launcher" and "launcher2".                *)
(***************************************************************************)
EXTENDS Integers, FiniteSets

CONSTANTS
    Requests,   \* install requests on the control issue
    Pids,       \* process ids the system hands out
    MaxBorn,    \* bound: times of creation told apart
    Faults,     \* subset of {"crash", "migrator", "lost", "spawn", "upgrade"}
    MaxFaults,  \* bound on the faults
    LegacyFaults, \* whether the older activator can be interrupted
    Legacy      \* whether an older update is staged at the start

RootMigrationAssumption ==
    MaxBorn \in Nat \ {0} /\ MaxFaults \in Nat /\ LegacyFaults \in BOOLEAN /\ Legacy \in BOOLEAN

VARIABLES
    file,       \* the files of the control root
    record,     \* the migration record
    issue,      \* request -> "none", "asked", "pass" or "fail"
    ctl,        \* the controller that runs
    faults,     \* faults so far
    mig,        \* the migrator that runs
    legacy      \* progress of the older activator

vars == <<file, record, issue, ctl, faults, mig, legacy>>

NoProc == [pid |-> 0, born |-> 0]
NoRecord == [req |-> "none", parent |-> NoProc, ack |-> FALSE]
NoCtl == [id |-> NoProc, pc |-> "none", image |-> "none", path |-> "none", req |-> "none"]
NoMig == [pc |-> "none", rec |-> NoRecord, spawner |-> NoProc]

Alive(id) == ctl.id = id /\ ctl.pc # "none"
\* The entrypoint is open while a controller runs from it.
InUse == ctl.pc # "none" /\ ctl.path = "entry"
Requested == {r \in Requests: issue[r] = "asked"}

CtlGoes(pc) == ctl' = [ctl EXCEPT !.pc = pc]
Exit == ctl' = NoCtl

-----------------------------------------------------------------------------
(* The task and the controller *)

Fault == faults < MaxFaults /\ faults' = faults + 1

Identities == {[pid |-> pid, born |-> born]: pid \in Pids, born \in 1 .. MaxBorn}
Remembered == {record.parent, mig.rec.parent, mig.spawner}

\* Once a minute the task starts the entrypoint.  A controller takes the
\* single-instance mutex; the launcher starts the active version, and does
\* nothing when a controller runs.
SchedulerStarts ==
    /\ ctl.pc = "none" /\ file.entry # "none"
    /\ legacy \notin {"guarded", "copied", "dropped", "moved", "installed"}
    /\ \E id \in Identities \ Remembered:
        LET run(image, path) ==
                ctl' = [id |-> id, pc |-> "poll", image |-> image, path |-> path, req |-> "none"]
        IN IF file.entry \in {"old", "new"} THEN run(file.entry, "entry")
           ELSE file.active # "none" /\ file.version = file.active /\ run(file.active, "version")
    /\ UNCHANGED <<file, record, issue, faults, mig, legacy>>

found_ack_mutant(r) == r.req # "none"

\* recover_terminal_ack: the record says so, or the result is on the issue.
found_ack(r) == r.ack \/ (r.req # "none" /\ issue[r.req] = "pass")

\* maybe_resume_root_migration, before every batch of requests.
Resume ==
    /\ ctl.pc = "poll" /\ record.req # "none" /\ found_ack(record)
    /\ record' = [record EXCEPT !.ack = TRUE]
    /\ CtlGoes("spawn")
    /\ UNCHANGED <<file, issue, faults, mig, legacy>>

\* Requests are met once no acknowledged migration is left.
Batch == ctl.pc = "poll" /\ (record.req = "none" \/ ~found_ack(record))

Take(r) ==
    /\ Batch /\ r \in Requested
    /\ ctl' = [ctl EXCEPT !.pc = "verify", !.req = r]
    /\ UNCHANGED <<file, record, issue, faults, mig, legacy>>

Post(status) ==
    /\ issue' = [issue EXCEPT ![ctl.req] = status]
    /\ CtlGoes(IF status = "pass" THEN "posted" ELSE "poll")

\* The running controller has to be the one of the bundle, and a launcher
\* of another one is a conflict.
Verify ==
    /\ ctl.pc = "verify"
    /\ IF ctl.image # "new" \/ file.launcher \notin {"none", "launcher"}
       THEN Post("fail")
       ELSE CtlGoes("launcher") /\ UNCHANGED issue
    /\ UNCHANGED <<file, record, faults, mig, legacy>>

InstallLauncher ==
    /\ ctl.pc = "launcher" /\ file' = [file EXCEPT !.launcher = "launcher"] /\ CtlGoes("version")
    /\ UNCHANGED <<record, issue, faults, mig, legacy>>

StageVersion ==
    /\ ctl.pc = "version" /\ file' = [file EXCEPT !.version = "new"] /\ CtlGoes("active")
    /\ UNCHANGED <<record, issue, faults, mig, legacy>>

SaveActive_mutant ==
    /\ ctl.pc = "active" /\ CtlGoes("prepare")
    /\ UNCHANGED <<file, record, issue, faults, mig, legacy>>

\* The version is recorded when none is; a record of another one cannot be,
\* as a version only becomes active here in this model.
SaveActive ==
    /\ ctl.pc = "active" /\ file' = [file EXCEPT !.active = "new"] /\ CtlGoes("prepare")
    /\ UNCHANGED <<record, issue, faults, mig, legacy>>

\* prepare: a record of this request is kept as it is, with the process that
\* wrote it; one of another request is a conflict.
prepare ==
    /\ ctl.pc = "prepare"
    /\ IF record.req \notin {"none", ctl.req} THEN Post("fail") /\ UNCHANGED record
       ELSE /\ record' = IF record.req = ctl.req THEN record
                         ELSE [req |-> ctl.req, parent |-> ctl.id, ack |-> FALSE]
            /\ CtlGoes("post") /\ UNCHANGED issue
    /\ UNCHANGED <<file, faults, mig, legacy>>

\* The result is posted.  A call that fails, with or without effect, ends the
\* batch: the request is met again at the next poll.
PostResult ==
    /\ ctl.pc = "post"
    /\ \/ Post("pass") /\ UNCHANGED faults
       \/ /\ "lost" \in Faults /\ Fault /\ CtlGoes("poll")
          /\ issue' \in {issue, [issue EXCEPT ![ctl.req] = "pass"]}
    /\ UNCHANGED <<file, record, mig, legacy>>

MarkAck ==
    /\ ctl.pc = "posted"
    /\ IF record.req = ctl.req THEN record' = [record EXCEPT !.ack = TRUE] /\ CtlGoes("spawn")
       ELSE UNCHANGED record /\ CtlGoes("exit")
    /\ UNCHANGED <<file, issue, faults, mig, legacy>>

may_spawn == record.req # "none" /\ record.ack

\* spawn_migrator; the controller leaves whether or not it could be started.
\* A second migrator finds the mutex taken and leaves as well.
SpawnMigrator ==
    /\ ctl.pc = "spawn" /\ CtlGoes("exit")
    /\ \/ /\ mig' = IF may_spawn /\ mig.pc = "none"
                 THEN [pc |-> "load", rec |-> NoRecord, spawner |-> ctl.id] ELSE mig
          /\ UNCHANGED faults
       \/ "spawn" \in Faults /\ Fault /\ UNCHANGED mig
    /\ UNCHANGED <<file, record, issue, legacy>>

ControllerExits == ctl.pc = "exit" /\ Exit /\ UNCHANGED <<file, record, issue, faults, mig, legacy>>

\* A crash at any point, or the machine goes down with the migrator too.
Crash ==
    /\ "crash" \in Faults /\ Fault /\ ctl.pc # "none" /\ Exit
    /\ UNCHANGED <<file, record, issue, mig, legacy>>

-----------------------------------------------------------------------------
(* The migrator *)

MigEnds == mig' = NoMig

MigLoad ==
    /\ mig.pc = "load"
    /\ IF record.req # "none" /\ record.ack THEN mig' = [mig EXCEPT !.pc = "wait", !.rec = record] ELSE MigEnds
    /\ UNCHANGED <<file, record, issue, ctl, faults, legacy>>

\* wait_for_exact_process_exit: a pid that is used again by a process with
\* another time of creation is not waited for.
same_process(id) == Alive(id)

MigWait ==
    /\ mig.pc = "wait" /\ ~same_process(mig.rec.parent)
    /\ mig' = [mig EXCEPT !.pc = "install"]
    /\ UNCHANGED <<file, record, issue, ctl, faults, legacy>>

expected(image) == image \in {"new", "launcher"}

\* install_launcher_entrypoint: the launcher is the expected one and the
\* entrypoint holds it already, or holds the expected controller.
MigInstall ==
    /\ mig.pc = "install"
    /\ IF file.launcher # "launcher" \/ ~expected(file.entry) \/ (file.entry # "launcher" /\ InUse)
       THEN MigEnds /\ UNCHANGED file
       ELSE file' = [file EXCEPT !.entry = "launcher"] /\ mig' = [mig EXCEPT !.pc = "clear"]
    /\ UNCHANGED <<record, issue, ctl, faults, legacy>>

MigClear_mutant ==
    /\ mig.pc = "install" /\ record' = NoRecord /\ mig' = [mig EXCEPT !.pc = "clear"]
    /\ UNCHANGED <<file, issue, ctl, faults, legacy>>

\* The record goes after the entrypoint is in place; then the task is run.
MigClear ==
    /\ mig.pc = "clear" /\ record' = NoRecord /\ MigEnds
    /\ UNCHANGED <<file, issue, ctl, faults, legacy>>

MigCrash ==
    /\ "migrator" \in Faults /\ Fault /\ mig.pc # "none" /\ MigEnds
    /\ UNCHANGED <<file, record, issue, ctl, legacy>>

-----------------------------------------------------------------------------
(* A newer launcher, once the root is there *)

upgradable == file.launcher \in {"launcher", "launcher2"} /\ file.entry = "launcher"

\* The running controller has to be the one of the bundle here as well.
UpgradeRequested == "upgrade" \in Faults /\ Batch /\ ctl.image = "new"

\* upgrade_launcher_root: the source first, then the entrypoint; a crash
\* between the two is met again by the next request.
UpgradeSource ==
    /\ UpgradeRequested /\ upgradable
    /\ file' = [file EXCEPT !.launcher = "launcher2"] /\ CtlGoes("upgrade")
    /\ UNCHANGED <<record, issue, faults, mig, legacy>>

UpgradeEntry ==
    /\ ctl.pc = "upgrade" /\ file' = [file EXCEPT !.entry = "launcher2"] /\ CtlGoes("poll")
    /\ UNCHANGED <<record, issue, faults, mig, legacy>>

-----------------------------------------------------------------------------
(* The older activator *)

RootAbsent == file.launcher = "none" /\ file.active = "none"

\* load_pending, verify_pending and durable_handoff_ack: the record, the
\* staged file and the result on the issue are as the activator expects.
PendingVerified == legacy = "waiting"

\* It looks for the root, while the parent that started it may still run ...
LegacyCheck ==
    /\ legacy = "staged" /\ RootAbsent /\ legacy' = "waiting"
    /\ UNCHANGED <<file, record, issue, ctl, faults, mig>>

\* ... waits for its parent and takes the single-instance mutex.
LegacyBegin ==
    /\ PendingVerified /\ ctl.pc = "none" /\ legacy' = "guarded"
    /\ UNCHANGED <<file, record, issue, ctl, faults, mig>>

LegacyStep(from, to, f) ==
    /\ legacy = from /\ legacy' = to /\ file' = f
    /\ UNCHANGED <<record, issue, ctl, faults, mig>>

LegacyCopy == LegacyStep("guarded", "copied", [file EXCEPT !.fresh = "new"])
LegacyDropBackup == LegacyStep("copied", "dropped", [file EXCEPT !.backup = "none"])

LegacyMove_mutant == LegacyStep("dropped", "moved", [file EXCEPT !.entry = "none"])
LegacyMove == LegacyStep("dropped", "moved", [file EXCEPT !.backup = file.entry, !.entry = "none"])

LegacyInstall == LegacyStep("moved", "installed", [file EXCEPT !.entry = file.fresh, !.fresh = "none"])

\* Renaming fails: the previous controller is put back.
LegacyRestore ==
    /\ LegacyFaults
    /\ LegacyStep("moved", "failed", [file EXCEPT !.entry = file.backup, !.backup = "none"])

LegacyDone == LegacyStep("installed", "done", file)

LegacyCrash ==
    /\ LegacyFaults /\ legacy \in {"waiting", "guarded", "copied", "dropped", "moved", "installed"} /\ legacy' = "failed"
    /\ UNCHANGED <<file, record, issue, ctl, faults, mig>>

-----------------------------------------------------------------------------
Init ==
    /\ file = [entry |-> IF Legacy THEN "old" ELSE "new", launcher |-> "none", version |-> "none",
               active |-> "none", backup |-> IF Legacy THEN "old" ELSE "none", fresh |-> "none"]
    /\ record = NoRecord /\ issue = [r \in Requests |-> "none"]
    /\ ctl = NoCtl /\ faults = 0 /\ mig = NoMig
    /\ legacy = IF Legacy THEN "staged" ELSE "none"

AskFor(r) ==
    /\ issue[r] = "none" /\ issue' = [issue EXCEPT ![r] = "asked"]
    /\ UNCHANGED <<file, record, ctl, faults, mig, legacy>>

Install ==
    \/ Resume \/ Verify \/ InstallLauncher \/ StageVersion \/ SaveActive \/ prepare
    \/ PostResult \/ MarkAck \/ SpawnMigrator \/ ControllerExits
    \/ \E r \in Requests: Take(r)

Migrate == MigLoad \/ MigWait \/ MigInstall \/ MigClear

Activate ==
    \/ LegacyCheck \/ LegacyBegin \/ LegacyCopy \/ LegacyDropBackup \/ LegacyMove \/ LegacyInstall \/ LegacyDone

Next ==
    \/ Install \/ Migrate \/ Activate
    \/ SchedulerStarts \/ Crash \/ MigCrash \/ LegacyRestore \/ LegacyCrash
    \/ UpgradeSource \/ UpgradeEntry
    \/ \E r \in Requests: AskFor(r)

Spec == Init /\ [][Next]_vars

\* The task starts the entrypoint again and again, and a process that runs
\* goes on.
FairSpec ==
    /\ Spec /\ WF_vars(Install) /\ WF_vars(Migrate) /\ WF_vars(SchedulerStarts)

-----------------------------------------------------------------------------
\* Wherever a controller, a migrator or an upgrade is interrupted, the task
\* can start a controller: the entrypoint is a controller, or a launcher
\* whose active version is on disk (the order of install_root, prepare and
\* install_launcher_entrypoint).  Only the older activator has a moment
\* without an entrypoint: a crash in it leaves the task nothing to start,
\* with the previous controller in its backup for whoever repairs the host.
HostCanStart ==
    CASE file.entry \in {"old", "new"} -> TRUE
      [] file.entry \in {"launcher", "launcher2"} -> file.active # "none" /\ file.version = file.active
      [] OTHER -> file.backup # "none" /\ RootAbsent

\* The entrypoint is not replaced before the result of the request is on the
\* issue for good.
ReplacedAfterResult ==
    file.entry \in {"launcher", "launcher2"} => \E r \in Requests: issue[r] = "pass"

\* A migration record only goes when the launcher is in place: what was
\* acknowledged is not forgotten.
RecordOutlivesMigration == [][record.req # "none" /\ record'.req = "none" => file'.entry \in {"launcher", "launcher2"}]_vars

\* The migrator replaces the entrypoint after the controller that started it
\* has gone ("waits for the exact parent process identity to exit").
ReplacesAfterItsParent == mig.pc = "install" => ~Alive(mig.spawner)

\* The migrator finds the entrypoint open: by the controller that started
\* it, when it is not the one the record names, or by the next one the task
\* started.  It gives up and leaves the record.
Contended == mig.pc = "install" /\ file.entry # "launcher" /\ InUse

\* An acknowledged installation is carried out, whichever process was
\* interrupted, if the faults end, unless one migrator after another finds
\* the entrypoint open.
AcknowledgedIsInstalled ==
    (\E r \in Requests: issue[r] = "pass") ~> (file.entry \in {"launcher", "launcher2"} \/ []<>Contended)
=============================================================================
