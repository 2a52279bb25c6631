------------------------------ MODULE AccountFiles ------------------------------
(***************************************************************************)
(* The files of one account: its SQLite ledger, the periodic and the       *)
(* commanded backups with their manifests, and the restore command         *)
(* (crates/okx-execution/src/ledger/sql/{schema,projections}.rs,           *)
(* crates/okx-agent/src/storage_commands.rs and storage_commands/          *)
(* backup.rs).  Every rename, copy or removal is a step of its own: the    *)
(* process may end between any two of them, and the disk survives.         *)
(* A ledger is the set of facts committed to it and its recovery row.      *)
(***************************************************************************)
EXTENDS Integers, Sequences, FiniteSets, FiniteSetsExt

CONSTANTS
    Op,           \* operation ids of restore commands
    Retain,       \* snapshots kept by the rotation, 4 in the code
    MaxTime,      \* bound on the wall clock; a snapshot is named by its time
    MaxCommits,   \* bound on committed facts
    MaxRestores,  \* bound on restores installed
    DiskFaults    \* whether the disk may lose the ledger

FilesAssumption == Retain \in Nat \ {0} /\ MaxTime \in Nat /\ MaxCommits \in Nat /\ MaxRestores \in Nat
                            /\ DiskFaults \in BOOLEAN

VARIABLES
    now,
    times,        \* history: when each fact was committed
    db,           \* account.sqlite
    snap,         \* backups/account-<time>.db and its manifest
    marker,       \* account.restore.pending
    quarantine,   \* before-restore-<op>/account.sqlite
    engine,       \* the Agent holds the engine lease and the writer lease
    job,          \* the periodic backup or the storage command under way
    left,         \* history: snapshots left by the last periodic backup that rotated
    line,         \* history: number of restores installed so far
    unproved      \* history: the ledger was restored and not reconciled since

files == <<db, snap, marker, quarantine>>
vars == <<now, times, files, engine, job, left, line, unproved>>

Stamp == 0..MaxTime
Fact == 1..Len(times)
Content == [kind : {"absent", "empty", "partial", "ledger"}, facts : SUBSET (1..MaxCommits),
            required : BOOLEAN, at : {-1} \cup Stamp, receipts : SUBSET (Op \X Stamp), line : Nat]
Absent == [kind |-> "absent", facts |-> {}, required |-> FALSE, at |-> -1, receipts |-> {}, line |-> 0]
Empty == [Absent EXCEPT !.kind = "empty"]       \* created, schema not committed
Partial == [Absent EXCEPT !.kind = "partial"]   \* a copy that was not finished
Complete(content) == content.kind = "ledger"

NoJob == [kind |-> "none", pc |-> "idle", at |-> 0, op |-> <<>>, copy |-> Absent]
NoMarker == <<>>

TypeOK ==
    /\ now \in Stamp
    /\ times \in UNION {[1..n -> Stamp] : n \in 0..MaxCommits}
    /\ db \in Content
    /\ \A s \in Stamp : snap[s].db \in Content /\ snap[s].manifest \in Content
    /\ marker \in {NoMarker} \cup (Op \X Stamp)
    /\ job.kind = "restore" /\ job.pc # "receipt" => marker = <<job.op[1], job.at>>
    /\ \A o \in Op : quarantine[o] \in Content
    /\ engine \in {"stopped", "running"}
    /\ job.kind \in {"none", "periodic", "backup", "restore"}
    /\ left \in Nat
    /\ line \in Nat /\ unproved \in BOOLEAN

Init ==
    /\ now = 0 /\ times = <<>>
    /\ db = Absent
    /\ snap = [s \in Stamp |-> [db |-> Absent, manifest |-> Absent]]
    /\ marker = NoMarker
    /\ quarantine = [o \in Op |-> Absent]
    /\ engine = "stopped" /\ job = NoJob /\ left = 0
    /\ line = 0 /\ unproved = FALSE
-----------------------------------------------------------------------------
\* initialize_inner: create_new, then one transaction with schema and rows.
CreateFile ==
    /\ engine = "stopped" /\ job = NoJob /\ db = Absent /\ marker = NoMarker
    /\ db' = Empty
    /\ job' = [NoJob EXCEPT !.kind = "backup", !.pc = "schema"]
    /\ UNCHANGED <<now, times, snap, marker, quarantine, engine, left, line, unproved>>

InitializeFlat ==
    /\ job.pc = "schema"
    /\ db' = [Absent EXCEPT !.kind = "ledger", !.line = line]
    /\ job' = NoJob
    /\ UNCHANGED <<now, times, snap, marker, quarantine, engine, left, line, unproved>>

\* A bug: the marker of a pending restore is not looked at.
openable_mutant(content) == Complete(content)

\* open_existing: a pending restore and an unusable file both refuse.
openable(content) == marker = NoMarker /\ Complete(content)

EngineStart ==
    /\ engine = "stopped" /\ job = NoJob
    /\ openable(db)
    /\ engine' = "running"
    /\ UNCHANGED <<now, times, files, job, left, line, unproved>>

\* A stop ends a periodic backup at whatever step it was.
EngineStop ==
    /\ engine = "running"
    /\ engine' = "stopped" /\ job' = NoJob
    /\ UNCHANGED <<now, times, files, left, line, unproved>>

\* Any committed transaction of the engine; durability is SQLite's.
EngineCommit ==
    /\ engine = "running" /\ Len(times) < MaxCommits
    /\ times' = Append(times, now)
    /\ db' = [db EXCEPT !.facts = @ \cup {Len(times) + 1}]
    /\ UNCHANGED <<now, snap, marker, quarantine, engine, job, left, line, unproved>>

\* mark_storage_reconciled: fresh exchange and central evidence, observed now.
mark_storage_reconciled ==
    /\ engine = "running"
    /\ db.at <= now
    /\ db' = [db EXCEPT !.required = FALSE]
    /\ unproved' = FALSE
    /\ UNCHANGED <<now, times, snap, marker, quarantine, engine, job, left, line>>

Tick ==
    /\ now < MaxTime
    /\ now' = now + 1
    /\ UNCHANGED <<times, files, engine, job, left, line, unproved>>

\* The ledger is damaged and no longer opens, the case a restore is for.
DiskFault ==
    /\ DiskFaults /\ engine = "stopped" /\ job = NoJob /\ Complete(db)
    /\ db' = Partial
    /\ UNCHANGED <<now, times, snap, marker, quarantine, engine, job, left, line, unproved>>

\* The process that runs the command or the engine dies.
Crash ==
    /\ job # NoJob \/ engine = "running"
    /\ engine' = "stopped" /\ job' = NoJob
    /\ UNCHANGED <<now, times, files, left, line, unproved>>
-----------------------------------------------------------------------------
\* The copy every backup publishes: its recovery row demands a reconciliation
\* against everything since its time.
flagged(content, at) == [content EXCEPT !.required = TRUE, !.at = at]

Published(s) == snap[s].db # Absent

\* periodic_backup_from_reader: the time is taken before the copy.
PeriodicBegin ==
    /\ engine = "running" /\ job = NoJob
    /\ ~Published(now) /\ snap[now].manifest = Absent          \* BACKUP_ALREADY_EXISTS
    /\ job' = [NoJob EXCEPT !.kind = "periodic", !.pc = "copy", !.at = now]
    /\ UNCHANGED <<now, times, files, engine, left, line, unproved>>

\* A bug: the backup is stamped with the time its copy left.
copied_mutant(at) == flagged(db, now + 1)

\* backup_step(-1) pins one read snapshot; the copy is staged under another name.
PeriodicCopy ==
    /\ job.pc = "copy"
    /\ job' = [job EXCEPT !.pc = "manifest", !.copy = db]
    /\ UNCHANGED <<now, times, files, engine, left, line, unproved>>

\* A copy, integrity check or manifest that fails removes the staged files.
PeriodicFails ==
    /\ job.pc \in {"copy", "manifest"}
    /\ job' = NoJob
    /\ UNCHANGED <<now, times, files, engine, left, line, unproved>>

\* A bug: the backup is stamped with the time its copy was done.
backupAt_mutant(at) == now

backupAt(at) == at

\* The finished copy gets its recovery row and its manifest, published first.
PublishManifest ==
    /\ job.pc = "manifest"
    /\ LET copy == flagged(job.copy, backupAt(job.at)) IN
        /\ snap' = [snap EXCEPT ![job.at].manifest = copy]
        /\ job' = [job EXCEPT !.pc = "publish", !.copy = copy]
    /\ UNCHANGED <<now, times, db, marker, quarantine, engine, left, line, unproved>>

PublishDatabase ==
    /\ job.pc = "publish"
    /\ snap' = [snap EXCEPT ![job.at].db = job.copy]
    /\ job' = [job EXCEPT !.pc = "rotate", !.copy = Absent]
    /\ UNCHANGED <<now, times, db, marker, quarantine, engine, left, line, unproved>>

PublishedStamps == {s \in Stamp : Published(s)}
\* A bug: the sort is the wrong way round.
Oldest_mutant == Max(PublishedStamps)

Oldest == Min(PublishedStamps)

surplus == Cardinality(PublishedStamps) > Retain

\* The oldest surplus snapshot loses its manifest, then its database; a
\* manifest that is not there is an error that ends the rotation.
RotateManifest ==
    /\ job.pc = "rotate" /\ surplus
    /\ IF snap[Oldest].manifest # Absent
       THEN /\ snap' = [snap EXCEPT ![Oldest].manifest = Absent]
            /\ job' = [job EXCEPT !.pc = "remove"]
            /\ UNCHANGED left
       ELSE job' = NoJob /\ left' = Cardinality(PublishedStamps) /\ UNCHANGED snap
    /\ UNCHANGED <<now, times, db, marker, quarantine, engine, line, unproved>>

RotateDatabase ==
    /\ job.pc = "remove"
    /\ snap' = [snap EXCEPT ![Oldest].db = Absent]
    /\ job' = [job EXCEPT !.pc = "rotate"]
    /\ UNCHANGED <<now, times, db, marker, quarantine, engine, left, line, unproved>>

PeriodicDone ==
    /\ job.pc = "rotate" /\ ~surplus
    /\ job' = NoJob /\ left' = Cardinality(PublishedStamps)
    /\ UNCHANGED <<now, times, files, engine, line, unproved>>
-----------------------------------------------------------------------------
\* backup_stopped: the copy is made in place, the manifest follows; write_new
\* fails and leaves a manifest that is there.
CommandBackup ==
    /\ engine = "stopped" /\ job = NoJob /\ openable(db)
    /\ ~Published(now)
    /\ snap' = [snap EXCEPT ![now].db = Partial]
    /\ job' = [NoJob EXCEPT !.kind = "backup", !.pc = "filling", !.at = now]
    /\ UNCHANGED <<now, times, db, marker, quarantine, engine, left, line, unproved>>

CommandCopied ==
    /\ job.pc = "filling"
    /\ snap' = [snap EXCEPT ![job.at].db = flagged(db, now)]
    /\ job' = [job EXCEPT !.pc = "describe"]
    /\ UNCHANGED <<now, times, db, marker, quarantine, engine, left, line, unproved>>

CommandManifest ==
    /\ job.pc = "describe"
    /\ snap' = [snap EXCEPT ![job.at].manifest = IF @ = Absent THEN snap[job.at].db ELSE @]
    /\ job' = NoJob
    /\ UNCHANGED <<now, times, db, marker, quarantine, engine, left, line, unproved>>
-----------------------------------------------------------------------------
\* restore_stopped: the snapshot is verified against its manifest.
restorable(s) == Complete(snap[s].db) /\ snap[s].manifest = snap[s].db /\ snap[s].db.required

Receipted(o) == {r \in db.receipts : r[1] = o}

\* A bug: no marker when the ledger to be replaced does not open.
RestoreBegin_mutant(o, s) ==
    /\ engine = "stopped" /\ job = NoJob /\ line < MaxRestores
    /\ restorable(s)
    /\ marker \in {NoMarker, <<o, s>>}
    /\ marker = NoMarker /\ openable(db) => Receipted(o) = {}
    /\ marker' = IF openable(db) THEN <<o, s>> ELSE marker
    /\ job' = [kind |-> "restore", pc |-> "quarantine", at |-> s, op |-> <<o>>, copy |-> Absent]
    /\ UNCHANGED <<now, times, db, snap, quarantine, engine, left, line, unproved>>

\* A restore that has its receipt answers from it; one with another
\* request's marker, or another snapshot's receipt, is refused; the rest
\* write the marker (or find their own) and go on.
RestoreBegin(o, s) ==
    /\ engine = "stopped" /\ job = NoJob /\ line < MaxRestores
    /\ restorable(s)
    /\ marker \in {NoMarker, <<o, s>>}
    /\ marker = NoMarker /\ openable(db) => Receipted(o) = {}
    /\ marker' = <<o, s>>
    /\ job' = [kind |-> "restore", pc |-> "quarantine", at |-> s, op |-> <<o>>, copy |-> Absent]
    /\ UNCHANGED <<now, times, db, snap, quarantine, engine, left, line, unproved>>

\* The old ledger moves aside, unless this operation moved one before.
setAside(o) == IF db = Absent \/ quarantine[o] # Absent THEN quarantine[o] ELSE db

RestoreQuarantine ==
    /\ job.pc = "quarantine"
    /\ quarantine' = [quarantine EXCEPT ![job.op[1]] = setAside(job.op[1])]
    /\ db' = Absent
    /\ job' = [job EXCEPT !.pc = "install"]
    /\ UNCHANGED <<now, times, snap, marker, engine, left, line, unproved>>

\* A bug: the restored ledger is taken for a fresh one.
installed_mutant(s) == [snap[s].db EXCEPT !.line = line + 1, !.required = FALSE]

\* The staged copy becomes the ledger, its recovery row with it.
installed(s) == [snap[s].db EXCEPT !.line = line + 1]

RestoreInstall ==
    /\ job.pc = "install"
    /\ db' = installed(job.at)
    /\ line' = line + 1 /\ unproved' = TRUE
    /\ job' = [job EXCEPT !.pc = "unmark"]
    /\ UNCHANGED <<now, times, snap, marker, quarantine, engine, left>>

\* The marker goes before the receipt is written.
RestoreUnmark ==
    /\ job.pc = "unmark"
    /\ marker' = NoMarker
    /\ job' = [job EXCEPT !.pc = "receipt"]
    /\ UNCHANGED <<now, times, db, snap, quarantine, engine, left, line, unproved>>

\* operation_receipt; a failed write puts the marker back.
RestoreReceipt(ok) ==
    /\ job.pc = "receipt"
    /\ IF ok THEN /\ db' = [db EXCEPT !.receipts = @ \cup {<<job.op[1], job.at>>}]
                  /\ UNCHANGED marker
             ELSE marker' = <<job.op[1], job.at>> /\ UNCHANGED db
    /\ job' = NoJob
    /\ UNCHANGED <<now, times, snap, quarantine, engine, left, line, unproved>>

RestoreStep == RestoreQuarantine \/ RestoreInstall \/ RestoreUnmark

Next ==
    \/ CreateFile \/ InitializeFlat
    \/ EngineStart \/ EngineStop \/ EngineCommit \/ mark_storage_reconciled
    \/ Tick \/ DiskFault \/ Crash
    \/ PeriodicBegin \/ PeriodicCopy \/ PeriodicFails \/ PublishManifest \/ PublishDatabase
    \/ RotateManifest \/ RotateDatabase \/ PeriodicDone
    \/ CommandBackup \/ CommandCopied \/ CommandManifest
    \/ \E o \in Op, s \in Stamp : RestoreBegin(o, s)
    \/ RestoreStep
    \/ \E ok \in BOOLEAN : RestoreReceipt(ok)

Spec == Init /\ [][Next]_vars

-----------------------------------------------------------------------------
\* Once a periodic backup has run to its end there is a restorable snapshot on
\* the disk, over every later crash, rotation and half-made backup: "an
\* interrupted transfer can never expose an incomplete *.db as a restorable
\* backup" (projections.rs:689), and never costs the last good one.
AlwaysRestorable == left > 0 => \E s \in Stamp : restorable(s)

\* A restored ledger keeps its recovery row set until evidence younger than
\* the backup clears it, over every crash, retry and further backup: begin_post
\* and capital_state refuse while it is set.
RestoredIsGated == Complete(db) /\ unproved => db.required

\* A backup's time precedes its snapshot: of the facts of one ledger, those
\* missing from a backup are not older than the time its audit starts from.
AuditFindsMissingFacts ==
    Complete(db) =>
        \A s \in Stamp : Complete(snap[s].db) /\ snap[s].db.line = db.line =>
            \A f \in db.facts : times[f] < snap[s].db.at => f \in snap[s].db.facts

\* While the engine runs no restore is half done: neither its marker nor an
\* uninstalled or unmarked step of it exists.
EngineNeverMeetsRestore ==
    engine = "running" => marker = NoMarker /\ Complete(db) /\ job.kind # "restore"

\* Every fact ever committed is still on the disk, in the ledger or in a
\* quarantined one ("Process/OS crash commits have RPO zero with an intact
\* disk", docs/PRODUCT_ACCEPTANCE.md:22).
CommitsKept == Fact \subseteq db.facts \cup UNION {quarantine[o].facts : o \in Op}

\* An automatic backup that published its snapshot and ended by itself leaves
\* at most Retain of them ("four retained snapshots",
\* docs/PRODUCT_ACCEPTANCE.md:22).
RetentionKept == left <= Retain
===============================================================================
