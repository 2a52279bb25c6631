----------------------------- MODULE AccountRegistry -----------------------------
(***************************************************************************)
(* The registry of connected accounts (okx-agent/src/accounts.rs), the     *)
(* catalog file it publishes (okx-protocol/src/account_catalog_proto.rs)   *)
(* and the stopped-engine commands that create an installation             *)
(* (okx-agent/src/storage_commands.rs).                                    *)
(*                                                                         *)
(* Several installations may run on one host; each has its own root, with  *)
(* its own catalog and account ledgers, and all share the directory of     *)
(* identity leases.  A connect request is a member of Requests; the        *)
(* exchange says which account a credential belongs to (CredUid).          *)
(***************************************************************************)
EXTENDS Naturals, FiniteSets

CONSTANTS
    Engines,    \* installations on the host
    Uid,        \* exchange accounts
    CredUid,    \* credential reference -> the account it authenticates
    Requests,   \* connect requests [op, alias, cred]
    Tasks,      \* connect calls in flight
    Legacy,     \* engine -> accounts of the JSON catalog it may start from
    Quota,      \* accounts an installation may hold (32)
    MaxFaults,  \* bound: crashes and unavailable sources
    None

VARIABLES
    op_file,    \* engines whose installation-operation.json is written
    catalog,    \* engine -> accounts in the catalog file, or None
    legacy,     \* engine -> JSON catalog files still on disk
    ledger,     \* engine -> uid -> operation that initialized account.sqlite, Torn, or None
    phase,      \* engine -> "down", "opening" or "up"
    config,     \* engine -> configurations in memory
    pending,    \* engine -> accounts open() has not settled
    routes,     \* engine -> accounts with live resources
    failures,   \* engine -> accounts recorded as unavailable
    lease,      \* uid -> holders of the identity lease
    task,       \* connect calls
    faults

vars == <<op_file, catalog, legacy, ledger, phase, config, pending, routes, failures, lease, task, faults>>
disk == <<op_file, catalog, legacy, ledger>>
memory == <<phase, config, pending, routes, failures>>

Idle == [pc |-> "idle", e |-> None, req |-> None, uid |-> None, answer |-> "none"]
Config(u, req) == [uid |-> u, op |-> req.op, alias |-> req.alias, cred |-> req.cred]
Installed(e) == catalog[e] # None
\* A database file that was created and not initialized.
Torn == "torn"
Uids(cs) == {c.uid: c \in cs}

Fault == faults < MaxFaults /\ faults' = faults + 1
Calm == UNCHANGED faults

-----------------------------------------------------------------------------
(* The stopped-engine commands and the one-time promotion of JSON catalogs *)

\* initialize_installation: the operation file first, then the catalog; a
\* retry of the same operation resumes after the file.
InitializeOperation(e) ==
    /\ phase[e] = "down" /\ ~Installed(e) /\ e \notin op_file /\ legacy[e] = {}
    /\ op_file' = op_file \cup {e}
    /\ UNCHANGED <<catalog, legacy, ledger, memory, lease, task>> /\ Calm

InitializeCatalog(e) ==
    /\ phase[e] = "down" /\ ~Installed(e) /\ e \in op_file
    /\ catalog' = [catalog EXCEPT ![e] = {}]
    /\ UNCHANGED <<op_file, legacy, ledger, memory, lease, task>> /\ Calm

verify_account_sql(e) == \A c \in legacy[e]: ledger[e][c.uid] \notin {None, Torn}

\* The Protobuf catalog is linked into place with every JSON account.
promote_existing_once(e) ==
    /\ phase[e] = "down" /\ ~Installed(e) /\ legacy[e] # {}
    /\ verify_account_sql(e)
    /\ catalog' = [catalog EXCEPT ![e] = legacy[e]]
    /\ UNCHANGED <<op_file, legacy, ledger, memory, lease, task>> /\ Calm

\* The JSON files are retired one at a time; a crash leaves the rest, which
\* nobody reads once the catalog exists.
RetireLegacy(e) ==
    /\ phase[e] = "down" /\ Installed(e)
    /\ \E c \in legacy[e]: legacy' = [legacy EXCEPT ![e] = @ \ {c}]
    /\ UNCHANGED <<op_file, catalog, ledger, memory, lease, task>> /\ Calm

-----------------------------------------------------------------------------
(* Identity leases *)

acquire_identity_lease_mutant(u, holder) == TRUE

acquire_identity_lease(u, holder) == lease[u] \subseteq {holder}

-----------------------------------------------------------------------------
(* AccountRuntimeRegistry::open and recover_unavailable *)

OpenBegin(e) ==
    /\ phase[e] = "down" /\ Installed(e)
    /\ phase' = [phase EXCEPT ![e] = "opening"]
    /\ config' = [config EXCEPT ![e] = catalog[e]]
    /\ pending' = [pending EXCEPT ![e] = Uids(catalog[e])]
    /\ routes' = [routes EXCEPT ![e] = {}]
    /\ failures' = [failures EXCEPT ![e] = {}]
    /\ UNCHANGED <<disk, lease, task>> /\ Calm

\* open_resources without initialization: the lease, then the ledger.
Opens(e, u) == /\ acquire_identity_lease(u, e) /\ ledger[e][u] \notin {None, Torn}
               /\ lease' = [lease EXCEPT ![u] = @ \cup {e}]
               /\ routes' = [routes EXCEPT ![e] = @ \cup {u}]

\* Each account is opened by itself: one failing does not stop another.
OpenOne(e, u) ==
    /\ phase[e] = "opening" /\ u \in pending[e]
    /\ pending' = [pending EXCEPT ![e] = @ \ {u}]
    /\ \/ Opens(e, u) /\ UNCHANGED failures /\ Calm
       \/ /\ \/ ~acquire_identity_lease(u, e) /\ Calm
             \/ Fault
          /\ failures' = [failures EXCEPT ![e] = @ \cup {u}]
          /\ UNCHANGED <<lease, routes>>
    /\ UNCHANGED <<disk, phase, config, task>>

OpenDone(e) ==
    /\ phase[e] = "opening" /\ pending[e] = {}
    /\ phase' = [phase EXCEPT ![e] = "up"]
    /\ UNCHANGED <<disk, config, pending, routes, failures, lease, task>> /\ Calm

recover_unavailable_mutant(e, u) ==
    /\ phase[e] = "up" /\ u \in failures[e]
    /\ \/ Opens(e, u) /\ Calm
       \/ Fault /\ UNCHANGED <<lease, routes>>
    /\ failures' = [failures EXCEPT ![e] = @ \ {u}]
    /\ UNCHANGED <<disk, phase, config, pending, task>>

\* Every 30 seconds the failed accounts are tried again.
recover_unavailable(e, u) ==
    /\ phase[e] = "up" /\ u \in failures[e]
    /\ \/ Opens(e, u) /\ failures' = [failures EXCEPT ![e] = @ \ {u}] /\ Calm
       \/ Fault /\ UNCHANGED <<lease, routes, failures>>
    /\ UNCHANGED <<disk, phase, config, pending, task>>

\* shutdown, or the death of the process: the locks of its files go with it.
Stop(e) ==
    /\ phase[e] # "down" /\ Fault
    /\ phase' = [phase EXCEPT ![e] = "down"]
    /\ routes' = [routes EXCEPT ![e] = {}]
    /\ pending' = [pending EXCEPT ![e] = {}]
    /\ failures' = [failures EXCEPT ![e] = {}]
    /\ config' = [config EXCEPT ![e] = {}]
    /\ task' = [t \in Tasks |-> IF task[t].e = e /\ task[t].pc # "done" THEN Idle ELSE task[t]]
    /\ lease' = [u \in Uid |-> lease[u] \ ({e} \cup {t \in Tasks: task[t].e = e})]
    /\ UNCHANGED disk

-----------------------------------------------------------------------------
(* AccountRuntimeRegistry::connect *)

\* The writer of `configurations` excludes its readers.
Unlocked(e) == \A t \in Tasks: ~(task[t].e = e /\ task[t].pc = "insert")

Step(t, pc) == task' = [task EXCEPT ![t].pc = pc]
Answer(t, a) == task' = [task EXCEPT ![t].pc = "done", ![t].answer = a]
At(t, pc) == task[t].pc = pc /\ phase[task[t].e] = "up"

\* An operation that is already in the catalog is answered from it.
ConnectBegin(t, e, req) ==
    LET same == {c \in config[e]: c.op = req.op}
        call == [Idle EXCEPT !.e = e, !.req = req]
    IN
    /\ task[t].pc = "idle" /\ phase[e] = "up" /\ Unlocked(e)
    /\ task' = [task EXCEPT ![t] =
          CASE same # {} -> [call EXCEPT !.pc = "done", !.answer =
                  IF \E c \in same: c.alias = req.alias /\ c.cred = req.cred
                  THEN "connected" ELSE "conflict"]
            [] same = {} /\ (\E c \in config[e]: c.alias = req.alias \/ c.cred = req.cred) ->
                  [call EXCEPT !.pc = "done", !.answer = "already"]
            [] OTHER -> [call EXCEPT !.pc = "verify"]]
    /\ UNCHANGED <<disk, memory, lease>> /\ Calm

\* verify_credentials: observer and executor belong to one account.
ConnectVerify(t) ==
    LET e == task[t].e
        u == CredUid[task[t].req.cred] IN
    /\ At(t, "verify") /\ Unlocked(e)
    /\ \/ /\ u \notin Uids(config[e])
          /\ task' = [task EXCEPT ![t].pc = "open", ![t].uid = u] /\ Calm
       \/ u \in Uids(config[e]) /\ Answer(t, "already") /\ Calm
       \/ Fault /\ Answer(t, "unavailable")
    /\ UNCHANGED <<disk, memory, lease>>

ConnectLease(t) ==
    LET u == task[t].uid IN
    /\ At(t, "open")
    /\ IF acquire_identity_lease(u, t)
       THEN Step(t, "init") /\ lease' = [lease EXCEPT ![u] = @ \cup {t}]
       ELSE Answer(t, "writer active") /\ UNCHANGED lease
    /\ UNCHANGED <<disk, memory>> /\ Calm

\* A ledger that exists is accepted only from the same operation.
initialize_or_inspect_exact(e, u, op) == ledger[e][u] = op

Refuse(t) ==
    /\ Answer(t, "refused")
    /\ lease' = [lease EXCEPT ![task[t].uid] = @ \ {t}]
    /\ UNCHANGED ledger

\* Two equal snapshots of a flat account precede its ledger; an unstable or
\* unavailable account, or one that is not flat, is refused.
ConnectInitialize(t) ==
    LET e == task[t].e
        u == task[t].uid IN
    /\ At(t, "init")
    /\ \/ /\ ledger[e][u] = None
          /\ ledger' = [ledger EXCEPT ![e][u] = Torn]
          /\ Step(t, "commit") /\ UNCHANGED lease /\ Calm
       \/ /\ initialize_or_inspect_exact(e, u, task[t].req.op)
          /\ Step(t, "publish") /\ UNCHANGED <<ledger, lease>> /\ Calm
       \/ /\ \/ ledger[e][u] # None /\ ~initialize_or_inspect_exact(e, u, task[t].req.op) /\ Calm
             \/ Fault
          /\ Refuse(t)
    /\ UNCHANGED <<op_file, catalog, legacy, memory>>

\* The schema and the opening of the new ledger, one transaction.  Before it
\* commits the file is there without them, and no later connect accepts it.
initialize_inner(t) ==
    LET e == task[t].e
        u == task[t].uid IN
    /\ At(t, "commit")
    /\ \/ /\ ledger' = [ledger EXCEPT ![e][u] = task[t].req.op]
          /\ Step(t, "publish") /\ UNCHANGED lease /\ Calm
       \/ Fault /\ Refuse(t)
    /\ UNCHANGED <<op_file, catalog, legacy, memory>>

publishable(e, c) ==
    /\ Cardinality(config[e]) < Quota
    /\ \A d \in config[e]: d.alias # c.alias /\ d.cred # c.cred /\ d.uid # c.uid

\* The catalog file is rewritten with the new account, by an atomic rename.
append(e, c) == catalog' = [catalog EXCEPT ![e] = @ \cup {c}]

\* publish, under the catalog and the configuration locks: the file is staged
\* and renamed, or an I/O error leaves it as it was.
ConnectPublish(t) ==
    LET e == task[t].e
        c == Config(task[t].uid, task[t].req) IN
    /\ At(t, "publish") /\ Unlocked(e)
    /\ \/ publishable(e, c) /\ append(e, c) /\ Step(t, "insert") /\ Calm
       \/ ~publishable(e, c) /\ UNCHANGED catalog /\ Step(t, "drop") /\ Calm
       \/ Fault /\ publishable(e, c) /\ UNCHANGED catalog /\ Step(t, "drop")
    /\ UNCHANGED <<op_file, legacy, ledger, memory, lease>>

ConnectInsert(t) ==
    LET e == task[t].e
        c == Config(task[t].uid, task[t].req) IN
    /\ At(t, "insert")
    /\ config' = [config EXCEPT ![e] = @ \cup {c}]
    /\ routes' = [routes EXCEPT ![e] = @ \cup {c.uid}]
    /\ lease' = [lease EXCEPT ![c.uid] = (@ \ {t}) \cup {e}]
    /\ Answer(t, "connected")
    /\ UNCHANGED <<disk, phase, pending, failures>> /\ Calm

\* The resources of a refused publication are dropped, the lease with them.
ConnectDrop(t) ==
    /\ At(t, "drop")
    /\ lease' = [lease EXCEPT ![task[t].uid] = @ \ {t}]
    /\ Answer(t, "refused")
    /\ UNCHANGED <<disk, memory>> /\ Calm

-----------------------------------------------------------------------------
Init ==
    /\ op_file = {} /\ catalog = [e \in Engines |-> None] /\ legacy = Legacy
    /\ ledger = [e \in Engines |-> [u \in Uid |->
           IF u \in Uids(Legacy[e]) THEN (CHOOSE c \in Legacy[e]: c.uid = u).op ELSE None]]
    /\ phase = [e \in Engines |-> "down"]
    /\ config = [e \in Engines |-> {}] /\ pending = config /\ routes = config /\ failures = config
    /\ lease = [u \in Uid |-> {}] /\ task = [t \in Tasks |-> Idle] /\ faults = 0

Opening(e) == OpenBegin(e) \/ OpenDone(e) \/ \E u \in Uid: OpenOne(e, u)

Connecting(t) ==
    \/ ConnectVerify(t) \/ ConnectLease(t) \/ ConnectInitialize(t) \/ initialize_inner(t)
    \/ ConnectPublish(t) \/ ConnectInsert(t) \/ ConnectDrop(t)

Next ==
    \/ \E e \in Engines: \/ InitializeOperation(e) \/ InitializeCatalog(e)
                         \/ promote_existing_once(e) \/ RetireLegacy(e)
                         \/ Opening(e) \/ Stop(e)
                         \/ \E u \in Uid: recover_unavailable(e, u)
    \/ \E t \in Tasks: Connecting(t) \/ \E e \in Engines, req \in Requests: ConnectBegin(t, e, req)

Spec == Init /\ [][Next]_vars

\* The engine is restarted by its controller, its recovery task ticks, and a
\* connect call that has begun runs on.
FairSpec ==
    /\ Spec
    /\ \A e \in Engines: /\ WF_vars(Opening(e))
                         /\ \A u \in Uid: WF_vars(recover_unavailable(e, u))
    /\ \A t \in Tasks: WF_vars(Connecting(t))

-----------------------------------------------------------------------------
TypeOK ==
    /\ \A e \in Engines: /\ phase[e] \in {"down", "opening", "up"}
                         /\ routes[e] \cup failures[e] \cup pending[e] \subseteq Uids(config[e])
                         /\ routes[e] \cap failures[e] = {}
    /\ \A u \in Uid: lease[u] \subseteq Engines \cup Tasks

\* Whatever installation or connect call owns live resources of an account,
\* it is the only one on the host that does (acquire_identity_lease).
Owners(u) == {e \in Engines: u \in routes[e]} \cup
             {t \in Tasks: task[t].uid = u /\ task[t].pc \in {"init", "commit", "publish", "insert", "drop"}}

OneWriter == \A u \in Uid: Cardinality(Owners(u)) <= 1

\* Every account in a catalog has a ledger, initialized by the operation
\* that connected it: no restart finds an account it cannot open.
CataloguedHasLedger ==
    \A e \in Engines: Installed(e) => \A c \in catalog[e]: ledger[e][c.uid] = c.op

\* An account answered as connected stays in the installation's catalog, over
\* crashes at any point of the publication.
AnswerIsDurable ==
    \A t \in Tasks: task[t].answer = "connected" =>
        \E c \in catalog[task[t].e]: c.op = task[t].req.op /\ c.alias = task[t].req.alias

\* No step loses an account that the installation knows, the promotion of
\* the JSON catalog and its crashes included.
Known(e) == IF Installed(e) THEN catalog[e] ELSE legacy[e]

NothingForgotten == [][\A e \in Engines: Known(e) \subseteq Known(e)']_vars

\* Once crashes and outages cease, every account of the catalog is served
\* (stated for a host with one installation: two of them may contend for an
\* account's lease for ever).
EveryAccountServed ==
    \A e \in Engines: <>[](Installed(e) => Uids(catalog[e]) \subseteq routes[e])
=============================================================================
