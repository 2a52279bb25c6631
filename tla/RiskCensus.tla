----------------------------- MODULE RiskCensus -----------------------------
(***************************************************************************)
(* The native risk census: after the central authority answered HELD, and  *)
(* before an order may be posted, every account of the cohort is read from *)
(* the exchange again and everything found there must be attributed to an  *)
(* intent of the account's own store.                                      *)
(*                                                                         *)
(* The accounts are read concurrently and each read takes many requests:   *)
(* the account configuration (through a cache that other readers of the    *)
(* account share), balance, positions and pending orders at once, then     *)
(* each scope of the pending conditional orders.  Meanwhile the exchange   *)
(* changes, the private WebSocket reconnects and other readers refresh the *)
(* cache.  Quantities, digests and wall-clock limits are left out: a       *)
(* census that took too long simply fails.                                 *)
(***************************************************************************)
EXTENDS Naturals, Sequences, SequencesExt, FiniteSets, TLAPS

CONSTANTS
    Accounts,     \* the cohort
    Objects,      \* what may be found at an account
    KindOf,       \* order, position, algo, or rate (a changed USD conversion)
    Managed,      \* the objects the account's store attributes to an intent
    ProtectedBy,  \* managed position -> the conditional order that protects it
    ScopeOf,      \* conditional order -> the scope it is listed in; scopes are sorted
    SampleLimit,  \* PROTECTIVE_ALGO_SAMPLE_LIMIT
    Initially,    \* the objects present at the start
    MaxChanges,   \* bound on changes at the exchange
    MaxFaults     \* bound on reconnects and failed requests

CensusAssumption ==
    /\ KindOf \in [Objects -> {"order", "position", "algo", "rate"}]
    /\ Managed \subseteq Objects /\ Initially \subseteq Objects
    /\ DOMAIN ScopeOf = {o \in Objects : KindOf[o] = "algo"}
    /\ \A o \in DOMAIN ProtectedBy : ProtectedBy[o] \in Managed
    /\ SampleLimit \in Nat

VARIABLES
    venue,       \* what is present at each account
    changes,     \* changes so far
    faults,      \* faults so far
    generation,  \* private WebSocket generation of each account
    verified,    \* verified_source_generation of each account
    cache,       \* ObserverConfigCache: empty, or the cached configuration
    lock,        \* who holds the lock of the cache
    census,      \* none, reading, proved or failed
    read,        \* the progress of each account's read
    steady       \* history: unattributed objects present ever since HELD

vars == <<venue, changes, faults, generation, verified, cache, lock, census, read, steady>>
outside == <<venue, changes, generation, verified, steady>>

SnapshotParts == {"balance", "positions", "orders"}
PartKind == [balance |-> "rate", positions |-> "position", orders |-> "order"]
Scopes == {ScopeOf[o] : o \in DOMAIN ScopeOf}
Foreign == Objects \ Managed

Empty == [some |-> FALSE, old |-> FALSE, afterHeld |-> FALSE]
Proof(afterHeld) == [some |-> TRUE, old |-> FALSE, afterHeld |-> afterHeld]

NotRead == [pc |-> "none", generation |-> 0, seen |-> {}, parts |-> {}, scopes |-> {},
            fresh |-> FALSE, generations |-> {}]

Init ==
    /\ venue = [a \in Accounts |-> Initially]
    /\ changes = 0 /\ faults = 0
    /\ generation = [a \in Accounts |-> 1]
    /\ verified = [a \in Accounts |-> 1]
    /\ cache \in [Accounts -> {Empty, Proof(FALSE)}]
    /\ lock = [a \in Accounts |-> "free"]
    /\ census = "none"
    /\ read = [a \in Accounts |-> NotRead]
    /\ steady = [a \in Accounts |-> {}]

source_identity_ready(a) == verified[a] = generation[a]

----------------------------------------------------------------------------
(* The exchange and the other readers of an account.                       *)

Change(a) ==
    /\ changes < MaxChanges
    /\ \E o \in Objects :
           /\ venue' = [venue EXCEPT ![a] = IF o \in @ THEN @ \ {o} ELSE @ \cup {o}]
           /\ steady' = [steady EXCEPT ![a] = @ \ {o}]
    /\ changes' = changes + 1
    /\ UNCHANGED <<faults, generation, verified, cache, lock, census, read>>

Reconnect(a) ==
    /\ faults < MaxFaults
    /\ generation' = [generation EXCEPT ![a] = @ + 1]
    /\ faults' = faults + 1
    /\ UNCHANGED <<venue, changes, verified, cache, lock, census, read, steady>>

(* The source loop verifies the new generation (SourceHealth).             *)
Verify(a) ==
    /\ verified[a] # generation[a]
    /\ verified' = [verified EXCEPT ![a] = generation[a]]
    /\ UNCHANGED <<venue, changes, faults, generation, cache, lock, census, read, steady>>

(* Two seconds pass.                                                       *)
Age(a) ==
    /\ cache[a].some /\ ~cache[a].old
    /\ cache' = [cache EXCEPT ![a].old = TRUE]
    /\ UNCHANGED <<venue, changes, faults, generation, verified, lock, census, read, steady>>

(* ObserverConfigCache::read of another reader, when nothing usable is     *)
(* cached: the lock is held across the request.                            *)
OtherLock(a) ==
    /\ lock[a] = "free" /\ (~cache[a].some \/ cache[a].old)
    /\ lock' = [lock EXCEPT ![a] = "other"]
    /\ cache' = [cache EXCEPT ![a] = Empty]
    /\ UNCHANGED <<outside, faults, census, read>>

OtherFetched_mutant(a) ==
    /\ lock[a] = "other"
    /\ \/ /\ cache' = [cache EXCEPT ![a] = Proof(census # "none")]
          /\ lock' = [lock EXCEPT ![a] = "free"] /\ UNCHANGED faults
       \/ /\ faults < MaxFaults /\ faults' = faults + 1 /\ UNCHANGED cache
          /\ lock' = [lock EXCEPT ![a] = "leaked"]
    /\ UNCHANGED <<outside, census, read>>

OtherFetched(a) ==
    /\ lock[a] = "other"
    /\ lock' = [lock EXCEPT ![a] = "free"]
    /\ \/ cache' = [cache EXCEPT ![a] = Proof(census # "none")] /\ UNCHANGED faults
       \/ faults < MaxFaults /\ faults' = faults + 1 /\ UNCHANGED cache
    /\ UNCHANGED <<outside, census, read>>

----------------------------------------------------------------------------
(* census_after_held.                                                      *)

(* The HELD answer arrives: what is cached was read before it.             *)
Held ==
    /\ census = "none"
    /\ census' = "reading"
    /\ cache' = [a \in Accounts |-> [cache[a] EXCEPT !.afterHeld = FALSE]]
    /\ steady' = [a \in Accounts |-> venue[a] \cap Foreign]
    /\ read' = [a \in Accounts |-> [NotRead EXCEPT !.pc = "start"]]
    /\ UNCHANGED <<venue, changes, faults, generation, verified, lock>>

At(a, pc) == census = "reading" /\ read[a].pc = pc

Abort_mutant ==
    /\ census' = "failed"
    /\ read' = [a \in Accounts |-> NotRead]
    /\ UNCHANGED lock

(* One account's error ends the whole census; the reads of the others are  *)
(* dropped, and with them the locks they hold.                             *)
Abort ==
    /\ census' = "failed"
    /\ read' = [a \in Accounts |-> NotRead]
    /\ lock' = [a \in Accounts |-> IF lock[a] = "census" THEN "free" ELSE lock[a]]

Start(a) ==
    /\ At(a, "start")
    /\ IF source_identity_ready(a)
       THEN /\ read' = [read EXCEPT ![a].pc = "config", ![a].generation = generation[a]]
            /\ UNCHANGED <<census, lock>>
       ELSE Abort
    /\ UNCHANGED <<outside, faults, cache>>

read_fresh_mutant(a) ==
    /\ At(a, "config") /\ lock[a] = "free"
    /\ \/ /\ cache[a].some /\ ~cache[a].old
          /\ read' = [read EXCEPT ![a].pc = "parts", ![a].fresh = cache[a].afterHeld]
          /\ UNCHANGED <<lock, cache>>
       \/ /\ ~cache[a].some \/ cache[a].old
          /\ lock' = [lock EXCEPT ![a] = "census"]
          /\ cache' = [cache EXCEPT ![a] = Empty]
          /\ read' = [read EXCEPT ![a].pc = "fetch"]
    /\ UNCHANGED <<outside, faults, census>>

(* snapshot_after_held: the cache is emptied, whatever it holds.           *)
read_fresh(a) ==
    /\ At(a, "config") /\ lock[a] = "free"
    /\ lock' = [lock EXCEPT ![a] = "census"]
    /\ cache' = [cache EXCEPT ![a] = Empty]
    /\ read' = [read EXCEPT ![a].pc = "fetch"]
    /\ UNCHANGED <<outside, faults, census>>

ConfigFetched(a) ==
    /\ At(a, "fetch")
    /\ \/ /\ cache' = [cache EXCEPT ![a] = Proof(TRUE)]
          /\ lock' = [lock EXCEPT ![a] = "free"]
          /\ read' = [read EXCEPT ![a].pc = "parts", ![a].fresh = TRUE]
          /\ UNCHANGED <<faults, census>>
       \/ /\ faults < MaxFaults /\ faults' = faults + 1
          /\ Abort
          /\ UNCHANGED cache
    /\ UNCHANGED outside

Seen(a, present) ==
    [read[a] EXCEPT !.seen = @ \cup present, !.generations = @ \cup {generation[a]}]

(* snapshot_from_config: the three requests of the snapshot, in any order. *)
ReadPart(a) ==
    /\ At(a, "parts")
    /\ \E part \in SnapshotParts \ read[a].parts :
           read' = [read EXCEPT ![a] =
                       [Seen(a, {o \in venue[a] : KindOf[o] = PartKind[part]})
                           EXCEPT !.parts = @ \cup {part},
                                  !.pc = IF read[a].parts \cup {part} = SnapshotParts THEN "algos" ELSE @]]
    /\ UNCHANGED <<outside, faults, cache, lock, census>>

(* pending_derivative_risk_algos: the configuration is read again, from    *)
(* the cache while it is young, then every scope at its own time.          *)
ReadScope(a) ==
    /\ At(a, "algos") /\ lock[a] = "free"
    /\ \E s \in Scopes \ read[a].scopes :
           read' = [read EXCEPT ![a] =
                       [Seen(a, {o \in venue[a] : KindOf[o] = "algo" /\ ScopeOf[o] = s})
                           EXCEPT !.scopes = @ \cup {s},
                                  !.pc = IF read[a].scopes \cup {s} = Scopes THEN "attribute" ELSE @]]
    /\ UNCHANGED <<outside, faults, cache, lock, census>>

(* The inventory keeps the first SampleLimit rows of the sorted scopes.    *)
Samples(seen) ==
    LET rows == SetToSortSeq({o \in seen : KindOf[o] = "algo"}, LAMBDA x, y : ScopeOf[x] < ScopeOf[y])
    IN  {rows[k] : k \in 1 .. (IF Len(rows) < SampleLimit THEN Len(rows) ELSE SampleLimit)}

(* The conditional orders that protect the positions found.                *)
ManagedAlgos(a) == {ProtectedBy[o] : o \in read[a].seen \cap DOMAIN ProtectedBy}

Attributed_mutant(a) ==
    /\ \A o \in read[a].seen : KindOf[o] \in {"position", "rate"} => o \in Managed
    /\ Samples(read[a].seen) = ManagedAlgos(a)

(* Every position has its lots, every pending order its intent, the sample *)
(* of conditional orders is exactly the protections, and the conversion is *)
(* the one that was reserved.                                              *)
Attributed(a) ==
    /\ \A o \in read[a].seen : KindOf[o] \in {"position", "order", "rate"} => o \in Managed
    /\ Samples(read[a].seen) = ManagedAlgos(a)

SameSource_mutant(a) == source_identity_ready(a)

(* The generation is still the one the read began with, and verified.      *)
SameSource(a) == generation[a] = read[a].generation /\ source_identity_ready(a)

Attribute(a) ==
    /\ At(a, "attribute")
    /\ IF Attributed(a) /\ SameSource(a)
       THEN /\ read' = [read EXCEPT ![a].pc = "done"]
            /\ UNCHANGED <<census, lock>>
       ELSE Abort
    /\ UNCHANGED <<outside, faults, cache>>

(* The census is assembled when every account is done, unless it is stale. *)
Assemble ==
    /\ census = "reading" /\ \A a \in Accounts : read[a].pc = "done"
    /\ \/ census' = "proved" /\ UNCHANGED <<read, lock>>
       \/ Abort
    /\ UNCHANGED <<outside, faults, cache>>

Work ==
    \/ Assemble
    \/ \E a \in Accounts :
           \/ Start(a) \/ read_fresh(a) \/ ConfigFetched(a) \/ ReadPart(a)
           \/ ReadScope(a) \/ Attribute(a)

Others == \E a \in Accounts : OtherFetched(a)

Next ==
    \/ Held \/ Work \/ Others
    \/ \E a \in Accounts : Change(a) \/ Reconnect(a) \/ Verify(a) \/ Age(a) \/ OtherLock(a)

Spec == Init /\ [][Next]_vars

(* Every request ends by its timeout, and the lock of the cache is a queue *)
(* served in order.                                                        *)
FairSpec == Spec /\ WF_vars(Others) /\ SF_vars(Work)

----------------------------------------------------------------------------
(* Properties.                                                             *)

(* Reads, locks and the census keep their types; a lock is held by the     *)
(* census only while it fetches a configuration.                           *)
TypeOK ==
    /\ census \in {"none", "reading", "proved", "failed"}
    /\ \A a \in Accounts :
           /\ venue[a] \subseteq Objects
           /\ lock[a] \in {"free", "other", "census"}
           /\ lock[a] = "census" <=> read[a].pc = "fetch"
           /\ lock[a] # "free" => ~cache[a].some

(* A proved census rests on a configuration that was requested after the   *)
(* HELD answer for every account, never on one another reader cached       *)
(* before it.                                                              *)
EvidenceAfterHeld ==
    census = "proved" => \A a \in Accounts : read[a].fresh

(* A proved census was read in one verified generation per account.        *)
OneGeneration ==
    census = "proved" => \A a \in Accounts : read[a].generations = {read[a].generation}

(* An order, position, conditional order or changed conversion that no     *)
(* intent of the account accounts for, and that stays at the exchange from *)
(* HELD on, prevents the proof.                                            *)
NoForeignThroughout ==
    census = "proved" => \A a \in Accounts : steady[a] = {}

(* Every census that begins ends, with a proof or without.                 *)
CensusEnds == census = "reading" ~> census \in {"proved", "failed"}

(* The bounded sample of conditional orders is the only gap in the proof:  *)
(* what stays unattributed from HELD on is a conditional order that was    *)
(* read and that the sample left out.                                      *)
ForeignIsBeyondSample ==
    census = "proved" =>
        \A a \in Accounts : \A o \in steady[a] :
            KindOf[o] = "algo" /\ o \in read[a].seen \ Samples(read[a].seen)

----------------------------------------------------------------------------
(* The inductive invariant.                                                *)

ReadPc == {"none", "start", "config", "fetch", "parts", "algos", "attribute", "done"}
AccountRead == [pc : ReadPc, generation : Nat, seen : SUBSET Objects, parts : SUBSET SnapshotParts,
                scopes : SUBSET Scopes, fresh : BOOLEAN, generations : SUBSET Nat]
Configuration == [some : BOOLEAN, old : BOOLEAN, afterHeld : BOOLEAN]

Types ==
    /\ venue \in [Accounts -> SUBSET Objects] /\ steady \in [Accounts -> SUBSET Objects]
    /\ generation \in [Accounts -> Nat] /\ verified \in [Accounts -> Nat]
    /\ cache \in [Accounts -> Configuration]
    /\ lock \in [Accounts -> {"free", "other", "census"}]
    /\ census \in {"none", "reading", "proved", "failed"}
    /\ read \in [Accounts -> AccountRead]

(* A read is under way only in a census, and is over when it is proved.    *)
Phase ==
    /\ census \in {"none", "failed"} => \A a \in Accounts : read[a].pc = "none"
    /\ census = "proved" => \A a \in Accounts : read[a].pc = "done"
    /\ census = "reading" => \A a \in Accounts : read[a].pc # "none"

LockInv(a) ==
    /\ lock[a] = "census" <=> read[a].pc = "fetch"
    /\ lock[a] # "free" => ~cache[a].some

(* The answers of a read came from generations between the one it began    *)
(* with and the present one; when these are the same, from that one.       *)
GenerationInv(a) ==
    /\ read[a].pc \in {"config", "fetch", "parts", "algos", "attribute"} =>
        /\ read[a].generation <= generation[a]
        /\ \A g \in read[a].generations : read[a].generation <= g /\ g <= generation[a]
    /\ read[a].pc \in {"none", "start"} => read[a].generations = {}
    /\ read[a].pc \in {"algos", "attribute"} => read[a].generations # {}
    /\ read[a].pc = "done" => read[a].generations = {read[a].generation}

(* What stays at the exchange from HELD on is there when its part is read. *)
SteadyInv(a) ==
    census # "none" =>
        /\ steady[a] \subseteq venue[a] \cap Foreign
        /\ \A part \in read[a].parts : \A o \in steady[a] :
               KindOf[o] = PartKind[part] => o \in read[a].seen
        /\ \A o \in steady[a] : KindOf[o] = "algo" /\ ScopeOf[o] \in read[a].scopes => o \in read[a].seen

(* Where a read has got to, and what it found when it is done.             *)
ProgressInv(a) ==
    /\ read[a].pc \in {"parts", "algos", "attribute", "done"} => read[a].fresh
    /\ read[a].pc \in {"algos", "attribute", "done"} => read[a].parts = SnapshotParts
    /\ read[a].pc \in {"attribute", "done"} => read[a].scopes = Scopes
    /\ read[a].pc = "done" =>
        \A o \in steady[a] : KindOf[o] = "algo" /\ o \in read[a].seen \ Samples(read[a].seen)

AccountInv(a) == LockInv(a) /\ GenerationInv(a) /\ SteadyInv(a) /\ ProgressInv(a)

IInv == Types /\ Phase /\ \A a \in Accounts : AccountInv(a)
----------------------------------------------------------------------------
(* Proofs.                                                                 *)

\* What the assumption says of the kinds of objects.
LEMMA KindFacts ==
  ASSUME CensusAssumption
  PROVE  /\ \A o \in Objects : KindOf[o] # "algo" => \E part \in SnapshotParts : KindOf[o] = PartKind[part]
         /\ \A o \in Objects : KindOf[o] = "algo" => o \in DOMAIN ScopeOf /\ ScopeOf[o] \in Scopes
         /\ \A part \in SnapshotParts : PartKind[part] \in {"rate", "position", "order"}
  BY DEF CensusAssumption, SnapshotParts, PartKind, Scopes

\* The two contents of the cache are configurations.
LEMMA CacheTypes == Empty \in Configuration /\ \A t \in BOOLEAN : Proof(t) \in Configuration
  BY DEF Empty, Proof, Configuration

\* The invariant holds at the start.
LEMMA InitIInv == CensusAssumption /\ Init => IInv
  <1> SUFFICES ASSUME CensusAssumption, Init PROVE IInv
    OBVIOUS
  <1>1. NotRead \in AccountRead
    BY DEF NotRead, AccountRead, ReadPc
  <1>2. Types
    <2>1. cache \in [Accounts -> Configuration]
      <3>1. FALSE \in BOOLEAN
        OBVIOUS
      <3>2. {Empty, Proof(FALSE)} \subseteq Configuration
        BY <3>1, CacheTypes
      <3>3. cache \in [Accounts -> {Empty, Proof(FALSE)}]
        BY DEF Init
      <3> QED
        BY <3>2, <3>3
    <2> QED
      BY <1>1, <2>1 DEF CensusAssumption, Init, Types
  <1>3. Phase
    BY DEF Init, Phase, NotRead
  <1>4. ASSUME NEW a \in Accounts PROVE AccountInv(a)
    BY DEF Init, AccountInv, LockInv, GenerationInv, SteadyInv, ProgressInv, NotRead
  <1> QED
    BY <1>2, <1>3, <1>4 DEF IInv

\* What a step does not touch of an account.
Same(a) ==
    /\ venue'[a] = venue[a] /\ steady'[a] = steady[a] /\ generation'[a] = generation[a]
    /\ read'[a] = read[a] /\ lock'[a] = lock[a] /\ cache'[a] = cache[a]
    /\ census' = "none" <=> census = "none"

\* An account that a step leaves alone keeps its part of the invariant.
LEMMA SameKeeps ==
  ASSUME NEW a \in Accounts, AccountInv(a), Same(a)
  PROVE  AccountInv(a)'
  BY DEF Same, AccountInv, LockInv, GenerationInv, SteadyInv, ProgressInv

\* A failed read drops every read and the locks they hold.
LEMMA AbortKeeps ==
  ASSUME CensusAssumption, IInv, census = "reading", Abort, UNCHANGED <<outside, cache>>
  PROVE  IInv'
  <1>1. NotRead \in AccountRead
    BY DEF NotRead, AccountRead, ReadPc
  <1>2. Types'
    BY <1>1 DEF IInv, Types, Abort, outside
  <1>3. Phase'
    BY DEF Phase, Abort, NotRead
  <1>4. ASSUME NEW a \in Accounts PROVE AccountInv(a)'
    <2>1. AccountInv(a) /\ lock[a] \in {"free", "other", "census"}
      BY DEF IInv, Types
    <2>2. /\ read'[a] = NotRead /\ census' = "failed"
          /\ lock'[a] = IF lock[a] = "census" THEN "free" ELSE lock[a]
          /\ cache'[a] = cache[a] /\ steady'[a] = steady[a] /\ venue'[a] = venue[a]
      BY DEF Abort, outside
    <2>3. LockInv(a)' /\ GenerationInv(a)' /\ ProgressInv(a)'
      BY <2>1, <2>2 DEF AccountInv, LockInv, GenerationInv, ProgressInv, NotRead
    <2>4. SteadyInv(a)'
      BY <2>1, <2>2 DEF AccountInv, SteadyInv, NotRead
    <2> QED
      BY <2>3, <2>4 DEF AccountInv
  <1> QED
    BY <1>2, <1>3, <1>4 DEF IInv

\* Change, Reconnect, Verify, Age and the other readers: the census stands, and
\* each part of an account's invariant survives what moves outside it.
LEMMA OutsideKeeps ==
  ASSUME CensusAssumption, IInv, NEW a \in Accounts,
         Change(a) \/ Reconnect(a) \/ Verify(a) \/ Age(a) \/ OtherLock(a) \/ OtherFetched(a)
  PROVE  IInv'
  <1>1. UNCHANGED <<census, read>>
    BY DEF Change, Reconnect, Verify, Age, OtherLock, OtherFetched
  <1>2. Types'
    <2>1. CASE Change(a)
      BY <2>1 DEF IInv, Types, Change
    <2>2. CASE Reconnect(a)
      BY <2>2 DEF IInv, Types, Reconnect
    <2>3. CASE Verify(a)
      BY <2>3 DEF IInv, Types, Verify
    <2>4. CASE Age(a)
      BY <2>4 DEF IInv, Types, Age, Configuration
    <2>5. CASE OtherLock(a)
      BY <2>5, CacheTypes DEF IInv, Types, OtherLock, outside
    <2>6. CASE OtherFetched(a)
      <3>1. (census # "none") \in BOOLEAN
        OBVIOUS
      <3>2. Proof(census # "none") \in Configuration
        BY <3>1, CacheTypes, Zenon
      <3> QED
        BY <2>6, <3>2 DEF IInv, Types, OtherFetched, outside
    <2> QED
      BY <2>1, <2>2, <2>3, <2>4, <2>5, <2>6
  <1>3. Phase'
    BY <1>1 DEF IInv, Phase
  <1>4. ASSUME NEW b \in Accounts PROVE AccountInv(b)'
    <2>1. AccountInv(b) /\ Types
      BY DEF IInv
    <2>2. LockInv(b)'
      <3>1. CASE Change(a) \/ Reconnect(a) \/ Verify(a)
        BY <1>1, <2>1, <3>1 DEF Change, Reconnect, Verify, AccountInv, LockInv
      <3>2. CASE Age(a)
        BY <1>1, <2>1, <3>2 DEF Types, Configuration, Age, AccountInv, LockInv
      <3>3. CASE OtherLock(a)
        BY <1>1, <2>1, <3>3 DEF Types, OtherLock, AccountInv, LockInv, Empty
      <3>4. CASE OtherFetched(a)
        BY <1>1, <2>1, <3>4 DEF Types, OtherFetched, AccountInv, LockInv, Proof
      <3> QED
        BY <3>1, <3>2, <3>3, <3>4
    <2>3. GenerationInv(b)'
      <3>1. generation'[b] \in Nat /\ generation[b] \in Nat /\ generation[b] <= generation'[b]
        BY <2>1, <1>2 DEF Types, Change, Reconnect, Verify, Age, OtherLock, OtherFetched, outside
      <3>2. read[b].generation \in Nat /\ read[b].generations \subseteq Nat
        BY <2>1 DEF Types, AccountRead
      <3> QED
        BY <1>1, <2>1, <3>1, <3>2 DEF AccountInv, GenerationInv
    <2>4. /\ steady'[b] \subseteq steady[b]
          /\ steady[b] \subseteq venue[b] => steady'[b] \subseteq venue'[b]
      <3>1. CASE Change(a)
        BY <2>1, <3>1 DEF Types, Change
      <3>2. CASE ~Change(a)
        BY <3>2 DEF Reconnect, Verify, Age, OtherLock, OtherFetched, outside
      <3> QED
        BY <3>1, <3>2
    <2>5. SteadyInv(b)'
      BY <1>1, <2>1, <2>4 DEF AccountInv, SteadyInv
    <2>6. ProgressInv(b)'
      BY <1>1, <2>1, <2>4 DEF AccountInv, ProgressInv
    <2> QED
      BY <2>2, <2>3, <2>5, <2>6 DEF AccountInv
  <1> QED
    BY <1>2, <1>3, <1>4 DEF IInv

\* The HELD answer starts every read and takes the census of what is foreign.
LEMMA HeldKeeps ==
  ASSUME CensusAssumption, IInv, Held
  PROVE  IInv'
  <1>1. Types'
    <2>1. [NotRead EXCEPT !.pc = "start"] \in AccountRead
      BY DEF NotRead, AccountRead, ReadPc
    <2> QED
      BY <2>1 DEF IInv, Types, Held, Configuration
  <1>2. Phase'
    BY DEF Phase, Held, NotRead
  <1>3. ASSUME NEW a \in Accounts PROVE AccountInv(a)'
    <2>1. AccountInv(a) /\ Types /\ Phase
      BY DEF IInv
    <2>2. /\ read'[a] = [NotRead EXCEPT !.pc = "start"] /\ steady'[a] = venue[a] \cap Foreign
          /\ venue'[a] = venue[a] /\ lock'[a] = lock[a] /\ cache'[a].some = cache[a].some
      BY <2>1 DEF Held, Types, Configuration
    <2>3. lock[a] # "census"
      BY <2>1 DEF Held, Phase, AccountInv, LockInv
    <2>4. LockInv(a)' /\ GenerationInv(a)' /\ ProgressInv(a)'
      BY <2>1, <2>2, <2>3 DEF AccountInv, LockInv, GenerationInv, ProgressInv, NotRead
    <2>5. SteadyInv(a)'
      BY <2>2 DEF SteadyInv, NotRead
    <2> QED
      BY <2>4, <2>5 DEF AccountInv
  <1> QED
    BY <1>1, <1>2, <1>3 DEF IInv

\* A step of one account's read that goes on: only that account's read, lock
\* and cache change.
Advances(a) ==
    /\ census = "reading" /\ read[a].pc # "none" /\ UNCHANGED <<outside, census>>
    /\ read' \in [Accounts -> AccountRead] /\ read'[a].pc # "none"
    /\ \A b \in Accounts \ {a} : read'[b] = read[b] /\ lock'[b] = lock[b] /\ cache'[b] = cache[b]

\* Such a step keeps the invariant when the account keeps its part and the types.
LEMMA AdvanceKeeps ==
  ASSUME IInv, NEW a \in Accounts, Advances(a), Types', AccountInv(a)'
  PROVE  IInv'
  <1>1. Phase'
    BY DEF IInv, Phase, Advances
  <1>2. ASSUME NEW b \in Accounts PROVE AccountInv(b)'
    <2>1. CASE b = a
      BY <2>1
    <2>2. CASE b # a
      BY <2>2, SameKeeps DEF IInv, Advances, Same, outside
    <2> QED
      BY <2>1, <2>2
  <1> QED
    BY <1>1, <1>2 DEF IInv

\* Start, the configuration and the two kinds of reads.
LEMMA StartKeeps ==
  ASSUME CensusAssumption, IInv, NEW a \in Accounts, Start(a)
  PROVE  IInv'
  <1>1. CASE ~source_identity_ready(a)
    BY <1>1, AbortKeeps DEF Start, At, outside
  <1>2. CASE source_identity_ready(a)
    <2>1. /\ read' = [read EXCEPT ![a].pc = "config", ![a].generation = generation[a]]
          /\ UNCHANGED <<outside, census, lock, cache>> /\ census = "reading" /\ read[a].pc = "start"
      BY <1>2 DEF Start, At
    <2>2. Types /\ AccountInv(a)
      BY DEF IInv
    <2>3. read[a] \in AccountRead /\ generation[a] \in Nat
      BY <2>2 DEF Types
    <2>4. /\ read'[a] \in AccountRead /\ \A b \in Accounts \ {a} : read'[b] = read[b]
          /\ read'[a].pc = "config" /\ read'[a].generation = generation[a]
          /\ read'[a].generations = read[a].generations /\ read'[a].parts = read[a].parts
          /\ read'[a].scopes = read[a].scopes /\ read'[a].seen = read[a].seen
      BY <2>1, <2>2, <2>3 DEF Types, AccountRead, ReadPc
    <2>5. read' \in [Accounts -> AccountRead]
      BY <2>1, <2>2, <2>4 DEF Types
    <2>6. Types'
      BY <2>1, <2>2, <2>5 DEF Types, outside
    <2>7. AccountInv(a)'
      <3>1. LockInv(a)' /\ ProgressInv(a)'
        BY <2>1, <2>2, <2>4 DEF AccountInv, LockInv, ProgressInv
      <3>2. GenerationInv(a)'
        <4>1. read'[a].generations = {} /\ generation'[a] = read'[a].generation /\ generation'[a] \in Nat
          BY <2>1, <2>2, <2>4, <2>3 DEF outside, AccountInv, GenerationInv
        <4> QED
          BY <2>4, <4>1 DEF GenerationInv
      <3>3. SteadyInv(a)'
        BY <2>1, <2>2, <2>4 DEF outside, AccountInv, SteadyInv
      <3> QED
        BY <3>1, <3>2, <3>3 DEF AccountInv
    <2>8. Advances(a)
      BY <2>1, <2>2, <2>5, <2>4, <2>3 DEF Advances
    <2> QED
      BY <2>6, <2>7, <2>8, AdvanceKeeps
  <1> QED
    BY <1>1, <1>2

\* The configuration is asked for under the lock, whatever the cache holds.
LEMMA ReadFreshKeeps ==
  ASSUME CensusAssumption, IInv, NEW a \in Accounts, read_fresh(a)
  PROVE  IInv'
  <1>1. Types /\ AccountInv(a) /\ read[a] \in AccountRead
    BY DEF IInv, Types
  <1>2. read'[a] = [read[a] EXCEPT !.pc = "fetch"] /\ lock'[a] = "census" /\ cache'[a] = Empty
    BY <1>1 DEF read_fresh, Types
  <1>3. read' \in [Accounts -> AccountRead]
    BY <1>1 DEF read_fresh, Types, AccountRead, ReadPc
  <1>4. Types'
    BY <1>1, <1>3, CacheTypes DEF read_fresh, Types, outside
  <1>5. AccountInv(a)'
    BY <1>1, <1>2 DEF read_fresh, At, Empty, AccountRead, outside,
                      AccountInv, LockInv, GenerationInv, SteadyInv, ProgressInv
  <1>6. Advances(a)
    BY <1>1, <1>2, <1>3 DEF read_fresh, At, Advances, Types, AccountRead
  <1> QED
    BY <1>4, <1>5, <1>6, AdvanceKeeps

\* Its answer is the read's own, or the census fails.
LEMMA ConfigFetchedKeeps ==
  ASSUME CensusAssumption, IInv, NEW a \in Accounts, ConfigFetched(a)
  PROVE  IInv'
  <1>1. CASE Abort /\ UNCHANGED <<outside, cache>>
    BY <1>1, AbortKeeps DEF ConfigFetched, At
  <1>2. CASE /\ cache' = [cache EXCEPT ![a] = Proof(TRUE)]
             /\ lock' = [lock EXCEPT ![a] = "free"]
             /\ read' = [read EXCEPT ![a].pc = "parts", ![a].fresh = TRUE]
             /\ UNCHANGED <<outside, census>>
    <2>1. Types /\ AccountInv(a) /\ read[a] \in AccountRead /\ census = "reading" /\ read[a].pc = "fetch"
      BY DEF IInv, Types, ConfigFetched, At
    <2>2. /\ read'[a] \in AccountRead /\ lock'[a] = "free"
          /\ read'[a].pc = "parts" /\ read'[a].fresh /\ read'[a].generation = read[a].generation
          /\ read'[a].generations = read[a].generations /\ read'[a].parts = read[a].parts
          /\ read'[a].scopes = read[a].scopes /\ read'[a].seen = read[a].seen
      BY <1>2, <2>1 DEF Types, AccountRead, ReadPc
    <2>3. read' \in [Accounts -> AccountRead]
      BY <1>2, <2>1, <2>2 DEF Types
    <2>4. Types'
      <3>1. Proof(TRUE) \in Configuration
        BY CacheTypes, Zenon
      <3> QED
        BY <1>2, <2>1, <2>3, <3>1 DEF Types, outside
    <2>5. AccountInv(a)'
      BY <1>2, <2>1, <2>2 DEF outside, AccountInv, LockInv, GenerationInv, SteadyInv, ProgressInv
    <2>6. Advances(a)
      BY <1>2, <2>1, <2>2, <2>3 DEF Advances, Types, AccountRead
    <2> QED
      BY <2>4, <2>5, <2>6, AdvanceKeeps
  <1> QED
    BY <1>1, <1>2 DEF ConfigFetched

\* A request of an account's read adds what it saw and the generation it saw it in.
Saw(a, present) ==
    /\ read'[a] \in AccountRead
    /\ read'[a].seen = read[a].seen \cup present
    /\ read'[a].generations = read[a].generations \cup {generation[a]}
    /\ read'[a].generation = read[a].generation /\ read'[a].fresh = read[a].fresh

\* One of the three requests of the snapshot.
LEMMA ReadPartKeeps ==
  ASSUME CensusAssumption, IInv, NEW a \in Accounts, ReadPart(a)
  PROVE  IInv'
  <1>1. Types /\ AccountInv(a) /\ read[a] \in AccountRead /\ generation[a] \in Nat
        /\ census = "reading" /\ read[a].pc = "parts" /\ UNCHANGED <<outside, cache, lock, census>>
        /\ venue[a] \subseteq Objects
    BY DEF IInv, Types, ReadPart, At
  <1>2. PICK part \in SnapshotParts \ read[a].parts :
           read' = [read EXCEPT ![a] =
                       [Seen(a, {o \in venue[a] : KindOf[o] = PartKind[part]})
                           EXCEPT !.parts = @ \cup {part},
                                  !.pc = IF read[a].parts \cup {part} = SnapshotParts THEN "algos" ELSE @]]
    BY DEF ReadPart
  <1> DEFINE present == {o \in venue[a] : KindOf[o] = PartKind[part]}
  <1>3. /\ Saw(a, present)
        /\ read'[a].parts = read[a].parts \cup {part} /\ read'[a].scopes = read[a].scopes
        /\ read'[a].pc = IF read[a].parts \cup {part} = SnapshotParts THEN "algos" ELSE "parts"
        /\ \A b \in Accounts \ {a} : read'[b] = read[b]
    BY <1>1, <1>2 DEF Types, Saw, Seen, AccountRead, ReadPc
  <1>4. read' \in [Accounts -> AccountRead]
    BY <1>1, <1>2, <1>3 DEF Types, Saw
  <1>5. Types'
    BY <1>1, <1>4 DEF Types, outside
  <1>6. AccountInv(a)'
    <2>1. LockInv(a)' /\ ProgressInv(a)'
      BY <1>1, <1>3 DEF Saw, AccountInv, LockInv, ProgressInv
    <2>2. GenerationInv(a)'
      BY <1>1, <1>3 DEF Saw, AccountRead, outside, AccountInv, GenerationInv
    <2>3. SteadyInv(a)'
      BY <1>1, <1>3 DEF Saw, outside, AccountInv, SteadyInv
    <2> QED
      BY <2>1, <2>2, <2>3 DEF AccountInv
  <1>7. Advances(a)
    BY <1>1, <1>3, <1>4 DEF Advances
  <1> QED
    BY <1>5, <1>6, <1>7, AdvanceKeeps

\* One scope of the conditional orders.
LEMMA ReadScopeKeeps ==
  ASSUME CensusAssumption, IInv, NEW a \in Accounts, ReadScope(a)
  PROVE  IInv'
  <1>1. Types /\ AccountInv(a) /\ read[a] \in AccountRead /\ generation[a] \in Nat
        /\ census = "reading" /\ read[a].pc = "algos" /\ UNCHANGED <<outside, cache, lock, census>>
        /\ venue[a] \subseteq Objects
    BY DEF IInv, Types, ReadScope, At
  <1>2. PICK s \in Scopes \ read[a].scopes :
           read' = [read EXCEPT ![a] =
                       [Seen(a, {o \in venue[a] : KindOf[o] = "algo" /\ ScopeOf[o] = s})
                           EXCEPT !.scopes = @ \cup {s},
                                  !.pc = IF read[a].scopes \cup {s} = Scopes THEN "attribute" ELSE @]]
    BY DEF ReadScope
  <1> DEFINE present == {o \in venue[a] : KindOf[o] = "algo" /\ ScopeOf[o] = s}
  <1>3. /\ Saw(a, present)
        /\ read'[a].scopes = read[a].scopes \cup {s} /\ read'[a].parts = read[a].parts
        /\ read'[a].pc = IF read[a].scopes \cup {s} = Scopes THEN "attribute" ELSE "algos"
        /\ \A b \in Accounts \ {a} : read'[b] = read[b]
    BY <1>1, <1>2 DEF Types, Saw, Seen, AccountRead, ReadPc
  <1>4. read' \in [Accounts -> AccountRead]
    BY <1>1, <1>2, <1>3 DEF Types, Saw
  <1>5. Types'
    BY <1>1, <1>4 DEF Types, outside
  <1>6. AccountInv(a)'
    <2>1. LockInv(a)' /\ ProgressInv(a)'
      BY <1>1, <1>3 DEF Saw, AccountInv, LockInv, ProgressInv
    <2>2. GenerationInv(a)'
      BY <1>1, <1>3 DEF Saw, AccountRead, outside, AccountInv, GenerationInv
    <2>3. SteadyInv(a)'
      BY <1>1, <1>3 DEF Saw, outside, AccountInv, SteadyInv
    <2> QED
      BY <2>1, <2>2, <2>3 DEF AccountInv
  <1>7. Advances(a)
    BY <1>1, <1>3, <1>4 DEF Advances
  <1> QED
    BY <1>5, <1>6, <1>7, AdvanceKeeps

\* The attribution: a steady object was seen, so it is a conditional order and
\* the sample left it out; and no reconnect fell into the read.
LEMMA AttributeKeeps ==
  ASSUME CensusAssumption, IInv, NEW a \in Accounts, Attribute(a)
  PROVE  IInv'
  <1>1. CASE ~(Attributed(a) /\ SameSource(a))
    BY <1>1, AbortKeeps DEF Attribute, At, outside
  <1>2. CASE Attributed(a) /\ SameSource(a)
    <2>1. Types /\ AccountInv(a) /\ read[a] \in AccountRead /\ census = "reading" /\ read[a].pc = "attribute"
          /\ UNCHANGED <<outside, cache, lock, census>>
          /\ read' = [read EXCEPT ![a].pc = "done"]
      BY <1>2 DEF IInv, Types, Attribute, At
    <2>2. /\ read'[a] \in AccountRead /\ read'[a].pc = "done"
          /\ read'[a].seen = read[a].seen /\ read'[a].generations = read[a].generations
          /\ read'[a].generation = read[a].generation /\ read'[a].fresh = read[a].fresh
          /\ read'[a].parts = read[a].parts /\ read'[a].scopes = read[a].scopes
          /\ \A b \in Accounts \ {a} : read'[b] = read[b]
      BY <2>1 DEF Types, AccountRead, ReadPc
    <2>3. read' \in [Accounts -> AccountRead]
      BY <2>1, <2>2 DEF Types
    <2>4. Types'
      BY <2>1, <2>3 DEF Types, outside
    <2>5. read[a].generations = {read[a].generation}
      <3>1. /\ read[a].generations # {} /\ generation[a] = read[a].generation
            /\ \A g \in read[a].generations : read[a].generation <= g /\ g <= generation[a]
        BY <1>2, <2>1 DEF AccountInv, GenerationInv, SameSource
      <3>2. read[a].generation \in Nat /\ read[a].generations \subseteq Nat
        BY <2>1 DEF AccountRead
      <3>3. \A g \in read[a].generations : g = read[a].generation
        BY <3>1, <3>2
      <3> QED
        BY <3>1, <3>3
    <2>6. ASSUME NEW o \in steady[a]
          PROVE  KindOf[o] = "algo" /\ o \in read[a].seen \ Samples(read[a].seen)
      <3>1. o \in Objects \ Managed /\ read[a].parts = SnapshotParts /\ read[a].scopes = Scopes
        BY <2>1, <2>6 DEF Types, AccountInv, SteadyInv, ProgressInv, Foreign
      <3>2. KindOf[o] = "algo"
        <4>1. ASSUME KindOf[o] # "algo" PROVE FALSE
          <5>1. PICK part \in SnapshotParts : KindOf[o] = PartKind[part]
            BY <3>1, <4>1, KindFacts
          <5>2. o \in read[a].seen
            BY <2>1, <2>6, <3>1, <5>1 DEF AccountInv, SteadyInv
          <5>3. KindOf[o] \in {"position", "order", "rate"}
            BY <5>1, KindFacts
          <5> QED
            BY <1>2, <3>1, <5>2, <5>3 DEF Attributed
        <4> QED
          BY <4>1
      <3>3. o \in read[a].seen
        BY <2>1, <2>6, <3>1, <3>2, KindFacts DEF AccountInv, SteadyInv
      <3>4. o \notin Samples(read[a].seen)
        BY <1>2, <3>1 DEF Attributed, ManagedAlgos, CensusAssumption
      <3> QED
        BY <3>2, <3>3, <3>4
    <2>7. AccountInv(a)'
      <3>1. LockInv(a)' /\ GenerationInv(a)'
        BY <2>1, <2>2, <2>5 DEF AccountInv, LockInv, GenerationInv
      <3>2. SteadyInv(a)'
        BY <2>1, <2>2 DEF outside, AccountInv, SteadyInv
      <3>3. ProgressInv(a)'
        BY <2>1, <2>2, <2>6 DEF outside, AccountInv, ProgressInv
      <3> QED
        BY <3>1, <3>2, <3>3 DEF AccountInv
    <2>8. Advances(a)
      BY <2>1, <2>2, <2>3 DEF Advances
    <2> QED
      BY <2>4, <2>7, <2>8, AdvanceKeeps
  <1> QED
    BY <1>1, <1>2

\* The census is proved when every account is done, or fails as stale.
LEMMA AssembleKeeps ==
  ASSUME CensusAssumption, IInv, Assemble
  PROVE  IInv'
  <1>1. CASE Abort
    BY <1>1, AbortKeeps DEF Assemble, outside
  <1>2. CASE census' = "proved" /\ UNCHANGED <<read, lock>>
    <2>1. Types' /\ Phase'
      BY <1>2 DEF IInv, Types, Phase, Assemble, outside
    <2>2. ASSUME NEW a \in Accounts PROVE AccountInv(a)'
      BY <1>2, SameKeeps DEF IInv, Assemble, Same, outside
    <2> QED
      BY <2>1, <2>2 DEF IInv
  <1> QED
    BY <1>1, <1>2 DEF Assemble

\* Every step keeps the invariant.
LEMMA NextIInv == CensusAssumption /\ IInv /\ [Next]_vars => IInv'
  <1> SUFFICES ASSUME CensusAssumption, IInv, [Next]_vars PROVE IInv'
    OBVIOUS
  <1>1. CASE Held
    BY <1>1, HeldKeeps
  <1>2. CASE Work
    BY <1>2, AssembleKeeps, StartKeeps, ReadFreshKeeps, ConfigFetchedKeeps, ReadPartKeeps,
       ReadScopeKeeps, AttributeKeeps DEF Work
  <1>3. CASE Others \/ \E a \in Accounts : Change(a) \/ Reconnect(a) \/ Verify(a) \/ Age(a) \/ OtherLock(a)
    BY <1>3, OutsideKeeps DEF Others
  <1>4. CASE UNCHANGED vars
    <2>1. Types' /\ Phase'
      BY <1>4 DEF IInv, Types, Phase, vars
    <2>2. ASSUME NEW a \in Accounts PROVE AccountInv(a)'
      BY <1>4, SameKeeps DEF IInv, Same, vars
    <2> QED
      BY <2>1, <2>2 DEF IInv
  <1> QED
    BY <1>1, <1>2, <1>3, <1>4 DEF Next

\* The invariant of the census, for every cohort and every inventory.
THEOREM CensusInvariance == CensusAssumption /\ Spec => [](CensusAssumption /\ IInv)
  <1>1. CensusAssumption /\ Init => CensusAssumption /\ IInv
    BY InitIInv
  <1>2. CensusAssumption /\ IInv /\ [Next]_vars => (CensusAssumption /\ IInv)'
    BY NextIInv
  <1> QED
    BY <1>1, <1>2, PTL DEF Spec

\* Reads, locks and the cache keep their types; the lock of the cache is the
\* census's exactly while it fetches (ObserverConfigCache).
THEOREM CensusTypeCorrect == CensusAssumption /\ Spec => []TypeOK
  <1>1. IInv => TypeOK
    BY DEF IInv, Types, AccountInv, LockInv, TypeOK
  <1> QED
    BY <1>1, CensusInvariance, PTL

\* census_after_held proves nothing from a configuration cached before HELD.
THEOREM CensusIsAfterHeld == CensusAssumption /\ Spec => []EvidenceAfterHeld
  <1>1. IInv => EvidenceAfterHeld
    BY DEF IInv, Phase, AccountInv, ProgressInv, EvidenceAfterHeld
  <1> QED
    BY <1>1, CensusInvariance, PTL

\* No reconnect falls into the read of a proved census.
THEOREM CensusIsOneGeneration == CensusAssumption /\ Spec => []OneGeneration
  <1>1. IInv => OneGeneration
    BY DEF IInv, Phase, AccountInv, GenerationInv, OneGeneration
  <1> QED
    BY <1>1, CensusInvariance, PTL

\* An unattributed position, order or conversion that stays from HELD on prevents
\* the proof; a conditional order does unless the bounded sample leaves it out.
THEOREM ForeignOnlyBeyondSample == CensusAssumption /\ Spec => []ForeignIsBeyondSample
  <1>1. IInv => ForeignIsBeyondSample
    BY DEF IInv, Phase, AccountInv, ProgressInv, ForeignIsBeyondSample
  <1> QED
    BY <1>1, CensusInvariance, PTL

=============================================================================
