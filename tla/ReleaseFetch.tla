------------------------------- MODULE ReleaseFetch -------------------------------
(***************************************************************************)
(* How the host controller takes a release from GitHub                     *)
(* (verified_bundle and its callers in okx-host-control/src/artifact.rs,   *)
(* workflow_run, workflow_artifact and the ranged download of              *)
(* okx-github/src/lib.rs).                                                 *)
(*                                                                         *)
(* A request names a run, an artifact and the source tree it expects.  The *)
(* run and the artifact are checked, the zip is read in parts, the parts   *)
(* are put together, the manifest in it is checked against the run, the    *)
(* request and origin/main, and the binary against the manifest.           *)
(*                                                                         *)
(* Between two parts the storage behind the redirect may serve another     *)
(* object, main may move, and an answer may be anything HTTP allows.  An   *)
(* object is a sequence of blocks: the manifest, the agent, the controller *)
(* and, in some, the launcher; its content is named [object, block].       *)
(***************************************************************************)
EXTENDS Integers, Sequences

CONSTANTS
    Objects,    \* objects the storage holds: record of size, etag, head and tree
    Runs,       \* workflow runs: record of accepted, head, and of the artifact: expired, named
    Trees,      \* source trees main may have
    Part,       \* GITHUB_ARTIFACT_RANGE_BYTES, in blocks
    MaxZip,     \* MAX_GITHUB_ARTIFACT_ZIP_BYTES, in blocks
    Deadline,   \* GITHUB_ARTIFACT_TOTAL_DEADLINE, in slow answers
    Faults,     \* subset of {"replace", "status", "range", "body", "refuse"}
    MaxMoves    \* bound: changes of the storage and of main

ReleaseFetchAssumption ==
    /\ Part \in Nat \ {0} /\ MaxZip \in Nat /\ Deadline \in Nat \ {0} /\ MaxMoves \in Nat
    /\ \A o \in Objects: o.size \in Nat \ {0}

VARIABLES
    served,     \* the object the storage serves now
    main,       \* the tree of origin/main now
    mains,      \* the trees it has had
    moves,      \* changes so far
    ask,        \* the request: run, tree and the block to install
    pc,
    zip,        \* blocks read so far
    head,       \* the answer whose headers were read
    total,      \* size claimed by the first answer
    etag,       \* its ETag
    elapsed,    \* slow answers so far
    installed   \* the block that was installed

vars == <<served, main, mains, moves, ask, pc, zip, head, total, etag, elapsed, installed>>
outside == <<served, main, mains, moves>>
download == <<zip, head, total, etag, elapsed>>

NotInstalled == [object |-> "none", block |-> 0]
NoHead == [from |-> "none", status |-> 0, encoded |-> FALSE, start |-> 0, last |-> 0, total |-> 0,
           length |-> 0, etag |-> "none", body |-> 0]
\* Blocks of the files an operation may ask for.
Manifest == 1
Agent == 2
Controller == 3
Launcher == 4

Object(name) == CHOOSE o \in Objects: o.name = name
Lesser(a, b) == IF a < b THEN a ELSE b

Fail == pc' = "failed"

-----------------------------------------------------------------------------
(* GitHub and its storage *)

Replace ==
    /\ "replace" \in Faults /\ moves < MaxMoves /\ \E o \in Objects: o # served /\ served' = o
    /\ moves' = moves + 1
    /\ UNCHANGED <<main, mains, ask, pc, zip, head, total, etag, elapsed, installed>>

MainMoves ==
    /\ moves < MaxMoves /\ \E t \in Trees \ {main}: main' = t /\ mains' = mains \cup {t}
    /\ moves' = moves + 1
    /\ UNCHANGED <<served, ask, pc, zip, head, total, etag, elapsed, installed>>

\* An answer to a range request: an error, the whole object, a range of some
\* other extent, a body that is shorter than it says, or what was asked for.
Exact(first) ==
    LET last == Lesser(first + Part, served.size) - 1
    IN [from |-> served.name, status |-> 206, encoded |-> FALSE, start |-> first, last |-> last,
        total |-> served.size, length |-> last - first + 1, etag |-> served.etag, body |-> last - first + 1]

Answers(first) ==
    LET e == Exact(first) IN
    (IF first < served.size THEN {e} ELSE {[e EXCEPT !.status = 416]})
    \cup (IF "status" \in Faults THEN {[e EXCEPT !.status = s]: s \in {200, 500}} \cup {[e EXCEPT !.encoded = TRUE]} ELSE {})
    \cup (IF "range" \in Faults
          THEN {[e EXCEPT !.start = a, !.last = b, !.length = b - a + 1, !.body = b - a + 1]:
                    a \in 0..served.size, b \in 1..served.size} ELSE {})
    \cup (IF "body" \in Faults THEN {[e EXCEPT !.body = n]: n \in 0..Part} ELSE {})

-----------------------------------------------------------------------------
(* verified_bundle *)

\* An operation may also fail because GitHub refuses or cannot be reached.
Refused == "refuse" \in Faults /\ pc \in {"run", "artifact", "origin"} /\ Fail
           /\ UNCHANGED <<outside, ask, download, installed>>

\* The run is a successful run of CI for a pull request.
workflow_run(r) == r.accepted

VerifyRun ==
    /\ pc = "run" /\ (IF workflow_run(ask.run) THEN pc' = "artifact" ELSE Fail)
    /\ UNCHANGED <<outside, ask, download, installed>>

\* The artifact belongs to the run, is not expired and is named for its head.
VerifyArtifact ==
    /\ pc = "artifact"
    /\ IF ~ask.run.expired /\ ask.run.named = ask.run.head THEN pc' = "send" ELSE Fail
    /\ UNCHANGED <<outside, ask, download, installed>>

\* One part is asked for, unless the time is up.
RequestPart ==
    /\ pc = "send"
    /\ \/ elapsed = Deadline /\ Fail /\ UNCHANGED <<head, elapsed>>
       \/ /\ elapsed < Deadline
          /\ \E a \in Answers(Len(zip)), slow \in {0, 1}:
             /\ head' = a /\ elapsed' = elapsed + slow /\ pc' = "head"
    /\ UNCHANGED <<outside, ask, zip, total, etag, installed>>

same_object_mutant(h) == Len(zip) = 0 \/ h.total = total

\* Every part is of the object the first was of, as far as its size and its
\* ETag tell.
same_object(h) == Len(zip) = 0 \/ (h.total = total /\ h.etag = etag)

\* The part is the one that was asked for, to the end of the object.
exact_range(h) ==
    /\ h.start = Len(zip) /\ h.last = Len(zip) + Lesser(h.total - Len(zip), Part) - 1
    /\ h.length = h.last - h.start + 1

within_limit_mutant(h) == TRUE
within_limit(h) == h.total <= MaxZip

CheckHead ==
    /\ pc = "head"
    /\ IF /\ head.status = 206 /\ ~head.encoded
          /\ head.start <= head.last /\ head.last < head.total   \* parse_artifact_content_range
          /\ within_limit(head) /\ Len(zip) < head.total /\ exact_range(head) /\ same_object(head)
       THEN /\ pc' = "body"
            /\ total' = head.total /\ etag' = head.etag
       ELSE Fail /\ UNCHANGED <<total, etag>>
    /\ UNCHANGED <<outside, ask, zip, head, elapsed, installed>>

whole_body_mutant(h) == h.body <= Part
whole_body(h) == h.body = h.last - h.start + 1

\* The body may end early; a part of another length than it said is refused.
ReadBody ==
    /\ pc = "body"
    /\ IF whole_body(head)
       THEN /\ zip' = zip \o [i \in 1..head.body |-> [object |-> head.from, block |-> Len(zip) + i]]
            /\ pc' = IF Len(zip) + head.body = total THEN "parse" ELSE "send"
       ELSE Fail /\ UNCHANGED zip
    /\ UNCHANGED <<outside, ask, head, total, etag, elapsed, installed>>

\* The manifest is of the head of the run and of the tree of the request.
manifest_bound(m) == m.head = ask.run.head /\ m.tree = ask.tree

\* parse_bundle finds the manifest, the agent and the controller.
parse_bundle ==
    /\ pc = "parse"
    /\ IF Len(zip) >= Controller /\ manifest_bound(Object(zip[Manifest].object)) THEN pc' = "origin" ELSE Fail
    /\ UNCHANGED <<outside, ask, download, installed>>

tree_is_main_mutant(t) == TRUE

\* fetch_origin_main_tree, compared with the tree of the manifest.
tree_is_main(t) == t = main

FetchMain ==
    /\ pc = "origin"
    /\ IF tree_is_main(Object(zip[Manifest].object).tree) THEN pc' = "hash" ELSE Fail
    /\ UNCHANGED <<outside, ask, download, installed>>

declared_hash_mutant(b) == b <= Len(zip)

\* The manifest names the file, the bundle has it and its hash is that one.
declared_hash(b) ==
    /\ b <= Len(zip) /\ b <= Object(zip[Manifest].object).size
    /\ zip[b] = [object |-> zip[Manifest].object, block |-> b]

\* deploy_agent, stage_controller_update and upgrade_launcher_root.
InstallBinary ==
    /\ pc = "hash"
    /\ IF declared_hash(ask.block) THEN installed' = zip[ask.block] /\ pc' = "done"
       ELSE Fail /\ UNCHANGED installed
    /\ UNCHANGED <<outside, ask, download>>

-----------------------------------------------------------------------------
Init ==
    /\ served \in Objects /\ main \in Trees /\ mains = {main} /\ moves = 0
    /\ ask \in [run: Runs, tree: Trees, block: {Agent, Controller, Launcher}]
    /\ pc = "run" /\ zip = <<>> /\ head = NoHead /\ total = 0 /\ etag = "none" /\ elapsed = 0
    /\ installed = NotInstalled

Fetch ==
    \/ VerifyRun \/ VerifyArtifact \/ RequestPart \/ CheckHead \/ ReadBody \/ parse_bundle
    \/ FetchMain \/ InstallBinary

Next == Fetch \/ Refused \/ Replace \/ MainMoves

Spec == Init /\ [][Next]_vars

\* Every request to GitHub has a timeout, so a step that waits comes to an end.
FairSpec == Spec /\ WF_vars(Fetch)

-----------------------------------------------------------------------------
\* The parts put together are one object, whole and in order, while objects
\* are told apart by their ETag, whatever the answers were (the ETag, the
\* exact range and the length of the body in download_artifact_zip_in_parts).
ZipIsOneObject ==
    pc \in {"parse", "origin", "hash", "done"} =>
        \E o \in Objects: zip = [i \in 1..o.size |-> [object |-> o.name, block |-> i]]

\* What is installed is the binary of an accepted run whose manifest is that
\* of the tree the request named, even if storage changed objects that have
\* no ETag between two parts (the hashes of the manifest).
InstalledIsAccepted ==
    installed # NotInstalled =>
        /\ ask.run.accepted /\ installed.block = ask.block
        /\ Object(installed.object).head = ask.run.head /\ Object(installed.object).tree = ask.tree

\* Its tree was the tree of origin/main.
InstalledWasMain == installed # NotInstalled => Object(installed.object).tree \in mains

\* No more is kept in memory than the limit allows, and no part more than
\* once over it is asked for.
ZipWithinLimit == Len(zip) <= MaxZip

\* A fetch ends.
FetchEnds == <>(pc \in {"done", "failed"})
=============================================================================
