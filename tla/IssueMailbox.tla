------------------------------ MODULE IssueMailbox ------------------------------
(***************************************************************************)
(* A GitHub issue used as a queue: the owner adds request comments, the    *)
(* agent (or the host controller, with the same cursor store) polls the    *)
(* comments after its cursor, answers each request in a comment of its own *)
(* and moves the cursor (okx-github/src/lib.rs, github_mailbox.rs).        *)
(* A comment is named by its position, which is also the order of the      *)
(* cursors; its second matters only for the overlap of the query.  A page  *)
(* of the query is its representation, so it stands for its own ETag.      *)
(***************************************************************************)
EXTENDS Integers, Sequences, FiniteSets, FiniteSetsExt

CONSTANTS
    Request,      \* request identities
    Foreign,      \* a request that is not the owner's
    Malformed,    \* a request that can never be decrypted or parsed
    PerPage, MaxPages,  \* 100 and 10 in the code
    MaxComments, MaxSecond, MaxFaults, MaxErrors   \* bounds

MailboxAssumption ==
    /\ Foreign \in Request /\ Malformed \in Request
    /\ {PerPage, MaxPages, MaxComments, MaxSecond, MaxFaults, MaxErrors} \subseteq Nat /\ PerPage > 0

VARIABLES
    issue,      \* the comments, each with kind, request and second
    clock,
    file,       \* the cursor store
    validator,  \* the conditional request that is armed
    poll,       \* the poll under way
    late,       \* answers whose request timed out and that may still arrive
    unknown,    \* history: posts of a request whose outcome the agent did not learn
    faults,
    errors

vars == <<issue, clock, file, validator, poll, late, unknown, faults, errors>>

NoFile == [present |-> FALSE, cursor |-> 0, terminal |-> {}, ledger |-> FALSE]
NoValidator == [since |-> -2, page |-> {}]
Since(cursor) == issue[cursor].second - 1
Idle == [pc |-> "idle", cursor |-> 0, terminal |-> {}, page |-> 1, first |-> {}, fresh |-> {},
         todo |-> {}, complete |-> TRUE, req |-> Foreign]

Positions == 1..Len(issue)
Answers(r) == {k \in Positions : issue[k].kind = "answer" /\ issue[k].req = r}
Valid == Request \ {Foreign, Malformed}

TypeOK ==
    /\ Len(issue) <= MaxComments + 2 * Cardinality(Request) + MaxFaults
    /\ \A k \in Positions : issue[k].kind \in {"request", "answer"} /\ issue[k].req \in Request
    /\ file.cursor \in 0..Len(issue) /\ (file.cursor # 0) = file.present
    /\ file.terminal \subseteq Valid
    /\ poll.pc \in {"idle", "history", "fetch", "work", "post", "save", "rename"}
    /\ poll.todo \subseteq Positions /\ poll.fresh \subseteq Positions /\ poll.page \in 1..(MaxPages + 1)
    /\ late \subseteq Valid

\* The store is new, or one written before it kept a ledger of answered requests.
Init ==
    /\ clock = 0 /\ validator = NoValidator /\ poll = Idle /\ late = {}
    /\ unknown = [r \in Request |-> 0] /\ faults = 0 /\ errors = 0
    /\ \/ issue = <<>> /\ file = NoFile
       \/ \E r \in Valid :
            /\ issue = <<[kind |-> "request", req |-> r, second |-> 0],
                         [kind |-> "answer", req |-> r, second |-> 0]>>
            /\ file = [present |-> TRUE, cursor |-> 1, terminal |-> {}, ledger |-> FALSE]
-----------------------------------------------------------------------------
Comment(kind, r) == Append(issue, [kind |-> kind, req |-> r, second |-> clock])

OwnerPosts(r) ==
    /\ Cardinality({k \in Positions : issue[k].kind = "request"}) < MaxComments
    /\ issue' = Comment("request", r)
    /\ UNCHANGED <<clock, file, validator, poll, late, unknown, faults, errors>>

Tick ==
    /\ clock < MaxSecond /\ clock' = clock + 1
    /\ UNCHANGED <<issue, file, validator, poll, late, unknown, faults, errors>>

\* A POST that the client has given up on.
LateArrival(r) ==
    /\ r \in late /\ late' = late \ {r} /\ issue' = Comment("answer", r)
    /\ UNCHANGED <<clock, file, validator, poll, unknown, faults, errors>>
-----------------------------------------------------------------------------
\* A poll.

PollStep(next) ==
    /\ poll' = next
    /\ UNCHANGED <<issue, clock, late, unknown, errors>>

\* A store that is lost or unreadable counts as new.
load_checkpoint ==
    /\ poll.pc = "idle"
    /\ PollStep([Idle EXCEPT !.pc = IF file.ledger THEN "fetch" ELSE "history",
                             !.cursor = file.cursor, !.terminal = file.terminal])
    /\ UNCHANGED <<file, validator, faults>>

\* A bug: only the store's own ledger is believed.
terminal_request_ids_mutant(ks) == {}

terminal_request_ids(ks) ==
    {issue[k].req : k \in {j \in ks : issue[j].kind = "answer"}}

\* The whole issue, once: which requests have an answer.  Beyond the page limit the poll fails.
Bootstrap ==
    /\ poll.pc = "history"
    /\ PollStep(IF Len(issue) >= PerPage * MaxPages THEN Idle
                ELSE [poll EXCEPT !.terminal = @ \cup terminal_request_ids(Positions),
                                  !.pc = IF poll.cursor = 0 THEN "work" ELSE "fetch",
                                  !.fresh = IF poll.cursor = 0 THEN Positions ELSE {},
                                  !.todo = IF poll.cursor = 0 THEN Positions ELSE {}])
    /\ UNCHANGED <<file, validator, faults>>

\* The query begins a second before the cursor's comment: comments share a second.
cursor_overlap_since(cursor) ==
    IF cursor = 0 THEN Positions
    ELSE {k \in Positions : issue[k].second >= Since(cursor)}

Rank(k, ks) == Cardinality({j \in ks : j <= k})
Page(n, cursor) ==
    LET ks == cursor_overlap_since(cursor) IN
    {k \in ks : Rank(k, ks) > (n - 1) * PerPage /\ Rank(k, ks) <= n * PerPage}

\* A bug: the first page's ETag is taken for the whole answer.
can_arm_comment_validator_mutant(page, fresh) == fresh = {}

can_arm_comment_validator(page, fresh) == page = 1 /\ fresh = {}

NotModified ==
    /\ poll.page = 1 /\ poll.cursor # 0
    /\ validator.since = Since(poll.cursor) /\ validator.page = Page(1, poll.cursor)

\* One page.  A poll with nothing new only rewrites its checkpoint; one with something new is
\* worked through in order.
issue_comments_after ==
    /\ poll.pc = "fetch"
    /\ LET page == Page(poll.page, poll.cursor)
           fresh == poll.fresh \cup {k \in page : k > poll.cursor}
           first == IF poll.page = 1 THEN page ELSE poll.first
           conditional == poll.page = 1 /\ poll.cursor # 0
       IN \/ NotModified /\ PollStep([poll EXCEPT !.pc = "save"]) /\ UNCHANGED validator
          \/ /\ ~NotModified /\ Cardinality(page) = PerPage
             /\ PollStep(IF poll.page = MaxPages THEN Idle
                         ELSE [poll EXCEPT !.page = @ + 1, !.fresh = fresh, !.first = first])
             /\ validator' = IF conditional THEN NoValidator ELSE validator
          \/ /\ ~NotModified /\ Cardinality(page) < PerPage
             /\ PollStep([poll EXCEPT !.fresh = fresh, !.todo = fresh,
                                      !.terminal = @ \cup terminal_request_ids(fresh),
                                      !.pc = IF fresh = {} THEN "save" ELSE "work"])
             /\ validator' = IF poll.cursor # 0 /\ can_arm_comment_validator(poll.page, fresh)
                             THEN [since |-> Since(poll.cursor), page |-> first]
                             ELSE IF conditional THEN NoValidator ELSE validator
    /\ UNCHANGED <<file, faults>>

Head_todo == Min(poll.todo)
Pass == [poll EXCEPT !.todo = @ \ {Head_todo}]

\* Other people's comments, answers, requests with an answer and malformed ones are passed over.
\* (In the bootstrap scan the answers are already in the ledger.)
Skip ==
    /\ poll.pc = "work" /\ poll.todo # {}
    /\ \/ issue[Head_todo].kind = "answer"
       \/ issue[Head_todo].req \in poll.terminal \cup {Foreign, Malformed}
    /\ PollStep(Pass)
    /\ UNCHANGED <<file, validator, faults>>

Pending == poll.pc = "work" /\ poll.todo # {} /\ issue[Head_todo].kind = "request"
           /\ issue[Head_todo].req \in Valid \ poll.terminal

process_once ==
    /\ Pending
    /\ PollStep([poll EXCEPT !.pc = "post", !.req = issue[Head_todo].req])
    /\ UNCHANGED <<file, validator, faults>>

\* An error that is not the request's fault: the rest of the batch goes on, the cursor stays.
InternalError ==
    /\ Pending /\ errors < MaxErrors /\ errors' = errors + 1
    /\ poll' = [Pass EXCEPT !.complete = FALSE]
    /\ UNCHANGED <<issue, clock, file, validator, late, unknown, faults>>

post_issue_comment ==
    /\ poll.pc = "post"
    /\ \/ /\ issue' = Comment("answer", poll.req) /\ UNCHANGED <<late, unknown, faults>>
          /\ poll' = [Pass EXCEPT !.pc = "work", !.terminal = @ \cup {poll.req}]
       \/ \* The poll ends with the error; the answer is on the issue, lost or still on its way.
          /\ faults < MaxFaults /\ faults' = faults + 1 /\ poll' = Idle
          /\ unknown' = [unknown EXCEPT ![poll.req] = @ + 1]
          /\ \/ issue' = Comment("answer", poll.req) /\ UNCHANGED late
             \/ UNCHANGED <<issue, late>>
             \/ poll.req \notin late /\ late' = late \cup {poll.req} /\ UNCHANGED issue
    /\ UNCHANGED <<clock, file, validator, errors>>

\* A bug: the cursor moves although a request is unanswered.
completed_batch_cursor_mutant == IF poll.fresh = {} THEN poll.cursor ELSE Max(poll.fresh)

\* The last comment of a complete batch; an empty batch keeps the cursor.
completed_batch_cursor ==
    IF poll.fresh = {} THEN poll.cursor ELSE IF poll.complete THEN Max(poll.fresh) ELSE 0

FinishBatch ==
    /\ poll.pc = "work" /\ poll.todo = {}
    /\ PollStep([poll EXCEPT !.pc = "save"])
    /\ UNCHANGED <<file, validator, faults>>

\* A bug: an incomplete batch is saved as well.
save_checkpoint_mutant ==
    /\ poll.pc = "save"
    /\ PollStep([poll EXCEPT !.pc = "rename"]) /\ file' = NoFile
    /\ UNCHANGED <<validator, faults>>

\* save_checkpoint writes beside the store, removes the store and renames.
save_checkpoint ==
    /\ poll.pc = "save"
    /\ IF completed_batch_cursor = 0 THEN PollStep(Idle) /\ UNCHANGED file
       ELSE PollStep([poll EXCEPT !.pc = "rename"]) /\ file' = NoFile
    /\ UNCHANGED <<validator, faults>>

Rename ==
    /\ poll.pc = "rename" /\ PollStep(Idle)
    /\ file' = [present |-> TRUE, cursor |-> completed_batch_cursor, terminal |-> poll.terminal,
                ledger |-> TRUE]
    /\ UNCHANGED <<validator, faults>>

\* The process ends, or a read fails.
Crash ==
    /\ faults < MaxFaults /\ faults' = faults + 1 /\ poll.pc # "idle"
    /\ PollStep(Idle) /\ validator' \in {validator, NoValidator} /\ UNCHANGED file

Poll ==
    \/ load_checkpoint \/ Bootstrap \/ issue_comments_after \/ Skip \/ process_once
    \/ post_issue_comment \/ FinishBatch \/ save_checkpoint \/ Rename

Next ==
    \/ \E r \in Request : OwnerPosts(r) \/ LateArrival(r)
    \/ Tick \/ Poll \/ InternalError \/ Crash

Spec == Init /\ [][Next]_vars

\* The mailbox polls every few seconds.
FairSpec == Spec /\ WF_vars(Poll)
-----------------------------------------------------------------------------
\* The stored cursor never passes a valid request that has no answer, whatever failed in the
\* batch, while the store was replaced, or before the ledger of answers existed.
NothingSkipped ==
    \A k \in 1..file.cursor :
        issue[k].kind = "request" /\ issue[k].req \in Valid => Answers(issue[k].req) # {}

\* A request is answered again only when the agent could not learn that its answer arrived:
\* a restart, a lost store and a repeated request do not do it.
AnsweredOnce ==
    \A r \in Valid : Cardinality(Answers(r)) <= 1 + unknown[r]

\* The comments that a poll must read fill the pages it may ask for (HistoryLimitExceeded): it
\* fails, the cursor cannot move, and so every later poll fails as well.
HistoryLimitExceeded ==
    Cardinality(IF file.ledger THEN cursor_overlap_since(file.cursor) ELSE Positions) >= PerPage * MaxPages

\* Every valid request is answered in the end, no ETag, cursor or full page hides it, unless the
\* comments outgrow the pages of a poll.
EveryRequestAnswered ==
    \A r \in Valid : (\E k \in Positions : issue[k].kind = "request" /\ issue[k].req = r)
                        ~> (Answers(r) # {} \/ HistoryLimitExceeded)
=============================================================================
