---------------------------- MODULE TradeExecution ----------------------------
(***************************************************************************)
(* The life of a risk-increasing order of a real account, from the execute *)
(* request to the release of its central reservation: the executor         *)
(* (crates/okx-agent/src/trade_service/execute.rs), the reconciler         *)
(* (reconcile.rs, strategies.rs), the account's SQL ledger                 *)
(* (crates/okx-execution/src/ledger/sql/intents.rs), the risk transport    *)
(* (risk_bridge.rs, cloudflare_transport.rs) and the exchange.             *)
(*                                                                         *)
(* Every await of the code separates two actions: other executors, the     *)
(* reconciler, the Worker, a lost session and a crash may come in between. *)
(* The Worker is the Reservation protocol plus its book sequence; RiskBook *)
(* models why it grants or denies, so here a grant may always be denied.   *)
(* Nothing here reads amounts: a plan is its intent.                       *)
(***************************************************************************)
EXTENDS Integers, Sequences, FiniteSets

CONSTANTS
    Intent,           \* idempotency keys, hence intents, of one account
    Executor,         \* concurrent execute requests
    Reconciler,       \* concurrent status readers: maintenance, trade.status
    MaxTries,         \* compare-and-set attempts, 4 in the code
    MaxQueue,         \* capacity of the risk command channel, 32 in the code
    MaxRevision,      \* bound on policy revisions
    MaxNoise,         \* bound on book changes made by other intents
    MaxFaults         \* bound on lost commands, lost replies and crashes

ASSUME BoundAssumption ==
    /\ {MaxTries, MaxQueue, MaxRevision, MaxNoise, MaxFaults} \subseteq Nat
    /\ MaxRevision >= 1
ASSUME ProcessAssumption == Executor \cap Reconciler = {}

Process == Executor \cup Reconciler

VARIABLES
    sql,        \* the account's SQL rows, per intent
    policy,     \* revisions: central, in account_policy, in the process
    expired,    \* intents whose deadline has passed
    proc,       \* what each executor and reconciler is doing
    queue,      \* risk commands on their way to the Worker, in order
    central,    \* the Worker's reservation state, per intent
    granted,    \* intents whose POST the Worker authorized
    sequence,   \* the Worker's book sequence
    venue,      \* the exchange: request under way, order, open position
    posts,      \* history: order requests sent, per intent
    revoked,    \* history: intents HELD when the policy was revised
    noise, faults   \* how much of the bounds is used

worker == <<central, granted, sequence>>
history == <<posts, revoked>>
bounds == <<noise, faults>>
vars == <<sql, policy, expired, proc, queue, worker, venue, history, bounds>>

Outstanding == {"PREPARED", "RESERVED", "POSTING", "UNKNOWN", "ACKNOWLEDGED"}
Terminal == {"FILLED", "CANCELLED", "REJECTED"}

\* One intent: its row, its reserve marker, its risk receipt, its terminal
\* receipt and the acknowledgement of its central release.  A partial fill is
\* an ACKNOWLEDGED order with an open position.
Row == [state : {"NONE"} \cup Outstanding \cup Terminal,
        rev : Nat,
        begin : BOOLEAN,                                  \* begin_post_at
        marker : {"none", "ATTEMPT", "DENIED"},           \* risk-reserve:<id>
        receipt : {"none", "HELD", "POSTED", "UNKNOWN", "OPEN",
                   "UNSENT_PENDING", "TERMINAL_PENDING", "RELEASED"},
        hash : [via : {"none", "reserve", "inspect"}, seq : Nat],   \* receipt_hash
        terminal : {"none", "REJECTED_UNSENT", "TERMINAL"},
        acked : BOOLEAN]                                  \* central-release:<key>

NoRow == [state |-> "NONE", rev |-> 0, begin |-> FALSE, marker |-> "none",
          receipt |-> "none", hash |-> [via |-> "none", seq |-> 0], terminal |-> "none", acked |-> FALSE]

\* Control points that wait for a reply; the point is also the command's id.
Waiting == {"reserve", "reserve_inspect", "fence", "fence_inspect",
            "unsent_inspect", "unsent_release", "terminal_inspect", "terminal_resolve"}

Control == Waiting \cup
    {"idle", "planned", "prepared", "marked", "declining", "rejecting", "held",
     "fencing", "authorized", "posting", "sent", "proving", "status", "ordering",
     "recording", "releasing", "acknowledging"}

Status == {"none", "wait", "error", "HELD", "DENIED", "STALE", "NOT_FOUND",
           "POST_AUTHORIZED", "POSTED", "RELEASED", "UPDATED"}

Order == {"none", "live", "filled", "canceled", "rejected"}

Activity == [pc : Control, intent : Intent, rev : Nat, seq : Nat, tries : Nat,
             denied : BOOLEAN, via : {"reserve", "inspect"},
             terminal : BOOLEAN,      \* the intent was read in a terminal state
             seen : Order,
             reply : [status : Status, seq : Nat]]

NoReply == [status |-> "none", seq |-> 0]

Idle(i) == [pc |-> "idle", intent |-> i, rev |-> 0, seq |-> 0, tries |-> 0,
            denied |-> FALSE, via |-> "reserve", terminal |-> FALSE, seen |-> "none",
            reply |-> NoReply]

Command == [id : Waiting, intent : Intent, rev : Nat, seq : Nat]

Final == {"RELEASED", "FENCED"}
-------------------------------------------------------------------------------
(***************************************************************************)
(* The SQL ledger.  Each operator is one transaction of the account's only *)
(* writer: the guard it needs, or the row it leaves.                       *)
(***************************************************************************)
markable(r) == r.state = "PREPARED" /\ ~r.begin

rejectable(r) == ~r.begin /\ r.state \in {"PREPARED", "RESERVED", "REJECTED"}

\* reject_unsent: the first rejection writes the terminal receipt.
rejectUnsent_mutant(r) ==
    IF r.state = "REJECTED" THEN r
    ELSE [r EXCEPT !.state = "REJECTED", !.terminal = "REJECTED_UNSENT",
                   !.receipt = IF @ = "none" THEN @ ELSE "REJECTED_UNSENT"]
rejectUnsent(r) ==
    IF r.state = "REJECTED" THEN r
    ELSE [r EXCEPT !.state = "REJECTED", !.terminal = "REJECTED_UNSENT",
                   !.receipt = IF @ = "none" THEN @ ELSE "UNSENT_PENDING"]

\* reject_denied_reserve: also settles the marker as "nothing was reserved".
deniable(r) == /\ rejectable(r)
               /\ rejectUnsent(r).terminal = "REJECTED_UNSENT"
               /\ r.marker \in {"ATTEMPT", "DENIED"}

rejectDenied(r) == [rejectUnsent(r) EXCEPT !.marker = "DENIED"]

declinedReserve(r) == /\ r.state = "REJECTED" /\ ~r.begin
                      /\ r.marker = "DENIED" /\ r.terminal = "REJECTED_UNSENT"

unsentBeforeReserve(r) == /\ r.state = "REJECTED" /\ ~r.begin
                          /\ r.terminal = "REJECTED_UNSENT"
                          /\ r.receipt = "none" /\ r.marker = "none"

\* The durable proof that an intent was never sent.
unsentReleaseReceipt(r) ==
    /\ r.state = "REJECTED" /\ ~r.begin /\ r.terminal = "REJECTED_UNSENT"
    /\ \/ r.receipt \in {"UNSENT_PENDING", "RELEASED"}
       \/ r.receipt = "none" /\ r.marker = "ATTEMPT"

reconcilable_mutant(i) ==
    LET r == sql[i]
    IN  \/ r.receipt \notin {"none", "RELEASED"}
        \/ r.state = "PREPARED" /\ r.receipt = "none" /\ r.marker = "none" /\ i \in expired
reconcilable(i) ==
    LET r == sql[i]
    IN  \/ r.receipt \notin {"none", "RELEASED"}
        \/ r.marker = "ATTEMPT" /\ r.receipt = "none" /\ ~r.acked
           /\ r.state \in {"PREPARED", "REJECTED"}
        \/ r.state = "PREPARED" /\ r.receipt = "none" /\ r.marker = "none" /\ i \in expired

unknownExposure == {i \in Intent : sql[i].state \in {"POSTING", "UNKNOWN"}}

\* begin_post: the durable send boundary.  FALSE or an error forbids the POST.
postClaimable_mutant(i) == /\ sql[i].state = "RESERVED" /\ i \notin expired
                           /\ sql[i].rev = policy.sql
postClaimableAnyState_mutant(i) == /\ i \notin expired
                                   /\ sql[i].rev = policy.sql
                                   /\ unknownExposure = {}
postClaimable(i) == /\ sql[i].state = "RESERVED" /\ i \notin expired
                    /\ sql[i].rev = policy.sql
                    /\ unknownExposure = {}

outcomeAllowed_mutant(r, to) ==
    r.state \in {"POSTING", "UNKNOWN", "ACKNOWLEDGED"} \cup Terminal
outcomeAllowed(r, to) ==
    CASE r.state \in {"POSTING", "UNKNOWN"} ->
            to \in {"UNKNOWN", "ACKNOWLEDGED", "FILLED", "CANCELLED", "REJECTED"}
      [] r.state = "ACKNOWLEDGED" -> to \in {"ACKNOWLEDGED", "FILLED", "CANCELLED"}
      [] OTHER -> r.state = to

recordOutcome(r, to) ==
    [r EXCEPT !.state = to,
              !.receipt = CASE to = "UNKNOWN" -> "UNKNOWN"
                            [] to \in {"CANCELLED", "REJECTED"} -> "TERMINAL_PENDING"
                            [] OTHER -> "OPEN",
              !.terminal = IF to \in Terminal /\ @ = "none" THEN "TERMINAL" ELSE @]

acknowledged(r) == [r EXCEPT !.acked = TRUE,
                             !.receipt = IF @ = "none" THEN @ ELSE "RELEASED"]

SetRow(i, r) == sql' = [sql EXCEPT ![i] = r]
-------------------------------------------------------------------------------
(***************************************************************************)
(* The risk transport.  A command whose id is already awaited, or that     *)
(* finds the channel full, fails at once; a caller that gives up waiting   *)
(* leaves its command in the channel.                                      *)
(***************************************************************************)
Become(p, a) == proc' = [proc EXCEPT ![p] = a]

Finish(p) == Become(p, Idle(proc[p].intent))

Awaited(p, id, i) == \E q \in Process \ {p} :
    proc[q].pc = id /\ proc[q].intent = i /\ proc[q].reply.status = "wait"

\* p continues as a, having asked the Worker under the command id.
Request(p, a, id) ==
    IF Len(queue) >= MaxQueue \/ Awaited(p, id, a.intent)
    THEN /\ Become(p, [a EXCEPT !.pc = id, !.reply = [status |-> "error", seq |-> 0]])
         /\ UNCHANGED queue
    ELSE /\ Become(p, [a EXCEPT !.pc = id, !.reply = [status |-> "wait", seq |-> 0]])
         /\ queue' = Append(queue, [id |-> id, intent |-> a.intent, rev |-> a.rev, seq |-> a.seq])

Replied(p, id) == proc[p].pc = id /\ proc[p].reply.status # "wait"
-------------------------------------------------------------------------------
(***************************************************************************)
(* The executor: execute_inner, reserve_inspect_retry,                     *)
(* fence_inspect_retry and post_once.  A step that fails leaves the intent *)
(* to the reconciler.                                                      *)
(***************************************************************************)
\* by_idempotency finds the intent and answers its status; otherwise authority
\* applies the process's policy to the account and planning begins.
execute(e, i) ==
    /\ proc[e].pc = "idle"
    /\ \/ /\ sql[i].state # "NONE"
          /\ Become(e, [Idle(i) EXCEPT !.pc = "status"])
          /\ UNCHANGED policy
       \/ /\ sql[i].state = "NONE" /\ i \notin expired
          /\ policy.agent > 0 /\ policy.agent >= policy.sql
          /\ Become(e, [Idle(i) EXCEPT !.pc = "planned", !.rev = policy.agent])
          /\ policy' = [policy EXCEPT !.sql = policy.agent]
    /\ UNCHANGED <<sql, expired, queue, worker, venue, history, bounds>>

\* prepare: inserts the intent, or returns the one a concurrent request with
\* the same key inserted meanwhile.
prepare(e) ==
    LET i == proc[e].intent
    IN  /\ proc[e].pc = "planned"
        /\ \/ /\ i \notin expired
              /\ SetRow(i, IF sql[i].state # "NONE" THEN sql[i]
                           ELSE [NoRow EXCEPT !.state = "PREPARED", !.rev = proc[e].rev])
              /\ Become(e, [proc[e] EXCEPT !.pc = "prepared"])
           \/ Finish(e) /\ UNCHANGED sql           \* no plan, or COMMAND_EXPIRED
        /\ UNCHANGED <<policy, expired, queue, worker, venue, history, bounds>>

markReserveAttempt(e) ==
    LET i == proc[e].intent
    IN  /\ proc[e].pc = "prepared"
        /\ \/ /\ markable(sql[i]) /\ i \notin expired
              /\ SetRow(i, [sql[i] EXCEPT !.marker = IF @ = "none" THEN "ATTEMPT" ELSE @])
              /\ Become(e, [proc[e] EXCEPT !.pc = "marked"])
           \/ Finish(e) /\ UNCHANGED sql           \* no census, or not markable
        /\ UNCHANGED <<policy, expired, queue, worker, venue, history, bounds>>

requestReserve(e) ==
    /\ proc[e].pc = "marked"
    /\ Request(e, proc[e], "reserve")
    /\ UNCHANGED <<sql, policy, expired, worker, venue, history, bounds>>

\* Anything but HELD is inspected before it is believed.
reserveReplied(e) ==
    /\ Replied(e, "reserve")
    /\ IF proc[e].reply.status = "HELD"
       THEN /\ Become(e, [proc[e] EXCEPT !.pc = "held", !.seq = proc[e].reply.seq, !.reply = NoReply])
            /\ UNCHANGED queue
       ELSE Request(e, [proc[e] EXCEPT !.denied = proc[e].reply.status = "DENIED"],
                    "reserve_inspect")
    /\ UNCHANGED <<sql, policy, expired, worker, venue, history, bounds>>

reserveInspected_mutant(e) ==
    LET a == [proc[e] EXCEPT !.reply = NoReply]
        status == proc[e].reply.status
    IN  /\ Replied(e, "reserve_inspect")
        /\ Become(e, IF status = "HELD" /\ ~a.denied
                     THEN [a EXCEPT !.pc = "held", !.via = "inspect", !.seq = proc[e].reply.seq]
                     ELSE IF status # "HELD" THEN [a EXCEPT !.pc = "declining"]
                     ELSE [a EXCEPT !.pc = "rejecting"])
        /\ UNCHANGED <<sql, policy, expired, queue, worker, venue, history, bounds>>
reserveInspected(e) ==
    LET a == [proc[e] EXCEPT !.reply = NoReply]
        status == proc[e].reply.status
    IN  /\ Replied(e, "reserve_inspect")
        /\ Become(e, IF status = "HELD" /\ ~a.denied
                     THEN [a EXCEPT !.pc = "held", !.via = "inspect", !.seq = proc[e].reply.seq]
                     ELSE IF status = "NOT_FOUND" /\ a.denied THEN [a EXCEPT !.pc = "declining"]
                     ELSE [a EXCEPT !.pc = "rejecting"])
        /\ UNCHANGED <<sql, policy, expired, queue, worker, venue, history, bounds>>

rejectDeniedReserve(e) ==
    LET i == proc[e].intent
    IN  /\ proc[e].pc = "declining"
        /\ SetRow(i, IF deniable(sql[i]) THEN rejectDenied(sql[i]) ELSE sql[i])
        /\ Finish(e)
        /\ UNCHANGED <<policy, expired, queue, worker, venue, history, bounds>>

\* reject_prepost_denial, then release_unsent.
rejectPrepostDenial(e) ==
    LET i == proc[e].intent
    IN  /\ proc[e].pc = "rejecting"
        /\ IF rejectable(sql[i])
           THEN /\ SetRow(i, rejectUnsent(sql[i]))
                /\ Become(e, [proc[e] EXCEPT !.pc = "proving"])
           ELSE Finish(e) /\ UNCHANGED sql
        /\ UNCHANGED <<policy, expired, queue, worker, venue, history, bounds>>

\* The SQL receipt of the central HELD; a retry must bring the same receipt.
reserve(e) ==
    LET i == proc[e].intent
        hash == [via |-> proc[e].via, seq |-> proc[e].seq]
    IN  /\ proc[e].pc = "held"
        /\ IF i \notin expired /\ sql[i].state = "PREPARED"
           THEN /\ SetRow(i, [sql[i] EXCEPT !.state = "RESERVED", !.receipt = "HELD", !.hash = hash])
                /\ Become(e, [proc[e] EXCEPT !.pc = "fencing"])
           ELSE /\ IF i \notin expired /\ sql[i].state = "RESERVED" /\ sql[i].hash = hash
                   THEN Become(e, [proc[e] EXCEPT !.pc = "fencing"])
                   ELSE Finish(e)
                /\ UNCHANGED sql
        /\ UNCHANGED <<policy, expired, queue, worker, venue, history, bounds>>

\* One turn of the BEGIN_POST loop; its census may fail.
requestFence(e) ==
    /\ proc[e].pc = "fencing"
    /\ \/ /\ proc[e].tries < MaxTries /\ proc[e].intent \notin expired
          /\ Request(e, [proc[e] EXCEPT !.tries = @ + 1], "fence")
       \/ /\ Become(e, [proc[e] EXCEPT !.pc = "rejecting"])
          /\ UNCHANGED queue
    /\ UNCHANGED <<sql, policy, expired, worker, venue, history, bounds>>

fenceReplied(e) ==
    LET status == proc[e].reply.status
    IN  /\ Replied(e, "fence")
        /\ IF status \in {"STALE", "error"}
           THEN Request(e, proc[e], "fence_inspect")
           ELSE /\ Become(e, [proc[e] EXCEPT !.reply = NoReply, !.pc =
                        IF status = "POST_AUTHORIZED" THEN "authorized" ELSE "rejecting"])
                /\ UNCHANGED queue
        /\ UNCHANGED <<sql, policy, expired, worker, venue, history, bounds>>

fenceInspected(e) ==
    /\ Replied(e, "fence_inspect")
    /\ Become(e, IF proc[e].reply.status = "HELD"
                 THEN [proc[e] EXCEPT !.pc = "fencing", !.seq = proc[e].reply.seq, !.reply = NoReply]
                 ELSE [proc[e] EXCEPT !.pc = "rejecting", !.reply = NoReply])
    /\ UNCHANGED <<sql, policy, expired, queue, worker, venue, history, bounds>>

\* The checks that follow the authorization and begin_post.  They may also
\* refuse for reasons not modelled here (market, clock, rate, pause, stops).
beginPost(e) ==
    LET i == proc[e].intent
    IN  /\ proc[e].pc = "authorized"
        /\ \/ /\ policy.agent = proc[e].rev /\ postClaimable(i)
              /\ SetRow(i, [sql[i] EXCEPT !.state = "POSTING", !.begin = TRUE, !.receipt = "POSTED"])
              /\ Become(e, [proc[e] EXCEPT !.pc = "posting"])
           \/ Finish(e) /\ UNCHANGED sql
        /\ UNCHANGED <<policy, expired, queue, worker, venue, history, bounds>>

\* The last checks of post_once, and the order request itself.
postOnce(e) ==
    LET i == proc[e].intent
    IN  /\ proc[e].pc = "posting"
        /\ IF i \in expired \/ policy.agent # sql[i].rev
           THEN /\ SetRow(i, recordOutcome(sql[i], "REJECTED"))
                /\ Finish(e)
                /\ UNCHANGED <<venue, posts>>
           ELSE /\ venue' = [venue EXCEPT ![i].flight = TRUE]
                /\ posts' = [posts EXCEPT ![i] = @ + 1]
                /\ Become(e, [proc[e] EXCEPT !.pc = "sent"])
                /\ UNCHANGED sql
        /\ UNCHANGED <<policy, expired, queue, worker, revoked, bounds>>

Record(i, to) == SetRow(i, IF outcomeAllowed(sql[i], to) THEN recordOutcome(sql[i], to) ELSE sql[i])

orderAccepted(e) ==
    LET i == proc[e].intent
    IN  /\ proc[e].pc = "sent" /\ venue[i].order \in {"live", "filled", "canceled"}
        /\ Record(i, "ACKNOWLEDGED")
        /\ IF outcomeAllowed(sql[i], "ACKNOWLEDGED")
           THEN Become(e, [Idle(i) EXCEPT !.pc = "status"]) ELSE Finish(e)
        /\ UNCHANGED <<policy, expired, queue, worker, venue, history, bounds>>

orderRefused(e) ==
    /\ proc[e].pc = "sent" /\ venue[proc[e].intent].order = "rejected"
    /\ Record(proc[e].intent, "REJECTED")
    /\ Finish(e)
    /\ UNCHANGED <<policy, expired, queue, worker, venue, history, bounds>>

\* A response that never came: the outcome is UNKNOWN and nothing is resent.
responseLost_mutant(e) ==
    /\ proc[e].pc = "sent"
    /\ Become(e, [proc[e] EXCEPT !.pc = "posting"])
    /\ UNCHANGED <<sql, policy, expired, queue, worker, venue, history, bounds>>
responseLost(e) ==
    /\ proc[e].pc = "sent"
    /\ Record(proc[e].intent, "UNKNOWN")
    /\ Finish(e)
    /\ UNCHANGED <<policy, expired, queue, worker, venue, history, bounds>>

ExecutorStep(e) ==
    \/ prepare(e) \/ markReserveAttempt(e) \/ requestReserve(e) \/ reserveReplied(e)
    \/ reserveInspected(e) \/ rejectDeniedReserve(e) \/ rejectPrepostDenial(e)
    \/ reserve(e) \/ requestFence(e) \/ fenceReplied(e) \/ fenceInspected(e)
    \/ beginPost(e) \/ postOnce(e) \/ orderAccepted(e) \/ orderRefused(e) \/ responseLost(e)
-------------------------------------------------------------------------------
(***************************************************************************)
(* Reconciliation: status_intent, release_unsent and release_terminal, run *)
(* by maintenance turns, by trade.status and at the end of an execute.     *)
(***************************************************************************)
maintain(m, i) ==
    /\ proc[m].pc = "idle" /\ reconcilable(i)
    /\ Become(m, [Idle(i) EXCEPT !.pc = "status"])
    /\ UNCHANGED <<sql, policy, expired, queue, worker, venue, history, bounds>>

\* Reads of the row that only a settled row can satisfy are one step.
statusIntent(p) ==
    LET i == proc[p].intent
        r == sql[i]
    IN  /\ proc[p].pc = "status"
        /\ \/ /\ r.state \in {"PREPARED", "RESERVED"} /\ i \in expired
              /\ SetRow(i, rejectUnsent(r))
              /\ UNCHANGED proc
           \/ /\ r.state \in {"PREPARED", "RESERVED"} /\ i \notin expired
              /\ Finish(p) /\ UNCHANGED sql
           \/ /\ r.state \notin {"PREPARED", "RESERVED"}
              /\ IF declinedReserve(r) \/ unsentBeforeReserve(r) THEN Finish(p)
                 ELSE Become(p, [proc[p] EXCEPT !.terminal = r.state \in Terminal, !.pc =
                        IF unsentReleaseReceipt(r) THEN "proving"
                        ELSE IF r.state = "REJECTED" THEN "releasing" ELSE "ordering"])
              /\ UNCHANGED sql
        /\ UNCHANGED <<policy, expired, queue, worker, venue, history, bounds>>

\* release_unsent starts with the durable proof that nothing was sent.
proveUnsent(p) ==
    /\ proc[p].pc = "proving"
    /\ IF unsentReleaseReceipt(sql[proc[p].intent]) /\ policy.agent > 0
       THEN Request(p, [proc[p] EXCEPT !.tries = 1], "unsent_inspect")
       ELSE Finish(p) /\ UNCHANGED queue
    /\ UNCHANGED <<sql, policy, expired, worker, venue, history, bounds>>

unsentInspected(p) ==
    LET reply == proc[p].reply
    IN  /\ Replied(p, "unsent_inspect")
        /\ \/ /\ reply.status \in {"NOT_FOUND", "HELD", "POSTED"}
              /\ Request(p, [proc[p] EXCEPT !.seq = reply.seq], "unsent_release")
           \/ /\ reply.status = "RELEASED"
              /\ Become(p, [proc[p] EXCEPT !.pc = "acknowledging", !.reply = NoReply])
              /\ UNCHANGED queue
           \/ /\ reply.status \notin {"NOT_FOUND", "HELD", "POSTED", "RELEASED"}
              /\ Finish(p) /\ UNCHANGED queue
        /\ UNCHANGED <<sql, policy, expired, worker, venue, history, bounds>>

unsentReleased(p) ==
    LET status == proc[p].reply.status
    IN  /\ Replied(p, "unsent_release")
        /\ \/ /\ status = "UPDATED"
              /\ Become(p, [proc[p] EXCEPT !.pc = "acknowledging", !.reply = NoReply])
              /\ UNCHANGED queue
           \/ /\ status = "STALE" /\ proc[p].tries < MaxTries
              /\ Request(p, [proc[p] EXCEPT !.tries = @ + 1], "unsent_inspect")
           \/ /\ status # "UPDATED" /\ (status = "STALE" => proc[p].tries >= MaxTries)
              /\ Finish(p) /\ UNCHANGED queue
        /\ UNCHANGED <<sql, policy, expired, worker, venue, history, bounds>>

\* order_by_client_id; an order that is not found leaves everything unknown.
readOrder(p) ==
    /\ proc[p].pc = "ordering"
    /\ \/ /\ venue[proc[p].intent].order \in {"live", "filled", "canceled"}
          /\ Become(p, [proc[p] EXCEPT !.pc = "recording", !.seen = venue[proc[p].intent].order])
       \/ Finish(p)
    /\ UNCHANGED <<sql, policy, expired, queue, worker, venue, history, bounds>>

OutcomeOf == [live |-> "ACKNOWLEDGED", filled |-> "FILLED", canceled |-> "CANCELLED"]

\* record_order_readback, unless the row was terminal when it was read; then
\* the row is read again.
recordOrderReadback(p) ==
    LET i == proc[p].intent
        to == OutcomeOf[proc[p].seen]
        after == IF proc[p].terminal THEN sql[i] ELSE recordOutcome(sql[i], to)
    IN  /\ proc[p].pc = "recording"
        /\ IF proc[p].terminal \/ outcomeAllowed(sql[i], to)
           THEN /\ SetRow(i, after)
                /\ IF after.state \in Terminal
                   THEN Become(p, [proc[p] EXCEPT !.pc = "releasing"]) ELSE Finish(p)
           ELSE Finish(p) /\ UNCHANGED sql
        /\ UNCHANGED <<policy, expired, queue, worker, venue, history, bounds>>

\* release_terminal: only with a receipt, without open lots, and with fills
\* covered up to the order (when they are not, it gives up).
flat(i) == ~venue[i].position

releaseTerminal_mutant(p) ==
    /\ proc[p].pc = "releasing"
    /\ \/ /\ sql[proc[p].intent].receipt # "none" /\ policy.agent > 0
          /\ Request(p, proc[p], "terminal_inspect")
       \/ Finish(p) /\ UNCHANGED queue
    /\ UNCHANGED <<sql, policy, expired, worker, venue, history, bounds>>
releaseTerminal(p) ==
    /\ proc[p].pc = "releasing"
    /\ \/ /\ sql[proc[p].intent].receipt # "none" /\ flat(proc[p].intent) /\ policy.agent > 0
          /\ Request(p, proc[p], "terminal_inspect")
       \/ Finish(p) /\ UNCHANGED queue
    /\ UNCHANGED <<sql, policy, expired, worker, venue, history, bounds>>

terminalInspected(p) ==
    LET reply == proc[p].reply
    IN  /\ Replied(p, "terminal_inspect")
        /\ \/ /\ reply.status = "RELEASED"
              /\ Become(p, [proc[p] EXCEPT !.pc = "acknowledging", !.reply = NoReply])
              /\ UNCHANGED queue
           \/ /\ reply.status \notin {"RELEASED", "error"}
              /\ Request(p, [proc[p] EXCEPT !.seq = reply.seq], "terminal_resolve")
           \/ /\ reply.status # "RELEASED"          \* no census, bills not covered
              /\ Finish(p) /\ UNCHANGED queue
        /\ UNCHANGED <<sql, policy, expired, worker, venue, history, bounds>>

terminalResolved(p) ==
    /\ Replied(p, "terminal_resolve")
    /\ IF proc[p].reply.status = "UPDATED"
       THEN Become(p, [proc[p] EXCEPT !.pc = "acknowledging", !.reply = NoReply])
       ELSE Finish(p)
    /\ UNCHANGED <<sql, policy, expired, queue, worker, venue, history, bounds>>

acknowledgeCentralRelease(p) ==
    /\ proc[p].pc = "acknowledging"
    /\ SetRow(proc[p].intent, acknowledged(sql[proc[p].intent]))
    /\ Finish(p)
    /\ UNCHANGED <<policy, expired, queue, worker, venue, history, bounds>>

StatusStep(p) ==
    \/ statusIntent(p) \/ proveUnsent(p) \/ unsentInspected(p) \/ unsentReleased(p)
    \/ readOrder(p) \/ recordOrderReadback(p) \/ releaseTerminal(p)
    \/ terminalInspected(p) \/ terminalResolved(p) \/ acknowledgeCentralRelease(p)
-------------------------------------------------------------------------------
(***************************************************************************)
(* The Worker answers the command at the head of the channel.  RiskBook    *)
(* shows that it implements Reservation; here a RESERVE, a BEGIN_POST or a *)
(* RESOLVE that could succeed may also be denied, for reasons of budget,   *)
(* census or source proof.                                                 *)
(***************************************************************************)
Answer(status, to, bump, seq) == [status |-> status, to |-> to, bump |-> bump, seq |-> seq]

Denied(i) == Answer("DENIED", central[i], 0, 0)

inspection(i) ==
    Answer(CASE central[i] \in Final -> "RELEASED"
             [] central[i] = "NONE" -> "NOT_FOUND"
             [] OTHER -> central[i], central[i], 0, sequence)

\* The sequence compare-and-set of BEGIN_POST, RELEASE_UNSENT and RESOLVE.
current(c) == c.seq = sequence

reserveAnswers_mutant(c) ==
    LET i == c.intent
    IN  {Denied(i)} \cup
        (IF c.rev # policy.central \/ central[i] = "POSTED" THEN {}
         ELSE {Answer("HELD", "HELD", 1, sequence + 1)})
reserveAnswers(c) ==
    LET i == c.intent
    IN  {Denied(i)} \cup
        (IF c.rev # policy.central THEN {}
         ELSE IF central[i] = "NONE" THEN {Answer("HELD", "HELD", 1, sequence + 1)}
         ELSE IF central[i] = "HELD" THEN {Answer("HELD", "HELD", 0, sequence)}
         ELSE {})

fenceAnswers_mutant(c) ==
    LET i == c.intent
    IN  IF ~current(c) THEN {Denied(i), Answer("STALE", central[i], 0, 0)}
        ELSE {Denied(i)} \cup
             (IF central[i] = "HELD" THEN {Answer("POST_AUTHORIZED", "POSTED", 1, sequence + 1)} ELSE {})
fenceAnswers(c) ==
    LET i == c.intent
    IN  IF c.rev # policy.central THEN {Denied(i)}
        ELSE IF ~current(c) THEN {Denied(i), Answer("STALE", central[i], 0, 0)}
        ELSE {Denied(i)} \cup
             (IF central[i] = "HELD" THEN {Answer("POST_AUTHORIZED", "POSTED", 1, sequence + 1)} ELSE {})

releaseAnswers_mutant(c) ==
    LET i == c.intent
    IN  IF ~current(c) THEN {Answer("STALE", central[i], 0, 0)}
        ELSE IF central[i] = "NONE" THEN {Answer("UPDATED", "NONE", 1, sequence + 1)}
        ELSE IF central[i] \in {"HELD", "POSTED"} THEN {Answer("UPDATED", "RELEASED", 1, sequence + 1)}
        ELSE {Denied(i)}
releaseAnswers(c) ==
    LET i == c.intent
    IN  IF ~current(c) THEN {Answer("STALE", central[i], 0, 0)}
        ELSE IF central[i] = "NONE" THEN {Answer("UPDATED", "FENCED", 1, sequence + 1)}
        ELSE IF central[i] = "FENCED" THEN {Answer("UPDATED", "FENCED", 0, sequence)}
        ELSE IF central[i] \in {"HELD", "POSTED"} THEN {Answer("UPDATED", "RELEASED", 1, sequence + 1)}
        ELSE {Denied(i)}

resolveAnswers(c) ==
    LET i == c.intent
    IN  {Denied(i)} \cup
        (IF current(c) /\ (central[i] = "HELD" \/ (central[i] = "POSTED" /\ i \in granted))
         THEN {Answer("UPDATED", "RELEASED", 1, sequence + 1)} ELSE {})

answers(c) ==
    CASE c.id = "reserve" -> reserveAnswers(c)
      [] c.id = "fence" -> fenceAnswers(c)
      [] c.id = "unsent_release" -> releaseAnswers(c)
      [] c.id = "terminal_resolve" -> resolveAnswers(c)
      [] OTHER -> {inspection(c.intent)}

\* The answer goes to whoever waits under the command's id now, which after a
\* timeout may be a later request.
ReplyTo(c, reply) ==
    proc' = [p \in Process |->
        IF proc[p].pc = c.id /\ proc[p].intent = c.intent /\ proc[p].reply.status = "wait"
        THEN [proc[p] EXCEPT !.reply = reply] ELSE proc[p]]

Error == [status |-> "error", seq |-> 0]

Fault == faults < MaxFaults /\ faults' = faults + 1

\* The Worker handles the command; its answer may be lost with the session.
answer(c, a) ==
    /\ central' = [central EXCEPT ![c.intent] = a.to]
    /\ granted' = IF a.status = "POST_AUTHORIZED" THEN granted \cup {c.intent} ELSE granted
    /\ sequence' = sequence + a.bump
    /\ queue' = Tail(queue)
    /\ UNCHANGED <<sql, policy, expired, venue, history, noise>>

Deliver ==
    /\ queue # << >>
    /\ \E a \in answers(Head(queue)) :
        /\ answer(Head(queue), a)
        /\ ReplyTo(Head(queue), [status |-> a.status, seq |-> a.seq])
    /\ UNCHANGED faults

DeliverReplyLost ==
    /\ queue # << >>
    /\ \E a \in answers(Head(queue)) : answer(Head(queue), a)
    /\ ReplyTo(Head(queue), Error)
    /\ Fault

DropCommand ==
    /\ queue # << >>
    /\ queue' = Tail(queue)
    /\ ReplyTo(Head(queue), Error)
    /\ Fault
    /\ UNCHANGED <<sql, policy, expired, worker, venue, history, noise>>

\* The caller gives up after five seconds; its command stays on its way.
requestTimeout(p) ==
    /\ proc[p].reply.status = "wait"
    /\ Become(p, [proc[p] EXCEPT !.reply = Error])
    /\ Fault
    /\ UNCHANGED <<sql, policy, expired, queue, worker, venue, history, noise>>

\* A lost session drops the execute it was serving at whatever it awaits.
sessionLost(e) ==
    /\ proc[e].pc # "idle"
    /\ Finish(e)
    /\ Fault
    /\ UNCHANGED <<sql, policy, expired, queue, worker, venue, history, noise>>

\* The process restarts: recover_posting runs before anything else, and the
\* policy is unknown until the next snapshot.
restart ==
    /\ proc' = [p \in Process |-> Idle(proc[p].intent)]
    /\ sql' = [i \in Intent |->
          IF sql[i].state \in {"POSTING", "UNKNOWN"}
          THEN [sql[i] EXCEPT !.state = "UNKNOWN",
                              !.receipt = IF @ = "none" THEN @ ELSE "UNKNOWN"] ELSE sql[i]]
    /\ policy' = [policy EXCEPT !.agent = 0]
    /\ Fault
    /\ UNCHANGED <<expired, queue, worker, venue, history, noise>>
-------------------------------------------------------------------------------
(***************************************************************************)
(* Policy, time, other traders of the book, and the exchange.              *)
(***************************************************************************)
revisePolicy ==
    /\ policy.central < MaxRevision
    /\ policy' = [policy EXCEPT !.central = @ + 1]
    /\ revoked' = revoked \cup {i \in Intent : central[i] = "HELD"}
    /\ UNCHANGED <<sql, expired, proc, queue, worker, venue, posts, bounds>>

\* update_governance: a snapshot, perhaps an old one, is applied to SQL and
\* then published; when another account's SQL fails it is not published.
updateGovernance(rev) ==
    /\ rev >= policy.agent /\ rev >= policy.sql
    /\ policy' = [policy EXCEPT !.sql = rev, !.agent = rev]
    /\ UNCHANGED <<sql, expired, proc, queue, worker, venue, history, bounds>>

updateGovernanceFailed(rev) ==
    /\ rev >= policy.agent /\ rev > policy.sql
    /\ policy' = [policy EXCEPT !.sql = rev]
    /\ Fault
    /\ UNCHANGED <<sql, expired, proc, queue, worker, venue, history, noise>>

expire(i) ==
    /\ i \notin expired
    /\ expired' = expired \cup {i}
    /\ UNCHANGED <<sql, policy, proc, queue, worker, venue, history, bounds>>

otherBookChange ==
    /\ noise < MaxNoise /\ noise' = noise + 1
    /\ sequence' = sequence + 1
    /\ UNCHANGED <<sql, policy, expired, proc, queue, central, granted, venue, history, faults>>

SetVenue(i, v) ==
    /\ venue' = [venue EXCEPT ![i] = v]
    /\ UNCHANGED <<sql, policy, expired, proc, queue, worker, history, bounds>>

venueAccept(i) == venue[i].flight /\ venue[i].order = "none"
                  /\ SetVenue(i, [venue[i] EXCEPT !.flight = FALSE, !.order = "live"])

venueReject(i) == venue[i].flight /\ venue[i].order = "none"
                  /\ SetVenue(i, [venue[i] EXCEPT !.flight = FALSE, !.order = "rejected"])

\* Never arrived, or a duplicate client order id.
venueDrop(i) == venue[i].flight /\ SetVenue(i, [venue[i] EXCEPT !.flight = FALSE])

venueFill(i, order) == venue[i].order = "live"
                       /\ SetVenue(i, [venue[i] EXCEPT !.order = order, !.position = TRUE])

venueCancel(i) == venue[i].order = "live" /\ SetVenue(i, [venue[i] EXCEPT !.order = "canceled"])

venueFlatten(i) == venue[i].position /\ SetVenue(i, [venue[i] EXCEPT !.position = FALSE])

VenueStep(i) ==
    \/ venueAccept(i) \/ venueReject(i) \/ venueDrop(i) \/ venueCancel(i) \/ venueFlatten(i)
    \/ \E order \in {"live", "filled"} : venueFill(i, order)

Init ==
    /\ sql = [i \in Intent |-> NoRow]
    /\ policy = [central |-> 1, sql |-> 0, agent |-> 0]
    /\ expired = {}
    /\ proc \in [Process -> {Idle(i) : i \in Intent}]
    /\ queue = << >>
    /\ central = [i \in Intent |-> "NONE"] /\ granted = {} /\ sequence = 0
    /\ venue = [i \in Intent |-> [flight |-> FALSE, order |-> "none", position |-> FALSE]]
    /\ posts = [i \in Intent |-> 0] /\ revoked = {}
    /\ noise = 0 /\ faults = 0

Environment ==
    \/ revisePolicy \/ otherBookChange
    \/ \E rev \in 1..policy.central : updateGovernance(rev) \/ updateGovernanceFailed(rev)
    \/ \E i \in Intent : expire(i) \/ VenueStep(i)

Next ==
    \/ \E e \in Executor : \/ \E i \in Intent : execute(e, i)
                           \/ ExecutorStep(e) \/ sessionLost(e)
    \/ \E m \in Reconciler, i \in Intent : maintain(m, i)
    \/ \E p \in Process : StatusStep(p) \/ requestTimeout(p)
    \/ Deliver \/ DeliverReplyLost \/ DropCommand \/ restart
    \/ Environment

Spec == Init /\ [][Next]_vars

(***************************************************************************)
(* Time passes, tasks that can run do run, the maintenance loop turns, the *)
(* session reconnects and delivers commands and the current policy.        *)
(***************************************************************************)
Fairness ==
    /\ \A i \in Intent : WF_vars(expire(i))
    /\ \A e \in Executor : WF_vars(ExecutorStep(e))
    /\ \A p \in Process : WF_vars(StatusStep(p))
    /\ \A m \in Reconciler, i \in Intent : SF_vars(maintain(m, i))
    /\ WF_vars(Deliver)
    /\ WF_vars(updateGovernance(policy.central))

FairSpec == Spec /\ Fairness
-------------------------------------------------------------------------------
(***************************************************************************)
(* Every row, activity, command and reservation the operations above leave *)
(* is one the code's enums and columns can hold.                           *)
(***************************************************************************)
TypeOK ==
    /\ sql \in [Intent -> Row]
    /\ policy \in [central : Nat, sql : Nat, agent : Nat]
    /\ expired \subseteq Intent
    /\ proc \in [Process -> Activity]
    /\ queue \in Seq(Command)
    /\ central \in [Intent -> {"NONE", "HELD", "POSTED"} \cup Final]
    /\ granted \subseteq Intent
    /\ sequence \in Nat
    /\ venue \in [Intent -> [flight : BOOLEAN, order : Order, position : BOOLEAN]]
    /\ posts \in [Intent -> Nat]
    /\ revoked \subseteq Intent
    /\ noise \in Nat /\ faults \in Nat

(***************************************************************************)
(* post_once sends at most once: no crash, lost answer, lost session or    *)
(* concurrent execute with the same key makes a second order request.      *)
(***************************************************************************)
AtMostOnePost == \A i \in Intent : posts[i] <= 1

\* Money at risk, or a claim that is about to put it there.
Exposed(i) ==
    \/ venue[i].flight \/ venue[i].order = "live" \/ venue[i].position
    \/ \E e \in Executor : proc[e].pc = "posting" /\ proc[e].intent = i

(***************************************************************************)
(* Whatever is or may be at risk on the exchange is charged centrally: the *)
(* reservation of an order under way, live or with an open position is     *)
(* neither released nor fenced, by release_unsent or by release_terminal.  *)
(***************************************************************************)
ExposureIsReserved == \A i \in Intent : Exposed(i) => central[i] = "POSTED"

(***************************************************************************)
(* An account never carries two orders of unknown outcome: begin_post      *)
(* refuses to claim a second POST while one is POSTING or UNKNOWN.         *)
(***************************************************************************)
OneUnknown == Cardinality(unknownExposure) <= 1

(***************************************************************************)
(* A policy revision revokes what it finds HELD: such an intent is never   *)
(* sent, even by an executor that learned of the revision too late.        *)
(***************************************************************************)
RevokedNeverSent == \A i \in revoked : posts[i] = 0

(***************************************************************************)
(* acknowledge_central_release tells the truth: a row that says its        *)
(* central risk was released belongs to a reservation that is final.       *)
(***************************************************************************)
AckedMeansFinal == \A i \in Intent : sql[i].acked => central[i] \in Final

Worker == INSTANCE Reservation WITH state <- central

(***************************************************************************)
(* The Worker of this module takes only steps of the protocol RiskBook is  *)
(* shown to implement: a late or repeated RESERVE, fence or release never  *)
(* revives a tombstone or authorizes a second POST.                        *)
(***************************************************************************)
WorkerIsReservation == Worker!ResSpec

(***************************************************************************)
(* A denied RESERVE settles the marker only when nothing is reserved:      *)
(* status_intent then reports that no central release is required.         *)
(***************************************************************************)
DeclinedMeansNoReservation ==
    \A i \in Intent : declinedReserve(sql[i]) => central[i] \notin {"HELD", "POSTED"}

(***************************************************************************)
(* A terminal row is final, and its first terminal receipt too: no late    *)
(* readback, acknowledgement or restart reopens an intent.                 *)
(***************************************************************************)
TerminalIsFinal ==
    [][\A i \in Intent : sql[i].state \in Terminal =>
        /\ sql'[i].state = sql[i].state
        /\ sql'[i].terminal = sql[i].terminal]_vars

UnsentReserved(i) == central[i] \in {"HELD", "POSTED"} /\ ~sql[i].begin

(***************************************************************************)
(* Reserved capacity that is not sent is given back: the deadline, the     *)
(* durable marker and the maintenance loop release it although answers,    *)
(* sessions and processes are lost on the way.                             *)
(***************************************************************************)
UnsentRiskIsReturned == \A i \in Intent : UnsentReserved(i) ~> ~UnsentReserved(i)
===============================================================================
