--------------------------- MODULE ProtectionExit ---------------------------
(***************************************************************************)
(* What happens to one entry order after it was acknowledged: status turns *)
(* read it back, verify the stop attached to it, record the incident when  *)
(* it is missing, and leave the position (cancel the rest of the entry,    *)
(* then close what was filled); when the position is gone, they remove the *)
(* stop.  Beside them the operator may cancel or replace the same order.   *)
(*                                                                         *)
(* The turns hold a permit of a semaphore of 128, not a lock: two of them  *)
(* interleave at every await.  The only thing that keeps a POST from being *)
(* repeated is the row begin_operation leaves before it.                   *)
(***************************************************************************)
EXTENDS Integers, FiniteSets

CONSTANTS
    Q,              \* contracts of the entry
    Turns,          \* status turns: the maintenance loop's, a caller's
    Users,          \* operator requests on the entry: "cancel", "replace"
    AlgoOutcomes,   \* what the venue does with the attached stop
    CloseOutcomes,  \* what an immediate-or-cancel close may fill
    Faults,         \* what may fail
    MaxFaults       \* how often

Procs == Turns \cup Users

Keys == {"safety_cancel", "cleanup", "cancel", "replace"}

ASSUME ExitAssumption ==
    /\ Q \in Nat \ {0}
    /\ Users \subseteq {"cancel", "replace"}
    /\ Turns \cap Users = {}
    /\ AlgoOutcomes \subseteq {"attached", "failed"}
    /\ CloseOutcomes \subseteq {"filled", "partial", "rejected"}
    /\ Faults \subseteq {"read", "clock", "request", "reply", "capture",
                         "authority", "recheck", "crash"}
    /\ MaxFaults \in Nat

VARIABLES
    entry,      \* the order at the venue: state, filled, cancel accepted
    pos,        \* contracts held
    algo,       \* the attached stop and the size it covers
    istate,     \* state of the intent row
    saved,      \* a protection receipt is stored
    stopped,    \* the account's risk stop of this intent is stored
    ops,        \* operation_receipts
    lots,       \* open lots of the last financial capture
    closed,     \* the safety close's idempotency key is used
    pc,         \* where each turn is
    rd,         \* what it has read, forgotten after its last use
    posts,      \* POSTs sent under each key
    bare,       \* a cleanup took the stop of an open position
    late,       \* the entry filled between a flat snapshot and the cleanup's POST
    replaced,   \* the replacement was opened, and on what readback
    faults

venue == <<entry, pos, algo>>
local == <<istate, saved, stopped, ops, lots, closed>>
vars == <<venue, local, pc, rd, posts, bare, late, replaced, faults>>

Ended == {"filled", "canceled"}

\* The state status_intent gives an order's answer.
OrderState ==
    CASE entry.st = "canceled" -> "cancelled"
      [] entry.st = "filled" -> "filled"
      [] entry.filled > 0 -> "partial"
      [] OTHER -> "acked"

Terminal(s) == s \in {"filled", "cancelled"}

\* The transitions record_outcome allows.
Allowed(from, to) ==
    \/ from = "acked"
    \/ from = "partial" /\ to # "acked"
    \/ from = to

NoReading == [mine |-> "acked", st |-> "acked", filled |-> 0, ok |-> TRUE]

Init ==
    /\ entry = [st |-> "live", filled |-> 0, canceling |-> FALSE]
    /\ pos = 0
    /\ algo = [st |-> "none", size |-> 0]
    /\ istate = "acked"
    /\ saved = FALSE
    /\ stopped = FALSE
    /\ ops = [k \in Keys |-> "none"]
    /\ lots = 0
    /\ closed = FALSE
    /\ pc = [p \in Procs |-> "idle"]
    /\ rd = [p \in Procs |-> NoReading]
    /\ posts = [k \in Keys |-> 0]
    /\ bare = FALSE
    /\ late = FALSE
    /\ replaced = "no"
    /\ faults = 0

Goto(p, where) == pc' = [pc EXCEPT ![p] = where]

\* An error ends the request; an answer, an uncertain one too, lets a
\* replacement go on.
Fail(p) == Goto(p, "idle")
Done(p) == Goto(p, IF p = "replace" THEN "after" ELSE "idle")

-----------------------------------------------------------------------------
(***************************************************************************)
(* The venue.                                                              *)
(***************************************************************************)

\* A snapshot found the account flat and its cleanup is not sent yet.
Cleaning == \E p \in Procs : pc[p] \in {"beginCleanup", "postCleanup"}

Fill ==
    /\ entry.st = "live"
    /\ \E n \in 1 .. Q - entry.filled :
        /\ entry' = [entry EXCEPT
                        !.filled = @ + n,
                        !.st = IF entry.filled + n = Q THEN "filled" ELSE @]
        /\ pos' = pos + n
    /\ late' = (late \/ Cleaning)
    /\ UNCHANGED <<algo, local, pc, rd, posts, bare, replaced, faults>>

CancelTakesEffect ==
    /\ entry.st = "live" /\ entry.canceling
    /\ entry' = [entry EXCEPT !.st = "canceled"]
    /\ UNCHANGED <<pos, algo, local, pc, rd, posts, bare, late, replaced, faults>>

\* The stop follows the fills, or the venue refuses it.
Attach ==
    /\ algo.st \in {"none", "live"}
    /\ algo.size < entry.filled
    /\ \/ /\ "attached" \in AlgoOutcomes
          /\ algo' = [st |-> "live", size |-> entry.filled]
       \/ /\ "failed" \in AlgoOutcomes
          /\ algo' = [algo EXCEPT !.st = "failed"]
    /\ UNCHANGED <<entry, pos, local, pc, rd, posts, bare, late, replaced, faults>>

AlgoCancelTakesEffect ==
    /\ algo.st = "canceling"
    /\ algo' = [algo EXCEPT !.st = "gone"]
    /\ UNCHANGED <<entry, pos, local, pc, rd, posts, bare, late, replaced, faults>>

StopTriggers ==
    /\ algo.st \in {"live", "canceling"}
    /\ pos > 0
    /\ algo' = [algo EXCEPT !.st = "gone"]
    /\ pos' = 0
    /\ UNCHANGED <<entry, local, pc, rd, posts, bare, late, replaced, faults>>

\* The operator's own close of the position.
OwnerCloses ==
    /\ pos > 0
    /\ pos' = 0
    /\ UNCHANGED <<entry, algo, local, pc, rd, posts, bare, late, replaced, faults>>

-----------------------------------------------------------------------------
(***************************************************************************)
(* A status turn.                                                          *)
(***************************************************************************)

Start(p) ==
    /\ pc[p] = "idle" /\ p \in Turns
    /\ rd' = [rd EXCEPT ![p] = [NoReading EXCEPT !.mine = istate]]
    /\ Goto(p, "order")
    /\ UNCHANGED <<venue, local, posts, bare, late, replaced, faults>>

ReadOrder(p) ==
    /\ pc[p] = "order"
    /\ rd' = [rd EXCEPT ![p].st = OrderState, ![p].filled = entry.filled]
    /\ Goto(p, "record")
    /\ UNCHANGED <<venue, local, posts, bare, late, replaced, faults>>

\* record_order_readback, unless the row was terminal when the turn began.
Record(p) ==
    /\ pc[p] = "record"
    /\ IF Terminal(rd[p].mine)
       THEN Goto(p, "positions") /\ UNCHANGED istate
       ELSE IF Allowed(istate, rd[p].st)
       THEN Goto(p, "positions") /\ istate' = rd[p].st
       ELSE Fail(p) /\ UNCHANGED istate
    /\ rd' = [rd EXCEPT ![p] = [NoReading EXCEPT !.filled = rd[p].filled]]
    /\ UNCHANGED <<venue, saved, stopped, ops, lots, closed, posts, bare, late,
                   replaced, faults>>

ReadPositions(p) ==
    /\ pc[p] = "positions"
    /\ Goto(p, IF pos = 0 THEN "inventory"
               ELSE IF rd[p].filled > 0 THEN "algo" ELSE "capture")
    /\ rd' = [rd EXCEPT ![p].filled = IF pos = 0 THEN 0 ELSE @]
    /\ UNCHANGED <<venue, local, posts, bare, late, replaced, faults>>

Pending == algo.st \in {"live", "canceling"}

ReadAlgo(p) ==
    /\ pc[p] = "algo"
    /\ rd' = [rd EXCEPT ![p] = [NoReading EXCEPT
                !.ok = Pending /\ algo.size = rd[p].filled]]
    /\ Goto(p, "judge")
    /\ UNCHANGED <<venue, local, posts, bare, late, replaced, faults>>

Judge_mutant(p) ==
    /\ pc[p] = "judge"
    /\ saved' = (saved \/ rd[p].ok)
    /\ Goto(p, "capture")
    /\ UNCHANGED <<venue, istate, stopped, ops, lots, closed, rd, posts, bare, late,
                   replaced, faults>>

\* verify_protection, or protection_incident with the account's stop.
Judge(p) ==
    /\ pc[p] = "judge"
    /\ IF rd[p].ok THEN saved' = TRUE /\ UNCHANGED stopped
                   ELSE stopped' = TRUE /\ UNCHANGED saved
    /\ Goto(p, "capture")
    /\ UNCHANGED <<venue, istate, ops, lots, closed, rd, posts, bare, late, replaced,
                   faults>>

Capture(p) ==
    /\ pc[p] = "capture"
    /\ lots' = pos
    /\ IF rd[p].ok THEN Done(p) ELSE Goto(p, "exitRead")
    /\ rd' = [rd EXCEPT ![p] = NoReading]
    /\ UNCHANGED <<venue, istate, saved, stopped, ops, closed, posts, bare, late,
                   replaced, faults>>

-----------------------------------------------------------------------------
(***************************************************************************)
(* begin_operation and operation_receipt.                                  *)
(***************************************************************************)

Begin_mutant(p, key, fresh, stale) ==
    /\ ops' = [ops EXCEPT ![key] = "posting"]
    /\ Goto(p, fresh)

\* Durable before the POST; a second caller of the key is told so.
Begin(p, key, fresh, stale) ==
    IF ops[key] = "none"
    THEN ops' = [ops EXCEPT ![key] = "posting"] /\ Goto(p, fresh)
    ELSE UNCHANGED ops /\ Goto(p, stale)

Receipt(p, key, next) ==
    /\ ops' = [ops EXCEPT ![key] = "done"]
    /\ Goto(p, next)

BeginRest ==
    UNCHANGED <<venue, istate, saved, stopped, lots, closed, posts, bare, late,
                replaced, faults>>

Posted(key) == posts' = [posts EXCEPT ![key] = @ + 1]

\* A cancel of the entry that reaches the venue.
Cancel(key) ==
    /\ Posted(key)
    /\ entry' = [entry EXCEPT !.canceling = @ \/ entry.st = "live"]
    /\ UNCHANGED <<pos, algo, bare>>

\* A cancel of the stop that reaches the venue.
CancelAlgo ==
    /\ Posted("cleanup")
    /\ algo' = IF algo.st = "live" THEN [algo EXCEPT !.st = "canceling"]
               ELSE algo
    /\ bare' = (bare \/ (algo.st = "live" /\ pos > 0))
    /\ UNCHANGED <<entry, pos>>

-----------------------------------------------------------------------------
(***************************************************************************)
(* cleanup_flat_protection.                                                *)
(***************************************************************************)

Inventory_mutant(p) ==
    /\ pc[p] = "inventory"
    /\ Goto(p, IF saved /\ algo.st = "canceling" THEN "flat" ELSE "capture")
    /\ UNCHANGED <<venue, local, rd, posts, bare, late, replaced, faults>>

Inventory(p) ==
    /\ pc[p] = "inventory"
    /\ Goto(p, IF saved /\ Pending THEN "flat" ELSE "capture")
    /\ UNCHANGED <<venue, local, rd, posts, bare, late, replaced, faults>>

FlatCheck_mutant(p) ==
    /\ pc[p] = "flat"
    /\ Goto(p, "beginCleanup")
    /\ UNCHANGED <<venue, local, rd, posts, bare, late, replaced, faults>>

FlatCheck(p) ==
    /\ pc[p] = "flat"
    /\ IF pos > 0 THEN Fail(p) ELSE Goto(p, "beginCleanup")
    /\ UNCHANGED <<venue, local, rd, posts, bare, late, replaced, faults>>

BeginCleanup(p) ==
    /\ pc[p] = "beginCleanup"
    /\ Begin(p, "cleanup", "postCleanup", "idle")
    /\ UNCHANGED rd
    /\ BeginRest

PostCleanup(p) ==
    /\ pc[p] = "postCleanup"
    /\ CancelAlgo
    /\ IF algo.st = "live" THEN Goto(p, "verifyCleanup") ELSE Fail(p)
    /\ UNCHANGED <<local, rd, late, replaced, faults>>

VerifyCleanup_mutant(p) ==
    /\ pc[p] = "verifyCleanup"
    /\ Goto(p, "receiptCleanup")
    /\ UNCHANGED <<venue, local, rd, posts, bare, late, replaced, faults>>

VerifyCleanup(p) ==
    /\ pc[p] = "verifyCleanup"
    /\ IF Pending THEN Fail(p) ELSE Goto(p, "receiptCleanup")
    /\ UNCHANGED <<venue, local, rd, posts, bare, late, replaced, faults>>

ReceiptCleanup(p) ==
    /\ pc[p] = "receiptCleanup"
    /\ Receipt(p, "cleanup", "capture")
    /\ UNCHANGED rd
    /\ BeginRest

-----------------------------------------------------------------------------
(***************************************************************************)
(* emergency_exit.                                                         *)
(***************************************************************************)

ExitRead_mutant(p) ==
    /\ pc[p] = "exitRead"
    /\ Goto(p, IF entry.st \in Ended \/ entry.filled > 0
               THEN "exitCapture" ELSE "beginExit")
    /\ UNCHANGED <<venue, local, rd, posts, bare, late, replaced, faults>>

ExitRead(p) ==
    /\ pc[p] = "exitRead"
    /\ Goto(p, IF entry.st \in Ended THEN "exitCapture" ELSE "beginExit")
    /\ UNCHANGED <<venue, local, rd, posts, bare, late, replaced, faults>>

BeginExit(p) ==
    /\ pc[p] = "beginExit"
    /\ Begin(p, "safety_cancel", "postExit",
             IF p = "replace" THEN "after" ELSE "idle")
    /\ UNCHANGED rd
    /\ BeginRest

PostExit(p) ==
    /\ pc[p] = "postExit"
    /\ Cancel("safety_cancel")
    /\ IF entry.st = "live" THEN Goto(p, "exitReadback") ELSE Done(p)
    /\ UNCHANGED <<local, rd, late, replaced, faults>>

\* A bug: an accepted cancel is taken for an ended entry.
ExitReadback_mutant(p) ==
    /\ pc[p] = "exitReadback" /\ Goto(p, "receiptExit")
    /\ UNCHANGED <<venue, local, rd, posts, bare, late, replaced, faults>>

ExitReadback(p) ==
    /\ pc[p] = "exitReadback"
    /\ IF entry.st \in Ended THEN Goto(p, "receiptExit") ELSE Done(p)
    /\ UNCHANGED <<venue, local, rd, posts, bare, late, replaced, faults>>

ReceiptExit(p) ==
    /\ pc[p] = "receiptExit"
    /\ Receipt(p, "safety_cancel", "exitCapture")
    /\ UNCHANGED rd
    /\ BeginRest

ExitCapture(p) ==
    /\ pc[p] = "exitCapture"
    /\ lots' = pos
    /\ Goto(p, "close")
    /\ UNCHANGED <<venue, istate, saved, stopped, ops, closed, rd, posts, bare, late,
                   replaced, faults>>

Lesser(a, b) == IF a < b THEN a ELSE b

CloseFill_mutant(outcome) ==
    IF outcome = "rejected" THEN 0 ELSE lots

CloseFill(outcome) ==
    CASE outcome = "filled" -> Lesser(lots, pos)
      [] outcome = "partial" -> Lesser(lots, pos) \div 2
      [] outcome = "rejected" -> 0

Close_mutant(p) ==
    /\ pc[p] = "close"
    /\ closed' = TRUE
    /\ UNCHANGED pos
    /\ Done(p)
    /\ UNCHANGED <<entry, algo, istate, saved, stopped, ops, lots, rd, posts,
                   bare, late, replaced, faults>>

\* One close per entry: a used key is answered with the status of the close.
Close(p) ==
    /\ pc[p] = "close"
    /\ \/ /\ closed
          /\ Done(p)
          /\ UNCHANGED <<pos, closed>>
       \/ /\ ~closed /\ lots = 0
          /\ Fail(p)
          /\ UNCHANGED <<pos, closed>>
       \/ /\ ~closed /\ lots > 0
          /\ \E o \in CloseOutcomes : pos' = pos - CloseFill(o)
          /\ closed' = TRUE
          /\ Done(p)
    /\ UNCHANGED <<entry, algo, istate, saved, stopped, ops, lots, rd, posts,
                   bare, late, replaced, faults>>

-----------------------------------------------------------------------------
(***************************************************************************)
(* cancel and replace, requested by the operator.                          *)
(***************************************************************************)

UserBegin(u) ==
    /\ pc[u] = "idle" /\ u \in Users
    /\ u = "replace" => replaced = "no"
    /\ rd' = [rd EXCEPT ![u] = [NoReading EXCEPT !.mine = istate]]
    /\ Begin(u, u, IF Terminal(istate) THEN "userReceipt" ELSE "userPost",
             "order")
    /\ BeginRest

UserPost(u) ==
    /\ pc[u] = "userPost"
    /\ Cancel(u)
    /\ IF entry.st = "live" THEN Goto(u, "userReceipt") ELSE Done(u)
    /\ UNCHANGED <<local, rd, late, replaced, faults>>

UserReceipt(u) ==
    /\ pc[u] = "userReceipt"
    /\ Receipt(u, u, "order")
    /\ rd' = [rd EXCEPT ![u].mine = istate]
    /\ BeginRest

After_mutant(u) ==
    /\ pc[u] = "after"
    /\ Goto(u, "recheck")
    /\ UNCHANGED <<venue, local, rd, posts, bare, late, replaced, faults>>

After(u) ==
    /\ pc[u] = "after"
    /\ IF istate = "cancelled" THEN Goto(u, "recheck") ELSE Fail(u)
    /\ UNCHANGED <<venue, local, rd, posts, bare, late, replaced, faults>>

Open(u, readback) ==
    /\ replaced' = readback
    /\ Goto(u, "idle")

Recheck(u) ==
    /\ pc[u] = "recheck"
    /\ IF entry.filled > 0 THEN Fail(u) /\ UNCHANGED replaced ELSE Open(u, "flat")
    /\ UNCHANGED <<venue, local, rd, posts, bare, late, faults>>

-----------------------------------------------------------------------------
(***************************************************************************)
(* What may fail.                                                          *)
(***************************************************************************)

Fault(kind) ==
    /\ kind \in Faults
    /\ faults < MaxFaults
    /\ faults' = faults + 1

\* An unreadable stop counts as a missing one; an unreadable order is an
\* uncertain answer; any other failed read is an error.
ReadFails(p) ==
    /\ Fault("read")
    /\ \/ pc[p] = "algo" /\ rd' = [rd EXCEPT ![p].ok = FALSE]
          /\ Goto(p, "judge")
       \/ pc[p] = "order" /\ Done(p) /\ UNCHANGED rd
       \/ /\ pc[p] \in {"positions", "inventory", "flat", "verifyCleanup",
                        "exitRead", "exitReadback"}
          /\ Fail(p) /\ UNCHANGED rd
    /\ UNCHANGED <<venue, local, posts, bare, late, replaced>>

CaptureFails(p) ==
    /\ Fault("capture")
    /\ \/ pc[p] = "capture" /\ Done(p)
       \/ pc[p] = "exitCapture" /\ Fail(p)
    /\ rd' = [rd EXCEPT ![p] = NoReading]
    /\ UNCHANGED <<venue, local, posts, bare, late, replaced>>

\* The clock or the rate budget refuses after begin_operation.
ClockFails(p) ==
    /\ Fault("clock")
    /\ pc[p] \in {"postCleanup", "postExit", "userPost"}
    /\ Fail(p)
    /\ UNCHANGED <<venue, local, rd, posts, bare, late, replaced>>

RequestLost(p) ==
    /\ Fault("request")
    /\ \/ pc[p] \in {"postCleanup", "postExit"} /\ Fail(p)
       \/ pc[p] = "userPost" /\ Done(p)
    /\ UNCHANGED <<venue, local, rd, posts, bare, late, replaced>>

ReplyLost(p) ==
    /\ Fault("reply")
    /\ \/ pc[p] = "postCleanup" /\ CancelAlgo /\ Fail(p)
       \/ pc[p] = "postExit" /\ Cancel("safety_cancel") /\ Fail(p)
       \/ pc[p] = "userPost" /\ Cancel(p) /\ Done(p)
    /\ UNCHANGED <<local, rd, late, replaced>>

AuthorityFails(p) ==
    /\ Fault("authority")
    /\ pc[p] = "close" /\ Fail(p)
    /\ UNCHANGED <<venue, local, rd, posts, bare, late, replaced>>

\* A failed readback of the replaced order is not looked at.
RecheckFails(p) ==
    /\ Fault("recheck")
    /\ pc[p] = "recheck"
    /\ Open(p, "unread")
    /\ UNCHANGED <<venue, local, rd, posts, bare, late>>

Crash ==
    /\ Fault("crash")
    /\ pc' = [p \in Procs |-> "idle"]
    /\ rd' = [p \in Procs |-> NoReading]
    /\ UNCHANGED <<venue, local, posts, bare, late, replaced>>

-----------------------------------------------------------------------------
Step(p) ==
    \/ Start(p) \/ ReadOrder(p) \/ Record(p) \/ ReadPositions(p)
    \/ ReadAlgo(p) \/ Judge(p) \/ Capture(p)
    \/ Inventory(p) \/ FlatCheck(p) \/ BeginCleanup(p) \/ PostCleanup(p)
    \/ VerifyCleanup(p) \/ ReceiptCleanup(p)
    \/ ExitRead(p) \/ BeginExit(p) \/ PostExit(p) \/ ExitReadback(p)
    \/ ReceiptExit(p) \/ ExitCapture(p) \/ Close(p)
    \/ UserPost(p) \/ UserReceipt(p) \/ After(p) \/ Recheck(p)

Fails(p) ==
    \/ ReadFails(p) \/ CaptureFails(p) \/ ClockFails(p) \/ RequestLost(p)
    \/ ReplyLost(p) \/ AuthorityFails(p) \/ RecheckFails(p)

Venue ==
    \/ Fill \/ CancelTakesEffect \/ Attach \/ AlgoCancelTakesEffect
    \/ StopTriggers \/ OwnerCloses

Next ==
    \/ Venue
    \/ \E p \in Procs : Step(p) \/ Fails(p)
    \/ \E u \in Users : UserBegin(u)
    \/ Crash

Spec == Init /\ [][Next]_vars

\* The maintenance loop runs every second and its awaits end; the venue
\* carries out the cancels it accepted.  Nothing makes an order fill.
FairSpec ==
    /\ Spec
    /\ \A p \in Procs : WF_vars(Step(p))
    /\ WF_vars(CancelTakesEffect)
    /\ WF_vars(AlgoCancelTakesEffect)

-----------------------------------------------------------------------------
\* Types of the venue, the stored rows and the turns.
TypeOK ==
    /\ entry \in [st : {"live"} \cup Ended, filled : 0 .. Q, canceling : BOOLEAN]
    /\ pos \in 0 .. Q
    /\ algo \in [st : {"none", "live", "canceling", "gone", "failed"}, size : 0 .. Q]
    /\ istate \in {"acked", "partial", "filled", "cancelled"}
    /\ {saved, stopped, closed, bare, late} \subseteq BOOLEAN
    /\ replaced \in {"no", "flat", "unread"}
    /\ ops \in [Keys -> {"none", "posting", "done"}]
    /\ lots \in 0 .. Q
    /\ posts \in [Keys -> Nat]
    /\ faults \in 0 .. MaxFaults

\* A cancel or a cleanup is sent to the venue at most once per key, whatever
\* two turns, a retrying operator and a restart do (begin_operation is
\* committed before the POST).
OnePostPerKey == \A k \in Keys : posts[k] <= 1

\* The close of an unprotected position is sent only when the entry can fill
\* no more: what the close was sized from stays true (emergency_exit's
\* readback before the receipt).
CloseAfterEntryEnds == closed => entry.st \in Ended

\* A receipt says what the venue shows: the entry has ended, the stop is gone.
ReceiptsAreTrue ==
    /\ ops["safety_cancel"] = "done" => entry.st \in Ended
    /\ ops["cleanup"] = "done" => ~Pending

\* cleanup_flat_protection takes the stop of a position only where the entry
\* filled after its snapshot said flat ("PROTECTION_STILL_REQUIRED") and before
\* the cancel went out: nothing holds the entry still between the two.
KeepsNeededStop == bare => late

\* A replacement is opened where the replaced order left nothing
\* ("REPLACE_PARTIAL_FILL_REQUIRES_EXPLICIT_CLOSE"), unless the readback that
\* says so failed: replace looks only at one that succeeds.
ReplacementStartsFlat == replaced # "no" /\ entry.filled > 0 => replaced = "unread"

Uncovered == pos > 0 /\ algo.st \in {"failed", "gone"}

\* A position whose stop is dead gets the account stopped, or is closed.
UncoveredIsStopped == Uncovered ~> (stopped \/ pos = 0)

\* The marker of a POST is committed and nobody is left to send it: a crash, a
\* refused clock or a lost request came between, and no later turn sends it.
Stranded(key, place) ==
    /\ ops[key] = "posting" /\ posts[key] = 0
    /\ \A p \in Procs : pc[p] # place

\* A position whose stop is dead is left.
UncoveredIsLeft == Uncovered ~> (pos = 0)

\* A position whose stop is dead is left, or the one close it gets was sent (an
\* immediate-or-cancel order may fill less), or the cancel of its entry is
\* stranded behind its own marker (emergency_exit).
UncoveredIsLeftOrStranded ==
    Uncovered ~> (pos = 0 \/ closed \/ Stranded("safety_cancel", "postExit"))

\* The stop of a position that is gone does not stay at the venue, unless its
\* cancel is stranded behind its marker (cleanup_flat_protection).
StopIsRemovedOrStranded ==
    (entry.st \in Ended /\ pos = 0 /\ saved)
        ~> (~Pending \/ Stranded("cleanup", "postCleanup"))
=============================================================================
