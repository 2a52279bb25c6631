------------------------ MODULE ProtectionExitProofs ------------------------
(***************************************************************************)
(* What the turns of an entry promise, for any number of turns, any size   *)
(* of the entry and any number of faults: a key is posted once, a position *)
(* is closed only when its entry has ended, and receipts are true.         *)
(*                                                                         *)
(* A turn acts on what it read some steps before.  Each invariant says     *)
(* what a place of a turn still knows when the others have moved on: an    *)
(* ended entry stays ended, a canceled stop does not come back, and the    *)
(* row of a key admits one caller to its POST.                             *)
(***************************************************************************)
EXTENDS ProtectionExit, TLAPS

Places == {"idle", "order", "record", "positions", "inventory", "flat", "algo", "judge", "capture",
           "beginCleanup", "postCleanup", "verifyCleanup", "receiptCleanup",
           "exitRead", "beginExit", "postExit", "exitReadback", "receiptExit", "exitCapture", "close",
           "userPost", "userReceipt", "after", "recheck"}

IntentState == {"acked", "partial", "filled", "cancelled"}

Reading == [mine : IntentState, st : IntentState, filled : 0 .. Q, ok : BOOLEAN]

TurnType ==
    /\ pc \in [Procs -> Places]
    /\ rd \in [Procs -> Reading]
    /\ \A p \in Procs : pc[p] \in {"userPost", "userReceipt"} => p \in Users

\* Nothing is held or covered beyond what was filled.
Volume == pos <= entry.filled /\ algo.size <= entry.filled

Types == TypeOK /\ TurnType /\ Volume
-----------------------------------------------------------------------------
PostPlaces == {"postCleanup", "postExit", "userPost"}

KeyOf(p, place) ==
    CASE place = "postCleanup" -> "cleanup"
      [] place = "postExit" -> "safety_cancel"
      [] OTHER -> p

\* A turn that was admitted to the POST of a key and has not sent it.
Admitted(p, k) == pc[p] \in PostPlaces /\ KeyOf(p, pc[p]) = k

KeyInv ==
    \A k \in Keys :
        /\ posts[k] <= 1
        /\ ops[k] = "none" => posts[k] = 0
        /\ \A p \in Procs : Admitted(p, k) => ops[k] # "none" /\ posts[k] = 0
        /\ \A p, q \in Procs : Admitted(p, k) /\ Admitted(q, k) => p = q

\* The entry has ended before a turn counts on it.
EndInv ==
    /\ \A p \in Procs : pc[p] \in {"receiptExit", "exitCapture", "close"} => entry.st \in Ended
    /\ CloseAfterEntryEnds
    /\ ops["safety_cancel"] = "done" => entry.st \in Ended

\* The stop's cancel was accepted before a turn verifies it.
StopInv ==
    /\ \A p \in Procs : /\ pc[p] = "verifyCleanup" => algo.st \in {"canceling", "gone"}
                        /\ pc[p] = "receiptCleanup" => algo.st = "gone"
    /\ ops["cleanup"] = "done" => algo.st = "gone"

\* Unless the entry filled behind its back, a cleanup sees a flat account.
FlatInv ==
    /\ \A p \in Procs : pc[p] \in {"beginCleanup", "postCleanup"} => pos = 0 \/ late
    /\ KeepsNeededStop

\* A row that says cancelled was read from the venue.
ReplaceInv ==
    /\ \A p \in Procs : /\ rd[p].st = "cancelled" => entry.st = "canceled"
                        /\ pc[p] = "recheck" => entry.st = "canceled"
    /\ istate = "cancelled" => entry.st = "canceled"
    /\ replaced = "flat" => entry.st = "canceled" /\ entry.filled = 0

IInv == Types /\ KeyInv /\ EndInv /\ StopInv /\ FlatInv /\ ReplaceInv
-----------------------------------------------------------------------------
\* An empty reading is a reading.
LEMMA NoReadingType == NoReading \in Reading
  BY ExitAssumption DEF NoReading, Reading, IntentState

\* The types hold at the start.
LEMMA InitTypes == Init => Types
  <1> SUFFICES ASSUME Init PROVE Types
    OBVIOUS
  <1>1. NoReading \in Reading
    BY NoReadingType
  <1>2. TurnType
    BY <1>1 DEF Init, TurnType, Places
  <1>3. {saved, stopped, closed, bare, late} \subseteq BOOLEAN
    BY DEF Init
  <1>4. /\ entry \in [st : {"live"} \cup Ended, filled : 0 .. Q, canceling : BOOLEAN]
        /\ algo \in [st : {"none", "live", "canceling", "gone", "failed"}, size : 0 .. Q]
    BY ExitAssumption DEF Init
  <1> QED
    BY <1>2, <1>3, <1>4, ExitAssumption DEF Init, Types, TypeOK, Volume

\* An immediate-or-cancel close takes no more than is held.
LEMMA CloseFillBounds ==
  ASSUME Types, NEW o \in CloseOutcomes
  PROVE  CloseFill(o) \in 0 .. pos
  <1>1. lots \in Nat /\ pos \in Nat
    BY ExitAssumption DEF Types, TypeOK
  <1>2. Lesser(lots, pos) \in 0 .. pos /\ Lesser(lots, pos) \div 2 \in 0 .. pos
    <2>1. PICK m \in 0 .. pos : m = Lesser(lots, pos)
      BY <1>1 DEF Lesser
    <2>2. m \div 2 \in 0 .. pos
      BY <1>1
    <2> QED
      BY <2>1, <2>2
  <1>3. o \in {"filled", "partial", "rejected"}
    BY ExitAssumption
  <1> QED
    BY <1>1, <1>2, <1>3 DEF CloseFill

\* A cancel that reaches the venue keeps the types.
LEMMA CancelTypes ==
  ASSUME Types, NEW p \in Procs, NEW k \in Keys, NEW w \in Places, Cancel(k),
         pc' = [pc EXCEPT ![p] = w], w \in {"userPost", "userReceipt"} => pc[p] = "userPost",
         UNCHANGED <<local, rd, late, replaced>>, faults' \in 0 .. MaxFaults
  PROVE  Types'
  <1>1. PICK b \in BOOLEAN : b = (entry.canceling \/ entry.st = "live")
    BY Zenon
  <1>2. entry' = [entry EXCEPT !.canceling = b] /\ UNCHANGED <<pos, algo, bare>>
    BY <1>1, Zenon DEF Cancel
  <1>3. posts' \in [Keys -> Nat]
    BY DEF Cancel, Posted, Types, TypeOK
  <1>4. entry' \in [st : {"live"} \cup Ended, filled : 0 .. Q, canceling : BOOLEAN] /\ entry'.filled = entry.filled
    BY <1>2 DEF Types, TypeOK
  <1> QED
    BY <1>2, <1>3, <1>4 DEF local, Types, TypeOK, TurnType, Volume

\* So does a cancel of the stop.
LEMMA CancelAlgoTypes ==
  ASSUME Types, NEW p \in Procs, NEW w \in Places, CancelAlgo,
         pc' = [pc EXCEPT ![p] = w], w \notin {"userPost", "userReceipt"},
         UNCHANGED <<local, rd, late, replaced>>, faults' \in 0 .. MaxFaults
  PROVE  Types'
  <1>1. algo' \in [st : {"none", "live", "canceling", "gone", "failed"}, size : 0 .. Q] /\ algo'.size = algo.size
    BY DEF CancelAlgo, Types, TypeOK
  <1>2. posts' \in [Keys -> Nat]
    BY DEF CancelAlgo, Posted, Types, TypeOK, Keys
  <1>3. bare' = TRUE \/ bare' = FALSE
    BY Zenon DEF CancelAlgo
  <1>4. UNCHANGED <<entry, pos>>
    BY DEF CancelAlgo
  <1>5. {saved', stopped', closed', bare', late'} \subseteq BOOLEAN
    BY <1>3 DEF local, Types, TypeOK
  <1> QED
    BY <1>1, <1>2, <1>4, <1>5 DEF local, Types, TypeOK, TurnType, Volume

\* So does every event of the venue.
LEMMA VenueTypes == ASSUME Types, Venue PROVE Types'
  <1>1. CASE Fill
    <2>1. PICK n \in 1 .. Q - entry.filled, s \in {"live", "filled"} :
            /\ entry' = [entry EXCEPT !.filled = @ + n, !.st = s]
            /\ pos' = pos + n
      BY <1>1 DEF Fill
    <2>2. UNCHANGED <<algo, istate, saved, stopped, ops, lots, closed, pc, rd, posts, bare, replaced, faults>>
      BY <1>1 DEF Fill, local
    <2>8. late' = TRUE \/ late' = FALSE
      BY <1>1, Zenon DEF Fill
    <2>9. {saved', stopped', closed', bare', late'} \subseteq BOOLEAN
      BY <2>2, <2>8 DEF Types, TypeOK
    <2>3. entry.filled + n \in 0 .. Q /\ entry.filled + n >= entry.filled /\ n \in Nat
      BY ExitAssumption DEF Types, TypeOK
    <2>4. PICK m \in 0 .. Q : m = entry.filled + n
      BY <2>3
    <2>5. entry' = [entry EXCEPT !.filled = m, !.st = s]
      BY <2>1, <2>4 DEF Types, TypeOK
    <2>6. entry' \in [st : {"live"} \cup Ended, filled : 0 .. Q, canceling : BOOLEAN] /\ entry'.filled = m
      BY <2>5 DEF Types, TypeOK, Ended
    <2>7. pos' \in 0 .. Q /\ Volume'
      BY <2>1, <2>2, <2>3, <2>4, <2>6, ExitAssumption DEF Types, TypeOK, Volume
    <2> QED
      BY <2>2, <2>6, <2>7, <2>9 DEF Types, TypeOK, TurnType
  <1>2. CASE CancelTakesEffect
    BY <1>2, ExitAssumption DEF CancelTakesEffect, local, Types, TypeOK, TurnType, Volume, Ended
  <1>3. CASE Attach
    BY <1>3, ExitAssumption DEF Attach, local, Types, TypeOK, TurnType, Volume, Ended
  <1>4. CASE AlgoCancelTakesEffect
    BY <1>4, ExitAssumption DEF AlgoCancelTakesEffect, local, Types, TypeOK, TurnType, Volume, Ended
  <1>5. CASE StopTriggers
    BY <1>5, ExitAssumption DEF StopTriggers, local, Types, TypeOK, TurnType, Volume, Ended
  <1>6. CASE OwnerCloses
    BY <1>6, ExitAssumption DEF OwnerCloses, local, Types, TypeOK, TurnType, Volume, Ended
  <1> QED
    BY <1>1, <1>2, <1>3, <1>4, <1>5, <1>6 DEF Venue

\* So does every step of a turn, a failed one included.
LEMMA StepTypes == ASSUME Types, NEW p \in Procs, Step(p) \/ Fails(p) PROVE Types'
  <1>1. CASE Start(p)
    <2>1. PICK r \in Reading : r = [NoReading EXCEPT !.mine = istate]
      BY NoReadingType DEF Reading, Types, TypeOK, IntentState
    <2>2. rd' = [rd EXCEPT ![p] = r]
      BY <1>1, <2>1 DEF Start
    <2>3. pc' = [pc EXCEPT ![p] = "order"] /\ UNCHANGED <<venue, local, posts, bare, late, replaced, faults>>
      BY <1>1 DEF Start, Goto
    <2> QED
      BY <2>1, <2>2, <2>3 DEF venue, local, Types, TypeOK, TurnType, Volume, Places
  <1>2. CASE ReadOrder(p)
    <2>1. PICK s \in IntentState : s = OrderState
      BY DEF OrderState, IntentState
    <2>2. rd' = [rd EXCEPT ![p].st = s, ![p].filled = entry.filled]
      BY <1>2, <2>1 DEF ReadOrder
    <2>3. rd' \in [Procs -> Reading]
      BY <2>2 DEF Types, TypeOK, TurnType, Reading
    <2>4. pc' = [pc EXCEPT ![p] = "record"] /\ UNCHANGED <<venue, local, posts, bare, late, replaced, faults>>
      BY <1>2 DEF ReadOrder, Goto
    <2> QED
      BY <2>3, <2>4 DEF venue, local, Types, TypeOK, TurnType, Volume, Places
  <1>3. CASE Record(p)
    <2>1. PICK r \in Reading : r = [NoReading EXCEPT !.filled = rd[p].filled]
      BY NoReadingType DEF Reading, Types, TurnType
    <2>2. rd' = [rd EXCEPT ![p] = r]
      BY <1>3, <2>1 DEF Record
    <2>3. PICK w \in {"positions", "idle"} : pc' = [pc EXCEPT ![p] = w]
      BY <1>3 DEF Record, Goto, Fail
    <2>4. istate' \in IntentState
      BY <1>3 DEF Record, Types, TypeOK, TurnType, Reading, IntentState
    <2>5. UNCHANGED <<venue, saved, stopped, ops, lots, closed, posts, bare, late, replaced, faults>>
      BY <1>3 DEF Record
    <2> QED
      BY <2>1, <2>2, <2>3, <2>4, <2>5 DEF venue, Types, TypeOK, TurnType, Volume, Places, IntentState
  <1>4. CASE ReadPositions(p)
    <2>0. PICK n \in 0 .. Q : n = IF pos = 0 THEN 0 ELSE rd[p].filled
      BY ExitAssumption DEF Types, TurnType, Reading
    <2>1. rd' = [rd EXCEPT ![p].filled = n]
      BY <1>4, <2>0 DEF ReadPositions
    <2>2. rd' \in [Procs -> Reading]
      BY <2>1 DEF Types, TurnType, Reading
    <2>3. PICK w \in {"inventory", "algo", "capture"} : pc' = [pc EXCEPT ![p] = w]
      BY <1>4 DEF ReadPositions, Goto
    <2>4. UNCHANGED <<venue, local, posts, bare, late, replaced, faults>>
      BY <1>4 DEF ReadPositions
    <2> QED
      BY <2>2, <2>3, <2>4 DEF venue, local, Types, TypeOK, TurnType, Volume, Places
  <1>5. CASE ReadAlgo(p)
    <2>1. PICK r \in Reading : r = [NoReading EXCEPT !.ok = Pending /\ algo.size = rd[p].filled]
      <3>1. NoReading \in Reading
        BY NoReadingType
      <3>2. [NoReading EXCEPT !.ok = Pending /\ algo.size = rd[p].filled] \in Reading
        BY <3>1, Zenon DEF Reading, NoReading
      <3> QED
        BY <3>2
    <2>2. rd' = [rd EXCEPT ![p] = r]
      BY <1>5, <2>1, Zenon DEF ReadAlgo
    <2>3. pc' = [pc EXCEPT ![p] = "judge"] /\ UNCHANGED <<venue, local, posts, bare, late, replaced, faults>>
      BY <1>5 DEF ReadAlgo, Goto
    <2> QED
      BY <2>1, <2>2, <2>3 DEF venue, local, Types, TypeOK, TurnType, Volume, Places
  <1>6. CASE Judge(p)
    BY <1>6, ExitAssumption
       DEF Judge, Goto, venue, Types, TypeOK, TurnType, Volume, Places
  <1>7. CASE Capture(p)
    <2>1. rd' = [rd EXCEPT ![p] = NoReading] /\ lots' = pos
      BY <1>7 DEF Capture
    <2>2. rd' \in [Procs -> Reading]
      BY <2>1, NoReadingType DEF Types, TurnType
    <2>3. PICK w \in {"idle", "after", "exitRead"} : pc' = [pc EXCEPT ![p] = w]
      BY <1>7 DEF Capture, Done, Goto
    <2>4. UNCHANGED <<venue, istate, saved, stopped, ops, closed, posts, bare, late, replaced, faults>>
      BY <1>7 DEF Capture
    <2> QED
      BY <2>1, <2>2, <2>3, <2>4 DEF venue, Types, TypeOK, TurnType, Volume, Places
  <1>8. CASE Inventory(p)
    BY <1>8, ExitAssumption
       DEF Inventory, Goto, Pending, venue, local, Types, TypeOK, TurnType, Volume, Places
  <1>9. CASE FlatCheck(p)
    BY <1>9, ExitAssumption
       DEF FlatCheck, Goto, Fail, venue, local, Types, TypeOK, TurnType, Volume, Places
  <1>10. CASE BeginCleanup(p)
    BY <1>10, ExitAssumption
       DEF BeginCleanup, Begin, BeginRest, Goto, venue, Types, TypeOK, TurnType, Volume, Places, Keys
  <1>11. CASE PostCleanup(p)
    <2>1. PICK w \in {"verifyCleanup", "idle"} : pc' = [pc EXCEPT ![p] = w]
      BY <1>11 DEF PostCleanup, Fail, Goto
    <2>2. CancelAlgo /\ UNCHANGED <<local, rd, late, replaced>> /\ faults' \in 0 .. MaxFaults
      BY <1>11 DEF PostCleanup, Types, TypeOK
    <2> QED
      BY <2>1, <2>2, CancelAlgoTypes DEF Places
  <1>12. CASE VerifyCleanup(p)
    BY <1>12, ExitAssumption
       DEF VerifyCleanup, Pending, Goto, Fail, venue, local, Types, TypeOK, TurnType, Volume, Places
  <1>13. CASE ReceiptCleanup(p)
    BY <1>13, ExitAssumption
       DEF ReceiptCleanup, Receipt, BeginRest, Goto, venue, Types, TypeOK, TurnType, Volume, Places, Keys
  <1>14. CASE ExitRead(p)
    BY <1>14, ExitAssumption
       DEF ExitRead, Goto, venue, local, Types, TypeOK, TurnType, Volume, Places
  <1>15. CASE BeginExit(p)
    BY <1>15, ExitAssumption
       DEF BeginExit, Begin, BeginRest, Goto, venue, Types, TypeOK, TurnType, Volume, Places, Keys
  <1>16. CASE PostExit(p)
    <2>1. PICK k \in Keys, w \in {"exitReadback", "userReceipt", "idle", "after"} :
            Cancel(k) /\ pc' = [pc EXCEPT ![p] = w] /\ (w = "userReceipt" => pc[p] = "userPost")
      BY <1>16, ExitAssumption DEF PostExit, Goto, Done, Keys, Types, TurnType
    <2>2. UNCHANGED <<local, rd, late, replaced>> /\ faults' \in 0 .. MaxFaults
      BY <1>16 DEF PostExit, Types, TypeOK
    <2> QED
      BY <2>1, <2>2, CancelTypes DEF Places
  <1>17. CASE ExitReadback(p)
    BY <1>17, ExitAssumption
       DEF ExitReadback, Goto, Done, venue, local, Types, TypeOK, TurnType, Volume, Places
  <1>18. CASE ReceiptExit(p)
    BY <1>18, ExitAssumption
       DEF ReceiptExit, Receipt, BeginRest, Goto, venue, Types, TypeOK, TurnType, Volume, Places, Keys
  <1>19. CASE ExitCapture(p)
    BY <1>19, ExitAssumption
       DEF ExitCapture, Goto, venue, Types, TypeOK, TurnType, Volume, Places
  <1>20. CASE Close(p)
    <2>1. pos' \in 0 .. Q /\ pos' <= pos
      <3>1. CASE pos' = pos
        BY <3>1, ExitAssumption DEF Types, TypeOK
      <3>2. ASSUME NEW o \in CloseOutcomes, pos' = pos - CloseFill(o)
            PROVE  pos' \in 0 .. Q /\ pos' <= pos
        BY <3>2, CloseFillBounds, ExitAssumption DEF Types, TypeOK
      <3> QED
        BY <1>20, <3>1, <3>2 DEF Close
    <2>2. PICK w \in {"idle", "after"} : pc' = [pc EXCEPT ![p] = w]
      BY <1>20 DEF Close, Done, Fail, Goto
    <2>3. closed' = closed \/ closed' = TRUE
      BY <1>20, Zenon DEF Close
    <2>4. UNCHANGED <<entry, algo, istate, saved, stopped, ops, lots, rd, posts, bare, late, replaced, faults>>
      BY <1>20, Zenon DEF Close
    <2>5. {saved', stopped', closed', bare', late'} \subseteq BOOLEAN
      BY <2>3, <2>4 DEF Types, TypeOK
    <2>6. Volume'
      BY <2>1, <2>4, ExitAssumption DEF Types, TypeOK, Volume
    <2> QED
      BY <2>1, <2>2, <2>4, <2>5, <2>6 DEF Types, TypeOK, TurnType, Places
  <1>21. CASE UserPost(p)
    <2>1. PICK k \in Keys, w \in {"exitReadback", "userReceipt", "idle", "after"} :
            Cancel(k) /\ pc' = [pc EXCEPT ![p] = w] /\ (w = "userReceipt" => pc[p] = "userPost")
      BY <1>21, ExitAssumption DEF UserPost, Goto, Done, Keys, Types, TurnType
    <2>2. UNCHANGED <<local, rd, late, replaced>> /\ faults' \in 0 .. MaxFaults
      BY <1>21 DEF UserPost, Types, TypeOK
    <2> QED
      BY <2>1, <2>2, CancelTypes DEF Places
  <1>22. CASE UserReceipt(p)
    <2>1. rd' = [rd EXCEPT ![p].mine = istate] /\ pc' = [pc EXCEPT ![p] = "order"] /\ p \in Keys
      BY <1>22, ExitAssumption DEF UserReceipt, Receipt, Goto, Keys, Types, TurnType
    <2>2. rd' \in [Procs -> Reading]
      BY <2>1 DEF Types, TypeOK, TurnType, Reading, IntentState
    <2>3. ops' \in [Keys -> {"none", "posting", "done"}]
      BY <1>22, <2>1 DEF UserReceipt, Receipt, Types, TypeOK
    <2>4. UNCHANGED <<venue, istate, saved, stopped, lots, closed, posts, bare, late, replaced, faults>>
      BY <1>22 DEF UserReceipt, BeginRest
    <2> QED
      BY <2>1, <2>2, <2>3, <2>4 DEF venue, Types, TypeOK, TurnType, Volume, Places
  <1>23. CASE After(p)
    BY <1>23, ExitAssumption
       DEF After, Goto, Fail, venue, local, Types, TypeOK, TurnType, Volume, Places
  <1>24. CASE Recheck(p)
    <2>1. pc' = [pc EXCEPT ![p] = "idle"] /\ UNCHANGED <<venue, local, rd, posts, bare, late, faults>>
      BY <1>24 DEF Recheck, Open, Fail, Goto
    <2>2. replaced' = replaced \/ replaced' = "flat"
      BY <1>24, Zenon DEF Recheck, Open
    <2> QED
      BY <2>1, <2>2 DEF venue, local, Types, TypeOK, TurnType, Volume, Places
  <1>25. CASE ReadFails(p)
    <2>1. rd' \in [Procs -> Reading]
      <3>1. rd' = [rd EXCEPT ![p].ok = FALSE] \/ rd' = rd
        BY <1>25, Zenon DEF ReadFails
      <3> QED
        BY <3>1 DEF Types, TurnType, Reading
    <2>2. PICK w \in {"judge", "idle", "after"} : pc' = [pc EXCEPT ![p] = w]
      BY <1>25 DEF ReadFails, Done, Fail, Goto
    <2>3. UNCHANGED <<venue, local, posts, bare, late, replaced>> /\ faults' \in 0 .. MaxFaults
      BY <1>25, ExitAssumption DEF ReadFails, Fault, Types, TypeOK
    <2> QED
      BY <2>1, <2>2, <2>3 DEF venue, local, Types, TypeOK, TurnType, Volume, Places
  <1>26. CASE CaptureFails(p)
    BY <1>26, ExitAssumption
       DEF CaptureFails, Fault, Goto, Done, Fail, NoReading, venue, local, Types, TypeOK, TurnType, Volume, Places, Reading, IntentState
  <1>27. CASE ClockFails(p)
    BY <1>27, ExitAssumption
       DEF ClockFails, Fault, Goto, Fail, venue, local, Types, TypeOK, TurnType, Volume, Places
  <1>28. CASE RequestLost(p)
    BY <1>28, ExitAssumption
       DEF RequestLost, Fault, Goto, Done, Fail, venue, local, Types, TypeOK, TurnType, Volume, Places
  <1>29. CASE ReplyLost(p)
    <2>1. faults' \in 0 .. MaxFaults /\ UNCHANGED <<local, rd, late, replaced>>
      BY <1>29, ExitAssumption DEF ReplyLost, Fault, Types, TypeOK
    <2>2. PICK w \in {"idle", "after"} : pc' = [pc EXCEPT ![p] = w]
      BY <1>29 DEF ReplyLost, Done, Fail, Goto
    <2>3. CASE CancelAlgo
      BY <2>1, <2>2, <2>3, CancelAlgoTypes DEF Places
    <2>4. ASSUME NEW k \in Keys, Cancel(k) PROVE Types'
      BY <2>1, <2>2, <2>4, CancelTypes DEF Places
    <2> QED
      BY <1>29, <2>3, <2>4, ExitAssumption DEF ReplyLost, Types, TurnType, Keys
  <1>30. CASE AuthorityFails(p)
    BY <1>30, ExitAssumption
       DEF AuthorityFails, Fault, Goto, Fail, venue, local, Types, TypeOK, TurnType, Volume, Places
  <1>31. CASE RecheckFails(p)
    BY <1>31, ExitAssumption
       DEF RecheckFails, Fault, Open, Goto, venue, local, Types, TypeOK, TurnType, Volume, Places
  <1> QED
    BY <1>1, <1>2, <1>3, <1>4, <1>5, <1>6, <1>7, <1>8, <1>9, <1>10, <1>11, <1>12, <1>13, <1>14, <1>15, <1>16, <1>17, <1>18, <1>19, <1>20, <1>21, <1>22, <1>23, <1>24, <1>25, <1>26, <1>27, <1>28, <1>29, <1>30, <1>31
       DEF Step, Fails

\* So does every step.
LEMMA NextTypes == Types /\ [Next]_vars => Types'
  <1> SUFFICES ASSUME Types, [Next]_vars PROVE Types'
    OBVIOUS
  <1>1. ASSUME NEW u \in Users, UserBegin(u) PROVE Types'
    <2>1. PICK r \in Reading : r = [NoReading EXCEPT !.mine = istate]
      BY NoReadingType DEF Reading, Types, TypeOK, IntentState
    <2>2. rd' = [rd EXCEPT ![u] = r] /\ u \in Keys /\ u \in Procs
      BY <1>1, <2>1, ExitAssumption DEF UserBegin, Keys, Procs
    <2>3. PICK w \in {"userReceipt", "userPost", "order"} : pc' = [pc EXCEPT ![u] = w]
      BY <1>1 DEF UserBegin, Begin, Goto
    <2>4. ops' \in [Keys -> {"none", "posting", "done"}]
      BY <1>1, <2>2 DEF UserBegin, Begin, Types, TypeOK
    <2>5. UNCHANGED <<venue, istate, saved, stopped, lots, closed, posts, bare, late, replaced, faults>>
      BY <1>1 DEF UserBegin, BeginRest
    <2> QED
      BY <2>1, <2>2, <2>3, <2>4, <2>5 DEF venue, Types, TypeOK, TurnType, Volume, Places
  <1>2. CASE Crash
    BY <1>2, ExitAssumption DEF Crash, Fault, NoReading, venue, local, Types, TypeOK, TurnType, Volume, Places,
       Reading, IntentState
  <1>3. CASE UNCHANGED vars
    BY <1>3 DEF vars, venue, local, Types, TypeOK, TurnType, Volume
  <1> QED
    BY <1>1, <1>2, <1>3, VenueTypes, StepTypes DEF Next

-----------------------------------------------------------------------------
\* The ways a step touches the keys: it leaves them alone and admits nobody ...
Walks ==
    /\ UNCHANGED <<ops, posts>>
    /\ \A q \in Procs : pc'[q] = pc[q] \/ pc'[q] \notin PostPlaces

\* ... it admits one caller to a key nobody had ...
Admits(p, k) ==
    /\ ops[k] = "none" /\ ops' = [ops EXCEPT ![k] = "posting"] /\ UNCHANGED posts
    /\ \A q \in Procs \ {p} : pc'[q] = pc[q]
    /\ pc'[p] \in PostPlaces => KeyOf(p, pc'[p]) = k

\* ... it sends the POST it was admitted to ...
Sends(p, k) ==
    /\ Admitted(p, k) /\ posts' = [posts EXCEPT ![k] = @ + 1] /\ UNCHANGED ops
    /\ \A q \in Procs \ {p} : pc'[q] = pc[q]
    /\ pc'[p] \notin PostPlaces

\* ... or it records the outcome.
Records(k) ==
    /\ ops' = [ops EXCEPT ![k] = "done"] /\ UNCHANGED posts
    /\ \A q \in Procs : pc'[q] = pc[q] \/ pc'[q] \notin PostPlaces

KeyStep == Walks \/ \E k \in Keys : Records(k) \/ \E p \in Procs : Admits(p, k) \/ Sends(p, k)

\* A key that moves forward keeps one post per key.
LEMMA KeyStepKeeps == ASSUME Types, KeyInv, KeyStep PROVE KeyInv'
  <1> USE DEF KeyInv, Admitted
  <1>0. posts \in [Keys -> Nat] /\ ops \in [Keys -> {"none", "posting", "done"}]
    BY DEF Types, TypeOK
  <1>1. CASE Walks
    BY <1>1 DEF Walks
  <1>2. ASSUME NEW k \in Keys, Records(k) PROVE KeyInv'
    BY <1>0, <1>2 DEF Records
  <1>3. ASSUME NEW k \in Keys, NEW p \in Procs, Admits(p, k) PROVE KeyInv'
    BY <1>0, <1>3 DEF Admits
  <1>4. ASSUME NEW k \in Keys, NEW p \in Procs, Sends(p, k) PROVE KeyInv'
    <2>1. posts[k] = 0 /\ ops[k] # "none" /\ posts'[k] = 1 /\ ops'[k] # "none"
      BY <1>0, <1>4 DEF Sends
    <2>2. \A q \in Procs : ~Admitted(q, k)'
      BY <1>4 DEF Sends
    <2>3. ASSUME NEW j \in Keys \ {k}
          PROVE  /\ posts'[j] = posts[j] /\ ops'[j] = ops[j]
                 /\ \A q \in Procs : Admitted(q, j)' => Admitted(q, j)
      BY <1>0, <1>4 DEF Sends
    <2> QED
      BY <2>1, <2>2, <2>3
  <1> QED
    BY <1>1, <1>2, <1>3, <1>4 DEF KeyStep

\* Every step of a turn moves the keys forward only.
LEMMA StepKeys == ASSUME Types, NEW p \in Procs, Step(p) \/ Fails(p) PROVE KeyStep
  <1>1. CASE Start(p)
    BY <1>1 DEF Start, Goto, local, KeyStep, Walks, PostPlaces, Types, TurnType
  <1>2. CASE ReadOrder(p)
    BY <1>2 DEF ReadOrder, Goto, local, KeyStep, Walks, PostPlaces, Types, TurnType
  <1>3. CASE Record(p)
    BY <1>3 DEF Record, Goto, Fail, KeyStep, Walks, PostPlaces, Types, TurnType
  <1>4. CASE ReadPositions(p)
    BY <1>4 DEF ReadPositions, Goto, local, KeyStep, Walks, PostPlaces, Types, TurnType
  <1>5. CASE ReadAlgo(p)
    BY <1>5 DEF ReadAlgo, Goto, local, KeyStep, Walks, PostPlaces, Types, TurnType
  <1>6. CASE Judge(p)
    BY <1>6 DEF Judge, Goto, KeyStep, Walks, PostPlaces, Types, TurnType
  <1>7. CASE Capture(p)
    BY <1>7 DEF Capture, Goto, Done, KeyStep, Walks, PostPlaces, Types, TurnType
  <1>8. CASE Inventory(p)
    BY <1>8 DEF Inventory, Goto, local, KeyStep, Walks, PostPlaces, Types, TurnType
  <1>9. CASE FlatCheck(p)
    BY <1>9 DEF FlatCheck, Goto, Fail, local, KeyStep, Walks, PostPlaces, Types, TurnType
  <1>10. CASE BeginCleanup(p)
    <2>1. "cleanup" \in Keys
      BY DEF Keys
    <2>2. CASE ops["cleanup"] = "none"
      BY <1>10, <2>1, <2>2 DEF BeginCleanup, Begin, BeginRest, Goto, KeyStep, Admits, KeyOf, PostPlaces, Types, TurnType
    <2>3. CASE ops["cleanup"] # "none"
      BY <1>10, <2>3 DEF BeginCleanup, Begin, BeginRest, Goto, KeyStep, Walks, PostPlaces, Types, TurnType
    <2> QED
      BY <2>2, <2>3
  <1>11. CASE PostCleanup(p)
    <2>1. "cleanup" \in Keys /\ Admitted(p, "cleanup")
      BY <1>11, ExitAssumption DEF PostCleanup, Keys, Admitted, KeyOf, PostPlaces, Types, TurnType
    <2> QED
      BY <1>11, <2>1 DEF PostCleanup, CancelAlgo, Posted, local, Goto, Done, Fail, KeyStep, Sends, PostPlaces, Types, TurnType
  <1>12. CASE VerifyCleanup(p)
    BY <1>12 DEF VerifyCleanup, Goto, Fail, local, KeyStep, Walks, PostPlaces, Types, TurnType
  <1>13. CASE ReceiptCleanup(p)
    <2>1. "cleanup" \in Keys
      BY <1>13, ExitAssumption DEF ReceiptCleanup, Keys, Types, TurnType
    <2> QED
      BY <1>13, <2>1 DEF ReceiptCleanup, Receipt, BeginRest, Goto, KeyStep, Records, PostPlaces, Types, TurnType
  <1>14. CASE ExitRead(p)
    BY <1>14 DEF ExitRead, Goto, local, KeyStep, Walks, PostPlaces, Types, TurnType
  <1>15. CASE BeginExit(p)
    <2>1. "safety_cancel" \in Keys
      BY DEF Keys
    <2>2. CASE ops["safety_cancel"] = "none"
      BY <1>15, <2>1, <2>2 DEF BeginExit, Begin, BeginRest, Goto, KeyStep, Admits, KeyOf, PostPlaces, Types, TurnType
    <2>3. CASE ops["safety_cancel"] # "none"
      BY <1>15, <2>3 DEF BeginExit, Begin, BeginRest, Goto, KeyStep, Walks, PostPlaces, Types, TurnType
    <2> QED
      BY <2>2, <2>3
  <1>16. CASE PostExit(p)
    <2>1. "safety_cancel" \in Keys /\ Admitted(p, "safety_cancel")
      BY <1>16, ExitAssumption DEF PostExit, Keys, Admitted, KeyOf, PostPlaces, Types, TurnType
    <2> QED
      BY <1>16, <2>1 DEF PostExit, Cancel, Posted, local, Goto, Done, Fail, KeyStep, Sends, PostPlaces, Types, TurnType
  <1>17. CASE ExitReadback(p)
    BY <1>17 DEF ExitReadback, Goto, Done, local, KeyStep, Walks, PostPlaces, Types, TurnType
  <1>18. CASE ReceiptExit(p)
    <2>1. "safety_cancel" \in Keys
      BY <1>18, ExitAssumption DEF ReceiptExit, Keys, Types, TurnType
    <2> QED
      BY <1>18, <2>1 DEF ReceiptExit, Receipt, BeginRest, Goto, KeyStep, Records, PostPlaces, Types, TurnType
  <1>19. CASE ExitCapture(p)
    BY <1>19 DEF ExitCapture, Goto, KeyStep, Walks, PostPlaces, Types, TurnType
  <1>20. CASE Close(p)
    BY <1>20 DEF Close, Done, Fail, Goto, KeyStep, Walks, PostPlaces, Types, TurnType
  <1>21. CASE UserPost(p)
    <2>1. p \in Keys /\ Admitted(p, p)
      BY <1>21, ExitAssumption DEF UserPost, Keys, Admitted, KeyOf, PostPlaces, Types, TurnType
    <2> QED
      BY <1>21, <2>1 DEF UserPost, Cancel, Posted, local, Goto, Done, Fail, KeyStep, Sends, PostPlaces, Types, TurnType
  <1>22. CASE UserReceipt(p)
    <2>1. p \in Keys
      BY <1>22, ExitAssumption DEF UserReceipt, Keys, Types, TurnType
    <2> QED
      BY <1>22, <2>1 DEF UserReceipt, Receipt, BeginRest, Goto, KeyStep, Records, PostPlaces, Types, TurnType
  <1>23. CASE After(p)
    BY <1>23 DEF After, Goto, Fail, local, KeyStep, Walks, PostPlaces, Types, TurnType
  <1>24. CASE Recheck(p)
    BY <1>24 DEF Recheck, Open, Goto, Fail, local, KeyStep, Walks, PostPlaces, Types, TurnType
  <1>25. CASE ReadFails(p)
    BY <1>25 DEF ReadFails, Goto, Done, Fail, local, KeyStep, Walks, PostPlaces, Types, TurnType
  <1>26. CASE CaptureFails(p)
    BY <1>26 DEF CaptureFails, Goto, Done, Fail, local, KeyStep, Walks, PostPlaces, Types, TurnType
  <1>27. CASE ClockFails(p)
    BY <1>27 DEF ClockFails, Goto, Fail, local, KeyStep, Walks, PostPlaces, Types, TurnType
  <1>28. CASE RequestLost(p)
    BY <1>28 DEF RequestLost, Goto, Done, Fail, local, KeyStep, Walks, PostPlaces, Types, TurnType
  <1>29. CASE ReplyLost(p)
    <2>1. PICK k \in Keys : Admitted(p, k) /\ Posted(k)
      BY <1>29, ExitAssumption DEF ReplyLost, CancelAlgo, Cancel, Keys, Admitted, KeyOf, PostPlaces, Types, TurnType
    <2>2. PICK w \in {"idle", "after"} : pc' = [pc EXCEPT ![p] = w]
      BY <1>29 DEF ReplyLost, Done, Fail, Goto
    <2>3. UNCHANGED ops
      BY <1>29 DEF ReplyLost, local
    <2> QED
      BY <2>1, <2>2, <2>3 DEF Posted, KeyStep, Sends, PostPlaces, Types, TurnType
  <1>30. CASE AuthorityFails(p)
    BY <1>30 DEF AuthorityFails, Goto, Fail, local, KeyStep, Walks, PostPlaces, Types, TurnType
  <1>31. CASE RecheckFails(p)
    BY <1>31 DEF RecheckFails, Open, Goto, local, KeyStep, Walks, PostPlaces, Types, TurnType
  <1> QED
    BY <1>1, <1>2, <1>3, <1>4, <1>5, <1>6, <1>7, <1>8, <1>9, <1>10, <1>11, <1>12, <1>13, <1>14, <1>15, <1>16, <1>17, <1>18, <1>19, <1>20, <1>21, <1>22, <1>23, <1>24, <1>25, <1>26, <1>27, <1>28, <1>29, <1>30, <1>31
       DEF Step, Fails

\* Every step preserves what is known of the keys.
LEMMA NextKeys == Types /\ KeyInv /\ [Next]_vars => KeyInv'
  <1> SUFFICES ASSUME Types, KeyInv, [Next]_vars PROVE KeyInv'
    OBVIOUS
  <1>1. ASSUME NEW u \in Users, UserBegin(u) PROVE KeyStep
    <2>1. u \in Keys /\ u \in Procs
      BY ExitAssumption DEF Keys, Procs
    <2>2. PICK w \in {"userReceipt", "userPost"} :
            Begin(u, u, w, "order") /\ UNCHANGED posts
      BY <1>1 DEF UserBegin, BeginRest
    <2>3. CASE ops[u] = "none"
      BY <2>1, <2>2, <2>3 DEF Begin, Goto, KeyStep, Admits, KeyOf, PostPlaces, Types, TurnType
    <2>4. CASE ops[u] # "none"
      BY <2>1, <2>2, <2>4 DEF Begin, Goto, KeyStep, Walks, PostPlaces, Types, TurnType
    <2> QED
      BY <2>3, <2>4
  <1>2. Venue => KeyStep
    BY DEF Venue, Fill, CancelTakesEffect, Attach, AlgoCancelTakesEffect, StopTriggers, OwnerCloses, local,
       KeyStep, Walks
  <1>3. Crash => KeyStep
    BY DEF Crash, local, KeyStep, Walks, PostPlaces
  <1>4. UNCHANGED vars => KeyStep
    BY DEF vars, local, KeyStep, Walks
  <1> QED
    BY <1>1, <1>2, <1>3, <1>4, StepKeys, KeyStepKeeps DEF Next

-----------------------------------------------------------------------------
EndPlaces == {"receiptExit", "exitCapture", "close"}

\* What ends stays ended: the entry, and the stop once its cancel was accepted.
VenueFacts ==
    /\ entry.st \in Ended => entry'.st = entry.st /\ entry'.filled = entry.filled
    /\ algo.st = "gone" => algo'.st = "gone"
    /\ algo.st = "canceling" => algo'.st \in {"canceling", "gone"}
    /\ pos = 0 /\ Cleaning => pos' = 0 \/ late'
    /\ late => late'

\* What a turn has seen when it comes to a place.
PlaceFacts ==
    \A q \in Procs : pc'[q] # pc[q] =>
        /\ pc'[q] \in EndPlaces => pc[q] \in EndPlaces \/ entry.st \in Ended
        /\ pc'[q] = "verifyCleanup" => algo'.st \in {"canceling", "gone"}
        /\ pc'[q] = "receiptCleanup" => pc[q] = "verifyCleanup" /\ ~Pending /\ UNCHANGED algo
        /\ pc'[q] = "beginCleanup" => pos = 0 /\ UNCHANGED pos
        /\ pc'[q] = "postCleanup" => pc[q] = "beginCleanup" /\ UNCHANGED pos
        /\ pc'[q] = "recheck" => istate = "cancelled"

\* What was known when a row was written.
RowFacts ==
    /\ \A q \in Procs : rd'[q].st = "cancelled" => rd[q].st = "cancelled" \/ entry.st = "canceled"
    /\ istate' = "cancelled" => istate = "cancelled" \/ \E q \in Procs : rd[q].st = "cancelled"
    /\ ops'["safety_cancel"] = "done" => ops["safety_cancel"] = "done" \/ \E q \in Procs : pc[q] = "receiptExit"
    /\ ops'["cleanup"] = "done" => ops["cleanup"] = "done" \/ \E q \in Procs : pc[q] = "receiptCleanup"

\* What was known at an effect that cannot be taken back.
EffectFacts ==
    /\ closed' => closed \/ \E q \in Procs : pc[q] = "close"
    /\ bare' => bare \/ (pos > 0 /\ \E q \in Procs : pc[q] = "postCleanup")
    /\ replaced' = "flat" => replaced = "flat" \/ (entry.filled = 0 /\ \E q \in Procs : pc[q] = "recheck")

Facts == VenueFacts /\ PlaceFacts /\ RowFacts /\ EffectFacts

\* The facts about a step carry the remaining invariants over it.
LEMMA FactsKeep ==
  ASSUME Types, Facts, EndInv, StopInv, FlatInv, ReplaceInv
  PROVE  EndInv' /\ StopInv' /\ FlatInv' /\ ReplaceInv'
  <1>1. EndInv'
    BY DEF Facts, VenueFacts, PlaceFacts, RowFacts, EffectFacts, EndInv, EndPlaces, CloseAfterEntryEnds, Ended
  <1>2. StopInv'
    BY DEF Facts, VenueFacts, PlaceFacts, RowFacts, StopInv, Pending
  <1>3. FlatInv'
    BY DEF Facts, VenueFacts, PlaceFacts, EffectFacts, FlatInv, KeepsNeededStop, Cleaning
  <1>4. ReplaceInv'
    BY DEF Facts, VenueFacts, PlaceFacts, RowFacts, EffectFacts, ReplaceInv, Ended
  <1> QED
    BY <1>1, <1>2, <1>3, <1>4

\* An event of the venue has these facts.
LEMMA VenueKeepsFacts == ASSUME Types, Venue PROVE Facts
  <1>1. CASE Fill
    BY <1>1, ExitAssumption
       DEF Fill, local, Facts, VenueFacts, PlaceFacts, RowFacts, EffectFacts, EndPlaces, Types, TypeOK, TurnType, Ended
  <1>2. CASE CancelTakesEffect
    BY <1>2, ExitAssumption
       DEF CancelTakesEffect, local, Facts, VenueFacts, PlaceFacts, RowFacts, EffectFacts, EndPlaces, Types, TypeOK, TurnType, Ended
  <1>3. CASE Attach
    BY <1>3, ExitAssumption
       DEF Attach, local, Facts, VenueFacts, PlaceFacts, RowFacts, EffectFacts, EndPlaces, Types, TypeOK, TurnType, Ended
  <1>4. CASE AlgoCancelTakesEffect
    BY <1>4, ExitAssumption
       DEF AlgoCancelTakesEffect, local, Facts, VenueFacts, PlaceFacts, RowFacts, EffectFacts, EndPlaces, Types, TypeOK, TurnType, Ended
  <1>5. CASE StopTriggers
    BY <1>5, ExitAssumption
       DEF StopTriggers, local, Facts, VenueFacts, PlaceFacts, RowFacts, EffectFacts, EndPlaces, Types, TypeOK, TurnType, Ended
  <1>6. CASE OwnerCloses
    BY <1>6, ExitAssumption
       DEF OwnerCloses, local, Facts, VenueFacts, PlaceFacts, RowFacts, EffectFacts, EndPlaces, Types, TypeOK, TurnType, Ended
  <1> QED
    BY <1>1, <1>2, <1>3, <1>4, <1>5, <1>6 DEF Venue

\* A step of a turn has them.
LEMMA StepKeepsFacts == ASSUME Types, NEW p \in Procs, Step(p) \/ Fails(p) PROVE Facts
  <1>1. CASE Start(p)
    BY <1>1, ExitAssumption
       DEF Start, Goto, NoReading, venue, local, Facts, VenueFacts, PlaceFacts, RowFacts, EffectFacts, EndPlaces, Types, TypeOK, TurnType, Ended, Reading
  <1>2. CASE ReadOrder(p)
    BY <1>2, ExitAssumption
       DEF ReadOrder, Goto, OrderState, venue, local, Facts, VenueFacts, PlaceFacts, RowFacts, EffectFacts, EndPlaces, Types, TypeOK, TurnType, Ended, Reading
  <1>3. CASE Record(p)
    BY <1>3, ExitAssumption
       DEF Record, Goto, Fail, Terminal, Allowed, NoReading, venue, Facts, VenueFacts, PlaceFacts, RowFacts, EffectFacts, EndPlaces, Types, TypeOK, TurnType, Ended, Reading
  <1>4. CASE ReadPositions(p)
    BY <1>4, ExitAssumption
       DEF ReadPositions, Goto, venue, local, Facts, VenueFacts, PlaceFacts, RowFacts, EffectFacts, EndPlaces, Types, TypeOK, TurnType, Ended, Reading
  <1>5. CASE ReadAlgo(p)
    BY <1>5, ExitAssumption
       DEF ReadAlgo, Goto, NoReading, Pending, venue, local, Facts, VenueFacts, PlaceFacts, RowFacts, EffectFacts, EndPlaces, Types, TypeOK, TurnType, Ended, Reading
  <1>6. CASE Judge(p)
    BY <1>6, ExitAssumption
       DEF Judge, Goto, venue, Facts, VenueFacts, PlaceFacts, RowFacts, EffectFacts, EndPlaces, Types, TypeOK, TurnType, Ended
  <1>7. CASE Capture(p)
    BY <1>7, ExitAssumption
       DEF Capture, Goto, Done, NoReading, venue, Facts, VenueFacts, PlaceFacts, RowFacts, EffectFacts, EndPlaces, Types, TypeOK, TurnType, Ended, Reading
  <1>8. CASE Inventory(p)
    BY <1>8, ExitAssumption
       DEF Inventory, Goto, Pending, venue, local, Facts, VenueFacts, PlaceFacts, RowFacts, EffectFacts, EndPlaces, Types, TypeOK, TurnType, Ended
  <1>9. CASE FlatCheck(p)
    BY <1>9, ExitAssumption
       DEF FlatCheck, Goto, Fail, venue, local, Facts, VenueFacts, PlaceFacts, RowFacts, EffectFacts, EndPlaces, Types, TypeOK, TurnType, Ended
  <1>10. CASE BeginCleanup(p)
    <2>1. \A k \in Keys : ops'[k] = "done" => ops[k] = "done"
      BY <1>10 DEF BeginCleanup, Begin, Goto, Types, TypeOK
    <2>2. "cleanup" \in Keys /\ "safety_cancel" \in Keys
      BY DEF Keys
    <2>3. PICK w \in {"postCleanup", "idle"} : pc' = [pc EXCEPT ![p] = w]
      BY <1>10 DEF BeginCleanup, Begin, Goto
    <2>4. UNCHANGED <<venue, istate, rd, closed, bare, late, replaced>> /\ pc[p] = "beginCleanup"
      BY <1>10 DEF BeginCleanup, BeginRest
    <2> QED
      BY <2>1, <2>2, <2>3, <2>4
         DEF venue, Facts, VenueFacts, PlaceFacts, RowFacts, EffectFacts, EndPlaces, Types, TypeOK, TurnType, Ended
  <1>11. CASE PostCleanup(p)
    BY <1>11, ExitAssumption
       DEF PostCleanup, CancelAlgo, Posted, Goto, Fail, local, Facts, VenueFacts, PlaceFacts, RowFacts, EffectFacts, EndPlaces, Types, TypeOK, TurnType, Ended
  <1>12. CASE VerifyCleanup(p)
    BY <1>12, ExitAssumption
       DEF VerifyCleanup, Pending, Goto, Fail, venue, local, Facts, VenueFacts, PlaceFacts, RowFacts, EffectFacts, EndPlaces, Types, TypeOK, TurnType, Ended
  <1>13. CASE ReceiptCleanup(p)
    BY <1>13, ExitAssumption
       DEF ReceiptCleanup, Receipt, BeginRest, Goto, venue, Facts, VenueFacts, PlaceFacts, RowFacts, EffectFacts, EndPlaces, Types, TypeOK, TurnType, Ended
  <1>14. CASE ExitRead(p)
    BY <1>14, ExitAssumption
       DEF ExitRead, Goto, venue, local, Facts, VenueFacts, PlaceFacts, RowFacts, EffectFacts, EndPlaces, Types, TypeOK, TurnType, Ended, Reading
  <1>15. CASE BeginExit(p)
    <2>1. \A k \in Keys : ops'[k] = "done" => ops[k] = "done"
      BY <1>15 DEF BeginExit, Begin, Goto, Types, TypeOK
    <2>2. "cleanup" \in Keys /\ "safety_cancel" \in Keys
      BY DEF Keys
    <2>3. PICK w \in {"postExit", "idle", "after"} : pc' = [pc EXCEPT ![p] = w]
      BY <1>15 DEF BeginExit, Begin, Goto
    <2>4. UNCHANGED <<venue, istate, rd, closed, bare, late, replaced>> /\ pc[p] = "beginExit"
      BY <1>15 DEF BeginExit, BeginRest
    <2> QED
      BY <2>1, <2>2, <2>3, <2>4
         DEF venue, Facts, VenueFacts, PlaceFacts, RowFacts, EffectFacts, EndPlaces, Types, TypeOK, TurnType, Ended
  <1>16. CASE PostExit(p)
    BY <1>16, ExitAssumption
       DEF PostExit, Cancel, Posted, Goto, Done, local, Facts, VenueFacts, PlaceFacts, RowFacts, EffectFacts, EndPlaces, Types, TypeOK, TurnType, Ended
  <1>17. CASE ExitReadback(p)
    BY <1>17, ExitAssumption
       DEF ExitReadback, Goto, Done, venue, local, Facts, VenueFacts, PlaceFacts, RowFacts, EffectFacts, EndPlaces, Types, TypeOK, TurnType, Ended, Reading
  <1>18. CASE ReceiptExit(p)
    BY <1>18, ExitAssumption
       DEF ReceiptExit, Receipt, BeginRest, Goto, venue, Facts, VenueFacts, PlaceFacts, RowFacts, EffectFacts, EndPlaces, Types, TypeOK, TurnType, Ended
  <1>19. CASE ExitCapture(p)
    BY <1>19, ExitAssumption
       DEF ExitCapture, Goto, venue, Facts, VenueFacts, PlaceFacts, RowFacts, EffectFacts, EndPlaces, Types, TypeOK, TurnType, Ended
  <1>20. CASE Close(p)
    <2>1. pos = 0 => pos' = 0
      <3>1. ASSUME NEW o \in CloseOutcomes, pos = 0, pos' = pos - CloseFill(o) PROVE pos' = 0
        BY <3>1, CloseFillBounds
      <3> QED
        BY <1>20, <3>1 DEF Close
    <2>2. PICK w \in {"idle", "after"} : pc' = [pc EXCEPT ![p] = w]
      BY <1>20 DEF Close, Done, Fail, Goto
    <2>3. UNCHANGED <<entry, algo, istate, ops, rd, bare, late, replaced>> /\ pc[p] = "close"
      BY <1>20, Zenon DEF Close
    <2> QED
      BY <2>1, <2>2, <2>3
         DEF Facts, VenueFacts, PlaceFacts, RowFacts, EffectFacts, EndPlaces, Types, TypeOK, TurnType, Ended
  <1>21. CASE UserPost(p)
    BY <1>21, ExitAssumption
       DEF UserPost, Cancel, Posted, Goto, Done, local, Facts, VenueFacts, PlaceFacts, RowFacts, EffectFacts, EndPlaces, Types, TypeOK, TurnType, Ended
  <1>22. CASE UserReceipt(p)
    BY <1>22, ExitAssumption
       DEF UserReceipt, Receipt, BeginRest, Goto, venue, Facts, VenueFacts, PlaceFacts, RowFacts, EffectFacts, EndPlaces, Types, TypeOK, TurnType, Ended
  <1>23. CASE After(p)
    BY <1>23, ExitAssumption
       DEF After, Goto, Fail, venue, local, Facts, VenueFacts, PlaceFacts, RowFacts, EffectFacts, EndPlaces, Types, TypeOK, TurnType, Ended
  <1>24. CASE Recheck(p)
    BY <1>24, ExitAssumption
       DEF Recheck, Open, Goto, Fail, venue, local, Facts, VenueFacts, PlaceFacts, RowFacts, EffectFacts, EndPlaces, Types, TypeOK, TurnType, Ended
  <1>25. CASE ReadFails(p)
    BY <1>25, ExitAssumption
       DEF ReadFails, Fault, Goto, Done, Fail, venue, local, Facts, VenueFacts, PlaceFacts, RowFacts, EffectFacts, EndPlaces, Types, TypeOK, TurnType, Ended, Reading
  <1>26. CASE CaptureFails(p)
    BY <1>26, ExitAssumption
       DEF CaptureFails, Fault, Goto, Done, Fail, NoReading, venue, local, Facts, VenueFacts, PlaceFacts, RowFacts, EffectFacts, EndPlaces, Types, TypeOK, TurnType, Ended, Reading
  <1>27. CASE ClockFails(p)
    BY <1>27, ExitAssumption
       DEF ClockFails, Fault, Goto, Fail, venue, local, Facts, VenueFacts, PlaceFacts, RowFacts, EffectFacts, EndPlaces, Types, TypeOK, TurnType, Ended
  <1>28. CASE RequestLost(p)
    BY <1>28, ExitAssumption
       DEF RequestLost, Fault, Goto, Done, Fail, venue, local, Facts, VenueFacts, PlaceFacts, RowFacts, EffectFacts, EndPlaces, Types, TypeOK, TurnType, Ended
  <1>29. CASE ReplyLost(p)
    BY <1>29, ExitAssumption
       DEF ReplyLost, Fault, Cancel, CancelAlgo, Posted, Goto, Done, Fail, local, Facts, VenueFacts, PlaceFacts, RowFacts, EffectFacts, EndPlaces, Types, TypeOK, TurnType, Ended
  <1>30. CASE AuthorityFails(p)
    BY <1>30, ExitAssumption
       DEF AuthorityFails, Fault, Goto, Fail, venue, local, Facts, VenueFacts, PlaceFacts, RowFacts, EffectFacts, EndPlaces, Types, TypeOK, TurnType, Ended
  <1>31. CASE RecheckFails(p)
    BY <1>31, ExitAssumption
       DEF RecheckFails, Fault, Open, Goto, venue, local, Facts, VenueFacts, PlaceFacts, RowFacts, EffectFacts, EndPlaces, Types, TypeOK, TurnType, Ended
  <1> QED
    BY <1>1, <1>2, <1>3, <1>4, <1>5, <1>6, <1>7, <1>8, <1>9, <1>10, <1>11, <1>12, <1>13, <1>14, <1>15, <1>16, <1>17, <1>18, <1>19, <1>20, <1>21, <1>22, <1>23, <1>24, <1>25, <1>26, <1>27, <1>28, <1>29, <1>30, <1>31
       DEF Step, Fails

\* Every step preserves the remaining invariants.
LEMMA NextFacts == Types /\ [Next]_vars => Facts
  <1> SUFFICES ASSUME Types, [Next]_vars PROVE Facts
    OBVIOUS
  <1>1. ASSUME NEW u \in Users, UserBegin(u) PROVE Facts
    <2>1. u \in Keys /\ u \in Procs /\ u \notin {"cleanup", "safety_cancel"}
      BY ExitAssumption DEF Keys, Procs
    <2>2. PICK w \in {"userReceipt", "userPost", "order"} : pc' = [pc EXCEPT ![u] = w]
      BY <1>1 DEF UserBegin, Begin, Goto
    <2>3. ops'["cleanup"] = ops["cleanup"] /\ ops'["safety_cancel"] = ops["safety_cancel"]
      BY <1>1, <2>1 DEF UserBegin, Begin, Keys, Types, TypeOK
    <2>4. \A q \in Procs : rd'[q].st = "cancelled" => rd[q].st = "cancelled"
      BY <1>1, <2>1 DEF UserBegin, NoReading, Types, TurnType
    <2>5. UNCHANGED <<venue, istate, closed, bare, late, replaced>>
      BY <1>1 DEF UserBegin, BeginRest
    <2> QED
      BY <2>1, <2>2, <2>3, <2>4, <2>5
         DEF venue, Facts, VenueFacts, PlaceFacts, RowFacts, EffectFacts, EndPlaces, Types, TypeOK, TurnType
  <1>2. CASE Crash
    BY <1>2 DEF Crash, venue, local, NoReading, Facts, VenueFacts, PlaceFacts, RowFacts, EffectFacts, EndPlaces
  <1>3. CASE UNCHANGED vars
    BY <1>3 DEF vars, venue, local, Facts, VenueFacts, PlaceFacts, RowFacts, EffectFacts
  <1> QED
    BY <1>1, <1>2, <1>3, VenueKeepsFacts, StepKeepsFacts DEF Next
-----------------------------------------------------------------------------
\* The invariant holds at the start.
LEMMA InitIInv == Init => IInv
  <1> SUFFICES ASSUME Init PROVE IInv
    OBVIOUS
  <1>1. Types
    BY InitTypes
  <1>2. KeyInv
    BY DEF Init, KeyInv, Admitted, PostPlaces
  <1>3. EndInv /\ StopInv
    BY DEF Init, EndInv, StopInv, CloseAfterEntryEnds, Keys
  <1>4. FlatInv /\ ReplaceInv
    BY DEF Init, FlatInv, ReplaceInv, KeepsNeededStop, NoReading
  <1> QED
    BY <1>1, <1>2, <1>3, <1>4 DEF IInv

\* Every step preserves it.
LEMMA NextIInv == IInv /\ [Next]_vars => IInv'
  BY NextTypes, NextKeys, NextFacts, FactsKeep DEF IInv

\* So it always holds.
LEMMA ExitInvariance == Spec => []IInv
  BY InitIInv, NextIInv, PTL DEF Spec

\* The venue, the rows of the ledger and the turns keep the types of the code;
\* no close sells more than is held (emergency_exit).
THEOREM ExitTypeCorrect == Spec => []TypeOK
  <1>1. IInv => TypeOK
    BY DEF IInv, Types
  <1> QED
    BY <1>1, ExitInvariance, PTL

\* begin_operation admits one caller of a key to its POST, so no cancel or cleanup
\* is sent twice, whatever the turns, the operator and a restart do.
THEOREM PostedOncePerKey == Spec => []OnePostPerKey
  <1>1. IInv => OnePostPerKey
    BY DEF IInv, KeyInv, OnePostPerKey
  <1> QED
    BY <1>1, ExitInvariance, PTL

\* emergency_exit closes a position only when its entry can fill no more.
THEOREM ClosesAfterEntryEnds == Spec => []CloseAfterEntryEnds
  <1>1. IInv => CloseAfterEntryEnds
    BY DEF IInv, EndInv
  <1> QED
    BY <1>1, ExitInvariance, PTL

\* operation_receipt is written when the venue shows what it says: the entry has
\* ended, the stop is gone, and both stay so.
THEOREM ReceiptsStayTrue == Spec => []ReceiptsAreTrue
  <1>1. IInv => ReceiptsAreTrue
    BY DEF IInv, EndInv, StopInv, ReceiptsAreTrue, Pending
  <1> QED
    BY <1>1, ExitInvariance, PTL

\* A fill between the flat snapshot and the cleanup's POST is the only way in which
\* cleanup_flat_protection takes the stop of an open position.
THEOREM StopTakenOnlyByLateFill == Spec => []KeepsNeededStop
  <1>1. IInv => KeepsNeededStop
    BY DEF IInv, FlatInv
  <1> QED
    BY <1>1, ExitInvariance, PTL

\* A readback that fails unseen is the only way in which a replacement is opened
\* beside fills of the order it replaces.
THEOREM ReplacedUnreadOnly == Spec => []ReplacementStartsFlat
  <1>1. IInv => ReplacementStartsFlat
    BY ExitAssumption DEF IInv, ReplaceInv, ReplacementStartsFlat, Types, TypeOK
  <1> QED
    BY <1>1, ExitInvariance, PTL
=============================================================================
