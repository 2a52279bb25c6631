------------------------ MODULE ControllerUpdateProofs ------------------------
(***************************************************************************)
(* The update of the controller for any versions, processes, requests and  *)
(* crashes: a candidate is in charge only after its handoff has passed, a  *)
(* commit means that the candidate proved ready, and without an activation *)
(* on disk the version in charge is one that was accepted.                 *)
(*                                                                         *)
(* The launcher works from copies it read at its start while controllers   *)
(* go on writing the same files.  The proof rests on one fact: once a      *)
(* record is acknowledged no controller changes it, so the copy of an      *)
(* acknowledged record is the record itself until the launcher clears it.  *)
(***************************************************************************)
EXTENDS ControllerUpdate, WellFoundedInduction, TLAPS

LauncherPc == {"idle", "classify", "exit", "save", "spawn", "wait", "restore", "result",
               "commit", "clear", "clearRollback", "respawn"}
ControllerPc == {"starting", "activation", "signal", "running", "post", "ack", "exited"}

Records == [req : Nat \cup {None}, old : Process \cup {None}, prev : Version \cup {None},
            cand : Version \cup {None}, ack : BOOLEAN]

PendingType ==
    /\ pending \in Records
    /\ pending.req \in Requests \cup {None} /\ ((pending.req = None) = (pending = NoPending))
    /\ pending.req # None => pending.cand \in Version \ {pending.prev} /\ pending.prev \in Version

FileType ==
    /\ active \in Version /\ {staged, failNext} \subseteq Version \cup {None}
    /\ ready \in [req : Nat \cup {None}, version : Version \cup {None}, process : Process \cup {None}]
    /\ event \in {"none", "clear", "set"} /\ (event # "none" => launcher.pc = "wait")

ProcessType ==
    controller \in [Process -> [version : Version \cup {None}, activation : Nat \cup {None},
                                pc : ControllerPc, req : Nat \cup {None}, status : {"none", "PASS", "FAIL"}]]

LauncherType ==
    launcher \in [pc : LauncherPc, active : Version \cup {None}, pending : Records,
                  child : Process \cup {None}, cleared : 0..3]

Types == script \in Scripts /\ PendingType /\ FileType /\ ProcessType /\ LauncherType

Accepted(v) == v = Initial \/ \E r \in readied : r.version = v
Proved(record) == [req |-> record.req, version |-> record.cand] \in readied

\* A controller that answers has a request, and one about to acknowledge has its PASS on the issue.
AnsweredInv ==
    \A p \in Process :
        /\ controller[p].pc \in {"post", "ack"} => controller[p].req # None
        /\ controller[p].pc = "ack" => [req |-> controller[p].req, status |-> "PASS"] \in journal

\* An acknowledged record is one whose PASS is on the issue.
AckInv == pending.ack => pending.req # None /\ durable_ack

Clearing == launcher.pc \in {"clear", "clearRollback"} /\ launcher.cleared = 0

\* The launcher is carrying out the activation of its copy.
Carrying == launcher.pc \in {"exit", "save", "spawn", "wait", "restore", "result", "commit"} \/ Clearing

\* The copies are true where they are used.
CopyInv ==
    /\ Carrying => launcher.pending = pending /\ pending.ack
    /\ launcher.pc = "classify" => /\ launcher.active = active
                                   /\ launcher.pending.ack => launcher.pending = pending

\* The version in charge is one of the two of the record, the previous one at first.
SideInv ==
    pending.req # None =>
        /\ active \in {pending.prev, pending.cand} /\ Accepted(pending.prev)
        /\ ~pending.ack => active = pending.prev

\* Which of the two it is at each place of the launcher.
ActiveInv ==
    /\ launcher.pc \in {"spawn", "wait", "commit"} => active = launcher.pending.cand
    /\ launcher.pc = "result" => active = launcher.pending.prev
    /\ Clearing => active = IF launcher.pc = "clear" THEN launcher.pending.cand ELSE launcher.pending.prev

\* A proof of readiness on disk was given.
ReadyInv ==
    /\ ready.req # None => [req |-> ready.req, version |-> ready.version] \in readied
    /\ launcher.pc = "commit" \/ (Clearing /\ launcher.pc = "clear") => Proved(launcher.pending)

IInv == Types /\ AckInv /\ CopyInv /\ SideInv /\ ActiveInv /\ ReadyInv /\ CommittedWasReady /\ ActiveIsAccepted
-----------------------------------------------------------------------------
\* The elements of a sequence over S are in S.
LEMMA SeqElements ==
  ASSUME NEW S, NEW s \in Seq(S)
  PROVE  Len(s) \in Nat /\ \A k \in 1..Len(s) : s[k] \in S
  OBVIOUS

\* While a request has no result, the next one is an open request with a version.
LEMMA NextRequestIsOpen ==
  ASSUME Types, Requests \ Terminal # {}
  PROVE  /\ Next_request \in Requests /\ Next_request \in Nat
         /\ script[Next_request].version \in Version
  <1> DEFINE Less == {ss \in Nat \X Nat : ss[1] < ss[2]}
  <1>1. script \in Seq([op : Operation, version : Version])
    BY UpdateAssumption DEF Types
  <1>2. Len(script) \in Nat /\ \A k \in 1..Len(script) : script[k].version \in Version
    <2>1. Len(script) \in Nat /\ \A k \in 1..Len(script) : script[k] \in [op : Operation, version : Version]
      BY <1>1, SeqElements
    <2> QED
      BY <2>1
  <1>3. Requests \subseteq Nat
    BY <1>2 DEF Requests
  <1>4. IsWellFoundedOn(Less, Nat)
    BY NatLessThanWellFounded, Zenon DEF OpToRel
  <1>5. PICK k \in Requests \ Terminal : \A j \in Requests \ Terminal : ~(<<j, k>> \in Less)
    <2> HIDE DEF Less
    <2>1. Requests \ Terminal \subseteq Nat
      BY <1>3
    <2> QED
      BY <1>4, <2>1, WFMin
  <1>6. \A j \in Requests \ Terminal : k <= j
    <2> SUFFICES ASSUME NEW j \in Requests \ Terminal, j < k PROVE FALSE
      BY <1>3
    <2>1. j \in Nat /\ k \in Nat
      BY <1>3
    <2>2. <<j, k>> \in Nat \X Nat /\ <<j, k>>[1] = j /\ <<j, k>>[2] = k
      BY <2>1
    <2>3. <<j, k>> \in Less
      BY <2>2, Zenon
    <2> QED
      BY <1>5, <2>3
  <1>7. Next_request \in Requests \ Terminal
    BY <1>6, Zenon DEF Next_request
  <1> QED
    BY <1>2, <1>3, <1>7 DEF Requests

\* What a controller may do to the files and the issue.
ControllerFacts ==
    /\ UNCHANGED <<active, launcher, lastResult, script>>
    /\ journal \subseteq journal' /\ readied \subseteq readied'
    /\ \/ UNCHANGED pending
       \/ /\ pending.req # None /\ (pending.ack \/ durable_ack)
          /\ pending' = [pending EXCEPT !.ack = TRUE]
       \/ ~pending.ack /\ pending' = NoPending
       \/ /\ pending.req = None
          /\ \E k \in Requests, q \in Process, v \in Version \ {active} :
                pending' = [req |-> k, old |-> q, prev |-> active, cand |-> v, ack |-> FALSE]
    /\ ready'.req # None => \/ UNCHANGED ready
                            \/ [req |-> ready'.req, version |-> ready'.version] \in readied'

\* The empty records are what they look like.
LEMMA NoPendingFacts ==
    /\ NoPending \in Records /\ NoPending.req = None /\ NoPending.ack = FALSE
    /\ NoReady.req = None /\ NoReady.process = None
    /\ NoReady \in [req : Nat \cup {None}, version : Version \cup {None}, process : Process \cup {None}]
    /\ IdleLauncher.pc = "idle"
    /\ IdleLauncher \in [pc : LauncherPc, active : Version \cup {None}, pending : Records,
                         child : Process \cup {None}, cleared : 0..3]
  <1>1. NoPending \in Records /\ NoPending.req = None /\ NoPending.ack = FALSE
    BY DEF NoPending, Records
  <1> QED
    BY <1>1 DEF NoReady, IdleLauncher, LauncherPc

\* A controller step keeps what the launcher counts on.
LEMMA ControllerKeeps ==
  ASSUME IInv, Types', ControllerFacts
  PROVE  IInv'
  <1>0. /\ active' = active /\ launcher' = launcher /\ lastResult' = lastResult
        /\ journal \subseteq journal' /\ readied \subseteq readied'
    BY DEF ControllerFacts
  <1>1. \A v : Accepted(v) => Accepted(v)'
    BY <1>0 DEF Accepted
  <1>2. \A r \in Records : Proved(r) => Proved(r)'
    BY <1>0 DEF Proved
  <1>3. ReadyInv'
    BY <1>0, <1>2 DEF IInv, ReadyInv, ControllerFacts, Clearing, Types, Proved
  <1>4. ActiveInv'
    BY <1>0 DEF IInv, ActiveInv, Clearing
  <1>5. CommittedWasReady'
    BY <1>0 DEF IInv, CommittedWasReady
  <1>6. AckInv' /\ CopyInv' /\ SideInv' /\ ActiveIsAccepted'
    <2>1. CASE UNCHANGED pending
      BY <1>0, <1>1, <2>1 DEF IInv, AckInv, durable_ack, CopyInv, Carrying, Clearing, SideInv, ActiveIsAccepted, Accepted
    <2>2. CASE pending.req # None /\ (pending.ack \/ durable_ack) /\ pending' = [pending EXCEPT !.ack = TRUE]
      <3>1. /\ pending'.req = pending.req /\ pending'.prev = pending.prev /\ pending'.cand = pending.cand
            /\ pending'.ack = TRUE /\ (pending.ack => pending' = pending)
        BY <2>2 DEF IInv, Types, PendingType, Records
      <3>2. AckInv'
        BY <1>0, <2>2, <3>1 DEF IInv, AckInv, durable_ack
      <3>3. CopyInv'
        BY <1>0, <3>1 DEF IInv, CopyInv, Carrying, Clearing
      <3> QED
        BY <1>0, <1>1, <2>2, <3>1, <3>2, <3>3 DEF IInv, SideInv, ActiveIsAccepted
    <2>3. CASE ~pending.ack /\ pending' = NoPending
      <3>1. pending'.req = None /\ pending'.ack = FALSE
        BY <2>3, NoPendingFacts
      <3>2. Accepted(active)
        BY <2>3 DEF IInv, SideInv, ActiveIsAccepted, Accepted
      <3>3. CopyInv'
        BY <1>0, <2>3 DEF IInv, CopyInv, Carrying, Clearing
      <3> QED
        BY <1>0, <1>1, <3>1, <3>2, <3>3 DEF AckInv, SideInv, ActiveIsAccepted, Accepted
    <2>4. ASSUME pending.req = None, NEW k \in Requests, NEW q \in Process, NEW v \in Version \ {active},
                 pending' = [req |-> k, old |-> q, prev |-> active, cand |-> v, ack |-> FALSE]
          PROVE  AckInv' /\ CopyInv' /\ SideInv' /\ ActiveIsAccepted'
      <3>1. /\ pending'.req = k /\ pending'.prev = active /\ pending'.ack = FALSE
        BY <2>4
      <3>2. ~pending.ack
        BY <2>4 DEF IInv, AckInv
      <3>3. Accepted(active)
        BY <2>4 DEF IInv, ActiveIsAccepted, Accepted
      <3>4. k # None
        BY UpdateAssumption DEF Requests, IInv, Types
      <3>5. CopyInv'
        BY <1>0, <3>2 DEF IInv, CopyInv, Carrying, Clearing
      <3> QED
        BY <1>0, <1>1, <3>1, <3>3, <3>4, <3>5 DEF AckInv, SideInv, ActiveIsAccepted
    <2> QED
      BY <2>1, <2>2, <2>3, <2>4 DEF ControllerFacts
  <1> QED
    BY <1>3, <1>4, <1>5, <1>6 DEF IInv
-----------------------------------------------------------------------------
\* Every step of a controller, and its death, does no more to the shared files than ControllerFacts says.
LEMMA ControllerStepFacts == ASSUME Types, AnsweredInv, NEW p \in Process, ControllerStep(p) \/ ControllerDies(p) PROVE ControllerFacts
  <1>1. CASE Acquire(p)
    BY <1>1, UpdateAssumption
       DEF Acquire, Exit, Move, files, ControllerFacts
  <1>2. CASE consume_fail_next_activation(p)
    BY <1>2, UpdateAssumption
       DEF consume_fail_next_activation, Exit, ControllerFacts
  <1>3. CASE signal_controller_ready(p)
    BY <1>3, UpdateAssumption
       DEF signal_controller_ready, Exit, Move, Expected, ControllerFacts
  <1>12. CASE signal_ready_event(p)
    BY <1>12 DEF signal_ready_event, files, ControllerFacts
  <1>4. CASE maybe_resume_controller_handoff(p)
    BY <1>4, UpdateAssumption
       DEF maybe_resume_controller_handoff, Exit, ControllerFacts, durable_ack
  <1>5. CASE stage_update(p)
    BY <1>5, UpdateAssumption, NextRequestIsOpen
       DEF stage_update, Handling, Answer, Fails, ControllerFacts
  <1>6. CASE prepare_activation(p)
    <2>1. UNCHANGED <<active, launcher, lastResult, script, journal, readied>>
      BY <1>6 DEF prepare_activation, Answer, Fails
    <2>2. \/ UNCHANGED <<pending, ready>>
          \/ /\ pending.req = None /\ ready' = NoReady /\ staged \notin {None, active}
             /\ pending' = [req |-> Next_request, old |-> p, prev |-> active, cand |-> staged, ack |-> FALSE]
      BY <1>6 DEF prepare_activation, Fails
    <2>3. Next_request \in Requests
      BY <1>6, NextRequestIsOpen DEF prepare_activation, Handling
    <2>4. staged \notin {None, active} => staged \in Version \ {active}
      BY DEF Types, FileType
    <2> QED
      BY <2>1, <2>2, <2>3, <2>4, NoPendingFacts DEF ControllerFacts
  <1>7. CASE arm_fail_next_activation(p)
    BY <1>7, UpdateAssumption, NextRequestIsOpen
       DEF arm_fail_next_activation, Handling, Answer, Fails, ControllerFacts
  <1>8. CASE abort_update(p)
    BY <1>8, UpdateAssumption, NextRequestIsOpen, NoPendingFacts
       DEF abort_update, Handling, Answer, ControllerFacts
  <1>9. CASE post_issue_comment(p)
    BY <1>9, UpdateAssumption
       DEF post_issue_comment, Move, files, ControllerFacts
  <1>10. CASE mark_terminal_ack(p)
    <2>1. UNCHANGED <<active, launcher, lastResult, script, journal, readied, ready>>
      BY <1>10 DEF mark_terminal_ack
    <2>2. UNCHANGED pending \/ (pending.req = controller[p].req /\ pending' = [pending EXCEPT !.ack = TRUE])
      BY <1>10 DEF mark_terminal_ack
    <2>3. [req |-> controller[p].req, status |-> "PASS"] \in journal
      BY <1>10 DEF mark_terminal_ack, AnsweredInv
    <2>4. CASE UNCHANGED pending
      BY <2>1, <2>4 DEF ControllerFacts
    <2>5. CASE pending.req = controller[p].req /\ pending.req # None /\ pending' = [pending EXCEPT !.ack = TRUE]
      <3>1. durable_ack
        BY <2>3, <2>5 DEF durable_ack
      <3> QED
        BY <2>1, <2>5, <3>1 DEF ControllerFacts
    <2>6. CASE pending.req = controller[p].req /\ pending.req = None
      BY <1>10, <2>6 DEF mark_terminal_ack, AnsweredInv
    <2> QED
      BY <2>2, <2>4, <2>5, <2>6
  <1>11. CASE ControllerDies(p)
    BY <1>11, UpdateAssumption
       DEF ControllerDies, Exit, files, ControllerFacts
  <1> QED
    BY <1>1, <1>2, <1>3, <1>4, <1>5, <1>6, <1>7, <1>8, <1>9, <1>10, <1>11, <1>12 DEF ControllerStep

\* Such a step keeps the activation record well formed.
LEMMA ControllerPending == ASSUME Types, ControllerFacts PROVE PendingType'
  <1>0. PendingType /\ UNCHANGED script
    BY DEF Types, ControllerFacts
  <1>1. CASE UNCHANGED pending
    BY <1>0, <1>1 DEF PendingType, Requests
  <1>2. CASE pending.req # None /\ pending' = [pending EXCEPT !.ack = TRUE]
    <2>1. /\ pending'.req = pending.req /\ pending'.prev = pending.prev /\ pending'.cand = pending.cand
          /\ pending' \in Records
      BY <1>0, <1>2 DEF PendingType, Records
    <2> QED
      BY <1>0, <1>2, <2>1, NoPendingFacts DEF PendingType, Requests
  <1>3. CASE pending' = NoPending
    BY <1>3, NoPendingFacts DEF PendingType
  <1>4. ASSUME NEW k \in Requests, NEW q \in Process, NEW v \in Version \ {active},
               pending' = [req |-> k, old |-> q, prev |-> active, cand |-> v, ack |-> FALSE]
        PROVE  PendingType'
    <2>1. k \in Nat /\ k # None
      BY UpdateAssumption DEF Requests, Types
    <2>2. active \in Version
      BY DEF Types, FileType
    <2>3. pending' \in Records /\ pending'.req = k /\ pending'.cand = v /\ pending'.prev = active
      BY <1>4, <2>1, <2>2 DEF Records
    <2> QED
      BY <1>0, <2>1, <2>2, <2>3, NoPendingFacts DEF PendingType, Requests
  <1> QED
    BY <1>1, <1>2, <1>3, <1>4 DEF ControllerFacts

\* It keeps the other files well formed.
LEMMA ControllerFiles == ASSUME Types, NEW p \in Process, ControllerStep(p) \/ ControllerDies(p) PROVE FileType'
  <1>0. FileType /\ PendingType
    BY DEF Types
  <1>1. CASE Acquire(p)
    BY <1>0, <1>1 DEF Acquire, files, FileType
  <1>2. CASE consume_fail_next_activation(p)
    BY <1>0, <1>2 DEF consume_fail_next_activation, FileType
  <1>3. CASE signal_controller_ready(p)
    BY <1>0, <1>3 DEF signal_controller_ready, Expected, PendingType, Records, FileType
  <1>12. CASE signal_ready_event(p)
    BY <1>0, <1>12 DEF signal_ready_event, files, FileType
  <1>4. CASE maybe_resume_controller_handoff(p)
    BY <1>0, <1>4 DEF maybe_resume_controller_handoff, FileType
  <1>5. CASE stage_update(p)
    BY <1>0, <1>5, NextRequestIsOpen DEF stage_update, Handling, Answer, Fails, FileType
  <1>6. CASE prepare_activation(p)
    BY <1>0, <1>6, NoPendingFacts DEF prepare_activation, Answer, Fails, FileType
  <1>7. CASE arm_fail_next_activation(p)
    BY <1>0, <1>7 DEF arm_fail_next_activation, Answer, Fails, FileType
  <1>8. CASE abort_update(p)
    BY <1>0, <1>8, NoPendingFacts DEF abort_update, Answer, FileType
  <1>9. CASE post_issue_comment(p)
    BY <1>0, <1>9 DEF post_issue_comment, files, FileType
  <1>10. CASE mark_terminal_ack(p)
    BY <1>0, <1>10 DEF mark_terminal_ack, FileType
  <1>11. CASE ControllerDies(p)
    BY <1>0, <1>11 DEF ControllerDies, files, FileType
  <1> QED
    BY <1>1, <1>2, <1>3, <1>4, <1>5, <1>6, <1>7, <1>8, <1>9, <1>10, <1>11, <1>12 DEF ControllerStep

\* It keeps the processes well formed.
LEMMA ControllerProcesses == ASSUME Types, NEW p \in Process, ControllerStep(p) \/ ControllerDies(p) PROVE ProcessType'
  <1>0. ProcessType
    BY DEF Types
  <1>1. \/ UNCHANGED controller \/ Exit(p)
        \/ \E w \in ControllerPc : Move(p, w)
        \/ \E w \in ControllerPc, k \in Nat, r \in {"PASS", "FAIL"} :
              controller' = [controller EXCEPT ![p].pc = w, ![p].req = k, ![p].status = r]
    <2> USE DEF ControllerPc
    <2>1. CASE Acquire(p)
      BY <2>1 DEF Acquire
    <2>2. CASE consume_fail_next_activation(p)
      BY <2>2 DEF consume_fail_next_activation
    <2>3. CASE signal_controller_ready(p)
      BY <2>3 DEF signal_controller_ready
    <2>12. CASE signal_ready_event(p)
      BY <2>12 DEF signal_ready_event
    <2>4. CASE maybe_resume_controller_handoff(p)
      BY <2>4 DEF maybe_resume_controller_handoff
    <2>5. CASE stage_update(p)
      BY <2>5, NextRequestIsOpen DEF stage_update, Handling, Answer, Fails
    <2>6. CASE prepare_activation(p)
      BY <2>6, NextRequestIsOpen DEF prepare_activation, Handling, Answer, Fails
    <2>7. CASE arm_fail_next_activation(p)
      BY <2>7, NextRequestIsOpen DEF arm_fail_next_activation, Handling, Answer, Fails
    <2>8. CASE abort_update(p)
      BY <2>8, NextRequestIsOpen DEF abort_update, Handling, Answer
    <2>9. CASE post_issue_comment(p)
      BY <2>9 DEF post_issue_comment
    <2>10. CASE mark_terminal_ack(p)
      BY <2>10 DEF mark_terminal_ack
    <2>11. CASE ControllerDies(p)
      BY <2>11 DEF ControllerDies
    <2> QED
      BY <2>1, <2>2, <2>3, <2>4, <2>5, <2>6, <2>7, <2>8, <2>9, <2>10, <2>11, <2>12 DEF ControllerStep
  <1>2. CASE Exit(p)
    BY <1>0, <1>2 DEF Exit, NoProcess, ProcessType, ControllerPc
  <1>3. ASSUME NEW w \in ControllerPc, Move(p, w) PROVE ProcessType'
    BY <1>0, <1>3 DEF Move, ProcessType
  <1>4. ASSUME NEW w \in ControllerPc, NEW k \in Nat, NEW r \in {"PASS", "FAIL"},
               controller' = [controller EXCEPT ![p].pc = w, ![p].req = k, ![p].status = r]
        PROVE  ProcessType'
    BY <1>0, <1>4 DEF ProcessType
  <1>5. CASE UNCHANGED controller
    BY <1>0, <1>5 DEF ProcessType
  <1> QED
    BY <1>1, <1>2, <1>3, <1>4, <1>5

\* A step or the death of a controller preserves the invariant.
LEMMA ControllerIInv == ASSUME IInv, AnsweredInv, NEW p \in Process, ControllerStep(p) \/ ControllerDies(p) PROVE IInv'
  <1>1. Types /\ ControllerFacts
    BY ControllerStepFacts DEF IInv
  <1>2. script' \in Scripts /\ LauncherType'
    BY <1>1 DEF Types, ControllerFacts, LauncherType
  <1>3. Types'
    BY <1>1, <1>2, ControllerPending, ControllerFiles, ControllerProcesses DEF Types
  <1> QED
    BY <1>1, <1>3, ControllerKeeps
-----------------------------------------------------------------------------
Launchers == [pc : LauncherPc, active : Version \cup {None}, pending : Records,
              child : Process \cup {None}, cleared : 0..3]

\* Goto changes the place of the launcher and nothing else.
LEMMA GotoFields ==
  ASSUME Types, NEW w \in LauncherPc
  PROVE  /\ Goto(w) \in Launchers /\ Goto(w).pc = w /\ Goto(w).pending = launcher.pending
         /\ Goto(w).active = launcher.active /\ Goto(w).cleared = launcher.cleared
  BY DEF Goto, Types, LauncherType, Launchers

\* No event outlives the wait of its launcher.
LEMMA NoEvent == ASSUME Types, launcher.pc # "wait" PROVE event = "none"
  BY DEF Types, FileType

\* Only the launcher and its processes move; it stops or it goes where nothing is counted on.
LEMMA LauncherStops ==
  ASSUME IInv, UNCHANGED <<script, journal, readied, files>>, ProcessType', event' = "none",
         launcher' = IdleLauncher
  PROVE  IInv'
  <1>1. launcher'.pc = "idle" /\ LauncherType'
    BY NoPendingFacts DEF LauncherType
  <1>2. UNCHANGED <<active, staged, pending, ready, failNext, lastResult>>
    BY DEF files
  <1>3. Types'
    BY <1>1, <1>2 DEF IInv, Types, PendingType, FileType, Requests
  <1> QED
    BY <1>1, <1>2, <1>3 DEF IInv, AckInv, durable_ack, CopyInv, Carrying, Clearing, SideInv, ActiveInv, ReadyInv,
       CommittedWasReady, ActiveIsAccepted, Accepted

\* A spawned controller is well formed.
LEMMA SpawnType ==
  ASSUME Types, NEW p \in Process, NEW v \in Version \cup {None}, NEW k \in Nat \cup {None},
         spawn_controller(p, v, k)
  PROVE  ProcessType'
  BY DEF spawn_controller, Types, ProcessType, ControllerPc

\* The launcher goes from one place to another and leaves the files alone.
LEMMA LauncherGoes ==
  ASSUME IInv, NEW w \in LauncherPc, LauncherStep(Goto(w)), UNCHANGED <<files, controller>>, event' = "none",
         w \in {"exit", "save", "restore", "commit"},
         launcher.pending = pending, pending.ack,
         w = "commit" => active = launcher.pending.cand /\ Proved(launcher.pending)
  PROVE  IInv'
  <1>1. /\ launcher' \in Launchers /\ launcher'.pc = w /\ launcher'.pending = launcher.pending
    BY GotoFields DEF LauncherStep, IInv
  <1>2. UNCHANGED <<active, staged, pending, ready, failNext, lastResult, script, journal, readied>>
    BY DEF files, LauncherStep
  <1>3. Types'
    BY <1>1, <1>2 DEF IInv, Types, PendingType, FileType, ProcessType, LauncherType, Launchers, Requests
  <1> QED
    BY <1>1, <1>2, <1>3 DEF IInv, AckInv, durable_ack, CopyInv, Carrying, Clearing, SideInv, ActiveInv, ReadyInv,
       CommittedWasReady, ActiveIsAccepted, Accepted, Proved

\* Every step of the launcher preserves the invariant.
LEMMA LauncherIInv == ASSUME IInv, LauncherRun PROVE IInv'
  <1>0. /\ Types /\ active \in Version /\ pending \in Records /\ launcher \in Launchers /\ ProcessType /\ FileType
        /\ PendingType /\ LauncherType /\ script \in Scripts /\ AckInv /\ CopyInv /\ SideInv /\ ActiveInv /\ ReadyInv
        /\ CommittedWasReady /\ ActiveIsAccepted
    BY DEF IInv, Types, FileType, PendingType, LauncherType, Launchers
  <1>1. CASE Load
    <2>1. launcher' = [IdleLauncher EXCEPT !.pc = "classify", !.active = active, !.pending = pending]
      BY <1>1 DEF Load, LauncherStep
    <2>2. /\ launcher'.pc = "classify" /\ launcher'.active = active /\ launcher'.pending = pending
          /\ LauncherType'
      BY <1>0, <2>1, NoPendingFacts DEF LauncherType, LauncherPc
    <2>3. UNCHANGED <<active, staged, pending, ready, failNext, lastResult, script, journal, readied, controller>>
      BY <1>1 DEF Load, LauncherStep, files
    <2>4. event' = "none"
      BY <1>0, <1>1, NoEvent DEF Load, At
    <2>5. Types'
      BY <1>0, <2>2, <2>3, <2>4 DEF Types, PendingType, FileType, ProcessType, Requests
    <2> QED
      BY <1>0, <2>2, <2>3, <2>5 DEF IInv, AckInv, durable_ack, CopyInv, Carrying, Clearing, SideInv, ActiveInv,
         ReadyInv, CommittedWasReady, ActiveIsAccepted, Accepted
  <1>2. CASE Return
    BY <1>0, <1>2, NoEvent, LauncherStops DEF Return, LauncherStep, At, ProcessType
  <1>3. CASE Start
    <2>1. PICK p \in Process, v \in Version \cup {None} : spawn_controller(p, v, None)
      BY <1>0, <1>3 DEF Start, Launchers, Records
    <2>2. ProcessType'
      BY <1>0, <2>1, SpawnType
    <2> QED
      BY <1>0, <1>3, <2>2, NoEvent, LauncherStops DEF Start, LauncherStep, At
  <1>4. CASE Recover
    <2>1. PICK w \in {"commit", "restore", "exit"} :
            /\ LauncherStep(Goto(w))
            /\ w = "commit" => classify_recovery = "CommitDurableReady"
      BY <1>4 DEF Recover
    <2>2. /\ launcher.pc = "classify" /\ event' = "none" /\ UNCHANGED <<files, controller>>
      BY <1>0, <1>4, NoEvent DEF Recover, At
    <2>3. /\ launcher.pending.req # None /\ launcher.pending.ack
          /\ classify_recovery = "CommitDurableReady" =>
                launcher.active = launcher.pending.cand /\ ReadyExact(launcher.pending)
      BY <1>4 DEF Recover, classify_recovery, Acknowledged, Provisional
    <2>4. launcher.pending = pending /\ launcher.active = active
      BY <1>0, <2>2, <2>3 DEF CopyInv
    <2>5. w = "commit" => active = launcher.pending.cand /\ Proved(launcher.pending)
      BY <1>0, <2>1, <2>3, <2>4 DEF ReadyExact, ReadyInv, Proved
    <2> QED
      BY <2>1, <2>2, <2>3, <2>4, <2>5, LauncherGoes DEF LauncherPc
  <1>5. CASE AwaitOldExit
    <2>1. launcher.pending = pending /\ pending.ack /\ event' = "none" /\ UNCHANGED <<files, controller>>
      BY <1>0, <1>5, NoEvent DEF AwaitOldExit, At, CopyInv, Carrying
    <2>2. CASE controller_running
      BY <1>0, <1>5, <2>1, <2>2, LauncherStops DEF AwaitOldExit, LauncherStep, ProcessType
    <2>3. CASE ~controller_running
      BY <1>5, <2>1, <2>3, LauncherGoes DEF AwaitOldExit, LauncherPc
    <2> QED
      BY <2>2, <2>3
  <1>6. CASE SaveCandidate
    <2>1. /\ launcher' \in Launchers /\ launcher'.pc = "spawn" /\ launcher'.pending = launcher.pending
      BY <1>0, <1>6, GotoFields DEF SaveCandidate, LauncherStep, LauncherPc
    <2>2. /\ launcher.pending = pending /\ pending.ack /\ event' = "none" /\ active' = pending.cand
      BY <1>0, <1>6, NoEvent DEF SaveCandidate, At, CopyInv, Carrying
    <2>3. UNCHANGED <<staged, pending, ready, failNext, lastResult, script, journal, readied, controller>>
      BY <1>6 DEF SaveCandidate, LauncherStep
    <2>4. pending.req # None /\ pending.cand \in Version
      BY <1>0, <2>2 DEF AckInv, PendingType
    <2>5. Types'
      BY <1>0, <2>1, <2>2, <2>3, <2>4 DEF Types, PendingType, FileType, ProcessType, LauncherType, Launchers, Requests
    <2> QED
      BY <1>0, <2>1, <2>2, <2>3, <2>4, <2>5 DEF IInv, AckInv, durable_ack, CopyInv, Carrying, Clearing, SideInv,
         ActiveInv, ReadyInv, CommittedWasReady, ActiveIsAccepted, Accepted
  <1>7. CASE SpawnCandidate
    <2>1. PICK p \in Process : /\ spawn_controller(p, launcher.pending.cand, launcher.pending.req)
                               /\ launcher' = [launcher EXCEPT !.pc = "wait", !.child = p]
      BY <1>7 DEF SpawnCandidate, LauncherStep
    <2>2. /\ launcher' \in Launchers /\ launcher'.pc = "wait" /\ launcher'.pending = launcher.pending
      BY <1>0, <2>1 DEF Launchers, LauncherPc
    <2>3. ProcessType'
      BY <1>0, <2>1, SpawnType DEF Launchers, Records
    <2>4. /\ launcher.pc = "spawn" /\ ready' = NoReady /\ event' = "clear"
          /\ UNCHANGED <<active, staged, pending, failNext, lastResult, script, journal, readied>>
      BY <1>7 DEF SpawnCandidate, LauncherStep, At
    <2>5. Types'
      BY <1>0, <2>2, <2>3, <2>4, NoPendingFacts DEF Types, PendingType, FileType, LauncherType, Launchers, Requests
    <2> QED
      BY <1>0, <2>2, <2>4, <2>5, NoPendingFacts DEF IInv, AckInv, durable_ack, CopyInv, Carrying, Clearing, SideInv,
         ActiveInv, ReadyInv, CommittedWasReady, ActiveIsAccepted, Accepted
  <1>8. CASE wait_with_child
    <2>1. PICK w \in {"commit", "restore"} : LauncherStep(Goto(w)) /\ (w = "commit" => ReadyIsChild)
      BY <1>8 DEF wait_with_child
    <2>2. /\ launcher.pc = "wait" /\ event' = "none" /\ UNCHANGED <<files, controller>>
      BY <1>8 DEF wait_with_child, At
    <2>3. launcher.pending = pending /\ pending.ack /\ active = launcher.pending.cand /\ pending.req # None
      BY <1>0, <2>2 DEF CopyInv, Carrying, ActiveInv, AckInv
    <2>4. w = "commit" => Proved(launcher.pending)
      BY <1>0, <2>1, <2>3 DEF ReadyIsChild, ReadyExact, ReadyInv, Proved
    <2> QED
      BY <2>1, <2>2, <2>3, <2>4, LauncherGoes DEF LauncherPc
  <1>9. CASE commit_activation
    <2>1. /\ launcher' \in Launchers /\ launcher'.pc = "clear" /\ launcher'.pending = launcher.pending
          /\ launcher'.cleared = launcher.cleared
      BY <1>0, <1>9, GotoFields DEF commit_activation, LauncherStep, LauncherPc
    <2>2. /\ launcher.pc = "commit" /\ event' = "none"
          /\ UNCHANGED <<active, staged, pending, ready, failNext, controller, script, journal, readied>>
      BY <1>0, <1>9, NoEvent DEF commit_activation, LauncherStep, At
    <2>3. Types'
      BY <1>0, <2>1, <2>2 DEF Types, PendingType, FileType, ProcessType, LauncherType, Launchers, Requests
    <2>4. lastResult' = [req |-> launcher.pending.req, outcome |-> "COMMITTED"]
      BY <1>9 DEF commit_activation, save_result
    <2>5. Proved(launcher.pending)
      BY <1>0, <2>2 DEF ReadyInv
    <2>6. CommittedWasReady'
      BY <2>2, <2>4, <2>5 DEF CommittedWasReady, Proved
    <2> QED
      BY <1>0, <2>1, <2>2, <2>3, <2>5, <2>6 DEF IInv, AckInv, durable_ack, CopyInv, Carrying, Clearing, SideInv,
         ActiveInv, ReadyInv, ActiveIsAccepted, Accepted, Proved
  <1>10. CASE rollback_activation
    <2>1. /\ launcher' \in Launchers /\ launcher'.pc = "result" /\ launcher'.pending = launcher.pending
      BY <1>0, <1>10, GotoFields DEF rollback_activation, LauncherStep, LauncherPc
    <2>2. /\ launcher.pc = "restore" /\ event' = "none" /\ active' = launcher.pending.prev
          /\ UNCHANGED <<staged, pending, ready, failNext, lastResult, controller, script, journal, readied>>
      BY <1>0, <1>10, NoEvent DEF rollback_activation, LauncherStep, At
    <2>3. launcher.pending = pending /\ pending.ack /\ pending.req # None /\ pending.prev \in Version
      BY <1>0, <2>2 DEF CopyInv, Carrying, AckInv, PendingType
    <2>4. Types'
      BY <1>0, <2>1, <2>2, <2>3 DEF Types, PendingType, FileType, ProcessType, LauncherType, Launchers, Requests
    <2> QED
      BY <1>0, <2>1, <2>2, <2>3, <2>4 DEF IInv, AckInv, durable_ack, CopyInv, Carrying, Clearing, SideInv,
         ActiveInv, ReadyInv, CommittedWasReady, ActiveIsAccepted, Accepted
  <1>11. CASE RecordRollback
    <2>1. /\ launcher' \in Launchers /\ launcher'.pc = "clearRollback" /\ launcher'.pending = launcher.pending
          /\ launcher'.cleared = launcher.cleared
      BY <1>0, <1>11, GotoFields DEF RecordRollback, LauncherStep, LauncherPc
    <2>2. /\ launcher.pc = "result" /\ event' = "none"
          /\ UNCHANGED <<active, staged, pending, ready, failNext, controller, script, journal, readied>>
      BY <1>0, <1>11, NoEvent DEF RecordRollback, LauncherStep, At
    <2>3. Types'
      BY <1>0, <2>1, <2>2 DEF Types, PendingType, FileType, ProcessType, LauncherType, Launchers, Requests
    <2>4. lastResult' = [req |-> launcher.pending.req, outcome |-> "ROLLED_BACK"]
      BY <1>11 DEF RecordRollback, save_result
    <2>5. CommittedWasReady'
      BY <2>4 DEF CommittedWasReady
    <2> QED
      BY <1>0, <2>1, <2>2, <2>3, <2>5 DEF IInv, AckInv, durable_ack, CopyInv, Carrying, Clearing, SideInv,
         ActiveInv, ReadyInv, ActiveIsAccepted, Accepted
  <1>12. CASE clear_activation_files
    <2>1. /\ launcher.pc \in {"clear", "clearRollback"} /\ event' = "none"
          /\ UNCHANGED <<active, lastResult, controller, script, journal, readied>>
      BY <1>0, <1>12, NoEvent DEF clear_activation_files, LauncherStep
    <2>2. /\ launcher' \in Launchers /\ ~Clearing' /\ ~Carrying' /\ launcher'.pc # "classify"
          /\ launcher'.pc \notin {"spawn", "wait", "commit", "result"}
      <3>1. CASE launcher.cleared < 3
        <4>1. PICK n \in 1..3 : n = launcher.cleared + 1
          BY <1>0, <3>1 DEF Launchers
        <4>2. launcher' = [launcher EXCEPT !.cleared = n]
          BY <1>0, <1>12, <3>1, <4>1 DEF clear_activation_files, LauncherStep, Launchers
        <4> QED
          BY <1>0, <2>1, <4>1, <4>2 DEF Launchers, Clearing, Carrying
      <3>2. CASE ~(launcher.cleared < 3)
        <4>1. launcher' = IdleLauncher \/ launcher' = Goto("respawn")
          BY <1>12, <3>2 DEF clear_activation_files, LauncherStep
        <4> QED
          BY <1>0, <4>1, GotoFields, NoPendingFacts DEF Launchers, LauncherPc, Clearing, Carrying
      <3> QED
        BY <3>1, <3>2
    <2>3. /\ staged' \in Version \cup {None} /\ failNext' \in Version \cup {None}
          /\ ready' = ready \/ ready' = NoReady
          /\ pending' = pending \/ (Clearing /\ pending' = NoPending)
      BY <1>0, <1>12, <2>1 DEF clear_activation_files, FileType, Clearing
    <2>4. Types'
      <3>1. PendingType'
        BY <1>0, <2>1, <2>3, NoPendingFacts DEF PendingType, Requests
      <3>2. FileType'
        BY <1>0, <2>1, <2>3, NoPendingFacts DEF FileType
      <3> QED
        BY <1>0, <2>1, <2>2, <3>1, <3>2 DEF Types, ProcessType, LauncherType, Launchers
    <2>5. ReadyInv' /\ CommittedWasReady' /\ ActiveInv' /\ CopyInv'
      BY <1>0, <2>1, <2>2, <2>3, NoPendingFacts DEF ReadyInv, CommittedWasReady, ActiveInv, CopyInv
    <2>6. AckInv' /\ SideInv' /\ ActiveIsAccepted'
      <3>1. CASE pending' = pending
        BY <1>0, <2>1, <3>1 DEF AckInv, durable_ack, SideInv, ActiveIsAccepted, Accepted
      <3>2. CASE Clearing /\ pending' = NoPending
        <4>1. pending'.req = None /\ pending'.ack = FALSE
          BY <3>2, NoPendingFacts
        <4>2. launcher.pending = pending /\ pending.req # None
          BY <1>0, <3>2 DEF CopyInv, Carrying, AckInv
        <4>3. Accepted(active)
          <5>1. CASE launcher.pc = "clear"
            BY <1>0, <3>2, <5>1 DEF ActiveInv, ReadyInv, Proved, Accepted
          <5>2. CASE launcher.pc # "clear"
            BY <1>0, <3>2, <4>2, <5>2 DEF ActiveInv, SideInv
          <5> QED
            BY <5>1, <5>2
        <4> QED
          BY <2>1, <4>1, <4>3 DEF AckInv, SideInv, ActiveIsAccepted, Accepted
      <3> QED
        BY <2>3, <3>1, <3>2
    <2> QED
      BY <2>4, <2>5, <2>6 DEF IInv
  <1>13. CASE RespawnPrevious
    <2>1. PICK p \in Process : spawn_controller(p, launcher.pending.prev, None)
      BY <1>13 DEF RespawnPrevious
    <2>2. ProcessType'
      BY <1>0, <2>1, SpawnType DEF Launchers, Records
    <2> QED
      BY <1>0, <1>13, <2>2, NoEvent, LauncherStops DEF RespawnPrevious, LauncherStep, At
  <1> QED
    BY <1>1, <1>2, <1>3, <1>4, <1>5, <1>6, <1>7, <1>8, <1>9, <1>10, <1>11, <1>12, <1>13 DEF LauncherRun
-----------------------------------------------------------------------------
\* The invariant holds at the start.
LEMMA InitIInv == Init => IInv
  <1> SUFFICES ASSUME Init PROVE IInv
    OBVIOUS
  <1>1. /\ pending.req = None /\ pending.ack = FALSE /\ pending = NoPending /\ ready.req = None
        /\ launcher.pc = "idle" /\ PendingType /\ LauncherType
    BY NoPendingFacts DEF Init, PendingType, LauncherType
  <1>2. ProcessType
    BY DEF Init, NoProcess, ProcessType, ControllerPc
  <1>3. FileType /\ script \in Scripts
    BY NoPendingFacts, UpdateAssumption DEF Init, FileType
  <1>4. CommittedWasReady /\ ActiveIsAccepted
    BY DEF Init, NoResult, CommittedWasReady, ActiveIsAccepted
  <1> QED
    BY <1>1, <1>2, <1>3, <1>4 DEF IInv, Types, AckInv, CopyInv, Carrying, Clearing, SideInv, ActiveInv, ReadyInv

\* Every step preserves it.
LEMMA NextIInv == IInv /\ AnsweredInv /\ [Next]_vars => IInv'
  <1> SUFFICES ASSUME IInv, AnsweredInv, [Next]_vars PROVE IInv'
    OBVIOUS
  <1>1. CASE LauncherDies
    BY <1>1, LauncherStops DEF LauncherDies, IInv, Types, ProcessType
  <1>2. CASE Reboot
    <2>1. ProcessType'
      BY <1>2 DEF Reboot, NoProcess, ProcessType, ControllerPc
    <2> QED
      BY <1>2, <2>1, LauncherStops DEF Reboot
  <1>3. CASE UNCHANGED vars
    <2>1. UNCHANGED <<active, staged, pending, ready, failNext, lastResult, script, journal, controller, launcher,
                      event, readied>>
      BY <1>3 DEF vars, files
    <2>2. Types'
      BY <2>1 DEF IInv, Types, PendingType, FileType, ProcessType, LauncherType, Requests
    <2> QED
      BY <2>1, <2>2 DEF IInv, AckInv, durable_ack, CopyInv, Carrying, Clearing, SideInv, ActiveInv, ReadyInv,
         CommittedWasReady, ActiveIsAccepted, Accepted, Proved
  <1> QED
    BY <1>1, <1>2, <1>3, ControllerIInv, LauncherIInv DEF Next

\* A controller that stops or starts answers nothing.
LEMMA Silent ==
  ASSUME Types, AnsweredInv, journal \subseteq journal',
         \A q \in Process : controller'[q] = controller[q] \/ controller'[q].pc \notin {"post", "ack"}
  PROVE  AnsweredInv'
  BY DEF AnsweredInv

\* A controller acknowledges only after its own PASS was posted.
LEMMA ControllerAnswers ==
  ASSUME Types, AnsweredInv, NEW p \in Process, ControllerStep(p) \/ ControllerDies(p)
  PROVE  AnsweredInv'
  <1>0. /\ \A q \in Process : controller[q] \in [version : Version \cup {None}, activation : Nat \cup {None},
                                  pc : ControllerPc, req : Nat \cup {None}, status : {"none", "PASS", "FAIL"}]
        /\ DOMAIN controller = Process
    BY DEF Types, ProcessType
  <1>1. ASSUME Exit(p) \/ UNCHANGED controller \/ (\E w : w \notin {"post", "ack"} /\ Move(p, w)),
               journal \subseteq journal'
        PROVE  AnsweredInv'
    <2>1. CASE Exit(p)
      BY <1>0, <1>1, <2>1, Silent DEF Exit, NoProcess, Types, ProcessType
    <2>2. ASSUME NEW w, w \notin {"post", "ack"}, Move(p, w) PROVE AnsweredInv'
      BY <1>0, <1>1, <2>2, Silent DEF Move, Types, ProcessType
    <2> QED
      BY <1>1, <2>1, <2>2, Silent
  <1>2. ASSUME NEW k \in Nat, NEW r \in {"PASS", "FAIL"}, journal' = journal,
               controller' = [controller EXCEPT ![p].pc = "post", ![p].req = k, ![p].status = r]
        PROVE  AnsweredInv'
    <2>1. \A q \in Process \ {p} : controller'[q] = controller[q]
      BY <1>0, <1>2 DEF Types, ProcessType
    <2>2. controller'[p].pc = "post" /\ controller'[p].req = k
      BY <1>0, <1>2 DEF Types, ProcessType
    <2>3. k # None /\ journal' = journal
      BY <1>2, UpdateAssumption
    <2>4. /\ controller'[p].pc \in {"post", "ack"} => controller'[p].req # None
          /\ controller'[p].pc # "ack"
      BY <2>2, <2>3
    <2> QED
      BY <2>1, <2>3, <2>4 DEF AnsweredInv
  <1>3. CASE Acquire(p)
    BY <1>1, <1>3 DEF Acquire
  <1>4. CASE consume_fail_next_activation(p)
    BY <1>1, <1>4 DEF consume_fail_next_activation
  <1>5. CASE signal_controller_ready(p)
    BY <1>1, <1>5 DEF signal_controller_ready
  <1>6. CASE signal_ready_event(p)
    BY <1>1, <1>6 DEF signal_ready_event
  <1>7. CASE maybe_resume_controller_handoff(p)
    BY <1>1, <1>7 DEF maybe_resume_controller_handoff
  <1>8. CASE stage_update(p)
    <2>1. Next_request \in Nat
      BY <1>8, NextRequestIsOpen DEF stage_update, Handling
    <2> QED
      BY <1>2, <1>8, <2>1 DEF stage_update, Answer, Fails
  <1>9. CASE prepare_activation(p)
    <2>1. Next_request \in Nat
      BY <1>9, NextRequestIsOpen DEF prepare_activation, Handling
    <2> QED
      BY <1>2, <1>9, <2>1 DEF prepare_activation, Answer, Fails
  <1>10. CASE arm_fail_next_activation(p)
    <2>1. Next_request \in Nat
      BY <1>10, NextRequestIsOpen DEF arm_fail_next_activation, Handling
    <2> QED
      BY <1>2, <1>10, <2>1 DEF arm_fail_next_activation, Answer, Fails
  <1>11. CASE abort_update(p)
    <2>1. Next_request \in Nat
      BY <1>11, NextRequestIsOpen DEF abort_update, Handling
    <2> QED
      BY <1>1, <1>2, <1>11, <2>1 DEF abort_update, Answer
  <1>12. CASE post_issue_comment(p)
    <2>1. PICK w \in {"ack", "running"} :
            /\ Move(p, w) /\ journal \subseteq journal'
            /\ w = "ack" => [req |-> controller[p].req, status |-> "PASS"] \in journal'
      BY <1>12 DEF post_issue_comment
    <2>2. CASE w = "running"
      BY <1>1, <2>1, <2>2
    <2>3. CASE w = "ack"
      <3>1. \A q \in Process \ {p} : controller'[q] = controller[q]
        BY <1>0, <2>1 DEF Move, Types, ProcessType
      <3>2. controller'[p].pc = "ack" /\ controller'[p].req = controller[p].req
        BY <1>0, <2>1, <2>3 DEF Move, Types, ProcessType
      <3>3. controller[p].req # None
        BY <1>12 DEF post_issue_comment, AnsweredInv
      <3> QED
        BY <2>1, <2>3, <3>1, <3>2, <3>3 DEF AnsweredInv
    <2> QED
      BY <2>1, <2>2, <2>3
  <1>13. CASE mark_terminal_ack(p)
    BY <1>1, <1>13 DEF mark_terminal_ack
  <1>14. CASE ControllerDies(p)
    BY <1>1, <1>14 DEF ControllerDies
  <1> QED
    BY <1>3, <1>4, <1>5, <1>6, <1>7, <1>8, <1>9, <1>10, <1>11, <1>12, <1>13, <1>14 DEF ControllerStep

\* Nothing else changes what a controller has answered.
LEMMA NextAnswered == IInv /\ AnsweredInv /\ [Next]_vars => AnsweredInv'
  <1> SUFFICES ASSUME IInv, AnsweredInv, [Next]_vars PROVE AnsweredInv'
    OBVIOUS
  <1>0. Types
    BY DEF IInv
  <1>1. CASE LauncherRun
    <2>1. journal' = journal
      BY <1>1 DEF LauncherRun, LauncherStep, Load, Return, Start, Recover, AwaitOldExit, SaveCandidate, SpawnCandidate,
         wait_with_child, commit_activation, rollback_activation, RecordRollback, clear_activation_files, RespawnPrevious
    <2>2. UNCHANGED controller \/ \E q \in Process : \E v, k : spawn_controller(q, v, k)
      BY <1>1 DEF LauncherRun, Load, Return, Start, Recover, AwaitOldExit, SaveCandidate, SpawnCandidate,
         wait_with_child, commit_activation, rollback_activation, RecordRollback, clear_activation_files, RespawnPrevious
    <2>3. ASSUME NEW q \in Process, NEW v, NEW k, spawn_controller(q, v, k) PROVE AnsweredInv'
      BY <1>0, <2>1, <2>3, Silent DEF spawn_controller, Types, ProcessType
    <2> QED
      BY <1>0, <2>1, <2>2, <2>3, Silent
  <1>2. CASE LauncherDies
    BY <1>0, <1>2, Silent DEF LauncherDies
  <1>3. CASE Reboot
    BY <1>0, <1>3, Silent DEF Reboot, NoProcess
  <1>4. CASE UNCHANGED vars
    BY <1>0, <1>4, Silent DEF vars
  <1> QED
    BY <1>0, <1>1, <1>2, <1>3, <1>4, ControllerAnswers DEF Next

\* So both always hold.
LEMMA UpdateInvariance == Spec => []IInv
  <1>1. Init => AnsweredInv
    BY DEF Init, NoProcess, AnsweredInv
  <1> QED
    BY <1>1, InitIInv, NextIInv, NextAnswered, PTL DEF Spec
-----------------------------------------------------------------------------
\* The files, the processes and the launcher keep the types of the code; the event of
\* a handoff exists only while its launcher waits.
THEOREM UpdateTypeCorrect == Spec => []TypeOK
  <1>1. IInv => TypeOK
    BY DEF IInv, Types, PendingType, FileType, ProcessType, LauncherType, Records, ControllerPc, LauncherPc, TypeOK
  <1> QED
    BY <1>1, UpdateInvariance, PTL

\* okx-host-launcher puts a candidate in charge only after the PASS of its handoff is
\* on the issue, though it decides from copies of the files.
THEOREM CandidateWaitsForAck == Spec => []CandidateNeedsAck
  <1>1. IInv => CandidateNeedsAck
    BY DEF IInv, Types, PendingType, AckInv, SideInv, CandidateNeedsAck
  <1> QED
    BY <1>1, UpdateInvariance, PTL

\* commit_activation records COMMITTED only for a candidate that proved ready, through
\* every death of launcher and candidate.
THEOREM CommitsWereReady == Spec => []CommittedWasReady
  <1>1. IInv => CommittedWasReady
    BY DEF IInv
  <1> QED
    BY <1>1, UpdateInvariance, PTL

\* Without an activation on disk the version in charge is the first one or one that
\* proved ready, wherever a rollback or an abort was cut short.
THEOREM ActiveWasAccepted == Spec => []ActiveIsAccepted
  <1>1. IInv => ActiveIsAccepted
    BY DEF IInv
  <1> QED
    BY <1>1, UpdateInvariance, PTL
=============================================================================
