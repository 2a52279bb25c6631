------------------------- MODULE TradeExecutionProofs -------------------------
(***************************************************************************)
(* Proofs about TradeExecution, for any number of intents, executors and   *)
(* reconcilers and any bounds.  The inductive invariant IInv says, besides *)
(* types, what each control point, queued command and row knows:           *)
(*                                                                         *)
(*   - a release that is asked for, or done, is asked for an intent that   *)
(*     is durably unsent or durably settled, and both are stable;          *)
(*   - a claimed POST is claimed by one process and not yet sent.          *)
(*                                                                         *)
(* A second invariant, RevInv, adds which policy revision each of them     *)
(* carries, for what a revision revokes.                                   *)
(***************************************************************************)
EXTENDS TradeExecution, FiniteSetTheorems, TLAPS

Unsent(i) == sql[i].terminal = "REJECTED_UNSENT"

\* The order is over and left nothing open.
Settled(i) ==
    /\ sql[i].begin /\ sql[i].state \in Terminal
    /\ ~venue[i].flight /\ venue[i].order # "live" /\ ~venue[i].position

RowInv(i) ==
    /\ sql[i].begin => sql[i].state \notin {"NONE", "PREPARED", "RESERVED"}
    /\ sql[i].state \in {"POSTING", "UNKNOWN", "ACKNOWLEDGED", "FILLED", "CANCELLED"} => sql[i].begin
    /\ Unsent(i) => /\ sql[i].state = "REJECTED" /\ ~sql[i].begin
                    /\ sql[i].receipt \in {"none", "UNSENT_PENDING", "RELEASED"}
    /\ sql[i].state = "REJECTED" => sql[i].begin \/ Unsent(i)
    /\ sql[i].acked => central[i] \in Final

VenueInv(i) ==
    /\ posts[i] <= 1
    /\ posts[i] = 1 => sql[i].begin
    /\ venue[i].flight => venue[i].order = "none"
    /\ venue[i].flight \/ venue[i].order # "none" => posts[i] = 1
    /\ venue[i].position => venue[i].order \in {"live", "filled", "canceled"}
    /\ sql[i].state = "FILLED" => venue[i].order = "filled"
    /\ sql[i].state = "CANCELLED" => venue[i].order = "canceled"
    /\ sql[i].state = "REJECTED" => /\ ~venue[i].flight
                                    /\ venue[i].order \in {"none", "rejected"}

CentralInv(i) ==
    /\ sql[i].begin => i \in granted
    /\ i \in granted => central[i] \in {"POSTED"} \cup Final
    /\ central[i] \in Final => Unsent(i) \/ Settled(i)

\* What the control point of an activity knows, other than at "posting".
ActInv(a) ==
    /\ a.pc = "authorized" => a.intent \in granted
    /\ a.pc = "fence" /\ a.reply.status = "POST_AUTHORIZED" => a.intent \in granted
    /\ a.pc = "sent" => posts[a.intent] = 1
    /\ a.pc = "recording" =>
        /\ a.seen \in {"live", "filled", "canceled"}
        /\ posts[a.intent] = 1
        /\ a.seen # "live" => venue[a.intent].order = a.seen
    /\ a.pc = "releasing" =>
        /\ sql[a.intent].state \in Terminal
        /\ sql[a.intent].begin \/ sql[a.intent].receipt = "none"
    /\ a.pc \in {"unsent_inspect", "unsent_release"} => Unsent(a.intent)
    /\ a.pc \in {"terminal_inspect", "terminal_resolve"} => Settled(a.intent)
    /\ \/ a.pc = "acknowledging"
       \/ a.pc \in {"unsent_inspect", "terminal_inspect"} /\ a.reply.status = "RELEASED"
       \/ a.pc \in {"unsent_release", "terminal_resolve"} /\ a.reply.status = "UPDATED"
       => central[a.intent] \in Final

PostingInv(i) == sql[i].state = "POSTING" /\ posts[i] = 0

\* What a command on its way knows.
CmdInv(c) ==
    /\ c.id = "unsent_release" => Unsent(c.intent)
    /\ c.id = "terminal_resolve" => Settled(c.intent)

IntentInv == \A i \in Intent : RowInv(i) /\ VenueInv(i) /\ CentralInv(i)
ProcInv == \A p \in Process : /\ ActInv(proc[p])
                              /\ proc[p].pc = "posting" => PostingInv(proc[p].intent)
UniqueInv == \A p, q \in Process :
    proc[p].pc = "posting" /\ proc[q].pc = "posting" /\ proc[p].intent = proc[q].intent => p = q
QueueInv == \A k \in 1..Len(queue) : CmdInv(queue[k])

IInv == TypeOK /\ IntentInv /\ ProcInv /\ UniqueInv /\ QueueInv
-------------------------------------------------------------------------------
(***************************************************************************)
(* How a step may change what the invariant says of an intent: everything  *)
(* a control point or a command relies on stays true.                      *)
(***************************************************************************)
Later(i) ==
    /\ i \in granted => i \in granted'
    /\ posts[i] = 1 => posts'[i] = 1
    /\ venue[i].order \in {"filled", "canceled"} => venue'[i].order = venue[i].order
    /\ sql[i].state \in Terminal /\ (sql[i].begin \/ sql[i].receipt = "none")
        => sql'[i].state \in Terminal /\ (sql'[i].begin \/ sql'[i].receipt = "none")
    /\ Unsent(i) => Unsent(i)'
    /\ Settled(i) => Settled(i)'
    /\ central[i] \in Final => central'[i] \in Final

\* Every activity that is not touched keeps what it knows.
LEMMA ProcKeep ==
    ASSUME TypeOK, ProcInv, UniqueInv,
           NEW p \in Process,
           \A q \in Process \ {p} : proc'[q] = proc[q],
           \A i \in Intent : Later(i),
           ActInv(proc[p])',
           proc'[p].pc = "posting" =>
                /\ PostingInv(proc[p].intent)'
                /\ \A q \in Process \ {p} :
                        proc[q].pc = "posting" => proc[q].intent # proc'[p].intent,
           \A q \in Process \ {p} : proc[q].pc = "posting" => PostingInv(proc[q].intent)'
    PROVE  ProcInv' /\ UniqueInv'
<1>1. ASSUME NEW q \in Process
      PROVE  ActInv(proc[q])' /\ (proc'[q].pc = "posting" => PostingInv(proc[q].intent)')
  <2>1. CASE q = p
    BY <2>1
  <2>2. CASE q # p
    <3>1. proc'[q] = proc[q] /\ proc[q].intent \in Intent /\ ActInv(proc[q])
      BY <2>2 DEF ProcInv, TypeOK, Activity
    <3>2. Later(proc[q].intent)
      BY <3>1
    <3>3. ActInv(proc[q])'
      BY <3>1, <3>2 DEF ActInv, Later
    <3>4. proc[q].pc = "posting" => PostingInv(proc[q].intent)'
      BY <2>2
    <3> QED BY <3>1, <3>3, <3>4
  <2> QED BY <2>1, <2>2
<1>2. ProcInv'
  BY <1>1 DEF ProcInv
<1>3. UniqueInv'
  <2> SUFFICES ASSUME NEW q \in Process, NEW r \in Process,
                      proc'[q].pc = "posting", proc'[r].pc = "posting",
                      proc'[q].intent = proc'[r].intent
               PROVE  q = r
    BY DEF UniqueInv
  <2> QED BY DEF UniqueInv
<1> QED BY <1>2, <1>3

\* Commands on their way keep what they know; a new one brings its own.
LEMMA QueueKeep ==
    ASSUME TypeOK, QueueInv, \A i \in Intent : Later(i),
           \/ queue' = queue
           \/ queue # << >> /\ queue' = Tail(queue)
           \/ \E c \in Command : queue' = Append(queue, c) /\ CmdInv(c)'
    PROVE  QueueInv'
<1>1. queue \in Seq(Command)
  BY DEF TypeOK
<1>2. ASSUME NEW c \in Command, CmdInv(c)
      PROVE  CmdInv(c)'
  <2>1. c.intent \in Intent
    BY DEF Command
  <2>2. Later(c.intent)
    BY <2>1
  <2> QED BY <1>2, <2>2 DEF CmdInv, Later
<1>3. ASSUME NEW k \in 1..Len(queue)
      PROVE  queue[k] \in Command /\ CmdInv(queue[k])
  BY <1>1 DEF QueueInv
<1>4. CASE queue' = queue
  <2> SUFFICES ASSUME NEW k \in 1..Len(queue) PROVE CmdInv(queue[k])'
    BY <1>4 DEF QueueInv
  <2>1. PICK c \in Command : c = queue[k] /\ CmdInv(c)
    BY <1>3
  <2>2. CmdInv(c)'
    BY <1>2, <2>1
  <2> QED BY <1>4, <2>1, <2>2 DEF CmdInv
<1>5. CASE queue # << >> /\ queue' = Tail(queue)
  <2> SUFFICES ASSUME NEW k \in 1..Len(Tail(queue)) PROVE CmdInv(queue[k])'
    BY <1>5 DEF QueueInv
  <2>1. Tail(queue)[k] = queue[k + 1] /\ k + 1 \in 1..Len(queue)
    BY <1>1, <1>5
  <2>2. PICK c \in Command : c = queue[k + 1] /\ CmdInv(c)
    BY <1>3, <2>1
  <2>3. CmdInv(c)' /\ queue'[k] = c
    BY <1>2, <1>5, <2>1, <2>2
  <2> QED BY <2>3 DEF CmdInv
<1>6. CASE \E c \in Command : queue' = Append(queue, c) /\ CmdInv(c)'
  <2>1. PICK d \in Command : queue' = Append(queue, d) /\ CmdInv(d)'
    BY <1>6
  <2> SUFFICES ASSUME NEW k \in 1..(Len(queue) + 1) PROVE CmdInv(queue[k])'
    BY <1>1, <2>1 DEF QueueInv
  <2>2. CASE k = Len(queue) + 1
    <3>1. queue'[k] = d
      BY <1>1, <2>1, <2>2
    <3> QED BY <2>1, <3>1 DEF CmdInv
  <2>3. CASE k \in 1..Len(queue)
    <3>1. PICK c \in Command : c = queue[k] /\ CmdInv(c)
      BY <1>3, <2>3
    <3>2. CmdInv(c)' /\ queue'[k] = c
      BY <1>1, <1>2, <2>1, <2>3, <3>1
    <3> QED BY <3>2 DEF CmdInv
  <2> QED BY <1>1, <2>2, <2>3
<1> QED BY <1>4, <1>5, <1>6
-------------------------------------------------------------------------------
(***************************************************************************)
(* Steps that leave rows, reservations and the exchange alone.             *)
(***************************************************************************)
money == <<sql, central, granted, venue, posts>>

\* Control points at which an activity knows nothing in particular.
Free == {"idle", "planned", "prepared", "marked", "declining", "rejecting", "held",
         "fencing", "proving", "status", "ordering", "reserve", "reserve_inspect",
         "fence_inspect"}

RestType ==
    /\ policy \in [central : Nat, sql : Nat, agent : Nat]
    /\ expired \subseteq Intent
    /\ sequence \in Nat
    /\ revoked \subseteq Intent
    /\ noise \in Nat /\ faults \in Nat

\* An idle activity is well formed.
LEMMA IdleType ==
    ASSUME NEW i \in Intent
    PROVE  /\ Idle(i) \in Activity
           /\ Idle(i).pc = "idle" /\ Idle(i).intent = i
BY DEF Idle, Activity, Control, Waiting, Order, Status, NoReply

\* Nothing is learned or forgotten while rows, reservations and orders stand.
LEMMA MoneyKeep ==
    ASSUME IInv, UNCHANGED money
    PROVE  /\ IntentInv'
           /\ \A i \in Intent : Later(i)
           /\ \A i \in Intent : PostingInv(i) => PostingInv(i)'
<1>1. IntentInv'
  BY DEF IInv, money, IntentInv, RowInv, VenueInv, CentralInv, Unsent, Settled
<1>2. \A i \in Intent : Later(i)
  BY DEF IInv, TypeOK, money, Later, Unsent, Settled
<1>3. \A i \in Intent : PostingInv(i) => PostingInv(i)'
  BY DEF money, PostingInv
<1> QED BY <1>1, <1>2, <1>3

\* Process p takes a step that concerns only itself and, perhaps, the channel.
LEMMA QuietStep ==
    ASSUME IInv, RestType', UNCHANGED money,
           NEW p \in Process, NEW a \in Activity, Become(p, a),
           ActInv(proc[p])', a.pc # "posting",
           \/ queue' = queue
           \/ queue # << >> /\ queue' = Tail(queue)
           \/ \E c \in Command : queue' = Append(queue, c) /\ CmdInv(c)'
    PROVE  IInv'
<1>1. TypeOK /\ IntentInv /\ ProcInv /\ UniqueInv /\ QueueInv
  BY DEF IInv
<1>2. proc' \in [Process -> Activity] /\ proc'[p] = a /\ \A q \in Process \ {p} : proc'[q] = proc[q]
  BY <1>1 DEF Become, TypeOK
<1>3. queue' \in Seq(Command)
  <2>1. queue \in Seq(Command)
    BY <1>1 DEF TypeOK
  <2>2. CASE \E c \in Command : queue' = Append(queue, c)
    BY <2>1, <2>2
  <2>3. CASE queue # << >> /\ queue' = Tail(queue)
    BY <2>1, <2>3
  <2> QED BY <2>1, <2>2, <2>3
<1>4. TypeOK'
  BY <1>1, <1>2, <1>3 DEF TypeOK, RestType, money
<1>5. IntentInv' /\ \A i \in Intent : Later(i)
  BY MoneyKeep
<1>6. \A q \in Process \ {p} : proc[q].pc = "posting" => PostingInv(proc[q].intent)'
  <2> SUFFICES ASSUME NEW q \in Process \ {p}, proc[q].pc = "posting"
               PROVE  PostingInv(proc[q].intent)'
    OBVIOUS
  <2>1. PostingInv(proc[q].intent)
    BY <1>1 DEF ProcInv
  <2> QED BY <1>2, <2>1 DEF PostingInv, money
<1>7. ProcInv' /\ UniqueInv'
  BY <1>1, <1>2, <1>5, <1>6, ProcKeep
<1>8. QueueInv'
  BY <1>1, <1>5, QueueKeep
<1> QED BY <1>4, <1>5, <1>7, <1>8 DEF IInv

\* The special case in which p goes on knowing nothing.
LEMMA FreeStep ==
    ASSUME IInv, RestType', UNCHANGED money, queue' = queue,
           NEW p \in Process, NEW a \in Activity, Become(p, a), a.pc \in Free
    PROVE  IInv'
<1>1. proc'[p] = a
  BY DEF IInv, TypeOK, Become
<1>2. ActInv(proc[p])' /\ a.pc # "posting"
  BY <1>1 DEF ActInv, Free
<1> QED BY <1>2, QuietStep

\* A process that gives up knows nothing.
LEMMA FinishStep ==
    ASSUME IInv, RestType', UNCHANGED money, queue' = queue,
           NEW p \in Process, Finish(p)
    PROVE  IInv'
<1>1. PICK i \in Intent : i = proc[p].intent
  BY DEF IInv, TypeOK, Activity
<1>2. PICK a \in Activity : Become(p, a) /\ a.pc \in Free
  BY <1>1, IdleType DEF Finish, Free, Become
<1> QED BY <1>2, FreeStep

\* What a process must know to ask for a release.
Knows(id, i) ==
    /\ id \in {"unsent_inspect", "unsent_release"} => Unsent(i)
    /\ id \in {"terminal_inspect", "terminal_resolve"} => Settled(i)

\* p asks the Worker, or fails to: the command knows what p knows.
LEMMA RequestStep ==
    ASSUME IInv, RestType', UNCHANGED money,
           NEW p \in Process, NEW a \in Activity, NEW id \in Waiting,
           Request(p, a, id), Knows(id, a.intent)
    PROVE  IInv'
<1> DEFINE failed == [a EXCEPT !.pc = id, !.reply = [status |-> "error", seq |-> 0]]
           waits == [a EXCEPT !.pc = id, !.reply = [status |-> "wait", seq |-> 0]]
           cmd == [id |-> id, intent |-> a.intent, rev |-> a.rev, seq |-> a.seq]
<1>1. /\ failed \in Activity /\ failed.pc = id /\ failed.intent = a.intent
      /\ failed.reply.status = "error"
      /\ waits \in Activity /\ waits.pc = id /\ waits.intent = a.intent
      /\ waits.reply.status = "wait"
      /\ cmd \in Command /\ cmd.id = id /\ cmd.intent = a.intent
  BY DEF Activity, Control, Waiting, Status, Command
<1>2. PICK b \in Activity : /\ Become(p, b) /\ b.pc = id /\ b.intent = a.intent
                            /\ b.reply.status \in {"error", "wait"}
  BY <1>1 DEF Request
<1>3. queue' = queue \/ queue' = Append(queue, cmd)
  BY DEF Request
<1>4. a.intent \in Intent
  BY DEF Activity
<1>5. Knows(id, a.intent)'
  BY <1>4 DEF Knows, Unsent, Settled, money
<1>6. proc'[p] = b
  BY <1>2 DEF IInv, TypeOK, Become
<1>7. ActInv(proc[p])' /\ b.pc # "posting"
  BY <1>2, <1>5, <1>6 DEF ActInv, Knows, Waiting
<1>8. CmdInv(cmd)'
  BY <1>1, <1>5 DEF CmdInv, Knows
<1>9. \/ queue' = queue
      \/ \E c \in Command : queue' = Append(queue, c) /\ CmdInv(c)'
  <2>1. PICK c \in Command : c = cmd
    BY <1>1
  <2>2. CmdInv(c)'
    BY <1>1, <1>5, <2>1 DEF CmdInv, Knows
  <2> QED BY <1>3, <2>1, <2>2
<1> QED BY <1>2, <1>7, <1>9, QuietStep
-------------------------------------------------------------------------------
(***************************************************************************)
(* Steps of one process that rewrite one row.                              *)
(***************************************************************************)
others == <<central, granted, venue, posts, queue, policy, expired, sequence, revoked,
            noise, faults>>

\* Process p rewrites the row of i, keeping what others rely on.
LEMMA RowStep ==
    ASSUME IInv, UNCHANGED others,
           NEW i \in Intent, NEW r \in Row, SetRow(i, r),
           RowInv(i)', VenueInv(i)', CentralInv(i)', Later(i),
           NEW p \in Process, NEW a \in Activity, Become(p, a),
           ActInv(proc[p])',
           ~PostingInv(i) \/ (proc[p].pc = "posting" /\ proc[p].intent = i),
           a.pc = "posting" => /\ a.intent = i /\ ~PostingInv(i) /\ PostingInv(i)'
    PROVE  IInv'
<1>1. TypeOK /\ IntentInv /\ ProcInv /\ UniqueInv /\ QueueInv
  BY DEF IInv
<1>2. proc' \in [Process -> Activity] /\ proc'[p] = a /\ \A q \in Process \ {p} : proc'[q] = proc[q]
  BY <1>1 DEF Become, TypeOK
<1>3. sql' \in [Intent -> Row] /\ sql'[i] = r /\ \A j \in Intent \ {i} : sql'[j] = sql[j]
  BY <1>1 DEF SetRow, TypeOK
<1>4. TypeOK'
  BY <1>1, <1>2, <1>3 DEF TypeOK, others
<1>5. ASSUME NEW j \in Intent
      PROVE  RowInv(j)' /\ VenueInv(j)' /\ CentralInv(j)' /\ Later(j)
  <2>1. CASE j = i
    BY <2>1
  <2>2. CASE j # i
    <3>1. sql'[j] = sql[j] /\ RowInv(j) /\ VenueInv(j) /\ CentralInv(j)
      BY <1>1, <1>3, <2>2 DEF IntentInv
    <3> QED BY <3>1 DEF RowInv, VenueInv, CentralInv, Later, Unsent, Settled, others
  <2> QED BY <2>1, <2>2
<1>6. IntentInv' /\ \A j \in Intent : Later(j)
  BY <1>5 DEF IntentInv
<1>7. \A q \in Process \ {p} : proc[q].pc = "posting" => proc[q].intent \in Intent \ {i}
  <2> SUFFICES ASSUME NEW q \in Process \ {p}, proc[q].pc = "posting"
               PROVE  proc[q].intent \in Intent \ {i}
    OBVIOUS
  <2>1. PostingInv(proc[q].intent) /\ proc[q].intent \in Intent
    BY <1>1 DEF ProcInv, TypeOK, Activity
  <2>2. proc[p].pc = "posting" => proc[p].intent # proc[q].intent
    BY <1>1 DEF UniqueInv
  <2> QED BY <2>1, <2>2
<1>8. \A q \in Process \ {p} : proc[q].pc = "posting" => PostingInv(proc[q].intent)'
  <2> SUFFICES ASSUME NEW q \in Process \ {p}, proc[q].pc = "posting"
               PROVE  PostingInv(proc[q].intent)'
    OBVIOUS
  <2>1. PostingInv(proc[q].intent) /\ proc[q].intent \in Intent \ {i}
    BY <1>1, <1>7 DEF ProcInv
  <2> QED BY <1>2, <1>3, <2>1 DEF PostingInv, others
<1>9. proc'[p].pc = "posting" =>
        /\ PostingInv(proc[p].intent)'
        /\ \A q \in Process \ {p} : proc[q].pc = "posting" => proc[q].intent # proc'[p].intent
  BY <1>2, <1>7 DEF PostingInv
<1>10. ProcInv' /\ UniqueInv'
  BY <1>1, <1>2, <1>6, <1>8, <1>9, ProcKeep
<1>11. QueueInv'
  BY <1>1, <1>6, QueueKeep DEF others
<1> QED BY <1>4, <1>6, <1>10, <1>11 DEF IInv

\* The special case in which the process goes on knowing nothing.
LEMMA RowFreeStep ==
    ASSUME IInv, UNCHANGED others,
           NEW i \in Intent, NEW r \in Row, SetRow(i, r),
           RowInv(i)', VenueInv(i)', CentralInv(i)', Later(i),
           NEW p \in Process, NEW a \in Activity, Become(p, a), a.pc \in Free,
           ~PostingInv(i) \/ (proc[p].pc = "posting" /\ proc[p].intent = i)
    PROVE  IInv'
<1>1. proc'[p] = a
  BY DEF IInv, TypeOK, Become
<1>2. ActInv(proc[p])' /\ a.pc # "posting"
  BY <1>1 DEF ActInv, Free
<1> QED BY <1>2, RowStep

\* What the operators on rows return.
LEMMA RowTypes ==
    ASSUME NEW r \in Row
    PROVE  /\ rejectUnsent(r) \in Row
           /\ rejectDenied(r) \in Row
           /\ acknowledged(r) \in Row
           /\ \A to \in {"UNKNOWN", "ACKNOWLEDGED"} \cup Terminal : recordOutcome(r, to) \in Row
<1>1. rejectUnsent(r) \in Row
  <2>1. CASE r.state = "REJECTED"
    BY <2>1 DEF rejectUnsent
  <2>2. CASE r.state # "REJECTED"
    <3>1. PICK x \in {"none", "UNSENT_PENDING"} :
            x = IF r.receipt = "none" THEN r.receipt ELSE "UNSENT_PENDING"
      OBVIOUS
    <3>2. rejectUnsent(r) = [r EXCEPT !.state = "REJECTED", !.terminal = "REJECTED_UNSENT",
                                      !.receipt = x]
      BY <2>2, <3>1 DEF rejectUnsent
    <3> QED BY <3>2 DEF Row, Terminal
  <2> QED BY <2>1, <2>2
<1>2. rejectDenied(r) \in Row
  BY <1>1 DEF rejectDenied, Row
<1>3. acknowledged(r) \in Row
  BY DEF acknowledged, Row
<1>4. \A to \in {"UNKNOWN", "ACKNOWLEDGED"} \cup Terminal : recordOutcome(r, to) \in Row
  BY DEF recordOutcome, Row, Outstanding, Terminal
<1> QED BY <1>1, <1>2, <1>3, <1>4
-------------------------------------------------------------------------------
(***************************************************************************)
(* The executor, action by action.                                         *)
(***************************************************************************)
\* The fields of an activity have their types.
LEMMA ProcType ==
    ASSUME TypeOK, NEW p \in Process
    PROVE  /\ proc[p] \in Activity
           /\ proc[p].intent \in Intent /\ proc[p].rev \in Nat /\ proc[p].seq \in Nat
           /\ proc[p].tries \in Nat /\ proc[p].denied \in BOOLEAN
           /\ proc[p].reply.status \in Status /\ proc[p].reply.seq \in Nat
           /\ sql[proc[p].intent] \in Row
           /\ RestType
BY DEF TypeOK, Activity, RestType

\* A new execute request preserves the invariant.
LEMMA executeInv ==
    ASSUME IInv, NEW e \in Executor, NEW i \in Intent, execute(e, i)
    PROVE  IInv'
<1>1. e \in Process
  BY DEF Process
<1>2. TypeOK
  BY DEF IInv
<1>3. UNCHANGED money /\ queue' = queue
  BY DEF execute, money, worker, history
<1>4. RestType'
  BY <1>2 DEF execute, TypeOK, RestType, worker, history, bounds
<1>5. /\ [Idle(i) EXCEPT !.pc = "status"] \in Activity
      /\ [Idle(i) EXCEPT !.pc = "status"].pc = "status"
  BY IdleType DEF Activity, Control
<1>6. CASE Become(e, [Idle(i) EXCEPT !.pc = "status"])
  <2>1. PICK a \in Activity : Become(e, a) /\ a.pc \in Free
    BY <1>5, <1>6 DEF Free
  <2> QED BY <1>1, <1>3, <1>4, <2>1, FreeStep
<1>7. CASE Become(e, [Idle(i) EXCEPT !.pc = "planned", !.rev = policy.agent])
  <2>1. PICK n \in Nat : n = policy.agent
    BY <1>2 DEF TypeOK
  <2>2. PICK b \in Activity : b = Idle(i)
    BY IdleType
  <2>3. PICK a \in Activity : a = [b EXCEPT !.pc = "planned", !.rev = n]
    BY DEF Activity, Control
  <2>4. Become(e, a) /\ a.pc \in Free
    BY <1>7, <2>1, <2>2, <2>3 DEF Free, Activity
  <2> QED BY <1>1, <1>3, <1>4, <2>4, FreeStep
<1> QED BY <1>6, <1>7 DEF execute

\* requestReserve preserves the invariant.
LEMMA requestReserveInv ==
    ASSUME IInv, NEW e \in Executor, requestReserve(e)
    PROVE  IInv'
<1>1. e \in Process /\ TypeOK
  BY DEF Process, IInv
<1>2. UNCHANGED money /\ RestType'
  BY <1>1, ProcType DEF requestReserve, money, worker, history, bounds, RestType
<1>3. PICK a \in Activity : a = proc[e] /\ Request(e, a, "reserve")
  BY <1>1, ProcType DEF requestReserve
<1>4. Knows("reserve", a.intent) /\ "reserve" \in Waiting
  BY DEF Knows, Waiting
<1> QED BY <1>1, <1>2, <1>3, <1>4, RequestStep

\* reserveReplied preserves the invariant.
LEMMA reserveRepliedInv ==
    ASSUME IInv, NEW e \in Executor, reserveReplied(e)
    PROVE  IInv'
<1>1. e \in Process /\ TypeOK
  BY DEF Process, IInv
<1>2. UNCHANGED money /\ RestType'
  BY <1>1, ProcType DEF reserveReplied, money, worker, history, bounds, RestType
<1>3. CASE proc[e].reply.status = "HELD"
  <2>1. PICK a \in Activity :
          a = [proc[e] EXCEPT !.pc = "held", !.seq = proc[e].reply.seq, !.reply = NoReply]
    BY <1>1, ProcType DEF Activity, Control, NoReply, Status
  <2>2. a.pc \in Free
    BY <1>1, <2>1, ProcType DEF Free, Activity
  <2>3. Become(e, a) /\ queue' = queue
    BY <1>3, <2>1 DEF reserveReplied
  <2> QED BY <1>1, <1>2, <2>2, <2>3, FreeStep
<1>4. CASE proc[e].reply.status # "HELD"
  <2>1. PICK b \in BOOLEAN : b = (proc[e].reply.status = "DENIED")
    OBVIOUS
  <2>2. PICK a \in Activity : a = [proc[e] EXCEPT !.denied = b]
    BY <1>1, ProcType DEF Activity
  <2>3. Request(e, a, "reserve_inspect")
    BY <1>4, <2>1, <2>2 DEF reserveReplied
  <2>4. Knows("reserve_inspect", a.intent) /\ "reserve_inspect" \in Waiting
    BY DEF Knows, Waiting
  <2> QED BY <1>1, <1>2, <2>3, <2>4, RequestStep
<1> QED BY <1>3, <1>4

\* reserveInspected preserves the invariant.
LEMMA reserveInspectedInv ==
    ASSUME IInv, NEW e \in Executor, reserveInspected(e)
    PROVE  IInv'
<1>1. e \in Process /\ TypeOK
  BY DEF Process, IInv
<1>2. UNCHANGED money /\ RestType' /\ queue' = queue
  BY <1>1, ProcType DEF reserveInspected, money, worker, history, bounds, RestType
<1>3. PICK b \in Activity : b = [proc[e] EXCEPT !.reply = NoReply]
  BY <1>1, ProcType DEF Activity, NoReply, Status
<1>4. PICK n \in Nat : n = proc[e].reply.seq
  BY <1>1, ProcType
<1>5. \E a \in Activity : Become(e, a) /\ a.pc \in Free
  <2>1. [b EXCEPT !.pc = "held", !.via = "inspect", !.seq = n] \in Activity
    BY DEF Activity, Control
  <2>2. [b EXCEPT !.pc = "declining"] \in Activity /\ [b EXCEPT !.pc = "rejecting"] \in Activity
    BY DEF Activity, Control
  <2>3. \/ Become(e, [b EXCEPT !.pc = "held", !.via = "inspect", !.seq = n])
        \/ Become(e, [b EXCEPT !.pc = "declining"])
        \/ Become(e, [b EXCEPT !.pc = "rejecting"])
    BY <1>3, <1>4 DEF reserveInspected
  <2> QED BY <2>1, <2>2, <2>3 DEF Free, Activity
<1> QED BY <1>1, <1>2, <1>5, FreeStep

\* requestFence preserves the invariant.
LEMMA requestFenceInv ==
    ASSUME IInv, NEW e \in Executor, requestFence(e)
    PROVE  IInv'
<1>1. e \in Process /\ TypeOK
  BY DEF Process, IInv
<1>2. UNCHANGED money /\ RestType'
  BY <1>1, ProcType DEF requestFence, money, worker, history, bounds, RestType
<1>3. CASE Request(e, [proc[e] EXCEPT !.tries = @ + 1], "fence")
  <2>1. PICK n \in Nat : n = proc[e].tries + 1
    BY <1>1, ProcType
  <2>2. PICK a \in Activity : a = [proc[e] EXCEPT !.tries = n]
    BY <1>1, ProcType DEF Activity
  <2>3. Request(e, a, "fence")
    BY <1>3, <2>1, <2>2
  <2>4. Knows("fence", a.intent) /\ "fence" \in Waiting
    BY DEF Knows, Waiting
  <2> QED BY <1>1, <1>2, <2>3, <2>4, RequestStep
<1>4. CASE Become(e, [proc[e] EXCEPT !.pc = "rejecting"]) /\ queue' = queue
  <2>1. PICK a \in Activity : a = [proc[e] EXCEPT !.pc = "rejecting"]
    BY <1>1, ProcType DEF Activity, Control
  <2>2. a.pc \in Free
    BY <1>1, <2>1, ProcType DEF Free, Activity
  <2> QED BY <1>1, <1>2, <1>4, <2>1, <2>2, FreeStep
<1> QED BY <1>3, <1>4 DEF requestFence

\* fenceReplied preserves the invariant.
LEMMA fenceRepliedInv ==
    ASSUME IInv, NEW e \in Executor, fenceReplied(e)
    PROVE  IInv'
<1>1. e \in Process /\ TypeOK
  BY DEF Process, IInv
<1>2. UNCHANGED money /\ RestType'
  BY <1>1, ProcType DEF fenceReplied, money, worker, history, bounds, RestType
<1>3. CASE proc[e].reply.status \in {"STALE", "error"}
  <2>1. PICK a \in Activity : a = proc[e]
    BY <1>1, ProcType
  <2>2. Request(e, a, "fence_inspect")
    BY <1>3, <2>1 DEF fenceReplied
  <2>3. Knows("fence_inspect", a.intent) /\ "fence_inspect" \in Waiting
    BY DEF Knows, Waiting
  <2> QED BY <1>1, <1>2, <2>2, <2>3, RequestStep
<1>4. CASE proc[e].reply.status \notin {"STALE", "error"}
  <2>1. PICK c \in {"authorized", "rejecting"} :
          c = IF proc[e].reply.status = "POST_AUTHORIZED" THEN "authorized" ELSE "rejecting"
    OBVIOUS
  <2>2. PICK a \in Activity : a = [proc[e] EXCEPT !.reply = NoReply, !.pc = c]
    BY <1>1, ProcType DEF Activity, Control, NoReply, Status
  <2>3. Become(e, a) /\ queue' = queue
    BY <1>4, <2>1, <2>2 DEF fenceReplied
  <2>4. a.pc = c /\ a.intent = proc[e].intent
    BY <1>1, <2>2, ProcType DEF Activity
  <2>5. c = "authorized" => proc[e].intent \in granted
    BY <1>1, <2>1 DEF IInv, ProcInv, ActInv, fenceReplied, Replied
  <2>6. proc'[e] = a
    BY <1>1, <2>3 DEF TypeOK, Become
  <2>7. ActInv(proc[e])' /\ a.pc # "posting"
    BY <1>2, <2>4, <2>5, <2>6 DEF ActInv, money
  <2> QED BY <1>1, <1>2, <2>3, <2>7, QuietStep
<1> QED BY <1>3, <1>4

\* fenceInspected preserves the invariant.
LEMMA fenceInspectedInv ==
    ASSUME IInv, NEW e \in Executor, fenceInspected(e)
    PROVE  IInv'
<1>1. e \in Process /\ TypeOK
  BY DEF Process, IInv
<1>2. UNCHANGED money /\ RestType' /\ queue' = queue
  BY <1>1, ProcType DEF fenceInspected, money, worker, history, bounds, RestType
<1>3. \E a \in Activity : Become(e, a) /\ a.pc \in Free
  <2>1. PICK b \in Activity :
          b = [proc[e] EXCEPT !.pc = "fencing", !.seq = proc[e].reply.seq, !.reply = NoReply]
    BY <1>1, ProcType DEF Activity, Control, NoReply, Status
  <2>2. PICK c \in Activity : c = [proc[e] EXCEPT !.pc = "rejecting", !.reply = NoReply]
    BY <1>1, ProcType DEF Activity, Control, NoReply, Status
  <2>3. b.pc \in Free /\ c.pc \in Free
    BY <1>1, <2>1, <2>2, ProcType DEF Free, Activity
  <2> QED BY <2>1, <2>2, <2>3 DEF fenceInspected
<1> QED BY <1>1, <1>2, <1>3, FreeStep

\* What is known of an intent, before and after its row is rewritten.
LEMMA IntentFacts ==
    ASSUME IInv, NEW i \in Intent
    PROVE  /\ RowInv(i) /\ VenueInv(i) /\ CentralInv(i)
           /\ sql[i] \in Row /\ posts[i] \in Nat
           /\ \A r \in Row : SetRow(i, r) => sql'[i] = r
BY DEF IInv, TypeOK, IntentInv, SetRow

\* prepare preserves the invariant.
LEMMA prepareInv ==
    ASSUME IInv, NEW e \in Executor, prepare(e)
    PROVE  IInv'
<1>1. e \in Process /\ TypeOK
  BY DEF Process, IInv
<1>2. UNCHANGED others /\ RestType'
  BY <1>1, ProcType DEF prepare, others, worker, history, bounds, RestType
<1>3. PICK i \in Intent : i = proc[e].intent
  BY <1>1, ProcType
<1>4. PICK n \in Nat : n = proc[e].rev
  BY <1>1, ProcType
<1>5. CASE Finish(e) /\ UNCHANGED sql
  BY <1>1, <1>2, <1>5, FinishStep DEF others, money
<1>6. CASE /\ SetRow(i, IF sql[i].state # "NONE" THEN sql[i]
                        ELSE [NoRow EXCEPT !.state = "PREPARED", !.rev = proc[e].rev])
           /\ Become(e, [proc[e] EXCEPT !.pc = "prepared"])
  <2>1. PICK a \in Activity : a = [proc[e] EXCEPT !.pc = "prepared"]
    BY <1>1, ProcType DEF Activity, Control
  <2>2. Become(e, a) /\ a.pc \in Free
    BY <1>1, <1>6, <2>1, ProcType DEF Free, Activity
  <2>3. CASE sql[i].state # "NONE"
    <3>1. sql' = sql
      BY <1>1, <1>6, <2>3 DEF SetRow, TypeOK
    <3> QED BY <1>1, <1>2, <2>2, <3>1, FreeStep DEF others, money
  <2>4. CASE sql[i].state = "NONE"
    <3>1. PICK r \in Row : r = [NoRow EXCEPT !.state = "PREPARED", !.rev = n]
      BY DEF Row, NoRow, Outstanding
    <3>2. /\ r.state = "PREPARED" /\ ~r.begin /\ r.terminal = "none" /\ ~r.acked
          /\ SetRow(i, r)
      BY <1>4, <1>6, <2>4, <3>1 DEF NoRow
    <3>3. RowInv(i)' /\ VenueInv(i)' /\ CentralInv(i)' /\ Later(i) /\ ~PostingInv(i)
      BY <1>2, <2>4, <3>2, IntentFacts
      DEF RowInv, VenueInv, CentralInv, Later, PostingInv, Unsent, Settled, others, Terminal
    <3> QED BY <1>1, <1>2, <2>2, <3>2, <3>3, RowFreeStep
  <2> QED BY <2>3, <2>4
<1> QED BY <1>3, <1>5, <1>6 DEF prepare

\* markReserveAttempt preserves the invariant.
LEMMA markReserveAttemptInv ==
    ASSUME IInv, NEW e \in Executor, markReserveAttempt(e)
    PROVE  IInv'
<1>1. e \in Process /\ TypeOK
  BY DEF Process, IInv
<1>2. UNCHANGED others /\ RestType'
  BY <1>1, ProcType DEF markReserveAttempt, others, worker, history, bounds, RestType
<1>3. PICK i \in Intent : i = proc[e].intent
  BY <1>1, ProcType
<1>4. CASE Finish(e) /\ UNCHANGED sql
  BY <1>1, <1>2, <1>4, FinishStep DEF others, money
<1>5. CASE /\ markable(sql[i])
           /\ SetRow(i, [sql[i] EXCEPT !.marker = IF @ = "none" THEN "ATTEMPT" ELSE @])
           /\ Become(e, [proc[e] EXCEPT !.pc = "marked"])
  <2>1. PICK a \in Activity : a = [proc[e] EXCEPT !.pc = "marked"]
    BY <1>1, ProcType DEF Activity, Control
  <2>2. Become(e, a) /\ a.pc \in Free
    BY <1>1, <1>5, <2>1, ProcType DEF Free, Activity
  <2>3. PICK old \in Row : old = sql[i]
    BY IntentFacts
  <2>4. PICK x \in {"ATTEMPT", "DENIED"} : x = IF old.marker = "none" THEN "ATTEMPT" ELSE old.marker
    BY DEF Row
  <2>5. PICK r \in Row : r = [old EXCEPT !.marker = x]
    BY DEF Row
  <2>6. /\ r.state = sql[i].state /\ r.begin = sql[i].begin /\ r.terminal = sql[i].terminal
        /\ r.acked = sql[i].acked /\ r.receipt = sql[i].receipt
        /\ SetRow(i, r) /\ sql[i].state = "PREPARED"
    BY <1>5, <2>3, <2>4, <2>5 DEF Row, markable
  <2>7. RowInv(i)' /\ VenueInv(i)' /\ CentralInv(i)' /\ Later(i) /\ ~PostingInv(i)
    BY <1>2, <2>6, IntentFacts
    DEF RowInv, VenueInv, CentralInv, Later, PostingInv, Unsent, Settled, others
  <2> QED BY <1>1, <1>2, <2>2, <2>6, <2>7, RowFreeStep
<1> QED BY <1>3, <1>4, <1>5 DEF markReserveAttempt

\* Rejecting an intent that was not sent is sound, whoever does it.
LEMMA RejectStep ==
    ASSUME IInv, UNCHANGED others, NEW i \in Intent, rejectable(sql[i]),
           NEW r \in Row, SetRow(i, r),
           r = rejectUnsent(sql[i]) \/ r = rejectDenied(sql[i]),
           NEW p \in Process, NEW a \in Activity, Become(p, a), a.pc \in Free
    PROVE  IInv'
<1>1. PICK old \in Row : old = sql[i]
  BY IntentFacts
<1>2. /\ r.state = "REJECTED" /\ r.begin = old.begin /\ r.acked = old.acked
      /\ r.terminal = IF old.state = "REJECTED" THEN old.terminal ELSE "REJECTED_UNSENT"
      /\ r.receipt = IF old.state = "REJECTED" \/ old.receipt = "none" THEN old.receipt
                     ELSE "UNSENT_PENDING"
  <2>1. PICK x \in {"none", "UNSENT_PENDING"} :
          x = IF old.receipt = "none" THEN old.receipt ELSE "UNSENT_PENDING"
    OBVIOUS
  <2>2. PICK u \in Row : u = IF old.state = "REJECTED" THEN old
                             ELSE [old EXCEPT !.state = "REJECTED",
                                      !.terminal = "REJECTED_UNSENT", !.receipt = x]
    BY DEF Row, Terminal
  <2>3. /\ u.state = "REJECTED" /\ u.begin = old.begin /\ u.acked = old.acked
        /\ u.terminal = IF old.state = "REJECTED" THEN old.terminal ELSE "REJECTED_UNSENT"
        /\ u.receipt = IF old.state = "REJECTED" THEN old.receipt ELSE x
    BY <2>2 DEF Row
  <2>4. rejectUnsent(old) = u
    BY <2>1, <2>2 DEF rejectUnsent
  <2>5. r = u \/ r = [u EXCEPT !.marker = "DENIED"]
    BY <1>1, <2>4 DEF rejectDenied
  <2> QED BY <2>1, <2>3, <2>5 DEF Row
<1>3. RowInv(i)' /\ VenueInv(i)' /\ CentralInv(i)' /\ Later(i) /\ ~PostingInv(i)
  BY <1>1, <1>2, IntentFacts
  DEF RowInv, VenueInv, CentralInv, Later, PostingInv, Unsent, Settled, others, rejectable, Terminal
<1> QED BY <1>3, RowFreeStep

\* rejectDeniedReserve preserves the invariant.
LEMMA rejectDeniedReserveInv ==
    ASSUME IInv, NEW e \in Executor, rejectDeniedReserve(e)
    PROVE  IInv'
<1>1. e \in Process /\ TypeOK
  BY DEF Process, IInv
<1>2. UNCHANGED others /\ RestType'
  BY <1>1, ProcType DEF rejectDeniedReserve, others, worker, history, bounds, RestType
<1>3. PICK i \in Intent : i = proc[e].intent
  BY <1>1, ProcType
<1>4. CASE deniable(sql[i])
  <2>1. PICK r \in Row : r = rejectDenied(sql[i])
    BY IntentFacts, RowTypes
  <2>2. SetRow(i, r) /\ rejectable(sql[i])
    BY <1>3, <1>4, <2>1 DEF rejectDeniedReserve, deniable
  <2>3. PICK a \in Activity : Become(e, a) /\ a.pc \in Free
    BY <1>3, IdleType DEF rejectDeniedReserve, Finish, Free
  <2> QED BY <1>1, <1>2, <2>1, <2>2, <2>3, RejectStep
<1>5. CASE ~deniable(sql[i])
  <2>1. sql' = sql /\ Finish(e)
    BY <1>1, <1>3, <1>5 DEF rejectDeniedReserve, SetRow, TypeOK
  <2> QED BY <1>1, <1>2, <2>1, FinishStep DEF others, money
<1> QED BY <1>4, <1>5

\* rejectPrepostDenial preserves the invariant.
LEMMA rejectPrepostDenialInv ==
    ASSUME IInv, NEW e \in Executor, rejectPrepostDenial(e)
    PROVE  IInv'
<1>1. e \in Process /\ TypeOK
  BY DEF Process, IInv
<1>2. UNCHANGED others /\ RestType'
  BY <1>1, ProcType DEF rejectPrepostDenial, others, worker, history, bounds, RestType
<1>3. PICK i \in Intent : i = proc[e].intent
  BY <1>1, ProcType
<1>4. CASE rejectable(sql[i])
  <2>1. PICK r \in Row : r = rejectUnsent(sql[i])
    BY IntentFacts, RowTypes
  <2>2. SetRow(i, r) /\ Become(e, [proc[e] EXCEPT !.pc = "proving"])
    BY <1>3, <1>4, <2>1 DEF rejectPrepostDenial
  <2>3. PICK a \in Activity : a = [proc[e] EXCEPT !.pc = "proving"]
    BY <1>1, ProcType DEF Activity, Control
  <2>4. a.pc \in Free
    BY <1>1, <2>3, ProcType DEF Free, Activity
  <2> QED BY <1>1, <1>2, <1>4, <2>1, <2>2, <2>3, <2>4, RejectStep
<1>5. CASE ~rejectable(sql[i])
  <2>1. sql' = sql /\ Finish(e)
    BY <1>3, <1>5 DEF rejectPrepostDenial
  <2> QED BY <1>1, <1>2, <2>1, FinishStep DEF others, money
<1> QED BY <1>4, <1>5

\* reserve preserves the invariant.
LEMMA reserveInv ==
    ASSUME IInv, NEW e \in Executor, reserve(e)
    PROVE  IInv'
<1>1. e \in Process /\ TypeOK
  BY DEF Process, IInv
<1>2. UNCHANGED others /\ RestType'
  BY <1>1, ProcType DEF reserve, others, worker, history, bounds, RestType
<1>3. PICK i \in Intent : i = proc[e].intent
  BY <1>1, ProcType
<1>4. PICK a \in Activity : a = [proc[e] EXCEPT !.pc = "fencing"]
  BY <1>1, ProcType DEF Activity, Control
<1>5. a.pc \in Free
  BY <1>1, <1>4, ProcType DEF Free, Activity
<1>6. CASE i \notin expired /\ sql[i].state = "PREPARED"
  <2>1. PICK hash \in [via : {"none", "reserve", "inspect"}, seq : Nat] :
          hash = [via |-> proc[e].via, seq |-> proc[e].seq]
    BY <1>1, ProcType DEF Activity
  <2>2. PICK old \in Row : old = sql[i]
    BY IntentFacts
  <2>3. PICK r \in Row :
          r = [old EXCEPT !.state = "RESERVED", !.receipt = "HELD", !.hash = hash]
    BY DEF Row, Outstanding
  <2>4. /\ r.state = "RESERVED" /\ r.begin = old.begin /\ r.terminal = old.terminal
        /\ r.acked = old.acked
    BY <2>3 DEF Row
  <2>5. SetRow(i, r) /\ Become(e, a)
    BY <1>3, <1>4, <1>6, <2>1, <2>2, <2>3 DEF reserve
  <2>6. RowInv(i)' /\ VenueInv(i)' /\ CentralInv(i)' /\ Later(i) /\ ~PostingInv(i)
    BY <1>2, <1>6, <2>2, <2>4, <2>5, IntentFacts
    DEF RowInv, VenueInv, CentralInv, Later, PostingInv, Unsent, Settled, others, Terminal
  <2> QED BY <1>1, <1>2, <1>5, <2>5, <2>6, RowFreeStep
<1>7. CASE ~(i \notin expired /\ sql[i].state = "PREPARED")
  <2>1. sql' = sql /\ (Finish(e) \/ Become(e, a))
    BY <1>3, <1>4, <1>7 DEF reserve
  <2> QED BY <1>1, <1>2, <1>5, <2>1, FinishStep, FreeStep DEF others, money
<1> QED BY <1>6, <1>7

\* begin_post claims an intent that nobody else can have claimed or sent.
LEMMA beginPostInv ==
    ASSUME IInv, NEW e \in Executor, beginPost(e)
    PROVE  IInv'
<1>1. e \in Process /\ TypeOK
  BY DEF Process, IInv
<1>2. UNCHANGED others /\ RestType'
  BY <1>1, ProcType DEF beginPost, others, worker, history, bounds, RestType
<1>3. PICK i \in Intent : i = proc[e].intent
  BY <1>1, ProcType
<1>4. CASE Finish(e) /\ UNCHANGED sql
  BY <1>1, <1>2, <1>4, FinishStep DEF others, money
<1>5. CASE /\ postClaimable(i)
           /\ SetRow(i, [sql[i] EXCEPT !.state = "POSTING", !.begin = TRUE, !.receipt = "POSTED"])
           /\ Become(e, [proc[e] EXCEPT !.pc = "posting"])
  <2>1. PICK a \in Activity : a = [proc[e] EXCEPT !.pc = "posting"]
    BY <1>1, ProcType DEF Activity, Control
  <2>2. Become(e, a) /\ a.pc = "posting" /\ a.intent = i
    BY <1>1, <1>3, <1>5, <2>1, ProcType DEF Activity
  <2>3. PICK old \in Row : old = sql[i]
    BY IntentFacts
  <2>4. PICK r \in Row : r = [old EXCEPT !.state = "POSTING", !.begin = TRUE, !.receipt = "POSTED"]
    BY DEF Row, Outstanding
  <2>5. /\ r.state = "POSTING" /\ r.begin /\ r.terminal = old.terminal /\ r.acked = old.acked
    BY <2>4 DEF Row
  <2>6. SetRow(i, r) /\ old.state = "RESERVED"
    BY <1>5, <2>3, <2>4 DEF postClaimable
  <2>7. i \in granted
    BY <1>1, <1>3 DEF IInv, ProcInv, ActInv, beginPost
  <2>8. RowInv(i)' /\ VenueInv(i)' /\ CentralInv(i)' /\ Later(i)
    BY <1>2, <2>3, <2>5, <2>6, <2>7, IntentFacts
    DEF RowInv, VenueInv, CentralInv, Later, Unsent, Settled, others, Terminal
  <2>9. ~PostingInv(i) /\ PostingInv(i)'
    BY <1>2, <2>3, <2>5, <2>6, IntentFacts DEF PostingInv, RowInv, VenueInv, others
  <2>10. proc'[e] = a
    BY <1>1, <2>2 DEF TypeOK, Become
  <2>11. ActInv(proc[e])'
    BY <2>2, <2>10 DEF ActInv
  <2> QED BY <1>1, <1>2, <2>2, <2>6, <2>8, <2>9, <2>11, RowStep
<1> QED BY <1>3, <1>4, <1>5 DEF beginPost

\* What record_outcome writes.
LEMMA OutcomeRow ==
    ASSUME NEW old \in Row, NEW to \in {"UNKNOWN", "ACKNOWLEDGED"} \cup Terminal
    PROVE  /\ recordOutcome(old, to) \in Row
           /\ recordOutcome(old, to).state = to
           /\ recordOutcome(old, to).begin = old.begin
           /\ recordOutcome(old, to).acked = old.acked
           /\ recordOutcome(old, to).terminal \in {old.terminal, "TERMINAL"}
<1>1. PICK x \in {"UNKNOWN", "TERMINAL_PENDING", "OPEN"} :
        x = CASE to = "UNKNOWN" -> "UNKNOWN"
              [] to \in {"CANCELLED", "REJECTED"} -> "TERMINAL_PENDING"
              [] OTHER -> "OPEN"
  BY DEF Terminal
<1>2. PICK t \in {old.terminal, "TERMINAL"} :
        t = IF to \in Terminal /\ old.terminal = "none" THEN "TERMINAL" ELSE old.terminal
  OBVIOUS
<1>3. recordOutcome(old, to) = [old EXCEPT !.state = to, !.receipt = x, !.terminal = t]
  BY <1>1, <1>2 DEF recordOutcome
<1> QED BY <1>3 DEF Row, Outstanding, Terminal

\* An outcome that the exchange bears out may be recorded for a begun intent.
LEMMA RecordStep ==
    ASSUME IInv, UNCHANGED others, NEW i \in Intent,
           NEW to \in {"UNKNOWN", "ACKNOWLEDGED"} \cup Terminal,
           SetRow(i, recordOutcome(sql[i], to)),
           outcomeAllowed(sql[i], to), sql[i].begin,
           to = "FILLED" => venue[i].order = "filled",
           to = "CANCELLED" => venue[i].order = "canceled",
           to = "REJECTED" => ~venue[i].flight /\ venue[i].order \in {"none", "rejected"},
           NEW p \in Process, NEW a \in Activity, Become(p, a), a.pc # "posting",
           ActInv(proc[p])',
           ~PostingInv(i) \/ (proc[p].pc = "posting" /\ proc[p].intent = i)
    PROVE  IInv'
<1>1. PICK old \in Row : old = sql[i]
  BY IntentFacts
<1>2. PICK r \in Row : r = recordOutcome(old, to)
  BY OutcomeRow
<1>3. /\ r.state = to /\ r.begin = old.begin /\ r.acked = old.acked
      /\ r.terminal \in {old.terminal, "TERMINAL"}
  BY <1>2, OutcomeRow
<1>4. SetRow(i, r) /\ sql'[i] = r
  BY <1>1, <1>2, IntentFacts
<1>5. old.state \in Terminal => to = old.state
  BY <1>1 DEF outcomeAllowed, Terminal
<1>6. RowInv(i)'
  BY <1>1, <1>3, <1>4, IntentFacts DEF RowInv, Unsent, others, Terminal
<1>7. VenueInv(i)'
  BY <1>1, <1>3, <1>4, IntentFacts DEF VenueInv, others
<1>8. CentralInv(i)' /\ Later(i)
  BY <1>1, <1>3, <1>4, <1>5, IntentFacts DEF RowInv, CentralInv, Later, Unsent, Settled, others
<1> QED BY <1>4, <1>6, <1>7, <1>8, RowStep

\* post_once sends what only it has claimed, or records that it was refused.
LEMMA postOnceInv ==
    ASSUME IInv, NEW e \in Executor, postOnce(e)
    PROVE  IInv'
<1>1. e \in Process /\ TypeOK /\ IntentInv /\ ProcInv /\ UniqueInv /\ QueueInv
  BY DEF Process, IInv
<1>2. PICK i \in Intent : i = proc[e].intent
  BY <1>1, ProcType
<1>3. PostingInv(i) /\ proc[e].pc = "posting"
  BY <1>1, <1>2 DEF ProcInv, postOnce
<1>4. RowInv(i) /\ VenueInv(i) /\ CentralInv(i)
  BY IntentFacts
<1>5. CASE i \in expired \/ policy.agent # sql[i].rev
  <2>1. UNCHANGED others /\ SetRow(i, recordOutcome(sql[i], "REJECTED"))
    BY <1>2, <1>5 DEF postOnce, others, worker, bounds
  <2>2. PICK a \in Activity : Become(e, a) /\ a.pc = "idle"
    BY <1>2, <1>5, IdleType DEF postOnce, Finish
  <2>3. proc'[e] = a
    BY <1>1, <2>2 DEF TypeOK, Become
  <2>4. ActInv(proc[e])' /\ a.pc # "posting"
    BY <2>2, <2>3 DEF ActInv
  <2>5. /\ outcomeAllowed(sql[i], "REJECTED") /\ sql[i].begin
        /\ ~venue[i].flight /\ venue[i].order \in {"none", "rejected"}
    BY <1>3, <1>4 DEF PostingInv, RowInv, VenueInv, outcomeAllowed
  <2> QED BY <1>1, <1>2, <1>3, <2>1, <2>2, <2>4, <2>5, RecordStep DEF Terminal
<1>6. CASE ~(i \in expired \/ policy.agent # sql[i].rev)
  <2>1. /\ venue' = [venue EXCEPT ![i].flight = TRUE]
        /\ posts' = [posts EXCEPT ![i] = @ + 1]
        /\ Become(e, [proc[e] EXCEPT !.pc = "sent"])
        /\ UNCHANGED <<sql, policy, expired, queue, central, granted, sequence, revoked, noise, faults>>
    BY <1>2, <1>6 DEF postOnce, worker, bounds
  <2>2. PICK a \in Activity : a = [proc[e] EXCEPT !.pc = "sent"]
    BY <1>1, ProcType DEF Activity, Control
  <2>3. a.pc = "sent" /\ a.intent = i /\ Become(e, a)
    BY <1>1, <1>2, <2>1, <2>2, ProcType DEF Activity
  <2>4. /\ proc' \in [Process -> Activity] /\ proc'[e] = a
        /\ \A q \in Process \ {e} : proc'[q] = proc[q]
    BY <1>1, <2>3 DEF TypeOK, Become
  <2>5. /\ venue' \in [Intent -> [flight : BOOLEAN, order : Order, position : BOOLEAN]]
        /\ venue'[i].flight /\ venue'[i].order = venue[i].order
        /\ venue'[i].position = venue[i].position
        /\ \A j \in Intent \ {i} : venue'[j] = venue[j]
    BY <1>1, <2>1 DEF TypeOK
  <2>6. /\ posts' \in [Intent -> Nat] /\ posts'[i] = 1
        /\ \A j \in Intent \ {i} : posts'[j] = posts[j]
    BY <1>1, <1>3, <2>1 DEF TypeOK, PostingInv
  <2>7. TypeOK'
    BY <1>1, <2>1, <2>4, <2>5, <2>6 DEF TypeOK
  <2>8. ASSUME NEW j \in Intent
        PROVE  RowInv(j)' /\ VenueInv(j)' /\ CentralInv(j)' /\ Later(j)
    <3>1. CASE j = i
      BY <1>3, <1>4, <2>1, <2>5, <2>6, <3>1
      DEF PostingInv, RowInv, VenueInv, CentralInv, Later, Unsent, Settled, Terminal
    <3>2. CASE j # i
      <4>1. /\ venue'[j] = venue[j] /\ posts'[j] = posts[j]
            /\ RowInv(j) /\ VenueInv(j) /\ CentralInv(j)
        BY <2>5, <2>6, <3>2, IntentFacts
      <4> QED BY <2>1, <4>1 DEF RowInv, VenueInv, CentralInv, Later, Unsent, Settled
    <3> QED BY <3>1, <3>2
  <2>9. IntentInv' /\ \A j \in Intent : Later(j)
    BY <2>8 DEF IntentInv
  <2>10. ActInv(proc[e])' /\ proc'[e].pc # "posting"
    BY <2>3, <2>4, <2>6 DEF ActInv
  <2>11. \A q \in Process \ {e} : proc[q].pc = "posting" => PostingInv(proc[q].intent)'
    <3> SUFFICES ASSUME NEW q \in Process \ {e}, proc[q].pc = "posting"
                 PROVE  PostingInv(proc[q].intent)'
      OBVIOUS
    <3>1. PostingInv(proc[q].intent) /\ proc[q].intent \in Intent \ {i}
      BY <1>1, <1>2, <1>3 DEF ProcInv, UniqueInv, TypeOK, Activity
    <3> QED BY <2>1, <2>4, <2>6, <3>1 DEF PostingInv
  <2>12. ProcInv' /\ UniqueInv'
    BY <1>1, <2>4, <2>9, <2>10, <2>11, ProcKeep
  <2>13. QueueInv'
    BY <1>1, <2>1, <2>9, QueueKeep
  <2> QED BY <2>7, <2>9, <2>12, <2>13 DEF IInv
<1> QED BY <1>5, <1>6

\* An executor that has sent knows that the intent is begun and not claimed.
LEMMA SentFacts ==
    ASSUME IInv, NEW e \in Process, proc[e].pc \in {"sent", "recording"}
    PROVE  sql[proc[e].intent].begin /\ ~PostingInv(proc[e].intent)
<1>1. proc[e].intent \in Intent /\ ActInv(proc[e])
  BY DEF IInv, ProcInv, TypeOK, Activity
<1>2. posts[proc[e].intent] = 1
  BY <1>1 DEF ActInv
<1> QED BY <1>1, <1>2, IntentFacts DEF VenueInv, PostingInv

\* orderAccepted preserves the invariant.
LEMMA orderAcceptedInv ==
    ASSUME IInv, NEW e \in Executor, orderAccepted(e)
    PROVE  IInv'
<1>1. e \in Process /\ TypeOK
  BY DEF Process, IInv
<1>2. UNCHANGED others /\ RestType'
  BY <1>1, ProcType DEF orderAccepted, others, worker, history, bounds, RestType
<1>3. PICK i \in Intent : i = proc[e].intent
  BY <1>1, ProcType
<1>4. CASE outcomeAllowed(sql[i], "ACKNOWLEDGED")
  <2>1. PICK b \in Activity : b = Idle(i)
    BY IdleType
  <2>2. PICK a \in Activity : a = [b EXCEPT !.pc = "status"]
    BY DEF Activity, Control
  <2>3. Become(e, a) /\ a.pc = "status" /\ SetRow(i, recordOutcome(sql[i], "ACKNOWLEDGED"))
    BY <1>3, <1>4, <2>1, <2>2 DEF orderAccepted, Record, Activity
  <2>4. proc'[e] = a
    BY <1>1, <2>3 DEF TypeOK, Become
  <2>5. ActInv(proc[e])' /\ a.pc # "posting"
    BY <2>3, <2>4 DEF ActInv
  <2>6. sql[i].begin /\ ~PostingInv(i)
    BY <1>1, <1>3, SentFacts DEF orderAccepted
  <2> QED BY <1>1, <1>2, <1>4, <2>3, <2>5, <2>6, RecordStep
<1>5. CASE ~outcomeAllowed(sql[i], "ACKNOWLEDGED")
  <2>1. sql' = sql /\ Finish(e)
    BY <1>1, <1>3, <1>5 DEF orderAccepted, Record, SetRow, TypeOK
  <2> QED BY <1>1, <1>2, <2>1, FinishStep DEF others, money
<1> QED BY <1>4, <1>5

\* The end of an execute that records a refusal or an unknown outcome.
LEMMA RecordAndFinish ==
    ASSUME IInv, UNCHANGED others, RestType', NEW e \in Process, proc[e].pc = "sent",
           NEW to \in {"UNKNOWN", "REJECTED"}, Record(proc[e].intent, to), Finish(e),
           to = "REJECTED" => venue[proc[e].intent].order = "rejected"
    PROVE  IInv'
<1>1. TypeOK
  BY DEF IInv
<1>2. PICK i \in Intent : i = proc[e].intent
  BY <1>1, ProcType
<1>3. CASE outcomeAllowed(sql[i], to)
  <2>1. PICK a \in Activity : Become(e, a) /\ a.pc = "idle"
    BY <1>2, IdleType DEF Finish
  <2>2. proc'[e] = a
    BY <1>1, <2>1 DEF TypeOK, Become
  <2>3. ActInv(proc[e])' /\ a.pc # "posting"
    BY <2>1, <2>2 DEF ActInv
  <2>4. sql[i].begin /\ ~PostingInv(i)
    BY <1>2, SentFacts
  <2>5. to = "REJECTED" => ~venue[i].flight /\ venue[i].order \in {"none", "rejected"}
    BY <1>2, IntentFacts DEF VenueInv
  <2>6. SetRow(i, recordOutcome(sql[i], to))
    BY <1>2, <1>3 DEF Record
  <2> QED BY <1>3, <2>1, <2>3, <2>4, <2>5, <2>6, RecordStep DEF Terminal
<1>4. CASE ~outcomeAllowed(sql[i], to)
  <2>1. sql' = sql
    BY <1>1, <1>2, <1>4 DEF Record, SetRow, TypeOK
  <2> QED BY <2>1, FinishStep DEF others, money
<1> QED BY <1>3, <1>4

\* orderRefused preserves the invariant.
LEMMA orderRefusedInv ==
    ASSUME IInv, NEW e \in Executor, orderRefused(e)
    PROVE  IInv'
<1>1. e \in Process /\ TypeOK
  BY DEF Process, IInv
<1>2. UNCHANGED others /\ RestType'
  BY <1>1, ProcType DEF orderRefused, others, worker, history, bounds, RestType
<1> QED BY <1>1, <1>2, RecordAndFinish DEF orderRefused

\* responseLost preserves the invariant.
LEMMA responseLostInv ==
    ASSUME IInv, NEW e \in Executor, responseLost(e)
    PROVE  IInv'
<1>1. e \in Process /\ TypeOK
  BY DEF Process, IInv
<1>2. UNCHANGED others /\ RestType'
  BY <1>1, ProcType DEF responseLost, others, worker, history, bounds, RestType
<1> QED BY <1>1, <1>2, RecordAndFinish DEF responseLost

\* Every step of an executor preserves the invariant.
LEMMA ExecutorStepInv ==
    ASSUME IInv, NEW e \in Executor, ExecutorStep(e)
    PROVE  IInv'
BY prepareInv, markReserveAttemptInv, requestReserveInv, reserveRepliedInv,
   reserveInspectedInv, rejectDeniedReserveInv, rejectPrepostDenialInv, reserveInv,
   requestFenceInv, fenceRepliedInv, fenceInspectedInv, beginPostInv, postOnceInv,
   orderAcceptedInv, orderRefusedInv, responseLostInv DEF ExecutorStep

-------------------------------------------------------------------------------
(***************************************************************************)
(* The reconciler, action by action.                                       *)
(***************************************************************************)
\* A maintenance turn preserves the invariant.
LEMMA maintainInv ==
    ASSUME IInv, NEW m \in Reconciler, NEW i \in Intent, maintain(m, i)
    PROVE  IInv'
<1>1. m \in Process /\ TypeOK
  BY DEF Process, IInv
<1>2. UNCHANGED money /\ RestType' /\ queue' = queue
  BY <1>1, ProcType DEF maintain, money, worker, history, bounds, RestType
<1>3. PICK b \in Activity : b = Idle(i)
  BY IdleType
<1>4. PICK a \in Activity : a = [b EXCEPT !.pc = "status"]
  BY DEF Activity, Control
<1>5. Become(m, a) /\ a.pc \in Free
  BY <1>3, <1>4 DEF maintain, Free, Activity
<1> QED BY <1>1, <1>2, <1>5, FreeStep

\* statusIntent preserves the invariant.
LEMMA statusIntentInv ==
    ASSUME IInv, NEW p \in Process, statusIntent(p)
    PROVE  IInv'
<1>1. TypeOK
  BY DEF IInv
<1>2. UNCHANGED others /\ RestType'
  BY <1>1, ProcType DEF statusIntent, others, worker, history, bounds, RestType
<1>3. PICK i \in Intent : i = proc[p].intent
  BY <1>1, ProcType
<1>4. CASE Finish(p) /\ UNCHANGED sql
  BY <1>1, <1>2, <1>4, FinishStep DEF others, money
<1>5. CASE /\ sql[i].state \in {"PREPARED", "RESERVED"}
           /\ SetRow(i, rejectUnsent(sql[i])) /\ UNCHANGED proc
  <2>1. PICK r \in Row : r = rejectUnsent(sql[i])
    BY IntentFacts, RowTypes
  <2>2. rejectable(sql[i])
    BY <1>5, IntentFacts DEF rejectable, RowInv, Row
  <2>3. PICK a \in Activity : a = proc[p]
    BY <1>1, ProcType
  <2>4. Become(p, a) /\ a.pc \in Free
    BY <1>1, <1>5, <2>3 DEF Become, TypeOK, statusIntent, Free
  <2> QED BY <1>2, <1>5, <2>1, <2>2, <2>4, RejectStep
<1>6. CASE /\ ~declinedReserve(sql[i]) /\ ~unsentBeforeReserve(sql[i])
           /\ Become(p, [proc[p] EXCEPT !.terminal = sql[i].state \in Terminal, !.pc =
                        IF unsentReleaseReceipt(sql[i]) THEN "proving"
                        ELSE IF sql[i].state = "REJECTED" THEN "releasing" ELSE "ordering"])
           /\ UNCHANGED sql
  <2>1. PICK c \in {"proving", "releasing", "ordering"} :
            c = IF unsentReleaseReceipt(sql[i]) THEN "proving"
                ELSE IF sql[i].state = "REJECTED" THEN "releasing" ELSE "ordering"
    OBVIOUS
  <2>2. PICK t \in BOOLEAN : t = (sql[i].state \in Terminal)
    <3>1. (sql[i].state \in Terminal) \in BOOLEAN
      OBVIOUS
    <3> QED BY <3>1, Zenon
  <2>3. PICK a \in Activity : a = [proc[p] EXCEPT !.terminal = t, !.pc = c]
    BY <1>1, ProcType DEF Activity, Control
  <2>4. Become(p, a)
    BY <1>6, <2>1, <2>2, <2>3
  <2>5. a.pc = c /\ a.intent = i
    BY <1>1, <1>3, <2>3, ProcType DEF Activity
  <2>6. c = "releasing" => /\ sql[i].state \in Terminal
                           /\ sql[i].begin \/ sql[i].receipt = "none"
    BY <2>1, IntentFacts DEF unsentReleaseReceipt, RowInv, Unsent, Terminal
  <2>7. proc'[p] = a
    BY <1>1, <2>4 DEF TypeOK, Become
  <2>8. ActInv(proc[p])' /\ a.pc # "posting"
    BY <1>2, <1>6, <2>5, <2>6, <2>7 DEF ActInv
  <2> QED BY <1>2, <1>6, <2>4, <2>8, QuietStep DEF others, money
<1> QED BY <1>3, <1>4, <1>5, <1>6 DEF statusIntent

\* proveUnsent preserves the invariant.
LEMMA proveUnsentInv ==
    ASSUME IInv, NEW p \in Process, proveUnsent(p)
    PROVE  IInv'
<1>1. TypeOK
  BY DEF IInv
<1>2. UNCHANGED money /\ RestType'
  BY <1>1, ProcType DEF proveUnsent, money, worker, history, bounds, RestType
<1>3. CASE Finish(p) /\ UNCHANGED queue
  BY <1>2, <1>3, FinishStep
<1>4. CASE /\ unsentReleaseReceipt(sql[proc[p].intent])
           /\ Request(p, [proc[p] EXCEPT !.tries = 1], "unsent_inspect")
  <2>1. PICK a \in Activity : a = [proc[p] EXCEPT !.tries = 1]
    BY <1>1, ProcType DEF Activity
  <2>2. a.intent = proc[p].intent
    BY <1>1, <2>1, ProcType DEF Activity
  <2>3. Knows("unsent_inspect", a.intent) /\ "unsent_inspect" \in Waiting
    BY <1>4, <2>2 DEF Knows, Waiting, unsentReleaseReceipt, Unsent
  <2> QED BY <1>2, <1>4, <2>1, <2>3, RequestStep
<1> QED BY <1>3, <1>4 DEF proveUnsent

\* A process that has seen the reservation final goes on to acknowledge it.
LEMMA AcknowledgingStep ==
    ASSUME IInv, RestType', UNCHANGED money, UNCHANGED queue, NEW p \in Process,
           Become(p, [proc[p] EXCEPT !.pc = "acknowledging", !.reply = NoReply]),
           central[proc[p].intent] \in Final
    PROVE  IInv'
<1>1. TypeOK
  BY DEF IInv
<1>2. PICK a \in Activity : a = [proc[p] EXCEPT !.pc = "acknowledging", !.reply = NoReply]
  BY <1>1, ProcType DEF Activity, Control, NoReply, Status
<1>3. a.pc = "acknowledging" /\ a.intent = proc[p].intent
  BY <1>1, <1>2, ProcType DEF Activity
<1>4. proc'[p] = a
  BY <1>1, <1>2 DEF TypeOK, Become
<1>5. ActInv(proc[p])' /\ a.pc # "posting"
  BY <1>3, <1>4 DEF ActInv, money
<1> QED BY <1>2, <1>5, QuietStep

\* unsentInspected preserves the invariant.
LEMMA unsentInspectedInv ==
    ASSUME IInv, NEW p \in Process, unsentInspected(p)
    PROVE  IInv'
<1>1. TypeOK /\ ActInv(proc[p]) /\ proc[p].pc = "unsent_inspect"
  BY DEF IInv, ProcInv, unsentInspected, Replied
<1>2. UNCHANGED money /\ RestType'
  BY <1>1, ProcType DEF unsentInspected, money, worker, history, bounds, RestType
<1>3. CASE Finish(p) /\ UNCHANGED queue
  BY <1>2, <1>3, FinishStep
<1>4. CASE /\ proc[p].reply.status = "RELEASED"
           /\ Become(p, [proc[p] EXCEPT !.pc = "acknowledging", !.reply = NoReply])
           /\ UNCHANGED queue
  BY <1>1, <1>2, <1>4, AcknowledgingStep DEF ActInv
<1>5. CASE Request(p, [proc[p] EXCEPT !.seq = proc[p].reply.seq], "unsent_release")
  <2>1. PICK n \in Nat : n = proc[p].reply.seq
    BY <1>1, ProcType
  <2>2. PICK a \in Activity : a = [proc[p] EXCEPT !.seq = n]
    BY <1>1, ProcType DEF Activity
  <2>3. a.intent = proc[p].intent
    BY <1>1, <2>2, ProcType DEF Activity
  <2>4. Knows("unsent_release", a.intent) /\ "unsent_release" \in Waiting
    BY <1>1, <2>3 DEF Knows, Waiting, ActInv
  <2> QED BY <1>2, <1>5, <2>1, <2>2, <2>4, RequestStep
<1> QED BY <1>3, <1>4, <1>5 DEF unsentInspected

\* unsentReleased preserves the invariant.
LEMMA unsentReleasedInv ==
    ASSUME IInv, NEW p \in Process, unsentReleased(p)
    PROVE  IInv'
<1>1. TypeOK /\ ActInv(proc[p]) /\ proc[p].pc = "unsent_release"
  BY DEF IInv, ProcInv, unsentReleased, Replied
<1>2. UNCHANGED money /\ RestType'
  BY <1>1, ProcType DEF unsentReleased, money, worker, history, bounds, RestType
<1>3. CASE Finish(p) /\ UNCHANGED queue
  BY <1>2, <1>3, FinishStep
<1>4. CASE /\ proc[p].reply.status = "UPDATED"
           /\ Become(p, [proc[p] EXCEPT !.pc = "acknowledging", !.reply = NoReply])
           /\ UNCHANGED queue
  BY <1>1, <1>2, <1>4, AcknowledgingStep DEF ActInv
<1>5. CASE Request(p, [proc[p] EXCEPT !.tries = @ + 1], "unsent_inspect")
  <2>1. PICK n \in Nat : n = proc[p].tries + 1
    BY <1>1, ProcType
  <2>2. PICK a \in Activity : a = [proc[p] EXCEPT !.tries = n]
    BY <1>1, ProcType DEF Activity
  <2>3. a.intent = proc[p].intent /\ Request(p, a, "unsent_inspect")
    BY <1>1, <1>5, <2>1, <2>2, ProcType DEF Activity
  <2>4. Knows("unsent_inspect", a.intent) /\ "unsent_inspect" \in Waiting
    BY <1>1, <2>3 DEF Knows, Waiting, ActInv
  <2> QED BY <1>2, <2>3, <2>4, RequestStep
<1> QED BY <1>3, <1>4, <1>5 DEF unsentReleased

\* readOrder preserves the invariant.
LEMMA readOrderInv ==
    ASSUME IInv, NEW p \in Process, readOrder(p)
    PROVE  IInv'
<1>1. TypeOK
  BY DEF IInv
<1>2. UNCHANGED money /\ RestType' /\ queue' = queue
  BY <1>1, ProcType DEF readOrder, money, worker, history, bounds, RestType
<1>3. CASE Finish(p)
  BY <1>2, <1>3, FinishStep
<1>4. CASE /\ venue[proc[p].intent].order \in {"live", "filled", "canceled"}
           /\ Become(p, [proc[p] EXCEPT !.pc = "recording", !.seen = venue[proc[p].intent].order])
  <2>1. PICK i \in Intent : i = proc[p].intent
    BY <1>1, ProcType
  <2>2. PICK x \in {"live", "filled", "canceled"} : x = venue[i].order
    BY <1>4, <2>1
  <2>3. PICK a \in Activity : a = [proc[p] EXCEPT !.pc = "recording", !.seen = x]
    BY <1>1, ProcType DEF Activity, Control, Order
  <2>4. Become(p, a) /\ a.pc = "recording" /\ a.intent = i /\ a.seen = x
    BY <1>1, <1>4, <2>1, <2>2, <2>3, ProcType DEF Activity
  <2>5. proc'[p] = a
    BY <1>1, <2>4 DEF TypeOK, Become
  <2>6. posts[i] = 1
    BY <2>2, IntentFacts DEF VenueInv
  <2>7. ActInv(proc[p])' /\ a.pc # "posting"
    BY <1>2, <2>2, <2>4, <2>5, <2>6 DEF ActInv, money
  <2> QED BY <1>2, <2>4, <2>7, QuietStep
<1> QED BY <1>3, <1>4 DEF readOrder

\* recordOrderReadback preserves the invariant.
LEMMA recordOrderReadbackInv ==
    ASSUME IInv, NEW p \in Process, recordOrderReadback(p)
    PROVE  IInv'
<1>1. TypeOK /\ ActInv(proc[p]) /\ proc[p].pc = "recording"
  BY DEF IInv, ProcInv, recordOrderReadback
<1>2. UNCHANGED others /\ RestType'
  BY <1>1, ProcType DEF recordOrderReadback, others, worker, history, bounds, RestType
<1>3. PICK i \in Intent : i = proc[p].intent
  BY <1>1, ProcType
<1>4. sql[i].begin /\ ~PostingInv(i)
  BY <1>1, <1>3, SentFacts
<1>5. PICK a \in Activity : a = [proc[p] EXCEPT !.pc = "releasing"]
  BY <1>1, ProcType DEF Activity, Control
<1>6. a.pc = "releasing" /\ a.intent = i
  BY <1>1, <1>3, <1>5, ProcType DEF Activity
<1>7. PICK b \in Activity : b = Idle(i) /\ b.pc = "idle"
  BY IdleType
<1>8. PICK old \in Row : old = sql[i]
  BY IntentFacts
<1>9. PICK to \in {"ACKNOWLEDGED", "FILLED", "CANCELLED"} :
        /\ to = OutcomeOf[proc[p].seen]
        /\ to = "FILLED" => venue[i].order = "filled"
        /\ to = "CANCELLED" => venue[i].order = "canceled"
  BY <1>1, <1>3 DEF ActInv, OutcomeOf
<1>10. CASE ~proc[p].terminal /\ outcomeAllowed(sql[i], to)
  <2>1. SetRow(i, recordOutcome(sql[i], to))
    BY <1>3, <1>9, <1>10 DEF recordOrderReadback
  <2>2. sql'[i].state = to /\ sql'[i].begin
    BY <1>4, <1>8, <2>1, IntentFacts, OutcomeRow DEF Terminal
  <2>3. PICK c \in Activity : Become(p, c) /\ (c = b \/ (c = a /\ sql'[i].state \in Terminal))
    <3>1. recordOutcome(sql[i], to).state = to
      BY <1>8, OutcomeRow DEF Terminal
    <3>2. Finish(p) \/ (Become(p, [proc[p] EXCEPT !.pc = "releasing"]) /\ to \in Terminal)
      BY <1>3, <1>9, <1>10, <3>1 DEF recordOrderReadback
    <3>3. Become(p, b) \/ (Become(p, a) /\ to \in Terminal)
      BY <1>3, <1>5, <1>7, <3>2 DEF Finish
    <3>4. CASE Become(p, b)
      BY <3>4
    <3>5. CASE Become(p, a) /\ to \in Terminal
      BY <2>2, <3>5
    <3> QED BY <3>3, <3>4, <3>5
  <2>4. proc'[p] = c
    BY <1>1, <2>3 DEF TypeOK, Become
  <2>5. ActInv(proc[p])' /\ c.pc # "posting"
    BY <1>6, <1>7, <2>2, <2>3, <2>4 DEF ActInv
  <2> QED BY <1>2, <1>4, <1>9, <1>10, <2>1, <2>3, <2>5, RecordStep DEF Terminal
<1>11. CASE proc[p].terminal
  <2>1. sql' = sql
    BY <1>1, <1>3, <1>11 DEF recordOrderReadback, SetRow, TypeOK
  <2>2. PICK c \in Activity : Become(p, c) /\ (c = b \/ (c = a /\ sql[i].state \in Terminal))
    <3>1. Finish(p) \/ (Become(p, [proc[p] EXCEPT !.pc = "releasing"]) /\ sql[i].state \in Terminal)
      BY <1>3, <1>11 DEF recordOrderReadback
    <3>2. Become(p, b) \/ (Become(p, a) /\ sql[i].state \in Terminal)
      BY <1>3, <1>5, <1>7, <3>1 DEF Finish
    <3>3. CASE Become(p, b)
      BY <3>3
    <3>4. CASE Become(p, a) /\ sql[i].state \in Terminal
      BY <3>4
    <3> QED BY <3>2, <3>3, <3>4
  <2>3. proc'[p] = c
    BY <1>1, <2>2 DEF TypeOK, Become
  <2>4. ActInv(proc[p])' /\ c.pc # "posting"
    BY <1>4, <1>6, <1>7, <2>1, <2>2, <2>3 DEF ActInv
  <2> QED BY <1>2, <2>1, <2>2, <2>4, QuietStep DEF others, money
<1>12. CASE ~proc[p].terminal /\ ~outcomeAllowed(sql[i], to)
  <2>1. sql' = sql /\ Finish(p)
    BY <1>3, <1>9, <1>12 DEF recordOrderReadback
  <2> QED BY <1>2, <2>1, FinishStep DEF others, money
<1> QED BY <1>10, <1>11, <1>12

\* Only a settled intent is released on its terminal receipt.
LEMMA releaseTerminalInv ==
    ASSUME IInv, NEW p \in Process, releaseTerminal(p)
    PROVE  IInv'
<1>1. TypeOK /\ ActInv(proc[p]) /\ proc[p].pc = "releasing"
  BY DEF IInv, ProcInv, releaseTerminal
<1>2. UNCHANGED money /\ RestType'
  BY <1>1, ProcType DEF releaseTerminal, money, worker, history, bounds, RestType
<1>3. CASE Finish(p) /\ UNCHANGED queue
  BY <1>2, <1>3, FinishStep
<1>4. CASE /\ sql[proc[p].intent].receipt # "none" /\ flat(proc[p].intent)
           /\ Request(p, proc[p], "terminal_inspect")
  <2>1. PICK a \in Activity : a = proc[p]
    BY <1>1, ProcType
  <2>2. a.intent \in Intent
    BY <1>1, <2>1, ProcType
  <2>3. Settled(a.intent)
    BY <1>1, <1>4, <2>1, <2>2, IntentFacts DEF Settled, ActInv, flat, VenueInv, RowInv, Terminal
  <2>4. Knows("terminal_inspect", a.intent) /\ "terminal_inspect" \in Waiting
    BY <2>3 DEF Knows, Waiting
  <2> QED BY <1>2, <1>4, <2>1, <2>4, RequestStep
<1> QED BY <1>3, <1>4 DEF releaseTerminal

\* terminalInspected preserves the invariant.
LEMMA terminalInspectedInv ==
    ASSUME IInv, NEW p \in Process, terminalInspected(p)
    PROVE  IInv'
<1>1. TypeOK /\ ActInv(proc[p]) /\ proc[p].pc = "terminal_inspect"
  BY DEF IInv, ProcInv, terminalInspected, Replied
<1>2. UNCHANGED money /\ RestType'
  BY <1>1, ProcType DEF terminalInspected, money, worker, history, bounds, RestType
<1>3. CASE Finish(p) /\ UNCHANGED queue
  BY <1>2, <1>3, FinishStep
<1>4. CASE /\ proc[p].reply.status = "RELEASED"
           /\ Become(p, [proc[p] EXCEPT !.pc = "acknowledging", !.reply = NoReply])
           /\ UNCHANGED queue
  BY <1>1, <1>2, <1>4, AcknowledgingStep DEF ActInv
<1>5. CASE Request(p, [proc[p] EXCEPT !.seq = proc[p].reply.seq], "terminal_resolve")
  <2>1. PICK n \in Nat : n = proc[p].reply.seq
    BY <1>1, ProcType
  <2>2. PICK a \in Activity : a = [proc[p] EXCEPT !.seq = n]
    BY <1>1, ProcType DEF Activity
  <2>3. a.intent = proc[p].intent
    BY <1>1, <2>2, ProcType DEF Activity
  <2>4. Knows("terminal_resolve", a.intent) /\ "terminal_resolve" \in Waiting
    BY <1>1, <2>3 DEF Knows, Waiting, ActInv
  <2> QED BY <1>2, <1>5, <2>1, <2>2, <2>4, RequestStep
<1> QED BY <1>3, <1>4, <1>5 DEF terminalInspected

\* terminalResolved preserves the invariant.
LEMMA terminalResolvedInv ==
    ASSUME IInv, NEW p \in Process, terminalResolved(p)
    PROVE  IInv'
<1>1. TypeOK /\ ActInv(proc[p]) /\ proc[p].pc = "terminal_resolve"
  BY DEF IInv, ProcInv, terminalResolved, Replied
<1>2. UNCHANGED money /\ RestType' /\ UNCHANGED queue
  BY <1>1, ProcType DEF terminalResolved, money, worker, history, bounds, RestType
<1>3. CASE Finish(p)
  BY <1>2, <1>3, FinishStep
<1>4. CASE /\ proc[p].reply.status = "UPDATED"
           /\ Become(p, [proc[p] EXCEPT !.pc = "acknowledging", !.reply = NoReply])
  BY <1>1, <1>2, <1>4, AcknowledgingStep DEF ActInv
<1> QED BY <1>3, <1>4 DEF terminalResolved

\* An acknowledgement follows a final reservation.
LEMMA acknowledgeCentralReleaseInv ==
    ASSUME IInv, NEW p \in Process, acknowledgeCentralRelease(p)
    PROVE  IInv'
<1>1. TypeOK /\ ActInv(proc[p]) /\ proc[p].pc = "acknowledging"
  BY DEF IInv, ProcInv, acknowledgeCentralRelease
<1>2. UNCHANGED others
  BY DEF acknowledgeCentralRelease, others, worker, history, bounds
<1>3. PICK i \in Intent : i = proc[p].intent
  BY <1>1, ProcType
<1>4. PICK a \in Activity : Become(p, a) /\ a.pc \in Free
  BY <1>3, IdleType DEF acknowledgeCentralRelease, Finish, Free
<1>5. PICK old \in Row : old = sql[i]
  BY IntentFacts
<1>6. PICK x \in {"none", "RELEASED"} : x = IF old.receipt = "none" THEN old.receipt ELSE "RELEASED"
  OBVIOUS
<1>7. PICK r \in Row : r = [old EXCEPT !.acked = TRUE, !.receipt = x]
  BY DEF Row
<1>8. /\ r.state = old.state /\ r.begin = old.begin /\ r.terminal = old.terminal
      /\ r.acked /\ r.receipt = x
  BY <1>7 DEF Row
<1>9. SetRow(i, r)
  BY <1>3, <1>5, <1>6, <1>7 DEF acknowledgeCentralRelease, acknowledged
<1>10. central[i] \in Final
  BY <1>1, <1>3 DEF ActInv
<1>11. RowInv(i)' /\ VenueInv(i)' /\ CentralInv(i)' /\ Later(i) /\ ~PostingInv(i)
  BY <1>2, <1>5, <1>6, <1>8, <1>9, <1>10, IntentFacts
  DEF RowInv, VenueInv, CentralInv, Later, PostingInv, Unsent, Settled, others, Terminal
<1> QED BY <1>2, <1>4, <1>9, <1>11, RowFreeStep

\* Every step of a status reader preserves the invariant.
LEMMA StatusStepInv ==
    ASSUME IInv, NEW p \in Process, StatusStep(p)
    PROVE  IInv'
BY statusIntentInv, proveUnsentInv, unsentInspectedInv, unsentReleasedInv, readOrderInv,
   recordOrderReadbackInv, releaseTerminalInv, terminalInspectedInv, terminalResolvedInv,
   acknowledgeCentralReleaseInv DEF StatusStep

-------------------------------------------------------------------------------
(***************************************************************************)
(* The transport and the Worker.                                           *)
(***************************************************************************)
\* What the reply to a command tells whoever waits for it.
Told(id, i, status) ==
    /\ id = "fence" /\ status = "POST_AUTHORIZED" => i \in granted
    /\ id \in {"unsent_inspect", "terminal_inspect"} /\ status = "RELEASED" => central[i] \in Final
    /\ id \in {"unsent_release", "terminal_resolve"} /\ status = "UPDATED" => central[i] \in Final

Replies == [status : Status, seq : Nat]

\* Replying changes nothing but the replies of those who wait for them.
LEMMA ReplyStep ==
    ASSUME IInv, NEW c \in Command, NEW reply \in Replies, ReplyTo(c, reply),
           Told(c.id, c.intent, reply.status)',
           queue # << >>, queue' = Tail(queue), sql' = sql, posts' = posts, venue' = venue,
           IntentInv', \A i \in Intent : Later(i), RestType',
           central' \in [Intent -> {"NONE", "HELD", "POSTED"} \cup Final],
           granted' \subseteq Intent
    PROVE  IInv'
<1>1. TypeOK /\ IntentInv /\ ProcInv /\ UniqueInv /\ QueueInv
  BY DEF IInv
<1>2. c.id \in Waiting /\ c.intent \in Intent
  BY DEF Command
<1>3. ASSUME NEW q \in Process
      PROVE  /\ proc'[q] \in Activity
             /\ ActInv(proc[q])'
             /\ proc'[q].pc = "posting" => proc'[q] = proc[q]
  <2>1. PICK old \in Activity : old = proc[q] /\ ActInv(proc[q])
    BY <1>1, ProcType DEF ProcInv
  <2>2. PICK i \in Intent : i = old.intent
    BY DEF Activity
  <2>3. Later(i)
    BY <2>2
  <2>4. CASE proc'[q] = proc[q]
    BY <2>1, <2>2, <2>3, <2>4 DEF ActInv, Later
  <2>5. CASE /\ old.pc = c.id /\ old.intent = c.intent
             /\ proc'[q] = [old EXCEPT !.reply = reply]
    <3>1. PICK new \in Activity : new = [old EXCEPT !.reply = reply]
      BY DEF Activity, Replies
    <3>2. /\ new.pc = c.id /\ new.intent = i /\ new.seen = old.seen /\ new.reply = reply
          /\ c.intent = i /\ old.pc = c.id
      BY <2>2, <2>5, <3>1 DEF Activity
    <3>3. proc'[q] = new
      BY <2>5, <3>1
    <3>4. ActInv(proc[q])'
      BY <1>2, <2>1, <2>2, <2>3, <3>2, <3>3 DEF ActInv, Told, Later, Waiting
    <3> QED BY <1>2, <3>2, <3>3, <3>4 DEF Waiting
  <2>6. proc'[q] = IF old.pc = c.id /\ old.intent = c.intent /\ old.reply.status = "wait"
                   THEN [old EXCEPT !.reply = reply] ELSE proc[q]
    BY <2>1 DEF ReplyTo
  <2> QED BY <2>1, <2>4, <2>5, <2>6
<1>4. proc' \in [Process -> Activity]
  BY <1>3 DEF ReplyTo
<1>5. queue' \in Seq(Command)
  BY <1>1 DEF TypeOK
<1>6. TypeOK'
  BY <1>1, <1>4, <1>5 DEF TypeOK, RestType
<1>7. ProcInv'
  <2> SUFFICES ASSUME NEW q \in Process, proc'[q].pc = "posting"
               PROVE  PostingInv(proc[q].intent)'
    BY <1>3 DEF ProcInv
  <2> QED BY <1>1, <1>3 DEF ProcInv, PostingInv
<1>8. UniqueInv'
  BY <1>1, <1>3 DEF UniqueInv
<1>9. QueueInv'
  BY <1>1, QueueKeep
<1> QED BY <1>6, <1>7, <1>8, <1>9 DEF IInv

\* What an answer of the Worker may be, given what the command knows.
AnswerOK(c, a) ==
    /\ a.status \in Status /\ a.bump \in Nat /\ a.seq \in Nat
    /\ a.to \in {"NONE", "HELD", "POSTED"} \cup Final
    /\ a.to \in Final => central[c.intent] \in Final \/ Unsent(c.intent) \/ Settled(c.intent)
    /\ central[c.intent] \in Final => a.to \in Final
    /\ c.intent \in granted => a.to \in {"POSTED"} \cup Final
    /\ a.status = "POST_AUTHORIZED" => a.to = "POSTED"
    /\ c.id \in {"unsent_inspect", "terminal_inspect"} /\ a.status = "RELEASED" => a.to \in Final
    /\ c.id \in {"unsent_release", "terminal_resolve"} /\ a.status = "UPDATED" => a.to \in Final

\* The Worker answers only so.
LEMMA AnswersOK ==
    ASSUME IInv, NEW c \in Command, CmdInv(c), NEW a \in answers(c)
    PROVE  AnswerOK(c, a)
<1>1. PICK i \in Intent : i = c.intent
  BY DEF Command
<1>2. PICK s \in {"NONE", "HELD", "POSTED"} \cup Final :
        s = central[i] /\ (i \in granted => s \in {"POSTED"} \cup Final)
  BY IntentFacts DEF IInv, TypeOK, CentralInv
<1>3. PICK n \in Nat : n = sequence
  BY DEF IInv, TypeOK
<1>4. c.id \in Waiting
  BY DEF Command
<1>5. a = Denied(i) => AnswerOK(c, a)
  BY <1>1, <1>2 DEF Denied, Answer, AnswerOK, Status
<1>6. CASE c.id = "reserve"
  <2>1. \/ a = Denied(i)
        \/ s \in {"NONE", "HELD"} /\ \E m \in 0..1 : a = Answer("HELD", "HELD", m, n + m)
    BY <1>1, <1>2, <1>3, <1>6 DEF answers, reserveAnswers
  <2>2. CASE s \in {"NONE", "HELD"} /\ \E m \in 0..1 : a = Answer("HELD", "HELD", m, n + m)
    BY <1>1, <1>2, <1>3, <1>6, <2>2 DEF Answer, AnswerOK, Status, Final
  <2> QED BY <1>5, <2>1, <2>2
<1>7. CASE c.id = "fence"
  <2>1. \/ a = Denied(i)
        \/ a = Answer("STALE", s, 0, 0)
        \/ s = "HELD" /\ a = Answer("POST_AUTHORIZED", "POSTED", 1, n + 1)
    BY <1>1, <1>2, <1>3, <1>7 DEF answers, fenceAnswers
  <2>2. CASE a = Answer("STALE", s, 0, 0)
    BY <1>1, <1>2, <1>7, <2>2 DEF Answer, AnswerOK, Status
  <2>3. CASE s = "HELD" /\ a = Answer("POST_AUTHORIZED", "POSTED", 1, n + 1)
    BY <1>1, <1>2, <1>7, <2>3 DEF Answer, AnswerOK, Status, Final
  <2> QED BY <1>5, <2>1, <2>2, <2>3
<1>8. CASE c.id = "unsent_release"
  <2>1. Unsent(i)
    BY <1>1, <1>8 DEF CmdInv
  <2>2. \/ a = Denied(i)
        \/ a = Answer("STALE", s, 0, 0)
        \/ \E m \in 0..1, t \in Final : a = Answer("UPDATED", t, m, n + m)
    BY <1>1, <1>2, <1>3, <1>8 DEF answers, releaseAnswers, Final
  <2>3. CASE a = Answer("STALE", s, 0, 0)
    BY <1>1, <1>2, <1>8, <2>3 DEF Answer, AnswerOK, Status
  <2>4. CASE \E m \in 0..1, t \in Final : a = Answer("UPDATED", t, m, n + m)
    BY <1>1, <1>2, <1>8, <2>1, <2>4 DEF Answer, AnswerOK, Status
  <2> QED BY <1>5, <2>2, <2>3, <2>4
<1>9. CASE c.id = "terminal_resolve"
  <2>1. Settled(i)
    BY <1>1, <1>9 DEF CmdInv
  <2>2. a = Denied(i) \/ a = Answer("UPDATED", "RELEASED", 1, n + 1)
    BY <1>1, <1>2, <1>3, <1>9 DEF answers, resolveAnswers
  <2>3. CASE a = Answer("UPDATED", "RELEASED", 1, n + 1)
    BY <1>1, <1>2, <1>9, <2>1, <2>3 DEF Answer, AnswerOK, Status, Final
  <2> QED BY <1>5, <2>2, <2>3
<1>10. CASE c.id \in {"reserve_inspect", "fence_inspect", "unsent_inspect", "terminal_inspect"}
  <2>1. PICK x \in Status :
          /\ x = CASE s \in Final -> "RELEASED" [] s = "NONE" -> "NOT_FOUND" [] OTHER -> s
          /\ x = "RELEASED" => s \in Final
          /\ x # "POST_AUTHORIZED" /\ x # "UPDATED"
    BY DEF Status, Final
  <2>2. a = Answer(x, s, 0, n)
    BY <1>1, <1>2, <1>3, <1>10, <2>1 DEF answers, inspection
  <2> QED BY <1>1, <1>2, <2>1, <2>2 DEF Answer, AnswerOK
<1> QED BY <1>4, <1>6, <1>7, <1>8, <1>9, <1>10 DEF Waiting

\* The Worker's step keeps what rows, commands and control points rely on.
LEMMA AnswerStep ==
    ASSUME IInv, NEW c \in Command, NEW a, AnswerOK(c, a), answer(c, a), faults' \in Nat
    PROVE  /\ IntentInv' /\ (\A i \in Intent : Later(i)) /\ RestType'
           /\ central' \in [Intent -> {"NONE", "HELD", "POSTED"} \cup Final]
           /\ granted' \subseteq Intent
           /\ Told(c.id, c.intent, a.status)'
           /\ queue' = Tail(queue) /\ sql' = sql /\ posts' = posts /\ venue' = venue
<1>1. TypeOK
  BY DEF IInv
<1>2. c.intent \in Intent
  BY DEF Command
<1>3. /\ central' \in [Intent -> {"NONE", "HELD", "POSTED"} \cup Final]
      /\ central'[c.intent] = a.to
      /\ \A j \in Intent \ {c.intent} : central'[j] = central[j]
  BY <1>1, <1>2 DEF TypeOK, answer, AnswerOK
<1>4. /\ granted' \subseteq Intent
      /\ \A j \in Intent : j \in granted => j \in granted'
      /\ \A j \in Intent \ {c.intent} : j \in granted' => j \in granted
      /\ c.intent \in granted' => c.intent \in granted \/ a.status = "POST_AUTHORIZED"
      /\ a.status = "POST_AUTHORIZED" => c.intent \in granted'
  BY <1>1, <1>2 DEF TypeOK, answer
<1>5. queue' = Tail(queue) /\ sql' = sql /\ posts' = posts /\ venue' = venue
  BY DEF answer, history
<1>6. RestType'
  BY <1>1 DEF TypeOK, RestType, answer, AnswerOK, history
<1>7. ASSUME NEW j \in Intent
      PROVE  RowInv(j)' /\ VenueInv(j)' /\ CentralInv(j)' /\ Later(j)
  <2>1. RowInv(j) /\ VenueInv(j) /\ CentralInv(j)
    BY IntentFacts
  <2>2. CASE j = c.intent
    BY <1>3, <1>4, <1>5, <2>1, <2>2
    DEF AnswerOK, RowInv, VenueInv, CentralInv, Later, Unsent, Settled
  <2>3. CASE j # c.intent
    BY <1>3, <1>4, <1>5, <2>1, <2>3 DEF RowInv, VenueInv, CentralInv, Later, Unsent, Settled
  <2> QED BY <2>2, <2>3
<1>8. IntentInv' /\ \A i \in Intent : Later(i)
  BY <1>7 DEF IntentInv
<1>9. Told(c.id, c.intent, a.status)'
  BY <1>3, <1>4 DEF Told, AnswerOK
<1> QED BY <1>3, <1>4, <1>5, <1>6, <1>8, <1>9

\* A lost answer is an error, which tells nothing.
LEMMA ErrorType == Error \in Replies /\ Error.status = "error"
BY DEF Error, Replies, Status

\* The command at the head of the channel.
LEMMA HeadFacts ==
    ASSUME IInv, queue # << >>
    PROVE  \E c \in Command : c = Head(queue) /\ CmdInv(c)
<1>1. queue \in Seq(Command) /\ QueueInv
  BY DEF IInv, TypeOK
<1>2. Head(queue) = queue[1] /\ 1 \in 1..Len(queue) /\ queue[1] \in Command
  BY <1>1
<1>3. CmdInv(queue[1])
  BY <1>1, <1>2 DEF QueueInv
<1>4. PICK c \in Command : c = queue[1]
  BY <1>2
<1> QED BY <1>2, <1>3, <1>4 DEF CmdInv

\* Deliver preserves the invariant.
LEMMA DeliverInv ==
    ASSUME IInv, Deliver
    PROVE  IInv'
<1>1. queue # << >> /\ faults' \in Nat
  BY DEF Deliver, IInv, TypeOK
<1>2. PICK c \in Command : c = Head(queue) /\ CmdInv(c)
  BY <1>1, HeadFacts
<1>3. PICK a \in answers(c) : answer(c, a) /\ ReplyTo(c, [status |-> a.status, seq |-> a.seq])
  BY <1>2 DEF Deliver
<1>4. AnswerOK(c, a)
  BY <1>2, AnswersOK
<1>5. PICK reply \in Replies : reply = [status |-> a.status, seq |-> a.seq]
  BY <1>4 DEF AnswerOK, Replies
<1>6. reply.status = a.status
  BY <1>5
<1>7. ReplyTo(c, reply)
  BY <1>3, <1>5
<1>8. /\ IntentInv' /\ (\A i \in Intent : Later(i)) /\ RestType'
      /\ central' \in [Intent -> {"NONE", "HELD", "POSTED"} \cup Final]
      /\ granted' \subseteq Intent
      /\ Told(c.id, c.intent, a.status)'
      /\ queue' = Tail(queue) /\ sql' = sql /\ posts' = posts /\ venue' = venue
  BY <1>1, <1>3, <1>4, AnswerStep
<1>9. Told(c.id, c.intent, reply.status)'
  BY <1>6, <1>8 DEF Told
<1> QED BY <1>1, <1>7, <1>8, <1>9, ReplyStep

\* DeliverReplyLost preserves the invariant.
LEMMA DeliverReplyLostInv ==
    ASSUME IInv, DeliverReplyLost
    PROVE  IInv'
<1>1. queue # << >> /\ faults' \in Nat
  BY DEF DeliverReplyLost, Fault, IInv, TypeOK
<1>2. PICK c \in Command : c = Head(queue) /\ CmdInv(c)
  BY <1>1, HeadFacts
<1>3. PICK a \in answers(c) : answer(c, a)
  BY <1>2 DEF DeliverReplyLost
<1>4. AnswerOK(c, a)
  BY <1>2, AnswersOK
<1>5. PICK reply \in Replies : reply = Error /\ reply.status = "error"
  BY ErrorType
<1>6. ReplyTo(c, reply)
  BY <1>2, <1>5 DEF DeliverReplyLost
<1>7. /\ IntentInv' /\ (\A i \in Intent : Later(i)) /\ RestType'
      /\ central' \in [Intent -> {"NONE", "HELD", "POSTED"} \cup Final]
      /\ granted' \subseteq Intent
      /\ queue' = Tail(queue) /\ sql' = sql /\ posts' = posts /\ venue' = venue
  BY <1>1, <1>3, <1>4, AnswerStep
<1>8. Told(c.id, c.intent, reply.status)'
  BY <1>5 DEF Told
<1> QED BY <1>1, <1>6, <1>7, <1>8, ReplyStep

\* DropCommand preserves the invariant.
LEMMA DropCommandInv ==
    ASSUME IInv, DropCommand
    PROVE  IInv'
<1>1. queue # << >> /\ queue' = Tail(queue) /\ TypeOK
  BY DEF DropCommand, IInv
<1>2. PICK c \in Command : c = Head(queue) /\ CmdInv(c)
  BY <1>1, HeadFacts
<1>3. PICK reply \in Replies : reply = Error /\ reply.status = "error"
  BY ErrorType
<1>4. ReplyTo(c, reply)
  BY <1>2, <1>3 DEF DropCommand
<1>5. UNCHANGED money /\ RestType'
  BY <1>1 DEF DropCommand, Fault, TypeOK, RestType, money, worker, history
<1>6. IntentInv' /\ \A i \in Intent : Later(i)
  BY <1>5, MoneyKeep
<1>7. Told(c.id, c.intent, reply.status)'
  BY <1>3 DEF Told
<1>8. /\ central' \in [Intent -> {"NONE", "HELD", "POSTED"} \cup Final]
      /\ granted' \subseteq Intent
  BY <1>1, <1>5 DEF TypeOK, money
<1> QED BY <1>1, <1>4, <1>5, <1>6, <1>7, <1>8, ReplyStep DEF money

\* requestTimeout preserves the invariant.
LEMMA requestTimeoutInv ==
    ASSUME IInv, NEW p \in Process, requestTimeout(p)
    PROVE  IInv'
<1>1. TypeOK /\ ActInv(proc[p])
  BY DEF IInv, ProcInv
<1>2. UNCHANGED money /\ RestType' /\ queue' = queue
  BY <1>1 DEF requestTimeout, Fault, TypeOK, RestType, money, worker, history
<1>3. PICK old \in Activity : old = proc[p]
  BY <1>1, ProcType
<1>4. PICK a \in Activity : a = [old EXCEPT !.reply = Error]
  BY DEF Activity, Error, Status
<1>5. /\ a.pc = old.pc /\ a.intent = old.intent /\ a.seen = old.seen
      /\ a.reply.status = "error"
  BY <1>4 DEF Activity, Error
<1>6. Become(p, a) /\ proc'[p] = a
  BY <1>1, <1>3, <1>4 DEF requestTimeout, Become, TypeOK
<1>7. a.intent \in Intent
  BY DEF Activity
<1>8. Later(a.intent)
  BY <1>2, <1>7, MoneyKeep
<1>9. ActInv(proc[p])'
  BY <1>1, <1>3, <1>5, <1>6, <1>8 DEF ActInv, Later
<1>10. CASE a.pc # "posting"
  BY <1>2, <1>6, <1>9, <1>10, QuietStep
<1>11. CASE a.pc = "posting"
  <2>1. UniqueInv /\ ProcInv /\ QueueInv
    BY DEF IInv
  <2>2. \A q \in Process : proc'[q].pc = proc[q].pc /\ proc'[q].intent = proc[q].intent
    BY <1>1, <1>3, <1>5, <1>6 DEF TypeOK, Become
  <2>3. proc' \in [Process -> Activity] /\ \A q \in Process \ {p} : proc'[q] = proc[q]
    BY <1>1, <1>6 DEF TypeOK, Become
  <2>4. IntentInv' /\ \A i \in Intent : Later(i)
    BY <1>2, MoneyKeep
  <2>5. \A q \in Process : proc[q].pc = "posting" => PostingInv(proc[q].intent)'
    BY <1>2, <2>1, <2>2 DEF ProcInv, PostingInv, money
  <2>6. \A q \in Process \ {p} : proc[q].pc = "posting" => proc[q].intent # proc'[p].intent
    BY <1>3, <1>5, <1>6, <1>11, <2>1 DEF UniqueInv
  <2>7. ProcInv' /\ UniqueInv'
    BY <1>1, <1>3, <1>5, <1>6, <1>9, <1>11, <2>1, <2>3, <2>4, <2>5, <2>6, ProcKeep
  <2>8. QueueInv'
    BY <1>1, <1>2, <2>1, <2>4, QueueKeep
  <2>9. TypeOK'
    BY <1>1, <1>2, <2>3 DEF TypeOK, RestType, money
  <2> QED BY <2>4, <2>7, <2>8, <2>9 DEF IInv
<1> QED BY <1>10, <1>11

\* sessionLost preserves the invariant.
LEMMA sessionLostInv ==
    ASSUME IInv, NEW e \in Executor, sessionLost(e)
    PROVE  IInv'
<1>1. e \in Process /\ TypeOK
  BY DEF Process, IInv
<1>2. UNCHANGED money /\ RestType' /\ queue' = queue
  BY <1>1 DEF sessionLost, Fault, TypeOK, RestType, money, worker, history
<1> QED BY <1>1, <1>2, FinishStep DEF sessionLost

\* recover_posting: whatever was POSTING becomes UNKNOWN, nothing else moves.
LEMMA restartInv ==
    ASSUME IInv, restart
    PROVE  IInv'
<1>1. TypeOK /\ IntentInv /\ QueueInv
  BY DEF IInv
<1>2. \A q \in Process : proc'[q] \in Activity /\ proc'[q].pc = "idle"
  BY <1>1, ProcType, IdleType DEF restart
<1>3. proc' \in [Process -> Activity]
  BY <1>2 DEF restart
<1>4. ASSUME NEW i \in Intent
      PROVE  /\ sql'[i] \in Row
             /\ RowInv(i)' /\ VenueInv(i)' /\ CentralInv(i)' /\ Later(i)
  <2>1. PICK old \in Row : old = sql[i]
    BY IntentFacts
  <2>2. RowInv(i) /\ VenueInv(i) /\ CentralInv(i)
    BY IntentFacts
  <2>3. UNCHANGED <<central, granted, venue, posts>>
    BY DEF restart, worker, history
  <2>4. CASE old.state \in {"POSTING", "UNKNOWN"}
    <3>1. PICK x \in {"none", "UNKNOWN"} : x = IF old.receipt = "none" THEN old.receipt ELSE "UNKNOWN"
      OBVIOUS
    <3>2. PICK r \in Row : r = [old EXCEPT !.state = "UNKNOWN", !.receipt = x]
      BY DEF Row, Outstanding
    <3>3. /\ r.state = "UNKNOWN" /\ r.begin = old.begin /\ r.terminal = old.terminal
          /\ r.acked = old.acked
      BY <3>2 DEF Row
    <3>4. sql'[i] = r
      BY <2>1, <2>4, <3>1, <3>2 DEF restart
    <3> QED BY <2>1, <2>2, <2>3, <2>4, <3>3, <3>4
            DEF RowInv, VenueInv, CentralInv, Later, Unsent, Settled, Terminal
  <2>5. CASE old.state \notin {"POSTING", "UNKNOWN"}
    <3>1. sql'[i] = sql[i]
      BY <2>1, <2>5 DEF restart
    <3> QED BY <2>1, <2>2, <2>3, <3>1 DEF RowInv, VenueInv, CentralInv, Later, Unsent, Settled
  <2> QED BY <2>4, <2>5
<1>5. sql' \in [Intent -> Row]
  BY <1>4 DEF restart
<1>6. TypeOK'
  <2>1. policy' \in [central : Nat, sql : Nat, agent : Nat]
    BY <1>1 DEF TypeOK, restart
  <2>2. UNCHANGED <<expired, queue, central, granted, sequence, venue, posts, revoked, noise>>
    BY DEF restart, worker, history
  <2>3. faults' \in Nat
    <3>1. Fault /\ faults \in Nat
      BY <1>1 DEF TypeOK, restart
    <3> QED BY <3>1 DEF Fault
  <2> QED BY <1>1, <1>3, <1>5, <2>1, <2>2, <2>3 DEF TypeOK
<1>7. IntentInv' /\ \A i \in Intent : Later(i)
  BY <1>4 DEF IntentInv
<1>8. ProcInv'
  BY <1>2 DEF ProcInv, ActInv
<1>9. UniqueInv'
  BY <1>2 DEF UniqueInv
<1>10. QueueInv'
  BY <1>1, <1>7, QueueKeep DEF restart
<1> QED BY <1>6, <1>7, <1>8, <1>9, <1>10 DEF IInv
-------------------------------------------------------------------------------
(***************************************************************************)
(* The environment.                                                        *)
(***************************************************************************)
\* Steps that leave rows, reservations, requests, processes and channel alone
\* keep the invariant if they keep what orders and intents owe each other.
LEMMA OutsideStep ==
    ASSUME IInv, RestType', UNCHANGED <<sql, central, granted, posts, proc, queue>>,
           venue' \in [Intent -> [flight : BOOLEAN, order : Order, position : BOOLEAN]],
           \A i \in Intent : VenueInv(i)' /\ CentralInv(i)' /\ Later(i)
    PROVE  IInv'
<1>1. TypeOK /\ IntentInv /\ ProcInv /\ UniqueInv /\ QueueInv
  BY DEF IInv
<1>2. TypeOK'
  BY <1>1 DEF TypeOK, RestType
<1>3. IntentInv'
  BY <1>1 DEF IntentInv, RowInv, Unsent
<1>4. ASSUME NEW q \in Process
      PROVE  ActInv(proc[q])' /\ (proc[q].pc = "posting" => PostingInv(proc[q].intent)')
  <2>1. proc[q].intent \in Intent /\ ActInv(proc[q]) /\ Later(proc[q].intent)
    BY <1>1 DEF ProcInv, TypeOK, Activity
  <2>2. ActInv(proc[q])'
    BY <2>1 DEF ActInv, Later
  <2>3. proc[q].pc = "posting" => PostingInv(proc[q].intent)'
    BY <1>1 DEF ProcInv, PostingInv
  <2> QED BY <2>2, <2>3
<1>5. ProcInv'
  BY <1>4 DEF ProcInv
<1>6. UniqueInv'
  BY <1>1 DEF UniqueInv
<1>7. QueueInv'
  BY <1>1, QueueKeep
<1> QED BY <1>2, <1>3, <1>5, <1>6, <1>7 DEF IInv

\* Policy, time, other traders of the book, and stuttering.
LEMMA QuietEnvironment ==
    ASSUME IInv, RestType', UNCHANGED money, UNCHANGED <<proc, queue>>
    PROVE  IInv'
<1>1. IntentInv' /\ \A i \in Intent : Later(i)
  BY MoneyKeep
<1>2. venue' \in [Intent -> [flight : BOOLEAN, order : Order, position : BOOLEAN]]
  BY DEF IInv, TypeOK, money
<1> QED BY <1>1, <1>2, OutsideStep DEF IntentInv, money

\* The exchange reopens nothing that a settled intent relies on.
LEMMA VenueStepInv ==
    ASSUME IInv, NEW i \in Intent, VenueStep(i)
    PROVE  IInv'
<1>1. TypeOK
  BY DEF IInv
<1>2. PICK old \in [flight : BOOLEAN, order : Order, position : BOOLEAN] : old = venue[i]
  BY <1>1 DEF TypeOK
<1>3. PICK v \in [flight : BOOLEAN, order : Order, position : BOOLEAN] :
        /\ SetVenue(i, v)
        /\ \/ old.flight /\ old.order = "none" /\ ~v.flight /\ v.order \in {"none", "live", "rejected"}
              /\ v.position = old.position
           \/ old.order = "live" /\ v.flight = old.flight /\ v.order \in {"live", "filled", "canceled"}
           \/ v.flight = old.flight /\ v.order = old.order /\ ~v.position
  <2>1. CASE venueAccept(i)
    <3>1. PICK w \in [flight : BOOLEAN, order : Order, position : BOOLEAN] :
            w = [old EXCEPT !.flight = FALSE, !.order = "live"]
      BY DEF Order
    <3> QED BY <1>2, <2>1, <3>1 DEF venueAccept, SetVenue
  <2>2. CASE venueReject(i)
    <3>1. PICK w \in [flight : BOOLEAN, order : Order, position : BOOLEAN] :
            w = [old EXCEPT !.flight = FALSE, !.order = "rejected"]
      BY DEF Order
    <3> QED BY <1>2, <2>2, <3>1 DEF venueReject, SetVenue
  <2>3. CASE venueDrop(i)
    <3>1. PICK w \in [flight : BOOLEAN, order : Order, position : BOOLEAN] :
            w = [old EXCEPT !.flight = FALSE]
      OBVIOUS
    <3>2. old.order = "none"
      BY <1>2, <2>3, IntentFacts DEF venueDrop, VenueInv
    <3> QED BY <1>2, <2>3, <3>1, <3>2 DEF venueDrop, SetVenue
  <2>4. CASE venueCancel(i)
    <3>1. PICK w \in [flight : BOOLEAN, order : Order, position : BOOLEAN] :
            w = [old EXCEPT !.order = "canceled"]
      BY DEF Order
    <3> QED BY <1>2, <2>4, <3>1 DEF venueCancel, SetVenue
  <2>5. CASE venueFlatten(i)
    <3>1. PICK w \in [flight : BOOLEAN, order : Order, position : BOOLEAN] :
            w = [old EXCEPT !.position = FALSE]
      OBVIOUS
    <3> QED BY <1>2, <2>5, <3>1 DEF venueFlatten, SetVenue
  <2>6. ASSUME NEW order \in {"live", "filled"}, venueFill(i, order)
        PROVE  \E w \in [flight : BOOLEAN, order : Order, position : BOOLEAN] :
                  /\ SetVenue(i, w)
                  /\ old.order = "live" /\ w.flight = old.flight /\ w.order \in {"live", "filled"}
    <3>1. PICK w \in [flight : BOOLEAN, order : Order, position : BOOLEAN] :
            w = [old EXCEPT !.order = order, !.position = TRUE]
      BY DEF Order
    <3> QED BY <1>2, <2>6, <3>1 DEF venueFill, SetVenue
  <2> QED BY <2>1, <2>2, <2>3, <2>4, <2>5, <2>6 DEF VenueStep
<1>4. /\ UNCHANGED <<sql, central, granted, posts, proc, queue>> /\ RestType'
      /\ venue' \in [Intent -> [flight : BOOLEAN, order : Order, position : BOOLEAN]]
      /\ venue'[i] = v /\ \A j \in Intent \ {i} : venue'[j] = venue[j]
  BY <1>1, <1>3 DEF SetVenue, TypeOK, RestType, worker, history, bounds
<1>5. ASSUME NEW j \in Intent
      PROVE  VenueInv(j)' /\ CentralInv(j)' /\ Later(j)
  <2>1. RowInv(j) /\ VenueInv(j) /\ CentralInv(j)
    BY IntentFacts
  <2>2. CASE j = i
    BY <1>2, <1>3, <1>4, <2>1, <2>2 DEF VenueInv, CentralInv, Later, Unsent, Settled
  <2>3. CASE j # i
    BY <1>4, <2>1, <2>3 DEF VenueInv, CentralInv, Later, Unsent, Settled
  <2> QED BY <2>2, <2>3
<1> QED BY <1>4, <1>5, OutsideStep

\* Policy, time, other traders and the exchange preserve the invariant.
LEMMA EnvironmentInv ==
    ASSUME IInv, Environment
    PROVE  IInv'
<1>1. TypeOK
  BY DEF IInv
<1>2. CASE revisePolicy
  <2>1. policy' \in [central : Nat, sql : Nat, agent : Nat]
    <3>1. PICK n \in Nat : n = policy.central + 1
      BY <1>1 DEF TypeOK
    <3>2. policy' = [policy EXCEPT !.central = n]
      BY <1>2, <3>1 DEF revisePolicy
    <3> QED BY <1>1, <3>2 DEF TypeOK
  <2>2. revoked' \subseteq Intent
    BY <1>1, <1>2 DEF TypeOK, revisePolicy
  <2>3. UNCHANGED money /\ UNCHANGED <<proc, queue, expired, sequence, noise, faults>>
    BY <1>2 DEF revisePolicy, money, worker, bounds
  <2>4. RestType'
    BY <1>1, <2>1, <2>2, <2>3 DEF TypeOK, RestType
  <2> QED BY <2>3, <2>4, QuietEnvironment
<1>3. CASE otherBookChange
  <2>1. UNCHANGED money /\ UNCHANGED <<proc, queue>> /\ RestType'
    BY <1>1, <1>3 DEF otherBookChange, TypeOK, RestType, money, history
  <2> QED BY <2>1, QuietEnvironment
<1>4. ASSUME NEW rev \in 1..policy.central, updateGovernance(rev) \/ updateGovernanceFailed(rev)
      PROVE  IInv'
  <2>1. rev \in Nat
    BY <1>1 DEF TypeOK
  <2>2. policy' \in [central : Nat, sql : Nat, agent : Nat]
    BY <1>1, <1>4, <2>1 DEF TypeOK, updateGovernance, updateGovernanceFailed
  <2>3. UNCHANGED money /\ UNCHANGED <<proc, queue, expired, sequence, revoked, noise>>
    BY <1>4 DEF updateGovernance, updateGovernanceFailed, money, worker, history, bounds
  <2>4. faults' \in Nat
    BY <1>1, <1>4 DEF TypeOK, updateGovernance, updateGovernanceFailed, Fault, bounds
  <2>5. RestType'
    BY <1>1, <2>2, <2>3, <2>4 DEF TypeOK, RestType
  <2> QED BY <2>3, <2>5, QuietEnvironment
<1>5. ASSUME NEW i \in Intent, expire(i)
      PROVE  IInv'
  <2>1. UNCHANGED money /\ UNCHANGED <<proc, queue>> /\ RestType'
    BY <1>1, <1>5 DEF expire, TypeOK, RestType, money, worker, history, bounds
  <2> QED BY <2>1, QuietEnvironment
<1> QED BY <1>2, <1>3, <1>4, <1>5, VenueStepInv DEF Environment

-------------------------------------------------------------------------------
(***************************************************************************)
(* The theorems.                                                           *)
(***************************************************************************)
\* The invariant holds initially.
LEMMA InitInv == Init => IInv
<1> SUFFICES ASSUME Init PROVE IInv
  OBVIOUS
<1>1. NoRow \in Row
  BY DEF NoRow, Row
<1>2. \A p \in Process : proc[p] \in Activity /\ proc[p].pc = "idle"
  BY IdleType DEF Init
<1>3. TypeOK
  <2>1. proc \in [Process -> Activity]
    BY <1>2 DEF Init
  <2>2. venue \in [Intent -> [flight : BOOLEAN, order : Order, position : BOOLEAN]]
    BY DEF Init, Order
  <2>3. policy \in [central : Nat, sql : Nat, agent : Nat]
    BY DEF Init
  <2>4. sql \in [Intent -> Row]
    BY <1>1 DEF Init
  <2> QED BY <2>1, <2>2, <2>3, <2>4 DEF Init, TypeOK
<1>4. IntentInv
  BY DEF Init, IntentInv, RowInv, VenueInv, CentralInv, Unsent, NoRow, Final
<1>5. ProcInv /\ UniqueInv
  BY <1>2 DEF ProcInv, UniqueInv, ActInv
<1>6. QueueInv
  BY DEF Init, QueueInv
<1> QED BY <1>3, <1>4, <1>5, <1>6 DEF IInv

\* Every step preserves the invariant.
LEMMA NextInv ==
    ASSUME IInv, [Next]_vars
    PROVE  IInv'
<1>1. CASE UNCHANGED vars
  <2>1. UNCHANGED money /\ UNCHANGED <<proc, queue>> /\ RestType'
    BY <1>1 DEF vars, worker, history, bounds, money, IInv, TypeOK, RestType
  <2> QED BY <2>1, QuietEnvironment
<1>2. ASSUME NEW e \in Executor, NEW i \in Intent, execute(e, i)
      PROVE  IInv'
  BY <1>2, executeInv
<1>3. ASSUME NEW e \in Executor, ExecutorStep(e) \/ sessionLost(e)
      PROVE  IInv'
  BY <1>3, ExecutorStepInv, sessionLostInv
<1>4. ASSUME NEW m \in Reconciler, NEW i \in Intent, maintain(m, i)
      PROVE  IInv'
  BY <1>4, maintainInv
<1>5. ASSUME NEW p \in Process, StatusStep(p) \/ requestTimeout(p)
      PROVE  IInv'
  BY <1>5, StatusStepInv, requestTimeoutInv
<1> QED BY <1>1, <1>2, <1>3, <1>4, <1>5, DeliverInv, DeliverReplyLostInv, DropCommandInv,
           restartInv, EnvironmentInv DEF Next

(***************************************************************************)
(* The inductive invariant holds throughout: what the rows, commands and   *)
(* control points of executor and reconciler rely on stays true under      *)
(* every interleaving, lost message, lost session and restart.             *)
(***************************************************************************)
THEOREM Invariance == Spec => []IInv
BY InitInv, NextInv, PTL DEF Spec

(***************************************************************************)
(* Rows, activities, commands and reservations keep their types.           *)
(***************************************************************************)
THEOREM TypeCorrect == Spec => []TypeOK
<1>1. IInv => TypeOK
  BY DEF IInv
<1> QED BY <1>1, Invariance, PTL

(***************************************************************************)
(* post_once sends at most one order request per intent: begin_post moves  *)
(* the row out of RESERVED before the request, and no crash, retry or      *)
(* concurrent execute moves it back.                                       *)
(***************************************************************************)
THEOREM PostedAtMostOnce == Spec => []AtMostOnePost
<1>1. IInv => AtMostOnePost
  BY DEF IInv, IntentInv, VenueInv, AtMostOnePost
<1> QED BY <1>1, Invariance, PTL

(***************************************************************************)
(* The Worker still charges whatever is or may be at risk on the exchange: *)
(* release_unsent and release_terminal never give back the reservation of  *)
(* an order that is under way, live, filled and open, or about to be sent. *)
(***************************************************************************)
THEOREM ExposureReserved == Spec => []ExposureIsReserved
<1>1. ASSUME IInv, NEW i \in Intent, Exposed(i)
      PROVE  central[i] = "POSTED"
  <2>1. RowInv(i) /\ VenueInv(i) /\ CentralInv(i)
    BY <1>1, IntentFacts
  <2>2. CASE \E e \in Executor : proc[e].pc = "posting" /\ proc[e].intent = i
    <3>1. PostingInv(i)
      BY <1>1, <2>2 DEF IInv, ProcInv, Process
    <3> QED BY <2>1, <3>1 DEF PostingInv, RowInv, CentralInv, Unsent, Settled, Terminal
  <2>3. CASE venue[i].flight \/ venue[i].order = "live" \/ venue[i].position
    BY <2>1, <2>3 DEF RowInv, VenueInv, CentralInv, Unsent, Settled
  <2> QED BY <1>1, <2>2, <2>3 DEF Exposed
<1>2. IInv => ExposureIsReserved
  BY <1>1 DEF ExposureIsReserved
<1> QED BY <1>2, Invariance, PTL

(***************************************************************************)
(* acknowledge_central_release tells the truth: an acknowledged release is *)
(* final at the Worker, whichever answers were lost or came late.          *)
(***************************************************************************)
THEOREM AcknowledgedIsFinal == Spec => []AckedMeansFinal
<1>1. IInv => AckedMeansFinal
  BY DEF IInv, IntentInv, RowInv, AckedMeansFinal
<1> QED BY <1>1, Invariance, PTL

-------------------------------------------------------------------------------
(***************************************************************************)
(* The Worker's part implements Reservation.                               *)
(***************************************************************************)
\* Only the delivery of a command changes a reservation.
LEMMA OnlyDeliveryChangesWorker ==
    ASSUME Next, ~Deliver, ~DeliverReplyLost
    PROVE  central' = central /\ granted' = granted
<1>1. ASSUME NEW e \in Executor, ExecutorStep(e)
      PROVE  central' = central /\ granted' = granted
  BY <1>1 DEF ExecutorStep, prepare, markReserveAttempt, requestReserve, reserveReplied,
     reserveInspected, rejectDeniedReserve, rejectPrepostDenial, reserve, requestFence,
     fenceReplied, fenceInspected, beginPost, postOnce, orderAccepted, orderRefused,
     responseLost, worker
<1>2. ASSUME NEW e \in Executor, NEW i \in Intent, execute(e, i)
      PROVE  central' = central /\ granted' = granted
  BY <1>2 DEF execute, worker
<1>3. ASSUME NEW p \in Process, StatusStep(p)
      PROVE  central' = central /\ granted' = granted
  BY <1>3 DEF StatusStep, statusIntent, proveUnsent, unsentInspected, unsentReleased,
     readOrder, recordOrderReadback, releaseTerminal, terminalInspected, terminalResolved,
     acknowledgeCentralRelease, worker
<1>4. CASE Environment
  BY <1>4 DEF Environment, revisePolicy, otherBookChange, updateGovernance,
     updateGovernanceFailed, expire, VenueStep, venueAccept, venueReject, venueDrop,
     venueFill, venueCancel, venueFlatten, SetVenue, worker
<1>5. ASSUME NEW p \in Process, requestTimeout(p) \/ sessionLost(p)
      PROVE  central' = central /\ granted' = granted
  BY <1>5 DEF requestTimeout, sessionLost, worker
<1>6. ASSUME NEW m \in Reconciler, NEW i \in Intent, maintain(m, i)
      PROVE  central' = central /\ granted' = granted
  BY <1>6 DEF maintain, worker
<1>7. CASE DropCommand \/ restart
  BY <1>7 DEF DropCommand, restart, worker
<1> QED BY <1>1, <1>2, <1>3, <1>4, <1>5, <1>6, <1>7 DEF Next, Process

PostedIsGranted == \A i \in Intent : central[i] = "POSTED" => i \in granted

\* The moves of a reservation the Worker's answers make, of which the first is none.
Moves(c, a) ==
    LET i == c.intent
    IN  \/ a.to = central[i] /\ a.status # "POST_AUTHORIZED"
        \/ /\ a.status # "POST_AUTHORIZED"
           /\ \/ central[i] = "NONE" /\ a.to \in {"HELD", "FENCED"}
              \/ central[i] = "HELD" /\ a.to = "RELEASED"
              \/ central[i] = "POSTED" /\ a.to = "RELEASED"
        \/ central[i] = "HELD" /\ a.to = "POSTED" /\ a.status = "POST_AUTHORIZED"

\* The Worker's answers make no other move.
LEMMA AnswersMove ==
    ASSUME TypeOK, NEW c \in Command, NEW a \in answers(c)
    PROVE  Moves(c, a)
<1>1. PICK i \in Intent : i = c.intent
  BY DEF Command
<1>2. PICK s \in {"NONE", "HELD", "POSTED"} \cup Final : s = central[i]
  BY DEF TypeOK
<1>3. c.id \in Waiting
  BY DEF Command
<1>4. CASE c.id = "reserve"
  BY <1>1, <1>2, <1>4 DEF answers, reserveAnswers, Denied, Answer, Moves
<1>5. CASE c.id = "fence"
  BY <1>1, <1>2, <1>5 DEF answers, fenceAnswers, Denied, Answer, Moves
<1>6. CASE c.id = "unsent_release"
  BY <1>1, <1>2, <1>6 DEF answers, releaseAnswers, Denied, Answer, Moves
<1>7. CASE c.id = "terminal_resolve"
  BY <1>1, <1>2, <1>7 DEF answers, resolveAnswers, Denied, Answer, Moves
<1>8. CASE c.id \in {"reserve_inspect", "fence_inspect", "unsent_inspect", "terminal_inspect"}
  <2>1. a = inspection(i)
    BY <1>1, <1>8 DEF answers
  <2>2. a.to = s /\ a.status \in {"RELEASED", "NOT_FOUND", s}
    BY <1>2, <2>1 DEF inspection, Answer
  <2> QED BY <1>1, <1>2, <2>2 DEF Moves, Final
<1> QED BY <1>3, <1>4, <1>5, <1>6, <1>7, <1>8 DEF Waiting

\* Such a move is a step of Reservation, or leaves its variables alone.
LEMMA MoveIsReservationStep ==
    ASSUME TypeOK, PostedIsGranted, NEW c \in Command, NEW a, Moves(c, a), answer(c, a)
    PROVE  [Worker!ResNext]_<<central, granted>> /\ PostedIsGranted'
<1>1. PICK i \in Intent : i = c.intent
  BY DEF Command
<1>2. central' = [central EXCEPT ![i] = a.to]
      /\ granted' = IF a.status = "POST_AUTHORIZED" THEN granted \cup {i} ELSE granted
  BY <1>1 DEF answer
<1>3. central \in [Intent -> {"NONE", "HELD", "POSTED"} \cup Final]
  BY DEF TypeOK
<1>4. CASE a.to = central[i] /\ a.status # "POST_AUTHORIZED"
  <2>1. central' = central /\ granted' = granted
    BY <1>2, <1>3, <1>4
  <2> QED BY <2>1 DEF PostedIsGranted
<1>5. CASE a.status # "POST_AUTHORIZED" /\ central[i] = "NONE" /\ a.to \in {"HELD", "FENCED"}
  <2>1. Worker!Hold(i) \/ Worker!Fence(i)
    BY <1>2, <1>5 DEF Worker!Hold, Worker!Fence, Worker!Move
  <2> QED BY <1>2, <1>3, <1>5, <2>1 DEF Worker!ResNext, PostedIsGranted
<1>6. CASE a.status # "POST_AUTHORIZED" /\ central[i] \in {"HELD", "POSTED"} /\ a.to = "RELEASED"
  <2>1. Worker!Release(i)
    BY <1>2, <1>6 DEF Worker!Release, Worker!Move, Worker!Active, PostedIsGranted
  <2> QED BY <1>2, <1>3, <1>6, <2>1 DEF Worker!ResNext, PostedIsGranted
<1>7. CASE central[i] = "HELD" /\ a.to = "POSTED" /\ a.status = "POST_AUTHORIZED"
  <2>1. Worker!Grant(i)
    BY <1>2, <1>7 DEF Worker!Grant, Worker!Move
  <2> QED BY <1>2, <1>3, <1>7, <2>1 DEF Worker!ResNext, PostedIsGranted
<1> QED BY <1>1, <1>4, <1>5, <1>6, <1>7 DEF Moves

\* Every step of the system is a step of Reservation or leaves it alone.
LEMMA NextIsReservationStep ==
    ASSUME IInv, PostedIsGranted, [Next]_vars
    PROVE  [Worker!ResNext]_<<central, granted>> /\ PostedIsGranted'
<1>1. TypeOK
  BY DEF IInv
<1>2. CASE Deliver \/ DeliverReplyLost
  <2>1. queue # << >>
    BY <1>2 DEF Deliver, DeliverReplyLost
  <2>2. PICK c \in Command : c = Head(queue)
    BY <2>1, HeadFacts
  <2>3. PICK a \in answers(c) : answer(c, a)
    BY <1>2, <2>2 DEF Deliver, DeliverReplyLost
  <2>4. Moves(c, a)
    BY <1>1, AnswersMove
  <2> QED BY <1>1, <2>3, <2>4, MoveIsReservationStep
<1>3. CASE Next /\ ~Deliver /\ ~DeliverReplyLost
  BY <1>3, OnlyDeliveryChangesWorker DEF PostedIsGranted
<1>4. CASE UNCHANGED vars
  BY <1>4 DEF vars, worker, PostedIsGranted
<1> QED BY <1>2, <1>3, <1>4

(***************************************************************************)
(* The Worker that executor and reconciler talk to implements Reservation: *)
(* the protocol RiskBook implements is all TradeExecution relies on.       *)
(***************************************************************************)
THEOREM WorkerImplementsReservation == Spec => WorkerIsReservation
<1>1. Init => Worker!ResInit /\ PostedIsGranted
  BY DEF Init, Worker!ResInit, PostedIsGranted
<1>2. IInv /\ PostedIsGranted /\ [Next]_vars
        => [Worker!ResNext]_<<central, granted>> /\ PostedIsGranted'
  BY NextIsReservationStep
<1> QED BY <1>1, <1>2, Invariance, PTL DEF Spec, WorkerIsReservation, Worker!ResSpec, Worker!resVars

-------------------------------------------------------------------------------
(***************************************************************************)
(* A terminal row is final.                                                *)
(***************************************************************************)
HasReceipt(r) == r.state \in Terminal => r.terminal # "none"

\* new replaces old: a terminal state and its receipt are kept, and a row
\* that becomes terminal gets a receipt.
Follows(old, new) ==
    HasReceipt(old) =>
        /\ HasReceipt(new)
        /\ old.state \in Terminal => new.state = old.state /\ new.terminal = old.terminal

RowsFollow == \A i \in Intent : Follows(sql[i], sql'[i])

\* The operators on rows leave a row that follows.
LEMMA RowOpsFollow ==
    ASSUME NEW r \in Row
    PROVE  /\ Follows(r, r)
           /\ rejectable(r) => Follows(r, rejectUnsent(r))
           /\ r.state \in {"PREPARED", "RESERVED"} => Follows(r, rejectUnsent(r))
           /\ deniable(r) => Follows(r, rejectDenied(r))
           /\ Follows(r, acknowledged(r))
           /\ \A to \in {"UNKNOWN", "ACKNOWLEDGED"} \cup Terminal :
                outcomeAllowed(r, to) => Follows(r, recordOutcome(r, to))
<1>1. Follows(r, r)
  BY DEF Follows, HasReceipt
<1>2. /\ r.state = "REJECTED" => rejectUnsent(r) = r
      /\ r.state # "REJECTED" => rejectUnsent(r).state = "REJECTED"
                                 /\ rejectUnsent(r).terminal = "REJECTED_UNSENT"
  BY DEF rejectUnsent, Row
<1>3. rejectable(r) \/ r.state \in {"PREPARED", "RESERVED"} => Follows(r, rejectUnsent(r))
  BY <1>1, <1>2 DEF Follows, HasReceipt, rejectable, Terminal
<1>4. deniable(r) => Follows(r, rejectDenied(r))
  <2>1. rejectUnsent(r) \in Row
    BY RowTypes
  <2>2. /\ rejectDenied(r).state = rejectUnsent(r).state
        /\ rejectDenied(r).terminal = rejectUnsent(r).terminal
    BY <2>1 DEF rejectDenied, Row
  <2> QED BY <1>3, <2>2 DEF deniable, Follows, HasReceipt
<1>5. Follows(r, acknowledged(r))
  BY DEF acknowledged, Follows, HasReceipt, Row
<1>6. ASSUME NEW to \in {"UNKNOWN", "ACKNOWLEDGED"} \cup Terminal, outcomeAllowed(r, to)
      PROVE  Follows(r, recordOutcome(r, to))
  <2>1. recordOutcome(r, to).state = to
        /\ recordOutcome(r, to).terminal =
                IF to \in Terminal /\ r.terminal = "none" THEN "TERMINAL" ELSE r.terminal
    BY DEF recordOutcome, Row
  <2>2. r.state \in Terminal => to = r.state
    BY <1>6 DEF outcomeAllowed, Terminal
  <2> QED BY <2>1, <2>2 DEF Follows, HasReceipt
<1> QED BY <1>1, <1>3, <1>4, <1>5, <1>6

\* Writing one row, or none.
LEMMA SetRowFollows ==
    ASSUME TypeOK, NEW i \in Intent,
           sql' = sql \/ \E r : SetRow(i, r) /\ Follows(sql[i], r)
    PROVE  RowsFollow
<1>1. \A j \in Intent : Follows(sql[j], sql[j])
  BY DEF Follows, HasReceipt
<1> QED BY <1>1 DEF RowsFollow, SetRow, TypeOK

\* The executor's steps write no row that does not follow.
LEMMA ExecutorRowsFollow ==
    ASSUME IInv, NEW e \in Executor, ExecutorStep(e)
    PROVE  RowsFollow
<1> DEFINE i == proc[e].intent
<1>1. TypeOK /\ e \in Process
  BY DEF IInv, Process
<1>2. i \in Intent /\ sql[i] \in Row
  BY <1>1, ProcType
<1> HIDE DEF i
<1>3. CASE prepare(e)
  <2>1. sql[i].state = "NONE" => Follows(sql[i], [NoRow EXCEPT !.state = "PREPARED", !.rev = proc[e].rev])
    BY DEF Follows, HasReceipt, NoRow, Terminal
  <2> QED BY <1>1, <1>2, <1>3, <2>1, RowOpsFollow, SetRowFollows DEF prepare, i
<1>4. CASE markReserveAttempt(e)
  <2>1. Follows(sql[i], [sql[i] EXCEPT !.marker = IF @ = "none" THEN "ATTEMPT" ELSE @])
    BY <1>2 DEF Follows, HasReceipt, Row
  <2> QED BY <1>1, <1>2, <1>4, <2>1, SetRowFollows DEF markReserveAttempt, i
<1>5. CASE rejectDeniedReserve(e)
  BY <1>1, <1>2, <1>5, RowOpsFollow, SetRowFollows DEF rejectDeniedReserve, i
<1>6. CASE rejectPrepostDenial(e)
  BY <1>1, <1>2, <1>6, RowOpsFollow, SetRowFollows DEF rejectPrepostDenial, i
<1>7. CASE reserve(e)
  <2>1. ASSUME NEW h, sql[i].state = "PREPARED"
        PROVE  Follows(sql[i], [sql[i] EXCEPT !.state = "RESERVED", !.receipt = "HELD", !.hash = h])
    BY <1>2, <2>1 DEF Follows, HasReceipt, Row, Terminal
  <2> QED BY <1>1, <1>2, <1>7, <2>1, SetRowFollows DEF reserve, i
<1>8. CASE beginPost(e)
  <2>1. sql[i].state = "RESERVED" =>
          Follows(sql[i], [sql[i] EXCEPT !.state = "POSTING", !.begin = TRUE, !.receipt = "POSTED"])
    BY <1>2 DEF Follows, HasReceipt, Row, Terminal
  <2> QED BY <1>1, <1>2, <1>8, <2>1, SetRowFollows DEF beginPost, postClaimable, i
<1>9. CASE postOnce(e)
  <2>1. sql[i].state = "POSTING"
    BY <1>1, <1>9 DEF postOnce, IInv, ProcInv, PostingInv, i
  <2>2. outcomeAllowed(sql[i], "REJECTED") /\ "REJECTED" \in Terminal
    BY <2>1 DEF outcomeAllowed, Terminal
  <2> QED BY <1>1, <1>2, <1>9, <2>2, RowOpsFollow, SetRowFollows DEF postOnce, i
<1>10. ASSUME NEW to \in {"UNKNOWN", "ACKNOWLEDGED"} \cup Terminal, Record(i, to)
       PROVE  RowsFollow
  BY <1>1, <1>2, <1>10, RowOpsFollow, SetRowFollows DEF Record
<1>11. CASE orderAccepted(e) \/ orderRefused(e) \/ responseLost(e)
  BY <1>10, <1>11 DEF orderAccepted, orderRefused, responseLost, Terminal, i
<1>12. CASE requestReserve(e) \/ reserveReplied(e) \/ reserveInspected(e) \/ requestFence(e)
            \/ fenceReplied(e) \/ fenceInspected(e)
  BY <1>1, <1>2, <1>12, SetRowFollows
  DEF requestReserve, reserveReplied, reserveInspected, requestFence, fenceReplied, fenceInspected
<1> QED BY <1>3, <1>4, <1>5, <1>6, <1>7, <1>8, <1>9, <1>11, <1>12 DEF ExecutorStep

\* Nor do the reconciler's.
LEMMA StatusRowsFollow ==
    ASSUME IInv, NEW p \in Process, StatusStep(p)
    PROVE  RowsFollow
<1> DEFINE i == proc[p].intent
<1>1. TypeOK
  BY DEF IInv
<1>2. i \in Intent /\ sql[i] \in Row
  BY <1>1, ProcType
<1> HIDE DEF i
<1>3. CASE statusIntent(p)
  BY <1>1, <1>2, <1>3, RowOpsFollow, SetRowFollows DEF statusIntent, i
<1>4. CASE recordOrderReadback(p)
  <2>1. PICK to \in {"ACKNOWLEDGED", "FILLED", "CANCELLED"} : to = OutcomeOf[proc[p].seen]
    BY <1>4 DEF recordOrderReadback, IInv, ProcInv, ActInv, OutcomeOf
  <2>2. outcomeAllowed(sql[i], to) => Follows(sql[i], recordOutcome(sql[i], to))
    BY <1>2, RowOpsFollow DEF Terminal
  <2>3. Follows(sql[i], sql[i])
    BY <1>2, RowOpsFollow
  <2>4. sql' = sql \/ \E r : SetRow(i, r) /\ Follows(sql[i], r)
    BY <1>4, <2>1, <2>2, <2>3 DEF recordOrderReadback, i
  <2> QED BY <1>1, <1>2, <2>4, SetRowFollows
<1>5. CASE acknowledgeCentralRelease(p)
  BY <1>1, <1>2, <1>5, RowOpsFollow, SetRowFollows DEF acknowledgeCentralRelease, i
<1>6. CASE proveUnsent(p) \/ unsentInspected(p) \/ unsentReleased(p) \/ readOrder(p)
           \/ releaseTerminal(p) \/ terminalInspected(p) \/ terminalResolved(p)
  BY <1>1, <1>2, <1>6, SetRowFollows
  DEF proveUnsent, unsentInspected, unsentReleased, readOrder, releaseTerminal,
      terminalInspected, terminalResolved
<1> QED BY <1>3, <1>4, <1>5, <1>6 DEF StatusStep

\* No step of the system replaces a row by one that does not follow.
LEMMA NextRowsFollow ==
    ASSUME IInv, [Next]_vars
    PROVE  RowsFollow
<1>1. TypeOK
  BY DEF IInv
<1>2. sql' = sql => RowsFollow
  BY DEF RowsFollow, Follows, HasReceipt
<1>3. CASE restart
  <2>1. ASSUME NEW j \in Intent
        PROVE  Follows(sql[j], sql'[j])
    <3>1. sql[j] \in Row
      BY <1>1 DEF TypeOK
    <3>2. CASE sql[j].state \in {"POSTING", "UNKNOWN"}
      <4>1. sql'[j] = [sql[j] EXCEPT !.state = "UNKNOWN",
                                     !.receipt = IF @ = "none" THEN @ ELSE "UNKNOWN"]
        BY <1>3, <3>2 DEF restart
      <4> QED BY <3>1, <3>2, <4>1 DEF Follows, HasReceipt, Row, Terminal
    <3>3. CASE sql[j].state \notin {"POSTING", "UNKNOWN"}
      BY <1>3, <3>3 DEF restart, Follows, HasReceipt
    <3> QED BY <3>2, <3>3
  <2> QED BY <2>1 DEF RowsFollow
<1>4. CASE Deliver \/ DeliverReplyLost \/ DropCommand \/ UNCHANGED vars
  BY <1>2, <1>4 DEF Deliver, DeliverReplyLost, DropCommand, answer, vars
<1>5. CASE Environment
  BY <1>2, <1>5 DEF Environment, revisePolicy, otherBookChange, updateGovernance,
     updateGovernanceFailed, expire, VenueStep, venueAccept, venueReject, venueDrop,
     venueFill, venueCancel, venueFlatten, SetVenue
<1>6. ASSUME NEW p \in Process, requestTimeout(p) \/ sessionLost(p)
      PROVE  RowsFollow
  BY <1>2, <1>6 DEF requestTimeout, sessionLost
<1>7. ASSUME NEW p \in Process, NEW j \in Intent, execute(p, j) \/ maintain(p, j)
      PROVE  RowsFollow
  BY <1>2, <1>7 DEF execute, maintain
<1> QED BY <1>3, <1>4, <1>5, <1>6, <1>7, ExecutorRowsFollow, StatusRowsFollow DEF Next, Process

AllHaveReceipts == \A i \in Intent : HasReceipt(sql[i])

(***************************************************************************)
(* No late readback, outcome, acknowledgement or restart reopens an intent *)
(* that reached a terminal state, or rewrites how it ended.                *)
(***************************************************************************)
THEOREM TerminalStaysFinal == Spec => TerminalIsFinal
<1>1. Init => AllHaveReceipts
  BY DEF Init, AllHaveReceipts, HasReceipt, NoRow, Terminal
<1> DEFINE Kept == \A i \in Intent : sql[i].state \in Terminal =>
                        /\ sql'[i].state = sql[i].state
                        /\ sql'[i].terminal = sql[i].terminal
<1>2. AllHaveReceipts /\ RowsFollow => AllHaveReceipts' /\ Kept
  BY DEF AllHaveReceipts, RowsFollow, Follows
<1>3. IInv /\ AllHaveReceipts /\ [Next]_vars => AllHaveReceipts' /\ [Kept]_vars
  BY <1>2, NextRowsFollow
<1> HIDE DEF Kept
<1>4. Spec => [][Kept]_vars
  BY <1>1, <1>3, Invariance, PTL DEF Spec
<1> QED BY <1>4 DEF Kept, TerminalIsFinal

-------------------------------------------------------------------------------
(***************************************************************************)
(* What a revision of the policy revokes.  A second invariant, RevInv, is  *)
(* about revisions: the account's SQL never runs ahead of the Worker, no   *)
(* row, activity or command carries a revision the account has not seen,   *)
(* and a revoked intent that was authorized again all the same belongs to  *)
(* a row the account's policy has left behind, so begin_post refuses it.   *)
(***************************************************************************)
HasRow(i) == sql[i].state # "NONE"

ActRev(a) == a.rev <= policy.sql /\ (a.pc = "marked" => HasRow(a.intent))

CmdRev(c) == c.rev <= policy.sql /\ (c.id = "reserve" => HasRow(c.intent))

RevOrder == policy.agent <= policy.sql /\ policy.sql <= policy.central

RowRev == \A i \in Intent : sql[i].rev <= policy.sql /\ (central[i] = "HELD" => HasRow(i))

ProcRev == \A p \in Process : ActRev(proc[p])

QueueRev == \A k \in 1..Len(queue) : CmdRev(queue[k])

RevokedRev ==
    \A i \in revoked : /\ HasRow(i) /\ sql[i].rev < policy.central
                       /\ i \in granted => sql[i].rev < policy.sql /\ ~sql[i].begin

RevInv == RevOrder /\ RowRev /\ ProcRev /\ QueueRev /\ RevokedRev

Risky == {"POSTING", "UNKNOWN"}

\* new replaces old: a row stays, keeps the revision it was
\* inserted with, and is not claimed.
Onward(old, new) ==
    /\ old.state # "NONE" => new.state # "NONE"
    /\ new.rev = old.rev \/ (old.state = "NONE" /\ new.rev <= policy.sql)
    /\ new.begin => old.begin
    /\ new.state \in Risky => old.state \in Risky

RowsOnward == \A i \in Intent : Onward(sql[i], sql'[i])

\* The one step that claims a POST, and what begin_post demands for it.
Claims(i) ==
    /\ sql[i].rev = policy.sql /\ unknownExposure = {}
    /\ sql'[i].state # "NONE" /\ sql'[i].rev = sql[i].rev
    /\ \A j \in Intent \ {i} : sql'[j] = sql[j]

\* The operators on rows leave a row that goes onward.
LEMMA RowOpsOnward ==
    ASSUME NEW r \in Row
    PROVE  /\ Onward(r, r)
           /\ Onward(r, rejectUnsent(r))
           /\ Onward(r, rejectDenied(r))
           /\ Onward(r, acknowledged(r))
           /\ \A to \in {"UNKNOWN", "ACKNOWLEDGED"} \cup Terminal :
                outcomeAllowed(r, to) => Onward(r, recordOutcome(r, to))
<1>1. Onward(r, r)
  BY DEF Onward
<1>2. /\ rejectUnsent(r) \in Row /\ rejectUnsent(r).state = "REJECTED"
      /\ rejectUnsent(r).rev = r.rev /\ rejectUnsent(r).begin = r.begin
  <2>1. rejectUnsent(r) \in Row
    BY RowTypes
  <2>2. CASE r.state = "REJECTED"
    BY <2>1, <2>2 DEF rejectUnsent
  <2>3. CASE r.state # "REJECTED"
    BY <2>1, <2>3 DEF rejectUnsent, Row
  <2> QED BY <2>2, <2>3
<1>3. Onward(r, rejectUnsent(r))
  BY <1>2 DEF Onward, Risky
<1>4. Onward(r, rejectDenied(r))
  <2>1. /\ rejectDenied(r).state = "REJECTED"
        /\ rejectDenied(r).rev = r.rev /\ rejectDenied(r).begin = r.begin
    BY <1>2 DEF rejectDenied, Row
  <2> QED BY <2>1 DEF Onward, Risky
<1>5. Onward(r, acknowledged(r))
  BY DEF acknowledged, Onward, Row
<1>6. ASSUME NEW to \in {"UNKNOWN", "ACKNOWLEDGED"} \cup Terminal, outcomeAllowed(r, to)
      PROVE  Onward(r, recordOutcome(r, to))
  <2>1. /\ recordOutcome(r, to).state = to
        /\ recordOutcome(r, to).rev = r.rev /\ recordOutcome(r, to).begin = r.begin
    BY DEF recordOutcome, Row
  <2>2. to = "UNKNOWN" => r.state \in Risky
    BY <1>6 DEF outcomeAllowed, Risky
  <2> QED BY <2>1, <2>2 DEF Onward, Risky, Terminal
<1> QED BY <1>1, <1>3, <1>4, <1>5, <1>6

\* Writing one row, or none.
LEMMA SetRowOnward ==
    ASSUME TypeOK, NEW i \in Intent,
           sql' = sql \/ \E r : SetRow(i, r) /\ Onward(sql[i], r)
    PROVE  RowsOnward
<1>1. \A j \in Intent : Onward(sql[j], sql[j])
  BY DEF Onward
<1> QED BY <1>1 DEF RowsOnward, SetRow, TypeOK

\* The executor's steps other than begin_post write no row that does not go onward.
LEMMA ExecutorRowsOnward ==
    ASSUME IInv, ProcRev, NEW e \in Executor, ExecutorStep(e)
    PROVE  RowsOnward \/ (beginPost(e) /\ Claims(proc[e].intent))
<1> DEFINE i == proc[e].intent
<1>1. TypeOK /\ e \in Process
  BY DEF IInv, Process
<1>2. i \in Intent /\ sql[i] \in Row
  BY <1>1, ProcType
<1> HIDE DEF i
<1>3. CASE prepare(e)
  <2>1. sql[i].state = "NONE" => Onward(sql[i], [NoRow EXCEPT !.state = "PREPARED", !.rev = proc[e].rev])
    <3>1. proc[e].rev <= policy.sql
      BY <1>1 DEF ProcRev, ActRev
    <3> QED BY <3>1 DEF Onward, NoRow, Risky
  <2> QED BY <1>1, <1>2, <1>3, <2>1, RowOpsOnward, SetRowOnward DEF prepare, i
<1>4. CASE markReserveAttempt(e)
  <2>1. Onward(sql[i], [sql[i] EXCEPT !.marker = IF @ = "none" THEN "ATTEMPT" ELSE @])
    BY <1>2 DEF Onward, Row
  <2> QED BY <1>1, <1>2, <1>4, <2>1, SetRowOnward DEF markReserveAttempt, i
<1>5. CASE rejectDeniedReserve(e)
  BY <1>1, <1>2, <1>5, RowOpsOnward, SetRowOnward DEF rejectDeniedReserve, i
<1>6. CASE rejectPrepostDenial(e)
  BY <1>1, <1>2, <1>6, RowOpsOnward, SetRowOnward DEF rejectPrepostDenial, i
<1>7. CASE reserve(e)
  <2>1. ASSUME NEW h, sql[i].state = "PREPARED"
        PROVE  Onward(sql[i], [sql[i] EXCEPT !.state = "RESERVED", !.receipt = "HELD", !.hash = h])
    BY <1>2, <2>1 DEF Onward, Row, Risky
  <2> QED BY <1>1, <1>2, <1>7, <2>1, SetRowOnward DEF reserve, i
<1>8. CASE beginPost(e)
  <2>1. CASE sql' = sql
    BY <1>1, <1>2, <2>1, SetRowOnward
  <2>2. CASE postClaimable(i) /\
             SetRow(i, [sql[i] EXCEPT !.state = "POSTING", !.begin = TRUE, !.receipt = "POSTED"])
    <3>1. /\ sql'[i] = [sql[i] EXCEPT !.state = "POSTING", !.begin = TRUE, !.receipt = "POSTED"]
          /\ \A j \in Intent \ {i} : sql'[j] = sql[j]
      BY <1>1, <1>2, <2>2 DEF SetRow, TypeOK
    <3>2. sql'[i].state # "NONE" /\ sql'[i].rev = sql[i].rev
      BY <1>2, <3>1 DEF Row
    <3>3. Claims(i)
      BY <2>2, <3>1, <3>2 DEF Claims, postClaimable
    <3> QED BY <1>8, <3>3 DEF i
  <2> QED BY <1>8, <2>1, <2>2 DEF beginPost, i
<1>9. CASE postOnce(e)
  <2>1. sql[i].state = "POSTING"
    BY <1>1, <1>9 DEF postOnce, IInv, ProcInv, PostingInv, i
  <2>2. outcomeAllowed(sql[i], "REJECTED") /\ "REJECTED" \in Terminal
    BY <2>1 DEF outcomeAllowed, Terminal
  <2> QED BY <1>1, <1>2, <1>9, <2>2, RowOpsOnward, SetRowOnward DEF postOnce, i
<1>10. ASSUME NEW to \in {"UNKNOWN", "ACKNOWLEDGED"} \cup Terminal, Record(i, to)
       PROVE  RowsOnward
  BY <1>1, <1>2, <1>10, RowOpsOnward, SetRowOnward DEF Record
<1>11. CASE orderAccepted(e) \/ orderRefused(e) \/ responseLost(e)
  BY <1>10, <1>11 DEF orderAccepted, orderRefused, responseLost, Terminal, i
<1>12. CASE requestReserve(e) \/ reserveReplied(e) \/ reserveInspected(e) \/ requestFence(e)
            \/ fenceReplied(e) \/ fenceInspected(e)
  BY <1>1, <1>2, <1>12, SetRowOnward
  DEF requestReserve, reserveReplied, reserveInspected, requestFence, fenceReplied, fenceInspected
<1> QED BY <1>3, <1>4, <1>5, <1>6, <1>7, <1>8, <1>9, <1>11, <1>12 DEF ExecutorStep

\* Nor do the reconciler's.
LEMMA StatusRowsOnward ==
    ASSUME IInv, NEW p \in Process, StatusStep(p)
    PROVE  RowsOnward
<1> DEFINE i == proc[p].intent
<1>1. TypeOK
  BY DEF IInv
<1>2. i \in Intent /\ sql[i] \in Row
  BY <1>1, ProcType
<1> HIDE DEF i
<1>3. CASE statusIntent(p)
  BY <1>1, <1>2, <1>3, RowOpsOnward, SetRowOnward DEF statusIntent, i
<1>4. CASE recordOrderReadback(p)
  <2>1. PICK to \in {"ACKNOWLEDGED", "FILLED", "CANCELLED"} : to = OutcomeOf[proc[p].seen]
    BY <1>4 DEF recordOrderReadback, IInv, ProcInv, ActInv, OutcomeOf
  <2>2. outcomeAllowed(sql[i], to) => Onward(sql[i], recordOutcome(sql[i], to))
    BY <1>2, RowOpsOnward DEF Terminal
  <2>3. Onward(sql[i], sql[i])
    BY <1>2, RowOpsOnward
  <2>4. sql' = sql \/ \E r : SetRow(i, r) /\ Onward(sql[i], r)
    BY <1>4, <2>1, <2>2, <2>3 DEF recordOrderReadback, i
  <2> QED BY <1>1, <1>2, <2>4, SetRowOnward
<1>5. CASE acknowledgeCentralRelease(p)
  BY <1>1, <1>2, <1>5, RowOpsOnward, SetRowOnward DEF acknowledgeCentralRelease, i
<1>6. CASE proveUnsent(p) \/ unsentInspected(p) \/ unsentReleased(p) \/ readOrder(p)
           \/ releaseTerminal(p) \/ terminalInspected(p) \/ terminalResolved(p)
  BY <1>1, <1>2, <1>6, SetRowOnward
  DEF proveUnsent, unsentInspected, unsentReleased, readOrder, releaseTerminal,
      terminalInspected, terminalResolved
<1> QED BY <1>3, <1>4, <1>5, <1>6 DEF StatusStep

\* A step of the system keeps every row onward, or claims one.
LEMMA NextRowsOnward ==
    ASSUME IInv, ProcRev, [Next]_vars
    PROVE  RowsOnward \/ \E e \in Executor : beginPost(e) /\ Claims(proc[e].intent)
<1>1. TypeOK
  BY DEF IInv
<1>2. sql' = sql => RowsOnward
  BY DEF RowsOnward, Onward
<1>3. CASE restart
  <2>1. ASSUME NEW j \in Intent
        PROVE  Onward(sql[j], sql'[j])
    <3>1. sql[j] \in Row
      BY <1>1 DEF TypeOK
    <3>2. CASE sql[j].state \in Risky
      <4>1. sql'[j] = [sql[j] EXCEPT !.state = "UNKNOWN",
                                     !.receipt = IF @ = "none" THEN @ ELSE "UNKNOWN"]
        BY <1>3, <3>2 DEF restart, Risky
      <4> QED BY <3>1, <3>2, <4>1 DEF Onward, Row, Risky
    <3>3. CASE sql[j].state \notin Risky
      BY <1>3, <3>3 DEF restart, Onward, Risky
    <3> QED BY <3>2, <3>3
  <2> QED BY <2>1 DEF RowsOnward
<1>4. CASE Deliver \/ DeliverReplyLost \/ DropCommand \/ UNCHANGED vars
  BY <1>2, <1>4 DEF Deliver, DeliverReplyLost, DropCommand, answer, vars
<1>5. CASE Environment
  BY <1>2, <1>5 DEF Environment, revisePolicy, otherBookChange, updateGovernance,
     updateGovernanceFailed, expire, VenueStep, venueAccept, venueReject, venueDrop,
     venueFill, venueCancel, venueFlatten, SetVenue
<1>6. ASSUME NEW p \in Process, requestTimeout(p) \/ sessionLost(p)
      PROVE  RowsOnward
  BY <1>2, <1>6 DEF requestTimeout, sessionLost
<1>7. ASSUME NEW p \in Process, NEW j \in Intent, execute(p, j) \/ maintain(p, j)
      PROVE  RowsOnward
  BY <1>2, <1>7 DEF execute, maintain
<1> QED BY <1>3, <1>4, <1>5, <1>6, <1>7, ExecutorRowsOnward, StatusRowsOnward DEF Next, Process

\* No step takes a revision back, in the account's SQL or at the Worker.
LEMMA RevisionsGrow ==
    ASSUME TypeOK, RevOrder, [Next]_vars
    PROVE  RevOrder' /\ policy.sql <= policy'.sql /\ policy.central <= policy'.central
<1>1. policy \in [central : Nat, sql : Nat, agent : Nat]
  BY DEF TypeOK
<1>2. CASE policy' = policy
  BY <1>1, <1>2 DEF RevOrder
<1>3. ASSUME NEW e \in Executor, NEW i \in Intent, execute(e, i)
      PROVE  \/ policy' = policy
             \/ policy.agent >= policy.sql /\ policy' = [policy EXCEPT !.sql = policy.agent]
  BY <1>3 DEF execute
<1>4. CASE policy.agent >= policy.sql /\ policy' = [policy EXCEPT !.sql = policy.agent]
  BY <1>1, <1>4 DEF RevOrder
<1>5. CASE restart
  <2>1. policy'.agent = 0 /\ policy'.sql = policy.sql /\ policy'.central = policy.central
    BY <1>1, <1>5 DEF restart
  <2>2. policy.agent \in Nat /\ policy.sql \in Nat /\ policy.central \in Nat
    BY <1>1
  <2> QED BY <2>1, <2>2 DEF RevOrder
<1>6. CASE Environment
  <2>1. CASE revisePolicy
    BY <1>1, <2>1 DEF revisePolicy, RevOrder
  <2>2. ASSUME NEW rev \in 1..policy.central, updateGovernance(rev) \/ updateGovernanceFailed(rev)
        PROVE  RevOrder' /\ policy.sql <= policy'.sql /\ policy.central <= policy'.central
    <3>1. /\ policy'.sql = rev /\ rev >= policy.sql /\ policy'.central = policy.central
          /\ policy'.agent \in {policy.agent, rev} /\ rev >= policy.agent
      <4>1. CASE updateGovernance(rev)
        BY <1>1, <4>1 DEF updateGovernance
      <4>2. CASE updateGovernanceFailed(rev)
        <5>1. rev >= policy.agent /\ rev > policy.sql /\ policy' = [policy EXCEPT !.sql = rev]
          BY <4>2 DEF updateGovernanceFailed
        <5> QED BY <1>1, <5>1
      <4> QED BY <2>2, <4>1, <4>2
    <3>2. policy.agent \in Nat /\ policy.sql \in Nat /\ policy.central \in Nat
      BY <1>1
    <3> QED BY <3>1, <3>2 DEF RevOrder
  <2>3. CASE otherBookChange \/ \E i \in Intent : expire(i) \/ VenueStep(i)
    BY <1>2, <2>3 DEF otherBookChange, expire, VenueStep, venueAccept, venueReject, venueDrop,
       venueFill, venueCancel, venueFlatten, SetVenue
  <2> QED BY <1>6, <2>1, <2>2, <2>3 DEF Environment
<1>7. ASSUME NEW e \in Executor, ExecutorStep(e)
      PROVE  policy' = policy
  BY <1>7 DEF ExecutorStep, prepare, markReserveAttempt, requestReserve, reserveReplied,
     reserveInspected, rejectDeniedReserve, rejectPrepostDenial, reserve, requestFence,
     fenceReplied, fenceInspected, beginPost, postOnce, orderAccepted, orderRefused, responseLost
<1>8. ASSUME NEW p \in Process, StatusStep(p)
      PROVE  policy' = policy
  BY <1>8 DEF StatusStep, statusIntent, proveUnsent, unsentInspected, unsentReleased,
     readOrder, recordOrderReadback, releaseTerminal, terminalInspected, terminalResolved,
     acknowledgeCentralRelease
<1>9. ASSUME NEW p \in Process, NEW i \in Intent,
             maintain(p, i) \/ requestTimeout(p) \/ sessionLost(p)
      PROVE  policy' = policy
  BY <1>9 DEF maintain, requestTimeout, sessionLost
<1>10. CASE Deliver \/ DeliverReplyLost \/ DropCommand \/ UNCHANGED vars
  BY <1>2, <1>10 DEF Deliver, DeliverReplyLost, DropCommand, answer, vars
<1>11. CASE Next
  <2>1. CASE \E e \in Executor, i \in Intent : execute(e, i)
    BY <1>2, <1>3, <1>4, <2>1
  <2>2. CASE \E e \in Executor : ExecutorStep(e) \/ sessionLost(e)
    <3>1. PICK e \in Executor : ExecutorStep(e) \/ sessionLost(e)
      BY <2>2
    <3>2. policy' = policy
      BY <1>7, <3>1 DEF sessionLost
    <3> QED BY <1>2, <3>2
  <2>3. CASE \E m \in Reconciler, i \in Intent : maintain(m, i)
    BY <1>2, <2>3 DEF maintain
  <2>4. CASE \E p \in Process : StatusStep(p) \/ requestTimeout(p)
    <3>1. PICK p \in Process : StatusStep(p) \/ requestTimeout(p)
      BY <2>4
    <3>2. policy' = policy
      BY <1>8, <3>1 DEF requestTimeout
    <3> QED BY <1>2, <3>2
  <2> QED BY <1>5, <1>6, <1>10, <1>11, <2>1, <2>2, <2>3, <2>4 DEF Next
<1> QED BY <1>10, <1>11

\* Rows stay and the account's revision does not go back.
Keeps == /\ policy.sql <= policy'.sql
         /\ \A i \in Intent : HasRow(i) => HasRow(i)'

\* The step of process p leaves a known revision in the activity and in the
\* command, if it sends one.
Known(p) ==
    /\ \A q \in Process \ {p} : proc'[q] = proc[q]
    /\ ActRev(proc[p])'
    /\ \/ queue' = queue
       \/ \E c \in Command : queue' = Append(queue, c) /\ CmdRev(c)'

\* A step of one process keeps what revisions the others and the channel hold.
LEMMA KnownStep ==
    ASSUME TypeOK, TypeOK', ProcRev, Keeps, NEW p \in Process, Known(p)
    PROVE  ProcRev'
<1> SUFFICES ASSUME NEW q \in Process PROVE ActRev(proc[q])'
  BY DEF ProcRev
<1>1. CASE q = p
  BY <1>1 DEF Known
<1>2. CASE q # p
  <2>1. proc'[q] = proc[q] /\ proc[q] \in Activity /\ ActRev(proc[q])
    BY <1>2 DEF Known, TypeOK, ProcRev
  <2>2. proc[q].intent \in Intent /\ proc[q].rev \in Nat /\ policy.sql \in Nat /\ policy'.sql \in Nat
    BY <2>1 DEF Activity, TypeOK
  <2>3. proc[q].rev <= policy'.sql
    BY <2>1, <2>2 DEF ActRev, Keeps
  <2> QED BY <2>1, <2>2, <2>3 DEF ActRev, Keeps
<1> QED BY <1>1, <1>2

\* The channel keeps known revisions, whatever is taken from it or added.
LEMMA QueueRevKeep ==
    ASSUME TypeOK, TypeOK', QueueRev, Keeps,
           \/ queue' = queue
           \/ queue # << >> /\ queue' = Tail(queue)
           \/ \E c \in Command : queue' = Append(queue, c) /\ CmdRev(c)'
    PROVE  QueueRev'
<1>1. queue \in Seq(Command) /\ policy.sql \in Nat /\ policy'.sql \in Nat
  BY DEF TypeOK
<1>2. ASSUME NEW c \in Command, CmdRev(c)
      PROVE  CmdRev(c)'
  <2>1. c.intent \in Intent /\ c.rev \in Nat
    BY DEF Command
  <2>2. c.rev <= policy'.sql
    BY <1>1, <1>2, <2>1 DEF CmdRev, Keeps
  <2> QED BY <1>2, <2>1, <2>2 DEF CmdRev, Keeps
<1>3. ASSUME NEW k \in 1..Len(queue)
      PROVE  queue[k] \in Command /\ CmdRev(queue[k])
  BY <1>1 DEF QueueRev
<1>4. CASE queue' = queue
  <2> SUFFICES ASSUME NEW k \in 1..Len(queue) PROVE CmdRev(queue[k])'
    BY <1>4 DEF QueueRev
  <2>1. PICK c \in Command : c = queue[k] /\ CmdRev(c)
    BY <1>3
  <2>2. CmdRev(c)'
    BY <1>2, <2>1
  <2> QED BY <1>4, <2>1, <2>2 DEF CmdRev
<1>5. CASE queue # << >> /\ queue' = Tail(queue)
  <2> SUFFICES ASSUME NEW k \in 1..Len(Tail(queue)) PROVE CmdRev(queue[k])'
    BY <1>5 DEF QueueRev
  <2>1. Tail(queue)[k] = queue[k + 1] /\ k + 1 \in 1..Len(queue)
    BY <1>1, <1>5
  <2>2. PICK c \in Command : c = queue[k + 1] /\ CmdRev(c)
    BY <1>3, <2>1
  <2>3. CmdRev(c)' /\ queue'[k] = c
    BY <1>2, <1>5, <2>1, <2>2
  <2> QED BY <2>3 DEF CmdRev
<1>6. CASE \E c \in Command : queue' = Append(queue, c) /\ CmdRev(c)'
  <2>1. PICK d \in Command : queue' = Append(queue, d) /\ CmdRev(d)'
    BY <1>6
  <2> SUFFICES ASSUME NEW k \in 1..(Len(queue) + 1) PROVE CmdRev(queue[k])'
    BY <1>1, <2>1 DEF QueueRev
  <2>2. CASE k = Len(queue) + 1
    <3>1. queue'[k] = d
      BY <1>1, <2>1, <2>2
    <3> QED BY <2>1, <3>1 DEF CmdRev
  <2>3. CASE k \in 1..Len(queue)
    <3>1. PICK c \in Command : c = queue[k] /\ CmdRev(c)
      BY <1>3, <2>3
    <3>2. CmdRev(c)' /\ queue'[k] = c
      BY <1>1, <1>2, <2>1, <2>3, <3>1
    <3> QED BY <3>2 DEF CmdRev
  <2> QED BY <1>1, <2>2, <2>3
<1> QED BY <1>4, <1>5, <1>6

\* p goes on as a, with the revision it had or none.
LEMMA BecomeKnown ==
    ASSUME TypeOK, NEW p \in Process, NEW a, Become(p, a), queue' = queue,
           a.rev <= policy'.sql, a.pc # "marked"
    PROVE  Known(p)
BY DEF Known, Become, ActRev, TypeOK

\* A process that gives up has revision zero.
LEMMA FinishKnown ==
    ASSUME TypeOK, TypeOK', NEW p \in Process, Finish(p), queue' = queue
    PROVE  Known(p)
<1>1. PICK i \in Intent : i = proc[p].intent
  BY ProcType
<1>2. Idle(i).rev = 0 /\ Idle(i).pc = "idle" /\ policy'.sql \in Nat
  BY DEF Idle, TypeOK
<1>3. Become(p, Idle(i)) /\ 0 <= policy'.sql
  BY <1>1, <1>2 DEF Finish
<1> QED BY <1>2, <1>3, BecomeKnown

\* A command carries the revision of the activity that sends it.
LEMMA RequestKnown ==
    ASSUME TypeOK, NEW p \in Process, NEW a \in Activity, NEW id \in Waiting, Request(p, a, id),
           a.rev <= policy.sql, UNCHANGED <<sql, policy>>, id = "reserve" => HasRow(a.intent)
    PROVE  Known(p)
<1> DEFINE cmd == [id |-> id, intent |-> a.intent, rev |-> a.rev, seq |-> a.seq]
<1>1. PICK b : /\ Become(p, b) /\ b.pc = id /\ b.rev = a.rev
               /\ queue' = queue \/ queue' = Append(queue, cmd)
  BY DEF Request, Activity
<1>2. ActRev(proc[p])' /\ \A q \in Process \ {p} : proc'[q] = proc[q]
  BY <1>1 DEF ActRev, Become, TypeOK, Waiting
<1>3. PICK c \in Command : c = cmd
  BY DEF Command, Activity
<1>4. c.rev = a.rev /\ c.id = id /\ c.intent = a.intent
  BY <1>3
<1>5. CmdRev(c)'
  BY <1>4 DEF CmdRev, HasRow
<1> QED BY <1>1, <1>2, <1>3, <1>5 DEF Known

\* The executor's steps.
LEMMA ExecutorKnown ==
    ASSUME TypeOK, TypeOK', ProcRev, NEW e \in Executor, ExecutorStep(e)
    PROVE  Known(e)
<1>1. e \in Process
  BY DEF Process
<1>2. PICK a \in Activity : a = proc[e] /\ a.rev <= policy.sql /\ (a.pc = "marked" => HasRow(a.intent))
  BY <1>1, ProcType DEF ProcRev, ActRev
<1>3. ASSUME Finish(e), queue' = queue
      PROVE  Known(e)
  BY <1>1, <1>3, FinishKnown
<1>4. ASSUME NEW b \in Activity, b.rev = a.rev, b.pc # "marked", Become(e, b),
             queue' = queue, policy' = policy
      PROVE  Known(e)
  BY <1>1, <1>2, <1>4, BecomeKnown
<1>5. CASE prepare(e)
  <2>1. [a EXCEPT !.pc = "prepared"] \in Activity /\ [a EXCEPT !.pc = "prepared"].rev = a.rev
        /\ [a EXCEPT !.pc = "prepared"].pc # "marked"
    BY DEF Activity, Control
  <2> QED BY <1>2, <1>3, <1>4, <1>5, <2>1 DEF prepare
<1>6. CASE markReserveAttempt(e)
  <2>1. CASE Finish(e)
    BY <1>3, <1>6, <2>1 DEF markReserveAttempt
  <2>2. CASE /\ markable(sql[a.intent])
             /\ SetRow(a.intent, [sql[a.intent] EXCEPT !.marker = IF @ = "none" THEN "ATTEMPT" ELSE @])
             /\ Become(e, [a EXCEPT !.pc = "marked"])
    <3>1. a.intent \in Intent /\ sql[a.intent] \in Row
      BY DEF Activity, TypeOK
    <3>2. sql'[a.intent].state = "PREPARED"
      BY <2>2, <3>1 DEF SetRow, markable, TypeOK, Row
    <3>3. PICK b \in Activity : b = [a EXCEPT !.pc = "marked"]
      BY DEF Activity, Control
    <3>4. b.rev = a.rev /\ b.intent = a.intent
      BY <3>3 DEF Activity
    <3>5. proc'[e] = b /\ \A q \in Process \ {e} : proc'[q] = proc[q]
      BY <1>1, <2>2, <3>3 DEF Become, TypeOK
    <3>6. policy' = policy /\ queue' = queue
      BY <1>6 DEF markReserveAttempt
    <3> QED BY <1>2, <3>2, <3>4, <3>5, <3>6 DEF Known, ActRev, HasRow
  <2> QED BY <1>2, <1>6, <2>1, <2>2 DEF markReserveAttempt
<1>7. CASE requestReserve(e)
  <2>1. Request(e, a, "reserve") /\ UNCHANGED <<sql, policy>> /\ "reserve" \in Waiting /\ a.pc = "marked"
    BY <1>2, <1>7 DEF requestReserve, Waiting
  <2> QED BY <1>1, <1>2, <2>1, RequestKnown
<1>8. ASSUME NEW b \in Activity, b.rev = a.rev, NEW id \in Waiting \ {"reserve"}, Request(e, b, id),
             UNCHANGED <<sql, policy>>
      PROVE  Known(e)
  BY <1>1, <1>2, <1>8, RequestKnown
<1>9. CASE reserveReplied(e)
  <2>1. PICK d \in BOOLEAN : d = (a.reply.status = "DENIED")
    OBVIOUS
  <2>2. [a EXCEPT !.denied = d] \in Activity /\ [a EXCEPT !.denied = d].rev = a.rev
    BY DEF Activity
  <2>3. "reserve_inspect" \in Waiting \ {"reserve"}
    BY DEF Waiting
  <2>4. PICK b \in Activity : b = [a EXCEPT !.pc = "held", !.seq = a.reply.seq, !.reply = NoReply]
    BY DEF Activity, Control, NoReply, Status
  <2>5. b.rev = a.rev /\ b.pc # "marked"
    BY <2>4 DEF Activity
  <2>6. UNCHANGED <<sql, policy>>
    BY <1>9 DEF reserveReplied
  <2>7. CASE a.reply.status = "HELD"
    BY <1>2, <1>4, <1>9, <2>4, <2>5, <2>7 DEF reserveReplied
  <2>8. CASE a.reply.status # "HELD"
    <3>1. Request(e, [a EXCEPT !.denied = d], "reserve_inspect")
      BY <1>2, <1>9, <2>1, <2>8 DEF reserveReplied
    <3> QED BY <1>8, <2>2, <2>3, <2>6, <3>1
  <2> QED BY <2>7, <2>8
<1>10. CASE reserveInspected(e)
  <2>1. PICK b \in Activity : b = [a EXCEPT !.reply = NoReply]
    BY DEF Activity, NoReply, Status
  <2>2. PICK n \in Nat : n = a.reply.seq
    BY DEF Activity
  <2>3. b.rev = a.rev
    BY <2>1 DEF Activity
  <2>4. PICK c \in Activity : c = [b EXCEPT !.pc = "held", !.via = "inspect", !.seq = n]
    BY DEF Activity, Control
  <2>5. PICK d \in Activity : d = [b EXCEPT !.pc = "declining"]
    BY DEF Activity, Control
  <2>6. PICK f \in Activity : f = [b EXCEPT !.pc = "rejecting"]
    BY DEF Activity, Control
  <2>7. /\ c.rev = b.rev /\ c.pc = "held" /\ d.rev = b.rev /\ d.pc = "declining"
        /\ f.rev = b.rev /\ f.pc = "rejecting"
    BY <2>4, <2>5, <2>6 DEF Activity
  <2>8. Become(e, c) \/ Become(e, d) \/ Become(e, f)
    BY <1>2, <1>10, <2>1, <2>2, <2>4, <2>5, <2>6 DEF reserveInspected
  <2>9. queue' = queue /\ policy' = policy
    BY <1>10 DEF reserveInspected
  <2> QED BY <1>4, <2>3, <2>7, <2>8, <2>9
<1>11. CASE rejectDeniedReserve(e) \/ orderRefused(e) \/ responseLost(e)
  BY <1>3, <1>11 DEF rejectDeniedReserve, orderRefused, responseLost
<1>12. CASE rejectPrepostDenial(e)
  <2>1. [a EXCEPT !.pc = "proving"] \in Activity /\ [a EXCEPT !.pc = "proving"].rev = a.rev
        /\ [a EXCEPT !.pc = "proving"].pc # "marked"
    BY DEF Activity, Control
  <2> QED BY <1>2, <1>3, <1>4, <1>12, <2>1 DEF rejectPrepostDenial
<1>13. CASE reserve(e)
  <2>1. [a EXCEPT !.pc = "fencing"] \in Activity /\ [a EXCEPT !.pc = "fencing"].rev = a.rev
        /\ [a EXCEPT !.pc = "fencing"].pc # "marked"
    BY DEF Activity, Control
  <2> QED BY <1>2, <1>3, <1>4, <1>13, <2>1 DEF reserve
<1>14. CASE requestFence(e)
  <2>1. PICK n \in Nat : n = a.tries + 1
    BY DEF Activity
  <2>2. PICK b \in Activity : b = [a EXCEPT !.tries = n]
    BY DEF Activity
  <2>3. PICK c \in Activity : c = [a EXCEPT !.pc = "rejecting"]
    BY DEF Activity, Control
  <2>4. b.rev = a.rev /\ c.rev = a.rev /\ c.pc = "rejecting" /\ "fence" \in Waiting \ {"reserve"}
    BY <2>2, <2>3 DEF Activity, Waiting
  <2>5. Request(e, b, "fence") \/ (Become(e, c) /\ queue' = queue)
    BY <1>2, <1>14, <2>1, <2>2, <2>3 DEF requestFence
  <2>6. UNCHANGED <<sql, policy>>
    BY <1>14 DEF requestFence
  <2> QED BY <1>4, <1>8, <2>4, <2>5, <2>6
<1>15. CASE fenceReplied(e)
  <2>1. PICK pc \in {"authorized", "rejecting"} :
          pc = IF a.reply.status = "POST_AUTHORIZED" THEN "authorized" ELSE "rejecting"
    OBVIOUS
  <2>2. PICK b \in Activity : b = [a EXCEPT !.reply = NoReply, !.pc = pc]
    BY DEF Activity, Control, NoReply, Status
  <2>3. b.rev = a.rev /\ b.pc # "marked" /\ "fence_inspect" \in Waiting \ {"reserve"}
    BY <2>2 DEF Activity, Waiting
  <2>4. Request(e, a, "fence_inspect") \/ (Become(e, b) /\ queue' = queue)
    BY <1>2, <1>15, <2>1, <2>2 DEF fenceReplied
  <2>5. UNCHANGED <<sql, policy>>
    BY <1>15 DEF fenceReplied
  <2> QED BY <1>4, <1>8, <2>3, <2>4, <2>5
<1>16. CASE fenceInspected(e)
  <2>1. PICK b \in Activity : b = [a EXCEPT !.pc = "fencing", !.seq = a.reply.seq, !.reply = NoReply]
    BY DEF Activity, Control, NoReply, Status
  <2>2. PICK c \in Activity : c = [a EXCEPT !.pc = "rejecting", !.reply = NoReply]
    BY DEF Activity, Control, NoReply, Status
  <2>3. b.rev = a.rev /\ b.pc # "marked" /\ c.rev = a.rev /\ c.pc # "marked"
    BY <2>1, <2>2 DEF Activity
  <2> QED BY <1>2, <1>4, <1>16, <2>1, <2>2, <2>3 DEF fenceInspected
<1>17. CASE beginPost(e)
  <2>1. [a EXCEPT !.pc = "posting"] \in Activity /\ [a EXCEPT !.pc = "posting"].rev = a.rev
        /\ [a EXCEPT !.pc = "posting"].pc # "marked"
    BY DEF Activity, Control
  <2> QED BY <1>2, <1>3, <1>4, <1>17, <2>1 DEF beginPost
<1>18. CASE postOnce(e)
  <2>1. [a EXCEPT !.pc = "sent"] \in Activity /\ [a EXCEPT !.pc = "sent"].rev = a.rev
        /\ [a EXCEPT !.pc = "sent"].pc # "marked"
    BY DEF Activity, Control
  <2> QED BY <1>2, <1>3, <1>4, <1>18, <2>1 DEF postOnce
<1>19. CASE orderAccepted(e)
  <2>1. /\ [Idle(a.intent) EXCEPT !.pc = "status"].rev = 0
        /\ [Idle(a.intent) EXCEPT !.pc = "status"].pc # "marked"
        /\ 0 <= policy'.sql
    BY DEF Idle, TypeOK
  <2>2. queue' = queue /\ (Finish(e) \/ Become(e, [Idle(a.intent) EXCEPT !.pc = "status"]))
    BY <1>2, <1>19 DEF orderAccepted
  <2> QED BY <1>1, <1>3, <2>1, <2>2, BecomeKnown
<1> QED BY <1>5, <1>6, <1>7, <1>9, <1>10, <1>11, <1>12, <1>13, <1>14, <1>15, <1>16, <1>17, <1>18, <1>19
        DEF ExecutorStep

\* The reconciler's steps.
LEMMA StatusKnown ==
    ASSUME TypeOK, TypeOK', ProcRev, NEW p \in Process, StatusStep(p)
    PROVE  Known(p)
<1>1. PICK a \in Activity : a = proc[p] /\ a.rev <= policy.sql
  BY ProcType DEF ProcRev, ActRev
<1>2. ASSUME Finish(p), queue' = queue
      PROVE  Known(p)
  BY <1>2, FinishKnown
<1>3. ASSUME NEW b \in Activity, b.rev = a.rev, b.pc # "marked", Become(p, b),
             queue' = queue, policy' = policy
      PROVE  Known(p)
  BY <1>1, <1>3, BecomeKnown
<1>4. ASSUME NEW b \in Activity, b.rev = a.rev, NEW id \in Waiting \ {"reserve"}, Request(p, b, id),
             UNCHANGED <<sql, policy>>
      PROVE  Known(p)
  BY <1>1, <1>4, RequestKnown
<1>5. {"unsent_inspect", "unsent_release", "terminal_inspect", "terminal_resolve"}
        \subseteq Waiting \ {"reserve"}
  BY DEF Waiting
<1>6. PICK acking \in Activity : acking = [a EXCEPT !.pc = "acknowledging", !.reply = NoReply]
  BY DEF Activity, Control, NoReply, Status
<1>7. acking.rev = a.rev /\ acking.pc # "marked"
  BY <1>6 DEF Activity
<1>8. CASE statusIntent(p)
  <2>1. CASE proc' = proc
    <3>1. ActRev(proc[p]) /\ proc[p].pc = "status" /\ policy' = policy /\ queue' = queue
      BY <1>8 DEF statusIntent, ProcRev
    <3> QED BY <2>1, <3>1 DEF Known, ActRev
  <2>2. CASE Finish(p)
    BY <1>2, <1>8, <2>2 DEF statusIntent
  <2>3. ASSUME NEW t \in BOOLEAN, NEW pc \in {"proving", "releasing", "ordering"},
               Become(p, [a EXCEPT !.terminal = t, !.pc = pc])
        PROVE  Known(p)
    <3>1. PICK b \in Activity : b = [a EXCEPT !.terminal = t, !.pc = pc]
      BY DEF Activity, Control
    <3>2. b.rev = a.rev /\ b.pc # "marked"
      BY <3>1 DEF Activity
    <3> QED BY <1>3, <1>8, <2>3, <3>1, <3>2 DEF statusIntent
  <2>4. PICK t \in BOOLEAN : t = (sql[a.intent].state \in Terminal)
    <3>1. (sql[a.intent].state \in Terminal) \in BOOLEAN
      OBVIOUS
    <3> QED BY <3>1, Zenon
  <2>5. PICK pc \in {"proving", "releasing", "ordering"} :
          pc = IF unsentReleaseReceipt(sql[a.intent]) THEN "proving"
               ELSE IF sql[a.intent].state = "REJECTED" THEN "releasing" ELSE "ordering"
    OBVIOUS
  <2>6. proc' = proc \/ Finish(p) \/ Become(p, [a EXCEPT !.terminal = t, !.pc = pc])
    BY <1>1, <1>8, <2>4, <2>5 DEF statusIntent
  <2> QED BY <2>1, <2>2, <2>3, <2>6
<1>9. CASE proveUnsent(p)
  <2>1. PICK b \in Activity : b = [a EXCEPT !.tries = 1]
    BY DEF Activity
  <2>2. b.rev = a.rev
    BY <2>1 DEF Activity
  <2>3. Request(p, b, "unsent_inspect") \/ (Finish(p) /\ queue' = queue)
    BY <1>1, <1>9, <2>1 DEF proveUnsent
  <2>4. UNCHANGED <<sql, policy>>
    BY <1>9 DEF proveUnsent
  <2> QED BY <1>2, <1>4, <1>5, <2>2, <2>3, <2>4
<1>10. CASE unsentInspected(p)
  <2>1. PICK b \in Activity : b = [a EXCEPT !.seq = a.reply.seq]
    BY DEF Activity
  <2>2. b.rev = a.rev
    BY <2>1 DEF Activity
  <2>3. \/ Request(p, b, "unsent_release")
        \/ Become(p, acking) /\ queue' = queue
        \/ Finish(p) /\ queue' = queue
    BY <1>1, <1>6, <1>10, <2>1 DEF unsentInspected
  <2>4. UNCHANGED <<sql, policy>>
    BY <1>10 DEF unsentInspected
  <2> QED BY <1>2, <1>3, <1>4, <1>5, <1>7, <2>2, <2>3, <2>4
<1>11. CASE unsentReleased(p)
  <2>1. PICK n \in Nat : n = a.tries + 1
    BY DEF Activity
  <2>2. PICK b \in Activity : b = [a EXCEPT !.tries = n]
    BY DEF Activity
  <2>3. b.rev = a.rev
    BY <2>2 DEF Activity
  <2>4. \/ Request(p, b, "unsent_inspect")
        \/ Become(p, acking) /\ queue' = queue
        \/ Finish(p) /\ queue' = queue
    BY <1>1, <1>6, <1>11, <2>1, <2>2 DEF unsentReleased
  <2>5. UNCHANGED <<sql, policy>>
    BY <1>11 DEF unsentReleased
  <2> QED BY <1>2, <1>3, <1>4, <1>5, <1>7, <2>3, <2>4, <2>5
<1>12. CASE readOrder(p)
  <2>1. PICK o \in Order : o = venue[a.intent].order
    BY DEF TypeOK, Activity
  <2>2. PICK b \in Activity : b = [a EXCEPT !.pc = "recording", !.seen = o]
    BY DEF Activity, Control
  <2>3. b.rev = a.rev /\ b.pc # "marked"
    BY <2>2 DEF Activity
  <2>4. /\ Finish(p) \/ Become(p, b)
        /\ queue' = queue /\ policy' = policy
    BY <1>1, <1>12, <2>1, <2>2 DEF readOrder
  <2> QED BY <1>2, <1>3, <2>3, <2>4
<1>13. CASE recordOrderReadback(p)
  <2>1. PICK b \in Activity : b = [a EXCEPT !.pc = "releasing"]
    BY DEF Activity, Control
  <2>2. b.rev = a.rev /\ b.pc # "marked"
    BY <2>1 DEF Activity
  <2>3. /\ Finish(p) \/ Become(p, b)
        /\ queue' = queue /\ policy' = policy
    BY <1>1, <1>13, <2>1 DEF recordOrderReadback
  <2> QED BY <1>2, <1>3, <2>2, <2>3
<1>14. CASE releaseTerminal(p)
  <2>1. Request(p, a, "terminal_inspect") \/ (Finish(p) /\ queue' = queue)
    BY <1>1, <1>14 DEF releaseTerminal
  <2>2. UNCHANGED <<sql, policy>>
    BY <1>14 DEF releaseTerminal
  <2> QED BY <1>2, <1>4, <1>5, <2>1, <2>2
<1>15. CASE terminalInspected(p)
  <2>1. PICK b \in Activity : b = [a EXCEPT !.seq = a.reply.seq]
    BY DEF Activity
  <2>2. b.rev = a.rev
    BY <2>1 DEF Activity
  <2>3. \/ Request(p, b, "terminal_resolve")
        \/ Become(p, acking) /\ queue' = queue
        \/ Finish(p) /\ queue' = queue
    BY <1>1, <1>6, <1>15, <2>1 DEF terminalInspected
  <2>4. UNCHANGED <<sql, policy>>
    BY <1>15 DEF terminalInspected
  <2> QED BY <1>2, <1>3, <1>4, <1>5, <1>7, <2>2, <2>3, <2>4
<1>16. CASE terminalResolved(p)
  BY <1>1, <1>2, <1>3, <1>6, <1>7, <1>16 DEF terminalResolved
<1>17. CASE acknowledgeCentralRelease(p)
  BY <1>2, <1>17 DEF acknowledgeCentralRelease
<1> QED BY <1>8, <1>9, <1>10, <1>11, <1>12, <1>13, <1>14, <1>15, <1>16, <1>17 DEF StatusStep

\* An answer, or its loss, changes nothing but replies.
LEMMA ReplyRev ==
    ASSUME TypeOK, TypeOK', ProcRev, Keeps, NEW c, NEW reply, ReplyTo(c, reply)
    PROVE  ProcRev'
<1> SUFFICES ASSUME NEW q \in Process PROVE ActRev(proc[q])'
  BY DEF ProcRev
<1>1. PICK a \in Activity : a = proc[q] /\ ActRev(a)
  BY DEF TypeOK, ProcRev, ActRev
<1>2. proc'[q] = a \/ proc'[q] = [a EXCEPT !.reply = reply]
  BY <1>1 DEF ReplyTo
<1>3. proc'[q].rev = a.rev /\ proc'[q].pc = a.pc /\ proc'[q].intent = a.intent
  BY <1>2 DEF Activity
<1>4. a.rev \in Nat /\ a.intent \in Intent /\ policy.sql \in Nat /\ policy'.sql \in Nat
  BY DEF Activity, TypeOK
<1>5. a.rev <= policy'.sql
  BY <1>1, <1>4 DEF ActRev, Keeps
<1> QED BY <1>1, <1>3, <1>4, <1>5 DEF ActRev, Keeps

\* No activity and no command gets a revision the account has not seen.
LEMMA NextKnown ==
    ASSUME TypeOK, TypeOK', RevOrder, ProcRev, QueueRev, Keeps, [Next]_vars
    PROVE  ProcRev' /\ QueueRev'
<1>1. ASSUME NEW p \in Process, Known(p)
      PROVE  ProcRev' /\ QueueRev'
  <2>1. ProcRev'
    BY <1>1, KnownStep
  <2>2. QueueRev'
    BY <1>1, QueueRevKeep DEF Known
  <2> QED BY <2>1, <2>2
<1>2. policy \in [central : Nat, sql : Nat, agent : Nat] /\ policy' \in [central : Nat, sql : Nat, agent : Nat]
  BY DEF TypeOK
<1>3. ASSUME NEW e \in Executor, NEW i \in Intent, execute(e, i)
      PROVE  ProcRev' /\ QueueRev'
  <2>1. e \in Process
    BY DEF Process
  <2>2. PICK a : /\ Become(e, a) /\ a.pc # "marked"
                 /\ a.rev = 0 \/ (a.rev = policy.agent /\ policy'.sql = policy.agent)
    <3>1. PICK n \in Nat : n = policy.agent
      BY <1>2
    <3>2. /\ [Idle(i) EXCEPT !.pc = "planned", !.rev = n].rev = n
          /\ [Idle(i) EXCEPT !.pc = "planned", !.rev = n].pc = "planned"
          /\ [Idle(i) EXCEPT !.pc = "status"].rev = 0
          /\ [Idle(i) EXCEPT !.pc = "status"].pc = "status"
      BY DEF Idle
    <3>3. \/ Become(e, [Idle(i) EXCEPT !.pc = "status"])
          \/ /\ Become(e, [Idle(i) EXCEPT !.pc = "planned", !.rev = n])
             /\ policy' = [policy EXCEPT !.sql = n]
      BY <1>3, <3>1 DEF execute
    <3> QED BY <1>2, <3>1, <3>2, <3>3
  <2>3. a.rev <= policy'.sql
    BY <1>2, <2>2
  <2>4. queue' = queue
    BY <1>3 DEF execute
  <2> QED BY <1>1, <2>1, <2>2, <2>3, <2>4, BecomeKnown
<1>4. ASSUME NEW m \in Process, NEW i \in Intent, maintain(m, i)
      PROVE  ProcRev' /\ QueueRev'
  <2>1. [Idle(i) EXCEPT !.pc = "status"].rev = 0 /\ [Idle(i) EXCEPT !.pc = "status"].pc # "marked"
    BY DEF Idle
  <2>2. 0 <= policy'.sql
    BY <1>2
  <2>3. Become(m, [Idle(i) EXCEPT !.pc = "status"]) /\ queue' = queue
    BY <1>4 DEF maintain
  <2> QED BY <1>1, <2>1, <2>2, <2>3, BecomeKnown
<1>5. ASSUME NEW p \in Process, requestTimeout(p)
      PROVE  ProcRev' /\ QueueRev'
  <2>1. PICK a \in Activity : a = proc[p] /\ ActRev(a)
    BY DEF TypeOK, ProcRev, ActRev
  <2>2. proc'[p] = [a EXCEPT !.reply = Error] /\ \A q \in Process \ {p} : proc'[q] = proc[q]
    BY <1>5, <2>1 DEF requestTimeout, Become, TypeOK
  <2>3. proc'[p].rev = a.rev /\ proc'[p].pc = a.pc /\ proc'[p].intent = a.intent
    BY <2>2 DEF Activity
  <2>4. UNCHANGED <<sql, policy, queue>>
    BY <1>5 DEF requestTimeout
  <2>5. Known(p)
    BY <2>1, <2>2, <2>3, <2>4 DEF Known, ActRev, HasRow
  <2> QED BY <1>1, <2>5
<1>6. ASSUME NEW p \in Process, sessionLost(p)
      PROVE  ProcRev' /\ QueueRev'
  BY <1>1, <1>6, FinishKnown DEF sessionLost
<1>7. CASE Deliver \/ DeliverReplyLost \/ DropCommand
  <2>1. queue # << >> /\ queue' = Tail(queue)
    BY <1>7 DEF Deliver, DeliverReplyLost, DropCommand, answer
  <2>2. \E c, reply : ReplyTo(c, reply)
    BY <1>7 DEF Deliver, DeliverReplyLost, DropCommand
  <2> QED BY <2>1, <2>2, ReplyRev, QueueRevKeep
<1>8. CASE restart
  <2>1. queue' = queue
    BY <1>8 DEF restart
  <2>2. QueueRev'
    BY <2>1, QueueRevKeep
  <2>3. ASSUME NEW p \in Process
        PROVE  ActRev(proc[p])'
    <3>1. proc'[p] = Idle(proc[p].intent)
      BY <1>8 DEF restart
    <3>2. proc'[p].rev = 0 /\ proc'[p].pc = "idle"
      BY <3>1 DEF Idle
    <3> QED BY <1>2, <3>2 DEF ActRev
  <2> QED BY <2>2, <2>3 DEF ProcRev
<1>9. CASE proc' = proc /\ queue' = queue
  <2>1. QueueRev'
    BY <1>9, QueueRevKeep
  <2>2. ASSUME NEW p \in Process
        PROVE  ActRev(proc[p])'
    <3>1. proc[p].intent \in Intent /\ proc[p].rev \in Nat /\ ActRev(proc[p]) /\ proc'[p] = proc[p]
      BY <1>9, ProcType DEF ProcRev
    <3>2. proc[p].rev <= policy'.sql
      BY <1>2, <3>1 DEF ActRev, Keeps
    <3> QED BY <3>1, <3>2 DEF ActRev, Keeps
  <2> QED BY <2>1, <2>2 DEF ProcRev
<1>10. CASE Environment \/ UNCHANGED vars
  BY <1>9, <1>10 DEF Environment, revisePolicy, otherBookChange, updateGovernance,
     updateGovernanceFailed, expire, VenueStep, venueAccept, venueReject, venueDrop,
     venueFill, venueCancel, venueFlatten, SetVenue, vars
<1>11. ASSUME NEW e \in Executor, ExecutorStep(e)
       PROVE  ProcRev' /\ QueueRev'
  <2>1. e \in Process
    BY DEF Process
  <2> QED BY <1>1, <1>11, <2>1, ExecutorKnown
<1>12. ASSUME NEW p \in Process, StatusStep(p)
       PROVE  ProcRev' /\ QueueRev'
  BY <1>1, <1>12, StatusKnown
<1> QED BY <1>3, <1>4, <1>5, <1>6, <1>7, <1>8, <1>10, <1>11, <1>12 DEF Next, Process

\* Rows stay, with the revisions they were inserted with.
LEMMA RowsKept ==
    ASSUME IInv, TypeOK', RevOrder, ProcRev, [Next]_vars
    PROVE  /\ Keeps
           /\ \A i \in Intent : \/ sql'[i].rev = sql[i].rev
                                \/ ~HasRow(i) /\ sql'[i].rev <= policy.sql
<1>1. TypeOK
  BY DEF IInv
<1>2. policy.sql <= policy'.sql
  BY <1>1, RevisionsGrow
<1>3. CASE RowsOnward
  BY <1>2, <1>3 DEF RowsOnward, Onward, Keeps, HasRow
<1>4. ASSUME NEW e \in Executor, Claims(proc[e].intent)
      PROVE  \A i \in Intent : (HasRow(i) => HasRow(i)') /\ sql'[i].rev = sql[i].rev
  BY <1>4 DEF Claims, HasRow
<1> QED BY <1>2, <1>3, <1>4, NextRowsOnward DEF Keeps

\* What an answer of the Worker may do to a reservation that matters here.
LEMMA AnswersRev ==
    ASSUME TypeOK, NEW c \in Command, NEW a \in answers(c)
    PROVE  /\ a.to = "HELD" => central[c.intent] = "HELD" \/ c.id = "reserve"
           /\ a.status = "POST_AUTHORIZED" => /\ c.rev = policy.central
                                              /\ central[c.intent] = "HELD"
<1>1. PICK i \in Intent : i = c.intent
  BY DEF Command
<1>2. PICK s \in {"NONE", "HELD", "POSTED"} \cup Final : s = central[i]
  BY DEF TypeOK
<1>3. c.id \in Waiting
  BY DEF Command
<1>4. CASE c.id = "reserve"
  BY <1>1, <1>2, <1>4 DEF answers, reserveAnswers, Denied, Answer
<1>5. CASE c.id = "fence"
  BY <1>1, <1>2, <1>5 DEF answers, fenceAnswers, Denied, Answer
<1>6. CASE c.id = "unsent_release"
  BY <1>1, <1>2, <1>6 DEF answers, releaseAnswers, Denied, Answer
<1>7. CASE c.id = "terminal_resolve"
  BY <1>1, <1>2, <1>7 DEF answers, resolveAnswers, Denied, Answer
<1>8. CASE c.id \in {"reserve_inspect", "fence_inspect", "unsent_inspect", "terminal_inspect"}
  <2>1. a = inspection(i)
    BY <1>1, <1>8 DEF answers
  <2>2. a.to = s /\ a.status \in {"RELEASED", "NOT_FOUND", s}
    BY <1>2, <2>1 DEF inspection, Answer
  <2> QED BY <1>1, <1>2, <2>2 DEF Final
<1> QED BY <1>3, <1>4, <1>5, <1>6, <1>7, <1>8 DEF Waiting

\* A new hold is of an intent with a row, and a new authorization was asked
\* for under the revision that is in force at the Worker and in the account.
LEMMA WorkerRev ==
    ASSUME IInv, RevInv, [Next]_vars, NEW i \in Intent
    PROVE  /\ central'[i] = "HELD" => HasRow(i)
           /\ i \in granted' \ granted => policy.sql = policy.central /\ ~sql[i].begin
<1>1. TypeOK
  BY DEF IInv
<1>2. CASE central' = central /\ granted' = granted
  BY <1>2 DEF RevInv, RowRev
<1>3. CASE Deliver \/ DeliverReplyLost
  <2>1. queue # << >> /\ queue \in Seq(Command)
    BY <1>1, <1>3 DEF Deliver, DeliverReplyLost, TypeOK
  <2>2. Head(queue) = queue[1] /\ 1 \in 1..Len(queue)
    BY <2>1
  <2>3. PICK c \in Command : c = Head(queue)
    BY <2>1, HeadFacts
  <2>4. c.rev <= policy.sql /\ (c.id = "reserve" => HasRow(c.intent))
    BY <2>2, <2>3 DEF RevInv, QueueRev, CmdRev
  <2>5. PICK a \in answers(c) : answer(c, a)
    BY <1>3, <2>3 DEF Deliver, DeliverReplyLost
  <2>6. /\ a.to = "HELD" => central[c.intent] = "HELD" \/ c.id = "reserve"
        /\ a.status = "POST_AUTHORIZED" => c.rev = policy.central /\ central[c.intent] = "HELD"
    BY <1>1, AnswersRev
  <2>7. c.intent \in Intent /\ c.rev \in Nat /\ policy.sql \in Nat /\ policy.central \in Nat
    BY <1>1 DEF Command, TypeOK
  <2>8. central'[i] = "HELD" => HasRow(i)
    <3>1. CASE i # c.intent
      BY <1>1, <2>5, <3>1 DEF answer, RevInv, RowRev, TypeOK
    <3>2. CASE i = c.intent
      BY <1>1, <2>4, <2>5, <2>6, <3>2 DEF answer, RevInv, RowRev, TypeOK
    <3> QED BY <3>1, <3>2
  <2>9. ASSUME i \in granted' \ granted
        PROVE  policy.sql = policy.central /\ ~sql[i].begin
    <3>1. i = c.intent /\ a.status = "POST_AUTHORIZED"
      BY <2>5, <2>9 DEF answer
    <3>2. policy.sql = policy.central
      BY <2>4, <2>6, <2>7, <3>1 DEF RevInv, RevOrder
    <3>3. sql[i].begin => i \in granted
      BY DEF IInv, IntentInv, CentralInv
    <3> QED BY <2>9, <3>2, <3>3
  <2> QED BY <2>8, <2>9
<1>4. CASE UNCHANGED vars
  BY <1>2, <1>4 DEF vars, worker
<1> QED BY <1>2, <1>3, <1>4, OnlyDeliveryChangesWorker

\* Only a revision of the policy revokes, and what it revokes is not authorized.
LEMMA RevokedBy ==
    ASSUME IInv, [Next]_vars
    PROVE  \/ revoked' = revoked
           \/ /\ policy' = [policy EXCEPT !.central = policy.central + 1]
              /\ revoked' = revoked \cup {i \in Intent : central[i] = "HELD"}
              /\ UNCHANGED <<sql, central, granted>>
<1>1. ASSUME NEW e \in Executor, ExecutorStep(e)
      PROVE  revoked' = revoked
  BY <1>1 DEF ExecutorStep, prepare, markReserveAttempt, requestReserve, reserveReplied,
     reserveInspected, rejectDeniedReserve, rejectPrepostDenial, reserve, requestFence,
     fenceReplied, fenceInspected, beginPost, postOnce, orderAccepted, orderRefused,
     responseLost, history
<1>2. ASSUME NEW p \in Process, StatusStep(p)
      PROVE  revoked' = revoked
  BY <1>2 DEF StatusStep, statusIntent, proveUnsent, unsentInspected, unsentReleased,
     readOrder, recordOrderReadback, releaseTerminal, terminalInspected, terminalResolved,
     acknowledgeCentralRelease, history
<1>3. ASSUME NEW p \in Process, NEW i \in Intent, execute(p, i) \/ maintain(p, i)
      PROVE  revoked' = revoked
  BY <1>3 DEF execute, maintain, history
<1>4. ASSUME NEW p \in Process, requestTimeout(p) \/ sessionLost(p)
      PROVE  revoked' = revoked
  BY <1>4 DEF requestTimeout, sessionLost, history
<1>5. CASE Deliver \/ DeliverReplyLost \/ DropCommand \/ restart \/ UNCHANGED vars
  BY <1>5 DEF Deliver, DeliverReplyLost, DropCommand, restart, answer, vars, history
<1>6. CASE Environment /\ ~revisePolicy
  BY <1>6 DEF Environment, otherBookChange, updateGovernance,
     updateGovernanceFailed, expire, VenueStep, venueAccept, venueReject, venueDrop,
     venueFill, venueCancel, venueFlatten, SetVenue, history
<1>7. CASE revisePolicy
  BY <1>7 DEF revisePolicy, worker
<1> QED BY <1>1, <1>2, <1>3, <1>4, <1>5, <1>6, <1>7 DEF Next, Process

\* Every step preserves RevInv.
LEMMA RevNext ==
    ASSUME IInv, RevInv, [Next]_vars
    PROVE  RevInv'
<1>1. IInv' /\ TypeOK /\ TypeOK'
  BY NextInv DEF IInv
<1>2. RevOrder /\ RowRev /\ ProcRev /\ QueueRev /\ RevokedRev
  BY DEF RevInv
<1>3. RevOrder' /\ policy.sql <= policy'.sql /\ policy.central <= policy'.central
  BY <1>1, <1>2, RevisionsGrow
<1>4. /\ Keeps
      /\ \A i \in Intent : \/ sql'[i].rev = sql[i].rev
                           \/ ~HasRow(i) /\ sql'[i].rev <= policy.sql
  BY <1>1, <1>2, RowsKept
<1>5. ProcRev' /\ QueueRev'
  BY <1>1, <1>2, <1>4, NextKnown
<1>6. /\ policy.sql \in Nat /\ policy'.sql \in Nat /\ policy.central \in Nat /\ policy'.central \in Nat
      /\ \A i \in Intent : sql[i].rev \in Nat /\ sql'[i].rev \in Nat
  BY <1>1 DEF TypeOK, Row
<1>7. RowRev'
  <2> SUFFICES ASSUME NEW i \in Intent
               PROVE  sql'[i].rev <= policy'.sql /\ (central'[i] = "HELD" => HasRow(i)')
    BY DEF RowRev
  <2>1. sql'[i].rev <= policy'.sql
    BY <1>2, <1>3, <1>4, <1>6 DEF RowRev
  <2>2. central'[i] = "HELD" => HasRow(i)'
    BY <1>4, WorkerRev DEF Keeps
  <2> QED BY <2>1, <2>2
<1>8. RevokedRev'
  <2> SUFFICES ASSUME NEW i \in revoked'
               PROVE  /\ HasRow(i)' /\ sql'[i].rev < policy'.central
                      /\ i \in granted' => sql'[i].rev < policy'.sql /\ ~sql'[i].begin
    BY DEF RevokedRev
  <2>1. i \in Intent
    BY <1>1 DEF TypeOK
  <2>2. CASE i \in revoked
    <3>1. /\ HasRow(i) /\ sql[i].rev < policy.central
          /\ i \in granted => sql[i].rev < policy.sql /\ ~sql[i].begin
      BY <1>2, <2>2 DEF RevokedRev
    <3>2. HasRow(i)' /\ sql'[i].rev = sql[i].rev
      BY <1>4, <2>1, <3>1 DEF Keeps
    <3>3. sql'[i].rev < policy'.central
      BY <1>3, <1>6, <2>1, <3>1, <3>2
    <3>4. ASSUME i \in granted'
          PROVE  sql[i].rev < policy.sql /\ ~sql[i].begin
      BY <2>1, <3>1, <3>4, WorkerRev
    <3>5. ASSUME i \in granted'
          PROVE  sql'[i].rev < policy'.sql /\ ~sql'[i].begin
      <4>1. sql[i].rev < policy.sql /\ ~sql[i].begin
        BY <3>4, <3>5
      <4>2. sql'[i].rev < policy'.sql
        BY <1>3, <1>6, <2>1, <3>2, <4>1
      <4>3. CASE RowsOnward
        BY <2>1, <4>1, <4>2, <4>3 DEF RowsOnward, Onward
      <4>4. ASSUME NEW e \in Executor, Claims(proc[e].intent)
            PROVE  ~sql'[i].begin
        <5>1. sql[proc[e].intent].rev = policy.sql
              /\ \A j \in Intent \ {proc[e].intent} : sql'[j] = sql[j]
          BY <4>4 DEF Claims
        <5>2. i # proc[e].intent
          BY <1>6, <2>1, <4>1, <5>1
        <5> QED BY <2>1, <4>1, <5>1, <5>2
      <4> QED BY <1>2, <4>2, <4>3, <4>4, NextRowsOnward
    <3> QED BY <3>2, <3>3, <3>5
  <2>3. CASE i \notin revoked
    <3>1. /\ policy' = [policy EXCEPT !.central = policy.central + 1]
          /\ central[i] = "HELD" /\ UNCHANGED <<sql, granted>>
      BY <2>3, RevokedBy
    <3>2. HasRow(i) /\ sql[i].rev <= policy.sql
      BY <1>2, <2>1, <3>1 DEF RowRev
    <3>3. policy'.central = policy.central + 1
      BY <1>1, <3>1 DEF TypeOK
    <3>4. i \notin granted
      BY <2>1, <3>1 DEF IInv, IntentInv, CentralInv, Final
    <3>5. sql'[i].rev < policy'.central
      BY <1>2, <1>6, <2>1, <3>1, <3>2, <3>3 DEF RevOrder
    <3> QED BY <3>1, <3>2, <3>4, <3>5 DEF HasRow
  <2> QED BY <2>2, <2>3
<1> QED BY <1>3, <1>5, <1>7, <1>8 DEF RevInv

\* RevInv holds throughout.
LEMMA RevInvariance == Spec => []RevInv
<1>1. Init => RevInv
  <2> SUFFICES ASSUME Init PROVE RevInv
    OBVIOUS
  <2>1. RevOrder /\ RowRev /\ QueueRev /\ RevokedRev
    BY DEF Init, RevOrder, RowRev, QueueRev, RevokedRev, NoRow, HasRow
  <2>2. ProcRev
    <3> SUFFICES ASSUME NEW p \in Process PROVE ActRev(proc[p])
      BY DEF ProcRev
    <3>1. PICK i \in Intent : proc[p] = Idle(i)
      BY DEF Init
    <3> QED BY <3>1 DEF Init, ActRev, Idle
  <2> QED BY <2>1, <2>2 DEF RevInv
<1>2. IInv /\ RevInv /\ [Next]_vars => RevInv'
  BY RevNext
<1> QED BY <1>1, <1>2, Invariance, PTL DEF Spec

(***************************************************************************)
(* What a revision of the policy finds HELD is never sent, by any executor *)
(* and however late it learns of the revision: a retry may get the intent  *)
(* authorized again, but begin_post finds its row under an old revision.   *)
(***************************************************************************)
THEOREM RevokedIsNeverSent == Spec => []RevokedNeverSent
<1>1. IInv /\ RevInv => RevokedNeverSent
  <2> SUFFICES ASSUME IInv, RevInv, NEW i \in revoked PROVE posts[i] = 0
    BY DEF RevokedNeverSent
  <2>1. i \in Intent /\ posts[i] \in Nat
    BY DEF IInv, TypeOK
  <2>2. /\ sql[i].begin => i \in granted
        /\ posts[i] <= 1 /\ (posts[i] = 1 => sql[i].begin)
    BY <2>1 DEF IInv, IntentInv, CentralInv, VenueInv
  <2>3. i \in granted => ~sql[i].begin
    BY DEF RevInv, RevokedRev
  <2> QED BY <2>1, <2>2, <2>3
<1> QED BY <1>1, Invariance, RevInvariance, PTL

\* At most one intent has an outcome that is not known.
UnknownUnique == \A i, j \in unknownExposure : i = j

(***************************************************************************)
(* An account carries at most one order of unknown outcome: begin_post     *)
(* claims nothing while one is open, and no other step, a restart included *)
(* makes a row POSTING or UNKNOWN that was not.                            *)
(***************************************************************************)
THEOREM AtMostOneUnknown == Spec => []OneUnknown
<1>1. Init => UnknownUnique
  BY DEF Init, UnknownUnique, unknownExposure, NoRow
<1>2. ASSUME IInv, RevInv, UnknownUnique, [Next]_vars
      PROVE  UnknownUnique'
  <2>1. CASE RowsOnward
    <3>1. unknownExposure' \subseteq unknownExposure
      BY <2>1 DEF RowsOnward, Onward, Risky, unknownExposure
    <3> QED BY <1>2, <3>1 DEF UnknownUnique
  <2>2. ASSUME NEW e \in Executor, Claims(proc[e].intent)
        PROVE  UnknownUnique'
    <3>1. unknownExposure' \subseteq {proc[e].intent}
      BY <2>2 DEF Claims, unknownExposure
    <3> QED BY <3>1 DEF UnknownUnique
  <2> QED BY <1>2, <2>1, <2>2, NextRowsOnward DEF RevInv
<1>3. UnknownUnique => OneUnknown
  <2> SUFFICES ASSUME UnknownUnique PROVE Cardinality(unknownExposure) <= 1
    BY DEF OneUnknown
  <2>1. CASE unknownExposure = {}
    BY <2>1, FS_EmptySet
  <2>2. ASSUME NEW i \in unknownExposure
        PROVE  Cardinality(unknownExposure) <= 1
    <3>1. unknownExposure = {i}
      BY <2>2 DEF UnknownUnique
    <3>2. Cardinality({i}) = 1
      BY FS_Singleton, Zenon
    <3> QED BY <3>1, <3>2
  <2> QED BY <2>1, <2>2
<1> QED BY <1>1, <1>2, <1>3, Invariance, RevInvariance, PTL DEF Spec
===============================================================================
