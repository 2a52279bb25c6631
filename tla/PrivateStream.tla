----------------------------- MODULE PrivateStream -----------------------------
(***************************************************************************)
(* The authenticated account stream: two sockets (private and business)    *)
(* of one connection generation, the journal of account events, and the    *)
(* readers that combine a REST baseline with the events received since a   *)
(* cursor (okx-runtime/src/private, okx-ws/src/private_protocol.rs,        *)
(* okx-observation/src/account.rs).                                        *)
(*                                                                         *)
(* Each private channel carries one object: the account's balance, one     *)
(* position, one order.  Its value is the clock of its last change and     *)
(* whether it is open (a non-zero position, a non-terminal order).         *)
(***************************************************************************)
EXTENDS Naturals, Sequences, FiniteSets, SequencesExt

CONSTANTS
    Capacity,       \* PRIVATE_EVENT_JOURNAL_CAPACITY
    Seed,           \* the last generation committed in SQLite
    MaxGen,         \* bound: connection generations
    MaxChanges,     \* bound: changes of the venue's account objects
    MaxAlgo,        \* bound: changes of the venue's algo orders
    Faults,         \* what may disturb this instance: a disturbing message, "anonymous", "stray",
                    \* "silent", "connect" or "shutdown"
    MaxFaults,      \* bound: disturbances by the venue or the network
    MaxReads,       \* bound: reads started
    Readers         \* the readers of this instance: converge, oco, ledger

CapacityAssumption == Capacity \in Nat \ {0}
SeedAssumption == Seed \in Nat /\ MaxGen \in Nat

VARIABLES
    phase,          \* where the coordinator's loop is
    link,           \* connection_state
    generation,     \* the generation the state belongs to
    counter,        \* the coordinator's own generation counter
    login,          \* socket -> [in : logged in, id : connection id present]
    acks,           \* acknowledged_subscriptions, orders-algo included
    seen,           \* channels whose data this generation has seen
    sent,           \* sockets whose subscriptions were requested
    sequence,       \* event_sequence
    journal,        \* event_journal
    algo_sequence,  \* algo_event_sequence
    signal,         \* the financial source watch holds an unseen value
    venue,          \* channel -> [ts, open]: the venue's objects
    clock,          \* the venue's clock
    algo,           \* number of algo changes so far
    asked,          \* requests the venue has not answered
    subs,           \* subscriptions the venue serves on this connection
    wire,           \* socket -> messages in flight
    silent,         \* sockets whose peer has gone quiet
    delivered,      \* history: channel -> latest change the stream delivered
    reader,         \* the reader of a converged snapshot
    oco,            \* the reader of an unchanged OCO window
    captured,       \* channel -> change the financial readback has seen
    faults, reads

Sockets == {"private", "business"}
Baseline == {"account", "positions", "orders"}
stream == <<phase, link, generation, counter, login, acks, seen, sent, sequence, journal, algo_sequence>>
outside == <<venue, clock, algo, asked, subs, wire, silent>>
vars == <<stream, signal, outside, delivered, reader, oco, captured, faults, reads>>

Out == [in |-> FALSE, id |-> FALSE]
NoSnap == [c \in Baseline |-> [ts |-> 0, open |-> FALSE]]
IdleReader == [pc |-> "idle", gen |-> 0, seq |-> 0, base |-> NoSnap, read |-> {}, result |-> "none", snap |-> NoSnap]
IdleOco == [pc |-> "idle", gen |-> 0, seq |-> 0, agen |-> 0, algo |-> 0, quiet |-> FALSE, verdict |-> FALSE]

-----------------------------------------------------------------------------
(* PrivateRuntimeState *)

new == /\ link = "Disconnected"
       /\ generation = 0
       /\ login = [s \in Sockets |-> Out]
       /\ acks = {} /\ seen = {}
       /\ sequence = 0 /\ journal = <<>> /\ algo_sequence = 0

subscriptions_complete_mutant == {"account", "positions"} \subseteq acks

subscriptions_complete == Baseline \subseteq acks

convergence_ready ==
    /\ link = "Connected"
    /\ login["private"].in /\ login["private"].id
    /\ subscriptions_complete
    /\ {"account", "positions"} \subseteq seen

algo_ready ==
    /\ convergence_ready
    /\ login["business"].in /\ login["business"].id
    /\ "orders-algo" \in acks

\* Forget the logins and acknowledgements of the sockets that are gone.
Forget == login' = [s \in Sockets |-> Out] /\ acks' = {}

set_connecting ==
    /\ link' = "Connecting" /\ Forget
    /\ UNCHANGED <<generation, seen, sequence, journal, algo_sequence>>

begin_generation_mutant(g) ==
    /\ link' = "Connected" /\ generation' = g /\ Forget
    /\ sequence' = 0 /\ journal' = <<>> /\ algo_sequence' = 0
    /\ UNCHANGED seen

begin_generation(g) ==
    /\ link' = "Connected" /\ generation' = g /\ Forget /\ seen' = {}
    /\ sequence' = 0 /\ journal' = <<>> /\ algo_sequence' = 0

set_disconnected(reconnecting) ==
    /\ link' = IF reconnecting THEN "Reconnecting" ELSE "Disconnected"
    /\ Forget
    /\ UNCHANGED <<generation, seen, sequence, journal, algo_sequence>>

observe_event_mutant(e) ==
    LET kept == Append(journal, [seq |-> sequence + 1, event |-> e]) IN
    /\ seen' = seen \cup {e.ch}
    /\ sequence' = sequence + 1
    /\ journal' = IF Len(journal) > Capacity THEN Tail(kept) ELSE kept

observe_event(e) ==
    LET kept == Append(journal, [seq |-> sequence + 1, event |-> e]) IN
    /\ seen' = seen \cup {e.ch}
    /\ sequence' = sequence + 1
    /\ journal' = IF Len(kept) > Capacity THEN Tail(kept) ELSE kept

convergence_window_error_mutant(gen, seq) ==
    CASE gen # generation -> "GenerationChanged"
      [] ~convergence_ready -> "NotReady"
      [] OTHER -> "none"

convergence_window_error(gen, seq) ==
    CASE gen # generation -> "GenerationChanged"
      [] ~convergence_ready -> "NotReady"
      [] journal # <<>> /\ seq + 1 < Head(journal).seq -> "JournalGap"
      [] OTHER -> "none"

window_events(seq) == SelectSeq(journal, LAMBDA e: e.seq > seq)

algo_convergence_unchanged(gen, seq) == gen = generation /\ algo_ready /\ seq = algo_sequence

protected_oco_window_unchanged_mutant(c) ==
    /\ algo_ready /\ c.algo = algo_sequence /\ c.seq = sequence

\* Both cursors are tested under one lock.
protected_oco_window_unchanged(c) ==
    /\ convergence_window_error(c.gen, c.seq) = "none"
    /\ window_events(c.seq) = <<>>
    /\ algo_convergence_unchanged(c.agen, c.algo)

-----------------------------------------------------------------------------
(* AccountSnapshot::converge_private_ws: the events applied to the baseline *)

apply_balance_update(current, update) == IF update.ts >= current.ts THEN update ELSE current

\* An absent row has no timestamp: any open update inserts it.
apply_position_update(current, update) ==
    IF current.open /\ update.ts < current.ts THEN current
    ELSE IF current.open \/ update.open THEN update ELSE current

apply_order_update(current, update) ==
    IF current.open /\ update.ts < current.ts THEN current
    ELSE IF current.open \/ update.open THEN update ELSE current

apply_update(ch, current, update) ==
    CASE ch = "account" -> apply_balance_update(current, update)
      [] ch = "positions" -> apply_position_update(current, update)
      [] ch = "orders" -> apply_order_update(current, update)

converge_private_ws(base, events) ==
    FoldLeft(LAMBDA snap, e: [snap EXCEPT ![e.event.ch] =
                 IF e.event.rows = {} THEN @
                 ELSE apply_update(e.event.ch, @, CHOOSE r \in e.event.rows: TRUE)],
             base, events)

-----------------------------------------------------------------------------
(* The venue *)

Row(c) == IF c = "account" \/ venue[c].open THEN {venue[c]} ELSE {}
Data(c, rows) == [kind |-> "data", ch |-> c, rows |-> rows]

Reply(s, msgs) == wire' = [wire EXCEPT ![s] = IF s \in silent THEN @ ELSE @ \o msgs]

\* Whether an answer carries the connection id.
Named == IF "anonymous" \in Faults /\ faults < MaxFaults THEN BOOLEAN ELSE {TRUE}

\* A login is granted, with or without a connection id.
VenueLogsIn(s) ==
    /\ <<s, "login">> \in asked /\ s \notin silent
    /\ \E id \in Named:
           /\ Reply(s, <<[kind |-> "login", id |-> id]>>)
           /\ faults' = IF id THEN faults ELSE faults + 1
    /\ asked' = asked \ {<<s, "login">>}
    /\ UNCHANGED <<stream, signal, venue, clock, algo, subs, silent, delivered, reader, oco, captured, reads>>

\* A subscription is confirmed, with or without a connection id; account and
\* positions start with a snapshot.
VenueSubscribes(s, c) ==
    /\ <<s, c>> \in asked /\ c # "login" /\ s \notin silent
    /\ \E id \in Named:
           /\ Reply(s, <<[kind |-> "subscribed", ch |-> c, id |-> id]>>
                       \o IF c \in {"account", "positions"} THEN <<Data(c, Row(c))>> ELSE <<>>)
           /\ faults' = IF id THEN faults ELSE faults + 1
    /\ asked' = asked \ {<<s, c>>}
    /\ subs' = subs \cup {c}
    /\ UNCHANGED <<stream, signal, venue, clock, algo, silent, delivered, reader, oco, captured, reads>>

\* A balance moves, a position or an order opens, changes or closes.
VenueChanges(c, open) ==
    /\ clock < MaxChanges
    /\ c = "account" => open
    /\ ~open => venue[c].open
    /\ clock' = clock + 1
    /\ venue' = [venue EXCEPT ![c] = [ts |-> clock + 1, open |-> open]]
    /\ IF c \in subs THEN Reply("private", <<Data(c, {venue'[c]})>>) ELSE UNCHANGED wire
    /\ UNCHANGED <<stream, signal, algo, asked, subs, silent, delivered, reader, oco, captured, faults, reads>>

\* An algo order changes; the business socket reports it.
VenueChangesAlgo ==
    /\ algo < MaxAlgo
    /\ algo' = algo + 1
    /\ IF "orders-algo" \in subs THEN Reply("business", <<Data("orders-algo", {})>>) ELSE UNCHANGED wire
    /\ UNCHANGED <<stream, signal, venue, clock, asked, subs, silent, delivered, reader, oco, captured, faults, reads>>

\* The messages that are no answer: an error, a removed subscription, a
\* denied login, a notice (the service-upgrade one apart), anything else.
Disturbances == {"error", "unsubscribed", "denied", "upgrade", "notice", "other"}

VenueDisturbs(s, kind) ==
    /\ kind \in Faults /\ faults < MaxFaults /\ phase = "running" /\ s \notin silent
    /\ Reply(s, <<[kind |-> kind]>>)
    /\ faults' = faults + 1
    /\ UNCHANGED <<stream, signal, venue, clock, algo, asked, subs, silent, delivered, reader, oco, captured, reads>>

\* A confirmation or a push that nothing asked for.
VenueStrays(s, kind) ==
    LET c == IF s = "private" THEN "account" ELSE "orders-algo" IN
    /\ "stray" \in Faults /\ faults < MaxFaults /\ phase = "running" /\ s \notin silent /\ c \notin subs
    /\ Reply(s, <<IF kind = "data" THEN Data(c, IF s = "private" THEN Row(c) ELSE {})
                  ELSE [kind |-> "subscribed", ch |-> c, id |-> TRUE]>>)
    /\ faults' = faults + 1
    /\ UNCHANGED <<stream, signal, venue, clock, algo, asked, subs, silent, delivered, reader, oco, captured, reads>>

\* The peer stops answering while the socket stays open.
GoesSilent(s) ==
    /\ "silent" \in Faults /\ faults < MaxFaults /\ phase = "running" /\ s \notin silent
    /\ silent' = silent \cup {s}
    /\ faults' = faults + 1
    /\ UNCHANGED <<stream, signal, venue, clock, algo, asked, subs, wire, delivered, reader, oco, captured, reads>>

-----------------------------------------------------------------------------
(* PrivateWsCoordinator::run *)

NoSockets == asked' = {} /\ subs' = {} /\ wire' = [s \in Sockets |-> <<>>] /\ silent' = {}
Elsewhere == UNCHANGED <<signal, venue, clock, algo, delivered, reader, oco, captured, reads>>

StartConnecting ==
    /\ phase = "idle"
    /\ phase' = "connecting" /\ set_connecting
    /\ UNCHANGED <<counter, sent, asked, subs, wire, silent, faults>> /\ Elsewhere

ConnectPrivate ==
    /\ phase = "connecting" /\ counter < MaxGen
    /\ phase' = "half" /\ counter' = counter + 1
    /\ begin_generation(counter + 1)
    /\ sent' = {}
    /\ UNCHANGED <<asked, subs, wire, silent, faults>> /\ Elsewhere

\* Every way a generation ends without shutdown: both sockets are dropped.
Reconnect ==
    /\ phase' = "backoff" /\ set_disconnected(TRUE)
    /\ NoSockets
    /\ UNCHANGED <<counter, sent>>

\* The private socket, or the business socket after it, does not connect.
ConnectFails ==
    /\ phase \in {"connecting", "half"} /\ "connect" \in Faults /\ faults < MaxFaults
    /\ faults' = faults + 1
    /\ Reconnect /\ Elsewhere

\* Both sockets are up: run_generation starts with a login on each.
ConnectBusiness ==
    /\ phase = "half"
    /\ phase' = "running"
    /\ asked' = {<<s, "login">>: s \in Sockets}
    /\ UNCHANGED <<link, generation, counter, login, acks, seen, sent, sequence, journal, algo_sequence,
                   subs, wire, silent, faults>> /\ Elsewhere

BackoffElapses ==
    /\ phase = "backoff"
    /\ phase' = "idle"
    /\ UNCHANGED <<link, generation, counter, login, acks, seen, sent, sequence, journal, algo_sequence,
                   asked, subs, wire, silent, faults>> /\ Elsewhere

Shutdown ==
    /\ phase \in {"idle", "running", "backoff"} /\ "shutdown" \in Faults /\ faults < MaxFaults
    /\ phase' = "stopped" /\ set_disconnected(FALSE)
    /\ NoSockets
    /\ faults' = faults + 1
    /\ UNCHANGED <<counter, sent>> /\ Elsewhere

HeartbeatTimeout_mutant(s) ==
    /\ phase = "running" /\ s = "private" /\ s \in silent /\ wire[s] = <<>>
    /\ Reconnect /\ Elsewhere /\ UNCHANGED faults

\* No pong within PONG_TIMEOUT_SECONDS of the ping an idle socket sends.
HeartbeatTimeout(s) ==
    /\ phase = "running" /\ s \in silent /\ wire[s] = <<>>
    /\ Reconnect /\ Elsewhere /\ UNCHANGED faults

-----------------------------------------------------------------------------
(* PrivateWsCoordinator::run_generation, the private socket *)

Take(s) == phase = "running" /\ wire[s] # <<>>

\* The subscriptions go out once, at the first granted login.
LoggedIn(s, channels) ==
    LET m == Head(wire[s]) IN
    /\ Take(s) /\ m.kind = "login"
    /\ login' = [login EXCEPT ![s] = [in |-> TRUE, id |-> m.id \/ (s = "private" /\ @.id)]]
    /\ asked' = IF s \in sent THEN asked ELSE asked \cup {<<s, c>>: c \in channels}
    /\ sent' = sent \cup {s}
    /\ wire' = [wire EXCEPT ![s] = Tail(@)]
    /\ UNCHANGED <<phase, link, generation, counter, acks, seen, sequence, journal, algo_sequence,
                   subs, silent, faults>> /\ Elsewhere

PrivateLogin == LoggedIn("private", Baseline)

PrivateSubscribed ==
    LET m == Head(wire["private"]) IN
    /\ Take("private") /\ m.kind = "subscribed"
    /\ IF ~login["private"].in
       THEN Reconnect
       ELSE /\ acks' = acks \cup {m.ch}
            /\ login' = [login EXCEPT !["private"].id = @ \/ m.id]
            /\ wire' = [wire EXCEPT !["private"] = Tail(@)]
            /\ UNCHANGED <<phase, link, generation, counter, seen, sent, sequence, journal,
                           algo_sequence, asked, subs, silent>>
    /\ UNCHANGED faults /\ Elsewhere

signals_financial_source_capture_mutant(e) == e.rows # {} /\ e.ch = "orders"

signals_financial_source_capture(e) == e.rows # {}

\* Data is journalled; a non-empty delta wakes the financial readback.
PrivateData ==
    LET m == Head(wire["private"]) IN
    /\ Take("private") /\ m.kind = "data"
    /\ IF ~login["private"].in
       THEN Reconnect /\ UNCHANGED <<signal, delivered, oco>>
       ELSE /\ observe_event(m)
            /\ signal' = (signal \/ signals_financial_source_capture(m))
            /\ delivered' = [delivered EXCEPT ![m.ch] = IF m.rows = {} THEN @ ELSE CHOOSE r \in m.rows: TRUE]
            /\ oco' = [oco EXCEPT !.quiet = FALSE]
            /\ wire' = [wire EXCEPT !["private"] = Tail(@)]
            /\ UNCHANGED <<phase, link, generation, counter, login, acks, sent, algo_sequence, asked, subs, silent>>
    /\ UNCHANGED <<venue, clock, algo, reader, captured, faults, reads>>

\* A plain notice and an unknown message are passed over; the rest ends it.
PrivateDisturbed ==
    LET m == Head(wire["private"]) IN
    /\ Take("private") /\ m.kind \in Disturbances
    /\ IF m.kind \in {"notice", "other"}
       THEN /\ wire' = [wire EXCEPT !["private"] = Tail(@)]
            /\ UNCHANGED <<stream, asked, subs, silent>>
       ELSE Reconnect
    /\ UNCHANGED faults /\ Elsewhere

-----------------------------------------------------------------------------
(* PrivateWsCoordinator::run_generation, the business socket *)

BusinessLogin == LoggedIn("business", {"orders-algo"})

\* Only the acknowledgement that carries the login's connection id counts.
acknowledge_algo_subscription(m) == m.id /\ login["business"].in /\ login["business"].id

BusinessSubscribed ==
    /\ Take("business") /\ Head(wire["business"]).kind = "subscribed"
    /\ IF acknowledge_algo_subscription(Head(wire["business"]))
       THEN /\ acks' = acks \cup {"orders-algo"}
            /\ wire' = [wire EXCEPT !["business"] = Tail(@)]
            /\ UNCHANGED <<phase, link, generation, counter, login, seen, sent, sequence, journal,
                           algo_sequence, asked, subs, silent>>
       ELSE Reconnect
    /\ UNCHANGED faults /\ Elsewhere

BusinessData ==
    /\ Take("business") /\ Head(wire["business"]).kind = "data"
    /\ IF "orders-algo" \in acks
       THEN /\ algo_sequence' = algo_sequence + 1
            /\ oco' = [oco EXCEPT !.quiet = @ /\ oco.pc # "check"]
            /\ wire' = [wire EXCEPT !["business"] = Tail(@)]
            /\ UNCHANGED <<phase, link, generation, counter, login, acks, seen, sent, sequence, journal,
                           asked, subs, silent>>
       ELSE Reconnect /\ UNCHANGED oco
    /\ UNCHANGED <<signal, venue, clock, algo, delivered, reader, captured, faults, reads>>

BusinessDisturbed ==
    /\ Take("business") /\ Head(wire["business"]).kind \in Disturbances
    /\ Reconnect /\ Elsewhere /\ UNCHANGED faults

-----------------------------------------------------------------------------
(* The readers of PrivateWsHandle *)

\* convergence_cursor, before the REST baseline is requested.
TakeCursor ==
    /\ "converge" \in Readers /\ reader.pc = "idle" /\ reads < MaxReads /\ convergence_ready
    /\ reader' = [IdleReader EXCEPT !.pc = "rest", !.gen = generation, !.seq = sequence]
    /\ reads' = reads + 1
    /\ UNCHANGED <<stream, signal, outside, delivered, oco, captured, faults>>

\* One endpoint of the baseline; a closed row is simply not in the answer.
ReadRest(c) ==
    /\ reader.pc = "rest" /\ c \notin reader.read
    /\ reader' = [reader EXCEPT !.base[c] = venue[c], !.read = @ \cup {c}]
    /\ UNCHANGED <<stream, signal, outside, delivered, oco, captured, faults, reads>>

\* convergence_window, and the events applied to the baseline.
TakeWindow ==
    LET error == convergence_window_error(reader.gen, reader.seq) IN
    /\ reader.pc = "rest" /\ reader.read = Baseline
    /\ reader' = [reader EXCEPT !.pc = "idle", !.result = error,
                      !.snap = IF error = "none"
                               THEN converge_private_ws(reader.base, window_events(reader.seq))
                               ELSE NoSnap]
    /\ UNCHANGED <<stream, signal, outside, delivered, oco, captured, faults, reads>>

\* The two cursors of an OCO mutation, taken one lock after the other.
OcoPrivateCursor ==
    /\ "oco" \in Readers /\ oco.pc = "idle" /\ reads < MaxReads /\ convergence_ready
    /\ oco' = [IdleOco EXCEPT !.pc = "algo", !.gen = generation, !.seq = sequence, !.quiet = TRUE]
    /\ reads' = reads + 1
    /\ UNCHANGED <<stream, signal, outside, delivered, reader, captured, faults>>

OcoAlgoCursor ==
    /\ oco.pc = "algo"
    /\ oco' = IF algo_ready THEN [oco EXCEPT !.pc = "check", !.agen = generation, !.algo = algo_sequence]
              ELSE IdleOco
    /\ UNCHANGED <<stream, signal, outside, delivered, reader, captured, faults, reads>>

OcoCheck ==
    /\ oco.pc = "check"
    /\ oco' = [oco EXCEPT !.pc = "idle", !.verdict = protected_oco_window_unchanged(oco)]
    /\ UNCHANGED <<stream, signal, outside, delivered, reader, captured, faults, reads>>

\* The ledger owner wakes on the coalescing watch and reads the account back.
FinancialReadback ==
    /\ "ledger" \in Readers /\ signal /\ signal' = FALSE
    /\ captured' = [c \in Baseline |-> venue[c].ts]
    /\ UNCHANGED <<stream, outside, delivered, reader, oco, faults, reads>>

-----------------------------------------------------------------------------
Init ==
    /\ new /\ phase = "idle" /\ counter = Seed /\ sent = {} /\ signal = FALSE
    /\ venue = [NoSnap EXCEPT !["account"].open = TRUE] /\ clock = 0 /\ algo = 0
    /\ asked = {} /\ subs = {} /\ wire = [s \in Sockets |-> <<>>] /\ silent = {}
    /\ delivered = NoSnap /\ reader = IdleReader /\ oco = IdleOco
    /\ captured = [c \in Baseline |-> 0]
    /\ faults = 0 /\ reads = 0

Coordinator ==
    \/ StartConnecting \/ ConnectPrivate \/ ConnectBusiness \/ BackoffElapses
    \/ \E s \in Sockets: HeartbeatTimeout(s)
    \/ PrivateLogin \/ PrivateSubscribed \/ PrivateData \/ PrivateDisturbed
    \/ BusinessLogin \/ BusinessSubscribed \/ BusinessData \/ BusinessDisturbed

VenueAnswers == \E s \in Sockets: VenueLogsIn(s) \/ \E c \in Baseline \cup {"orders-algo"}: VenueSubscribes(s, c)

Environment ==
    \/ \E c \in Baseline, open \in BOOLEAN: VenueChanges(c, open)
    \/ VenueChangesAlgo
    \/ \E s \in Sockets: GoesSilent(s) \/ \E kind \in Disturbances: VenueDisturbs(s, kind)
    \/ \E s \in Sockets, kind \in {"data", "subscribed"}: VenueStrays(s, kind)
    \/ ConnectFails \/ Shutdown

Reads ==
    \/ TakeCursor \/ (\E c \in Baseline: ReadRest(c)) \/ TakeWindow
    \/ OcoPrivateCursor \/ OcoAlgoCursor \/ OcoCheck
    \/ FinancialReadback

Next == Coordinator \/ VenueAnswers \/ Environment \/ Reads

Spec == Init /\ [][Next]_vars

\* The coordinator's task runs, the venue answers on a live socket, and the
\* ledger owner consumes its wake-ups.
FairSpec == Spec /\ WF_vars(Coordinator) /\ WF_vars(VenueAnswers) /\ WF_vars(FinancialReadback)

-----------------------------------------------------------------------------
TypeOK ==
    /\ phase \in {"idle", "connecting", "half", "running", "backoff", "stopped"}
    /\ link \in {"Disconnected", "Connecting", "Connected", "Reconnecting"}
    /\ generation \in 0..MaxGen /\ counter \in Seed..MaxGen
    /\ acks \subseteq Baseline \cup {"orders-algo"} /\ seen \subseteq Baseline
    /\ Len(journal) <= Capacity
    /\ \A i \in DOMAIN journal: journal[i].seq = sequence - Len(journal) + i
    /\ link = "Connected" <=> phase \in {"half", "running"}

\* A snapshot that convergence hands out holds everything the stream had
\* delivered when the window was taken, whatever the order of the REST
\* answers and the events was (state.rs convergence_window, account.rs).
WindowHoldsTheDelivered ==
    [][ reader.pc = "rest" /\ reader'.pc = "idle" /\ reader'.result = "none" =>
          \A c \in Baseline:
              IF reader'.snap[c].open THEN reader'.snap[c].ts >= delivered[c].ts
              ELSE ~delivered[c].open \/ reader.base[c].ts >= delivered[c].ts ]_vars

\* Once nothing is in flight, a converged snapshot is the venue's account:
\* every subscription the snapshot relies on is served by this connection,
\* and a row that closed during the read is not resurrected.
QuietSnapshotIsTheAccount ==
    [][ reader.pc = "rest" /\ reader'.pc = "idle" /\ reader'.result = "none"
        /\ wire["private"] = <<>> /\ "private" \notin silent =>
          \A c \in Baseline: /\ reader'.snap[c].open = venue[c].open
                             /\ venue[c].open => reader'.snap[c].ts = venue[c].ts ]_vars

\* A stream is ready only with data of its own generation: both initial
\* pushes have been received over the connection that is ready.
ReadyIsThisGeneration ==
    convergence_ready => Baseline \subseteq subs /\ sequence >= 2

\* An OCO check that reports no change means neither socket delivered an
\* event, and no connection was replaced, since the cursors were taken.
UnchangedMeansQuiet == [][oco.pc = "check" /\ oco'.verdict => oco.quiet /\ generation = oco.gen]_vars

\* A stream that is not shut down is ready again once the venue and the
\* network stop disturbing it.
StreamRecovers == <>[](phase = "stopped" \/ algo_ready)

\* Every change the stream delivers is read back by the ledger owner, even
\* though its wake-ups coalesce.
DeltaIsReadBack(c) == \A t \in 1..MaxChanges: delivered[c].ts = t ~> captured[c] >= t
EveryDeltaIsReadBack == \A c \in Baseline: DeltaIsReadBack(c)
=============================================================================
