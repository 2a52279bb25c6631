------------------------------ MODULE MarketStream ------------------------------
(***************************************************************************)
(* The public WebSocket coordinator (okx-runtime/src/public): demands of   *)
(* the agent become subscriptions of one connection, whose messages build  *)
(* the markets that admission reads (okx-observation stream and book).     *)
(* Instruments share one underlying.  A venue book is its number of        *)
(* changes, and change n is message n, so a book that the messages built   *)
(* right holds exactly the changes 1..seq.  The channels "tick" (ticker,   *)
(* mark price, open interest, funding) and "index" stand for the rest.     *)
(* The age limits of a read are left out: Fresh is "fresh but for its age".*)
(***************************************************************************)
EXTENDS Integers, Sequences, FiniteSets, SequencesExt

CONSTANTS
    Instrument,
    Channels,      \* of "tick", "index", "book"
    MaxActive,     \* MAX_ACTIVE_MARKETS
    SubscriptionErrors,
    MaxDemands, MaxChanges, MaxRules, MaxFaults, MaxWire, MaxGen   \* bounds

StreamAssumption ==
    /\ "book" \in Channels /\ MaxActive \in Nat \ {0}
    /\ SubscriptionErrors \in BOOLEAN
    /\ {MaxDemands, MaxChanges, MaxRules, MaxFaults, MaxWire, MaxGen} \subseteq Nat

VARIABLES
    reference,  \* the registry: the version of each instrument's rules, 0 when it is not listed
    markets,    \* the market states, a function on the instruments that have one
    conn,       \* what the shared state says of the connection
    coord,      \* the coordinator task
    queue,      \* its commands
    callers,    \* calls of demand_instrument between their command and their insert
    wire,       \* the messages in both directions
    venue,
    demanded,
    faults,
    stray       \* history: markets a caller inserted while its demand was not active

vars == <<reference, markets, conn, coord, queue, callers, wire, venue, demanded, faults, stray>>

Observed == Channels \ {"book"}
Baseline == <<"instruments", "all">>

required_subscriptions(i) ==
    {<<c, i>> : c \in Channels \ {"index"}} \cup {<<c, "underlying">> : c \in Channels \cap {"index"}}
Sub == {Baseline} \cup UNION {required_subscriptions(i) : i \in Instrument}

desired_subscriptions(ref, demands) ==
    {Baseline} \cup UNION {required_subscriptions(i) : i \in {j \in demands : ref[j] # 0}}

NoBook == [status |-> "waiting", seq |-> 0, content |-> {}]
Invalid == [status |-> "invalid", seq |-> 0, content |-> {}]
NewMarket(gen) == [gen |-> gen, ref |-> reference, seen |-> [c \in Observed |-> 0], book |-> NoBook]

TypeOK ==
    /\ DOMAIN markets \subseteq Instrument
    /\ \A i \in DOMAIN markets :
          /\ markets[i].gen <= conn.gen
          /\ (markets[i].book.status = "contiguous") = (markets[i].book.content # {})
          /\ \A c \in Observed : markets[i].seen[c] \in {0, markets[i].gen}
    /\ conn.state \in {"disconnected", "connecting", "connected", "reconnecting"}
    /\ conn.acked \subseteq Sub /\ (conn.state # "connected" => conn.acked = {})
    /\ coord.pc \in {"start", "connecting", "serving", "backoff", "stopped"}
    /\ coord.pending \cup coord.failed \subseteq Sub
    /\ IsInjective(coord.recency) /\ Len(coord.recency) <= MaxActive
    /\ venue.served \subseteq Sub /\ stray \subseteq DOMAIN markets

Init ==
    /\ reference = [i \in Instrument |-> 1] /\ markets = <<>>
    /\ conn = [state |-> "disconnected", gen |-> 0, acked |-> {}]
    /\ coord = [pc |-> "start", gen |-> 0, recency |-> <<>>, pending |-> {}, failed |-> {}]
    /\ queue = <<>> /\ callers = {} /\ demanded = 0 /\ faults = 0 /\ stray = {}
    /\ wire = [up |-> <<>>, down |-> <<>>, silent |-> FALSE]
    /\ venue = [served |-> {}, book |-> [i \in Instrument |-> 1], rules |-> [i \in Instrument |-> 1]]

Demands == ToSet(coord.recency)
Fault == faults < MaxFaults /\ faults' = faults + 1
-----------------------------------------------------------------------------
\* PublicWsHandle::demand_instrument: the command first, then the market, under the lock.
demand_instrument(i) ==
    /\ demanded < MaxDemands /\ i \notin callers
    /\ demanded' = demanded + 1
    /\ queue' = Append(queue, i) /\ callers' = callers \cup {i}
    /\ UNCHANGED <<reference, markets, conn, coord, wire, venue, faults, stray>>

WithMarket(ms, i, gen) ==
    IF reference[i] # 0 /\ i \notin DOMAIN ms
    THEN [j \in DOMAIN ms \cup {i} |-> IF j = i THEN NewMarket(gen) ELSE ms[j]]
    ELSE ms

InsertMarket(i) ==
    /\ i \in callers /\ callers' = callers \ {i}
    /\ markets' = WithMarket(markets, i, conn.gen)
    /\ stray' = stray \cup ((DOMAIN markets' \ DOMAIN markets) \ Demands)
    /\ UNCHANGED <<reference, conn, coord, queue, wire, venue, demanded, faults>>
-----------------------------------------------------------------------------
\* The venue.

Message(kind, sub, prev, seq) ==
    [kind |-> kind, sub |-> sub, prev |-> prev, seq |-> seq, rules |-> venue.rules]
Room == Len(wire.down) < MaxWire /\ ~wire.silent
Push(messages) == [wire EXCEPT !.down = @ \o messages]
VenueStep == UNCHANGED <<reference, markets, conn, coord, queue, callers, demanded, stray>>

\* A subscription is confirmed, or refused, and a book or the instruments begin with what they are.
Confirmed(op, s) ==
    IF op = "unsubscribe" THEN <<Message("unsubscribed", s, 0, 0)>>
    ELSE <<Message("subscribed", s, 0, 0)>> \o
         CASE s[1] = "book" -> <<Message("snapshot", s, -1, venue.book[s[2]])>>
           [] s = Baseline -> <<Message("instruments", s, 0, 0)>>
           [] OTHER -> <<>>

VenueServes ==
    /\ Room /\ wire.up # <<>>
    /\ \E s \in Head(wire.up).subs :
       LET request == Head(wire.up)
           rest == IF request.subs = {s} THEN Tail(wire.up)
                   ELSE <<[request EXCEPT !.subs = @ \ {s}]>> \o Tail(wire.up)
       IN \/ /\ wire' = [Push(Confirmed(request.op, s)) EXCEPT !.up = rest]
             /\ venue' = [venue EXCEPT !.served = IF request.op = "subscribe" THEN @ \cup {s} ELSE @ \ {s}]
             /\ UNCHANGED faults
          \/ /\ SubscriptionErrors /\ Fault /\ UNCHANGED venue
             /\ wire' = [Push(<<Message("error", s, 0, 0)>>) EXCEPT !.up = rest]
    /\ VenueStep

VenueData(s) ==
    /\ Room /\ s \in venue.served /\ s[1] \in Observed
    /\ wire' = Push(<<Message("data", s, 0, 0)>>)
    /\ UNCHANGED <<venue, faults>> /\ VenueStep

\* A change of a book: its message is sent, or lost by the venue's fan-out.
VenueBook(i) ==
    /\ venue.book[i] < MaxChanges
    /\ venue' = [venue EXCEPT !.book[i] = @ + 1]
    /\ \/ /\ Room /\ <<"book", i>> \in venue.served
          /\ wire' = Push(<<Message("update", <<"book", i>>, venue.book[i], venue.book[i] + 1)>>)
          /\ UNCHANGED faults
       \/ <<"book", i>> \notin venue.served /\ UNCHANGED <<wire, faults>>
       \/ <<"book", i>> \in venue.served /\ Fault /\ UNCHANGED wire
    /\ VenueStep

\* New rules, or an instrument that goes back to its pre-open state.
VenueRules(i) ==
    /\ venue.rules[i] \in 1..(MaxRules - 1)
    /\ \E version \in {0, venue.rules[i] + 1} :
          LET rules == [venue.rules EXCEPT ![i] = version] IN
          /\ venue' = [venue EXCEPT !.rules = rules]
          /\ \/ /\ Baseline \in venue.served /\ Room
                /\ wire' = Push(<<[Message("instruments", Baseline, 0, 0) EXCEPT !.rules = rules]>>)
             \/ Baseline \notin venue.served /\ UNCHANGED wire
    /\ UNCHANGED faults /\ VenueStep

\* The venue says that it will restart, or the link goes quiet.
VenueFault ==
    /\ coord.pc = "serving" /\ ~wire.silent /\ Fault
    /\ \/ wire' = [wire EXCEPT !.silent = TRUE]
       \/ Len(wire.down) < MaxWire /\ wire' = Push(<<Message("notice", Baseline, 0, 0)>>)
    /\ UNCHANGED venue /\ VenueStep
-----------------------------------------------------------------------------
\* The connection's life.

CallersStay == UNCHANGED <<callers, demanded>>
CoordStep == CallersStay /\ UNCHANGED stray

set_connecting ==
    /\ coord.pc = "start" /\ coord' = [coord EXCEPT !.pc = "connecting"]
    /\ conn' = [conn EXCEPT !.state = "connecting", !.acked = {}]
    /\ UNCHANGED <<reference, markets, queue, wire, venue, faults>> /\ CoordStep

\* A bug: the markets of the last connection stay.
begin_generation_mutant(gen) == markets

Live == {i \in Demands : reference[i] # 0}

\* Demanded markets start from nothing; the others keep what they have.
begin_generation(gen) ==
    [i \in DOMAIN markets \cup Live |-> IF i \in Live THEN NewMarket(gen) ELSE markets[i]]

\* A bug: what was confirmed is not forgotten with the connection.
set_disconnected_mutant == [conn EXCEPT !.state = "reconnecting"]

set_disconnected == [conn EXCEPT !.state = "reconnecting", !.acked = {}]

\* What is neither wanted nor pending is removed and what is wanted, unless refused, is added.
reconcile_subscriptions(c, acked, ref) ==
    LET desired == desired_subscriptions(ref, ToSet(c.recency))
        removals == (acked \ desired) \ c.pending
        additions == ((desired \ acked) \ (c.pending \cup removals)) \ c.failed
    IN [coord |-> [c EXCEPT !.pending = @ \cup removals \cup additions],
        up |-> (IF removals = {} THEN <<>> ELSE <<[op |-> "unsubscribe", subs |-> removals]>>)
               \o (IF additions = {} THEN <<>> ELSE <<[op |-> "subscribe", subs |-> additions]>>)]

NewWire == [up |-> <<>>, down |-> <<>>, silent |-> FALSE]

Connected ==
    /\ coord.pc = "connecting" /\ coord.gen < MaxGen
    /\ LET gen == coord.gen + 1
           r == reconcile_subscriptions(
                  [coord EXCEPT !.pc = "serving", !.gen = gen, !.pending = {}, !.failed = {}], {}, reference)
       IN /\ coord' = r.coord
          /\ conn' = [state |-> "connected", gen |-> gen, acked |-> {}]
          /\ markets' = begin_generation(gen) /\ stray' = stray \ Live
          /\ wire' = [NewWire EXCEPT !.up = r.up]
    /\ UNCHANGED <<reference, queue, venue, faults>> /\ CallersStay

Lost ==
    /\ coord' = [coord EXCEPT !.pc = "backoff", !.pending = {}, !.failed = {}]
    /\ conn' = set_disconnected
    /\ wire' = NewWire /\ venue' = [venue EXCEPT !.served = {}]

\* The connection is not made, closes, or a request is refused by the rate budget.
Disconnected ==
    /\ coord.pc \in {"connecting", "serving"} /\ Fault /\ Lost
    /\ UNCHANGED <<reference, markets, queue>> /\ CoordStep

\* A bug: a quiet link is trusted.
HeartbeatTimeout_mutant == FALSE /\ UNCHANGED vars

\* Nothing arrives, a ping is sent, and no pong comes in time.
HeartbeatTimeout ==
    /\ coord.pc = "serving" /\ wire.silent /\ Lost
    /\ UNCHANGED <<reference, markets, queue, faults>> /\ CoordStep

BackoffEnds ==
    /\ coord.pc = "backoff"
    /\ coord' = [coord EXCEPT !.pc = "start"]
    /\ UNCHANGED <<reference, markets, conn, queue, wire, venue, faults>> /\ CoordStep

Shutdown ==
    /\ coord.pc # "stopped" /\ Fault
    /\ coord' = [coord EXCEPT !.pc = "stopped", !.pending = {}, !.failed = {}]
    /\ conn' = [conn EXCEPT !.state = "disconnected", !.acked = {}]
    /\ wire' = NewWire /\ venue' = [venue EXCEPT !.served = {}]
    /\ UNCHANGED <<reference, markets, queue>> /\ CoordStep
-----------------------------------------------------------------------------
\* Commands.

\* The least recently demanded market makes room.
touch_demand(recency, i) ==
    LET touched == Append(SelectSeq(recency, LAMBDA j : j # i), i) IN
    IF Len(touched) <= MaxActive THEN [recency |-> touched, evicted |-> {}]
    ELSE [recency |-> Tail(touched), evicted |-> {Head(touched)}]

\* A bug: the evicted market is kept.
remove_market_mutant(evicted) == markets

remove_market(evicted) == [i \in DOMAIN markets \ evicted |-> markets[i]]

apply_command ==
    /\ coord.pc \in {"serving", "backoff"} /\ queue # <<>>
    /\ LET touched == touch_demand(coord.recency, Head(queue))
           next == [coord EXCEPT !.recency = touched.recency]
           r == reconcile_subscriptions(next, conn.acked, reference)
       IN /\ markets' = WithMarket(remove_market(touched.evicted), Head(queue), conn.gen)
          /\ stray' = {i \in stray \ touched.evicted : i = Head(queue) => markets[i].gen # conn.gen}
          /\ IF coord.pc = "serving" THEN coord' = r.coord /\ wire' = [wire EXCEPT !.up = @ \o r.up]
             ELSE coord' = next /\ UNCHANGED wire
    /\ queue' = Tail(queue)
    /\ UNCHANGED <<reference, conn, venue, faults>> /\ CallersStay
-----------------------------------------------------------------------------
\* Messages.

Receive(kind) ==
    /\ coord.pc = "serving" /\ wire.down # <<>> /\ ~wire.silent
    /\ Head(wire.down).kind = kind
Taken == [wire EXCEPT !.down = Tail(@)]
Arrived == Head(wire.down)

Subscribed ==
    /\ Receive("subscribed") /\ wire' = Taken
    /\ coord' = [coord EXCEPT !.pending = @ \ {Arrived.sub}, !.failed = @ \ {Arrived.sub}]
    /\ conn' = [conn EXCEPT !.acked = @ \cup {Arrived.sub}]
    /\ UNCHANGED <<reference, markets, queue, venue, faults>> /\ CoordStep

Unsubscribed ==
    /\ Receive("unsubscribed")
    /\ LET acked == conn.acked \ {Arrived.sub}
           r == reconcile_subscriptions([coord EXCEPT !.pending = @ \ {Arrived.sub}], acked, reference)
       IN /\ conn' = [conn EXCEPT !.acked = acked]
          /\ coord' = r.coord
          /\ wire' = [Taken EXCEPT !.up = @ \o r.up]
    /\ UNCHANGED <<reference, markets, queue, venue, faults>> /\ CoordStep

SubscriptionRefused ==
    /\ Receive("error") /\ wire' = Taken
    /\ coord' = [coord EXCEPT !.pending = @ \ {Arrived.sub}, !.failed = @ \cup {Arrived.sub}]
    /\ UNCHANGED <<reference, markets, conn, queue, venue, faults>> /\ CoordStep

ServiceUpgrade ==
    /\ Receive("notice") /\ Lost
    /\ UNCHANGED <<reference, markets, queue, faults>> /\ CoordStep

\* A bug: the generation goes on with markets of the old rules.
apply_public_updates_mutant ==
    /\ Receive("instruments") /\ reference' = Arrived.rules
    /\ wire' = Taken
    /\ UNCHANGED <<markets, queue, faults, coord, conn, venue>> /\ CoordStep

\* Changed rules end the generation; the registry keeps them.
apply_public_updates ==
    /\ Receive("instruments") /\ reference' = Arrived.rules
    /\ IF reference' # reference THEN Lost ELSE wire' = Taken /\ UNCHANGED <<coord, conn, venue>>
    /\ UNCHANGED <<markets, queue, faults>> /\ CoordStep

\* A bug: a gap in the sequence goes unseen.
apply_update_mutant(book, message) ==
    IF book.status # "contiguous" THEN book
    ELSE [book EXCEPT !.seq = message.seq, !.content = @ \cup {message.seq}]

\* A snapshot has every level, an update those of its own change.
apply_levels(content, message) ==
    IF message.kind = "snapshot" THEN 1..message.seq ELSE content \cup {message.seq}

apply_snapshot(message) ==
    [status |-> "contiguous", seq |-> message.seq, content |-> apply_levels({}, message)]
apply_update(book, message) ==
    IF book.status # "contiguous" THEN book
    ELSE IF message.prev # book.seq THEN Invalid
    ELSE [book EXCEPT !.seq = message.seq, !.content = apply_levels(@, message)]

\* MarketStreamState::apply_book_snapshot and apply_book_update.
apply_book_message(market, message) ==
    [market EXCEPT !.book = IF message.kind = "snapshot" THEN apply_snapshot(message)
                            ELSE apply_update(@, message)]

\* A book message without its market, out of sequence or of another generation ends the connection.
apply_book ==
    /\ Receive("snapshot") \/ Receive("update")
    /\ LET i == Arrived.sub[2]
           known == i \in DOMAIN markets /\ markets[i].gen = coord.gen
           market == apply_book_message(markets[i], Arrived)
       IN IF ~known THEN Lost /\ UNCHANGED markets
          ELSE /\ markets' = [markets EXCEPT ![i] = market]
               /\ IF market.book.status = "contiguous" THEN wire' = Taken /\ UNCHANGED <<coord, conn, venue>>
                  ELSE Lost
    /\ UNCHANGED <<reference, queue, faults>> /\ CoordStep

\* An index price goes to every market of the underlying, any other value to its own market if
\* there is one.
Targets(s) == IF s[1] = "index" THEN DOMAIN markets ELSE {s[2]} \cap DOMAIN markets

\* MarketStreamState::apply_ticker and its four like: the value is of this generation.
apply_observed(market, channel) == [market EXCEPT !.seen[channel] = coord.gen]

apply_data ==
    /\ Receive("data")
    /\ LET targets == Targets(Arrived.sub) IN
       IF \E i \in targets : markets[i].gen # coord.gen
       THEN Lost /\ UNCHANGED markets
       ELSE /\ markets' = [i \in DOMAIN markets |->
                             IF i \in targets THEN apply_observed(markets[i], Arrived.sub[1])
                             ELSE markets[i]]
            /\ wire' = Taken /\ UNCHANGED <<coord, conn, venue>>
    /\ UNCHANGED <<reference, queue, faults>> /\ CoordStep

Messages ==
    \/ Subscribed \/ Unsubscribed \/ SubscriptionRefused \/ ServiceUpgrade
    \/ apply_public_updates \/ apply_book \/ apply_data

Coordinator == set_connecting \/ Connected \/ HeartbeatTimeout \/ BackoffEnds \/ apply_command \/ Messages

Next ==
    \/ \E i \in Instrument : demand_instrument(i) \/ InsertMarket(i) \/ VenueBook(i) \/ VenueRules(i)
    \/ \E s \in Sub : VenueData(s)
    \/ VenueServes \/ VenueFault \/ Coordinator \/ Disconnected \/ Shutdown

Spec == Init /\ [][Next]_vars

\* The task runs, callers finish, and the venue serves its subscriptions.
FairSpec ==
    /\ Spec
    /\ WF_vars(set_connecting) /\ WF_vars(Connected) /\ WF_vars(HeartbeatTimeout) /\ WF_vars(BackoffEnds)
    /\ SF_vars(apply_command) /\ WF_vars(Messages) /\ SF_vars(VenueServes)
    /\ \A i \in Instrument : WF_vars(InsertMarket(i))
    /\ \A s \in Sub : SF_vars(VenueData(s))
-----------------------------------------------------------------------------
\* readiness: the connection, the subscriptions, the rules, every value and the book.
subscriptions_complete(i) ==
    reference[i] # 0 /\ {Baseline} \cup required_subscriptions(i) \subseteq conn.acked

readiness(i) ==
    /\ conn.state = "connected" /\ subscriptions_complete(i)
    /\ markets[i].ref = reference
    /\ \A c \in Observed : markets[i].seen[c] # 0 /\ markets[i].seen[c] = markets[i].gen
    /\ markets[i].book.status = "contiguous"

\* risk_fresh_snapshot gives the market out.
Fresh(i) == i \in DOMAIN markets /\ readiness(i)

\* A book that a reader may use has every change up to its sequence number: across reconnects,
\* evictions, messages of a subscription given up and messages that the venue dropped.
BookIsWhole ==
    \A i \in DOMAIN markets : Fresh(i) => markets[i].book.content = 1..markets[i].book.seq

\* Whatever a new-risk read is given was received on the connection that is up now: "Both must
\* belong to the same verified WS generation".  The one exception of the code is a stray market: a
\* caller sends its command before it inserts its market (coordinator.rs:92, :98), so the market may
\* come after its demand was evicted or a connection before the command is taken, keep what that
\* connection brought, and be what the demand reads on the next.
FreshIsThisConnection ==
    \A i \in DOMAIN markets : Fresh(i) => markets[i].gen = conn.gen \/ i \in stray

\* An evicted instrument leaves no market behind but a stray one: every other market is of a
\* demand that is active or whose command is on its way.
NoMarketLeaks ==
    DOMAIN markets \subseteq Demands \cup ToSet(queue) \cup stray

\* The venue refused a subscription of the instrument: it is not asked for again on this connection.
Refused(i) == coord.failed \cap ({Baseline} \cup required_subscriptions(i)) # {}

\* A demanded, listed market can be read in the end, past evictions of others, lost connections,
\* silent links, gaps in its book, changes of the rules and strays, unless it is evicted or delisted
\* or the connection that refused one of its subscriptions stays up.
DemandIsServed ==
    \A i \in Instrument :
        i \in Demands ~>
            (Fresh(i) \/ i \notin Demands \/ reference[i] = 0 \/ coord.pc = "stopped" \/ []Refused(i))
=============================================================================
