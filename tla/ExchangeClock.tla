------------------------------ MODULE ExchangeClock ------------------------------
(***************************************************************************)
(* The exchange clock a mutation is signed with                            *)
(* (crates/okx-api/src/clock.rs, fetch_clock_evidence of client.rs) and    *)
(* the way of one order from its clock sample to the venue                 *)
(* (crates/okx-agent/src/trade_service/execute.rs): sample, timing, ledger *)
(* I/O of post_once, POST.  The monotonic clock is the time of the model;  *)
(* the exchange's clock is ahead of it by an unknown constant; the local   *)
(* wall clock may be set at any moment.                                    *)
(***************************************************************************)
EXTENDS Integers

CONSTANTS
    Skews,        \* exchange clock minus monotonic clock
    Jumps,        \* wall clock minus monotonic clock
    MaxRtt, MaxAge, MaxOffset,   \* bounds of accepted evidence
    MaxTtl,       \* ACCOUNT_MAX_AGE_MS
    Deadline,     \* until, on the monotonic clock
    MaxTime       \* bound

ASSUME ClockAssumption ==
    /\ Skews \subseteq Int /\ Skews # {} /\ Jumps \subseteq Int /\ Jumps # {}
    /\ {MaxRtt, MaxAge, MaxOffset, MaxTtl, Deadline, MaxTime} \subseteq Nat

VARIABLES
    now, skew, wall,
    pc,          \* where the order is
    sample,      \* the request for the server time under way
    evidence,    \* ClockEvidence
    timing,      \* MutationTiming
    sentAt,      \* when the POST left, -1: not
    accepted     \* when the venue took the order, -1: not

vars == <<now, skew, wall, pc, sample, evidence, timing, sentAt, accepted>>

Abs(x) == IF x < 0 THEN -x ELSE x
Lesser(x, y) == IF x < y THEN x ELSE y

NoSample == [started |-> 0, wall |-> 0, server |-> 0, answered |-> FALSE]
NoEvidence == [server |-> 0, midpoint |-> 0, rtt |-> 0, at |-> 0]
NoTiming == [request |-> 0, exp |-> 0, issued |-> 0]

TypeOK ==
    /\ now \in 0..MaxTime /\ skew \in Skews /\ wall \in Jumps
    /\ pc \in {"idle", "sampling", "sampled", "timed", "begun", "sent", "over"}
    /\ sample \in [started : Nat, wall : Int, server : Int, answered : BOOLEAN]
    /\ evidence \in [server : Int, midpoint : Int, rtt : Nat, at : Nat]
    /\ timing \in [request : Int, exp : Int, issued : Nat]
    /\ {sentAt, accepted} \subseteq -1..MaxTime

Init ==
    /\ now = 0 /\ skew \in Skews /\ wall \in Jumps /\ pc = "idle"
    /\ sample = NoSample /\ evidence = NoEvidence /\ timing = NoTiming
    /\ sentAt = -1 /\ accepted = -1

Expire == now >= Deadline

Tick == now < MaxTime /\ now' = now + 1
            /\ UNCHANGED <<skew, wall, pc, sample, evidence, timing, sentAt, accepted>>
SetWallClock(w) == wall' = w /\ UNCHANGED <<now, skew, pc, sample, evidence, timing, sentAt, accepted>>

Begin_mutant ==
    /\ pc = "idle" /\ ~Expire
    /\ pc' = "started" /\ sample' = [NoSample EXCEPT !.started = now, !.wall = now + wall]
    /\ UNCHANGED <<now, skew, wall, evidence, timing, sentAt, accepted>>

\* fetch_clock_evidence reads the wall clock, then starts the request.
Begin ==
    /\ pc = "idle" /\ ~Expire
    /\ pc' = "sampling" /\ sample' = [NoSample EXCEPT !.started = now, !.wall = now + wall]
    /\ UNCHANGED <<now, skew, wall, evidence, timing, sentAt, accepted>>

\* The exchange reads its clock at some moment of the round trip.
ServerReads ==
    /\ pc = "sampling" /\ ~sample.answered
    /\ sample' = [sample EXCEPT !.server = now + skew, !.answered = TRUE]
    /\ UNCHANGED <<now, skew, wall, pc, evidence, timing, sentAt, accepted>>

from_sample(server, startedWall, rtt) ==
    [server |-> server, midpoint |-> startedWall + rtt \div 2, rtt |-> rtt, at |-> now]

Sampled ==
    /\ pc = "sampling" /\ sample.answered
    /\ evidence' = from_sample(sample.server, sample.wall, now - sample.started)
    /\ pc' = "sampled" /\ UNCHANGED <<now, skew, wall, sample, timing, sentAt, accepted>>

Offset == evidence.server - evidence.midpoint
Age == now - evidence.at
Accepted ==
    /\ Abs(Offset) <= MaxOffset /\ evidence.rtt <= MaxRtt /\ Age <= MaxAge

estimated_server_now_mutant == now + wall + Offset
estimated_server_now == evidence.server + evidence.rtt \div 2 + Age

\* The order lives no longer than its command.
Ttl == Lesser(IF Expire THEN 0 ELSE Deadline - now, MaxTtl)

mutation_timing ==
    /\ pc = "sampled" /\ Accepted /\ Ttl > 0
    /\ timing' = [request |-> estimated_server_now, exp |-> estimated_server_now + Ttl, issued |-> now]
    /\ pc' = "timed" /\ UNCHANGED <<now, skew, wall, sample, evidence, sentAt, accepted>>

\* Unsafe evidence, a spent deadline, or an error on the way: nothing is sent.
Refused ==
    /\ pc \in {"idle", "sampling", "sampled", "timed", "begun"}
    /\ pc' = "over" /\ UNCHANGED <<now, skew, wall, sample, evidence, timing, sentAt, accepted>>

\* post_once writes begin_post to the ledger, however long that takes.
begin_post ==
    /\ pc = "timed" /\ pc' = "begun"
    /\ UNCHANGED <<now, skew, wall, sample, evidence, timing, sentAt, accepted>>

\* refreshed_for_send shifts the estimate and keeps the TTL; nothing calls it.
SentTiming_mutant ==
    [timing EXCEPT !.request = @ + (now - timing.issued), !.exp = @ + (now - timing.issued)]
SentTiming == timing

Post ==
    /\ pc = "begun" /\ ~Expire
    /\ pc' = "sent" /\ timing' = SentTiming /\ sentAt' = now
    /\ UNCHANGED <<now, skew, wall, sample, evidence, accepted>>

\* The venue refuses a request that arrives after its expTime.
Arrive ==
    /\ pc = "sent" /\ pc' = "over"
    /\ accepted' = IF now + skew <= timing.exp THEN now ELSE -1
    /\ UNCHANGED <<now, skew, wall, sample, evidence, timing, sentAt>>

Finished == pc = "over" /\ UNCHANGED vars

Next ==
    \/ Tick \/ Begin \/ ServerReads \/ Sampled \/ mutation_timing \/ Refused
    \/ begin_post \/ Post \/ Arrive \/ Finished
    \/ \E w \in Jumps : SetWallClock(w)

Spec == Init /\ [][Next]_vars

\* The estimate of the exchange's clock that a mutation is stamped with is off
\* by no more than half the round trip of its sample, whatever the wall clock
\* did and however long the evidence waited (mutation_timing).
EstimateWithinRoundTrip ==
    pc \in {"timed", "begun"} =>
        Abs(timing.request - (timing.issued + skew)) <= (evidence.rtt + 1) \div 2

\* An order cannot take effect after its command has ended: the venue drops it,
\* however long the ledger or the network held it, up to the error of the clock.
NoLateAcceptance == accepted <= Deadline + MaxRtt \div 2

\* clock.rs:109 on MutationTiming: "The accepted exchange-clock estimate is
\* advanced monotonically after slow native RiskBook/ledger I/O; do not reuse
\* its already-aged expTime."  What is sent carries the clock of its sending.
SentClockIsAdvanced ==
    sentAt >= 0 => Abs(timing.request - (sentAt + skew)) <= (evidence.rtt + 1) \div 2
=============================================================================
