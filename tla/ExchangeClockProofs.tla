------------------------- MODULE ExchangeClockProofs -------------------------
(***************************************************************************)
(* Proofs about ExchangeClock: the type of its state, the error of the     *)
(* estimate a mutation is stamped with, and the last moment at which the   *)
(* venue can take the order, for every skew, jump of the wall clock, bound *)
(* and deadline.                                                           *)
(***************************************************************************)
EXTENDS ExchangeClock, TLAPS

\* Half of a round trip, with its remainder: what the integer division of
\* from_sample and estimated_server_now leaves.
LEMMA Halves == \A r \in Nat : /\ r \div 2 \in Nat /\ (r + 1) \div 2 \in Nat
                               /\ r = r \div 2 + (r + 1) \div 2
  OBVIOUS

\* A shorter round trip has a smaller half.
LEMMA HalfIsMonotonic == \A r, s \in Nat : r <= s => r \div 2 <= s \div 2
  OBVIOUS

\* The server read its clock between the start of the request and now.
SampleInv ==
    pc = "sampling" =>
        /\ sample.started <= now
        /\ sample.answered => /\ sample.started + skew <= sample.server
                              /\ sample.server <= now + skew

\* Accepted or not, evidence brackets the exchange's clock at its own moment.
EvidenceInv ==
    pc \in {"sampled", "timed", "begun", "sent"} =>
        /\ evidence.at <= now
        /\ evidence.at - evidence.rtt + skew <= evidence.server
        /\ evidence.server <= evidence.at + skew

\* A timing was made from accepted evidence, its estimate lies within the two
\* halves of the round trip, and it ends with the command.
TimingInv ==
    pc \in {"timed", "begun", "sent"} =>
        /\ evidence.rtt <= MaxRtt
        /\ timing.issued + skew - (evidence.rtt + 1) \div 2 <= timing.request
        /\ timing.request <= timing.issued + skew + evidence.rtt \div 2
        /\ timing.exp <= Deadline + skew + evidence.rtt \div 2

IInv == TypeOK /\ SampleInv /\ EvidenceInv /\ TimingInv /\ NoLateAcceptance

\* The invariant holds at the start.
LEMMA InitIInv == Init => IInv
  <1> SUFFICES ASSUME Init PROVE IInv
    OBVIOUS
  <1>1. TypeOK
    BY ClockAssumption DEF Init, TypeOK, NoSample, NoEvidence, NoTiming
  <1>2. SampleInv /\ EvidenceInv /\ TimingInv
    BY DEF Init, SampleInv, EvidenceInv, TimingInv
  <1>3. NoLateAcceptance
    BY ClockAssumption, Halves DEF Init, NoLateAcceptance
  <1> QED
    BY <1>1, <1>2, <1>3 DEF IInv

\* The estimate of accepted evidence, whenever it is made.
LEMMA EstimateBounds ==
  ASSUME TypeOK, EvidenceInv, pc = "sampled"
  PROVE  /\ estimated_server_now \in Int
         /\ now + skew - (evidence.rtt + 1) \div 2 <= estimated_server_now
         /\ estimated_server_now <= now + skew + evidence.rtt \div 2
  <1>1. /\ now \in Int /\ skew \in Int /\ evidence.rtt \in Nat /\ evidence.at \in Int
        /\ evidence.server \in Int
    BY ClockAssumption DEF TypeOK
  <1>2. /\ evidence.rtt \div 2 \in Nat /\ (evidence.rtt + 1) \div 2 \in Nat
        /\ evidence.rtt = evidence.rtt \div 2 + (evidence.rtt + 1) \div 2
    BY <1>1, Halves
  <1>3. PICK lower \in Nat, upper \in Nat :
          lower = evidence.rtt \div 2 /\ upper = (evidence.rtt + 1) \div 2
    BY <1>2
  <1>4. /\ estimated_server_now = evidence.server + lower + (now - evidence.at)
        /\ evidence.rtt = lower + upper
    BY <1>2, <1>3 DEF estimated_server_now, Age
  <1>5. /\ evidence.at - (lower + upper) + skew <= evidence.server
        /\ evidence.server <= evidence.at + skew
    BY <1>4 DEF EvidenceInv
  <1>6. /\ estimated_server_now \in Int /\ now + skew - upper <= estimated_server_now
        /\ estimated_server_now <= now + skew + lower
    BY <1>1, <1>4, <1>5
  <1> QED
    BY <1>3, <1>6

\* Every step preserves it.
LEMMA NextIInv == IInv /\ [Next]_vars => IInv'
  <1> SUFFICES ASSUME IInv, [Next]_vars PROVE IInv'
    OBVIOUS
  <1> USE DEF IInv
  <1>0. /\ now \in Nat /\ skew \in Int /\ wall \in Int /\ MaxTime \in Nat /\ Deadline \in Nat
        /\ MaxRtt \in Nat /\ MaxTtl \in Nat
    BY ClockAssumption DEF TypeOK
  <1>1. CASE Tick
    BY <1>0, <1>1 DEF Tick, TypeOK, SampleInv, EvidenceInv, TimingInv, NoLateAcceptance
  <1>2. CASE Begin
    <2>0. PICK x \in Int : x = now + wall
      BY <1>0
    <2>1. sample' = [started |-> now, wall |-> x, server |-> 0, answered |-> FALSE]
      BY <1>2, <2>0 DEF Begin, NoSample
    <2>2. pc' = "sampling" /\ UNCHANGED <<now, skew, wall, evidence, timing, sentAt, accepted>>
      BY <1>2, Zenon DEF Begin
    <2> QED
      BY <1>0, <2>1, <2>2 DEF TypeOK, SampleInv, EvidenceInv, TimingInv, NoLateAcceptance
  <1>3. CASE ServerReads
    <2>1. PICK x \in Int : x = now + skew
      BY <1>0
    <2>2. sample' = [sample EXCEPT !.server = x, !.answered = TRUE]
      BY <1>3, <2>1 DEF ServerReads
    <2>3. pc = "sampling" /\ UNCHANGED <<now, skew, wall, pc, evidence, timing, sentAt, accepted>>
      BY <1>3, Zenon DEF ServerReads
    <2>4. TypeOK'
      BY <2>1, <2>2, <2>3 DEF TypeOK
    <2>5. /\ sample'.started = sample.started /\ sample'.server = x
          /\ sample.started \in Nat /\ sample.started <= now
      BY <2>2, <2>3 DEF TypeOK, SampleInv
    <2>6. SampleInv'
      BY <1>0, <2>1, <2>3, <2>5 DEF SampleInv
    <2> QED
      BY <2>3, <2>4, <2>6 DEF EvidenceInv, TimingInv, NoLateAcceptance
  <1>4. CASE Sampled
    <2>1. sample.wall + (now - sample.started) \div 2 \in Int
      BY <1>0, <1>4, Halves DEF Sampled, TypeOK, SampleInv
    <2>2. TypeOK'
      BY <1>0, <1>4, <2>1 DEF Sampled, from_sample, TypeOK, SampleInv
    <2>3. EvidenceInv'
      BY <1>0, <1>4 DEF Sampled, from_sample, TypeOK, SampleInv, EvidenceInv
    <2> QED
      BY <1>4, <2>2, <2>3 DEF Sampled, SampleInv, TimingInv, NoLateAcceptance
  <1>5. CASE mutation_timing
    <2>1. Ttl \in Int /\ now + Ttl <= Deadline
      BY <1>0, <1>5 DEF mutation_timing, Ttl, Expire, Lesser
    <2>2. /\ estimated_server_now \in Int
          /\ now + skew - (evidence.rtt + 1) \div 2 <= estimated_server_now
          /\ estimated_server_now <= now + skew + evidence.rtt \div 2
      BY <1>5, EstimateBounds DEF mutation_timing
    <2>3. /\ evidence.rtt \div 2 \in Nat /\ (evidence.rtt + 1) \div 2 \in Nat
      BY Halves DEF TypeOK
    <2>4. timing' = [request |-> estimated_server_now, exp |-> estimated_server_now + Ttl,
                     issued |-> now]
      BY <1>5 DEF mutation_timing
    <2>5. TypeOK'
      BY <1>0, <1>5, <2>1, <2>2, <2>4 DEF mutation_timing, TypeOK
    <2>6. TimingInv'
      BY <1>0, <1>5, <2>1, <2>2, <2>3, <2>4 DEF mutation_timing, Accepted, TimingInv
    <2> QED
      BY <1>5, <2>5, <2>6 DEF mutation_timing, SampleInv, EvidenceInv, NoLateAcceptance
  <1>6. CASE Refused
    BY <1>6 DEF Refused, TypeOK, SampleInv, EvidenceInv, TimingInv, NoLateAcceptance
  <1>7. CASE begin_post
    BY <1>7 DEF begin_post, TypeOK, SampleInv, EvidenceInv, TimingInv, NoLateAcceptance
  <1>8. CASE Post
    BY <1>0, <1>8 DEF Post, SentTiming, TypeOK, SampleInv, EvidenceInv, TimingInv, NoLateAcceptance
  <1>9. CASE Arrive
    <2>1. evidence.rtt \div 2 <= MaxRtt \div 2 /\ evidence.rtt \div 2 \in Nat /\ MaxRtt \div 2 \in Nat
      BY <1>0, <1>9, HalfIsMonotonic, Halves DEF Arrive, TypeOK, TimingInv
    <2>2. TypeOK'
      BY <1>0, <1>9 DEF Arrive, TypeOK
    <2>3. NoLateAcceptance'
      BY <1>0, <1>9, <2>1 DEF Arrive, TypeOK, TimingInv, NoLateAcceptance
    <2> QED
      BY <1>9, <2>2, <2>3 DEF Arrive, SampleInv, EvidenceInv, TimingInv
  <1>10. CASE \E w \in Jumps : SetWallClock(w)
    BY <1>10 DEF SetWallClock, TypeOK, SampleInv, EvidenceInv, TimingInv, NoLateAcceptance
  <1>11. CASE UNCHANGED vars
    BY <1>11 DEF vars, TypeOK, SampleInv, EvidenceInv, TimingInv, NoLateAcceptance
  <1> QED
    BY <1>1, <1>2, <1>3, <1>4, <1>5, <1>6, <1>7, <1>8, <1>9, <1>10, <1>11 DEF Next, Finished

\* So it always holds.
LEMMA ClockInvariance == Spec => []IInv
  BY InitIInv, NextIInv, PTL DEF Spec

\* The clock, the sample, the evidence and the timing of an order keep the types
\* of clock.rs.
THEOREM ClockTypeCorrect == Spec => []TypeOK
  <1>1. IInv => TypeOK
    BY DEF IInv
  <1> QED
    BY <1>1, ClockInvariance, PTL

\* The estimate a mutation is stamped with is off by no more than half the round
\* trip of its sample (mutation_timing, estimated_server_now).
THEOREM EstimateIsTight == Spec => []EstimateWithinRoundTrip
  <1>1. IInv => EstimateWithinRoundTrip
    <2> SUFFICES ASSUME IInv, pc \in {"timed", "begun"}
                 PROVE  Abs(timing.request - (timing.issued + skew)) <= (evidence.rtt + 1) \div 2
      BY DEF EstimateWithinRoundTrip
    <2>1. /\ timing.request \in Int /\ timing.issued \in Int /\ skew \in Int /\ evidence.rtt \in Nat
      BY ClockAssumption DEF IInv, TypeOK
    <2>2. /\ evidence.rtt \div 2 \in Nat /\ (evidence.rtt + 1) \div 2 \in Nat
          /\ evidence.rtt \div 2 <= (evidence.rtt + 1) \div 2
      BY <2>1, Halves
    <2> QED
      BY <2>1, <2>2 DEF IInv, TimingInv, Abs
  <1> QED
    BY <1>1, ClockInvariance, PTL

\* No order takes effect after its command has ended, up to half the largest
\* round trip that is accepted (expTime of mutation_timing, post_once).
THEOREM NeverAcceptedLate == Spec => []NoLateAcceptance
  <1>1. IInv => NoLateAcceptance
    BY DEF IInv
  <1> QED
    BY <1>1, ClockInvariance, PTL
===============================================================================
