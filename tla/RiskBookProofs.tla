--------------------------- MODULE RiskBookProofs ---------------------------
(***************************************************************************)
(* The central risk book, for any finite sets of accounts and intents and  *)
(* any plans, limits and bounds: the totals are the sums of the entries,   *)
(* everything lost or at stake stays within the campaign's ceiling, STOP   *)
(* revokes for good, occupied accounts stay in the cohort, the sequence    *)
(* names one book, and the book implements the abstract reservation.       *)
(*                                                                         *)
(* A step is a risk command (Command), a revision of the policy (Policy)   *)
(* or neither (Quiet); a command moves at most one entry, in one of the    *)
(* five ways of Turn.  IInv speaks of documents and entries one by one,    *)
(* Sums of totals.  What a sum over a finite set does when an element      *)
(* comes, goes or changes is derived first, from the fold that computes    *)
(* it: the induction is over the number of elements, on a set of naturals, *)
(* so that no theorem with an operator parameter is needed.                *)
(***************************************************************************)
EXTENDS RiskBook, FiniteSetTheorems, WellFoundedInduction, TLAPS

\* Induction on the naturals, over a set.
LEMMA NatInductionSet ==
    ASSUME NEW T, 0 \in T, \A n \in Nat : n \in T => n + 1 \in T
    PROVE  Nat \subseteq T
<1> SUFFICES ASSUME Nat \ T # {} PROVE FALSE
  OBVIOUS
<1> DEFINE Less == {ss \in Nat \X Nat : ss[1] < ss[2]}
<1>1. IsWellFoundedOn(Less, Nat)
  BY NatLessThanWellFounded, Zenon DEF OpToRel
<1>2. \A a, b \in Nat : <<a, b>> \in Less <=> a < b
  OBVIOUS
<1> HIDE DEF Less
<1>3. PICK m \in Nat \ T : \A n \in Nat \ T : ~(<<n, m>> \in Less)
  BY <1>1, WFMin
<1>4. m - 1 \in Nat /\ m - 1 < m /\ (m - 1) + 1 = m
  BY <1>3
<1>5. m - 1 \in T
  BY <1>2, <1>3, <1>4
<1>6. (m - 1) + 1 \in T
  BY <1>4, <1>5
<1> QED BY <1>3, <1>4, <1>6

\* Induction on the subsets of a finite set.
LEMMA SubsetInduction ==
    ASSUME NEW S, IsFiniteSet(S), NEW W, {} \in W,
           \A s \in SUBSET S : \A x \in S \ s : s \in W => s \cup {x} \in W
    PROVE  \A s \in SUBSET S : s \in W
<1> DEFINE T == {n \in Nat : \A s \in SUBSET S : Cardinality(s) = n => s \in W}
<1>0. \A s \in SUBSET S : IsFiniteSet(s) /\ Cardinality(s) \in Nat
  BY FS_Subset, FS_CardinalityType
<1>1. 0 \in T
  <2>1. \A s \in SUBSET S : Cardinality(s) = 0 => s = {}
    BY <1>0, FS_EmptySet
  <2> QED BY <2>1
<1>2. ASSUME NEW n \in Nat, n \in T
      PROVE  n + 1 \in T
  <2> SUFFICES ASSUME NEW s \in SUBSET S, Cardinality(s) = n + 1
               PROVE  s \in W
    OBVIOUS
  <2>1. PICK x : x \in s
    BY <1>0, FS_EmptySet
  <2>20. IsFiniteSet(s)
    BY <1>0
  <2>2. Cardinality(s \ {x}) = n
    <3>1. Cardinality(s \ {x}) = Cardinality(s) - 1
      BY <2>1, <2>20, FS_RemoveElement
    <3> QED BY <3>1
  <2>3. s \ {x} \in W
    BY <1>2, <2>2
  <2>4. s = (s \ {x}) \cup {x}
    BY <2>1
  <2> QED BY <2>1, <2>3, <2>4
<1> HIDE DEF T
<1>3. Nat \subseteq T
  BY <1>1, <1>2, NatInductionSet
<1> QED BY <1>0, <1>3 DEF T

\* The element that the fold takes next, and the function it computes.
Pick(s) == CHOOSE x \in s : TRUE
Folds(sum, S, f) == sum = [s \in SUBSET S |-> IF s = {} THEN 0 ELSE f[Pick(s)] + sum[s \ {Pick(s)}]]

\* A set that is not empty has its picked element.
LEMMA PickIn == \A s : s # {} => Pick(s) \in s
BY DEF Pick

\* A sum over a finite set is computed by some function on its subsets.
LEMMA SumExists ==
    ASSUME NEW S, IsFiniteSet(S), NEW f
    PROVE  \E sum : Folds(sum, S, f)
<1> DEFINE Sub(n) == {s \in SUBSET S : Cardinality(s) <= n}
           Upto(sum, n) == sum = [s \in Sub(n) |-> IF s = {} THEN 0 ELSE f[Pick(s)] + sum[s \ {Pick(s)}]]
           T == {n \in Nat : \E sum : Upto(sum, n)}
<1>0. \A s \in SUBSET S : IsFiniteSet(s) /\ Cardinality(s) \in Nat
  BY FS_Subset, FS_CardinalityType
<1>1. 0 \in T
  <2> DEFINE sum == [s \in Sub(0) |-> 0]
  <2>1. \A s \in Sub(0) : s = {}
    BY <1>0, FS_EmptySet
  <2>2. Upto(sum, 0)
    BY <2>1
  <2> QED BY <2>2
<1>2. ASSUME NEW n \in Nat, n \in T
      PROVE  n + 1 \in T
  <2>1. PICK sum : Upto(sum, n)
    BY <1>2
  <2> DEFINE next == [s \in Sub(n + 1) |-> IF s = {} THEN 0 ELSE f[Pick(s)] + sum[s \ {Pick(s)}]]
  <2>2. ASSUME NEW s \in Sub(n)
        PROVE  s \in Sub(n + 1) /\ next[s] = sum[s]
    <3>1. s \in Sub(n + 1)
      BY <1>0
    <3> HIDE DEF Sub
    <3> QED BY <2>1, <3>1
  <2>3. ASSUME NEW s \in Sub(n + 1), s # {}
        PROVE  s \ {Pick(s)} \in Sub(n)
    <3>1. Pick(s) \in s
      BY <2>3, PickIn
    <3>2. Cardinality(s \ {Pick(s)}) = Cardinality(s) - 1
      BY <1>0, <3>1, FS_RemoveElement
    <3> QED BY <1>0, <3>2
  <2>4. \A s \in Sub(n + 1) :
            next[s] = IF s = {} THEN 0 ELSE f[Pick(s)] + next[s \ {Pick(s)}]
    <3> HIDE DEF Sub
    <3>1. \A s \in Sub(n + 1) : next[s] = IF s = {} THEN 0 ELSE f[Pick(s)] + sum[s \ {Pick(s)}]
      OBVIOUS
    <3> HIDE DEF next
    <3> QED BY <2>2, <2>3, <3>1
  <2>5. next = [s \in Sub(n + 1) |-> next[s]]
    OBVIOUS
  <2>6. Upto(next, n + 1)
    <3> HIDE DEF next, Sub
    <3> QED BY <2>4, <2>5
  <2> HIDE DEF Upto, next
  <2> QED BY <2>6
<1> HIDE DEF T
<1>3. Cardinality(S) \in T
  BY <1>1, <1>2, NatInductionSet, FS_CardinalityType
<1>4. Sub(Cardinality(S)) = SUBSET S
  BY <1>0, FS_Subset
<1> QED BY <1>3, <1>4 DEF T, Folds

\* SumOver is what that function gives for the whole set.
LEMMA SumOf ==
    ASSUME NEW S, IsFiniteSet(S), NEW f
    PROVE  \E sum : Folds(sum, S, f) /\ SumOver(S, f) = sum[S]
<1> DEFINE sum == CHOOSE g : Folds(g, S, f)
<1>1. SumOver(S, f) =
        (CHOOSE g : g = [s \in SUBSET S |-> IF s = {} THEN 0 ELSE f[Pick(s)] + g[s \ {Pick(s)}]])[S]
  BY DEF SumOver, MapThenSumSet, MapThenFoldSet, Pick
<1>2. SumOver(S, f) = sum[S]
  BY <1>1 DEF Folds
<1>3. Folds(sum, S, f)
  BY SumExists
<1> QED BY <1>2, <1>3

\* Two such functions agree where both are defined.
LEMMA SumUnique ==
    ASSUME NEW S, IsFiniteSet(S), NEW R \in SUBSET S, NEW f, NEW g, NEW h,
           Folds(g, S, f), Folds(h, R, f)
    PROVE  \A s \in SUBSET R : g[s] = h[s]
<1> DEFINE T == {n \in Nat : \A s \in SUBSET R : Cardinality(s) = n => g[s] = h[s]}
<1>0. \A s \in SUBSET R : IsFiniteSet(s) /\ Cardinality(s) \in Nat
  BY FS_Subset, FS_CardinalityType
<1>1. \A s \in SUBSET R :
        /\ g[s] = IF s = {} THEN 0 ELSE f[Pick(s)] + g[s \ {Pick(s)}]
        /\ h[s] = IF s = {} THEN 0 ELSE f[Pick(s)] + h[s \ {Pick(s)}]
  BY DEF Folds
<1>2. 0 \in T
  <2>1. \A s \in SUBSET R : Cardinality(s) = 0 => s = {}
    BY <1>0, FS_EmptySet
  <2> QED BY <1>1, <2>1
<1>3. ASSUME NEW n \in Nat, n \in T
      PROVE  n + 1 \in T
  <2> SUFFICES ASSUME NEW s \in SUBSET R, Cardinality(s) = n + 1
               PROVE  g[s] = h[s]
    OBVIOUS
  <2>1. s # {} /\ Pick(s) \in s
    BY <1>0, FS_EmptySet, PickIn
  <2>2. Cardinality(s \ {Pick(s)}) = n
    BY <1>0, <2>1, FS_RemoveElement
  <2>3. g[s \ {Pick(s)}] = h[s \ {Pick(s)}]
    BY <1>3, <2>2
  <2> QED BY <1>1, <2>1, <2>3
<1> HIDE DEF T
<1>4. Nat \subseteq T
  BY <1>2, <1>3, NatInductionSet
<1> QED BY <1>0, <1>4 DEF T

\* A sum is empty, or its picked element and the sum of the others.
LEMMA SumUnfolds ==
    ASSUME NEW S, IsFiniteSet(S), NEW f
    PROVE  SumOver(S, f) = IF S = {} THEN 0 ELSE f[Pick(S)] + SumOver(S \ {Pick(S)}, f)
<1>1. PICK g : Folds(g, S, f) /\ SumOver(S, f) = g[S]
  BY SumOf
<1> DEFINE R == S \ {Pick(S)}
<1>2. IsFiniteSet(R) /\ R \in SUBSET S
  BY FS_Subset
<1>3. PICK h : Folds(h, R, f) /\ SumOver(R, f) = h[R]
  BY <1>2, SumOf
<1>4. g[R] = h[R]
  BY <1>1, <1>2, <1>3, SumUnique
<1>5. g[S] = IF S = {} THEN 0 ELSE f[Pick(S)] + g[R]
  BY <1>1 DEF Folds
<1> QED BY <1>1, <1>3, <1>4, <1>5


\* A sum of integers is an integer, and the empty one is zero.
LEMMA SumInt ==
    ASSUME NEW S, IsFiniteSet(S), NEW f, \A x \in S : f[x] \in Int
    PROVE  SumOver({}, f) = 0 /\ \A s \in SUBSET S : SumOver(s, f) \in Int
<1> DEFINE T == {n \in Nat : \A s \in SUBSET S : Cardinality(s) = n => SumOver(s, f) \in Int}
<1>0. \A s \in SUBSET S : IsFiniteSet(s) /\ Cardinality(s) \in Nat
  BY FS_Subset, FS_CardinalityType
<1>1. SumOver({}, f) = 0
  BY SumUnfolds, FS_EmptySet
<1>2. 0 \in T
  <2>1. \A s \in SUBSET S : Cardinality(s) = 0 => s = {}
    BY <1>0, FS_EmptySet
  <2> QED BY <1>1, <2>1
<1>3. ASSUME NEW n \in Nat, n \in T
      PROVE  n + 1 \in T
  <2> SUFFICES ASSUME NEW s \in SUBSET S, Cardinality(s) = n + 1
               PROVE  SumOver(s, f) \in Int
    OBVIOUS
  <2>0. IsFiniteSet(s) /\ s # {} /\ Pick(s) \in s
    BY <1>0, FS_EmptySet, PickIn
  <2>1. Cardinality(s \ {Pick(s)}) = n
    <3>1. Cardinality(s \ {Pick(s)}) = Cardinality(s) - 1
      BY <2>0, FS_RemoveElement
    <3> QED BY <3>1
  <2>2. SumOver(s \ {Pick(s)}, f) \in Int
    BY <1>3, <2>1
  <2>3. SumOver(s, f) = f[Pick(s)] + SumOver(s \ {Pick(s)}, f)
    BY <2>0, SumUnfolds
  <2> QED BY <2>0, <2>2, <2>3
<1> HIDE DEF T
<1>4. Nat \subseteq T
  BY <1>2, <1>3, NatInductionSet
<1> QED BY <1>0, <1>1, <1>4 DEF T

\* Any element may be taken out of a sum.
LEMMA SumRemoves ==
    ASSUME NEW S, IsFiniteSet(S), NEW f, \A x \in S : f[x] \in Int
    PROVE  \A s \in SUBSET S : \A x \in s : SumOver(s, f) = f[x] + SumOver(s \ {x}, f)
<1> DEFINE T == {n \in Nat : \A s \in SUBSET S : Cardinality(s) = n =>
                    \A x \in s : SumOver(s, f) = f[x] + SumOver(s \ {x}, f)}
<1>0. \A s \in SUBSET S : IsFiniteSet(s) /\ Cardinality(s) \in Nat
  BY FS_Subset, FS_CardinalityType
<1>1. \A s \in SUBSET S : SumOver(s, f) \in Int
  BY SumInt
<1>2. 0 \in T
  <2>1. \A s \in SUBSET S : Cardinality(s) = 0 => s = {}
    BY <1>0, FS_EmptySet
  <2> QED BY <2>1
<1>3. ASSUME NEW n \in Nat, n \in T
      PROVE  n + 1 \in T
  <2> SUFFICES ASSUME NEW s \in SUBSET S, Cardinality(s) = n + 1, NEW x \in s
               PROVE  SumOver(s, f) = f[x] + SumOver(s \ {x}, f)
    OBVIOUS
  <2> DEFINE y == Pick(s)
             R == (s \ {x}) \ {y}
  <2>0. IsFiniteSet(s) /\ s # {} /\ y \in s
    BY <1>0, FS_EmptySet, PickIn
  <2>1. SumOver(s, f) = f[y] + SumOver(s \ {y}, f)
    BY <2>0, SumUnfolds
  <2> HIDE DEF y
  <2>2. CASE x = y
    BY <2>1, <2>2
  <2>3. CASE x # y
    <3>1. Cardinality(s \ {x}) = Cardinality(s) - 1 /\ Cardinality(s \ {y}) = Cardinality(s) - 1
      BY <2>0, FS_RemoveElement
    <3>2. Cardinality(s \ {x}) = n /\ Cardinality(s \ {y}) = n
      BY <3>1
    <3>3. SumOver(s \ {x}, f) = f[y] + SumOver(R, f)
      BY <1>3, <2>0, <2>3, <3>2
    <3>4. R = (s \ {y}) \ {x}
      OBVIOUS
    <3>5. SumOver(s \ {y}, f) = f[x] + SumOver(R, f)
      BY <1>3, <2>0, <2>3, <3>2, <3>4
    <3>6. f[x] \in Int /\ f[y] \in Int /\ SumOver(R, f) \in Int
      BY <1>1, <2>0
    <3> QED BY <2>1, <3>3, <3>5, <3>6
  <2> QED BY <2>2, <2>3
<1> HIDE DEF T
<1>4. Nat \subseteq T
  BY <1>2, <1>3, NatInductionSet
<1> QED BY <1>0, <1>4 DEF T

\* An element is added to a sum, or taken from it.
LEMMA SumAdds ==
    ASSUME NEW S, IsFiniteSet(S), NEW f, \A x \in S : f[x] \in Int, NEW s \in SUBSET S, NEW x \in S \ s
    PROVE  SumOver(s \cup {x}, f) = f[x] + SumOver(s, f)
<1>1. s \cup {x} \in SUBSET S /\ (s \cup {x}) \ {x} = s
  OBVIOUS
<1> QED BY <1>1, SumRemoves

\* A sum depends only on the values it adds.
LEMMA SumSame ==
    ASSUME NEW S, IsFiniteSet(S), NEW f, NEW g, \A x \in S : f[x] \in Int /\ f[x] = g[x]
    PROVE  SumOver(S, f) = SumOver(S, g)
<1> DEFINE W == {s \in SUBSET S : SumOver(s, f) = SumOver(s, g)}
<1>0. \A x \in S : f[x] \in Int /\ g[x] \in Int
  OBVIOUS
<1>1. {} \in W
  BY <1>0, SumInt
<1>2. ASSUME NEW s \in SUBSET S, NEW x \in S \ s, s \in W
      PROVE  s \cup {x} \in W
  <2>1. /\ SumOver(s \cup {x}, f) = f[x] + SumOver(s, f)
        /\ SumOver(s \cup {x}, g) = g[x] + SumOver(s, g)
    BY <1>0, SumAdds
  <2> QED BY <1>2, <2>1
<1> HIDE DEF W
<1>3. S \in W
  BY <1>1, <1>2, SubsetInduction
<1> QED BY <1>3 DEF W

\* Sums of two sets that share nothing.
LEMMA SumUnion ==
    ASSUME NEW S, IsFiniteSet(S), NEW f, \A x \in S : f[x] \in Int,
           NEW s \in SUBSET S, NEW r \in SUBSET S, s \cap r = {}
    PROVE  SumOver(s \cup r, f) = SumOver(s, f) + SumOver(r, f)
<1> DEFINE W == {q \in SUBSET r : SumOver(s \cup q, f) = SumOver(s, f) + SumOver(q, f)}
<1>0. /\ \A q \in SUBSET S : SumOver(q, f) \in Int
      /\ SumOver({}, f) = 0 /\ IsFiniteSet(r)
  BY SumInt, FS_Subset
<1>1. {} \in W
  BY <1>0
<1>2. ASSUME NEW q \in SUBSET r, NEW x \in r \ q, q \in W
      PROVE  q \cup {x} \in W
  <2>1. /\ s \cup q \in SUBSET S /\ q \in SUBSET S /\ x \in S \ q /\ x \in S \ (s \cup q)
        /\ s \cup (q \cup {x}) = (s \cup q) \cup {x}
    OBVIOUS
  <2>2. SumOver((s \cup q) \cup {x}, f) = f[x] + SumOver(s \cup q, f)
    BY <2>1, SumAdds
  <2>3. SumOver(q \cup {x}, f) = f[x] + SumOver(q, f)
    BY <2>1, SumAdds
  <2>4. f[x] \in Int /\ SumOver(s, f) \in Int /\ SumOver(q, f) \in Int
    BY <1>0, <2>1
  <2>5. SumOver(s \cup q, f) = SumOver(s, f) + SumOver(q, f)
    BY <1>2
  <2>6. SumOver((s \cup q) \cup {x}, f) = SumOver(s, f) + SumOver(q \cup {x}, f)
    BY <2>2, <2>3, <2>4, <2>5
  <2> QED BY <2>1, <2>6
<1> HIDE DEF W
<1>3. IsFiniteSet(r) /\ \A q \in SUBSET r : \A x \in r \ q : q \in W => q \cup {x} \in W
  BY <1>0, <1>2
<1>4. \A q \in SUBSET r : q \in W
  BY <1>1, <1>3, SubsetInduction, Zenon
<1> QED BY <1>4 DEF W

\* Larger values give a larger sum.
LEMMA SumAtMost ==
    ASSUME NEW S, IsFiniteSet(S), NEW f, NEW g,
           \A x \in S : f[x] \in Int /\ g[x] \in Int /\ f[x] <= g[x]
    PROVE  SumOver(S, f) <= SumOver(S, g)
<1> DEFINE W == {s \in SUBSET S : SumOver(s, f) <= SumOver(s, g)}
<1>0. /\ \A s \in SUBSET S : SumOver(s, f) \in Int /\ SumOver(s, g) \in Int
      /\ SumOver({}, f) = 0 /\ SumOver({}, g) = 0
  BY SumInt
<1>1. {} \in W
  BY <1>0
<1>2. ASSUME NEW s \in SUBSET S, NEW x \in S \ s, s \in W
      PROVE  s \cup {x} \in W
  <2>1. /\ SumOver(s \cup {x}, f) = f[x] + SumOver(s, f)
        /\ SumOver(s \cup {x}, g) = g[x] + SumOver(s, g)
    BY SumAdds
  <2>2. f[x] \in Int /\ g[x] \in Int /\ f[x] <= g[x] /\ SumOver(s, f) \in Int /\ SumOver(s, g) \in Int
    BY <1>0
  <2> QED BY <1>2, <2>1, <2>2
<1> HIDE DEF W
<1>3. S \in W
  BY <1>1, <1>2, SubsetInduction
<1> QED BY <1>3 DEF W

\* A sum of naturals is a natural, zero when they are, and not when one is not.
LEMMA SumNat ==
    ASSUME NEW S, IsFiniteSet(S), NEW f, \A x \in S : f[x] \in Nat
    PROVE  /\ SumOver(S, f) \in Nat
           /\ (\A x \in S : f[x] = 0) => SumOver(S, f) = 0
           /\ \A x \in S : SumOver(S, f) >= f[x]
<1> DEFINE W == {s \in SUBSET S : /\ SumOver(s, f) \in Nat
                                  /\ (\A x \in s : f[x] = 0) => SumOver(s, f) = 0}
<1>0. \A x \in S : f[x] \in Int
  OBVIOUS
<1>1. {} \in W
  BY <1>0, SumInt
<1>2. ASSUME NEW s \in SUBSET S, NEW x \in S \ s, s \in W
      PROVE  s \cup {x} \in W
  <2>1. SumOver(s \cup {x}, f) = f[x] + SumOver(s, f)
    BY <1>0, SumAdds
  <2>2. f[x] \in Nat /\ SumOver(s, f) \in Nat
    BY <1>2
  <2> QED BY <1>2, <2>1, <2>2
<1> HIDE DEF W
<1>3. \A s \in SUBSET S : s \in W
  BY <1>1, <1>2, SubsetInduction
<1>4. ASSUME NEW x \in S
      PROVE  SumOver(S, f) >= f[x]
  <2>1. SumOver(S, f) = f[x] + SumOver(S \ {x}, f)
    BY <1>0, SumRemoves
  <2>2. SumOver(S \ {x}, f) \in Nat
    BY <1>3 DEF W
  <2> QED BY <2>1, <2>2
<1> QED BY <1>3, <1>4 DEF W


\* What one element that comes, goes or changes its value does to a sum.
LEMMA SumMoves ==
    ASSUME NEW S, IsFiniteSet(S), NEW r \in SUBSET S, NEW s \in SUBSET S, NEW x,
           r \ {x} = s \ {x}, NEW f, NEW g,
           \A y \in r : f[y] \in Int, \A y \in s : g[y] \in Int, \A y \in r \ {x} : f[y] = g[y]
    PROVE  SumOver(s, g) = SumOver(r, f) + (IF x \in s THEN g[x] ELSE 0)
                                         - (IF x \in r THEN f[x] ELSE 0)
<1>0. IsFiniteSet(r) /\ IsFiniteSet(s) /\ IsFiniteSet(r \ {x})
  BY FS_Subset
<1>1. /\ SumOver(r \ {x}, f) = SumOver(s \ {x}, g)
      /\ SumOver(r \ {x}, f) \in Int /\ SumOver(s \ {x}, g) \in Int
  <2>1. \A y \in r \ {x} : f[y] \in Int /\ f[y] = g[y]
    OBVIOUS
  <2>2. SumOver(r \ {x}, f) = SumOver(r \ {x}, g)
    BY <1>0, <2>1, SumSame
  <2> QED BY <1>0, <2>1, <2>2, SumInt
<1>2. SumOver(r, f) = (IF x \in r THEN f[x] ELSE 0) + SumOver(r \ {x}, f)
  <2>1. CASE x \in r
    BY <1>0, <2>1, SumRemoves
  <2>2. CASE x \notin r
    <3>1. r \ {x} = r
      BY <2>2
    <3> QED BY <1>1, <2>2, <3>1
  <2> QED BY <2>1, <2>2
<1>3. SumOver(s, g) = (IF x \in s THEN g[x] ELSE 0) + SumOver(s \ {x}, g)
  <2>1. CASE x \in s
    BY <1>0, <2>1, SumRemoves
  <2>2. CASE x \notin s
    <3>1. s \ {x} = s
      BY <2>2
    <3>2. SumOver(s \ {x}, g) = SumOver(s, g)
      BY <3>1
    <3>3. SumOver(s, g) \in Int
      BY <1>0, SumInt
    <3> QED BY <2>2, <3>2, <3>3
  <2> QED BY <2>1, <2>2
<1>4. (IF x \in s THEN g[x] ELSE 0) \in Int /\ (IF x \in r THEN f[x] ELSE 0) \in Int
  OBVIOUS
<1> QED BY <1>1, <1>2, <1>3, <1>4

\* A sum of differences is the difference of the sums.
LEMMA SumDifference ==
    ASSUME NEW S, IsFiniteSet(S), NEW f, NEW g, NEW h,
           \A x \in S : f[x] \in Int /\ g[x] \in Int /\ h[x] = f[x] - g[x]
    PROVE  SumOver(S, f) = SumOver(S, g) + SumOver(S, h)
<1> DEFINE W == {s \in SUBSET S : SumOver(s, f) = SumOver(s, g) + SumOver(s, h)}
<1>0. \A x \in S : f[x] \in Int /\ g[x] \in Int /\ h[x] \in Int
  OBVIOUS
<1>1. /\ \A s \in SUBSET S : SumOver(s, f) \in Int /\ SumOver(s, g) \in Int /\ SumOver(s, h) \in Int
      /\ SumOver({}, f) = 0 /\ SumOver({}, g) = 0 /\ SumOver({}, h) = 0
  BY <1>0, SumInt
<1>2. {} \in W
  BY <1>1
<1>3. ASSUME NEW s \in SUBSET S, NEW x \in S \ s, s \in W
      PROVE  s \cup {x} \in W
  <2>1. /\ SumOver(s \cup {x}, f) = f[x] + SumOver(s, f)
        /\ SumOver(s \cup {x}, g) = g[x] + SumOver(s, g)
        /\ SumOver(s \cup {x}, h) = h[x] + SumOver(s, h)
    BY <1>0, SumAdds
  <2>2. /\ f[x] \in Int /\ g[x] \in Int /\ h[x] = f[x] - g[x]
        /\ SumOver(s, f) \in Int /\ SumOver(s, g) \in Int /\ SumOver(s, h) \in Int
    BY <1>1
  <2> QED BY <1>3, <2>1, <2>2
<1> HIDE DEF W
<1>4. S \in W
  BY <1>2, <1>3, SubsetInduction
<1> QED BY <1>4 DEF W

\* The elements with one key.
KeyedBy(S, key, a) == {x \in S : key[x] = a}

\* A sum, key by key.
LEMMA SumByKey ==
    ASSUME NEW S, IsFiniteSet(S), NEW A, IsFiniteSet(A), NEW key, \A x \in S : key[x] \in A,
           NEW f, \A x \in S : f[x] \in Int,
           NEW t, \A a \in A : t[a] = SumOver(KeyedBy(S, key, a), f)
    PROVE  SumOver(A, t) = SumOver(S, f)
<1> DEFINE Of(B) == {x \in S : key[x] \in B}
           W == {B \in SUBSET A : SumOver(B, t) = SumOver(Of(B), f)}
<1>0. \A r \in SUBSET S : SumOver(r, f) \in Int
  BY SumInt
<1>1. \A a \in A : t[a] \in Int
  BY <1>0 DEF KeyedBy
<1>2. {} \in W
  <2>1. SumOver({}, t) = 0 /\ SumOver({}, f) = 0
    BY <1>1, SumInt
  <2>2. Of({}) = {}
    OBVIOUS
  <2> QED BY <2>1, <2>2
<1>3. ASSUME NEW B \in SUBSET A, NEW a \in A \ B, B \in W
      PROVE  B \cup {a} \in W
  <2>1. SumOver(B \cup {a}, t) = t[a] + SumOver(B, t)
    BY <1>1, SumAdds
  <2> DEFINE P == Of(B)
             Q == KeyedBy(S, key, a)
  <2>2. Of(B \cup {a}) = P \cup Q /\ P \cap Q = {} /\ P \in SUBSET S /\ Q \in SUBSET S
    BY DEF KeyedBy
  <2>3. t[a] = SumOver(Q, f) /\ SumOver(B, t) = SumOver(P, f)
    BY <1>3
  <2> HIDE DEF P, Q
  <2>4. SumOver(P \cup Q, f) = SumOver(P, f) + SumOver(Q, f)
    BY <2>2, SumUnion
  <2>5. SumOver(P, f) \in Int /\ SumOver(Q, f) \in Int
    BY <1>0, <2>2
  <2>6. SumOver(B \cup {a}, t) = SumOver(P \cup Q, f)
    BY <2>1, <2>3, <2>4, <2>5
  <2> QED BY <2>2, <2>6
<1> HIDE DEF W
<1>4. A \in W
  BY <1>2, <1>3, SubsetInduction
<1>5. Of(A) = S
  OBVIOUS
<1> QED BY <1>4, <1>5 DEF W
-----------------------------------------------------------------------------
\* What the running totals and rows are made of.

Amounts ==
    /\ {sequence, occupied_usdt, occupied_usd} \subseteq Nat
    /\ accounts \in [Account -> Nat] /\ loss \in [Account -> Nat]
    /\ strategy \in [Account -> [Strategy -> Nat]]
    /\ aggregate \in [Account -> [active : Nat, occupied_usd : Nat, occupied_usdt : Nat]]

\* The stored reservations and fences.
Entries ==
    /\ entries \in [Intent -> RiskEntry]
    /\ fence \in [Intent -> Plan \cup {NoPlan}]

\* TypeOK without the sum consumed_loss_usd.
Shape ==
    /\ governance \in Governance
    /\ generation \in Nat /\ now \in Nat \ {0} /\ campaign_limit_usd \in Nat
    /\ Amounts /\ Entries
    /\ realised \in [Intent -> Nat]
    /\ revoked \subseteq Intent

\* A fenced intent has no entry, POSTED is dated, and no entry is newer than the policy.
Lifecycle ==
    \A i \in Intent :
        /\ fence[i] # NoPlan => entries[i].state = "NONE"
        /\ entries[i].state = "NONE" => entries[i].posted = 0
        /\ entries[i].state = "HELD" => entries[i].posted = 0
        /\ entries[i].state = "POSTED" => entries[i].posted # 0
        /\ entries[i].state # "NONE" => entries[i].plan \in Plan
        /\ entries[i].revision <= governance.revision

\* What STOP found HELD was made under an older policy, unless STOP changed nothing because no
\* real account was enabled; then nothing is authorised before the next revision.
Revocation ==
    \A i \in revoked :
        /\ entries[i].state # "NONE" /\ entries[i].posted = 0
        /\ entries[i].state = "HELD" => entries[i].revision < governance.revision \/ ~authority.enabled

IInv == Shape /\ Lifecycle /\ Revocation /\ CampaignCopiesAgree /\ OccupiedAccountsRegistered
-----------------------------------------------------------------------------
\* What the projection of the policy shows.
LEMMA Authority ==
    /\ authority.enabled <=> \E a \in RealAccount : accessEnabled(governance.accounts[a])
    /\ DOMAIN authority.account_limits_usdt = RealEnrolled(governance)
BY DEF authority, projectRiskPolicy

\* h follows g: a later document that forgets no account.
Revised(g, h) ==
    /\ h \in Governance /\ h.revision = g.revision + 1
    /\ \A a \in Account : g.accounts[a].enrolled => h.accounts[a].enrolled

\* Replacing the record of one account is a revision.
LEMMA WithAccountRevises ==
    ASSUME NEW g \in Governance, NEW key \in Account, NEW a \in AccountAccess, a.enrolled
    PROVE  /\ Revised(g, WithAccount(g, key, a))
           /\ WithAccount(g, key, a).campaign_loss_limit_usd = g.campaign_loss_limit_usd
<1> DEFINE n == g.revision + 1
           b == [a EXCEPT !.policy_revision = n]
           rows == [g.accounts EXCEPT ![key] = b]
<1>1. n \in Nat
  BY DEF Governance
<1>2. WithAccount(g, key, a) = [g EXCEPT !.revision = n, !.accounts = rows]
  BY DEF WithAccount
<1> HIDE DEF n
<1>3. b \in AccountAccess /\ b.enrolled
  BY <1>1 DEF AccountAccess
<1> HIDE DEF b
<1>4. rows \in [Account -> AccountAccess] /\ \A c \in Account : g.accounts[c].enrolled => rows[c].enrolled
  BY <1>3 DEF Governance
<1> HIDE DEF rows
<1> DEFINE S == [Account -> AccountAccess]
<1>50. Governance = [revision : Nat, campaign_loss_limit_usd : Nat,
                     max_total_modelled_loss_usdt : Nat, accounts : S]
       /\ rows \in S
  BY <1>4 DEF Governance
<1> HIDE DEF S
<1>5. LET h == WithAccount(g, key, a)
      IN  h \in Governance /\ h.revision = n /\ h.campaign_loss_limit_usd = g.campaign_loss_limit_usd /\ h.accounts = rows
  BY <1>1, <1>2, <1>4, <1>50
<1> QED BY <1>4, <1>5 DEF Revised, n

\* connect, pause and setLimits are revisions that keep the ceiling.
LEMMA OperationsRevise ==
    ASSUME NEW g \in Governance
    PROVE  /\ \A a \in Account, limits \in Limits, on \in BOOLEAN :
                /\ Revised(g, connect(g, a, limits, on))
                /\ connect(g, a, limits, on).campaign_loss_limit_usd = g.campaign_loss_limit_usd
           /\ \A a \in Account, value \in BOOLEAN : g.accounts[a].enrolled =>
                /\ Revised(g, pause(g, a, value))
                /\ pause(g, a, value).campaign_loss_limit_usd = g.campaign_loss_limit_usd
           /\ \A a \in Account, limits \in Limits : g.accounts[a].enrolled =>
                /\ Revised(g, setLimits(g, a, limits))
                /\ setLimits(g, a, limits).campaign_loss_limit_usd = g.campaign_loss_limit_usd
<1>1. ASSUME NEW a \in Account, NEW limits \in Limits, NEW on \in BOOLEAN
      PROVE  /\ Revised(g, connect(g, a, limits, on))
             /\ connect(g, a, limits, on).campaign_loss_limit_usd = g.campaign_loss_limit_usd
  <2> DEFINE row == [NotEnrolled EXCEPT !.enrolled = TRUE, !.enabled = on, !.limits = limits]
  <2>1. row \in AccountAccess /\ row.enrolled
    BY DEF NotEnrolled, AccountAccess, NoStrategies
  <2> HIDE DEF row
  <2>2. Revised(g, WithAccount(g, a, row)) /\ WithAccount(g, a, row).campaign_loss_limit_usd = g.campaign_loss_limit_usd
    BY <2>1, WithAccountRevises
  <2> QED BY <2>2 DEF connect, row
<1>2. ASSUME NEW a \in Account, NEW value \in BOOLEAN, g.accounts[a].enrolled
      PROVE  /\ Revised(g, pause(g, a, value))
             /\ pause(g, a, value).campaign_loss_limit_usd = g.campaign_loss_limit_usd
  <2> DEFINE row == [g.accounts[a] EXCEPT !.explicit_pause = value]
  <2>1. row \in AccountAccess /\ row.enrolled
    BY <1>2 DEF AccountAccess, Governance
  <2> HIDE DEF row
  <2>2. Revised(g, WithAccount(g, a, row)) /\ WithAccount(g, a, row).campaign_loss_limit_usd = g.campaign_loss_limit_usd
    BY <2>1, WithAccountRevises
  <2> QED BY <2>2 DEF pause, row
<1>3. ASSUME NEW a \in Account, NEW limits \in Limits, g.accounts[a].enrolled
      PROVE  /\ Revised(g, setLimits(g, a, limits))
             /\ setLimits(g, a, limits).campaign_loss_limit_usd = g.campaign_loss_limit_usd
  <2> DEFINE row == [g.accounts[a] EXCEPT !.limits = limits]
  <2>1. row \in AccountAccess /\ row.enrolled
    BY <1>3 DEF AccountAccess, Governance
  <2> HIDE DEF row
  <2>2. Revised(g, WithAccount(g, a, row)) /\ WithAccount(g, a, row).campaign_loss_limit_usd = g.campaign_loss_limit_usd
    BY <2>1, WithAccountRevises
  <2> QED BY <2>2 DEF setLimits, row
<1> QED BY <1>1, <1>2, <1>3

\* STOP is a revision, or finds nothing enabled and changes nothing.
LEMMA StopRevises ==
    ASSUME NEW g \in Governance
    PROVE  /\ stopReal(g) = g \/ Revised(g, stopReal(g))
           /\ stopReal(g) = g => ~\E a \in RealAccount : accessEnabled(g.accounts[a])
           /\ stopReal(g).campaign_loss_limit_usd = g.campaign_loss_limit_usd
<1> DEFINE n == g.revision + 1
           rows == [a \in Account |->
                        IF a \in RealEnrolled(g)
                        THEN [g.accounts[a] EXCEPT !.explicit_pause = TRUE, !.policy_revision = n]
                        ELSE g.accounts[a]]
<1>1. n \in Nat
  BY DEF Governance
<1>2. stopReal(g) = IF \E a \in RealAccount : accessEnabled(g.accounts[a])
                    THEN [g EXCEPT !.revision = n, !.accounts = rows] ELSE g
  BY DEF stopReal
<1> HIDE DEF n
<1>3. rows \in [Account -> AccountAccess] /\ \A a \in Account : g.accounts[a].enrolled => rows[a].enrolled
  <2> SUFFICES ASSUME NEW a \in Account
               PROVE  rows[a] \in AccountAccess /\ (g.accounts[a].enrolled => rows[a].enrolled)
    OBVIOUS
  <2>1. g.accounts[a] \in AccountAccess
    BY DEF Governance
  <2>2. CASE a \in RealEnrolled(g)
    <3>1. rows[a] = [g.accounts[a] EXCEPT !.explicit_pause = TRUE, !.policy_revision = n]
      BY <2>2
    <3> QED BY <1>1, <2>1, <3>1 DEF AccountAccess
  <2> QED BY <2>1, <2>2
<1> HIDE DEF rows
<1> DEFINE S == [Account -> AccountAccess]
<1>40. Governance = [revision : Nat, campaign_loss_limit_usd : Nat,
                     max_total_modelled_loss_usdt : Nat, accounts : S]
       /\ rows \in S
  BY <1>3 DEF Governance
<1> HIDE DEF S
<1>4. LET h == [g EXCEPT !.revision = n, !.accounts = rows]
      IN  h \in Governance /\ h.revision = n /\ h.campaign_loss_limit_usd = g.campaign_loss_limit_usd /\ h.accounts = rows
  BY <1>1, <1>3, <1>40
<1>5. n # g.revision
  BY DEF n, Governance
<1> QED BY <1>2, <1>3, <1>4, <1>5 DEF Revised, n

\* A governance request is a revision that keeps the ceiling.
LEMMA ReviseRevises ==
    ASSUME NEW g \in Governance, NEW total \in Nat, NEW rows \in [Enrolled(g) -> Row]
    PROVE  /\ Revised(g, reviseGovernance(g, total, rows))
           /\ reviseGovernance(g, total, rows).campaign_loss_limit_usd = g.campaign_loss_limit_usd
<1> DEFINE n == g.revision + 1
           new == [a \in Account |->
                  IF a \in Enrolled(g)
                  THEN [g.accounts[a] EXCEPT !.enabled = rows[a].enabled,
                                             !.explicit_pause = rows[a].explicit_pause,
                                             !.limits = rows[a].limits,
                                             !.strategies = rows[a].strategies,
                                             !.policy_revision = n]
                  ELSE g.accounts[a]]
<1>1. n \in Nat
  BY DEF Governance
<1>2. reviseGovernance(g, total, rows) =
        [g EXCEPT !.revision = n, !.max_total_modelled_loss_usdt = total, !.accounts = new]
  BY DEF reviseGovernance
<1> HIDE DEF n
<1>3. new \in [Account -> AccountAccess] /\ \A a \in Account : g.accounts[a].enrolled => new[a].enrolled
  <2> SUFFICES ASSUME NEW a \in Account
               PROVE  new[a] \in AccountAccess /\ (g.accounts[a].enrolled => new[a].enrolled)
    OBVIOUS
  <2>1. g.accounts[a] \in AccountAccess
    BY DEF Governance
  <2>2. CASE a \in Enrolled(g)
    <3>1. rows[a] \in Row
      BY <2>2
    <3>2. new[a] = [g.accounts[a] EXCEPT !.enabled = rows[a].enabled,
                                         !.explicit_pause = rows[a].explicit_pause,
                                         !.limits = rows[a].limits,
                                         !.strategies = rows[a].strategies,
                                         !.policy_revision = n]
      BY <2>2
    <3> QED BY <1>1, <2>1, <3>1, <3>2 DEF AccountAccess, Row
  <2> QED BY <2>1, <2>2
<1> HIDE DEF new
<1> DEFINE S == [Account -> AccountAccess]
<1>40. Governance = [revision : Nat, campaign_loss_limit_usd : Nat,
                     max_total_modelled_loss_usdt : Nat, accounts : S]
       /\ new \in S
  BY <1>3 DEF Governance
<1> HIDE DEF S
<1>4. LET h == reviseGovernance(g, total, rows)
      IN  h \in Governance /\ h.revision = n /\ h.campaign_loss_limit_usd = g.campaign_loss_limit_usd /\ h.accounts = new
  BY <1>1, <1>2, <1>3, <1>40
<1> QED BY <1>3, <1>4 DEF Revised, n

\* Lowering the ceiling is a revision.
LEMMA LowerRevises ==
    ASSUME NEW g \in Governance, NEW limit \in Nat
    PROVE  /\ Revised(g, lowerCampaign(g, limit))
           /\ lowerCampaign(g, limit).campaign_loss_limit_usd = limit
<1> DEFINE n == g.revision + 1
<1>1. n \in Nat
  BY DEF Governance
<1>2. lowerCampaign(g, limit) = [g EXCEPT !.revision = n, !.campaign_loss_limit_usd = limit]
  BY DEF lowerCampaign
<1> HIDE DEF n
<1> DEFINE S == [Account -> AccountAccess]
<1>30. Governance = [revision : Nat, campaign_loss_limit_usd : Nat,
                     max_total_modelled_loss_usdt : Nat, accounts : S]
  BY DEF Governance
<1> HIDE DEF S
<1>3. LET h == lowerCampaign(g, limit)
      IN  h \in Governance /\ h.revision = n /\ h.campaign_loss_limit_usd = limit /\ h.accounts = g.accounts
  BY <1>1, <1>2, <1>30
<1> QED BY <1>3 DEF Revised, n
-----------------------------------------------------------------------------
\* A revision of the policy, or a STOP that finds nothing to stop.
Policy ==
    /\ (governance' = governance /\ ~authority.enabled) \/ Revised(governance, governance')
    /\ governance'.campaign_loss_limit_usd - governance.campaign_loss_limit_usd
        = campaign_limit_usd' - campaign_limit_usd
    /\ campaign_limit_usd' <= campaign_limit_usd /\ campaign_limit_usd' \in Nat
    /\ revoked' \subseteq revoked \cup {i \in Intent : entries[i].state = "HELD"}
    /\ revoked \subseteq revoked'
    /\ sequence' \in {sequence, sequence + 1}
    /\ sequence' = sequence => campaign_limit_usd' = campaign_limit_usd
    /\ UNCHANGED <<generation, occupied_usdt, occupied_usd, consumed_loss_usd, accounts, entries,
                   fence, strategy, aggregate, loss, now, realised>>

\* Every operation on the policy is a Policy step.
LEMMA PolicySteps == ASSUME IInv, PolicyCommand PROVE Policy
<1> USE DEF Policy
<1>0. /\ governance \in Governance /\ campaign_limit_usd \in Nat
      /\ governance.campaign_loss_limit_usd = campaign_limit_usd
  BY DEF IInv, Shape, CampaignCopiesAgree
<1>1. ASSUME NEW a \in Account, NEW limits \in LimitChoice, NEW enabled \in BOOLEAN,
             enrollObservedAccount(a, limits, enabled)
      PROVE  Policy
  <2>1. limits \in Limits
    BY BoundAssumption
  <2>2. Revised(governance, governance') /\ governance'.campaign_loss_limit_usd = governance.campaign_loss_limit_usd
    BY <1>0, <1>1, <2>1, OperationsRevise DEF enrollObservedAccount, commitPolicy
  <2> QED BY <1>0, <1>1, <2>2 DEF enrollObservedAccount, commitPolicy, book, meta
<1>2. ASSUME NEW a \in Account, NEW limits \in LimitChoice, setAccountLimits(a, limits)
      PROVE  Policy
  <2>1. limits \in Limits
    BY BoundAssumption
  <2>2. Revised(governance, governance') /\ governance'.campaign_loss_limit_usd = governance.campaign_loss_limit_usd
    BY <1>0, <1>2, <2>1, OperationsRevise DEF setAccountLimits, commitPolicy
  <2> QED BY <1>0, <1>2, <2>2 DEF setAccountLimits, commitPolicy, book, meta
<1>3. ASSUME NEW a \in Account, NEW value \in BOOLEAN, setAccountPause(a, value)
      PROVE  Policy
  <2>2. Revised(governance, governance') /\ governance'.campaign_loss_limit_usd = governance.campaign_loss_limit_usd
    BY <1>0, <1>3, OperationsRevise DEF setAccountPause, commitPolicy
  <2> QED BY <1>0, <1>3, <2>2 DEF setAccountPause, commitPolicy, book, meta
<1>4. ASSUME NEW total \in TotalChoice, NEW rows \in [Enrolled(governance) -> RowChoice],
             governanceRequest(total, rows)
      PROVE  Policy
  <2>1. total \in Nat /\ rows \in [Enrolled(governance) -> Row]
    BY BoundAssumption
  <2>2. Revised(governance, governance') /\ governance'.campaign_loss_limit_usd = governance.campaign_loss_limit_usd
    BY <1>0, <1>4, <2>1, ReviseRevises DEF governanceRequest, commitPolicy
  <2> QED BY <1>0, <1>4, <2>2 DEF governanceRequest, commitPolicy, book, meta
<1>5. ASSUME NEW limit \in 1..CampaignLimit, lowerCampaignLimit(limit)
      PROVE  Policy
  <2>1. limit \in Nat
    BY BoundAssumption
  <2>2. Revised(governance, governance') /\ governance'.campaign_loss_limit_usd = limit
    BY <1>0, <1>5, <2>1, LowerRevises DEF lowerCampaignLimit, commitPolicy
  <2>3. /\ limit < campaign_limit_usd /\ campaign_limit_usd' = limit /\ sequence' = sequence + 1
        /\ UNCHANGED <<generation, occupied_usdt, occupied_usd, consumed_loss_usd, accounts, entries,
                       fence, strategy, aggregate, loss, now, realised, revoked>>
    BY <1>5 DEF lowerCampaignLimit, commitPolicy
  <2>4. sequence \in Nat
    BY DEF IInv, Shape, Amounts
  <2> QED BY <1>0, <2>1, <2>2, <2>3, <2>4
<1>6. ASSUME stopNewRealRisk
      PROVE  Policy
  <2>1. governance' = stopReal(governance)
    BY <1>6 DEF stopNewRealRisk, commitPolicy
  <2>2. /\ governance' = governance \/ Revised(governance, governance')
        /\ governance' = governance => ~authority.enabled
        /\ governance'.campaign_loss_limit_usd = governance.campaign_loss_limit_usd
    BY <1>0, <2>1, StopRevises, Authority
  <2> QED BY <1>0, <1>6, <2>2 DEF stopNewRealRisk, commitPolicy, book, meta
<1> QED BY <1>1, <1>2, <1>3, <1>4, <1>5, <1>6 DEF PolicyCommand
-----------------------------------------------------------------------------
\* What one command may do to the entry of intent i.
Writes(i, e) == entries' = [entries EXCEPT ![i] = e] /\ UNCHANGED fence

Holds(i) ==
    /\ entries[i].state = "NONE" /\ fence[i] = NoPlan
    /\ \E p \in Plan : Writes(i, newEntry(p))

Posts(i) ==
    /\ entries[i].state = "HELD" /\ entries[i].revision = governance.revision /\ authority.enabled
    /\ Writes(i, [entries[i] EXCEPT !.state = "POSTED", !.posted = now])

Resolves(i) ==
    \E to \in {"UNKNOWN", "OPEN"} :
        /\ entries[i].state \in {"HELD", "POSTED", "UNKNOWN"}
        /\ to = "OPEN" => entries[i].state # "HELD"
        /\ to = "UNKNOWN" => entries[i].state # "UNKNOWN"
        /\ Writes(i, [entries[i] EXCEPT !.state = to])

Releases(i) ==
    /\ Occupying(entries[i]) /\ (entries[i].state = "HELD" \/ entries[i].posted # 0)
    /\ Writes(i, [entries[i] EXCEPT !.state = "RELEASED"])

Fences(i) ==
    /\ entries[i].state = "NONE" /\ fence[i] = NoPlan
    /\ \E p \in Plan : fence' = [fence EXCEPT ![i] = p]
    /\ UNCHANGED entries

Turn(i) == Holds(i) \/ Posts(i) \/ Resolves(i) \/ Releases(i) \/ Fences(i)

Command ==
    /\ UNCHANGED <<entries, fence>> \/ \E i \in Intent : Turn(i)
    /\ Amounts' /\ sequence' > sequence
    /\ \A a \in Account : accounts'[a] > 0 => accounts[a] > 0 \/ a \in RealEnrolled(governance)
    /\ UNCHANGED <<governance, generation, campaign_limit_usd, now, realised, revoked>>

\* The amounts saveEntry writes are the naturals it checked.
Saves(i, sign, at) ==
    /\ sequence' = at + 1
    /\ {occupied_usdt', occupied_usd'} \subseteq Nat
    /\ accounts' \in [Account -> Nat]
    /\ strategy' \in [Account -> [Strategy -> Nat]]
    /\ aggregate' \in [Account -> [active : Nat, occupied_usd : Nat, occupied_usdt : Nat]]
    /\ \A a \in Account : accounts'[a] > 0 => accounts[a] > 0 \/ (sign = 1 /\ a = IntentAccount[i])
    /\ UNCHANGED <<campaign_limit_usd, fence>>

\* saveEntry writes one entry and amounts that are naturals.
LEMMA SaveEntry ==
    ASSUME Shape, NEW i \in Intent, NEW e, e.plan \in Plan, NEW sign \in {-1, 0, 1}, NEW at,
           saveEntry(i, e, sign, at)
    PROVE  Saves(i, sign, at) /\ Writes(i, e)
<1> DEFINE a == IntentAccount[i]
           s == PlanStrategy[e.plan]
           usdt == sign * PlanLoss[e.plan]
           usd == sign * PlanUsd[e.plan]
           row == aggregate[a]
<1>1. /\ row.occupied_usdt = accounts[a]
      /\ {row.active + sign, row.occupied_usd + usd, row.occupied_usdt + usdt,
          occupied_usdt + usdt, occupied_usd + usd, strategy[a][s] + usdt} \subseteq Nat
      /\ aggregate' = [aggregate EXCEPT ![a] =
              [active |-> row.active + sign, occupied_usd |-> row.occupied_usd + usd,
               occupied_usdt |-> row.occupied_usdt + usdt]]
      /\ accounts' = [accounts EXCEPT ![a] = accounts[a] + usdt]
      /\ occupied_usdt' = occupied_usdt + usdt
      /\ occupied_usd' = occupied_usd + usd
      /\ strategy' = [strategy EXCEPT ![a] = [strategy[a] EXCEPT ![s] = strategy[a][s] + usdt]]
      /\ entries' = [entries EXCEPT ![i] = e]
      /\ sequence' = at + 1
      /\ UNCHANGED <<campaign_limit_usd, fence>>
  BY DEF saveEntry, strategyAfter
<1>2. a \in Account /\ s \in Strategy /\ PlanLoss[e.plan] \in Nat
  BY PlanAssumption, RealAssumption
<1>3. usdt \in Int /\ (sign # 1 => usdt <= 0)
  BY <1>2
<1> HIDE DEF a, s, usdt, usd, row
<1>4. accounts' \in [Account -> Nat]
  BY <1>1, <1>2 DEF Shape, Amounts
<1>5. strategy' \in [Account -> [Strategy -> Nat]]
  BY <1>1, <1>2 DEF Shape, Amounts
<1>6. aggregate' \in [Account -> [active : Nat, occupied_usd : Nat, occupied_usdt : Nat]]
  BY <1>1, <1>2 DEF Shape, Amounts
<1>7. ASSUME NEW b \in Account, accounts'[b] > 0
      PROVE  accounts[b] > 0 \/ (sign = 1 /\ b = a)
  <2>1. accounts \in [Account -> Nat]
    BY DEF Shape, Amounts
  <2>2. accounts' = [accounts EXCEPT ![a] = accounts[a] + usdt]
    BY <1>1
  <2>3. CASE b = a
    <3>1. accounts'[b] = accounts[b] + usdt /\ accounts[b] \in Nat
      BY <2>1, <2>2, <2>3, <1>2
    <3> QED BY <3>1, <2>3, <1>3, <1>7
  <2>4. CASE b # a
    BY <2>1, <2>2, <2>4, <1>2, <1>7
  <2> QED BY <2>3, <2>4
<1> QED BY <1>1, <1>4, <1>5, <1>6, <1>7 DEF Saves, Writes, a

\* Cumulative losses are naturals.
LEMMA CensusType ==
    ASSUME Shape, NEW keys \in SUBSET RealAccount, NEW c \in Census(keys)
    PROVE  c.keys = keys /\ lossAfter(c) \in [Account -> Nat]
<1>1. c.keys = keys /\ c.loss \in [keys -> 0..LostBy(Intent)]
  BY DEF Census
<1>2. \A a \in keys : c.loss[a] \in Nat
  BY <1>1
<1> QED BY <1>1, <1>2 DEF lossAfter, Shape, Amounts

\* A charge raises the sequence when something is charged.
LEMMA Charged == \A c : charged(c) \in {0, 1} /\ (added(c) > 0 => charged(c) = 1)
BY DEF charged

\* A denied command that charged a loss.
LEMMA ChargeSteps ==
    ASSUME IInv, NEW keys \in SUBSET RealAccount, NEW c \in Census(keys), ChargeOnly(c),
           UNCHANGED <<governance, generation, now, realised, revoked>>
    PROVE  Command
<1>1. Shape
  BY DEF IInv
<1>2. lossAfter(c) \in [Account -> Nat] /\ charged(c) = 1
  BY <1>1, CensusType, Charged DEF ChargeOnly
<1> QED BY <1>1, <1>2 DEF ChargeOnly, Command, Shape, Amounts
\* A new reservation is an entry for its plan.
LEMMA NewEntryType ==
    ASSUME Shape, NEW p \in Plan
    PROVE  newEntry(p) \in RiskEntry /\ newEntry(p).plan = p
BY DEF newEntry, Shape, RiskEntry, EntryState, Governance

\* saveEntry leaves amounts of the right shape and a later book.
LEMMA SavedAmounts ==
    ASSUME IInv, NEW i \in Intent, NEW sign \in {-1, 0, 1}, NEW at \in Nat, Saves(i, sign, at),
           at >= sequence, loss' \in [Account -> Nat],
           sign = 1 => IntentAccount[i] \in RealEnrolled(governance), Turn(i),
           UNCHANGED <<governance, generation, now, realised, revoked>>
    PROVE  Command
<1>1. sequence \in Nat
  BY DEF IInv, Shape, Amounts
<1>2. Amounts'
  BY <1>1 DEF Saves, Amounts
<1>3. sequence' > sequence
  BY <1>1 DEF Saves
<1> QED BY <1>2, <1>3 DEF Saves, Command

\* RESERVE is a Command step.
LEMMA ReserveSteps ==
    ASSUME IInv, NEW keys \in SUBSET RealAccount, NEW c \in Census(keys), NEW i \in Intent,
           NEW p \in Plan, NEW gen, reserveRisk(i, p, c, gen)
    PROVE  Command
<1>0. Shape /\ sequence \in Nat
  BY DEF IInv, Shape, Amounts
<1>1. UNCHANGED <<governance, generation, now, realised, revoked>>
  BY DEF reserveRisk
<1>2. CASE ChargeOnly(c)
  BY <1>1, <1>2, ChargeSteps
<1>3. CASE /\ reservable(i, p, c) /\ saveEntry(i, newEntry(p), 1, sequence + charged(c))
           /\ loss' = lossAfter(c)
  <2>1. newEntry(p).plan \in Plan
    BY <1>0, NewEntryType
  <2>2. sequence + charged(c) \in Nat /\ sequence + charged(c) >= sequence
    BY <1>0, Charged
  <2>3. Saves(i, 1, sequence + charged(c)) /\ Writes(i, newEntry(p))
    BY <1>0, <1>3, <2>1, SaveEntry
  <2>4. loss' \in [Account -> Nat]
    BY <1>0, <1>3, CensusType
  <2>5. IntentAccount[i] \in RealEnrolled(governance)
    BY Authority DEF reserveRisk
  <2>6. Turn(i)
    BY <1>3, <2>3 DEF Turn, Holds, reservable, reserveRisk, notFenced
  <2> HIDE DEF Saves, Turn
  <2> QED BY <1>1, <2>2, <2>3, <2>4, <2>5, <2>6, SavedAmounts
<1> QED BY <1>2, <1>3 DEF reserveRisk

\* BEGIN_POST is a Command step.
LEMMA BeginPostSteps ==
    ASSUME IInv, NEW keys \in SUBSET RealAccount, NEW c \in Census(keys), NEW i \in Intent,
           NEW p \in Plan, NEW expected, NEW gen, beginRiskPost(i, p, c, expected, gen)
    PROVE  Command
<1>0. Shape /\ sequence \in Nat
  BY DEF IInv, Shape, Amounts
<1>1. UNCHANGED <<governance, generation, now, realised, revoked>>
  BY DEF beginRiskPost
<1>2. CASE ChargeOnly(c)
  BY <1>1, <1>2, ChargeSteps
<1> DEFINE e == [entries[i] EXCEPT !.state = "POSTED", !.posted = now]
<1>3. CASE /\ postable(i, p, c, expected) /\ saveEntry(i, e, 0, sequence + charged(c))
           /\ loss' = lossAfter(c)
  <2>1. e.plan \in Plan
    BY <1>0, <1>3 DEF postable, Shape, Entries, RiskEntry
  <2>2. sequence + charged(c) \in Nat /\ sequence + charged(c) >= sequence
    BY <1>0, Charged
  <2>3. Saves(i, 0, sequence + charged(c)) /\ Writes(i, e)
    <3> HIDE DEF e
    <3> QED BY <1>0, <1>3, <2>1, SaveEntry
  <2>4. loss' \in [Account -> Nat]
    BY <1>0, <1>3, CensusType
  <2>6. Turn(i)
    BY <1>3, <2>3 DEF Turn, Posts, postable, beginRiskPost, heldUnderCurrentPolicy
  <2> QED BY <1>1, <2>2, <2>3, <2>4, <2>6, SavedAmounts
<1> QED BY <1>2, <1>3 DEF beginRiskPost

\* RESOLVE to UNKNOWN or OPEN is a Command step.
LEMMA ResolveOpenSteps ==
    ASSUME IInv, NEW i \in Intent, NEW p \in Plan, NEW to \in {"UNKNOWN", "OPEN"}, NEW gen,
           resolveOpen(i, p, to, sequence, gen)
    PROVE  Command
<1>0. Shape /\ sequence \in Nat
  BY DEF IInv, Shape, Amounts
<1> DEFINE e == [entries[i] EXCEPT !.state = to]
<1>1. /\ UNCHANGED <<governance, generation, now, realised, revoked, loss>>
      /\ entries[i].plan = p /\ saveEntry(i, e, 0, sequence)
      /\ entries[i].state \in {"HELD", "POSTED", "UNKNOWN"}
      /\ to = "OPEN" => entries[i].state # "HELD"
      /\ to = "UNKNOWN" => entries[i].state # "UNKNOWN"
  BY DEF resolveOpen
<1>2. e.plan \in Plan
  BY <1>0, <1>1 DEF Shape, Entries, RiskEntry
<1>3. Saves(i, 0, sequence) /\ Writes(i, e)
  <2> HIDE DEF e
  <2> QED BY <1>0, <1>1, <1>2, SaveEntry
<1>4. Turn(i)
  BY <1>1, <1>3 DEF Turn, Resolves
<1>5. loss' \in [Account -> Nat]
  BY <1>0, <1>1 DEF Shape, Amounts
<1> QED BY <1>0, <1>1, <1>3, <1>4, <1>5, SavedAmounts

\* RESOLVE to RELEASED is a Command step.
LEMMA ReleaseSteps ==
    ASSUME IInv, NEW keys \in SUBSET RealAccount, NEW c \in Census(keys), NEW i \in Intent,
           NEW t, NEW ledger \in Int, NEW gen,
           resolveReleased(i, entries[i].plan, t, ledger, c, sequence, gen)
    PROVE  Command
<1>0. Shape /\ sequence \in Nat
  BY DEF IInv, Shape, Amounts
<1> DEFINE e == [entries[i] EXCEPT !.state = "RELEASED"]
<1>1. /\ UNCHANGED <<governance, generation, now, realised, revoked>>
      /\ Occupying(entries[i]) /\ terminalProof(entries[i], t, c)
      /\ \/ /\ ledger >= lossAfter(c)[IntentAccount[i]] /\ saveEntry(i, e, -1, sequence + charged(c))
            /\ loss' = [lossAfter(c) EXCEPT ![IntentAccount[i]] = ledger]
         \/ ChargeOnly(c)
  BY DEF resolveReleased
<1>2. CASE ChargeOnly(c)
  BY <1>1, <1>2, ChargeSteps
<1>3. CASE /\ ledger >= lossAfter(c)[IntentAccount[i]] /\ saveEntry(i, e, -1, sequence + charged(c))
           /\ loss' = [lossAfter(c) EXCEPT ![IntentAccount[i]] = ledger]
  <2>1. entries[i] \in RiskEntry /\ entries[i].plan \in Plan
    BY <1>0, <1>1 DEF IInv, Lifecycle, Shape, Entries, Occupying
  <2>2. e.plan \in Plan
    BY <2>1 DEF RiskEntry
  <2>3. sequence + charged(c) \in Nat /\ sequence + charged(c) >= sequence
    BY <1>0, Charged
  <2>4. Saves(i, -1, sequence + charged(c)) /\ Writes(i, e)
    <3> HIDE DEF e
    <3> QED BY <1>0, <1>3, <2>2, SaveEntry
  <2>5. lossAfter(c) \in [Account -> Nat] /\ IntentAccount[i] \in Account
    BY <1>0, CensusType, PlanAssumption, RealAssumption
  <2>6. loss' \in [Account -> Nat]
    BY <1>3, <2>5
  <2>7. Turn(i)
    BY <1>1, <2>4 DEF Turn, Releases, terminalProof
  <2> QED BY <1>1, <2>3, <2>4, <2>6, <2>7, SavedAmounts
<1> QED BY <1>1, <1>2, <1>3

\* RELEASE_UNSENT is a Command step.
LEMMA ReleaseUnsentSteps ==
    ASSUME IInv, NEW i \in Intent, NEW p \in Plan, NEW gen, releaseUnsentRisk(i, p, sequence, gen)
    PROVE  Command
<1>0. Shape /\ sequence \in Nat
  BY DEF IInv, Shape, Amounts
<1> DEFINE e == [entries[i] EXCEPT !.state = "RELEASED"]
<1>1. UNCHANGED <<governance, generation, now, realised, revoked, loss>>
  BY DEF releaseUnsentRisk
<1>2. CASE /\ entries[i].state = "NONE" /\ fence[i] = NoPlan
           /\ fence' = [fence EXCEPT ![i] = p] /\ sequence' = sequence + 1
           /\ UNCHANGED <<occupied_usdt, occupied_usd, campaign_limit_usd, accounts,
                          entries, strategy, aggregate>>
  <2>1. Turn(i)
    BY <1>2 DEF Turn, Fences
  <2>2. Amounts' /\ sequence' > sequence
    BY <1>0, <1>1, <1>2 DEF Shape, Amounts
  <2> QED BY <1>1, <1>2, <2>1, <2>2 DEF Command
<1>3. CASE /\ entries[i].plan = p /\ entries[i].state \in {"HELD", "POSTED"}
           /\ saveEntry(i, e, -1, sequence)
  <2>1. entries[i] \in RiskEntry /\ e.plan \in Plan
    BY <1>0, <1>3 DEF Shape, Entries, RiskEntry
  <2>2. Saves(i, -1, sequence) /\ Writes(i, e)
    <3> HIDE DEF e
    <3> QED BY <1>0, <1>3, <2>1, SaveEntry
  <2>3. Turn(i)
    BY <1>3, <2>2 DEF Turn, Releases, Occupying, IInv, Lifecycle
  <2>4. loss' \in [Account -> Nat]
    BY <1>0, <1>1 DEF Shape, Amounts
  <2> QED BY <1>0, <1>1, <2>2, <2>3, <2>4, SavedAmounts
<1> QED BY <1>2, <1>3 DEF releaseUnsentRisk

\* So is every risk command.
LEMMA CommandSteps ==
    ASSUME IInv, CensusCommand \/ ReleaseCommand \/ ResolveCommand
    PROVE  Command
<1>1. CASE CensusCommand
  BY <1>1, ReserveSteps, BeginPostSteps DEF CensusCommand
<1>2. CASE ReleaseCommand
  <2>1. PICK i \in Intent, gen \in 1..generation : \E keys \in SUBSET RealAccount : \E c \in Census(keys) :
            \E t \in {"FILLED", "CANCELED", "REJECTED"},
               ledger \in LostBy(Settled(i))..LostBy(IntentsOf(IntentAccount[i])) :
                resolveReleased(i, entries[i].plan, t, ledger, c, sequence, gen)
    BY <1>2 DEF ReleaseCommand
  <2>2. PICK keys \in SUBSET RealAccount : \E c \in Census(keys) :
            \E t \in {"FILLED", "CANCELED", "REJECTED"},
               ledger \in LostBy(Settled(i))..LostBy(IntentsOf(IntentAccount[i])) :
                resolveReleased(i, entries[i].plan, t, ledger, c, sequence, gen)
    BY <2>1
  <2>3. PICK c \in Census(keys), t \in {"FILLED", "CANCELED", "REJECTED"},
             ledger \in LostBy(Settled(i))..LostBy(IntentsOf(IntentAccount[i])) :
                resolveReleased(i, entries[i].plan, t, ledger, c, sequence, gen)
    BY <2>2
  <2>4. ledger \in Int
    OBVIOUS
  <2> QED BY <2>3, <2>4, ReleaseSteps
<1>3. CASE ResolveCommand
  BY <1>3, ResolveOpenSteps, ReleaseUnsentSteps DEF ResolveCommand
<1> QED BY <1>1, <1>2, <1>3
-----------------------------------------------------------------------------
\* The clock, a new session or a loss at the exchange.
Quiet ==
    /\ UNCHANGED <<governance, book, revoked>>
    /\ generation' \in Nat /\ now' \in Nat \ {0} /\ realised' \in [Intent -> Nat]

\* The clock, a session and a loss leave book and policy alone.
LEMMA QuietSteps == ASSUME IInv, acceptRuntime \/ Environment PROVE Quiet
<1>1. CASE acceptRuntime
  BY <1>1 DEF acceptRuntime, Quiet, IInv, Shape
<1>2. CASE Tick
  BY <1>2 DEF Tick, Quiet, IInv, Shape
<1>3. ASSUME NEW i \in Intent, NEW usd \in 1..CampaignLimit, Lose(i, usd)
      PROVE  Quiet
  <2>1. usd \in Nat
    BY BoundAssumption
  <2>2. realised' \in [Intent -> Nat]
    BY <1>3, <2>1 DEF Lose, IInv, Shape
  <2> QED BY <1>3, <2>2 DEF Lose, Quiet, IInv, Shape
<1> QED BY <1>1, <1>2, <1>3 DEF Environment

\* The entry a turn writes.
LEMMA TurnEntries ==
    ASSUME IInv, NEW i \in Intent, Turn(i)
    PROVE  /\ Entries'
           /\ \A j \in Intent \ {i} : entries'[j] = entries[j] /\ fence'[j] = fence[j]
<1>0. Entries /\ Shape
  BY DEF IInv, Shape
<1>1. ASSUME NEW e \in RiskEntry, Writes(i, e)
      PROVE  /\ Entries'
             /\ \A j \in Intent \ {i} : entries'[j] = entries[j] /\ fence'[j] = fence[j]
  BY <1>0, <1>1 DEF Writes, Entries
<1>2. CASE Holds(i)
  BY <1>0, <1>1, <1>2, NewEntryType DEF Holds
<1>3. entries[i] \in RiskEntry /\ now \in Nat
  BY <1>0 DEF Entries, Shape
<1>4. CASE Posts(i)
  <2>1. [entries[i] EXCEPT !.state = "POSTED", !.posted = now] \in RiskEntry
    BY <1>3 DEF RiskEntry, EntryState
  <2> QED BY <1>1, <1>4, <2>1 DEF Posts
<1>5. CASE Resolves(i)
  <2>1. \A to \in {"UNKNOWN", "OPEN"} : [entries[i] EXCEPT !.state = to] \in RiskEntry
    BY <1>3 DEF RiskEntry, EntryState
  <2> QED BY <1>1, <1>5, <2>1 DEF Resolves
<1>6. CASE Releases(i)
  <2>1. [entries[i] EXCEPT !.state = "RELEASED"] \in RiskEntry
    BY <1>3 DEF RiskEntry, EntryState
  <2> QED BY <1>1, <1>6, <2>1 DEF Releases
<1>7. CASE Fences(i)
  BY <1>0, <1>7 DEF Fences, Entries
<1> QED BY <1>2, <1>4, <1>5, <1>6, <1>7 DEF Turn

\* What the entry and the fence of intent i are after a turn of i.
After(i) ==
    \/ /\ entries[i].state = "NONE" /\ fence'[i] = NoPlan /\ fence[i] = NoPlan
       /\ entries'[i].state = "HELD" /\ entries'[i].posted = 0 /\ entries'[i].plan \in Plan
       /\ entries'[i].revision = governance.revision
    \/ /\ entries[i].state = "HELD" /\ entries[i].revision = governance.revision /\ authority.enabled
       /\ entries'[i].state = "POSTED" /\ entries'[i].posted = now
       /\ entries'[i].plan = entries[i].plan /\ entries'[i].revision = entries[i].revision
       /\ fence'[i] = fence[i]
    \/ /\ entries[i].state \in {"HELD", "POSTED", "UNKNOWN"} /\ entries'[i].state \in {"UNKNOWN", "OPEN"}
       /\ entries'[i].state = "OPEN" => entries[i].state # "HELD"
       /\ entries'[i].state = "UNKNOWN" => entries[i].state # "UNKNOWN"
       /\ entries'[i].posted = entries[i].posted
       /\ entries'[i].plan = entries[i].plan /\ entries'[i].revision = entries[i].revision
       /\ fence'[i] = fence[i]
    \/ /\ Occupying(entries[i]) /\ (entries[i].state = "HELD" \/ entries[i].posted # 0)
       /\ entries'[i].state = "RELEASED" /\ entries'[i].posted = entries[i].posted
       /\ entries'[i].plan = entries[i].plan /\ entries'[i].revision = entries[i].revision
       /\ fence'[i] = fence[i]
    \/ /\ entries[i].state = "NONE" /\ fence[i] = NoPlan /\ fence'[i] \in Plan
       /\ entries'[i] = entries[i]

\* The five kinds of turn, field by field.
LEMMA TurnAfter == ASSUME IInv, NEW i \in Intent, Turn(i) PROVE After(i)
<1>0. /\ entries \in [Intent -> RiskEntry] /\ fence \in [Intent -> Plan \cup {NoPlan}] /\ Shape
      /\ entries[i] \in RiskEntry
  BY DEF IInv, Shape, Entries
<1>1. ASSUME NEW e, Writes(i, e)
      PROVE  entries'[i] = e /\ fence'[i] = fence[i]
  BY <1>0, <1>1 DEF Writes
<1>2. CASE Holds(i)
  <2>1. PICK p \in Plan : Writes(i, newEntry(p))
    BY <1>2 DEF Holds
  <2>2. entries'[i] = newEntry(p) /\ fence'[i] = fence[i]
    BY <1>1, <2>1
  <2> QED BY <1>2, <2>2 DEF Holds, newEntry, After
<1>3. CASE Posts(i)
  <2>1. entries'[i] = [entries[i] EXCEPT !.state = "POSTED", !.posted = now] /\ fence'[i] = fence[i]
    BY <1>1, <1>3 DEF Posts
  <2> QED BY <1>0, <1>3, <2>1 DEF Posts, RiskEntry, After
<1>4. CASE Resolves(i)
  <2>1. PICK to \in {"UNKNOWN", "OPEN"} :
            /\ entries[i].state \in {"HELD", "POSTED", "UNKNOWN"}
            /\ to = "OPEN" => entries[i].state # "HELD"
            /\ to = "UNKNOWN" => entries[i].state # "UNKNOWN"
            /\ Writes(i, [entries[i] EXCEPT !.state = to])
    BY <1>4 DEF Resolves
  <2>2. entries'[i] = [entries[i] EXCEPT !.state = to] /\ fence'[i] = fence[i]
    BY <1>1, <2>1
  <2> QED BY <1>0, <2>1, <2>2 DEF RiskEntry, After
<1>5. CASE Releases(i)
  <2>1. entries'[i] = [entries[i] EXCEPT !.state = "RELEASED"] /\ fence'[i] = fence[i]
    BY <1>1, <1>5 DEF Releases
  <2> QED BY <1>0, <1>5, <2>1 DEF Releases, RiskEntry, After
<1>6. CASE Fences(i)
  BY <1>0, <1>6 DEF Fences, After
<1> QED BY <1>2, <1>3, <1>4, <1>5, <1>6 DEF Turn

\* A risk command preserves the invariant.
LEMMA CommandIInv == ASSUME IInv, Command PROVE IInv'
<1>0. /\ UNCHANGED <<governance, generation, campaign_limit_usd, now, realised, revoked>>
      /\ Amounts' /\ authority' = authority
  BY DEF Command, authority
<1>1. Entries'
  <2>1. CASE UNCHANGED <<entries, fence>>
    BY <2>1 DEF IInv, Shape, Entries
  <2> QED BY <2>1, TurnEntries DEF Command
<1>2. Shape'
  BY <1>0, <1>1 DEF IInv, Shape
<1>3. CampaignCopiesAgree'
  BY <1>0 DEF IInv, CampaignCopiesAgree
<1>4. OccupiedAccountsRegistered'
  <2>1. \A a \in Account : accounts[a] > 0 => a \in RealEnrolled(governance)
    BY Authority DEF IInv, OccupiedAccountsRegistered
  <2>2. \A a \in Account : accounts'[a] > 0 => a \in RealEnrolled(governance)
    BY <2>1 DEF Command
  <2> QED BY <1>0, <2>2, Authority DEF OccupiedAccountsRegistered
<1>5. ASSUME NEW i \in Intent, Turn(i)
      PROVE  Lifecycle' /\ Revocation'
  <2>1. After(i)
    BY <1>5, TurnAfter
  <2>2. \A j \in Intent \ {i} : entries'[j] = entries[j] /\ fence'[j] = fence[j]
    BY <1>5, TurnEntries
  <2>3. now # 0 /\ revoked \subseteq Intent /\ governance.revision \in Nat /\ NoPlan \notin Plan
    BY PlanAssumption DEF IInv, Shape, Governance
  <2>4. /\ fence'[i] # NoPlan => entries'[i].state = "NONE"
        /\ entries'[i].state = "NONE" => entries'[i].posted = 0
        /\ entries'[i].state = "HELD" => entries'[i].posted = 0
        /\ entries'[i].state = "POSTED" => entries'[i].posted # 0
        /\ entries'[i].state # "NONE" => entries'[i].plan \in Plan
        /\ entries'[i].revision <= governance.revision
    BY <2>1, <2>3 DEF After, IInv, Lifecycle, Occupying
  <2>5. Lifecycle'
    BY <1>0, <2>2, <2>4 DEF IInv, Lifecycle
  <2>6. ASSUME i \in revoked
        PROVE  /\ entries'[i].state # "NONE" /\ entries'[i].posted = 0
               /\ entries'[i].state # "HELD"
    <3>1. /\ entries[i].state # "NONE" /\ entries[i].posted = 0
          /\ entries[i].state = "HELD" => entries[i].revision < governance.revision \/ ~authority.enabled
      BY <2>6 DEF IInv, Revocation
    <3> QED BY <2>1, <2>3, <3>1 DEF After
  <2>7. Revocation'
    BY <1>0, <2>2, <2>3, <2>6 DEF IInv, Revocation
  <2> QED BY <2>5, <2>7
<1>6. Lifecycle' /\ Revocation'
  <2>1. CASE UNCHANGED <<entries, fence>>
    BY <1>0, <2>1 DEF IInv, Lifecycle, Revocation
  <2> QED BY <2>1, <1>5 DEF Command
<1> QED BY <1>2, <1>3, <1>4, <1>6 DEF IInv

\* A revision of the policy preserves it: what was held becomes older than the policy.
LEMMA PolicyIInv == ASSUME IInv, Policy PROVE IInv'
<1>0. /\ UNCHANGED <<generation, occupied_usdt, occupied_usd, consumed_loss_usd, accounts, entries,
                     fence, strategy, aggregate, loss, now, realised>>
      /\ governance' \in Governance /\ campaign_limit_usd' \in Nat
      /\ sequence' \in {sequence, sequence + 1}
      /\ revoked' \subseteq revoked \cup {i \in Intent : entries[i].state = "HELD"}
      /\ governance.revision \in Nat /\ governance'.revision \in Nat
      /\ revoked \subseteq Intent
  BY DEF Policy, Revised, IInv, Shape, Governance
<1>1. Shape'
  BY <1>0 DEF IInv, Shape, Amounts, Entries
<1>2. CampaignCopiesAgree'
  <2>1. governance.campaign_loss_limit_usd \in Nat /\ governance'.campaign_loss_limit_usd \in Nat
    BY <1>0 DEF IInv, Shape, Governance
  <2>2. campaign_limit_usd \in Nat /\ campaign_limit_usd' \in Nat /\ CampaignLimit \in Nat
    BY BoundAssumption, <1>0 DEF IInv, Shape
  <2> QED BY <2>1, <2>2 DEF Policy, IInv, CampaignCopiesAgree
<1>3. OccupiedAccountsRegistered'
  <2>1. RealEnrolled(governance) \subseteq RealEnrolled(governance')
    BY RealAssumption DEF Policy, Revised, RealEnrolled, Enrolled
  <2>2. \A a \in Account : accounts[a] > 0 => a \in RealEnrolled(governance)
    BY Authority DEF IInv, OccupiedAccountsRegistered
  <2>3. DOMAIN authority'.account_limits_usdt = RealEnrolled(governance')
    BY DEF authority, projectRiskPolicy
  <2> QED BY <1>0, <2>1, <2>2, <2>3 DEF OccupiedAccountsRegistered
<1>4. governance'.revision >= governance.revision
  BY <1>0 DEF Policy, Revised
<1>5. Lifecycle'
  <2>1. \A i \in Intent : entries[i].revision \in Nat
    BY DEF IInv, Shape, Entries, RiskEntry
  <2> QED BY <1>0, <1>4, <2>1 DEF IInv, Lifecycle
<1>6. Revocation'
  <2> SUFFICES ASSUME NEW i \in revoked'
               PROVE  /\ entries[i].state # "NONE" /\ entries[i].posted = 0
                      /\ entries[i].state = "HELD" =>
                            entries[i].revision < governance'.revision \/ ~authority'.enabled
    BY <1>0 DEF Revocation
  <2>1. i \in Intent /\ entries[i].revision \in Nat /\ entries[i].revision <= governance.revision
    BY <1>0 DEF IInv, Lifecycle, Shape, Entries, RiskEntry
  <2>2. entries[i].state # "NONE" /\ entries[i].posted = 0
    BY <1>0, <2>1 DEF IInv, Revocation, Lifecycle
  <2>3. CASE Revised(governance, governance')
    <3>1. entries[i].revision < governance'.revision
      BY <1>0, <2>1, <2>3 DEF Revised
    <3> QED BY <2>2, <3>1
  <2>4. CASE governance' = governance /\ ~authority.enabled
    <3>1. ~authority'.enabled
      BY <2>4 DEF authority
    <3> QED BY <2>2, <3>1
  <2> QED BY <2>3, <2>4 DEF Policy
<1> QED BY <1>1, <1>2, <1>3, <1>5, <1>6 DEF IInv

\* The environment preserves it.
LEMMA QuietIInv == ASSUME IInv, Quiet PROVE IInv'
<1>0. authority' = authority
  BY DEF Quiet, authority
<1>1. Shape'
  BY DEF Quiet, IInv, Shape, Amounts, Entries, book, meta
<1>2. CampaignCopiesAgree' /\ OccupiedAccountsRegistered'
  BY <1>0 DEF Quiet, IInv, book, meta, CampaignCopiesAgree, OccupiedAccountsRegistered
<1>3. Lifecycle' /\ Revocation'
  BY <1>0 DEF Quiet, IInv, book, meta, Lifecycle, Revocation
<1> QED BY <1>1, <1>2, <1>3 DEF IInv

\* The invariant holds at the start.
LEMMA InitIInv == Init => IInv
<1> SUFFICES ASSUME Init PROVE IInv
  OBVIOUS
<1>1. NotEnrolled \in AccountAccess /\ ~NotEnrolled.enrolled
  BY DEF NotEnrolled, AccountAccess, NoStrategies, Limits
<1>2. PICK total \in TotalChoice : governance = InstalledGovernance(CampaignLimit, total)
  BY DEF Init
<1>3. governance \in Governance /\ governance.campaign_loss_limit_usd = CampaignLimit
  BY <1>1, <1>2, BoundAssumption DEF InstalledGovernance, Governance
<1>4. NoEntry \in RiskEntry
  BY DEF NoEntry, RiskEntry, EntryState
<1>5. Shape
  BY <1>3, <1>4, BoundAssumption DEF Init, Shape, Amounts, Entries, NoStrategies
<1>6. Lifecycle /\ Revocation
  BY <1>3, PlanAssumption DEF Init, Lifecycle, Revocation, NoEntry, Governance
<1>7. CampaignCopiesAgree /\ OccupiedAccountsRegistered
  BY <1>3, BoundAssumption DEF Init, CampaignCopiesAgree, OccupiedAccountsRegistered
<1> QED BY <1>5, <1>6, <1>7 DEF IInv

\* A step is a command, a revision or quiet.
LEMMA NextSteps ==
    ASSUME IInv, [Next]_vars
    PROVE  Command \/ Policy \/ Quiet
<1>1. CASE UNCHANGED vars
  BY <1>1 DEF vars, Quiet, IInv, Shape
<1> QED BY <1>1, CommandSteps, PolicySteps, QuietSteps DEF Next

\* Every step preserves the invariant.
LEMMA NextIInv == IInv /\ [Next]_vars => IInv'
BY NextSteps, CommandIInv, PolicyIInv, QuietIInv

\* So it always holds.
LEMMA BookInvariance == Spec => []IInv
<1> QED BY InitIInv, NextIInv, PTL DEF Spec
-----------------------------------------------------------------------------
\* The sums of the book.  Counted: every total is the sum of the entries it stands for.
OfStrategy(a, s) == {i \in OccupyingIntents(a) : PlanStrategy[entries[i].plan] = s}

Counted ==
    /\ campaign_limit_usd > 0
    /\ occupied_usdt = SumOver(Account, accounts)
    /\ occupied_usd = SumOver(Account, [a \in Account |-> aggregate[a].occupied_usd])
    /\ \A a \in Account :
        /\ aggregate[a].occupied_usdt = accounts[a]
        /\ aggregate[a].active = Cardinality(OccupyingIntents(a))
        /\ aggregate[a].occupied_usd = UsdOf(OccupyingIntents(a))
        /\ accounts[a] = UsdtOf(OccupyingIntents(a))
        /\ \A s \in Strategy : strategy[a][s] = UsdtOf(OfStrategy(a, s))

\* One element that comes or goes is one more or one less.
LEMMA CardinalityMoves ==
    ASSUME NEW S, IsFiniteSet(S), NEW r \in SUBSET S, NEW s \in SUBSET S, NEW x, r \ {x} = s \ {x}
    PROVE  Cardinality(s) = Cardinality(r) + (IF x \in s THEN 1 ELSE 0) - (IF x \in r THEN 1 ELSE 0)
<1>0. IsFiniteSet(r) /\ IsFiniteSet(s)
  BY FS_Subset
<1>1. Cardinality(r) \in Nat /\ Cardinality(s) \in Nat
  BY <1>0, FS_CardinalityType
<1>2. Cardinality(r \ {x}) = IF x \in r THEN Cardinality(r) - 1 ELSE Cardinality(r)
  BY <1>0, FS_RemoveElement
<1>3. Cardinality(s \ {x}) = IF x \in s THEN Cardinality(s) - 1 ELSE Cardinality(s)
  BY <1>0, FS_RemoveElement
<1>4. Cardinality(r \ {x}) = Cardinality(s \ {x})
  OBVIOUS
<1> QED BY <1>1, <1>2, <1>3, <1>4

\* The sum of what the plans of some entries hold.
PlanSum(val, S, es) == SumOver(S, [i \in S |-> val[es[i].plan]])

\* What a new entry of one intent does to a sum over entries.
LEMMA EntrySums ==
    ASSUME NEW val \in [Plan -> Nat], NEW i \in Intent, NEW old, NEW new,
           NEW r \in SUBSET Intent, NEW s \in SUBSET Intent, r \ {i} = s \ {i},
           \A j \in r : old[j].plan \in Plan, \A j \in s : new[j].plan \in Plan,
           \A j \in Intent \ {i} : new[j] = old[j]
    PROVE  PlanSum(val, s, new) =
             PlanSum(val, r, old)
               + (IF i \in s THEN val[new[i].plan] ELSE 0) - (IF i \in r THEN val[old[i].plan] ELSE 0)
<1> DEFINE f == [j \in r |-> val[old[j].plan]]
           g == [j \in s |-> val[new[j].plan]]
<1>1. /\ \A j \in r : f[j] \in Int
      /\ \A j \in s : g[j] \in Int
      /\ \A j \in r \ {i} : f[j] = g[j]
  OBVIOUS
<1>2. (i \in s => g[i] = val[new[i].plan]) /\ (i \in r => f[i] = val[old[i].plan])
  OBVIOUS
<1> HIDE DEF f, g
<1>3. SumOver(s, g) = SumOver(r, f) + (IF i \in s THEN g[i] ELSE 0) - (IF i \in r THEN f[i] ELSE 0)
  BY <1>1, FiniteAssumption, SumMoves
<1>4. SumOver(s, g) = SumOver(r, f) + (IF i \in s THEN val[new[i].plan] ELSE 0)
                                    - (IF i \in r THEN val[old[i].plan] ELSE 0)
  BY <1>2, <1>3
<1> QED BY <1>4 DEF f, g, PlanSum

\* Such sums are integers, and so is a number of entries.
LEMMA PlanSumInt ==
    ASSUME NEW val \in [Plan -> Nat], NEW r \in SUBSET Intent, NEW old, \A j \in r : old[j].plan \in Plan
    PROVE  PlanSum(val, r, old) \in Nat /\ Cardinality(r) \in Nat
<1> DEFINE f == [j \in r |-> val[old[j].plan]]
<1>1. IsFiniteSet(r)
  BY FiniteAssumption, FS_Subset
<1>2. \A j \in r : f[j] \in Nat
  OBVIOUS
<1> HIDE DEF f
<1>3. SumOver(r, f) \in Nat
  BY <1>1, <1>2, SumNat
<1> QED BY <1>1, <1>3, FS_CardinalityType DEF f, PlanSum

\* How one intent counts.
Counts(e) == IF Occupying(e) THEN 1 ELSE 0

\* saveEntry keeps the totals: sign is what the entry counts for more than before.
LEMMA SavedCounted ==
    ASSUME IInv, Counted, NEW i \in Intent, NEW e \in RiskEntry, e.plan \in Plan, NEW sign, NEW at,
           saveEntry(i, e, sign, at), sign = Counts(e) - Counts(entries[i]),
           Occupying(entries[i]) => entries[i].plan = e.plan
    PROVE  /\ Counted'
           /\ occupied_usd' = occupied_usd + (IF sign = 1 THEN PlanUsd[e.plan]
                                              ELSE IF sign = 0 THEN 0 ELSE 0 - PlanUsd[e.plan])
<1> DEFINE b == IntentAccount[i]
           st == PlanStrategy[e.plan]
           usdt == sign * PlanLoss[e.plan]
           usd == sign * PlanUsd[e.plan]
           row == aggregate[b]
           was == Occupying(entries[i])
           is == Occupying(e)
<1>0. /\ entries \in [Intent -> RiskEntry] /\ accounts \in [Account -> Nat]
      /\ strategy \in [Account -> [Strategy -> Nat]]
      /\ aggregate \in [Account -> [active : Nat, occupied_usd : Nat, occupied_usdt : Nat]]
      /\ {occupied_usdt, occupied_usd} \subseteq Nat
  BY DEF IInv, Shape, Amounts, Entries
<1>1. /\ aggregate' = [aggregate EXCEPT ![b] =
              [active |-> row.active + sign, occupied_usd |-> row.occupied_usd + usd,
               occupied_usdt |-> row.occupied_usdt + usdt]]
      /\ accounts' = [accounts EXCEPT ![b] = accounts[b] + usdt]
      /\ occupied_usdt' = occupied_usdt + usdt
      /\ occupied_usd' = occupied_usd + usd
      /\ strategy' = [strategy EXCEPT ![b] = [strategy[b] EXCEPT ![st] = strategy[b][st] + usdt]]
      /\ entries' = [entries EXCEPT ![i] = e]
      /\ UNCHANGED campaign_limit_usd
  BY DEF saveEntry, strategyAfter
<1>2. /\ b \in Account /\ st \in Strategy
      /\ PlanLoss \in [Plan -> Nat] /\ PlanUsd \in [Plan -> Nat]
      /\ PlanLoss[e.plan] \in Nat /\ PlanUsd[e.plan] \in Nat
  BY PlanAssumption, RealAssumption
<1>3. /\ (is /\ ~was) => sign = 1 /\ usdt = PlanLoss[e.plan] /\ usd = PlanUsd[e.plan]
      /\ (was /\ ~is) => sign = -1 /\ usdt = 0 - PlanLoss[e.plan] /\ usd = 0 - PlanUsd[e.plan]
      /\ (is <=> was) => sign = 0 /\ usdt = 0 /\ usd = 0
      /\ sign \in Int /\ usdt \in Int /\ usd \in Int
  <2>1. sign = (IF is THEN 1 ELSE 0) - (IF was THEN 1 ELSE 0)
    BY DEF Counts
  <2> HIDE DEF is, was
  <2>2. CASE is /\ ~was
    BY <1>2, <2>1, <2>2
  <2>3. CASE was /\ ~is
    BY <1>2, <2>1, <2>3
  <2>4. CASE is /\ was
    BY <1>2, <2>1, <2>4
  <2>5. CASE ~is /\ ~was
    BY <1>2, <2>1, <2>5
  <2> QED BY <2>2, <2>3, <2>4, <2>5
<1>4. /\ \A j \in Intent \ {i} : entries'[j] = entries[j]
      /\ entries'[i] = e
      /\ \A j \in Intent : Occupying(entries[j]) => entries[j].plan \in Plan
  BY <1>0, <1>1 DEF IInv, Lifecycle, Occupying
<1>5. was => entries[i].plan = e.plan
  OBVIOUS
<1>6. \A a \in Account : OccupyingIntents(a)' = {j \in Intent : IntentAccount[j] = a /\ Occupying(entries'[j])}
  BY DEF OccupyingIntents, IntentsOf, Occupying
<1>7. \A a \in Account : OccupyingIntents(a) = {j \in Intent : IntentAccount[j] = a /\ Occupying(entries[j])}
  BY DEF OccupyingIntents, IntentsOf
<1> HIDE DEF b, st, usdt, usd, row, was, is
<1>8. ASSUME NEW a \in Account
      PROVE  /\ OccupyingIntents(a)' \in SUBSET Intent /\ OccupyingIntents(a) \in SUBSET Intent
             /\ OccupyingIntents(a) \ {i} = OccupyingIntents(a)' \ {i}
             /\ i \in OccupyingIntents(a)' <=> a = b /\ is
             /\ i \in OccupyingIntents(a) <=> a = b /\ was
             /\ \A j \in OccupyingIntents(a) : entries[j].plan \in Plan
             /\ \A j \in OccupyingIntents(a)' : entries'[j].plan \in Plan
  BY <1>4, <1>6, <1>7 DEF b, is, was
<1>9. ASSUME NEW a \in Account
      PROVE  /\ UsdOf(OccupyingIntents(a))' = UsdOf(OccupyingIntents(a)) + (IF a = b THEN usd ELSE 0)
             /\ UsdtOf(OccupyingIntents(a))' = UsdtOf(OccupyingIntents(a)) + (IF a = b THEN usdt ELSE 0)
             /\ Cardinality(OccupyingIntents(a))' = Cardinality(OccupyingIntents(a)) + (IF a = b THEN sign ELSE 0)
  <2> DEFINE r == OccupyingIntents(a)
             s == OccupyingIntents(a)'
  <2>1. /\ s \in SUBSET Intent /\ r \in SUBSET Intent /\ r \ {i} = s \ {i}
        /\ i \in s <=> a = b /\ is
        /\ i \in r <=> a = b /\ was
        /\ \A j \in r : entries[j].plan \in Plan
        /\ \A j \in s : entries'[j].plan \in Plan
    BY <1>8
  <2>2. /\ UsdOf(r) = PlanSum(PlanUsd, r, entries)
        /\ UsdtOf(r) = PlanSum(PlanLoss, r, entries)
        /\ UsdOf(r)' = PlanSum(PlanUsd, s, entries')
        /\ UsdtOf(r)' = PlanSum(PlanLoss, s, entries')
    BY DEF UsdOf, UsdtOf, PlanSum
  <2>20. Cardinality(r)' = Cardinality(s)
    OBVIOUS
  <2> HIDE DEF r, s
  <2>3. /\ PlanSum(PlanUsd, s, entries') =
             PlanSum(PlanUsd, r, entries)
               + (IF i \in s THEN PlanUsd[entries'[i].plan] ELSE 0) - (IF i \in r THEN PlanUsd[entries[i].plan] ELSE 0)
        /\ PlanSum(PlanLoss, s, entries') =
             PlanSum(PlanLoss, r, entries)
               + (IF i \in s THEN PlanLoss[entries'[i].plan] ELSE 0) - (IF i \in r THEN PlanLoss[entries[i].plan] ELSE 0)
    BY <1>2, <1>4, <2>1, EntrySums
  <2>4. Cardinality(s) = Cardinality(r) + (IF i \in s THEN 1 ELSE 0) - (IF i \in r THEN 1 ELSE 0)
    BY <2>1, FiniteAssumption, CardinalityMoves
  <2>5. /\ PlanSum(PlanUsd, r, entries) \in Int
        /\ PlanSum(PlanLoss, r, entries) \in Int
        /\ Cardinality(r) \in Int
    BY <1>2, <2>1, PlanSumInt
  <2>6. /\ (IF i \in s THEN PlanUsd[entries'[i].plan] ELSE 0) - (IF i \in r THEN PlanUsd[entries[i].plan] ELSE 0)
             = IF a = b THEN usd ELSE 0
        /\ (IF i \in s THEN PlanLoss[entries'[i].plan] ELSE 0) - (IF i \in r THEN PlanLoss[entries[i].plan] ELSE 0)
             = IF a = b THEN usdt ELSE 0
        /\ (IF i \in s THEN 1 ELSE 0) - (IF i \in r THEN 1 ELSE 0) = IF a = b THEN sign ELSE 0
    BY <1>2, <1>3, <1>4, <1>5, <2>1
  <2> QED BY <1>2, <1>4, <1>5, <2>1, <2>2, <2>20, <2>3, <2>4, <2>5, <2>6 DEF r, s
<1>10. ASSUME NEW a \in Account, NEW q \in Strategy
       PROVE  UsdtOf(OfStrategy(a, q))' = UsdtOf(OfStrategy(a, q)) + (IF a = b /\ q = st THEN usdt ELSE 0)
  <2> DEFINE r == OfStrategy(a, q)
             s == OfStrategy(a, q)'
  <2>0. /\ s = {j \in Intent : IntentAccount[j] = a /\ Occupying(entries'[j]) /\ PlanStrategy[entries'[j].plan] = q}
        /\ r = {j \in Intent : IntentAccount[j] = a /\ Occupying(entries[j]) /\ PlanStrategy[entries[j].plan] = q}
    BY <1>6, <1>7 DEF OfStrategy
  <2>2. /\ UsdtOf(r) = PlanSum(PlanLoss, r, entries)
        /\ UsdtOf(r)' = PlanSum(PlanLoss, s, entries')
    BY DEF UsdtOf, PlanSum
  <2> HIDE DEF r, s
  <2>1. /\ s \in SUBSET Intent /\ r \in SUBSET Intent /\ r \ {i} = s \ {i}
        /\ i \in s <=> a = b /\ is /\ q = st
        /\ i \in r <=> a = b /\ was /\ q = st
        /\ \A j \in r : entries[j].plan \in Plan
        /\ \A j \in s : entries'[j].plan \in Plan
    BY <1>4, <1>5, <2>0 DEF b, is, was, st
  <2>3. PlanSum(PlanLoss, s, entries') =
             PlanSum(PlanLoss, r, entries)
               + (IF i \in s THEN PlanLoss[entries'[i].plan] ELSE 0) - (IF i \in r THEN PlanLoss[entries[i].plan] ELSE 0)
    BY <1>2, <1>4, <2>1, EntrySums
  <2>4. r \in SUBSET Intent /\ \A j \in r : entries[j].plan \in Plan
    BY <2>1
  <2>5. PlanSum(PlanLoss, r, entries) \in Nat
    BY <1>2, <2>4, PlanSumInt
  <2>6. (IF i \in s THEN PlanLoss[entries'[i].plan] ELSE 0) - (IF i \in r THEN PlanLoss[entries[i].plan] ELSE 0)
             = IF a = b /\ q = st THEN usdt ELSE 0
    BY <1>2, <1>3, <1>4, <1>5, <2>1
  <2> QED BY <1>2, <1>4, <1>5, <2>1, <2>2, <2>3, <2>5, <2>6 DEF r, s
<1>11. ASSUME NEW a \in Account
       PROVE  /\ aggregate'[a].occupied_usdt = aggregate[a].occupied_usdt + (IF a = b THEN usdt ELSE 0)
              /\ aggregate'[a].active = aggregate[a].active + (IF a = b THEN sign ELSE 0)
              /\ aggregate'[a].occupied_usd = aggregate[a].occupied_usd + (IF a = b THEN usd ELSE 0)
              /\ accounts'[a] = accounts[a] + (IF a = b THEN usdt ELSE 0)
              /\ \A q \in Strategy : strategy'[a][q] = strategy[a][q] + (IF a = b /\ q = st THEN usdt ELSE 0)
  <2>0. /\ aggregate[a] \in [active : Nat, occupied_usd : Nat, occupied_usdt : Nat]
        /\ accounts[a] \in Nat /\ strategy[a] \in [Strategy -> Nat]
    BY <1>0
  <2>1. CASE a = b
    <3>1. aggregate'[a] = [active |-> row.active + sign, occupied_usd |-> row.occupied_usd + usd,
                           occupied_usdt |-> row.occupied_usdt + usdt]
      BY <1>0, <1>1, <1>2, <2>1
    <3>2. accounts'[a] = accounts[a] + usdt
      BY <1>0, <1>1, <1>2, <2>1
    <3>3. strategy'[a] = [strategy[a] EXCEPT ![st] = strategy[a][st] + usdt]
      BY <1>0, <1>1, <1>2, <2>1
    <3>4. \A q \in Strategy : strategy'[a][q] = strategy[a][q] + (IF q = st THEN usdt ELSE 0)
      BY <1>3, <2>0, <3>3
    <3> QED BY <2>1, <3>1, <3>2, <3>4 DEF row
  <2>2. CASE a # b
    <3>1. aggregate'[a] = aggregate[a] /\ accounts'[a] = accounts[a] /\ strategy'[a] = strategy[a]
      BY <1>0, <1>1, <1>2, <2>2
    <3> QED BY <2>0, <2>2, <3>1
  <2> QED BY <2>1, <2>2
<1>12. ASSUME NEW a \in Account
       PROVE  /\ aggregate'[a].occupied_usdt = accounts'[a]
              /\ aggregate'[a].active = Cardinality(OccupyingIntents(a))'
              /\ aggregate'[a].occupied_usd = UsdOf(OccupyingIntents(a))'
              /\ accounts'[a] = UsdtOf(OccupyingIntents(a))'
              /\ \A q \in Strategy : strategy'[a][q] = UsdtOf(OfStrategy(a, q))'
  BY <1>9, <1>10, <1>11 DEF Counted
<1>13. SumOver(Account, accounts') = SumOver(Account, accounts) + usdt
  <2>1. /\ \A y \in Account : accounts[y] \in Int /\ accounts'[y] \in Int
        /\ \A y \in Account \ {b} : accounts[y] = accounts'[y]
    BY <1>0, <1>3, <1>11
  <2>2. SumOver(Account, accounts') = SumOver(Account, accounts) + accounts'[b] - accounts[b]
    BY <1>2, <2>1, FiniteAssumption, SumMoves
  <2> QED BY <1>2, <1>3, <1>11, <2>1, <2>2, FiniteAssumption, SumInt
<1>14. SumOver(Account, [a \in Account |-> aggregate'[a].occupied_usd]) =
         SumOver(Account, [a \in Account |-> aggregate[a].occupied_usd]) + usd
  <2> DEFINE f == [a \in Account |-> aggregate[a].occupied_usd]
             g == [a \in Account |-> aggregate'[a].occupied_usd]
  <2>1. /\ \A y \in Account : f[y] \in Int
        /\ \A y \in Account : g[y] = f[y] + (IF y = b THEN usd ELSE 0)
    BY <1>0, <1>11
  <2> HIDE DEF f, g
  <2>2. /\ \A y \in Account : g[y] \in Int
        /\ \A y \in Account \ {b} : f[y] = g[y]
        /\ g[b] = f[b] + usd
    BY <1>2, <1>3, <2>1
  <2>3. SumOver(Account, g) = SumOver(Account, f) + g[b] - f[b]
    BY <1>2, <2>1, <2>2, FiniteAssumption, SumMoves
  <2>4. SumOver(Account, g) = SumOver(Account, f) + usd
    BY <1>2, <1>3, <2>1, <2>2, <2>3, FiniteAssumption, SumInt
  <2> QED BY <2>4 DEF f, g
<1>15. Counted'
  BY <1>1, <1>12, <1>13, <1>14 DEF Counted
<1>16. usd = IF sign = 1 THEN PlanUsd[e.plan] ELSE IF sign = 0 THEN 0 ELSE 0 - PlanUsd[e.plan]
  BY <1>3
<1> QED BY <1>1, <1>15, <1>16

\* What accounts report lies between what their released orders lost and what all of them lost, and
\* an order loses nothing before its entry and no more than its entry holds.
Released(a) == {i \in IntentsOf(a) : entries[i].state = "RELEASED"}

Losses ==
    /\ consumed_loss_usd = SumOver(Account, loss)
    /\ \A a \in Account : LostBy(Released(a)) <= loss[a] /\ loss[a] <= LostBy(IntentsOf(a))
    /\ \A i \in Intent :
        /\ Occupying(entries[i]) => realised[i] <= PlanUsd[entries[i].plan]
        /\ entries[i].state = "NONE" => realised[i] = 0

\* What was lost by intents is a natural.
LEMMA LostNat ==
    ASSUME Shape
    PROVE  \A s \in SUBSET Intent : LostBy(s) \in Nat
<1> SUFFICES ASSUME NEW s \in SUBSET Intent PROVE LostBy(s) \in Nat
  OBVIOUS
<1>1. IsFiniteSet(s) /\ \A i \in s : realised[i] \in Nat
  BY FiniteAssumption, FS_Subset DEF Shape
<1> QED BY <1>1, SumNat DEF LostBy

\* The open entries hold what the book says is occupied.
LEMMA OccupiedIsOpen ==
    ASSUME IInv, Counted
    PROVE  UsdOf(Open) = occupied_usd
<1> DEFINE f == [i \in Open |-> PlanUsd[entries[i].plan]]
           t == [a \in Account |-> aggregate[a].occupied_usd]
<1>1. Open \in SUBSET Intent /\ IsFiniteSet(Open) /\ IsFiniteSet(Account)
  BY FiniteAssumption, FS_Subset DEF Open
<1>2. \A i \in Open : IntentAccount[i] \in Account /\ entries[i].plan \in Plan
  BY PlanAssumption, RealAssumption DEF Open, IInv, Lifecycle, Occupying
<1>3. \A i \in Open : f[i] \in Int
  BY <1>2, PlanAssumption
<1>4. ASSUME NEW a \in Account
      PROVE  t[a] = SumOver(KeyedBy(Open, IntentAccount, a), f)
  <2> DEFINE r == KeyedBy(Open, IntentAccount, a)
             g == [i \in r |-> PlanUsd[entries[i].plan]]
  <2>1. OccupyingIntents(a) = r
    BY DEF OccupyingIntents, IntentsOf, Open, KeyedBy
  <2>2. IsFiniteSet(r) /\ \A i \in r : g[i] \in Int /\ g[i] = f[i]
    BY <1>1, <1>3, FS_Subset DEF KeyedBy
  <2>3. t[a] = SumOver(r, g)
    BY <2>1 DEF Counted, UsdOf
  <2> HIDE DEF r, g, f
  <2>4. SumOver(r, g) = SumOver(r, f)
    BY <2>2, SumSame
  <2> QED BY <2>3, <2>4 DEF r
<1> HIDE DEF f, t
<1>5. SumOver(Account, t) = SumOver(Open, f)
  BY <1>1, <1>2, <1>3, <1>4, SumByKey
<1> QED BY <1>5 DEF f, t, UsdOf, Counted

\* What the closed entries lost has been charged.
LEMMA ClosedIsCharged ==
    ASSUME IInv, Losses
    PROVE  LostBy(Intent \ Open) <= consumed_loss_usd
<1> DEFINE C == Intent \ Open
           t == [a \in Account |-> LostBy(KeyedBy(C, IntentAccount, a))]
<1>0. C \in SUBSET Intent /\ IsFiniteSet(C) /\ IsFiniteSet(Account)
  BY FiniteAssumption, FS_Subset
<1>1. /\ \A i \in C : IntentAccount[i] \in Account
      /\ \A i \in Intent : realised[i] \in Nat
      /\ \A i \in C : entries[i].state \in {"NONE", "RELEASED"}
      /\ \A a \in Account : loss[a] \in Nat
  BY PlanAssumption, RealAssumption DEF IInv, Shape, Amounts, Entries, RiskEntry, EntryState, Open, Occupying
<1>2. SumOver(Account, t) = SumOver(C, realised)
  <2>1. \A i \in C : realised[i] \in Int
    BY <1>0, <1>1
  <2>2. \A a \in Account : t[a] = SumOver(KeyedBy(C, IntentAccount, a), realised)
    BY DEF LostBy
  <2> HIDE DEF C, t
  <2> QED BY <1>0, <1>1, <2>1, <2>2, SumByKey
<1>3. ASSUME NEW a \in Account
      PROVE  t[a] \in Int /\ t[a] <= loss[a]
  <2> DEFINE r == KeyedBy(C, IntentAccount, a)
             n == {i \in r : entries[i].state = "NONE"}
  <2>1. r = Released(a) \cup n /\ Released(a) \cap n = {} /\ Released(a) \in SUBSET Intent /\ n \in SUBSET Intent
    BY <1>1 DEF Released, IntentsOf, Open, Occupying, KeyedBy
  <2>2. LostBy(r) = LostBy(Released(a)) + LostBy(n)
    <3>1. \A i \in Intent : realised[i] \in Int
      BY <1>1
    <3> HIDE DEF r, n
    <3> QED BY <2>1, <3>1, FiniteAssumption, SumUnion DEF LostBy
  <2>3. LostBy(n) = 0
    <3>1. IsFiniteSet(n) /\ \A i \in n : realised[i] = 0
      BY <2>1, FiniteAssumption, FS_Subset DEF Losses
    <3> HIDE DEF n
    <3> QED BY <3>1, SumNat DEF LostBy
  <2>4. LostBy(Released(a)) \in Nat /\ LostBy(Released(a)) <= loss[a]
    BY <2>1, LostNat DEF Losses, IInv
  <2>5. t[a] = LostBy(r)
    OBVIOUS
  <2> HIDE DEF r, n, t
  <2> QED BY <1>1, <2>2, <2>3, <2>4, <2>5
<1>4. SumOver(Account, t) <= SumOver(Account, loss)
  <2> HIDE DEF t
  <2> QED BY <1>0, <1>1, <1>3, SumAtMost
<1> QED BY <1>2, <1>4 DEF LostBy, Losses

\* A census charges what the losses of its accounts grew by.
LEMMA ChargedLosses ==
    ASSUME IInv, Losses, NEW keys \in SUBSET RealAccount, NEW c \in Census(keys), lossAdvances(c)
    PROVE  /\ lossAfter(c) \in [Account -> Nat] /\ added(c) \in Nat
           /\ SumOver(Account, lossAfter(c)) = consumed_loss_usd + added(c)
           /\ \A a \in Account : loss[a] <= lossAfter(c)[a] /\ lossAfter(c)[a] <= LostBy(IntentsOf(a))
<1> DEFINE f == lossAfter(c)
           h == [a \in Account |-> IF a \in keys THEN c.loss[a] - loss[a] ELSE 0]
           g == [a \in keys |-> c.loss[a] - loss[a]]
<1>0. /\ c.keys = keys /\ f \in [Account -> Nat] /\ keys \in SUBSET Account
      /\ IsFiniteSet(keys) /\ IsFiniteSet(Account) /\ IsFiniteSet(Account \ keys)
  BY CensusType, FiniteAssumption, RealAssumption, FS_Subset DEF IInv
<1>1. f = [a \in Account |-> IF a \in keys THEN c.loss[a] ELSE loss[a]]
  BY <1>0 DEF lossAfter
<1>2. /\ \A a \in Account : loss[a] \in Nat
      /\ \A a \in keys : c.loss[a] \in Nat /\ c.loss[a] >= loss[a] /\ c.loss[a] <= LostBy(IntentsOf(a))
  BY <1>0, <1>1 DEF IInv, Shape, Amounts, lossAdvances, Census
<1>3. \A a \in Account : f[a] \in Int /\ loss[a] \in Int /\ h[a] = f[a] - loss[a]
  BY <1>0, <1>1, <1>2
<1>4. /\ \A a \in Account : h[a] \in Nat
      /\ \A a \in keys : h[a] = g[a]
      /\ \A a \in Account \ keys : h[a] = 0
  BY <1>0, <1>2
<1>5. \A a \in Account : loss[a] <= f[a] /\ f[a] <= LostBy(IntentsOf(a))
  BY <1>0, <1>1, <1>2 DEF Losses
<1>6. added(c) = SumOver(keys, g)
  BY <1>0 DEF added
<1> HIDE DEF f, g, h
<1>7. SumOver(Account, f) = SumOver(Account, loss) + SumOver(Account, h)
  BY <1>0, <1>3, SumDifference
<1>8. SumOver(keys, h) = SumOver(keys, g) /\ SumOver(keys, h) \in Nat
  <2>1. \A a \in keys : h[a] \in Int /\ h[a] = g[a] /\ h[a] \in Nat
    BY <1>0, <1>4
  <2> QED BY <1>0, <2>1, SumSame, SumNat
<1>9. SumOver(Account \ keys, h) = 0
  <2>1. \A a \in Account \ keys : h[a] \in Nat /\ h[a] = 0
    BY <1>4
  <2> QED BY <1>0, <2>1, SumNat
<1>10. SumOver(Account, h) = SumOver(keys, h) + SumOver(Account \ keys, h)
  <2>1. /\ keys \cup (Account \ keys) = Account /\ keys \cap (Account \ keys) = {}
        /\ \A a \in Account : h[a] \in Int
    BY <1>0, <1>4
  <2>2. SumOver(keys \cup (Account \ keys), h) = SumOver(keys, h) + SumOver(Account \ keys, h)
    BY <1>0, <2>1, SumUnion
  <2> QED BY <2>1, <2>2
<1>11. SumOver(Account, f) = consumed_loss_usd + added(c)
  BY <1>6, <1>7, <1>8, <1>9, <1>10 DEF Losses
<1>12. added(c) \in Nat
  BY <1>6, <1>8
<1> QED BY <1>0, <1>5, <1>11, <1>12 DEF f

\* Everything lost and everything at stake is within the ceiling.
Bounded == LostBy(Intent \ Open) + occupied_usd <= campaign_limit_usd

Sums == Counted /\ Losses /\ Bounded

\* A step that leaves entries and totals alone keeps them counted.
LEMMA CountedStays ==
    ASSUME Counted, campaign_limit_usd' > 0,
           UNCHANGED <<occupied_usdt, occupied_usd, accounts, aggregate, strategy, entries>>
    PROVE  Counted'
<1>1. \A a \in Account : UNCHANGED <<Cardinality(OccupyingIntents(a)), UsdOf(OccupyingIntents(a)),
                                     UsdtOf(OccupyingIntents(a))>>
  BY DEF OccupyingIntents, IntentsOf, UsdOf, UsdtOf, Occupying
<1>2. \A a \in Account, s \in Strategy : UNCHANGED UsdtOf(OfStrategy(a, s))
  BY DEF OfStrategy, OccupyingIntents, IntentsOf, UsdtOf, Occupying
<1> QED BY <1>1, <1>2 DEF Counted

\* Losses that were reported stay between their bounds while no entry changes.
LEMMA LossesCharge ==
    ASSUME IInv, Losses, UNCHANGED <<entries, realised>>, loss' \in [Account -> Nat],
           consumed_loss_usd' = SumOver(Account, loss'),
           \A a \in Account : loss[a] <= loss'[a] /\ loss'[a] <= LostBy(IntentsOf(a))
    PROVE  Losses'
<1>0. \A a \in Account : Released(a) \in SUBSET Intent /\ loss[a] \in Nat
  BY DEF Released, IntentsOf, IInv, Shape, Amounts
<1>1. \A a \in Account : LostBy(Released(a)) \in Nat
  BY <1>0, LostNat DEF IInv
<1>2. \A a \in Account : UNCHANGED <<LostBy(Released(a)), LostBy(IntentsOf(a))>>
  BY DEF Released, IntentsOf, LostBy
<1>3. \A a \in Account : LostBy(Released(a))' <= loss'[a] /\ loss'[a] <= LostBy(IntentsOf(a))'
  <2> SUFFICES ASSUME NEW a \in Account
               PROVE  LostBy(Released(a))' <= loss'[a] /\ loss'[a] <= LostBy(IntentsOf(a))'
    OBVIOUS
  <2>1. LostBy(Released(a)) <= loss[a] /\ loss[a] <= loss'[a] /\ loss'[a] <= LostBy(IntentsOf(a)) /\ loss'[a] \in Nat
    BY DEF Losses
  <2> QED BY <1>0, <1>1, <1>2, <2>1
<1>4. \A i \in Intent :
        /\ Occupying(entries'[i]) => realised'[i] <= PlanUsd[entries'[i].plan]
        /\ entries'[i].state = "NONE" => realised'[i] = 0
  BY DEF Losses
<1> QED BY <1>3, <1>4 DEF Losses, Occupying

\* What one intent that opens or closes does to the losses of the closed ones.
LEMMA ClosedMoves ==
    ASSUME IInv, NEW i \in Intent, NEW e, entries' = [entries EXCEPT ![i] = e], UNCHANGED realised
    PROVE  LostBy(Intent \ Open)' = LostBy(Intent \ Open)
              + (IF Occupying(e) THEN 0 ELSE realised[i]) - (IF Occupying(entries[i]) THEN 0 ELSE realised[i])
<1> DEFINE r == Intent \ Open
           s == Intent \ Open'
<1>0. /\ \A j \in Intent : realised[j] \in Int
      /\ entries'[i] = e /\ \A j \in Intent \ {i} : entries'[j] = entries[j]
  BY DEF IInv, Shape, Entries
<1>1. Open' = {j \in Intent : Occupying(entries'[j])}
  BY DEF Open, Occupying
<1>2. /\ r \in SUBSET Intent /\ s \in SUBSET Intent /\ r \ {i} = s \ {i}
      /\ i \in r <=> ~Occupying(entries[i])
      /\ i \in s <=> ~Occupying(e)
  BY <1>0, <1>1 DEF Open
<1>3. LostBy(Intent \ Open) = SumOver(r, realised) /\ LostBy(Intent \ Open)' = SumOver(s, realised)
  BY DEF LostBy
<1> HIDE DEF r, s
<1>4. SumOver(s, realised) = SumOver(r, realised) + (IF i \in s THEN realised[i] ELSE 0)
                                                  - (IF i \in r THEN realised[i] ELSE 0)
  BY <1>0, <1>2, FiniteAssumption, SumMoves
<1> QED BY <1>2, <1>3, <1>4

\* A command that writes an entry keeps the sums: it opens one that the ceiling has room for, moves
\* one that stays open, or closes one whose loss has been charged.
LEMMA TurnSums ==
    ASSUME IInv, Sums, NEW i \in Intent, NEW e \in RiskEntry, e.plan \in Plan, NEW sign, NEW at,
           saveEntry(i, e, sign, at), sign = Counts(e) - Counts(entries[i]),
           entries[i].state # "NONE" => entries[i].plan = e.plan,
           UNCHANGED realised, loss' \in [Account -> Nat],
           consumed_loss_usd' = SumOver(Account, loss'),
           \A a \in Account : loss[a] <= loss'[a] /\ loss'[a] <= LostBy(IntentsOf(a)),
           \/ /\ entries[i].state = "NONE" /\ Occupying(e)
              /\ consumed_loss_usd + occupied_usd + PlanUsd[e.plan] <= campaign_limit_usd
           \/ Occupying(entries[i]) /\ Occupying(e)
           \/ /\ Occupying(entries[i]) /\ e.state = "RELEASED"
              /\ LostBy(Settled(i)) <= loss'[IntentAccount[i]]
    PROVE  Sums'
<1> DEFINE b == IntentAccount[i]
<1>0. /\ Counted /\ Losses /\ Bounded
      /\ entries \in [Intent -> RiskEntry] /\ realised \in [Intent -> Nat] /\ loss \in [Account -> Nat]
      /\ occupied_usd \in Nat /\ campaign_limit_usd \in Nat /\ PlanUsd[e.plan] \in Nat
  BY PlanAssumption DEF Sums, IInv, Shape, Amounts, Entries
<1>1. entries' = [entries EXCEPT ![i] = e] /\ UNCHANGED campaign_limit_usd
  BY DEF saveEntry
<1>2. /\ Counted'
      /\ occupied_usd' = occupied_usd + (IF sign = 1 THEN PlanUsd[e.plan]
                                         ELSE IF sign = 0 THEN 0 ELSE 0 - PlanUsd[e.plan])
  BY <1>0, SavedCounted DEF Occupying
<1>3. entries'[i] = e /\ \A j \in Intent \ {i} : entries'[j] = entries[j]
  BY <1>0, <1>1
<1>4. ASSUME NEW a \in Account
      PROVE  LostBy(Released(a))' <= loss'[a] /\ loss'[a] <= LostBy(IntentsOf(a))'
  <2>1. Released(a)' = {j \in Intent : IntentAccount[j] = a /\ entries'[j].state = "RELEASED"}
    BY DEF Released, IntentsOf
  <2>2. Released(a) = {j \in Intent : IntentAccount[j] = a /\ entries[j].state = "RELEASED"}
    BY DEF Released, IntentsOf
  <2>3. /\ LostBy(Released(a))' = SumOver(Released(a)', realised)
        /\ LostBy(IntentsOf(a))' = LostBy(IntentsOf(a))
        /\ LostBy(Released(a)) = SumOver(Released(a), realised)
    BY DEF LostBy, IntentsOf
  <2>4. CASE e.state = "RELEASED" /\ a = b
    <3>1. Released(a)' = Settled(i)
      BY <1>3, <2>1, <2>4 DEF Settled, IntentsOf
    <3>2. LostBy(Settled(i)) <= loss'[a]
      BY <2>4 DEF Occupying
    <3> QED BY <2>3, <3>1, <3>2 DEF LostBy
  <2>5. CASE ~(e.state = "RELEASED" /\ a = b)
    <3>1. Released(a)' = Released(a)
      BY <1>3, <2>1, <2>2, <2>5 DEF Occupying
    <3>2. LostBy(Released(a)) \in Nat
      BY <2>2, LostNat DEF IInv
    <3>3. LostBy(Released(a)) <= loss[a] /\ loss[a] <= loss'[a] /\ loss[a] \in Nat /\ loss'[a] \in Nat
      BY <1>0 DEF Losses
    <3> QED BY <2>3, <3>1, <3>2, <3>3
  <2> QED BY <2>4, <2>5
<1>5. ASSUME NEW j \in Intent
      PROVE  /\ Occupying(entries'[j]) => realised'[j] <= PlanUsd[entries'[j].plan]
             /\ entries'[j].state = "NONE" => realised'[j] = 0
  <2>1. CASE j # i
    BY <1>0, <1>3, <2>1 DEF Losses
  <2>2. CASE j = i
    BY <1>0, <1>3, <2>2 DEF Losses, Occupying
  <2> QED BY <2>1, <2>2
<1>6. Losses'
  BY <1>4, <1>5 DEF Losses, Occupying
<1>7. Bounded'
  <2>0. LostBy(Intent \ Open) \in Nat /\ realised[i] \in Nat
    BY <1>0, LostNat DEF IInv
  <2>1. LostBy(Intent \ Open)' = LostBy(Intent \ Open)
              + (IF Occupying(e) THEN 0 ELSE realised[i]) - (IF Occupying(entries[i]) THEN 0 ELSE realised[i])
    BY <1>1, ClosedMoves
  <2>2. CASE /\ entries[i].state = "NONE" /\ Occupying(e)
             /\ consumed_loss_usd + occupied_usd + PlanUsd[e.plan] <= campaign_limit_usd
    <3>1. ~Occupying(entries[i]) /\ realised[i] = 0
      BY <1>0, <2>2 DEF Losses, Occupying
    <3>2. occupied_usd' = occupied_usd + PlanUsd[e.plan] /\ LostBy(Intent \ Open)' = LostBy(Intent \ Open)
      BY <1>2, <2>0, <2>1, <2>2, <3>1 DEF Counts
    <3>3. LostBy(Intent \ Open) <= consumed_loss_usd /\ consumed_loss_usd \in Int
      <4>1. \A a \in Account : loss[a] \in Int
        BY <1>0
      <4> QED BY <1>0, <4>1, ClosedIsCharged, FiniteAssumption, SumInt DEF Losses
    <3> QED BY <1>0, <1>1, <2>0, <2>2, <3>2, <3>3 DEF Bounded
  <2>3. CASE Occupying(entries[i]) /\ Occupying(e)
    <3>1. occupied_usd' = occupied_usd /\ LostBy(Intent \ Open)' = LostBy(Intent \ Open)
      BY <1>0, <1>2, <2>0, <2>1, <2>3 DEF Counts
    <3> QED BY <1>0, <1>1, <3>1 DEF Bounded
  <2>4. CASE Occupying(entries[i]) /\ e.state = "RELEASED"
    <3>1. ~Occupying(e)
      BY <2>4 DEF Occupying
    <3>2. /\ occupied_usd' = occupied_usd - PlanUsd[e.plan]
          /\ LostBy(Intent \ Open)' = LostBy(Intent \ Open) + realised[i]
      BY <1>0, <1>2, <2>0, <2>1, <2>4, <3>1 DEF Counts
    <3>3. realised[i] <= PlanUsd[e.plan]
      BY <1>0, <2>4 DEF Losses, Occupying
    <3> QED BY <1>0, <1>1, <2>0, <3>2, <3>3 DEF Bounded
  <2> QED BY <2>2, <2>3, <2>4
<1> QED BY <1>2, <1>6, <1>7 DEF Sums

\* A charge alone keeps the sums.
LEMMA ChargeSums ==
    ASSUME IInv, Sums, NEW keys \in SUBSET RealAccount, NEW c \in Census(keys), lossAdvances(c),
           ChargeOnly(c), UNCHANGED realised
    PROVE  Sums'
<1>0. /\ Counted /\ Losses /\ Bounded
      /\ UNCHANGED <<occupied_usdt, occupied_usd, campaign_limit_usd, accounts, entries, strategy, aggregate>>
      /\ consumed_loss_usd' = consumed_loss_usd + added(c) /\ loss' = lossAfter(c)
  BY DEF Sums, ChargeOnly
<1>1. Counted'
  BY <1>0, CountedStays DEF Counted
<1>2. Losses'
  BY <1>0, ChargedLosses, LossesCharge
<1>3. Bounded'
  <2>1. LostBy(Intent \ Open)' = LostBy(Intent \ Open)
    BY <1>0 DEF LostBy, Open, Occupying
  <2> QED BY <1>0, <2>1 DEF Bounded
<1> QED BY <1>1, <1>2, <1>3 DEF Sums

\* RESERVE keeps the sums: campaignRoom leaves room for the plan after the charge.
LEMMA ReserveSums ==
    ASSUME IInv, Sums, NEW keys \in SUBSET RealAccount, NEW c \in Census(keys), NEW i \in Intent,
           NEW p \in Plan, NEW gen, reserveRisk(i, p, c, gen)
    PROVE  Sums'
<1>0. lossAdvances(c) /\ UNCHANGED realised /\ Losses /\ Shape
  BY DEF reserveRisk, Sums, IInv
<1>1. CASE ChargeOnly(c)
  BY <1>0, <1>1, ChargeSums
<1>2. CASE /\ reservable(i, p, c) /\ saveEntry(i, newEntry(p), 1, sequence + charged(c))
           /\ consumed_loss_usd' = consumed_loss_usd + added(c) /\ loss' = lossAfter(c)
  <2> DEFINE e == newEntry(p)
  <2>1. e \in RiskEntry /\ e.plan = p /\ e.state = "HELD" /\ entries[i].state = "NONE"
    BY <1>0, <1>2, NewEntryType DEF newEntry, reservable
  <2>2. /\ loss' \in [Account -> Nat] /\ added(c) \in Nat
        /\ consumed_loss_usd' = SumOver(Account, loss')
        /\ \A a \in Account : loss[a] <= loss'[a] /\ loss'[a] <= LostBy(IntentsOf(a))
    BY <1>0, <1>2, ChargedLosses
  <2>3. consumed_loss_usd + added(c) + occupied_usd + PlanUsd[p] <= campaign_limit_usd
    BY <1>2 DEF reservable, campaignRoom
  <2>4. consumed_loss_usd + occupied_usd + PlanUsd[p] <= campaign_limit_usd
    <3>1. consumed_loss_usd \in Int
      BY <1>0, FiniteAssumption, SumInt DEF Losses, Shape, Amounts
    <3>2. occupied_usd \in Nat /\ campaign_limit_usd \in Nat /\ PlanUsd[p] \in Nat
      BY <1>0, PlanAssumption DEF Shape, Amounts
    <3> QED BY <2>2, <2>3, <3>1, <3>2
  <2>5. Occupying(e) /\ 1 = Counts(e) - Counts(entries[i])
    BY <2>1 DEF Occupying, Counts
  <2>6. saveEntry(i, e, 1, sequence + charged(c))
    BY <1>2
  <2> HIDE DEF e
  <2> QED BY <1>0, <2>1, <2>2, <2>4, <2>5, <2>6, TurnSums
<1> QED BY <1>1, <1>2 DEF reserveRisk

\* BEGIN_POST keeps them: the entry stays open for the same plan.
LEMMA BeginPostSums ==
    ASSUME IInv, Sums, NEW keys \in SUBSET RealAccount, NEW c \in Census(keys), NEW i \in Intent,
           NEW p \in Plan, NEW expected, NEW gen, beginRiskPost(i, p, c, expected, gen)
    PROVE  Sums'
<1>0. lossAdvances(c) /\ UNCHANGED realised /\ Losses /\ Shape
  BY DEF beginRiskPost, Sums, IInv
<1>1. CASE ChargeOnly(c)
  BY <1>0, <1>1, ChargeSums
<1> DEFINE e == [entries[i] EXCEPT !.state = "POSTED", !.posted = now]
<1>2. CASE /\ postable(i, p, c, expected) /\ saveEntry(i, e, 0, sequence + charged(c))
           /\ consumed_loss_usd' = consumed_loss_usd + added(c) /\ loss' = lossAfter(c)
  <2>1. entries[i] \in RiskEntry /\ entries[i].plan = p /\ entries[i].state = "HELD" /\ now \in Nat
    BY <1>0, <1>2 DEF postable, Shape, Entries
  <2>2. e \in RiskEntry /\ e.plan = p /\ e.state = "POSTED"
    BY <2>1 DEF RiskEntry, EntryState
  <2>3. /\ loss' \in [Account -> Nat]
        /\ consumed_loss_usd' = SumOver(Account, loss')
        /\ \A a \in Account : loss[a] <= loss'[a] /\ loss'[a] <= LostBy(IntentsOf(a))
    BY <1>0, <1>2, ChargedLosses
  <2>4. Occupying(entries[i]) /\ Occupying(e) /\ 0 = Counts(e) - Counts(entries[i])
    BY <2>1, <2>2 DEF Occupying, Counts
  <2>5. saveEntry(i, e, 0, sequence + charged(c))
    BY <1>2
  <2> HIDE DEF e
  <2> QED BY <1>0, <2>1, <2>2, <2>3, <2>4, <2>5, TurnSums
<1> QED BY <1>1, <1>2 DEF beginRiskPost

\* What is reported while no loss is charged.
LEMMA ReportedStays ==
    ASSUME IInv, Losses, UNCHANGED <<loss, consumed_loss_usd>>
    PROVE  /\ loss' \in [Account -> Nat]
           /\ consumed_loss_usd' = SumOver(Account, loss')
           /\ \A a \in Account : loss[a] <= loss'[a] /\ loss'[a] <= LostBy(IntentsOf(a))
BY DEF IInv, Shape, Amounts, Losses

\* RESOLVE to UNKNOWN or OPEN keeps them.
LEMMA ResolveOpenSums ==
    ASSUME IInv, Sums, NEW i \in Intent, NEW p \in Plan, NEW to \in {"UNKNOWN", "OPEN"}, NEW gen,
           resolveOpen(i, p, to, sequence, gen)
    PROVE  Sums'
<1> DEFINE e == [entries[i] EXCEPT !.state = to]
<1>0. /\ UNCHANGED <<realised, loss, consumed_loss_usd>> /\ Losses
      /\ entries[i] \in RiskEntry /\ entries[i].plan = p /\ saveEntry(i, e, 0, sequence)
      /\ entries[i].state \in {"HELD", "POSTED", "UNKNOWN"}
  BY DEF resolveOpen, Sums, IInv, Shape, Entries
<1>1. e \in RiskEntry /\ e.plan = p /\ e.state = to
  BY <1>0 DEF RiskEntry, EntryState
<1>2. Occupying(entries[i]) /\ Occupying(e) /\ 0 = Counts(e) - Counts(entries[i])
  BY <1>0, <1>1 DEF Occupying, Counts
<1>3. /\ loss' \in [Account -> Nat]
      /\ consumed_loss_usd' = SumOver(Account, loss')
      /\ \A a \in Account : loss[a] <= loss'[a] /\ loss'[a] <= LostBy(IntentsOf(a))
  BY <1>0, ReportedStays
<1> HIDE DEF e
<1> QED BY <1>0, <1>1, <1>2, <1>3, TurnSums

\* RESOLVE to RELEASED keeps them: the ledger has what the closed orders of the account lost.
LEMMA ReleaseSums ==
    ASSUME IInv, Sums, NEW keys \in SUBSET RealAccount, NEW c \in Census(keys), NEW i \in Intent,
           NEW t, NEW ledger \in LostBy(Settled(i))..LostBy(IntentsOf(IntentAccount[i])), NEW gen,
           resolveReleased(i, entries[i].plan, t, ledger, c, sequence, gen)
    PROVE  Sums'
<1> DEFINE e == [entries[i] EXCEPT !.state = "RELEASED"]
           b == IntentAccount[i]
           seen == lossAfter(c)
<1>0. /\ lossAdvances(c) /\ UNCHANGED realised /\ Losses /\ Shape
      /\ Occupying(entries[i])
      /\ \/ /\ ledger >= seen[b] /\ saveEntry(i, e, -1, sequence + charged(c))
            /\ consumed_loss_usd' = consumed_loss_usd + added(c) + (ledger - seen[b])
            /\ loss' = [seen EXCEPT ![b] = ledger]
         \/ ChargeOnly(c)
  BY DEF resolveReleased, Sums, IInv
<1>1. CASE ChargeOnly(c)
  BY <1>0, <1>1, ChargeSums
<1>2. CASE /\ ledger >= seen[b] /\ saveEntry(i, e, -1, sequence + charged(c))
           /\ consumed_loss_usd' = consumed_loss_usd + added(c) + (ledger - seen[b])
           /\ loss' = [seen EXCEPT ![b] = ledger]
  <2>1. entries[i] \in RiskEntry /\ entries[i].plan \in Plan /\ b \in Account
    BY <1>0, PlanAssumption, RealAssumption DEF IInv, Lifecycle, Shape, Entries, Occupying
  <2>2. e \in RiskEntry /\ e.plan = entries[i].plan /\ e.state = "RELEASED"
    BY <2>1 DEF RiskEntry, EntryState
  <2>3. /\ seen \in [Account -> Nat]
        /\ SumOver(Account, seen) = consumed_loss_usd + added(c)
        /\ \A a \in Account : loss[a] <= seen[a] /\ seen[a] <= LostBy(IntentsOf(a))
    BY <1>0, ChargedLosses
  <2>4. /\ ledger \in Nat /\ LostBy(Settled(i)) <= ledger /\ ledger <= LostBy(IntentsOf(b))
    <3>1. Settled(i) \in SUBSET Intent /\ IntentsOf(b) \in SUBSET Intent
      BY DEF Settled, IntentsOf
    <3>2. LostBy(Settled(i)) \in Nat /\ LostBy(IntentsOf(b)) \in Nat
      BY <1>0, <3>1, LostNat
    <3> QED BY <3>2
  <2> HIDE DEF seen, e
  <2>5. /\ loss' \in [Account -> Nat] /\ loss'[b] = ledger
        /\ \A a \in Account \ {b} : loss'[a] = seen[a]
    BY <1>2, <2>1, <2>3, <2>4
  <2>6. \A a \in Account : loss[a] <= loss'[a] /\ loss'[a] <= LostBy(IntentsOf(a))
    <3> SUFFICES ASSUME NEW a \in Account PROVE loss[a] <= loss'[a] /\ loss'[a] <= LostBy(IntentsOf(a))
      OBVIOUS
    <3>1. loss[a] \in Nat /\ seen[a] \in Nat /\ loss[a] <= seen[a] /\ seen[a] <= LostBy(IntentsOf(a))
      BY <1>0, <2>3 DEF Shape, Amounts
    <3>2. CASE a = b
      BY <1>2, <2>4, <2>5, <3>1, <3>2
    <3>3. CASE a # b
      BY <2>5, <3>1, <3>3
    <3> QED BY <3>2, <3>3
  <2>7. consumed_loss_usd' = SumOver(Account, loss')
    <3>1. /\ \A a \in Account : seen[a] \in Int /\ loss'[a] \in Int
          /\ \A a \in Account \ {b} : seen[a] = loss'[a]
      BY <2>3, <2>5
    <3>2. SumOver(Account, loss') = SumOver(Account, seen) + loss'[b] - seen[b]
      BY <2>1, <3>1, FiniteAssumption, SumMoves
    <3>3. SumOver(Account, seen) \in Int
      BY <3>1, FiniteAssumption, SumInt
    <3>4. consumed_loss_usd' = SumOver(Account, seen) + (ledger - seen[b])
      BY <1>2, <2>3
    <3> QED BY <2>1, <2>4, <2>5, <3>1, <3>2, <3>3, <3>4
  <2>8. -1 = Counts(e) - Counts(entries[i])
    BY <1>0, <2>2 DEF Occupying, Counts
  <2>9. LostBy(Settled(i)) <= loss'[IntentAccount[i]]
    BY <2>4, <2>5
  <2>10. saveEntry(i, e, -1, sequence + charged(c))
    BY <1>2
  <2> QED BY <1>0, <2>1, <2>2, <2>5, <2>6, <2>7, <2>8, <2>9, <2>10, TurnSums
<1> QED BY <1>0, <1>1, <1>2

\* RELEASE_UNSENT keeps them: an order that was never sent lost nothing.
LEMMA ReleaseUnsentSums ==
    ASSUME IInv, Sums, NEW i \in Intent, NEW p \in Plan, NEW gen, realised[i] = 0,
           releaseUnsentRisk(i, p, sequence, gen)
    PROVE  Sums'
<1> DEFINE e == [entries[i] EXCEPT !.state = "RELEASED"]
           b == IntentAccount[i]
<1>0. UNCHANGED <<realised, loss, consumed_loss_usd>> /\ Counted /\ Losses /\ Bounded /\ Shape
  BY DEF releaseUnsentRisk, Sums, IInv
<1>1. /\ loss' \in [Account -> Nat]
      /\ consumed_loss_usd' = SumOver(Account, loss')
      /\ \A a \in Account : loss[a] <= loss'[a] /\ loss'[a] <= LostBy(IntentsOf(a))
  BY <1>0, ReportedStays
<1>2. CASE UNCHANGED <<occupied_usdt, occupied_usd, campaign_limit_usd, accounts, entries, strategy, aggregate>>
  <2>1. Counted'
    BY <1>0, <1>2, CountedStays DEF Counted
  <2>2. Losses'
    BY <1>0, <1>1, <1>2, LossesCharge
  <2>3. LostBy(Intent \ Open)' = LostBy(Intent \ Open)
    BY <1>0, <1>2 DEF LostBy, Open, Occupying
  <2> QED BY <1>0, <1>2, <2>1, <2>2, <2>3 DEF Sums, Bounded
<1>3. CASE /\ entries[i].plan = p /\ entries[i].state \in {"HELD", "POSTED"}
           /\ saveEntry(i, e, -1, sequence)
  <2>1. entries[i] \in RiskEntry /\ b \in Account
    BY <1>0, PlanAssumption, RealAssumption DEF Shape, Entries
  <2>2. e \in RiskEntry /\ e.plan = p /\ e.state = "RELEASED"
    BY <1>3, <2>1 DEF RiskEntry, EntryState
  <2>3. Occupying(entries[i]) /\ -1 = Counts(e) - Counts(entries[i])
    BY <1>3, <2>2 DEF Occupying, Counts
  <2>4. LostBy(Settled(i)) = LostBy(Released(b))
    <3>1. /\ Settled(i) \in SUBSET Intent /\ Released(b) \in SUBSET Intent
          /\ Released(b) \ {i} = Settled(i) \ {i}
          /\ \A j \in Intent : realised[j] \in Int
      BY <1>0 DEF Settled, Released, IntentsOf, Shape
    <3>2. SumOver(Settled(i), realised) = SumOver(Released(b), realised)
              + (IF i \in Settled(i) THEN realised[i] ELSE 0) - (IF i \in Released(b) THEN realised[i] ELSE 0)
      BY <3>1, FiniteAssumption, SumMoves
    <3>3. SumOver(Released(b), realised) \in Int
      BY <3>1, FiniteAssumption, SumInt
    <3> QED BY <3>2, <3>3 DEF LostBy
  <2>5. LostBy(Settled(i)) <= loss'[IntentAccount[i]]
    BY <1>0, <2>1, <2>4 DEF Losses
  <2>6. saveEntry(i, e, -1, sequence)
    BY <1>3
  <2> HIDE DEF e
  <2> QED BY <1>0, <1>1, <1>3, <2>1, <2>2, <2>3, <2>5, <2>6, TurnSums
<1> QED BY <1>2, <1>3 DEF releaseUnsentRisk

\* Every risk command keeps the sums.
LEMMA CommandSums ==
    ASSUME IInv, Sums, CensusCommand \/ ReleaseCommand \/ ResolveCommand
    PROVE  Sums'
<1>1. CASE CensusCommand
  BY <1>1, ReserveSums, BeginPostSums DEF CensusCommand
<1>2. CASE ReleaseCommand
  <2>1. PICK i \in Intent, gen \in 1..generation : \E keys \in SUBSET RealAccount : \E c \in Census(keys) :
            \E t \in {"FILLED", "CANCELED", "REJECTED"},
               ledger \in LostBy(Settled(i))..LostBy(IntentsOf(IntentAccount[i])) :
                resolveReleased(i, entries[i].plan, t, ledger, c, sequence, gen)
    BY <1>2 DEF ReleaseCommand
  <2>2. PICK keys \in SUBSET RealAccount : \E c \in Census(keys) :
            \E t \in {"FILLED", "CANCELED", "REJECTED"},
               ledger \in LostBy(Settled(i))..LostBy(IntentsOf(IntentAccount[i])) :
                resolveReleased(i, entries[i].plan, t, ledger, c, sequence, gen)
    BY <2>1
  <2>3. PICK c \in Census(keys), t \in {"FILLED", "CANCELED", "REJECTED"},
             ledger \in LostBy(Settled(i))..LostBy(IntentsOf(IntentAccount[i])) :
                resolveReleased(i, entries[i].plan, t, ledger, c, sequence, gen)
    BY <2>2
  <2> QED BY <2>3, ReleaseSums
<1>3. CASE ResolveCommand
  BY <1>3, ResolveOpenSums, ReleaseUnsentSums DEF ResolveCommand
<1> QED BY <1>1, <1>2, <1>3

\* A revision keeps them: a lowered ceiling still covers what was charged and what is occupied.
LEMMA PolicySums == ASSUME IInv, Sums, PolicyCommand PROVE Sums'
<1>0. /\ Counted /\ Losses /\ Bounded
      /\ UNCHANGED <<occupied_usdt, occupied_usd, consumed_loss_usd, accounts, entries,
                     strategy, aggregate, loss, realised>>
  BY PolicySteps DEF Policy, Sums
<1>1. \/ campaign_limit_usd' = campaign_limit_usd
      \/ campaign_limit_usd' > 0 /\ campaign_limit_usd' >= consumed_loss_usd + occupied_usd
  <2>1. ASSUME NEW limit \in 1..CampaignLimit, lowerCampaignLimit(limit)
        PROVE  campaign_limit_usd' > 0 /\ campaign_limit_usd' >= consumed_loss_usd + occupied_usd
    BY <2>1 DEF lowerCampaignLimit
  <2> QED BY <2>1 DEF PolicyCommand, enrollObservedAccount, setAccountLimits, setAccountPause,
                      governanceRequest, stopNewRealRisk, book, meta
<1>2. campaign_limit_usd' > 0
  BY <1>0, <1>1 DEF Counted
<1>3. Counted'
  BY <1>0, <1>2, CountedStays
<1>4. Losses'
  BY <1>0, ReportedStays, LossesCharge
<1>5. Bounded'
  <2>1. LostBy(Intent \ Open)' = LostBy(Intent \ Open)
    BY <1>0 DEF LostBy, Open, Occupying
  <2>2. LostBy(Intent \ Open) \in Nat /\ LostBy(Intent \ Open) <= consumed_loss_usd
    BY <1>0, LostNat, ClosedIsCharged DEF IInv
  <2>3. consumed_loss_usd \in Int
    BY <1>0, FiniteAssumption, SumInt DEF Losses, IInv, Shape, Amounts
  <2>4. occupied_usd \in Nat /\ campaign_limit_usd' \in Nat
    BY PolicySteps DEF Policy, IInv, Shape, Amounts
  <2> QED BY <1>0, <1>1, <2>1, <2>2, <2>3, <2>4 DEF Bounded
<1> QED BY <1>3, <1>4, <1>5 DEF Sums

\* A step that changes neither book nor losses keeps them.
LEMMA UnchangedSums == ASSUME Sums, UNCHANGED <<book, realised>> PROVE Sums'
<1>0. UNCHANGED <<occupied_usdt, occupied_usd, consumed_loss_usd, campaign_limit_usd, accounts, entries,
                  strategy, aggregate, loss, realised>>
  BY DEF book, meta
<1>1. Counted'
  BY <1>0, CountedStays DEF Sums, Counted
<1>2. Losses'
  BY <1>0 DEF Sums, Losses, Released, IntentsOf, LostBy, Occupying
<1>3. Bounded'
  BY <1>0 DEF Sums, Bounded, Open, LostBy, Occupying
<1> QED BY <1>1, <1>2, <1>3 DEF Sums

\* A loss at the exchange keeps them: it falls on an open entry and stays within what that one holds.
LEMMA LoseSums ==
    ASSUME IInv, Sums, NEW i \in Intent, NEW usd \in 1..CampaignLimit, Lose(i, usd)
    PROVE  Sums'
<1>0. /\ Counted /\ Losses /\ Bounded /\ Shape
      /\ UNCHANGED <<occupied_usdt, occupied_usd, consumed_loss_usd, campaign_limit_usd, accounts, entries,
                     strategy, aggregate, loss>>
      /\ Occupying(entries[i]) /\ realised[i] + usd <= PlanUsd[entries[i].plan]
      /\ realised' = [realised EXCEPT ![i] = realised[i] + usd] /\ usd \in Nat
  BY BoundAssumption DEF Lose, book, meta, Sums, IInv
<1>1. /\ realised'[i] = realised[i] + usd
      /\ \A j \in Intent : realised[j] \in Nat /\ realised'[j] \in Nat /\ realised[j] <= realised'[j]
      /\ \A j \in Intent \ {i} : realised'[j] = realised[j]
  BY <1>0 DEF Shape
<1>2. ASSUME NEW r \in SUBSET Intent, i \notin r
      PROVE  SumOver(r, realised') = SumOver(r, realised)
  <2>1. IsFiniteSet(r) /\ \A j \in r : realised[j] \in Int /\ realised[j] = realised'[j]
    BY <1>1, <1>2, FiniteAssumption, FS_Subset
  <2> QED BY <2>1, SumSame
<1>3. ASSUME NEW r \in SUBSET Intent
      PROVE  SumOver(r, realised) <= SumOver(r, realised') /\ SumOver(r, realised) \in Nat /\ SumOver(r, realised') \in Nat
  <2>1. IsFiniteSet(r) /\ \A j \in r : /\ realised[j] \in Nat /\ realised'[j] \in Nat
                                       /\ realised[j] \in Int /\ realised'[j] \in Int /\ realised[j] <= realised'[j]
    BY <1>1, FiniteAssumption, FS_Subset
  <2> QED BY <2>1, SumAtMost, SumNat
<1>4. Counted'
  BY <1>0, CountedStays DEF Counted
<1>5. \A a \in Account : LostBy(Released(a))' <= loss'[a] /\ loss'[a] <= LostBy(IntentsOf(a))'
  <2> SUFFICES ASSUME NEW a \in Account
               PROVE  LostBy(Released(a))' <= loss'[a] /\ loss'[a] <= LostBy(IntentsOf(a))'
    OBVIOUS
  <2>1. /\ Released(a) \in SUBSET Intent /\ i \notin Released(a) /\ IntentsOf(a) \in SUBSET Intent
    BY <1>0 DEF Released, IntentsOf, Occupying
  <2>2. /\ LostBy(Released(a))' = SumOver(Released(a), realised')
        /\ LostBy(IntentsOf(a))' = SumOver(IntentsOf(a), realised')
        /\ LostBy(Released(a)) = SumOver(Released(a), realised)
        /\ LostBy(IntentsOf(a)) = SumOver(IntentsOf(a), realised)
    BY <1>0 DEF LostBy, Released, IntentsOf
  <2>3. LostBy(Released(a)) <= loss[a] /\ loss[a] <= LostBy(IntentsOf(a)) /\ loss[a] \in Nat
    BY <1>0 DEF Losses, Shape, Amounts
  <2>4. /\ SumOver(Released(a), realised') = SumOver(Released(a), realised)
        /\ SumOver(IntentsOf(a), realised) <= SumOver(IntentsOf(a), realised')
        /\ SumOver(IntentsOf(a), realised) \in Nat /\ SumOver(IntentsOf(a), realised') \in Nat
    BY <1>2, <1>3, <2>1
  <2> QED BY <1>0, <2>2, <2>3, <2>4
<1>6. \A j \in Intent :
        /\ Occupying(entries'[j]) => realised'[j] <= PlanUsd[entries'[j].plan]
        /\ entries'[j].state = "NONE" => realised'[j] = 0
  <2> SUFFICES ASSUME NEW j \in Intent
               PROVE  /\ Occupying(entries'[j]) => realised'[j] <= PlanUsd[entries'[j].plan]
                      /\ entries'[j].state = "NONE" => realised'[j] = 0
    OBVIOUS
  <2>1. CASE j = i
    BY <1>0, <1>1, <2>1 DEF Occupying
  <2>2. CASE j # i
    BY <1>0, <1>1, <2>2 DEF Losses
  <2> QED BY <2>1, <2>2
<1>7. Losses'
  BY <1>0, <1>5, <1>6 DEF Losses, Occupying
<1>8. Bounded'
  <2>1. Open' = Open /\ Intent \ Open \in SUBSET Intent /\ i \notin Intent \ Open
    BY <1>0 DEF Open, Occupying
  <2>2. SumOver(Intent \ Open, realised') = SumOver(Intent \ Open, realised)
    BY <1>2, <2>1
  <2>3. LostBy(Intent \ Open)' = LostBy(Intent \ Open)
    BY <2>1, <2>2 DEF LostBy
  <2> QED BY <1>0, <2>3 DEF Bounded
<1> QED BY <1>4, <1>7, <1>8 DEF Sums

\* At the start nothing is occupied and nothing is lost.
LEMMA InitSums == Init => Sums
<1> SUFFICES ASSUME Init PROVE Sums
  OBVIOUS
<1>0. /\ Shape /\ IsFiniteSet(Account) /\ IsFiniteSet(Intent)
      /\ \A i \in Intent : entries[i] = NoEntry /\ ~Occupying(entries[i]) /\ realised[i] = 0
      /\ \A a \in Account : loss[a] = 0 /\ accounts[a] = 0
      /\ \A a \in Account : aggregate[a] = [active |-> 0, occupied_usd |-> 0, occupied_usdt |-> 0]
      /\ \A a \in Account, s \in Strategy : strategy[a][s] = 0
  BY InitIInv, FiniteAssumption DEF IInv, Init, NoEntry, Occupying, NoStrategies
<1>1. /\ \A a \in Account : OccupyingIntents(a) = {}
      /\ \A a \in Account, s \in Strategy : OfStrategy(a, s) = {}
      /\ Open = {}
  BY <1>0 DEF OccupyingIntents, IntentsOf, OfStrategy, Open
<1>2. UsdOf({}) = 0 /\ UsdtOf({}) = 0 /\ Cardinality({}) = 0
  <2> DEFINE f == [i \in {} |-> PlanUsd[entries[i].plan]]
             g == [i \in {} |-> PlanLoss[entries[i].plan]]
  <2>1. IsFiniteSet({}) /\ Cardinality({}) = 0
    BY FS_EmptySet
  <2>2. UsdOf({}) = SumOver({}, f) /\ UsdtOf({}) = SumOver({}, g)
    BY DEF UsdOf, UsdtOf
  <2> HIDE DEF f, g
  <2>3. SumOver({}, f) = 0 /\ SumOver({}, g) = 0
    BY <2>1, SumNat
  <2> QED BY <2>1, <2>2, <2>3
<1>3. SumOver(Account, accounts) = 0 /\ SumOver(Account, loss) = 0
  BY <1>0, SumNat
<1>4. SumOver(Account, [a \in Account |-> aggregate[a].occupied_usd]) = 0
  <2> DEFINE t == [a \in Account |-> aggregate[a].occupied_usd]
  <2>1. \A a \in Account : t[a] \in Nat /\ t[a] = 0
    BY <1>0
  <2> HIDE DEF t
  <2>2. SumOver(Account, t) = 0
    BY <1>0, <2>1, SumNat
  <2> QED BY <2>2 DEF t
<1>5. \A r \in SUBSET Intent : LostBy(r) = 0
  <2> SUFFICES ASSUME NEW r \in SUBSET Intent PROVE LostBy(r) = 0
    OBVIOUS
  <2>1. IsFiniteSet(r) /\ \A i \in r : realised[i] \in Nat /\ realised[i] = 0
    BY <1>0, FS_Subset
  <2> QED BY <2>1, SumNat DEF LostBy
<1>6. Counted
  <2>1. campaign_limit_usd > 0 /\ occupied_usdt = 0 /\ occupied_usd = 0
    BY BoundAssumption DEF Init
  <2>2. \A a \in Account :
          /\ aggregate[a].occupied_usdt = accounts[a]
          /\ aggregate[a].active = 0 /\ aggregate[a].occupied_usd = 0 /\ accounts[a] = 0
    BY <1>0
  <2>3. \A a \in Account :
          /\ Cardinality(OccupyingIntents(a)) = 0
          /\ UsdOf(OccupyingIntents(a)) = 0 /\ UsdtOf(OccupyingIntents(a)) = 0
          /\ \A s \in Strategy : UsdtOf(OfStrategy(a, s)) = 0
    BY <1>1, <1>2
  <2> QED BY <1>0, <1>3, <1>4, <2>1, <2>2, <2>3 DEF Counted
<1>7. Losses
  <2>1. \A a \in Account : Released(a) \in SUBSET Intent /\ IntentsOf(a) \in SUBSET Intent
    BY DEF Released, IntentsOf
  <2> QED BY <1>0, <1>3, <1>5, <2>1 DEF Losses, Init
<1>8. Bounded
  BY <1>5, BoundAssumption DEF Bounded, Init
<1> QED BY <1>6, <1>7, <1>8 DEF Sums

\* Every step keeps the sums.
LEMMA NextSums == IInv /\ Sums /\ [Next]_vars => Sums'
<1> SUFFICES ASSUME IInv, Sums, [Next]_vars PROVE Sums'
  OBVIOUS
<1>1. CASE UNCHANGED vars
  BY <1>1, UnchangedSums DEF vars
<1>2. CASE acceptRuntime
  BY <1>2, UnchangedSums DEF acceptRuntime
<1>3. CASE Environment
  <2>1. CASE Tick
    BY <2>1, UnchangedSums DEF Tick
  <2> QED BY <1>3, <2>1, LoseSums DEF Environment
<1> QED BY <1>1, <1>2, <1>3, CommandSums, PolicySums DEF Next

\* So the sums always hold.
LEMMA SumsInvariance == Spec => [](IInv /\ Sums)
<1> QED BY InitIInv, NextIInv, InitSums, NextSums, PTL DEF Spec
-----------------------------------------------------------------------------
\* Totals that are sums answer for their account: no reservation means no exposure and the reverse.
LEMMA SummaryObserved ==
    ASSUME IInv, Counted, NEW a \in Account
    PROVE  accountSummary(a) = "OBSERVED"
<1> DEFINE r == OccupyingIntents(a)
           f == [i \in r |-> PlanUsd[entries[i].plan]]
<1>0. /\ aggregate[a].occupied_usdt = accounts[a] /\ aggregate[a].active = Cardinality(r)
      /\ aggregate[a].occupied_usd = SumOver(r, f)
  BY DEF Counted, UsdOf
<1>1. r \in SUBSET Intent /\ IsFiniteSet(r)
  BY FiniteAssumption, FS_Subset DEF OccupyingIntents, IntentsOf
<1>2. \A i \in r : f[i] \in Nat /\ f[i] > 0
  <2>1. \A i \in r : entries[i].plan \in Plan
    BY <1>1 DEF OccupyingIntents, Occupying, IInv, Lifecycle
  <2> QED BY <2>1, PlanAssumption
<1> HIDE DEF r, f
<1>3. Cardinality(r) = 0 <=> r = {}
  BY <1>1, FS_EmptySet
<1>4. SumOver(r, f) \in Nat /\ \A i \in r : SumOver(r, f) >= f[i]
  BY <1>1, <1>2, SumNat
<1>5. r = {} => SumOver(r, f) = 0
  BY <1>1, <1>2, SumNat
<1>6. r # {} => SumOver(r, f) # 0
  BY <1>2, <1>4
<1>7. aggregate[a].active = 0 <=> aggregate[a].occupied_usd = 0
  BY <1>0, <1>3, <1>5, <1>6
<1> QED BY <1>0, <1>7 DEF accountSummary

(***************************************************************************)
(* The documents and rows of the Durable Object keep their shape and no    *)
(* amount that saveEntry or a census writes goes below zero, for any       *)
(* accounts, plans and limits.                                             *)
(***************************************************************************)
THEOREM BookTypeCorrect == Spec => []TypeOK
<1>1. IInv /\ Sums => TypeOK
  <2> SUFFICES ASSUME IInv, Sums PROVE TypeOK
    OBVIOUS
  <2>1. \A a \in Account : loss[a] \in Nat
    BY DEF IInv, Shape, Amounts
  <2>2. consumed_loss_usd \in Nat
    BY <2>1, FiniteAssumption, SumNat DEF Sums, Losses
  <2> QED BY <2>2 DEF IInv, Shape, Amounts, Entries, TypeOK
<1> QED BY <1>1, SumsInvariance, PTL

(***************************************************************************)
(* However RESERVE, BEGIN_POST, RESOLVE and RELEASE_UNSENT interleave, the *)
(* totals that saveEntry keeps by adding and subtracting are the sums of   *)
(* the entries, per account, per strategy and over all, so the checks of   *)
(* the stored book (validMeta, ACCOUNT_SUMMARY) never fail.                *)
(***************************************************************************)
THEOREM TotalsAreSums == Spec => []OccupancyIsSumOfEntries
<1>1. IInv /\ Sums => OccupancyIsSumOfEntries
  BY SummaryObserved DEF Sums, Counted, OfStrategy, OccupancyIsSumOfEntries, validMeta
<1> QED BY <1>1, SumsInvariance, PTL

(***************************************************************************)
(* applyCensusLoss and a release charge every reported loss once: what the *)
(* campaign consumed is the sum of what the accounts reported, and no      *)
(* account reports more than its orders lost.                              *)
(***************************************************************************)
THEOREM LossesCountedOnce == Spec => []ConsumedIsReportedLoss
<1>1. IInv /\ Sums => ConsumedIsReportedLoss
  BY DEF Sums, Losses, ConsumedIsReportedLoss
<1> QED BY <1>1, SumsInvariance, PTL

(***************************************************************************)
(* The promise of campaign_limit_usd: if an order loses no more than it    *)
(* reserved and a terminal ledger is complete, what the closed orders lost *)
(* and what the open ones may lose never exceeds the ceiling, through late *)
(* censuses, denied commands, releases and lowered limits.                 *)
(***************************************************************************)
THEOREM CampaignCeilingHolds == Spec => []CampaignLossBounded
<1>1. IInv /\ Sums => CampaignLossBounded
  BY OccupiedIsOpen DEF Sums, Bounded, CampaignLossBounded
<1> QED BY <1>1, SumsInvariance, PTL

(***************************************************************************)
(* The campaign as one statement: one ceiling in policy and book, an       *)
(* exposure every census covers, totals that are sums, losses counted once *)
(* and everything lost or at stake within the ceiling.                     *)
(***************************************************************************)
THEOREM CampaignHolds == Spec => []CampaignLossHolds
<1>1. IInv => CampaignCopiesAgree /\ OccupiedAccountsRegistered
  BY DEF IInv
<1> QED BY <1>1, BookInvariance, TotalsAreSums, LossesCountedOnce, CampaignCeilingHolds, PTL
        DEF CampaignLossHolds
-----------------------------------------------------------------------------
(***************************************************************************)
(* stopNewRealRisk is final for what was held: no revision, resumption or  *)
(* retry lets beginRiskPost authorise it.                                  *)
(***************************************************************************)
THEOREM StoppedIsNeverPosted == Spec => []StopRevokesHeld
<1>1. IInv => StopRevokesHeld
  BY DEF IInv, Revocation, StopRevokesHeld
<1> QED BY <1>1, BookInvariance, PTL

(***************************************************************************)
(* The ceiling of the policy document and that of the book are one number, *)
(* never above the installed one: lowerCampaignLimit writes both or none.  *)
(***************************************************************************)
THEOREM OneCampaignCeiling == Spec => []CampaignCopiesAgree
<1>1. IInv => CampaignCopiesAgree
  BY DEF IInv
<1> QED BY <1>1, BookInvariance, PTL

(***************************************************************************)
(* An account that occupies risk is one every census must cover            *)
(* (projectRiskPolicy keeps disabled accounts in the cohort).              *)
(***************************************************************************)
THEOREM OccupiedIsCovered == Spec => []OccupiedAccountsRegistered
<1>1. IInv => OccupiedAccountsRegistered
  BY DEF IInv
<1> QED BY <1>1, BookInvariance, PTL

(***************************************************************************)
(* A sequence names one book: every command that writes raises it, so a    *)
(* BEGIN_POST, RESOLVE or RELEASE_UNSENT that names it acts on what its    *)
(* sender saw.                                                             *)
(***************************************************************************)
THEOREM SequenceNamesOneBook == Spec => SequenceIsVersion
<1>1. ASSUME IInv, [Next]_vars
      PROVE  [/\ sequence' >= sequence
              /\ sequence' = sequence => UNCHANGED book]_vars
  <2>0. sequence \in Nat
    BY <1>1 DEF IInv, Shape, Amounts
  <2>1. CASE Command
    <3>1. sequence' > sequence /\ sequence' \in Nat
      BY <2>1 DEF Command, Amounts
    <3> QED BY <2>0, <3>1
  <2>2. CASE Policy
    BY <2>0, <2>2 DEF Policy, book, meta
  <2>3. CASE Quiet
    BY <2>0, <2>3 DEF Quiet, book, meta
  <2> QED BY <1>1, <2>1, <2>2, <2>3, NextSteps
<1> QED BY <1>1, BookInvariance, PTL DEF Spec, SequenceIsVersion

ResStateOf(i) == IF fence[i] # NoPlan THEN "FENCED" ELSE entries[i].state

\* A turn of one intent is a step of its reservation.
LEMMA TurnIsReservationStep ==
    ASSUME IInv, NEW i \in Intent, Turn(i)
    PROVE  Res!ResNext
<1> DEFINE state == [j \in Intent |-> ResStateOf(j)]
           granted == {j \in Intent : entries[j].posted # 0}
<1>0. /\ state = [j \in Intent |-> IF fence[j] # NoPlan THEN "FENCED" ELSE entries[j].state]
      /\ state' = [j \in Intent |-> IF fence'[j] # NoPlan THEN "FENCED" ELSE entries'[j].state]
  BY DEF ResStateOf
<1>1. /\ After(i)
      /\ \A j \in Intent \ {i} : entries'[j] = entries[j] /\ fence'[j] = fence[j]
  BY TurnAfter, TurnEntries
<1>2. /\ fence[i] # NoPlan => entries[i].state = "NONE"
      /\ entries[i].state = "NONE" => entries[i].posted = 0
      /\ entries[i].state = "HELD" => entries[i].posted = 0
      /\ entries[i].state = "POSTED" => entries[i].posted # 0
      /\ now # 0 /\ NoPlan \notin Plan
  BY PlanAssumption DEF IInv, Lifecycle, Shape
<1>3. ASSUME NEW s, ResStateOf(i)' = s
      PROVE  state' = [state EXCEPT ![i] = s]
  BY <1>0, <1>1, <1>3 DEF ResStateOf
<1>4. /\ entries'[i].posted = entries[i].posted => granted' = granted
      /\ entries'[i].posted # 0 => granted' = granted \cup {i}
  BY <1>1
<1>5. state[i] = ResStateOf(i) /\ (i \in granted <=> entries[i].posted # 0)
  OBVIOUS
<1> USE DEF ResStateOf
<1> HIDE DEF state, granted
<1>6. CASE /\ entries[i].state = "NONE" /\ fence'[i] = NoPlan /\ fence[i] = NoPlan
           /\ entries'[i].state = "HELD" /\ entries'[i].posted = 0
  <2>1. state[i] = "NONE" /\ state' = [state EXCEPT ![i] = "HELD"] /\ granted' = granted
    BY <1>2, <1>3, <1>4, <1>5, <1>6
  <2> QED BY <2>1, <1>0 DEF Res!ResNext, Res!Hold, Res!Move, state, granted
<1>7. CASE /\ entries[i].state = "HELD" /\ fence'[i] = fence[i]
           /\ entries'[i].state = "POSTED" /\ entries'[i].posted = now
  <2>1. state[i] = "HELD" /\ state' = [state EXCEPT ![i] = "POSTED"] /\ granted' = granted \cup {i}
    BY <1>2, <1>3, <1>4, <1>5, <1>7
  <2> QED BY <2>1, <1>0 DEF Res!ResNext, Res!Grant, Res!Move, state, granted
<1>8. CASE /\ entries[i].state \in {"HELD", "POSTED", "UNKNOWN"} /\ entries'[i].state \in {"UNKNOWN", "OPEN"}
           /\ entries'[i].state = "OPEN" => entries[i].state # "HELD"
           /\ entries'[i].state = "UNKNOWN" => entries[i].state # "UNKNOWN"
           /\ entries'[i].posted = entries[i].posted /\ fence'[i] = fence[i]
  <2>1. /\ state[i] = entries[i].state /\ state' = [state EXCEPT ![i] = entries'[i].state]
        /\ granted' = granted
    BY <1>2, <1>3, <1>4, <1>5, <1>8
  <2>2. state[i] \in DOMAIN Res!Resolution /\ entries'[i].state \in Res!Resolution[state[i]]
    BY <1>8, <2>1 DEF Res!Resolution
  <2> QED BY <2>1, <2>2, <1>0 DEF Res!ResNext, Res!Resolve, Res!Move, state, granted
<1>9. CASE /\ Occupying(entries[i]) /\ (entries[i].state = "HELD" \/ entries[i].posted # 0)
           /\ entries'[i].state = "RELEASED" /\ entries'[i].posted = entries[i].posted
           /\ fence'[i] = fence[i]
  <2>1. /\ state[i] \in Res!Active /\ state' = [state EXCEPT ![i] = "RELEASED"] /\ granted' = granted
        /\ state[i] = "HELD" \/ i \in granted
    BY <1>2, <1>3, <1>4, <1>5, <1>9 DEF Occupying, Res!Active
  <2> QED BY <2>1, <1>0 DEF Res!ResNext, Res!Release, Res!Move, state, granted
<1>10. CASE /\ entries[i].state = "NONE" /\ fence[i] = NoPlan /\ fence'[i] \in Plan
            /\ entries'[i] = entries[i]
  <2>1. state[i] = "NONE" /\ state' = [state EXCEPT ![i] = "FENCED"] /\ granted' = granted
    BY <1>2, <1>3, <1>4, <1>5, <1>10
  <2> QED BY <2>1, <1>0 DEF Res!ResNext, Res!Fence, Res!Move, state, granted
<1> QED BY <1>1, <1>6, <1>7, <1>8, <1>9, <1>10 DEF After

(***************************************************************************)
(* The risk book implements the reservation protocol, whatever policy,     *)
(* census and budget decide: one hold and one authorisation per intent,    *)
(* and tombstones that stay.                                               *)
(***************************************************************************)
THEOREM BookImplementsReservation == Spec => ImplementsReservation
<1>1. Init => Res!ResInit
  BY DEF Init, Res!ResInit, NoEntry
<1>2. ASSUME IInv, [Next]_vars
      PROVE  [Res!ResNext]_(Res!resVars)
  <2>1. CASE UNCHANGED <<entries, fence>>
    BY <2>1 DEF Res!resVars
  <2>2. CASE Command
    BY <1>2, <2>1, <2>2, TurnIsReservationStep DEF Command
  <2>3. CASE Policy \/ Quiet
    BY <2>1, <2>3 DEF Policy, Quiet, book
  <2> QED BY <1>2, <2>2, <2>3, NextSteps
<1> QED BY <1>1, <1>2, BookInvariance, PTL DEF Spec, ImplementsReservation, Res!ResSpec
=============================================================================
