-------------------------- MODULE ArithmeticProofs --------------------------
(***************************************************************************)
(* Proofs about the two components that are mostly arithmetic, for words,  *)
(* formats, records and command lines of any size.                         *)
(*                                                                         *)
(* RecordValues: quotients come first, then rounding, then what the words  *)
(* stand for (powers of two are counted as subsets, so no induction is     *)
(* needed), then the invariant ValueInv of a perturbation and the          *)
(* invariant NoiseInv of the generator.                                    *)
(*                                                                         *)
(* Requests: the float of an integer, the records kept and the figure made *)
(* of them, recursion up to a number (from the least counterexample), the  *)
(* invariant RequestInv of a request and the three properties it carries,  *)
(* then exclusive or, wrapping and the seeds.                              *)
(***************************************************************************)
EXTENDS RecordValues, Requests, FiniteSetTheorems, SequenceTheorems, WellFoundedInduction, TLAPS

(* A product with a natural number keeps the order.                        *)
LEMMA Product ==
  ASSUME NEW a \in Int, NEW b \in Int, NEW c \in Nat, a <= b
  PROVE  a * c \in Int /\ b * c \in Int /\ a * c <= b * c
OBVIOUS

(* A number is its quotient and its remainder.                             *)
LEMMA DivMod ==
  ASSUME NEW u \in Nat \ {0}, NEW w \in Nat
  PROVE  /\ w \div u \in Nat /\ w % u \in 0 .. u - 1
         /\ w = (w \div u) * u + (w % u)
OBVIOUS

(* Quotient and remainder of a number are the only ones.                   *)
LEMMA DivUnique ==
  ASSUME NEW u \in Nat \ {0}, NEW q \in Nat, NEW r \in 0 .. u - 1
  PROVE  (q * u + r) \div u = q /\ (q * u + r) % u = r
<1> DEFINE w == q * u + r
           d == w \div u
<1>1. q * u \in Nat
  BY Product
<1>2. w \in Nat
  BY <1>1
<1>3. d \in Nat /\ w % u \in 0 .. u - 1 /\ w = d * u + (w % u)
  BY <1>2, DivMod
<1> HIDE DEF w, d
<1>4. ~(d >= q + 1)
  <2> SUFFICES ASSUME q + 1 <= d PROVE FALSE
    BY <1>3
  <2>1. (q + 1) * u <= d * u /\ d * u \in Int
    BY <1>3, Product
  <2>2. (q + 1) * u = q * u + u
    OBVIOUS
  <2> QED
    BY <1>1, <1>3, <2>1, <2>2 DEF w
<1>5. ~(q >= d + 1)
  <2> SUFFICES ASSUME d + 1 <= q PROVE FALSE
    BY <1>3
  <2>1. (d + 1) * u <= q * u /\ d * u \in Int
    BY <1>3, Product
  <2>2. (d + 1) * u = d * u + u
    BY <1>3
  <2> QED
    BY <1>1, <1>3, <2>1, <2>2 DEF w
<1>6. d = q
  BY <1>3, <1>4, <1>5
<1>7. w % u = r
  BY <1>1, <1>3, <1>6 DEF w
<1> QED
  BY <1>6, <1>7 DEF d, w

(* What the assumptions say of the widths of the format.                   *)
LEMMA Widths ==
  /\ Half \in Nat \ {0} /\ Unit = 2 * Half /\ Unit \in Nat \ {0}
  /\ Infinity \in Nat /\ Sign \in Nat \ {0} /\ Infinity + 2 <= Sign
BY UnitAssumption, QuietAssumption, SignAssumption DEF Half, Infinity

(* The products of the widths, as the steps below need them.               *)
LEMMA Spans ==
  /\ Sign * Unit \in Nat /\ Infinity * Unit \in Nat
  /\ Infinity * Unit + 2 * Unit <= Sign * Unit
  /\ 2 * Sign * Unit = Sign * Unit + Sign * Unit
  /\ Unit <= Sign * Unit
<1>1. (Infinity + 2) * Unit <= Sign * Unit /\ Sign * Unit \in Int
  BY Widths, Product
<1>2. (Infinity + 2) * Unit = Infinity * Unit + 2 * Unit
  BY Widths
<1>3. Infinity * Unit \in Int /\ 0 * Unit <= Infinity * Unit
  BY Widths, Product
<1>4. 1 * Unit <= Sign * Unit
  BY Widths, Product
<1>5. 2 * Sign * Unit = Sign * Unit + Sign * Unit
  BY Widths
<1>6. 0 * Unit = 0 /\ 1 * Unit = Unit
  BY Widths
<1> QED
  BY <1>1, <1>2, <1>3, <1>4, <1>5, <1>6, Widths

(* The magnitude is what is left when the sign is taken off.               *)
LEMMA Magnitudes ==
  ASSUME NEW w \in Words
  PROVE  /\ w \in Nat /\ w < Sign * Unit + Sign * Unit
         /\ Magnitude(w) = IF IsNegative(w) THEN w - Sign * Unit ELSE w
<1> DEFINE u == Sign * Unit
<1>1. u \in Nat \ {0}
  BY Spans, Widths
<1>2. w \in Nat /\ w < u + u
  BY Spans DEF Words
<1> HIDE DEF u
<1>3. CASE w < u
  <2>1. (0 * u + w) % u = w
    BY <1>1, <1>2, <1>3, DivUnique
  <2> QED
    BY <1>1, <1>2, <1>3, <2>1 DEF Magnitude, IsNegative, u
<1>4. CASE w >= u
  <2>1. (1 * u + (w - u)) % u = w - u
    <3>1. w - u \in 0 .. u - 1
      BY <1>1, <1>2, <1>4
    <3> QED
      BY <1>1, <3>1, DivUnique
  <2>2. 1 * u + (w - u) = w
    BY <1>1, <1>2
  <2> QED
    BY <1>2, <1>4, <2>1, <2>2 DEF Magnitude, IsNegative, u
<1> QED
  BY <1>1, <1>2, <1>3, <1>4 DEF u

(* from_f32 rounds up exactly when what is dropped is more than half an    *)
(* interval, or half of one beside an odd word.                            *)
LEMMA Rounding ==
  ASSUME NEW w \in Words, ~IsNaN(w)
  PROVE  LET q == w \div Unit
             r == w % Unit
         IN  /\ q \in Nat /\ r \in 0 .. Unit - 1 /\ w = q * Unit + r
             /\ FromF32(w) = IF r + (q % 2) > Half THEN q + 1 ELSE q
             /\ FromF32(w) \in Narrow
<1> DEFINE q == w \div Unit
           r == w % Unit
           odd == q % 2
           s == w + Half - 1 + odd
<1>1. w \in Nat /\ q \in Nat /\ r \in 0 .. Unit - 1 /\ w = q * Unit + r
  <2>1. w \in Nat
    BY Magnitudes
  <2> QED
    BY <2>1, Widths, DivMod
<1>2. odd \in 0 .. 1
  BY <1>1
<1>3. FromF32(w) = (s % (2 * Sign * Unit)) \div Unit
  BY DEF FromF32
<1> HIDE DEF q, r, odd
<1>4. s \in Nat /\ s < 2 * Sign * Unit
  <2>1. w + Unit <= Sign * Unit + Sign * Unit
    BY Magnitudes, Spans, Widths DEF IsNaN, IsNegative
  <2> QED
    BY <1>1, <1>2, <2>1, Widths, Spans
<1> HIDE DEF s
<1>5. s % (2 * Sign * Unit) = s
  <2>1. 2 * Sign * Unit \in Nat \ {0}
    BY Spans, Widths
  <2> DEFINE n == 2 * Sign * Unit
  <2> HIDE DEF n
  <2>2. n \in Nat \ {0} /\ s \in 0 .. n - 1
    BY <1>4, <2>1 DEF n
  <2>3. (0 * n + s) % n = s
    BY <2>2, DivUnique
  <2> QED
    BY <2>2, <2>3 DEF n
<1>6. FromF32(w) = IF r + odd > Half THEN q + 1 ELSE q
  <2> DEFINE t == r + Half - 1 + odd
  <2>1. s = q * Unit + t /\ t \in Nat /\ q * Unit \in Int
    BY <1>1, <1>2, Widths, Product DEF s
  <2>2. CASE t < Unit
    <3>0. t \in 0 .. Unit - 1
      BY <2>1, <2>2, Widths
    <3> HIDE DEF t
    <3>1. (q * Unit + t) \div Unit = q
      BY <1>1, <3>0, Widths, DivUnique
    <3>2. FromF32(w) = q
      BY <1>3, <1>5, <2>1, <3>1
    <3> QED
      BY <1>1, <1>2, <2>2, <3>2, Widths DEF t
  <2>3. CASE t >= Unit
    <3>1. t - Unit \in 0 .. Unit - 1
      BY <1>1, <1>2, <2>1, <2>3, Widths
    <3>2. ((q + 1) * Unit + (t - Unit)) \div Unit = q + 1
      BY <1>1, <3>1, Widths, DivUnique
    <3>3. (q + 1) * Unit = q * Unit + Unit
      BY <1>1, Widths
    <3> QED
      BY <1>1, <1>2, <1>3, <1>5, <2>1, <2>3, <3>1, <3>2, <3>3, Widths
  <2> QED
    BY <2>1, <2>2, <2>3, Widths
<1>7. FromF32(w) \in Narrow
  <2> DEFINE d == s \div Unit
  <2>1. d \in Nat /\ s % Unit \in 0 .. Unit - 1 /\ s = d * Unit + (s % Unit)
    BY <1>4, Widths, DivMod
  <2> HIDE DEF d
  <2>2. ~(2 * Sign <= d)
    <3> SUFFICES ASSUME 2 * Sign <= d PROVE FALSE
      OBVIOUS
    <3>1. 2 * Sign * Unit <= d * Unit /\ d * Unit \in Int
      BY <2>1, Widths, Product
    <3> QED
      BY <1>4, <2>1, <3>1, Spans
  <2>3. FromF32(w) = d
    BY <1>3, <1>5 DEF d
  <2> QED
    BY <2>1, <2>2, <2>3, Widths DEF Narrow
<1> QED
  BY <1>1, <1>6, <1>7 DEF q, r, odd

(* The number stored is within half an interval of the one given.          *)
THEOREM RoundsToNearest ==
  ASSUME NEW w \in Words, ~IsNaN(w)
  PROVE  /\ ToF32(FromF32(w)) - w <= Half
         /\ w - ToF32(FromF32(w)) <= Half
<1> DEFINE q == w \div Unit
           r == w % Unit
<1>1. /\ q \in Nat /\ r \in 0 .. Unit - 1 /\ w = q * Unit + r
      /\ FromF32(w) = IF r + (q % 2) > Half THEN q + 1 ELSE q
  BY Rounding
<1>2. q % 2 \in 0 .. 1
  BY <1>1
<1> HIDE DEF q, r
<1>3. q * Unit \in Int /\ (q + 1) * Unit = q * Unit + Unit
  BY <1>1, Widths, Product
<1> QED
  BY <1>1, <1>2, <1>3, Widths DEF ToF32

(* Rounding keeps the order of the words.                                  *)
THEOREM RoundingIsMonotone ==
  ASSUME NEW v \in Words, NEW w \in Words, ~IsNaN(v), ~IsNaN(w), v <= w
  PROVE  FromF32(v) <= FromF32(w)
<1> DEFINE p == v \div Unit
           q == w \div Unit
           t == v % Unit
           r == w % Unit
<1>1. /\ p \in Nat /\ t \in 0 .. Unit - 1 /\ v = p * Unit + t
      /\ FromF32(v) = IF t + (p % 2) > Half THEN p + 1 ELSE p
  BY Rounding
<1>2. /\ q \in Nat /\ r \in 0 .. Unit - 1 /\ w = q * Unit + r
      /\ FromF32(w) = IF r + (q % 2) > Half THEN q + 1 ELSE q
  BY Rounding
<1>3. p % 2 \in 0 .. 1 /\ q % 2 \in 0 .. 1
  BY <1>1, <1>2
<1> HIDE DEF p, q, r, t
<1>4. p * Unit \in Int /\ q * Unit \in Int
  BY <1>1, <1>2, Widths, Product
<1>5. p <= q
  <2> SUFFICES ASSUME q + 1 <= p PROVE FALSE
    BY <1>1, <1>2
  <2>1. (q + 1) * Unit <= p * Unit /\ (q + 1) * Unit = q * Unit + Unit
    BY <1>1, <1>2, Widths, Product
  <2> QED
    BY <1>1, <1>2, <1>4, <2>1, Widths
<1>6. CASE p = q
  <2>1. t <= r
    BY <1>1, <1>2, <1>4, <1>6, Widths
  <2> QED
    BY <1>1, <1>2, <1>3, <1>6, <2>1, Widths
<1>7. CASE p < q
  BY <1>1, <1>2, <1>7
<1> QED
  BY <1>1, <1>2, <1>5, <1>6, <1>7

(* What has a bfloat16 of its own is stored as it is.                      *)
THEOREM RoundTripIsExact ==
  ASSUME NEW k \in Narrow, ~IsNaN(ToF32(k))
  PROVE  FromF32(ToF32(k)) = k
<1>1. k \in Nat /\ k * Unit \in Words
  <2>1. k \in Nat /\ k + 1 <= 2 * Sign
    BY Widths DEF Narrow
  <2>2. (k + 1) * Unit <= 2 * Sign * Unit /\ 0 * Unit <= k * Unit
    BY <2>1, Widths, Product
  <2>3. (k + 1) * Unit = k * Unit + Unit /\ k * Unit \in Int
    BY <2>1, Widths, Product
  <2> QED
    BY <2>1, <2>2, <2>3, Widths, Spans DEF Words
<1>2. (k * Unit + 0) \div Unit = k /\ (k * Unit + 0) % Unit = 0
  <2>1. Unit \in Nat \ {0} /\ 0 \in 0 .. Unit - 1
    BY Widths
  <2> QED
    BY <1>1, <2>1, DivUnique
<1>3. k * Unit + 0 = k * Unit
  BY <1>1, Spans DEF Words
<1>4. k % 2 \in 0 .. 1
  BY <1>1
<1> QED
  BY <1>1, <1>2, <1>3, <1>4, Rounding, Widths DEF ToF32

(* The words of the exponents' edges round to themselves.                  *)
LEMMA Edges ==
  /\ {0, Infinity * Unit, Sign * Unit, Sign * Unit + Infinity * Unit} \subseteq {w \in Words : ~IsNaN(w)}
  /\ FromF32(0) = 0 /\ FromF32(Infinity * Unit) = Infinity
  /\ FromF32(Sign * Unit) = Sign
  /\ FromF32(Sign * Unit + Infinity * Unit) = Sign + Infinity
<1>1. {0, Infinity, Sign, Sign + Infinity} \subseteq Narrow
  BY Widths DEF Narrow
<1>2. /\ ToF32(0) = 0 /\ ToF32(Infinity) = Infinity * Unit /\ ToF32(Sign) = Sign * Unit
      /\ ToF32(Sign + Infinity) = Sign * Unit + Infinity * Unit
  BY Widths DEF ToF32
<1>3. {0, Infinity * Unit, Sign * Unit, Sign * Unit + Infinity * Unit} \subseteq Words
  BY Widths, Spans DEF Words
<1>4. \A w \in {0, Infinity * Unit, Sign * Unit, Sign * Unit + Infinity * Unit} : ~IsNaN(w)
  BY <1>3, Magnitudes, Widths, Spans DEF IsNaN, IsNegative
<1>5. /\ ~IsNaN(ToF32(0)) /\ ~IsNaN(ToF32(Infinity)) /\ ~IsNaN(ToF32(Sign))
      /\ ~IsNaN(ToF32(Sign + Infinity))
  BY <1>2, <1>4
<1>6. FromF32(ToF32(0)) = 0 /\ FromF32(ToF32(Infinity)) = Infinity
  BY <1>1, <1>5, RoundTripIsExact
<1>7. FromF32(ToF32(Sign)) = Sign /\ FromF32(ToF32(Sign + Infinity)) = Sign + Infinity
  BY <1>1, <1>5, RoundTripIsExact
<1> QED
  BY <1>2, <1>3, <1>4, <1>6, <1>7

(* The rank of what is stored: the sign never changes.                     *)
LEMMA RankStored ==
  ASSUME NEW w \in Words, ~IsNaN(w)
  PROVE  /\ FromF32(w) \in Nat /\ FromF32(w) * Unit \in Int
         /\ IsNegative(w)  => /\ Sign <= FromF32(w)
                              /\ Rank(ToF32(FromF32(w))) = Sign * Unit - FromF32(w) * Unit
         /\ ~IsNegative(w) => Rank(ToF32(FromF32(w))) = FromF32(w) * Unit
<1> DEFINE k == FromF32(w)
<1>1. k \in Narrow /\ k \in Nat
  BY Rounding, Widths DEF Narrow
<1>2. w \in Int /\ Sign * Unit \in Int /\ Infinity * Unit \in Int
  BY Magnitudes, Spans
<1>3. ASSUME IsNegative(w) PROVE Sign <= k
  BY <1>2, <1>3, Edges, RoundingIsMonotone DEF IsNegative
<1>4. ASSUME ~IsNegative(w) PROVE k + 1 <= Sign
  <2>1. w <= Infinity * Unit
    BY <1>2, <1>4, Magnitudes DEF IsNaN, IsNegative
  <2>2. k <= Infinity
    BY <2>1, Edges, RoundingIsMonotone
  <2> QED
    BY <1>1, <2>2, Widths
<1> HIDE DEF k
<1>5. k * Unit \in Int /\ ToF32(k) = k * Unit /\ ToF32(k) \in Words
  <2>1. k + 1 <= 2 * Sign
    BY <1>1, Widths DEF Narrow
  <2>2. (k + 1) * Unit <= 2 * Sign * Unit /\ 0 * Unit <= k * Unit /\ k * Unit \in Int
    BY <1>1, <2>1, Widths, Product
  <2>3. (k + 1) * Unit = k * Unit + Unit
    BY <1>1, Widths
  <2> QED
    BY <2>2, <2>3, Widths, Spans DEF Words, ToF32
<1>6. ASSUME IsNegative(w) PROVE Rank(ToF32(k)) = Sign * Unit - k * Unit
  <2>1. Sign * Unit <= k * Unit
    BY <1>1, <1>3, <1>6, Widths, Product
  <2>2. IsNegative(ToF32(k))
    BY <1>5, <2>1 DEF IsNegative
  <2> QED
    BY <1>2, <1>5, <2>2, Magnitudes DEF Rank
<1>7. ASSUME ~IsNegative(w) PROVE Rank(ToF32(k)) = k * Unit
  <2>1. (k + 1) * Unit <= Sign * Unit
    BY <1>1, <1>4, <1>7, Widths, Product
  <2>2. (k + 1) * Unit = k * Unit + Unit
    BY <1>1, Widths
  <2>3. ~IsNegative(ToF32(k))
    BY <1>2, <1>5, <2>1, <2>2, Widths DEF IsNegative
  <2> QED
    BY <1>5, <2>3, Magnitudes DEF Rank
<1> QED
  BY <1>1, <1>3, <1>5, <1>6, <1>7 DEF k

(* Storing keeps the order of the numbers.                                 *)
THEOREM StoringKeepsOrder ==
  ASSUME NEW v \in Words, NEW w \in Words, IsFinite(v), IsFinite(w), Rank(v) <= Rank(w)
  PROVE  Rank(ToF32(FromF32(v))) <= Rank(ToF32(FromF32(w)))
<1>1. ~IsNaN(v) /\ ~IsNaN(w)
  BY Magnitudes, Spans DEF IsFinite, IsNaN
<1>2. v \in Nat /\ w \in Nat /\ Sign * Unit \in Nat
  BY Magnitudes, Spans
<1> DEFINE j == FromF32(v)
           k == FromF32(w)
<1>3. j \in Nat /\ k \in Nat /\ j * Unit \in Int /\ k * Unit \in Int
  BY <1>1, RankStored
<1>4. ASSUME j <= k PROVE j * Unit <= k * Unit
  BY <1>3, <1>4, Widths, Product
<1>5. ASSUME k <= j PROVE k * Unit <= j * Unit
  BY <1>3, <1>5, Widths, Product
<1>6. CASE ~IsNegative(v) /\ ~IsNegative(w)
  <2>1. v <= w
    BY <1>2, <1>6, Magnitudes DEF Rank
  <2>2. j <= k
    BY <1>1, <2>1, RoundingIsMonotone
  <2> QED
    BY <1>1, <1>4, <1>6, <2>2, RankStored
<1>7. CASE IsNegative(v) /\ IsNegative(w)
  <2>1. w <= v
    BY <1>2, <1>7, Magnitudes DEF Rank
  <2>2. k <= j
    BY <1>1, <2>1, RoundingIsMonotone
  <2>3. k * Unit <= j * Unit
    BY <1>5, <2>2
  <2> HIDE DEF j, k
  <2>4. Rank(ToF32(j)) = Sign * Unit - j * Unit /\ Rank(ToF32(k)) = Sign * Unit - k * Unit
    BY <1>1, <1>7, RankStored DEF j, k
  <2> QED
    BY <1>2, <1>3, <2>3, <2>4 DEF j, k
<1>8. CASE IsNegative(v) /\ ~IsNegative(w)
  <2>1. Sign * Unit <= j * Unit /\ 0 * Unit <= k * Unit /\ 0 * Unit = 0
    <3>1. Sign <= j
      BY <1>1, <1>8, RankStored
    <3> QED
      BY <1>3, <3>1, Widths, Product
  <2> HIDE DEF j, k
  <2>2. Rank(ToF32(j)) = Sign * Unit - j * Unit /\ Rank(ToF32(k)) = k * Unit
    BY <1>1, <1>8, RankStored DEF j, k
  <2> QED
    BY <1>2, <1>3, <2>1, <2>2 DEF j, k
<1>9. CASE ~IsNegative(v) /\ IsNegative(w)
  <2>1. v = 0 /\ w = Sign * Unit
    BY <1>2, <1>9, Magnitudes DEF Rank, IsNegative
  <2>2. j = 0 /\ k = Sign
    BY <2>1, Edges
  <2>3. Rank(ToF32(j)) = j * Unit /\ Rank(ToF32(k)) = Sign * Unit - k * Unit
    BY <1>1, <1>9, RankStored
  <2>4. 0 * Unit = 0
    BY Widths
  <2> QED
    BY <1>2, <2>2, <2>3, <2>4
<1> QED
  BY <1>6, <1>7, <1>8, <1>9

(* Setting the quiet bit of a word whose exponent is all ones.             *)
LEMMA WithQuiet ==
  ASSUME NEW base \in {0, Sign}, NEW n \in 0 .. 2 * Quiet - 1
  PROVE  /\ base + Infinity + n \in Nat
         /\ WithBit(base + Infinity + n, Quiet) \in
              base + Infinity + Quiet .. base + Infinity + 2 * Quiet - 1
<1> DEFINE e == Sign \div (2 * Quiet)
           k == base + Infinity + n
<1>1. e \in Nat /\ Sign = e * (2 * Quiet) /\ e >= 1
  <2>1. 2 * Quiet \in Nat \ {0}
    BY QuietAssumption
  <2>2. e \in Nat /\ Sign = e * (2 * Quiet) + (Sign % (2 * Quiet))
    BY <2>1, Widths, DivMod
  <2> HIDE DEF e
  <2>3. Sign = e * (2 * Quiet)
    BY <2>2, SignAssumption, QuietAssumption, Widths
  <2>4. e # 0
    BY <2>3, Widths, QuietAssumption
  <2> QED
    BY <2>2, <2>3, <2>4
<1> HIDE DEF e
<1>2. PICK c \in Nat : c % 2 = 0 /\ base + Infinity = c * Quiet
  <2>1. Infinity = (2 * e - 2) * Quiet
    BY <1>1, QuietAssumption DEF Infinity
  <2>2. CASE base = 0
    <3>1. 2 * e - 2 \in Nat /\ (2 * e - 2) % 2 = 0
      BY <1>1
    <3> QED
      BY <2>1, <2>2, <3>1, Widths
  <2>3. CASE base = Sign
    <3>1. 4 * e - 2 \in Nat /\ (4 * e - 2) % 2 = 0
      BY <1>1
    <3>2. base + Infinity = (4 * e - 2) * Quiet
      BY <1>1, <2>1, <2>3, QuietAssumption
    <3> QED
      BY <3>1, <3>2
  <2> QED
    BY <2>2, <2>3
<1>3. base + Infinity \in Nat /\ k \in Nat /\ Quiet \in Nat \ {0}
  BY Widths, QuietAssumption
<1>4. CASE n < Quiet
  <2>1. n \in 0 .. Quiet - 1
    BY <1>4, QuietAssumption
  <2>2. (c * Quiet + n) \div Quiet = c
    BY <1>3, <2>1, DivUnique
  <2>3. WithBit(k, Quiet) = k + Quiet
    BY <1>2, <2>2 DEF WithBit
  <2> QED
    BY <1>3, <1>4, <2>3
<1>5. CASE n >= Quiet
  <2>1. n - Quiet \in 0 .. Quiet - 1
    BY <1>3, <1>5
  <2> DEFINE over == n - Quiet
  <2> HIDE DEF over
  <2>2. ((c + 1) * Quiet + over) \div Quiet = c + 1
    <3>1. over \in 0 .. Quiet - 1 /\ c + 1 \in Nat
      BY <1>2, <2>1 DEF over
    <3> QED
      BY <1>3, <3>1, DivUnique
  <2>3. (c + 1) * Quiet = c * Quiet + Quiet /\ c * Quiet \in Int
    BY <1>2, <1>3, Product
  <2>4. (c + 1) * Quiet + over = k
    BY <1>2, <1>3, <2>3 DEF over
  <2>5. (c + 1) % 2 = 1
    BY <1>2
  <2>6. WithBit(k, Quiet) = k
    BY <2>2, <2>4, <2>5 DEF WithBit
  <2> QED
    BY <1>3, <1>5, <2>6
<1> QED
  BY <1>3, <1>4, <1>5

(* A NaN never becomes an infinity, though what made it one is dropped.    *)
THEOREM NaNStaysNaN ==
  ASSUME NEW w \in Words, IsNaN(w)
  PROVE  FromF32(w) \in Narrow /\ ToF32(FromF32(w)) \in Words /\ IsNaN(ToF32(FromF32(w)))
<1> DEFINE base == IF IsNegative(w) THEN Sign ELSE 0
           q == w \div Unit
           k == FromF32(w)
<1>1. base \in {0, Sign} /\ base \in Nat
  BY Widths
<1>2. /\ w \in Nat /\ base * Unit \in Nat /\ Magnitude(w) = w - base * Unit
      /\ w < base * Unit + Sign * Unit /\ Infinity * Unit < w - base * Unit
  <2>1. 0 * Unit = 0
    BY Widths
  <2> QED
    BY <2>1, Magnitudes, Spans DEF IsNegative, IsNaN
<1>3. q \in Nat /\ w % Unit \in 0 .. Unit - 1 /\ w = q * Unit + (w % Unit)
  BY <1>2, Widths, DivMod
<1> HIDE DEF base, q
<1>4. base + Infinity <= q
  <2> SUFFICES ASSUME q + 1 <= base + Infinity PROVE FALSE
    BY <1>1, <1>3, Widths
  <2>1. (q + 1) * Unit <= (base + Infinity) * Unit
    BY <1>1, <1>3, Widths, Product
  <2>2. (q + 1) * Unit = q * Unit + Unit /\ q * Unit \in Int
    BY <1>3, Widths, Product
  <2>3. (base + Infinity) * Unit = base * Unit + Infinity * Unit
    BY <1>1, Widths
  <2> QED
    BY <1>2, <1>3, <2>1, <2>2, <2>3, Spans, Widths
<1>5. q < base + Sign
  <2> SUFFICES ASSUME base + Sign <= q PROVE FALSE
    BY <1>1, <1>3, Widths
  <2>1. (base + Sign) * Unit <= q * Unit /\ q * Unit \in Int
    BY <1>1, <1>3, Widths, Product
  <2>2. (base + Sign) * Unit = base * Unit + Sign * Unit
    BY <1>1, Widths
  <2> QED
    BY <1>2, <1>3, <2>1, <2>2, Spans, Widths
<1>6. k \in base + Infinity + Quiet .. base + Sign - 1
  <2> DEFINE n == q - (base + Infinity)
  <2>1. n \in 0 .. 2 * Quiet - 1 /\ base + Infinity + n = q
    BY <1>1, <1>3, <1>4, <1>5, Widths, QuietAssumption DEF Infinity
  <2>2. k = WithBit(q, Quiet)
    BY DEF FromF32, q
  <2> HIDE DEF n, k
  <2>3. k \in base + Infinity + Quiet .. base + Infinity + 2 * Quiet - 1
    BY <1>1, <2>1, <2>2, WithQuiet
  <2> QED
    BY <1>1, <2>3, Widths, QuietAssumption DEF Infinity
<1> HIDE DEF k
<1>7. k \in Nat /\ base + Infinity + 1 <= k /\ k + 1 <= base + Sign /\ base + Sign <= 2 * Sign
  BY <1>1, <1>6, Widths, QuietAssumption
<1>8. /\ (base + Infinity + 1) * Unit <= k * Unit
      /\ (k + 1) * Unit <= (base + Sign) * Unit
      /\ k * Unit \in Int
  BY <1>1, <1>7, Widths, Product
<1>9. /\ (base + Infinity + 1) * Unit = base * Unit + Infinity * Unit + Unit
      /\ (k + 1) * Unit = k * Unit + Unit
      /\ (base + Sign) * Unit = base * Unit + Sign * Unit
  BY <1>1, <1>7, Widths
<1>10. ToF32(k) \in Words /\ ToF32(k) = k * Unit
  <2>1. base * Unit <= Sign * Unit
    BY <1>1, Widths, Product
  <2> QED
    BY <1>2, <1>8, <1>9, <2>1, Widths, Spans DEF ToF32, Words
<1>11. Magnitude(ToF32(k)) = k * Unit - base * Unit
  <2>1. CASE base = 0
    <3>1. 0 * Unit = 0
      BY Widths
    <3>2. ~IsNegative(ToF32(k))
      BY <1>8, <1>9, <1>10, <2>1, <3>1, Widths, Spans DEF IsNegative
    <3> QED
      BY <1>8, <1>10, <2>1, <3>1, <3>2, Magnitudes
  <2>2. CASE base = Sign
    <3>1. IsNegative(ToF32(k))
      BY <1>8, <1>9, <1>10, <2>2, Widths, Spans DEF IsNegative
    <3> QED
      BY <1>8, <1>10, <2>2, <3>1, Magnitudes
  <2> QED
    BY <1>1, <2>1, <2>2
<1>12. IsNaN(ToF32(k))
  BY <1>2, <1>8, <1>9, <1>11, Widths, Spans DEF IsNaN
<1>13. k \in Narrow
  BY <1>1, <1>7, Widths DEF Narrow
<1> QED
  BY <1>10, <1>12, <1>13 DEF k

(* FromF32 returns a narrow word.                                          *)
LEMMA Stores ==
  ASSUME NEW w \in Words
  PROVE  FromF32(w) \in Narrow
BY Rounding, NaNStaysNaN

(* A narrow word widens to a wide one.                                     *)
LEMMA Widens ==
  ASSUME NEW k \in Narrow
  PROVE  ToF32(k) \in Words
<1>1. k \in Nat /\ k + 1 <= 2 * Sign
  BY Widths DEF Narrow
<1>2. (k + 1) * Unit <= 2 * Sign * Unit /\ 0 * Unit <= k * Unit /\ k * Unit \in Int
  BY <1>1, Widths, Product
<1>3. (k + 1) * Unit = k * Unit + Unit /\ 0 * Unit = 0
  BY <1>1, Widths
<1> QED
  BY <1>2, <1>3, Widths, Spans DEF Words, ToF32

-----------------------------------------------------------------------------
(* What the words stand for                                                *)

(* Powers of two, from the number of subsets of an interval.               *)
LEMMA Powers ==
  ASSUME NEW n \in Nat
  PROVE  2^n \in Nat \ {0} /\ 2^(n + 1) \in Nat /\ 2^(n + 1) = 2 * 2^n
<1> DEFINE old == SUBSET (1 .. n)
           new == {X \cup {n + 1} : X \in old}
           add == [X \in old |-> X \cup {n + 1}]
<1>1. /\ IsFiniteSet(1 .. n) /\ Cardinality(1 .. n) = n
      /\ IsFiniteSet(1 .. n + 1) /\ Cardinality(1 .. n + 1) = n + 1
  BY FS_Interval
<1>2. /\ IsFiniteSet(old) /\ Cardinality(old) = 2^n
      /\ Cardinality(SUBSET (1 .. n + 1)) = 2^(n + 1)
  BY <1>1, FS_SUBSET
<1>3. 2^n \in Nat \ {0}
  <2>1. {} \in old
    OBVIOUS
  <2> HIDE DEF old
  <2>2. old # {} /\ Cardinality(old) \in Nat
    BY <1>2, <2>1, FS_CardinalityType
  <2>3. Cardinality(old) # 0
    BY <1>2, <2>2, FS_EmptySet
  <2> QED
    BY <1>2, <2>2, <2>3
<1>4. \A X \in old : n + 1 \notin X
  OBVIOUS
<1>5. SUBSET (1 .. n + 1) = old \cup new
  <2>1. 1 .. n + 1 = (1 .. n) \cup {n + 1}
    OBVIOUS
  <2>2. ASSUME NEW Y \in SUBSET (1 .. n + 1) PROVE Y \in old \cup new
    <3>1. CASE n + 1 \in Y
      <4>1. Y \ {n + 1} \in old /\ Y = (Y \ {n + 1}) \cup {n + 1}
        BY <2>1, <3>1
      <4> QED
        BY <4>1
    <3>2. CASE n + 1 \notin Y
      BY <2>1, <3>2
    <3> QED
      BY <3>1, <3>2
  <2>3. ASSUME NEW Y \in old \cup new PROVE Y \in SUBSET (1 .. n + 1)
    BY <2>1
  <2> QED
    BY <2>2, <2>3
<1>6. old \cap new = {}
  BY <1>4
<1>7. IsFiniteSet(new) /\ Cardinality(new) = Cardinality(old)
  <2>1. add \in Bijection(old, new)
    <3>1. add \in [old -> new] /\ \A Y \in new : \E X \in old : add[X] = Y
      OBVIOUS
    <3>2. ASSUME NEW X \in old, NEW Y \in old, add[X] = add[Y] PROVE X = Y
      <4>1. X \cup {n + 1} = Y \cup {n + 1}
        BY <3>2
      <4> QED
        BY <1>4, <4>1
    <3> HIDE DEF add, old, new
    <3> QED
      BY <3>1, <3>2 DEF Bijection, Injection, Surjection, IsInjective
  <2>2. ExistsBijection(old, new)
    BY <2>1 DEF ExistsBijection
  <2> HIDE DEF old, new
  <2> QED
    BY <1>2, <2>2, FS_Bijection
<1>8. Cardinality(old \cup new) = Cardinality(old) + Cardinality(new)
  <2>1. Cardinality({}) = 0
    BY FS_EmptySet
  <2> HIDE DEF old, new
  <2>2. Cardinality(old \cup new) = Cardinality(old) + Cardinality(new) - Cardinality(old \cap new)
    BY <1>2, <1>7, FS_Union
  <2>3. Cardinality(old \cap new) = 0
    BY <1>6, <2>1
  <2>4. Cardinality(old) \in Nat /\ Cardinality(new) \in Nat
    BY <1>2, <1>7, FS_CardinalityType
  <2> QED
    BY <2>2, <2>3, <2>4
<1>9. 2^(n + 1) = 2^n + 2^n
  BY <1>2, <1>5, <1>7, <1>8
<1> QED
  BY <1>3, <1>9

(* A greater exponent, a greater power.                                    *)
LEMMA PowersGrow ==
  ASSUME NEW a \in Nat, NEW b \in Nat, a <= b
  PROVE  2^a <= 2^b
<1>1. /\ IsFiniteSet(1 .. a) /\ Cardinality(1 .. a) = a
      /\ IsFiniteSet(1 .. b) /\ Cardinality(1 .. b) = b
  BY FS_Interval
<1>2. /\ Cardinality(SUBSET (1 .. a)) = 2^a
      /\ IsFiniteSet(SUBSET (1 .. b)) /\ Cardinality(SUBSET (1 .. b)) = 2^b
  BY <1>1, FS_SUBSET
<1>3. SUBSET (1 .. a) \in SUBSET (SUBSET (1 .. b))
  BY SMT
<1>4. Cardinality(SUBSET (1 .. a)) <= Cardinality(SUBSET (1 .. b))
  BY <1>2, <1>3, FS_Subset
<1> QED
  BY <1>2, <1>4

(* The words of one exponent, and how far apart their numbers are: the     *)
(* words of exponent e run from e * Significands to the next.              *)
Significands == 2 * Quiet * Unit
Step(e) == IF e = 0 THEN 1 ELSE 2^(e - 1)
Start(e) == IF e = 0 THEN 0 ELSE Significands * Step(e)

(* Each exponent's numbers begin where those of the one below it end.      *)
LEMMA Exponents ==
  ASSUME NEW e \in Nat
  PROVE  /\ Significands \in Nat \ {0} /\ Step(e) \in Nat \ {0} /\ Start(e) \in Nat
         /\ Start(e + 1) = Start(e) + Significands * Step(e)
         /\ Significands * Step(e) \in Nat
<1>1. Significands \in Nat \ {0}
  <2>1. 2 * Quiet \in Nat \ {0} /\ Unit \in Nat \ {0}
    BY QuietAssumption, Widths
  <2>2. \A x, y \in Nat \ {0} : x * y \in Nat \ {0}
    OBVIOUS
  <2> QED
    BY <2>1, <2>2 DEF Significands
<1>2. CASE e = 0
  <2>1. Step(e) = 1 /\ Start(e) = 0
    BY <1>2 DEF Step, Start
  <2>2. Step(e + 1) = 1
    <3>1. e + 1 # 0 /\ (e + 1) - 1 = 0 /\ 2^0 = 1
      BY <1>2
    <3> QED
      BY <3>1 DEF Step
  <2>3. Start(e + 1) = Significands * 1
    BY <1>2, <2>2 DEF Start
  <2> QED
    BY <1>1, <2>1, <2>3
<1>3. CASE e # 0
  <2>1. e - 1 \in Nat /\ (e - 1) + 1 = e /\ (e + 1) - 1 = e /\ e + 1 # 0
    BY <1>3
  <2>2. 2^(e - 1) \in Nat \ {0} /\ 2^e \in Nat /\ 2^e = 2 * 2^(e - 1)
    <3>1. \A n \in Nat : 2^n \in Nat \ {0} /\ 2^(n + 1) \in Nat /\ 2^(n + 1) = 2 * 2^n
      BY Powers
    <3> QED
      BY <2>1, <3>1
  <2>3. Step(e) = 2^(e - 1) /\ Step(e + 1) = 2^e
    BY <1>3, <2>1 DEF Step
  <2>4. Start(e) = Significands * Step(e) /\ Start(e + 1) = Significands * Step(e + 1)
    BY <1>3, <2>1 DEF Start
  <2> DEFINE s == Step(e)
  <2>5. s \in Nat \ {0} /\ Step(e + 1) = 2 * s
    BY <2>2, <2>3
  <2> HIDE DEF s
  <2>6. Significands * s \in Nat /\ Significands * (2 * s) = Significands * s + Significands * s
    BY <1>1, <2>5
  <2> QED
    BY <1>1, <2>4, <2>5, <2>6 DEF s
<1> QED
  BY <1>2, <1>3

(* Numbers of a greater exponent are no smaller.                           *)
LEMMA StartsGrow ==
  ASSUME NEW d \in Nat, NEW e \in Nat, d <= e
  PROVE  Start(d) <= Start(e)
<1>1. Significands \in Nat \ {0} /\ Start(d) \in Nat /\ Start(e) \in Nat
  BY Exponents
<1>2. CASE d = 0
  BY <1>1, <1>2 DEF Start
<1>3. CASE d # 0
  <2>1. d - 1 \in Nat /\ e - 1 \in Nat /\ d - 1 <= e - 1 /\ e # 0
    BY <1>3
  <2>2. Step(d) <= Step(e)
    BY <1>3, <2>1, PowersGrow DEF Step
  <2>3. Step(d) \in Nat /\ Step(e) \in Nat
    BY Exponents
  <2>4. Step(d) * Significands <= Step(e) * Significands
    BY <1>1, <2>2, <2>3, Product
  <2>5. Significands * Step(d) = Step(d) * Significands /\ Significands * Step(e) = Step(e) * Significands
    BY <1>1, <2>3
  <2> QED
    BY <1>3, <2>1, <2>4, <2>5 DEF Start
<1> QED
  BY <1>2, <1>3

(* Between two exponents the numbers of the words are evenly spaced, the   *)
(* next exponent's first number included.                                  *)
LEMMA Spacing ==
  ASSUME NEW w \in Words, NEW e \in Nat, NEW f \in 0 .. Significands,
         Magnitude(w) = e * Significands + f
  PROVE  Value(w) = Start(e) + f * Step(e)
<1>1. /\ Significands \in Nat \ {0} /\ Step(e) \in Nat \ {0} /\ Start(e) \in Nat
      /\ Start(e + 1) = Start(e) + Significands * Step(e)
  BY Exponents
<1>2. ASSUME NEW d \in Nat, NEW g \in 0 .. Significands - 1,
             Magnitude(w) = d * Significands + g
      PROVE  Value(w) = Start(d) + g * Step(d)
  <2>1. Magnitude(w) \div Significands = d /\ Magnitude(w) % Significands = g
    BY <1>1, <1>2, DivUnique
  <2>2. Value(w) = IF d = 0 THEN g ELSE (Significands + g) * 2^(d - 1)
    BY <2>1 DEF Value, Significands
  <2>3. CASE d = 0
    BY <2>2, <2>3 DEF Start, Step
  <2>4. CASE d # 0
    <3>1. Step(d) \in Nat
      BY Exponents
    <3>2. Value(w) = (Significands + g) * Step(d) /\ Start(d) = Significands * Step(d)
      BY <2>2, <2>4 DEF Start, Step
    <3>3. (Significands + g) * Step(d) = Significands * Step(d) + g * Step(d)
      BY <1>1, <3>1
    <3> QED
      BY <3>2, <3>3
  <2> QED
    BY <2>3, <2>4
<1>3. CASE f < Significands
  BY <1>1, <1>2, <1>3
<1>4. CASE f = Significands
  <2>1. Magnitude(w) = (e + 1) * Significands + 0
    BY <1>1, <1>4
  <2>2. Value(w) = Start(e + 1) + 0 * Step(e + 1)
    BY <1>1, <1>2, <2>1
  <2>3. 0 * Step(e + 1) = 0
    <3>1. Step(e + 1) \in Nat
      BY Exponents
    <3> QED
      BY <3>1
  <2> QED
    BY <1>1, <1>4, <2>2, <2>3
<1> QED
  BY <1>1, <1>3, <1>4

(* Every word lies between two exponents.                                  *)
LEMMA InExponent ==
  ASSUME NEW w \in Words
  PROVE  \E e \in Nat, f \in 0 .. Significands - 1 : Magnitude(w) = e * Significands + f
<1>1. Significands \in Nat \ {0} /\ Magnitude(w) \in Nat
  BY Exponents, Magnitudes, Spans DEF IsNegative
<1> HIDE DEF Significands
<1> QED
  BY <1>1, DivMod

(* Of two words the one of greater magnitude stands for the greater number.*)
LEMMA ValueGrows ==
  ASSUME NEW v \in Words, NEW w \in Words, Magnitude(v) < Magnitude(w)
  PROVE  Value(v) \in Nat /\ Value(w) \in Nat /\ Value(v) < Value(w)
<1>1. PICK d \in Nat, g \in 0 .. Significands - 1 : Magnitude(v) = d * Significands + g
  BY InExponent
<1>2. PICK e \in Nat, f \in 0 .. Significands - 1 : Magnitude(w) = e * Significands + f
  BY InExponent
<1>3. /\ Significands \in Nat \ {0} /\ Step(d) \in Nat \ {0} /\ Step(e) \in Nat \ {0}
      /\ Start(d) \in Nat /\ Start(e) \in Nat
      /\ Start(d + 1) = Start(d) + Significands * Step(d)
      /\ Significands * Step(d) \in Nat
  BY Exponents
<1>4. Value(v) = Start(d) + g * Step(d) /\ Value(w) = Start(e) + f * Step(e)
  BY <1>1, <1>2, <1>3, Spacing
<1>5. \A x, y \in Nat, s \in Nat \ {0} : x * s \in Nat /\ (x < y => x * s < y * s)
  OBVIOUS
<1>6. d <= e
  <2> SUFFICES ASSUME e + 1 <= d PROVE FALSE
    OBVIOUS
  <2>1. (e + 1) * Significands <= d * Significands /\ d * Significands \in Int
    BY <1>3, Product
  <2>2. (e + 1) * Significands = e * Significands + Significands /\ e * Significands \in Int
    BY <1>3
  <2> QED
    BY <1>1, <1>2, <1>3, <2>1, <2>2
<1>7. CASE d = e
  <2>1. g < f
    <3>1. d * Significands \in Int
      BY <1>3
    <3> QED
      BY <1>1, <1>2, <1>3, <1>7, <3>1
  <2>2. g * Step(d) \in Nat /\ f * Step(d) \in Nat /\ g * Step(d) < f * Step(d)
    BY <1>3, <1>5, <2>1
  <2> QED
    BY <1>3, <1>4, <1>7, <2>2
<1>8. CASE d < e
  <2>1. g * Step(d) \in Nat /\ g * Step(d) < Significands * Step(d)
    BY <1>3, <1>5
  <2>2. Start(d + 1) <= Start(e)
    BY <1>8, StartsGrow
  <2>3. f * Step(e) \in Nat
    BY <1>3, <1>5
  <2> QED
    BY <1>3, <1>4, <2>1, <2>2, <2>3
<1> QED
  BY <1>6, <1>7, <1>8

(* Where a word lies between two bfloat16s, and which of them it is stored *)
(* as: the sign taken off, the sum that rounds it carries at most into the *)
(* infinity.                                                               *)
LEMMA Placed ==
  ASSUME NEW w \in Words, ~IsNaN(w)
  PROVE  LET q == Magnitude(w) \div Unit
             r == Magnitude(w) % Unit
             k == FromF32(w) % Sign
         IN  /\ q \in Nat /\ r \in 0 .. Unit - 1 /\ Magnitude(w) = q * Unit + r
             /\ k = (IF r + (q % 2) > Half THEN q + 1 ELSE q) /\ k <= Infinity
             /\ FromF32(w) % 2 = k % 2
             /\ ToF32(FromF32(w)) \in Words /\ Magnitude(ToF32(FromF32(w))) = k * Unit
             /\ IsNegative(ToF32(FromF32(w))) <=> IsNegative(w)
<1> DEFINE base == IF IsNegative(w) THEN Sign ELSE 0
           m == Magnitude(w)
           q == m \div Unit
           r == m % Unit
           n == FromF32(w)
<1>1. /\ Unit \in Nat \ {0} /\ Half \in Nat \ {0} /\ Unit = 2 * Half
      /\ Sign \in Nat \ {0} /\ Infinity \in Nat /\ Infinity + 2 <= Sign
      /\ base \in {0, Sign} /\ base \in Nat
  BY Widths
<1>2. m \in Nat /\ m <= Infinity * Unit /\ w = base * Unit + m /\ base * Unit \in Nat
  <2>1. 0 * Unit = 0
    BY <1>1
  <2> QED
    BY <2>1, Magnitudes, Spans DEF IsNaN, IsNegative
<1>3. q \in Nat /\ r \in 0 .. Unit - 1 /\ m = q * Unit + r
  BY <1>1, <1>2, DivMod
<1>4. PICK h \in Nat : base = 2 * h
  <2>1. PICK j \in Nat : Sign = 2 * j
    <3> DEFINE j == Sign \div (2 * Quiet)
    <3>1. 2 * Quiet \in Nat \ {0} /\ Quiet \in Nat
      BY QuietAssumption
    <3>2. j \in Nat /\ Sign = j * (2 * Quiet) + (Sign % (2 * Quiet))
      BY <1>1, <3>1, DivMod
    <3> HIDE DEF j
    <3>3. Sign = j * (2 * Quiet)
      BY <3>1, <3>2, SignAssumption
    <3>4. j * Quiet \in Nat /\ j * (2 * Quiet) = 2 * (j * Quiet)
      BY <3>1, <3>2
    <3> QED
      BY <3>3, <3>4
  <2>2. base = 0 \/ base = 2 * j
    BY <2>1
  <2> QED
    BY <2>2
<1>5. IsNegative(w) <=> base = Sign
  BY <1>1
<1>6. IsNegative(w) \/ base = 0
  OBVIOUS
<1> HIDE DEF base, m, q, r
<1>7. w \div Unit = base + q /\ w % Unit = r
  <2>1. (base + q) * Unit = base * Unit + q * Unit /\ q * Unit \in Int
    BY <1>1, <1>3
  <2>2. w = (base + q) * Unit + r
    BY <1>2, <1>3, <2>1
  <2>3. base + q \in Nat
    BY <1>1, <1>3
  <2> QED
    BY <1>1, <1>3, <2>2, <2>3, DivUnique
<1>8. (base + q) % 2 = q % 2 /\ q % 2 \in 0 .. 1
  BY <1>3, <1>4
<1>9. n = base + (IF r + (q % 2) > Half THEN q + 1 ELSE q) /\ n \in Nat
  <2>1. n = IF (w % Unit) + ((w \div Unit) % 2) > Half THEN (w \div Unit) + 1 ELSE w \div Unit
    BY Rounding
  <2>2. n = IF r + (q % 2) > Half THEN base + q + 1 ELSE base + q
    BY <1>7, <1>8, <2>1
  <2> HIDE DEF n
  <2> QED
    BY <1>1, <1>3, <1>8, <2>2
<1> HIDE DEF n
<1> DEFINE k == IF r + (q % 2) > Half THEN q + 1 ELSE q
<1>10. k \in Nat /\ n = base + k
  BY <1>3, <1>9
<1>11. k <= Infinity
  <2>1. q * Unit \in Int /\ Infinity * Unit \in Int
    BY <1>1, <1>3
  <2>2. ASSUME Infinity + 1 <= k PROVE FALSE
    <3>1. CASE r + (q % 2) > Half
      <4>1. r >= 1 /\ Infinity <= q
        BY <1>1, <1>3, <1>8, <2>2, <3>1
      <4>2. Infinity * Unit <= q * Unit
        BY <1>1, <1>3, <4>1, Product
      <4> QED
        BY <1>2, <1>3, <2>1, <4>1, <4>2
    <3>2. CASE ~(r + (q % 2) > Half)
      <4>1. Infinity + 1 <= q
        BY <2>2, <3>2
      <4>2. (Infinity + 1) * Unit <= q * Unit /\ (Infinity + 1) * Unit = Infinity * Unit + Unit
        BY <1>1, <1>3, <4>1, Product
      <4> QED
        BY <1>1, <1>2, <1>3, <2>1, <4>2
    <3> QED
      BY <3>1, <3>2
  <2> QED
    BY <1>1, <1>10, <2>2
<1>12. n % Sign = k
  <2>1. k \in 0 .. Sign - 1
    BY <1>1, <1>10, <1>11
  <2> HIDE DEF k
  <2>2. (0 * Sign + k) % Sign = k /\ (1 * Sign + k) % Sign = k
    BY <1>1, <2>1, DivUnique
  <2>3. 0 * Sign + k = k /\ 1 * Sign + k = Sign + k
    BY <1>1, <1>10
  <2> QED
    BY <1>1, <1>10, <2>2, <2>3
<1>13. n % 2 = k % 2
  <2> HIDE DEF k
  <2> QED
    BY <1>4, <1>10
<1>14. ToF32(n) = base * Unit + k * Unit /\ k * Unit \in Nat /\ k * Unit <= Infinity * Unit
  <2> HIDE DEF k
  <2>1. (base + k) * Unit = base * Unit + k * Unit
    BY <1>1, <1>10
  <2>2. k * Unit <= Infinity * Unit /\ 0 * Unit <= k * Unit /\ k * Unit \in Int /\ 0 * Unit = 0
    BY <1>1, <1>10, <1>11, Product
  <2> QED
    BY <1>10, <2>1, <2>2 DEF ToF32
<1>15. ToF32(n) \in Words
  BY Widens, Rounding DEF n
<1> HIDE DEF k
<1>16. IsNegative(ToF32(n)) <=> base = Sign
  <2>1. base = 0 => base * Unit = 0
    BY <1>1
  <2> QED
    BY <1>1, <1>14, <2>1, Spans DEF IsNegative
<1>17. Magnitude(ToF32(n)) = k * Unit
  <2>1. base = 0 => base * Unit = 0
    BY <1>1
  <2>2. base = Sign => Magnitude(ToF32(n)) = ToF32(n) - Sign * Unit
    BY <1>15, <1>16, Magnitudes
  <2>3. base # Sign => base = 0 /\ Magnitude(ToF32(n)) = ToF32(n)
    BY <1>1, <1>15, <1>16, Magnitudes
  <2> QED
    BY <1>2, <1>14, <2>1, <2>2, <2>3, Spans
<1> QED
  BY <1>3, <1>5, <1>11, <1>12, <1>13, <1>15, <1>16, <1>17 DEF n, k, q, r, m

(* The bfloat16s of magnitude up to the infinity, as words.                *)
LEMMA Positive ==
  ASSUME NEW k \in 0 .. Infinity + 1
  PROVE  ToF32(k) \in Words /\ Magnitude(ToF32(k)) = k * Unit
<1>1. k \in Nat /\ k + 1 <= Sign /\ k \in Narrow
  BY Widths DEF Narrow
<1>2. (k + 1) * Unit <= Sign * Unit /\ (k + 1) * Unit = k * Unit + Unit /\ k * Unit \in Int
  BY <1>1, Widths, Product
<1>3. ToF32(k) \in Words
  BY <1>1, Widens
<1>4. ~IsNegative(ToF32(k))
  BY <1>2, Widths, Spans DEF IsNegative, ToF32
<1> QED
  BY <1>3, <1>4, Magnitudes DEF ToF32

(* The two bfloat16s a number lies between stand at the ends of an evenly  *)
(* spaced interval, and every other stands beyond them.                    *)
LEMMA Between ==
  ASSUME NEW w \in Words, ~IsNaN(w)
  PROVE  LET q == Magnitude(w) \div Unit
             r == Magnitude(w) % Unit
         IN  \E low \in Nat, step \in Nat \ {0} :
               /\ Value(w) = low + r * step
               /\ Magnitude(w) >= Significands => low >= Significands * step
               /\ \A v \in Words :
                    /\ Magnitude(v) = q * Unit => Value(v) = low
                    /\ Magnitude(v) = (q + 1) * Unit => Value(v) = low + Unit * step
                    /\ Magnitude(v) < q * Unit => Value(v) \in Nat /\ Value(v) < low
                    /\ Magnitude(v) > (q + 1) * Unit => Value(v) \in Nat /\ Value(v) > low + Unit * step
<1> DEFINE q == Magnitude(w) \div Unit
           r == Magnitude(w) % Unit
           keep == 2 * Quiet
           e == q \div keep
           f == q % keep
           step == Step(e)
           low == Start(e) + (f * Unit) * step
<1>1. /\ q \in Nat /\ r \in 0 .. Unit - 1 /\ Magnitude(w) = q * Unit + r
      /\ Unit \in Nat \ {0} /\ Infinity \in Nat /\ keep \in Nat \ {0}
  BY Placed, Widths, QuietAssumption
<1>2. q <= Infinity
  <2> SUFFICES ASSUME Infinity + 1 <= q PROVE FALSE
    BY <1>1
  <2> HIDE DEF q, r
  <2>1. (Infinity + 1) * Unit <= q * Unit /\ (Infinity + 1) * Unit = Infinity * Unit + Unit
    BY <1>1, Product
  <2> QED
    BY <1>1, <2>1, Spans DEF IsNaN
<1> HIDE DEF q, r
<1>3. e \in Nat /\ f \in 0 .. keep - 1 /\ q = e * keep + f
  BY <1>1, DivMod
<1>4. Significands = keep * Unit
  BY DEF Significands
<1> HIDE DEF keep, e, f
<1>5. /\ Significands \in Nat \ {0} /\ step \in Nat \ {0} /\ Start(e) \in Nat
  BY <1>3, Exponents
<1> HIDE DEF step
<1>6. /\ f * Unit \in Nat /\ f * Unit + Unit <= Significands
      /\ q * Unit = e * Significands + f * Unit
      /\ (q + 1) * Unit = e * Significands + (f * Unit + Unit)
  <2>1. (f + 1) * Unit <= keep * Unit /\ (f + 1) * Unit = f * Unit + Unit /\ f * Unit \in Nat
    <3>1. f \in Nat /\ f + 1 <= keep
      BY <1>1, <1>3
    <3>2. \A x, y \in Nat : x * y \in Nat
      OBVIOUS
    <3> QED
      BY <1>1, <3>1, <3>2, Product
  <2>2. (e * keep + f) * Unit = e * (keep * Unit) + f * Unit
    BY <1>1, <1>3
  <2>3. (q + 1) * Unit = q * Unit + Unit
    BY <1>1
  <2>4. e * Significands \in Nat
    BY <1>3, <1>5
  <2> QED
    BY <1>1, <1>3, <1>4, <1>5, <2>1, <2>2, <2>3, <2>4
<1>7. ASSUME NEW v \in Words, NEW g \in 0 .. Unit, Magnitude(v) = e * Significands + (f * Unit + g)
      PROVE  Value(v) = low + g * step
  <2>1. f * Unit + g \in 0 .. Significands
    BY <1>1, <1>5, <1>6, <1>7
  <2>2. Value(v) = Start(e) + (f * Unit + g) * step
    BY <1>3, <1>7, <2>1, Spacing DEF step
  <2>3. (f * Unit + g) * step = (f * Unit) * step + g * step
    BY <1>1, <1>5, <1>6
  <2>4. (f * Unit) * step \in Nat /\ g * step \in Nat
    BY <1>1, <1>5, <1>6
  <2> QED
    BY <1>5, <2>2, <2>3, <2>4
<1>8. low \in Nat
  <2>1. (f * Unit) * step \in Nat
    BY <1>5, <1>6
  <2> QED
    BY <1>5, <2>1
<1> HIDE DEF low
<1>9. e * Significands \in Nat
  BY <1>3, <1>5
<1>10. Value(w) = low + r * step
  BY <1>1, <1>6, <1>7, <1>9
<1>11. ASSUME NEW v \in Words, Magnitude(v) = q * Unit PROVE Value(v) = low
  <2>1. Value(v) = low + 0 * step
    BY <1>1, <1>6, <1>7, <1>9, <1>11
  <2> QED
    BY <1>5, <1>8, <2>1
<1>12. ASSUME NEW v \in Words, Magnitude(v) = (q + 1) * Unit PROVE Value(v) = low + Unit * step
  BY <1>1, <1>6, <1>7, <1>9, <1>12
<1>13. /\ ToF32(q) \in Words /\ Magnitude(ToF32(q)) = q * Unit
       /\ ToF32(q + 1) \in Words /\ Magnitude(ToF32(q + 1)) = (q + 1) * Unit
  <2>1. q \in 0 .. Infinity + 1 /\ q + 1 \in 0 .. Infinity + 1
    BY <1>1, <1>2
  <2> QED
    BY <2>1, Positive
<1>14. ASSUME NEW v \in Words, Magnitude(v) < q * Unit PROVE Value(v) \in Nat /\ Value(v) < low
  BY <1>11, <1>13, <1>14, ValueGrows
<1>15. ASSUME NEW v \in Words, Magnitude(v) > (q + 1) * Unit
       PROVE  Value(v) \in Nat /\ Value(v) > low + Unit * step
  <2>1. Magnitude(v) \in Int /\ (q + 1) * Unit \in Int
    BY <1>1, Magnitudes, Spans
  <2>2. Magnitude(ToF32(q + 1)) < Magnitude(v)
    BY <1>13, <1>15, <2>1
  <2>3. Value(ToF32(q + 1)) \in Nat /\ Value(v) \in Nat /\ Value(ToF32(q + 1)) < Value(v)
    BY <1>13, <2>2, ValueGrows
  <2> QED
    BY <1>12, <1>13, <2>3
<1>16. ASSUME Magnitude(w) >= Significands PROVE low >= Significands * step
  <2>1. e # 0
    <3> SUFFICES ASSUME e = 0 PROVE FALSE
      OBVIOUS
    <3>1. 0 * Significands = 0
      BY <1>5
    <3> QED
      BY <1>1, <1>5, <1>6, <1>16, <3>1
  <2>2. Start(e) = Significands * step
    BY <2>1 DEF Start, step
  <2>3. (f * Unit) * step \in Nat
    BY <1>5, <1>6
  <2> QED
    BY <1>5, <2>2, <2>3 DEF low
<1> QED
  BY <1>5, <1>8, <1>10, <1>11, <1>12, <1>14, <1>15, <1>16 DEF q, r

(* No bfloat16 is nearer to a number than the one it is stored as, and     *)
(* where another is as near the one stored is even - whatever the widths.  *)
THEOREM StoresTheNearest ==
  ASSUME NEW w \in Words, ~IsNaN(w), NEW k \in 0 .. Infinity
  PROVE  /\ Distance(ToF32(k), w) >= Distance(ToF32(FromF32(w)), w)
         /\ Distance(ToF32(k), w) = Distance(ToF32(FromF32(w)), w)
              => k = FromF32(w) % Sign \/ FromF32(w) % 2 = 0
<1> DEFINE q == Magnitude(w) \div Unit
           r == Magnitude(w) % Unit
           s == FromF32(w) % Sign
           y == ToF32(FromF32(w))
           z == ToF32(k)
<1>1. /\ q \in Nat /\ r \in 0 .. Unit - 1
      /\ s = (IF r + (q % 2) > Half THEN q + 1 ELSE q)
      /\ FromF32(w) % 2 = s % 2
      /\ y \in Words /\ Magnitude(y) = s * Unit
      /\ z \in Words /\ Magnitude(z) = k * Unit
  BY Placed, Positive, Widths
<1>2. PICK low \in Nat, step \in Nat \ {0} :
        /\ Value(w) = low + r * step
        /\ \A v \in Words :
             /\ Magnitude(v) = q * Unit => Value(v) = low
             /\ Magnitude(v) = (q + 1) * Unit => Value(v) = low + Unit * step
             /\ Magnitude(v) < q * Unit => Value(v) \in Nat /\ Value(v) < low
             /\ Magnitude(v) > (q + 1) * Unit => Value(v) \in Nat /\ Value(v) > low + Unit * step
  BY Between
<1> HIDE DEF q, r, s, y, z
<1> DEFINE a == r * step
           b == (Unit - r) * step
<1>3. /\ Unit \in Nat \ {0} /\ Half \in Nat \ {0} /\ Unit = 2 * Half /\ k \in Nat
      /\ q % 2 \in 0 .. 1
  BY <1>1, Widths
<1>4. a \in Nat /\ b \in Nat /\ Unit * step = a + b
  <2>1. \A x, v \in Nat : x * v \in Nat
    OBVIOUS
  <2>2. r \in Nat /\ Unit - r \in Nat
    BY <1>1, <1>3
  <2>3. Unit * step = (r + (Unit - r)) * step
    BY <1>3, <2>2
  <2>4. (r + (Unit - r)) * step = r * step + (Unit - r) * step
    BY <1>1, <1>3
  <2> QED
    BY <2>1, <2>2, <2>3, <2>4
<1>5. /\ r < Unit - r => a < b
      /\ r = Unit - r => a = b
      /\ r > Unit - r => a > b
  <2>1. \A x, v \in Nat : x < v => x * step < v * step
    OBVIOUS
  <2>2. r \in Nat /\ Unit - r \in Nat
    BY <1>1, <1>3
  <2> QED
    BY <2>1, <2>2
<1> HIDE DEF a, b
<1>6. Value(w) = low + a /\ (r = 0 => a = 0)
  BY <1>2 DEF a
<1>7. IF r + (q % 2) > Half THEN s = q + 1 /\ Value(y) = low + a + b ELSE s = q /\ Value(y) = low
  BY <1>1, <1>2, <1>3, <1>4
<1>8. \/ k = q /\ Value(z) = low
      \/ k = q + 1 /\ Value(z) = low + a + b
      \/ Value(z) \in Nat /\ Value(z) < low
      \/ Value(z) \in Nat /\ Value(z) > low + a + b
  <2>1. CASE k = q
    BY <1>1, <1>2, <2>1
  <2>2. CASE k = q + 1
    BY <1>1, <1>2, <1>4, <2>2
  <2>3. CASE k < q
    <3>1. (k + 1) * Unit <= q * Unit /\ (k + 1) * Unit = k * Unit + Unit
      BY <1>1, <1>3, <2>3, Product
    <3>2. k * Unit \in Int /\ q * Unit \in Int
      BY <1>1, <1>3
    <3> QED
      BY <1>1, <1>2, <1>3, <3>1, <3>2
  <2>4. CASE k > q + 1
    <3>1. (q + 1 + 1) * Unit <= k * Unit /\ (q + 1 + 1) * Unit = (q + 1) * Unit + Unit
      BY <1>1, <1>3, <2>4, Product
    <3>2. k * Unit \in Int /\ (q + 1) * Unit \in Int
      BY <1>1, <1>3
    <3>3. Magnitude(z) > (q + 1) * Unit
      BY <1>1, <1>3, <3>1, <3>2
    <3> QED
      BY <1>1, <1>2, <1>4, <3>3
  <2> QED
    BY <1>1, <1>3, <2>1, <2>2, <2>3, <2>4
<1>9. CASE r + (q % 2) > Half
  <2>1. a >= b /\ s = q + 1 /\ Distance(y, w) = b
    BY <1>1, <1>3, <1>4, <1>5, <1>6, <1>7, <1>9 DEF Distance
  <2>2. Distance(z, w) >= b
    BY <1>4, <1>6, <1>8, <2>1 DEF Distance
  <2>3. ASSUME Distance(z, w) = b PROVE k = s \/ s % 2 = 0
    <3>1. k = q + 1 \/ (k = q /\ a = b)
      BY <1>4, <1>6, <1>8, <2>1, <2>3 DEF Distance
    <3>2. a = b => r = Half
      BY <1>1, <1>3, <1>4, <1>5
    <3>3. r = Half => q % 2 = 1
      BY <1>1, <1>3, <1>9
    <3>4. q % 2 = 1 => (q + 1) % 2 = 0
      BY <1>1
    <3> QED
      BY <2>1, <3>1, <3>2, <3>3, <3>4
  <2> QED
    BY <1>1, <2>1, <2>2, <2>3 DEF s, y, z
<1>10. CASE ~(r + (q % 2) > Half)
  <2>1. a <= b /\ s = q /\ Distance(y, w) = a
    BY <1>1, <1>3, <1>4, <1>5, <1>6, <1>7, <1>10 DEF Distance
  <2>2. Distance(z, w) >= a
    BY <1>4, <1>6, <1>8, <2>1 DEF Distance
  <2>3. ASSUME Distance(z, w) = a PROVE k = s \/ s % 2 = 0
    <3>1. k = q \/ (k = q + 1 /\ a = b)
      BY <1>4, <1>6, <1>8, <2>1, <2>3 DEF Distance
    <3>2. a = b => r = Half
      BY <1>1, <1>3, <1>4, <1>5
    <3>3. r = Half => q % 2 = 0
      BY <1>1, <1>3, <1>10
    <3> QED
      BY <2>1, <3>1, <3>2, <3>3
  <2> QED
    BY <1>1, <2>1, <2>2, <2>3 DEF s, y, z
<1> QED
  BY <1>9, <1>10

(* A normal number is stored within one part in 4 * Quiet, whatever the    *)
(* widths: 1/256 in a bfloat16.                                            *)
THEOREM ErrorIsRelative ==
  ASSUME NEW w \in Words, ~IsNaN(w), Magnitude(w) >= 2 * Quiet * Unit
  PROVE  Distance(ToF32(FromF32(w)), w) * 4 * Quiet <= Value(w)
<1> DEFINE q == Magnitude(w) \div Unit
           r == Magnitude(w) % Unit
           s == FromF32(w) % Sign
           y == ToF32(FromF32(w))
<1>1. /\ q \in Nat /\ r \in 0 .. Unit - 1
      /\ s = (IF r + (q % 2) > Half THEN q + 1 ELSE q)
      /\ y \in Words /\ Magnitude(y) = s * Unit
  BY Placed
<1>2. PICK low \in Nat, step \in Nat \ {0} :
        /\ Value(w) = low + r * step
        /\ Magnitude(w) >= Significands => low >= Significands * step
        /\ \A v \in Words :
             /\ Magnitude(v) = q * Unit => Value(v) = low
             /\ Magnitude(v) = (q + 1) * Unit => Value(v) = low + Unit * step
  BY Between
<1> HIDE DEF q, r, s, y
<1>3. /\ Unit \in Nat \ {0} /\ Half \in Nat \ {0} /\ Unit = 2 * Half /\ Quiet \in Nat \ {0}
      /\ q % 2 \in 0 .. 1 /\ r \in Nat
  BY <1>1, Widths, QuietAssumption
<1>4. low >= Significands * step
  BY <1>2 DEF Significands
<1>5. r * step \in Nat /\ Unit * step \in Nat /\ Half * step \in Nat
  <2>1. \A x, v \in Nat : x * v \in Nat
    OBVIOUS
  <2> QED
    BY <1>3, <2>1
<1>6. Unit * step = Half * step + Half * step
  BY <1>3
<1>7. Distance(y, w) \in Nat /\ Distance(y, w) <= Half * step
  <2>1. CASE r + (q % 2) > Half
    <3>1. Value(y) = low + Unit * step
      BY <1>1, <1>2, <2>1
    <3>2. Half * step <= r * step /\ r * step <= Unit * step
      <4>1. Half <= r /\ r <= Unit
        BY <1>1, <1>3, <2>1
      <4> QED
        BY <1>3, <4>1, Product
    <3> QED
      BY <1>2, <1>5, <1>6, <3>1, <3>2 DEF Distance
  <2>2. CASE ~(r + (q % 2) > Half)
    <3>1. Value(y) = low
      BY <1>1, <1>2, <2>2
    <3>2. r * step <= Half * step
      <4>1. r <= Half
        BY <1>1, <1>3, <2>2
      <4> QED
        BY <1>3, <4>1, Product
    <3> QED
      BY <1>2, <1>5, <3>1, <3>2 DEF Distance
  <2> QED
    BY <2>1, <2>2
<1>8. Distance(y, w) * (4 * Quiet) <= (Half * step) * (4 * Quiet)
  <2>1. 4 * Quiet \in Nat
    BY <1>3
  <2> QED
    BY <1>5, <1>7, <2>1, Product
<1>9. (Half * step) * (4 * Quiet) = Significands * step
  <2>1. Significands = 2 * Quiet * (2 * Half)
    BY <1>3 DEF Significands
  <2>2. 2 * Quiet * (2 * Half) * step = (Half * step) * (4 * Quiet)
    BY <1>3
  <2> QED
    BY <2>1, <2>2
<1>10. Distance(y, w) * 4 * Quiet = Distance(y, w) * (4 * Quiet)
  BY <1>3, <1>7
<1>11. Significands * step \in Nat
  <2>1. (Half * step) * (4 * Quiet) \in Nat
    BY <1>3, <1>5
  <2> QED
    BY <1>9, <2>1
<1>12. Distance(y, w) * (4 * Quiet) \in Int
  BY <1>3, <1>7
<1>13. Distance(y, w) * (4 * Quiet) <= Value(w)
  BY <1>2, <1>4, <1>5, <1>8, <1>9, <1>11, <1>12
<1> QED
  BY <1>10, <1>13 DEF y

-----------------------------------------------------------------------------
(* The records                                                             *)

(* What is read is a word, with a narrow word of its own in a bfloat16     *)
(* corpus.                                                                 *)
LEMMA Decodes ==
  ASSUME NEW w \in Words
  PROVE  /\ Decode(w) \in Words
         /\ request.encoding = "bfloat16" => \E k \in Narrow : Decode(w) = ToF32(k)
<1>1. w \div Unit \in Narrow
  <2> DEFINE q == w \div Unit
  <2>1. w \in Nat /\ w < 2 * Sign * Unit
    BY Magnitudes, Spans
  <2>2. q \in Nat /\ w % Unit \in 0 .. Unit - 1 /\ w = q * Unit + (w % Unit)
    BY <2>1, Widths, DivMod
  <2> HIDE DEF q
  <2>3. ~(2 * Sign <= q)
    <3> SUFFICES ASSUME 2 * Sign <= q PROVE FALSE
      OBVIOUS
    <3>1. 2 * Sign * Unit <= q * Unit /\ q * Unit \in Int
      BY <2>2, Widths, Product
    <3> QED
      BY <2>1, <2>2, <3>1, Spans, Widths
  <2> QED
    BY <2>2, <2>3, Widths DEF Narrow, q
<1> QED
  BY <1>1, Widens DEF Decode

InBounds(w) ==
  /\ w \in Words /\ IsFinite(w)
  /\ request.min # NoBound => Rank(request.min) <= Rank(w)
  /\ request.max # NoBound => Rank(w) <= Rank(request.max)

(* Every word has a place in the order of the numbers.                     *)
LEMMA RankIsInteger ==
  ASSUME NEW w \in Words
  PROVE  Rank(w) \in Int
BY Magnitudes, Spans DEF Rank

(* A request that is run has passed validate (fuzz/run.rs).                *)
LEMMA RequestIsValid ==
  ASSUME request \in Requests
  PROVE  request \in Request /\ Valid(request)
BY RequestsAssumption

(* A finite result is held inside the bounds.                              *)
LEMMA ClampHolds ==
  ASSUME request \in Requests, NEW w \in Words, IsFinite(w)
  PROVE  InBounds(Clamp(w))
<1>1. /\ request.min # NoBound => request.min \in Words /\ IsFinite(request.min)
      /\ request.max # NoBound => request.max \in Words /\ IsFinite(request.max)
  BY RequestIsValid, BoundsAssumption DEF Request
<1>2. request.min # NoBound /\ request.max # NoBound => Rank(request.min) <= Rank(request.max)
  BY RequestIsValid DEF Valid
<1>3. /\ Rank(w) \in Int
      /\ request.min # NoBound => Rank(request.min) \in Int
      /\ request.max # NoBound => Rank(request.max) \in Int
  BY <1>1, RankIsInteger
<1>4. CASE request.min # NoBound /\ Rank(w) < Rank(request.min)
  <2>1. Clamp(w) = request.min
    BY <1>4 DEF Clamp
  <2> QED
    BY <1>1, <1>2, <1>3, <1>4, <2>1 DEF InBounds
<1>5. CASE /\ ~(request.min # NoBound /\ Rank(w) < Rank(request.min))
           /\ request.max # NoBound /\ Rank(w) > Rank(request.max)
  <2>1. Clamp(w) = request.max
    BY <1>5, Zenon DEF Clamp
  <2> QED
    BY <1>1, <1>2, <1>3, <1>5, <2>1 DEF InBounds
<1>6. CASE /\ ~(request.min # NoBound /\ Rank(w) < Rank(request.min))
           /\ ~(request.max # NoBound /\ Rank(w) > Rank(request.max))
  <2>1. Clamp(w) = w
    BY <1>6 DEF Clamp
  <2> QED
    BY <1>3, <1>6, <2>1 DEF InBounds
<1> QED
  BY <1>4, <1>5, <1>6

Typed ==
  /\ TypeOK
  /\ value >= 1 => index < MaxRecords

(* A bfloat16 source holds what a bfloat16 can.                            *)
SourceIsExact ==
  request.encoding = "bfloat16" => \A i \in Positions : \E k \in Narrow : original[i] = ToF32(k)

Perturbable(i) == request.transform = "fuzz" /\ Aimed(i) /\ IsFinite(original[i])

(* What has not been visited, or is not perturbed, is as it was read.      *)
Untouched ==
  \A i \in Positions : (1 <= value /\ value <= i) \/ ~Perturbable(i) => values[i] = original[i]

(* What has been perturbed is in bounds.                                   *)
Held ==
  \A i \in Positions : Perturbable(i) /\ (i < value \/ Written) => InBounds(values[i])

StoredAsEncoded == Written => stored = [i \in Positions |-> Encode(values[i])]

ValueInv == Typed /\ SourceIsExact /\ Untouched /\ Held /\ StoredAsEncoded

(* The range the code tests is the range the property names.               *)
LEMMA IncludesAimed ==
  ASSUME request \in Requests, NEW i \in Positions
  PROVE  Includes(i) <=> request.transform = "fuzz" /\ Aimed(i)
<1>1. request.targets \in {"inputs", "outputs", "all"} /\ i \in Int /\ Inputs \in Int
  BY RequestIsValid, RecordsAssumption DEF Request, Positions
<1>2. CASE request.targets = "inputs"
  BY <1>1, <1>2 DEF Includes, Aimed
<1>3. CASE request.targets = "outputs"
  BY <1>1, <1>3 DEF Includes, Aimed
<1>4. CASE request.targets = "all"
  BY <1>1, <1>4 DEF Includes, Aimed
<1> QED
  BY <1>1, <1>2, <1>3, <1>4

(* ValueInv holds before the first value is visited.                       *)
LEMMA ValueInit == Init => ValueInv
<1> SUFFICES ASSUME Init PROVE ValueInv
  OBVIOUS
<1>1. 0 \in Words /\ 0 \in Narrow /\ ToF32(0) = 0
  BY Widths, Spans DEF Words, Narrow, ToF32
<1>2. MaxRecords \in Nat /\ Inputs \in Nat /\ Outputs \in Nat
  BY RecordsAssumption
<1>3. Typed
  <2>1. spare \in BOOLEAN
    BY Zenon DEF Init
  <2>2. original \in [Positions -> Words] /\ values \in [Positions -> Words]
    BY <1>1 DEF Init
  <2>3. stored \in {<<>>} \cup [Positions -> IF TargetEncoding = "bfloat16" THEN Narrow ELSE Words]
    BY Zenon DEF Init
  <2>4. counts \in [perturbed : Nat, clamped : Nat, preserved : Nat]
    BY DEF Init
  <2> QED
    BY <1>2, <2>1, <2>2, <2>3, <2>4 DEF Init, Typed, TypeOK
<1>4. SourceIsExact
  BY <1>1 DEF Init, SourceIsExact
<1>5. Untouched /\ Held /\ StoredAsEncoded
  BY DEF Init, Untouched, Held, StoredAsEncoded, Written, Positions
<1> QED
  BY <1>3, <1>4, <1>5 DEF ValueInv

(* Counting keeps the counts natural.                                      *)
LEMMA Counted ==
  ASSUME NEW c \in [perturbed : Nat, clamped : Nat, preserved : Nat], NEW m \in Nat
  PROVE  [c EXCEPT !.perturbed = @ + 1, !.clamped = @ + m]
           \in [perturbed : Nat, clamped : Nat, preserved : Nat]
<1>1. c.perturbed + 1 \in Nat /\ c.clamped + m \in Nat
  OBVIOUS
<1>2. [c EXCEPT !.perturbed = c.perturbed + 1] \in [perturbed : Nat, clamped : Nat, preserved : Nat]
  BY <1>1
<1>3. [c EXCEPT !.perturbed = c.perturbed + 1].clamped = c.clamped
  OBVIOUS
<1> QED
  BY <1>1, <1>2, <1>3

(* Every step of the perturbation and the storing keeps ValueInv.          *)
LEMMA ValueStep ==
  ASSUME ValueInv, [Next]_vars
  PROVE  ValueInv'
<1> USE DEF ValueInv, Typed
<1>1. /\ MaxRecords \in Nat /\ Inputs \in Nat \ {0} /\ Outputs \in Nat \ {0}
      /\ index \in Nat /\ value \in Nat /\ drawn \in Nat /\ request \in Requests
      /\ original \in [Positions -> Words] /\ values \in [Positions -> Words]
      /\ \A i \in Positions : i \in Nat /\ i >= 1 /\ i <= Inputs + Outputs
  BY RecordsAssumption DEF TypeOK, Positions
<1>2. request.transform \in {"fuzz", "quantise"} /\ request.encoding \in Encodings
  BY <1>1, RequestIsValid DEF Request
<1>3. ASSUME Draw PROVE drawn' \in Nat /\ spare' \in BOOLEAN
  <2>1. spare' \in BOOLEAN
    BY <1>3, Zenon DEF Draw
  <2>2. drawn' \in {drawn + 0, drawn + 1, drawn + 2}
    <3>1. (IF request.distribution = "uniform" THEN 1 ELSE IF spare THEN 0 ELSE 2) \in {0, 1, 2}
      BY Zenon
    <3> QED
      BY <1>3, <3>1 DEF Draw
  <2> QED
    BY <1>1, <2>1, <2>2
<1>4. CASE ReadRecord
  <2>1. PICK record \in Fuzzed \cup Quantised : original' = [i \in Positions |-> Decode(record[i])]
    BY <1>4 DEF ReadRecord
  <2>2. record \in [Positions -> Words]
    BY <2>1, RecordsAssumption
  <2>3. \A i \in Positions :
          /\ original'[i] = Decode(record[i]) /\ Decode(record[i]) \in Words
          /\ request.encoding = "bfloat16" => \E k \in Narrow : Decode(record[i]) = ToF32(k)
    BY <2>1, <2>2, Decodes
  <2>4. original' \in [Positions -> Words] /\ values' = original' /\ value' = 1
    BY <1>4, <2>1, <2>3 DEF ReadRecord
  <2>5. Typed'
    BY <1>1, <1>4, <2>4 DEF ReadRecord, TypeOK, TargetEncoding
  <2>6. SourceIsExact'
    BY <1>4, <2>3 DEF ReadRecord, SourceIsExact
  <2>7. Untouched' /\ Held' /\ StoredAsEncoded'
    BY <1>1, <2>4 DEF Untouched, Held, StoredAsEncoded, Written
  <2> QED
    BY <2>5, <2>6, <2>7
<1>5. CASE Skip
  <2>1. /\ value \in Positions /\ value' = value + 1 /\ ~Perturbable(value)
        /\ UNCHANGED <<request, index, original, values, drawn, spare, counts, stored, outcome>>
    BY <1>1, <1>5, IncludesAimed DEF Skip, Visits, Perturbable
  <2>2. Typed'
    BY <1>1, <2>1 DEF TypeOK, TargetEncoding
  <2>3. SourceIsExact' /\ StoredAsEncoded'
    BY <1>1, <2>1 DEF SourceIsExact, StoredAsEncoded, Written
  <2>4. Untouched' /\ Held'
    BY <1>1, <2>1 DEF Untouched, Held, Written, Perturbable, Aimed, InBounds
  <2> QED
    BY <2>2, <2>3, <2>4
<1>6. CASE Preserve
  <2>1. /\ value \in Positions /\ value' = value + 1 /\ Draw /\ ~IsFinite(values[value])
        /\ counts' = [counts EXCEPT !.preserved = @ + 1]
        /\ UNCHANGED <<request, index, original, values, stored, outcome>>
    BY <1>6 DEF Preserve, Visits
  <2>2. counts' \in [perturbed : Nat, clamped : Nat, preserved : Nat]
    BY <2>1 DEF TypeOK
  <2>3. Typed'
    BY <1>1, <1>3, <2>1, <2>2 DEF TypeOK, TargetEncoding
  <2>4. SourceIsExact' /\ StoredAsEncoded'
    BY <1>1, <2>1 DEF SourceIsExact, StoredAsEncoded, Written
  <2>5. ~Perturbable(value)
    BY <1>1, <2>1 DEF Untouched, Perturbable
  <2>6. Untouched' /\ Held'
    BY <1>1, <2>1, <2>5 DEF Untouched, Held, Written, Perturbable, Aimed, InBounds
  <2> QED
    BY <2>3, <2>4, <2>6
<1>7. CASE Perturb
  <2>1. PICK result \in Results :
          /\ IsFinite(result)
          /\ values' = [values EXCEPT ![value] = Clamp(result)]
          /\ LET moved == IF Rank(Clamp(result)) # Rank(result) THEN 1 ELSE 0
             IN  counts' = [counts EXCEPT !.perturbed = @ + 1, !.clamped = @ + moved]
    BY <1>7 DEF Perturb
  <2>2. /\ value \in Positions /\ value' = value + 1 /\ Draw /\ IsFinite(values[value])
        /\ Includes(value)
        /\ UNCHANGED <<request, index, original, stored, outcome>>
    BY <1>7 DEF Perturb, Visits
  <2>3. result \in Words
    BY RecordsAssumption
  <2>4. InBounds(Clamp(result))
    BY <1>1, <2>1, <2>3, ClampHolds
  <2>5. counts' \in [perturbed : Nat, clamped : Nat, preserved : Nat]
    <3> DEFINE moved == IF Rank(Clamp(result)) # Rank(result) THEN 1 ELSE 0
    <3>1. moved \in Nat
      OBVIOUS
    <3>2. counts' = [counts EXCEPT !.perturbed = @ + 1, !.clamped = @ + moved]
      BY <2>1
    <3>3. counts \in [perturbed : Nat, clamped : Nat, preserved : Nat]
      BY DEF TypeOK
    <3> HIDE DEF moved
    <3> QED
      BY <3>1, <3>2, <3>3, Counted
  <2>6. values' \in [Positions -> Words]
    BY <1>1, <2>1, <2>4 DEF InBounds
  <2>7. Typed'
    BY <1>1, <1>3, <2>2, <2>5, <2>6 DEF TypeOK, TargetEncoding
  <2>8. SourceIsExact' /\ StoredAsEncoded'
    BY <1>1, <2>2 DEF SourceIsExact, StoredAsEncoded, Written
  <2>9. Perturbable(value)
    BY <1>1, <2>2, IncludesAimed DEF Untouched, Perturbable
  <2>10. \A i \in Positions : values'[i] = IF i = value THEN Clamp(result) ELSE values[i]
    BY <1>1, <2>1, <2>2
  <2>11. Untouched' /\ Held'
    BY <1>1, <2>2, <2>4, <2>9, <2>10 DEF Untouched, Held, Written, Perturbable, Aimed, InBounds
  <2> QED
    BY <2>7, <2>8, <2>11
<1>8. CASE Overflow
  <2>1. /\ Draw /\ outcome' = "failed"
        /\ UNCHANGED <<request, index, value, original, values, counts, stored>>
    BY <1>8 DEF Overflow
  <2>2. Typed'
    BY <1>1, <1>3, <2>1 DEF TypeOK, TargetEncoding
  <2> QED
    BY <2>1, <2>2 DEF SourceIsExact, StoredAsEncoded, Untouched, Held, Written, Perturbable, Aimed,
       InBounds, Encode, TargetEncoding
<1>9. CASE WriteRecord
  <2>1. /\ value > Inputs + Outputs /\ index' = index + 1 /\ value' = 0
        /\ stored' = [i \in Positions |-> Encode(values[i])]
        /\ UNCHANGED <<request, original, values, drawn, spare, counts, outcome>>
    BY <1>9 DEF WriteRecord
  <2>2. \A i \in Positions : Encode(values[i]) \in IF TargetEncoding = "bfloat16" THEN Narrow ELSE Words
    BY <1>1, Stores DEF Encode
  <2>3. stored' \in [Positions -> IF TargetEncoding = "bfloat16" THEN Narrow ELSE Words]
    BY <2>1, <2>2
  <2>4. Typed'
    BY <1>1, <2>1, <2>3 DEF TypeOK, TargetEncoding
  <2>5. SourceIsExact' /\ StoredAsEncoded'
    BY <2>1 DEF SourceIsExact, StoredAsEncoded, Encode, TargetEncoding
  <2>6. Untouched' /\ Held'
    BY <1>1, <2>1 DEF Untouched, Held, Written, Perturbable, Aimed, InBounds
  <2> QED
    BY <2>4, <2>5, <2>6
<1>10. CASE Finish \/ UNCHANGED vars
  <2>1. /\ UNCHANGED <<request, index, value, original, values, drawn, spare, counts, stored>>
        /\ outcome' \in {outcome, "finished"}
    BY <1>10 DEF Finish, vars
  <2>2. Typed'
    BY <1>1, <2>1 DEF TypeOK, TargetEncoding
  <2> QED
    BY <2>1, <2>2 DEF SourceIsExact, StoredAsEncoded, Untouched, Held, Written, Perturbable, Aimed,
       InBounds, Encode, TargetEncoding
<1> QED
  BY <1>4, <1>5, <1>6, <1>7, <1>8, <1>9, <1>10 DEF Next

(* Every variable keeps its type, whatever the widths of the formats.      *)
THEOREM TypeCorrect == Spec => []TypeOK
<1>1. ValueInv => TypeOK
  BY DEF ValueInv, Typed
<1> QED
  BY <1>1, ValueInit, ValueStep, PTL DEF Spec

(* A perturbation never reaches a value it was not aimed at, nor one it is *)
(* not defined on, in any format.                                          *)
THEOREM PerturbsOnlyTargets == Spec => []OnlyTargetsMove
<1>1. ValueInv => OnlyTargetsMove
  <2> SUFFICES ASSUME ValueInv, Written, request.transform = "fuzz", NEW i \in Positions,
                      ~Aimed(i) \/ ~IsFinite(original[i])
               PROVE  Reads(i) = original[i] \/ (IsNaN(Reads(i)) /\ IsNaN(original[i]))
    BY DEF OnlyTargetsMove
  <2>1. /\ values[i] = original[i] /\ original[i] \in Words
        /\ stored[i] = Encode(original[i])
    BY DEF ValueInv, Typed, TypeOK, Untouched, Perturbable, StoredAsEncoded
  <2>2. CASE TargetEncoding # "bfloat16"
    BY <2>1, <2>2 DEF Reads, Encode
  <2>3. CASE TargetEncoding = "bfloat16"
    <3>1. PICK k \in Narrow : original[i] = ToF32(k)
      BY <2>3 DEF ValueInv, SourceIsExact, TargetEncoding
    <3>2. Reads(i) = ToF32(FromF32(original[i]))
      BY <2>1, <2>3 DEF Reads, Encode
    <3>3. CASE IsNaN(original[i])
      BY <2>1, <3>2, <3>3, NaNStaysNaN
    <3>4. CASE ~IsNaN(original[i])
      BY <3>1, <3>2, <3>4, RoundTripIsExact
    <3> QED
      BY <3>3, <3>4
  <2> QED
    BY <2>2, <2>3
<1> QED
  BY <1>1, ValueInit, ValueStep, PTL DEF Spec

(* What was perturbed is published inside the bounds, as far as the        *)
(* encoding stores them, in any format.                                    *)
THEOREM BoundsAreKept == Spec => []BoundsKept
<1>1. ValueInv => BoundsKept
  <2> SUFFICES ASSUME ValueInv, Written, request.transform = "fuzz", NEW i \in Positions,
                      Aimed(i), IsFinite(original[i])
               PROVE  LET as_stored(w) == Rank(IF TargetEncoding = "bfloat16"
                                                 THEN ToF32(FromF32(w)) ELSE w)
                      IN  /\ request.min # NoBound => as_stored(request.min) <= Rank(Reads(i))
                          /\ request.max # NoBound => Rank(Reads(i)) <= as_stored(request.max)
    BY DEF BoundsKept
  <2>1. InBounds(values[i]) /\ stored[i] = Encode(values[i]) /\ request \in Requests
    BY DEF ValueInv, Typed, TypeOK, Held, Perturbable, StoredAsEncoded
  <2>2. CASE TargetEncoding # "bfloat16"
    BY <2>1, <2>2 DEF Reads, Encode, InBounds
  <2>3. CASE TargetEncoding = "bfloat16"
    <3>1. /\ request.min # NoBound => request.min \in Words /\ IsFinite(request.min)
          /\ request.max # NoBound => request.max \in Words /\ IsFinite(request.max)
      BY <2>1, RequestIsValid, BoundsAssumption DEF Request
    <3>2. Reads(i) = ToF32(FromF32(values[i]))
      BY <2>1, <2>3 DEF Reads, Encode
    <3> QED
      BY <2>1, <2>3, <3>1, <3>2, StoringKeepsOrder DEF InBounds
  <2> QED
    BY <2>2, <2>3
<1> QED
  BY <1>1, ValueInit, ValueStep, PTL DEF Spec

(* In every record written as bfloat16 each value is the nearest there is  *)
(* to the number computed, and a NaN stays one.                            *)
THEOREM NearestIsStored == Spec => []StoredIsNearest
<1>1. ValueInv => StoredIsNearest
  <2> SUFFICES ASSUME ValueInv, Written, TargetEncoding = "bfloat16", NEW i \in Positions
               PROVE  LET exact == values[i]
                      IN  IF IsNaN(exact) THEN IsNaN(Reads(i))
                          ELSE /\ IsNegative(Reads(i)) = IsNegative(exact) /\ ~IsNaN(Reads(i))
                               /\ \A k \in 0 .. Infinity :
                                    /\ Distance(ToF32(k), exact) >= Distance(Reads(i), exact)
                                    /\ Distance(ToF32(k), exact) = Distance(Reads(i), exact)
                                         => k = stored[i] % Sign \/ stored[i] % 2 = 0
    BY DEF StoredIsNearest
  <2> DEFINE exact == values[i]
  <2>1. exact \in Words /\ stored[i] = FromF32(exact) /\ Reads(i) = ToF32(FromF32(exact))
    BY DEF ValueInv, Typed, TypeOK, StoredAsEncoded, Encode, Reads
  <2> HIDE DEF exact
  <2>2. CASE IsNaN(exact)
    BY <2>1, <2>2, NaNStaysNaN DEF exact
  <2>3. CASE ~IsNaN(exact)
    <3>1. IsNegative(Reads(i)) <=> IsNegative(exact)
      BY <2>1, <2>3, Placed
    <3>2. IsNegative(Reads(i)) = IsNegative(exact)
      BY <3>1 DEF IsNegative
    <3>3. ~IsNaN(Reads(i))
      <4>1. /\ FromF32(exact) % Sign \in Nat /\ FromF32(exact) % Sign <= Infinity
            /\ Magnitude(Reads(i)) = (FromF32(exact) % Sign) * Unit
        <5>1. FromF32(exact) \in Nat
          BY <2>1, <2>3, RankStored
        <5> QED
          BY <2>1, <2>3, <5>1, Placed, Widths
      <4>2. (FromF32(exact) % Sign) * Unit <= Infinity * Unit /\ (FromF32(exact) % Sign) * Unit \in Int
        BY <4>1, Widths, Product
      <4> QED
        BY <4>1, <4>2, Spans DEF IsNaN
    <3>4. ASSUME NEW k \in 0 .. Infinity
          PROVE  /\ Distance(ToF32(k), exact) >= Distance(Reads(i), exact)
                 /\ Distance(ToF32(k), exact) = Distance(Reads(i), exact)
                      => k = stored[i] % Sign \/ stored[i] % 2 = 0
      BY <2>1, <2>3, StoresTheNearest
    <3> QED
      BY <2>3, <3>2, <3>3, <3>4 DEF exact
  <2> QED
    BY <2>2, <2>3
<1> QED
  BY <1>1, ValueInit, ValueStep, PTL DEF Spec

(* The manifest's max_relative_error is true of every record of a          *)
(* quantised corpus, where the number is normal and does not overflow.     *)
THEOREM RecordedErrorHolds == Spec => []ErrorIsAsRecorded
<1>1. ValueInv => ErrorIsAsRecorded
  <2> SUFFICES ASSUME ValueInv, Written, request.transform = "quantise", NEW i \in Positions,
                      IsFinite(Reads(i)), Magnitude(original[i]) >= 2 * Quiet * Unit
               PROVE  Distance(Reads(i), original[i]) * 4 * Quiet <= Value(original[i])
    BY DEF ErrorIsAsRecorded
  <2>1. /\ original[i] \in Words /\ values[i] = original[i]
        /\ stored[i] = FromF32(original[i]) /\ Reads(i) = ToF32(FromF32(original[i]))
    BY DEF ValueInv, Typed, TypeOK, StoredAsEncoded, Encode, Reads, TargetEncoding, Untouched,
       Perturbable
  <2>2. ~IsNaN(original[i])
    <3> SUFFICES ASSUME IsNaN(original[i]) PROVE FALSE
      OBVIOUS
    <3>1. IsNaN(Reads(i)) /\ Reads(i) \in Words
      BY <2>1, NaNStaysNaN
    <3>2. Magnitude(Reads(i)) \in Int
      BY <3>1, Magnitudes, Spans
    <3> QED
      BY <3>1, <3>2, Spans DEF IsNaN, IsFinite
  <2> QED
    BY <2>1, <2>2, ErrorIsRelative
<1> QED
  BY <1>1, ValueInit, ValueStep, PTL DEF Spec

-----------------------------------------------------------------------------
(* The noise                                                               *)

(* The positions of a record that are perturbed before upTo, and how many. *)
TargetedBefore(upTo) == {i \in Positions : i < upTo /\ Includes(i)}
Targeted(upTo)       == Cardinality(TargetedBefore(upTo))

(* Positions are counted: none before the first, one more past each that   *)
(* is targeted.                                                            *)
LEMMA Targets ==
  /\ \A upTo \in Int : IsFiniteSet(TargetedBefore(upTo)) /\ Targeted(upTo) \in Nat
  /\ Targeted(0) = 0 /\ Targeted(1) = 0
  /\ \A v \in Positions :
       Targeted(v + 1) = Targeted(v) + (IF Includes(v) THEN 1 ELSE 0)
<1>1. /\ Inputs + Outputs \in Int /\ IsFiniteSet(Positions)
      /\ \A i \in Positions : i \in Int /\ i >= 1
  <2>1. Inputs + Outputs \in Int
    BY RecordsAssumption
  <2> QED
    BY <2>1, FS_Interval DEF Positions
<1>2. ASSUME NEW upTo \in Int
      PROVE  IsFiniteSet(TargetedBefore(upTo)) /\ Targeted(upTo) \in Nat
  <2>1. TargetedBefore(upTo) \in SUBSET Positions
    BY DEF TargetedBefore
  <2>2. IsFiniteSet(TargetedBefore(upTo))
    BY <1>1, <2>1, FS_Subset
  <2> QED
    BY <2>2, FS_CardinalityType DEF Targeted
<1>3. Targeted(0) = 0 /\ Targeted(1) = 0
  <2>1. TargetedBefore(0) = {} /\ TargetedBefore(1) = {}
    BY <1>1 DEF TargetedBefore
  <2> QED
    BY <2>1, FS_EmptySet DEF Targeted
<1>4. ASSUME NEW v \in Positions
      PROVE  Targeted(v + 1) = Targeted(v) + (IF Includes(v) THEN 1 ELSE 0)
  <2>1. IsFiniteSet(TargetedBefore(v)) /\ Targeted(v) \in Nat /\ v \notin TargetedBefore(v)
    BY <1>1, <1>2 DEF TargetedBefore
  <2>2. CASE Includes(v)
    <3>1. TargetedBefore(v + 1) = TargetedBefore(v) \cup {v}
      BY <1>1, <2>2 DEF TargetedBefore
    <3>2. Cardinality(TargetedBefore(v) \cup {v}) = Cardinality(TargetedBefore(v)) + 1
      BY <2>1, FS_AddElement
    <3> QED
      BY <2>2, <3>1, <3>2 DEF Targeted
  <2>3. CASE ~Includes(v)
    <3>1. TargetedBefore(v + 1) = TargetedBefore(v)
      BY <1>1, <2>3 DEF TargetedBefore
    <3> QED
      BY <2>1, <2>3, <3>1 DEF Targeted
  <2> QED
    BY <2>2, <2>3
<1> QED
  BY <1>2, <1>3, <1>4

(* One more draw: a pair is begun where none is held, and used up where    *)
(* one is.                                                                 *)
LEMMA OneMoreDraw ==
  ASSUME NEW n \in Nat, NEW d \in Nat, NEW held \in BOOLEAN,
         d = 2 * ((n + 1) \div 2), held = (n % 2 = 1)
  PROVE  /\ held  => d = 2 * ((n + 2) \div 2) /\ (n + 1) % 2 = 0
         /\ ~held => d + 2 = 2 * ((n + 2) \div 2) /\ (n + 1) % 2 = 1
<1> DEFINE h == n \div 2
<1>1. h \in Nat /\ n % 2 \in {0, 1} /\ n = 2 * h + (n % 2)
  OBVIOUS
<1> HIDE DEF h
<1>2. CASE n % 2 = 1
  <2>1. n = 2 * h + 1
    BY <1>1, <1>2
  <2>2. (n + 1) \div 2 = h + 1 /\ (n + 2) \div 2 = h + 1 /\ (n + 1) % 2 = 0
    BY <1>1, <2>1
  <2> QED
    BY <1>2, <2>2
<1>3. CASE n % 2 = 0
  <2>1. n = 2 * h
    BY <1>1, <1>3
  <2>2. (n + 1) \div 2 = h /\ (n + 2) \div 2 = h + 1 /\ (n + 1) % 2 = 1
    BY <1>1, <2>1
  <2>3. ~held
    <3>1. 0 # 1
      OBVIOUS
    <3> QED
      BY <1>3, <3>1, Zenon
  <2>4. d + 2 = 2 * (h + 1)
    BY <1>1, <2>2
  <2> QED
    BY <2>2, <2>3, <2>4
<1> QED
  BY <1>1, <1>2, <1>3

(* What the counts and the generator are when the turn is the given one.   *)
AtTurn(turn) ==
  /\ counts.perturbed + counts.preserved = turn /\ counts.clamped <= counts.perturbed
  /\ IF request.distribution = "uniform"
       THEN drawn = turn /\ ~spare
       ELSE drawn = 2 * ((turn + 1) \div 2) /\ spare = (turn % 2 = 1)

Turn == index * Targeted(Inputs + Outputs + 1) + Targeted(value)

(* The position in the corpus alone says how many draws have been made.    *)
NoiseInv == outcome # "failed" => AtTurn(Turn)

LEMMA NoiseIsTheProperty == NoiseInv <=> NoiseFollowsPosition
BY DEF NoiseInv, NoiseFollowsPosition, AtTurn, Turn, Ordinal, Targeted, TargetedBefore

LEMMA NoiseInit == Init => NoiseInv
<1> SUFFICES ASSUME Init PROVE NoiseInv
  OBVIOUS
<1>1. Turn = 0
  <2>1. Inputs + Outputs + 1 \in Int
    BY RecordsAssumption
  <2>2. Targeted(Inputs + Outputs + 1) \in Nat
    BY <2>1, Targets
  <2> QED
    BY <2>2, Targets DEF Init, Turn
<1>2. spare = FALSE /\ drawn = 0 /\ counts = [perturbed |-> 0, clamped |-> 0, preserved |-> 0]
  BY Zenon DEF Init
<1>3. spare = (0 % 2 = 1)
  <2>1. 0 % 2 # 1
    OBVIOUS
  <2> QED
    BY <1>2, <2>1, Zenon
<1>4. 2 * ((0 + 1) \div 2) = 0
  OBVIOUS
<1> QED
  BY <1>1, <1>2, <1>3, <1>4 DEF NoiseInv, AtTurn

(* A draw carries the generator to the next turn.                          *)
LEMMA DrawTurns ==
  ASSUME TypeOK, NEW turn \in Nat, AtTurn(turn), Draw, request' = request,
         counts'.perturbed + counts'.preserved = counts.perturbed + counts.preserved + 1,
         counts'.clamped <= counts'.perturbed
  PROVE  AtTurn(turn + 1)'
<1>1. drawn \in Nat /\ spare \in BOOLEAN /\ request.distribution \in {"gaussian", "uniform"}
  BY RequestIsValid DEF TypeOK, Request
<1>2. CASE request.distribution = "uniform"
  <2>1. drawn' = turn + 1
    BY <1>1, <1>2 DEF AtTurn, Draw
  <2>2. spare' = FALSE
    <3>1. ~(request.distribution = "gaussian")
      BY <1>2
    <3> QED
      BY <3>1, Zenon DEF Draw
  <2> QED
    BY <1>2, <2>1, <2>2 DEF AtTurn
<1>3. CASE request.distribution = "gaussian"
  <2>0. request.distribution # "uniform"
    BY <1>3
  <2>1. drawn = 2 * ((turn + 1) \div 2) /\ spare = (turn % 2 = 1)
    BY <2>0, Zenon DEF AtTurn
  <2>2. /\ spare  => drawn = 2 * ((turn + 2) \div 2) /\ (turn + 1) % 2 = 0
        /\ ~spare => drawn + 2 = 2 * ((turn + 2) \div 2) /\ (turn + 1) % 2 = 1
    BY <1>1, <2>1, OneMoreDraw
  <2>3. spare' = ~spare
    BY <1>3, Zenon DEF Draw
  <2>4. drawn' = drawn + (IF spare THEN 0 ELSE 2)
    BY <2>0, Zenon DEF Draw
  <2>5. drawn' = 2 * ((turn + 2) \div 2)
    BY <1>1, <2>2, <2>4
  <2>6. spare' = ((turn + 1) % 2 = 1)
    <3>1. 0 # 1
      OBVIOUS
    <3> QED
      BY <1>1, <2>2, <2>3, <3>1, Zenon
  <2>7. (turn + 1) + 1 = turn + 2
    OBVIOUS
  <2>8. counts'.perturbed + counts'.preserved = turn + 1
    BY DEF AtTurn
  <2> QED
    BY <2>0, <2>5, <2>6, <2>7, <2>8 DEF AtTurn
<1> QED
  BY <1>1, <1>2, <1>3

(* Every step keeps the noise in step with the position.                   *)
LEMMA NoiseStep ==
  ASSUME ValueInv, NoiseInv, [Next]_vars
  PROVE  NoiseInv'
<1> USE DEF NoiseInv
<1> DEFINE whole == Targeted(Inputs + Outputs + 1)
<1>1. /\ TypeOK /\ index \in Nat /\ value \in Nat /\ value <= Inputs + Outputs + 1
      /\ Inputs + Outputs \in Nat /\ MaxRecords \in Nat
      /\ counts \in [perturbed : Nat, clamped : Nat, preserved : Nat]
  BY RecordsAssumption DEF ValueInv, Typed, TypeOK
<1>2. whole \in Nat /\ Targeted(value) \in Nat
  BY <1>1, Targets
<1>3. Turn = index * whole + Targeted(value) /\ Turn \in Nat
  <2>1. index * whole \in Nat
    BY <1>1, <1>2, Product
  <2> QED
    BY <1>2, <2>1 DEF Turn
<1> HIDE DEF whole
<1>4. ASSUME UNCHANGED <<request, counts, drawn, spare>>, Turn' = Turn, AtTurn(Turn)
      PROVE  AtTurn(Turn)'
  BY <1>4 DEF AtTurn
<1>5. ASSUME request' = request, index' = index, value' = value + 1, value \in Positions
      PROVE  Turn' = Turn + (IF Includes(value) THEN 1 ELSE 0)
  <2>1. Turn' = index * whole + Targeted(value + 1)
    BY <1>5 DEF Turn, whole, Targeted, TargetedBefore, Includes
  <2>2. Targeted(value + 1) = Targeted(value) + (IF Includes(value) THEN 1 ELSE 0)
    BY <1>5, Targets
  <2>3. index * whole \in Int
    BY <1>1, <1>2, Product
  <2> QED
    BY <1>2, <1>3, <2>1, <2>2, <2>3
<1>6. CASE ReadRecord
  <2>1. /\ value = 0 /\ value' = 1 /\ outcome # "failed"
        /\ UNCHANGED <<request, index, drawn, spare, counts, stored, outcome>>
    BY <1>6 DEF ReadRecord
  <2>2. Turn' = index * whole + Targeted(1)
    BY <2>1 DEF Turn, whole, Targeted, TargetedBefore, Includes
  <2>3. Turn' = Turn
    BY <1>3, <2>1, <2>2, Targets
  <2> QED
    BY <1>4, <2>1, <2>3
<1>7. CASE Skip
  <2>1. /\ value \in Positions /\ ~Includes(value) /\ value' = value + 1 /\ outcome # "failed"
        /\ UNCHANGED <<request, index, drawn, spare, counts>>
    BY <1>7 DEF Skip, Visits
  <2>2. Turn' = Turn
    BY <1>3, <1>5, <2>1
  <2> QED
    BY <1>4, <2>1, <2>2
<1>8. CASE Preserve
  <2>1. /\ value \in Positions /\ Includes(value) /\ value' = value + 1 /\ outcome # "failed"
        /\ Draw /\ counts' = [counts EXCEPT !.preserved = @ + 1]
        /\ UNCHANGED <<request, index>>
    BY <1>8 DEF Preserve, Visits
  <2>2. Turn' = Turn + 1
    BY <1>5, <2>1
  <2>3. AtTurn(Turn)
    BY <2>1
  <2>4. /\ counts'.perturbed + counts'.preserved = counts.perturbed + counts.preserved + 1
        /\ counts'.clamped <= counts'.perturbed
    BY <1>1, <2>1, <2>3 DEF AtTurn
  <2> QED
    BY <1>1, <1>3, <2>1, <2>2, <2>3, <2>4, DrawTurns DEF AtTurn
<1>9. CASE Perturb
  <2>1. /\ value \in Positions /\ Includes(value) /\ value' = value + 1 /\ outcome # "failed"
        /\ Draw /\ UNCHANGED <<request, index>>
    BY <1>9 DEF Perturb, Visits
  <2>2. Turn' = Turn + 1
    BY <1>5, <2>1
  <2>3. AtTurn(Turn)
    BY <2>1
  <2>4. PICK moved \in {0, 1} :
          counts' = [counts EXCEPT !.perturbed = @ + 1, !.clamped = @ + moved]
    BY <1>9 DEF Perturb
  <2>5. /\ counts'.perturbed = counts.perturbed + 1 /\ counts'.preserved = counts.preserved
        /\ counts'.clamped = counts.clamped + moved
    BY <1>1, <2>4
  <2>6. /\ counts'.perturbed + counts'.preserved = counts.perturbed + counts.preserved + 1
        /\ counts'.clamped <= counts'.perturbed
    BY <1>1, <2>3, <2>5 DEF AtTurn
  <2> QED
    BY <1>1, <1>3, <2>1, <2>2, <2>3, <2>6, DrawTurns DEF AtTurn
<1>10. CASE Overflow
  BY <1>10 DEF Overflow
<1>11. CASE WriteRecord
  <2>1. /\ value > Inputs + Outputs /\ index' = index + 1 /\ value' = 0 /\ outcome # "failed"
        /\ UNCHANGED <<request, drawn, spare, counts, outcome>>
    BY <1>11 DEF WriteRecord
  <2>2. value = Inputs + Outputs + 1
    BY <1>1, <2>1
  <2>3. Turn = index * whole + whole
    BY <1>3, <2>2 DEF whole
  <2>4. Turn' = (index + 1) * whole + Targeted(0)
    BY <2>1 DEF Turn, whole, Targeted, TargetedBefore, Includes
  <2>5. (index + 1) * whole = index * whole + whole /\ index * whole \in Int
    BY <1>1, <1>2, Product
  <2>6. Turn' = Turn
    BY <1>2, <2>3, <2>4, <2>5, Targets
  <2> QED
    BY <1>4, <2>1, <2>6
<1>12. CASE Finish \/ UNCHANGED vars
  <2>1. UNCHANGED <<request, index, value, drawn, spare, counts>>
    BY <1>12 DEF Finish, vars
  <2>2. Turn' = Turn
    BY <2>1 DEF Turn, Targeted, TargetedBefore, Includes
  <2>3. outcome' # "failed" => outcome # "failed"
    BY <1>12 DEF Finish, vars
  <2> QED
    BY <1>4, <2>1, <2>2, <2>3
<1> QED
  BY <1>6, <1>7, <1>8, <1>9, <1>10, <1>11, <1>12 DEF Next

(* Fuzzing replays: how far the generator has run, and every count, is a   *)
(* function of the position in the corpus and never of the values met.     *)
THEOREM NoiseIsReplayed == Spec => []NoiseFollowsPosition
<1>1. Init => ValueInv /\ NoiseInv
  BY ValueInit, NoiseInit
<1>2. ValueInv /\ NoiseInv /\ [Next]_vars => (ValueInv /\ NoiseInv)'
  BY ValueStep, NoiseStep
<1>3. NoiseInv => NoiseFollowsPosition
  BY NoiseIsTheProperty
<1> QED
  BY <1>1, <1>2, <1>3, PTL DEF Spec

-----------------------------------------------------------------------------
(* Numbers *)

(* Any set of numbers has a least one.                                     *)
LEMMA Least ==
  ASSUME NEW T \in SUBSET Nat, T # {}
  PROVE  \E n \in T : \A m \in T : n <= m
<1>1. PICK x \in T : \A y \in T : ~ (<<y, x>> \in OpToRel(<, Nat))
  BY NatLessThanWellFounded, WFMin, Zenon
<1>2. \A y \in T : ~(y < x)
  <2> SUFFICES ASSUME NEW y \in T, y < x PROVE FALSE
    OBVIOUS
  <2>1. <<y, x>> \in OpToRel(<, Nat)
    BY Zenon DEF OpToRel
  <2> QED
    BY <1>1, <2>1, Zenon
<1> QED
  BY <1>2

-----------------------------------------------------------------------------
(* Requests: numbers                                                       *)

(* TopExponent add.                                                          *)
LEMMA PowersAdd ==
  ASSUME NEW a \in Nat, NEW b \in Nat
  PROVE  2^(a + b) \in Nat \ {0} /\ 2^a \in Nat \ {0} /\ 2^b \in Nat \ {0} /\ 2^(a + b) = 2^a * 2^b
<1> DEFINE Wrong == {n \in Nat : 2^(a + n) # 2^a * 2^n}
<1>1. \A n \in Nat : 2^n \in Nat \ {0} /\ 2^(n + 1) = 2 * 2^n
  BY Powers
<1>2. Wrong = {}
  <2> SUFFICES ASSUME Wrong # {} PROVE FALSE
    OBVIOUS
  <2>1. PICK n \in Wrong : \A m \in Wrong : n <= m
    BY Least
  <2>2. n \in Nat /\ 2^(a + n) # 2^a * 2^n
    OBVIOUS
  <2>3. CASE n = 0
    <3>1. a + n = a /\ 2^n = 1
      BY <2>3
    <3> QED
      BY <1>1, <2>2, <3>1
  <2>4. CASE n # 0
    <3>1. n - 1 \in Nat /\ a + (n - 1) \in Nat /\ n = (n - 1) + 1 /\ a + n = (a + (n - 1)) + 1
      BY <2>2, <2>4
    <3>2. n - 1 \notin Wrong
      <4>1. ~(n <= n - 1)
        BY <3>1
      <4> HIDE DEF Wrong
      <4> QED
        BY <2>1, <4>1
    <3> DEFINE x == 2^a
               y == 2^(n - 1)
    <3>3. 2^(a + (n - 1)) = x * y
      BY <3>1, <3>2
    <3>4. 2^(a + n) = 2 * (x * y) /\ 2^n = 2 * y
      BY <1>1, <3>1, <3>3
    <3>5. x \in Nat /\ y \in Nat
      BY <1>1, <3>1
    <3> HIDE DEF x, y
    <3>6. 2 * (x * y) = x * (2 * y)
      BY <3>5
    <3> QED
      BY <2>2, <3>4, <3>6 DEF x
  <2> QED
    BY <2>3, <2>4
<1>3. b \notin Wrong
  BY <1>2
<1>4. a + b \in Nat
  OBVIOUS
<1> QED
  BY <1>1, <1>3, <1>4

(* Dividing twice is dividing once.                                        *)
LEMMA DivNests ==
  ASSUME NEW w \in Nat, NEW u \in Nat \ {0}, NEW v \in Nat \ {0}
  PROVE  (w \div u) \div v = w \div (u * v)
<1> DEFINE q == w \div u
           r == w % u
           p == q \div v
           s == q % v
<1>1. q \in Nat /\ r \in 0 .. u - 1 /\ w = (q * u) + r
  BY DivMod
<1>2. p \in Nat /\ s \in 0 .. v - 1 /\ q = (p * v) + s
  BY <1>1, DivMod
<1> HIDE DEF q, r, p, s
<1>3. u * v \in Nat \ {0}
  OBVIOUS
<1>4. s * u \in Nat /\ s * u <= (v - 1) * u /\ (v - 1) * u = (u * v) - u
  <2>1. s \in Int /\ v - 1 \in Int /\ s <= v - 1 /\ s >= 0
    BY <1>2
  <2>2. s * u <= (v - 1) * u
    BY <2>1, Product
  <2>3. s * u \in Nat
    BY <2>1
  <2> QED
    BY <2>2, <2>3
<1>5. (s * u) + r \in 0 .. (u * v) - 1
  BY <1>1, <1>3, <1>4
<1>6. w = (p * (u * v)) + ((s * u) + r)
  <2>1. q * u = (p * (u * v)) + (s * u)
    BY <1>2
  <2> QED
    BY <1>1, <2>1, <1>2, <1>4
<1>7. w \div (u * v) = p
  BY <1>2, <1>3, <1>5, <1>6, DivUnique
<1> QED
  BY <1>7 DEF p, q

(* Division keeps the order.                                               *)
LEMMA DivGrows ==
  ASSUME NEW a \in Nat, NEW b \in Nat, NEW u \in Nat \ {0}, a <= b
  PROVE  a \div u \in Nat /\ b \div u \in Nat /\ a \div u <= b \div u
<1> DEFINE p == a \div u
           q == b \div u
<1>1. /\ p \in Nat /\ a % u \in 0 .. u - 1 /\ a = (p * u) + (a % u)
      /\ q \in Nat /\ b % u \in 0 .. u - 1 /\ b = (q * u) + (b % u)
  BY DivMod
<1> HIDE DEF p, q
<1>2. ~(q + 1 <= p)
  <2> SUFFICES ASSUME q + 1 <= p PROVE FALSE
    OBVIOUS
  <2>1. (q + 1) * u <= p * u /\ p * u \in Int
    BY <1>1, Product
  <2>2. (q + 1) * u = (q * u) + u /\ q * u \in Int
    BY <1>1
  <2> QED
    BY <1>1, <2>1, <2>2
<1> QED
  BY <1>1, <1>2 DEF p, q

(* The ceiling of a quotient is the least number that covers.              *)
LEMMA Ceiling ==
  ASSUME NEW a \in Nat, NEW u \in Nat \ {0}
  PROVE  /\ DivCeil(a, u) \in Nat
         /\ a <= DivCeil(a, u) * u /\ DivCeil(a, u) * u < a + u
         /\ \A k \in Nat : a <= k * u => DivCeil(a, u) <= k
<1> DEFINE b == (a + u) - 1
           c == b \div u
           r == b % u
<1>1. b \in Nat
  OBVIOUS
<1>2. c \in Nat /\ r \in 0 .. u - 1 /\ b = (c * u) + r /\ DivCeil(a, u) = c
  <2>1. DivCeil(a, u) = c
    BY DEF DivCeil
  <2> HIDE DEF b
  <2>2. c \in Nat /\ r \in 0 .. u - 1 /\ b = (c * u) + r
    BY <1>1, DivMod
  <2> QED
    BY <2>1, <2>2
<1> HIDE DEF c, r
<1>3. c * u \in Nat
  BY <1>2
<1>4. a <= c * u /\ c * u < a + u
  BY <1>2, <1>3
<1>5. ASSUME NEW k \in Nat, a <= k * u PROVE c <= k
  <2> SUFFICES ASSUME k + 1 <= c PROVE FALSE
    BY <1>2
  <2>1. (k + 1) * u <= c * u
    BY <1>2, Product
  <2>2. (k + 1) * u = (k * u) + u /\ k * u \in Nat
    OBVIOUS
  <2> QED
    BY <1>3, <1>4, <1>5, <2>1, <2>2
<1> QED
  BY <1>2, <1>4, <1>5

(* It keeps the order.                                                     *)
LEMMA CeilingGrows ==
  ASSUME NEW a \in Nat, NEW b \in Nat, NEW u \in Nat \ {0}, a <= b
  PROVE  DivCeil(a, u) <= DivCeil(b, u)
<1>1. DivCeil(b, u) \in Nat /\ b <= DivCeil(b, u) * u
  BY Ceiling
<1>2. DivCeil(b, u) * u \in Nat
  BY <1>1
<1>3. a <= DivCeil(b, u) * u
  BY <1>1, <1>2
<1>4. \A k \in Nat : a <= k * u => DivCeil(a, u) <= k
  BY Ceiling
<1> HIDE DEF DivCeil
<1> QED
  BY <1>1, <1>3, <1>4

(* The least of two and of three numbers.                                  *)
LEMMA MinOfTwo ==
  ASSUME NEW a \in Int, NEW b \in Int
  PROVE  Min({a, b}) = IF a <= b THEN a ELSE b
<1> DEFINE m == IF a <= b THEN a ELSE b
<1>1. m \in {a, b} /\ \A y \in {a, b} : m <= y
  OBVIOUS
<1>2. \A x \in {a, b} : (\A y \in {a, b} : x <= y) => x = m
  BY <1>1
<1> QED
  BY <1>1, <1>2 DEF Min

LEMMA MinOfThree ==
  ASSUME NEW a \in Int, NEW b \in Int, NEW c \in Int
  PROVE  /\ Min({a, b, c}) \in {a, b, c}
         /\ Min({a, b, c}) <= a /\ Min({a, b, c}) <= b /\ Min({a, b, c}) <= c
<1>1. \E x \in {a, b, c} : \A y \in {a, b, c} : x <= y
  OBVIOUS
<1>2. Min({a, b, c}) \in {a, b, c} /\ \A y \in {a, b, c} : Min({a, b, c}) <= y
  BY <1>1 DEF Min
<1> QED
  BY <1>2

-----------------------------------------------------------------------------
(* Requests: what a float makes of an integer                              *)

(* What the assumptions say of words and floats.                           *)
LEMMA WordFacts ==
  /\ WordBits \in Nat \ {0} /\ Mantissa \in Nat \ {0} /\ TopExponent \in Nat /\ WordBits <= TopExponent
  /\ 2^WordBits \in Nat \ {0} /\ MaxWord \in Nat /\ MaxWord + 1 = 2^WordBits
  /\ Word = 0 .. MaxWord
  /\ 2^Mantissa \in Nat \ {0} /\ 2^(Mantissa - 1) \in Nat \ {0} /\ 2^Mantissa = 2 * 2^(Mantissa - 1)
<1>1. WordBits \in Nat \ {0} /\ Mantissa \in Nat \ {0} /\ Mantissa - 1 \in Nat /\ (Mantissa - 1) + 1 = Mantissa
  BY WordsAssumption
<1>2. \A n \in Nat : 2^n \in Nat \ {0} /\ 2^(n + 1) = 2 * 2^n
  BY Powers
<1>3. 2^WordBits \in Nat \ {0}
  BY <1>1, <1>2
<1>4. 2^Mantissa = 2 * 2^(Mantissa - 1) /\ 2^Mantissa \in Nat \ {0} /\ 2^(Mantissa - 1) \in Nat \ {0}
  BY <1>1, <1>2
<1> QED
  BY <1>1, <1>3, <1>4, WordsAssumption DEF MaxWord, Word

(* The numbers that ToFloat is meant for, and the exponent it gives them.  *)
Floatable   == 0 .. 2^(TopExponent + Mantissa) - 1
Above(n)    == {e \in 0 .. TopExponent : 2^(e + Mantissa) > n}
Exponent(n) == Min(Above(n))
UnitOf(n)   == 2^Exponent(n)
Rounded(n)  == IF 2 * (n % UnitOf(n)) + ((n \div UnitOf(n)) % 2) > UnitOf(n)
                 THEN (n \div UnitOf(n)) + 1 ELSE n \div UnitOf(n)

LEMMA FloatParts ==
  ASSUME NEW n
  PROVE  ToFloat(n) = UnitOf(n) * Rounded(n)
BY Zenon DEF ToFloat, UnitOf, Exponent, Above, Rounded

(* The exponent is the least under which the number has Mantissa bits.     *)
LEMMA Scaled ==
  ASSUME NEW n \in Floatable
  PROVE  /\ n \in Nat /\ Exponent(n) \in 0 .. TopExponent
         /\ n < 2^(Exponent(n) + Mantissa)
         /\ Exponent(n) # 0 => 2^((Exponent(n) - 1) + Mantissa) <= n
         /\ \A d \in Nat : n < 2^(d + Mantissa) => Exponent(n) <= d
<1>1. TopExponent \in Nat /\ Mantissa \in Nat \ {0} /\ TopExponent + Mantissa \in Nat
  BY WordFacts
<1>2. \A d \in Nat : 2^(d + Mantissa) \in Nat
  <2>1. \A m \in Nat : 2^m \in Nat
    BY Powers
  <2> QED
    BY <1>1, <2>1
<1>3. n \in Nat /\ n < 2^(TopExponent + Mantissa)
  <2>1. 2^(TopExponent + Mantissa) \in Nat
    BY <1>1, Powers
  <2> QED
    BY <2>1 DEF Floatable
<1>4. Above(n) \in SUBSET Nat /\ TopExponent \in Above(n) /\ Above(n) \subseteq 0 .. TopExponent
  <2>1. TopExponent \in 0 .. TopExponent
    BY <1>1
  <2> QED
    BY <1>2, <1>3, <2>1 DEF Above
<1>5. \E e \in Above(n) : \A m \in Above(n) : e <= m
  <2>1. Above(n) # {}
    BY <1>4
  <2> QED
    BY <1>4, <2>1, Least
<1>6. Exponent(n) \in Above(n) /\ \A m \in Above(n) : Exponent(n) <= m
  BY <1>5, Zenon DEF Exponent, Min
<1>7. Exponent(n) \in 0 .. TopExponent /\ 2^(Exponent(n) + Mantissa) > n
  BY <1>6 DEF Above
<1> DEFINE e == Exponent(n)
<1> HIDE DEF e
<1>8. ASSUME e # 0 PROVE 2^((e - 1) + Mantissa) <= n
  <2>1. e - 1 \in 0 .. TopExponent /\ ~(e <= e - 1)
    BY <1>1, <1>7, <1>8 DEF e
  <2>2. e - 1 \notin Above(n)
    BY <1>6, <2>1, Zenon DEF e
  <2>3. ~(2^((e - 1) + Mantissa) > n)
    BY <2>1, <2>2 DEF Above
  <2>4. 2^((e - 1) + Mantissa) \in Nat
    BY <1>2, <2>1
  <2> QED
    BY <1>3, <2>3, <2>4
<1>9. ASSUME NEW d \in Nat, n < 2^(d + Mantissa) PROVE e <= d
  <2>1. CASE d \in 0 .. TopExponent
    <3>1. 2^(d + Mantissa) > n
      BY <1>2, <1>3, <1>9
    <3>2. d \in Above(n)
      BY <2>1, <3>1 DEF Above
    <3> QED
      BY <1>6, <3>2 DEF e
  <2>2. CASE d \notin 0 .. TopExponent
    BY <1>1, <1>7, <2>2 DEF e
  <2> QED
    BY <2>1, <2>2
<1>10. n < 2^(e + Mantissa)
  <2>1. e \in Nat
    BY <1>1, <1>7 DEF e
  <2>2. 2^(e + Mantissa) \in Nat
    BY <1>2, <2>1
  <2> QED
    BY <1>3, <1>7, <2>2 DEF e
<1> QED
  BY <1>3, <1>7, <1>8, <1>9, <1>10 DEF e

(* The quotient has at most Mantissa bits, and no fewer where digits are   *)
(* lost.                                                                   *)
LEMMA Divided ==
  ASSUME NEW n \in Floatable
  PROVE  /\ UnitOf(n) \in Nat \ {0} /\ n \div UnitOf(n) \in Nat /\ n % UnitOf(n) \in 0 .. UnitOf(n) - 1
         /\ n = ((n \div UnitOf(n)) * UnitOf(n)) + (n % UnitOf(n))
         /\ n \div UnitOf(n) < 2^Mantissa
         /\ Exponent(n) = 0 => UnitOf(n) = 1
         /\ Exponent(n) # 0 => 2^(Mantissa - 1) <= n \div UnitOf(n) /\ UnitOf(n) * 2^(Mantissa - 1) <= n
<1> DEFINE e == Exponent(n)
           u == UnitOf(n)
           q == n \div u
           r == n % u
           half == 2^(Mantissa - 1)
<1>1. n \in Nat /\ e \in Nat /\ n < 2^(e + Mantissa)
  BY Scaled, WordFacts
<1>2. u \in Nat \ {0} /\ (e = 0 => u = 1)
  <2>1. 2^e \in Nat \ {0} /\ 2^0 = 1
    BY <1>1, Powers
  <2> QED
    BY <2>1 DEF UnitOf
<1>3. q \in Nat /\ r \in 0 .. u - 1 /\ n = (q * u) + r
  <2> HIDE DEF u
  <2> QED
    BY <1>1, <1>2, DivMod
<1>4. n < u * 2^Mantissa
  <2>1. 2^(e + Mantissa) = 2^e * 2^Mantissa
    BY <1>1, WordFacts, PowersAdd
  <2> QED
    BY <1>1, <2>1 DEF UnitOf
<1>5. half \in Nat \ {0} /\ 2^Mantissa \in Nat \ {0}
  BY WordFacts
<1>6. e # 0 => u * half <= n
  <2> SUFFICES ASSUME e # 0 PROVE u * half <= n
    OBVIOUS
  <2>1. 2^((e - 1) + Mantissa) <= n
    BY Scaled
  <2>2. (e - 1) + Mantissa = e + (Mantissa - 1) /\ Mantissa - 1 \in Nat
    BY <1>1, WordFacts
  <2>3. 2^(e + (Mantissa - 1)) = 2^e * 2^(Mantissa - 1)
    BY <1>1, <2>2, PowersAdd
  <2> QED
    BY <2>1, <2>2, <2>3 DEF UnitOf
<1> HIDE DEF u, q, r, e, half
<1>7. q < 2^Mantissa
  <2> DEFINE p == 2^Mantissa
  <2> SUFFICES ASSUME p <= q PROVE FALSE
    BY <1>3, <1>5
  <2>1. p * u <= q * u /\ q * u \in Nat
    BY <1>2, <1>3, <1>5, Product
  <2> QED
    BY <1>1, <1>2, <1>3, <1>4, <1>5, <2>1
<1>8. ASSUME u * half <= n PROVE half <= q
  <2> SUFFICES ASSUME q + 1 <= half PROVE FALSE
    BY <1>3, <1>5
  <2>1. (q + 1) * u <= half * u /\ (q + 1) * u = (q * u) + u /\ q * u \in Nat
    BY <1>2, <1>3, <1>5, Product
  <2>2. half * u = u * half /\ u * half \in Nat
    BY <1>2, <1>5
  <2> QED
    BY <1>1, <1>2, <1>3, <1>8, <2>1, <2>2
<1> QED
  BY <1>2, <1>3, <1>6, <1>7, <1>8 DEF u, q, r, e, half

(* What is rounded is a multiple of the unit no further than half of one.  *)
LEMMA Nearest ==
  ASSUME NEW n \in Floatable
  PROVE  /\ Rounded(n) \in Nat /\ ToFloat(n) \in Nat /\ ToFloat(n) = Rounded(n) * UnitOf(n)
         /\ Rounded(n) \in {n \div UnitOf(n), (n \div UnitOf(n)) + 1}
         /\ 2 * (ToFloat(n) - n) <= UnitOf(n) /\ 2 * (n - ToFloat(n)) <= UnitOf(n)
         /\ n % UnitOf(n) = 0 => ToFloat(n) = n
<1> DEFINE u == UnitOf(n)
           q == n \div u
           r == n % u
<1>1. u \in Nat \ {0} /\ q \in Nat /\ r \in 0 .. u - 1 /\ n = (q * u) + r /\ n \in Nat
  BY Divided, Scaled
<1>2. Rounded(n) = IF 2 * r + (q % 2) > u THEN q + 1 ELSE q
  BY DEF Rounded
<1>3. ToFloat(n) = u * Rounded(n)
  BY FloatParts
<1> HIDE DEF u, q, r
<1>4. q % 2 \in {0, 1} /\ q * u \in Nat /\ (q + 1) * u = (q * u) + u
  BY <1>1
<1>5. Rounded(n) \in {q, q + 1}
  BY <1>2
<1>6. ToFloat(n) = Rounded(n) * u /\ ToFloat(n) \in Nat /\ Rounded(n) \in Nat
  <2>1. Rounded(n) \in Nat
    BY <1>1, <1>5
  <2> DEFINE k == Rounded(n)
  <2> HIDE DEF k
  <2>2. \A j \in Nat : u * j = j * u /\ u * j \in Nat
    BY <1>1
  <2> QED
    BY <1>3, <2>1, <2>2
<1>7. 2 * (ToFloat(n) - n) <= u /\ 2 * (n - ToFloat(n)) <= u /\ (r = 0 => ToFloat(n) = n)
  <2> DEFINE f == ToFloat(n)
             m == q * u
  <2>1. m \in Nat /\ n = m + r /\ f \in Nat
    BY <1>1, <1>4, <1>6
  <2>2. CASE 2 * r + (q % 2) > u
    <3>1. f = m + u
      BY <1>2, <1>4, <1>6, <2>2
    <3>2. 2 * r >= u /\ r # 0
      BY <1>1, <1>4, <2>2
    <3> HIDE DEF f, m
    <3>3. 2 * (f - n) <= u /\ 2 * (n - f) <= u /\ r # 0
      BY <1>1, <2>1, <3>1, <3>2
    <3> QED
      BY <3>3 DEF f
  <2>3. CASE ~(2 * r + (q % 2) > u)
    <3>1. f = m
      BY <1>2, <1>6, <2>3
    <3>2. 2 * r <= u
      BY <1>1, <1>4, <2>3
    <3> HIDE DEF f, m
    <3>3. 2 * (f - n) <= u /\ 2 * (n - f) <= u /\ (r = 0 => f = n)
      BY <1>1, <2>1, <3>1, <3>2
    <3> QED
      BY <3>3 DEF f
  <2> QED
    BY <2>2, <2>3
<1> QED
  BY <1>5, <1>6, <1>7 DEF u, q, r

(* A float is off by at most one part in 2^Mantissa.                       *)
LEMMA RelativeError ==
  ASSUME NEW n \in Floatable
  PROVE  (ToFloat(n) - n) * 2^Mantissa <= n /\ (n - ToFloat(n)) * 2^Mantissa <= n
<1> DEFINE u == UnitOf(n)
           f == ToFloat(n)
           half == 2^(Mantissa - 1)
<1>1. u \in Nat \ {0} /\ f \in Nat /\ n \in Nat /\ half \in Nat \ {0} /\ 2^Mantissa = 2 * half
  BY Divided, Nearest, Scaled, WordFacts
<1>2. 2 * (f - n) <= u /\ 2 * (n - f) <= u
  BY Nearest
<1>3. Exponent(n) # 0 => u * half <= n
  BY Divided
<1>4. Exponent(n) = 0 => u = 1
  BY Divided
<1> HIDE DEF u, f, half
<1>5. CASE u * half <= n
  <2>1. ASSUME NEW d \in Int, 2 * d <= u PROVE d * (2 * half) <= n
    <3>1. (2 * d) * half <= u * half
      BY <1>1, <2>1, Product
    <3>2. d * (2 * half) = (2 * d) * half /\ (2 * d) * half \in Int /\ u * half \in Int
      BY <1>1
    <3> QED
      BY <1>1, <1>5, <3>1, <3>2
  <2>2. f - n \in Int /\ n - f \in Int
    BY <1>1
  <2>3. (f - n) * (2 * half) <= n /\ (n - f) * (2 * half) <= n
    BY <1>2, <2>1, <2>2
  <2> QED
    BY <1>1, <2>3 DEF f
<1>6. CASE u = 1
  <2>1. f = n
    BY <1>1, <1>2, <1>6
  <2>2. (f - n) * (2 * half) = 0 /\ (n - f) * (2 * half) = 0
    BY <1>1, <2>1
  <2> QED
    BY <1>1, <2>2 DEF f
<1> QED
  BY <1>3, <1>4, <1>5, <1>6

(* A number of at most Mantissa bits is never rounded past.                *)
LEMMA NeverBeyond ==
  ASSUME NEW n \in Floatable, NEW a \in 0 .. 2^Mantissa, NEW b \in Nat, n <= a * 2^b
  PROVE  ToFloat(n) <= a * 2^b
<1> DEFINE e == Exponent(n)
           u == UnitOf(n)
           q == n \div u
           r == n % u
           half == 2^(Mantissa - 1)
<1>1. /\ u \in Nat \ {0} /\ q \in Nat /\ r \in 0 .. u - 1 /\ n = (q * u) + r /\ n \in Nat
      /\ half \in Nat \ {0} /\ 2^Mantissa = 2 * half /\ e \in Nat /\ a \in Nat /\ 2^b \in Nat \ {0}
  BY Divided, Scaled, WordFacts, Powers
<1>2. /\ ToFloat(n) \in Nat /\ Rounded(n) \in Nat /\ ToFloat(n) = Rounded(n) * u /\ Rounded(n) \in {q, q + 1}
      /\ r = 0 => ToFloat(n) = n
  BY Nearest
<1>3. a * 2^b \in Nat
  BY <1>1
<1>4. CASE e <= b
  <2> DEFINE k == a * 2^(b - e)
  <2>1. 2^b = 2^(b - e) * u /\ 2^(b - e) \in Nat
    <3>1. b - e \in Nat /\ (b - e) + e = b
      BY <1>1, <1>4
    <3>2. 2^((b - e) + e) = 2^(b - e) * 2^e /\ 2^(b - e) \in Nat
      BY <1>1, <3>1, PowersAdd
    <3> QED
      BY <3>1, <3>2 DEF UnitOf
  <2>2. k \in Nat /\ a * 2^b = k * u
    <3> DEFINE p == 2^(b - e)
    <3>1. p \in Nat /\ a * 2^b = a * (p * u) /\ k = a * p
      BY <2>1
    <3> HIDE DEF p, k, u
    <3>2. a * (p * u) = (a * p) * u /\ a * p \in Nat
      BY <1>1, <3>1
    <3> QED
      BY <3>1, <3>2
  <2>3. n <= k * u /\ q * u \in Nat /\ k * u \in Nat
    <3> HIDE DEF u, k, q
    <3> QED
      BY <1>1, <1>3, <2>2
  <2> HIDE DEF u, k, q, r
  <2>4. ~(k + 1 <= q)
    <3> SUFFICES ASSUME k + 1 <= q PROVE FALSE
      OBVIOUS
    <3>1. (k + 1) * u <= q * u /\ (k + 1) * u = (k * u) + u
      BY <1>1, <2>2, Product
    <3> QED
      BY <1>1, <2>3, <3>1
  <2>5. CASE q = k
    <3>1. r = 0
      BY <1>1, <2>3, <2>5
    <3> QED
      BY <1>2, <1>3, <3>1
  <2>6. CASE q + 1 <= k
    <3> DEFINE j == Rounded(n)
    <3>1. j \in Nat /\ j <= k
      BY <1>1, <1>2, <2>2, <2>6
    <3> HIDE DEF j
    <3>2. j * u <= k * u
      BY <1>1, <2>2, <3>1, Product
    <3> QED
      BY <1>2, <2>2, <3>2 DEF j
  <2> QED
    BY <1>1, <2>2, <2>4, <2>5, <2>6
<1>5. CASE b < e
  <2>1. half <= q /\ u * half <= n
    <3>1. e # 0
      BY <1>1, <1>5
    <3> QED
      BY <3>1, Divided
  <2>2. a * 2^b <= u * half
    <3>1. 2^b <= 2^(e - 1) /\ 2^(e - 1) \in Nat /\ 2^e = 2 * 2^(e - 1)
      <4>1. e - 1 \in Nat /\ b <= e - 1 /\ (e - 1) + 1 = e
        BY <1>1, <1>5
      <4>2. 2^((e - 1) + 1) = 2 * 2^(e - 1) /\ 2^(e - 1) \in Nat
        BY <4>1, Powers
      <4>3. 2^b <= 2^(e - 1)
        BY <4>1, PowersGrow
      <4> QED
        BY <4>1, <4>2, <4>3
    <3> DEFINE p == 2^(e - 1)
               c == 2^b
    <3>2. u = 2 * p /\ p \in Nat /\ c \in Nat /\ c <= p /\ a <= 2 * half
      BY <1>1, <3>1 DEF UnitOf
    <3> HIDE DEF p, c, u, half
    <3>3. a * c <= (2 * half) * c /\ c * (2 * half) <= p * (2 * half)
      BY <1>1, <3>2, Product
    <3>4. (2 * half) * c = c * (2 * half) /\ p * (2 * half) = (2 * p) * half /\ a * c \in Nat /\ p * (2 * half) \in Nat
          /\ c * (2 * half) \in Nat
      BY <1>1, <3>2
    <3> QED
      BY <3>2, <3>3, <3>4 DEF c
  <2> HIDE DEF u, q, r, half
  <2>3. u * half \in Nat /\ q * u \in Nat /\ half * u = u * half /\ half * u <= q * u
    BY <1>1, <2>1, Product
  <2>4. r = 0
    BY <1>1, <1>3, <2>1, <2>2, <2>3
  <2> QED
    BY <1>2, <1>3, <2>4
<1> QED
  BY <1>1, <1>4, <1>5

(* Rounding keeps the order.                                               *)
LEMMA ToFloatGrows ==
  ASSUME NEW m \in Floatable, NEW n \in Floatable, m <= n
  PROVE  ToFloat(m) <= ToFloat(n)
<1> DEFINE half == 2^(Mantissa - 1)
<1>1. m \in Nat /\ n \in Nat /\ Exponent(m) \in Nat /\ Exponent(n) \in Nat /\ half \in Nat \ {0}
  BY Scaled, WordFacts
<1>2. Exponent(m) <= Exponent(n)
  <2>1. 2^(Exponent(n) + Mantissa) \in Nat
    <3>1. Exponent(n) + Mantissa \in Nat
      BY <1>1, WordFacts
    <3> QED
      BY <3>1, Powers
  <2>2. m < 2^(Exponent(n) + Mantissa)
    BY <1>1, <2>1, Scaled
  <2> QED
    BY <1>1, <2>2, Scaled
<1>3. /\ UnitOf(m) \in Nat \ {0} /\ UnitOf(n) \in Nat \ {0}
      /\ m \div UnitOf(m) \in Nat /\ n \div UnitOf(n) \in Nat
  BY Divided
<1>4. CASE Exponent(m) = Exponent(n)
  <2> DEFINE u == UnitOf(n)
             p == m \div u
             q == n \div u
             r == m % u
             s == n % u
  <2>1. UnitOf(m) = u
    BY <1>4 DEF UnitOf
  <2>2. /\ u \in Nat \ {0} /\ p \in Nat /\ r \in 0 .. u - 1 /\ m = (p * u) + r
        /\ q \in Nat /\ s \in 0 .. u - 1 /\ n = (q * u) + s
    BY <2>1, Divided
  <2>3. /\ Rounded(m) = IF 2 * r + (p % 2) > u THEN p + 1 ELSE p
        /\ Rounded(n) = IF 2 * s + (q % 2) > u THEN q + 1 ELSE q
    BY <2>1 DEF Rounded
  <2>4. p <= q
    <3> HIDE DEF u
    <3> QED
      BY <1>1, <2>2, DivGrows
  <2>5. ToFloat(m) = Rounded(m) * u /\ ToFloat(n) = Rounded(n) * u
    BY <2>1, Nearest
  <2> HIDE DEF u, p, q, r, s
  <2>6. Rounded(m) <= Rounded(n) /\ Rounded(m) \in Nat /\ Rounded(n) \in Nat
    <3>1. CASE p = q
      <4>1. r <= s
        <5>1. p * u \in Nat
          BY <2>2
        <5> QED
          BY <2>2, <3>1, <5>1
      <4> DEFINE o == p % 2
      <4>2. o \in Nat /\ o = q % 2
        BY <2>2, <3>1
      <4> HIDE DEF o
      <4>3. 2 * r + o > u => 2 * s + o > u
        BY <2>2, <4>1, <4>2
      <4> QED
        BY <2>2, <2>3, <3>1, <4>2, <4>3 DEF o
    <3>2. CASE p + 1 <= q
      BY <2>2, <2>3, <3>2
    <3> QED
      BY <2>2, <2>4, <3>1, <3>2
  <2> DEFINE i == Rounded(m)
             j == Rounded(n)
  <2> HIDE DEF i, j
  <2>7. i * u <= j * u
    BY <2>2, <2>6, Product DEF i, j
  <2> QED
    BY <2>5, <2>7 DEF i, j
<1>5. CASE Exponent(m) < Exponent(n)
  <2> DEFINE d == Exponent(m)
             e == Exponent(n)
             u == UnitOf(n)
  <2>1. e # 0 /\ e - 1 \in Nat /\ d <= e - 1
    BY <1>1, <1>5
  <2>2. ToFloat(m) <= 2^Mantissa * 2^d
    <3>1. 2^(d + Mantissa) = 2^d * 2^Mantissa /\ 2^d \in Nat /\ 2^Mantissa \in Nat
      BY <1>1, WordFacts, PowersAdd
    <3>2. m < 2^(d + Mantissa)
      BY Scaled
    <3> DEFINE x == 2^d
               y == 2^Mantissa
    <3>3. m < x * y /\ x \in Nat /\ y \in Nat
      BY <3>1, <3>2
    <3> HIDE DEF x, y
    <3>4. m <= y * x
      BY <1>1, <3>3
    <3>5. m <= 2^Mantissa * 2^d /\ 2^Mantissa \in 0 .. 2^Mantissa
      BY <3>3, <3>4 DEF x, y
    <3> QED
      BY <1>1, <3>5, NeverBeyond
  <2>3. 2^Mantissa * 2^d <= half * u
    <3>1. 2^d <= 2^(e - 1) /\ 2^(e - 1) \in Nat /\ 2^d \in Nat /\ 2^((e - 1) + 1) = 2 * 2^(e - 1) /\ (e - 1) + 1 = e
      BY <1>1, <2>1, PowersGrow, Powers
    <3> DEFINE x == 2^d
               y == 2^(e - 1)
    <3>2. x \in Nat /\ y \in Nat /\ x <= y /\ u = 2 * y /\ 2^Mantissa = 2 * half
      BY <3>1, WordFacts DEF UnitOf
    <3> HIDE DEF x, y, u, half
    <3>3. x * (2 * half) <= y * (2 * half)
      BY <1>1, <3>2, Product
    <3>4. x * (2 * half) = (2 * half) * x /\ y * (2 * half) = half * (2 * y)
      BY <1>1, <3>2
    <3> QED
      BY <3>2, <3>3, <3>4 DEF x
  <2>4. half * u <= ToFloat(n)
    <3>1. half <= n \div u
      BY <2>1, Divided
    <3> DEFINE k == Rounded(n)
    <3>2. half <= k /\ k \in Nat /\ ToFloat(n) = k * u
      BY <1>1, <1>3, <3>1, Nearest
    <3> HIDE DEF k, u, half
    <3>3. half * u <= k * u
      BY <1>1, <1>3, <3>2, Product DEF u
    <3> QED
      BY <3>2, <3>3
  <2>5. ToFloat(m) \in Nat /\ ToFloat(n) \in Nat /\ half * u \in Nat /\ 2^Mantissa * 2^d \in Nat
    <3>1. 2^d \in Nat /\ 2^Mantissa \in Nat
      BY <1>1, WordFacts, Powers
    <3> DEFINE x == 2^d
               y == 2^Mantissa
    <3>2. x \in Nat /\ y \in Nat
      BY <3>1
    <3> HIDE DEF x, y, u, half
    <3>3. y * x \in Nat /\ half * u \in Nat
      BY <1>1, <1>3, <3>2 DEF u
    <3> QED
      BY <3>3, Nearest DEF x, y
  <2> HIDE DEF d, u, half
  <2> QED
    BY <2>2, <2>3, <2>4, <2>5
<1> QED
  BY <1>1, <1>2, <1>4, <1>5

-----------------------------------------------------------------------------
(* Requests: the space a sampler asks for                                  *)

(* Saturation keeps to a word, and keeps the order.                        *)
LEMMA Saturates ==
  ASSUME NEW a \in Nat, NEW b \in Nat
  PROVE  /\ SaturatingAdd(a, b) = IF a + b <= MaxWord THEN a + b ELSE MaxWord
         /\ SaturatingMul(a, b) = IF a * b <= MaxWord THEN a * b ELSE MaxWord
         /\ SaturatingAdd(a, b) \in Word /\ SaturatingMul(a, b) \in Word
<1>1. a + b \in Nat /\ a * b \in Nat /\ MaxWord \in Nat
  BY WordFacts
<1>2. /\ SaturatingAdd(a, b) = IF a + b <= MaxWord THEN a + b ELSE MaxWord
      /\ SaturatingMul(a, b) = IF a * b <= MaxWord THEN a * b ELSE MaxWord
  <2>1. \A x \in Int : Min({x, MaxWord}) = IF x <= MaxWord THEN x ELSE MaxWord
    BY <1>1, MinOfTwo
  <2> QED
    BY <1>1, <2>1 DEF SaturatingAdd, SaturatingMul
<1>3. Word = 0 .. MaxWord
  BY WordFacts
<1> DEFINE x == a * b
<1> HIDE DEF x
<1>4. x \in Nat /\ SaturatingMul(a, b) = IF x <= MaxWord THEN x ELSE MaxWord
  BY <1>1, <1>2 DEF x
<1>5. SaturatingMul(a, b) \in Word
  BY <1>1, <1>3, <1>4
<1> QED
  BY <1>1, <1>2, <1>3, <1>5

(* What the assumptions say of rates and the headroom.                     *)
LEMMA EstimateFacts ==
  /\ RateUnit \in Nat \ {0}
  /\ \E bits \in Nat : RateUnit = 2^bits /\ WordBits + bits <= TopExponent
  /\ HeadroomDivisor \in Nat \ {0} /\ 2 * (HeadroomDivisor + 1) <= 2^Mantissa
<1>1. PICK bits \in 0 .. TopExponent - WordBits : RateUnit = 2^bits
  BY EstimateAssumption
<1>2. bits \in Nat /\ WordBits + bits <= TopExponent
  BY <1>1, WordFacts
<1>3. 2^bits \in Nat \ {0}
  BY <1>2, Powers
<1> QED
  BY <1>1, <1>2, <1>3, EstimateAssumption

(* Every float a sampler computes is in range.                             *)
LEMMA InRange ==
  ASSUME NEW n \in Word, NEW rate \in 0 .. RateUnit
  PROVE  /\ n \in Floatable /\ n * rate \in Floatable
         /\ ToFloat(n) \in Nat /\ ToFloat(n) * rate \in Floatable
<1> DEFINE p == 2^WordBits
           u == RateUnit
           top == 2^(TopExponent + Mantissa)
<1>1. /\ p \in Nat \ {0} /\ u \in Nat \ {0} /\ n \in Nat /\ n < p /\ n <= p /\ rate \in Nat /\ rate <= u
  BY WordFacts, EstimateFacts
<1>2. top \in Nat \ {0} /\ p * u \in Nat /\ p * u < top /\ p < top
  <2>1. PICK bits \in Nat : u = 2^bits /\ WordBits + bits <= TopExponent
    BY EstimateFacts
  <2> DEFINE g == 2^TopExponent
             m == 2^Mantissa
  <2>2. g \in Nat \ {0} /\ m \in Nat \ {0} /\ top = g * m /\ m >= 2
    <3>1. TopExponent \in Nat /\ Mantissa \in Nat
      BY WordFacts
    <3>2. top = g * m /\ g \in Nat \ {0}
      BY <3>1, PowersAdd
    <3> QED
      BY <3>2, WordFacts
  <2>3. p * u = 2^(WordBits + bits) /\ 2^(WordBits + bits) <= g /\ p <= g
    <3>1. WordBits \in Nat /\ TopExponent \in Nat /\ WordBits <= TopExponent /\ WordBits + bits \in Nat
      BY WordFacts
    <3>2. 2^(WordBits + bits) = 2^WordBits * 2^bits
      BY <3>1, PowersAdd
    <3>3. 2^(WordBits + bits) <= 2^TopExponent /\ 2^WordBits <= 2^TopExponent
      BY <2>1, <3>1, PowersGrow
    <3> QED
      BY <2>1, <3>2, <3>3
  <2> DEFINE k == p * u
  <2>4. k \in Nat /\ k <= g
    BY <1>1, <2>3
  <2> HIDE DEF top, g, m, p, u, k
  <2>5. 2 * g <= m * g /\ m * g = g * m /\ g * m \in Nat
    BY <2>2, Product
  <2>6. k < top /\ p < top /\ top \in Nat \ {0}
    BY <1>1, <2>2, <2>3, <2>4, <2>5
  <2> QED
    BY <2>4, <2>6 DEF k
<1>3. Floatable = 0 .. top - 1
  BY DEF Floatable
<1> HIDE DEF p, u, top
<1>4. ASSUME NEW x \in Nat, x <= p PROVE x * rate \in Floatable
  <2> DEFINE y == x * rate
  <2>1. x * rate <= p * rate /\ rate * p <= u * p
    BY <1>1, <1>4, Product
  <2>2. p * rate = rate * p /\ u * p = p * u /\ p * rate \in Nat /\ y \in Nat
    BY <1>1
  <2>3. y \in 0 .. top - 1
    <3> DEFINE k == p * u
               l == p * rate
    <3>1. y <= l /\ l <= k /\ k \in Nat /\ k < top /\ l \in Nat /\ y \in Nat
      BY <1>2, <2>1, <2>2
    <3> HIDE DEF y, k, l
    <3> QED
      BY <1>2, <3>1
  <2> QED
    BY <1>3, <2>3
<1>5. n \in Floatable
  BY <1>1, <1>2, <1>3
<1>6. ToFloat(n) \in Nat /\ ToFloat(n) <= p
  <2>1. n <= 1 * 2^WordBits /\ 1 \in 0 .. 2^Mantissa /\ WordBits \in Nat /\ 1 * 2^WordBits = 2^WordBits
    BY <1>1, WordFacts DEF p
  <2>2. ToFloat(n) <= 1 * 2^WordBits
    BY <1>5, <2>1, NeverBeyond
  <2> QED
    BY <1>5, <2>1, <2>2, Nearest DEF p
<1> QED
  BY <1>1, <1>4, <1>5, <1>6

(* Two roundings lose less than the headroom gives back.                   *)
LEMMA RoundedTwice ==
  ASSUME NEW n \in Word, NEW rate \in 0 .. RateUnit
  PROVE  (n * rate) * HeadroomDivisor <= ToFloat(ToFloat(n) * rate) * (HeadroomDivisor + 1)
<1> DEFINE p == 2^Mantissa
           h == HeadroomDivisor
           f == ToFloat(n)
           g == ToFloat(f * rate)
<1>1. /\ n \in Nat /\ rate \in Nat /\ p \in Nat \ {0} /\ h \in Nat \ {0} /\ 2 * (h + 1) <= p
      /\ f \in Nat /\ g \in Nat
  BY InRange, WordFacts, EstimateFacts, Nearest
<1>2. (n - f) * p <= n
  BY InRange, RelativeError
<1>3. ((f * rate) - g) * p <= f * rate
  BY InRange, RelativeError
<1> HIDE DEF p, h, f, g
<1> DEFINE x == n * rate
           y == f * rate
<1>4. x \in Nat /\ y \in Nat
  BY <1>1
<1>5. (x - y) * p <= x
  <2>1. ((n - f) * p) * rate <= n * rate
    <3>1. (n - f) * p \in Int
      BY <1>1
    <3> QED
      BY <1>1, <1>2, <3>1, Product
  <2>2. ((n - f) * p) * rate = (x - y) * p
    BY <1>1
  <2> QED
    BY <2>1, <2>2
<1>6. (y - g) * p <= y
  BY <1>3
<1> HIDE DEF x, y
<1>7. x * (p - 1) <= y * p /\ y * (p - 1) <= g * p
  <2>1. (x - y) * p = (x * p) - (y * p) /\ x * (p - 1) = (x * p) - x /\ x * p \in Int /\ y * p \in Int
    BY <1>1, <1>4
  <2>2. (y - g) * p = (y * p) - (g * p) /\ y * (p - 1) = (y * p) - y /\ g * p \in Int
    BY <1>1, <1>4
  <2> QED
    BY <1>1, <1>4, <1>5, <1>6, <2>1, <2>2
<1> DEFINE s == p - 1
<1>8. s \in Nat
  BY <1>1
<1>9. x * (s * s) <= g * (p * p)
  <2>1. (x * s) * s <= (y * p) * s /\ (y * s) * p <= (g * p) * p
    <3>1. x * s \in Int /\ y * p \in Int /\ y * s \in Int /\ g * p \in Int
      BY <1>1, <1>4, <1>8
    <3>2. x * s <= y * p /\ y * s <= g * p
      BY <1>7
    <3> HIDE DEF s
    <3> QED
      BY <1>1, <1>8, <3>1, <3>2, Product
  <2> HIDE DEF s
  <2>2. /\ (x * s) * s = x * (s * s) /\ (y * p) * s = (y * s) * p /\ (g * p) * p = g * (p * p)
        /\ x * (s * s) \in Int /\ (y * s) * p \in Int /\ g * (p * p) \in Int
    BY <1>1, <1>4, <1>8
  <2> QED
    BY <2>1, <2>2
<1>10. (p * p) * h <= (s * s) * (h + 1)
  <2>1. s * s = ((p * p) - (2 * p)) + 1
    BY <1>1
  <2> DEFINE q == p * p
  <2>2. q \in Nat /\ (2 * (h + 1)) * p <= q
    <3>1. (2 * (h + 1)) * p <= p * p
      BY <1>1, Product
    <3> QED
      BY <1>1, <3>1
  <2>3. s * s = (q - (2 * p)) + 1
    BY <2>1
  <2> HIDE DEF q, s
  <2>4. (s * s) * (h + 1) = ((q * h) + q) - ((2 * p) * (h + 1)) + (h + 1)
    <3>1. ((q - (2 * p)) + 1) * (h + 1) = ((q * h) + q) - ((2 * p) * (h + 1)) + (h + 1)
      BY <1>1, <2>2
    <3> QED
      BY <2>3, <3>1
  <2>5. (2 * (h + 1)) * p = (2 * p) * (h + 1) /\ q * h \in Int /\ (2 * p) * (h + 1) \in Int
    BY <1>1, <2>2
  <2>6. q * h <= (s * s) * (h + 1)
    BY <1>1, <2>2, <2>4, <2>5
  <2> QED
    BY <2>6 DEF q
<1>11. (x * h) * (p * p) <= (g * (h + 1)) * (p * p)
  <2> DEFINE q == p * p
             t == s * s
  <2>1. q \in Nat /\ t \in Nat /\ x * t <= g * q /\ q * h <= t * (h + 1)
    BY <1>1, <1>8, <1>9, <1>10
  <2> HIDE DEF q, t
  <2>2. (q * h) * x <= (t * (h + 1)) * x /\ (x * t) * (h + 1) <= (g * q) * (h + 1)
    <3>1. q * h \in Int /\ t * (h + 1) \in Int /\ x * t \in Int /\ g * q \in Int /\ h + 1 \in Nat
      BY <1>1, <1>4, <2>1
    <3> QED
      BY <1>4, <2>1, <3>1, Product
  <2>3. /\ (q * h) * x = (x * h) * q /\ (t * (h + 1)) * x = (x * t) * (h + 1)
        /\ (g * q) * (h + 1) = (g * (h + 1)) * q
        /\ (x * h) * q \in Int /\ (x * t) * (h + 1) \in Int /\ (g * (h + 1)) * q \in Int
    BY <1>1, <1>4, <2>1
  <2>4. (x * h) * q <= (g * (h + 1)) * q
    BY <2>2, <2>3
  <2> QED
    BY <2>4 DEF q
<1>12. x * h <= g * (h + 1)
  <2> DEFINE a == x * h
             b == g * (h + 1)
             q == p * p
  <2>1. a \in Nat /\ b \in Nat /\ q \in Nat \ {0} /\ a * q <= b * q
    BY <1>1, <1>4, <1>11
  <2> HIDE DEF a, b, q
  <2>2. ~(b + 1 <= a)
    <3> SUFFICES ASSUME b + 1 <= a PROVE FALSE
      OBVIOUS
    <3>1. (b + 1) * q <= a * q /\ (b + 1) * q = (b * q) + q /\ a * q \in Int /\ b * q \in Int
      BY <2>1, Product
    <3> QED
      BY <2>1, <3>1
  <2>3. a <= b
    BY <2>1, <2>2
  <2> QED
    BY <2>3 DEF a, b
<1> QED
  BY <1>12 DEF x, g, f, h

(* The records kept are enough for the headroom to make up the rest, and   *)
(* where every count is exact no more than the share rounded up.           *)
LEMMA Kept ==
  ASSUME NEW n \in Word, NEW rate \in 0 .. RateUnit
  PROVE  /\ KeptRecords(n, rate) \in Nat /\ KeptRecords(n, rate) <= n
         /\ (n * rate) * HeadroomDivisor <= (KeptRecords(n, rate) * RateUnit) * (HeadroomDivisor + 1)
         /\ n <= 2^Mantissa => KeptRecords(n, rate) <= DivCeil(n * rate, RateUnit)
<1> DEFINE h == HeadroomDivisor
           u == RateUnit
           g == ToFloat(ToFloat(n) * rate)
           c == DivCeil(g, u)
           k == KeptRecords(n, rate)
           x == n * rate
<1>1. /\ n \in Nat /\ n <= MaxWord /\ MaxWord \in Nat /\ rate \in Nat /\ rate <= u
      /\ u \in Nat \ {0} /\ h \in Nat \ {0} /\ g \in Nat /\ x \in Nat
  BY InRange, WordFacts, EstimateFacts, Nearest
<1>2. c \in Nat /\ g <= c * u
  <2> HIDE DEF g, u
  <2> QED
    BY <1>1, Ceiling
<1>3. x * h <= g * (h + 1)
  BY RoundedTwice
<1>4. k \in {c, MaxWord, n} /\ k <= c /\ k <= MaxWord /\ k <= n
  <2>1. k = Min({c, MaxWord, n})
    BY DEF KeptRecords
  <2> HIDE DEF c, k
  <2>2. c \in Int /\ MaxWord \in Int /\ n \in Int
    BY <1>1, <1>2
  <2>3. /\ Min({c, MaxWord, n}) \in {c, MaxWord, n} /\ Min({c, MaxWord, n}) <= c
        /\ Min({c, MaxWord, n}) <= MaxWord /\ Min({c, MaxWord, n}) <= n
    BY <2>2, MinOfThree
  <2> QED
    BY <2>1, <2>3
<1>5. ASSUME n <= 2^Mantissa PROVE k <= DivCeil(x, u)
  <2> DEFINE d == DivCeil(x, u)
             f == ToFloat(n)
  <2>1. d \in Nat /\ x <= d * u /\ (\A j \in Nat : x <= j * u => d <= j)
    <3> HIDE DEF x, u
    <3> QED
      BY <1>1, Ceiling
  <2>2. d <= n
    <3>1. rate * n <= u * n /\ rate * n = x /\ u * n = n * u
      <4>1. rate * n <= u * n
        <5> HIDE DEF u
        <5> QED
          BY <1>1, Product
      <4> QED
        BY <1>1, <4>1
    <3> HIDE DEF x, u, d
    <3>2. x <= n * u
      BY <3>1
    <3> QED
      BY <1>1, <2>1, <3>2
  <2>3. f <= n /\ f \in Nat
    <3>1. n <= n * 2^0 /\ n \in 0 .. 2^Mantissa /\ n * 2^0 = n
      <4>1. 2^0 = 1 /\ 2^Mantissa \in Nat
        BY WordFacts
      <4> QED
        BY <1>1, <1>5, <4>1
    <3>2. ToFloat(n) <= n * 2^0
      BY <3>1, InRange, NeverBeyond
    <3> QED
      BY <3>1, <3>2, InRange
  <2>4. f * rate <= d * u /\ f * rate \in Floatable
    <3>1. f * rate <= n * rate
      <4> HIDE DEF f
      <4> QED
        BY <1>1, <2>3, Product
    <3>2. f * rate \in Nat /\ d * u \in Nat
      <4> HIDE DEF f, u, d
      <4> QED
        BY <1>1, <2>1, <2>3
    <3>3. f * rate \in Floatable
      BY InRange
    <3> HIDE DEF f, u, d
    <3> QED
      BY <1>1, <2>1, <3>1, <3>2, <3>3
  <2>5. g <= d * u
    <3>1. PICK bits \in Nat : u = 2^bits
      BY EstimateFacts
    <3>2. d \in 0 .. 2^Mantissa
      <4>1. 2^Mantissa \in Nat
        BY WordFacts
      <4> HIDE DEF d
      <4> QED
        BY <1>1, <1>5, <2>1, <2>2, <4>1
    <3> DEFINE y == f * rate
    <3>3. y \in Floatable /\ y <= d * 2^bits
      BY <2>4, <3>1
    <3> HIDE DEF y, d
    <3>4. ToFloat(y) <= d * 2^bits
      BY <3>2, <3>3, NeverBeyond
    <3> QED
      BY <3>1, <3>4 DEF y
  <2>6. c <= d
    <3> HIDE DEF g, u, d
    <3>1. \A j \in Nat : g <= j * u => DivCeil(g, u) <= j
      BY <1>1, Ceiling
    <3>2. DivCeil(g, u) <= d
      BY <2>1, <2>5, <3>1
    <3> QED
      BY <3>2
  <2> HIDE DEF c, k, d
  <2>7. k <= d /\ k \in Nat
    BY <1>1, <1>2, <1>4, <2>1, <2>6
  <2> QED
    BY <2>7 DEF d
<1> HIDE DEF c, k, g, u, h, x
<1>6. k \in Nat
  BY <1>1, <1>2, <1>4
<1>7. x * h <= (k * u) * (h + 1)
  <2>1. CASE k = c
    <3>1. g * (h + 1) <= (k * u) * (h + 1) /\ (k * u) * (h + 1) \in Int
      <4>1. k * u \in Int
        BY <1>1, <1>6
      <4> QED
        BY <1>1, <1>2, <2>1, <4>1, Product
    <3>2. g * (h + 1) \in Int /\ x * h \in Int
      BY <1>1
    <3> QED
      BY <1>3, <3>1, <3>2
  <2>2. CASE k = n
    <3>1. x <= k * u
      <4>1. rate * n <= u * n
        BY <1>1, Product
      <4>2. rate * n = x /\ u * n = k * u
        BY <1>1, <2>2 DEF x
      <4> QED
        BY <4>1, <4>2
    <3> DEFINE z == k * u
    <3>2. z \in Nat /\ x <= z
      BY <1>1, <1>6, <3>1
    <3> HIDE DEF z
    <3>3. x * h <= z * h /\ h * z <= (h + 1) * z
      BY <1>1, <3>2, Product
    <3>4. h * z = z * h /\ (h + 1) * z = z * (h + 1) /\ x * h \in Int /\ z * h \in Int /\ z * (h + 1) \in Int
      BY <1>1, <3>2
    <3>5. x * h <= z * (h + 1)
      BY <3>3, <3>4
    <3> QED
      BY <3>5 DEF z
  <2>3. k = MaxWord => k = n
    BY <1>1, <1>4, <1>6
  <2> QED
    BY <1>4, <2>1, <2>2, <2>3
<1> QED
  BY <1>4, <1>5, <1>6, <1>7 DEF k, u, h, x

(* More records, no fewer kept.                                            *)
LEMMA KeptGrows ==
  ASSUME NEW m \in Word, NEW n \in Word, NEW rate \in 0 .. RateUnit, m <= n
  PROVE  KeptRecords(m, rate) <= KeptRecords(n, rate)
<1> DEFINE f == ToFloat(m)
           g == ToFloat(n)
           c == DivCeil(ToFloat(f * rate), RateUnit)
           d == DivCeil(ToFloat(g * rate), RateUnit)
<1>1. m \in Nat /\ n \in Nat /\ rate \in Nat /\ RateUnit \in Nat \ {0} /\ MaxWord \in Nat
  BY WordFacts, EstimateFacts
<1>2. f <= g /\ f \in Nat /\ g \in Nat /\ m \in Floatable /\ n \in Floatable
  BY InRange, ToFloatGrows
<1>3. f * rate <= g * rate /\ f * rate \in Floatable /\ g * rate \in Floatable
  <2>1. f * rate \in Floatable /\ g * rate \in Floatable
    BY InRange
  <2> HIDE DEF f, g
  <2> QED
    BY <1>1, <1>2, <2>1, Product
<1>4. ToFloat(f * rate) <= ToFloat(g * rate) /\ ToFloat(f * rate) \in Nat /\ ToFloat(g * rate) \in Nat
  <2> DEFINE x == f * rate
             y == g * rate
  <2>1. x \in Floatable /\ y \in Floatable /\ x <= y
    BY <1>3
  <2> HIDE DEF x, y
  <2>2. ToFloat(x) <= ToFloat(y) /\ ToFloat(x) \in Nat /\ ToFloat(y) \in Nat
    BY <2>1, ToFloatGrows, Nearest
  <2> QED
    BY <2>2 DEF x, y
<1>5. c <= d /\ c \in Nat /\ d \in Nat
  <2> DEFINE x == ToFloat(f * rate)
             y == ToFloat(g * rate)
  <2>1. x \in Nat /\ y \in Nat /\ x <= y
    BY <1>4
  <2> HIDE DEF x, y
  <2>2. DivCeil(x, RateUnit) <= DivCeil(y, RateUnit)
    BY <1>1, <2>1, CeilingGrows
  <2>3. DivCeil(x, RateUnit) \in Nat /\ DivCeil(y, RateUnit) \in Nat
    BY <1>1, <2>1, Ceiling
  <2> QED
    BY <2>2, <2>3 DEF x, y
<1>6. KeptRecords(m, rate) = Min({c, MaxWord, m}) /\ KeptRecords(n, rate) = Min({d, MaxWord, n})
  BY DEF KeptRecords
<1> HIDE DEF c, d
<1>7. /\ Min({c, MaxWord, m}) \in {c, MaxWord, m} /\ Min({c, MaxWord, m}) <= c
      /\ Min({c, MaxWord, m}) <= MaxWord /\ Min({c, MaxWord, m}) <= m
      /\ Min({d, MaxWord, n}) \in {d, MaxWord, n}
  <2>1. c \in Int /\ d \in Int /\ MaxWord \in Int /\ m \in Int /\ n \in Int
    BY <1>1, <1>5
  <2> QED
    BY <2>1, MinOfThree
<1> QED
  BY <1>1, <1>5, <1>6, <1>7

(* The figure: what one is, and that a longer source asks for no less.     *)
LEMMA Figure ==
  ASSUME NEW bytes \in Word, NEW width \in Word \ {0}, NEW rate \in 0 .. RateUnit
  PROVE  LET kept   == KeptRecords(bytes \div width, rate)
             corpus == SaturatingMul(kept, width)
         IN  /\ bytes \div width \in Word /\ kept \in Nat /\ corpus \in Word
             /\ corpus = IF kept * width <= MaxWord THEN kept * width ELSE MaxWord
             /\ DivCeil(corpus, HeadroomDivisor) \in Nat
             /\ ExpectedBytes(bytes, width, rate) =
                  IF corpus + DivCeil(corpus, HeadroomDivisor) <= MaxWord
                    THEN corpus + DivCeil(corpus, HeadroomDivisor) ELSE MaxWord
<1> DEFINE n == bytes \div width
           kept == KeptRecords(n, rate)
           corpus == SaturatingMul(kept, width)
<1>1. bytes \in 0 .. MaxWord /\ width \in 1 .. MaxWord /\ MaxWord \in Nat /\ Word = 0 .. MaxWord
  BY WordFacts
<1>2. n \in Word
  <2>1. n \in Nat /\ bytes % width \in 0 .. width - 1 /\ bytes = (n * width) + (bytes % width)
    <3>1. bytes \in Nat /\ width \in Nat \ {0}
      BY <1>1
    <3> QED
      BY <3>1, DivMod
  <2> HIDE DEF n
  <2>2. n <= n * width
    <3>1. 1 * n <= width * n
      BY <1>1, <2>1, Product
    <3> QED
      BY <1>1, <2>1, <3>1
  <2>3. n * width \in Nat
    BY <1>1, <2>1
  <2> QED
    BY <1>1, <2>1, <2>2, <2>3
<1>3. kept \in Nat
  <2> HIDE DEF n
  <2> QED
    BY <1>2, Kept
<1>4. corpus \in Word /\ corpus = IF kept * width <= MaxWord THEN kept * width ELSE MaxWord
  <2> HIDE DEF kept
  <2>1. width \in Nat
    BY <1>1
  <2> QED
    BY <1>3, <2>1, Saturates
<1>5. ExpectedBytes(bytes, width, rate) = SaturatingAdd(corpus, DivCeil(corpus, HeadroomDivisor))
  BY DEF ExpectedBytes
<1> HIDE DEF corpus
<1>6. DivCeil(corpus, HeadroomDivisor) \in Nat /\ corpus \in Nat
  <2>1. corpus \in Nat /\ HeadroomDivisor \in Nat \ {0}
    BY <1>1, <1>4, EstimateFacts
  <2> QED
    BY <2>1, Ceiling
<1>7. SaturatingAdd(corpus, DivCeil(corpus, HeadroomDivisor)) =
        IF corpus + DivCeil(corpus, HeadroomDivisor) <= MaxWord
          THEN corpus + DivCeil(corpus, HeadroomDivisor) ELSE MaxWord
  BY <1>6, Saturates
<1> QED
  BY <1>2, <1>3, <1>4, <1>5, <1>6, <1>7 DEF corpus

LEMMA FigureGrows ==
  ASSUME NEW few \in Word, NEW bytes \in Word, NEW width \in Word \ {0}, NEW rate \in 0 .. RateUnit,
         few <= bytes
  PROVE  ExpectedBytes(few, width, rate) <= ExpectedBytes(bytes, width, rate)
<1> DEFINE k == KeptRecords(few \div width, rate)
           l == KeptRecords(bytes \div width, rate)
           b == SaturatingMul(k, width)
           c == SaturatingMul(l, width)
           i == DivCeil(b, HeadroomDivisor)
           j == DivCeil(c, HeadroomDivisor)
<1>1. /\ few \in 0 .. MaxWord /\ bytes \in 0 .. MaxWord /\ width \in 1 .. MaxWord /\ MaxWord \in Nat
      /\ Word = 0 .. MaxWord /\ HeadroomDivisor \in Nat \ {0}
  BY WordFacts, EstimateFacts
<1>2. /\ few \div width \in Word /\ k \in Nat /\ b \in Word /\ i \in Nat
      /\ b = IF k * width <= MaxWord THEN k * width ELSE MaxWord
      /\ ExpectedBytes(few, width, rate) = IF b + i <= MaxWord THEN b + i ELSE MaxWord
  BY Figure
<1>3. /\ bytes \div width \in Word /\ l \in Nat /\ c \in Word /\ j \in Nat
      /\ c = IF l * width <= MaxWord THEN l * width ELSE MaxWord
      /\ ExpectedBytes(bytes, width, rate) = IF c + j <= MaxWord THEN c + j ELSE MaxWord
  BY Figure
<1>4. k <= l
  <2>1. few \div width <= bytes \div width
    BY <1>1, DivGrows
  <2> QED
    BY <1>2, <1>3, <2>1, KeptGrows
<1> HIDE DEF k, l, b, c
<1>5. b <= c
  <2>1. k * width <= l * width /\ k * width \in Int /\ l * width \in Int
    BY <1>1, <1>2, <1>3, <1>4, Product
  <2> QED
    BY <1>1, <1>2, <1>3, <2>1
<1>6. i <= j
  BY <1>1, <1>2, <1>3, <1>5, CeilingGrows
<1> HIDE DEF i, j
<1> QED
  BY <1>1, <1>2, <1>3, <1>5, <1>6

-----------------------------------------------------------------------------
(* Requests: recursion over the first so many                              *)

(* Induction up to a number, of a set.                                     *)
LEMMA UpTo ==
  ASSUME NEW last \in Nat, NEW T, 0 \in T, \A n \in 1 .. last : n - 1 \in T => n \in T
  PROVE  \A n \in 0 .. last : n \in T
<1> DEFINE Wrong == {n \in 0 .. last : n \notin T}
<1>1. Wrong = {}
  <2> SUFFICES ASSUME Wrong # {} PROVE FALSE
    OBVIOUS
  <2>1. PICK n \in Wrong : \A m \in Wrong : n <= m
    <3>1. Wrong \in SUBSET Nat
      OBVIOUS
    <3> HIDE DEF Wrong
    <3> QED
      BY <3>1, Least
  <2>2. n \in 0 .. last /\ n \notin T /\ n # 0
    OBVIOUS
  <2>3. n \in 1 .. last /\ n - 1 \in 0 .. last /\ ~(n <= n - 1)
    BY <2>2
  <2>4. n - 1 \notin Wrong
    <3> HIDE DEF Wrong
    <3> QED
      BY <2>1, <2>3
  <2>5. n - 1 \in T
    BY <2>3, <2>4
  <2> QED
    BY <2>2, <2>3, <2>5
<1> QED
  BY <1>1

(* There is a function of any beginning and any step.                      *)
Stays(step, last, S) == \A n \in 1 .. last : \A x \in S : step[n][x] \in S
Follows(g, step, last, S, first) ==
  /\ g[0] = first /\ \A n \in 0 .. last : g[n] \in S
  /\ \A n \in 1 .. last : g[n] = step[n][g[n - 1]]

LEMMA Recursion ==
  ASSUME NEW last \in Nat, NEW S, NEW first \in S, NEW step, Stays(step, last, S)
  PROVE  \E g : Follows(g, step, last, S, first)
<1> USE DEF Stays, Follows
<1> DEFINE Solves(g, k) == /\ g[0] = first /\ \A n \in 0 .. k : g[n] \in S
                           /\ \A n \in 1 .. k : g[n] = step[n][g[n - 1]]
           T == {k \in 0 .. last : \E g : Solves(g, k)}
<1>1. 0 \in T
  <2> DEFINE g == [n \in 0 .. 0 |-> first]
  <2>1. Solves(g, 0)
    OBVIOUS
  <2> HIDE DEF g, Solves
  <2>2. \E f : Solves(f, 0)
    BY <2>1
  <2>3. 0 \in 0 .. last
    OBVIOUS
  <2> QED
    BY <2>2, <2>3
<1>2. ASSUME NEW k \in 1 .. last, k - 1 \in T PROVE k \in T
  <2>1. PICK g : Solves(g, k - 1)
    BY <1>2
  <2> DEFINE h == [n \in 0 .. k |-> IF n = k THEN step[k][g[k - 1]] ELSE g[n]]
  <2>2. k - 1 \in 0 .. k - 1 /\ k \in 0 .. k /\ 0 \in 0 .. k - 1 /\ k # 0
    OBVIOUS
  <2>3. step[k][g[k - 1]] \in S
    BY <2>1, <2>2
  <2>4. \A n \in 0 .. k : n # k => n \in 0 .. k - 1
    OBVIOUS
  <2>5. \A n \in 0 .. k : h[n] \in S
    BY <2>1, <2>3, <2>4
  <2>6. h[0] = first
    BY <2>1, <2>2
  <2>7. ASSUME NEW n \in 1 .. k PROVE h[n] = step[n][h[n - 1]]
    <3>1. n \in 0 .. k /\ n - 1 \in 0 .. k /\ n - 1 # k /\ n - 1 \in 0 .. k - 1
      OBVIOUS
    <3>2. h[n - 1] = g[n - 1]
      BY <3>1
    <3>3. CASE n = k
      <4>1. h[n] = step[k][g[k - 1]]
        BY <3>1, <3>3
      <4> QED
        BY <3>2, <3>3, <4>1
    <3>4. CASE n # k
      <4>1. n \in 1 .. k - 1
        BY <3>4
      <4>2. h[n] = g[n] /\ g[n] = step[n][g[n - 1]]
        BY <2>1, <3>1, <3>4, <4>1
      <4> QED
        BY <3>2, <4>2
    <3> QED
      BY <3>3, <3>4
  <2> HIDE DEF h
  <2>8. k \in 0 .. last
    OBVIOUS
  <2> QED
    BY <2>5, <2>6, <2>7, <2>8
<1> HIDE DEF T
<1>3. last \in T
  <2>1. last \in 0 .. last
    OBVIOUS
  <2> QED
    BY <1>1, <1>2, <2>1, UpTo
<1> QED
  BY <1>3 DEF T

(* What the first files add up to, in a word and exactly.                  *)
Passing(s) == CHOOSE pass : pass = [n \in 0 .. Len(s) |->
                                      IF n = 0 THEN 0 ELSE SaturatingAdd(pass[n - 1], s[n])]
Totals(s)  == CHOOSE total : total = [n \in 0 .. Len(s) |->
                                        IF n = 0 THEN 0 ELSE total[n - 1] + s[n]]

LEMMA Passes ==
  ASSUME NEW s \in Seq(Word)
  PROVE  /\ PassBytes(s) = Passing(s)[Len(s)] /\ Passing(s) \in [0 .. Len(s) -> Word] /\ Passing(s)[0] = 0
         /\ \A n \in 1 .. Len(s) : Passing(s)[n] = SaturatingAdd(Passing(s)[n - 1], s[n])
<1> DEFINE step == [n \in 1 .. Len(s) |-> [w \in Word |-> SaturatingAdd(w, s[n])]]
           Solves(g) == g = [n \in 0 .. Len(s) |-> IF n = 0 THEN 0 ELSE SaturatingAdd(g[n - 1], s[n])]
<1>1. Len(s) \in Nat /\ (\A n \in 1 .. Len(s) : s[n] \in Word) /\ Word \subseteq Nat /\ 0 \in Word
  BY WordFacts
<1>2. \A a, b \in Nat : SaturatingAdd(a, b) \in Word
  BY Saturates
<1>3. \A n \in 1 .. Len(s) : \A w \in Word : step[n][w] = SaturatingAdd(w, s[n]) /\ step[n][w] \in Word
  BY <1>1, <1>2
<1>4. PICK h : /\ h[0] = 0 /\ \A n \in 0 .. Len(s) : h[n] \in Word
               /\ \A n \in 1 .. Len(s) : h[n] = step[n][h[n - 1]]
  <2> HIDE DEF step
  <2>1. \A n \in 1 .. Len(s) : \A w \in Word : step[n][w] \in Word
    BY <1>3
  <2>2. Len(s) \in Nat /\ 0 \in Word /\ Stays(step, Len(s), Word)
    BY <1>1, <2>1 DEF Stays
  <2>3. \E f : Follows(f, step, Len(s), Word, 0)
    BY <2>2, Recursion
  <2> QED
    BY <2>3 DEF Follows
<1> DEFINE g == [n \in 0 .. Len(s) |-> h[n]]
<1>6. Solves(g)
  <2>1. ASSUME NEW n \in 0 .. Len(s) PROVE g[n] = IF n = 0 THEN 0 ELSE SaturatingAdd(g[n - 1], s[n])
    <3>1. CASE n = 0
      BY <1>4, <3>1
    <3>2. CASE n # 0
      <4>1. n \in 1 .. Len(s) /\ n - 1 \in 0 .. Len(s)
        BY <1>1, <3>2
      <4>2. g[n] = h[n] /\ g[n - 1] = h[n - 1] /\ h[n - 1] \in Word
        BY <1>4, <4>1
      <4>3. h[n] = SaturatingAdd(h[n - 1], s[n])
        <5> HIDE DEF step
        <5> QED
          BY <1>3, <1>4, <4>1, <4>2
      <4> QED
        BY <3>2, <4>2, <4>3
    <3> QED
      BY <3>1, <3>2
  <2>2. g = [n \in 0 .. Len(s) |-> g[n]]
    OBVIOUS
  <2> HIDE DEF g
  <2> QED
    BY <2>1, <2>2
<1>7. Solves(Passing(s))
  <2>1. Passing(s) = CHOOSE f : Solves(f)
    BY Zenon DEF Passing
  <2>2. \E f : Solves(f)
    BY <1>6
  <2> HIDE DEF Solves
  <2> QED
    BY <2>1, <2>2, Zenon
<1>8. PassBytes(s) = Passing(s)[Len(s)]
  BY Zenon DEF PassBytes, Passing
<1> DEFINE f == Passing(s)
<1>9. f = [n \in 0 .. Len(s) |-> IF n = 0 THEN 0 ELSE SaturatingAdd(f[n - 1], s[n])]
  BY <1>7
<1> HIDE DEF f
<1>10. f[0] = 0 /\ \A n \in 1 .. Len(s) : f[n] = SaturatingAdd(f[n - 1], s[n])
  BY <1>1, <1>9
<1> DEFINE T == {n \in 0 .. Len(s) : f[n] \in Word}
<1>11. 0 \in T
  BY <1>1, <1>10
<1>12. ASSUME NEW n \in 1 .. Len(s), n - 1 \in T PROVE n \in T
  <2>1. f[n - 1] \in Nat /\ s[n] \in Nat /\ f[n] = SaturatingAdd(f[n - 1], s[n])
    BY <1>1, <1>10, <1>12
  <2>2. f[n] \in Word
    BY <1>2, <2>1
  <2> QED
    BY <1>1, <2>2
<1>13. \A n \in 0 .. Len(s) : n \in T
  <2> HIDE DEF T
  <2> QED
    BY <1>1, <1>11, <1>12, UpTo
<1>14. f \in [0 .. Len(s) -> Word]
  <2>1. \A n \in 0 .. Len(s) : f[n] \in Word
    BY <1>13
  <2>2. f = [n \in 0 .. Len(s) |-> f[n]]
    BY <1>9
  <2> QED
    BY <2>1, <2>2
<1> QED
  BY <1>8, <1>10, <1>14 DEF f

LEMMA Adds ==
  ASSUME NEW s \in Seq(Word)
  PROVE  /\ Total(s) = Totals(s)[Len(s)] /\ Totals(s) \in [0 .. Len(s) -> Nat] /\ Totals(s)[0] = 0
         /\ \A n \in 1 .. Len(s) : Totals(s)[n] = Totals(s)[n - 1] + s[n]
<1> DEFINE step == [n \in 1 .. Len(s) |-> [w \in Nat |-> w + s[n]]]
           Solves(g) == g = [n \in 0 .. Len(s) |-> IF n = 0 THEN 0 ELSE g[n - 1] + s[n]]
<1>1. Len(s) \in Nat /\ (\A n \in 1 .. Len(s) : s[n] \in Nat)
  BY WordFacts
<1>3. \A n \in 1 .. Len(s) : \A w \in Nat : step[n][w] = w + s[n] /\ step[n][w] \in Nat
  BY <1>1
<1>4. PICK h : /\ h[0] = 0 /\ \A n \in 0 .. Len(s) : h[n] \in Nat
               /\ \A n \in 1 .. Len(s) : h[n] = step[n][h[n - 1]]
  <2> HIDE DEF step
  <2>1. \A n \in 1 .. Len(s) : \A w \in Nat : step[n][w] \in Nat
    BY <1>3
  <2>2. Len(s) \in Nat /\ 0 \in Nat /\ Stays(step, Len(s), Nat)
    BY <1>1, <2>1 DEF Stays
  <2>3. \E f : Follows(f, step, Len(s), Nat, 0)
    BY <2>2, Recursion
  <2> QED
    BY <2>3 DEF Follows
<1> DEFINE g == [n \in 0 .. Len(s) |-> h[n]]
<1>6. Solves(g)
  <2>1. ASSUME NEW n \in 0 .. Len(s) PROVE g[n] = IF n = 0 THEN 0 ELSE g[n - 1] + s[n]
    <3>1. CASE n = 0
      BY <1>4, <3>1
    <3>2. CASE n # 0
      <4>1. n \in 1 .. Len(s) /\ n - 1 \in 0 .. Len(s)
        BY <1>1, <3>2
      <4>2. g[n] = h[n] /\ g[n - 1] = h[n - 1] /\ h[n - 1] \in Nat
        BY <1>4, <4>1
      <4>3. h[n] = h[n - 1] + s[n]
        <5> HIDE DEF step
        <5> QED
          BY <1>3, <1>4, <4>1, <4>2
      <4> QED
        BY <3>2, <4>2, <4>3
    <3> QED
      BY <3>1, <3>2
  <2>2. g = [n \in 0 .. Len(s) |-> g[n]]
    OBVIOUS
  <2> HIDE DEF g
  <2> QED
    BY <2>1, <2>2
<1>7. Solves(Totals(s))
  <2>1. Totals(s) = CHOOSE f : Solves(f)
    BY Zenon DEF Totals
  <2>2. \E f : Solves(f)
    BY <1>6
  <2> HIDE DEF Solves
  <2> QED
    BY <2>1, <2>2, Zenon
<1>8. Total(s) = Totals(s)[Len(s)]
  BY Zenon DEF Total, Totals
<1> DEFINE f == Totals(s)
<1>9. f = [n \in 0 .. Len(s) |-> IF n = 0 THEN 0 ELSE f[n - 1] + s[n]]
  BY <1>7
<1> HIDE DEF f
<1>10. f[0] = 0 /\ \A n \in 1 .. Len(s) : f[n] = f[n - 1] + s[n]
  BY <1>1, <1>9
<1> DEFINE T == {n \in 0 .. Len(s) : f[n] \in Nat}
<1>11. 0 \in T
  BY <1>1, <1>10
<1>12. ASSUME NEW n \in 1 .. Len(s), n - 1 \in T PROVE n \in T
  <2>1. f[n - 1] \in Nat /\ s[n] \in Nat /\ f[n] = f[n - 1] + s[n]
    BY <1>1, <1>10, <1>12
  <2> QED
    BY <1>1, <2>1
<1>13. \A n \in 0 .. Len(s) : n \in T
  <2> HIDE DEF T
  <2> QED
    BY <1>1, <1>11, <1>12, UpTo
<1>14. f \in [0 .. Len(s) -> Nat]
  <2>1. \A n \in 0 .. Len(s) : f[n] \in Nat
    BY <1>13
  <2>2. f = [n \in 0 .. Len(s) |-> f[n]]
    BY <1>9
  <2> QED
    BY <2>1, <2>2
<1> QED
  BY <1>8, <1>10, <1>14 DEF f

(* Where the whole fits in a word nothing was cut.                         *)
LEMMA NothingCut ==
  ASSUME NEW s \in Seq(Word), Total(s) \in Word
  PROVE  PassBytes(s) = Total(s)
<1> DEFINE T == {n \in 0 .. Len(s) : Totals(s)[n] <= MaxWord => Passing(s)[n] = Totals(s)[n]}
<1>1. /\ Len(s) \in Nat /\ MaxWord \in Nat /\ Word = 0 .. MaxWord /\ \A n \in 1 .. Len(s) : s[n] \in Nat
  BY WordFacts
<1>2. 0 \in T
  BY <1>1, Passes, Adds
<1>3. ASSUME NEW n \in 1 .. Len(s), n - 1 \in T PROVE n \in T
  <2> SUFFICES ASSUME Totals(s)[n] <= MaxWord PROVE Passing(s)[n] = Totals(s)[n]
    BY <1>1
  <2>1. /\ n - 1 \in 0 .. Len(s) /\ Totals(s)[n - 1] \in Nat /\ s[n] \in Nat
        /\ Totals(s)[n] = Totals(s)[n - 1] + s[n]
    <3>1. n - 1 \in 0 .. Len(s) /\ s[n] \in Nat
      BY <1>1
    <3>2. Totals(s) \in [0 .. Len(s) -> Nat] /\ Totals(s)[n] = Totals(s)[n - 1] + s[n]
      BY Adds
    <3> QED
      BY <3>1, <3>2
  <2>2. Passing(s)[n - 1] = Totals(s)[n - 1]
    BY <1>1, <1>3, <2>1
  <2>3. Passing(s)[n] = SaturatingAdd(Totals(s)[n - 1], s[n])
    BY <2>2, Passes
  <2> QED
    BY <2>1, <2>3, Saturates
<1>4. \A n \in 0 .. Len(s) : n \in T
  <2> HIDE DEF T
  <2> QED
    BY <1>1, <1>2, <1>3, UpTo
<1>5. Len(s) \in T
  BY <1>1, <1>4
<1> QED
  BY <1>1, <1>5, Passes, Adds

(* One more file never makes it less.                                      *)
LEMMA PassGrows ==
  ASSUME NEW s \in Seq(Word), s # <<>>
  PROVE  /\ PassBytes(Front(s)) \in Word /\ PassBytes(s) \in Word
         /\ PassBytes(Front(s)) <= PassBytes(s)
<1> DEFINE t == Front(s)
           k == Len(s) - 1
<1>1. Len(s) \in Nat \ {0} /\ k \in Nat /\ k + 1 = Len(s)
  <2>1. Len(s) \in Nat /\ Len(s) # 0
    BY SMT
  <2> QED
    BY <2>1
<1>2. t \in Seq(Word) /\ Len(t) = k /\ \A n \in 1 .. k : t[n] = s[n]
  <2>1. t = SubSeq(s, 1, k)
    BY DEF Front
  <2> HIDE DEF t
  <2>2. 1 \in 1 .. Len(s) + 1 /\ k \in 1 - 1 .. Len(s)
    BY <1>1
  <2>3. /\ SubSeq(s, 1, k) \in Seq(Word)
        /\ Len(SubSeq(s, 1, k)) = IF 1 <= k THEN k - 1 + 1 ELSE 0
        /\ \A i \in 1 .. k - 1 + 1 : SubSeq(s, 1, k)[i] = s[1 + i - 1]
    BY <2>2, SubSeqProperties
  <2>4. \A i \in 1 .. k : 1 + i - 1 = i /\ i \in 1 .. k - 1 + 1
    BY <1>1
  <2> QED
    BY <1>1, <2>1, <2>3, <2>4
<1> HIDE DEF t, k
<1>3. /\ PassBytes(s) = Passing(s)[Len(s)] /\ Passing(s) \in [0 .. Len(s) -> Word] /\ Passing(s)[0] = 0
      /\ \A n \in 1 .. Len(s) : Passing(s)[n] = SaturatingAdd(Passing(s)[n - 1], s[n])
  BY Passes
<1>4. /\ PassBytes(t) = Passing(t)[k] /\ Passing(t) \in [0 .. k -> Word] /\ Passing(t)[0] = 0
      /\ \A n \in 1 .. k : Passing(t)[n] = SaturatingAdd(Passing(t)[n - 1], t[n])
  BY <1>2, Passes
<1> DEFINE T == {n \in 0 .. k : Passing(t)[n] = Passing(s)[n]}
<1>5. 0 \in T
  BY <1>1, <1>3, <1>4
<1>6. ASSUME NEW n \in 1 .. k, n - 1 \in T PROVE n \in T
  <2>1. n \in 1 .. Len(s) /\ n \in 0 .. k
    BY <1>1
  <2>2. Passing(t)[n - 1] = Passing(s)[n - 1] /\ t[n] = s[n]
    BY <1>2, <1>6
  <2>3. Passing(t)[n] = Passing(s)[n]
    BY <1>3, <1>4, <2>1, <2>2, Zenon
  <2> QED
    BY <2>1, <2>3
<1>7. \A n \in 0 .. k : n \in T
  <2> HIDE DEF T
  <2> QED
    BY <1>1, <1>5, <1>6, UpTo
<1>8. PassBytes(t) = Passing(s)[k]
  <2>1. k \in 0 .. k
    BY <1>1
  <2>2. k \in T
    BY <1>7, <2>1
  <2> QED
    BY <1>4, <2>2
<1>9. Passing(s)[k] \in Word /\ s[Len(s)] \in Word /\ Word = 0 .. MaxWord /\ MaxWord \in Nat
  BY <1>1, <1>3, WordFacts
<1>10. PassBytes(s) = SaturatingAdd(Passing(s)[k], s[Len(s)])
  <2>1. Len(s) \in 1 .. Len(s) /\ Len(s) - 1 = k
    BY <1>1
  <2> QED
    BY <1>3, <2>1
<1> DEFINE a == Passing(s)[k]
           b == s[Len(s)]
<1>11. a \in Nat /\ b \in Nat /\ a <= MaxWord
  BY <1>9
<1> HIDE DEF a, b
<1>12. SaturatingAdd(a, b) \in Word /\ a <= SaturatingAdd(a, b)
  <2>1. SaturatingAdd(a, b) = (IF a + b <= MaxWord THEN a + b ELSE MaxWord) /\ SaturatingAdd(a, b) \in Word
    BY <1>11, Saturates
  <2> QED
    BY <1>9, <1>11, <2>1
<1> QED
  BY <1>8, <1>9, <1>10, <1>12 DEF a, b, t

-----------------------------------------------------------------------------
(* Requests: from the command line to the first record                     *)

Transforms == {"sample", "fuzz", "quantise"}
Live == {"shape", "config", "stage", "metadata", "measure", "draw", "started"}

(* The shape is the one asked for, and its width is a word.                *)
Shaped ==
  phase \in Live \ {"shape"} =>
    /\ shape = WithEncoding(asked.inputs, asked.outputs, "float32")
    /\ ShapeAccepted(shape)

(* The stages so far were validated, in order and each by its own rules.   *)
Validated ==
  phase \in Live =>
    /\ kinds \in Seq(Transforms) /\ Len(kinds) <= Len(asked.stages)
    /\ \A i \in 1 .. Len(kinds) : kinds[i] = asked.stages[i].transform /\ StageAccepted(asked.stages[i])
    /\ phase \in {"shape", "config"} => kinds = <<>>
    /\ phase = "config" => asked.command = "pipeline"
    /\ phase = "stage" => Len(kinds) < Len(asked.stages)
    /\ phase \in {"metadata", "measure", "draw", "started"} => Len(kinds) = Len(asked.stages) /\ kinds # <<>>

Pair(i) == <<asked.metadata[i].key, asked.metadata[i].value>>

(* The metadata so far, each pair under a key of its own.                  *)
Noted ==
  phase \in Live =>
    /\ IsFiniteSet(recorded) /\ Cardinality(recorded) <= Len(asked.metadata)
    /\ recorded = {Pair(i) : i \in 1 .. Cardinality(recorded)}
    /\ \A i, j \in 1 .. Cardinality(recorded) : Pair(i)[1] = Pair(j)[1] => i = j
    /\ phase \in {"measure", "draw", "started"} => Cardinality(recorded) = Len(asked.metadata)

(* Only a sampler measures, and its figure is of what it measured.         *)
Estimated ==
  /\ phase = "measure" => asked.command = "sample"
  /\ estimate # None =>
       /\ phase \in {"draw", "started"} /\ asked.command = "sample" /\ lengths \in Lengths
       /\ estimate = ExpectedBytes(PassBytes(lengths), shape.width, asked.stages[1].rate)

(* The seeds of a run that has started.                                    *)
SeedsGiven == IF asked.command = "pipeline" THEN Plan(asked.stages, seed) ELSE <<seed>>

Drawn ==
  phase = "started" =>
    /\ IF asked.command = "quantise" THEN seed = None ELSE seed \in Word
    /\ records = [i \in DOMAIN SeedsGiven |-> TransformRecord(asked.stages[i], SeedsGiven[i])]

RequestInv ==
  /\ asked \in Asked /\ phase \in Live \cup {"refused"}
  /\ Shaped /\ Validated /\ Noted /\ Estimated /\ Drawn

LEMMA AskedFor ==
  ASSUME asked \in Asked
  PROVE  IsCommandLine(asked)
BY AskedAssumption

LEMMA RequestInit == RequestsInit => RequestInv
<1> SUFFICES ASSUME RequestsInit PROVE RequestInv
  OBVIOUS
<1>1. /\ asked \in Asked /\ phase = "shape" /\ kinds = <<>> /\ recorded = {} /\ estimate = None
  BY DEF RequestsInit
<1>2. IsCommandLine(asked)
  BY <1>1, AskedFor
<1>3. Len(asked.stages) \in Nat /\ Len(asked.metadata) \in Nat
  BY <1>2, WordFacts DEF IsCommandLine
<1>4. Shaped
  BY <1>1 DEF Shaped
<1>5. Validated
  BY <1>1, <1>3 DEF Validated
<1>6. Noted
  <2>1. IsFiniteSet(recorded) /\ Cardinality(recorded) = 0
    BY <1>1, FS_EmptySet
  <2> QED
    BY <1>1, <1>3, <2>1 DEF Noted
<1>7. Estimated
  BY <1>1 DEF Estimated
<1>8. Drawn
  BY <1>1 DEF Drawn
<1> QED
  BY <1>1, <1>4, <1>5, <1>6, <1>7, <1>8 DEF RequestInv, Live

(* A refusal leaves nothing to say, and a step of something else nothing   *)
(* new.                                                                    *)
LEMMA Refused ==
  ASSUME RequestInv, Refuse, UNCHANGED <<asked, started>>,
         phase \in {"shape", "config", "stage", "metadata"}
  PROVE  RequestInv'
<1>1. /\ phase' = "refused" /\ asked' = asked /\ estimate' = estimate
  BY DEF Refuse, started
<1>2. estimate = None
  BY DEF RequestInv, Estimated
<1>3. Shaped' /\ Validated' /\ Noted' /\ Drawn'
  BY <1>1 DEF Shaped, Validated, Noted, Drawn, Live
<1>4. Estimated'
  BY <1>1, <1>2 DEF Estimated
<1> QED
  BY <1>1, <1>3, <1>4 DEF RequestInv

LEMMA ShapeStep ==
  ASSUME RequestInv, NewShape
  PROVE  RequestInv'
<1> DEFINE built == WithEncoding(asked.inputs, asked.outputs, "float32")
<1>1. phase = "shape" /\ UNCHANGED <<asked, started>>
  BY DEF NewShape
<1>2. CASE ~ShapeAccepted(built)
  <2>1. Refuse
    BY <1>2 DEF NewShape
  <2> QED
    BY <1>1, <2>1, Refused
<1>3. CASE ShapeAccepted(built)
  <2>1. /\ shape' = built /\ kinds' = kinds /\ recorded' = recorded /\ asked' = asked
        /\ phase' = IF asked.command = "pipeline" THEN "config" ELSE "stage"
        /\ estimate' = estimate
    BY <1>3 DEF NewShape, started
  <2>2. kinds = <<>> /\ Validated /\ Noted /\ estimate = None /\ IsCommandLine(asked)
    BY <1>1, AskedFor DEF RequestInv, Validated, Estimated, Live
  <2>3. Shaped'
    BY <1>3, <2>1 DEF Shaped
  <2>4. Validated'
    <3>1. kinds' = <<>> /\ Len(kinds') = 0 /\ Len(asked.stages) \in Nat
      BY <2>1, <2>2, WordFacts DEF IsCommandLine
    <3>2. asked.command # "pipeline" => Len(asked.stages) = 1
      BY <2>2 DEF IsCommandLine
    <3>3. phase' \in {"config", "stage"} /\ (phase' = "config" => asked.command = "pipeline")
          /\ (phase' = "stage" => Len(asked.stages) = 1)
      BY <2>1, <3>2
    <3>4. kinds' \in Seq(Transforms) /\ Len(kinds') <= Len(asked'.stages)
      BY <2>1, <3>1
    <3>5. \A i \in 1 .. Len(kinds') : kinds'[i] = asked'.stages[i].transform /\ StageAccepted(asked'.stages[i])
      BY <3>1
    <3>6. /\ phase' = "config" => asked'.command = "pipeline"
          /\ phase' = "stage" => Len(kinds') < Len(asked'.stages)
          /\ phase' \notin {"metadata", "measure", "draw", "started"}
      BY <2>1, <3>1, <3>3
    <3> HIDE DEF built
    <3> QED
      BY <3>1, <3>4, <3>5, <3>6 DEF Validated, StageAccepted, PolicyAccepted
  <2>5. Noted'
    <3>1. phase \in Live /\ phase' \notin {"measure", "draw", "started"}
      BY <1>1, <2>1 DEF Live
    <3> QED
      BY <2>1, <2>2, <3>1 DEF Noted, Pair
  <2>6. Estimated'
    BY <2>1, <2>2 DEF Estimated
  <2>7. Drawn'
    BY <2>1 DEF Drawn
  <2> QED
    BY <2>1, <2>3, <2>4, <2>5, <2>6, <2>7 DEF RequestInv, Live
<1> QED
  BY <1>2, <1>3

LEMMA ConfigStep ==
  ASSUME RequestInv, LoadConfig
  PROVE  RequestInv'
<1>1. phase = "config" /\ UNCHANGED <<asked, started>>
  BY DEF LoadConfig
<1>2. CASE ~(asked.readable /\ ConfigAccepted)
  <2>1. Refuse
    BY <1>2 DEF LoadConfig
  <2> QED
    BY <1>1, <2>1, Refused
<1>3. CASE asked.readable /\ ConfigAccepted
  <2>1. /\ shape' = shape /\ kinds' = kinds /\ recorded' = recorded /\ asked' = asked
        /\ phase' = "stage" /\ estimate' = estimate
    BY <1>3 DEF LoadConfig, started, checked
  <2>2. kinds = <<>> /\ Validated /\ Noted /\ Shaped /\ estimate = None /\ IsCommandLine(asked)
    BY <1>1, AskedFor DEF RequestInv, Validated, Estimated, Live
  <2>3. Shaped'
    BY <1>1, <2>1, <2>2 DEF Shaped, Live
  <2>4. Validated'
    <3>1. kinds' = <<>> /\ Len(kinds') = 0 /\ Len(asked.stages) \in Nat
      BY <2>1, <2>2, WordFacts DEF IsCommandLine
    <3>2. Len(asked.stages) > 0
      BY <1>3 DEF ConfigAccepted
    <3> QED
      BY <2>1, <3>1, <3>2 DEF Validated
  <2>5. Noted'
    <3>1. phase \in Live
      BY <1>1 DEF Live
    <3> QED
      BY <2>1, <2>2, <3>1 DEF Noted, Pair
  <2>6. Estimated'
    BY <2>1, <2>2 DEF Estimated
  <2>7. Drawn'
    BY <2>1 DEF Drawn
  <2> QED
    BY <2>1, <2>3, <2>4, <2>5, <2>6, <2>7 DEF RequestInv, Live
<1> QED
  BY <1>2, <1>3

LEMMA StageStep ==
  ASSUME RequestInv, PlanStage
  PROVE  RequestInv'
<1> DEFINE next == Len(kinds) + 1
           stage == asked.stages[next]
<1>1. phase = "stage" /\ UNCHANGED <<asked, started>>
  BY DEF PlanStage
<1>2. CASE ~StageAccepted(stage)
  <2>1. Refuse
    BY <1>2 DEF PlanStage
  <2> QED
    BY <1>1, <2>1, Refused
<1>3. CASE StageAccepted(stage)
  <2>1. /\ kinds' = Append(kinds, stage.transform) /\ shape' = shape /\ recorded' = recorded
        /\ phase' = IF Len(kinds') = Len(asked.stages) THEN "metadata" ELSE "stage"
        /\ asked' = asked /\ estimate' = estimate
    BY <1>3 DEF PlanStage, started
  <2>2. /\ kinds \in Seq(Transforms) /\ Len(kinds) < Len(asked.stages)
        /\ \A i \in 1 .. Len(kinds) : kinds[i] = asked.stages[i].transform /\ StageAccepted(asked.stages[i])
        /\ Noted /\ Shaped /\ estimate = None /\ IsCommandLine(asked)
    BY <1>1, AskedFor DEF RequestInv, Validated, Estimated, Live
  <2>3. Len(asked.stages) \in Nat /\ Len(kinds) \in Nat /\ next \in 1 .. Len(asked.stages) /\ next = Len(kinds) + 1
    BY <2>2, WordFacts DEF IsCommandLine
  <2>4. stage.transform \in Transforms
    BY <2>2, <2>3 DEF IsCommandLine, IsStage, Transforms
  <2>5. Shaped'
    BY <1>1, <2>1, <2>2 DEF Shaped, Live
  <2>6. Validated'
    <3>1. kinds' \in Seq(Transforms) /\ Len(kinds') = next /\ kinds' # <<>>
      BY <2>1, <2>2, <2>3, <2>4
    <3>2. ASSUME NEW i \in 1 .. next
          PROVE  kinds'[i] = asked.stages[i].transform /\ StageAccepted(asked.stages[i])
      <4>1. CASE i = next
        <5>1. kinds'[next] = stage.transform
          BY <2>1, <2>2, <2>4
        <5> QED
          BY <1>3, <4>1, <5>1
      <4>2. CASE i # next
        <5>1. i \in 1 .. Len(kinds)
          BY <2>3, <4>2
        <5>2. kinds'[i] = kinds[i]
          BY <2>1, <2>2, <2>4, <5>1
        <5> QED
          BY <2>2, <5>1, <5>2
      <4> QED
        BY <4>1, <4>2
    <3>3. phase' \in {"stage", "metadata"} /\ (phase' = "metadata" => Len(kinds') = Len(asked.stages))
          /\ (phase' = "stage" => Len(kinds') < Len(asked.stages))
      BY <2>1, <2>3, <3>1
    <3> HIDE DEF next, stage
    <3>4. \A i \in 1 .. Len(kinds') : kinds'[i] = asked'.stages[i].transform /\ StageAccepted(asked'.stages[i])
      BY <2>1, <3>1, <3>2
    <3>5. Len(kinds') <= Len(asked'.stages)
      BY <2>1, <2>3, <3>1
    <3> QED
      BY <2>1, <3>1, <3>3, <3>4, <3>5 DEF Validated, StageAccepted, PolicyAccepted
  <2>7. Noted'
    <3>1. phase \in Live /\ phase' \notin {"measure", "draw", "started"}
      BY <1>1, <2>1 DEF Live
    <3> QED
      BY <2>1, <2>2, <3>1 DEF Noted, Pair
  <2>8. Estimated'
    BY <2>1, <2>2 DEF Estimated
  <2>9. Drawn'
    BY <2>1 DEF Drawn
  <2> QED
    BY <2>1, <2>5, <2>6, <2>7, <2>8, <2>9 DEF RequestInv, Live
<1> QED
  BY <1>2, <1>3

LEMMA MetadataStep ==
  ASSUME RequestInv, InsertMetadata
  PROVE  RequestInv'
<1> DEFINE count == Cardinality(recorded)
           entry == asked.metadata[count + 1]
<1>1. phase = "metadata" /\ count < Len(asked.metadata) /\ UNCHANGED <<asked, started>>
  BY DEF InsertMetadata
<1>2. CASE ~(entry.fault = None /\ ~Recorded(entry.key))
  <2>1. Refuse
    BY <1>2 DEF InsertMetadata
  <2> QED
    BY <1>1, <2>1, Refused
<1>3. CASE entry.fault = None /\ ~Recorded(entry.key)
  <2>1. /\ recorded' = recorded \cup {Pair(count + 1)} /\ phase' = phase /\ shape' = shape /\ kinds' = kinds
        /\ asked' = asked /\ estimate' = estimate
    BY <1>3 DEF InsertMetadata, started, Pair
  <2>2. Validated /\ Shaped /\ Noted /\ estimate = None /\ IsCommandLine(asked)
    BY <1>1, AskedFor DEF RequestInv, Estimated
  <2>3. /\ IsFiniteSet(recorded) /\ count <= Len(asked.metadata)
        /\ recorded = {Pair(i) : i \in 1 .. count}
        /\ \A i, j \in 1 .. count : Pair(i)[1] = Pair(j)[1] => i = j
    BY <1>1, <2>2 DEF Noted, Live
  <2>4. count \in Nat /\ Len(asked.metadata) \in Nat
    BY <2>2, <2>3, FS_CardinalityType DEF IsCommandLine
  <2>5. \A i \in 1 .. count : Pair(i)[1] # Pair(count + 1)[1]
    <3>1. \A i \in 1 .. count : Pair(i) \in recorded
      BY <2>3
    <3>2. Pair(count + 1)[1] = entry.key
      BY DEF Pair
    <3> QED
      BY <1>3, <3>1, <3>2 DEF Recorded
  <2>6. Pair(count + 1) \notin recorded
    BY <2>3, <2>5
  <2>7. IsFiniteSet(recorded') /\ Cardinality(recorded') = count + 1
    BY <2>1, <2>3, <2>6, FS_AddElement
  <2> HIDE DEF count, entry
  <2>8. Noted'
    <3>1. \A i \in Nat : Pair(i)' = Pair(i)
      BY <2>1 DEF Pair
    <3>2. \A i \in 1 .. count + 1 : i \in 1 .. count \/ i = count + 1
      BY <2>4
    <3>3. recorded' = {Pair(i) : i \in 1 .. count + 1}
      <4>1. 1 .. count + 1 = (1 .. count) \cup {count + 1}
        BY <2>4
      <4> QED
        BY <2>1, <2>3, <4>1
    <3>4. \A i, j \in 1 .. count + 1 : Pair(i)[1] = Pair(j)[1] => i = j
      BY <2>3, <2>5, <3>2
    <3>5. count + 1 <= Len(asked.metadata)
      BY <1>1, <2>4
    <3>6. phase' \notin {"measure", "draw", "started"}
      BY <1>1, <2>1
    <3>7. recorded' = {Pair(i)' : i \in 1 .. count + 1}
          /\ \A i, j \in 1 .. count + 1 : Pair(i)'[1] = Pair(j)'[1] => i = j
      BY <3>3, <3>4, <2>1 DEF Pair
    <3> QED
      BY <2>1, <2>7, <3>5, <3>6, <3>7 DEF Noted
  <2>9. Shaped' /\ Validated'
    BY <2>1, <2>2 DEF Shaped, Validated, ShapeAccepted, StageAccepted, PolicyAccepted
  <2>10. Estimated' /\ Drawn'
    BY <1>1, <2>1, <2>2 DEF Estimated, Drawn
  <2> QED
    BY <1>1, <2>1, <2>8, <2>9, <2>10 DEF RequestInv
<1> QED
  BY <1>2, <1>3

LEMMA AcceptStep ==
  ASSUME RequestInv, Accept
  PROVE  RequestInv'
<1>1. /\ phase = "metadata" /\ Cardinality(recorded) = Len(asked.metadata)
      /\ phase' = IF asked.command = "sample" THEN "measure" ELSE "draw"
      /\ asked' = asked /\ shape' = shape /\ kinds' = kinds /\ recorded' = recorded /\ estimate' = estimate
  BY DEF Accept, checked, started
<1>2. Validated /\ Shaped /\ Noted /\ estimate = None
  BY <1>1 DEF RequestInv, Estimated
<1>3. Shaped'
  BY <1>1, <1>2 DEF Shaped, ShapeAccepted, Live
<1>4. Validated'
  <2>1. phase' \in {"measure", "draw"}
    BY <1>1
  <2>2. /\ kinds \in Seq(Transforms) /\ Len(kinds) <= Len(asked.stages)
        /\ \A i \in 1 .. Len(kinds) : kinds[i] = asked.stages[i].transform /\ StageAccepted(asked.stages[i])
        /\ Len(kinds) = Len(asked.stages) /\ kinds # <<>>
    BY <1>1, <1>2 DEF Validated, Live
  <2> QED
    BY <1>1, <2>1, <2>2 DEF Validated, StageAccepted, PolicyAccepted
<1>5. Noted'
  BY <1>1, <1>2 DEF Noted, Pair, Live
<1>6. Estimated' /\ Drawn'
  BY <1>1, <1>2 DEF Estimated, Drawn
<1> QED
  BY <1>1, <1>3, <1>4, <1>5, <1>6 DEF RequestInv, Live

(* What is checked stays so when a run has begun.                          *)
LEMMA StaysChecked ==
  ASSUME RequestInv, phase \in {"measure", "draw"}, phase' \in {"draw", "started"}, UNCHANGED <<asked, checked>>
  PROVE  Shaped' /\ Validated' /\ Noted'
<1>1. asked' = asked /\ shape' = shape /\ kinds' = kinds /\ recorded' = recorded
  BY DEF checked
<1>2. Validated /\ Shaped /\ Noted
  BY DEF RequestInv
<1>3. Shaped'
  BY <1>1, <1>2 DEF Shaped, ShapeAccepted, Live
<1>4. Validated'
  <2>1. /\ kinds \in Seq(Transforms) /\ Len(kinds) <= Len(asked.stages)
        /\ \A i \in 1 .. Len(kinds) : kinds[i] = asked.stages[i].transform /\ StageAccepted(asked.stages[i])
        /\ Len(kinds) = Len(asked.stages) /\ kinds # <<>>
    BY <1>1, <1>2 DEF Validated, Live
  <2> QED
    BY <1>1, <2>1 DEF Validated, StageAccepted, PolicyAccepted
<1>5. Noted'
  BY <1>1, <1>2 DEF Noted, Pair, Live
<1> QED
  BY <1>3, <1>4, <1>5

LEMMA MeasureStep ==
  ASSUME RequestInv, Measure
  PROVE  RequestInv'
<1>1. /\ phase = "measure" /\ phase' = "draw" /\ UNCHANGED <<asked, checked>> /\ asked' = asked /\ shape' = shape
      /\ lengths' \in Lengths
      /\ estimate' = ExpectedBytes(PassBytes(lengths'), shape.width, asked.stages[1].rate)
  BY DEF Measure, checked
<1>2. Shaped' /\ Validated' /\ Noted'
  BY <1>1, StaysChecked
<1>3. asked.command = "sample"
  BY <1>1 DEF RequestInv, Estimated
<1> DEFINE figure(measured, built, stages) == ExpectedBytes(PassBytes(measured), built.width, stages[1].rate)
<1>4. estimate' = figure(lengths', shape', asked'.stages)
  BY <1>1
<1>5. figure(lengths', shape', asked'.stages) = figure(lengths, shape, asked.stages)'
  OBVIOUS
<1> HIDE DEF figure
<1>6. Estimated'
  <2>1. estimate' = figure(lengths, shape, asked.stages)'
    BY <1>4, <1>5
  <2> QED
    BY <1>1, <1>3, <2>1 DEF Estimated, figure
<1>7. Drawn'
  BY <1>1 DEF Drawn
<1> QED
  BY <1>1, <1>2, <1>6, <1>7 DEF RequestInv, Live

LEMMA DrawStep ==
  ASSUME RequestInv, DrawSeeds
  PROVE  RequestInv'
<1> DEFINE given(line, s) == IF line.command = "pipeline" THEN Plan(line.stages, s) ELSE <<s>>
           written(line, s) == [i \in DOMAIN given(line, s) |-> TransformRecord(line.stages[i], given(line, s)[i])]
<1>1. /\ phase = "draw" /\ phase' = "started" /\ UNCHANGED <<asked, checked>> /\ asked' = asked /\ shape' = shape
      /\ lengths' = lengths /\ estimate' = estimate
      /\ IF asked.command = "quantise" THEN seed' = None
         ELSE seed' \in IF asked.seed = None THEN Word ELSE {asked.seed}
      /\ records' = written(asked, seed')
  BY DEF DrawSeeds, checked
<1>2. Shaped' /\ Validated' /\ Noted'
  BY <1>1, StaysChecked
<1>3. IsCommandLine(asked) /\ Estimated
  BY AskedFor DEF RequestInv
<1>4. Estimated'
  <2>1. estimate # None =>
          /\ asked.command = "sample" /\ lengths \in Lengths
          /\ estimate = ExpectedBytes(PassBytes(lengths), shape.width, asked.stages[1].rate)
    BY <1>3 DEF Estimated
  <2> DEFINE figure(measured, built, stages) == ExpectedBytes(PassBytes(measured), built.width, stages[1].rate)
  <2>2. figure(lengths', shape', asked'.stages) = figure(lengths, shape, asked.stages)
    BY <1>1, Zenon
  <2>3. estimate # None => estimate' = figure(lengths', shape', asked'.stages)
    <3>1. estimate # None => estimate' = figure(lengths, shape, asked.stages)
      BY <1>1, <2>1
    <3> HIDE DEF figure
    <3> QED
      BY <2>2, <3>1
  <2>4. figure(lengths', shape', asked'.stages) = figure(lengths, shape, asked.stages)'
    OBVIOUS
  <2> HIDE DEF figure
  <2>5. estimate' # None => estimate' = figure(lengths, shape, asked.stages)'
    BY <1>1, <2>3, <2>4
  <2> QED
    BY <1>1, <2>1, <2>5 DEF Estimated, figure
<1>5. Drawn'
  <2>1. asked.seed \in Word \cup {None}
    BY <1>3 DEF IsCommandLine, Seeds
  <2>2. IF asked.command = "quantise" THEN seed' = None ELSE seed' \in Word
    BY <1>1, <2>1
  <2>3. written(asked', seed') = written(asked, seed)'
    OBVIOUS
  <2>4. records' = written(asked, seed)'
    <3>1. records' = written(asked', seed')
      BY <1>1
    <3> HIDE DEF written
    <3> QED
      BY <2>3, <3>1
  <2>5. records' = [i \in DOMAIN SeedsGiven |-> TransformRecord(asked.stages[i], SeedsGiven[i])]'
    BY <2>4 DEF SeedsGiven
  <2> HIDE DEF given, written
  <2> QED
    BY <1>1, <2>2, <2>5 DEF Drawn
<1> QED
  BY <1>1, <1>2, <1>4, <1>5 DEF RequestInv, Live

LEMMA RequestStill ==
  ASSUME RequestInv, UNCHANGED requestsVars
  PROVE  RequestInv'
<1>1. /\ asked' = asked /\ phase' = phase /\ shape' = shape /\ kinds' = kinds /\ recorded' = recorded
      /\ lengths' = lengths /\ estimate' = estimate /\ seed' = seed /\ records' = records
  BY DEF requestsVars, checked, started
<1>2. Shaped' = Shaped
  BY <1>1, Zenon DEF Shaped
<1>3. Validated' = Validated
  BY <1>1, Zenon DEF Validated
<1>4. Noted'
  BY <1>1 DEF RequestInv, Noted, Pair
<1>5. Estimated' = Estimated
  BY <1>1, Zenon DEF Estimated
<1>6. Drawn' = Drawn
  BY <1>1, Zenon DEF Drawn, SeedsGiven
<1> QED
  BY <1>1, <1>2, <1>3, <1>4, <1>5, <1>6 DEF RequestInv

(* Every step keeps the invariant.                                         *)
LEMMA RequestStep == RequestInv /\ [RequestsNext]_requestsVars => RequestInv'
<1> SUFFICES ASSUME RequestInv, [RequestsNext]_requestsVars PROVE RequestInv'
  OBVIOUS
<1> QED
  BY ShapeStep, ConfigStep, StageStep, MetadataStep, AcceptStep, MeasureStep, DrawStep, RequestStill
  DEF RequestsNext

(* A request is checked in order, and what is recorded of it is of what    *)
(* was checked.                                                            *)
THEOREM RequestsChecked == RequestsSpec => []RequestInv
  BY RequestInit, RequestStep, PTL DEF RequestsSpec

LEMMA MaxOfTwo ==
  ASSUME NEW a \in Int, NEW b \in Int
  PROVE  Max({a, b}) = IF a >= b THEN a ELSE b
<1> DEFINE most == IF a >= b THEN a ELSE b
<1>1. most \in {a, b} /\ \A y \in {a, b} : most >= y
  OBVIOUS
<1>2. \A x \in {a, b} : (\A y \in {a, b} : x >= y) => x = most
  OBVIOUS
<1>3. Max({a, b}) = CHOOSE x \in {a, b} : \A y \in {a, b} : x >= y
  BY Zenon DEF Max
<1> HIDE DEF most
<1>4. Max({a, b}) = most
  BY <1>1, <1>2, <1>3
<1> QED
  BY <1>4 DEF most

(* A width that was checked is the true one.                               *)
LEMMA TrueWidth ==
  ASSUME NEW i \in Word, NEW o \in Word, NEW encoding, Width(i, o, encoding) # NoWord
  PROVE  Width(i, o, encoding) = (i + o) * BytesPerValue(encoding) /\ Width(i, o, encoding) \in Word
<1>1. i + o \in Nat /\ BytesPerValue(encoding) \in Nat /\ NoWord \notin Word /\ Word = 0 .. MaxWord
  BY WordFacts DEF BytesPerValue, NoWord
<1>2. i + o \in Word
  <2>1. i + o \notin Word => Width(i, o, encoding) = NoWord
    BY DEF Width, CheckedAdd, Checked
  <2> QED
    BY <2>1
<1>3. Width(i, o, encoding) = Checked((i + o) * BytesPerValue(encoding))
  <2>1. CheckedAdd(i, o) = i + o
    BY <1>2 DEF CheckedAdd, Checked
  <2> QED
    BY <1>1, <1>2, <2>1 DEF Width, CheckedMul
<1> QED
  BY <1>3 DEF Checked

LEMMA NarrowFits ==
  ASSUME NEW i \in Word, NEW o \in Word, Width(i, o, "float32") # NoWord
  PROVE  Width(i, o, "bfloat16") # NoWord
<1>1. Width(i, o, "float32") = (i + o) * 4 /\ (i + o) * 4 \in Word
  BY TrueWidth DEF BytesPerValue
<1>2. i + o \in Word /\ (i + o) * 2 \in Word /\ NoWord \notin Word
  BY <1>1, WordFacts DEF NoWord
<1> QED
  BY <1>2 DEF Width, CheckedAdd, CheckedMul, Checked, BytesPerValue

(* So do the buffers.                                                      *)
LEMMA BuffersFit ==
  ASSUME NEW width \in Word \ {0}
  PROVE  CheckedMul(Max({BufferBytes \div width, 1}), width) # NoWord
<1> DEFINE k == BufferBytes \div width
<1>1. BufferBytes \in Nat /\ BufferBytes <= MaxWord /\ width \in Nat \ {0} /\ width <= MaxWord
      /\ MaxWord \in Nat /\ Word = 0 .. MaxWord
  BY BufferAssumption, WordFacts
<1>2. k \in Nat /\ k * width <= BufferBytes
  <2>1. k \in Nat /\ BufferBytes % width \in Nat /\ BufferBytes = k * width + (BufferBytes % width)
    <3>1. /\ BufferBytes \div width \in Nat /\ BufferBytes % width \in 0 .. width - 1
          /\ BufferBytes = (BufferBytes \div width) * width + (BufferBytes % width)
      BY <1>1, DivMod, Zenon
    <3> QED
      BY <1>1, <3>1
  <2>2. k * width \in Nat
    BY <1>1, <2>1, Product
  <2> HIDE DEF k
  <2> QED
    BY <2>1, <2>2
<1>3. Max({k, 1}) = IF k >= 1 THEN k ELSE 1
  BY <1>2, MaxOfTwo
<1>4. k * width \in Word /\ 1 * width \in Word
  <2> HIDE DEF k
  <2>1. k * width \in Nat
    BY <1>1, <1>2, Product
  <2> QED
    BY <1>1, <1>2, <2>1
<1> HIDE DEF k
<1>5. Max({k, 1}) * width \in Word
  BY <1>3, <1>4
<1>6. CheckedMul(Max({k, 1}), width) \in Word
  BY <1>5 DEF CheckedMul, Checked
<1> QED
  BY <1>1, <1>6 DEF k, NoWord

(* What is relied on of a stage is what was checked of it.                 *)
LEMMA CheckedIsRelied ==
  ASSUME NEW stage, IsStage(stage), StageAccepted(stage)
  PROVE  Relied(stage)
<1>1. /\ Infinite \in Nat /\ Infinite > RateUnit /\ NaN \notin Int /\ None \notin Int /\ NaN # None
      /\ RateUnit \in Nat \ {0}
  BY FloatAssumption, EstimateFacts
<1>2. CASE stage.transform = "sample"
  <2>1. stage.rate \in Int \cup {NaN} /\ Less(0, stage.rate) /\ LessEq(stage.rate, RateUnit)
    BY <1>2 DEF IsStage, StageAccepted, RateAccepted, Floats
  <2>2. 0 \in 0 .. RateUnit - 1
    BY <1>1
  <2>3. \E draw \in 0 .. RateUnit - 1 : Less(draw, stage.rate)
    BY <2>1, <2>2
  <2> QED
    BY <1>2, <2>1, <2>3 DEF Relied
<1>3. CASE stage.transform = "fuzz"
  <2>1. /\ stage.scale \in Int \cup {NaN} /\ stage.min \in Int \cup {NaN, None} /\ stage.max \in Int \cup {NaN, None}
        /\ BoundsAccepted(stage.min, stage.max) /\ FiniteFloat(stage.scale) /\ Less(0, stage.scale)
    BY <1>3 DEF IsStage, StageAccepted, PolicyAccepted, Floats
  <2>2. stage.scale \in 1 .. Infinite - 1
    <3>1. stage.scale \in Int /\ 0 <= stage.scale /\ 0 # stage.scale
          /\ stage.scale <= Infinite /\ stage.scale # Infinite
      BY <1>1, <2>1 DEF FiniteFloat, Less, LessEq
    <3> QED
      BY <1>1, <3>1
  <2>3. ASSUME NEW bound \in {stage.min, stage.max}, bound # None
        PROVE  bound \in Int /\ -Infinite <= bound /\ bound # -Infinite /\ bound <= Infinite /\ bound # Infinite
    <3>1. FiniteFloat(bound) /\ bound \in Int \cup {NaN}
      BY <2>1, <2>3 DEF BoundsAccepted
    <3> QED
      BY <1>1, <3>1 DEF FiniteFloat, Less, LessEq
  <2>4. None \notin {stage.min, stage.max} => LessEq(stage.min, stage.max)
    BY <2>1 DEF BoundsAccepted
  <2> DEFINE low  == IF stage.min = None THEN -Infinite ELSE stage.min
             high == IF stage.max = None THEN Infinite ELSE stage.max
  <2>5. low \in Int /\ low # Infinite /\ low <= Infinite
    BY <1>1, <2>3
  <2>6. high \in Int /\ high # -Infinite /\ -Infinite <= high
    BY <1>1, <2>3
  <2>7. LessEq(low, high)
    <3>1. stage.min = None => low = -Infinite
      OBVIOUS
    <3>2. stage.max = None => high = Infinite
      OBVIOUS
    <3>3. None \notin {stage.min, stage.max} => LessEq(low, high)
      BY <2>4
    <3>4. low # NaN /\ high # NaN
      BY <1>1, <2>5, <2>6
    <3> HIDE DEF low, high
    <3>5. stage.min = None => LessEq(low, high)
      BY <2>6, <3>1, <3>4 DEF LessEq
    <3>6. stage.max = None => LessEq(low, high)
      BY <2>5, <3>2, <3>4 DEF LessEq
    <3> QED
      BY <3>3, <3>5, <3>6
  <2> QED
    BY <1>3, <2>2, <2>5, <2>6, <2>7 DEF Relied
<1>4. CASE stage.transform = "quantise"
  BY <1>4 DEF Relied
<1> QED
  BY <1>2, <1>3, <1>4 DEF IsStage

(* Every key given is recorded with its own value and no other.            *)
LEMMA EachRecorded ==
  ASSUME RequestInv, Accepted, NEW i \in DOMAIN asked.metadata
  PROVE  {pair \in recorded : pair[1] = asked.metadata[i].key} = {Pair(i)}
<1>1. /\ recorded = {Pair(j) : j \in 1 .. Cardinality(recorded)}
      /\ \A k, j \in 1 .. Cardinality(recorded) : Pair(k)[1] = Pair(j)[1] => k = j
      /\ Cardinality(recorded) = Len(asked.metadata)
  BY DEF RequestInv, Noted, Accepted, Live
<1>2. i \in 1 .. Cardinality(recorded)
  BY <1>1, AskedFor DEF RequestInv, IsCommandLine
<1>3. Pair(i)[1] = asked.metadata[i].key
  BY DEF Pair
<1> QED
  BY <1>1, <1>2, <1>3

(* Requests.AcceptedIsSound: of a request that is accepted the parameters  *)
(* are as the code after it takes them to be, each by the check that is    *)
(* there to see to it (shape.rs, the plan.rs of the transforms,            *)
(* metadata.rs).                                                           *)
THEOREM RequestsAreSound == RequestsSpec => []AcceptedIsSound
<1>1. RequestInv => AcceptedIsSound
  <2> SUFFICES ASSUME RequestInv, Accepted PROVE AcceptedIsSound
    BY DEF AcceptedIsSound
  <2>1. /\ IsCommandLine(asked) /\ phase \in Live /\ phase \notin {"shape", "config", "stage", "metadata"}
        /\ Shaped /\ Validated
    BY AskedFor DEF RequestInv, Accepted, Live
  <2>2. asked.inputs \in Word /\ asked.outputs \in Word
    BY <2>1 DEF IsCommandLine
  <2>3. /\ shape = WithEncoding(asked.inputs, asked.outputs, "float32") /\ ShapeAccepted(shape)
    BY <2>1 DEF Shaped
  <2>4. /\ shape.width = Width(asked.inputs, asked.outputs, "float32")
        /\ asked.inputs # 0 /\ asked.outputs # 0 /\ shape.width # NoWord
    BY <2>3 DEF WithEncoding, ShapeAccepted
  <2>5. asked.inputs > 0 /\ asked.outputs > 0
    BY <2>2, <2>4, WordFacts
  <2>6. shape.width = (asked.inputs + asked.outputs) * 4 /\ shape.width \in Word \ {0}
    <3>1. shape.width = (asked.inputs + asked.outputs) * 4 /\ shape.width \in Word
      BY <2>2, <2>4, TrueWidth DEF BytesPerValue
    <3> QED
      BY <2>2, <2>5, <3>1, WordFacts
  <2>7. CheckedMul(Max({BufferBytes \div shape.width, 1}), shape.width) # NoWord
    BY <2>6, BuffersFit
  <2>8. ShapeAccepted(WithEncoding(asked.inputs, asked.outputs, "bfloat16"))
    <3>1. Width(asked.inputs, asked.outputs, "bfloat16") # NoWord
      BY <2>2, <2>4, NarrowFits
    <3> QED
      BY <2>4, <3>1 DEF WithEncoding, ShapeAccepted
  <2>9. /\ kinds \in Seq(Transforms) /\ Len(kinds) = Len(asked.stages) /\ kinds # <<>>
        /\ \A i \in 1 .. Len(kinds) : kinds[i] = asked.stages[i].transform /\ StageAccepted(asked.stages[i])
    BY <2>1 DEF Validated, Live
  <2>10. DOMAIN asked.stages = 1 .. Len(kinds)
    BY <2>1, <2>9 DEF IsCommandLine
  <2>11. kinds = [i \in DOMAIN asked.stages |-> asked.stages[i].transform]
    <3>1. kinds = [i \in 1 .. Len(kinds) |-> kinds[i]]
      BY <2>9
    <3> QED
      BY <2>9, <2>10, <3>1
  <2>12. \A i \in DOMAIN asked.stages : Relied(asked.stages[i])
    BY <2>1, <2>9, <2>10, CheckedIsRelied DEF IsCommandLine
  <2>13. \A i \in DOMAIN asked.metadata :
           LET entry == asked.metadata[i]
           IN  {pair \in recorded : pair[1] = entry.key} = {<<entry.key, entry.value>>}
    BY EachRecorded DEF Pair
  <2> QED
    BY <2>5, <2>6, <2>7, <2>8, <2>9, <2>11, <2>12, <2>13 DEF AcceptedIsSound
<1> QED
  BY <1>1, RequestsChecked, PTL

-----------------------------------------------------------------------------
(* Requests: the estimate                                                  *)

LEMMA Cancel ==
  ASSUME NEW a \in Int, NEW b \in Int, NEW c \in Nat \ {0}, a * c <= b * c
  PROVE  a <= b
<1> SUFFICES ASSUME b + 1 <= a PROVE FALSE
  OBVIOUS
<1>1. (b + 1) * c <= a * c
  BY Product
<1>2. (b + 1) * c = b * c + c /\ b * c \in Int /\ a * c \in Int
  OBVIOUS
<1> QED
  BY <1>1, <1>2

(* The headroom makes up for what two roundings lost.                      *)
LEMMA HeadroomCovers ==
  ASSUME NEW n \in Nat, NEW rate \in Nat, NEW width \in Nat, NEW k \in Nat, NEW u \in Nat,
         NEW h \in Nat \ {0}, NEW d \in Nat,
         (n * rate) * h <= (k * u) * (h + 1), k * width <= d * h
  PROVE  (n * width) * rate <= (k * width + d) * u
<1> DEFINE x == n * rate
           y == k * u
           c == k * width
<1>1. x \in Nat /\ y \in Nat /\ c \in Nat
  OBVIOUS
<1>2. (x * h) * width <= (y * (h + 1)) * width
  <2> DEFINE a == x * h
             b == y * (h + 1)
  <2>1. a \in Int /\ b \in Int /\ a <= b
    BY <1>1
  <2> HIDE DEF a, b
  <2>2. a * width <= b * width
    BY <2>1, Product
  <2> QED
    BY <2>2 DEF a, b
<1>3. c * u <= (d * h) * u
  <2> DEFINE b == d * h
  <2>1. c \in Int /\ b \in Int /\ c <= b
    BY <1>1
  <2> HIDE DEF c, b
  <2>2. c * u <= b * u
    BY <2>1, Product
  <2> QED
    BY <2>2 DEF b
<1>4. (x * h) * width = ((n * width) * rate) * h
  OBVIOUS
<1>5. (y * (h + 1)) * width = (c * u) * h + c * u
  OBVIOUS
<1>6. ((c + d) * u) * h = (c * u) * h + (d * h) * u
  OBVIOUS
<1>7. /\ (c * u) * h \in Int /\ (d * h) * u \in Int /\ c * u \in Int
      /\ (n * width) * rate \in Int /\ (c + d) * u \in Int
      /\ ((n * width) * rate) * h \in Int /\ ((c + d) * u) * h \in Int
  BY <1>1
<1> DEFINE p == (n * width) * rate
           r == (c + d) * u
<1>8. p * h <= r * h
  BY <1>2, <1>3, <1>4, <1>5, <1>6, <1>7
<1>9. p \in Int /\ r \in Int
  BY <1>7
<1> HIDE DEF p, r
<1>10. p <= r
  BY <1>8, <1>9, Cancel
<1> QED
  BY <1>10 DEF p, r

(* Rounding records up costs one record at the most.                       *)
LEMMA OneRecordMore ==
  ASSUME NEW n \in Nat, NEW rate \in Nat, NEW width \in Nat \ {0}, NEW q \in Nat, NEW u \in Nat \ {0},
         NEW s \in Nat, q * u < n * rate + u, (n * width) * rate <= s * u
  PROVE  q * width < s + width
<1> DEFINE a == q * u
           b == n * rate + u
<1>1. a \in Int /\ b \in Int /\ a <= b - 1
  OBVIOUS
<1>2. a * width <= (b - 1) * width
  <2> HIDE DEF a, b
  <2> QED
    BY <1>1, Product
<1>3. a * width = (q * width) * u
  OBVIOUS
<1>4. (b - 1) * width = (n * width) * rate + u * width - width
  OBVIOUS
<1>5. (s + width) * u = s * u + u * width
  OBVIOUS
<1>6. /\ (q * width) * u \in Int /\ (n * width) * rate \in Int /\ u * width \in Int
      /\ s * u \in Int /\ (s + width) * u \in Int /\ q * width \in Int
  OBVIOUS
<1> DEFINE l == q * width
           r == s + width
<1>7. l * u < r * u
  BY <1>2, <1>3, <1>4, <1>5, <1>6
<1>8. l \in Int /\ r \in Int
  OBVIOUS
<1> HIDE DEF l, r
<1>9. ~ (r <= l)
  <2>1. r <= l => r * u <= l * u
    BY <1>8, Product
  <2>2. r * u \in Int /\ l * u \in Int
    BY <1>8
  <2> QED
    BY <1>7, <2>1, <2>2
<1> QED
  BY <1>8, <1>9 DEF l, r

(* Of whole records the figure covers their share, and little more.        *)
LEMMA ShareCovered ==
  ASSUME NEW total \in Word, NEW width \in Word \ {0}, NEW rate \in 0 .. RateUnit, total % width = 0
  PROVE  LET share   == DivCeil(total * rate, RateUnit)
             ceiling == share + width
             figure  == ExpectedBytes(total, width, rate)
         IN  /\ figure >= share
             /\ total \div width <= 2^Mantissa =>
                  /\ figure <= ceiling + DivCeil(ceiling, HeadroomDivisor)
                  /\ width <= HeadroomDivisor => figure <= ceiling + DivCeil(share, HeadroomDivisor)
<1> DEFINE n == total \div width
           u == RateUnit
           h == HeadroomDivisor
           k == KeptRecords(n, rate)
           c == k * width
           d == DivCeil(c, h)
           x == total * rate
           share == DivCeil(x, u)
           ceiling == share + width
           figure == ExpectedBytes(total, width, rate)
<1>1. /\ total \in Nat /\ total <= MaxWord /\ width \in Nat \ {0} /\ MaxWord \in Nat
      /\ rate \in Nat /\ rate <= u /\ u \in Nat \ {0} /\ h \in Nat \ {0}
  BY WordFacts, EstimateFacts
<1>2. n \in Nat /\ total = n * width
  <2>1. /\ total \div width \in Nat /\ total = (total \div width) * width + (total % width)
    BY <1>1, DivMod, Zenon
  <2> DEFINE t == (total \div width) * width
  <2>2. t \in Nat
    BY <1>1, <2>1
  <2> HIDE DEF t
  <2> QED
    BY <2>1, <2>2 DEF t
<1>3. /\ n \in Word /\ k \in Nat /\ k <= n
      /\ (n * rate) * h <= (k * u) * (h + 1)
      /\ n <= 2^Mantissa => k <= DivCeil(n * rate, u)
  <2>1. n \in Word
    BY Figure
  <2> HIDE DEF n
  <2> QED
    BY <2>1, Kept
<1>4. /\ SaturatingMul(k, width) = (IF k * width <= MaxWord THEN k * width ELSE MaxWord)
      /\ figure = (IF SaturatingMul(k, width) + DivCeil(SaturatingMul(k, width), h) <= MaxWord
                     THEN SaturatingMul(k, width) + DivCeil(SaturatingMul(k, width), h) ELSE MaxWord)
  BY Figure
<1> HIDE DEF n, u, h, k, figure
<1>5. c \in Nat /\ c <= MaxWord
  <2>1. k * width <= n * width
    BY <1>1, <1>2, <1>3, Product
  <2>2. k * width \in Nat
    BY <1>1, <1>3
  <2> QED
    BY <1>1, <1>2, <2>1, <2>2
<1>6. figure = IF c + d <= MaxWord THEN c + d ELSE MaxWord
  BY <1>4, <1>5
<1>7. d \in Nat /\ c <= d * h
  <2> HIDE DEF c
  <2> QED
    BY <1>1, <1>5, Ceiling
<1>8. x \in Nat /\ x = (n * width) * rate
  BY <1>1, <1>2
<1>9. share \in Nat /\ x <= share * u /\ \A j \in Nat : x <= j * u => share <= j
  <2> HIDE DEF x
  <2> QED
    BY <1>1, <1>8, Ceiling
<1>10. share <= c + d
  <2>1. x <= (c + d) * u
    <3>1. k * width <= d * h
      BY <1>7
    <3> HIDE DEF c, d
    <3>2. (n * width) * rate <= (k * width + d) * u
      BY <1>1, <1>2, <1>3, <1>7, <3>1, HeadroomCovers
    <3> QED
      BY <1>8, <3>2 DEF c
  <2>2. c + d \in Nat
    BY <1>5, <1>7
  <2> HIDE DEF x, share, c, d
  <2> QED
    BY <1>9, <2>1, <2>2
<1>11. share <= MaxWord
  <2>1. rate * total <= u * total
    BY <1>1, Product
  <2>2. rate * total = x /\ u * total = total * u
    BY <1>1
  <2>3. x <= total * u
    BY <2>1, <2>2
  <2> HIDE DEF x, share
  <2>4. share <= total
    BY <1>1, <1>9, <2>3
  <2> QED
    BY <1>1, <1>9, <2>4
<1>12. figure >= share
  <2> HIDE DEF share, c, d
  <2> QED
    BY <1>1, <1>5, <1>6, <1>7, <1>9, <1>10, <1>11
<1>13. ASSUME n <= 2^Mantissa PROVE c <= ceiling - 1
  <2> DEFINE y == n * rate
             q == DivCeil(y, u)
  <2>1. y \in Nat
    BY <1>1, <1>2
  <2>2. q \in Nat /\ q * u < y + u
    <3> HIDE DEF y
    <3> QED
      BY <1>1, <2>1, Ceiling
  <2>3. k <= q
    BY <1>3, <1>13
  <2>4. q * width < share + width
    <3>1. q * u < n * rate + u
      BY <2>2
    <3>2. (n * width) * rate <= share * u
      BY <1>8, <1>9
    <3> HIDE DEF q, y, share, x
    <3> QED
      BY <1>1, <1>2, <1>9, <2>2, <3>1, <3>2, OneRecordMore
  <2>5. k * width <= q * width
    <3> HIDE DEF q
    <3> QED
      BY <1>1, <1>3, <2>2, <2>3, Product
  <2>6. q * width \in Int
    <3> HIDE DEF q
    <3> QED
      BY <1>1, <2>2
  <2> HIDE DEF q, share
  <2> QED
    BY <1>1, <1>5, <1>9, <2>4, <2>5, <2>6
<1>14. ceiling \in Nat
  <2> HIDE DEF share
  <2> QED
    BY <1>1, <1>9
<1>15. ASSUME n <= 2^Mantissa PROVE figure <= ceiling + DivCeil(ceiling, h)
  <2>1. c <= ceiling
    <3> HIDE DEF c, ceiling
    <3> QED
      BY <1>5, <1>13, <1>14, <1>15
  <2> HIDE DEF c, ceiling
  <2>2. DivCeil(c, h) <= DivCeil(ceiling, h) /\ DivCeil(ceiling, h) \in Nat
    BY <1>1, <1>5, <1>14, <2>1, CeilingGrows, Ceiling
  <2> QED
    BY <1>1, <1>5, <1>6, <1>7, <1>14, <2>1, <2>2 DEF d
<1>16. ASSUME n <= 2^Mantissa, width <= h PROVE figure <= ceiling + DivCeil(share, h)
  <2> DEFINE e == DivCeil(share, h)
  <2>1. c <= share + width - 1
    <3> HIDE DEF c, share
    <3> QED
      BY <1>1, <1>5, <1>9, <1>13, <1>16
  <2>2. e \in Nat /\ share <= e * h
    <3> HIDE DEF share
    <3> QED
      BY <1>1, <1>9, Ceiling
  <2>3. c <= (e + 1) * h
    <3>1. (e + 1) * h = e * h + h /\ e * h \in Int
      BY <1>1, <2>2
    <3> HIDE DEF c, e, share
    <3> QED
      BY <1>1, <1>5, <1>9, <1>16, <2>1, <2>2, <3>1
  <2>4. d <= e + 1
    <3> HIDE DEF c, e
    <3> QED
      BY <1>1, <1>5, <2>2, <2>3, Ceiling
  <2> HIDE DEF c, d, e, share
  <2> QED
    BY <1>1, <1>5, <1>6, <1>7, <1>9, <2>1, <2>2, <2>4 DEF e
<1> QED
  BY <1>12, <1>15, <1>16 DEF figure, n, u, h

(* Requests.EstimateCovers: of whole records the figure is at least their  *)
(* share, and at most that and a record more with the headroom of both; a  *)
(* record of no more than HeadroomDivisor bytes needs none of its own, as  *)
(* sample/run.rs:112-115 says of every record.  One more file never lowers *)
(* it.                                                                     *)
THEOREM EstimatesCover == RequestsSpec => []EstimateCovers
<1>1. RequestInv => EstimateCovers
  <2> SUFFICES ASSUME RequestInv, estimate # None PROVE EstimateCovers
    BY DEF EstimateCovers
  <2> DEFINE width == shape.width
             rate  == asked.stages[1].rate
             total == Total(lengths)
  <2>1. /\ phase \in {"draw", "started"} /\ asked.command = "sample" /\ lengths \in Lengths
        /\ estimate = ExpectedBytes(PassBytes(lengths), width, rate)
        /\ IsCommandLine(asked) /\ Shaped /\ Validated
    BY AskedFor DEF RequestInv, Estimated
  <2>2. lengths \in Seq(Word) /\ lengths # <<>>
    BY <2>1, LengthsAssumption
  <2>3. width \in Word \ {0}
    <3>1. /\ asked.inputs \in Word /\ asked.outputs \in Word
          /\ width = Width(asked.inputs, asked.outputs, "float32")
          /\ asked.inputs # 0 /\ width # NoWord
      BY <2>1 DEF IsCommandLine, Shaped, WithEncoding, ShapeAccepted, Live
    <3>2. width = (asked.inputs + asked.outputs) * 4 /\ width \in Word
      BY <3>1, TrueWidth DEF BytesPerValue
    <3> HIDE DEF width
    <3> QED
      BY <3>1, <3>2, WordFacts
  <2>4. rate \in 0 .. RateUnit
    <3>1. Len(asked.stages) = 1 /\ asked.stages[1].transform = "sample" /\ IsStage(asked.stages[1])
      BY <2>1 DEF IsCommandLine
    <3>2. StageAccepted(asked.stages[1])
      BY <2>1, <3>1 DEF Validated, Live
    <3>3. rate \in Int \cup {NaN} /\ rate # NaN /\ 0 <= rate /\ rate <= RateUnit
      BY <3>1, <3>2 DEF IsStage, StageAccepted, RateAccepted, Less, LessEq, Floats
    <3> QED
      BY <3>3, EstimateFacts
  <2>5. ExpectedBytes(PassBytes(Front(lengths)), width, rate) <= estimate
    <3>1. /\ PassBytes(Front(lengths)) \in Word /\ PassBytes(lengths) \in Word
          /\ PassBytes(Front(lengths)) <= PassBytes(lengths)
      BY <2>2, PassGrows
    <3> HIDE DEF width, rate
    <3> QED
      BY <2>1, <2>3, <2>4, <3>1, FigureGrows
  <2>6. ASSUME total \in Word, total % width = 0
        PROVE  LET share   == DivCeil(total * rate, RateUnit)
                   ceiling == share + width
               IN  /\ estimate >= share
                   /\ total \div width <= 2^Mantissa =>
                        /\ estimate <= ceiling + DivCeil(ceiling, HeadroomDivisor)
                        /\ width <= HeadroomDivisor =>
                             estimate <= ceiling + DivCeil(share, HeadroomDivisor)
    <3>1. PassBytes(lengths) = total
      BY <2>2, <2>6, NothingCut
    <3>2. estimate = ExpectedBytes(total, width, rate)
      BY <2>1, <3>1
    <3> HIDE DEF width, rate, total
    <3> QED
      BY <2>3, <2>4, <2>6, <3>2, ShareCovered
  <2> QED
    BY <2>5, <2>6 DEF EstimateCovers
<1> QED
  BY <1>1, RequestsChecked, PTL

-----------------------------------------------------------------------------
(* Words: exclusive or and the shift of it                                 *)

(* The first n bits of a word, and the exclusive or of as many.            *)
High(w, n) == w \div 2^(WordBits - n)
Tops(x, y) == CHOOSE top : top = [n \in 0 .. WordBits |->
                                    IF n = 0 THEN 0 ELSE 2 * top[n - 1] + ((High(x, n) + High(y, n)) % 2)]

(* The first n bits are those before them and one more.                    *)
LEMMA HighBits ==
  ASSUME NEW w \in Word
  PROVE  /\ High(w, 0) = 0 /\ High(w, WordBits) = w /\ \A n \in 0 .. WordBits : High(w, n) \in Nat
         /\ \A n \in 1 .. WordBits : High(w, n) \div 2 = High(w, n - 1)
<1>1. WordBits \in Nat \ {0} /\ w \in Nat /\ w < 2^WordBits /\ 2^WordBits \in Nat \ {0}
  BY WordFacts
<1>2. High(w, WordBits) = w
  <2>1. 2^0 = 1 /\ WordBits - WordBits = 0
    BY <1>1
  <2> QED
    BY <1>1, <2>1 DEF High
<1>3. High(w, 0) = 0
  <2>1. WordBits - 0 = WordBits
    BY <1>1
  <2> DEFINE u == 2^WordBits
  <2>2. u \in Nat \ {0} /\ w < u
    BY <1>1
  <2> HIDE DEF u
  <2>3. w \div u = 0
    BY <1>1, <2>2
  <2> QED
    BY <2>1, <2>3 DEF High, u
<1>4. ASSUME NEW n \in 0 .. WordBits PROVE High(w, n) \in Nat
  <2>1. WordBits - n \in Nat
    BY <1>1
  <2>2. 2^(WordBits - n) \in Nat \ {0}
    BY <2>1, Powers
  <2> QED
    BY <1>1, <2>2, DivMod DEF High
<1>5. ASSUME NEW n \in 1 .. WordBits PROVE High(w, n) \div 2 = High(w, n - 1)
  <2> DEFINE k == WordBits - n
  <2>1. k \in Nat /\ WordBits - (n - 1) = k + 1
    BY <1>1
  <2> HIDE DEF k
  <2>2. 2^k \in Nat \ {0} /\ 2^(k + 1) = 2^k * 2
    <3>1. 2^k \in Nat \ {0} /\ 2^(k + 1) = 2 * 2^k
      BY <2>1, Powers
    <3> QED
      BY <3>1
  <2>3. (w \div 2^k) \div 2 = w \div (2^k * 2)
    BY <1>1, <2>2, DivNests
  <2>4. High(w, n) = w \div 2^k /\ High(w, n - 1) = w \div 2^(k + 1)
    BY <2>1 DEF High, k
  <2> QED
    BY <2>2, <2>3, <2>4
<1> QED
  BY <1>2, <1>3, <1>4, <1>5

LEMMA Digits ==
  ASSUME NEW x \in Word, NEW y \in Word
  PROVE  /\ Xor(x, y) = Tops(x, y)[WordBits] /\ Tops(x, y)[0] = 0
         /\ \A n \in 0 .. WordBits : Tops(x, y)[n] \in Nat
         /\ \A n \in 1 .. WordBits :
              Tops(x, y)[n] = 2 * Tops(x, y)[n - 1] + ((High(x, n) + High(y, n)) % 2)
<1> DEFINE digit == [n \in 1 .. WordBits |-> (High(x, n) + High(y, n)) % 2]
           step == [n \in 1 .. WordBits |-> [w \in Nat |-> 2 * w + digit[n]]]
           Solves(g) == g = [n \in 0 .. WordBits |->
                               IF n = 0 THEN 0 ELSE 2 * g[n - 1] + ((High(x, n) + High(y, n)) % 2)]
<1>1. WordBits \in Nat \ {0} /\ \A n \in 1 .. WordBits : digit[n] \in Nat /\ digit[n] = (High(x, n) + High(y, n)) % 2
  <2>1. \A n \in 0 .. WordBits : High(x, n) \in Nat /\ High(y, n) \in Nat
    BY HighBits
  <2>2. WordBits \in Nat \ {0}
    BY WordFacts
  <2>3. \A n \in 1 .. WordBits : n \in 0 .. WordBits
    BY <2>2
  <2>4. \A a \in Nat : a % 2 \in Nat
    OBVIOUS
  <2> QED
    BY <2>1, <2>2, <2>3, <2>4
<1> HIDE DEF digit
<1>3. \A n \in 1 .. WordBits : \A w \in Nat : step[n][w] = 2 * w + digit[n] /\ step[n][w] \in Nat
  BY <1>1
<1>4. PICK h : /\ h[0] = 0 /\ \A n \in 0 .. WordBits : h[n] \in Nat
               /\ \A n \in 1 .. WordBits : h[n] = step[n][h[n - 1]]
  <2> HIDE DEF step
  <2>1. \A n \in 1 .. WordBits : \A w \in Nat : step[n][w] \in Nat
    BY <1>3
  <2>2. WordBits \in Nat /\ 0 \in Nat /\ Stays(step, WordBits, Nat)
    BY <1>1, <2>1 DEF Stays
  <2>3. \E f : Follows(f, step, WordBits, Nat, 0)
    BY <2>2, Recursion
  <2> QED
    BY <2>3 DEF Follows
<1> DEFINE g == [n \in 0 .. WordBits |-> h[n]]
<1>5. Solves(g)
  <2>1. ASSUME NEW n \in 0 .. WordBits
        PROVE  g[n] = IF n = 0 THEN 0 ELSE 2 * g[n - 1] + ((High(x, n) + High(y, n)) % 2)
    <3>1. CASE n = 0
      BY <1>4, <3>1
    <3>2. CASE n # 0
      <4>1. n \in 1 .. WordBits /\ n - 1 \in 0 .. WordBits
        BY <1>1, <3>2
      <4>2. g[n] = h[n] /\ g[n - 1] = h[n - 1] /\ h[n - 1] \in Nat
        BY <1>4, <4>1
      <4>3. h[n] = 2 * h[n - 1] + digit[n]
        <5> HIDE DEF step
        <5> QED
          BY <1>3, <1>4, <4>1, <4>2
      <4> QED
        BY <1>1, <3>2, <4>1, <4>2, <4>3
    <3> QED
      BY <3>1, <3>2
  <2>2. g = [n \in 0 .. WordBits |-> g[n]]
    OBVIOUS
  <2> HIDE DEF g
  <2> QED
    BY <2>1, <2>2
<1>6. Solves(Tops(x, y))
  <2>1. Tops(x, y) = CHOOSE f : Solves(f)
    BY Zenon DEF Tops
  <2>2. \E f : Solves(f)
    BY <1>5
  <2> HIDE DEF Solves
  <2> QED
    BY <2>1, <2>2, Zenon
<1>7. Xor(x, y) = Tops(x, y)[WordBits]
  BY Zenon DEF Xor, Tops, High
<1> DEFINE t == Tops(x, y)
<1>8. t = [n \in 0 .. WordBits |-> IF n = 0 THEN 0 ELSE 2 * t[n - 1] + ((High(x, n) + High(y, n)) % 2)]
  BY <1>6
<1> HIDE DEF t
<1>9. t[0] = 0 /\ \A n \in 1 .. WordBits : t[n] = 2 * t[n - 1] + digit[n]
  <2>1. \A n \in 1 .. WordBits : n \in 0 .. WordBits /\ n # 0
    BY <1>1
  <2>2. 0 \in 0 .. WordBits
    BY <1>1
  <2> QED
    BY <1>1, <1>8, <2>1, <2>2
<1> DEFINE T == {n \in 0 .. WordBits : t[n] \in Nat}
<1>10. 0 \in T
  BY <1>1, <1>9
<1>11. ASSUME NEW n \in 1 .. WordBits, n - 1 \in T PROVE n \in T
  <2>1. t[n - 1] \in Nat /\ digit[n] \in Nat /\ t[n] = 2 * t[n - 1] + digit[n]
    BY <1>1, <1>9, <1>11
  <2> QED
    BY <1>1, <2>1
<1>12. \A n \in 0 .. WordBits : n \in T
  <2> HIDE DEF T
  <2> QED
    BY <1>1, <1>10, <1>11, UpTo
<1> QED
  BY <1>1, <1>7, <1>9, <1>12 DEF t

LEMMA XorWord ==
  ASSUME NEW x \in Word, NEW y \in Word
  PROVE  Xor(x, y) \in Word
<1> DEFINE t == Tops(x, y)
           T == {n \in 0 .. WordBits : t[n] < 2^n}
<1>1. WordBits \in Nat \ {0} /\ Word = 0 .. 2^WordBits - 1 /\ 2^WordBits \in Nat
  BY WordFacts DEF Word
<1>2. /\ Xor(x, y) = t[WordBits] /\ t[0] = 0 /\ \A n \in 0 .. WordBits : t[n] \in Nat
      /\ \A n \in 1 .. WordBits : t[n] = 2 * t[n - 1] + ((High(x, n) + High(y, n)) % 2)
  BY Digits
<1>3. \A n \in 0 .. WordBits : High(x, n) \in Nat /\ High(y, n) \in Nat
  BY HighBits
<1> HIDE DEF t
<1>4. 0 \in T
  <2>1. 2^0 = 1
    OBVIOUS
  <2> QED
    BY <1>1, <1>2, <2>1
<1>5. ASSUME NEW n \in 1 .. WordBits, n - 1 \in T PROVE n \in T
  <2>1. n \in 0 .. WordBits /\ n - 1 \in 0 .. WordBits /\ n - 1 \in Nat /\ (n - 1) + 1 = n
    BY <1>1
  <2>2. 2^(n - 1) \in Nat /\ 2^n = 2 * 2^(n - 1)
    BY <2>1, Powers
  <2> DEFINE d == (High(x, n) + High(y, n)) % 2
  <2>3. d \in 0 .. 1
    BY <1>3, <2>1
  <2>4. t[n] = 2 * t[n - 1] + d /\ t[n - 1] \in Nat /\ t[n - 1] < 2^(n - 1)
    BY <1>2, <1>5, <2>1
  <2> HIDE DEF d
  <2>5. t[n] < 2^n
    BY <2>2, <2>3, <2>4
  <2> QED
    BY <2>1, <2>5
<1>6. \A n \in 0 .. WordBits : n \in T
  <2> HIDE DEF T
  <2> QED
    BY <1>1, <1>4, <1>5, UpTo
<1>7. t[WordBits] < 2^WordBits /\ t[WordBits] \in Nat
  BY <1>1, <1>2, <1>6
<1> QED
  BY <1>1, <1>2, <1>7

(* Of one exclusive or, each digit is told.                                *)
LEMMA SameDigits ==
  ASSUME NEW x \in Word, NEW y \in Word, NEW v \in Word, NEW w \in Word, Xor(x, y) = Xor(v, w)
  PROVE  \A n \in 1 .. WordBits : (High(x, n) + High(y, n)) % 2 = (High(v, n) + High(w, n)) % 2
<1> DEFINE s == Tops(x, y)
           t == Tops(v, w)
           c(n) == (High(x, n) + High(y, n)) % 2
           d(n) == (High(v, n) + High(w, n)) % 2
           T == {m \in 0 .. WordBits : s[WordBits - m] = t[WordBits - m]}
<1>1. WordBits \in Nat \ {0}
  BY WordFacts
<1>2. /\ Xor(x, y) = s[WordBits] /\ (\A n \in 0 .. WordBits : s[n] \in Nat)
      /\ \A n \in 1 .. WordBits : s[n] = 2 * s[n - 1] + c(n)
  BY Digits
<1>3. /\ Xor(v, w) = t[WordBits] /\ (\A n \in 0 .. WordBits : t[n] \in Nat)
      /\ \A n \in 1 .. WordBits : t[n] = 2 * t[n - 1] + d(n)
  BY Digits
<1>4. \A n \in 1 .. WordBits : c(n) \in 0 .. 1 /\ d(n) \in 0 .. 1
  <2>1. \A n \in 0 .. WordBits : High(x, n) \in Nat /\ High(y, n) \in Nat /\ High(v, n) \in Nat /\ High(w, n) \in Nat
    BY HighBits
  <2>2. \A n \in 1 .. WordBits : n \in 0 .. WordBits
    BY <1>1
  <2>3. \A k \in Nat : k % 2 \in 0 .. 1
    OBVIOUS
  <2> QED
    BY <2>1, <2>2, <2>3
<1> HIDE DEF s, t, c, d
<1>5. ASSUME NEW n \in 1 .. WordBits, s[n] = t[n] PROVE s[n - 1] = t[n - 1] /\ c(n) = d(n)
  <2>1. /\ s[n - 1] \in Nat /\ t[n - 1] \in Nat /\ c(n) \in 0 .. 1 /\ d(n) \in 0 .. 1
        /\ 2 * s[n - 1] + c(n) = 2 * t[n - 1] + d(n)
    <3>1. n - 1 \in 0 .. WordBits
      BY <1>1
    <3>2. s[n] = 2 * s[n - 1] + c(n) /\ t[n] = 2 * t[n - 1] + d(n)
      BY <1>2, <1>3
    <3> QED
      BY <1>2, <1>3, <1>4, <1>5, <3>1, <3>2
  <2> QED
    BY <2>1
<1>6. 0 \in T
  <2>1. WordBits - 0 = WordBits /\ 0 \in 0 .. WordBits
    BY <1>1
  <2>2. Xor(x, y) = Xor(v, w) /\ Xor(x, y) = s[WordBits] /\ Xor(v, w) = t[WordBits]
    BY <1>2, <1>3, Zenon
  <2>3. s[WordBits] = t[WordBits]
    BY <2>2, Zenon
  <2> QED
    BY <2>1, <2>3
<1>7. ASSUME NEW m \in 1 .. WordBits, m - 1 \in T PROVE m \in T
  <2>1. /\ m \in 0 .. WordBits /\ WordBits - (m - 1) \in 1 .. WordBits
        /\ (WordBits - (m - 1)) - 1 = WordBits - m
    BY <1>1
  <2>2. s[WordBits - (m - 1)] = t[WordBits - (m - 1)]
    BY <1>7
  <2>3. s[WordBits - m] = t[WordBits - m]
    BY <1>5, <2>1, <2>2
  <2> QED
    BY <2>1, <2>3
<1>8. \A m \in 0 .. WordBits : m \in T
  <2> HIDE DEF T
  <2> QED
    BY <1>1, <1>6, <1>7, UpTo
<1>9. ASSUME NEW n \in 1 .. WordBits PROVE s[n] = t[n]
  <2>1. WordBits - n \in T /\ WordBits - (WordBits - n) = n
    BY <1>1, <1>8
  <2> QED
    BY <2>1
<1>10. \A n \in 1 .. WordBits : c(n) = d(n)
  BY <1>5, <1>9
<1> QED
  BY <1>10 DEF c, d

(* The bits of a word shifted are those of the word.                       *)
LEMMA HighShifted ==
  ASSUME NEW z \in Word, NEW bits \in Nat \ {0}
  PROVE  /\ z \div 2^bits \in Word
         /\ \A n \in 0 .. WordBits : High(z \div 2^bits, n) = IF bits <= n THEN High(z, n - bits) ELSE 0
<1>1. WordBits \in Nat \ {0} /\ z \in Nat /\ z < 2^WordBits /\ 2^WordBits \in Nat \ {0} /\ 2^bits \in Nat \ {0}
      /\ Word = 0 .. MaxWord /\ z <= MaxWord /\ MaxWord \in Nat
  BY WordFacts, Powers
<1>2. z \div 2^bits \in Word
  <2> DEFINE u == 2^bits
             q == z \div u
  <2>1. q \in Nat /\ q * u <= z
    <3>1. q \in Nat /\ z % u \in 0 .. u - 1 /\ z = q * u + (z % u)
      BY <1>1, DivMod, Zenon
    <3>2. q * u \in Nat
      BY <1>1, <3>1
    <3> HIDE DEF u, q
    <3> QED
      BY <1>1, <3>1, <3>2
  <2>2. q <= q * u
    <3>1. u \in Nat \ {0}
      BY <1>1
    <3> HIDE DEF u, q
    <3>2. 1 * q <= u * q
      BY <2>1, <3>1, Product
    <3>3. 1 * q = q /\ u * q = q * u
      BY <2>1, <3>1
    <3> QED
      BY <3>2, <3>3
  <2>3. q * u \in Nat
    BY <1>1, <2>1
  <2> HIDE DEF q, u
  <2>4. q \in Word
    BY <1>1, <2>1, <2>2, <2>3
  <2> QED
    BY <2>4 DEF q, u
<1>3. ASSUME NEW n \in 0 .. WordBits
      PROVE  High(z \div 2^bits, n) = IF bits <= n THEN High(z, n - bits) ELSE 0
  <2> DEFINE k == WordBits - n
  <2>1. k \in Nat /\ bits \in Nat
    BY <1>1
  <2>2. 2^(bits + k) = 2^bits * 2^k /\ 2^k \in Nat \ {0} /\ 2^(bits + k) \in Nat \ {0}
    <3> HIDE DEF k
    <3> QED
      BY <2>1, PowersAdd
  <2>3. High(z \div 2^bits, n) = z \div 2^(bits + k)
    <3>1. (z \div 2^bits) \div 2^k = z \div (2^bits * 2^k)
      <4> HIDE DEF k
      <4> QED
        BY <1>1, <2>2, DivNests
    <3> QED
      BY <2>2, <3>1 DEF High
  <2>4. CASE bits <= n
    <3>1. WordBits - (n - bits) = bits + k
      BY <1>1, <2>4
    <3> QED
      BY <2>3, <2>4, <3>1 DEF High
  <2>5. CASE ~(bits <= n)
    <3>1. bits + k \in Nat /\ WordBits <= bits + k
      BY <1>1, <2>5
    <3>2. 2^WordBits <= 2^(bits + k)
      <4> HIDE DEF k
      <4> QED
        BY <1>1, <3>1, PowersGrow
    <3> DEFINE u == 2^(bits + k)
    <3>3. u \in Nat \ {0} /\ z < u
      <4> HIDE DEF k
      <4> QED
        BY <1>1, <2>2, <3>2
    <3> HIDE DEF u
    <3>4. z \div u = 0
      BY <1>1, <3>3
    <3> QED
      BY <2>3, <2>5, <3>4 DEF u
  <2> QED
    BY <2>4, <2>5
<1> QED
  BY <1>2, <1>3

(* No two words are shifted to the same.                                   *)
LEMMA ShiftInjective ==
  ASSUME NEW z \in Word, NEW w \in Word, NEW bits \in Nat \ {0}, XorShift(z, bits) = XorShift(w, bits)
  PROVE  z = w
<1> DEFINE p == z \div 2^bits
           q == w \div 2^bits
           T == {n \in 0 .. WordBits : \A m \in 0 .. n : High(z, m) = High(w, m)}
<1>1. WordBits \in Nat \ {0}
  BY WordFacts
<1>2. /\ p \in Word /\ \A n \in 0 .. WordBits : High(p, n) = IF bits <= n THEN High(z, n - bits) ELSE 0
  BY HighShifted
<1>3. /\ q \in Word /\ \A n \in 0 .. WordBits : High(q, n) = IF bits <= n THEN High(w, n - bits) ELSE 0
  BY HighShifted
<1>4. Xor(z, p) = Xor(w, q)
  BY DEF XorShift
<1> HIDE DEF p, q
<1>5. \A n \in 1 .. WordBits : (High(z, n) + High(p, n)) % 2 = (High(w, n) + High(q, n)) % 2
  BY <1>2, <1>3, <1>4, SameDigits
<1>6. 0 \in T
  <2>1. High(z, 0) = 0 /\ High(w, 0) = 0
    BY HighBits
  <2> QED
    BY <1>1, <2>1
<1>7. ASSUME NEW n \in 1 .. WordBits, n - 1 \in T PROVE n \in T
  <2>1. n \in 0 .. WordBits /\ \A m \in 0 .. n - 1 : High(z, m) = High(w, m)
    BY <1>1, <1>7
  <2>2. High(p, n) = High(q, n)
    <3>1. bits <= n => High(z, n - bits) = High(w, n - bits)
      BY <1>1, <2>1
    <3> QED
      BY <1>2, <1>3, <2>1, <3>1
  <2>3. High(z, n) = High(w, n)
    <3> DEFINE a == High(z, n)
               b == High(w, n)
               c == High(p, n)
    <3>1. a \in Nat /\ b \in Nat /\ c \in Nat
      BY <1>2, <2>1, HighBits
    <3>2. a \div 2 = b \div 2
      <4>1. High(z, n) \div 2 = High(z, n - 1) /\ High(w, n) \div 2 = High(w, n - 1)
        BY HighBits
      <4>2. n - 1 \in 0 .. n - 1
        BY <1>1
      <4> QED
        BY <2>1, <4>1, <4>2
    <3>3. (a + c) % 2 = (b + c) % 2
      BY <1>5, <2>2
    <3> HIDE DEF a, b, c
    <3>4. a = b
      BY <3>1, <3>2, <3>3
    <3> QED
      BY <3>4 DEF a, b
  <2>4. \A m \in 0 .. n : m \in 0 .. n - 1 \/ m = n
    BY <1>1
  <2> QED
    BY <2>1, <2>3, <2>4
<1>8. \A n \in 0 .. WordBits : n \in T
  <2> HIDE DEF T
  <2> QED
    BY <1>1, <1>6, <1>7, UpTo
<1>9. WordBits \in 0 .. WordBits
  BY <1>1
<1>10. High(z, WordBits) = High(w, WordBits)
  BY <1>8, <1>9
<1> QED
  BY <1>10, HighBits

LEMMA ShiftedWord ==
  ASSUME NEW z \in Word, NEW bits \in Nat \ {0}
  PROVE  XorShift(z, bits) \in Word
BY HighShifted, XorWord DEF XorShift

-----------------------------------------------------------------------------
(* Words: wrapping                                                         *)

LEMMA WrapWord ==
  ASSUME NEW n \in Nat
  PROVE  Wrap(n) \in Word
<1>1. 2^WordBits \in Nat \ {0}
  BY WordFacts
<1> DEFINE u == 2^WordBits
<1> HIDE DEF u
<1>2. u \in Nat \ {0}
  BY <1>1 DEF u
<1>3. n % u \in 0 .. u - 1
  BY <1>2
<1> QED
  BY <1>3 DEF Wrap, Word, u

(* What wraps to the same differs by a multiple.                           *)
LEMMA WrapSame ==
  ASSUME NEW a \in Nat, NEW b \in Nat, a <= b, Wrap(a) = Wrap(b)
  PROVE  \E q \in Nat : b - a = q * 2^WordBits
<1> DEFINE u == 2^WordBits
<1>1. u \in Nat \ {0}
  BY WordFacts
<1>2. a % u = b % u
  BY DEF Wrap
<1> HIDE DEF u
<1> DEFINE s == a \div u
           t == b \div u
<1>3. s \in Nat /\ t \in Nat /\ a = s * u + (a % u) /\ b = t * u + (b % u) /\ a % u \in Nat
  <2>1. s \in Nat /\ a % u \in 0 .. u - 1 /\ a = s * u + (a % u)
    BY <1>1, DivMod, Zenon
  <2>2. t \in Nat /\ b % u \in 0 .. u - 1 /\ b = t * u + (b % u)
    BY <1>1, DivMod, Zenon
  <2> QED
    BY <1>1, <2>1, <2>2
<1>4. s <= t
  BY <1>1, DivGrows
<1> HIDE DEF s, t
<1>5. b - a = (t - s) * u /\ t - s \in Nat
  <2>1. (t - s) * u = t * u - s * u /\ t * u \in Int /\ s * u \in Int
    BY <1>1, <1>3
  <2> QED
    BY <1>2, <1>3, <1>4, <2>1
<1> QED
  BY <1>5 DEF u

(* Less than a power and a multiple of it is nothing.                      *)
LEMMA NoMultiple ==
  ASSUME NEW d \in Word, NEW q \in Nat, d = q * 2^WordBits
  PROVE  d = 0
<1> DEFINE u == 2^WordBits
<1>1. u \in Nat \ {0} /\ d \in Nat /\ d < u /\ d = q * u
  BY WordFacts
<1> HIDE DEF u
<1>2. q >= 1 => 1 * u <= q * u
  BY <1>1, Product
<1>3. 1 * u = u /\ 0 * u = 0
  BY <1>1
<1> QED
  BY <1>1, <1>2, <1>3

(* Adding a number tells words apart, once wrapped.                        *)
LEMMA WrapAdds ==
  ASSUME NEW a \in Word, NEW b \in Word, NEW c \in Nat, Wrap(a + c) = Wrap(b + c)
  PROVE  a = b
<1>1. Word = 0 .. MaxWord /\ MaxWord \in Nat /\ 2^WordBits \in Nat
  BY WordFacts
<1>2. ASSUME NEW x \in Word, NEW y \in Word, x <= y, Wrap(x + c) = Wrap(y + c) PROVE x = y
  <2> DEFINE f == x + c
             g == y + c
  <2>1. PICK q \in Nat : (y + c) - (x + c) = q * 2^WordBits
    <3>1. f \in Nat /\ g \in Nat /\ f <= g /\ Wrap(f) = Wrap(g)
      BY <1>1, <1>2
    <3> HIDE DEF f, g
    <3>2. \E q \in Nat : g - f = q * 2^WordBits
      BY <3>1, WrapSame
    <3> QED
      BY <3>2 DEF f, g
  <2>2. y - x \in Word /\ (y + c) - (x + c) = y - x
    BY <1>1, <1>2
  <2>3. y - x = 0
    BY <2>1, <2>2, NoMultiple
  <2> QED
    BY <1>1, <2>3
<1>3. a <= b \/ b <= a
  BY <1>1
<1> QED
  BY <1>2, <1>3

(* A power of two that divides a product divides what an odd number        *)
(* multiplies in it.                                                       *)
LEMMA OddMultiple ==
  ASSUME NEW d \in Nat, NEW factor \in Nat, factor % 2 = 1, NEW q \in Nat, d * factor = q * 2^WordBits
  PROVE  \E r \in Nat : d = r * 2^WordBits
<1> DEFINE T == {n \in 0 .. WordBits : \E r \in Nat : d = r * 2^n}
<1>1. WordBits \in Nat \ {0}
  BY WordFacts
<1>2. 0 \in T
  <2>1. 2^0 = 1 /\ d = d * 1
    OBVIOUS
  <2>2. d = d * 2^0
    BY <2>1
  <2> QED
    BY <1>1, <2>2
<1>3. ASSUME NEW n \in 1 .. WordBits, n - 1 \in T PROVE n \in T
  <2>1. PICK r \in Nat : d = r * 2^(n - 1)
    BY <1>3
  <2> DEFINE k == WordBits - n
             u == 2^(n - 1)
             v == 2^k
  <2>2. /\ n - 1 \in Nat /\ n \in Nat /\ k \in Nat /\ (n - 1) + 1 = n /\ n + k = WordBits
    BY <1>1
  <2>3. u \in Nat \ {0} /\ 2^n = 2 * u
    <3>1. 2^(n - 1) \in Nat \ {0} /\ 2^((n - 1) + 1) = 2 * 2^(n - 1)
      BY <2>2, Powers
    <3> QED
      BY <2>2, <3>1
  <2>4. v \in Nat \ {0} /\ 2^WordBits = (2 * u) * v
    <3>1. 2^k \in Nat \ {0} /\ 2^(n + k) = 2^n * 2^k
      <4> HIDE DEF k
      <4> QED
        BY <2>2, PowersAdd
    <3>2. 2^(n + k) = 2^WordBits
      BY <2>2
    <3> QED
      BY <2>3, <3>1, <3>2
  <2> HIDE DEF k, u, v
  <2>5. d = r * u
    BY <2>1 DEF u
  <2>6. (r * factor) * u = (2 * (q * v)) * u
    <3>1. (r * u) * factor = q * ((2 * u) * v)
      BY <2>4, <2>5
    <3>2. (r * u) * factor = (r * factor) * u
      BY <2>3
    <3>3. q * ((2 * u) * v) = (2 * (q * v)) * u
      BY <2>3, <2>4
    <3> QED
      BY <3>1, <3>2, <3>3
  <2>7. r * factor = 2 * (q * v)
    <3> DEFINE a == r * factor
               b == 2 * (q * v)
    <3>1. a \in Int /\ b \in Int /\ a * u = b * u
      BY <2>4, <2>6
    <3> HIDE DEF a, b
    <3>2. a * u <= b * u /\ b * u <= a * u
      BY <2>3, <3>1
    <3>3. a <= b /\ b <= a
      BY <2>3, <3>1, <3>2, Cancel
    <3>4. a = b
      BY <3>1, <3>3
    <3> QED
      BY <3>4 DEF a, b
  <2>8. r % 2 = 0
    <3> SUFFICES ASSUME r % 2 # 0 PROVE FALSE
      OBVIOUS
    <3>1. PICK a \in Nat : r = 2 * a + 1
      <4>1. r \div 2 \in Nat /\ r = 2 * (r \div 2) + 1
        OBVIOUS
      <4> QED
        BY <4>1
    <3>2. PICK b \in Nat : factor = 2 * b + 1
      <4>1. factor \div 2 \in Nat /\ factor = 2 * (factor \div 2) + 1
        OBVIOUS
      <4> QED
        BY <4>1
    <3>3. r * factor = 2 * ((2 * (a * b)) + a + b) + 1 /\ a * b \in Nat
      BY <3>1, <3>2
    <3> DEFINE e == (2 * (a * b)) + a + b
               f == q * v
    <3>4. e \in Int /\ f \in Int /\ 2 * e + 1 = 2 * f
      BY <2>4, <2>7, <3>3
    <3> HIDE DEF e, f
    <3> QED
      BY <3>4
  <2>9. PICK a \in Nat : r = 2 * a
    <3>1. r \div 2 \in Nat /\ r = 2 * (r \div 2)
      BY <2>8
    <3> QED
      BY <3>1
  <2>10. d = a * 2^n
    <3>1. (2 * a) * u = a * (2 * u)
      BY <2>3
    <3> QED
      BY <2>3, <2>5, <2>9, <3>1
  <2> QED
    BY <2>10
<1>4. \A n \in 0 .. WordBits : n \in T
  <2> HIDE DEF T
  <2> QED
    BY <1>1, <1>2, <1>3, UpTo
<1>5. WordBits \in T
  <2> HIDE DEF T
  <2> QED
    BY <1>1, <1>4
<1> QED
  BY <1>5

(* So does multiplying by an odd number.                                   *)
LEMMA WrapMultiplies ==
  ASSUME NEW a \in Word, NEW b \in Word, NEW factor \in Nat, factor % 2 = 1, Wrap(a * factor) = Wrap(b * factor)
  PROVE  a = b
<1>1. Word = 0 .. MaxWord /\ MaxWord \in Nat /\ 2^WordBits \in Nat
  BY WordFacts
<1>2. ASSUME NEW x \in Word, NEW y \in Word, x <= y, Wrap(x * factor) = Wrap(y * factor) PROVE x = y
  <2> DEFINE f == x * factor
             g == y * factor
             d == y - x
  <2>1. f \in Nat /\ g \in Nat /\ f <= g /\ Wrap(f) = Wrap(g)
    <3>1. f <= g
      BY <1>1, <1>2, Product
    <3> QED
      BY <1>1, <1>2, <3>1
  <2>2. d \in Word /\ d \in Nat
    BY <1>1, <1>2
  <2>3. d * factor = g - f
    BY <1>1
  <2> HIDE DEF f, g
  <2>4. PICK q \in Nat : g - f = q * 2^WordBits
    BY <2>1, WrapSame
  <2> HIDE DEF d
  <2>5. d * factor = q * 2^WordBits
    BY <2>3, <2>4
  <2>6. PICK r \in Nat : d = r * 2^WordBits
    BY <2>2, <2>5, OddMultiple
  <2>7. d = 0
    BY <2>2, <2>6, NoMultiple
  <2> QED
    BY <1>1, <2>7 DEF d
<1>3. a <= b \/ b <= a
  BY <1>1
<1> QED
  BY <1>2, <1>3

-----------------------------------------------------------------------------
(* Requests: the seeds                                                     *)

(* What a pipeline's seed and a position are brought to before the mixing. *)
Offset(s, i) == Wrap(s + Wrap(i * GoldenGamma))

LEMMA OffsetWord ==
  ASSUME NEW s \in Word, NEW i \in Nat
  PROVE  Wrap(i * GoldenGamma) \in Word /\ Offset(s, i) \in Word
<1>1. GoldenGamma \in Nat /\ Word = 0 .. MaxWord /\ MaxWord \in Nat
  BY MixAssumption, WordFacts
<1> DEFINE x == i * GoldenGamma
           y == Wrap(x)
<1>2. x \in Nat
  BY <1>1
<1> HIDE DEF x
<1>3. y \in Word
  BY <1>2, WrapWord
<1> HIDE DEF y
<1>4. s + y \in Nat
  BY <1>1, <1>3
<1>5. Wrap(s + y) \in Word
  BY <1>4, WrapWord
<1> QED
  BY <1>3, <1>5 DEF Offset, x, y

(* One round of the mixing: shifted, then multiplied.                      *)
LEMMA MixInjective ==
  ASSUME NEW bits \in Nat \ {0}, NEW factor \in Word, factor % 2 = 1, NEW z \in Word, NEW w \in Word
  PROVE  /\ Wrap(XorShift(z, bits) * factor) \in Word
         /\ Wrap(XorShift(z, bits) * factor) = Wrap(XorShift(w, bits) * factor) => z = w
<1> DEFINE x == XorShift(z, bits)
           y == XorShift(w, bits)
<1>1. x \in Word /\ y \in Word /\ factor \in Nat /\ Word = 0 .. MaxWord /\ MaxWord \in Nat
  BY ShiftedWord, WordFacts
<1>2. x = y => z = w
  BY ShiftInjective
<1> HIDE DEF x, y
<1> DEFINE p == x * factor
<1>3. p \in Nat
  BY <1>1
<1>4. Wrap(p) \in Word
  <2> HIDE DEF p
  <2> QED
    BY <1>3, WrapWord
<1>5. Wrap(x * factor) = Wrap(y * factor) => x = y
  BY <1>1, WrapMultiplies
<1> QED
  BY <1>2, <1>4, <1>5 DEF x, y

(* The mixing is of words and tells any two apart.                         *)
LEMMA SeedsApart ==
  ASSUME NEW s \in Word, NEW t \in Word, NEW i \in Nat, NEW j \in Nat
  PROVE  /\ StageSeed(s, i) \in Word
         /\ StageSeed(s, i) = StageSeed(t, j) => Offset(s, i) = Offset(t, j)
<1>1. /\ Mix1 \in Word /\ Mix1 % 2 = 1 /\ Mix2 \in Word /\ Mix2 % 2 = 1
      /\ Shifts[1] \in Nat \ {0} /\ Shifts[2] \in Nat \ {0} /\ Shifts[3] \in Nat \ {0}
  <2>1. Mix1 \in Word /\ Mix1 % 2 = 1 /\ Mix2 \in Word /\ Mix2 % 2 = 1
    BY MixAssumption
  <2>2. Shifts \in Seq(Nat \ {0}) /\ Len(Shifts) = 3
    BY MixAssumption
  <2>3. \A k \in 1 .. 3 : Shifts[k] \in Nat \ {0}
    BY <2>2
  <2> QED
    BY <2>1, <2>3
<1> DEFINE z1 == Offset(s, i)
           z2 == Wrap(XorShift(z1, Shifts[1]) * Mix1)
           z3 == Wrap(XorShift(z2, Shifts[2]) * Mix2)
           w1 == Offset(t, j)
           w2 == Wrap(XorShift(w1, Shifts[1]) * Mix1)
           w3 == Wrap(XorShift(w2, Shifts[2]) * Mix2)
<1>2. StageSeed(s, i) = XorShift(z3, Shifts[3]) /\ StageSeed(t, j) = XorShift(w3, Shifts[3])
  BY DEF StageSeed, Offset
<1>3. z1 \in Word /\ w1 \in Word
  BY OffsetWord
<1> HIDE DEF z1, w1
<1>4. z2 \in Word /\ w2 \in Word /\ (z2 = w2 => z1 = w1)
  BY <1>1, <1>3, MixInjective
<1> HIDE DEF z2, w2
<1>5. z3 \in Word /\ w3 \in Word /\ (z3 = w3 => z2 = w2)
  BY <1>1, <1>4, MixInjective
<1> HIDE DEF z3, w3
<1>6. XorShift(z3, Shifts[3]) \in Word /\ (XorShift(z3, Shifts[3]) = XorShift(w3, Shifts[3]) => z3 = w3)
  BY <1>1, <1>5, ShiftedWord, ShiftInjective
<1> QED
  BY <1>2, <1>4, <1>5, <1>6 DEF z1, w1

(* Positions of one pipeline, and seeds of one position.                   *)
LEMMA PositionsApart ==
  ASSUME NEW s \in Word, NEW i \in Word, NEW j \in Word, StageSeed(s, i) = StageSeed(s, j)
  PROVE  i = j
<1>1. /\ GoldenGamma \in Nat /\ GoldenGamma % 2 = 1 /\ Word = 0 .. MaxWord /\ MaxWord \in Nat
      /\ i \in Nat /\ j \in Nat /\ s \in Nat
  BY MixAssumption, WordFacts
<1>2. Offset(s, i) = Offset(s, j)
  BY <1>1, SeedsApart
<1> DEFINE a == Wrap(i * GoldenGamma)
           b == Wrap(j * GoldenGamma)
<1>3. a \in Word /\ b \in Word
  BY <1>1, OffsetWord
<1>4. Wrap(s + a) = Wrap(s + b)
  BY <1>2 DEF Offset
<1>5. a = b
  <2> HIDE DEF a, b
  <2>1. s + a = a + s /\ s + b = b + s
    BY <1>1, <1>3
  <2>2. Wrap(a + s) = Wrap(b + s)
    BY <1>4, <2>1
  <2> QED
    BY <1>1, <1>3, <2>2, WrapAdds
<1> QED
  BY <1>1, <1>5, WrapMultiplies

LEMMA PipelinesApart ==
  ASSUME NEW s \in Word, NEW t \in Word, NEW i \in Nat, StageSeed(s, i) = StageSeed(t, i)
  PROVE  s = t
<1>1. Offset(s, i) = Offset(t, i)
  BY SeedsApart
<1> DEFINE a == Wrap(i * GoldenGamma)
<1>2. a \in Word /\ Word \subseteq Nat
  BY OffsetWord, WordFacts
<1>3. Wrap(s + a) = Wrap(t + a)
  BY <1>1 DEF Offset
<1> HIDE DEF a
<1> QED
  BY <1>2, <1>3, WrapAdds

LEMMA AllSeedsDiffer == SeedsDiffer
<1>1. /\ IsFiniteSet(Word) /\ Cardinality(Word) = 2^WordBits
  <2>1. Word = 0 .. MaxWord /\ MaxWord \in Nat /\ MaxWord + 1 = 2^WordBits
    BY WordFacts
  <2>2. IsFiniteSet(0 .. MaxWord) /\ Cardinality(0 .. MaxWord) = (IF 0 > MaxWord THEN 0 ELSE (MaxWord - 0) + 1)
    BY <2>1, FS_Interval
  <2> HIDE DEF MaxWord
  <2>3. ~(0 > MaxWord) /\ (MaxWord - 0) + 1 = MaxWord + 1
    BY <2>1
  <2> QED
    BY <2>1, <2>2, <2>3
<1>2. ASSUME NEW i \in 1 .. 3
      PROVE  Cardinality({StageSeed(s, i) : s \in Word}) = 2^WordBits
  <2> DEFINE T == {StageSeed(s, i) : s \in Word}
             f == [s \in Word |-> StageSeed(s, i)]
  <2>1. f \in Surjection(Word, T)
    BY DEF Surjection
  <2>2. \A s, t \in Word : StageSeed(s, i) = StageSeed(t, i) => s = t
    <3>1. i \in Nat
      OBVIOUS
    <3> QED
      BY <3>1, PipelinesApart
  <2>3. f \in Injection(Word, T)
    BY <2>2 DEF Injection, IsInjective
  <2> HIDE DEF T, f
  <2>4. Cardinality(T) = Cardinality(Word)
    BY <1>1, <2>1, <2>3, FS_Surjection
  <2> QED
    BY <1>1, <2>4 DEF T
<1> QED
  BY <1>2 DEF SeedsDiffer

(* What a manifest records of a stage runs it again.                       *)
LEMMA ReplayedStage ==
  ASSUME NEW stage, NEW its, IsStage(stage), StageAccepted(stage),
         stage.transform = "quantise" => its = None, stage.transform # "quantise" => its # None
  PROVE  LET record == TransformRecord(stage, its)
             again  == Replayed(record)
         IN  /\ StageAccepted(again) /\ ~Derives(again) /\ again.seed = its
             /\ again.transform = stage.transform /\ TransformRecord(again, its) = record
<1> DEFINE record == TransformRecord(stage, its)
           again  == Replayed(record)
           names == DOMAIN Parameters(stage)
<1>1. /\ names = CASE stage.transform = "sample"   -> {"rate"}
                   [] stage.transform = "fuzz"     -> {"distribution", "scale", "mode", "targets", "min", "max"}
                   [] stage.transform = "quantise" -> {"scheme"}
      /\ \A name \in names : Parameters(stage)[name] = stage[name]
  BY DEF Parameters
<1>2. stage.transform \in {"sample", "fuzz", "quantise"}
  BY DEF IsStage
<1>3. "transform" \notin names /\ "seed" \notin names
  BY <1>1, <1>2
<1>4. record.transform = stage.transform /\ record.parameters = Parameters(stage) /\ record.seed = its
  BY DEF TransformRecord
<1> HIDE DEF record, names
<1>5. /\ DOMAIN again = names \cup {"transform", "seed"}
      /\ \A name \in names \cup {"transform", "seed"} :
           again[name] = IF name \in names THEN record.parameters[name] ELSE record[name]
  BY <1>4 DEF Replayed, names
<1> HIDE DEF again
<1>6. again.transform = stage.transform /\ again.seed = its /\ \A name \in names : again[name] = stage[name]
  BY <1>1, <1>3, <1>4, <1>5
<1>7. Parameters(again) = Parameters(stage)
  <2>1. CASE stage.transform = "sample"
    <3>1. names = {"rate"}
      BY <1>1, <2>1
    <3>2. again.transform = "sample" /\ again.rate = stage.rate
      BY <1>6, <2>1, <3>1
    <3> QED
      BY <2>1, <3>2 DEF Parameters
  <2>2. CASE stage.transform = "fuzz"
    <3>1. names = {"distribution", "scale", "mode", "targets", "min", "max"}
      BY <1>1, <2>2
    <3>2. Parameters(again) = [name \in {"distribution", "scale", "mode", "targets", "min", "max"} |-> again[name]]
      BY <1>6, <2>2 DEF Parameters
    <3>3. Parameters(stage) = [name \in {"distribution", "scale", "mode", "targets", "min", "max"} |-> stage[name]]
      BY <2>2 DEF Parameters
    <3> QED
      BY <1>6, <3>1, <3>2, <3>3
  <2>3. CASE stage.transform = "quantise"
    <3>1. names = {"scheme"}
      BY <1>1, <2>3
    <3>2. again.transform = "quantise" /\ again.scheme = stage.scheme
      BY <1>6, <2>3, <3>1
    <3> QED
      BY <2>3, <3>2 DEF Parameters
  <2> QED
    BY <1>2, <2>1, <2>2, <2>3
<1>8. StageAccepted(again)
  <2>1. CASE stage.transform = "sample"
    <3>1. names = {"rate"}
      BY <1>1, <2>1
    <3>2. again.transform = "sample" /\ again.rate = stage.rate
      BY <1>6, <2>1, <3>1
    <3>3. RateAccepted(stage.rate)
      BY <2>1 DEF StageAccepted
    <3> QED
      BY <3>2, <3>3 DEF StageAccepted
  <2>2. CASE stage.transform = "fuzz"
    <3>1. names = {"distribution", "scale", "mode", "targets", "min", "max"}
      BY <1>1, <2>2
    <3>2. /\ again.transform = "fuzz" /\ again.distribution = stage.distribution /\ again.scale = stage.scale
          /\ again.mode = stage.mode /\ again.targets = stage.targets /\ again.min = stage.min /\ again.max = stage.max
      BY <1>6, <2>2, <3>1
    <3>3. PolicyAccepted(stage)
      BY <2>2 DEF StageAccepted
    <3>4. PolicyAccepted(again) = PolicyAccepted(stage)
      BY <3>2, Zenon DEF PolicyAccepted
    <3> QED
      BY <3>2, <3>3, <3>4 DEF StageAccepted
  <2>3. CASE stage.transform = "quantise"
    <3>1. names = {"scheme"}
      BY <1>1, <2>3
    <3>2. again.transform = "quantise" /\ again.scheme = stage.scheme
      BY <1>6, <2>3, <3>1
    <3> QED
      BY <2>3, <3>2 DEF StageAccepted
  <2> QED
    BY <1>2, <2>1, <2>2, <2>3
<1>9. ~Derives(again)
  BY <1>6 DEF Derives
<1>10. TransformRecord(again, its) = record
  BY <1>6, <1>7 DEF TransformRecord, record
<1> QED
  BY <1>6, <1>8, <1>9, <1>10 DEF again, record

(* Of a run that has started, what each stage is and which seed it has.    *)
LEMMA StartedStages ==
  ASSUME RequestInv, phase = "started", NEW i \in DOMAIN records
  PROVE  /\ records[i] = TransformRecord(asked.stages[i], SeedsGiven[i])
         /\ i \in 1 .. Len(asked.stages) /\ i \in DOMAIN asked.stages /\ Len(asked.stages) \in Word
         /\ IsStage(asked.stages[i]) /\ StageAccepted(asked.stages[i])
         /\ asked.stages[i].transform = "quantise" => SeedsGiven[i] = None
         /\ asked.stages[i].transform # "quantise" => SeedsGiven[i] # None
         /\ asked.command = "pipeline" => SeedsGiven = Plan(asked.stages, seed) /\ seed \in Word
<1>1. /\ IsCommandLine(asked) /\ Validated /\ None \notin Word /\ Word = 0 .. MaxWord /\ MaxWord \in Nat
      /\ records = [k \in DOMAIN SeedsGiven |-> TransformRecord(asked.stages[k], SeedsGiven[k])]
      /\ IF asked.command = "quantise" THEN seed = None ELSE seed \in Word
  BY AskedFor, FloatAssumption, WordFacts DEF RequestInv, Drawn
<1>2. /\ i \in DOMAIN SeedsGiven /\ records[i] = TransformRecord(asked.stages[i], SeedsGiven[i])
  BY <1>1
<1>3. /\ DOMAIN asked.stages = 1 .. Len(asked.stages) /\ Len(asked.stages) \in Word
      /\ \A k \in DOMAIN asked.stages : IsStage(asked.stages[k])
  BY <1>1 DEF IsCommandLine
<1>4. \A k \in 1 .. Len(asked.stages) : StageAccepted(asked.stages[k])
  <2>1. Len(kinds) = Len(asked.stages)
        /\ \A k \in 1 .. Len(kinds) : kinds[k] = asked.stages[k].transform /\ StageAccepted(asked.stages[k])
    BY <1>1 DEF Validated, Live
  <2> QED
    BY <2>1
<1>5. CASE asked.command = "pipeline"
  <2>1. SeedsGiven = Plan(asked.stages, seed) /\ seed \in Word
    BY <1>1, <1>5 DEF SeedsGiven
  <2>2. i \in DOMAIN asked.stages
    BY <1>2, <2>1 DEF Plan
  <2>3. SeedsGiven[i] = (IF asked.stages[i].transform = "quantise" THEN None
                         ELSE IF Derives(asked.stages[i]) THEN StageSeed(seed, i) ELSE asked.stages[i].seed)
    BY <2>1, <2>2 DEF Plan
  <2>4. asked.stages[i].transform # "quantise" => SeedsGiven[i] # None
    <3>1. i \in Nat
      BY <1>1, <1>3, <2>2
    <3>2. StageSeed(seed, i) \in Word
      BY <2>1, <3>1, SeedsApart
    <3> QED
      BY <1>1, <2>3, <3>2 DEF Derives
  <2> QED
    BY <1>2, <1>3, <1>4, <2>1, <2>2, <2>3, <2>4
<1>6. CASE asked.command # "pipeline"
  <2>1. Len(asked.stages) = 1 /\ asked.command = asked.stages[1].transform
    BY <1>1, <1>6 DEF IsCommandLine
  <2>2. SeedsGiven = <<seed>>
    BY <1>6 DEF SeedsGiven
  <2>3. i = 1 /\ SeedsGiven[i] = seed
    BY <1>2, <2>2
  <2>4. i \in DOMAIN asked.stages
    BY <1>3, <2>1, <2>3
  <2> QED
    BY <1>1, <1>2, <1>3, <1>4, <1>6, <2>1, <2>3, <2>4
<1> QED
  BY <1>5, <1>6

(* Requests.SeedsReplay: stages that derive their seeds derive different   *)
(* ones, so do pipelines of different seeds, and what the manifest records *)
(* of a stage runs it again as it was (pipeline/plan.rs:88-90).            *)
THEOREM SeedsReplayed == RequestsSpec => []SeedsReplay
<1>1. RequestInv => SeedsReplay
  <2> SUFFICES ASSUME RequestInv, phase = "started" PROVE SeedsReplay
    BY DEF SeedsReplay
  <2> DEFINE deriving == {i \in DOMAIN records : asked.command = "pipeline" /\ Derives(asked.stages[i])}
             again == [i \in DOMAIN records |-> Replayed(records[i])]
  <2>1. ASSUME NEW i \in deriving, NEW j \in deriving, records[i].seed = records[j].seed PROVE i = j
    <3>1. ASSUME NEW k \in deriving
          PROVE  k \in Word /\ records[k].seed = StageSeed(seed, k) /\ seed \in Word
      <4>1. k \in DOMAIN records /\ asked.command = "pipeline" /\ Derives(asked.stages[k])
        OBVIOUS
      <4>2. /\ records[k] = TransformRecord(asked.stages[k], SeedsGiven[k])
            /\ k \in 1 .. Len(asked.stages) /\ k \in DOMAIN asked.stages /\ Len(asked.stages) \in Word
            /\ SeedsGiven = Plan(asked.stages, seed) /\ seed \in Word
        BY <4>1, StartedStages
      <4>3. SeedsGiven[k] = StageSeed(seed, k)
        BY <4>1, <4>2 DEF Plan, Derives
      <4> QED
        BY <4>2, <4>3, WordFacts DEF TransformRecord
    <3> HIDE DEF deriving
    <3>2. i \in Word /\ j \in Word /\ seed \in Word /\ StageSeed(seed, i) = StageSeed(seed, j)
      BY <2>1, <3>1
    <3> QED
      BY <3>2, PositionsApart
  <2>2. ASSUME NEW i \in DOMAIN records
        PROVE  StageAccepted(again[i]) /\ TransformRecord(again[i], Plan(again, Wrap(17 * i))[i]) = records[i]
    <3> DEFINE stage == asked.stages[i]
               its == SeedsGiven[i]
    <3>1. /\ records[i] = TransformRecord(stage, its)
          /\ IsStage(stage) /\ StageAccepted(stage)
          /\ stage.transform = "quantise" => its = None
          /\ stage.transform # "quantise" => its # None
      BY StartedStages
    <3> HIDE DEF stage, its
    <3>2. again[i] = Replayed(TransformRecord(stage, its)) /\ DOMAIN again = DOMAIN records
      BY <3>1
    <3> HIDE DEF again
    <3>3. /\ StageAccepted(again[i]) /\ ~Derives(again[i]) /\ again[i].seed = its
          /\ again[i].transform = stage.transform /\ TransformRecord(again[i], its) = TransformRecord(stage, its)
      BY <3>1, <3>2, ReplayedStage
    <3>4. Plan(again, Wrap(17 * i))[i] = its
      BY <3>1, <3>2, <3>3 DEF Plan
    <3> QED
      BY <3>1, <3>3, <3>4
  <2> QED
    BY <2>1, <2>2, AllSeedsDiffer DEF SeedsReplay
<1> QED
  BY <1>1, RequestsChecked, PTL

=============================================================================
