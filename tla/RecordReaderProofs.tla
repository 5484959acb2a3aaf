------------------------- MODULE RecordReaderProofs -------------------------
(***************************************************************************)
(* What RecordReader guarantees for every record width, buffer and list of *)
(* files, however the reads are cut: records come whole and in order, and  *)
(* the stream ends only for the reason it gives.                           *)
(***************************************************************************)
EXTENDS RecordReader, WellFoundedInduction, TLAPS

-----------------------------------------------------------------------------
(* Arithmetic.                                                             *)

(* Any set of numbers has a least one.                                     *)
LEMMA Least ==
  ASSUME NEW T \in SUBSET Nat, T # {}
  PROVE  \E n \in T : \A m \in T : n <= m
<1>1. PICK x \in T : \A y \in T : ~ (<<y, x>> \in OpToRel(<, Nat))
  BY NatLessThanWellFounded, WFMin, Zenon
<1>2. \A y \in T : ~(y < x)
  <2> SUFFICES ASSUME NEW y \in T, y < x PROVE FALSE
    OBVIOUS
  <2>1. <<y, x>> \in OpToRel(<, Nat)
    BY Zenon DEF OpToRel
  <2> QED
    BY <1>1, <2>1, Zenon
<1> QED
  BY <1>2

(* Multiplying keeps the order.                                            *)
LEMMA Product ==
  ASSUME NEW a \in Nat, NEW b \in Nat, NEW c \in Nat, a <= b
  PROVE  a * c \in Nat /\ b * c \in Nat /\ a * c <= b * c
OBVIOUS

(* How many whole records fit a length, and when it holds no others.       *)
LEMMA Fits ==
  ASSUME NEW b \in Nat
  PROVE  /\ b \div Width \in Nat
         /\ \A k \in Nat, rest \in 0 .. Width - 1 :
              b = (k * Width) + rest => b \div Width = k /\ (b % Width = 0 <=> rest = 0)
         /\ \A k \in Nat : k * Width <= b => k <= b \div Width
<1> DEFINE d == b \div Width
           r == b % Width
<1>1. Width \in Nat \ {0}
  BY WidthAssumption
<1>2. d \in Nat /\ r \in 0 .. Width - 1 /\ b = (d * Width) + r
  BY <1>1
<1> HIDE DEF d, r
<1>3. d * Width \in Nat /\ (d + 1) * Width = (d * Width) + Width
  BY <1>1, <1>2
<1>4. ASSUME NEW k \in Nat, k * Width <= b PROVE k <= d
  <2>1. k >= d + 1 => (d + 1) * Width <= k * Width
    BY <1>1, <1>2, Product
  <2>2. k * Width \in Nat
    BY <1>1
  <2> QED
    BY <1>1, <1>2, <1>3, <1>4, <2>1, <2>2
<1>5. ASSUME NEW k \in Nat, NEW rest \in 0 .. Width - 1, b = (k * Width) + rest
      PROVE  d = k /\ (r = 0 <=> rest = 0)
  <2>1. k * Width \in Nat /\ (k + 1) * Width = (k * Width) + Width
    BY <1>1
  <2>2. d >= k + 1 => (k + 1) * Width <= d * Width
    BY <1>1, <1>2, Product
  <2>3. k <= d
    BY <1>4, <1>5, <1>1, <2>1
  <2>4. d = k
    BY <1>1, <1>2, <1>3, <1>5, <2>1, <2>2, <2>3
  <2>5. r = rest
    BY <1>1, <1>2, <1>3, <1>5, <2>1, <2>4
  <2> QED
    BY <2>4, <2>5
<1> QED
  BY <1>2, <1>4, <1>5 DEF d, r

(* The buffer holds at least one record.                                   *)
LEMMA Roomy == BufferBytes \in Nat /\ BufferBytes >= Width
<1>1. BufferRecords \in Nat /\ 1 <= BufferRecords /\ Width \in Nat /\ 1 * Width = Width
  BY WidthAssumption
<1> QED
  BY <1>1, Product DEF BufferBytes

-----------------------------------------------------------------------------
(* The count of records, file after file.                                  *)

(* The definition by recursion has a solution, so it can be unfolded.      *)
LEMMA Unfolds ==
  ASSUME lengths \in Seq(Nat)
  PROVE  RecordsUpTo = [f \in 0 .. Len(lengths) |->
                          IF f = 0 THEN 0 ELSE RecordsUpTo[f - 1] + lengths[f] \div Width]
<1> DEFINE Solves(g, n) ==
             g = [f \in 0 .. n |-> IF f = 0 THEN 0 ELSE g[f - 1] + lengths[f] \div Width]
           Unsolved == {n \in Nat : ~ \E g : Solves(g, n)}
<1>1. Unsolved = {}
  <2> SUFFICES ASSUME Unsolved # {} PROVE FALSE
    OBVIOUS
  <2>1. PICK n \in Unsolved : \A m \in Unsolved : n <= m
    BY Least
  <2>2. n \in Nat /\ ~ \E g : Solves(g, n)
    OBVIOUS
  <2>3. CASE n = 0
    <3>1. Solves([f \in 0 .. 0 |-> 0], 0)
      OBVIOUS
    <3> QED
      BY <2>2, <2>3, <3>1
  <2>4. CASE n # 0
    <3>1. n - 1 \in Nat /\ ~(n <= n - 1)
      BY <2>2, <2>4
    <3>2. \E g : Solves(g, n - 1)
      <4> HIDE DEF Solves
      <4>1. n - 1 \notin Unsolved
        <5> HIDE DEF Unsolved
        <5> QED
          BY <2>1, <3>1, Zenon
      <4> QED
        BY <3>1, <4>1
    <3>3. PICK g : Solves(g, n - 1)
      BY <3>2, Zenon
    <3> DEFINE h == [f \in 0 .. n |-> IF f = 0 THEN 0 ELSE g[f - 1] + lengths[f] \div Width]
    <3>4. ASSUME NEW f \in 0 .. n - 1 PROVE h[f] = g[f]
      <4>1. g[f] = IF f = 0 THEN 0 ELSE g[f - 1] + lengths[f] \div Width
        BY <3>3
      <4>2. f \in 0 .. n
        BY <2>2
      <4> QED
        BY <4>1, <4>2, Zenon
    <3>5. ASSUME NEW f \in 0 .. n, f # 0 PROVE h[f] = h[f - 1] + lengths[f] \div Width
      <4>1. f - 1 \in 0 .. n - 1
        BY <2>2, <3>5
      <4>2. h[f - 1] = g[f - 1]
        BY <3>4, <4>1
      <4>3. h[f] = g[f - 1] + lengths[f] \div Width
        BY <3>5
      <4> QED
        BY <4>2, <4>3
    <3>6. h[0] = 0
      BY <2>2
    <3>7. h = [f \in 0 .. n |-> h[f]]
      OBVIOUS
    <3> HIDE DEF h
    <3>8. Solves(h, n)
      BY <3>5, <3>6, <3>7
    <3> QED
      BY <2>2, <3>8
  <2> QED
    BY <2>3, <2>4
<1>2. Len(lengths) \in Nat
  OBVIOUS
<1>3. PICK g : Solves(g, Len(lengths))
  BY <1>1, <1>2
<1> QED
  BY <1>3, Zenon DEF RecordsUpTo

(* What the count is, and that it never falls.                             *)
LEMMA Counts ==
  ASSUME lengths \in Seq(Nat)
  PROVE  /\ RecordsUpTo[0] = 0
         /\ \A f \in 0 .. Len(lengths) : RecordsUpTo[f] \in Nat
         /\ \A f \in 1 .. Len(lengths) :
              RecordsUpTo[f] = RecordsUpTo[f - 1] + lengths[f] \div Width
         /\ \A f \in 0 .. Len(lengths) : \A g \in 0 .. f : RecordsUpTo[g] <= RecordsUpTo[f]
<1> DEFINE R == RecordsUpTo
<1>0. Len(lengths) \in Nat
  OBVIOUS
<1>1. R = [f \in 0 .. Len(lengths) |-> IF f = 0 THEN 0 ELSE R[f - 1] + lengths[f] \div Width]
  BY Unfolds
<1> HIDE DEF R
<1>2. R[0] = 0
  BY <1>0, <1>1
<1>3. ASSUME NEW f \in 1 .. Len(lengths)
      PROVE  R[f] = R[f - 1] + lengths[f] \div Width /\ lengths[f] \div Width \in Nat
  <2>1. lengths[f] \in Nat /\ f \in 0 .. Len(lengths) /\ f # 0
    BY <1>0
  <2>2. lengths[f] \div Width \in Nat
    BY <2>1, Fits
  <2> QED
    BY <1>1, <2>1, <2>2, Zenon
<1> DEFINE Good(f) == R[f] \in Nat /\ \A g \in 0 .. f : R[g] <= R[f]
           Bad     == {f \in 0 .. Len(lengths) : ~Good(f)}
<1>4. Bad = {}
  <2> SUFFICES ASSUME Bad # {} PROVE FALSE
    OBVIOUS
  <2>0. Bad \in SUBSET Nat
    BY <1>0
  <2>1. PICK f \in Bad : \A g \in Bad : f <= g
    <3> HIDE DEF Bad
    <3> QED
      BY <2>0, Least, Zenon
  <2>2. f # 0
    BY <1>2
  <2>3. f \in 1 .. Len(lengths) /\ f - 1 \in 0 .. Len(lengths)
    BY <1>0, <2>2
  <2>4. Good(f - 1)
    BY <2>1, <2>3
  <2>5. R[f] \in Nat /\ R[f - 1] <= R[f] /\ R[f - 1] \in Nat
    BY <1>3, <2>3, <2>4
  <2>6. ASSUME NEW g \in 0 .. f PROVE R[g] <= R[f]
    <3>1. CASE g = f
      BY <2>5, <3>1
    <3>2. CASE g # f
      <4>1. g \in 0 .. f - 1
        BY <2>3, <3>2
      <4>2. R[g] <= R[f - 1] /\ g \in 0 .. Len(lengths)
        BY <1>0, <2>3, <2>4, <4>1
      <4>3. g \notin Bad
        BY <2>1, <2>3, <4>1
      <4>4. R[g] \in Nat
        BY <4>2, <4>3
      <4> QED
        BY <2>5, <4>2, <4>4
    <3> QED
      BY <3>1, <3>2
  <2> QED
    BY <2>5, <2>6
<1> QED
  BY <1>2, <1>3, <1>4 DEF R


(* The record with a number that the f-th file holds is read from that file. *)
LEMMA Named ==
  ASSUME lengths \in Seq(Nat), NEW f \in 1 .. Len(lengths), NEW n \in Nat,
         RecordsUpTo[f - 1] < n, n <= RecordsUpTo[f]
  PROVE  RecordOf(n) = [i \in Slice |-> <<f, (n - 1 - RecordsUpTo[f - 1]) * Width + i>>]
<1> DEFINE Holds(g) == RecordsUpTo[g - 1] < n /\ n <= RecordsUpTo[g]
           file     == CHOOSE g \in 1 .. Len(lengths) : Holds(g)
<1>1. Len(lengths) \in Nat
  OBVIOUS
<1>2. /\ \A g \in 0 .. Len(lengths) : RecordsUpTo[g] \in Nat
      /\ \A g \in 0 .. Len(lengths) : \A e \in 0 .. g : RecordsUpTo[e] <= RecordsUpTo[g]
  BY Counts
<1>3. ASSUME NEW g \in 1 .. Len(lengths), Holds(g) PROVE g = f
  <2>1. CASE g < f
    <3>1. g \in 0 .. f - 1 /\ f - 1 \in 0 .. Len(lengths) /\ g \in 0 .. Len(lengths)
      BY <1>1, <2>1
    <3>2. RecordsUpTo[g] <= RecordsUpTo[f - 1] /\ RecordsUpTo[g] \in Nat /\ RecordsUpTo[f - 1] \in Nat
      BY <1>2, <3>1, Zenon
    <3> QED
      BY <1>3, <3>2
  <2>2. CASE f < g
    <3>1. f \in 0 .. g - 1 /\ g - 1 \in 0 .. Len(lengths) /\ f \in 0 .. Len(lengths)
      BY <1>1, <2>2
    <3>2. RecordsUpTo[f] <= RecordsUpTo[g - 1] /\ RecordsUpTo[f] \in Nat /\ RecordsUpTo[g - 1] \in Nat
      BY <1>2, <3>1, Zenon
    <3> QED
      BY <1>3, <3>2
  <2> QED
    BY <1>1, <2>1, <2>2
<1>4. Holds(f)
  OBVIOUS
<1> HIDE DEF Holds
<1>5. file \in 1 .. Len(lengths) /\ Holds(file)
  BY <1>4, Zenon
<1>6. file = f
  BY <1>3, <1>5, Zenon
<1> QED
  BY <1>6 DEF RecordOf, Holds

(* The count depends on nothing but the lengths.                           *)
LEMMA CountStays ==
  ASSUME lengths' = lengths
  PROVE  RecordsUpTo' = RecordsUpTo /\ RecordOf(records_read)' = RecordOf(records_read')
<1>1. RecordsUpTo' = RecordsUpTo
  BY Zenon DEF RecordsUpTo
<1> QED
  BY <1>1 DEF RecordOf

-----------------------------------------------------------------------------
(* The inductive invariant.                                                *)

Sound(f) == lengths[f] > 0 /\ lengths[f] % Width = 0

(* While a file is open, the buffered bytes are the last ones read from    *)
(* it, and every whole record before them has been handed out.             *)
Streaming ==
  current =>
    /\ byte_len <= lengths[opened]
    /\ Buffered <= byte_len
    /\ records_read >= RecordsUpTo[opened - 1]
    /\ byte_len - Buffered = (records_read - RecordsUpTo[opened - 1]) * Width
    /\ \A i \in 0 .. Buffered - 1 : buffer[cursor + i] = <<opened, byte_len - Buffered + i>>

(* Between two files nothing is buffered and nothing is owed.              *)
Between ==
  ~current /\ ~exhausted => Buffered = 0 /\ records_read = RecordsUpTo[opened]

(* Every file that was retired without an error held whole records.        *)
Passed ==
  /\ ~exhausted => failure = "none"
  /\ failure = "none" => \A f \in 1 .. opened : (f = opened /\ current) \/ Sound(f)
  /\ exhausted /\ failure = "none" => ~current

IInv == TypeOK /\ Streaming /\ Between /\ Passed /\ InOrder /\ EndIsEarned

(* What the types give, in the form the steps below cite.                  *)
LEMMA Types ==
  ASSUME TypeOK
  PROVE  /\ lengths \in Seq(Nat) /\ Len(lengths) \in Nat
         /\ opened \in Nat /\ opened <= Len(lengths)
         /\ byte_len \in Nat /\ records_read \in Nat
         /\ filled \in Nat /\ cursor \in Nat /\ cursor <= filled /\ filled <= BufferBytes
         /\ Buffered \in Nat /\ Buffered <= filled /\ cursor + Buffered = filled
         /\ BufferBytes \in Nat /\ Width \in Nat /\ Width > 0
         /\ RecordsUpTo[0] = 0
         /\ RecordsUpTo[opened] \in Nat
         /\ current => /\ opened \in 1 .. Len(lengths) /\ lengths[opened] \in Nat
                       /\ RecordsUpTo[opened - 1] \in Nat
                       /\ lengths[opened] \div Width \in Nat
                       /\ RecordsUpTo[opened] = RecordsUpTo[opened - 1] + lengths[opened] \div Width
         /\ opened < Len(lengths) =>
              RecordsUpTo[opened + 1] \in Nat /\ RecordsUpTo[opened] <= RecordsUpTo[opened + 1]
<1>1. lengths \in Seq(Nat) /\ Len(lengths) \in Nat
  BY CorporaAssumption DEF TypeOK
<1>2. opened \in 0 .. Len(lengths)
  BY DEF TypeOK
<1>3. BufferBytes \in Nat /\ Width \in Nat /\ Width > 0
  BY Roomy, WidthAssumption
<1>4. byte_len \in Nat /\ records_read \in Nat /\ filled \in 0 .. BufferBytes /\ cursor \in 0 .. filled
  BY DEF TypeOK
<1>5. Buffered \in Nat /\ Buffered <= filled /\ cursor + Buffered = filled
  BY <1>3, <1>4 DEF Buffered
<1>6. /\ RecordsUpTo[0] = 0
      /\ \A f \in 0 .. Len(lengths) : RecordsUpTo[f] \in Nat
      /\ \A f \in 1 .. Len(lengths) :
           RecordsUpTo[f] = RecordsUpTo[f - 1] + lengths[f] \div Width
      /\ \A f \in 0 .. Len(lengths) : \A g \in 0 .. f : RecordsUpTo[g] <= RecordsUpTo[f]
  BY <1>1, Counts
<1>7. ASSUME current
      PROVE  /\ opened \in 1 .. Len(lengths) /\ lengths[opened] \in Nat
             /\ RecordsUpTo[opened - 1] \in Nat
             /\ lengths[opened] \div Width \in Nat
             /\ RecordsUpTo[opened] = RecordsUpTo[opened - 1] + lengths[opened] \div Width
  <2>1. opened \in 1 .. Len(lengths)
    BY <1>1, <1>2, <1>7 DEF TypeOK
  <2>2. opened - 1 \in 0 .. Len(lengths)
    BY <1>1, <2>1
  <2>3. lengths[opened] \in Nat
    BY <1>1, <2>1
  <2>4. lengths[opened] \div Width \in Nat
    BY <2>3, Fits
  <2> QED
    BY <1>6, <2>1, <2>2, <2>3, <2>4, Zenon
<1>8. ASSUME opened < Len(lengths)
      PROVE  RecordsUpTo[opened + 1] \in Nat /\ RecordsUpTo[opened] <= RecordsUpTo[opened + 1]
  <2>1. opened + 1 \in 0 .. Len(lengths) /\ opened \in 0 .. opened + 1
    BY <1>1, <1>2, <1>8
  <2> QED
    BY <1>6, <2>1, Zenon
<1>9. RecordsUpTo[opened] \in Nat
  BY <1>2, <1>6, Zenon
<1>10. opened \in Nat /\ opened <= Len(lengths)
  BY <1>1, <1>2
<1> QED
  BY <1>1, <1>3, <1>4, <1>5, <1>6, <1>7, <1>8, <1>9, <1>10

(* Moving the buffered bytes to the front loses none of them.              *)
LEMMA Compacts ==
  ASSUME TypeOK, Compact, buffer' = Compacted
  PROVE  /\ Buffered' = Buffered /\ cursor' = 0
         /\ filled' \in 0 .. BufferBytes /\ cursor' \in 0 .. filled'
         /\ buffer' \in [Places -> (Nat \X Nat) \cup {Stale}]
         /\ \A i \in 0 .. Buffered - 1 : buffer'[cursor' + i] = buffer[cursor + i]
<1>1. filled \in Nat /\ cursor \in Nat /\ BufferBytes \in Nat /\ filled <= BufferBytes
      /\ Buffered \in Nat /\ Buffered <= filled /\ cursor + Buffered = filled
  BY Types
<1>2. filled' = Buffered /\ cursor' = 0
  BY DEF Compact
<1>3. Buffered' = Buffered
  BY <1>1, <1>2 DEF Buffered
<1>4. \A i \in 0 .. Buffered - 1 : cursor + i \in Places /\ i \in Places /\ cursor' + i = i
  BY <1>1, <1>2 DEF Places
<1>5. Compacted \in [Places -> (Nat \X Nat) \cup {Stale}]
  <2> DEFINE X == (Nat \X Nat) \cup {Stale}
  <2>1. buffer \in [Places -> X]
    BY DEF TypeOK
  <2> HIDE DEF X
  <2>2. ASSUME NEW i \in Places
        PROVE  (IF i < Buffered THEN buffer[cursor + i] ELSE buffer[i]) \in X
    <3>1. CASE i < Buffered
      <4>1. cursor + i \in Places
        BY <1>1, <3>1 DEF Places
      <4> QED
        BY <2>1, <3>1, <4>1
    <3>2. CASE ~(i < Buffered)
      BY <2>1, <3>2
    <3> QED
      BY <3>1, <3>2
  <2>3. Compacted \in [Places -> X]
    BY <2>2, Zenon DEF Compacted
  <2> QED
    BY <2>3 DEF X
<1>6. ASSUME NEW i \in 0 .. Buffered - 1 PROVE buffer'[cursor' + i] = buffer[cursor + i]
  <2>1. i < Buffered /\ i \in Places /\ cursor' + i = i
    BY <1>1, <1>4
  <2>2. Compacted[i] = buffer[cursor + i]
    BY <2>1, Zenon DEF Compacted
  <2> QED
    BY <2>1, <2>2, Zenon
<1>7. filled' \in 0 .. BufferBytes /\ cursor' \in 0 .. filled'
  BY <1>1, <1>2
<1> QED
  BY <1>2, <1>3, <1>5, <1>6, <1>7

(* A starved reader has room for at least one byte.                        *)
LEMMA StarvedHasRoom ==
  ASSUME TypeOK, Starved
  PROVE  Room # 0 /\ Buffered < Width
BY Types, Roomy DEF Starved, Room

-----------------------------------------------------------------------------
(* One lemma per action.                                                   *)

LEMMA HandOutKeeps ==
  ASSUME IInv, HandOut
  PROVE  IInv'
<1> DEFINE first == RecordsUpTo[opened - 1]
           given == records_read - first
<1>1. TypeOK /\ Streaming /\ Between /\ Passed /\ ~exhausted /\ Buffered >= Width
  BY DEF IInv, HandOut
<1>2. /\ lengths' = lengths /\ opened' = opened /\ current' = current /\ byte_len' = byte_len
      /\ buffer' = buffer /\ filled' = filled /\ exhausted' = exhausted /\ failure' = failure
      /\ cursor' = cursor + Width /\ records_read' = records_read + 1
      /\ record' = [i \in Slice |-> buffer[cursor + i]]
  BY DEF HandOut
<1>3. RecordsUpTo' = RecordsUpTo /\ RecordOf(records_read)' = RecordOf(records_read')
  BY <1>2, CountStays
<1>4. current
  BY <1>1, Types DEF Between
<1>5. /\ lengths \in Seq(Nat) /\ opened \in 1 .. Len(lengths) /\ lengths[opened] \in Nat
      /\ first \in Nat /\ lengths[opened] \div Width \in Nat
      /\ RecordsUpTo[opened] = first + lengths[opened] \div Width
      /\ Buffered \in Nat /\ cursor + Buffered = filled /\ cursor \in Nat /\ filled \in Nat
      /\ filled <= BufferBytes /\ BufferBytes \in Nat
      /\ Width \in Nat /\ Width > 0 /\ byte_len \in Nat /\ records_read \in Nat
  BY <1>1, <1>4, Types
<1>6. /\ byte_len <= lengths[opened] /\ Buffered <= byte_len /\ records_read >= first
      /\ byte_len - Buffered = given * Width
      /\ \A i \in 0 .. Buffered - 1 : buffer[cursor + i] = <<opened, byte_len - Buffered + i>>
  BY <1>1, <1>4 DEF Streaming
<1> DEFINE fits == lengths[opened] \div Width
<1>7. \A k \in Nat : k * Width <= lengths[opened] => k <= fits
  BY <1>5, Fits
<1> HIDE DEF fits, first
<1>8. given \in Nat
  BY <1>5, <1>6
<1>9. given + 1 = records_read' - first
  BY <1>2, <1>5
<1> HIDE DEF given
<1>10. given * Width \in Nat /\ (given + 1) * Width = (given * Width) + Width
  BY <1>5, <1>8
<1>11. Buffered' = Buffered - Width
  BY <1>2, <1>5 DEF Buffered
<1>12. (given + 1) * Width = byte_len - Buffered' /\ (given + 1) * Width <= lengths[opened]
  BY <1>1, <1>5, <1>6, <1>10, <1>11
<1>13. given + 1 <= fits
  BY <1>7, <1>8, <1>12
<1>14. first < records_read' /\ records_read' <= RecordsUpTo[opened] /\ records_read' \in Nat
       /\ records_read' - 1 - first = given
  BY <1>2, <1>5, <1>8, <1>9, <1>13 DEF fits
<1>15. TypeOK'
  <2>1. record' \in [Slice -> (Nat \X Nat) \cup {Stale}]
    <3>1. \A i \in Slice : cursor + i \in Places
      BY <1>1, <1>5 DEF Slice, Places
    <3> QED
      BY <1>1, <1>2, <3>1 DEF TypeOK
  <2>2. cursor' \in 0 .. filled'
    BY <1>1, <1>2, <1>5
  <2>3. records_read' \in Nat
    BY <1>14
  <2> QED
    BY <1>1, <1>2, <2>1, <2>2, <2>3 DEF TypeOK
<1>16. Streaming'
  <2>1. ASSUME NEW i \in 0 .. Buffered' - 1
        PROVE  buffer'[cursor' + i] = <<opened', byte_len' - Buffered' + i>>
    <3>1. Width + i \in 0 .. Buffered - 1 /\ cursor + (Width + i) = cursor' + i
      BY <1>2, <1>5, <1>1, <1>11
    <3>2. buffer[cursor + (Width + i)] = <<opened, byte_len - Buffered + (Width + i)>>
      BY <1>6, <3>1
    <3>3. byte_len - Buffered + (Width + i) = byte_len' - Buffered' + i
      BY <1>2, <1>5, <1>11
    <3> QED
      BY <1>2, <3>1, <3>2, <3>3
  <2>2. Buffered' <= byte_len'
    BY <1>1, <1>2, <1>5, <1>6, <1>11
  <2>3. records_read' >= RecordsUpTo'[opened' - 1]
    BY <1>2, <1>3, <1>5, <1>14 DEF first
  <2>4. byte_len' - Buffered' = (records_read' - RecordsUpTo'[opened' - 1]) * Width
    BY <1>2, <1>3, <1>9, <1>12 DEF first
  <2> QED
    BY <1>2, <1>6, <2>1, <2>2, <2>3, <2>4 DEF Streaming
<1>17. Between' /\ EndIsEarned'
  BY <1>1, <1>2, <1>4 DEF Between, EndIsEarned
<1>18. Passed'
  BY <1>1, <1>2 DEF Passed, Sound
<1>19. InOrder'
  <2>1. RecordOf(records_read') = [i \in Slice |-> <<opened, given * Width + i>>]
    BY <1>5, <1>14, Named DEF first
  <2>2. ASSUME NEW i \in Slice PROVE buffer[cursor + i] = <<opened, given * Width + i>>
    <3>1. i \in 0 .. Buffered - 1
      BY <1>1, <1>5 DEF Slice
    <3>2. buffer[cursor + i] = <<opened, byte_len - Buffered + i>>
      BY <1>6, <3>1
    <3>3. byte_len - Buffered = given * Width
      BY <1>6 DEF given
    <3> QED
      BY <3>2, <3>3
  <2>3. record' = RecordOf(records_read')
    BY <1>2, <2>1, <2>2
  <2> QED
    BY <1>3, <2>3 DEF InOrder
<1> QED
  BY <1>15, <1>16, <1>17, <1>18, <1>19 DEF IInv

(* Nothing was handed out: the last record is still the right one.         *)
LEMMA OrderStays ==
  ASSUME InOrder, lengths' = lengths, record' = record, records_read' = records_read
  PROVE  InOrder'
BY CountStays DEF InOrder

LEMMA OpenNextKeeps ==
  ASSUME IInv, OpenNext
  PROVE  IInv'
<1>1. TypeOK /\ Between /\ Passed /\ InOrder /\ ~exhausted /\ ~current /\ opened < Len(lengths)
  BY DEF IInv, OpenNext, Starved
<1>2. /\ lengths' = lengths /\ opened' = opened + 1 /\ current' = TRUE /\ byte_len' = 0
      /\ exhausted' = exhausted /\ failure' = failure
      /\ record' = record /\ records_read' = records_read
      /\ buffer' = Compacted /\ Compact
  BY DEF OpenNext
<1>3. RecordsUpTo' = RecordsUpTo
  BY <1>2, CountStays
<1>4. /\ Buffered' = Buffered /\ filled' \in 0 .. BufferBytes /\ cursor' \in 0 .. filled'
      /\ buffer' \in [Places -> (Nat \X Nat) \cup {Stale}]
  BY <1>1, <1>2, Compacts
<1>5. Buffered = 0 /\ records_read = RecordsUpTo[opened]
  BY <1>1 DEF Between
<1>6. /\ opened \in Nat /\ Len(lengths) \in Nat /\ lengths \in Seq(Nat)
      /\ RecordsUpTo[opened] \in Nat /\ Width \in Nat
  BY <1>1, Types
<1>7. TypeOK'
  <2>1. opened' \in 0 .. Len(lengths') /\ current' \in BOOLEAN /\ opened' > 0 /\ byte_len' \in Nat
    BY <1>1, <1>2, <1>6
  <2> QED
    BY <1>1, <1>2, <1>4, <2>1 DEF TypeOK
<1>8. Streaming'
  <2>1. opened' - 1 = opened /\ opened' \in 1 .. Len(lengths)
    BY <1>1, <1>2, <1>6
  <2>2. lengths'[opened'] >= 0
    BY <1>2, <1>6, <2>1
  <2>3. records_read' - RecordsUpTo'[opened' - 1] = 0
        /\ records_read' >= RecordsUpTo'[opened' - 1]
    BY <1>2, <1>3, <1>5, <1>6, <2>1
  <2>4. Buffered' = 0 /\ byte_len' = 0 /\ 0 * Width = 0
    BY <1>2, <1>4, <1>5, <1>6
  <2> QED
    BY <2>2, <2>3, <2>4 DEF Streaming
<1>9. Between' /\ EndIsEarned'
  BY <1>1, <1>2 DEF Between, EndIsEarned
<1>10. Passed'
  <2>1. ASSUME NEW f \in 1 .. opened' PROVE f = opened' \/ Sound(f)'
    <3>1. f # opened' => f \in 1 .. opened
      BY <1>2, <1>6
    <3> QED
      BY <1>1, <1>2, <3>1 DEF Passed, Sound
  <2> QED
    BY <1>1, <1>2, <2>1 DEF Passed
<1> QED
  BY <1>1, <1>2, <1>7, <1>8, <1>9, <1>10, OrderStays DEF IInv

LEMMA OpenFailsKeeps ==
  ASSUME IInv, OpenFails
  PROVE  IInv'
<1>1. TypeOK /\ Between /\ InOrder /\ ~exhausted /\ ~current /\ opened < Len(lengths)
  BY DEF IInv, OpenFails, Starved
<1>2. /\ lengths' = lengths /\ opened' = opened + 1 /\ current' = current /\ byte_len' = byte_len
      /\ exhausted' = TRUE /\ failure' = "io"
      /\ record' = record /\ records_read' = records_read
      /\ buffer' = Compacted /\ Compact
  BY DEF OpenFails, Fail
<1>3. RecordsUpTo' = RecordsUpTo
  BY <1>2, CountStays
<1>4. /\ filled' \in 0 .. BufferBytes /\ cursor' \in 0 .. filled'
      /\ buffer' \in [Places -> (Nat \X Nat) \cup {Stale}]
  BY <1>1, <1>2, Compacts
<1>5. /\ opened \in Nat /\ Len(lengths) \in Nat
      /\ records_read = RecordsUpTo[opened] /\ RecordsUpTo[opened] <= RecordsUpTo[opened + 1]
  BY <1>1, Types DEF Between
<1>6. TypeOK'
  <2>1. opened' \in 0 .. Len(lengths') /\ exhausted' \in BOOLEAN
        /\ failure' \in {"none", "io", "empty", "partial"}
    BY <1>1, <1>2, <1>5
  <2> QED
    BY <1>1, <1>2, <1>4, <2>1 DEF TypeOK
<1>7. Streaming' /\ Between' /\ Passed'
  BY <1>1, <1>2 DEF Streaming, Between, Passed
<1>8. EndIsEarned'
  BY <1>2, <1>3, <1>5 DEF EndIsEarned
<1> QED
  BY <1>1, <1>2, <1>6, <1>7, <1>8, OrderStays DEF IInv

LEMMA EndKeeps ==
  ASSUME IInv, End
  PROVE  IInv'
<1>1. TypeOK /\ Between /\ Passed /\ InOrder /\ ~exhausted /\ ~current /\ opened = Len(lengths)
  BY DEF IInv, End, Starved
<1>2. /\ lengths' = lengths /\ opened' = opened /\ current' = current /\ byte_len' = byte_len
      /\ exhausted' = TRUE /\ failure' = failure
      /\ record' = record /\ records_read' = records_read
      /\ buffer' = Compacted /\ Compact
  BY DEF End
<1>3. RecordsUpTo' = RecordsUpTo
  BY <1>2, CountStays
<1>4. /\ filled' \in 0 .. BufferBytes /\ cursor' \in 0 .. filled'
      /\ buffer' \in [Places -> (Nat \X Nat) \cup {Stale}]
  BY <1>1, <1>2, Compacts
<1>5. failure = "none" /\ records_read = RecordsUpTo[opened] /\ \A f \in 1 .. opened : Sound(f)
  BY <1>1 DEF Between, Passed
<1>6. TypeOK'
  BY <1>1, <1>2, <1>4 DEF TypeOK
<1>7. Streaming' /\ Between' /\ Passed'
  BY <1>1, <1>2, <1>5 DEF Streaming, Between, Passed, Sound
<1>8. EndIsEarned'
  BY <1>1, <1>2, <1>3, <1>5 DEF EndIsEarned, Sound
<1> QED
  BY <1>1, <1>2, <1>6, <1>7, <1>8, OrderStays DEF IInv

LEMMA ReadKeeps ==
  ASSUME IInv, NEW n \in 1 .. BufferBytes, Read(n)
  PROVE  IInv'
<1> DEFINE first == RecordsUpTo[opened - 1]
<1>1. TypeOK /\ Streaming /\ Passed /\ InOrder /\ ~exhausted /\ current
  BY DEF IInv, Read, Starved
<1>2. /\ lengths' = lengths /\ opened' = opened /\ current' = current
      /\ exhausted' = exhausted /\ failure' = failure
      /\ record' = record /\ records_read' = records_read
      /\ byte_len' = byte_len + n /\ filled' = Buffered + n /\ cursor' = 0
      /\ n \in 1 .. Unread /\ n <= Room
      /\ buffer' = [i \in Places |-> IF i \in Buffered .. Buffered + n - 1
                                       THEN <<opened, byte_len + i - Buffered>>
                                       ELSE Compacted[i]]
  BY DEF Read
<1>3. RecordsUpTo' = RecordsUpTo
  BY <1>2, CountStays
<1>4. /\ opened \in Nat /\ lengths[opened] \in Nat /\ first \in Nat /\ n \in Nat
      /\ Buffered \in Nat /\ cursor + Buffered = filled /\ cursor \in Nat /\ filled \in Nat
      /\ filled <= BufferBytes /\ BufferBytes \in Nat
      /\ Width \in Nat /\ byte_len \in Nat /\ records_read \in Nat
  BY <1>1, Types
<1>5. /\ byte_len <= lengths[opened] /\ Buffered <= byte_len /\ records_read >= first
      /\ byte_len - Buffered = (records_read - first) * Width
      /\ \A i \in 0 .. Buffered - 1 : buffer[cursor + i] = <<opened, byte_len - Buffered + i>>
  BY <1>1 DEF Streaming
<1>6. Buffered' = Buffered + n
  BY <1>2, <1>4 DEF Buffered
<1>7. Buffered + n <= BufferBytes /\ byte_len + n <= lengths[opened]
  BY <1>2, <1>4 DEF Room, Unread
<1>8. byte_len' - Buffered' = byte_len - Buffered
  BY <1>2, <1>4, <1>6
<1>9. TypeOK'
  <2> DEFINE X == (Nat \X Nat) \cup {Stale}
  <2>1. buffer \in [Places -> X]
    BY <1>1 DEF TypeOK
  <2>2. ASSUME NEW i \in Places
        PROVE  (IF i \in Buffered .. Buffered + n - 1
                  THEN <<opened, byte_len + i - Buffered>> ELSE Compacted[i]) \in X
    <3>1. CASE i \in Buffered .. Buffered + n - 1
      BY <1>4, <3>1
    <3>2. CASE i \notin Buffered .. Buffered + n - 1
      <4> HIDE DEF X
      <4>1. Compacted[i] = IF i < Buffered THEN buffer[cursor + i] ELSE buffer[i]
        BY Zenon DEF Compacted
      <4>2. i < Buffered => cursor + i \in Places
        BY <1>4 DEF Places
      <4> QED
        BY <2>1, <3>2, <4>1, <4>2
    <3> QED
      BY <3>1, <3>2
  <2> HIDE DEF X
  <2>3. buffer' \in [Places -> X]
    BY <1>2, <2>2
  <2>4. filled' \in 0 .. BufferBytes /\ cursor' \in 0 .. filled' /\ byte_len' \in Nat
    BY <1>2, <1>4, <1>7
  <2> QED
    BY <1>1, <1>2, <2>3, <2>4 DEF TypeOK, X
<1>10. Streaming'
  <2>1. ASSUME NEW i \in 0 .. Buffered' - 1
        PROVE  buffer'[cursor' + i] = <<opened', byte_len' - Buffered' + i>>
    <3>1. i \in Places /\ cursor' + i = i
      BY <1>2, <1>4, <1>6, <1>7 DEF Places
    <3>2. CASE i < Buffered
      <4>1. i \in 0 .. Buffered - 1 /\ i \notin Buffered .. Buffered + n - 1
        BY <1>4, <3>2
      <4>2. buffer'[i] = Compacted[i]
        BY <1>2, <3>1, <4>1, Zenon
      <4>3. Compacted[i] = buffer[cursor + i]
        BY <3>1, <3>2, Zenon DEF Compacted
      <4> QED
        BY <1>2, <1>5, <1>8, <3>1, <4>1, <4>2, <4>3
    <3>3. CASE ~(i < Buffered)
      <4>1. i \in Buffered .. Buffered + n - 1
        BY <1>4, <1>6, <3>3
      <4>2. buffer'[i] = <<opened, byte_len + i - Buffered>>
        BY <1>2, <3>1, <4>1, Zenon
      <4>3. byte_len + i - Buffered = byte_len - Buffered + i
        BY <1>4, <4>1
      <4> QED
        BY <1>2, <1>8, <3>1, <4>2, <4>3
    <3> QED
      BY <3>2, <3>3
  <2>2. byte_len' <= lengths'[opened'] /\ Buffered' <= byte_len'
    BY <1>2, <1>4, <1>5, <1>6, <1>7
  <2>3. records_read' >= RecordsUpTo'[opened' - 1]
    BY <1>2, <1>3, <1>5
  <2>4. byte_len' - Buffered' = (records_read' - RecordsUpTo'[opened' - 1]) * Width
    BY <1>2, <1>3, <1>5, <1>8
  <2> QED
    BY <2>1, <2>2, <2>3, <2>4 DEF Streaming
<1>11. Between' /\ Passed' /\ EndIsEarned'
  BY <1>1, <1>2 DEF Between, Passed, Sound, EndIsEarned
<1> QED
  BY <1>1, <1>2, <1>9, <1>10, <1>11, OrderStays DEF IInv

LEMMA ReadFailsKeeps ==
  ASSUME IInv, ReadFails
  PROVE  IInv'
<1> DEFINE first == RecordsUpTo[opened - 1]
           fits  == lengths[opened] \div Width
           given == records_read - first
<1>1. TypeOK /\ Streaming /\ InOrder /\ current
  BY DEF IInv, ReadFails
<1>2. /\ lengths' = lengths /\ opened' = opened /\ current' = current /\ byte_len' = byte_len
      /\ exhausted' = TRUE /\ failure' = "io"
      /\ record' = record /\ records_read' = records_read
      /\ buffer' = Compacted /\ Compact
  BY DEF ReadFails, Fail
<1>3. RecordsUpTo' = RecordsUpTo
  BY <1>2, CountStays
<1>4. /\ Buffered' = Buffered /\ cursor' = 0
      /\ filled' \in 0 .. BufferBytes /\ cursor' \in 0 .. filled'
      /\ buffer' \in [Places -> (Nat \X Nat) \cup {Stale}]
      /\ \A i \in 0 .. Buffered - 1 : buffer'[cursor' + i] = buffer[cursor + i]
  BY <1>1, <1>2, Compacts
<1>5. TypeOK'
  BY <1>1, <1>2, <1>4 DEF TypeOK
<1>6. Streaming'
  BY <1>1, <1>2, <1>3, <1>4 DEF Streaming
<1>7. Between' /\ Passed'
  BY <1>1, <1>2 DEF Between, Passed
<1>8. EndIsEarned'
  <2>1. /\ byte_len <= lengths[opened] /\ Buffered <= byte_len
        /\ given >= 0 /\ byte_len - Buffered = given * Width
        /\ lengths[opened] \in Nat /\ first \in Nat /\ records_read \in Nat /\ given \in Nat
        /\ byte_len \in Nat /\ Buffered \in Nat /\ Width \in Nat
        /\ RecordsUpTo[opened] = first + fits /\ fits \in Nat
    <3>1. /\ lengths[opened] \in Nat /\ first \in Nat /\ records_read \in Nat
          /\ byte_len \in Nat /\ Buffered \in Nat /\ Width \in Nat
          /\ RecordsUpTo[opened] = first + fits /\ fits \in Nat
      BY <1>1, Types, Zenon
    <3>2. /\ byte_len <= lengths[opened] /\ Buffered <= byte_len
          /\ records_read >= first /\ byte_len - Buffered = given * Width
      BY <1>1, Zenon DEF Streaming
    <3>3. given \in Nat
      <4> HIDE DEF first, fits
      <4> QED
        BY <3>1, <3>2
    <3> HIDE DEF given, first, fits
    <3> QED
      BY <3>1, <3>2, <3>3
  <2>2. \A k \in Nat : k * Width <= lengths[opened] => k <= fits
    BY <2>1, Fits
  <2> HIDE DEF first, fits
  <2>3. records_read = first + given
    BY <2>1
  <2> HIDE DEF given
  <2>4. given * Width <= lengths[opened]
    BY <2>1
  <2>5. given <= fits
    BY <2>1, <2>2, <2>4
  <2>6. records_read <= RecordsUpTo[opened]
    BY <2>1, <2>3, <2>5
  <2> QED
    BY <1>2, <1>3, <2>6 DEF EndIsEarned
<1> QED
  BY <1>1, <1>2, <1>5, <1>6, <1>7, <1>8, OrderStays DEF IInv

LEMMA CloseKeeps ==
  ASSUME IInv, Close
  PROVE  IInv'
<1> DEFINE first == RecordsUpTo[opened - 1]
           fits  == lengths[opened] \div Width
           given == records_read - first
<1>1. TypeOK /\ Streaming /\ Passed /\ InOrder /\ current /\ ~exhausted /\ Starved
  BY DEF IInv, Close, Starved
<1>2. /\ lengths' = lengths /\ opened' = opened /\ current' = FALSE /\ byte_len' = byte_len
      /\ record' = record /\ records_read' = records_read
      /\ buffer' = Compacted /\ Compact
      /\ Unread = 0 \/ Room = 0
      /\ \/ Verdict = "none" /\ exhausted' = exhausted /\ failure' = failure
         \/ Verdict # "none" /\ exhausted' = TRUE /\ failure' = Verdict
  <2>1. /\ lengths' = lengths /\ opened' = opened /\ current' = FALSE /\ byte_len' = byte_len
        /\ record' = record /\ records_read' = records_read
        /\ buffer' = Compacted /\ Compact
        /\ Unread = 0 \/ Room = 0
        /\ IF Verdict = "none" THEN UNCHANGED <<exhausted, failure>> ELSE Fail(Verdict)
    BY Zenon DEF Close, Retire
  <2>2. CASE Verdict = "none"
    <3>1. UNCHANGED <<exhausted, failure>>
      BY <2>1, <2>2, Zenon
    <3>2. exhausted' = exhausted /\ failure' = failure
      BY <3>1
    <3> QED
      BY <2>1, <2>2, <3>2, Zenon
  <2>3. CASE Verdict # "none"
    <3>1. exhausted' = TRUE /\ failure' = Verdict
      BY <2>1, <2>3, Zenon DEF Fail
    <3> QED
      BY <2>1, <2>3, <3>1, Zenon
  <2> QED
    BY <2>2, <2>3
<1>3. RecordsUpTo' = RecordsUpTo
  BY <1>2, CountStays
<1>4. /\ Buffered' = Buffered
      /\ filled' \in 0 .. BufferBytes /\ cursor' \in 0 .. filled'
      /\ buffer' \in [Places -> (Nat \X Nat) \cup {Stale}]
  BY <1>1, <1>2, Compacts
<1>5. /\ byte_len <= lengths[opened] /\ Buffered <= byte_len
      /\ byte_len - Buffered = given * Width
      /\ lengths[opened] \in Nat /\ first \in Nat /\ records_read \in Nat /\ given \in Nat
      /\ byte_len \in Nat /\ Buffered \in Nat /\ Width \in Nat /\ Width > 0
      /\ RecordsUpTo[opened] = first + fits /\ fits \in Nat
      /\ opened \in 1 .. Len(lengths)
  <2>1. /\ lengths[opened] \in Nat /\ first \in Nat /\ records_read \in Nat
        /\ byte_len \in Nat /\ Buffered \in Nat /\ Width \in Nat /\ Width > 0
        /\ RecordsUpTo[opened] = first + fits /\ fits \in Nat
        /\ opened \in 1 .. Len(lengths)
    BY <1>1, Types, Zenon
  <2>2. /\ byte_len <= lengths[opened] /\ Buffered <= byte_len
        /\ records_read >= first /\ byte_len - Buffered = given * Width
    BY <1>1, Zenon DEF Streaming
  <2>3. given \in Nat
    <3> HIDE DEF first, fits
    <3> QED
      BY <2>1, <2>2
  <2> HIDE DEF given, first, fits
  <2> QED
    BY <2>1, <2>2, <2>3
<1>6. /\ \A k \in Nat, rest \in 0 .. Width - 1 :
           lengths[opened] = (k * Width) + rest
             => fits = k /\ (lengths[opened] % Width = 0 <=> rest = 0)
      /\ \A k \in Nat : k * Width <= lengths[opened] => k <= fits
  BY <1>5, Fits
<1> HIDE DEF first, fits
<1>7. records_read = first + given
  BY <1>5 DEF given
<1> HIDE DEF given
<1>8. byte_len = lengths[opened] /\ Buffered \in 0 .. Width - 1
  BY <1>1, <1>2, <1>5, StarvedHasRoom DEF Unread
<1>9. given * Width \in Nat /\ lengths[opened] = (given * Width) + Buffered
  BY <1>5, <1>8
<1>10. fits = given /\ (lengths[opened] % Width = 0 <=> Buffered = 0)
  BY <1>5, <1>6, <1>8, <1>9
<1>11. records_read = RecordsUpTo[opened]
  BY <1>5, <1>7, <1>10
<1>12. /\ Verdict \in {"none", "empty", "partial"}
       /\ Verdict = "none" <=> Sound(opened)
       /\ Verdict = "empty" => lengths[opened] = 0
       /\ Verdict = "partial" => lengths[opened] % Width # 0
  BY <1>5, <1>8 DEF Verdict, Sound
<1>13. TypeOK'
  <2>1. exhausted' \in BOOLEAN /\ failure' \in {"none", "io", "empty", "partial"}
    <3>1. failure \in {"none", "io", "empty", "partial"}
      BY <1>1 DEF TypeOK
    <3>2. exhausted' \in BOOLEAN
      <4>1. exhausted \in BOOLEAN
        BY <1>1 DEF TypeOK
      <4> QED
        BY <1>2, <4>1, Zenon
    <3>3. failure' \in {"none", "io", "empty", "partial"}
      BY <1>2, <1>12, <3>1
    <3> QED
      BY <3>2, <3>3
  <2> QED
    BY <1>1, <1>2, <1>4, <2>1 DEF TypeOK
<1>14. Streaming'
  BY <1>2 DEF Streaming
<1>15. Between'
  <2> SUFFICES ASSUME ~exhausted' PROVE Buffered' = 0 /\ records_read' = RecordsUpTo'[opened']
    BY DEF Between
  <2>1. Sound(opened)
    BY <1>2, <1>12
  <2> QED
    BY <1>2, <1>3, <1>4, <1>10, <1>11, <2>1 DEF Sound
<1>16. Passed'
  <2>1. CASE Verdict = "none"
    <3>1. \A f \in 1 .. opened : Sound(f)
      BY <1>1, <1>12, <2>1 DEF Passed
    <3> QED
      BY <1>1, <1>2, <2>1, <3>1 DEF Passed, Sound
  <2>2. CASE Verdict # "none"
    BY <1>2, <2>2 DEF Passed
  <2> QED
    BY <2>1, <2>2
<1>17. EndIsEarned'
  <2>1. CASE Verdict = "none"
    BY <1>1, <1>2, <2>1 DEF EndIsEarned
  <2>2. CASE Verdict = "empty"
    <3>1. lengths[opened] = 0 /\ given * Width = 0
      BY <1>5, <1>8, <1>9, <1>12, <2>2
    <3>2. given = 0
      <4>1. given # 0 => 1 * Width <= given * Width
        BY <1>5, Product
      <4> QED
        BY <1>5, <3>1, <4>1
    <3>3. records_read = first
      BY <1>5, <1>7, <3>2
    <3> QED
      BY <1>2, <1>3, <2>2, <3>1, <3>3 DEF EndIsEarned, first
  <2>3. CASE Verdict = "partial"
    BY <1>2, <1>3, <1>11, <1>12, <2>3 DEF EndIsEarned
  <2> QED
    BY <1>12, <2>1, <2>2, <2>3
<1> QED
  BY <1>1, <1>2, <1>13, <1>14, <1>15, <1>16, <1>17, OrderStays DEF IInv

-----------------------------------------------------------------------------
(* Every behaviour.                                                        *)

LEMMA InvInit == Init => IInv
<1> SUFFICES ASSUME Init PROVE IInv
  OBVIOUS
<1>1. lengths \in Corpora /\ lengths \in Seq(Nat) /\ Len(lengths) \in Nat
  BY CorporaAssumption DEF Init
<1>2. TypeOK
  <2>1. BufferBytes \in Nat
    BY Roomy
  <2>2. buffer \in [Places -> (Nat \X Nat) \cup {Stale}]
        /\ record \in [Slice -> (Nat \X Nat) \cup {Stale}]
    BY DEF Init
  <2>3. /\ opened \in 0 .. Len(lengths) /\ byte_len \in Nat /\ records_read \in Nat
        /\ filled \in 0 .. BufferBytes /\ cursor \in 0 .. filled
    BY <1>1, <2>1 DEF Init
  <2>4. current \in BOOLEAN /\ ~current /\ exhausted \in BOOLEAN
        /\ failure \in {"none", "io", "empty", "partial"}
    BY DEF Init
  <2> QED
    BY <1>1, <2>2, <2>3, <2>4, Zenon DEF TypeOK
<1>3. RecordsUpTo[0] = 0
  BY <1>1, Counts
<1> QED
  BY <1>2, <1>3 DEF Init, IInv, Streaming, Between, Passed, InOrder, EndIsEarned, Buffered

LEMMA InvNext == IInv /\ [Next]_vars => IInv'
<1> SUFFICES ASSUME IInv, [Next]_vars PROVE IInv'
  OBVIOUS
<1>1. CASE UNCHANGED vars
  <2>1. /\ lengths' = lengths /\ opened' = opened /\ current' = current /\ byte_len' = byte_len
        /\ buffer' = buffer /\ filled' = filled /\ cursor' = cursor /\ record' = record
        /\ records_read' = records_read /\ exhausted' = exhausted /\ failure' = failure
    BY <1>1 DEF vars
  <2>2. RecordsUpTo' = RecordsUpTo /\ Buffered' = Buffered
    BY <2>1, CountStays DEF Buffered
  <2>3. TypeOK' /\ Passed' /\ InOrder'
    BY <2>1, OrderStays DEF IInv, TypeOK, Passed, Sound
  <2>4. Streaming' /\ Between' /\ EndIsEarned'
    BY <2>1, <2>2 DEF IInv, Streaming, Between, EndIsEarned
  <2> QED
    BY <2>3, <2>4 DEF IInv
<1>2. CASE Next
  BY <1>2, HandOutKeeps, OpenNextKeeps, OpenFailsKeeps, EndKeeps, ReadKeeps, ReadFailsKeeps,
     CloseKeeps DEF Next, Fill
<1> QED
  BY <1>1, <1>2

LEMMA Inductive == Spec => []IInv
BY InvInit, InvNext, PTL DEF Spec

(* Every variable of the reader keeps its type: the indices stay inside    *)
(* the buffer, and the file counter inside the list of files.              *)
THEOREM TypeCorrect == Spec => []TypeOK
<1>1. IInv => TypeOK
  BY DEF IInv
<1> QED
  BY <1>1, Inductive, PTL

(* next_record hands out the records of the corpus in order, each whole    *)
(* and from one file, for every record width and buffer size and however   *)
(* the file system cuts its reads.                                         *)
THEOREM RecordsInOrder == Spec => []InOrder
<1>1. IInv => InOrder
  BY DEF IInv
<1> QED
  BY <1>1, Inductive, PTL

(* The stream ends cleanly only after every record of every file, and with *)
(* an error only where that error is, after the whole records before it.   *)
THEOREM EndsAreEarned == Spec => []EndIsEarned
<1>1. IInv => EndIsEarned
  BY DEF IInv
<1> QED
  BY <1>1, Inductive, PTL
=============================================================================
