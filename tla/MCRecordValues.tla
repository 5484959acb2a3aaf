--------------------------- MODULE MCRecordValues ---------------------------
(* Small instances of RecordValues: seven-bit words - a sign, two bits of   *)
(* exponent, two of mantissa that bfloat16 keeps and two that it drops -    *)
(* in records of one input and one output.                                  *)
EXTENDS RecordValues

(* Zero, an odd tie, an infinity, a NaN that lives in the dropped bits, a   *)
(* signalling NaN of bfloat16, and a negative number.                       *)
Interesting == {0, 22, 48, 49, 53, 64 + 18}
FuzzedPairs == [Positions -> Interesting]

(* Every word of the format beside a neighbour.                             *)
EveryWord == {[i \in Positions |-> IF i = 1 THEN w ELSE 22] : w \in Words}

(* Zero, the neighbourhood of a tie, the largest numbers, what overflows.   *)
Outcomes == {0, 22, 47, 64 + 46, 48}
Limits   == {23, 64 + 22}

Requested == {r \in Request :
  /\ Valid(r)
  /\ r.min \in {NoBound, 64 + 22} /\ r.max \in {NoBound, 23}
  /\ r.transform = "quantise"
       => r.distribution = "uniform" /\ r.targets = "all" /\ r.min = NoBound /\ r.max = NoBound}

=============================================================================
