--------------------------- MODULE SpaceEstimate ---------------------------
(***************************************************************************)
(* How much room a sampler says a whole pass needs: file lengths added up  *)
(* and divided into records as integers, the records kept as a product of  *)
(* floats, the headroom as integers again.  A rate is n / RateUnit.        *)
(***************************************************************************)
EXTENDS Words, Sequences, SequencesExt

CONSTANTS
  RateUnit,         \* 2^1074: of which every float is a multiple
  HeadroomDivisor   \* 100

(* Two roundings are worth less than the headroom.                         *)
ASSUME EstimateAssumption ==
  /\ \E bits \in 0 .. TopExponent - WordBits : RateUnit = 2 ^ bits
  /\ HeadroomDivisor \in Nat \ {0} /\ 2 * (HeadroomDivisor + 1) <= 2 ^ Mantissa

(* Faulty: rounded down.                                                   *)
KeptRecordsAtLeast(records, rate) ==
  Min({ToFloat(ToFloat(records) * rate) \div RateUnit, MaxWord, records})

(* The product is rounded, then its ceiling taken, then cast to a word.    *)
KeptRecords(records, rate) ==
  Min({DivCeil(ToFloat(ToFloat(records) * rate), RateUnit), MaxWord, records})

ExpectedBytes(source_bytes, width, rate) ==
  LET corpus == SaturatingMul(KeptRecords(source_bytes \div width, rate), width)
  IN  SaturatingAdd(corpus, DivCeil(corpus, HeadroomDivisor))

PassBytes(lengths) ==
  LET pass[n \in 0 .. Len(lengths)] ==
        IF n = 0 THEN 0 ELSE SaturatingAdd(pass[n - 1], lengths[n])
  IN  pass[Len(lengths)]

=============================================================================
