---------------------------- MODULE RecordValues ----------------------------
(***************************************************************************)
(* What quantise and fuzz do to the values of a record: decode, perturb    *)
(* what is targeted in place, encode, write - and the noise source fuzz    *)
(* draws from, whose Gaussian draws come in pairs.                         *)
(*                                                                         *)
(* The arithmetic of a perturbation is left open: any binary32 may come    *)
(* out of it.  Noise is the state of its generator: how many words were    *)
(* taken and whether a draw is held over.                                  *)
(***************************************************************************)
EXTENDS Bfloat16, Sequences, FiniteSets

CONSTANTS
  Requests,    \* the requests to run
  Fuzzed,      \* records of the sources of fuzz, as wide words
  Quantised,   \* records of the sources of quantise
  Results,     \* what a perturbation may come out as
  Bounds,      \* the words a bound may be
  Inputs, Outputs,   \* values per record
  MaxRecords         \* bound: records of a source

NoBound == -1

Positions == 1 .. Inputs + Outputs
Encodings == {"float32", "bfloat16"}

(* inputs, outputs and all are the targets of fuzz; quantise perturbs none. *)
Request == [transform : {"fuzz", "quantise"}, encoding : Encodings,
            distribution : {"gaussian", "uniform"}, targets : {"inputs", "outputs", "all"},
            min : Bounds \cup {NoBound}, max : Bounds \cup {NoBound}]

(* FuzzBounds::new, and the one encoding the quantisation scheme takes.    *)
Valid(r) ==
  /\ r.min # NoBound /\ r.max # NoBound => Rank(r.min) <= Rank(r.max)
  /\ r.transform = "quantise" => r.encoding = "float32"

ASSUME RecordsAssumption ==
  /\ Inputs \in Nat \ {0} /\ Outputs \in Nat \ {0} /\ MaxRecords \in Nat
  /\ Results \subseteq Words
  /\ Fuzzed \cup Quantised \subseteq [Positions -> Words]
ASSUME BoundsAssumption   == Bounds \subseteq {w \in Words : IsFinite(w)}
ASSUME RequestsAssumption == Requests \subseteq {r \in Request : Valid(r)}

VARIABLES
  request,
  index,      \* records written
  value,      \* the position in the record at hand, 0 between records
  original,   \* the record at hand as it was read
  values,     \* the record at hand as it stands
  drawn,      \* words taken from the generator
  spare,      \* TRUE where the second draw of a pair is held
  counts,
  stored,     \* the last record written, as words of its encoding
  outcome     \* "running", "finished" or "failed"

vars == <<request, index, value, original, values, drawn, spare, counts, stored, outcome>>

(* What a word of the source decodes to: a bfloat16 has the low half zero. *)
Decode(w) == IF request.encoding = "bfloat16" THEN ToF32(w \div Unit) ELSE w

TargetEncoding == IF request.transform = "quantise" THEN "bfloat16" ELSE request.encoding

Encode(w) == IF TargetEncoding = "bfloat16" THEN FromF32(w) ELSE w

(* Faulty: the first output counts as an input.                            *)
IncludesOneMore(position) ==
  /\ request.transform = "fuzz"
  /\ CASE request.targets = "inputs"  -> position <= Inputs + 1
       [] request.targets = "outputs" -> position > Inputs
       [] request.targets = "all"     -> TRUE

Includes(position) ==
  /\ request.transform = "fuzz"
  /\ CASE request.targets = "inputs"  -> position <= Inputs
       [] request.targets = "outputs" -> position > Inputs
       [] request.targets = "all"     -> TRUE

Init ==
  /\ request \in Requests
  /\ index = 0
  /\ value = 0
  /\ original = [i \in Positions |-> 0]
  /\ values = original
  /\ drawn = 0
  /\ spare = FALSE
  /\ counts = [perturbed |-> 0, clamped |-> 0, preserved |-> 0]
  /\ stored = <<>>
  /\ outcome = "running"

ReadRecord ==
  /\ outcome = "running" /\ value = 0 /\ index < MaxRecords
  /\ \E record \in IF request.transform = "quantise" THEN Quantised ELSE Fuzzed :
       original' = [i \in Positions |-> Decode(record[i])]
  /\ values' = original'
  /\ value' = 1
  /\ UNCHANGED <<request, index, drawn, spare, counts, stored, outcome>>

Visits == outcome = "running" /\ value \in Positions

Skip ==
  /\ Visits /\ ~Includes(value)
  /\ value' = value + 1
  /\ UNCHANGED <<request, index, original, values, drawn, spare, counts, stored, outcome>>

(* Faulty: no draw is spent on a value that cannot be perturbed.           *)
DrawIfFinite ==
  IF ~IsFinite(values[value]) THEN UNCHANGED <<drawn, spare>>
  ELSE /\ spare' = (request.distribution = "gaussian" /\ ~spare)
       /\ drawn' = drawn + (IF request.distribution = "uniform" THEN 1
                            ELSE IF spare THEN 0 ELSE 2)

(* draw(): a uniform draw takes one word; Box-Muller takes two for a pair. *)
Draw ==
  /\ spare' = (request.distribution = "gaussian" /\ ~spare)
  /\ drawn' = drawn + (IF request.distribution = "uniform" THEN 1
                        ELSE IF spare THEN 0 ELSE 2)

(* Faulty: a bound is imposed from below only.                             *)
ClampBelow(w) ==
  IF request.min # NoBound /\ IsFinite(w) /\ Rank(w) < Rank(request.min) THEN request.min ELSE w

Clamp(w) ==
  IF ~IsFinite(w) THEN w
  ELSE IF request.min # NoBound /\ Rank(w) < Rank(request.min) THEN request.min
  ELSE IF request.max # NoBound /\ Rank(w) > Rank(request.max) THEN request.max
  ELSE w

Preserve ==
  /\ Visits /\ Includes(value)
  /\ ~IsFinite(values[value])
  /\ Draw
  /\ counts' = [counts EXCEPT !.preserved = @ + 1]
  /\ value' = value + 1
  /\ UNCHANGED <<request, index, original, values, stored, outcome>>

Perturb ==
  /\ Visits /\ Includes(value)
  /\ IsFinite(values[value])
  /\ Draw
  /\ \E result \in Results :
       /\ IsFinite(result)
       /\ values' = [values EXCEPT ![value] = Clamp(result)]
       /\ LET moved == IF Rank(Clamp(result)) # Rank(result) THEN 1 ELSE 0
          IN  counts' = [counts EXCEPT !.perturbed = @ + 1, !.clamped = @ + moved]
  /\ value' = value + 1
  /\ UNCHANGED <<request, index, original, stored, outcome>>

(* NonFiniteResult: the run fails and writes no more.                      *)
Overflow ==
  /\ Visits /\ Includes(value)
  /\ IsFinite(values[value])
  /\ Draw
  /\ \E result \in Results : ~IsFinite(result)
  /\ outcome' = "failed"
  /\ UNCHANGED <<request, index, value, original, values, counts, stored>>

WriteRecord ==
  /\ outcome = "running" /\ value > Inputs + Outputs
  /\ stored' = [i \in Positions |-> Encode(values[i])]
  /\ index' = index + 1
  /\ value' = 0
  /\ UNCHANGED <<request, original, values, drawn, spare, counts, outcome>>

Finish ==
  /\ outcome = "running" /\ value = 0
  /\ outcome' = "finished"
  /\ UNCHANGED <<request, index, value, original, values, drawn, spare, counts, stored>>

Next == ReadRecord \/ Skip \/ Preserve \/ Perturb \/ Overflow \/ WriteRecord \/ Finish

Spec == Init /\ [][Next]_vars

-----------------------------------------------------------------------------
(* Properties *)

TypeOK ==
  /\ request \in Requests
  /\ index \in 0 .. MaxRecords
  /\ value \in 0 .. Inputs + Outputs + 1
  /\ original \in [Positions -> Words] /\ values \in [Positions -> Words]
  /\ drawn \in Nat /\ spare \in BOOLEAN
  /\ counts \in [perturbed : Nat, clamped : Nat, preserved : Nat]
  /\ stored \in {<<>>} \cup [Positions -> IF TargetEncoding = "bfloat16" THEN Narrow ELSE Words]
  /\ outcome \in {"running", "finished", "failed"}

Written == index > 0 /\ value = 0
Reads(i) == IF TargetEncoding = "bfloat16" THEN ToF32(stored[i]) ELSE stored[i]

Distance(v, w) == IF Value(v) > Value(w) THEN Value(v) - Value(w) ELSE Value(w) - Value(v)

(* A bfloat16 stores the nearest value there is to the number computed, on *)
(* the same side of zero, the even one of two as near; a NaN stays one.    *)
StoredIsNearest ==
  Written /\ TargetEncoding = "bfloat16" =>
    \A i \in Positions :
      LET exact == values[i]
      IN  IF IsNaN(exact) THEN IsNaN(Reads(i))
          ELSE /\ IsNegative(Reads(i)) = IsNegative(exact) /\ ~IsNaN(Reads(i))
               /\ \A k \in 0 .. Infinity :
                    /\ Distance(ToF32(k), exact) >= Distance(Reads(i), exact)
                    /\ Distance(ToF32(k), exact) = Distance(Reads(i), exact)
                         => k = stored[i] % Sign \/ stored[i] % 2 = 0

(* The manifest's max_relative_error, 1/256 of the number stored: it holds *)
(* of every normal number that does not round to an infinity.              *)
ErrorIsAsRecorded ==
  Written /\ request.transform = "quantise" =>
    \A i \in Positions :
      IsFinite(Reads(i)) /\ Magnitude(original[i]) >= 2 * Quiet * Unit
        => Distance(Reads(i), original[i]) * 4 * Quiet <= Value(original[i])

Aimed(i) == IF i <= Inputs THEN request.targets # "outputs" ELSE request.targets # "inputs"

(* A perturbation never reaches a value it was not aimed at, nor one it is *)
(* not defined on: those are stored as they were - a NaN as some NaN.      *)
OnlyTargetsMove ==
  Written /\ request.transform = "fuzz" =>
    \A i \in Positions :
      ~Aimed(i) \/ ~IsFinite(original[i])
        => Reads(i) = original[i] \/ (IsNaN(Reads(i)) /\ IsNaN(original[i]))

(* Fuzzing replays: the state of the generator depends on the policy and   *)
(* the position in the corpus alone, never on the values met on the way,   *)
(* and every draw is accounted for.                                        *)
Ordinal ==
  LET targeted(upTo) == Cardinality({i \in Positions : i < upTo /\ Includes(i)})
  IN  index * targeted(Inputs + Outputs + 1) + targeted(value)

NoiseFollowsPosition ==
  outcome # "failed" =>
    /\ counts.perturbed + counts.preserved = Ordinal /\ counts.clamped <= counts.perturbed
    /\ IF request.distribution = "uniform"
         THEN drawn = Ordinal /\ ~spare
         ELSE drawn = 2 * ((Ordinal + 1) \div 2) /\ spare = (Ordinal % 2 = 1)

(* What was perturbed is published inside the bounds, as far as the        *)
(* encoding stores them.                                                   *)
BoundsKept ==
  Written =>
    \A i \in Positions :
      request.transform = "fuzz" /\ Aimed(i) /\ IsFinite(original[i]) =>
        LET as_stored(w) == Rank(IF TargetEncoding = "bfloat16" THEN ToF32(FromF32(w)) ELSE w)
        IN  /\ request.min # NoBound => as_stored(request.min) <= Rank(Reads(i))
            /\ request.max # NoBound => Rank(Reads(i)) <= as_stored(request.max)

=============================================================================
