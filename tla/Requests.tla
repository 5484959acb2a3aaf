------------------------------ MODULE Requests ------------------------------
(***************************************************************************)
(* From the arguments of a command line to what a run starts with: the     *)
(* checks in the order they are made, each refusing the request at its     *)
(* first fault, then the space a sampler asks for and the seed every stage *)
(* draws under.                                                            *)
(*                                                                         *)
(* A float is an integer between -Infinite and Infinite or NaN, which      *)
(* compares with nothing.  A name is itself; a metadata entry is a key, a  *)
(* value and what is wrong with them, if anything.                         *)
(***************************************************************************)
EXTENDS SpaceEstimate

CONSTANTS
  Asked,          \* the command lines
  Lengths,        \* what the files of a source may measure
  BufferBytes,    \* 256 KiB: what a reader and a writer buffer
  Infinite, NaN,  \* of floats
  None,           \* an option not given
  GoldenGamma, Mix1, Mix2, Shifts   \* of the SplitMix finaliser

ASSUME FloatAssumption  == Infinite \in Nat /\ Infinite > RateUnit /\ {NaN, None} \cap Int = {} /\ NaN # None
ASSUME BufferAssumption == BufferBytes \in Word
ASSUME MixAssumption    ==
  /\ \A factor \in {GoldenGamma, Mix1, Mix2} : factor \in Word /\ factor % 2 = 1
  /\ Shifts \in Seq(Nat \ {0}) /\ Len(Shifts) = 3

Floats == Int \cup {NaN}
Seeds  == Word \cup {None}

(* What clap and serde leave to be checked.                                *)
IsStage(stage) ==
  /\ stage.transform \in {"sample", "fuzz", "quantise"} /\ stage.seed \in Seeds
  /\ stage.transform = "sample" => stage.rate \in Floats
  /\ stage.transform = "fuzz" => stage.scale \in Floats /\ {stage.min, stage.max} \subseteq Floats \cup {None}

IsCommandLine(line) ==
  /\ line.inputs \in Word /\ line.outputs \in Word /\ line.seed \in Seeds
  /\ DOMAIN line.stages = 1 .. Len(line.stages) /\ Len(line.stages) \in Word
  /\ \A i \in DOMAIN line.stages : IsStage(line.stages[i])
  /\ \/ line.command = "pipeline"
     \/ Len(line.stages) = 1 /\ line.command = line.stages[1].transform
  /\ DOMAIN line.metadata = 1 .. Len(line.metadata) /\ Len(line.metadata) \in Nat

ASSUME AskedAssumption   == \A line \in Asked : IsCommandLine(line)
ASSUME LengthsAssumption == \A measured \in Lengths : measured \in Seq(Word) /\ measured # <<>>

VARIABLES
  asked,     \* the command line
  phase,     \* what is looked at next, or what became of it
  shape,     \* the record shape, once validated
  kinds,     \* the stages validated so far
  recorded,  \* the metadata recorded so far, pairs
  lengths,   \* what the files of the source measured
  estimate,  \* what a sampler says it needs
  seed,      \* the seed of the run, as the manifest gives it
  records    \* each stage and the seed it runs under, as the manifest gives them

checked == <<shape, kinds, recorded>>
started == <<lengths, estimate, seed, records>>
requestsVars == <<asked, phase, checked, started>>

RequestsInit ==
  /\ asked \in Asked
  /\ phase = "shape"
  /\ shape = None
  /\ kinds = <<>>
  /\ recorded = {}
  /\ lengths = <<>> /\ estimate = None
  /\ seed = None /\ records = <<>>

Refuse == phase' = "refused" /\ UNCHANGED checked

-----------------------------------------------------------------------------
(* Validation *)

LessEq(a, b) == a # NaN /\ b # NaN /\ a <= b
Less(a, b)   == LessEq(a, b) /\ a # b
FiniteFloat(a)  == Less(-Infinite, a) /\ Less(a, Infinite)

BytesPerValue(encoding) == IF encoding = "float32" THEN 4 ELSE 2

Width(inputs, outputs, encoding) ==
  LET values == CheckedAdd(inputs, outputs)
  IN  IF values = NoWord THEN NoWord ELSE CheckedMul(values, BytesPerValue(encoding))

WithEncoding(inputs, outputs, encoding) ==
  [inputs |-> inputs, outputs |-> outputs, encoding |-> encoding, width |-> Width(inputs, outputs, encoding)]

ShapeAccepted(built) == 0 \notin {built.inputs, built.outputs} /\ built.width # NoWord

NewShape ==
  /\ phase = "shape"
  /\ LET built == WithEncoding(asked.inputs, asked.outputs, "float32")
     IN  IF ~ShapeAccepted(built) THEN Refuse
         ELSE /\ shape' = built
              /\ phase' = IF asked.command = "pipeline" THEN "config" ELSE "stage"
              /\ UNCHANGED <<kinds, recorded>>
  /\ UNCHANGED <<asked, started>>

ConfigAccepted == asked.version = 1 /\ Len(asked.stages) > 0

LoadConfig ==
  /\ phase = "config"
  /\ IF asked.readable /\ ConfigAccepted
       THEN phase' = "stage" /\ UNCHANGED checked
       ELSE Refuse
  /\ UNCHANGED <<asked, started>>

(* Faulty: refuses what is found outside, and NaN is not.                  *)
RateNotOutside(rate) == ~LessEq(rate, 0) /\ ~Less(RateUnit, rate)

RateAccepted(rate) == Less(0, rate) /\ LessEq(rate, RateUnit)

BoundsAccepted(min, max) ==
  /\ \A bound \in {min, max} \ {None} : FiniteFloat(bound)
  /\ None \notin {min, max} => LessEq(min, max)

FuzzDistribution == {"gaussian", "uniform"}
FuzzMode         == {"absolute", "relative"}
FuzzTargets      == {"inputs", "outputs", "all"}
QuantiseScheme   == {"bfloat16"}

PolicyAccepted(stage) ==
  /\ stage.distribution \in FuzzDistribution
  /\ stage.mode \in FuzzMode
  /\ stage.targets \in FuzzTargets
  /\ BoundsAccepted(stage.min, stage.max)
  /\ FiniteFloat(stage.scale) /\ Less(0, stage.scale)

StageAccepted(stage) ==
  CASE stage.transform = "sample"   -> RateAccepted(stage.rate)
    [] stage.transform = "fuzz"     -> PolicyAccepted(stage)
    [] stage.transform = "quantise" -> stage.scheme \in QuantiseScheme

(* One stage of a pipeline, or the one transform of the command.           *)
PlanStage ==
  /\ phase = "stage"
  /\ LET stage == asked.stages[Len(kinds) + 1]
     IN  IF StageAccepted(stage)
           THEN /\ kinds' = Append(kinds, stage.transform)
                /\ phase' = IF Len(kinds') = Len(asked.stages) THEN "metadata" ELSE "stage"
                /\ UNCHANGED <<shape, recorded>>
           ELSE Refuse
  /\ UNCHANGED <<asked, started>>

Recorded(key) == \E pair \in recorded : pair[1] = key

InsertMetadata ==
  /\ phase = "metadata" /\ Cardinality(recorded) < Len(asked.metadata)
  /\ LET entry == asked.metadata[Cardinality(recorded) + 1]
     IN  IF entry.fault = None /\ ~Recorded(entry.key)
           THEN recorded' = recorded \cup {<<entry.key, entry.value>>} /\ UNCHANGED <<phase, shape, kinds>>
           ELSE Refuse
  /\ UNCHANGED <<asked, started>>

Accept ==
  /\ phase = "metadata" /\ Cardinality(recorded) = Len(asked.metadata)
  /\ phase' = IF asked.command = "sample" THEN "measure" ELSE "draw"
  /\ UNCHANGED <<asked, checked, started>>

-----------------------------------------------------------------------------
(* What the run starts with *)

Measure ==
  /\ phase = "measure"
  /\ lengths' \in Lengths
  /\ estimate' = ExpectedBytes(PassBytes(lengths'), shape.width, asked.stages[1].rate)
  /\ phase' = "draw"
  /\ UNCHANGED <<asked, checked, seed, records>>

(* Faulty: every stage draws under the first one's seed.                   *)
StageSeedAnywhere(pipeline_seed, position) == XorShift(Wrap(pipeline_seed + GoldenGamma), Shifts[1])

StageSeed(pipeline_seed, position) ==
  LET z1 == Wrap(pipeline_seed + Wrap(position * GoldenGamma))
      z2 == Wrap(XorShift(z1, Shifts[1]) * Mix1)
      z3 == Wrap(XorShift(z2, Shifts[2]) * Mix2)
  IN  XorShift(z3, Shifts[3])

Derives(stage) == stage.transform # "quantise" /\ stage.seed = None

Plan(stages, pipeline_seed) ==
  [i \in DOMAIN stages |->
     IF stages[i].transform = "quantise" THEN None
     ELSE IF Derives(stages[i]) THEN StageSeed(pipeline_seed, i) ELSE stages[i].seed]

(* Of the parameters recorded, those that a configuration has a name for; *)
(* the others, as the rounding, say what no choice was given of.           *)
Parameters(stage) ==
  LET names == CASE stage.transform = "sample"   -> {"rate"}
                 [] stage.transform = "fuzz"     -> {"distribution", "scale", "mode", "targets", "min", "max"}
                 [] stage.transform = "quantise" -> {"scheme"}
  IN  [name \in names |-> stage[name]]

TransformRecord(stage, its_seed) ==
  [transform |-> stage.transform, parameters |-> Parameters(stage), seed |-> its_seed]

(* A seed that is not given is drawn; quantise has none to draw.           *)
DrawSeeds ==
  /\ phase = "draw"
  /\ phase' = "started"
  /\ IF asked.command = "quantise" THEN seed' = None
     ELSE seed' \in IF asked.seed = None THEN Word ELSE {asked.seed}
  /\ LET seeds == IF asked.command = "pipeline" THEN Plan(asked.stages, seed') ELSE <<seed'>>
     IN  records' = [i \in DOMAIN seeds |-> TransformRecord(asked.stages[i], seeds[i])]
  /\ UNCHANGED <<asked, checked, lengths, estimate>>

RequestsNext ==
  \/ NewShape \/ LoadConfig \/ PlanStage \/ InsertMetadata \/ Accept
  \/ Measure \/ DrawSeeds

RequestsSpec == RequestsInit /\ [][RequestsNext]_requestsVars

-----------------------------------------------------------------------------
(* Properties *)

Accepted == phase \in {"measure", "draw", "started"}

(* What the code after it takes for granted of the parameters of a stage:  *)
(* that some draw of a sampler keeps a record and none would keep more     *)
(* than all, that f32::clamp, which panics unless its bounds are in order, *)
(* leaves a finite value finite, that noise which is not zero moves a      *)
(* value.  Of a scheme there is nothing to take for granted.               *)
Relied(stage) ==
  CASE stage.transform = "sample" ->
         /\ \E draw \in 0 .. RateUnit - 1 : Less(draw, stage.rate)
         /\ LessEq(stage.rate, RateUnit)
    [] stage.transform = "fuzz" ->
         LET low  == IF stage.min = None THEN -Infinite ELSE stage.min
             high == IF stage.max = None THEN Infinite ELSE stage.max
         IN  /\ LessEq(low, high) /\ low # Infinite /\ high # -Infinite
             /\ stage.scale \in 1 .. Infinite - 1
    [] stage.transform = "quantise" -> TRUE

(* Of an accepted request the parameters are as the code after it takes    *)
(* them to be: the width is the true one and a word, so are the buffers of *)
(* the reader and the writer and the width quantised; every stage was      *)
(* validated, in order; all the metadata given is recorded, none over      *)
(* another.  It does not follow that the run gets through: a stage may     *)
(* refuse what the one before it writes (PartWayIsForeseeable of Pipeline), *)
(* and no allocation holds more than half of what a word can count.        *)
AcceptedIsSound ==
  Accepted =>
    /\ asked.inputs > 0 /\ asked.outputs > 0
    /\ shape.width = (asked.inputs + asked.outputs) * 4
    /\ CheckedMul(Max({BufferBytes \div shape.width, 1}), shape.width) # NoWord
    /\ ShapeAccepted(WithEncoding(asked.inputs, asked.outputs, "bfloat16"))
    /\ kinds # <<>> /\ kinds = [i \in DOMAIN asked.stages |-> asked.stages[i].transform]
    /\ \A i \in DOMAIN asked.stages : Relied(asked.stages[i])
    /\ \A i \in DOMAIN asked.metadata :
         LET entry == asked.metadata[i]
         IN  {pair \in recorded : pair[1] = entry.key} = {<<entry.key, entry.value>>}

(* pipeline/plan.rs:88-90 and docs/pipelines.md: the stages of a run that  *)
(* derive their seeds derive different ones, as does a stage under another *)
(* pipeline seed.  And what the manifest records is enough to run each     *)
(* stage again: put back into a configuration, its records are accepted    *)
(* and recorded as they were, whatever seed the pipeline has by then.      *)
SeedsDiffer == \A i \in 1 .. 3 : Cardinality({StageSeed(s, i) : s \in Word}) = 2 ^ WordBits

Replayed(record) ==
  [name \in DOMAIN record.parameters \cup {"transform", "seed"} |->
     IF name \in DOMAIN record.parameters THEN record.parameters[name] ELSE record[name]]

SeedsReplay ==
  phase = "started" =>
    LET deriving == {i \in DOMAIN records : asked.command = "pipeline" /\ Derives(asked.stages[i])}
        again    == [i \in DOMAIN records |-> Replayed(records[i])]
    IN  /\ \A i, j \in deriving : records[i].seed = records[j].seed => i = j
        /\ SeedsDiffer
        /\ \A i \in DOMAIN records :
             /\ StageAccepted(again[i])
             /\ TransformRecord(again[i], Plan(again, Wrap(17 * i))[i]) = records[i]

(* expected_bytes: of whole records, the figure is at least their share in *)
(* bytes, and - where every count of records is exact in a float - at most *)
(* that and one record more with the headroom of both.  The bound of       *)
(* sample/run.rs:112-115, the share with its headroom and one record, is   *)
(* kept by records of no more than HeadroomDivisor bytes, as the 12 bytes  *)
(* of its test; the headroom of a longer record can exceed it.  One more   *)
(* file never lowers the figure.                                           *)
Total(counted) ==
  LET total[n \in 0 .. Len(counted)] == IF n = 0 THEN 0 ELSE total[n - 1] + counted[n]
  IN  total[Len(counted)]

EstimateCovers ==
  estimate # None =>
    LET rate    == asked.stages[1].rate
        total   == Total(lengths)
        share   == DivCeil(total * rate, RateUnit)
        ceiling == share + shape.width
    IN  /\ total \in Word /\ total % shape.width = 0 =>
             /\ estimate >= share
             /\ total \div shape.width <= 2 ^ Mantissa =>
                  /\ estimate <= ceiling + DivCeil(ceiling, HeadroomDivisor)
                  /\ shape.width <= HeadroomDivisor =>
                       estimate <= ceiling + DivCeil(share, HeadroomDivisor)
        /\ ExpectedBytes(PassBytes(Front(lengths)), shape.width, rate) <= estimate

=============================================================================
