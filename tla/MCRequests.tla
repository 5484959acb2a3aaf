----------------------------- MODULE MCRequests -----------------------------
(* Small instances of Requests: command lines of every kind, over words of *)
(* ten bits and floats of six.                                             *)
EXTENDS Requests

Sample(rate)          == [transform |-> "sample", rate |-> rate, seed |-> 7]
Fuzz(scale, min, max) ==
  [transform |-> "fuzz", distribution |-> "gaussian", mode |-> "relative", targets |-> "inputs",
   scale |-> scale, min |-> min, max |-> max, seed |-> None]
Quantise(scheme)      == [transform |-> "quantise", scheme |-> scheme, seed |-> None]
Unpinned(stage)       == [stage EXCEPT !.seed = None]

Entry(fault, key, value) == [fault |-> fault, key |-> key, value |-> value]

Command(shape_, command, stages, metadata) ==
  [command |-> command, inputs |-> shape_[1], outputs |-> shape_[2], readable |-> TRUE, version |-> 1,
   stages |-> stages, seed |-> IF stages = <<>> THEN None ELSE stages[1].seed, metadata |-> metadata]

Narrow  == <<1, 1>>
Shapes  == {Narrow, <<2, 1>>, <<0, 1>>, <<1, 0>>, <<127, 128>>, <<128, 128>>, <<1023, 1>>, <<200, 55>>}
Rates  == {NaN, -Infinite, -1, 0, 1, 3, RateUnit - 1, RateUnit, RateUnit + 1, Infinite}
Limits  == {None, NaN, -Infinite, -1, 0, 1, Infinite}
Scales  == {NaN, -1, 0, 1, Infinite}
Entries == {Entry(None, k, v) : k \in {"k", "l"}, v \in {"v", "w"}} \cup {Entry("key", "", "v")}

Singles ==
  {Command(s, "sample", <<Sample(r)>>, <<>>) : s \in Shapes, r \in Rates}
    \cup {Command(Narrow, "fuzz", <<[Fuzz(s, min, max) EXCEPT !.seed = 7]>>, <<>>) :
            s \in Scales, min \in Limits, max \in Limits}
    \cup {Command(Narrow, "fuzz", <<f>>, <<>>) :
            f \in {Fuzz(1, None, None), [Fuzz(1, 0, 1) EXCEPT !.distribution = "laplace"],
                   [Fuzz(1, 0, 1) EXCEPT !.mode = "signed"], [Fuzz(1, 0, 1) EXCEPT !.targets = "none"]}}
    \cup {Command(s, "quantise", <<Quantise(q)>>, <<>>) : s \in Shapes, q \in {"bfloat16", "float8"}}
    \cup {Command(Narrow, "quantise", <<Quantise("bfloat16")>>, m) : m \in UNION {[1 .. n -> Entries] : n \in 1 .. 3}}

Usable   == {Sample(3), Unpinned(Sample(3)), Fuzz(1, 0, 1), Quantise("bfloat16")}
Chains   == UNION {[1 .. n -> Usable] : n \in 0 .. 2}
              \cup {<<Fuzz(1, 0, 1), s, Unpinned(Sample(3))>> : s \in Usable}
              \cup {<<Sample(3), s>> : s \in {Sample(NaN), Fuzz(1, 1, 0), Quantise("float8")}}
Chained(c)    == Command(<<2, 1>>, "pipeline", c, <<>>)
Pipelines ==
  {[Chained(c) EXCEPT !.seed = None] : c \in Chains}
    \cup {[Chained(<<Fuzz(1, 0, 1)>>) EXCEPT !.readable = FALSE],
          [Chained(<<Fuzz(1, 0, 1)>>) EXCEPT !.version = 2],
          [Chained(<<Unpinned(Sample(3)), Fuzz(1, 0, 1)>>) EXCEPT !.seed = 5]}

CommandLines == Singles \cup Pipelines

(* Every length of one file, and files that together outgrow a word.       *)
Measured == {<<n>> : n \in Word} \cup {<<m, n>> : m \in {400, 1000, 1023}, n \in {8, 400, 1023}}

ThreeShifts == <<5, 4, 5>>

=============================================================================
