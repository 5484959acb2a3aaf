------------------------------- MODULE MCBench -------------------------------
EXTENDS Bench

Sampler(l, r) == [label |-> l, transform |-> "sample", rate |-> r]
Quantiser(l)  == [label |-> l, transform |-> "quantise", rate |-> 0]

\* The beginning of the standard suite; one whose chain samples at the rate of
\* its sampler; one whose two cases share a label.
Standard == <<Sampler("sample", 1), Quantiser("quantise")>>
Chained  == <<[label |-> "pipeline", transform |-> "pipeline", rate |-> 1], Sampler("half", 1)>>
Shared   == <<Quantiser("sample"), Sampler("sample", 1)>>

Plain ==
  [suite |-> Standard, repeats |-> 2, shape |-> TRUE, corpus |-> 2, reference |-> FALSE,
   rate |-> 1, baseline |-> "none", tolerance |-> 1, gated |-> FALSE, minimum |-> 0]

MCRequests ==
  {Plain,
   [Plain EXCEPT !.shape = FALSE],
   [Plain EXCEPT !.suite = <<>>],
   [Plain EXCEPT !.repeats = 0],
   [Plain EXCEPT !.corpus = 0],
   [Plain EXCEPT !.baseline = "evidence", !.repeats = 1],
   [Plain EXCEPT !.reference = TRUE, !.rate = 3, !.repeats = 1],
   [Plain EXCEPT !.suite = Chained, !.reference = TRUE, !.gated = TRUE, !.minimum = NotANumber,
                 !.repeats = 1]}
  \cup {[Plain EXCEPT !.baseline = "elsewhere", !.tolerance = t] : t \in {-1, 0, 1, 4}}
  \cup {[Plain EXCEPT !.suite = s, !.baseline = "elsewhere", !.repeats = 1] : s \in {Chained, Shared}}
  \cup {[Plain EXCEPT !.suite = s, !.reference = r, !.gated = TRUE, !.minimum = m, !.repeats = 1] :
          s \in {Standard, Chained, Shared}, r \in BOOLEAN, m \in {0, 4, 8}}

\* --baseline docs/evidence/bench-<os>-<arch>.json, as bench/run.sh shows it.
MCOverwriting == {[Plain EXCEPT !.baseline = "evidence", !.repeats = 1]}

MCPublications == {[read |-> 2, bytes |-> 4, held |-> 4], [read |-> 2, bytes |-> 8, held |-> 8],
                   [read |-> 1, bytes |-> 4, held |-> 4], [read |-> 2, bytes |-> 4, held |-> 3]}

MCSummaries == {[read |-> r, held |-> h] : r \in {1, 2, NotANumber}, h \in {0, 3}}

Result(l, e, p, b) == [label |-> l, elapsed |-> e, peak |-> p, read |-> 2, bytes |-> b]

\* Reports of this suite, of a longer one, of one with nothing to divide by,
\* and of another corpus.
MCRecorded ==
  {[corpus |-> 2, cases |-> <<Result("sample", 2, 2, 4), Result("quantise", 4, NotSampled, 4)>>],
   [corpus |-> 2, cases |-> <<Result("sample", 3, 2, 8), Result("half", 2, 3, 8)>>],
   [corpus |-> 2, cases |-> <<Result("sample", 0, NotSampled, 0)>>],
   [corpus |-> 4, cases |-> <<[Result("sample", 4, 2, 8) EXCEPT !.read = 4]>>]}

MCTimes == {0, 2, 3}
MCSlow  == {6}
MCPeaks == {NotSampled, 2, 3}

=============================================================================
