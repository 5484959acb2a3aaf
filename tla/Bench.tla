-------------------------------- MODULE Bench --------------------------------
(***************************************************************************)
(* The benchmark, from the parsed options to the exit code: bench() builds *)
(* a corpus, measures each case of the suite a number of times and then    *)
(* the Deno sampler, and the example's run() writes the evidence and holds *)
(* it to the two gates.                                                    *)
(*                                                                         *)
(* The measured processes are the environment: they take any time and any  *)
(* memory, fail, or publish what their manifest denies.  A figure divided  *)
(* by another is a fraction <<n, d>>; a tolerance and a minimum speedup    *)
(* are in Parts of one.  What decides nothing - the tool, the host, the    *)
(* wording of a report - is left out.                                      *)
(***************************************************************************)
EXTENDS Integers, Sequences, SequencesExt

CONSTANTS
  Requests,      \* the options to run with
  Times,         \* milliseconds a process may take
  Peaks,         \* its sampled peaks in KiB, NotSampled among them
  Publications,  \* what a case's process may publish
  Summaries,     \* what the Deno sampler may print and publish
  Recorded,      \* reports that may stand at the baseline's path
  Parts          \* tolerances and speedups are multiples of 1 / Parts

NotSampled  == -1
NotANumber  == -2
Nothing     == [label |-> "nothing"]

Case        == [label : STRING, transform : {"sample", "quantise", "pipeline"}, rate : Nat]
Publication == [read : Nat, bytes : Nat, held : Nat]
Summary     == [read : Nat \cup {NotANumber}, held : Nat]
Measured    == [label : STRING, elapsed : Nat, peak : Nat \cup {NotSampled},
                read : Nat, bytes : Nat]

ASSUME BenchAssumption ==
  /\ Times \subseteq Nat /\ Peaks \subseteq Nat \cup {NotSampled} /\ Parts \in Nat \ {0}
  /\ Publications \subseteq Publication /\ Summaries \subseteq Summary
  /\ \A b \in Recorded : b.corpus \in Nat /\ b.cases \in Seq(Measured)
  /\ \A r \in Requests :
       /\ r.suite \in Seq(Case) /\ r.repeats \in Nat /\ r.shape \in BOOLEAN
       /\ r.corpus \in Nat /\ r.reference \in BOOLEAN /\ r.rate \in Nat
       /\ r.baseline \in {"none", "elsewhere", "evidence"} /\ r.tolerance \in Int
       /\ r.gated \in BOOLEAN /\ r.minimum \in Nat \cup {NotANumber}

VARIABLES
  step,       \* what run() does next
  options,    \* the options; corpus stands for its records and their shape
  scratch,    \* the workspace: "none", "empty", "corpus", or "stuck" there
  slots,      \* what is published in out-<label>
  repeat,     \* runs measured of the case at hand
  fastest,    \* the quickest of them
  peak,       \* the highest of their peaks
  seen,       \* history: those runs
  cases,      \* report.cases
  reference,  \* report.reference
  evidence,   \* the files of the report that are written
  recorded,   \* history: the report at the baseline's path when the run began
  file,       \* what stands at that path now
  exit        \* the exit code, once there is one

measuring == <<slots, repeat, fastest, peak, seen>>
report    == <<cases, reference>>
written   == <<evidence, recorded, file>>
vars      == <<step, options, scratch, measuring, report, written, exit>>

Labels == UNION {{r.suite[i].label : i \in DOMAIN r.suite} : r \in Requests}

NoReport == [corpus |-> -1, cases |-> <<>>]

Init ==
  /\ step = "prepare"
  /\ options \in Requests
  /\ scratch = "none"
  /\ slots = [l \in Labels |-> Nothing]
  /\ repeat = 0 /\ fastest = -1 /\ peak = NotSampled /\ seen = {}
  /\ cases = <<>> /\ reference = Nothing
  /\ evidence = {}
  /\ recorded \in IF options.baseline = "none" THEN {NoReport} ELSE Recorded
  /\ file = recorded
  /\ exit = -1

Go(from, to) == step = from /\ step' = to

(* main() prints the error and exits with 1.                               *)
Ends(code) == step' = "ended" /\ exit' = code

(* bench() returns an error: the workspace is cleared before it is read.   *)
Fails == step' = "clear" /\ exit' = 1

(* println! panics where standard output is closed.                        *)
PrintPanics ==
  /\ step \in {"configure", "write", "baseline", "speedup"}
  /\ Ends(101)
  /\ UNCHANGED <<options, scratch, measuring, report, written>>

-----------------------------------------------------------------------------
(* bench(): the corpus                                                     *)

(* The workspace is created before the shape is looked at.                 *)
Prepare ==
  /\ step = "prepare"
  /\ \/ Ends(1) /\ UNCHANGED scratch
     \/ ~options.shape /\ scratch' = "empty" /\ Ends(1)
     \/ options.shape /\ scratch' = "empty" /\ step' = "configure" /\ UNCHANGED exit
  /\ UNCHANGED <<options, measuring, report, written>>

Configure ==
  /\ step = "configure"
  /\ IF options.repeats = 0 \/ options.suite = <<>> THEN Fails ELSE step' = "corpus" /\ UNCHANGED exit
  /\ UNCHANGED <<options, scratch, measuring, report, written>>

(* A corpus of no records is refused; a write may fail half way.           *)
BuildCorpus ==
  /\ step = "corpus"
  /\ \/ options.corpus > 0 /\ scratch' = "corpus" /\ step' = "measure" /\ UNCHANGED exit
     \/ scratch' \in {"empty", "corpus"} /\ Fails
  /\ UNCHANGED <<options, measuring, report, written>>

-----------------------------------------------------------------------------
(* measure_case()                                                          *)

Higher(p, q) == IF q > p THEN q ELSE p

(* Faulty: the last run is kept, not the fastest.                          *)
Latest(best, elapsed) == elapsed

Quicker(best, elapsed) == IF best = -1 \/ elapsed < best THEN elapsed ELSE best

(* One process, timed and sampled until it exits; NotSampled is below      *)
(* every sample, as None is in the match of measure_case.                  *)
Sample(elapsed, sampled) ==
  /\ repeat < options.repeats
  /\ repeat' = repeat + 1
  /\ fastest' = Quicker(fastest, elapsed)
  /\ peak' = Higher(peak, sampled)
  /\ seen' = seen \cup {<<elapsed, sampled>>}

Restart == repeat' = 0 /\ fastest' = -1 /\ peak' = NotSampled /\ seen' = {}

Current == options.suite[Len(cases) + 1]

MeasureCase ==
  /\ step = "measure" /\ Len(cases) < Len(options.suite)
  /\ \E elapsed \in Times, sampled \in Peaks, p \in Publications :
       /\ Sample(elapsed, sampled)
       /\ slots' = [slots EXCEPT ![Current.label] = p]
  /\ UNCHANGED <<step, options, scratch, report, written, exit>>

(* It cannot be started, exits non-zero, its files cannot be made, or the  *)
(* Deno sampler's summary cannot be read.                                  *)
MeasureFails ==
  /\ step \in {"measure", "reference"} /\ repeat < options.repeats
  /\ step = "measure" => Len(cases) < Len(options.suite)
  /\ Fails
  /\ UNCHANGED <<options, scratch, measuring, report, written>>

(* Its error carries the end of what it wrote to standard error, cut at a  *)
(* byte: a cut inside a character panics, past the workspace.              *)
TailPanics ==
  /\ step \in {"measure", "reference"} /\ repeat < options.repeats
  /\ step = "measure" => Len(cases) < Len(options.suite)
  /\ Ends(101)
  /\ UNCHANGED <<options, scratch, measuring, report, written>>

(* Faulty: what the case read is not held to the corpus.                   *)
PublishedAsItSays(p) == p.held = p.bytes

Covers(p) == p.read = options.corpus /\ p.held = p.bytes

(* What the last run published is held to the corpus and to its manifest.  *)
RecordCase ==
  /\ step = "measure" /\ Len(cases) < Len(options.suite)
  /\ repeat = options.repeats
  /\ LET p == slots[Current.label]
     IN  /\ Covers(p)
         /\ cases' = Append(cases, [label |-> Current.label, elapsed |-> fastest, peak |-> peak,
                                    read |-> p.read, bytes |-> p.bytes])
  /\ Restart
  /\ UNCHANGED <<step, options, scratch, slots, reference, written, exit>>

RejectCase ==
  /\ step = "measure" /\ Len(cases) < Len(options.suite)
  /\ repeat = options.repeats
  /\ ~Covers(slots[Current.label])
  /\ Fails
  /\ UNCHANGED <<options, scratch, measuring, report, written>>

CasesMeasured ==
  /\ Len(cases) = Len(options.suite)
  /\ Go("measure", IF options.reference THEN "reference" ELSE "clear")
  /\ UNCHANGED <<options, scratch, measuring, report, written, exit>>

-----------------------------------------------------------------------------
(* measure_reference()                                                     *)

(* The first case that samples at the reference's rate, 0 where none does. *)
Mirrored ==
  SelectInSeq(options.suite, LAMBDA c : c.transform = "sample" /\ c.rate = options.rate)

MeasureReference ==
  /\ step = "reference" /\ Mirrored # 0
  /\ \E elapsed \in Times, sampled \in Peaks : Sample(elapsed, sampled)
  /\ UNCHANGED <<step, options, scratch, slots, report, written, exit>>

(* Nothing to mirror; or a summary that lacks a count, a corpus read in    *)
(* part, no bytes published.                                               *)
RejectReference ==
  /\ step = "reference"
  /\ \/ Mirrored = 0
     \/ repeat = options.repeats /\ \E s \in Summaries : s.read # options.corpus \/ s.held = 0
  /\ Fails
  /\ UNCHANGED <<options, scratch, measuring, report, written>>

RecordReference ==
  /\ step = "reference" /\ Mirrored # 0
  /\ repeat = options.repeats
  /\ \E s \in Summaries :
       /\ s.read = options.corpus /\ s.held > 0
       /\ reference' = [label |-> "typescript", mirrors |-> options.suite[Mirrored].label,
                        elapsed |-> fastest, peak |-> peak, read |-> s.read, bytes |-> s.held]
  /\ Restart
  /\ step' = "clear"
  /\ UNCHANGED <<options, scratch, slots, cases, written, exit>>

-----------------------------------------------------------------------------
(* The example's run(): the workspace goes, the evidence is written        *)

(* After a failed benchmark too; remove_dir_all's own error is dropped.    *)
Clear ==
  /\ step = "clear"
  /\ scratch' \in {"none", "stuck"}
  /\ step' = IF exit = 1 THEN "ended" ELSE "write"
  /\ UNCHANGED <<options, measuring, report, written, exit>>

Report == [corpus |-> options.corpus, cases |-> cases]

(* The JSON is what a later run is held to - and, where --baseline names a *)
(* report under the evidence directory by the stem of this one, this run.  *)
WriteJson ==
  /\ Go("write", "markdown")
  /\ evidence' = evidence \cup {"json"}
  /\ file' = IF options.baseline = "evidence" THEN Report ELSE file
  /\ UNCHANGED <<options, scratch, measuring, report, recorded, exit>>

WriteMarkdown ==
  /\ Go("markdown", "baseline")
  /\ evidence' = evidence \cup {"markdown"}
  /\ UNCHANGED <<options, scratch, measuring, report, recorded, file, exit>>

WriteFails ==
  /\ step \in {"write", "markdown"}
  /\ Ends(1)
  /\ UNCHANGED <<options, scratch, measuring, report, written>>

-----------------------------------------------------------------------------
(* Comparison::of and assert_clean                                         *)

PerSecond(r) == IF r.elapsed = 0 THEN <<0, 1>> ELSE <<r.read * 1000, r.elapsed>>

(* Fractions with positive denominators, parts in Parts of one: f < g * k. *)
Below(f, g, k) == f[1] * g[2] * Parts < g[1] * f[2] * k

(* A baseline figure of zero is no divisor: nothing is said of the ratio.  *)
Slower(was, now, tolerance) ==
  PerSecond(was)[1] > 0 /\ Below(PerSecond(now), PerSecond(was), Parts - tolerance)

Grew(was, now, tolerance) == was > 0 /\ now * Parts > was * (Parts + tolerance)

Sampled(was, now) == was.peak # NotSampled /\ now.peak # NotSampled

Regressed(was, now, tolerance) ==
  \/ Slower(was, now, tolerance)
  \/ Sampled(was, now) /\ Grew(was.peak, now.peak, tolerance)
  \/ Grew(was.bytes, now.bytes, tolerance)

(* BenchReport::case: the first result under the label.                    *)
Find(results, label) == SelectInSeq(results, LAMBDA r : r.label = label)

(* Faulty: a case that was not measured is noted, no more.                 *)
NotedOnly(was, results, tolerance) ==
  LET n == Find(results, was.label) IN n = 0 \/ ~Regressed(was, results[n], tolerance)

HeldItsGround(was, results, tolerance) ==
  LET n == Find(results, was.label) IN n # 0 /\ ~Regressed(was, results[n], tolerance)

Comparable(base) == options.tolerance \in 0 .. Parts - 1 /\ base.corpus = options.corpus

IsClean(base) ==
  \A i \in DOMAIN base.cases : HeldItsGround(base.cases[i], cases, options.tolerance)

(* The baseline is read here, after the evidence is on disk.               *)
BaselineGate ==
  /\ step = "baseline"
  /\ IF options.baseline = "none" \/ (Comparable(file) /\ IsClean(file))
       THEN step' = "speedup" /\ UNCHANGED exit
       ELSE Ends(1)
  /\ UNCHANGED <<options, scratch, measuring, report, written>>

BaselineUnreadable ==
  /\ step = "baseline" /\ options.baseline # "none"
  /\ Ends(1)
  /\ UNCHANGED <<options, scratch, measuring, report, written>>

-----------------------------------------------------------------------------
(* check_speedup()                                                         *)

(* sample_speedup: none without a reference, or of one that took no time.  *)
Speedup ==
  IF reference = Nothing \/ PerSecond(reference)[1] = 0 THEN Nothing
  ELSE LET mirrored == PerSecond(cases[Find(cases, reference.mirrors)])
           deno     == PerSecond(reference)
       IN  [label |-> "speedup", of |-> <<mirrored[1] * deno[2], mirrored[2] * deno[1]>>]

(* Faulty: a run that measured no reference clears the gate.               *)
ClearsOrHasNone(minimum) == Speedup = Nothing \/ ~Below(Speedup.of, <<1, 1>>, minimum)

(* No number is below what is not a number.                                *)
Clears(minimum) ==
  /\ Speedup # Nothing
  /\ minimum = NotANumber \/ ~Below(Speedup.of, <<1, 1>>, minimum)

SpeedupGate ==
  /\ step = "speedup"
  /\ Ends(IF options.gated => Clears(options.minimum) THEN 0 ELSE 1)
  /\ UNCHANGED <<options, scratch, measuring, report, written>>

Next ==
  \/ Prepare \/ Configure \/ BuildCorpus \/ PrintPanics
  \/ MeasureCase \/ MeasureFails \/ TailPanics \/ RecordCase \/ RejectCase \/ CasesMeasured
  \/ MeasureReference \/ RejectReference \/ RecordReference
  \/ Clear \/ WriteJson \/ WriteMarkdown \/ WriteFails
  \/ BaselineGate \/ BaselineUnreadable \/ SpeedupGate

Spec == Init /\ [][Next]_vars

-----------------------------------------------------------------------------
(* Properties *)

(* A figure is of the runs that were made: the time is the least of them,  *)
(* the peak the greatest that was sampled, and none only where none was.   *)
Honest(r, runs) ==
  LET sampled == {run[2] : run \in runs} \ {NotSampled}
  IN  /\ \E run \in runs : run[1] = r.elapsed
      /\ \A run \in runs : r.elapsed <= run[1]
      /\ IF sampled = {} THEN r.peak = NotSampled
                        ELSE r.peak \in sampled /\ \A p \in sampled : p <= r.peak

(* What is recorded of a case, or of the Deno sampler, is honest about its *)
(* own runs and no other's; the bytes are those on disk when it ended.     *)
FiguresAreHonest ==
  [][/\ cases' # cases =>
          Honest(Last(cases'), seen) /\ Last(cases').bytes = slots[Last(cases').label].held
     /\ reference' # reference => Honest(reference', seen)]_vars

(* Evidence is written of a suite that was measured whole - each case over *)
(* the whole corpus, the reference where it was asked for and beside the   *)
(* sampler it mirrors - and exit 0 leaves all of it.  No run that ended    *)
(* leaves its corpus, unless it cannot be removed or the harness panicked. *)
EvidenceIsWhole ==
  /\ evidence # {} =>
       /\ Len(cases) = Len(options.suite)
       /\ \A i \in DOMAIN cases :
            cases[i].label = options.suite[i].label /\ cases[i].read = options.corpus
       /\ options.reference <=> reference # Nothing
       /\ reference # Nothing =>
            \E c \in Range(options.suite) :
              c.label = reference.mirrors /\ c.transform = "sample" /\ c.rate = options.rate
  /\ exit = 0 => evidence = {"json", "markdown"}
  /\ step = "ended" /\ exit # 101 => scratch # "corpus"

OneOfEach == \A i, j \in DOMAIN options.suite : options.suite[i].label = options.suite[j].label => i = j

(* b was measured again, and is no more than the tolerance worse: in time, *)
(* the corpora being equal, in memory where both were sampled, in bytes.   *)
MeasuredAgain(b) ==
  \E i \in DOMAIN cases :
    /\ cases[i].label = b.label
    /\ b.elapsed > 0 => /\ cases[i].elapsed > 0
                        /\ cases[i].elapsed * (Parts - options.tolerance) <= b.elapsed * Parts
    /\ b.peak > 0 => cases[i].peak * Parts <= b.peak * (Parts + options.tolerance)
    /\ b.bytes > 0 => cases[i].bytes * Parts <= b.bytes * (Parts + options.tolerance)

(* benchmark.rs: "fail if this run regressed against that committed        *)
(* report" - the one that stood there when the run began.                  *)
HeldToTheBaseline ==
  exit = 0 /\ options.baseline # "none" => \A b \in Range(recorded.cases) : MeasuredAgain(b)

(* So it is wherever the evidence is not written over the baseline and no  *)
(* two cases share a label, which alone would hide one of them.            *)
BaselineHolds == options.baseline # "evidence" /\ OneOfEach => HeldToTheBaseline

(* A speedup gate that was cleared had both samplers measured: the case at *)
(* the reference's rate read at least the minimum times as fast.           *)
SpeedupIsEarned ==
  exit = 0 /\ options.gated /\ options.minimum # NotANumber /\ OneOfEach =>
    /\ reference # Nothing /\ reference.elapsed > 0
    /\ \E i \in DOMAIN cases :
         /\ options.suite[i].transform = "sample" /\ options.suite[i].rate = options.rate
         /\ cases[i].elapsed * options.minimum <= reference.elapsed * Parts
         /\ options.minimum > 0 => cases[i].elapsed > 0

=============================================================================
