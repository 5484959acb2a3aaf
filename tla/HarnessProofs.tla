--------------------------- MODULE HarnessProofs ---------------------------
(***************************************************************************)
(* What the two harnesses around the binary, the benchmark and the soak,   *)
(* may be believed: first the benchmark, then the soak.                    *)
(***************************************************************************)
EXTENDS Bench, Soak, WellFoundedInduction, TLAPS

(***************************************************************************)
(* What the benchmark's evidence and its gates are worth, for every suite, *)
(* every number of repeats, every time and memory the measured processes   *)
(* take, and every report that stands at the baseline's path.              *)
(***************************************************************************)

(* Any set of numbers has a least one.                                     *)
LEMMA Least ==
  ASSUME NEW T \in SUBSET Nat, T # {}
  PROVE  \E n \in T : \A m \in T : n <= m
<1>1. PICK x \in T : \A y \in T : ~ (<<y, x>> \in OpToRel(<, Nat))
  BY NatLessThanWellFounded, WFMin, Zenon
<1>2. \A y \in T : ~(y < x)
  <2> SUFFICES ASSUME NEW y \in T, y < x PROVE FALSE
    OBVIOUS
  <2>1. <<y, x>> \in OpToRel(<, Nat)
    BY Zenon DEF OpToRel
  <2> QED
    BY <1>1, <2>1, Zenon
<1> QED
  BY <1>2

(* The place of a label in a list of results, 0 where it has none.         *)
LEMMA Finds ==
  ASSUME NEW results \in Seq(Measured), NEW label
  PROVE  LET n == Find(results, label)
         IN  \/ n = 0 /\ \A i \in 1 .. Len(results) : results[i].label # label
             \/ n \in 1 .. Len(results) /\ results[n].label = label
<1> DEFINE I == {i \in 1 .. Len(results) : results[i].label = label}
<1>1. I # {} => Min(I) \in I
  <2> SUFFICES ASSUME I # {} PROVE Min(I) \in I
    OBVIOUS
  <2>1. I \in SUBSET Nat
    OBVIOUS
  <2> HIDE DEF I
  <2>2. \E n \in I : \A m \in I : n <= m
    BY <2>1, Least
  <2> QED
    BY <2>2 DEF Min
<1>2. Find(results, label) = IF I # {} THEN Min(I) ELSE 0
  BY DEF Find, SelectInSeq
<1> QED
  BY <1>1, <1>2

(* The case the reference mirrors is one of the suite's, and samples at    *)
(* its rate.                                                               *)
LEMMA Mirrors ==
  ASSUME options \in Requests
  PROVE  Mirrored = 0 \/ /\ Mirrored \in 1 .. Len(options.suite)
                         /\ options.suite[Mirrored].transform = "sample"
                         /\ options.suite[Mirrored].rate = options.rate
<1> DEFINE I == {i \in 1 .. Len(options.suite) : /\ options.suite[i].transform = "sample"
                                                 /\ options.suite[i].rate = options.rate}
<1>0. options.suite \in Seq(Case)
  BY BenchAssumption
<1>1. I # {} => Min(I) \in I
  <2> SUFFICES ASSUME I # {} PROVE Min(I) \in I
    OBVIOUS
  <2>1. I \in SUBSET Nat
    BY <1>0
  <2> HIDE DEF I
  <2>2. \E n \in I : \A m \in I : n <= m
    BY <2>1, Least
  <2> QED
    BY <2>2 DEF Min
<1>2. Mirrored = IF I # {} THEN Min(I) ELSE 0
  BY DEF Mirrored, SelectInSeq
<1> QED
  BY <1>1, <1>2


-----------------------------------------------------------------------------
(* The inductive invariant.                                                *)

Measuring == {"corpus", "measure", "reference"}
Later     == {"write", "markdown", "baseline", "speedup"}
Steps     == {"prepare", "configure", "clear", "ended"} \cup Measuring \cup Later

TypeOK ==
  /\ step \in Steps
  /\ options \in Requests
  /\ scratch \in {"none", "empty", "corpus", "stuck"}
  /\ slots \in [Labels -> Publications \cup {Nothing}]
  /\ repeat \in Nat
  /\ fastest \in Nat \cup {-1} /\ peak \in Nat \cup {NotSampled}
  /\ seen \subseteq Times \X Peaks
  /\ cases \in Seq(Measured)
  /\ recorded \in Recorded \cup {NoReport}
  /\ evidence \subseteq {"json", "markdown"}
  /\ exit \in {-1, 0, 1, 101}

(* The time kept is the least of the runs', the peak the greatest.         *)
Fastest(e, runs) == (\E run \in runs : run[1] = e) /\ \A run \in runs : e <= run[1]

Highest(p, runs) ==
  /\ \A run \in runs : run[2] <= p
  /\ p = NotSampled \/ \E run \in runs : run[2] = p

(* The running figures are of the runs of the case at hand, and the last   *)
(* of those runs has published.                                            *)
Tally ==
  /\ repeat = 0 <=> seen = {}
  /\ seen = {} => fastest = -1
  /\ seen # {} => fastest \in Nat /\ Fastest(fastest, seen)
  /\ Highest(peak, seen)
  /\ step \in {"prepare", "configure", "corpus"} => repeat = 0
  /\ step = "measure" /\ repeat > 0 =>
       Len(cases) < Len(options.suite) /\ slots[Current.label] \in Publications

(* Where the run stands, and what it has passed to get there.              *)
Course ==
  /\ step \notin {"clear", "ended"} => exit = -1
  /\ step = "clear" => exit \in {-1, 1}
  /\ step = "ended" => exit # -1
  /\ step \in Measuring => options.repeats > 0
  /\ step \in {"measure", "reference"} \cup Later \/ exit = 0 => options.corpus > 0
  /\ step = "clear" /\ exit = -1 => options.corpus > 0

(* The whole suite is behind the run.                                      *)
Through == evidence # {} \/ step \in Later \/ exit = 0 \/ (step = "clear" /\ exit = -1)

(* The cases recorded are the first of the suite, and the reference comes  *)
(* after them all, beside the sampler it mirrors.                          *)
Suite ==
  /\ Len(cases) <= Len(options.suite)
  /\ \A i \in 1 .. Len(cases) :
       cases[i].label = options.suite[i].label /\ cases[i].read = options.corpus
  /\ step \in {"prepare", "configure", "corpus", "measure", "reference"} => reference = Nothing
  /\ step = "reference" => Len(cases) = Len(options.suite) /\ options.reference
  /\ reference # Nothing =>
       /\ Mirrored # 0 /\ reference.mirrors = options.suite[Mirrored].label
       /\ reference.read = options.corpus /\ reference.elapsed \in Nat
  /\ Through => Len(cases) = Len(options.suite) /\ (options.reference <=> reference # Nothing)

(* What is on disk at each step.                                           *)
Files ==
  /\ step \in {"prepare", "configure", "corpus", "measure", "reference", "clear", "write"} =>
       evidence = {}
  /\ step = "markdown" => evidence = {"json"}
  /\ step \in {"baseline", "speedup"} \/ exit = 0 => evidence = {"json", "markdown"}
  /\ step = "prepare" => scratch = "none"
  /\ step \in Later => scratch # "corpus"
  /\ step = "ended" /\ exit # 101 => scratch # "corpus"
  /\ options.baseline = "none" \/ recorded \in Recorded
  /\ options.baseline # "evidence" => file = recorded

(* A gate that lies behind the run was cleared, by figures that stand.     *)
Gates ==
  /\ step = "speedup" \/ exit = 0 =>
       options.baseline = "none" \/ (Comparable(file) /\ IsClean(file))
  /\ exit = 0 /\ options.gated => Clears(options.minimum)

IInv == TypeOK /\ Tally /\ Course /\ Suite /\ Files /\ Gates

(* What the options are.                                                   *)
LEMMA Given ==
  ASSUME options \in Requests
  PROVE  /\ options.suite \in Seq(Case) /\ options.repeats \in Nat /\ options.corpus \in Nat
         /\ options.reference \in BOOLEAN /\ options.tolerance \in Int
         /\ options.minimum \in Nat \cup {NotANumber}
         /\ options.baseline \in {"none", "elsewhere", "evidence"}
         /\ Len(options.suite) \in Nat
BY BenchAssumption

(* The case at hand is one of the suite's.                                 *)
LEMMA CurrentCase ==
  ASSUME TypeOK, Len(cases) < Len(options.suite)
  PROVE  /\ Len(cases) + 1 \in 1 .. Len(options.suite)
         /\ Current \in Case /\ Current.label \in STRING /\ Current.label \in Labels
<1>1. options \in Requests /\ options.suite \in Seq(Case) /\ Len(options.suite) \in Nat
      /\ Len(cases) \in Nat
  BY Given DEF TypeOK
<1>2. Len(cases) + 1 \in 1 .. Len(options.suite)
  BY <1>1
<1>3. Current \in Case
  BY <1>1, <1>2 DEF Current
<1>4. Current.label \in STRING
  BY <1>3 DEF Case
<1>5. Current.label \in Labels
  <2>1. Len(cases) + 1 \in DOMAIN options.suite
    BY <1>1, <1>2
  <2>2. Current.label \in {options.suite[i].label : i \in DOMAIN options.suite}
    BY <2>1, Zenon DEF Current
  <2> QED
    BY <1>1, <2>2, Zenon DEF Labels
<1> QED
  BY <1>2, <1>3, <1>4, <1>5

-----------------------------------------------------------------------------
(* Types.                                                                  *)

(* One more run keeps the tally.                                           *)
LEMMA SampleKeeps ==
  ASSUME TypeOK, Tally, NEW elapsed \in Times, NEW sampled \in Peaks, Sample(elapsed, sampled)
  PROVE  /\ repeat' \in Nat /\ repeat' > 0 /\ seen' # {} /\ seen' \subseteq Times \X Peaks
         /\ fastest' \in Nat /\ peak' \in Nat \cup {NotSampled}
         /\ Fastest(fastest', seen') /\ Highest(peak', seen')
<1>1. elapsed \in Nat /\ sampled \in Nat \cup {-1} /\ Times \subseteq Nat
      /\ Peaks \subseteq Nat \cup {-1}
  BY BenchAssumption DEF NotSampled
<1>2. /\ repeat' = repeat + 1 /\ seen' = seen \cup {<<elapsed, sampled>>}
      /\ fastest' = Quicker(fastest, elapsed) /\ peak' = Higher(peak, sampled)
  BY DEF Sample
<1>3. \A run \in seen : run[1] \in Nat /\ run[2] \in Nat \cup {-1}
  <2>1. seen \subseteq Times \X Peaks
    BY DEF TypeOK
  <2>2. \A run \in Times \X Peaks : run[1] \in Times /\ run[2] \in Peaks
    OBVIOUS
  <2> QED
    BY <1>1, <2>1, <2>2
<1>4. repeat \in Nat /\ fastest \in Nat \cup {-1} /\ peak \in Nat \cup {-1}
  BY DEF TypeOK, NotSampled
<1>5. repeat' \in Nat /\ repeat' > 0
  BY <1>2, <1>4
<1>6. seen' # {} /\ seen' \subseteq Times \X Peaks
  <2>1. seen \subseteq Times \X Peaks
    BY DEF TypeOK
  <2>2. <<elapsed, sampled>> \in Times \X Peaks
    OBVIOUS
  <2> QED
    BY <1>2, <2>1, <2>2, Zenon
<1> DEFINE last == <<elapsed, sampled>>
<1>9. last \in seen' /\ last[1] = elapsed /\ last[2] = sampled /\ \A run \in seen : run \in seen'
  BY <1>2
<1> HIDE DEF last
<1>7. fastest' \in Nat /\ Fastest(fastest', seen')
  <2>1. CASE seen = {}
    <3>1. fastest' = elapsed
      BY <1>2, <2>1 DEF Tally, Quicker
    <3>2. seen' = {<<elapsed, sampled>>}
      BY <1>2, <2>1
    <3> QED
      BY <1>1, <3>1, <3>2 DEF Fastest
  <2>2. CASE seen # {}
    <3>1. fastest \in Nat /\ (\E run \in seen : run[1] = fastest)
          /\ \A run \in seen : fastest <= run[1]
      BY <2>2 DEF Tally, Fastest
    <3>2. fastest' = IF elapsed < fastest THEN elapsed ELSE fastest
      BY <1>2, <3>1 DEF Quicker
    <3>3. fastest' \in Nat /\ fastest' <= elapsed /\ fastest' <= fastest
      BY <1>1, <3>1, <3>2
    <3>4. \A run \in seen' : fastest' <= run[1]
      BY <1>1, <1>2, <1>3, <3>1, <3>3
    <3>5. \E run \in seen' : run[1] = fastest'
      <4>1. fastest' = elapsed \/ fastest' = fastest
        BY <3>2
      <4> QED
        BY <1>9, <3>1, <4>1, Zenon
    <3> QED
      BY <3>3, <3>4, <3>5 DEF Fastest
  <2> QED
    BY <2>1, <2>2
<1>8. peak' \in Nat \cup {NotSampled} /\ Highest(peak', seen')
  <2>1. /\ \A run \in seen : run[2] <= peak
        /\ peak = -1 \/ \E run \in seen : run[2] = peak
    BY DEF Tally, Highest, NotSampled
  <2>2. peak' = IF sampled > peak THEN sampled ELSE peak
    BY <1>2 DEF Higher
  <2>3. peak' \in Nat \cup {-1} /\ peak <= peak' /\ sampled <= peak'
    BY <1>1, <1>4, <2>2
  <2>4. \A run \in seen' : run[2] <= peak'
    BY <1>1, <1>2, <1>3, <1>4, <2>1, <2>3
  <2>5. peak' = -1 \/ \E run \in seen' : run[2] = peak'
    <3>1. peak' = sampled \/ peak' = peak
      BY <2>2
    <3> QED
      BY <1>9, <2>1, <3>1, Zenon
  <2> QED
    BY <2>3, <2>4, <2>5 DEF Highest, NotSampled
<1> QED
  BY <1>5, <1>6, <1>7, <1>8

(* What a run was asked for, and what it found at the baseline's path,     *)
(* stays; only RecordCase adds a case and only RecordReference a reference. *)
LEMMA Frame ==
  ASSUME [Next]_vars
  PROVE  /\ options' = options /\ recorded' = recorded
         /\ cases' = cases \/ RecordCase
         /\ reference' = reference \/ RecordReference
<1>1. CASE Prepare \/ Configure \/ BuildCorpus \/ PrintPanics
  BY <1>1 DEF Prepare, Configure, BuildCorpus, PrintPanics, report, written
<1>2. CASE MeasureCase \/ MeasureFails \/ TailPanics \/ RejectCase \/ CasesMeasured
  BY <1>2 DEF MeasureCase, MeasureFails, TailPanics, RejectCase, CasesMeasured, report, written
<1>3. CASE RecordCase
  BY <1>3 DEF RecordCase, written
<1>4. CASE MeasureReference \/ RejectReference
  BY <1>4 DEF MeasureReference, RejectReference, report, written
<1>5. CASE RecordReference
  BY <1>5 DEF RecordReference, written
<1>6. CASE Clear \/ WriteJson \/ WriteMarkdown \/ WriteFails
  BY <1>6 DEF Clear, WriteJson, WriteMarkdown, WriteFails, report, written
<1>7. CASE BaselineGate \/ BaselineUnreadable \/ SpeedupGate
  BY <1>7 DEF BaselineGate, BaselineUnreadable, SpeedupGate, report, written
<1>8. CASE UNCHANGED vars
  BY <1>8 DEF vars, report, written
<1> QED
  BY <1>1, <1>2, <1>3, <1>4, <1>5, <1>6, <1>7, <1>8 DEF Next

(* What RecordCase adds: the figures of the runs just made.                *)
LEMMA Recording ==
  ASSUME TypeOK, Tally, Course, RecordCase
  PROVE  /\ seen # {} /\ fastest \in Nat
         /\ slots[Current.label] \in Publications /\ Covers(slots[Current.label])
         /\ LET r == [label |-> Current.label, elapsed |-> fastest, peak |-> peak,
                      read |-> slots[Current.label].read, bytes |-> slots[Current.label].bytes]
            IN  r \in Measured /\ cases' = Append(cases, r)
         /\ Len(cases) < Len(options.suite) /\ cases' \in Seq(Measured)
<1>1. step = "measure" /\ Len(cases) < Len(options.suite) /\ repeat = options.repeats
  BY DEF RecordCase
<1>2. repeat > 0
  BY <1>1 DEF Course, Measuring
<1>3. seen # {} /\ fastest \in Nat /\ slots[Current.label] \in Publications
  BY <1>1, <1>2 DEF Tally
<1> DEFINE p == slots[Current.label]
           r == [label |-> Current.label, elapsed |-> fastest, peak |-> peak,
                 read |-> p.read, bytes |-> p.bytes]
<1>4. Covers(p) /\ cases' = Append(cases, r)
  BY DEF RecordCase
<1>5. p.read \in Nat /\ p.bytes \in Nat
  BY <1>3, BenchAssumption DEF Publication
<1>6. Current.label \in STRING
  BY <1>1, CurrentCase
<1>7. peak \in Nat \cup {NotSampled}
  BY DEF TypeOK
<1>8. r \in Measured
  <2> HIDE DEF p
  <2> QED
    BY <1>3, <1>5, <1>6, <1>7 DEF Measured
<1>9. cases' \in Seq(Measured)
  <2>1. cases \in Seq(Measured)
    BY DEF TypeOK
  <2> HIDE DEF r
  <2> QED
    BY <1>4, <1>8, <2>1
<1> QED
  BY <1>1, <1>3, <1>4, <1>8, <1>9

LEMMA TypeStep ==
  ASSUME TypeOK, Tally, Course, [Next]_vars
  PROVE  TypeOK'
<1>0. options' = options /\ recorded' = recorded
  BY Frame
<1> USE DEF TypeOK, Steps, Measuring, Later, measuring, report, written
<1>1. CASE Prepare \/ Configure \/ BuildCorpus \/ PrintPanics
  <2>1. UNCHANGED <<measuring, report, written>>
    BY <1>1 DEF Prepare, Configure, BuildCorpus, PrintPanics
  <2>2. step' \in Steps /\ scratch' \in {"none", "empty", "corpus", "stuck"}
        /\ exit' \in {-1, 0, 1, 101}
    BY <1>1 DEF Prepare, Configure, BuildCorpus, PrintPanics, Ends, Fails
  <2> QED
    BY <1>0, <2>1, <2>2
<1>2. CASE MeasureCase
  <2>1. PICK elapsed \in Times, sampled \in Peaks, p \in Publications :
          /\ Sample(elapsed, sampled)
          /\ slots' = [slots EXCEPT ![Current.label] = p]
    BY <1>2 DEF MeasureCase
  <2>2. /\ repeat' \in Nat /\ fastest' \in Nat /\ peak' \in Nat \cup {NotSampled}
        /\ seen' \subseteq Times \X Peaks
    BY <2>1, SampleKeeps
  <2>3. slots' \in [Labels -> Publications \cup {Nothing}]
    BY <2>1
  <2>4. UNCHANGED <<step, options, scratch, report, written, exit>>
    BY <1>2 DEF MeasureCase
  <2> QED
    BY <1>0, <2>2, <2>3, <2>4
<1>3. CASE MeasureFails \/ TailPanics \/ RejectCase \/ CasesMeasured \/ RejectReference
  <2>1. UNCHANGED <<scratch, measuring, report, written>>
    BY <1>3 DEF MeasureFails, TailPanics, RejectCase, CasesMeasured, RejectReference
  <2>2. step' \in Steps /\ exit' \in {-1, 0, 1, 101}
    BY <1>3 DEF MeasureFails, TailPanics, RejectCase, CasesMeasured, RejectReference, Ends, Fails, Go
  <2> QED
    BY <1>0, <2>1, <2>2
<1>4. CASE RecordCase
  <2>1. cases' \in Seq(Measured)
    BY <1>4, Recording
  <2>2. /\ repeat' = 0 /\ fastest' = -1 /\ peak' = NotSampled /\ seen' = {}
        /\ UNCHANGED <<step, options, scratch, slots, reference, written, exit>>
    BY <1>4 DEF RecordCase, Restart
  <2> QED
    BY <1>0, <2>1, <2>2
<1>5. CASE MeasureReference
  <2>1. PICK elapsed \in Times, sampled \in Peaks : Sample(elapsed, sampled)
    BY <1>5 DEF MeasureReference
  <2>2. /\ repeat' \in Nat /\ fastest' \in Nat /\ peak' \in Nat \cup {NotSampled}
        /\ seen' \subseteq Times \X Peaks
    BY <2>1, SampleKeeps
  <2>3. UNCHANGED <<step, options, scratch, slots, report, written, exit>>
    BY <1>5 DEF MeasureReference
  <2> QED
    BY <1>0, <2>2, <2>3
<1>6. CASE RecordReference
  <2>1. /\ repeat' = 0 /\ fastest' = -1 /\ peak' = NotSampled /\ seen' = {} /\ step' = "clear"
        /\ UNCHANGED <<options, scratch, slots, cases, written, exit>>
    BY <1>6 DEF RecordReference, Restart
  <2> QED
    BY <1>0, <2>1
<1>7. CASE Clear \/ WriteJson \/ WriteMarkdown \/ WriteFails
  <2>1. UNCHANGED <<measuring, report>>
    BY <1>7 DEF Clear, WriteJson, WriteMarkdown, WriteFails
  <2>2. step' \in Steps /\ scratch' \in {"none", "empty", "corpus", "stuck"}
        /\ exit' \in {-1, 0, 1, 101} /\ evidence' \subseteq {"json", "markdown"}
    BY <1>7 DEF Clear, WriteJson, WriteMarkdown, WriteFails, Ends, Go
  <2> QED
    BY <1>0, <2>1, <2>2
<1>8. CASE BaselineGate \/ BaselineUnreadable \/ SpeedupGate
  <2>1. UNCHANGED <<scratch, measuring, report, written>>
    BY <1>8 DEF BaselineGate, BaselineUnreadable, SpeedupGate
  <2>2. step' \in Steps /\ exit' \in {-1, 0, 1, 101}
    BY <1>8 DEF BaselineGate, BaselineUnreadable, SpeedupGate, Ends
  <2> QED
    BY <1>0, <2>1, <2>2
<1>9. CASE UNCHANGED vars
  BY <1>9 DEF vars
<1> QED
  BY <1>1, <1>2, <1>3, <1>4, <1>5, <1>6, <1>7, <1>8, <1>9 DEF Next

LEMMA TallyStep ==
  ASSUME TypeOK, Tally, [Next]_vars
  PROVE  Tally'
<1>0. options' = options
  BY Frame
<1>1. ASSUME UNCHANGED <<measuring, cases>>, step' # "measure" \/ step' = step \/ step = "corpus",
             step' \in {"prepare", "configure", "corpus"}
                => step \in {"prepare", "configure", "corpus"}
      PROVE  Tally'
  <2>1. /\ repeat' = repeat /\ seen' = seen /\ fastest' = fastest /\ peak' = peak
        /\ slots' = slots /\ cases' = cases
    BY <1>1 DEF measuring
  <2>2. Current' = Current
    BY <1>0, <2>1 DEF Current
  <2> QED
    BY <1>0, <1>1, <2>1, <2>2 DEF Tally
<1>2. CASE Prepare \/ Configure \/ BuildCorpus \/ PrintPanics
  BY <1>1, <1>2 DEF Prepare, Configure, BuildCorpus, PrintPanics, report, Ends, Fails
<1>3. CASE MeasureFails \/ TailPanics \/ RejectCase \/ CasesMeasured \/ RejectReference
  BY <1>1, <1>3 DEF MeasureFails, TailPanics, RejectCase, CasesMeasured, RejectReference, report,
     Ends, Fails, Go
<1>4. CASE Clear \/ WriteJson \/ WriteMarkdown \/ WriteFails
  BY <1>1, <1>4 DEF Clear, WriteJson, WriteMarkdown, WriteFails, report, Ends, Go
<1>5. CASE BaselineGate \/ BaselineUnreadable \/ SpeedupGate
  BY <1>1, <1>5 DEF BaselineGate, BaselineUnreadable, SpeedupGate, report, Ends
<1>6. CASE UNCHANGED vars
  BY <1>1, <1>6 DEF vars, report
<1>7. CASE MeasureCase
  <2>1. PICK elapsed \in Times, sampled \in Peaks, p \in Publications :
          /\ Sample(elapsed, sampled)
          /\ slots' = [slots EXCEPT ![Current.label] = p]
    BY <1>7 DEF MeasureCase
  <2>2. /\ repeat' \in Nat /\ repeat' > 0 /\ seen' # {} /\ fastest' \in Nat
        /\ Fastest(fastest', seen') /\ Highest(peak', seen')
    BY <2>1, SampleKeeps
  <2>3. step = "measure" /\ step' = step /\ Len(cases) < Len(options.suite) /\ cases' = cases
    BY <1>7 DEF MeasureCase, report
  <2>4. Current' = Current /\ Current.label \in Labels
    BY <1>0, <2>3, CurrentCase DEF Current
  <2>5. slots'[Current.label] = p
    BY <2>1, <2>4 DEF TypeOK
  <2>6. (Len(cases) < Len(options.suite) /\ slots[Current.label] \in Publications)'
    BY <1>0, <2>3, <2>4, <2>5
  <2>7. (Fastest(fastest, seen))' /\ (Highest(peak, seen))'
    BY <2>2 DEF Fastest, Highest
  <2> QED
    BY <2>2, <2>3, <2>6, <2>7 DEF Tally
<1>8. CASE MeasureReference
  <2>1. PICK elapsed \in Times, sampled \in Peaks : Sample(elapsed, sampled)
    BY <1>8 DEF MeasureReference
  <2>2. /\ repeat' \in Nat /\ repeat' > 0 /\ seen' # {} /\ fastest' \in Nat
        /\ Fastest(fastest', seen') /\ Highest(peak', seen')
    BY <2>1, SampleKeeps
  <2>3. step = "reference" /\ step' = step
    BY <1>8 DEF MeasureReference
  <2>4. (Fastest(fastest, seen))' /\ (Highest(peak, seen))'
    BY <2>2 DEF Fastest, Highest
  <2> QED
    BY <2>2, <2>3, <2>4 DEF Tally
<1>9. CASE RecordCase \/ RecordReference
  <2>1. repeat' = 0 /\ fastest' = -1 /\ peak' = NotSampled /\ seen' = {}
    BY <1>9 DEF RecordCase, RecordReference, Restart
  <2> QED
    BY <2>1 DEF Tally, Highest
<1> QED
  BY <1>2, <1>3, <1>4, <1>5, <1>6, <1>7, <1>8, <1>9 DEF Next

LEMMA CourseStep ==
  ASSUME TypeOK, Course, [Next]_vars
  PROVE  Course'
<1>0. options' = options
  BY Frame
<1>1. options.repeats \in Nat /\ options.corpus \in Nat
  BY Given DEF TypeOK
<1>2. CASE Prepare
  BY <1>0, <1>2 DEF Course, Prepare, Ends, Measuring, Later
<1>3. CASE Configure
  BY <1>0, <1>1, <1>3 DEF Course, Configure, Fails, Measuring, Later
<1>4. CASE BuildCorpus
  BY <1>0, <1>4 DEF Course, BuildCorpus, Fails, Measuring, Later
<1>5. CASE PrintPanics \/ TailPanics \/ WriteFails \/ BaselineUnreadable
  BY <1>0, <1>5 DEF Course, PrintPanics, TailPanics, WriteFails, BaselineUnreadable, Ends,
     Measuring, Later
<1>6. CASE MeasureFails \/ RejectCase \/ RejectReference
  BY <1>0, <1>6 DEF Course, MeasureFails, RejectCase, RejectReference, Fails, Measuring, Later
<1>7. CASE MeasureCase \/ RecordCase \/ MeasureReference
  BY <1>0, <1>7 DEF Course, MeasureCase, RecordCase, MeasureReference
<1>8. CASE CasesMeasured \/ RecordReference
  BY <1>0, <1>8 DEF Course, CasesMeasured, RecordReference, Go, Measuring, Later
<1>9. CASE Clear
  BY <1>0, <1>9 DEF Course, Clear, Measuring, Later
<1>10. CASE WriteJson \/ WriteMarkdown
  BY <1>0, <1>10 DEF Course, WriteJson, WriteMarkdown, Go, Measuring, Later
<1>11. CASE BaselineGate \/ SpeedupGate
  BY <1>0, <1>11 DEF Course, BaselineGate, SpeedupGate, Ends, Measuring, Later
<1>12. CASE UNCHANGED vars
  BY <1>12 DEF Course, vars
<1> QED
  BY <1>2, <1>3, <1>4, <1>5, <1>6, <1>7, <1>8, <1>9, <1>10, <1>11, <1>12 DEF Next

LEMMA FilesStep ==
  ASSUME TypeOK, Course, Files, [Next]_vars
  PROVE  Files'
<1>0. options' = options /\ recorded' = recorded
  BY Frame
<1> USE DEF Files, Course, Later, written
<1>1. CASE Prepare \/ Configure \/ BuildCorpus \/ PrintPanics
  BY <1>0, <1>1 DEF Prepare, Configure, BuildCorpus, PrintPanics, Ends, Fails
<1>2. CASE MeasureCase \/ RecordCase \/ MeasureReference
  BY <1>0, <1>2 DEF MeasureCase, RecordCase, MeasureReference
<1>3. CASE MeasureFails \/ TailPanics \/ RejectCase \/ RejectReference
  BY <1>0, <1>3 DEF MeasureFails, TailPanics, RejectCase, RejectReference, Ends, Fails
<1>4. CASE CasesMeasured \/ RecordReference
  BY <1>0, <1>4 DEF CasesMeasured, RecordReference, Go
<1>5. CASE Clear
  BY <1>0, <1>5 DEF Clear
<1>6. CASE WriteJson \/ WriteMarkdown \/ WriteFails
  BY <1>0, <1>6 DEF WriteJson, WriteMarkdown, WriteFails, Ends, Go
<1>7. CASE BaselineGate \/ BaselineUnreadable \/ SpeedupGate
  BY <1>0, <1>7 DEF BaselineGate, BaselineUnreadable, SpeedupGate, Ends
<1>8. CASE UNCHANGED vars
  BY <1>8 DEF vars
<1> QED
  BY <1>1, <1>2, <1>3, <1>4, <1>5, <1>6, <1>7, <1>8 DEF Next


LEMMA SuiteStep ==
  ASSUME TypeOK, Tally, Course, Files, Suite, [Next]_vars
  PROVE  Suite'
<1> DEFINE Early == {"prepare", "configure", "corpus", "measure", "reference"}
<1>0. options' = options /\ Mirrored' = Mirrored
  <2>1. options' = options
    BY Frame
  <2> QED
    BY <2>1 DEF Mirrored, SelectInSeq
<1>1. ASSUME UNCHANGED <<cases, reference>>, step' \in Early => step \in Early,
             step' = "reference" => step = "reference", Through' => Through
      PROVE  Suite'
  BY <1>0, <1>1 DEF Suite
<1>2. CASE Prepare \/ Configure \/ BuildCorpus \/ PrintPanics
  BY <1>1, <1>2 DEF Prepare, Configure, BuildCorpus, PrintPanics, Ends, Fails, report, written,
     Through, Later
<1>3. CASE MeasureCase \/ MeasureReference
  BY <1>1, <1>3 DEF MeasureCase, MeasureReference, report, written, Through, Later
<1>4. CASE MeasureFails \/ TailPanics \/ RejectCase \/ RejectReference
  BY <1>1, <1>4 DEF MeasureFails, TailPanics, RejectCase, RejectReference, Ends, Fails, report,
     written, Through, Later
<1>5. CASE Clear
  BY <1>1, <1>5 DEF Clear, report, written, Through, Later, Course
<1>6. CASE WriteJson \/ WriteMarkdown \/ WriteFails
  BY <1>1, <1>6 DEF WriteJson, WriteMarkdown, WriteFails, Ends, Go, report, Through, Later
<1>7. CASE BaselineGate \/ BaselineUnreadable \/ SpeedupGate
  BY <1>1, <1>7 DEF BaselineGate, BaselineUnreadable, SpeedupGate, Ends, report, written, Through,
     Later
<1>8. CASE UNCHANGED vars
  BY <1>1, <1>8 DEF vars, report, written, Through
<1>9. CASE CasesMeasured
  <2>1. /\ step = "measure" /\ Len(cases) = Len(options.suite) /\ UNCHANGED <<cases, reference>>
        /\ step' = IF options.reference THEN "reference" ELSE "clear"
        /\ reference = Nothing /\ UNCHANGED <<evidence, exit>> /\ evidence = {} /\ exit = -1
    BY <1>9 DEF CasesMeasured, Go, report, written, Suite, Files, Course
  <2>2. CASE options.reference
    <3>1. step' = "reference" /\ ~Through'
      BY <2>1, <2>2 DEF Through, Later
    <3> QED
      BY <1>0, <2>1, <2>2, <3>1 DEF Suite
  <2>3. CASE ~options.reference
    <3>1. step' = "clear"
      BY <2>1, <2>3
    <3> QED
      BY <1>0, <2>1, <2>3, <3>1 DEF Suite
  <2> QED
    BY <2>2, <2>3
<1>10. CASE RecordCase
  <2> DEFINE p == slots[Current.label]
             r == [label |-> Current.label, elapsed |-> fastest, peak |-> peak,
                   read |-> p.read, bytes |-> p.bytes]
  <2>1. /\ cases' = Append(cases, r) /\ cases \in Seq(Measured) /\ Covers(p)
        /\ Len(cases) < Len(options.suite) /\ Len(options.suite) \in Nat /\ Len(cases) \in Nat
    BY <1>10, Recording, Given DEF TypeOK
  <2>2. step = "measure" /\ UNCHANGED <<step, reference, exit, evidence>>
    BY <1>10 DEF RecordCase, written
  <2>3. r.label = options.suite[Len(cases) + 1].label /\ r.read = options.corpus
    BY <2>1 DEF Current, Covers
  <2> HIDE DEF r
  <2>4. Len(cases') = Len(cases) + 1 /\ cases'[Len(cases) + 1] = r
        /\ \A i \in 1 .. Len(cases) : cases'[i] = cases[i]
    BY <2>1
  <2>5. \A i \in 1 .. Len(cases') :
          cases'[i].label = options.suite[i].label /\ cases'[i].read = options.corpus
    <3> SUFFICES ASSUME NEW i \in 1 .. Len(cases')
                 PROVE  cases'[i].label = options.suite[i].label /\ cases'[i].read = options.corpus
      OBVIOUS
    <3>1. CASE i = Len(cases) + 1
      BY <2>3, <2>4, <3>1
    <3>2. CASE i # Len(cases) + 1
      <4>1. i \in 1 .. Len(cases)
        BY <2>1, <2>4, <3>2
      <4> QED
        BY <2>4, <4>1 DEF Suite
    <3> QED
      BY <3>1, <3>2
  <2>6. ~Through'
    BY <2>2 DEF Through, Later, Files, Course
  <2>7. Len(cases') <= Len(options.suite)
    BY <2>1, <2>4
  <2> QED
    BY <1>0, <2>2, <2>5, <2>6, <2>7 DEF Suite
<1>11. CASE RecordReference
  <2>1. PICK s \in Summaries :
          /\ s.read = options.corpus
          /\ reference' = [label |-> "typescript", mirrors |-> options.suite[Mirrored].label,
                           elapsed |-> fastest, peak |-> peak, read |-> s.read, bytes |-> s.held]
    BY <1>11 DEF RecordReference
  <2>2. step = "reference" /\ Mirrored # 0 /\ repeat = options.repeats /\ step' = "clear"
        /\ UNCHANGED <<cases, evidence, exit>>
    BY <1>11 DEF RecordReference, written
  <2>3. fastest \in Nat
    BY <2>2 DEF Tally, Course, Measuring
  <2>4. reference'.label = "typescript" /\ reference'.mirrors = options.suite[Mirrored].label
        /\ reference'.read = options.corpus /\ reference'.elapsed \in Nat
    BY <2>1, <2>3
  <2>5. reference' # Nothing
    <3>1. Nothing.label = "nothing"
      BY DEF Nothing
    <3> QED
      BY <2>4, <3>1
  <2>6. Len(cases) = Len(options.suite) /\ options.reference
    BY <2>2 DEF Suite
  <2> QED
    BY <1>0, <2>2, <2>4, <2>5, <2>6 DEF Suite
<1> QED
  BY <1>2, <1>3, <1>4, <1>5, <1>6, <1>7, <1>8, <1>9, <1>10, <1>11 DEF Next

LEMMA GatesStep ==
  ASSUME TypeOK, Course, Gates, [Next]_vars
  PROVE  Gates'
<1>0. options' = options
  BY Frame
<1>1. ASSUME ~(step = "speedup" \/ exit = 0)' PROVE Gates'
  BY <1>1 DEF Gates
<1>2. ASSUME UNCHANGED <<report, file>>
      PROVE  /\ (Comparable(file) /\ IsClean(file))' <=> (Comparable(file) /\ IsClean(file))
             /\ Clears(options.minimum)' <=> Clears(options.minimum)
  <2>1. cases' = cases /\ reference' = reference /\ file' = file
    BY <1>2 DEF report
  <2>2. Speedup' = Speedup
    BY <2>1 DEF Speedup
  <2>3. Comparable(file)' <=> Comparable(file)
    BY <1>0, <2>1 DEF Comparable
  <2>4. IsClean(file)' <=> IsClean(file)
    BY <1>0, <2>1 DEF IsClean
  <2>5. Clears(options.minimum)' <=> Clears(options.minimum)
    BY <1>0, <2>2 DEF Clears
  <2> QED
    BY <2>3, <2>4, <2>5
<1>3. CASE Prepare \/ Configure \/ BuildCorpus \/ PrintPanics
  BY <1>1, <1>3 DEF Prepare, Configure, BuildCorpus, PrintPanics, Ends, Fails, Course
<1>4. CASE MeasureCase \/ MeasureFails \/ TailPanics \/ RecordCase \/ RejectCase \/ CasesMeasured
  BY <1>1, <1>4 DEF MeasureCase, MeasureFails, TailPanics, RecordCase, RejectCase, CasesMeasured,
     Ends, Fails, Go, Course
<1>5. CASE MeasureReference \/ RejectReference \/ RecordReference
  BY <1>1, <1>5 DEF MeasureReference, RejectReference, RecordReference, Fails, Course
<1>6. CASE Clear \/ WriteJson \/ WriteMarkdown \/ WriteFails
  BY <1>1, <1>6 DEF Clear, WriteJson, WriteMarkdown, WriteFails, Ends, Go, Course
<1>7. CASE BaselineUnreadable
  BY <1>1, <1>7 DEF BaselineUnreadable, Ends
<1>8. CASE BaselineGate
  BY <1>0, <1>1, <1>2, <1>8 DEF BaselineGate, Ends, Gates, Course, written
<1>9. CASE SpeedupGate
  <2>1. UNCHANGED <<report, file>> /\ step = "speedup" /\ step' = "ended"
        /\ exit' = IF options.gated => Clears(options.minimum) THEN 0 ELSE 1
    BY <1>9 DEF SpeedupGate, Ends, written
  <2> QED
    BY <1>0, <1>2, <2>1 DEF Gates
<1>10. CASE UNCHANGED vars
  <2>1. UNCHANGED <<report, file>> /\ step' = step /\ exit' = exit
    BY <1>10 DEF vars, written
  <2> QED
    BY <1>0, <1>2, <2>1 DEF Gates
<1> QED
  BY <1>3, <1>4, <1>5, <1>6, <1>7, <1>8, <1>9, <1>10 DEF Next

LEMMA InitHolds == Init => IInv
<1> SUFFICES ASSUME Init PROVE IInv
  OBVIOUS
<1>1. TypeOK
  BY DEF Init, TypeOK, Steps
<1>2. Tally /\ Course
  BY DEF Init, Tally, Highest, Course, Measuring, Later
<1>3. Suite
  <2>1. Len(options.suite) \in Nat
    BY Given DEF Init
  <2> QED
    BY <2>1 DEF Init, Suite, Through, Later
<1>4. Files /\ Gates
  BY DEF Init, Files, Gates, Later
<1> QED
  BY <1>1, <1>2, <1>3, <1>4 DEF IInv

LEMMA Inductive == Spec => []IInv
<1>1. IInv /\ [Next]_vars => IInv'
  BY TypeStep, TallyStep, CourseStep, SuiteStep, FilesStep, GatesStep DEF IInv
<1> QED
  BY <1>1, InitHolds, PTL DEF Spec

-----------------------------------------------------------------------------
(* Arithmetic of the two gates.                                            *)

(* What is multiplied by the same number compares as before.               *)
LEMMA Cancel ==
  ASSUME NEW a \in Nat, a > 0, NEW x \in Nat, NEW y \in Nat, a * x <= a * y
  PROVE  x <= y
<1>1. a * x \in Nat /\ a * y \in Nat /\ a * (y + 1) = (a * y) + a
  OBVIOUS
<1>2. x >= y + 1 => a * (y + 1) <= a * x
  OBVIOUS
<1> QED
  BY <1>1, <1>2

LEMMA Grouped ==
  ASSUME NEW a \in Nat, NEW b \in Nat, NEW c \in Nat
  PROVE  (a * b) * c = a * (b * c) /\ b * c \in Nat /\ a * (b * c) \in Nat /\ a * b = b * a
OBVIOUS

(* Of two figures over the same corpus, the one that is not slower by more *)
(* than the tolerance took no more than that much longer.                  *)
LEMMA NotSlower ==
  ASSUME NEW was \in Measured, NEW now \in Measured, NEW corpus \in Nat, corpus > 0,
         was.read = corpus, now.read = corpus, NEW tolerance \in 0 .. Parts - 1,
         ~Slower(was, now, tolerance), was.elapsed > 0
  PROVE  /\ now.elapsed > 0
         /\ now.elapsed * (Parts - tolerance) <= was.elapsed * Parts
<1> DEFINE a == corpus * 1000
           k == Parts - tolerance
<1>1. a \in Nat /\ a > 0 /\ Parts \in Nat /\ Parts > 0 /\ k \in Nat /\ k > 0
  BY BenchAssumption
<1>2. was.elapsed \in Nat /\ now.elapsed \in Nat
  BY DEF Measured
<1>3. PerSecond(was) = <<a, was.elapsed>>
  BY <1>2 DEF PerSecond
<1>4. PerSecond(now) = IF now.elapsed = 0 THEN <<0, 1>> ELSE <<a, now.elapsed>>
  BY DEF PerSecond
<1> HIDE DEF a, k
<1>5. ~Below(PerSecond(now), PerSecond(was), k)
  BY <1>1, <1>3 DEF Slower, k
<1>6. now.elapsed # 0
  <2> SUFFICES ASSUME now.elapsed = 0 PROVE FALSE
    OBVIOUS
  <2>1. PerSecond(now) = <<0, 1>>
    BY <1>4
  <2>2. ~((0 * was.elapsed) * Parts < (a * 1) * k)
    BY <1>3, <1>5, <2>1 DEF Below
  <2>3. (0 * was.elapsed) * Parts = 0 /\ (a * 1) * k = a * k
    BY <1>1, <1>2
  <2>4. 1 * k <= a * k
    BY <1>1
  <2> QED
    BY <1>1, <2>2, <2>3, <2>4
<1>7. ~((a * was.elapsed) * Parts < (a * now.elapsed) * k)
  <2>1. PerSecond(now) = <<a, now.elapsed>>
    BY <1>4, <1>6
  <2> QED
    BY <1>3, <1>5, <2>1 DEF Below
<1> DEFINE x == now.elapsed * k
           y == was.elapsed * Parts
<1>8. (a * was.elapsed) * Parts = a * y /\ (a * now.elapsed) * k = a * x
      /\ x \in Nat /\ y \in Nat /\ a * x \in Nat /\ a * y \in Nat
  BY <1>1, <1>2, Grouped
<1> HIDE DEF x, y
<1>9. a * x <= a * y
  BY <1>7, <1>8
<1>10. x <= y
  BY <1>1, <1>8, <1>9, Cancel
<1> QED
  BY <1>2, <1>6, <1>10 DEF x, y, k

(* A figure that did not grow past the tolerance is within it.             *)
LEMMA NotGrown ==
  ASSUME NEW was \in Nat, NEW now \in Nat, NEW tolerance \in Nat,
         ~Grew(was, now, tolerance), was > 0
  PROVE  now * Parts <= was * (Parts + tolerance)
<1>1. Parts \in Nat
  BY BenchAssumption
<1>2. now * Parts \in Nat /\ was * (Parts + tolerance) \in Nat
  BY <1>1
<1> QED
  BY <1>2 DEF Grew

-----------------------------------------------------------------------------
(* The theorems.                                                           *)

(* Every variable of the benchmark keeps its type.                         *)
THEOREM TypeCorrect == Spec => []TypeOK
<1>1. IInv => TypeOK
  BY DEF IInv
<1> QED
  BY <1>1, Inductive, PTL

(* What measure_case and measure_reference record are figures of the runs  *)
(* they made, the time the least and the peak the greatest of them, and    *)
(* the bytes are those the case's last run left on disk.                   *)
THEOREM FiguresAreMeasured == Spec => FiguresAreHonest
<1>1. IInv /\ [Next]_vars =>
        [/\ cases' # cases =>
              Honest(Last(cases'), seen) /\ Last(cases').bytes = slots[Last(cases').label].held
         /\ reference' # reference => Honest(reference', seen)]_vars
  <2> SUFFICES ASSUME IInv, [Next]_vars
               PROVE  /\ cases' # cases =>
                           /\ Honest(Last(cases'), seen)
                           /\ Last(cases').bytes = slots[Last(cases').label].held
                      /\ reference' # reference => Honest(reference', seen)
    OBVIOUS
  <2>0. TypeOK /\ Tally /\ Course
    BY DEF IInv
  <2>1. ASSUME NEW r, seen # {}, r.elapsed = fastest, r.peak = peak
        PROVE  Honest(r, seen)
    <3> DEFINE sampled == {run[2] : run \in seen} \ {NotSampled}
    <3>1. (\E run \in seen : run[1] = r.elapsed) /\ \A run \in seen : r.elapsed <= run[1]
      BY <2>0, <2>1 DEF Tally, Fastest
    <3>2. /\ \A run \in seen : run[2] <= r.peak
          /\ r.peak = NotSampled \/ \E run \in seen : run[2] = r.peak
      BY <2>0, <2>1 DEF Tally, Highest
    <3>3. \A run \in seen : run[2] \in Nat \cup {-1}
      <4>1. seen \subseteq Times \X Peaks /\ Peaks \subseteq Nat \cup {-1}
        BY <2>0, BenchAssumption DEF TypeOK, NotSampled
      <4>2. \A run \in Times \X Peaks : run[2] \in Peaks
        OBVIOUS
      <4> QED
        BY <4>1, <4>2
    <3>4. r.peak \in Nat \cup {-1}
      BY <2>0, <2>1 DEF TypeOK, NotSampled
    <3>5. CASE r.peak = NotSampled
      <4>1. sampled = {}
        BY <3>2, <3>3, <3>5 DEF NotSampled
      <4> QED
        BY <3>1, <3>5, <4>1 DEF Honest
    <3>6. CASE r.peak # NotSampled
      <4>1. r.peak \in sampled /\ \A p \in sampled : p <= r.peak
        BY <3>2, <3>6
      <4> QED
        BY <3>1, <4>1 DEF Honest
    <3> QED
      BY <3>5, <3>6
  <2>2. ASSUME cases' # cases
        PROVE  Honest(Last(cases'), seen) /\ Last(cases').bytes = slots[Last(cases').label].held
    <3>1. RecordCase
      BY <2>2, Frame
    <3> DEFINE p == slots[Current.label]
               r == [label |-> Current.label, elapsed |-> fastest, peak |-> peak,
                     read |-> p.read, bytes |-> p.bytes]
    <3>2. seen # {} /\ r \in Measured /\ cases' = Append(cases, r) /\ Covers(p)
          /\ cases \in Seq(Measured)
      BY <2>0, <3>1, Recording DEF TypeOK
    <3>3. r.elapsed = fastest /\ r.peak = peak /\ r.label = Current.label /\ r.bytes = p.held
      BY <3>2 DEF Covers
    <3>4. Last(cases') = r
      <4> HIDE DEF r
      <4> QED
        BY <3>2 DEF Last
    <3> HIDE DEF r
    <3> QED
      BY <2>1, <3>2, <3>3, <3>4
  <2>3. ASSUME reference' # reference PROVE Honest(reference', seen)
    <3>1. RecordReference
      BY <2>3, Frame
    <3>2. reference'.elapsed = fastest /\ reference'.peak = peak
      BY <3>1 DEF RecordReference
    <3>3. seen # {}
      BY <2>0, <3>1 DEF RecordReference, Tally, Course, Measuring
    <3> QED
      BY <2>1, <3>2, <3>3
  <2> QED
    BY <2>2, <2>3
<1> QED
  BY <1>1, Inductive, PTL DEF Spec, FiguresAreHonest

(* Evidence is written of a suite measured whole, each case over the whole *)
(* corpus and the reference where it was asked for; exit 0 leaves both     *)
(* files of it; and a run that ends takes its corpus with it.              *)
THEOREM EvidenceOfTheWhole == Spec => []EvidenceIsWhole
<1>1. IInv => EvidenceIsWhole
  <2> SUFFICES ASSUME IInv PROVE EvidenceIsWhole
    OBVIOUS
  <2>1. TypeOK /\ Suite /\ Files
    BY DEF IInv
  <2>2. ASSUME evidence # {}
        PROVE  /\ Len(cases) = Len(options.suite)
               /\ options.reference <=> reference # Nothing
    BY <2>1, <2>2 DEF Suite, Through
  <2>3. \A i \in DOMAIN cases :
          cases[i].label = options.suite[i].label /\ cases[i].read = options.corpus
    BY <2>1 DEF Suite, TypeOK
  <2>4. ASSUME reference # Nothing
        PROVE  \E c \in Range(options.suite) :
                 c.label = reference.mirrors /\ c.transform = "sample" /\ c.rate = options.rate
    <3>1. Mirrored # 0 /\ reference.mirrors = options.suite[Mirrored].label
      BY <2>1, <2>4 DEF Suite
    <3>2. /\ Mirrored \in 1 .. Len(options.suite)
          /\ options.suite[Mirrored].transform = "sample"
          /\ options.suite[Mirrored].rate = options.rate
          /\ options.suite \in Seq(Case)
      BY <2>1, <3>1, Mirrors, Given DEF TypeOK
    <3>3. options.suite[Mirrored] \in Range(options.suite)
      BY <3>2 DEF Range
    <3> QED
      BY <3>1, <3>2, <3>3, Zenon
  <2>5. /\ exit = 0 => evidence = {"json", "markdown"}
        /\ step = "ended" /\ exit # 101 => scratch # "corpus"
    BY <2>1 DEF Files
  <2> QED
    BY <2>2, <2>3, <2>4, <2>5 DEF EvidenceIsWhole
<1> QED
  BY <1>1, Inductive, PTL

(* A run that clears --baseline measured every case of the report that     *)
(* stood there when it began, none worse than the tolerance allows, where  *)
(* the evidence is not written over it - for every report such as the      *)
(* benchmark writes, whose cases read the corpus it names.                 *)
THEOREM BaselinesAreKept ==
  ASSUME \A b \in Recorded : \A i \in DOMAIN b.cases : b.cases[i].read = b.corpus
  PROVE  Spec => []BaselineHolds
<1>1. IInv => BaselineHolds
  <2> SUFFICES ASSUME IInv, options.baseline # "evidence", exit = 0, options.baseline # "none",
                      NEW b \in Range(recorded.cases)
               PROVE  MeasuredAgain(b)
    BY DEF BaselineHolds, HeldToTheBaseline
  <2>1. file = recorded /\ recorded \in Recorded /\ Comparable(recorded) /\ IsClean(recorded)
    BY DEF IInv, Files, Gates
  <2>2. PICK j \in DOMAIN recorded.cases : b = recorded.cases[j]
    BY DEF Range
  <2>3. options.tolerance \in 0 .. Parts - 1 /\ recorded.corpus = options.corpus
        /\ options.corpus \in Nat /\ options.corpus > 0
    BY <2>1, Given DEF IInv, TypeOK, Course, Comparable
  <2>4. b \in Measured /\ b.read = options.corpus
    <3>1. recorded.cases \in Seq(Measured)
      BY <2>1, BenchAssumption
    <3>2. b \in Measured
      BY <2>2, <3>1
    <3> QED
      BY <2>1, <2>2, <2>3, <3>2
  <2> DEFINE n == Find(cases, b.label)
             r == cases[n]
             t == options.tolerance
  <2>5. n # 0 /\ ~Regressed(b, r, t)
    BY <2>1, <2>2 DEF IsClean, HeldItsGround
  <2>6. cases \in Seq(Measured)
    BY DEF IInv, TypeOK
  <2>7. n \in 1 .. Len(cases) /\ r.label = b.label
    BY <2>5, <2>6, Finds
  <2> HIDE DEF n
  <2>8. r \in Measured
    BY <2>6, <2>7
  <2>9. r.read = options.corpus
    BY <2>7 DEF IInv, Suite
  <2> HIDE DEF r, t
  <2>10. /\ ~Slower(b, r, t) /\ ~(Sampled(b, r) /\ Grew(b.peak, r.peak, t))
         /\ ~Grew(b.bytes, r.bytes, t)
    BY <2>5 DEF Regressed
  <2>11. t \in 0 .. Parts - 1 /\ t \in Nat /\ Parts \in Nat
    BY <2>3, BenchAssumption DEF t
  <2>12. b.peak \in Nat \cup {-1} /\ r.peak \in Nat \cup {-1} /\ b.bytes \in Nat /\ r.bytes \in Nat
    BY <2>4, <2>8 DEF Measured, NotSampled
  <2>13. b.elapsed > 0 => /\ r.elapsed > 0
                          /\ r.elapsed * (Parts - t) <= b.elapsed * Parts
    BY <2>3, <2>4, <2>8, <2>9, <2>10, <2>11, NotSlower
  <2>14. ASSUME b.peak > 0 PROVE r.peak * Parts <= b.peak * (Parts + t)
    <3>1. b.peak \in Nat
      BY <2>12, <2>14
    <3>2. CASE r.peak = -1
      <4>1. b.peak * (Parts + t) \in Nat /\ r.peak * Parts <= 0
        BY <2>11, <3>1, <3>2
      <4> QED
        BY <2>11, <3>2, <4>1
    <3>3. CASE r.peak # -1
      <4>1. r.peak \in Nat /\ ~Grew(b.peak, r.peak, t)
        BY <2>10, <2>12, <2>14, <3>3 DEF Sampled, NotSampled
      <4> QED
        BY <2>11, <2>14, <3>1, <4>1, NotGrown
    <3> QED
      BY <3>2, <3>3
  <2>15. b.bytes > 0 => r.bytes * Parts <= b.bytes * (Parts + t)
    BY <2>10, <2>11, <2>12, NotGrown
  <2>16. n \in DOMAIN cases
    BY <2>6, <2>7
  <2> QED
    BY <2>7, <2>13, <2>14, <2>15, <2>16 DEF MeasuredAgain, r, t
<1> QED
  BY <1>1, Inductive, PTL

(* A run that clears --min-speedup measured both samplers over the whole   *)
(* corpus, and the case at the reference's rate was at least that many     *)
(* times as fast.                                                          *)
THEOREM SpeedupsAreEarned == Spec => []SpeedupIsEarned
<1>1. IInv => SpeedupIsEarned
  <2> SUFFICES ASSUME IInv, exit = 0, options.gated, options.minimum # NotANumber, OneOfEach
               PROVE  /\ reference # Nothing /\ reference.elapsed > 0
                      /\ \E i \in DOMAIN cases :
                           /\ options.suite[i].transform = "sample"
                           /\ options.suite[i].rate = options.rate
                           /\ cases[i].elapsed * options.minimum <= reference.elapsed * Parts
                           /\ options.minimum > 0 => cases[i].elapsed > 0
    BY DEF SpeedupIsEarned
  <2>1. TypeOK /\ Suite /\ Clears(options.minimum)
    BY DEF IInv, Gates
  <2>2. Speedup # Nothing /\ ~Below(Speedup.of, <<1, 1>>, options.minimum)
    BY <2>1 DEF Clears
  <2>3. reference # Nothing /\ PerSecond(reference)[1] # 0
    BY <2>2 DEF Speedup
  <2>4. /\ options.suite \in Seq(Case) /\ options.minimum \in Nat /\ options.corpus \in Nat
        /\ options.corpus > 0 /\ Parts \in Nat /\ cases \in Seq(Measured)
    BY <2>1, Given, BenchAssumption DEF IInv, TypeOK, Course
  <2>5. /\ Mirrored \in 1 .. Len(options.suite)
        /\ options.suite[Mirrored].transform = "sample"
        /\ options.suite[Mirrored].rate = options.rate
        /\ reference.mirrors = options.suite[Mirrored].label
        /\ reference.read = options.corpus /\ reference.elapsed \in Nat
    BY <2>1, <2>3, Mirrors DEF Suite, TypeOK
  <2>6. Len(cases) = Len(options.suite)
    BY <2>1 DEF Suite, Through
  <2> DEFINE i == Mirrored
             r == cases[i]
             a == options.corpus * 1000
             e == reference.elapsed
             m == options.minimum
  <2>7. Find(cases, reference.mirrors) = i
    <3> DEFINE n == Find(cases, reference.mirrors)
    <3>1. \/ n = 0 /\ \A k \in 1 .. Len(cases) : cases[k].label # reference.mirrors
          \/ n \in 1 .. Len(cases) /\ cases[n].label = reference.mirrors
      BY <2>4, Finds
    <3>2. cases[i].label = reference.mirrors
      BY <2>1, <2>5, <2>6 DEF Suite
    <3> HIDE DEF n
    <3>3. n \in 1 .. Len(cases) /\ cases[n].label = reference.mirrors
      BY <2>5, <2>6, <3>1, <3>2
    <3>4. options.suite[n].label = options.suite[i].label
      BY <2>1, <2>5, <3>3 DEF Suite
    <3>5. n \in DOMAIN options.suite /\ i \in DOMAIN options.suite
      BY <2>4, <2>5, <2>6, <3>3
    <3>6. n = i
      BY <3>4, <3>5, Zenon DEF OneOfEach
    <3> QED
      BY <3>6 DEF n
  <2>8. r \in Measured /\ r.read = options.corpus /\ r.elapsed \in Nat
    <3>1. i \in 1 .. Len(cases)
      BY <2>5, <2>6
    <3>2. r \in Measured /\ r.read = options.corpus
      BY <2>1, <2>4, <3>1 DEF Suite
    <3> QED
      BY <3>2 DEF Measured
  <2>9. a \in Nat /\ a > 0
    BY <2>4
  <2>10. e # 0 /\ PerSecond(reference) = <<a, e>>
    <3>1. e # 0
      BY <2>3 DEF PerSecond
    <3> QED
      BY <2>5, <3>1 DEF PerSecond
  <2>11. PerSecond(r) = IF r.elapsed = 0 THEN <<0, 1>> ELSE <<a, r.elapsed>>
    BY <2>8 DEF PerSecond
  <2>12. Speedup.of = <<PerSecond(r)[1] * PerSecond(reference)[2],
                        PerSecond(r)[2] * PerSecond(reference)[1]>>
    BY <2>3, <2>7 DEF Speedup
  <2>13. Speedup.of = <<PerSecond(r)[1] * e, PerSecond(r)[2] * a>>
    BY <2>10, <2>12
  <2> HIDE DEF a, e, r, m, i
  <2>14. ~(((PerSecond(r)[1] * e) * 1) * Parts < (1 * (PerSecond(r)[2] * a)) * m)
    BY <2>2, <2>13 DEF Below, m
  <2>15. m \in Nat /\ e \in Nat
    BY <2>4, <2>5 DEF m, e
  <2>16. r.elapsed * m <= e * Parts /\ (m > 0 => r.elapsed > 0)
    <3>1. CASE r.elapsed = 0
      <4>1. PerSecond(r)[1] = 0 /\ PerSecond(r)[2] = 1
        BY <2>11, <3>1
      <4>2. ~(((0 * e) * 1) * Parts < (1 * (1 * a)) * m)
        BY <2>14, <4>1
      <4>3. ((0 * e) * 1) * Parts = 0 /\ (1 * (1 * a)) * m = a * m
        BY <2>4, <2>9, <2>15
      <4>4. m = 0
        <5>1. 1 * m <= a * m
          BY <2>9, <2>15
        <5> QED
          BY <2>9, <2>15, <4>2, <4>3, <5>1
      <4>5. e * Parts \in Nat /\ r.elapsed * m = 0
        BY <2>4, <2>15, <3>1
      <4> QED
        BY <4>4, <4>5
    <3>2. CASE r.elapsed # 0
      <4>1. PerSecond(r)[1] = a /\ PerSecond(r)[2] = r.elapsed
        BY <2>11, <3>2
      <4> DEFINE x == r.elapsed * m
                 y == e * Parts
      <4>2. ~(((a * e) * 1) * Parts < (1 * (r.elapsed * a)) * m)
        BY <2>14, <4>1
      <4>3. ((a * e) * 1) * Parts = a * y /\ x \in Nat /\ y \in Nat /\ a * x \in Nat /\ a * y \in Nat
        <5>1. (a * e) * 1 = a * e
          BY <2>9, <2>15
        <5> QED
          BY <2>4, <2>8, <2>9, <2>15, <5>1, Grouped
      <4>4. (1 * (r.elapsed * a)) * m = a * x
        <5>1. 1 * (r.elapsed * a) = a * r.elapsed
          BY <2>8, <2>9
        <5> QED
          BY <2>8, <2>9, <2>15, <5>1, Grouped
      <4> HIDE DEF x, y
      <4>5. a * x <= a * y
        BY <4>2, <4>3, <4>4
      <4>6. x <= y
        BY <2>9, <4>3, <4>5, Cancel
      <4> QED
        BY <2>8, <3>2, <4>6 DEF x, y
    <3> QED
      BY <3>1, <3>2
  <2>17. i \in DOMAIN cases /\ reference.elapsed > 0
    BY <2>4, <2>5, <2>6, <2>10 DEF i, e
  <2> QED
    BY <2>3, <2>5, <2>16, <2>17 DEF i, r, e, m
<1> QED
  BY <1>1, Inductive, PTL

-----------------------------------------------------------------------------
(***************************************************************************)
(* What the soak harness's verdicts are worth, for every number of rounds, *)
(* every set of corpora a binary may publish and every other publisher: a  *)
(* report is earned, the evidence in it is true, and an honest binary with *)
(* the output to itself is never rejected.                                 *)
(*                                                                         *)
(* Two arguments carry the evidence.  While no run has published a corpus  *)
(* its manifest denies, the manifest loaded is a true one, whichever       *)
(* corpus lies at the output by now.  While nobody else publishes, the     *)
(* corpus at the output is the one whose manifest was loaded, whatever it  *)
(* says: the comparisons of Measure and Hash are then comparisons of the   *)
(* two.                                                                    *)
(***************************************************************************)

Verifying == phase \in {"load", "measure", "hash"}
Loaded    == phase \in {"measure", "hash"}
AfterRounds == {"reference", "consumer", "before", "break", "after", "reported"}

(* The binary has published by the time its corpus is looked at.           *)
Present ==
  /\ Verifying => slot # Absent /\ round < Rounds
  /\ Loaded => manifest \in Manifest
  /\ round > 0 => verified \in Manifest

(* A content beside a manifest, as the evidence pairs them.                *)
Pair(c, m) == [content |-> c, manifest |-> m]

(* The manifest is a true one, of a content that was at the output.        *)
Vouched(m) == m.checksum \in shown /\ Truthful(Pair(m.checksum, m))

(* While every run is honest, what lies at the output is.                  *)
HonestSlot ==
  /\ "corpus" \notin faulty /\ slot # Absent
  /\ phase \notin {"after", "reported", "rejected", "failed", "panicked"}
  => Truthful(slot)

HonestManifest == "corpus" \notin faulty /\ Loaded => Vouched(manifest)

(* While the harness is alone, it verifies the corpus it loaded.           *)
SameCorpus ==
  others = 0 /\ Loaded => manifest = slot.manifest /\ slot.content \in shown /\ manifest.asked

SoakMeasured ==
  others = 0 /\ phase = "hash" => /\ manifest.bytes = Length[slot.content]
                                  /\ manifest.bytes = manifest.count * Width

(* The report comes after the digest of the source, and a publication that *)
(* should not have been ends the soak, or changed what was digested.       *)
Earned ==
  /\ phase \in AfterRounds => ~edited
  /\ "accepts" \in faulty => phase = "rejected"
  /\ "harms" \in faulty => phase \in {"after", "reported", "rejected", "failed"}
  /\ phase = "break" /\ others = 0 => slot = before
  /\ phase \in {"after", "reported"} /\ others = 0 => ("harms" \in faulty <=> slot # before)
  /\ phase = "reported" => slot = before \/ others > 0

SoakIInv ==
  /\ SoakTypeOK /\ Present
  /\ HonestSlot /\ HonestManifest
  /\ SameCorpus /\ SoakMeasured
  /\ Earned
  /\ EvidenceIsTrue /\ ReportIsEarned /\ NoFalseAlarm

-----------------------------------------------------------------------------

(* Multiplying keeps the order.                                            *)
LEMMA Product ==
  ASSUME NEW a \in Nat, NEW b \in Nat, NEW c \in Nat, a <= b
  PROVE  a * c \in Nat /\ b * c \in Nat /\ a * c <= b * c
OBVIOUS

(* A length is a whole number of records when dividing it says so.         *)
LEMMA WholeRecords ==
  ASSUME NEW b \in Nat, NEW n \in Nat
  PROVE  b % Width = 0 /\ b \div Width = n <=> b = n * Width
<1> DEFINE d == b \div Width
           r == b % Width
<1>1. Width \in Nat \ {0}
  BY SoakAssumption
<1>2. d \in Nat /\ r \in 0 .. Width - 1 /\ b = (d * Width) + r
  BY <1>1
<1>3. /\ n * Width \in Nat /\ d * Width \in Nat
      /\ (n + 1) * Width = (n * Width) + Width /\ (d + 1) * Width = (d * Width) + Width
  BY <1>1, <1>2
<1> HIDE DEF d, r
<1>4. n >= d + 1 => (d + 1) * Width <= n * Width
  BY <1>1, <1>2, Product
<1>5. d >= n + 1 => (n + 1) * Width <= d * Width
  BY <1>1, <1>2, Product
<1>6. b = n * Width => d = n
  BY <1>1, <1>2, <1>3, <1>4, <1>5
<1> QED
  BY <1>1, <1>2, <1>3, <1>6 DEF d, r

-----------------------------------------------------------------------------

(* The marks for nothing are told from what they stand in for.             *)
LEMMA Marks == Absent \notin Corpora
BY SoakAssumption DEF Absent

LEMMA SoakInitHolds ==
  ASSUME SoakInit
  PROVE  SoakIInv
<1>1. SoakTypeOK
  <2>1. edited \in BOOLEAN
    BY Zenon DEF SoakInit
  <2> QED
    BY <2>1, SoakAssumption DEF SoakInit, SoakTypeOK
<1> QED
  BY <1>1 DEF SoakInit, SoakIInv, Present, Verifying, Loaded, AfterRounds, HonestSlot, HonestManifest, SameCorpus,
     SoakMeasured, Earned, EvidenceIsTrue, ReportIsEarned, NoFalseAlarm

(* The type of every variable is kept.                                     *)
LEMMA SoakTypeStep ==
  ASSUME SoakTypeOK, Present, [SoakNext]_soakVars
  PROVE  SoakTypeOK'
<1> USE SoakAssumption, Marks DEF SoakTypeOK
<1>1. CASE RunBinary
  BY <1>1 DEF RunBinary, Turn, Publish
<1>2. CASE RunBroken
  BY <1>2 DEF RunBroken, Publish
<1>3. CASE OtherPublishes
  BY <1>3 DEF OtherPublishes, Publish
<1>4. CASE Load
  BY <1>4 DEF Load, Present, Verifying
<1>5. CASE Measure
  BY <1>5 DEF Measure
<1>10. CASE Hash
  <2>1. round < Rounds /\ manifest \in Manifest
    BY <1>10 DEF Hash, Present, Verifying, Loaded
  <2>2. round' \in 0 .. Rounds /\ verified' \in Manifest \cup {Nobody}
    BY <1>10, <2>1 DEF Hash
  <2> QED
    BY <1>10, <2>2 DEF Hash
<1>6. CASE EndRounds \/ SoakFails \/ SoakTailPanics
  BY <1>6 DEF EndRounds, SoakFails, SoakTailPanics, Turn
<1>7. CASE DigestSource \/ MeasureDeno \/ CheckConsumer
  BY <1>7 DEF DigestSource, MeasureDeno, CheckConsumer, Turn
<1>8. CASE DigestPublished \/ ComparePublished
  BY <1>8 DEF DigestPublished, ComparePublished
<1>9. CASE UNCHANGED soakVars
  BY <1>9 DEF soakVars
<1> QED
  BY <1>1, <1>2, <1>3, <1>4, <1>5, <1>6, <1>7, <1>8, <1>9, <1>10 DEF SoakNext

(* What is known of the corpus and the manifests at hand is kept.          *)
LEMMA PresentStep ==
  ASSUME SoakTypeOK, Present, [SoakNext]_soakVars
  PROVE  Present'
<1> USE SoakAssumption, Marks DEF SoakTypeOK, Present, Verifying, Loaded
<1>1. CASE RunBinary
  BY <1>1 DEF RunBinary, Turn, Publish
<1>2. CASE RunBroken
  BY <1>2 DEF RunBroken, Publish
<1>3. CASE OtherPublishes
  BY <1>3 DEF OtherPublishes, Publish
<1>4. CASE Load
  BY <1>4 DEF Load
<1>5. CASE Measure \/ Hash
  BY <1>5 DEF Measure, Hash
<1>6. CASE EndRounds \/ SoakFails \/ SoakTailPanics
  BY <1>6 DEF EndRounds, SoakFails, SoakTailPanics, Turn
<1>7. CASE DigestSource \/ MeasureDeno \/ CheckConsumer
  BY <1>7 DEF DigestSource, MeasureDeno, CheckConsumer, Turn
<1>8. CASE DigestPublished \/ ComparePublished
  BY <1>8 DEF DigestPublished, ComparePublished
<1>9. CASE UNCHANGED soakVars
  BY <1>9 DEF soakVars
<1> QED
  BY <1>1, <1>2, <1>3, <1>4, <1>5, <1>6, <1>7, <1>8, <1>9 DEF SoakNext

(* The argument from honest runs: what is at the output is true of itself, *)
(* and so is what was loaded from there, whatever is there by now.         *)
LEMMA HonestStep ==
  ASSUME SoakTypeOK, Present, HonestSlot, HonestManifest, [SoakNext]_soakVars
  PROVE  HonestSlot' /\ HonestManifest'
<1> USE SoakAssumption, Marks DEF SoakTypeOK, Present, Verifying, Loaded, HonestSlot, HonestManifest
<1>1. ASSUME NEW m, Vouched(m), shown \subseteq shown' PROVE Vouched(m)'
  BY <1>1 DEF Vouched, Truthful, Pair
<1>2. CASE RunBinary
  BY <1>2 DEF RunBinary, Turn, Publish
<1>3. CASE RunBroken
  BY <1>3 DEF RunBroken
<1>4. CASE OtherPublishes
  BY <1>1, <1>4 DEF OtherPublishes, Publish
<1>5. CASE Load
  <2>1. HonestSlot'
    BY <1>5 DEF Load, Truthful
  <2>2. Truthful(slot) => Vouched(slot.manifest)'
    BY <1>5 DEF Load, Truthful, Vouched, Pair
  <2> QED
    BY <1>5, <2>1, <2>2 DEF Load
<1>6. CASE Measure \/ Hash
  BY <1>1, <1>6 DEF Measure, Hash
<1>7. CASE EndRounds \/ SoakFails \/ SoakTailPanics
  BY <1>7 DEF EndRounds, SoakFails, SoakTailPanics, Turn
<1>8. CASE DigestSource \/ MeasureDeno \/ CheckConsumer
  BY <1>8 DEF DigestSource, MeasureDeno, CheckConsumer, Turn
<1>9. CASE DigestPublished \/ ComparePublished
  BY <1>9 DEF DigestPublished, ComparePublished
<1>10. CASE UNCHANGED soakVars
  BY <1>1, <1>10 DEF soakVars
<1> QED
  BY <1>2, <1>3, <1>4, <1>5, <1>6, <1>7, <1>8, <1>9, <1>10 DEF SoakNext

(* The argument from solitude: nobody else publishes between the three     *)
(* looks of a verification, so they are looks at one corpus.               *)
LEMMA SolitudeStep ==
  ASSUME SoakTypeOK, Present, SameCorpus, SoakMeasured, [SoakNext]_soakVars
  PROVE  SameCorpus' /\ SoakMeasured'
<1> USE SoakAssumption, Marks DEF SoakTypeOK, Present, Verifying, Loaded, SameCorpus, SoakMeasured
<1>1. CASE RunBinary
  BY <1>1 DEF RunBinary, Turn
<1>2. CASE RunBroken
  BY <1>2 DEF RunBroken
<1>3. CASE OtherPublishes
  BY <1>3 DEF OtherPublishes
<1>4. CASE Load
  BY <1>4 DEF Load
<1>5. CASE Measure
  <2>1. SameCorpus'
    BY <1>5 DEF Measure
  <2>2. ASSUME others = 0, phase' = "hash"
        PROVE  manifest.bytes = Length[slot.content] /\ manifest.bytes = manifest.count * Width
    <3>1. /\ Length[slot.content] = manifest.bytes
          /\ manifest.bytes % Width = 0 /\ manifest.bytes \div Width = manifest.count
      BY <1>5, <2>2 DEF Measure
    <3>2. manifest.bytes \in Nat /\ manifest.count \in Nat
      BY <1>5 DEF Measure, Manifest
    <3> QED
      BY <3>1, <3>2, WholeRecords
  <2> QED
    BY <1>5, <2>1, <2>2 DEF Measure
<1>6. CASE Hash
  BY <1>6 DEF Hash
<1>7. CASE EndRounds \/ SoakFails \/ SoakTailPanics
  BY <1>7 DEF EndRounds, SoakFails, SoakTailPanics, Turn
<1>8. CASE DigestSource \/ MeasureDeno \/ CheckConsumer
  BY <1>8 DEF DigestSource, MeasureDeno, CheckConsumer, Turn
<1>9. CASE DigestPublished \/ ComparePublished
  BY <1>9 DEF DigestPublished, ComparePublished
<1>10. CASE UNCHANGED soakVars
  BY <1>10 DEF soakVars
<1> QED
  BY <1>1, <1>2, <1>3, <1>4, <1>5, <1>6, <1>7, <1>8, <1>9, <1>10 DEF SoakNext

(* A step after which there is evidence for a round left it there, or is   *)
(* the Hash that wrote it: true by either argument.                        *)
LEMMA EvidenceStep ==
  ASSUME SoakIInv, [SoakNext]_soakVars
  PROVE  EvidenceIsTrue'
<1> USE SoakAssumption DEF SoakIInv, SoakTypeOK
<1> SUFFICES ASSUME (round > 0 /\ phase \in {"run", "digest"} /\ ("corpus" \notin faulty \/ others = 0))'
             PROVE  (\E c \in shown : Truthful(Pair(c, verified)))'
  BY DEF EvidenceIsTrue, Pair
<1>1. CASE Hash
  <2>1. /\ phase = "hash" /\ verified' = manifest /\ slot.content = manifest.checksum
        /\ manifest.count <= manifest.read /\ UNCHANGED <<shown, slot, faulty, others>>
    BY <1>1 DEF Hash, HashesTo, NoMoreThanRead
  <2>2. CASE "corpus" \notin faulty
    BY <2>1, <2>2 DEF HonestManifest, Loaded, Vouched, Truthful, Pair
  <2>3. CASE others = 0
    <3>1. slot.content \in shown /\ manifest.asked
      BY <2>1, <2>3 DEF SameCorpus, Loaded
    <3>2. manifest.bytes = Length[slot.content] /\ manifest.bytes = manifest.count * Width
      BY <2>1, <2>3 DEF SoakMeasured
    <3>3. Truthful(Pair(slot.content, manifest))
      BY <2>1, <3>1, <3>2 DEF Truthful, Pair
    <3> QED
      BY <2>1, <3>1, <3>3 DEF Truthful, Pair
  <2> QED
    BY <2>1, <2>2, <2>3
<1>2. CASE /\ round > 0 /\ phase \in {"run", "digest"} /\ ("corpus" \notin faulty \/ others = 0)
           /\ shown \subseteq shown' /\ verified' = verified
  BY <1>2 DEF EvidenceIsTrue, Truthful, Pair
<1>3. CASE OtherPublishes
  BY <1>2, <1>3 DEF OtherPublishes, Publish
<1>4. CASE EndRounds \/ UNCHANGED soakVars
  BY <1>2, <1>4 DEF EndRounds, Turn, soakVars
<1>5. ~(RunBinary \/ SoakFails \/ SoakTailPanics \/ RunBroken \/ Load \/ Measure)
  BY DEF RunBinary, SoakFails, SoakTailPanics, RunBroken, Load, Measure, Turn
<1>6. ~(DigestSource \/ MeasureDeno \/ CheckConsumer \/ DigestPublished \/ ComparePublished)
  BY DEF DigestSource, MeasureDeno, CheckConsumer, DigestPublished, ComparePublished, Turn
<1> QED
  BY <1>1, <1>3, <1>4, <1>5, <1>6 DEF SoakNext

(* A report is written of the corpus digested before the run that must     *)
(* fail, after the digest of the source.                                   *)
LEMMA EarnedStep ==
  ASSUME SoakTypeOK, Earned, [SoakNext]_soakVars
  PROVE  Earned'
<1> USE DEF SoakTypeOK, AfterRounds, Earned
<1>1. CASE RunBinary
  BY <1>1 DEF RunBinary, Turn
<1>2. CASE RunBroken
  BY <1>2 DEF RunBroken
<1>3. CASE OtherPublishes
  BY <1>3, SoakAssumption DEF OtherPublishes, Ended
<1>4. CASE Load \/ Measure \/ Hash
  BY <1>4 DEF Load, Measure, Hash
<1>5. CASE EndRounds \/ SoakFails \/ SoakTailPanics
  BY <1>5 DEF EndRounds, SoakFails, SoakTailPanics, Turn, Ended
<1>6. CASE DigestSource \/ MeasureDeno \/ CheckConsumer
  BY <1>6 DEF DigestSource, Digested, MeasureDeno, CheckConsumer, Turn
<1>7. CASE DigestPublished
  BY <1>7 DEF DigestPublished
<1>8. CASE ComparePublished
  BY <1>8 DEF ComparePublished, SameDigest
<1>9. CASE UNCHANGED soakVars
  BY <1>9 DEF soakVars
<1> QED
  BY <1>1, <1>2, <1>3, <1>4, <1>5, <1>6, <1>7, <1>8, <1>9 DEF SoakNext

LEMMA ReportStep ==
  ASSUME SoakTypeOK, Earned
  PROVE  ReportIsEarned
BY SoakAssumption DEF SoakTypeOK, Earned, AfterRounds, ReportIsEarned

(* Whatever rejects an honest binary that is alone would be a comparison   *)
(* that its corpus passes.                                                 *)
LEMMA AlarmStep ==
  ASSUME SoakIInv, [SoakNext]_soakVars
  PROVE  NoFalseAlarm'
<1> USE DEF SoakIInv, SoakTypeOK
<1> SUFFICES ASSUME phase' = "rejected", ~edited', faulty' = {}, ~(others' > 0) PROVE FALSE
  BY Zenon DEF NoFalseAlarm
<1>0. others' = 0
  BY SoakTypeStep, SoakAssumption DEF SoakIInv, SoakTypeOK
<1>1. CASE Load
  BY <1>0, <1>1 DEF Load, Present, Verifying, HonestSlot, Truthful
<1>2. CASE Measure
  <2>1. /\ others = 0 /\ "corpus" \notin faulty /\ phase = "measure"
        /\ slot # Absent /\ manifest = slot.manifest /\ manifest \in Manifest
    BY <1>0, <1>2 DEF Measure, Present, Verifying, Loaded, SameCorpus
  <2>2. manifest.bytes = Length[slot.content] /\ manifest.bytes = manifest.count * Width
    BY <2>1 DEF HonestSlot, Truthful
  <2>3. manifest.bytes % Width = 0 /\ manifest.bytes \div Width = manifest.count
    BY <2>1, <2>2, WholeRecords DEF Manifest
  <2> QED
    BY <1>2, <2>2, <2>3 DEF Measure
<1>3. CASE Hash
  BY <1>0, <1>3 DEF Hash, HashesTo, NoMoreThanRead, Present, Verifying, Loaded, SameCorpus, HonestSlot,
     Truthful
<1>4. CASE DigestSource
  BY <1>4 DEF DigestSource, Digested
<1>5. CASE CheckConsumer
  BY <1>5 DEF CheckConsumer
<1>6. CASE RunBroken
  BY <1>6 DEF RunBroken
<1>7. CASE ComparePublished
  BY <1>0, <1>7 DEF ComparePublished, SameDigest, Earned
<1>8. CASE RunBinary \/ EndRounds \/ SoakFails \/ SoakTailPanics
  BY <1>8 DEF RunBinary, EndRounds, SoakFails, SoakTailPanics, Turn
<1>9. CASE OtherPublishes
  BY <1>9 DEF OtherPublishes
<1>10. CASE MeasureDeno \/ DigestPublished
  BY <1>10 DEF MeasureDeno, DigestPublished, Turn
<1>11. CASE UNCHANGED soakVars
  BY <1>11, Zenon DEF soakVars, NoFalseAlarm
<1> QED
  BY <1>1, <1>2, <1>3, <1>4, <1>5, <1>6, <1>7, <1>8, <1>9, <1>10, <1>11 DEF SoakNext

-----------------------------------------------------------------------------

(* The invariant holds of every soak.                                      *)
LEMMA SoakInductive == SoakSpec => []SoakIInv
<1>1. SoakInit => SoakIInv
  BY SoakInitHolds
<1>2. SoakIInv /\ [SoakNext]_soakVars => SoakIInv'
  <2> SUFFICES ASSUME SoakIInv, [SoakNext]_soakVars PROVE SoakIInv'
    OBVIOUS
  <2>1. SoakTypeOK' /\ Present'
    BY SoakTypeStep, PresentStep DEF SoakIInv
  <2>2. HonestSlot' /\ HonestManifest' /\ SameCorpus' /\ SoakMeasured'
    BY HonestStep, SolitudeStep DEF SoakIInv
  <2>3. Earned'
    BY EarnedStep DEF SoakIInv
  <2>4. ReportIsEarned'
    BY <2>1, <2>3, ReportStep, PTL
  <2> QED
    BY <2>1, <2>2, <2>3, <2>4, EvidenceStep, AlarmStep DEF SoakIInv
<1> QED
  BY <1>1, <1>2, PTL DEF SoakSpec

(* Every variable of the harness keeps its type.                           *)
THEOREM SoakTypeCorrect == SoakSpec => []SoakTypeOK
<1>1. SoakIInv => SoakTypeOK
  BY DEF SoakIInv
<1> QED
  BY <1>1, SoakInductive, PTL

(* The facts a round is reported with are true of a corpus that lay at the *)
(* output while the harness looked, unless a faulty binary and another     *)
(* publisher met there.                                                    *)
THEOREM EvidenceHolds == SoakSpec => []EvidenceIsTrue
<1>1. SoakIInv => EvidenceIsTrue
  BY DEF SoakIInv
<1> QED
  BY <1>1, SoakInductive, PTL

(* A report is never written after a changed source, of a binary that      *)
(* accepts what it must refuse, or over a disturbed corpus.                *)
THEOREM ReportsAreEarned == SoakSpec => []ReportIsEarned
<1>1. SoakIInv => ReportIsEarned
  BY DEF SoakIInv
<1> QED
  BY <1>1, SoakInductive, PTL

(* An honest binary that has the output to itself is never rejected.       *)
THEOREM HonestRunsPass == SoakSpec => []NoFalseAlarm
<1>1. SoakIInv => NoFalseAlarm
  BY DEF SoakIInv
<1> QED
  BY <1>1, SoakInductive, PTL

=============================================================================
