# NEAT-AI Refinery: a TLA+ verification project

NEAT-AI Refinery derives training corpora: it reads an immutable directory of
fixed-width binary records, samples, re-encodes or perturbs it, and publishes
the result with a manifest as one directory. This directory holds TLA+ modules
of that program, the TLC configurations that check them, and proofs checked by
TLAPS. Paths below are relative to `src/refinery/src` unless they start with
`src/`.

Run from this directory:

    tlc -workers 2 -config StagedCorpusConcurrent.cfg MCStagedCorpus.tla
    tlapm StagedCorpusProofs.tla

## The system

| Component | State | Operations | Interacts with |
| --- | --- | --- | --- |
| Staged publication, `transform/staging.rs` | staging, aside and live directories in one parent directory | `create`, `publish`, drop | every transform; readers of the destination; other runs on the same volume |
| Scan, `transform/scan.rs` | none: reads the file system | `corpus_files`, `source_manifest`, `resolved_source` | called first by every transform; its answers are used long after |
| Record reader, `corpus/reader.rs` | bounded buffer, cursor, current file, remaining files | `next_record` | source files, which someone may replace meanwhile |
| Record writer, `corpus/writer.rs` | bounded buffer, file, "failure reported" flag | `write_record`, `flush`, `finish`, drop (may panic) | the staging directory; a volume that may be full |
| Discovery, shape, derived destination, source corpus, `corpus/*.rs` | none, or an open file | list, size, resolve, random access | reader, writer, transforms |
| bfloat16, `corpus/bfloat16.rs` | none | round to nearest even, widen | quantise, shape encodings |
| Sample, `sample/` | random stream, bytes written, pass estimate | `sample`, `whole_pass_bytes` | reader, writer, staging, manifest |
| Quantise, `quantise/` | encoding of source and output | `quantise` | as sample, plus the source's manifest |
| Fuzz, `fuzz/` | Gaussian generator with a spare value | `fuzz`, `perturb_record` | as quantise |
| Pipeline, `pipeline/` | stage directories inside one staging tree, current shape | `validate`, `plan`, `run_pipeline` | runs the other transforms, each with a staging directory of its own |
| Manifest, `manifest/` | none | `write_into`, `load`, checksum, metadata limits | written before the publishing rename, read by later runs |
| Exit codes and command line, `exit.rs`, `main.rs`, `cli.rs` | none | classify an error chain, report required bytes | the production host reads code 28 as "volume full" |
| Soak harness, `soak/` | workspace, child processes | run, verify what was published, force a failing run | the built binary |
| Bench harness, `bench/`, `src/refinery/examples/benchmark.rs` | workspace, measurements, evidence files, a committed baseline | measure, write evidence, compare, gate | the built binary, a Deno sampler, the reports of earlier runs |
| Family script, CI, `src/scripts/runlib.sh`, workflows | - | - | vendored or outside the program |

What is hard here: publication is two renames, so other runs, readers and
crashes see the state between them; every run checks its source first and reads
it later; a destructor writes, and may panic, while an error is on its way up;
a volume fills in the middle of a run; buffers meet file ends and record ends
at different places; 16-bit rounding has to carry into the exponent and spare
NaN.

What makes each part correct:

- *Publication* - a reader never finds an incomplete corpus at the destination;
  the corpus last seen is never lost; a run that fails leaves what was live; a
  run that is not killed leaves no scratch.
- *Reader* - records come whole, in order, none skipped and none across a file
  boundary, and the end is reported only when every file was consumed.
- *Writer* - bytes accepted reach the file once and in order, or somebody is
  told.
- *Run* - the manifest describes the corpus beside it; the exit code says why a
  run failed, whatever its destructors do; the space figure is enough.
- *Pipeline* - each stage reads what the one before published, in its shape;
  nothing of a failed pipeline remains.
- *bfloat16* - nearest even, monotone, NaN stays NaN, widening is exact.
- *Requests* - the parameters of what is accepted are as the code after it takes
  them to be; the space figure covers the share asked for; a manifest is enough
  to run each stage again.
- *Harnesses* - a report is of what was run, and a gate that is cleared had
  something to compare.

## Modules and the code they stand for

| Module | Code | What it is |
| --- | --- | --- |
| `CorpusSlot` | what `transform/staging.rs:1-20` promises | abstract specification: one live corpus, runs that replace it whole or not at all |
| `StagedCorpus` | `transform/staging.rs`, and the order in which the transforms write their files | any number of runs over one destination, one action per system call |
| `StagedCorpusProofs` | | proofs about `StagedCorpus`, its refinement of `CorpusSlot` included |
| `RecordReader` | `corpus/reader.rs` | the refill loop, byte by byte |
| `RecordReaderProofs` | | records come in order, the end is honest, for any width, buffer and files |
| `RecordWriter` | `corpus/writer.rs` | buffer, flush, finish, destructor |
| `RecordWriterProofs` | | proofs about `RecordWriter` |
| `TransformRun` | `sample/run.rs`, `quantise/run.rs`, `fuzz/run.rs`, `transform/scan.rs`, `main.rs`, `exit.rs` | one run from command line to exit code over a source that may be replaced; composes `StagedCorpus` and `RecordWriter` |
| `TransformRunProofs` | | `TransformRun` implements both components; what is published is as described, and what the exit codes say is so |
| `ErrorChain` | `exit.rs`, the `error.rs` of every transform | error types as chains of links, the walk that finds exit code and space figure |
| `Pipeline` | `pipeline/run.rs`, `pipeline/config.rs`, the declaration checks | the stage loop inside one staging tree; composes `StagedCorpus`, uses `ErrorChain` |
| `PipelineProofs` | | `Pipeline` implements `StagedCorpus`; its properties for any chain |
| `Bfloat16` | `corpus/bfloat16.rs` | both conversions as integer arithmetic on words of any width |
| `RecordValues` | `fuzz/run.rs`, `fuzz/noise.rs`, `fuzz/plan.rs`, `quantise/run.rs` | what happens to the values of one record after another |
| `Separation` | `transform/scan.rs`, `transform/staging.rs`, `corpus/discovery.rs`, `corpus/derived.rs` | the overlap check and the renames on a tree with links |
| `SeparationProofs` | | what a run leaves alone, for any names and links |
| `Soak` | `soak/run.rs`, `soak/verify.rs` | the harness around a binary that may do anything |
| `Bench` | `bench/*.rs`, `soak/measure.rs`, `src/refinery/examples/benchmark.rs` | a benchmark from its options to its exit code |
| `HarnessProofs` | | the evidence, reports and verdicts of both harnesses, for any rounds and any suite |
| `Words` | 64-bit arithmetic as the crate uses it | wrapping, saturating and checked operations, and a float's rounding of an integer, for words and mantissas of any width |
| `SpaceEstimate` | `sample/run.rs:91-131`, `:255-281` | the bytes a sampler asks for |
| `Requests` | `cli.rs`, the `plan.rs` of every transform, `pipeline/config.rs`, `pipeline/plan.rs`, `corpus/shape.rs`, `manifest/metadata.rs` | from the arguments of a command to what a run starts with |
| `ArithmeticProofs` | | of `RecordValues`: rounding, where fuzz may write and what its noise depends on, for any format; of `Requests`: what is accepted, the space figure and the seeds, for words of any width |

`MC*` modules give the constants of the runs their values. A definition marked
`Faulty:` in its comment is no part of a specification: it is a plausible bug,
defined just before the operator it would replace, and shows that a property
can fail.

### Publication: `CorpusSlot`, `StagedCorpus`

The state is the parent directory that all runs and readers share. A directory
is known by the run that built it, so `destination`, `staging[r]` and
`aside[r]` say what is at the three kinds of path and a rename moves a name;
`files[d]` says how far each file of directory `d` is written. `pc[r]` is the
position in the code: `Create` is `StagedCorpus::create`; `OpenFile` and
`FinishFile` are the corpus and then the manifest being written; `SetAside`,
`Publish`, `Rollback` are the three renames of `publish` with `SetAsideFails`,
`PublishFails`, `RollbackFails` for their errors; `RemoveFile` and
`RemoveDirectory` are `remove_dir_all`, one entry at a time, on the aside
directory after success and on the staging directory in `Drop`. `Crash` is a
kill between two system calls. `latest` is a history variable: what a reader
resolving the path last found.

`CorpusSlot` has `live` and `outcome` only. The mapping is `live <- latest`,
because in the window between the renames nothing is live and the promise is
about the corpus readers saw last, and an outcome is settled by the publishing
rename. Its `Restore` is not an idealisation we would have liked: where runs
overlap, a run whose publishing rename fails puts back what *it* set aside,
even if another run has published since (`transform/staging.rs:102`;
`src/README.md:302-304` promises that after a failure "the previously published
corpus is left exactly as it was").

### Streaming: `RecordReader`, `RecordWriter`

A byte of a source is the pair of its file and its offset, and the buffer is
kept byte by byte, so a record that is torn, skipped, repeated or joined across
two files is a wrong value. Each turn of `fill_to_record` is a step:
`OpenNext`, `Read(n)` for any cut `n`, `Close` (with the verdict of
`close_current`), `End`, and the failures. A bytes-read counter per file stands
for `current_len`.

The writer numbers the bytes it accepts 1, 2, 3, ...; the file is right when it
reads the same. `write_all` that fails has landed any proper part of the buffer
and the buffer is kept, as in `writer.rs:186`. The destructor is three actions:
nothing to do, a flush that works, a flush that fails - which panics, or goes
to standard error when a panic is under way. `reported_failure` is the field of
that name. `Retries` says whether the caller goes on after a failed flush. No
caller in the repository does, so the run and the theorem have it `FALSE`; with
it `TRUE` the writer is known to repeat bytes (`writer.rs:186`) and, after a
failed flush, to drop later records in silence (`writer.rs:218`). Neither is
reachable from a transform.

### A run: `TransformRun`

`step` is the position in `sample()`, `quantise()` or `fuzz()`. Every step is a
step of `StagedCorpus` for the one run, of `RecordWriter` with a record for its
byte, of both (`Finish` completes the file) or of neither. `Fail` is `?`: the
locals are dropped in reverse order, so the writer's destructor (`DropWriter`)
runs before the staging directory's (`DropStaging`). A destructor that panics
turns the cause into `"panic"`, code 101. A sampler reads a whole file, shuffles
it and writes what it keeps (`left`); the others write each record as it is
read, and come to know that a file is malformed only when it is retired
(`CloseSource`, `Malformed`). The manifest is computed from the writer's count
and the file's length. `Report` is `main()`; `ReportPanics` is a standard
stream that cannot be written.

The source is looked up by path again and again: `Scan` lists it, `Measure` and
`Inspect` take lengths, `NoteSource` takes a sampler's, `Open` opens a file.
`Republish` puts another corpus in its place between any two of these, a
directory at a time, as `staging.rs` itself does to a published corpus somebody
is reading; a file once opened stays the file it was. So `noted` (what the
manifest will say of the source) and `opened` (what was read) may differ, and a
file that was listed may be `Missing`.

### The chain: `ErrorChain`, `Pipeline`

An error is the sequence of links that a walk over `source()` meets. Each error
type is an operator that says for which of its variants `source()` answers, so
a type that forgets to forward its cause cuts the chain, as in the code.
`CodeFor` and `RequiredBytes` are the two walks of `exit.rs`;
`WithRequiredBytes` is the sampler's decoration with a figure and `Restated` is
`From<TransformError> for SampleError`.

A corpus is its length in bytes, the layout its values have and the layout its
manifest declares. Read under another layout than its own it becomes
`NoLayout`, and so does all that is derived from it. `Accepts` is what each
transform checks of a declaration, `NextLayout` is the shape `run_stage`
returns, `Identify` is `get_or_insert_with`. `scratch` holds the directories in
the staging tree: one per completed stage, and the one the stage at work stages
in. A stage is what `TransformRun` shows of a transform: whole or not at all,
with its own staging directory dropped. `Figure` is the space estimate of a
sampler (`sample/run.rs:116`), exact for the small numbers used.

### Values: `Bfloat16`, `RecordValues`

`Unit` is the weight of the lowest bit bfloat16 keeps, `Quiet` the quiet bit
and `Sign` the sign bit of a narrow word; with 2^16, 2^6 and 2^15 they are the
real formats. The shifts and masks of `bfloat16.rs` become `\div`, `%` and `*`
of these. `Rank` orders words as the numbers they stand for.

`RecordValues` reads a record, visits its values in order, perturbs those in
the targeted range and writes the record in the target encoding. The result of
a perturbation is any word of `Results`. Noise is reduced to what reproduction
depends on: `drawn`, how many numbers were taken from the generator, and
`spare`, whether the second of a Gaussian pair is held (`noise.rs:49`).

### Paths: `Separation`

The file system is a tree of any names, two levels deep, with files,
directories and links anywhere - absolute links, dangling ones and cycles
included. `Leads` says where each path leads if so many links may be followed,
one table per number of links; `Real` is the table for `MaxLinks`, beyond which
the kernel answers `ELOOP`. `Check` is `resolved_source` and the overlap test;
`Discover` is `corpus_files`, which follows links; the rest are the renames and
removals on the output path *as given*, each with its own treatment of links
and files. None of them holds a directory open: each call resolves the output's
parent anew, so what an earlier call moved may be in the way (`Reachable`).

### The harness: `Soak`

`RunBinary` may publish any corpus with any manifest, edit the source or fail.
`Load`, `Measure`, `Hash` are the three looks `PublishedCorpus::verify` takes
at the output, by path, one after another. `OtherPublishes` may come in between
them: that is more than the harness meets, whose workspace is named for its own
process, and keeps the properties from resting on that. `RunBroken` is the run
that must fail (`soak/run.rs:261`). `faulty` is history: in which respects the
binary was not honest. Names that `Bench` has too are `SoakInit`, `SoakFails`
and so on: the two share a module of proofs.

### Benchmarks: `Bench`

`step` is the position in `run()` of the example, and within `measure` and
`reference` in `measure_case` and `measure_reference`. A process takes any time
of `Times`, has a peak of `Peaks` or none, and publishes any of `Publications`,
whose manifest need not be true of what is on disk; `slots` is what stands at
each case's output, which every repeat publishes over. `seen` is history: the
processes of the case at hand. `file` is the report `--baseline` names and
`recorded` what stood there when the run began: `WriteJson` replaces `file`
where the two paths are one. Ratios are compared as products of integers, with
`Parts` for one; `NotANumber` is a NaN minimum, which no speed-up is below.
`Recorded` is what a baseline may hold, a file edited by hand included.

### Requests: `Words`, `SpaceEstimate`, `Requests`

`Requests` follows a command line through the checks in the order the code
makes them - the shape, the configuration of a pipeline, each stage, each pair
of metadata - and refuses it at its first fault. A float is an integer between
two infinities or NaN, which compares with nothing, so a check written the
other way round accepts it. Names are themselves, and a metadata entry carries
what is wrong with it. An accepted sampler measures its source and computes its
estimate (`ExpectedBytes`), and then every stage gets its seed: given, drawn or
derived (`StageSeed`, the SplitMix finaliser on words of `WordBits` bits).
`IsCommandLine` is what clap and serde leave to be checked: counts and seeds are
words, rates and bounds floats, and a command other than `pipeline` is the one
stage it names. `Xor` is written out digit by digit, from the highest on; it is
a recursive function, so that proofs can be about it.

`SpaceEstimate` is `pass_bytes` and `expected_bytes` operation by operation:
the saturating sum of the lengths, the ceiling of a product that is rounded to
`Mantissa` bits, the saturating product, the headroom. A rate is a multiple of
`1 / RateUnit`; with the `RateUnit` of an `f64`, `2^1074`, that is every one
there is, and `ToFloat` rounds the products of such rates as it does, subnormal
ones included.

## What is checked

| Run | Question | Instance |
| --- | --- | --- |
| `publication_concurrent` | Can a reader find an incomplete corpus, or can the last one be lost? Does the detailed publication implement the slot? Does an empty slot fill again? | three runs that overlap freely, every fault in every place; the previous corpus has no manifest |
| `empty_slot` (violation) | Is the slot never empty? | one run, no fault |
| `record_reader` | Are the records of the files what comes out, in order, and is the end honest? | files of 0-5 bytes, one to three of them; records of 2 bytes; a buffer of two records; every cut of every read |
| `record_writer` | Are the accepted bytes in the file, or was somebody told? | records of 2 bytes, a buffer of two, five records, two failing writes |
| `transform_run` | Is what is published the whole source, as described, and the source the one named? What do the exit codes say? Is scratch left behind? Does the run end? | the three transforms; one or two files of 0-2 records, cut or not; the source replaced or removed once at any moment; every failure, full volume or other; failing standard streams; kills |
| `pipeline_chain` | Does a chain publish what its configuration and its manifest say, and does its failure tell the truth? | chains of 1-3 stages, refused ones included; four sources, three layouts asked for; every failure under every error type that can carry it |
| `record_values` | Is rounding to nearest even? Where may fuzz write? Does noise depend on position alone? | 7-bit words: every one quantised beside a neighbour; fuzz over pairs of six words, five results, every policy |
| `separation` | Can a run harm its source, or anything beside its output? | every tree of two names and two levels beside a directory with a file, every pair of paths |
| `soak` | Is the report true, is it earned, is an honest binary refused? | two rounds, four contents, six manifests each, one publication by another |
| `bench` | Are figures those of the runs made, is evidence whole, and does a gate that is cleared mean something? | three suites, two of them with a twist - a chain that samples at its sampler's rate, a label used twice; one or two repeats; four publications, four baselines, four tolerances, four speed-up minima |
| `bench_overwritten` (violation) | Is a run held to the baseline it was given? | the baseline is the report this host writes |
| `requests` | Does what is accepted hold what the code after it relies on? Does a manifest replay? Is the space figure enough? | 531 command lines; words of 10 bits, floats of 6; every length of one file and nine pairs |

Distinct states: `publication_concurrent` 170 088, `record_reader` 7 813,
`record_writer` 157, `transform_run` 285 762, `pipeline_chain` 1 061 612,
`record_values` 560 174, `separation` 398 947 (up to exchanging the two names),
`soak` 9 479, `bench` 1 192 461, `requests` 60 673; none takes longer than two
minutes.

Each `TypeOK` was checked beside the properties of its module and is part of
the inductive invariants of the modules with proofs; the configurations name
the properties that could be false of the code.

**`publication_concurrent`.** `LiveIsWhole` and `LatestSurvives` are what a
reader and an operator rely on. They hold for overlapping runs because a rename
onto a directory with files in it fails (`Vacant`), so of two runs inside their
windows one fails and rolls back. `ImplementsSlot` is the refinement.
`WindowCloses` says that an empty slot is filled again, unless a run was killed
in its window or failed to put back what it had set aside. `EndsClean` needs
runs that do not overlap - two overlapping runs can leave an aside directory
behind for good, since a rollback that finds the slot taken is not tried again
- and is a theorem here (`SerialRunsEndClean`) and a property of
`transform_run`.

**`record_reader`, `record_writer`.** Two bytes per record and two records per
buffer make every alignment happen: records that straddle a refill, files that
end inside a record, a buffer that is full to the byte. `Drained` shows that the
refill loop has a bound although nothing in it counts. In the writer,
`NothingLostInSilence` and `PanicIsNews` are the two sides of `reported_failure`:
set too seldom, a destructor panics over what was reported and replaces exit
code 28; set too long, records vanish.

**`transform_run`.** `PublishedAsDescribed` and `WholeSourceRead` relate the
source, the file, the manifest and the rename; they would fail if the manifest
were computed before the flush, or the last file were never found malformed.
`ExitTells` and `RetryIsJustified` follow the cause through destructors that
may fail too: exit 28 only for a full volume, exit 1 never for one. That a full
volume met by a destructor gives 101 is the code's behaviour. `EndsClean` is
checked through errors, panicking destructors and failing streams alike. With
the source replaced in between, `PublishedAsDescribed` and `WholeSourceRead`
still hold, of the files as they were opened: a run may publish a mixture of
two corpora, each file whole and counted. `NamedAsRead` says how far the
lengths in the manifest can be trusted then: fully if nothing was replaced, and
for a sampler, which notes each length just before it opens the file, up to one
file per replacement. `quantise` and `fuzz` note all lengths first and may have
every one of them wrong.

**`pipeline_chain`.** `ShapeIsThreaded`, `PublishedIsTheChain`,
`DeclaredIsHonoured`: what each stage reads is what the one before published,
and the manifest of the chain, assembled when the stage directories are gone,
describes it. `RetryIsJustified` is stronger than in `TransformRun`: the cause
is kept as a chain under every error type the code has, and `exit = 28` must be
equivalent to what really happened (`met`). `FigureIsEarned` is about
`required_bytes`. `PartWayIsForeseeable`, a part of `DeclaredIsHonoured`, tells
which chains pass the validation and are still refused half way: those that
quantise what is stored already, by the request or by an earlier stage. No other
stage ever refuses what the one before it wrote, and these are known from the
request alone.

**`record_values`.** The format has one sign bit, two exponent bits, two kept
and two dropped mantissa bits: ties, carries into the exponent, overflow to
infinity, subnormals and NaNs whose payload is all in the dropped bits all
occur. `ErrorIsAsRecorded` is the manifest's `max_relative_error`, which is
meant for normal numbers; below them the code has no bound and claims one only
in the manifest's wording.

**`separation`.** `SourceUntouched` holds of a source directory without links
in it, whatever links lead to it. `NothingElseMoves` has two exceptions, which
are what the code does: a file standing at the output is moved aside and stays;
and where the way to the output's parent leads through the output's own entry -
a link, which the first rename moves - the run fails, rolls nothing back and
leaves both scratch names behind (`ComesBack`).

**`soak`.** The binary is the adversary. `EvidenceIsTrue` excludes one
combination the harness cannot tell apart: a dishonest manifest *and* another
publication between two looks.

**`bench`.** `FiguresAreHonest` is about what is recorded of a case when it is
recorded; `EvidenceIsWhole`, `BaselineHolds` and `SpeedupIsEarned` about what
exit 0 means. Each is stated against the measurements and not against the
comparison's own operators, so that a sign or an order mixed up there shows.
`BaselineHolds` has two exceptions, which are what the code does: labels that
are used twice - which the standard suite has not -, and a baseline that is the
report this run writes (`bench_overwritten`). `SpeedupIsEarned` excepts a minimum
of NaN, and `EvidenceIsWhole` the workspace of a harness that panics: both are in
the list of disagreements.

**`requests`.** `AcceptedIsSound` collects what the code downstream takes for
granted of the parameters: the width is the true one and the buffers are words, a
rate keeps something, bounds do not make `f32::clamp` panic, every metadata pair
is recorded. It does not say that an accepted request gets through. Two that do
not, whatever their source, are in the list of disagreements: a chain that
quantises twice, which `PartWayIsForeseeable` of `pipeline_chain` is about, and a
width no allocation holds. `SeedsReplay` puts the records of a manifest back into
a configuration - of the parameters, those a configuration has names for:
accepted, the same seeds, the same records. It includes that deriving a seed is a
bijection of the pipeline's seed at every position. `EstimateCovers` bounds the
figure from both sides. From above, the bound of the code's comment is stated for
records no longer than the headroom divisor; for longer ones, as the documented
corpora have, the code asks for up to one per cent of a record more, and the
property says so (see the disagreements).

## Bounds

- *Three runs* over one destination: one whose rollback races, one that takes
  the slot in its window, one that removes. The proofs remove this bound.
- *Files, records, buffer*: remainders modulo the record width and the buffer
  size are all met; nothing in the reader depends on more than the previous
  file. The writer's theorem removes its bounds.
- *Stages*: three, so that there is a first, a middle and a last.
- *7-bit words*: every class of number is inhabited and every word tried. The
  rounding lemmas remove the width.
- *Two names, two levels*: enough for a path to be inside, above, beside or the
  same as another, by itself or through several links. `MaxLinks` stands for
  the kernel's limit on links: six is more than any path of the run's trees
  follows unless it goes in circles. The proofs remove the number of names and
  of links; the two levels remain.
- `MaxFailures`, `Others`, `Rounds`, `MaxBytes`: how often the environment acts
  or how long an input is. `record_writer` allows a second failing write, so
  that a destructor which flushed again after a reported failure could fail and
  panic; that a caller who stops at the first error never comes there is what
  `reported_failure` is for.
- *Ten-bit words, six-bit mantissas*: sums, products and roundings overflow or
  lose bits within the range, and every length of a file can be tried. A real
  word has 64 bits and a mantissa 53. The SplitMix constants are cut to the
  width and stay odd, which is what makes the products bijections. The proofs
  remove the widths, and with them the choice of lengths, rates and factors.
- *One replacement* of the source: every pair of looks at it has it between
  them. With a second one a file may differ from both its length and its list.
- *Baselines and suites*: each case of the comparison occurs - better, worse
  within and beyond the tolerance, zero, not sampled, not measured, other
  corpus.
- `CHECK_DEADLOCK FALSE` everywhere: the program ends.

## Fairness

Three specifications state fairness, all of the same kind: a process that has
started is straight-line code that waits for no other, so the system lets it go
on. `StagedCorpus!FairSpec` is weak fairness of `Progress(r)` per run: starting
and being killed are left out. `TransformRun!FairSpec` is weak fairness of the
next step, the failures the environment adds left out. `RecordReader!FairSpec`
assumes a caller that drains the stream, as every transform does. The two
harnesses have no liveness property: they wait for child processes without a
timeout, so a child that hangs hangs them.

## Disagreements between code and text

Two runs end in a counterexample to a sentence of the repository:

1. `empty_slot` - `transform/staging.rs:4-6` and `src/README.md:299-300` say a
   reader never finds an empty slot. Publication is two renames; between them
   the destination does not exist, and a kill there leaves it so.
2. `bench_overwritten` - `src/refinery/examples/benchmark.rs:136` says a run
   fails if it regressed against the committed report. The report of the run is
   written before the baseline is read, and the documented command
   (`src/docs/benchmarks.md:84`, `src/bench/run.sh:14`) names as baseline the
   very file this host's report goes to, so the run is compared with itself.

Met while modelling, and part of the models without a run of their own:

- `src/docs/pipelines.md:72-73` and `cli.rs:284-286` say an unusable pipeline fails
  immediately rather than part way through. Each stage is validated by itself,
  and `quantise` compares a declaration with the encoding its scheme takes, not
  with the one it was asked to read: a second `quantise` in a chain is refused
  when it is reached (`quantise/run.rs:158`), after the stages before it have
  run, as `src/refinery/tests/pipeline_compose.rs:444-459` expects.
  `PartWayIsForeseeable` says exactly when; and every such chain could have been
  refused at once, as it depends on the request alone;
- `sample/run.rs:112-115` puts the space figure between `ceil(source_bytes x rate)`
  and that plus its headroom and one record, and a test asserts it with records
  of 12 bytes (`:391-395`). The headroom is taken of the extra record as well:
  for one record of 10 048 bytes at a rate of 0.001 the figure is 10 149, and the
  bound 10 060 (10 059 as the test computes it). `EstimateCovers` has the
  documented bound for records of no more than 100 bytes, and with the headroom
  of the record for all;
- `src/README.md:537-541` says any of the three transforms checks a source's
  declared encoding and width; `sample` does not, so a bfloat16 corpus is
  sampled, and passed on, as float32 (`DeclaredIsHonoured` excepts it);
- `src/README.md:176-178` says no code path removes a source; a source
  directory that holds a link into the output directory passes the overlap
  check, and publishing removes the file behind it (`SourceUntouched` is stated
  of a directory without links);
- `transform/staging.rs:78-79` says a rename that fails rolls the previous
  corpus back, so readers are never left without a directory; where the output
  is given by a path whose parent leads through the output's own link, the
  rollback cannot find the parent either (`NothingElseMoves`);
- `manifest/model.rs:254` gives a source file's length "when it was read"; it
  is the length when it was listed or noted, and differs where the source is
  replaced in between (`NamedAsRead`);
- `pipeline/plan.rs:88-90` and `:143-148` say no two stages share a sequence; a
  seed pinned in the configuration may be the one another stage derives or
  pins, and `SeedsReplay` says it of derived ones only;
- a width up to the largest `usize` is accepted, though no buffer can be larger
  than half of that: such a request panics in the allocation, with code 101
  (`corpus/shape.rs:139`);
- a failed run's rollback may put back an older corpus than the one live before
  it (`transform/staging.rs:102`, against `src/README.md:302-304`);
- `println!` may panic after a corpus was published: exit 101 with the corpus
  live (`main.rs:80`, against `src/README.md:208`); and a destructor's panic
  hides a full volume behind 101;
- `required_bytes` of a pipeline is one stage's pass, without what the stages
  before it occupy (`exit.rs:83`, against `src/README.md:240-244`);
- fuzzing a bfloat16 corpus may round a finite result to an infinity, or to a
  value just outside a bound (`fuzz/run.rs:172`, against
  `docs/fuzzing.md:103-107` and `:120`), and sets the quiet bit of a signalling
  NaN (`docs/fuzzing.md:119`); `BoundsKept` and `OnlyTargetsMove` are therefore
  stated "as the encoding stores them" and "a NaN as some NaN";
- both harnesses promise to leave no corpus behind on the host they fail on
  (`src/refinery/examples/benchmark.rs:79-80`); the error of a child process
  carries the last 4096 bytes of its standard error, and where that cut falls
  inside a character the slice panics (`soak/measure.rs:184`), past the removal
  of the workspace (`TailPanics`; `EvidenceIsWhole` excepts exit 101);
- `src/refinery/examples/benchmark.rs:138` says a run fails unless it beats the
  Deno sampler by the factor given; `nan` parses as a factor, and
  `bench/report.rs:189` refuses only what is less than it, which nothing is, while
  a tolerance of NaN is refused (`bench/baseline.rs:65`); `SpeedupIsEarned` excepts
  it;
- the soak harness counts scratch directories but does not fail on them
  (`soak/run.rs:275`, against `docs/production-soak.md:40-49`), and digests the
  source around the sampling rounds only.

## What is proved

`tlapm` checks every proof below to its leaves, for every value of the
constants that satisfies the named `ASSUME`s; TLC evaluates those assumptions
in the runs.

**`StagedCorpusProofs`.** For any set of runs, overlapping or not, and any
faults. `LiveIsWhole` is not inductive: that what is installed is complete
depends on where each run stands, and that it stays so depends on nobody
removing it, hence on each directory being in one place. `IndInv` says both
(`PhaseOK`, `PlacedOnce`) with `LatestSurvives`; it is proved action by action.
From it follow `ReadersSeeWhole` and `NothingLost`. `SerialRunsEndClean` adds
`SerialInv`, under the assumptions that runs do not overlap and neither
removals nor rollbacks fail. `Refinement` (`Spec => Slot!Spec`) adds
`OutcomeInv`: a directory that is live or set aside was published, so that what
a rollback restores is something `CorpusSlot!Restore` may restore.

**`RecordReaderProofs`.** For any record width, buffer and list of file
lengths, and however the reads are cut: `RecordsInOrder` and `EndsAreEarned`.
Neither is inductive. `IInv` adds what the buffer holds while a file is open -
the last bytes read from it, all the whole records before them handed out
(`Streaming`) -, that nothing is owed between two files (`Between`), and that
every file retired in silence was sound (`Passed`). `RecordsUpTo`, the records
of the first files, is a recursive function; that it satisfies its equation is
shown from the principle of the least number (`Least`, `Unfolds`), since the
induction theorems of the library cannot be instantiated here.

**`RecordWriterProofs`.** For any record width, buffer and number of records,
and a caller that stops at the first error (`~Retries`): until an error is
returned, file and buffer are the accepted bytes cut in two; after it the file
is a prefix and the destructor knows that it was told (`IInv`). From it follow
`FileFollowsRecords`, `WriterKeepsRecords` - which adds that a finished file is
written whole (`FinishedIsWritten`) - and `PanicsOverNews`.

**`TransformRunProofs`.** `ImplementsStaging` and `ImplementsWriter` show that
every step of a run is a step of each component or leaves it alone; the
theorems of the two are then used by instantiation, which gives
`ReadersAreSafe`. The rest has an invariant for each question:

- `PublishesAsDescribed`: where the reader, the writer and the manifest stand at
  each step (`RunInv`);
- `WholeSourceIsRead`: what was read of the files taken so far is what was
  written, dropped or left (`ReadInv`). The sum over files is a fold of the
  community modules; `SumIsFold` and `TotalIsTokens` show that it is the number
  of pairs of a file and one of its records, from which that it grows by one
  file's records when the file is opened (`TotalAdds`) is a fact about finite
  sets;
- `RetriesAreJustified`: what is known of the cause (`Blame`);
- `ExitCodesTell` and `ZeroMeansLive`: which outcomes may still be reached from
  each step (`Course`), with `AloneTells` of `StagedCorpusProofs`, which says
  where the corpus of a run that is alone lies. Without any hypothesis, exit 0
  is given only over the run's own corpus, live; that *after a failure* the old
  corpus is at its place needs `"rollback" \notin Faults`, as the code has
  nothing left to try when a rollback fails;
- `NamesAsRead`: every name on which the manifest and the files opened disagree
  is paid for by a replacement (`NoteInv`), for any number of files and
  replacements;
- `RunsEndClean`: which steps may hold a staging or an aside directory, whoever
  replaces the source and however often - where removals and rollbacks work,
  since the code ignores the errors of both.

**`PipelineProofs`.** For any configurations, chains, sources and faults.
`ImplementsStaging` and from it `ReadersAreSafe` and `TypeCorrect`. The
invariant `IInv` says where the run stands and what it owes there (`Course`,
`Typed`), that the corpora form a chain from the source on (`Chained`), each
read in the shape the last was written in (`Threaded`), that the manifest
assembled after the stage directories are gone describes it (`DescribedOnce`),
what the cause can be (`Blame`), and what is in the staging tree (`Swept`).
`ShapesThread`, `PartWayIsForeseen`, `PublishesTheChain`, `RetriesAreJustified`
and `FiguresAreEarned` follow without hypotheses: the walks over an error chain are
computed for every chain the code can build, so that exit 28 is equivalent to a
full volume under every error type. `ZeroMeansLive` is as for a run. Two have
hypotheses: `DeclarationsAreHonoured`, that each source declares its true layout
or none - a manifest that lies cannot be found out from inside -, and
`FailuresLeaveNothing`, that removals and rollbacks work.

**`ArithmeticProofs`.** Of `RecordValues`, for formats of any width:
`RoundsToNearest` (within half an interval), `RoundingIsMonotone`,
`StoringKeepsOrder`, `RoundTripIsExact`, `NaNStaysNaN`. `StoresTheNearest`
compares the stored word with every other word of the format, in the values
they stand for and across the exponents, ties to even included, and
`ErrorIsRelative` bounds the error by the value where numbers are normal. Both
need that powers of two add and grow; the provers know nothing of `2^n`, so it
is counted as the number of subsets of an interval (`Powers`). The invariant
`ValueInv` follows the perturbation through a record and gives
`PerturbsOnlyTargets`, `BoundsAreKept` (clamping holds a result inside the
bounds, and storing keeps the order), `NearestIsStored` and
`RecordedErrorHolds`. `NoiseIsReplayed` adds `NoiseInv`: the position in the
corpus alone says how many numbers were drawn, whether the second of a pair is
held and what was counted, for any number of records and any policy.

Of `Requests`, for words and floats of any width, any command lines of
`IsCommandLine` and files of any lengths, from one invariant, `RequestInv`: a
live request has been checked up to where it stands - its shape (`Shaped`), its
stages in order (`Validated`), its metadata, each under a key of its own
(`Noted`) - and what was computed is of what was checked (`Estimated`, `Drawn`).

- `RequestsAreSound`: `AcceptedIsSound`, each conjunct from the check that is
  meant to establish it.
- `EstimatesCover`: `EstimateCovers`. `RelativeError` bounds what one rounding
  loses, `RoundedTwice` what two do, and `HeadroomCovers` that the headroom
  gives it back - where `2 * (HeadroomDivisor + 1) <= 2^Mantissa`, which holds
  of 100 and 53 by far (`EstimateAssumption`). `ToFloatGrows`, `KeptGrows`,
  `FigureGrows` and `PassGrows` carry "one more file never lowers it" through
  every rounding and saturation on the way.
- `SeedsReplayed`: `SeedsReplay`. `ShiftInjective` recovers a word from its
  xor-shift digit by digit, `WrapMultiplies` a factor from a product with an odd
  number, so the finaliser tells any two positions (`PositionsApart`) and any
  two pipeline seeds (`PipelinesApart`) apart; of the constants in the code only
  that the factors are odd and the shifts positive is used (`MixAssumption`).
  `ReplayedStage` is the round trip through the manifest.

Recursive functions (`PassBytes`, `Total`, `Xor`) satisfy their equations by
`Recursion`, which builds a function of any beginning and any step from the
principle of the least number.

**`SeparationProofs`.** For any names, any trees of `IsTree` and any limit on
links. `SourceStaysWhole`: of a source directory without links no entry is ever
written, moved, removed or added. `PublishesInPlace`: `NothingElseMoves` as
checked, both exceptions included. The difficulty is that the run compares real
paths in one file system and then names paths in others, some of whose entries
it has moved itself. `RealAgrees` says that two trees of which one holds what
the other does lead a path to the same place; `OutputLeads`, `AsideLeads` and
`ComesBackByLink` apply it to the trees a run goes through (`ClearedAt`,
`InstalledAt`, `TidiedAt`), and `SourceApart` shows that the output's entry, in
its real parent, lies neither in the source nor above it - for an output that
is itself a link too, where the compared path is not the renamed one. `IInv`
says for each step which of these trees the file system is.

**`HarnessProofs`.** Of the soak, for any number of rounds, contents, manifests
and publications by others: `EvidenceHolds`, `ReportsAreEarned` and
`HonestRunsPass`. `SoakIInv` says what an honest binary leaves at the output
(`HonestSlot`, `HonestManifest`), that three looks by path are at one corpus
while nobody else publishes (`SameCorpus`, `SoakMeasured`), and what the last
part of a soak has passed (`Earned`).

Of the benchmark, for any suite, repeats, figures and reports:
`FiguresAreMeasured`, an action property, `EvidenceOfTheWhole`,
`BaselinesAreKept` and `SpeedupsAreEarned`. `IInv` relates the running figures
to the runs made (`Tally`), the recorded cases to the suite (`Suite`), the
evidence to the step (`Files`), and what lies behind a cleared gate (`Gates`).
`BaselinesAreKept` assumes that the cases of a committed report read the corpus
the report names; the benchmark writes no other, but the comparison looks at
the corpus of the report only, and a report edited by hand may differ.

**Model-checked only.** Everything with fairness (`WindowCloses`, `Drained`,
`Ends`), which is out of the prover's reach. Every invariant and every action
property of a passing run is the statement of a theorem.

## What is not modelled

- *Measurement*: sampling a child process and parsing what `/proc` says of it
  (`soak/measure.rs`), host facts, and the layout of the reports; `Bench` and
  `Soak` take any figure. *Checksums* are equality of content.
- *Random access* (`corpus/source.rs`) has no caller in the program, *synthetic
  corpora* are test data; *time formatting*, *JSON layout* and the splitting of
  a command line into arguments are conversions no property is about.
- *Random numbers*: the generator and the shuffles. Any records may be kept in
  any order.
- *Floating-point arithmetic* of a perturbation.
- *The layout of a replaced source*: `TransformRun` has records and not their
  encoding, so that a source replaced by one of another encoding is read under
  the old declaration is not in a model.
- *Power loss*: the manifest is synced and the corpus file is not
  (`manifest/model.rs:128`); it would need a model of the page cache.
- *Scratch of killed runs*: nothing in the code reclaims it, so there is no
  behaviour to check.
- `scripts/runlib.sh` and the workflows: vendored, or not the program.

## Plan

Done, in the order of importance: publication (with its abstract
specification), the reader, the writer, a run composed of them over a source
that may be replaced, the pipeline, values, separation, the two harnesses,
requests; proofs of the safety properties of all of them.

Left: models of the page cache and power loss (`manifest/model.rs:128`) and of
the encoding of a source that is replaced.
