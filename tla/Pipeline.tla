------------------------------ MODULE Pipeline ------------------------------
(***************************************************************************)
(* pipeline/run.rs: the ordinary transforms run one after another inside   *)
(* one staging directory.  Every stage publishes a corpus of its own into  *)
(* a scratch directory there, in the layout the next one reads; the last   *)
(* corpus is moved out, the scratch directories are removed, a manifest of *)
(* the whole chain is written, and the staging directory is published.     *)
(*                                                                         *)
(* It composes S, the staged publication of the one run Run.  A stage is   *)
(* abstracted to what TransformRun shows of a transform: it publishes a    *)
(* whole corpus as its manifest describes it, or it fails - or panics - and *)
(* drops its own staging directory on the way out.  The errors, and what   *)
(* main() makes of them, are those of ErrorChain.                          *)
(*                                                                         *)
(* A corpus is its length in bytes, the layout its values really have and  *)
(* the layout its manifest declares.  Read under another layout than the   *)
(* real one it becomes bytes no layout describes.                          *)
(***************************************************************************)
EXTENDS ErrorChain, SequencesExt

CONSTANTS
  Configs,   \* the configurations to run
  Sources,   \* the source corpora to run over
  Requests,  \* the layouts a caller may ask for; the command line: float32 only
  MaxBytes,  \* bound: the length of a source
  Run, Previous, PreviousFiles, NoDir, Faults   \* as in StagedCorpus

VARIABLES
  step,             \* where the run is
  config,           \* the configuration, [version, stages]
  source,           \* the source corpus
  request,          \* the layout the caller asked for
  shape,            \* the layout the next stage reads
  corpora,          \* what each completed stage published
  stages,           \* the records each completed stage read and wrote
  source_identity,  \* records of the source, as the first stage identified it
  scratch,          \* what the staging tree holds beside the corpus and the manifest
  manifest,
  cause,            \* the error the run fails with
  met,              \* history: what stopped it, whatever the error says
  spent,            \* history: bytes the stage that failed had written
  figure,           \* the required_bytes printed
  exit

VARIABLES pc, destination, staging, aside, files, latest

staged == <<pc, destination, staging, aside, files, latest>>
given  == <<config, source, request>>
chain  == <<shape, corpora, stages, source_identity>>
told   == <<figure, exit>>
vars   == <<step, given, chain, scratch, manifest, cause, met, spent, told, staged>>

S == INSTANCE StagedCorpus WITH Runs <- {Run}, Serial <- TRUE

Encodings == {"float32", "bfloat16"}
Layouts   == [values : Nat \ {0}, encoding : Encodings]
NoLayout  == [values |-> 0, encoding |-> "float32"]
Corpus    == [bytes : Nat, layout : Layouts \cup {NoLayout},
              declared : Layouts \cup {NoLayout}]

(* One stage of a configuration: halves is the rate of a sampler, in       *)
(* halves; usable says whether its parameters are ones the transform takes. *)
Transforms == {"sample", "fuzz", "quantise"}
Stage      == [transform : Transforms, halves : 1 .. 2, usable : BOOLEAN]

ASSUME ConfigsAssumption == Configs \subseteq [version : Nat, stages : Seq(Stage)]
ASSUME SourcesAssumption == Sources \subseteq Corpus /\ \A s \in Sources : s.bytes <= MaxBytes
ASSUME RequestAssumption == Requests \subseteq Layouts /\ MaxBytes \in Nat
ASSUME FaultsAssumption  == {"create", "write", "rename"} \subseteq Faults
ASSUME StagingAssumption == S!PreviousAssumption /\ S!NoDirAssumption /\ S!FaultsAssumption

NoError    == <<>>
Panic      == <<Link("panic", "panic")>>
NoManifest == [pipeline |-> <<>>, layout |-> NoLayout, source_layout |-> NoLayout,
               source_records |-> -1, records |-> -1, bytes |-> -1]

BytesPerValue(encoding) == IF encoding = "float32" THEN 4 ELSE 2
BytesPerRecord(layout)  == layout.values * BytesPerValue(layout.encoding)

Init ==
  /\ step = "validate"
  /\ config \in Configs /\ source \in Sources /\ request \in Requests
  /\ shape = request
  /\ corpora = <<>>
  /\ stages = <<>>
  /\ source_identity = -1
  /\ scratch = {}
  /\ manifest = NoManifest
  /\ cause = NoError /\ met = "none"
  /\ spent = 0
  /\ figure = NoFigure
  /\ exit = -1
  /\ S!Init

(* Faulty: the process exits where the error is found.                     *)
ExitAtOnce(error, kind) == cause' = CliError("Pipeline", error) /\ met' = kind /\ step' = "report"

(* `?` returns the error and drops the staging tree, if there is one.      *)
Fail(error, kind) ==
  /\ cause' = CliError("Pipeline", error)
  /\ met' = kind
  /\ step' = IF pc'[Run] \in {"idle", "failed"} THEN "report" ELSE "unwind"

Proceed(next) == step' = next /\ UNCHANGED <<cause, met>>

Helper(error) == PipelineError("Transform", error)   \* an error of the shared helpers

-----------------------------------------------------------------------------
(* Before the scratch tree exists                                          *)

Valid ==
  /\ config.version = 1
  /\ config.stages # <<>>
  /\ \A i \in DOMAIN config.stages : config.stages[i].usable

Rejection ==
  CASE config.version # 1   -> PipelineError("UnsupportedConfigVersion", <<>>)
    [] config.stages = <<>> -> PipelineError("EmptyPipeline", <<>>)
    [] OTHER                -> InStage("fuzz", FuzzError("InvalidScale", <<>>))

Validate ==
  /\ step = "validate"
  /\ UNCHANGED <<given, chain, scratch, manifest, spent, told, staged>>
  /\ IF Valid THEN Proceed("resolve") ELSE Fail(Rejection, "other")

(* An overlap with the source, a path that cannot be resolved.             *)
Resolve ==
  /\ step = "resolve"
  /\ UNCHANGED <<given, chain, scratch, manifest, spent, told, staged>>
  /\ \/ Proceed("create")
     \/ Fail(Helper(TransformError("OverlappingCorpora", <<>>)), "other")
     \/ Fail(Helper(TransformError("Io", IoError("other"))), "other")

Create ==
  /\ step = "create"
  /\ S!Create(Run)
  /\ Proceed("loop")
  /\ UNCHANGED <<given, chain, scratch, manifest, spent, told>>

CreateFails(kind) ==
  /\ step = "create"
  /\ S!CreateFails(Run)
  /\ Fail(Helper(TransformError("Io", IoError(kind))), kind)
  /\ UNCHANGED <<given, chain, scratch, manifest, spent, told>>

-----------------------------------------------------------------------------
(* The stages                                                              *)

Position == Len(corpora) + 1
Current  == IF corpora = <<>> THEN source ELSE Last(corpora)
Now      == config.stages[Position]
Inner    == 0   \* the stage's own staging directory; stage i publishes into i

(* Faulty: the record width is not compared.                               *)
AcceptsAnyWidth(stage, layout, declared) ==
  CASE stage.transform = "sample"   -> TRUE
    [] stage.transform = "fuzz"     -> declared.encoding = layout.encoding
    [] stage.transform = "quantise" -> declared.encoding = "float32"

(* check_source_declaration: quantise compares the encoding with the one   *)
(* its scheme takes, not with the one it was asked to read; sample has no  *)
(* such check.                                                             *)
Accepts(stage, layout, declared) ==
  CASE stage.transform = "sample"   -> TRUE
    [] stage.transform = "fuzz"     -> /\ declared.encoding = layout.encoding
                                       /\ BytesPerRecord(declared) = BytesPerRecord(layout)
    [] stage.transform = "quantise" -> /\ declared.encoding = "float32"
                                       /\ BytesPerRecord(declared) = BytesPerRecord(layout)

Refused == Current.declared # NoLayout /\ ~Accepts(Now, shape, Current.declared)

StageRefused ==
  /\ step = "loop" /\ Position <= Len(config.stages)
  /\ Refused
  /\ UNCHANGED <<given, chain, scratch, manifest, spent, told, staged>>
  /\ Fail(InStage(Now.transform,
                  IF Now.transform = "fuzz" THEN FuzzError("SourceEncodingMismatch", <<>>)
                                            ELSE QuantiseError("SourceEncodingMismatch", <<>>)), "other")

BeginStage ==
  /\ step = "loop" /\ Position <= Len(config.stages)
  /\ ~Refused
  /\ scratch' = scratch \cup {Inner}
  /\ IF Position = 1 THEN S!OpenFile(Run, "corpus") ELSE UNCHANGED staged
  /\ Proceed("stage")
  /\ UNCHANGED <<given, chain, manifest, spent, told>>

WellFormed == Current.bytes > 0 /\ Current.bytes % BytesPerRecord(shape) = 0

Read == Current.bytes \div BytesPerRecord(shape)

(* A sampler that keeps every record with a probability below 1 may keep   *)
(* any number of them, none included.                                      *)
Written(stage) ==
  IF stage.transform = "sample" /\ stage.halves = 1 THEN 0 .. Read ELSE {Read}

TargetShape(stage) ==
  IF stage.transform = "quantise" THEN [shape EXCEPT !.encoding = "bfloat16"] ELSE shape

(* What a stage publishes, in the layout its manifest declares.            *)
Output(stage, records) ==
  LET layout == TargetShape(stage)
  IN  [bytes    |-> records * BytesPerRecord(layout),
       layout   |-> IF shape = Current.layout THEN layout ELSE NoLayout,
       declared |-> layout]

(* Faulty: the next stage reads the layout this one read.                  *)
SameLayout(stage) == shape

(* The layout run_stage hands to the next stage.                           *)
NextLayout(stage) == TargetShape(stage)

(* Faulty: every stage identifies the source anew.                         *)
IdentifyAgain == source_identity' = Read

(* source_identity.get_or_insert_with(..)                                  *)
Identify == source_identity' = IF source_identity = -1 THEN Read ELSE source_identity

StagePublishes ==
  /\ step = "stage" /\ WellFormed
  /\ \E records \in Written(Now) :
       /\ corpora' = Append(corpora, Output(Now, records))
       /\ stages' = Append(stages, [read |-> Read, written |-> records])
  /\ Identify
  /\ shape' = NextLayout(Now)
  /\ scratch' = (scratch \ {Inner}) \cup {Position}
  /\ Proceed("loop")
  /\ UNCHANGED <<given, manifest, spent, told, staged>>

(* The stage's own StagedCorpus is dropped; a removal that fails is ignored. *)
DropInner ==
  scratch' = scratch \ {Inner} \/ ("remove" \in Faults /\ UNCHANGED scratch)

(* Faulty: what is already on the volume is not reckoned.                  *)
ExpectedOnly(written) ==
  LET kept  == (Read * Now.halves + 1) \div 2
      bytes == kept * BytesPerRecord(shape)
  IN  bytes + (bytes + 99) \div 100

(* whole_pass.max(written), the pass with its one per cent.                *)
Figure(written) ==
  LET kept  == (Read * Now.halves + 1) \div 2
      bytes == kept * BytesPerRecord(shape)
  IN  Max({bytes + (bytes + 99) \div 100, written})

(* What run_stage returns when its transform does.                         *)
StageReturns(error, written) ==
  InStage(Now.transform, Returned(Now.transform, error, Figure(written)))

StageMalformed ==
  /\ step = "stage" /\ ~WellFormed
  /\ DropInner
  /\ UNCHANGED <<given, chain, manifest, spent, told, staged>>
  /\ Fail(StageReturns(TransformError("Corpus", CorpusError("PartialRecord", <<>>)), 0), "other")

StageFails(kind) ==
  /\ step = "stage"
  /\ DropInner
  /\ UNCHANGED <<given, chain, manifest, told, staged>>
  /\ \E records \in 0 .. Read :
       /\ spent' = records * BytesPerRecord(shape)
       /\ \E error \in Shared(kind) : Fail(StageReturns(error, spent'), kind)

(* A perturbation whose result is not finite.                              *)
StageOverflows ==
  /\ step = "stage" /\ Now.transform = "fuzz" /\ Read > 0
  /\ DropInner
  /\ UNCHANGED <<given, chain, manifest, spent, told, staged>>
  /\ Fail(InStage("fuzz", FuzzError("NonFiniteResult", <<>>)), "other")

(* A destructor inside the stage panics; the unwinding drops what `?` would. *)
StagePanics ==
  /\ step = "stage"
  /\ DropInner
  /\ cause' = Panic /\ met' = "panic"
  /\ step' = "unwind"
  /\ UNCHANGED <<given, chain, manifest, spent, told, staged>>

-----------------------------------------------------------------------------
(* The corpus of the last stage, the manifest of the chain, the swap       *)

MoveOut ==
  /\ step = "loop" /\ Position > Len(config.stages)
  /\ S!FinishFile(Run, "corpus")
  /\ Proceed("clear")
  /\ UNCHANGED <<given, chain, scratch, manifest, spent, told>>

(* The stage directories go in the order they were made.                   *)
ClearStages ==
  /\ step = "clear"
  /\ IF scratch = {} THEN step' = "describe" /\ UNCHANGED scratch
                     ELSE scratch' = scratch \ {Min(scratch)} /\ UNCHANGED step
  /\ UNCHANGED <<given, chain, manifest, cause, met, spent, told, staged>>

Describe ==
  /\ step = "describe"
  /\ S!OpenFile(Run, "manifest")
  /\ manifest' = [pipeline       |-> [i \in DOMAIN stages |-> config.stages[i].transform],
                  layout         |-> shape,
                  source_layout  |-> IF shape = request THEN NoLayout ELSE request,
                  source_records |-> source_identity,
                  records        |-> Last(stages).written,
                  bytes          |-> Last(corpora).bytes]
  /\ Proceed("manifest")
  /\ UNCHANGED <<given, chain, scratch, spent, told>>

WriteManifest ==
  /\ step = "manifest"
  /\ S!FinishFile(Run, "manifest")
  /\ Proceed("publish")
  /\ UNCHANGED <<given, chain, scratch, manifest, spent, told>>

(* The move, a removal or the manifest fails.                              *)
AssemblyFails(kind) ==
  /\ \/ step = "loop" /\ Position > Len(config.stages)
     \/ step \in {"clear", "describe", "manifest"}
  /\ UNCHANGED <<given, chain, scratch, manifest, spent, told, staged>>
  /\ Fail(IF step \in {"loop", "clear"} THEN PipelineError("Io", IoError(kind))
          ELSE Helper(TransformError("Manifest", ManifestError("Io", IoError(kind)))), kind)

PublishStep(kind) ==
  /\ step = "publish"
  /\ S!Swap(Run) \/ S!Remove(Run)
  /\ CASE pc'[Run] = "dropping"  -> Fail(Helper(TransformError("Publish", IoError(kind))), kind)
       [] pc'[Run] = "published" -> Proceed("report")
       [] OTHER                  -> Proceed("publish")
  /\ UNCHANGED <<given, chain, scratch, manifest, spent, told>>

-----------------------------------------------------------------------------
(* The way out: the tree is removed with all it holds                      *)

DropScratch ==
  /\ step = "unwind" /\ pc[Run] = "dropping"
  /\ \E entry \in scratch : scratch' = scratch \ {entry}
  /\ UNCHANGED <<step, given, chain, manifest, cause, met, spent, told, staged>>

DropStaging ==
  /\ step = "unwind"
  /\ S!Abandon(Run) \/ S!Remove(Run)
  /\ ~staging'[Run] => scratch = {}
  /\ Proceed(IF pc'[Run] = "failed" THEN "report" ELSE "unwind")
  /\ UNCHANGED <<given, chain, scratch, manifest, spent, told>>

Report ==
  /\ step = "report"
  /\ exit' = CASE cause = NoError -> 0
               [] cause = Panic   -> 101
               [] OTHER           -> CodeFor(cause)
  /\ figure' = ReportedFigure(cause)
  /\ Proceed("ended")
  /\ UNCHANGED <<given, chain, scratch, manifest, spent, staged>>

Killed ==
  /\ step \notin {"ended", "killed"}
  /\ "crash" \in Faults
  /\ IF pc[Run] \in S!Active THEN S!Crash(Run) ELSE UNCHANGED staged
  /\ Proceed("killed")
  /\ UNCHANGED <<given, chain, scratch, manifest, spent, told>>

Next ==
  \/ Validate \/ Resolve \/ Create
  \/ StageRefused \/ BeginStage \/ StagePublishes \/ StageMalformed \/ StageOverflows \/ StagePanics
  \/ MoveOut \/ ClearStages \/ Describe \/ WriteManifest
  \/ DropScratch \/ DropStaging \/ Report \/ Killed
  \/ \E kind \in IoKinds :
       CreateFails(kind) \/ StageFails(kind) \/ AssemblyFails(kind) \/ PublishStep(kind)

Spec == Init /\ [][Next]_vars

-----------------------------------------------------------------------------
(* Properties *)

ErrorTypes ==
  {"io::Error", "CorpusError", "ManifestError", "TransformError", "SampleError", "FuzzError",
   "QuantiseError", "StageError", "PipelineError", "CliError", "panic"}

Variants ==
  {"full", "other", "panic", "Io", "Corpus", "PartialRecord", "Manifest", "Publish",
   "OverlappingCorpora", "StorageFull", "Transform", "InvalidScale", "SourceEncodingMismatch",
   "NonFiniteResult", "Sample", "Fuzz", "Quantise", "Stage", "Pipeline",
   "UnsupportedConfigVersion", "EmptyPipeline"}

Errors == [type : ErrorTypes, variant : Variants, required_bytes : Nat \cup {NoFigure}]

TypeOK ==
  /\ S!TypeOK
  /\ step \in {"validate", "resolve", "create", "loop", "stage", "clear", "describe",
              "manifest", "publish", "unwind", "report", "ended", "killed"}
  /\ config \in Configs /\ source \in Sources /\ request \in Requests
  /\ shape \in Layouts
  /\ corpora \in Seq(Corpus)
  /\ stages \in Seq([read : Nat, written : Nat]) /\ Len(stages) = Len(corpora)
  /\ source_identity \in Nat \cup {-1}
  /\ scratch \subseteq 0 .. Len(config.stages)
  /\ cause \in Seq(Errors) /\ (cause = NoError <=> met = "none")
  /\ met \in IoKinds \cup {"none", "panic"}
  /\ figure \in Nat \cup {NoFigure} /\ spent \in Nat
  /\ exit \in {-1, 0, 1, 28, 101}

Published == pc[Run] \in {"cleanup", "published"}

Quantises == \E i \in DOMAIN config.stages : config.stages[i].transform = "quantise"

(* Every stage after the first reads what the one before it published, in  *)
(* the layout its manifest declares - the values have no other, unless the *)
(* first stage misread the source - and as many records as were written.   *)
ShapeIsThreaded ==
  /\ corpora # <<>> => /\ shape = Current.declared
                       /\ Current.layout \in {shape, NoLayout}
                       /\ request = source.layout => Current.layout = shape
  /\ \A i \in 2 .. Len(stages) : stages[i].read = stages[i - 1].written

(* What is published is the corpus of the whole configured chain, alone in *)
(* its directory: the manifest names every stage, the records of the       *)
(* source and not of an intermediate corpus, the published layout, and the *)
(* source's where the chain changed it.                                    *)
PublishedIsTheChain ==
  Published =>
    /\ scratch = {}
    /\ manifest.pipeline = [i \in DOMAIN config.stages |-> config.stages[i].transform]
    /\ manifest.source_records * BytesPerRecord(request) = source.bytes
    /\ manifest.records * BytesPerRecord(manifest.layout) = manifest.bytes
    /\ manifest.layout.encoding = IF Quantises THEN "bfloat16" ELSE request.encoding
    /\ manifest.source_layout # NoLayout <=> Quantises /\ request.encoding = "float32"

(* docs/pipelines.md: "A stage that fails aborts the run: nothing is       *)
(* published, no scratch is left behind, and the previously published      *)
(* corpus is left exactly as it was" - after a panic as well.              *)
FailureLeavesNothing ==
  exit > 0 => /\ latest # Run /\ destination = latest
              /\ ~staging[Run] /\ scratch = {} /\ aside[Run] = NoDir

(* A corpus a stage has just published is refused by the next one exactly  *)
(* where the request alone says so: by a quantise that finds values already *)
(* stored as bfloat16, because the caller reads them so or another stage   *)
(* before it is one.  docs/pipelines.md:72-73 has such a pipeline "fail    *)
(* immediately rather than part way through"; the code validates no chain  *)
(* of encodings and fails here.                                            *)
PartWayIsForeseeable ==
  step = "loop" /\ corpora # <<>> /\ Position <= Len(config.stages) =>
    (Refused <=>
       /\ Now.transform = "quantise"
       /\ \/ request.encoding = "bfloat16"
          \/ \E i \in 1 .. Position - 1 : config.stages[i].transform = "quantise")

(* A declaration is honoured: read as the command line reads, a source that *)
(* carries a manifest is never published as other values than it holds by  *)
(* a chain that starts with fuzz or quantise.  And of what a stage declares *)
(* of its own output nothing is refused that the request did not tell.     *)
DeclaredIsHonoured ==
  /\ /\ Published /\ source.declared # NoLayout
     /\ request.encoding = "float32" /\ config.stages[1].transform # "sample"
     => Last(corpora).layout # NoLayout
  /\ PartWayIsForeseeable

(* Exit 28 invites a retry: it is given when a full volume stopped the run, *)
(* wherever in the chain and under whatever error types, and only then.    *)
RetryIsJustified == exit >= 0 => (exit = 28 <=> met = "full")

(* A figure is printed only beside exit 28, where a sampler gave one, and  *)
(* asks for no less than its stage had already written.                    *)
FigureIsEarned ==
  figure # NoFigure => exit = 28 /\ Now.transform = "sample" /\ figure >= spent

=============================================================================
