--------------------------- MODULE PipelineProofs ---------------------------
(***************************************************************************)
(* A chain of transforms is a run of the staged publication, so what is    *)
(* proved of that holds of it.  Beyond it, for every configuration, source *)
(* and choice of faults: what the errors of a chain tell, how the layout   *)
(* and the records are handed from stage to stage, and what is published   *)
(* or left behind at its end.                                              *)
(***************************************************************************)
EXTENDS Pipeline, WellFoundedInduction, TLAPS

SP == INSTANCE StagedCorpusProofs WITH Runs <- {Run}, Serial <- TRUE

-----------------------------------------------------------------------------
(* The chain as a run of staging.rs.                                       *)

(* A step of the chain is a step of its publication, or leaves it alone.   *)
LEMMA StagingStep ==
  ASSUME [Next]_vars
  PROVE  [S!Next]_(S!vars)
<1>1. ASSUME UNCHANGED staged PROVE [S!Next]_(S!vars)
  BY <1>1 DEF staged, S!vars
<1>2. ASSUME \/ S!Start(Run) \/ S!Build(Run) \/ S!Swap(Run) \/ S!Remove(Run)
             \/ S!Crash(Run)
      PROVE  S!Next
  BY <1>2 DEF S!Next, S!Progress
<1>3. "corpus" \in S!FileNames /\ "manifest" \in S!FileNames
  BY DEF S!FileNames
<1>4. CASE Create \/ \E kind \in IoKinds : CreateFails(kind)
  BY <1>2, <1>4 DEF Create, CreateFails, S!Start
<1>5. CASE BeginStage
  <2>1. S!OpenFile(Run, "corpus") \/ UNCHANGED staged
    BY <1>5 DEF BeginStage
  <2> QED
    BY <1>1, <1>2, <1>3, <2>1 DEF S!Build
<1>6. CASE MoveOut \/ Describe \/ WriteManifest
  BY <1>2, <1>3, <1>6 DEF MoveOut, Describe, WriteManifest, S!Build
<1>7. CASE DropStaging \/ \E kind \in IoKinds : PublishStep(kind)
  BY <1>2, <1>7 DEF DropStaging, PublishStep, S!Build
<1>8. CASE Killed
  BY <1>1, <1>2, <1>8 DEF Killed
<1>9. CASE \/ Validate \/ Resolve \/ ClearStages \/ DropScratch \/ Report
           \/ \E kind \in IoKinds : AssemblyFails(kind)
  BY <1>1, <1>9 DEF Validate, Resolve, ClearStages, DropScratch, Report, AssemblyFails
<1>10. CASE \/ StageRefused \/ StagePublishes \/ StageMalformed \/ StageOverflows \/ StagePanics
            \/ \E kind \in IoKinds : StageFails(kind)
  BY <1>1, <1>10 DEF StageRefused, StagePublishes, StageMalformed, StageOverflows, StagePanics,
     StageFails
<1>11. CASE UNCHANGED vars
  BY <1>1, <1>11 DEF vars
<1> QED
  BY <1>4, <1>5, <1>6, <1>7, <1>8, <1>9, <1>10, <1>11 DEF Next

(* A chain of transforms is one run of staging.rs: whatever its stages do, *)
(* a reader sees one publication.                                          *)
THEOREM ImplementsStaging == Spec => S!Spec
<1>1. Init => S!Init
  BY DEF Init
<1>2. [Next]_vars => [S!Next]_(S!vars)
  BY StagingStep
<1> QED
  BY <1>1, <1>2, PTL DEF Spec, S!Spec

(* The names the proofs of StagedCorpus go by are those of S.              *)
LEMMA SameStaging == (S!Init <=> SP!Init) /\ (S!Next <=> SP!Next) /\ S!vars = SP!vars
<1> USE DEF S!Goto, SP!Goto
<1>1. S!vars = SP!vars
  BY DEF S!vars, SP!vars
<1>2. S!Init <=> SP!Init
  BY DEF S!Init, SP!Init, S!Directories, SP!Directories, S!Empty, SP!Empty,
     S!FileNames, SP!FileNames
<1>3. ASSUME NEW r PROVE S!Start(r) <=> SP!Start(r)
  BY DEF S!Start, SP!Start, S!Create, SP!Create, S!CreateFails, SP!CreateFails,
     S!Active, SP!Active
<1>4. ASSUME NEW r PROVE S!Crash(r) <=> SP!Crash(r)
  BY DEF S!Crash, SP!Crash, S!Active, SP!Active
<1>5. ASSUME NEW r PROVE S!Build(r) <=> SP!Build(r)
  BY DEF S!Build, SP!Build, S!Abandon, SP!Abandon, S!OpenFile, SP!OpenFile,
     S!FinishFile, SP!FinishFile, S!FileNames, SP!FileNames
<1>6. ASSUME NEW r PROVE S!Swap(r) <=> SP!Swap(r)
  BY DEF S!Swap, SP!Swap, S!SetAside, SP!SetAside, S!NothingToSetAside,
     SP!NothingToSetAside, S!SetAsideFails, SP!SetAsideFails, S!Publish, SP!Publish,
     S!PublishFails, SP!PublishFails, S!Rollback, SP!Rollback, S!RollbackFails,
     SP!RollbackFails, S!Vacant, SP!Vacant, S!Install, SP!Install, S!Empty, SP!Empty,
     S!FileNames, SP!FileNames
<1>7. ASSUME NEW r PROVE S!Remove(r) <=> SP!Remove(r)
  BY DEF S!Remove, SP!Remove, S!RemoveFile, SP!RemoveFile, S!RemoveDirectory,
     SP!RemoveDirectory, S!RemoveFails, SP!RemoveFails, S!Doomed, SP!Doomed,
     S!Outcome, SP!Outcome, S!Removing, SP!Removing, S!Empty, SP!Empty,
     S!FileNames, SP!FileNames
<1> QED
  BY <1>1, <1>2, <1>3, <1>4, <1>5, <1>6, <1>7
     DEF S!Next, SP!Next, S!Progress, SP!Progress

(* What the proofs of StagedCorpus say holds of a run.                     *)
LEMMA IsStagingRun == Spec => SP!Spec
<1>1. S!Init => SP!Init
  BY SameStaging
<1>2. [S!Next]_(S!vars) => [SP!Next]_(SP!vars)
  BY SameStaging DEF S!vars, SP!vars
<1> QED
  BY <1>1, <1>2, ImplementsStaging, PTL DEF S!Spec, SP!Spec

LEMMA StagingAssumptions ==
  /\ SP!PreviousAssumption /\ SP!NoDirAssumption
  /\ SP!SerialAssumption /\ SP!FaultsAssumption
BY StagingAssumption
   DEF S!PreviousAssumption, SP!PreviousAssumption, S!NoDirAssumption, SP!NoDirAssumption,
       SP!SerialAssumption, S!FaultsAssumption, SP!FaultsAssumption, S!Contents, SP!Contents,
       S!Directories, SP!Directories, S!FaultKinds, SP!FaultKinds, S!FileNames, SP!FileNames,
       S!FileStates, SP!FileStates

(* A reader of the destination finds a complete corpus, and the corpus it  *)
(* last saw survives, whatever the run meets.                              *)
THEOREM ReadersAreSafe == Spec => [](S!LiveIsWhole /\ S!LatestSurvives)
<1>1. SP!Spec => []SP!LiveIsWhole
  BY StagingAssumptions, SP!ReadersSeeWhole
<1>2. SP!Spec => []SP!LatestSurvives
  BY StagingAssumptions, SP!NothingLost
<1>3. SP!LiveIsWhole /\ SP!LatestSurvives => S!LiveIsWhole /\ S!LatestSurvives
  BY DEF SP!LiveIsWhole, S!LiveIsWhole, SP!LatestSurvives, S!LatestSurvives, SP!Complete,
     S!Complete, SP!Whole, S!Whole, SP!FileNames, S!FileNames
<1> QED
  BY <1>1, <1>2, <1>3, IsStagingRun, PTL

-----------------------------------------------------------------------------
(* What the errors of a chain tell.                                        *)

(* The variants in which the error of a shared helper comes.               *)
Carried == {"Corpus", "Manifest", "Publish", "Io"}

(* The figures an error carries, whatever wraps them.                      *)
Figures(error) == {error[i].required_bytes : i \in DOMAIN error} \ {NoFigure}

(* An error that tells of a full volume exactly when kind is one, and of   *)
(* figures at least as large as what had been written.                     *)
Tells(error, kind, figures) ==
  /\ error \in Seq(Errors) /\ error # <<>>
  /\ IsStorageFull(error) <=> kind = "full"
  /\ Figures(error) \subseteq figures

(* Wrap puts one link in front, and drops the cause where source() does    *)
(* not answer for the variant.                                             *)
LEMMA Wrapped ==
  ASSUME NEW type \in ErrorTypes, NEW variant \in Variants, NEW carries, NEW cause_ \in Seq(Errors),
         NEW error, error = Wrap(type, variant, carries, cause_)
  PROVE  /\ error \in Seq(Errors) /\ error # <<>>
         /\ Head(error) = Link(type, variant)
         /\ variant \in carries =>
              /\ Tail(error) = cause_
              /\ DOMAIN error = 1 .. Len(cause_) + 1
              /\ \A i \in 1 .. Len(cause_) : error[i + 1] = cause_[i]
         /\ variant \notin carries => DOMAIN error = {1}
         /\ error[1] = Link(type, variant)
<1>1. Link(type, variant) \in Errors
  BY DEF Link, Errors
<1>2. CASE variant \in carries
  <2>1. error = <<Link(type, variant)>> \o cause_
    BY <1>2 DEF Wrap
  <2> QED
    BY <1>1, <1>2, <2>1
<1>3. CASE variant \notin carries
  <2>1. error = <<Link(type, variant)>> \o <<>>
    BY <1>3 DEF Wrap
  <2>2. error = <<Link(type, variant)>>
    BY <1>1, <2>1
  <2> QED
    BY <1>1, <1>3, <2>2
<1> QED
  BY <1>2, <1>3

(* A wrapped error tells what its cause tells; with the cause dropped it   *)
(* tells of no full volume and of no figure.                               *)
LEMMA WrapTells ==
  ASSUME NEW type \in ErrorTypes \ {"io::Error"}, NEW variant \in Variants, NEW carries,
         NEW cause_ \in Seq(Errors), NEW kind, NEW figures
  PROVE  /\ variant \in carries /\ Tells(cause_, kind, figures)
              => Tells(Wrap(type, variant, carries, cause_), kind, figures)
         /\ variant \notin carries
              => Tells(Wrap(type, variant, carries, cause_), "other", figures)
<1> DEFINE error == Wrap(type, variant, carries, cause_)
<1> HIDE DEF error
<1>1. /\ error \in Seq(Errors) /\ error # <<>> /\ error[1] = Link(type, variant)
      /\ variant \in carries =>
              /\ DOMAIN error = 1 .. Len(cause_) + 1
              /\ \A i \in 1 .. Len(cause_) : error[i + 1] = cause_[i]
      /\ variant \notin carries => DOMAIN error = {1}
  BY Wrapped DEF error
<1>2. error[1].type # "io::Error" /\ error[1].required_bytes = NoFigure
  BY <1>1 DEF Link
<1>3. ASSUME variant \in carries, Tells(cause_, kind, figures) PROVE Tells(error, kind, figures)
  <2>1. ASSUME NEW i \in DOMAIN error, i # 1
        PROVE  i - 1 \in DOMAIN cause_ /\ error[i] = cause_[i - 1]
    <3>1. i \in 1 .. Len(cause_) + 1 /\ Len(cause_) \in Nat
      BY <1>1, <1>3
    <3>2. i - 1 \in 1 .. Len(cause_) /\ (i - 1) + 1 = i
      BY <2>1, <3>1
    <3> QED
      BY <1>1, <1>3, <3>2
  <2>2. ASSUME NEW i \in DOMAIN cause_
        PROVE  i + 1 \in DOMAIN error /\ error[i + 1] = cause_[i]
    <3>1. i \in 1 .. Len(cause_) /\ Len(cause_) \in Nat
      OBVIOUS
    <3> QED
      BY <1>1, <1>3, <3>1
  <2>3. IsStorageFull(error) <=> IsStorageFull(cause_)
    BY <1>2, <2>1, <2>2 DEF IsStorageFull
  <2>4. Figures(error) \subseteq Figures(cause_)
    BY <1>2, <2>1 DEF Figures
  <2> QED
    BY <1>1, <1>3, <2>3, <2>4 DEF Tells
<1>4. ASSUME variant \notin carries PROVE Tells(error, "other", figures)
  BY <1>1, <1>2, <1>4 DEF Tells, IsStorageFull, Figures
<1> QED
  BY <1>3, <1>4 DEF error

(* The names the constructors of ErrorChain use.                           *)
LEMMA Names ==
  /\ {"CorpusError", "ManifestError", "TransformError", "SampleError", "FuzzError",
      "QuantiseError", "StageError", "PipelineError", "CliError"} \subseteq ErrorTypes \ {"io::Error"}
  /\ Carried \subseteq Variants
  /\ {"Transform", "Sample", "Fuzz", "Quantise", "Stage", "Pipeline"} \subseteq Variants
BY DEF ErrorTypes, Variants, Carried

(* An error whose variant answers source() tells what its cause tells.     *)
LEMMA Carries ==
  ASSUME NEW kind, NEW figures, NEW cause_, Tells(cause_, kind, figures)
  PROVE  /\ \A v \in Carried : /\ Tells(TransformError(v, cause_), kind, figures)
                               /\ Tells(SampleError(v, cause_), kind, figures)
         /\ Tells(CorpusError("Io", cause_), kind, figures)
         /\ Tells(ManifestError("Io", cause_), kind, figures)
         /\ Tells(FuzzError("Transform", cause_), kind, figures)
         /\ Tells(QuantiseError("Transform", cause_), kind, figures)
         /\ \A v \in {"Sample", "Fuzz", "Quantise"} : Tells(StageError(v, cause_), kind, figures)
         /\ \A v \in {"Stage", "Transform", "Io"} : Tells(PipelineError(v, cause_), kind, figures)
         /\ Tells(CliError("Pipeline", cause_), kind, figures)
<1>1. cause_ \in Seq(Errors)
  BY DEF Tells
<1>2. ASSUME NEW type \in ErrorTypes \ {"io::Error"}, NEW variant \in Variants, NEW carries,
             variant \in carries
      PROVE  Tells(Wrap(type, variant, carries, cause_), kind, figures)
  BY <1>1, <1>2, WrapTells
<1>3. "Io" \in Carried /\ Carried \subseteq {"Corpus", "Manifest", "Publish", "Io", "StorageFull"}
  BY DEF Carried
<1> QED
  BY <1>2, <1>3, Names DEF TransformError, SampleError, CorpusError, ManifestError, FuzzError,
     QuantiseError, StageError, PipelineError, CliError, Carried

(* The io::Error at the root.                                              *)
LEMMA IoTells ==
  ASSUME NEW kind \in IoKinds, NEW figures PROVE Tells(IoError(kind), kind, figures)
<1>1. IoError(kind) \in Seq(Errors) /\ IoError(kind) # <<>> /\ DOMAIN IoError(kind) = {1}
  BY DEF IoError, Link, Errors, ErrorTypes, Variants, IoKinds
<1>2. IoError(kind)[1] = Link("io::Error", kind)
  BY DEF IoError
<1> QED
  BY <1>1, <1>2 DEF Tells, IsStorageFull, Figures, Link

(* What a stage returns for a shared helper's error tells what the helper  *)
(* met; a sampler adds its figure, where that was a full volume.           *)
LEMMA StageTells ==
  ASSUME NEW transform \in Transforms, NEW variant \in Carried, NEW kind \in IoKinds,
         NEW cause_, Tells(cause_, kind, {}), NEW bytes \in Nat
  PROVE  Tells(InStage(transform, Returned(transform, TransformError(variant, cause_), bytes)),
               kind, IF transform = "sample" /\ kind = "full" THEN {bytes} ELSE {})
<1> DEFINE error == TransformError(variant, cause_)
           result == Returned(transform, error, bytes)
           figures == IF transform = "sample" /\ kind = "full" THEN {bytes} ELSE {}
<1>1. cause_ \in Seq(Errors) /\ variant \in Variants
  BY DEF Tells, Carried, Variants
<1>2. Tells(error, kind, {}) /\ Head(error).variant = variant /\ Tail(error) = cause_
  <2>1. Tells(error, kind, {})
    BY Carries
  <2>2. variant \in {"Corpus", "Manifest", "Publish", "Io"} /\ variant \in Variants
    BY Names DEF Carried
  <2>3. Head(error) = Link("TransformError", variant) /\ Tail(error) = cause_
    BY <1>1, <2>2, Names, Wrapped DEF TransformError
  <2> QED
    BY <2>1, <2>3 DEF Link
<1>3. Tells(result, kind, figures)
  <2>1. CASE transform = "sample"
    <3> DEFINE restated == SampleError(variant, cause_)
               first    == [Link("SampleError", "StorageFull") EXCEPT !.required_bytes = bytes]
    <3>1. Restated(error) = restated
      BY <1>2 DEF Restated
    <3>2. /\ Tells(restated, kind, {}) /\ Head(restated) = Link("SampleError", variant)
      <4>1. Tells(restated, kind, {})
        BY Carries
      <4>2. variant \in Variants
        BY Names
      <4> QED
        BY <1>1, <4>1, <4>2, Names, Wrapped DEF SampleError
    <3>3. result = WithRequiredBytes(restated, bytes)
      BY <2>1, <3>1 DEF Returned
    <3>4. first = [type |-> "SampleError", variant |-> "StorageFull", required_bytes |-> bytes]
      BY DEF Link
    <3> HIDE DEF restated, first
    <3>5. RequiredBytes(<<Head(restated)>>) = NoFigure
      BY <3>2 DEF RequiredBytes, Link
    <3>6. result = IF IsStorageFull(restated) THEN <<first>> \o restated ELSE restated
      BY <3>3, <3>5 DEF WithRequiredBytes, first
    <3>7. ASSUME kind = "full" PROVE Tells(<<first>> \o restated, kind, {bytes})
      <4> DEFINE whole == <<first>> \o restated
      <4>1. first \in Errors
        BY <3>4 DEF Errors, ErrorTypes, Variants
      <4>2. restated \in Seq(Errors) /\ IsStorageFull(restated) /\ Figures(restated) = {}
        BY <3>2, <3>7 DEF Tells
      <4>3. /\ whole \in Seq(Errors) /\ whole # <<>> /\ Len(whole) = Len(restated) + 1
            /\ whole[1] = first /\ \A i \in 1 .. Len(restated) : whole[i + 1] = restated[i]
        BY <4>1, <4>2
      <4> HIDE DEF whole
      <4>4. ASSUME NEW i \in DOMAIN restated
            PROVE  i + 1 \in DOMAIN whole /\ whole[i + 1] = restated[i]
        BY <4>2, <4>3
      <4>5. IsStorageFull(whole)
        BY <4>2, <4>4 DEF IsStorageFull
      <4>6. ASSUME NEW i \in DOMAIN whole
            PROVE  whole[i].required_bytes \in {NoFigure, bytes}
        <5>1. CASE i = 1
          BY <3>4, <4>3, <5>1
        <5>2. CASE i # 1
          <6>1. i \in 1 .. Len(restated) + 1 /\ Len(restated) \in Nat
            BY <4>2, <4>3
          <6>2. i - 1 \in 1 .. Len(restated) /\ (i - 1) + 1 = i
            BY <5>2, <6>1
          <6>3. i - 1 \in DOMAIN restated /\ whole[i] = restated[i - 1]
            BY <4>2, <4>3, <6>2
          <6> QED
            BY <4>2, <6>3 DEF Figures
        <5> QED
          BY <5>1, <5>2
      <4>7. Figures(whole) \subseteq {bytes}
        BY <4>6 DEF Figures
      <4> QED
        BY <3>7, <4>3, <4>5, <4>7 DEF Tells, whole
    <3>8. kind = "full" <=> IsStorageFull(restated)
      BY <3>2 DEF Tells
    <3> QED
      BY <2>1, <3>2, <3>6, <3>7, <3>8
  <2>2. CASE transform = "fuzz"
    BY <1>2, <2>2, Carries DEF Returned
  <2>3. CASE transform = "quantise"
    BY <1>2, <2>3, Carries DEF Returned
  <2> QED
    BY <2>1, <2>2, <2>3 DEF Transforms
<1> HIDE DEF result, figures
<1>4. Tells(InStage(transform, result), kind, figures)
  <2>1. PICK name \in {"Sample", "Fuzz", "Quantise"} :
          InStage(transform, result) = PipelineError("Stage", StageError(name, result))
    BY DEF InStage, Transforms
  <2>2. Tells(StageError(name, result), kind, figures)
    BY <1>3, <2>1, Carries
  <2> QED
    BY <2>1, <2>2, Carries
<1> QED
  BY <1>4 DEF result, figures

(* Any set of numbers has a least one.                                     *)
LEMMA Least ==
  ASSUME NEW T \in SUBSET Nat, T # {}
  PROVE  \E n \in T : \A m \in T : n <= m
<1>1. PICK x \in T : \A y \in T : ~ (<<y, x>> \in OpToRel(<, Nat))
  BY NatLessThanWellFounded, WFMin, Zenon
<1>2. \A y \in T : ~(y < x)
  <2> SUFFICES ASSUME NEW y \in T, y < x PROVE FALSE
    OBVIOUS
  <2>1. <<y, x>> \in OpToRel(<, Nat)
    BY Zenon DEF OpToRel
  <2> QED
    BY <1>1, <2>1, Zenon
<1> QED
  BY <1>2

(* The figure reported is one of those the error carries.                  *)
LEMMA ReportedIsCarried ==
  ASSUME NEW error \in Seq(Errors)
  PROVE  RequiredBytes(error) \in Figures(error) \cup {NoFigure}
<1> DEFINE known == {i \in DOMAIN error : error[i].required_bytes # NoFigure}
<1>1. CASE known = {}
  BY <1>1 DEF RequiredBytes
<1>2. CASE known # {}
  <2>1. DOMAIN error \subseteq Nat
    OBVIOUS
  <2>2. \E n \in known : \A m \in known : n <= m
    BY <1>2, <2>1, Least
  <2>3. Min(known) \in known
    BY <2>2 DEF Min
  <2>4. RequiredBytes(error) = error[Min(known)].required_bytes
    BY <1>2 DEF RequiredBytes
  <2> QED
    BY <2>3, <2>4 DEF Figures
<1> QED
  BY <1>1, <1>2

(* The failures the chain finds itself, without a call that fails.         *)
LEMMA FindingTells ==
  ASSUME NEW figures
  PROVE  /\ \A v \in {"UnsupportedConfigVersion", "EmptyPipeline"} :
              Tells(PipelineError(v, <<>>), "other", figures)
         /\ Tells(Helper(TransformError("OverlappingCorpora", <<>>)), "other", figures)
         /\ \A v \in {"InvalidScale", "SourceEncodingMismatch", "NonFiniteResult"},
               transform \in Transforms :
              /\ Tells(InStage(transform, FuzzError(v, <<>>)), "other", figures)
              /\ Tells(InStage(transform, QuantiseError(v, <<>>)), "other", figures)
         /\ Tells(CorpusError("PartialRecord", <<>>), "other", figures)
<1>1. <<>> \in Seq(Errors)
  OBVIOUS
<1>2. ASSUME NEW type \in ErrorTypes \ {"io::Error"}, NEW variant \in Variants, NEW carries,
             variant \notin carries
      PROVE  Tells(Wrap(type, variant, carries, <<>>), "other", figures)
  BY <1>1, <1>2, WrapTells
<1>3. {"UnsupportedConfigVersion", "EmptyPipeline", "OverlappingCorpora", "InvalidScale",
       "SourceEncodingMismatch", "NonFiniteResult", "PartialRecord"} \subseteq Variants
  BY DEF Variants
<1>4. \A v \in {"UnsupportedConfigVersion", "EmptyPipeline"} :
        Tells(PipelineError(v, <<>>), "other", figures)
  BY <1>2, <1>3, Names DEF PipelineError
<1>5. Tells(TransformError("OverlappingCorpora", <<>>), "other", figures)
  BY <1>2, <1>3, Names DEF TransformError
<1>6. Tells(Helper(TransformError("OverlappingCorpora", <<>>)), "other", figures)
  BY <1>5, Carries DEF Helper
<1>7. Tells(CorpusError("PartialRecord", <<>>), "other", figures)
  BY <1>2, <1>3, Names DEF CorpusError
<1>8. ASSUME NEW v \in {"InvalidScale", "SourceEncodingMismatch", "NonFiniteResult"},
             NEW transform \in Transforms,
             NEW error \in {FuzzError(v, <<>>), QuantiseError(v, <<>>)}
      PROVE  Tells(InStage(transform, error), "other", figures)
  <2>1. Tells(FuzzError(v, <<>>), "other", figures)
    BY <1>2, <1>3, Names DEF FuzzError
  <2>2. Tells(QuantiseError(v, <<>>), "other", figures)
    BY <1>2, <1>3, Names DEF QuantiseError
  <2>3. PICK name \in {"Sample", "Fuzz", "Quantise"} :
          InStage(transform, error) = PipelineError("Stage", StageError(name, error))
    BY DEF InStage, Transforms
  <2>4. Tells(error, "other", figures)
    BY <1>8, <2>1, <2>2
  <2>5. Tells(StageError(name, error), "other", figures)
    BY <2>4, Carries
  <2> QED
    BY <2>3, <2>5, Carries
<1> QED
  BY <1>4, <1>6, <1>7, <1>8

-----------------------------------------------------------------------------
(* Where the run is, where its directory is, and whether it has failed.    *)

Before   == {"validate", "resolve", "create"}
Building == {"loop", "stage", "clear", "describe", "manifest"}
UnderWay == Before \cup Building \cup {"publish"}
Swapping == {"publishing", "setAside", "nothingAside", "rollback", "cleanup", "published"}

(* The steps of the run against those of the publication; a run reports    *)
(* success exactly when it has published, and its exit code last of all.   *)
Course ==
  /\ step \in Before => pc[Run] = "idle"
  /\ step \in Building => pc[Run] = "building"
  /\ step = "publish" => pc[Run] \in Swapping \ {"published"}
  /\ step = "unwind" => pc[Run] \in {"building", "dropping"}
  /\ step \in {"report", "ended"} => pc[Run] \in {"idle", "failed", "published"}
  /\ step \in UnderWay => met = "none"
  /\ step = "unwind" => met # "none"
  /\ step \in {"report", "ended"} => (pc[Run] = "published" <=> met = "none")
  /\ exit # -1 => step = "ended"

(* The swap leads to what was published, or to the way out.                *)
LEMMA SwapOutcome ==
  ASSUME DOMAIN pc = {Run}, S!Swap(Run) \/ S!Remove(Run)
  PROVE  /\ pc[Run] \in Swapping \ {"published"} =>
              pc'[Run] \in Swapping \cup {"dropping"}
         /\ pc[Run] = "dropping" => pc'[Run] \in {"dropping", "failed"}
         /\ pc[Run] # "building"
<1>1. CASE S!Swap(Run)
  BY <1>1 DEF S!Swap, S!SetAside, S!NothingToSetAside, S!SetAsideFails, S!Publish,
     S!PublishFails, S!Rollback, S!RollbackFails, S!Goto, Swapping
<1>2. CASE S!Remove(Run)
  BY <1>2 DEF S!Remove, S!RemoveFile, S!RemoveDirectory, S!RemoveFails, S!Removing,
     S!Outcome, S!Goto, Swapping
<1> QED
  BY <1>1, <1>2

(* Every step leaves the run where its directory is.                       *)
LEMMA CourseStep ==
  ASSUME DOMAIN pc = {Run}, Course, [Next]_vars
  PROVE  Course'
<1> USE DEF Course, Before, Building, UnderWay
<1>1. ASSUME UNCHANGED <<pc, exit>>, step \in UnderWay \ {"publish"}, NEW error, NEW kind,
             kind # "none", Fail(error, kind)
      PROVE  Course'
  BY <1>1 DEF Fail
<1>2. "other" # "none" /\ \A kind \in IoKinds : kind # "none"
  BY DEF IoKinds
<1>3. CASE Validate \/ Resolve
  <2>1. UNCHANGED <<pc, exit>> /\ step \in {"validate", "resolve"}
    BY <1>3 DEF Validate, Resolve, staged, told
  <2>2. CASE Proceed("resolve") \/ Proceed("create")
    BY <2>1, <2>2 DEF Proceed
  <2>3. CASE \E error : Fail(error, "other")
    BY <1>1, <1>2, <2>1, <2>3
  <2> QED
    BY <1>3, <2>2, <2>3 DEF Validate, Resolve
<1>4. CASE Create
  BY <1>4 DEF Create, Proceed, S!Create, S!Goto, told
<1>5. CASE \E kind \in IoKinds : CreateFails(kind)
  BY <1>2, <1>5 DEF CreateFails, Fail, S!CreateFails, S!Goto, told
<1>6. CASE StageRefused \/ StageMalformed \/ StageOverflows
  <2>1. UNCHANGED <<pc, exit>> /\ step \in {"loop", "stage"} /\ \E error : Fail(error, "other")
    BY <1>6 DEF StageRefused, StageMalformed, StageOverflows, staged, told
  <2> QED
    BY <1>1, <1>2, <2>1
<1>7. CASE \E kind \in IoKinds : StageFails(kind) \/ AssemblyFails(kind)
  <2>1. PICK kind \in IoKinds : StageFails(kind) \/ AssemblyFails(kind)
    BY <1>7
  <2>2. /\ UNCHANGED <<pc, exit>> /\ step \in UnderWay \ {"publish"}
        /\ \E error : Fail(error, kind)
    <3>1. CASE StageFails(kind)
      BY <3>1 DEF StageFails, staged, told
    <3>2. CASE AssemblyFails(kind)
      BY <3>2 DEF AssemblyFails, staged, told
    <3> QED
      BY <2>1, <3>1, <3>2
  <2> QED
    BY <1>1, <1>2, <2>2
<1>8. CASE StagePanics
  BY <1>8 DEF StagePanics, staged, told
<1>9. CASE BeginStage \/ StagePublishes
  <2>1. /\ step \in {"loop", "stage"} /\ step' \in {"loop", "stage"}
        /\ UNCHANGED <<met, exit>>
    BY <1>9 DEF BeginStage, StagePublishes, Proceed, told
  <2>2. pc' = pc
    BY <1>9 DEF BeginStage, StagePublishes, S!OpenFile, staged
  <2> QED
    BY <2>1, <2>2
<1>10. CASE MoveOut \/ ClearStages \/ Describe
  <2>1. /\ step \in Building /\ step' \in Building
        /\ UNCHANGED <<met, exit>>
    BY <1>10 DEF MoveOut, ClearStages, Describe, Proceed, told
  <2>2. pc'[Run] = "building"
    BY <1>10 DEF MoveOut, ClearStages, Describe, S!FinishFile, S!OpenFile, S!Goto, staged
  <2> QED
    BY <2>1, <2>2
<1>11. CASE WriteManifest
  BY <1>11 DEF WriteManifest, Proceed, S!FinishFile, S!Goto, Swapping, told
<1>12. CASE \E kind \in IoKinds : PublishStep(kind)
  <2>1. PICK kind \in IoKinds : PublishStep(kind)
    BY <1>12
  <2>2. /\ step = "publish" /\ met = "none" /\ kind # "none" /\ exit' = exit
        /\ pc[Run] \in Swapping \ {"published"} /\ pc'[Run] \in Swapping \cup {"dropping"}
    BY <1>2, <2>1, SwapOutcome DEF PublishStep, told
  <2> QED
    BY <2>1, <2>2 DEF PublishStep, Fail, Proceed, Swapping
<1>13. CASE DropScratch
  BY <1>13 DEF DropScratch, staged, told
<1>14. CASE DropStaging
  <2>1. CASE S!Abandon(Run)
    BY <1>14, <2>1 DEF DropStaging, Proceed, S!Abandon, S!Goto, told
  <2>2. CASE S!Remove(Run)
    BY <1>14, <2>2, SwapOutcome DEF DropStaging, Proceed, told
  <2> QED
    BY <1>14, <2>1, <2>2 DEF DropStaging
<1>15. CASE Report
  BY <1>15 DEF Report, Proceed, staged
<1>16. CASE Killed
  BY <1>16 DEF Killed, Proceed, told
<1>17. CASE UNCHANGED vars
  BY <1>17 DEF vars, staged, told
<1> QED
  BY <1>3, <1>4, <1>5, <1>6, <1>7, <1>8, <1>9, <1>10, <1>11, <1>12, <1>13, <1>14, <1>15, <1>16,
     <1>17 DEF Next

-----------------------------------------------------------------------------
(* Types of what the stages hand on.                                       *)

(* Multiplying keeps the order.                                            *)
LEMMA Product ==
  ASSUME NEW a \in Nat, NEW b \in Nat, NEW c \in Nat, a <= b
  PROVE  a * c \in Nat /\ b * c \in Nat /\ a * c <= b * c
OBVIOUS

LEMMA Element ==
  ASSUME NEW X, NEW s \in Seq(X), NEW n \in 1 .. Len(s) PROVE s[n] \in X
OBVIOUS

(* A length is a whole number of records when dividing it says so.         *)
LEMMA WholeRecords ==
  ASSUME NEW b \in Nat, NEW w \in Nat \ {0}
  PROVE  /\ b \div w \in Nat
         /\ b % w = 0 => (b \div w) * w = b
         /\ \A n \in Nat : b = n * w => b \div w = n
<1> DEFINE d == b \div w
           r == b % w
<1>1. d \in Nat /\ r \in 0 .. w - 1 /\ b = (d * w) + r
  OBVIOUS
<1> HIDE DEF d, r
<1>2. d * w \in Nat
  BY <1>1
<1>3. ASSUME NEW n \in Nat, b = n * w PROVE d = n
  <2>1. n * w \in Nat /\ (n + 1) * w = (n * w) + w /\ (d + 1) * w = (d * w) + w
    BY <1>1
  <2>2. n >= d + 1 => (d + 1) * w <= n * w
    BY <1>1, Product
  <2>3. d >= n + 1 => (n + 1) * w <= d * w
    BY <1>1, Product
  <2> QED
    BY <1>1, <1>2, <1>3, <2>1, <2>2, <2>3
<1>4. r = 0 => d * w = b
  BY <1>1, <1>2
<1> QED
  BY <1>1, <1>3, <1>4 DEF d, r

(* What the chain keeps, by type.                                          *)
Typed ==
  /\ config \in Configs /\ source \in Sources /\ request \in Requests
  /\ shape \in Layouts
  /\ corpora \in Seq(Corpus)
  /\ stages \in Seq([read : Nat, written : Nat]) /\ Len(stages) = Len(corpora)
  /\ source_identity \in Nat \cup {-1}
  /\ scratch \subseteq 0 .. Len(config.stages)
  /\ spent \in Nat

(* A run past its validation runs a valid configuration, stage by stage,   *)
(* to its end.                                                             *)
Assembled == step \in {"clear", "describe", "manifest"} \/ pc[Run] \in Swapping

Chained ==
  /\ Len(corpora) <= Len(config.stages)
  /\ step \in UnderWay \ {"validate"} => Valid
  /\ step = "stage" => Len(corpora) < Len(config.stages)
  /\ Assembled => Len(corpora) = Len(config.stages) /\ corpora # <<>>

(* The configuration and the corpus a stage reads are what they seem.      *)
LEMMA Given ==
  ASSUME Typed
  PROVE  /\ config \in [version : Nat, stages : Seq(Stage)]
         /\ source \in Corpus /\ request \in Layouts
         /\ Current \in Corpus
         /\ \A layout \in Layouts : BytesPerRecord(layout) \in Nat \ {0}
         /\ Read \in Nat
<1>1. config \in [version : Nat, stages : Seq(Stage)] /\ source \in Corpus /\ request \in Layouts
  BY ConfigsAssumption, SourcesAssumption, RequestAssumption DEF Typed
<1>2. Current \in Corpus
  <2>1. CASE corpora = <<>>
    BY <1>1, <2>1 DEF Current
  <2>2. CASE corpora # <<>>
    BY <2>2 DEF Current, Last, Typed
  <2> QED
    BY <2>1, <2>2
<1>3. ASSUME NEW layout \in Layouts PROVE BytesPerRecord(layout) \in Nat \ {0}
  <2>1. layout.values \in Nat \ {0} /\ BytesPerValue(layout.encoding) \in {2, 4}
    BY DEF Layouts, BytesPerValue
  <2>2. ASSUME NEW n \in Nat \ {0} PROVE n * 2 \in Nat \ {0} /\ n * 4 \in Nat \ {0}
    OBVIOUS
  <2> QED
    BY <2>1, <2>2 DEF BytesPerRecord
<1>4. Read \in Nat
  BY <1>2, <1>3, WholeRecords DEF Read, Corpus, Typed
<1> QED
  BY <1>1, <1>2, <1>3, <1>4

(* The stage about to run is one of the configuration's.                   *)
LEMMA StageGiven ==
  ASSUME Typed, Len(corpora) < Len(config.stages)
  PROVE  Now \in Stage /\ Position \in DOMAIN config.stages /\ Position \in Nat
<1>1. config.stages \in Seq(Stage) /\ Len(corpora) \in Nat
  BY Given DEF Typed
<1>2. Position \in 1 .. Len(config.stages)
  BY <1>1 DEF Position
<1> QED
  BY <1>1, <1>2 DEF Now

(* Only a stage that publishes changes the chain; the rest add the scratch *)
(* directory of a stage, or remove one.                                    *)
LEMMA ChainedSteps ==
  ASSUME [Next]_vars
  PROVE  /\ UNCHANGED given
         /\ \/ UNCHANGED <<chain, scratch, spent>>
            \/ /\ UNCHANGED <<chain, spent>> /\ scratch' \subseteq scratch
               /\ step \in {"stage", "clear", "unwind"}
            \/ /\ UNCHANGED chain /\ step = "stage" /\ scratch' \subseteq scratch
               /\ \E records \in 0 .. Read : spent' = records * BytesPerRecord(shape)
            \/ BeginStage
            \/ StagePublishes
<1>1. CASE Validate \/ Resolve \/ Create \/ StageRefused \/ MoveOut \/ Describe \/ WriteManifest
  BY <1>1 DEF Validate, Resolve, Create, StageRefused, MoveOut, Describe, WriteManifest
<1>2. CASE DropStaging \/ Report \/ Killed
  BY <1>2 DEF DropStaging, Report, Killed
<1>3. CASE \E kind \in IoKinds : CreateFails(kind) \/ AssemblyFails(kind) \/ PublishStep(kind)
  BY <1>3 DEF CreateFails, AssemblyFails, PublishStep
<1>4. CASE StageMalformed \/ StageOverflows \/ StagePanics \/ ClearStages \/ DropScratch
  BY <1>4 DEF StageMalformed, StageOverflows, StagePanics, ClearStages, DropScratch, DropInner
<1>5. CASE \E kind \in IoKinds : StageFails(kind)
  BY <1>5 DEF StageFails, DropInner
<1>6. CASE BeginStage
  BY <1>6 DEF BeginStage
<1>7. CASE StagePublishes
  BY <1>7 DEF StagePublishes
<1>8. CASE UNCHANGED vars
  BY <1>8 DEF vars
<1> QED
  BY <1>1, <1>2, <1>3, <1>4, <1>5, <1>6, <1>7, <1>8 DEF Next

(* What a stage publishes is a corpus.                                     *)
LEMMA OutputTyped ==
  ASSUME Typed, Len(corpora) < Len(config.stages), NEW records \in Written(Now)
  PROVE  /\ records \in Nat
         /\ TargetShape(Now) \in Layouts
         /\ Output(Now, records) \in Corpus
<1>1. Now \in Stage /\ Read \in Nat /\ shape \in Layouts
  BY Given, StageGiven DEF Typed
<1>2. records \in Nat
  BY <1>1 DEF Written
<1>3. TargetShape(Now) \in Layouts
  BY <1>1 DEF TargetShape, Layouts, Encodings
<1>4. records * BytesPerRecord(TargetShape(Now)) \in Nat
  BY <1>2, <1>3, Given
<1> QED
  BY <1>2, <1>3, <1>4 DEF Output, Corpus

(* Every step keeps the types.                                             *)
LEMMA TypedStep ==
  ASSUME Typed, Chained, [Next]_vars
  PROVE  Typed'
<1>1. UNCHANGED given
  BY ChainedSteps
<1>2. Len(config.stages) \in Nat /\ Len(corpora) \in Nat
  BY Given DEF Typed
<1>3. CASE UNCHANGED <<chain, spent>> /\ scratch' \subseteq scratch
  BY <1>1, <1>3 DEF Typed, given, chain
<1>4. ASSUME UNCHANGED chain, scratch' \subseteq scratch, NEW records \in 0 .. Read,
             spent' = records * BytesPerRecord(shape)
      PROVE  Typed'
  <2>1. Read \in Nat /\ BytesPerRecord(shape) \in Nat
    BY Given DEF Typed
  <2>2. records * BytesPerRecord(shape) \in Nat
    BY <2>1
  <2> QED
    BY <1>1, <1>4, <2>2 DEF Typed, given, chain
<1>5. CASE BeginStage
  BY <1>1, <1>2, <1>5 DEF BeginStage, Inner, Typed, given, chain
<1>6. CASE StagePublishes
  <2>1. Len(corpora) < Len(config.stages)
    BY <1>6 DEF StagePublishes, Chained
  <2>2. PICK records \in Written(Now) :
          /\ corpora' = Append(corpora, Output(Now, records))
          /\ stages' = Append(stages, [read |-> Read, written |-> records])
    BY <1>6 DEF StagePublishes
  <2>3. Read \in Nat /\ records \in Nat /\ TargetShape(Now) \in Layouts
        /\ Output(Now, records) \in Corpus
    BY <2>1, Given, OutputTyped
  <2>4. /\ corpora' \in Seq(Corpus)
        /\ stages' \in Seq([read : Nat, written : Nat]) /\ Len(stages') = Len(corpora')
    BY <2>2, <2>3 DEF Typed
  <2>5. shape' \in Layouts /\ source_identity' \in Nat \cup {-1}
    BY <1>6, <2>3 DEF StagePublishes, NextLayout, Identify, Typed
  <2>6. scratch' \subseteq 0 .. Len(config.stages)
    <3>1. scratch' = (scratch \ {Inner}) \cup {Position}
      BY <1>6 DEF StagePublishes
    <3>2. Position \in 0 .. Len(config.stages)
      BY <1>2, <2>1 DEF Position
    <3> QED
      BY <3>1, <3>2 DEF Typed
  <2> QED
    BY <1>1, <1>6, <2>4, <2>5, <2>6 DEF StagePublishes, Typed, given
<1> QED
  BY <1>3, <1>4, <1>5, <1>6, ChainedSteps

(* Every step keeps to the chain the configuration describes.              *)
LEMMA ChainedStep ==
  ASSUME DOMAIN pc = {Run}, Course, Typed, Chained, [Next]_vars
  PROVE  Chained'
<1> USE DEF UnderWay, Before, Building
<1>1. UNCHANGED given /\ (Valid' <=> Valid)
  BY ChainedSteps DEF Valid, given
<1>2. Len(config.stages) \in Nat /\ Len(corpora) \in Nat
  BY Given DEF Typed
<1>3. ASSUME UNCHANGED corpora, step' \notin UnderWay, pc'[Run] \in Swapping => pc[Run] \in Swapping
      PROVE  Chained'
  BY <1>1, <1>3 DEF Chained, Assembled, given
<1>4. ASSUME NEW error, NEW kind, Fail(error, kind) PROVE step' \notin UnderWay
  BY <1>4 DEF Fail
<1>5. CASE Validate
  <2>1. UNCHANGED corpora /\ pc' = pc
    BY <1>5 DEF Validate, chain, staged
  <2>2. CASE Valid /\ step' = "resolve"
    BY <1>1, <1>5, <2>1, <2>2 DEF Chained, Assembled, given, Course, Validate, Swapping
  <2>3. CASE Fail(Rejection, "other")
    BY <1>3, <1>4, <2>1, <2>3
  <2> QED
    BY <1>5, <2>2, <2>3 DEF Validate, Proceed
<1>6. CASE Resolve
  <2>1. UNCHANGED <<corpora, pc>> /\ step = "resolve"
    BY <1>6 DEF Resolve, chain, staged
  <2>2. CASE Proceed("create")
    BY <1>1, <2>1, <2>2 DEF Chained, Assembled, given, Proceed
  <2>3. CASE \E error : Fail(error, "other")
    BY <1>3, <1>4, <2>1, <2>3
  <2> QED
    BY <1>6, <2>2, <2>3 DEF Resolve
<1>7. CASE Create
  <2>1. UNCHANGED corpora /\ step = "create" /\ step' = "loop" /\ pc'[Run] = "building"
    BY <1>7 DEF Create, Proceed, S!Create, S!Goto, chain
  <2> QED
    BY <1>1, <2>1 DEF Chained, Assembled, given, Swapping
<1>8. CASE \E kind \in IoKinds : CreateFails(kind)
  <2>1. UNCHANGED corpora /\ step' \notin UnderWay /\ pc'[Run] = "failed"
    BY <1>4, <1>8 DEF CreateFails, S!CreateFails, S!Goto, chain
  <2> QED
    BY <1>3, <2>1 DEF Swapping
<1>9. CASE \/ StageRefused \/ StageMalformed \/ StageOverflows
           \/ \E kind \in IoKinds : StageFails(kind) \/ AssemblyFails(kind)
  <2>1. UNCHANGED <<corpora, pc>>
    BY <1>9 DEF StageRefused, StageMalformed, StageOverflows, StageFails, AssemblyFails, chain,
       staged
  <2>2. \E error, kind : Fail(error, kind)
    BY <1>9 DEF StageRefused, StageMalformed, StageOverflows, StageFails, AssemblyFails
  <2> QED
    BY <1>3, <1>4, <2>1, <2>2
<1>10. CASE StagePanics
  BY <1>3, <1>10 DEF StagePanics, chain, staged
<1>11. CASE BeginStage
  <2>1. UNCHANGED corpora /\ pc' = pc /\ step = "loop" /\ step' = "stage"
        /\ Len(corpora) < Len(config.stages)
    BY <1>2, <1>11 DEF BeginStage, Position, Proceed, S!OpenFile, chain, staged
  <2> QED
    BY <1>1, <2>1 DEF Chained, Assembled, given, Course, Swapping
<1>12. CASE StagePublishes
  <2>1. step = "stage" /\ step' = "loop" /\ pc' = pc
    BY <1>12 DEF StagePublishes, Proceed, staged
  <2>2. Len(corpora') = Len(corpora) + 1
    BY <1>12 DEF StagePublishes, Typed
  <2> QED
    BY <1>1, <1>2, <2>1, <2>2 DEF Chained, Assembled, given, Course, Swapping
<1>13. CASE MoveOut
  <2>1. UNCHANGED corpora /\ step = "loop" /\ step' = "clear" /\ Len(corpora) >= Len(config.stages)
    BY <1>2, <1>13 DEF MoveOut, Position, Proceed, chain
  <2>2. config.stages # <<>> /\ config.stages \in Seq(Stage)
    BY <2>1, Given DEF Chained, Valid
  <2>3. corpora # <<>> /\ Len(corpora) = Len(config.stages)
    BY <1>2, <2>1, <2>2 DEF Chained, Typed
  <2> QED
    BY <1>1, <2>1, <2>3 DEF Chained, Assembled, given
<1>14. CASE ClearStages \/ Describe \/ WriteManifest
  <2>1. UNCHANGED corpora /\ step \in {"clear", "describe", "manifest"}
        /\ step' \in {"clear", "describe", "manifest", "publish"}
    BY <1>14 DEF ClearStages, Describe, WriteManifest, Proceed, chain
  <2> QED
    BY <1>1, <2>1 DEF Chained, Assembled, given
<1>15. CASE \E kind \in IoKinds : PublishStep(kind)
  <2>1. UNCHANGED corpora /\ step = "publish" /\ step' \in {"publish", "report", "unwind"}
    BY <1>15 DEF PublishStep, Fail, Proceed, chain
  <2>2. pc[Run] \in Swapping
    BY <2>1 DEF Course
  <2> QED
    BY <1>1, <2>1, <2>2 DEF Chained, Assembled, given
<1>16. CASE DropStaging
  <2>1. UNCHANGED corpora /\ step' \notin UnderWay /\ step = "unwind"
    BY <1>16 DEF DropStaging, Proceed, chain
  <2>2. CASE S!Abandon(Run)
    BY <1>3, <2>1, <2>2 DEF S!Abandon, S!Goto, Swapping
  <2>3. CASE S!Remove(Run)
    BY <1>3, <2>1, <2>3, SwapOutcome DEF Course, Swapping
  <2> QED
    BY <1>16, <2>2, <2>3 DEF DropStaging
<1>17. CASE DropScratch \/ Report
  BY <1>3, <1>17 DEF DropScratch, Report, Proceed, chain, staged
<1>18. CASE Killed
  <2>1. UNCHANGED corpora /\ step' \notin UnderWay
    BY <1>18 DEF Killed, Proceed, chain
  <2>2. pc' = pc \/ pc'[Run] = "crashed"
    BY <1>18 DEF Killed, S!Crash, S!Goto, staged
  <2> QED
    BY <1>3, <2>1, <2>2 DEF Swapping
<1>19. CASE UNCHANGED vars
  BY <1>1, <1>19 DEF vars, Chained, Assembled, given, chain, staged
<1> QED
  BY <1>5, <1>6, <1>7, <1>8, <1>9, <1>10, <1>11, <1>12, <1>13, <1>14, <1>15, <1>16, <1>17, <1>18,
     <1>19 DEF Next

-----------------------------------------------------------------------------
(* What is handed from stage to stage.                                     *)

Quantised(n) == \E i \in 1 .. n : config.stages[i].transform = "quantise"

(* The layout the next stage reads is the one the last corpus declares,    *)
(* and its values have no other unless the source was misread; its length  *)
(* is that of the records written.                                         *)
Threaded ==
  /\ corpora = <<>> => shape = request /\ source_identity = -1
  /\ corpora # <<>> =>
       /\ shape = Current.declared
       /\ Current.layout \in {shape, NoLayout}
       /\ request = source.layout => Current.layout = shape
       /\ Current.bytes = Last(stages).written * BytesPerRecord(shape)
       /\ source_identity * BytesPerRecord(request) = source.bytes
  /\ shape.values = request.values
  /\ shape.encoding = IF Quantised(Len(corpora)) THEN "bfloat16" ELSE request.encoding
  /\ \A i \in 2 .. Len(stages) : stages[i].read = stages[i - 1].written

(* A stage that publishes threads its layout and its records on.           *)
LEMMA ThreadedStep ==
  ASSUME Typed, Chained, Threaded, [Next]_vars
  PROVE  Threaded'
<1>1. UNCHANGED given
  BY ChainedSteps
<1>2. CASE UNCHANGED chain
  BY <1>1, <1>2 DEF Threaded, given, chain, Current, Quantised
<1>3. CASE StagePublishes
  <2> DEFINE n == Len(corpora)
  <2>1. n < Len(config.stages) /\ n \in Nat /\ Position = n + 1 /\ WellFormed
    BY <1>3 DEF StagePublishes, Chained, Typed, Position
  <2>2. PICK records \in Written(Now) :
          /\ corpora' = Append(corpora, Output(Now, records))
          /\ stages' = Append(stages, [read |-> Read, written |-> records])
    BY <1>3 DEF StagePublishes
  <2>3. Read \in Nat /\ records \in Nat /\ TargetShape(Now) \in Layouts
        /\ Output(Now, records) \in Corpus /\ Now \in Stage /\ Current \in Corpus
        /\ shape \in Layouts /\ request \in Layouts
    BY <2>1, Given, OutputTyped, StageGiven DEF Typed
  <2>4. shape' = TargetShape(Now) /\ Identify
    BY <1>3 DEF StagePublishes, NextLayout
  <2>5. /\ Len(corpora') = n + 1 /\ corpora'[n + 1] = Output(Now, records) /\ corpora' # <<>>
        /\ Len(stages') = n + 1 /\ stages'[n + 1] = [read |-> Read, written |-> records]
        /\ \A i \in 1 .. n : stages'[i] = stages[i]
    BY <2>2, <2>3 DEF Typed
  <2>6. Current' = Output(Now, records) /\ Last(stages)'.written = records
    BY <2>5 DEF Current, Last
  <2>7. Read * BytesPerRecord(shape) = Current.bytes
    BY <2>1, <2>3, Given, WholeRecords DEF WellFormed, Read, Corpus
  <2>8. /\ shape' = Current'.declared
        /\ Current'.layout \in {shape', NoLayout}
        /\ Current'.bytes = records * BytesPerRecord(shape')
    BY <2>4, <2>6 DEF Output
  <2>9. (request = source.layout)' => Current'.layout = shape'
    <3>1. request = source.layout => shape = Current.layout
      BY DEF Threaded, Current
    <3> QED
      BY <1>1, <2>4, <2>6, <3>1 DEF Output, given
  <2>10. (source_identity * BytesPerRecord(request) = source.bytes)'
    <3>1. CASE source_identity = -1
      <4>1. corpora = <<>>
        <5>1. corpora # <<>> => source_identity * BytesPerRecord(request) = source.bytes
          BY DEF Threaded
        <5>2. source.bytes \in Nat /\ BytesPerRecord(request) \in Nat \ {0}
          BY <2>3, Given DEF Corpus
        <5>3. \A w \in Nat \ {0} : (-1) * w \notin Nat
          OBVIOUS
        <5> QED
          BY <3>1, <5>1, <5>2, <5>3
      <4>2. Current = source /\ shape = request
        BY <4>1 DEF Current, Threaded
      <4> QED
        BY <1>1, <2>4, <2>7, <3>1, <4>2 DEF Identify, given, BytesPerRecord, BytesPerValue
    <3>2. CASE source_identity # -1
      <4>1. corpora # <<>>
        BY <3>2 DEF Threaded
      <4> QED
        BY <1>1, <2>4, <3>2, <4>1 DEF Identify, Threaded, given, BytesPerRecord, BytesPerValue
    <3> QED
      BY <3>1, <3>2
  <2>11. shape'.values = request.values
    BY <2>3, <2>4 DEF TargetShape, Threaded, Layouts
  <2>12. shape'.encoding = IF Quantised(n + 1) THEN "bfloat16" ELSE request.encoding
    <3>1. Quantised(n + 1) <=> Quantised(n) \/ Now.transform = "quantise"
      BY <2>1 DEF Quantised, Now
    <3>2. Now.transform = "quantise" => shape'.encoding = "bfloat16"
      BY <2>3, <2>4 DEF TargetShape, Layouts
    <3>3. Now.transform # "quantise" => shape'.encoding = shape.encoding
      BY <2>4 DEF TargetShape
    <3> QED
      BY <3>1, <3>2, <3>3 DEF Threaded
  <2>13. ASSUME NEW i \in 2 .. Len(stages') PROVE stages'[i].read = stages'[i - 1].written
    <3>1. CASE i = n + 1
      <4>1. corpora # <<>> /\ stages'[i - 1] = stages[n] /\ Last(stages) = stages[n]
        BY <2>1, <2>5, <3>1 DEF Last, Typed
      <4>2. Current.bytes = stages[n].written * BytesPerRecord(shape)
        BY <4>1 DEF Threaded
      <4>3. stages[n].written \in Nat
        <5>1. n \in 1 .. Len(stages) /\ stages \in Seq([read : Nat, written : Nat])
          BY <2>1, <2>5, <3>1 DEF Typed
        <5>2. stages[n] \in [read : Nat, written : Nat]
          BY <5>1, Element
        <5> QED
          BY <5>2
      <4>4. Read = stages[n].written
        BY <2>3, <4>2, <4>3, Given, WholeRecords DEF Read, Corpus
      <4> QED
        BY <2>5, <3>1, <4>1, <4>4
    <3>2. CASE i # n + 1
      <4>1. i \in 2 .. n /\ i - 1 \in 1 .. n /\ Len(stages) = n
        BY <2>1, <2>5, <3>2 DEF Typed
      <4> QED
        BY <2>5, <4>1 DEF Threaded
    <3> QED
      BY <3>1, <3>2
  <2> QED
    BY <1>1, <2>5, <2>6, <2>8, <2>9, <2>10, <2>11, <2>12, <2>13
       DEF Threaded, Quantised, given, BytesPerRecord, BytesPerValue
<1>4. CASE BeginStage
  BY <1>2, <1>4 DEF BeginStage
<1> QED
  BY <1>2, <1>3, <1>4, ChainedSteps

(* A declared source that a chain starting with fuzz or quantise reads as  *)
(* the command line does is read in its own layout.                        *)
Guarded ==
  /\ source.declared # NoLayout /\ request.encoding = "float32"
  /\ config.stages[1].transform # "sample"

Honoured == step = "stage" \/ corpora # <<>> => (Guarded => request = source.layout)

(* What the manifest of the chain says, once it is written.                *)
Described ==
  /\ manifest.pipeline = [i \in DOMAIN config.stages |-> config.stages[i].transform]
  /\ manifest.layout = shape
  /\ manifest.source_layout = IF shape = request THEN NoLayout ELSE request
  /\ manifest.source_records = source_identity
  /\ manifest.records = Last(stages).written
  /\ manifest.bytes = Last(corpora).bytes

DescribedOnce == step = "manifest" \/ pc[Run] \in Swapping => Described

(* What a stage is begun with decides what the whole chain publishes.      *)
LEMMA HonouredStep ==
  ASSUME \A s \in Sources : s.declared \in {NoLayout, s.layout},
         Typed, Chained, Threaded, Honoured, [Next]_vars
  PROVE  Honoured'
<1>1. UNCHANGED given /\ (Guarded' <=> Guarded)
  BY ChainedSteps DEF Guarded, given
<1>2. CASE BeginStage
  <2>1. UNCHANGED corpora /\ ~Refused /\ Len(corpora) < Len(config.stages)
    <3>1. Len(config.stages) \in Nat /\ Len(corpora) \in Nat
      BY Given DEF Typed
    <3> QED
      BY <1>2, <3>1 DEF BeginStage, chain, Position
  <2>2. CASE corpora # <<>>
    BY <1>1, <2>1, <2>2 DEF Honoured, given
  <2>3. ASSUME corpora = <<>>, Guarded PROVE request = source.layout
    <3>1. /\ Current = source /\ shape = request /\ Position = 1
          /\ source.declared = source.layout /\ Now = config.stages[1]
      BY <2>3 DEF Current, Threaded, Position, Guarded, Typed, Now
    <3>2. Now \in Stage /\ request \in Layouts /\ source.layout \in Layouts
      BY <2>1, <2>3, <3>1, Given, StageGiven DEF Corpus, Guarded
    <3>3. Accepts(Now, request, source.layout)
      BY <2>1, <2>3, <3>1 DEF Refused, Guarded
    <3>4. /\ source.layout.encoding = "float32" /\ request.encoding = "float32"
          /\ BytesPerRecord(source.layout) = BytesPerRecord(request)
      BY <2>3, <3>1, <3>2, <3>3 DEF Accepts, Guarded, Stage, Transforms
    <3>5. source.layout.values = request.values
      BY <3>2, <3>4 DEF BytesPerRecord, BytesPerValue, Layouts
    <3> QED
      BY <3>2, <3>4, <3>5 DEF Layouts
  <2> QED
    BY <1>1, <2>2, <2>3 DEF Honoured, given
<1>3. CASE StagePublishes
  BY <1>1, <1>3 DEF StagePublishes, Honoured, given
<1>4. CASE UNCHANGED chain /\ (step' = "stage" => step = "stage")
  BY <1>1, <1>4 DEF Honoured, chain, given
<1>5. ASSUME NEW error, NEW kind, Fail(error, kind) PROVE step' # "stage"
  BY <1>5 DEF Fail
<1>6. CASE \/ Validate \/ Resolve \/ Create \/ StageRefused \/ StageMalformed \/ StageOverflows
           \/ StagePanics \/ \E kind \in IoKinds : CreateFails(kind) \/ StageFails(kind)
  BY <1>4, <1>5, <1>6 DEF Validate, Resolve, Create, StageRefused, StageMalformed, StageOverflows,
     StagePanics, CreateFails, StageFails, Proceed
<1>7. CASE \/ MoveOut \/ ClearStages \/ Describe \/ WriteManifest
           \/ \E kind \in IoKinds : AssemblyFails(kind) \/ PublishStep(kind)
  BY <1>4, <1>5, <1>7 DEF MoveOut, ClearStages, Describe, WriteManifest, AssemblyFails,
     PublishStep, Proceed
<1>8. CASE DropScratch \/ DropStaging \/ Report \/ Killed
  BY <1>4, <1>8 DEF DropScratch, DropStaging, Report, Killed, Proceed
<1>9. CASE UNCHANGED vars
  BY <1>4, <1>9 DEF vars
<1> QED
  BY <1>2, <1>3, <1>6, <1>7, <1>8, <1>9 DEF Next

(* The swap is entered with the manifest written, and leaves it alone.     *)
LEMMA DescribedStep ==
  ASSUME DOMAIN pc = {Run}, Course, Typed, Chained, DescribedOnce, [Next]_vars
  PROVE  DescribedOnce'
<1>1. UNCHANGED given
  BY ChainedSteps
<1>2. CASE /\ UNCHANGED <<chain, manifest>> /\ (step' = "manifest" => step = "manifest")
           /\ pc'[Run] \in Swapping => pc[Run] \in Swapping \/ step = "manifest"
  BY <1>1, <1>2 DEF DescribedOnce, Described, given, chain
<1>3. ASSUME NEW error, NEW kind, Fail(error, kind) PROVE step' # "manifest"
  BY <1>3 DEF Fail
<1>4. CASE Describe
  <2>1. stages \in Seq([read : Nat, written : Nat]) /\ config.stages \in Seq(Stage)
        /\ Len(stages) = Len(config.stages)
    BY <1>4, Given DEF Describe, Chained, Assembled, Typed
  <2>2. DOMAIN stages = DOMAIN config.stages
    BY <2>1
  <2>3. manifest' = [pipeline       |-> [i \in DOMAIN stages |-> config.stages[i].transform],
                     layout         |-> shape,
                     source_layout  |-> IF shape = request THEN NoLayout ELSE request,
                     source_records |-> source_identity,
                     records        |-> Last(stages).written,
                     bytes          |-> Last(corpora).bytes]
    BY <1>4 DEF Describe
  <2>4. UNCHANGED chain
    BY <1>4 DEF Describe
  <2> HIDE <1>4
  <2> QED
    BY <1>1, <2>2, <2>3, <2>4 DEF DescribedOnce, Described, given, chain
<1>5. CASE BeginStage \/ StagePublishes
  <2>1. step' # "manifest" /\ pc' = pc /\ step \in {"loop", "stage"}
    BY <1>5 DEF BeginStage, StagePublishes, Proceed, S!OpenFile, staged
  <2>2. pc[Run] = "building"
    BY <2>1 DEF Course, Building
  <2> QED
    BY <2>1, <2>2 DEF DescribedOnce, Swapping
<1>6. CASE Create \/ \E kind \in IoKinds : CreateFails(kind)
  <2>1. step' # "manifest" /\ pc'[Run] \in {"building", "failed"}
    BY <1>3, <1>6 DEF Create, CreateFails, Proceed, S!Create, S!CreateFails, S!Goto
  <2> QED
    BY <2>1 DEF DescribedOnce, Swapping
<1>7. CASE \/ Validate \/ Resolve \/ StageRefused \/ StageMalformed \/ StageOverflows
           \/ StagePanics \/ \E kind \in IoKinds : StageFails(kind) \/ AssemblyFails(kind)
  <2>1. UNCHANGED <<chain, manifest, pc>>
    BY <1>7 DEF Validate, Resolve, StageRefused, StageMalformed, StageOverflows, StagePanics,
       StageFails, AssemblyFails, staged
  <2>2. step' # "manifest"
    BY <1>3, <1>7 DEF Validate, Resolve, StageRefused, StageMalformed, StageOverflows,
       StagePanics, StageFails, AssemblyFails, Proceed
  <2> QED
    BY <1>2, <2>1, <2>2
<1>8. CASE MoveOut \/ ClearStages \/ DropScratch \/ Report
  <2>1. UNCHANGED <<chain, manifest>> /\ step' # "manifest"
    BY <1>8 DEF MoveOut, ClearStages, DropScratch, Report, Proceed
  <2>2. pc'[Run] = pc[Run]
    BY <1>8 DEF MoveOut, ClearStages, DropScratch, Report, S!FinishFile, S!Goto, staged
  <2> QED
    BY <1>2, <2>1, <2>2
<1>9. CASE WriteManifest
  BY <1>2, <1>9 DEF WriteManifest, Proceed
<1>10. CASE \E kind \in IoKinds : PublishStep(kind)
  <2>1. /\ UNCHANGED <<chain, manifest>> /\ step' # "manifest" /\ step = "publish"
    BY <1>3, <1>10 DEF PublishStep, Proceed
  <2> QED
    BY <1>2, <2>1 DEF Course
<1>11. CASE DropStaging
  <2>1. UNCHANGED <<chain, manifest>> /\ step' # "manifest" /\ step = "unwind"
    BY <1>11 DEF DropStaging, Proceed
  <2>2. pc'[Run] \notin Swapping
    <3>1. CASE S!Abandon(Run)
      BY <3>1 DEF S!Abandon, S!Goto, Swapping
    <3>2. CASE S!Remove(Run)
      BY <2>1, <3>2, SwapOutcome DEF Course, Swapping
    <3> QED
      BY <1>11, <3>1, <3>2 DEF DropStaging
  <2> QED
    BY <1>2, <2>1, <2>2
<1>12. CASE Killed
  <2>1. UNCHANGED <<chain, manifest>> /\ step' # "manifest"
    BY <1>12 DEF Killed, Proceed
  <2>2. pc' = pc \/ pc'[Run] = "crashed"
    BY <1>12 DEF Killed, S!Crash, S!Goto, staged
  <2> QED
    BY <1>2, <2>1, <2>2 DEF Swapping
<1>13. CASE UNCHANGED vars
  BY <1>2, <1>13 DEF vars, staged
<1> QED
  BY <1>4, <1>5, <1>6, <1>7, <1>8, <1>9, <1>10, <1>11, <1>12, <1>13 DEF Next

-----------------------------------------------------------------------------
(* What the caller is told.                                                *)

(* The figures a stage may give: only a sampler gives one, and no less     *)
(* than it had written.                                                    *)
Reach == IF Now.transform = "sample" THEN {n \in Nat : n >= spent} ELSE {}

(* The error tells what stopped the run, and the exit code and the figure  *)
(* are those of the error.                                                 *)
Blame ==
  /\ met \in IoKinds \cup {"none", "panic"}
  /\ met = "none" => cause = NoError
  /\ met = "panic" => cause = Panic
  /\ met \in IoKinds => Tells(cause, met, Reach) /\ cause[1].type = "CliError"
  /\ exit = -1 => figure = NoFigure
  /\ exit # -1 =>
       /\ exit = CASE cause = NoError -> 0 [] cause = Panic -> 101 [] OTHER -> CodeFor(cause)
       /\ figure = ReportedFigure(cause)

(* Figure never asks for less than what was written.                       *)
LEMMA FigureCovers ==
  ASSUME Typed, Len(corpora) < Len(config.stages), NEW written \in Nat
  PROVE  Figure(written) \in Nat /\ Figure(written) >= written
<1> DEFINE kept  == (Read * Now.halves + 1) \div 2
           bytes == kept * BytesPerRecord(shape)
           pass  == bytes + (bytes + 99) \div 100
<1>1. /\ Read \in Nat /\ BytesPerRecord(shape) \in Nat
      /\ Now.halves \in {1, 2}
  BY Given, StageGiven DEF Typed, Stage
<1>2. Read * Now.halves \in Nat
  BY <1>1
<1>3. kept \in Nat
  <2> DEFINE twice == Read * Now.halves
  <2> HIDE DEF twice
  <2>1. twice \in Nat
    BY <1>2 DEF twice
  <2>2. (twice + 1) \div 2 \in Nat
    BY <2>1
  <2> QED
    BY <2>2 DEF twice
<1> HIDE DEF kept
<1>4. bytes \in Nat
  BY <1>1, <1>3
<1> HIDE DEF bytes
<1>5. pass \in Nat
  BY <1>4
<1>6. Figure(written) = Max({pass, written})
  BY DEF Figure, pass, bytes, kept
<1> HIDE DEF pass
<1>7. \E x \in {pass, written} : \A y \in {pass, written} : x >= y
  BY <1>5
<1>8. /\ Max({pass, written}) \in {pass, written}
      /\ \A y \in {pass, written} : Max({pass, written}) >= y
  BY <1>7 DEF Max
<1> QED
  BY <1>5, <1>6, <1>8

(* A shared helper's error, as a stage hands it on.                        *)
LEMMA ReturnsTell ==
  ASSUME Typed, Len(corpora) < Len(config.stages), NEW variant \in Carried, NEW kind \in IoKinds,
         NEW cause_, Tells(cause_, kind, {}), NEW written \in Nat
  PROVE  Tells(StageReturns(TransformError(variant, cause_), written), kind,
               IF Now.transform = "sample" /\ kind = "full" THEN {n \in Nat : n >= written}
                                                             ELSE {})
<1>1. Now.transform \in Transforms
  BY StageGiven DEF Stage
<1>2. Figure(written) \in Nat /\ Figure(written) >= written
  BY FigureCovers
<1>3. Tells(StageReturns(TransformError(variant, cause_), written), kind,
            IF Now.transform = "sample" /\ kind = "full" THEN {Figure(written)} ELSE {})
  BY <1>1, <1>2, StageTells DEF StageReturns
<1> QED
  BY <1>2, <1>3 DEF Tells

(* Where an error that tells is returned, the run is blamed for it.        *)
LEMMA FailBlames ==
  ASSUME Blame, exit = -1, UNCHANGED told, NEW kind \in IoKinds, NEW error,
         Tells(error, kind, Reach'), Fail(error, kind)
  PROVE  Blame'
<1>1. cause' = CliError("Pipeline", error) /\ met' = kind
  BY DEF Fail
<1>2. Tells(cause', kind, Reach')
  BY <1>1, Carries
<1>3. cause'[1].type = "CliError"
  <2>1. error \in Seq(Errors)
    BY DEF Tells
  <2>2. cause'[1] = Link("CliError", "Pipeline")
    BY <1>1, <2>1, Names, Wrapped DEF CliError
  <2> QED
    BY <2>2 DEF Link
<1>4. kind # "none" /\ kind # "panic"
  BY DEF IoKinds
<1> QED
  BY <1>1, <1>2, <1>3, <1>4 DEF Blame, told

(* A step that leaves what went wrong, and what was told, as it was.       *)
LEMMA BlameStays ==
  ASSUME Blame, UNCHANGED <<cause, met, told>>, met # "none" => UNCHANGED <<config, corpora, spent>>
  PROVE  Blame'
<1>1. CASE met = "none"
  BY <1>1 DEF Blame, told, IoKinds
<1>2. CASE met # "none"
  <2>1. Reach' = Reach
    BY <1>2 DEF Reach, Now, Position
  <2> QED
    BY <2>1 DEF Blame, told
<1> QED
  BY <1>1, <1>2

(* Every failure is told for what it was.                                  *)
LEMMA BlameStep ==
  ASSUME Course, Typed, Chained, Blame, [Next]_vars
  PROVE  Blame'
<1> USE DEF UnderWay, Before, Building
<1>0. "other" \in IoKinds /\ Carried = {"Corpus", "Manifest", "Publish", "Io"}
  BY DEF IoKinds, Carried
<1>1. step # "ended" => exit = -1
  BY DEF Course
<1>2. \A kind \in IoKinds : \A figures : Tells(IoError(kind), kind, figures)
  BY IoTells
<1>3. Len(config.stages) \in Nat /\ Len(corpora) \in Nat
  BY Given DEF Typed
<1>4. CASE Validate
  <2>1. UNCHANGED told /\ exit = -1 /\ met = "none"
    BY <1>1, <1>4 DEF Validate, Course
  <2>2. Tells(Rejection, "other", Reach')
    <3>1. "fuzz" \in Transforms
      BY DEF Transforms
    <3> QED
      BY <3>1, FindingTells DEF Rejection
  <2>3. CASE Fail(Rejection, "other")
    BY <1>0, <2>1, <2>2, <2>3, FailBlames
  <2>4. CASE Proceed("resolve")
    BY <2>1, <2>4, BlameStays DEF Proceed
  <2> QED
    BY <1>4, <2>3, <2>4 DEF Validate
<1>5. CASE Resolve
  <2>1. UNCHANGED told /\ exit = -1 /\ met = "none"
    BY <1>1, <1>5 DEF Resolve, Course
  <2>2. Tells(Helper(TransformError("OverlappingCorpora", <<>>)), "other", Reach')
    BY FindingTells
  <2>3. Tells(Helper(TransformError("Io", IoError("other"))), "other", Reach')
    BY <1>0, <1>2, Carries DEF Helper
  <2>4. CASE \E error : Tells(error, "other", Reach') /\ Fail(error, "other")
    BY <1>0, <2>1, <2>4, FailBlames
  <2>5. CASE Proceed("create")
    BY <2>1, <2>5, BlameStays DEF Proceed
  <2> QED
    BY <1>5, <2>2, <2>3, <2>4, <2>5 DEF Resolve
<1>6. CASE \E kind \in IoKinds : CreateFails(kind)
  <2>1. PICK kind \in IoKinds : CreateFails(kind)
    BY <1>6
  <2>2. UNCHANGED told /\ exit = -1
    BY <1>1, <2>1 DEF CreateFails
  <2>3. Tells(Helper(TransformError("Io", IoError(kind))), kind, Reach')
    BY <1>0, <1>2, Carries DEF Helper
  <2> QED
    BY <2>1, <2>2, <2>3, FailBlames DEF CreateFails
<1>7. CASE StageRefused \/ StageOverflows
  <2>1. UNCHANGED told /\ exit = -1 /\ Len(corpora) < Len(config.stages)
    BY <1>1, <1>3, <1>7 DEF StageRefused, StageOverflows, Position, Chained
  <2>2. Now.transform \in Transforms /\ "fuzz" \in Transforms
    BY <2>1, StageGiven DEF Stage, Transforms
  <2>3. PICK error : Fail(error, "other") /\ Tells(error, "other", Reach')
    <3>1. CASE StageRefused
      <4>1. PICK error \in {FuzzError("SourceEncodingMismatch", <<>>),
                            QuantiseError("SourceEncodingMismatch", <<>>)} :
              Fail(InStage(Now.transform, error), "other")
        BY <3>1 DEF StageRefused
      <4> QED
        BY <2>2, <4>1, FindingTells
    <3>2. CASE StageOverflows
      BY <2>2, <3>2, FindingTells DEF StageOverflows
    <3> QED
      BY <1>7, <3>1, <3>2
  <2> QED
    BY <1>0, <2>1, <2>3, FailBlames
<1>8. CASE StageMalformed
  <2>1. UNCHANGED <<told, spent, config, corpora>> /\ exit = -1 /\ Len(corpora) < Len(config.stages)
    BY <1>1, <1>3, <1>8 DEF StageMalformed, Chained, given, chain
  <2> DEFINE error == StageReturns(TransformError("Corpus", CorpusError("PartialRecord", <<>>)), 0)
  <2>2. Tells(CorpusError("PartialRecord", <<>>), "other", {})
    BY FindingTells
  <2>3. Tells(error, "other", Reach')
    BY <1>0, <2>1, <2>2, ReturnsTell DEF Tells
  <2>4. Fail(error, "other")
    BY <1>8 DEF StageMalformed
  <2> QED
    BY <1>0, <2>1, <2>3, <2>4, FailBlames
<1>9. CASE \E kind \in IoKinds : StageFails(kind)
  <2>1. PICK kind \in IoKinds : StageFails(kind)
    BY <1>9
  <2>2. UNCHANGED <<told, config, corpora>> /\ exit = -1 /\ Len(corpora) < Len(config.stages)
    BY <1>1, <2>1 DEF StageFails, Chained, given, chain
  <2>3. PICK records \in 0 .. Read : /\ spent' = records * BytesPerRecord(shape)
                                    /\ \E error \in Shared(kind) :
                                         Fail(StageReturns(error, spent'), kind)
    BY <2>1 DEF StageFails
  <2>4. PICK error \in Shared(kind) : Fail(StageReturns(error, spent'), kind)
    BY <2>3
  <2>5. spent' \in Nat
    <3>1. Read \in Nat /\ BytesPerRecord(shape) \in Nat
      BY Given DEF Typed
    <3>2. records * BytesPerRecord(shape) \in Nat
      BY <3>1
    <3> QED
      BY <2>3, <3>2
  <2>6. PICK variant \in Carried : \E cause_ :
          error = TransformError(variant, cause_) /\ Tells(cause_, kind, {})
    <3>1. Tells(IoError(kind), kind, {})
      BY <1>2
    <3>2. /\ Tells(CorpusError("Io", IoError(kind)), kind, {})
          /\ Tells(ManifestError("Io", IoError(kind)), kind, {})
      BY <3>1, Carries
    <3> QED
      BY <1>0, <2>4, <3>1, <3>2 DEF Shared
  <2>7. Reach' = IF Now.transform = "sample" THEN {n \in Nat : n >= spent'} ELSE {}
    BY <2>2 DEF Reach, Now, Position
  <2>8. Tells(StageReturns(error, spent'), kind, Reach')
    BY <2>2, <2>5, <2>6, <2>7, ReturnsTell DEF Tells
  <2> QED
    BY <2>2, <2>4, <2>8, FailBlames
<1>10. CASE StagePanics
  <2>1. UNCHANGED told /\ exit = -1 /\ cause' = Panic /\ met' = "panic"
    BY <1>1, <1>10 DEF StagePanics
  <2> QED
    BY <2>1 DEF Blame, told, IoKinds
<1>11. CASE \E kind \in IoKinds : AssemblyFails(kind)
  <2>1. PICK kind \in IoKinds : AssemblyFails(kind)
    BY <1>11
  <2>2. UNCHANGED told /\ exit = -1
    BY <1>1, <2>1 DEF AssemblyFails
  <2>3. Tells(IoError(kind), kind, Reach')
    BY <1>2
  <2>4. /\ Tells(PipelineError("Io", IoError(kind)), kind, Reach')
        /\ Tells(ManifestError("Io", IoError(kind)), kind, Reach')
    BY <2>3, Carries
  <2>5. Tells(TransformError("Manifest", ManifestError("Io", IoError(kind))), kind, Reach')
    BY <1>0, <2>4, Carries
  <2>6. Tells(Helper(TransformError("Manifest", ManifestError("Io", IoError(kind)))), kind, Reach')
    BY <2>5, Carries DEF Helper
  <2>7. \E error : Tells(error, kind, Reach') /\ Fail(error, kind)
    BY <2>1, <2>4, <2>6 DEF AssemblyFails
  <2> QED
    BY <2>2, <2>7, FailBlames
<1>12. CASE \E kind \in IoKinds : PublishStep(kind)
  <2>1. PICK kind \in IoKinds : PublishStep(kind)
    BY <1>12
  <2>2. UNCHANGED told /\ exit = -1 /\ met = "none"
    BY <1>1, <2>1 DEF PublishStep, Course
  <2>3. Tells(TransformError("Publish", IoError(kind)), kind, Reach')
    BY <1>0, <1>2, Carries
  <2>4. Tells(Helper(TransformError("Publish", IoError(kind))), kind, Reach')
    BY <2>3, Carries DEF Helper
  <2>5. CASE Fail(Helper(TransformError("Publish", IoError(kind))), kind)
    BY <2>2, <2>4, <2>5, FailBlames
  <2>6. CASE Proceed("report") \/ Proceed("publish")
    BY <2>2, <2>6, BlameStays DEF Proceed
  <2> QED
    BY <2>1, <2>5, <2>6 DEF PublishStep
<1>13. CASE \/ Create \/ BeginStage \/ StagePublishes \/ MoveOut \/ ClearStages \/ Describe
            \/ WriteManifest
  <2>1. UNCHANGED <<cause, met, told>> /\ step \in UnderWay
    BY <1>13 DEF Create, BeginStage, StagePublishes, MoveOut, ClearStages, Describe, WriteManifest,
       Proceed
  <2> QED
    BY <2>1, BlameStays DEF Course
<1>14. CASE DropScratch \/ DropStaging \/ Killed
  BY <1>14, BlameStays DEF DropScratch, DropStaging, Killed, Proceed, given, chain
<1>15. CASE Report
  <2>1. UNCHANGED <<cause, met, given, chain, spent>> /\ exit' # -1
    <3>1. exit' = CASE cause = NoError -> 0 [] cause = Panic -> 101 [] OTHER -> CodeFor(cause)
      BY <1>15 DEF Report
    <3> QED
      BY <1>15, <3>1 DEF Report, Proceed, CodeFor
  <2>2. Reach' = Reach
    BY <2>1 DEF Reach, Now, Position, given, chain
  <2>3. /\ exit' = CASE cause = NoError -> 0 [] cause = Panic -> 101 [] OTHER -> CodeFor(cause)
        /\ figure' = ReportedFigure(cause)
    BY <1>15 DEF Report
  <2> QED
    BY <2>1, <2>2, <2>3 DEF Blame
<1>16. CASE UNCHANGED vars
  BY <1>16, BlameStays DEF vars, given, chain
<1> QED
  BY <1>4, <1>5, <1>6, <1>7, <1>8, <1>9, <1>10, <1>11, <1>12, <1>13, <1>14, <1>15, <1>16 DEF Next

-----------------------------------------------------------------------------
(* What is left in the staging tree.                                       *)

(* Once the stages' directories are cleared none is made again, and a run  *)
(* that removed its tree removed them with it.                             *)
Swept ==
  /\ step \in Before \cup {"describe", "manifest"} => scratch = {}
  /\ pc[Run] \in Swapping => scratch = {}
  /\ step \in {"report", "ended"} /\ ~staging[Run] => scratch = {}

(* Every step keeps the tree swept from where it was swept.                *)
LEMMA SweptStep ==
  ASSUME DOMAIN pc = {Run}, Course, Swept, [Next]_vars
  PROVE  Swept'
<1> USE DEF Before, Building
<1>1. ASSUME step \in Building, pc' = pc, NEW error, NEW kind, Fail(error, kind)
      PROVE  Swept'
  <2>1. pc'[Run] = "building" /\ step' = "unwind"
    BY <1>1 DEF Fail, Course
  <2> QED
    BY <2>1 DEF Swept, Swapping
<1>2. ASSUME step \in Before, pc' = pc, scratch' = scratch PROVE Swept'
  <2>1. scratch = {}
    BY <1>2 DEF Swept
  <2> QED
    BY <1>2, <2>1 DEF Swept
<1>3. CASE Validate \/ Resolve
  BY <1>2, <1>3 DEF Validate, Resolve, staged
<1>4. CASE Create \/ \E kind \in IoKinds : CreateFails(kind)
  BY <1>4 DEF Create, CreateFails, Swept
<1>5. CASE \/ StageRefused \/ StageMalformed \/ StageOverflows
           \/ \E kind \in IoKinds : StageFails(kind) \/ AssemblyFails(kind)
  <2>1. step \in Building /\ pc' = pc
    BY <1>5 DEF StageRefused, StageMalformed, StageOverflows, StageFails, AssemblyFails, staged
  <2>2. \E error, kind : Fail(error, kind)
    BY <1>5 DEF StageRefused, StageMalformed, StageOverflows, StageFails, AssemblyFails
  <2> QED
    BY <1>1, <2>1, <2>2
<1>6. CASE StagePanics \/ BeginStage \/ StagePublishes \/ MoveOut
  <2>1. step \in Building /\ step' \in {"unwind", "stage", "loop", "clear"}
    BY <1>6 DEF StagePanics, BeginStage, StagePublishes, MoveOut, Proceed
  <2>2. pc'[Run] = "building"
    BY <1>6, <2>1 DEF StagePanics, BeginStage, StagePublishes, MoveOut, S!OpenFile, S!FinishFile,
       S!Goto, staged, Course
  <2> QED
    BY <2>1, <2>2 DEF Swept, Swapping
<1>7. CASE ClearStages
  <2>1. pc'[Run] = "building"
    BY <1>7 DEF ClearStages, staged, Course
  <2>2. step' = "clear" \/ (step' = "describe" /\ scratch' = {})
    BY <1>7 DEF ClearStages
  <2> QED
    BY <2>1, <2>2 DEF Swept, Swapping
<1>8. CASE Describe \/ WriteManifest \/ \E kind \in IoKinds : PublishStep(kind)
  <2>1. scratch = {} /\ scratch' = scratch
    BY <1>8 DEF Describe, WriteManifest, PublishStep, Swept, Course
  <2> QED
    BY <2>1 DEF Swept
<1>9. CASE DropScratch
  <2>1. step' = "unwind" /\ pc'[Run] = "dropping"
    BY <1>9 DEF DropScratch, staged
  <2> QED
    BY <2>1 DEF Swept, Swapping
<1>10. CASE DropStaging
  <2>1. pc'[Run] \in {"dropping", "failed"}
    <3>1. CASE S!Abandon(Run)
      BY <3>1 DEF S!Abandon, S!Goto
    <3>2. CASE S!Remove(Run)
      BY <1>10, <3>2, SwapOutcome DEF DropStaging, Course
    <3> QED
      BY <1>10, <3>1, <3>2 DEF DropStaging
  <2> QED
    BY <1>10, <2>1 DEF DropStaging, Proceed, Swept, Swapping
<1>11. CASE Report
  BY <1>11 DEF Report, Proceed, Swept, staged
<1>12. CASE Killed
  <2>1. step' = "killed" /\ scratch' = scratch
    BY <1>12 DEF Killed, Proceed
  <2>2. pc' = pc \/ pc'[Run] = "crashed"
    BY <1>12 DEF Killed, S!Crash, S!Goto, staged
  <2> QED
    BY <2>1, <2>2 DEF Swept, Swapping
<1>13. CASE UNCHANGED vars
  BY <1>13 DEF vars, Swept, staged
<1> QED
  BY <1>3, <1>4, <1>5, <1>6, <1>7, <1>8, <1>9, <1>10, <1>11, <1>12, <1>13 DEF Next

-----------------------------------------------------------------------------
(* The inductive invariant.                                                *)

IInv ==
  /\ DOMAIN pc = {Run}
  /\ Course /\ Typed /\ Chained /\ Threaded /\ DescribedOnce /\ Blame /\ Swept

(* All of it holds in every state of a run.                                *)
LEMMA Inductive == Spec => []IInv
<1>1. SP!Spec => []SP!TypeOK
  BY StagingAssumptions, SP!TypeCorrect
<1>2. SP!TypeOK => DOMAIN pc = {Run}
  BY DEF SP!TypeOK
<1>3. ASSUME Init PROVE IInv
  <2>1. /\ step = "validate" /\ exit = -1 /\ met = "none" /\ cause = NoError /\ figure = NoFigure
        /\ shape = request /\ corpora = <<>> /\ stages = <<>> /\ source_identity = -1
        /\ scratch = {} /\ spent = 0
        /\ config \in Configs /\ source \in Sources /\ request \in Requests
        /\ pc = [r \in {Run} |-> "idle"]
    BY <1>3 DEF Init, S!Init
  <2>2. request \in Layouts /\ config.stages \in Seq(Stage)
    BY <2>1, ConfigsAssumption, RequestAssumption
  <2>3. Len(corpora) = 0 /\ Len(stages) = 0 /\ Len(config.stages) \in Nat
    BY <2>1, <2>2
  <2>4. Typed
    BY <2>1, <2>2, <2>3 DEF Typed
  <2>5. Course /\ Swept /\ Blame
    BY <2>1 DEF Course, Swept, Blame, UnderWay, Before, Building, Swapping, IoKinds
  <2>6. Chained /\ DescribedOnce
    BY <2>1, <2>3 DEF Chained, Assembled, DescribedOnce, Swapping, UnderWay
  <2>7. Threaded
    BY <2>1, <2>3 DEF Threaded, Quantised
  <2> QED
    BY <2>1, <2>4, <2>5, <2>6, <2>7 DEF IInv
<1>4. IInv /\ (DOMAIN pc = {Run})' /\ [Next]_vars => IInv'
  BY CourseStep, TypedStep, ChainedStep, ThreadedStep, DescribedStep, BlameStep, SweptStep DEF IInv
<1> QED
  BY <1>1, <1>2, <1>3, <1>4, IsStagingRun, PTL DEF Spec

KnownStep ==
  step \in {"validate", "resolve", "create", "loop", "stage", "clear", "describe",
           "manifest", "publish", "unwind", "report", "ended", "killed"}

(* Every variable keeps its type, whatever the stages meet.                *)
THEOREM TypeCorrect == Spec => []TypeOK
<1>1. SP!Spec => []SP!TypeOK
  BY StagingAssumptions, SP!TypeCorrect
<1>2. SP!TypeOK => S!TypeOK
  BY DEF SP!TypeOK, S!TypeOK, SP!Active, S!Active, SP!Ended, S!Ended, SP!Directories,
     S!Directories, SP!Contents, S!Contents, SP!FileNames, S!FileNames, SP!FileStates,
     S!FileStates
<1>3. Init => KnownStep
  BY DEF Init, KnownStep
<1>4. KnownStep /\ [Next]_vars => KnownStep'
  <2> SUFFICES ASSUME KnownStep, [Next]_vars PROVE KnownStep'
    OBVIOUS
  <2> USE DEF KnownStep, Proceed, Fail
  <2>1. CASE Validate \/ Resolve \/ Create \/ \E kind \in IoKinds : CreateFails(kind)
    BY <2>1 DEF Validate, Resolve, Create, CreateFails
  <2>2. CASE \/ StageRefused \/ StageMalformed \/ StageOverflows \/ StagePanics
             \/ BeginStage \/ StagePublishes \/ \E kind \in IoKinds : StageFails(kind)
    BY <2>2 DEF StageRefused, StageMalformed, StageOverflows, StagePanics, BeginStage,
       StagePublishes, StageFails
  <2>3. CASE \/ MoveOut \/ ClearStages \/ Describe \/ WriteManifest
             \/ \E kind \in IoKinds : AssemblyFails(kind) \/ PublishStep(kind)
    BY <2>3 DEF MoveOut, ClearStages, Describe, WriteManifest, AssemblyFails, PublishStep
  <2>4. CASE DropScratch \/ DropStaging \/ Report \/ Killed \/ UNCHANGED vars
    BY <2>4 DEF DropScratch, DropStaging, Report, Killed, vars
  <2> QED
    BY <2>1, <2>2, <2>3, <2>4 DEF Next
<1>5. IInv /\ S!TypeOK /\ KnownStep => TypeOK
  <2> SUFFICES ASSUME IInv, S!TypeOK, KnownStep PROVE TypeOK
    OBVIOUS
  <2>1. Typed /\ Blame
    BY DEF IInv
  <2>2. Panic \in Seq(Errors) /\ NoError \in Seq(Errors) /\ Panic # NoError
    BY DEF Panic, NoError, Link, Errors, ErrorTypes, Variants
  <2>3. cause \in Seq(Errors) /\ (cause = NoError <=> met = "none")
    BY <2>1, <2>2 DEF Blame, Tells, NoError, IoKinds
  <2>4. Figures(cause) \subseteq Nat
    <3>1. Figures(NoError) = {} /\ Figures(Panic) = {}
      BY DEF Figures, NoError, Panic, Link
    <3> QED
      BY <2>1, <3>1 DEF Blame, Tells, Reach
  <2>5. figure \in Nat \cup {NoFigure}
    BY <2>1, <2>3, <2>4, ReportedIsCarried DEF Blame, ReportedFigure
  <2>6. exit \in {-1, 0, 1, 28, 101}
    BY <2>1 DEF Blame, CodeFor
  <2> QED
    BY <2>1, <2>3, <2>5, <2>6 DEF TypeOK, Typed, Blame, KnownStep
<1> QED
  BY <1>1, <1>2, <1>3, <1>4, <1>5, Inductive, IsStagingRun, PTL DEF Spec

-----------------------------------------------------------------------------
(* What follows.                                                           *)

(* Every stage reads what the one before it published, in its layout, as   *)
(* many records as were written.                                           *)
THEOREM ShapesThread == Spec => []ShapeIsThreaded
<1>1. IInv => ShapeIsThreaded
  BY DEF IInv, Threaded, ShapeIsThreaded
<1> QED
  BY <1>1, Inductive, PTL

(* Whatever is configured, a stage after the first is refused for what it  *)
(* is given exactly where the request and the stages before it say so.     *)
THEOREM PartWayIsForeseen == Spec => []PartWayIsForeseeable
<1>1. IInv => PartWayIsForeseeable
  <2> SUFFICES ASSUME IInv, step = "loop", corpora # <<>>, Position <= Len(config.stages)
               PROVE  Refused <=>
                        /\ Now.transform = "quantise"
                        /\ \/ request.encoding = "bfloat16"
                           \/ \E i \in 1 .. Position - 1 : config.stages[i].transform = "quantise"
    BY DEF PartWayIsForeseeable
  <2>1. Typed /\ Threaded
    BY DEF IInv
  <2>2. shape = Current.declared /\ shape \in Layouts /\ request \in Layouts
    BY <2>1, Given DEF Threaded, Typed
  <2>3. Len(corpora) \in Nat /\ Len(config.stages) \in Nat
    BY <2>1, Given DEF Typed
  <2>4. Len(corpora) < Len(config.stages) /\ Position - 1 = Len(corpora)
    BY <2>3 DEF Position
  <2>5. Now.transform \in Transforms
    BY <2>1, <2>4, StageGiven DEF Stage
  <2>6. Refused <=> Now.transform = "quantise" /\ shape.encoding # "float32"
    <3>1. Current.declared # NoLayout
      BY <2>2 DEF Layouts, NoLayout
    <3> QED
      BY <2>2, <2>5, <3>1 DEF Refused, Accepts, Transforms
  <2>7. shape.encoding = IF Quantised(Position - 1) THEN "bfloat16" ELSE request.encoding
    BY <2>1, <2>4 DEF Threaded
  <2>8. request.encoding \in {"float32", "bfloat16"}
    BY <2>2 DEF Layouts, Encodings
  <2>9. Quantised(Position - 1) <=>
          \E i \in 1 .. Position - 1 : config.stages[i].transform = "quantise"
    BY DEF Quantised
  <2> QED
    BY <2>6, <2>7, <2>8, <2>9
<1> QED
  BY <1>1, Inductive, PTL

(* Exit 28 is given when a full volume stopped the run, wherever in the    *)
(* chain and under whatever error types, and only then.                    *)
THEOREM RetriesAreJustified == Spec => []RetryIsJustified
<1>1. IInv => RetryIsJustified
  <2> SUFFICES ASSUME IInv, exit >= 0 PROVE exit = 28 <=> met = "full"
    BY DEF RetryIsJustified
  <2>1. exit = CASE cause = NoError -> 0 [] cause = Panic -> 101 [] OTHER -> CodeFor(cause)
    BY DEF IInv, Blame
  <2>2. CASE met \in IoKinds
    <3>1. cause # NoError /\ cause[1].type = "CliError" /\ (IsStorageFull(cause) <=> met = "full")
      BY <2>2 DEF IInv, Blame, Tells, NoError
    <3>2. cause # Panic
      BY <3>1 DEF Panic, Link
    <3> QED
      BY <2>1, <3>1, <3>2 DEF CodeFor
  <2>3. CASE met \in {"none", "panic"}
    BY <2>1, <2>3 DEF IInv, Blame, NoError, Panic
  <2> QED
    BY <2>2, <2>3 DEF IInv, Blame
<1> QED
  BY <1>1, Inductive, PTL

(* A figure is printed only beside exit 28, where a sampler gave one, and  *)
(* asks for no less than its stage had written.                            *)
THEOREM FiguresAreEarned == Spec => []FigureIsEarned
<1>1. IInv => FigureIsEarned
  <2> SUFFICES ASSUME IInv, figure # NoFigure
               PROVE  exit = 28 /\ Now.transform = "sample" /\ figure >= spent
    BY DEF FigureIsEarned
  <2>1. /\ exit = CASE cause = NoError -> 0 [] cause = Panic -> 101 [] OTHER -> CodeFor(cause)
        /\ figure = ReportedFigure(cause)
    BY DEF IInv, Blame
  <2>2. IsStorageFull(cause) /\ figure = RequiredBytes(cause)
    BY <2>1 DEF ReportedFigure, CodeFor
  <2>3. cause # NoError /\ cause # Panic
    BY <2>2 DEF IsStorageFull, NoError, Panic, Link
  <2>4. Tells(cause, met, Reach)
    BY <2>3 DEF IInv, Blame
  <2>5. figure \in Reach
    BY <2>2, <2>4, ReportedIsCarried DEF Tells
  <2> QED
    BY <2>1, <2>2, <2>3, <2>5 DEF Reach, CodeFor
<1> QED
  BY <1>1, Inductive, PTL

(* What is published is the corpus of the whole configured chain, alone in *)
(* its directory, under a manifest that says so.                           *)
THEOREM PublishesTheChain == Spec => []PublishedIsTheChain
<1>1. IInv => PublishedIsTheChain
  <2> SUFFICES ASSUME IInv, Published
               PROVE  /\ scratch = {}
                      /\ manifest.pipeline = [i \in DOMAIN config.stages |-> config.stages[i].transform]
                      /\ manifest.source_records * BytesPerRecord(request) = source.bytes
                      /\ manifest.records * BytesPerRecord(manifest.layout) = manifest.bytes
                      /\ manifest.layout.encoding = IF Quantises THEN "bfloat16" ELSE request.encoding
                      /\ manifest.source_layout # NoLayout <=> Quantises /\ request.encoding = "float32"
    BY DEF PublishedIsTheChain
  <2>1. pc[Run] \in Swapping
    BY DEF Published, Swapping
  <2>2. scratch = {} /\ Described /\ corpora # <<>> /\ Len(corpora) = Len(config.stages)
    BY <2>1 DEF IInv, Swept, DescribedOnce, Chained, Assembled
  <2>3. Threaded /\ Typed /\ Current = Last(corpora)
    BY <2>2 DEF IInv, Current
  <2>4. Quantises <=> Quantised(Len(corpora))
    <3>1. config.stages \in Seq(Stage)
      BY <2>3, Given
    <3> QED
      BY <2>2, <3>1 DEF Quantises, Quantised
  <2>5. shape \in Layouts /\ request \in Layouts
    BY <2>3, Given DEF Typed
  <2>6. /\ shape.encoding = IF Quantises THEN "bfloat16" ELSE request.encoding
        /\ shape.values = request.values
    BY <2>3, <2>4 DEF Threaded
  <2>7. shape = request <=> shape.encoding = request.encoding
    BY <2>5, <2>6 DEF Layouts
  <2>8. request # NoLayout /\ request.encoding \in {"float32", "bfloat16"}
    BY <2>5 DEF Layouts, NoLayout, Encodings
  <2> QED
    BY <2>2, <2>3, <2>6, <2>7, <2>8 DEF Described, Threaded
<1> QED
  BY <1>1, Inductive, PTL

(* Where the manifests of the sources tell the truth, a declared source is *)
(* never published as other values than it holds; what is refused of a     *)
(* stage's own output was to be foreseen.                                  *)
THEOREM DeclarationsAreHonoured ==
  ASSUME \A s \in Sources : s.declared \in {NoLayout, s.layout}
  PROVE  Spec => []DeclaredIsHonoured
<1>1. Init => Honoured
  BY DEF Init, Honoured
<1>2. IInv /\ Honoured /\ [Next]_vars => Honoured'
  BY HonouredStep DEF IInv
<1>3. IInv /\ Honoured /\ PartWayIsForeseeable => DeclaredIsHonoured
  <2> SUFFICES ASSUME IInv, Honoured, PartWayIsForeseeable, Published, Guarded
               PROVE  Last(corpora).layout # NoLayout
    BY DEF DeclaredIsHonoured, Guarded
  <2>1. pc[Run] \in Swapping
    BY DEF Published, Swapping
  <2>2. corpora # <<>> /\ Threaded /\ Typed
    BY <2>1 DEF IInv, Chained, Assembled
  <2>3. request = source.layout /\ Current = Last(corpora)
    BY <2>2 DEF Honoured, Current
  <2>4. Last(corpora).layout = shape /\ shape \in Layouts
    BY <2>2, <2>3 DEF Threaded, Typed
  <2> QED
    BY <2>4 DEF Layouts, NoLayout
<1> QED
  BY <1>1, <1>2, <1>3, Inductive, PartWayIsForeseen, PTL DEF Spec

(* Where no removal and no rollback fails, a run that fails leaves what    *)
(* readers find as it was, and nothing beside it; after a panic as well.   *)
THEOREM FailuresLeaveNothing ==
  ASSUME "remove" \notin Faults, "rollback" \notin Faults
  PROVE  Spec => []FailureLeavesNothing
<1>1. SP!Spec => []SP!EndsClean
  BY StagingAssumptions, SP!SerialRunsEndClean
<1>2. SP!Spec => []SP!IndInv
  BY StagingAssumptions, SP!Inductive
<1>3. SP!Spec => []SP!AloneInv
  BY StagingAssumptions, SP!AloneTells
<1>4. IInv /\ SP!EndsClean /\ SP!IndInv /\ SP!AloneInv => FailureLeavesNothing
  <2> SUFFICES ASSUME IInv, SP!EndsClean, SP!IndInv, SP!AloneInv, exit > 0
               PROVE  /\ latest # Run /\ destination = latest
                      /\ ~staging[Run] /\ scratch = {} /\ aside[Run] = NoDir
    BY DEF FailureLeavesNothing
  <2>0. /\ step = "ended"
        /\ exit = CASE cause = NoError -> 0 [] cause = Panic -> 101 [] OTHER -> CodeFor(cause)
    BY DEF IInv, Course, Blame
  <2>1. step = "ended" /\ cause # NoError
    BY <2>0 DEF NoError, Panic
  <2>2. met # "none" /\ pc[Run] \in {"idle", "failed"}
    BY <2>1 DEF IInv, Course, Blame
  <2>3. SP!Whereabouts(Run)
    BY DEF SP!AloneInv
  <2>4. latest # Run /\ destination = latest
    BY <2>2, <2>3 DEF SP!Whereabouts
  <2>5. ~staging[Run] /\ aside[Run] = NoDir
    BY <2>2 DEF SP!EndsClean, SP!IndInv, SP!PhaseOK
  <2> QED
    BY <2>1, <2>4, <2>5 DEF IInv, Swept
<1> QED
  BY <1>1, <1>2, <1>3, <1>4, Inductive, IsStagingRun, PTL

(* Whatever fails - a removal, a rollback - exit 0 says that the corpus of *)
(* the whole chain is live, and any other code that no reader ever found   *)
(* this run's.                                                             *)
THEOREM ZeroMeansLive ==
  Spec => [](/\ exit = 0 => Published /\ destination = Run
             /\ exit > 0 => latest # Run)
<1>1. SP!Spec => []SP!AloneInv
  BY StagingAssumptions, SP!AloneTells
<1>2. IInv /\ SP!AloneInv => /\ exit = 0 => Published /\ destination = Run
                             /\ exit > 0 => latest # Run
  <2> SUFFICES ASSUME IInv, SP!Whereabouts(Run), exit = 0 \/ exit > 0
               PROVE  /\ exit = 0 => Published /\ destination = Run
                      /\ exit > 0 => latest # Run
    BY DEF SP!AloneInv
  <2>1. /\ step = "ended"
        /\ exit = CASE cause = NoError -> 0 [] cause = Panic -> 101 [] OTHER -> CodeFor(cause)
    BY DEF IInv, Course, Blame
  <2>2. exit = 0 <=> cause = NoError
    BY <2>1 DEF CodeFor, NoError, Panic
  <2>3. cause = NoError <=> met = "none"
    BY DEF IInv, Blame, NoError, Panic, Tells, IoKinds
  <2> QED
    BY <2>1, <2>2, <2>3 DEF IInv, Course, SP!Whereabouts, Published
<1> QED
  BY <1>1, <1>2, Inductive, IsStagingRun, PTL

=============================================================================
