------------------------- MODULE TransformRunProofs -------------------------
(***************************************************************************)
(* A run of a transform is a run of the staged publication and a run of    *)
(* the record writer, so what is proved of those two holds of it: that is  *)
(* ImplementsStaging and ImplementsWriter.  What it publishes is then      *)
(* shown to be what its manifest describes, made of a sound source, for    *)
(* every source, buffer and choice of faults.                              *)
(***************************************************************************)
EXTENDS TransformRun, FiniteSetTheorems, WellFoundedInduction, TLAPS

SP == INSTANCE StagedCorpusProofs WITH Runs <- {Run}, Serial <- TRUE
WP == INSTANCE RecordWriterProofs WITH Width <- 1, Retries <- FALSE, MaxFailures <- 1

-----------------------------------------------------------------------------
(* The steps of the run, as the two components see them.                   *)

(* A step of the run is a step of its publication, or leaves it alone.     *)
LEMMA StagingStep ==
  ASSUME [Next]_vars
  PROVE  [S!Next]_(S!vars)
<1>1. ASSUME UNCHANGED staged PROVE [S!Next]_(S!vars)
  BY <1>1 DEF staged, S!vars
<1>2. ASSUME \/ S!Start(Run) \/ S!Build(Run) \/ S!Swap(Run) \/ S!Remove(Run)
             \/ S!Crash(Run)
      PROVE  S!Next
  BY <1>2 DEF S!Next, S!Progress
<1>3. "corpus" \in S!FileNames /\ "manifest" \in S!FileNames
  BY DEF S!FileNames
<1>4. CASE Stage \/ \E kind \in Kinds : StageFails(kind)
  BY <1>2, <1>4 DEF Stage, StageFails, S!Start
<1>5. CASE OpenWriter \/ Finish \/ Describe \/ WriteManifest
  BY <1>2, <1>3, <1>5 DEF OpenWriter, Finish, Describe, WriteManifest, S!Build
<1>6. CASE DropStaging \/ \E kind \in Kinds : PublishStep(kind)
  BY <1>2, <1>6 DEF DropStaging, PublishStep, S!Build
<1>7. CASE Killed
  BY <1>1, <1>2, <1>7 DEF Killed
<1>8. CASE \/ Prepare \/ Scan \/ Measure \/ PrepareFails \/ Report \/ ReportPanics \/ Republish
           \/ \E f \in listed : Inspect(f) \/ NoteSource(f) \/ SampleFile(f) \/ OpenSource(f)
  BY <1>1, <1>8 DEF Prepare, Scan, Measure, PrepareFails, Report, ReportPanics, Republish,
     Inspect, NoteSource, SampleFile, OpenSource
<1>9. CASE \/ CloseSource \/ WriteRecord \/ Malformed \/ Missing
           \/ \E kind \in Kinds : \/ WriteRecordFails(kind) \/ BuildFails(kind)
                                  \/ FinishFails(kind) \/ DropWriter(kind)
  BY <1>1, <1>9 DEF CloseSource, WriteRecord, Malformed, Missing, WriteRecordFails, BuildFails,
     FinishFails, DropWriter
<1>10. CASE UNCHANGED vars
  BY <1>1, <1>10 DEF vars
<1> QED
  BY <1>4, <1>5, <1>6, <1>7, <1>8, <1>9, <1>10 DEF Next, Proceeds, Fails

(* A step of the run is a step of its writer, or leaves it alone.          *)
LEMMA WriterStep ==
  ASSUME [Next]_vars
  PROVE  [W!Next]_(W!vars)
<1>1. ASSUME UNCHANGED writer PROVE [W!Next]_(W!vars)
  BY <1>1 DEF writer, W!vars
<1>2. CASE WriteRecord \/ Finish
  BY <1>2 DEF WriteRecord, Finish, W!Next
<1>3. CASE \E kind \in Kinds : WriteRecordFails(kind) \/ FinishFails(kind) \/ DropWriter(kind)
  BY <1>3 DEF WriteRecordFails, FinishFails, DropWriter, W!Next
<1>4. CASE \/ Prepare \/ Scan \/ Measure \/ PrepareFails \/ Report \/ ReportPanics \/ Killed
           \/ Republish
           \/ \E f \in listed : Inspect(f) \/ NoteSource(f) \/ SampleFile(f) \/ OpenSource(f)
  BY <1>1, <1>4 DEF Prepare, Scan, Measure, PrepareFails, Report, ReportPanics, Killed, Republish,
     Inspect, NoteSource, SampleFile, OpenSource
<1>5. CASE \/ Stage \/ OpenWriter \/ Describe \/ WriteManifest \/ DropStaging
           \/ \E kind \in Kinds : StageFails(kind) \/ PublishStep(kind)
  BY <1>1, <1>5 DEF Stage, OpenWriter, Describe, WriteManifest, DropStaging, StageFails, PublishStep
<1>6. CASE CloseSource \/ Malformed \/ Missing \/ \E kind \in Kinds : BuildFails(kind)
  BY <1>1, <1>6 DEF CloseSource, Malformed, Missing, BuildFails
<1>7. CASE UNCHANGED vars
  BY <1>1, <1>7 DEF vars
<1> QED
  BY <1>2, <1>3, <1>4, <1>5, <1>6, <1>7 DEF Next, Proceeds, Fails

(* A run of a transform is a run of staging.rs.                            *)
THEOREM ImplementsStaging == Spec => S!Spec
<1>1. Init => S!Init
  BY DEF Init
<1>2. [Next]_vars => [S!Next]_(S!vars)
  BY StagingStep
<1> QED
  BY <1>1, <1>2, PTL DEF Spec, S!Spec

(* A run of a transform is a run of writer.rs.                             *)
THEOREM ImplementsWriter == Spec => W!Spec
<1>1. Init => W!Init
  BY DEF Init
<1>2. [Next]_vars => [W!Next]_(W!vars)
  BY WriterStep
<1> QED
  BY <1>1, <1>2, PTL DEF Spec, W!Spec

-----------------------------------------------------------------------------
(* What the two components' own theorems say of a run.                     *)

(* The names the proofs of StagedCorpus go by are those of S.              *)
LEMMA SameStaging == (S!Init <=> SP!Init) /\ (S!Next <=> SP!Next) /\ S!vars = SP!vars
<1> USE DEF S!Goto, SP!Goto
<1>1. S!vars = SP!vars
  BY DEF S!vars, SP!vars
<1>2. S!Init <=> SP!Init
  BY DEF S!Init, SP!Init, S!Directories, SP!Directories, S!Empty, SP!Empty,
     S!FileNames, SP!FileNames
<1>3. ASSUME NEW r PROVE S!Start(r) <=> SP!Start(r)
  BY DEF S!Start, SP!Start, S!Create, SP!Create, S!CreateFails, SP!CreateFails,
     S!Active, SP!Active
<1>4. ASSUME NEW r PROVE S!Crash(r) <=> SP!Crash(r)
  BY DEF S!Crash, SP!Crash, S!Active, SP!Active
<1>5. ASSUME NEW r PROVE S!Build(r) <=> SP!Build(r)
  BY DEF S!Build, SP!Build, S!Abandon, SP!Abandon, S!OpenFile, SP!OpenFile,
     S!FinishFile, SP!FinishFile, S!FileNames, SP!FileNames
<1>6. ASSUME NEW r PROVE S!Swap(r) <=> SP!Swap(r)
  BY DEF S!Swap, SP!Swap, S!SetAside, SP!SetAside, S!NothingToSetAside,
     SP!NothingToSetAside, S!SetAsideFails, SP!SetAsideFails, S!Publish, SP!Publish,
     S!PublishFails, SP!PublishFails, S!Rollback, SP!Rollback, S!RollbackFails,
     SP!RollbackFails, S!Vacant, SP!Vacant, S!Install, SP!Install, S!Empty, SP!Empty,
     S!FileNames, SP!FileNames
<1>7. ASSUME NEW r PROVE S!Remove(r) <=> SP!Remove(r)
  BY DEF S!Remove, SP!Remove, S!RemoveFile, SP!RemoveFile, S!RemoveDirectory,
     SP!RemoveDirectory, S!RemoveFails, SP!RemoveFails, S!Doomed, SP!Doomed,
     S!Outcome, SP!Outcome, S!Removing, SP!Removing, S!Empty, SP!Empty,
     S!FileNames, SP!FileNames
<1> QED
  BY <1>1, <1>2, <1>3, <1>4, <1>5, <1>6, <1>7
     DEF S!Next, SP!Next, S!Progress, SP!Progress

(* What the proofs of StagedCorpus say holds of a run.                     *)
LEMMA IsStagingRun == Spec => SP!Spec
<1>1. S!Init => SP!Init
  BY SameStaging
<1>2. [S!Next]_(S!vars) => [SP!Next]_(SP!vars)
  BY SameStaging DEF S!vars, SP!vars
<1> QED
  BY <1>1, <1>2, ImplementsStaging, PTL DEF S!Spec, SP!Spec

LEMMA StagingAssumptions ==
  /\ SP!PreviousAssumption /\ SP!NoDirAssumption
  /\ SP!SerialAssumption /\ SP!FaultsAssumption
BY StagingAssumption
   DEF S!PreviousAssumption, SP!PreviousAssumption, S!NoDirAssumption, SP!NoDirAssumption,
       SP!SerialAssumption, S!FaultsAssumption, SP!FaultsAssumption, S!Contents, SP!Contents,
       S!Directories, SP!Directories, S!FaultKinds, SP!FaultKinds, S!FileNames, SP!FileNames,
       S!FileStates, SP!FileStates

(* A reader of the destination finds a complete corpus, and the corpus it  *)
(* last saw survives, whatever the run meets.                              *)
THEOREM ReadersAreSafe == Spec => [](S!LiveIsWhole /\ S!LatestSurvives)
<1>1. SP!Spec => []SP!LiveIsWhole
  BY StagingAssumptions, SP!ReadersSeeWhole
<1>2. SP!Spec => []SP!LatestSurvives
  BY StagingAssumptions, SP!NothingLost
<1>3. SP!LiveIsWhole /\ SP!LatestSurvives => S!LiveIsWhole /\ S!LatestSurvives
  BY DEF SP!LiveIsWhole, S!LiveIsWhole, SP!LatestSurvives, S!LatestSurvives, SP!Complete,
     S!Complete, SP!Whole, S!Whole, SP!FileNames, S!FileNames
<1> QED
  BY <1>1, <1>2, <1>3, IsStagingRun, PTL

(* A run reports once its directory is published, dropped or never was.    *)
Settled ==
  /\ DOMAIN pc = {Run}
  /\ step \in {"report", "ended"} => pc[Run] \in {"idle", "failed", "published"}

LEMMA SettledStep ==
  ASSUME Settled, [Next]_vars
  PROVE  Settled'
<1> USE DEF Settled
<1>1. ASSUME NEW kind, Fail(kind), DOMAIN pc' = {Run} PROVE Settled'
  BY <1>1 DEF Fail
<1>2. DOMAIN pc' = {Run}
  <2>1. [S!Next]_(S!vars)
    BY StagingStep
  <2>2. CASE UNCHANGED S!vars
    BY <2>2 DEF S!vars
  <2>3. ASSUME NEW r, S!Start(r) \/ S!Build(r) \/ S!Crash(r) PROVE DOMAIN pc' = DOMAIN pc
    BY <2>3 DEF S!Start, S!Create, S!CreateFails, S!Build, S!Abandon, S!OpenFile, S!FinishFile,
       S!Crash, S!Goto
  <2>4. ASSUME NEW r, S!Swap(r) \/ S!Remove(r) PROVE DOMAIN pc' = DOMAIN pc
    BY <2>4 DEF S!Swap, S!SetAside, S!NothingToSetAside, S!SetAsideFails, S!Publish,
       S!PublishFails, S!Rollback, S!RollbackFails, S!Remove, S!RemoveFile, S!RemoveDirectory,
       S!RemoveFails, S!Goto
  <2> QED
    BY <2>1, <2>2, <2>3, <2>4 DEF S!Next, S!Progress
<1>3. CASE \/ Prepare \/ Scan \/ Measure \/ Stage \/ OpenWriter \/ CloseSource \/ WriteRecord
           \/ \E f \in listed : Inspect(f) \/ NoteSource(f) \/ SampleFile(f) \/ OpenSource(f)
  BY <1>2, <1>3 DEF Prepare, Scan, Measure, Stage, OpenWriter, CloseSource, Streamed, WriteRecord,
     Inspect, NoteSource, NextFile, SampleFile, OpenSource, Proceed
<1>4. CASE Finish \/ Describe \/ WriteManifest \/ Republish \/ Killed
  BY <1>2, <1>4 DEF Finish, Describe, WriteManifest, Republish, Preparation, Killed, Proceed
<1>5. CASE PrepareFails \/ Malformed \/ Missing \/ \E kind \in Kinds : Fails(kind)
  BY <1>1, <1>2, <1>5 DEF PrepareFails, Malformed, Missing, Fails, StageFails, WriteRecordFails,
     BuildFails, FinishFails
<1>6. CASE \E kind \in Kinds : PublishStep(kind)
  BY <1>1, <1>2, <1>6 DEF PublishStep, Proceed
<1>7. CASE DropStaging \/ \E kind \in Kinds : DropWriter(kind)
  BY <1>2, <1>7 DEF DropStaging, DropWriter, Proceed
<1>8. CASE Report \/ ReportPanics
  BY <1>8 DEF Report, ReportPanics, Proceed, staged
<1>9. CASE UNCHANGED vars
  BY <1>9 DEF vars, staged
<1> QED
  BY <1>3, <1>4, <1>5, <1>6, <1>7, <1>8, <1>9 DEF Next, Proceeds

(* A run that comes to its end leaves neither its staging directory nor    *)
(* one it had set aside, unless a removal or a rollback fails.             *)
THEOREM RunsEndClean ==
  ASSUME "remove" \notin Faults, "rollback" \notin Faults
  PROVE  Spec => []EndsClean
<1>1. SP!Spec => []SP!EndsClean
  BY StagingAssumptions, SP!SerialRunsEndClean
<1>2. SP!Spec => []SP!IndInv
  BY StagingAssumptions, SP!Inductive
<1>3. Init => Settled
  BY DEF Init, S!Init, Settled
<1>4. Settled /\ [Next]_vars => Settled'
  BY SettledStep
<1>5. SP!EndsClean /\ SP!IndInv /\ Settled => EndsClean
  BY DEF SP!EndsClean, SP!IndInv, SP!PhaseOK, Settled, EndsClean
<1> QED
  BY <1>1, <1>2, <1>3, <1>4, <1>5, IsStagingRun, PTL DEF Spec

(* Once the writer has finished, the file holds every record accepted.     *)
WriterFacts ==
  /\ records_written \in Nat
  /\ status = "finished" => W!Written(records_written) /\ Len(file) = records_written

(* What is known of the writer inside a run.                               *)
LEMMA WriterKeeps == Spec => []WriterFacts
<1>1. W!Init => WP!Init
  BY DEF W!Init, WP!Init
<1>2. [W!Next]_(W!vars) => [WP!Next]_(WP!vars)
  <2> USE DEF W!Land, WP!Land, W!Numbers, WP!Numbers, W!Accepted, WP!Accepted, W!Usable,
      WP!Usable, W!Full, WP!Full, W!Capacity, WP!Capacity, W!Report, WP!Report,
      W!FlushOk, WP!FlushOk, W!FlushFails, WP!FlushFails, W!FlushTail, WP!FlushTail,
      W!Spared, WP!Spared
  <2>1. W!WriteBuffered \/ W!WriteThrough \/ W!WriteFails => WP!Next
    BY DEF W!WriteBuffered, WP!WriteBuffered, W!WriteThrough, WP!WriteThrough,
       W!WriteFails, WP!WriteFails, WP!Next
  <2>2. W!Flush \/ W!Finish \/ W!FinishFails => WP!Next
    BY DEF W!Flush, WP!Flush, W!Finish, WP!Finish, W!FinishFails, WP!FinishFails, WP!Next
  <2>3. W!DropQuietly \/ W!DropFlushing => WP!Next
    BY DEF W!DropQuietly, WP!DropQuietly, W!DropFlushing, WP!DropFlushing, WP!Next
  <2>4. ASSUME NEW panicking \in BOOLEAN, W!DropFails(panicking) PROVE WP!Next
    BY <2>4 DEF W!DropFails, WP!DropFails, WP!Next
  <2> QED
    BY <2>1, <2>2, <2>3, <2>4 DEF W!Next, W!vars, WP!vars
<1>3. Spec => WP!Spec
  BY <1>1, <1>2, ImplementsWriter, PTL DEF W!Spec, WP!Spec
<1>4. WP!WidthAssumption /\ WP!BoundAssumption /\ WP!RetriesAssumption
  BY RecordsAssumption DEF W!WidthAssumption, WP!WidthAssumption, WP!BoundAssumption,
     WP!RetriesAssumption
<1>5. WP!Spec => []WP!TypeOK
  BY <1>4, WP!TypeCorrect
<1>6. WP!Spec => [](WP!FinishedIsWritten /\ WP!NothingLostInSilence)
  BY <1>4, WP!WriterKeepsRecords
<1>7. WP!TypeOK /\ WP!FinishedIsWritten => WriterFacts
  <2> SUFFICES ASSUME WP!TypeOK, WP!FinishedIsWritten PROVE WriterFacts
    OBVIOUS
  <2>1. records_written \in Nat
    BY RecordsAssumption DEF WP!TypeOK
  <2>2. WP!Accepted = records_written
    BY <2>1 DEF WP!Accepted
  <2>3. Len(W!Numbers(1, records_written)) = records_written
    BY <2>1 DEF W!Numbers
  <2> QED
    BY <2>1, <2>2, <2>3 DEF WriterFacts, WP!FinishedIsWritten, WP!Written, W!Written,
       WP!Numbers, W!Numbers
<1> QED
  BY <1>3, <1>5, <1>6, <1>7, PTL

-----------------------------------------------------------------------------
(* What is published.                                                      *)

Sound(f) == opened[f].records > 0 /\ opened[f].whole

(* No file that has been read and retired is malformed.                    *)
SoundSoFar == \A f \in listed : f \in todo \/ f = reading \/ Sound(f)

AllSound == \A f \in listed : Sound(f)

Described == manifest = [records |-> records_written, bytes |-> records_written]

Before    == {"resolve", "declare", "scan", "measure", "inspect", "stage"}
Building  == {"open", "stream", "describe", "manifest"}
Swapping  == {"publishing", "setAside", "nothingAside", "rollback", "cleanup", "published"}

(* The steps of the run against those of the publication, and what is      *)
(* established by then.                                                    *)
Phases ==
  /\ step \in Before => pc[Run] = "idle"
  /\ step \in Building => pc[Run] = "building"
  /\ step \in {"describe", "manifest"} => status = "finished" /\ AllSound
  /\ step = "manifest" => Described
  /\ pc[Run] \in Swapping => status = "finished" /\ AllSound /\ Described

(* Every file listed has a name.                                           *)
Named ==
  /\ sources \in Corpora \cup Successors
  /\ DOMAIN opened = Names
  /\ listed \subseteq Names

RunInv == DOMAIN pc = {Run} /\ Named /\ SoundSoFar /\ Phases

(* Swapping and removing never lead from outside the swap into it.         *)
LEMMA SwapStays ==
  ASSUME DOMAIN pc = {Run}, S!Swap(Run) \/ S!Remove(Run)
  PROVE  /\ DOMAIN pc' = {Run} /\ pc[Run] # "idle" /\ pc[Run] # "building"
         /\ pc'[Run] \in Swapping => pc[Run] \in Swapping
         /\ pc'[Run] # "idle"
<1>1. CASE S!Swap(Run)
  BY <1>1 DEF S!Swap, S!SetAside, S!NothingToSetAside, S!SetAsideFails, S!Publish,
     S!PublishFails, S!Rollback, S!RollbackFails, S!Goto, Swapping
<1>2. CASE S!Remove(Run)
  BY <1>2 DEF S!Remove, S!RemoveFile, S!RemoveDirectory, S!RemoveFails, S!Removing,
     S!Outcome, S!Goto, Swapping
<1> QED
  BY <1>1, <1>2

(* A step that leaves the publication and the source alone and ends the    *)
(* build, or stays in the same part of it.                                 *)
LEMMA FailKeeps ==
  ASSUME RunInv, NEW kind, UNCHANGED <<input, manifest, staged, status, records_written>>, Fail(kind)
  PROVE  RunInv'
<1>1. step' \in {"report", "unwind"}
  BY DEF Fail
<1> QED
  BY <1>1 DEF RunInv, Named, SoundSoFar, Sound, Phases, AllSound, Described, Before, Building,
     input, source, found, staged

(* The invariant is inductive, given what the writer is known to keep.     *)
LEMMA RunStep ==
  ASSUME RunInv, WriterFacts, [Next]_vars
  PROVE  RunInv'
<1> USE DEF RunInv, Phases, Before, Building
<1>0. 0 \notin Names
  BY CorporaAssumption, SuccessorAssumption DEF Names
<1>1. CASE Prepare \/ Measure
  <2>1. /\ step' \in Before /\ step \in Before
        /\ UNCHANGED <<input, manifest, staged, writer>>
    BY <1>1 DEF Prepare, Measure, Proceed
  <2> QED
    BY <2>1 DEF Named, SoundSoFar, Sound, input, source, found, staged, writer, Swapping
<1>1a. CASE Scan
  <2>1. /\ step' \in Before /\ step \in Before
        /\ UNCHANGED <<sources, opened, manifest, staged, writer>>
        /\ listed' = DOMAIN sources /\ todo' = listed'
    BY <1>1a DEF Scan, Proceed, source
  <2>2. DOMAIN sources \subseteq Names
    BY DEF Named, Names
  <2> QED
    BY <2>1, <2>2 DEF Named, SoundSoFar, staged, writer, Swapping
<1>1b. CASE \E f \in listed : Inspect(f)
  <2>1. /\ step' \in Before /\ step \in Before
        /\ UNCHANGED <<sources, listed, opened, todo, reading, manifest, staged, writer>>
    BY <1>1b DEF Inspect, Note, Proceed, source
  <2> QED
    BY <2>1 DEF Named, SoundSoFar, Sound, staged, writer, Swapping
<1>1c. CASE Republish
  <2>1. sources' \in Corpora \cup Successors /\ step' = step
        /\ UNCHANGED <<listed, opened, todo, reading, manifest, staged, writer>>
    BY <1>1c DEF Republish, found
  <2> QED
    BY <2>1 DEF Named, SoundSoFar, Sound, AllSound, Described, staged, writer, Swapping
<1>2. CASE Stage
  BY <1>2 DEF Stage, Proceed, S!Create, S!Goto, Named, SoundSoFar, Sound, input, source, found, writer, Swapping
<1>3. CASE \E kind \in Kinds : StageFails(kind)
  <2>1. step' = "report"
    BY <1>3 DEF StageFails, Fail, S!CreateFails, S!Goto
  <2> QED
    BY <1>3, <2>1 DEF StageFails, S!CreateFails, S!Goto, Named, SoundSoFar, Sound, input, source, found, writer, Swapping
<1>4. CASE PrepareFails \/ Malformed \/ Missing \/ \E kind \in Kinds : BuildFails(kind)
  BY <1>4, FailKeeps DEF PrepareFails, Malformed, Missing, BuildFails, writer
<1>5. CASE OpenWriter
  BY <1>5 DEF OpenWriter, Proceed, S!OpenFile, Named, SoundSoFar, Sound, input, source, found, writer, Swapping
<1>6. CASE \E f \in listed : SampleFile(f)
  <2>1. PICK f \in listed : SampleFile(f)
    BY <1>6
  <2>2. /\ reading = f /\ todo' = todo \ {f} /\ opened' = [opened EXCEPT ![f] = sources[f]]
        /\ WellFormed(sources[f]) /\ step = "stream"
        /\ UNCHANGED <<step, sources, listed, manifest, staged, writer>>
    BY <2>1 DEF SampleFile, Open, source
  <2>3. f \in DOMAIN opened /\ Sound(f)'
    BY <2>2 DEF Named, WellFormed, Sound
  <2>4. \A g \in listed : g # f /\ Sound(g) => Sound(g)'
    BY <2>2 DEF Named, Sound
  <2>5. SoundSoFar'
    BY <2>2, <2>3, <2>4 DEF SoundSoFar
  <2> QED
    BY <2>2, <2>5 DEF Named, staged, writer, Swapping
<1>7. CASE \E f \in listed : OpenSource(f)
  <2>1. PICK f \in listed : OpenSource(f)
    BY <1>7
  <2>2. /\ reading = 0 /\ reading' = f /\ todo' = todo \ {f}
        /\ opened' = [opened EXCEPT ![f] = sources[f]] /\ step = "stream"
        /\ UNCHANGED <<step, sources, listed, manifest, staged, writer>>
    BY <2>1 DEF OpenSource, NextFile, Open, source
  <2>3. \A g \in listed : g # f /\ Sound(g) => Sound(g)'
    BY <2>2 DEF Named, Sound
  <2>4. SoundSoFar'
    BY <1>0, <2>2, <2>3 DEF SoundSoFar, Named
  <2> QED
    BY <2>2, <2>4 DEF Named, staged, writer, Swapping
<1>7a. CASE \E f \in listed : NoteSource(f)
  <2>1. /\ reading = 0 /\ step = "stream"
        /\ UNCHANGED <<step, sources, listed, opened, todo, manifest, staged, writer>>
    BY <1>7a DEF NoteSource, NextFile, Note, source
  <2>2. SoundSoFar'
    BY <1>0, <2>1 DEF SoundSoFar, Sound, Named
  <2> QED
    BY <2>1, <2>2 DEF Named, staged, writer, Swapping
<1>8. CASE CloseSource
  <2>1. /\ WellFormed(opened[reading]) /\ step = "stream"
        /\ UNCHANGED <<step, sources, listed, opened, todo, manifest, staged, writer>>
    BY <1>8 DEF CloseSource, Streamed, source, found
  <2>2. SoundSoFar'
    BY <2>1 DEF SoundSoFar, Sound, WellFormed
  <2> QED
    BY <2>1, <2>2 DEF Named, staged, writer, Swapping
<1>9. CASE WriteRecord
  BY <1>9 DEF WriteRecord, Named, SoundSoFar, Sound, source, found, staged, Swapping
<1>10. CASE \E kind \in Kinds : WriteRecordFails(kind) \/ FinishFails(kind)
  <2>1. PICK kind \in Kinds : WriteRecordFails(kind) \/ FinishFails(kind)
    BY <1>10
  <2>2. step = "stream" /\ Fail(kind) /\ UNCHANGED <<input, manifest, staged>>
    BY <2>1 DEF WriteRecordFails, FinishFails
  <2>3. step' \in {"report", "unwind"}
    BY <2>2 DEF Fail
  <2> QED
    BY <2>2, <2>3 DEF Named, SoundSoFar, Sound, input, source, found, staged, Swapping
<1>11. CASE Finish
  <2>1. status' = "finished" /\ step' = "describe"
    BY <1>11 DEF Finish, Proceed, W!Finish
  <2>2. AllSound /\ UNCHANGED input
    <3>1. todo = {} /\ reading = 0 /\ UNCHANGED input
      BY <1>11 DEF Finish, AllRead
    <3> QED
      BY <1>0, <3>1 DEF SoundSoFar, AllSound, Named
  <2>3. pc'[Run] = "building" /\ DOMAIN pc' = {Run}
    BY <1>11 DEF Finish, S!FinishFile, S!Goto
  <2> QED
    BY <2>1, <2>2, <2>3 DEF Named, SoundSoFar, AllSound, Sound, input, source, found, Swapping
<1>12. CASE Describe
  BY <1>12 DEF Describe, Proceed, S!OpenFile, WriterFacts, Named, SoundSoFar, AllSound, Sound, Described,
     input, source, found, writer, Swapping
<1>13. CASE WriteManifest
  BY <1>13 DEF WriteManifest, Proceed, S!FinishFile, S!Goto, Named, SoundSoFar, AllSound, Sound, Described,
     input, source, found, writer, Swapping
<1>14. CASE \E kind \in Kinds : PublishStep(kind)
  <2>1. /\ S!Swap(Run) \/ S!Remove(Run)
        /\ UNCHANGED <<input, manifest, writer>>
        /\ step' \in {"report", "unwind", "publish"}
    BY <1>14 DEF PublishStep, Fail, Proceed
  <2> QED
    BY <2>1, SwapStays DEF Named, SoundSoFar, AllSound, Sound, Described, input, source, found, writer
<1>15. CASE \E kind \in Kinds : DropWriter(kind)
  <2>1. /\ status = "open" /\ step = "unwind" /\ UNCHANGED <<step, input, manifest, staged>>
    BY <1>15 DEF DropWriter, WriterIsLive
  <2> QED
    BY <2>1 DEF Named, SoundSoFar, Sound, input, source, found, staged
<1>16. CASE DropStaging
  <2>1. UNCHANGED <<input, manifest, writer>> /\ step' \in {"report", "unwind"}
    BY <1>16 DEF DropStaging, Proceed
  <2>2. CASE S!Abandon(Run)
    BY <2>1, <2>2 DEF S!Abandon, S!Goto, Named, SoundSoFar, Sound, input, source, found, Swapping
  <2>3. CASE S!Remove(Run)
    BY <2>1, <2>3, SwapStays DEF Named, SoundSoFar, AllSound, Sound, Described, input, source, found, writer
  <2> QED
    BY <1>16, <2>2, <2>3 DEF DropStaging
<1>17. CASE Report \/ ReportPanics
  BY <1>17 DEF Report, ReportPanics, Proceed, Named, SoundSoFar, AllSound, Sound, Described, input, source, found,
     staged, writer
<1>18. CASE Killed
  <2>1. UNCHANGED <<input, manifest, writer>> /\ step' = "killed"
    BY <1>18 DEF Killed, Proceed
  <2>2. DOMAIN pc' = {Run} /\ (pc' = pc \/ pc'[Run] = "crashed")
    BY <1>18 DEF Killed, S!Crash, S!Goto, staged
  <2> QED
    BY <2>1, <2>2 DEF Named, SoundSoFar, AllSound, Sound, Described, input, source, found, writer, Swapping
<1>19. CASE UNCHANGED vars
  BY <1>19 DEF vars, Named, SoundSoFar, AllSound, Sound, Described, input, source, found, staged, writer
<1> QED
  BY <1>1, <1>1a, <1>1b, <1>1c, <1>2, <1>3, <1>4, <1>5, <1>6, <1>7, <1>7a, <1>8, <1>9, <1>10, <1>11, <1>12, <1>13,
     <1>14, <1>15, <1>16, <1>17, <1>18, <1>19 DEF Next, Proceeds, Fails

(* What a run publishes was made of a source without a malformed file, is  *)
(* in the file down to the last record, and is what its manifest says.     *)
THEOREM PublishesAsDescribed == Spec => []PublishedAsDescribed
<1>1. Init => RunInv
  BY DEF Init, S!Init, RunInv, Named, SoundSoFar, Phases, Before, Building, Swapping
<1>2. RunInv /\ WriterFacts /\ [Next]_vars => RunInv'
  BY RunStep
<1>3. RunInv /\ WriterFacts => PublishedAsDescribed
  BY DEF RunInv, WriterFacts, Phases, PublishedAsDescribed, Published, Swapping, AllSound,
     Sound, Described
<1> QED
  BY <1>1, <1>2, <1>3, WriterKeeps, PTL DEF Spec

-----------------------------------------------------------------------------
(* What the exit code says.                                                *)

UnderWay == Before \cup Building \cup {"publish"}

(* No blame while all goes well; a full volume is blamed if it was met,    *)
(* unless a destructor panicked over it; the code is given once, last.     *)
Blame ==
  /\ cause \in {"none", "other", "full", "panic"}
  /\ ran_out \in BOOLEAN
  /\ step \in UnderWay => cause = "none"
  /\ cause \in {"none", "other"} => ~ran_out
  /\ cause = "full" => ran_out
  /\ exit # -1 => step = "ended"
  /\ exit \in {-1, 101, CodeFor(cause)}

(* Every step keeps the cause, the exit code and the full volume in line.  *)
LEMMA BlameStep ==
  ASSUME Blame, [Next]_vars
  PROVE  Blame'
<1> USE DEF UnderWay, Before, Building
<1>1. CASE UNCHANGED <<cause, ran_out, exit>> /\ exit = -1 /\ (step \in UnderWay \/ step' \notin UnderWay)
  BY <1>1 DEF Blame, CodeFor
<1>2. ASSUME NEW kind \in Kinds, Fail(kind), step \in UnderWay, UNCHANGED exit
      PROVE  Blame'
  <2>1. exit = -1 /\ ~ran_out
    BY <1>2 DEF Blame
  <2>2. /\ cause' = kind /\ kind \in {"full", "other"}
        /\ ran_out' = (kind = "full") /\ step' \in {"report", "unwind"}
    BY <1>2, <2>1 DEF Fail, Kinds
  <2>3. CASE kind = "full"
    BY <1>2, <2>1, <2>2, <2>3 DEF Blame
  <2>4. CASE kind = "other"
    BY <1>2, <2>1, <2>2, <2>4 DEF Blame
  <2> QED
    BY <2>2, <2>3, <2>4
<1>3. "other" \in Kinds
  BY DEF Kinds
<1>4. CASE PrepareFails
  BY <1>2, <1>3, <1>4 DEF PrepareFails, Preparation
<1>5. CASE Malformed \/ Missing
  <2>1. step \in UnderWay /\ Fail("other") /\ UNCHANGED exit
    BY <1>5 DEF Malformed, Missing, Streamed
  <2> QED
    BY <1>2, <1>3, <2>1
<1>6. CASE \E kind \in Kinds : Fails(kind)
  <2>1. PICK kind \in Kinds : Fails(kind)
    BY <1>6
  <2>2. step \in UnderWay /\ Fail(kind) /\ UNCHANGED exit
    BY <2>1 DEF Fails, StageFails, WriteRecordFails, BuildFails, FinishFails
  <2> QED
    BY <1>2, <2>2
<1>7. CASE \E kind \in Kinds : PublishStep(kind)
  <2>1. PICK kind \in Kinds : PublishStep(kind)
    BY <1>7
  <2>2. step \in UnderWay /\ UNCHANGED exit /\ (Fail(kind) \/ Proceed("report") \/ Proceed("publish"))
    BY <2>1 DEF PublishStep
  <2>3. exit = -1
    BY <2>2 DEF Blame
  <2> QED
    BY <1>1, <1>2, <2>2, <2>3 DEF Proceed
<1>8. CASE \E kind \in Kinds : DropWriter(kind)
  <2>1. PICK kind \in Kinds : DropWriter(kind)
    BY <1>8
  <2>2. step = "unwind" /\ UNCHANGED <<step, exit>>
    BY <2>1 DEF DropWriter
  <2>3. exit = -1
    BY <2>2 DEF Blame
  <2>4. CASE UNCHANGED <<cause, ran_out>>
    BY <1>1, <2>2, <2>3, <2>4
  <2>5. CASE cause' = "panic" /\ ran_out' = (ran_out \/ kind = "full")
    BY <2>2, <2>3, <2>5 DEF Blame
  <2> QED
    BY <2>1, <2>4, <2>5 DEF DropWriter
<1>9. CASE Prepare \/ Scan \/ Measure \/ Republish \/ \E f \in listed : Inspect(f)
  <2>1. step \in UnderWay /\ UNCHANGED <<cause, ran_out, exit>>
    BY <1>9 DEF Prepare, Scan, Measure, Republish, Inspect, Preparation, Proceed
  <2> QED
    BY <1>1, <2>1 DEF Blame
<1>10. CASE \/ Stage \/ OpenWriter \/ Finish \/ Describe \/ WriteManifest \/ CloseSource
            \/ WriteRecord
            \/ \E f \in listed : NoteSource(f) \/ SampleFile(f) \/ OpenSource(f)
  <2>1. step \in UnderWay /\ UNCHANGED <<cause, ran_out, exit>>
    BY <1>10 DEF Stage, OpenWriter, Finish, Describe, WriteManifest, CloseSource, WriteRecord,
       NoteSource, SampleFile, OpenSource, NextFile, Streamed, Proceed
  <2> QED
    BY <1>1, <2>1 DEF Blame
<1>11. CASE DropStaging \/ Killed
  <2>1. /\ step \notin {"ended"} /\ step' \notin UnderWay
        /\ UNCHANGED <<cause, ran_out, exit>>
    BY <1>11 DEF DropStaging, Killed, Proceed
  <2> QED
    BY <1>1, <2>1 DEF Blame
<1>12. CASE Report \/ ReportPanics
  <2>1. /\ exit' \in {101, CodeFor(cause)} /\ step' = "ended"
        /\ UNCHANGED <<cause, ran_out>>
    BY <1>12 DEF Report, ReportPanics, Proceed
  <2> QED
    BY <2>1 DEF Blame, CodeFor
<1>13. CASE UNCHANGED vars
  BY <1>13 DEF vars, Blame, CodeFor
<1> QED
  BY <1>4, <1>5, <1>6, <1>7, <1>8, <1>9, <1>10, <1>11, <1>12, <1>13 DEF Next, Proceeds

(* 28 is the exit code of a run that met a full volume, and 1 never hides  *)
(* one.                                                                    *)
THEOREM RetriesAreJustified == Spec => []RetryIsJustified
<1>1. Init => Blame
  BY DEF Init, Blame
<1>2. Blame /\ [Next]_vars => Blame'
  BY BlameStep
<1>3. Blame => RetryIsJustified
  BY DEF Blame, RetryIsJustified, CodeFor
<1> QED
  BY <1>1, <1>2, <1>3, PTL DEF Spec

-----------------------------------------------------------------------------
(* The exit code against what became of the directory.                     *)

(* Where the directory of a failing run is, and why a run that has gone    *)
(* through the swap has no cause to fail for.                              *)
Course ==
  /\ step \in Before => pc[Run] = "idle"
  /\ step \in Building => pc[Run] = "building"
  /\ step = "publish" => pc[Run] \in Swapping \ {"published"}
  /\ step = "unwind" => pc[Run] \in {"building", "dropping"} /\ cause # "none"
  /\ step \in {"report", "ended"} =>
       /\ pc[Run] \in {"idle", "failed", "published"}
       /\ pc[Run] = "published" <=> cause = "none"

(* The swap leads to what was published, or to the way out.                *)
LEMMA SwapOutcome ==
  ASSUME DOMAIN pc = {Run}, S!Swap(Run) \/ S!Remove(Run)
  PROVE  /\ pc[Run] \in Swapping \ {"published"} =>
              pc'[Run] \in Swapping \cup {"dropping"}
         /\ pc[Run] = "dropping" => pc'[Run] \in {"dropping", "failed"}
         /\ pc[Run] # "building"
<1>1. CASE S!Swap(Run)
  BY <1>1 DEF S!Swap, S!SetAside, S!NothingToSetAside, S!SetAsideFails, S!Publish,
     S!PublishFails, S!Rollback, S!RollbackFails, S!Goto, Swapping
<1>2. CASE S!Remove(Run)
  BY <1>2 DEF S!Remove, S!RemoveFile, S!RemoveDirectory, S!RemoveFails, S!Removing,
     S!Outcome, S!Goto, Swapping
<1> QED
  BY <1>1, <1>2

LEMMA CourseStep ==
  ASSUME DOMAIN pc = {Run}, Course, Blame, [Next]_vars
  PROVE  Course'
<1> USE DEF Course, Before, Building, UnderWay
<1>1. ASSUME UNCHANGED pc, step \in UnderWay \ {"publish"}, NEW kind, kind # "none", Fail(kind)
      PROVE  Course'
  BY <1>1 DEF Fail
<1>2. "other" # "none" /\ \A kind \in Kinds : kind # "none"
  BY DEF Kinds
<1>3. CASE Prepare \/ Scan \/ Measure \/ \E f \in listed : Inspect(f)
  BY <1>3 DEF Prepare, Scan, Measure, Inspect, Proceed, staged
<1>4. CASE Stage
  BY <1>4 DEF Stage, Proceed, S!Create, S!Goto
<1>5. CASE \E kind \in Kinds : StageFails(kind)
  BY <1>2, <1>5 DEF StageFails, Fail, S!CreateFails, S!Goto
<1>6. CASE PrepareFails \/ Malformed \/ Missing
  <2>1. UNCHANGED pc /\ step \in UnderWay \ {"publish"} /\ Fail("other")
    BY <1>6 DEF PrepareFails, Preparation, Malformed, Streamed, Missing, staged
  <2> QED
    BY <1>1, <2>1
<1>7. CASE \E kind \in Kinds : WriteRecordFails(kind) \/ BuildFails(kind) \/ FinishFails(kind)
  <2>1. PICK kind \in Kinds : WriteRecordFails(kind) \/ BuildFails(kind) \/ FinishFails(kind)
    BY <1>7
  <2>2. UNCHANGED pc /\ step \in UnderWay \ {"publish"} /\ Fail(kind)
    BY <2>1 DEF WriteRecordFails, BuildFails, FinishFails, staged
  <2> QED
    BY <1>1, <1>2, <2>2
<1>8. CASE \/ OpenWriter \/ CloseSource \/ WriteRecord
           \/ \E f \in listed : NoteSource(f) \/ SampleFile(f) \/ OpenSource(f)
  BY <1>8 DEF OpenWriter, CloseSource, Streamed, WriteRecord, NoteSource, NextFile, SampleFile,
     OpenSource, Proceed, S!OpenFile, staged
<1>9. CASE Finish \/ Describe
  BY <1>9 DEF Finish, Describe, Proceed, S!FinishFile, S!OpenFile, S!Goto
<1>10. CASE WriteManifest
  BY <1>10 DEF WriteManifest, Proceed, S!FinishFile, S!Goto, Swapping
<1>11. CASE \E kind \in Kinds : PublishStep(kind)
  <2>1. PICK kind \in Kinds : PublishStep(kind)
    BY <1>11
  <2>2. /\ step = "publish" /\ cause = "none" /\ kind # "none"
        /\ pc[Run] \in Swapping \ {"published"} /\ pc'[Run] \in Swapping \cup {"dropping"}
    BY <1>2, <2>1, SwapOutcome DEF PublishStep, Blame
  <2> QED
    BY <2>1, <2>2 DEF PublishStep, Fail, Proceed, Swapping
<1>12. CASE \E kind \in Kinds : DropWriter(kind)
  BY <1>12 DEF DropWriter, staged
<1>13. CASE DropStaging
  <2>1. CASE S!Abandon(Run)
    BY <1>13, <2>1 DEF DropStaging, Proceed, S!Abandon, S!Goto
  <2>2. CASE S!Remove(Run)
    BY <1>13, <2>2, SwapOutcome DEF DropStaging, Proceed
  <2> QED
    BY <1>13, <2>1, <2>2 DEF DropStaging
<1>14. CASE Report \/ ReportPanics
  BY <1>14 DEF Report, ReportPanics, Proceed, staged
<1>15. CASE Republish
  BY <1>15 DEF Republish, staged
<1>16. CASE Killed
  BY <1>16 DEF Killed, Proceed
<1>17. CASE UNCHANGED vars
  BY <1>17 DEF vars, staged
<1> QED
  BY <1>3, <1>4, <1>5, <1>6, <1>7, <1>8, <1>9, <1>10, <1>11, <1>12, <1>13, <1>14, <1>15, <1>16,
     <1>17 DEF Next, Proceeds, Fails

(* All that the exit code is held against, in every state of a run.        *)
LEMMA ExitFacts == Spec => [](Settled /\ Blame /\ Course /\ SP!Whereabouts(Run))
<1>1. Init => Settled /\ Blame /\ Course
  BY DEF Init, S!Init, Settled, Blame, Course, Before, Building
<1>2. Settled /\ Blame /\ Course /\ [Next]_vars => (Settled /\ Blame /\ Course)'
  BY SettledStep, BlameStep, CourseStep DEF Settled
<1>3. SP!Spec => []SP!AloneInv
  BY StagingAssumptions, SP!AloneTells
<1>4. SP!AloneInv => SP!Whereabouts(Run)
  BY DEF SP!AloneInv
<1> QED
  BY <1>1, <1>2, <1>3, <1>4, IsStagingRun, PTL DEF Spec

(* Whatever fails, 0 says that this run's corpus is live, and 1 and 28     *)
(* that no reader ever found it.                                           *)
THEOREM ZeroMeansLive ==
  Spec => [](/\ exit = 0 => Published /\ destination = Run
             /\ exit \in {1, 28} => latest # Run)
<1>1. Settled /\ Blame /\ Course /\ SP!Whereabouts(Run) =>
        /\ exit = 0 => Published /\ destination = Run
        /\ exit \in {1, 28} => latest # Run
  BY DEF Blame, Course, SP!Whereabouts, Published, CodeFor
<1> QED
  BY <1>1, ExitFacts, PTL

(* Where no rollback fails, 1 and 28 say that what was there before is     *)
(* live again.                                                             *)
THEOREM ExitCodesTell ==
  ASSUME "rollback" \notin Faults
  PROVE  Spec => []ExitTells
<1>1. Settled /\ Blame /\ Course /\ SP!Whereabouts(Run) => ExitTells
  BY DEF Blame, Course, SP!Whereabouts, Published, CodeFor, ExitTells
<1> QED
  BY <1>1, ExitFacts, PTL

-----------------------------------------------------------------------------
(* The lengths noted against the files read.                               *)

(* The steps after the last record, and those after the last length.       *)
Late     == step \in {"describe", "manifest"} \/ pc[Run] \in Swapping
Prepared == step = "stage" \/ step \in Building \/ pc[Run] \in Swapping

(* Nothing of the source is left once its corpus is finished.              *)
Consumed == Late => todo = {} /\ reading = 0 /\ left = 0

(* The files whose noted length is not that of the file read, or will not  *)
(* be if the file is opened now.                                           *)
Suspect ==
  {f \in listed :
     IF f \in todo THEN f = reading /\ (f \notin DOMAIN sources \/ noted[f] # sources[f])
                   ELSE noted[f] # opened[f]}

(* A sampler has no more of them than there were replacements.             *)
SamplerNotes ==
  transform = "sample" =>
    /\ reading # 0 => reading \in todo
    /\ Cardinality(Suspect) <= replaced

(* The others note every length before they open a file.                   *)
OthersNote ==
  transform # "sample" /\ replaced = 0 =>
    /\ listed \subseteq DOMAIN sources
    /\ \A f \in listed : noted[f] \in {NoFile, sources[f]} /\ (f \notin todo => opened[f] = sources[f])
    /\ Prepared => \A f \in listed : noted[f] # NoFile

(* What is simple about the files found and their lengths.                 *)
NoteTypes ==
  /\ transform \in Commands
  /\ replaced \in Nat
  /\ sources \in Corpora \cup Successors
  /\ IsFiniteSet(listed) /\ listed \subseteq Names
  /\ DOMAIN noted = Names /\ DOMAIN opened = Names
  /\ step \in {"resolve", "declare", "scan"} =>
       listed = {} /\ todo = {} /\ reading = 0 /\ noted = [f \in Names |-> NoFile]
  /\ step = "inspect" => transform # "sample"
  /\ step = "measure" => transform = "sample"

NoteInv == NoteTypes /\ Consumed /\ SamplerNotes /\ OthersNote

(* The steps that touch the source or what is known of it.                 *)
Sourcing == <<source, found, todo, reading, left>>

LEMMA InputStep ==
  ASSUME [Next]_vars
  PROVE  \/ UNCHANGED Sourcing
         \/ Scan \/ Republish \/ CloseSource \/ WriteRecord
         \/ \E f \in listed : Inspect(f) \/ NoteSource(f) \/ SampleFile(f) \/ OpenSource(f)
<1> USE DEF Sourcing, input
<1>1. CASE Prepare \/ Measure \/ Stage \/ OpenWriter \/ Finish \/ Describe \/ WriteManifest
  BY <1>1 DEF Prepare, Measure, Stage, OpenWriter, Finish, Describe, WriteManifest
<1>2. CASE PrepareFails \/ Malformed \/ Missing \/ DropStaging
  BY <1>2 DEF PrepareFails, Malformed, Missing, DropStaging
<1>3. CASE \E kind \in Kinds : Fails(kind) \/ PublishStep(kind) \/ DropWriter(kind)
  BY <1>3 DEF Fails, StageFails, WriteRecordFails, BuildFails, FinishFails, PublishStep, DropWriter
<1>4. CASE Report \/ ReportPanics \/ Killed
  BY <1>4 DEF Report, ReportPanics, Killed
<1>5. CASE UNCHANGED vars
  BY <1>5 DEF vars
<1> QED
  BY <1>1, <1>2, <1>3, <1>4, <1>5 DEF Next, Proceeds

(* A step comes to the late part of a run by Finish, and has the lengths   *)
(* noted by Measure or by the last Inspect.                                *)
LEMMA Onwards ==
  ASSUME DOMAIN pc = {Run}, Course, [Next]_vars
  PROVE  /\ Late' => Late \/ (Finish /\ step = "stream")
         /\ Prepared' => Prepared \/ Measure \/ \E f \in listed : Inspect(f)
<1> USE DEF Course, Late, Prepared, Before, Building
<1>1. CASE Prepare \/ Scan
  BY <1>1 DEF Prepare, Scan, Proceed, staged, Swapping
<1>2. CASE Stage \/ \E kind \in Kinds : StageFails(kind)
  BY <1>2 DEF Stage, StageFails, S!Create, S!CreateFails, S!Goto, Proceed, Fail, Swapping
<1>3. CASE Finish \/ Measure \/ \E f \in listed : Inspect(f)
  <2>1. CASE Finish
    BY <2>1 DEF Finish
  <2>2. CASE Measure \/ \E f \in listed : Inspect(f)
    BY <2>2 DEF Measure, Inspect, Proceed, staged, Swapping
  <2> QED
    BY <1>3, <2>1, <2>2
<1>4. CASE OpenWriter \/ Describe
  BY <1>4 DEF OpenWriter, Describe, S!OpenFile, Proceed, Swapping
<1>5. CASE WriteManifest
  BY <1>5 DEF WriteManifest
<1>6. CASE \/ Republish \/ CloseSource \/ WriteRecord
           \/ \E f \in listed : NoteSource(f) \/ SampleFile(f) \/ OpenSource(f)
  BY <1>6 DEF Republish, CloseSource, WriteRecord, NoteSource, SampleFile, OpenSource, staged
<1>7. CASE \/ PrepareFails \/ Malformed \/ Missing
           \/ \E kind \in Kinds : WriteRecordFails(kind) \/ BuildFails(kind) \/ FinishFails(kind)
  BY <1>7 DEF PrepareFails, Malformed, Missing, WriteRecordFails, BuildFails, FinishFails, Fail, staged
<1>8. CASE \E kind \in Kinds : PublishStep(kind)
  BY <1>8, SwapStays DEF PublishStep, Proceed, Fail
<1>9. CASE DropStaging
  <2>1. step' \in {"report", "unwind"} /\ (S!Abandon(Run) \/ S!Remove(Run))
    BY <1>9 DEF DropStaging, Proceed
  <2>2. CASE S!Abandon(Run)
    BY <2>1, <2>2 DEF S!Abandon, S!Goto, Swapping
  <2>3. CASE S!Remove(Run)
    BY <2>1, <2>3, SwapStays
  <2> QED
    BY <2>1, <2>2, <2>3
<1>10. CASE Report \/ ReportPanics \/ \E kind \in Kinds : DropWriter(kind)
  BY <1>10 DEF Report, ReportPanics, DropWriter, Proceed, staged
<1>11. CASE Killed
  <2>1. step' = "killed" /\ (pc' = pc \/ pc'[Run] = "crashed")
    BY <1>11 DEF Killed, Proceed, S!Crash, S!Goto, staged
  <2> QED
    BY <2>1 DEF Swapping
<1>12. CASE UNCHANGED vars
  BY <1>12 DEF vars, staged
<1> QED
  BY <1>1, <1>2, <1>3, <1>4, <1>5, <1>6, <1>7, <1>8, <1>9, <1>10, <1>11, <1>12
     DEF Next, Proceeds, Fails

(* The names are positions, so a source that is there is one the run can   *)
(* name, and its files are not the mark for none.                          *)
LEMMA SourceFacts ==
  ASSUME sources \in Corpora \cup Successors
  PROVE  /\ IsFiniteSet(DOMAIN sources) /\ DOMAIN sources \subseteq Names
         /\ \A f \in DOMAIN sources : sources[f] # NoFile
<1>1. sources \in Seq(CorpusFile)
  BY CorporaAssumption, SuccessorAssumption
<1>2. DOMAIN sources = 1 .. Len(sources) /\ Len(sources) \in Nat
  BY <1>1
<1>3. IsFiniteSet(DOMAIN sources)
  BY <1>2, FS_Interval
<1>4. \A f \in DOMAIN sources : sources[f] # NoFile
  <2>1. \A f \in DOMAIN sources : sources[f] \in CorpusFile
    BY <1>1
  <2>2. NoFile \notin CorpusFile
    BY RecordsAssumption DEF NoFile, CorpusFile
  <2> QED
    BY <2>1, <2>2
<1> QED
  BY <1>3, <1>4 DEF Names

LEMMA ConsumedStep ==
  ASSUME DOMAIN pc = {Run}, Course, Consumed, [Next]_vars
  PROVE  Consumed'
<1> SUFFICES ASSUME Late' PROVE (todo = {} /\ reading = 0 /\ left = 0)'
  BY DEF Consumed
<1>1. CASE Finish
  BY <1>1 DEF Finish, AllRead, input
<1>2. CASE Late
  <2>1. step \notin {"scan", "inspect", "stream"}
    BY <1>2 DEF Late, Course, Before, Building, Swapping
  <2>2. UNCHANGED <<todo, reading, left>>
    <3>1. CASE UNCHANGED Sourcing
      BY <3>1 DEF Sourcing
    <3>2. CASE Republish
      BY <3>2 DEF Republish
    <3>3. ~(Scan \/ CloseSource \/ WriteRecord)
      BY <2>1 DEF Scan, CloseSource, Streamed, WriteRecord
    <3>4. ~\E f \in listed : Inspect(f) \/ NoteSource(f) \/ SampleFile(f) \/ OpenSource(f)
      BY <2>1 DEF Inspect, NoteSource, SampleFile, OpenSource, NextFile
    <3> QED
      BY <3>1, <3>2, <3>3, <3>4, InputStep
  <2> QED
    BY <1>2, <2>2 DEF Consumed
<1> QED
  BY <1>1, <1>2, Onwards

(* A set with one more suspect.                                            *)
LEMMA OneMore ==
  ASSUME NEW A, NEW B, NEW x, IsFiniteSet(B), A \subseteq B \cup {x}
  PROVE  Cardinality(A) \in Nat /\ Cardinality(B) \in Nat /\ Cardinality(A) <= Cardinality(B) + 1
<1>1. IsFiniteSet(B \cup {x}) /\ Cardinality(B) \in Nat
      /\ Cardinality(B \cup {x}) \in {Cardinality(B), Cardinality(B) + 1}
  BY FS_AddElement, FS_CardinalityType
<1>2. Cardinality(A) \in Nat /\ Cardinality(B \cup {x}) \in Nat
      /\ Cardinality(A) <= Cardinality(B \cup {x})
  BY <1>1, FS_Subset, FS_CardinalityType
<1> QED
  BY <1>1, <1>2

LEMMA NoMore ==
  ASSUME NEW A, NEW B, IsFiniteSet(B), A \subseteq B
  PROVE  Cardinality(A) \in Nat /\ Cardinality(B) \in Nat /\ Cardinality(A) <= Cardinality(B)
BY FS_Subset, FS_CardinalityType

(* They keep their types, and nothing is known before the scan.            *)
LEMMA NoteTypesStep ==
  ASSUME NoteTypes, [Next]_vars
  PROVE  NoteTypes'
<1> USE DEF NoteTypes
<1>1. /\ step' \in {"resolve", "declare", "scan"} =>
           (step \in {"resolve", "declare", "scan"} /\ UNCHANGED Sourcing) \/ Republish
      /\ step' = "inspect" => transform' # "sample"
      /\ step' = "measure" => transform' = "sample"
  <2>1. CASE Prepare \/ Scan \/ Measure \/ Stage \/ OpenWriter \/ Finish \/ Describe \/ WriteManifest
    BY <2>1 DEF Prepare, Scan, Measure, Stage, OpenWriter, Finish, Describe, WriteManifest,
       Proceed, Sourcing, input, source
  <2>2. CASE PrepareFails \/ Malformed \/ Missing \/ DropStaging
    BY <2>2 DEF PrepareFails, Malformed, Missing, DropStaging, Fail, Proceed
  <2>3. CASE \E kind \in Kinds : Fails(kind) \/ PublishStep(kind) \/ DropWriter(kind)
    BY <2>3 DEF Fails, StageFails, WriteRecordFails, BuildFails, FinishFails, PublishStep,
       DropWriter, Fail, Proceed
  <2>4. CASE Report \/ ReportPanics \/ Killed \/ CloseSource \/ WriteRecord
    BY <2>4 DEF Report, ReportPanics, Killed, CloseSource, Streamed, WriteRecord, Proceed
  <2>5. CASE \E f \in listed : Inspect(f) \/ NoteSource(f) \/ SampleFile(f) \/ OpenSource(f)
    BY <2>5 DEF Inspect, NoteSource, SampleFile, OpenSource, NextFile, Proceed, source
  <2>6. CASE UNCHANGED vars
    BY <2>6 DEF vars, Sourcing, input, source
  <2>7. CASE Republish
    BY <2>7 DEF Republish
  <2> QED
    BY <2>1, <2>2, <2>3, <2>4, <2>5, <2>6, <2>7 DEF Next, Proceeds
<1>2. CASE UNCHANGED Sourcing
  BY <1>1, <1>2 DEF Sourcing, source, found, Republish
<1>3. CASE Scan
  BY <1>1, <1>3, SourceFacts DEF Scan, source, Sourcing, found, Republish, Proceed
<1>4. CASE Republish
  BY <1>1, <1>4 DEF Republish, found
<1>5. CASE CloseSource \/ WriteRecord
  BY <1>1, <1>5 DEF CloseSource, Streamed, WriteRecord, source, found, Sourcing, Republish
<1>6. CASE \E f \in listed : Inspect(f) \/ NoteSource(f) \/ SampleFile(f) \/ OpenSource(f)
  BY <1>1, <1>6 DEF Inspect, NoteSource, SampleFile, OpenSource, NextFile, Note, Open, Proceed, source
<1> QED
  BY <1>2, <1>3, <1>4, <1>5, <1>6, InputStep

LEMMA SamplerStep ==
  ASSUME NoteTypes, SamplerNotes, [Next]_vars
  PROVE  SamplerNotes'
<1> USE DEF NoteTypes
<1> SUFFICES ASSUME transform' = "sample"
             PROVE  (reading # 0 => reading \in todo)' /\ Cardinality(Suspect') <= replaced'
  BY DEF SamplerNotes
<1>1. transform = "sample"
  BY InputStep DEF Sourcing, Scan, Republish, CloseSource, WriteRecord, Inspect, NoteSource,
     SampleFile, OpenSource, source
<1>2. /\ reading # 0 => reading \in todo
      /\ Cardinality(Suspect) <= replaced /\ IsFiniteSet(Suspect)
  <2>1. Suspect \subseteq listed
    BY DEF Suspect
  <2> QED
    BY <1>1, <2>1, FS_Subset DEF SamplerNotes
<1>3. ASSUME Suspect' \subseteq Suspect, replaced' = replaced
      PROVE  Cardinality(Suspect') <= replaced'
  <2> DEFINE T == Suspect
             U == Suspect'
  <2> HIDE DEF T, U
  <2>1. Cardinality(U) \in Nat /\ Cardinality(T) \in Nat /\ Cardinality(U) <= Cardinality(T)
    BY <1>2, <1>3, NoMore DEF T, U
  <2> QED
    BY <1>2, <1>3, <2>1 DEF T, U
<1>4. CASE UNCHANGED Sourcing
  BY <1>2, <1>3, <1>4 DEF Sourcing, source, found, Suspect
<1>5. CASE Scan
  <2>1. step = "scan" /\ todo' = listed' /\ reading' = reading /\ reading = 0 /\ replaced' = replaced
    BY <1>5 DEF Scan, source
  <2>2. 0 \notin Names
    BY CorporaAssumption, SuccessorAssumption DEF Names
  <2>3. listed' \subseteq Names
    BY NoteTypesStep
  <2>4. Suspect' \subseteq Suspect
    BY <2>1, <2>2, <2>3 DEF Suspect
  <2> QED
    BY <1>3, <2>1, <2>4
<1>6. CASE Republish
  <2>1. /\ replaced' = replaced + 1
        /\ UNCHANGED <<listed, noted, opened, todo, reading>>
    BY <1>6 DEF Republish, found
  <2>2. Suspect' \subseteq Suspect \cup {reading}
    BY <2>1 DEF Suspect
  <2> DEFINE T == Suspect
             U == Suspect'
  <2> HIDE DEF T, U
  <2>3. Cardinality(U) \in Nat /\ Cardinality(T) \in Nat /\ Cardinality(U) <= Cardinality(T) + 1
    BY <1>2, <2>2, OneMore DEF T, U
  <2> QED
    BY <1>2, <2>1, <2>3 DEF T, U
<1>7. CASE CloseSource \/ \E f \in listed : OpenSource(f)
  BY <1>1, <1>7 DEF CloseSource, Streamed, OpenSource
<1>8. CASE WriteRecord
  BY <1>2, <1>3, <1>8 DEF WriteRecord, source, found, Suspect
<1>9. CASE \E f \in listed : Inspect(f)
  BY <1>1, <1>9 DEF Inspect
<1>10. ASSUME NEW f \in listed, NoteSource(f) PROVE SamplerNotes'
  <2>1. /\ reading' = f /\ f \in todo /\ reading = 0 /\ noted' = [noted EXCEPT ![f] = sources[f]]
        /\ f \in DOMAIN sources
        /\ UNCHANGED <<sources, replaced, listed, opened, todo>>
    BY <1>10 DEF NoteSource, NextFile, Note, source
  <2>2. Suspect' \subseteq Suspect
    BY <2>1 DEF Suspect
  <2> QED
    BY <1>3, <2>1, <2>2 DEF SamplerNotes
<1>11. ASSUME NEW f \in listed, SampleFile(f) PROVE SamplerNotes'
  <2>1. /\ reading' = 0 /\ reading = f /\ todo' = todo \ {f}
        /\ opened' = [opened EXCEPT ![f] = sources[f]] /\ f \in DOMAIN sources
        /\ UNCHANGED <<sources, replaced, listed, noted>>
    BY <1>11 DEF SampleFile, Open, source
  <2>2. f # 0 /\ f \in todo
    <3>1. 0 \notin Names
      BY CorporaAssumption, SuccessorAssumption DEF Names
    <3> QED
      BY <1>2, <2>1, <3>1
  <2>3. \A g \in listed : g # f => (opened'[g] = opened[g] /\ (g \in todo' <=> g \in todo))
    BY <2>1
  <2>4. Suspect' \subseteq Suspect
    <3> SUFFICES ASSUME NEW g \in Suspect' PROVE g \in Suspect
      OBVIOUS
    <3>1. g \in listed /\ g # 0
      BY <2>1, CorporaAssumption, SuccessorAssumption DEF Suspect, Names
    <3>2. g \notin todo' /\ noted[g] # opened'[g]
      BY <2>1, <3>1 DEF Suspect
    <3>3. CASE g = f
      BY <2>1, <2>2, <3>1, <3>2, <3>3 DEF Suspect
    <3>4. CASE g # f
      BY <2>3, <3>1, <3>2, <3>4 DEF Suspect
    <3> QED
      BY <3>3, <3>4
  <2> QED
    BY <1>3, <2>1, <2>4 DEF SamplerNotes
<1> QED
  BY <1>4, <1>5, <1>6, <1>7, <1>8, <1>9, <1>10, <1>11, InputStep DEF SamplerNotes

LEMMA OthersStep ==
  ASSUME NoteTypes, DOMAIN pc = {Run}, Course, OthersNote, [Next]_vars
  PROVE  OthersNote'
<1> USE DEF NoteTypes
<1> SUFFICES ASSUME transform' # "sample", replaced' = 0
             PROVE  (/\ listed \subseteq DOMAIN sources
                     /\ \A f \in listed : /\ noted[f] \in {NoFile, sources[f]}
                                          /\ f \notin todo => opened[f] = sources[f]
                     /\ Prepared => \A f \in listed : noted[f] # NoFile)'
  BY DEF OthersNote
<1>1. transform # "sample" /\ replaced = 0 /\ UNCHANGED sources
  BY InputStep DEF Sourcing, Scan, Republish, CloseSource, WriteRecord, Inspect, NoteSource,
     SampleFile, OpenSource, source
<1>2. /\ listed \subseteq DOMAIN sources
      /\ \A f \in listed : noted[f] \in {NoFile, sources[f]} /\ (f \notin todo => opened[f] = sources[f])
      /\ Prepared => \A f \in listed : noted[f] # NoFile
  BY <1>1 DEF OthersNote
<1>3. \A f \in DOMAIN sources : sources[f] # NoFile
  BY SourceFacts
<1>4. Prepared' => Prepared \/ \E f \in listed : Inspect(f)
  BY <1>1, Onwards DEF Measure
<1>5. CASE UNCHANGED <<listed, noted>> /\ \A f \in listed : f \notin todo' => opened'[f] = sources[f]
  <2>1. ASSUME NEW f \in listed, Inspect(f) PROVE FALSE
    <3>1. f \in Nat /\ f \in DOMAIN noted
      BY CorporaAssumption, SuccessorAssumption DEF Names
    <3>2. f \in DOMAIN sources /\ noted[f] = NoFile /\ noted'[f] = sources[f]
      BY <2>1, <3>1 DEF Inspect, Note
    <3> QED
      BY <1>3, <1>5, <3>2
  <2> QED
    BY <1>1, <1>2, <1>4, <1>5, <2>1
<1>6. CASE UNCHANGED Sourcing \/ CloseSource \/ WriteRecord \/ Republish
  BY <1>2, <1>5, <1>6 DEF Sourcing, source, found, CloseSource, WriteRecord, Republish
<1>7. CASE Scan
  <2>1. step = "scan" /\ listed' = DOMAIN sources /\ todo' = listed' /\ UNCHANGED <<noted, opened, pc>>
    BY <1>7 DEF Scan, staged
  <2>2. ~Prepared'
    <3>1. step' = "inspect" /\ pc[Run] = "idle"
      BY <1>1, <1>7 DEF Scan, Proceed, Course, Before
    <3> QED
      BY <2>1, <3>1 DEF Prepared, Building, Swapping
  <2>3. \A f \in listed' : noted'[f] = NoFile
    BY <2>1, NoteTypesStep
  <2> QED
    BY <1>1, <2>1, <2>2, <2>3
<1>8. ASSUME NEW f \in listed, Inspect(f) PROVE OthersNote'
  <2>1. /\ f \in DOMAIN sources /\ noted' = [noted EXCEPT ![f] = sources[f]]
        /\ \A g \in listed : noted[g] = NoFile <=> g >= f
        /\ step' = IF \E g \in listed : g > f THEN "inspect" ELSE "stage"
        /\ step = "inspect" /\ UNCHANGED <<listed, opened, todo, pc>>
    BY <1>8 DEF Inspect, Note, Proceed, staged
  <2>2. \A g \in listed : noted'[g] \in {NoFile, sources[g]}
    BY <1>2, <2>1
  <2>3. Prepared' => \A g \in listed : noted'[g] # NoFile
    <3> SUFFICES ASSUME Prepared', NEW g \in listed PROVE noted'[g] # NoFile
      OBVIOUS
    <3>1. pc[Run] = "idle"
      BY <2>1 DEF Course, Before
    <3>2. step' = "stage"
      BY <2>1, <3>1 DEF Prepared, Building, Swapping
    <3>3. f \in Nat /\ g \in Nat
      BY CorporaAssumption, SuccessorAssumption DEF Names
    <3>4. ~(g > f)
      BY <2>1, <3>2
    <3>5. g = f \/ ~(g >= f)
      BY <3>3, <3>4
    <3> QED
      BY <1>3, <2>1, <3>5
  <2> QED
    BY <1>1, <1>2, <2>1, <2>2, <2>3 DEF OthersNote
<1>9. ASSUME NEW f \in listed, OpenSource(f) PROVE OthersNote'
  <2>1. /\ todo' = todo \ {f} /\ opened' = [opened EXCEPT ![f] = sources[f]]
        /\ UNCHANGED <<listed, noted>>
    BY <1>9 DEF OpenSource, Open
  <2>2. \A g \in listed : g \notin todo' => opened'[g] = sources[g]
    BY <1>2, <2>1
  <2> QED
    BY <1>5, <2>1, <2>2 DEF OthersNote
<1>10. ~\E f \in listed : NoteSource(f) \/ SampleFile(f)
  BY <1>1 DEF NoteSource, SampleFile
<1> QED
  BY <1>6, <1>7, <1>8, <1>9, <1>10, InputStep DEF OthersNote

(* The lengths, in every state of a run.                                   *)
LEMMA NotesKept == Spec => []NoteInv
<1>1. Init => NoteInv
  <2> SUFFICES ASSUME Init PROVE NoteInv
    OBVIOUS
  <2>1. NoteTypes
    BY FS_EmptySet DEF Init, NoteTypes
  <2>2. Consumed
    BY DEF Init, Consumed, Late
  <2>3. SamplerNotes /\ OthersNote
    <3>1. Suspect = {} /\ Cardinality({}) = 0
      BY FS_EmptySet DEF Init, Suspect
    <3> QED
      BY <3>1 DEF Init, SamplerNotes, OthersNote
  <2> QED
    BY <2>1, <2>2, <2>3 DEF NoteInv
<1>2. Settled /\ Course /\ NoteInv /\ [Next]_vars => NoteInv'
  BY NoteTypesStep, ConsumedStep, SamplerStep, OthersStep DEF Settled, NoteInv
<1> QED
  BY <1>1, <1>2, ExitFacts, PTL DEF Spec

(* The manifest gives each file the length it had when it was read, unless *)
(* the source was replaced meanwhile; and a sampler has no more of them    *)
(* wrong than there were replacements.                                     *)
THEOREM NamesAsRead == Spec => []NamedAsRead
<1>1. NoteInv => NamedAsRead
  <2> SUFFICES ASSUME NoteInv, Published PROVE NamedAsRead
    BY DEF NamedAsRead
  <2> USE DEF NoteInv, NoteTypes
  <2> DEFINE stale == {f \in listed : noted[f] # opened[f]}
  <2>1. Late /\ Prepared /\ todo = {}
    BY DEF Published, Late, Prepared, Swapping, Consumed
  <2>2. Suspect = stale
    BY <2>1 DEF Suspect
  <2>3. transform = "sample" => Cardinality(stale) <= replaced
    BY <2>2 DEF SamplerNotes
  <2>4. ASSUME replaced = 0 PROVE stale = {}
    <3>1. CASE transform = "sample"
      <4>1. IsFiniteSet(stale) /\ Cardinality(stale) \in Nat
        <5>1. stale \subseteq listed
          OBVIOUS
        <5> HIDE DEF stale
        <5> QED
          BY <5>1, FS_Subset, FS_CardinalityType
      <4>2. Cardinality(stale) = 0
        BY <2>3, <2>4, <3>1, <4>1
      <4> HIDE DEF stale
      <4> QED
        BY <4>1, <4>2, FS_EmptySet
    <3>2. CASE transform # "sample"
      BY <2>1, <2>4, <3>2 DEF OthersNote
    <3> QED
      BY <3>1, <3>2
  <2> QED
    BY <2>3, <2>4 DEF NamedAsRead
<1> QED
  BY <1>1, NotesKept, PTL

-----------------------------------------------------------------------------
(* The records read and written.                                           *)

(* A set of natural numbers has a least one.                               *)
LEMMA Least ==
  ASSUME NEW T \in SUBSET Nat, T # {}
  PROVE  \E n \in T : \A m \in T : n <= m
<1>1. PICK x \in T : \A y \in T : ~ (<<y, x>> \in OpToRel(<, Nat))
  BY NatLessThanWellFounded, WFMin, Zenon
<1>2. \A y \in T : ~(y < x)
  <2> SUFFICES ASSUME NEW y \in T, y < x PROVE FALSE
    OBVIOUS
  <2>1. <<y, x>> \in OpToRel(<, Nat)
    BY Zenon DEF OpToRel
  <2> QED
    BY <1>1, <2>1, Zenon
<1> QED
  BY <1>2

(* One token for every record of the files fs, as it says they are.        *)
Tokens(it, fs) == {p \in fs \X (1 .. MaxRecords) : p[2] <= it[p[1]].records}

(* One more file, as many more tokens as it has records.                   *)
LEMMA TokensAdd ==
  ASSUME NEW it, NEW fs, IsFiniteSet(fs), NEW f, f \notin fs, it[f].records \in 0 .. MaxRecords
  PROVE  /\ IsFiniteSet(Tokens(it, fs)) /\ Cardinality(Tokens(it, fs)) \in Nat
         /\ Cardinality(Tokens(it, fs \cup {f})) = Cardinality(Tokens(it, fs)) + it[f].records
<1> DEFINE n == it[f].records
           mine == {f} \X (1 .. n)
<1>1. n \in Nat /\ n <= MaxRecords /\ MaxRecords \in Nat
  BY RecordsAssumption
<1>2. IsFiniteSet(Tokens(it, fs)) /\ Cardinality(Tokens(it, fs)) \in Nat
  <2>1. IsFiniteSet(1 .. MaxRecords)
    <3>1. 1 \in Int /\ MaxRecords \in Int
      BY <1>1
    <3> QED
      BY <3>1, FS_Interval
  <2>2. IsFiniteSet(fs \X (1 .. MaxRecords))
    BY <2>1, FS_Product
  <2>3. Tokens(it, fs) \subseteq fs \X (1 .. MaxRecords)
    BY DEF Tokens
  <2>4. IsFiniteSet(Tokens(it, fs))
    BY <2>2, <2>3, FS_Subset
  <2> QED
    BY <2>4, FS_CardinalityType
<1> HIDE DEF n
<1>3. IsFiniteSet(mine) /\ Cardinality(mine) = n
  <2>1. IsFiniteSet({f}) /\ Cardinality({f}) = 1
    BY FS_Singleton
  <2>2. IsFiniteSet(1 .. n) /\ Cardinality(1 .. n) = n
    <3>1. 1 \in Int /\ n \in Int
      BY <1>1
    <3>2. IsFiniteSet(1 .. n) /\ Cardinality(1 .. n) = IF 1 > n THEN 0 ELSE n - 1 + 1
      BY <3>1, FS_Interval
    <3> QED
      BY <1>1, <3>2
  <2>3. IsFiniteSet({f} \X (1 .. n)) /\ Cardinality({f} \X (1 .. n)) = Cardinality({f}) * Cardinality(1 .. n)
    BY <2>1, <2>2, FS_Product
  <2> QED
    BY <1>1, <2>1, <2>2, <2>3
<1>4. Tokens(it, fs \cup {f}) = Tokens(it, fs) \cup mine
  <2>1. ASSUME NEW p \in Tokens(it, fs \cup {f}) PROVE p \in Tokens(it, fs) \cup mine
    <3>1. /\ p[1] \in fs \cup {f} /\ p[2] \in 1 .. MaxRecords /\ p = <<p[1], p[2]>>
          /\ p[2] <= it[p[1]].records
      BY DEF Tokens
    <3>2. CASE p[1] = f
      <4>1. p[2] \in 1 .. n
        BY <1>1, <3>1, <3>2 DEF n
      <4> QED
        BY <3>1, <3>2, <4>1
    <3>3. CASE p[1] # f
      BY <3>1, <3>3 DEF Tokens
    <3> QED
      BY <3>2, <3>3
  <2>2. ASSUME NEW p \in mine PROVE p \in Tokens(it, fs \cup {f})
    <3>1. p[1] = f /\ p[2] \in 1 .. n /\ p = <<p[1], p[2]>>
      OBVIOUS
    <3>2. p[2] \in 1 .. MaxRecords /\ p[2] <= it[p[1]].records
      BY <1>1, <3>1 DEF n
    <3> QED
      BY <3>1, <3>2 DEF Tokens
  <2>3. Tokens(it, fs) \subseteq Tokens(it, fs \cup {f})
    BY DEF Tokens
  <2> QED
    BY <2>1, <2>2, <2>3
<1>5. Tokens(it, fs) \cap mine = {}
  <2> SUFFICES ASSUME NEW p \in Tokens(it, fs), p \in mine PROVE FALSE
    OBVIOUS
  <2>1. p[1] \in fs /\ p[1] = f
    BY DEF Tokens
  <2> QED
    BY <2>1
<1> HIDE DEF mine
<1>6. Cardinality(Tokens(it, fs) \cup mine)
        = Cardinality(Tokens(it, fs)) + Cardinality(mine) - Cardinality(Tokens(it, fs) \cap mine)
  BY <1>2, <1>3, FS_Union
<1>7. Cardinality(Tokens(it, fs) \cap mine) = 0
  BY <1>5, FS_EmptySet
<1>8. Cardinality(Tokens(it, fs \cup {f})) = Cardinality(Tokens(it, fs)) + n
  <2>1. Cardinality(Tokens(it, fs) \cup mine) = Cardinality(Tokens(it, fs)) + n
    BY <1>1, <1>2, <1>3, <1>6, <1>7
  <2> QED
    BY <1>4, <2>1
<1> QED
  BY <1>2, <1>8 DEF n

(* The sum of the property, for any account of the files.                  *)
Total(it, fs) == MapThenSumSet(LAMBDA f : it[f].records, fs)

(* What solves the equation that defines the sum over the subsets of fs.   *)
Sums(it, g, fs) ==
  g = [s \in SUBSET fs |->
         IF s = {} THEN 0
         ELSE it[CHOOSE x \in s : TRUE].records + g[s \ {CHOOSE x \in s : TRUE}]]

LEMMA SumIsFold ==
  ASSUME NEW it, NEW fs
  PROVE  Total(it, fs) = (CHOOSE g : Sums(it, g, fs))[fs]
BY DEF Total, MapThenSumSet, MapThenFoldSet, Sums

(* The records of the files fs, as the property counts them, are their     *)
(* tokens: the equation has a solution, and of two that differ somewhere   *)
(* the smallest set where they do would have a smaller one.                *)
LEMMA TotalIsTokens ==
  ASSUME NEW it, NEW fs, IsFiniteSet(fs), \A f \in fs : it[f].records \in 0 .. MaxRecords
  PROVE  Total(it, fs) = Cardinality(Tokens(it, fs))
<1> DEFINE any(s) == CHOOSE x \in s : TRUE
           h == [s \in SUBSET fs |-> Cardinality(Tokens(it, s))]
<1>1. \A s \in SUBSET fs : IsFiniteSet(s) /\ Cardinality(s) \in Nat
  BY FS_Subset, FS_CardinalityType
<1>2. ASSUME NEW s \in SUBSET fs, s # {}
      PROVE  /\ any(s) \in s /\ s \ {any(s)} \in SUBSET fs
             /\ Cardinality(s \ {any(s)}) = Cardinality(s) - 1
             /\ h[s] = it[any(s)].records + h[s \ {any(s)}]
  <2>1. any(s) \in s
    BY <1>2
  <2> DEFINE x == any(s)
             r == s \ {x}
  <2> HIDE DEF x
  <2>2. x \in s /\ r \in SUBSET fs /\ x \notin r /\ s = r \cup {x} /\ x \in fs
    BY <2>1 DEF x
  <2>3. IsFiniteSet(s) /\ Cardinality(r) = Cardinality(s) - 1 /\ IsFiniteSet(r)
    BY <1>1, <2>2, FS_RemoveElement
  <2>4. it[x].records \in 0 .. MaxRecords
    BY <2>2
  <2> HIDE DEF r
  <2>5. /\ Cardinality(Tokens(it, r)) \in Nat
        /\ Cardinality(Tokens(it, r \cup {x})) = Cardinality(Tokens(it, r)) + it[x].records
    BY <2>2, <2>3, <2>4, TokensAdd
  <2>6. h[s] = Cardinality(Tokens(it, s)) /\ h[r] = Cardinality(Tokens(it, r))
    BY <2>2
  <2>7. h[s] = it[x].records + h[r]
    BY RecordsAssumption, <2>2, <2>4, <2>5, <2>6
  <2> HIDE DEF h
  <2> QED
    BY <2>2, <2>3, <2>7 DEF x, r
<1>3. h[{}] = 0
  <2>1. Tokens(it, {}) = {}
    BY DEF Tokens
  <2> QED
    BY <2>1, FS_EmptySet
<1>4. Sums(it, h, fs)
  <2> DEFINE k == [s \in SUBSET fs |-> IF s = {} THEN 0 ELSE it[any(s)].records + h[s \ {any(s)}]]
  <2>1. ASSUME NEW s \in SUBSET fs PROVE h[s] = k[s]
    <3>1. CASE s = {}
      BY <1>3, <3>1
    <3>2. CASE s # {}
      <4>1. h[s] = it[any(s)].records + h[s \ {any(s)}]
        BY <1>2, <3>2
      <4> HIDE DEF h
      <4> QED
        BY <3>2, <4>1
    <3> QED
      BY <3>1, <3>2
  <2>2. h = k
    <3>1. h = [s \in SUBSET fs |-> h[s]] /\ k = [s \in SUBSET fs |-> k[s]]
      OBVIOUS
    <3> HIDE DEF h, k
    <3> QED
      BY <2>1, <3>1
  <2> HIDE DEF h
  <2> QED
    BY <2>2 DEF Sums
<1>5. PICK g : g = (CHOOSE e : Sums(it, e, fs)) /\ Sums(it, g, fs)
  BY <1>4, Zenon
<1> HIDE DEF h
<1>6. ASSUME NEW s \in SUBSET fs
      PROVE  g[s] = IF s = {} THEN 0 ELSE it[any(s)].records + g[s \ {any(s)}]
  BY <1>5, Zenon DEF Sums
<1> HIDE DEF any
<1> DEFINE Wrong == {n \in Nat : \E s \in SUBSET fs : Cardinality(s) = n /\ g[s] # h[s]}
<1>7. Wrong = {}
  <2> SUFFICES ASSUME Wrong # {} PROVE FALSE
    OBVIOUS
  <2>1. PICK n \in Wrong : \A m \in Wrong : n <= m
    <3>1. Wrong \in SUBSET Nat
      OBVIOUS
    <3> HIDE DEF Wrong
    <3> QED
      BY <3>1, Least
  <2>2. PICK s \in SUBSET fs : Cardinality(s) = n /\ g[s] # h[s]
    BY <2>1
  <2>3. s # {}
    BY <1>3, <1>6, <2>2
  <2>4. s \ {any(s)} \in SUBSET fs /\ Cardinality(s \ {any(s)}) = n - 1 /\ n \in Nat
    BY <1>1, <1>2, <2>2, <2>3
  <2>5. g[s \ {any(s)}] # h[s \ {any(s)}]
    BY <1>2, <1>6, <2>2, <2>3
  <2>6. n - 1 \in Nat
    BY <1>1, <2>4
  <2>7. n - 1 \in Wrong
    BY <2>4, <2>5, <2>6
  <2> HIDE DEF Wrong
  <2> QED
    BY <2>1, <2>4, <2>7
<1>8. g[fs] = h[fs]
  BY <1>1, <1>7
<1> QED
  BY <1>5, <1>8, SumIsFold DEF h

(* One more file adds its records to the sum.                              *)
LEMMA TotalAdds ==
  ASSUME NEW it, NEW fs, IsFiniteSet(fs), NEW f, f \notin fs,
         \A g \in fs \cup {f} : it[g].records \in 0 .. MaxRecords
  PROVE  Total(it, fs) \in Nat /\ Total(it, fs \cup {f}) = Total(it, fs) + it[f].records
<1>1. /\ Cardinality(Tokens(it, fs)) \in Nat
      /\ Cardinality(Tokens(it, fs \cup {f})) = Cardinality(Tokens(it, fs)) + it[f].records
  <2>1. it[f].records \in 0 .. MaxRecords
    OBVIOUS
  <2> QED
    BY <2>1, TokensAdd
<1>2. IsFiniteSet(fs \cup {f})
  BY FS_AddElement
<1>3. Total(it, fs \cup {f}) = Cardinality(Tokens(it, fs \cup {f}))
  BY <1>2, TotalIsTokens
<1>4. Total(it, fs) = Cardinality(Tokens(it, fs))
  <2>1. \A g \in fs : it[g].records \in 0 .. MaxRecords
    OBVIOUS
  <2> QED
    BY <2>1, TotalIsTokens
<1> QED
  BY <1>1, <1>3, <1>4

(* What is said of other files does not matter to it.                      *)
LEMMA TotalSame ==
  ASSUME NEW it, NEW at, NEW fs, IsFiniteSet(fs),
         \A g \in fs : it[g].records \in 0 .. MaxRecords,
         \A g \in fs : at[g] = it[g]
  PROVE  Total(at, fs) = Total(it, fs)
<1>1. \A g \in fs : at[g].records \in 0 .. MaxRecords
  OBVIOUS
<1>2. Total(it, fs) = Cardinality(Tokens(it, fs))
  BY TotalIsTokens
<1>3. Total(at, fs) = Cardinality(Tokens(at, fs))
  BY <1>1, TotalIsTokens
<1>4. Tokens(it, fs) = Tokens(at, fs)
  BY DEF Tokens
<1> QED
  BY <1>2, <1>3, <1>4

(* The files that have been opened.                                        *)
Taken == listed \ todo

(* What has been read of them is what was written, and what is still to be *)
(* read of the last is left; a sampler has read them whole, and what it    *)
(* has not written it dropped or has left.                                 *)
Tallied ==
  IF transform = "sample"
    THEN /\ records_read = RecordsIn(Taken) /\ records_written + left <= records_read
         /\ reading # 0 => left = 0
    ELSE /\ records_read + left = RecordsIn(Taken) /\ records_written = records_read
         /\ reading = 0 => left = 0

ReadInv ==
  /\ todo \subseteq listed
  /\ left \in Nat /\ records_read \in Nat /\ records_written \in Nat
  /\ \A f \in Taken : opened[f] \in CorpusFile
  /\ Tallied

(* Only a record written, or a file sampled, counts.                       *)
LEMMA CountsStep ==
  ASSUME [Next]_vars
  PROVE  \/ UNCHANGED <<records_read, records_written>>
         \/ WriteRecord \/ \E f \in listed : SampleFile(f)
<1> USE DEF input, writer
<1>1. CASE Prepare \/ Measure \/ Stage \/ OpenWriter \/ Describe \/ WriteManifest \/ Scan \/ CloseSource
  BY <1>1 DEF Prepare, Measure, Stage, OpenWriter, Describe, WriteManifest, Scan, CloseSource
<1>2. CASE PrepareFails \/ Malformed \/ Missing \/ DropStaging \/ Report \/ ReportPanics \/ Killed \/ Republish
  BY <1>2 DEF PrepareFails, Malformed, Missing, DropStaging, Report, ReportPanics, Killed, Republish
<1>3. CASE Finish \/ \E kind \in Kinds : WriteRecordFails(kind) \/ FinishFails(kind)
  BY <1>3 DEF Finish, WriteRecordFails, FinishFails, W!Finish, W!FlushTail, W!WriteFails,
     W!FinishFails, W!FlushFails
<1>4. CASE \E kind \in Kinds : StageFails(kind) \/ BuildFails(kind) \/ PublishStep(kind)
  BY <1>4 DEF StageFails, BuildFails, PublishStep
<1>5. CASE \E kind \in Kinds : DropWriter(kind)
  BY <1>5 DEF DropWriter, W!DropQuietly, W!DropFlushing, W!DropFails
<1>6. CASE \E f \in listed : Inspect(f) \/ NoteSource(f) \/ OpenSource(f)
  BY <1>6 DEF Inspect, NoteSource, OpenSource
<1>7. CASE UNCHANGED vars
  BY <1>7 DEF vars
<1> QED
  BY <1>1, <1>2, <1>3, <1>4, <1>5, <1>6, <1>7 DEF Next, Proceeds, Fails

(* The sum is a function of what was opened and of which files that were.  *)
LEMMA TakenTotal ==
  RecordsIn(Taken) = Total(opened, Taken) /\ RecordsIn(Taken)' = Total(opened', Taken')
BY DEF RecordsIn, Total, MapThenSumSet, MapThenFoldSet

(* A file that is opened adds its records to what has been taken.          *)
LEMMA OpenTakes ==
  ASSUME NoteTypes, ReadInv, NEW f \in todo, Open(f), UNCHANGED <<sources, listed>>
  PROVE  /\ todo' \subseteq listed' /\ f \in Names /\ f # 0
         /\ sources[f].records \in 0 .. MaxRecords
         /\ \A g \in Taken' : opened'[g] \in CorpusFile
         /\ RecordsIn(Taken)' = RecordsIn(Taken) + sources[f].records
         /\ RecordsIn(Taken) \in Nat
<1>1. /\ f \in listed /\ f \in Names /\ f \in DOMAIN sources /\ f \notin Taken
      /\ todo' = todo \ {f} /\ opened' = [opened EXCEPT ![f] = sources[f]]
      /\ Taken' = Taken \cup {f} /\ IsFiniteSet(Taken) /\ DOMAIN opened = Names
      /\ Taken \subseteq Names
  <2>1. IsFiniteSet(Taken)
    BY FS_Difference DEF NoteTypes, Taken
  <2> QED
    BY <2>1 DEF NoteTypes, ReadInv, Open, Taken
<1>2. f # 0 /\ sources[f] \in CorpusFile
  BY <1>1, CorporaAssumption, SuccessorAssumption DEF NoteTypes
<1>3. \A it \in CorpusFile : it.records \in 0 .. MaxRecords
  BY DEF CorpusFile
<1>4. opened'[f] = sources[f] /\ \A g \in Taken : opened'[g] = opened[g] /\ opened[g] \in CorpusFile
  BY <1>1 DEF ReadInv
<1>5. /\ Total(opened, Taken) \in Nat
      /\ Total(opened', Taken \cup {f}) = Total(opened, Taken) + opened'[f].records
  <2> DEFINE it == opened
             at == opened'
             fs == Taken
  <2>1. IsFiniteSet(fs) /\ f \notin fs
    BY <1>1
  <2>2. \A g \in fs : it[g].records \in 0 .. MaxRecords
    BY <1>3, <1>4
  <2>3. \A g \in fs : at[g] = it[g]
    BY <1>4
  <2>4. \A g \in fs \cup {f} : at[g].records \in 0 .. MaxRecords
    BY <1>2, <1>3, <1>4
  <2> HIDE DEF it, at, fs
  <2>5. Total(at, fs) = Total(it, fs)
    BY <2>1, <2>2, <2>3, TotalSame
  <2>6. Total(at, fs) \in Nat /\ Total(at, fs \cup {f}) = Total(at, fs) + at[f].records
    BY <2>1, <2>4, TotalAdds
  <2> QED
    BY <2>5, <2>6 DEF it, at, fs
<1>6. RecordsIn(Taken)' = Total(opened', Taken') /\ RecordsIn(Taken) = Total(opened, Taken)
  BY TakenTotal
<1>7. \A g \in Taken' : opened'[g] \in CorpusFile
  BY <1>1, <1>2, <1>4
<1> QED
  BY <1>1, <1>2, <1>3, <1>4, <1>5, <1>6, <1>7 DEF ReadInv

(* Every step keeps the tally.                                             *)
LEMMA ReadStep ==
  ASSUME NoteTypes, SamplerNotes, ReadInv, [Next]_vars
  PROVE  ReadInv'
<1> USE DEF ReadInv
<1>1. ASSUME UNCHANGED <<transform, opened, records_read, records_written, left>>,
             Taken' = Taken, todo' \subseteq listed', reading' = 0 \/ (reading' # 0 /\ reading # 0),
             transform # "sample" /\ reading' = 0 => left = 0
      PROVE  ReadInv'
  <2>1. RecordsIn(Taken)' = RecordsIn(Taken)
    BY <1>1, TakenTotal
  <2> QED
    BY <1>1, <2>1 DEF Tallied
<1>2. CASE \E f \in listed : SampleFile(f)
  <2>1. PICK f \in listed : SampleFile(f)
    BY <1>2
  <2>2. /\ transform = "sample" /\ reading = f /\ Open(f) /\ reading' = 0
        /\ records_read' = records_read + sources[f].records
        /\ left' \in 0 .. sources[f].records
        /\ UNCHANGED <<transform, sources, listed, records_written>>
    BY <2>1 DEF SampleFile, source, writer
  <2>3. f # 0
    BY CorporaAssumption, SuccessorAssumption DEF NoteTypes, Names
  <2>4. f \in todo /\ left = 0
    BY <2>2, <2>3 DEF SamplerNotes, Tallied
  <2>5. /\ todo' \subseteq listed'
        /\ sources[f].records \in 0 .. MaxRecords
        /\ \A g \in Taken' : opened'[g] \in CorpusFile
        /\ RecordsIn(Taken)' = RecordsIn(Taken) + sources[f].records
        /\ RecordsIn(Taken) \in Nat
    BY <2>2, <2>4, OpenTakes
  <2>6. left' \in Nat /\ records_read' \in Nat /\ records_written' \in Nat
    BY <2>2, <2>5
  <2>7. records_read = RecordsIn(Taken) /\ records_written <= records_read
    BY <2>2, <2>4 DEF Tallied
  <2>8. Tallied'
    BY <2>2, <2>5, <2>6, <2>7 DEF Tallied
  <2> QED
    BY <2>5, <2>6, <2>8
<1>3. CASE \E f \in listed : OpenSource(f)
  <2>1. PICK f \in listed : OpenSource(f)
    BY <1>3
  <2>2. /\ transform # "sample" /\ reading = 0 /\ left = 0 /\ f \in todo /\ Open(f) /\ reading' = f
        /\ left' = sources[f].records
        /\ UNCHANGED <<transform, sources, listed, records_read, records_written>>
    BY <2>1 DEF OpenSource, NextFile, source, writer
  <2>3. /\ todo' \subseteq listed' /\ f # 0
        /\ sources[f].records \in 0 .. MaxRecords
        /\ \A g \in Taken' : opened'[g] \in CorpusFile
        /\ RecordsIn(Taken)' = RecordsIn(Taken) + sources[f].records
        /\ RecordsIn(Taken) \in Nat
    BY <2>2, OpenTakes
  <2>4. left' \in Nat
    BY <2>2, <2>3, RecordsAssumption
  <2>5. records_read = RecordsIn(Taken) /\ records_written = records_read
    BY <2>2, <2>3 DEF Tallied
  <2>6. Tallied'
    BY <2>2, <2>3, <2>4, <2>5 DEF Tallied
  <2> QED
    BY <2>2, <2>3, <2>4, <2>6
<1>4. CASE WriteRecord
  <2>1. /\ left > 0 /\ left' = left - 1 /\ records_written' = records_written + 1
        /\ records_read' = IF reading = 0 THEN records_read ELSE records_read + 1
        /\ UNCHANGED <<transform, opened, listed, todo, reading>>
    BY <1>4 DEF WriteRecord, CountRecord, W!WriteBuffered, W!WriteThrough, source, found
  <2>2. RecordsIn(Taken)' = RecordsIn(Taken) /\ Taken' = Taken
    BY <2>1, TakenTotal DEF Taken
  <2>3. left' \in Nat /\ records_read' \in Nat /\ records_written' \in Nat
    BY <2>1
  <2>4. Tallied'
    <3>1. CASE transform = "sample"
      BY <2>1, <2>2, <2>3, <3>1 DEF Tallied
    <3>2. CASE transform # "sample"
      <4>1. reading # 0 /\ records_read' = records_read + 1
        BY <2>1, <3>2 DEF Tallied
      <4>2. records_read' + left' = records_read + left
        BY <2>1, <4>1
      <4> QED
        BY <2>1, <2>2, <3>2, <4>1, <4>2 DEF Tallied
    <3> QED
      BY <3>1, <3>2
  <2> QED
    BY <2>1, <2>2, <2>3, <2>4
<1>5. CASE UNCHANGED <<records_read, records_written>>
  <2>1. CASE UNCHANGED Sourcing
    BY <1>1, <1>5, <2>1 DEF Sourcing, source, found, Taken, Tallied
  <2>2. CASE Scan
    <3>1. /\ todo' = listed' /\ listed = {} /\ todo = {} /\ reading = 0
          /\ UNCHANGED <<transform, opened, reading, left>>
      BY <2>2 DEF Scan, source, NoteTypes
    <3>2. Taken' = {} /\ Taken = {}
      BY <3>1 DEF Taken
    <3> QED
      BY <1>1, <1>5, <3>1, <3>2 DEF Tallied
  <2>3. CASE Republish
    BY <1>1, <1>5, <2>3 DEF Republish, found, Taken, Tallied
  <2>4. CASE CloseSource
    BY <1>1, <1>5, <2>4 DEF CloseSource, Streamed, source, found, Taken, Tallied
  <2>5. CASE \E f \in listed : Inspect(f)
    BY <1>1, <1>5, <2>5 DEF Inspect, Note, source, Taken, Tallied
  <2>6. CASE \E f \in listed : NoteSource(f)
    <3>1. PICK f \in listed : NoteSource(f)
      BY <2>6
    <3>2. /\ transform = "sample" /\ left = 0
          /\ UNCHANGED <<transform, opened, listed, todo, left>>
      BY <3>1 DEF NoteSource, NextFile, source
    <3>3. RecordsIn(Taken)' = RecordsIn(Taken) /\ Taken' = Taken
      BY <3>2, TakenTotal DEF Taken
    <3> QED
      BY <1>5, <3>2, <3>3 DEF Tallied
  <2> QED
    BY <1>2, <1>3, <1>4, <2>1, <2>2, <2>3, <2>4, <2>5, <2>6, InputStep
<1> QED
  BY <1>2, <1>4, <1>5, CountsStep

(* What is published holds every record of every file the scan found, each *)
(* read once - a sampler's, the ones it kept.                              *)
THEOREM WholeSourceIsRead == Spec => []WholeSourceRead
<1>1. Init => ReadInv
  <2> SUFFICES ASSUME Init PROVE ReadInv
    OBVIOUS
  <2>1. Taken = {} /\ IsFiniteSet({}) /\ Tokens(opened, {}) = {} /\ Cardinality({}) = 0
    BY FS_EmptySet DEF Init, Taken, Tokens
  <2>2. RecordsIn({}) = 0
    <3>1. Total(opened, {}) = 0
      BY <2>1, TotalIsTokens
    <3> QED
      BY <3>1 DEF RecordsIn, Total
  <2> QED
    BY <2>1, <2>2 DEF Init, W!Init, ReadInv, Tallied
<1>2. NoteInv /\ ReadInv /\ [Next]_vars => ReadInv'
  BY ReadStep DEF NoteInv
<1>3. NoteInv /\ ReadInv => WholeSourceRead
  <2> SUFFICES ASSUME NoteInv, ReadInv, Published PROVE WholeSourceRead
    BY DEF WholeSourceRead
  <2>1. todo = {} /\ reading = 0 /\ left = 0
    BY DEF Published, NoteInv, Consumed, Late, Swapping
  <2>2. Taken = listed
    BY <2>1 DEF Taken
  <2> QED
    BY <2>1, <2>2 DEF ReadInv, Tallied, WholeSourceRead
<1> QED
  BY <1>1, <1>2, <1>3, NotesKept, PTL DEF Spec

=============================================================================
