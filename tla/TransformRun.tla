---------------------------- MODULE TransformRun ----------------------------
(***************************************************************************)
(* One run of a transform, from the command line to the exit code: the     *)
(* straight-line code of sample(), quantise() and fuzz() with a failure at *)
(* every step that can fail, what the destructors do on the way out, and   *)
(* the code main() exits with.                                             *)
(*                                                                         *)
(* It composes two components: S, the staged publication, here of the one  *)
(* run Run, and W, the record writer, with a record as its byte.  Every    *)
(* step of the run is a step of S, of W, of both or of neither.  The       *)
(* reader is abstracted to what RecordReader shows of it: the records of   *)
(* each file in order, then an error where the file is empty or ends in    *)
(* the middle of a record; any read may fail.                              *)
(*                                                                         *)
(* Meanwhile whoever owns the source may put another corpus in its place,  *)
(* as staging.rs itself does where the source is a published corpus: files *)
(* are listed first and looked up by path later, but a file once opened    *)
(* stays the one it was.                                                   *)
(*                                                                         *)
(* The volume fills when the environment likes: each write that fails does *)
(* so for want of space ("full") or for another reason ("other").          *)
(***************************************************************************)
EXTENDS Integers, Sequences, FiniteSetsExt

CONSTANTS
  Commands,         \* the transforms to run
  Corpora,          \* the sources to run over: sequences of corpus files
  Successors,       \* what may take the source's place; <<>>: nothing for now
  Replacements,     \* bound: how often it does
  RecordsPerFlush,  \* records the writer's buffer holds
  MaxRecords,       \* bound: records a source holds
  PrintFails,       \* TRUE where standard output and error may fail too
  Run, Previous, PreviousFiles, NoDir, Faults   \* as in StagedCorpus

Transforms  == {"sample", "quantise", "fuzz"}
CorpusFile  == [records : 0 .. MaxRecords, whole : BOOLEAN]
Kinds       == {"full", "other"}

ASSUME CommandsAssumption  == Commands \subseteq Transforms
ASSUME CorporaAssumption   == Corpora \subseteq Seq(CorpusFile)
ASSUME SuccessorAssumption == Successors \subseteq Seq(CorpusFile) /\ Replacements \in Nat
ASSUME PrintAssumption     == PrintFails \in BOOLEAN
ASSUME FaultsAssumption    == "write" \in Faults   \* a source may be malformed

VARIABLES
  step,          \* where the run is
  transform,     \* what it runs
  sources,       \* what is at the source path: a sequence of files
  replaced,      \* how often that was replaced
  listed,        \* the files the scan found
  noted,         \* each file as it was when its length was noted
  opened,        \* each file as it was when it was opened
  todo,          \* the files not yet read
  reading,       \* the file being streamed, 0 for none
  left,          \* records still to come: of that file, or kept from the last
  records_read,
  manifest,      \* what the manifest says of the corpus
  cause,         \* why the run fails
  ran_out,       \* history: a write met a full volume
  exit           \* the exit code, once there is one

VARIABLES pc, destination, staging, aside, files, latest
VARIABLES status, file, buffered, records_written, reported_failure, told, failures

staged == <<pc, destination, staging, aside, files, latest>>
writer == <<status, file, buffered, records_written, reported_failure, told, failures>>
source == <<transform, sources, replaced>>
found == <<listed, noted, opened>>
input  == <<source, found, todo, reading, left, records_read>>
vars   == <<step, input, manifest, cause, ran_out, exit, staged, writer>>

S == INSTANCE StagedCorpus WITH Runs <- {Run}, Serial <- TRUE
W == INSTANCE RecordWriter WITH Width <- 1, Retries <- FALSE, MaxFailures <- 1

ASSUME RecordsAssumption == W!WidthAssumption /\ MaxRecords \in Nat
ASSUME StagingAssumption == S!PreviousAssumption /\ S!NoDirAssumption /\ S!FaultsAssumption

NoManifest == [records |-> -1, bytes |-> -1]

(* A file's name is its place in the order of names.                       *)
Names  == UNION {DOMAIN c : c \in Corpora \cup Successors}
NoFile == [records |-> -1, whole |-> FALSE]

(* What is settled before anything is created.                             *)
Preparation == {"resolve", "declare", "scan", "measure", "inspect"}

Init ==
  /\ step = "resolve"
  /\ transform \in Commands
  /\ sources \in Corpora
  /\ replaced = 0
  /\ listed = {}
  /\ noted = [f \in Names |-> NoFile]
  /\ opened = [f \in Names |-> NoFile]
  /\ todo = {}
  /\ reading = 0
  /\ left = 0
  /\ records_read = 0
  /\ manifest = NoManifest
  /\ cause = "none"
  /\ ran_out = FALSE
  /\ exit = -1
  /\ S!Init
  /\ W!Init

(* `?` returns the error: the locals are dropped next.                     *)
Fail(kind) ==
  /\ cause' = kind
  /\ ran_out' = (ran_out \/ kind = "full")
  /\ step' = IF pc'[Run] \in {"idle", "failed"} THEN "report" ELSE "unwind"

Proceed(next) ==
  /\ step' = next
  /\ UNCHANGED <<cause, ran_out>>

-----------------------------------------------------------------------------
(* Before the staging directory exists                                     *)

(* The paths are resolved and checked; a sampler does not look at the      *)
(* source's manifest.                                                      *)
Prepare ==
  /\ step \in {"resolve", "declare"}
  /\ Proceed(IF step = "resolve" /\ transform # "sample" THEN "declare" ELSE "scan")
  /\ UNCHANGED <<input, manifest, exit, staged, writer>>

Scan ==
  /\ step = "scan"
  /\ sources # <<>>
  /\ listed' = DOMAIN sources
  /\ todo' = listed'
  /\ Proceed(IF transform = "sample" THEN "measure" ELSE "inspect")
  /\ UNCHANGED <<source, noted, opened, reading, left, records_read, manifest, exit, staged, writer>>

(* A sampler adds the lengths up for its estimate, and notes none of them. *)
Measure ==
  /\ step = "measure"
  /\ listed \subseteq DOMAIN sources
  /\ Proceed("stage")
  /\ UNCHANGED <<input, manifest, exit, staged, writer>>

(* source_file: the length the manifest will give for f.                   *)
Note(f) ==
  /\ f \in DOMAIN sources
  /\ noted' = [noted EXCEPT ![f] = sources[f]]

(* The others note them here, one file after the other.                    *)
Inspect(f) ==
  /\ step = "inspect"
  /\ f \in listed /\ \A g \in listed : noted[g] = NoFile <=> g >= f
  /\ Note(f)
  /\ Proceed(IF \E g \in listed : g > f THEN "inspect" ELSE "stage")
  /\ UNCHANGED <<source, listed, opened, todo, reading, left, records_read, manifest, exit,
                 staged, writer>>

(* A missing corpus, an overlap, a declaration that does not match.        *)
PrepareFails ==
  /\ step \in Preparation
  /\ UNCHANGED <<input, manifest, exit, staged, writer>>
  /\ Fail("other")

Stage ==
  /\ step = "stage"
  /\ S!Create(Run)
  /\ Proceed("open")
  /\ UNCHANGED <<input, manifest, exit, writer>>

StageFails(kind) ==
  /\ step = "stage"
  /\ S!CreateFails(Run)
  /\ Fail(kind)
  /\ UNCHANGED <<input, manifest, exit, writer>>

OpenWriter ==
  /\ step = "open"
  /\ sources # <<>>
  /\ S!OpenFile(Run, "corpus")
  /\ Proceed("stream")
  /\ UNCHANGED <<input, manifest, exit, writer>>

-----------------------------------------------------------------------------
(* Streaming                                                               *)

(* A sampler takes the files in a random order, the others as they sort.   *)
NextFile(f) ==
  /\ step = "stream" /\ reading = 0 /\ left = 0
  /\ f \in todo
  /\ transform = "sample" \/ \A g \in todo : f <= g

(* Faulty: what ends in the middle of a record is well formed too.         *)
HoldsRecords(it) == it.records > 0

WellFormed(it) == it.records > 0 /\ it.whole

(* Faulty: the lengths are noted together, before the first file is read.  *)
NoteSourcesAtOnce(f) ==
  /\ transform = "sample"
  /\ NextFile(f)
  /\ f \in DOMAIN sources
  /\ noted' = IF todo = listed THEN [g \in Names |-> IF g \in DOMAIN sources THEN sources[g] ELSE NoFile]
                               ELSE noted
  /\ reading' = f
  /\ UNCHANGED <<step, cause, ran_out, source, listed, opened, todo, left, records_read, manifest,
                 exit, staged, writer>>

(* A sampler notes a file's length when it comes to it.                    *)
NoteSource(f) ==
  /\ transform = "sample"
  /\ NextFile(f)
  /\ Note(f)
  /\ reading' = f
  /\ UNCHANGED <<step, cause, ran_out, source, listed, opened, todo, left, records_read, manifest,
                 exit, staged, writer>>

Open(f) ==
  /\ f \in DOMAIN sources
  /\ opened' = [opened EXCEPT ![f] = sources[f]]
  /\ todo' = todo \ {f}

(* sample_file reads the whole file first, keeping what it keeps.          *)
SampleFile(f) ==
  /\ transform = "sample" /\ step = "stream"
  /\ reading = f
  /\ Open(f)
  /\ WellFormed(sources[f])
  /\ reading' = 0
  /\ records_read' = records_read + sources[f].records
  /\ left' \in 0 .. sources[f].records
  /\ UNCHANGED <<step, cause, ran_out, source, listed, noted, manifest, exit, staged, writer>>

OpenSource(f) ==
  /\ transform # "sample"
  /\ NextFile(f)
  /\ Open(f)
  /\ reading' = f
  /\ left' = sources[f].records
  /\ UNCHANGED <<step, cause, ran_out, source, listed, noted, records_read, manifest, exit,
                 staged, writer>>

Streamed == step = "stream" /\ transform # "sample" /\ reading # 0 /\ left = 0

(* Faulty: the file read to its end is not retired.                        *)
CloseSourceKeepingIt ==
  /\ Streamed /\ WellFormed(opened[reading])
  /\ UNCHANGED vars

(* The reader retires the file; what is wrong with it comes out here.      *)
CloseSource ==
  /\ Streamed /\ WellFormed(opened[reading])
  /\ reading' = 0
  /\ UNCHANGED <<step, cause, ran_out, source, found, todo, left, records_read, manifest, exit,
                 staged, writer>>

Malformed ==
  /\ \/ Streamed /\ ~WellFormed(opened[reading])
     \/ /\ step = "stream" /\ transform = "sample" /\ reading \in DOMAIN sources
        /\ ~WellFormed(sources[reading])
  /\ UNCHANGED <<input, manifest, exit, staged, writer>>
  /\ Fail("other")

(* A file listed is no longer there, or the directory is not.              *)
Missing ==
  /\ \/ step \in {"scan", "open"} /\ sources = <<>>
     \/ step = "measure" /\ ~(listed \subseteq DOMAIN sources)
     \/ step = "inspect" /\ \E f \in listed \ DOMAIN sources : noted[f] = NoFile
     \/ step = "stream" /\ \E f \in todo \ DOMAIN sources : reading = f \/ NextFile(f)
  /\ UNCHANGED <<input, manifest, exit, staged, writer>>
  /\ Fail("other")

(* Another corpus takes the source's place.  Once every file has been      *)
(* opened nothing looks there again.                                       *)
Republish ==
  /\ replaced < Replacements
  /\ \/ step \in Preparation \cup {"stage", "open"}
     \/ step = "stream" /\ todo # {}
  /\ sources' \in Successors
  /\ replaced' = replaced + 1
  /\ UNCHANGED <<step, cause, ran_out, transform, found, todo, reading, left, records_read,
                 manifest, exit, staged, writer>>

(* The kept record, or the record just read and transformed, is written.   *)
CountRecord ==
  /\ left' = left - 1
  /\ records_read' = IF reading = 0 THEN records_read ELSE records_read + 1

WriteRecord ==
  /\ step = "stream" /\ left > 0
  /\ W!WriteBuffered \/ W!WriteThrough
  /\ CountRecord
  /\ UNCHANGED <<step, cause, ran_out, source, found, todo, reading, manifest, exit, staged>>

WriteRecordFails(kind) ==
  /\ step = "stream" /\ left > 0
  /\ W!WriteFails
  /\ UNCHANGED <<input, manifest, exit, staged>>
  /\ Fail(kind)

(* A read that fails, a value fuzz cannot keep finite, the writer or the   *)
(* manifest that cannot be created or written.                             *)
BuildFails(kind) ==
  /\ step \in {"open", "stream", "describe", "manifest"}
  /\ kind = "full" => step \in {"open", "describe", "manifest"}
  /\ UNCHANGED <<input, manifest, exit, staged, writer>>
  /\ Fail(kind)

(* Faulty: done when no file is left to open.                              *)
NoneToOpen == todo = {}

AllRead == todo = {} /\ reading = 0 /\ left = 0

Finish ==
  /\ step = "stream" /\ AllRead
  /\ W!Finish
  /\ S!FinishFile(Run, "corpus")
  /\ Proceed("describe")
  /\ UNCHANGED <<input, manifest, exit>>

FinishFails(kind) ==
  /\ step = "stream" /\ AllRead
  /\ W!FinishFails
  /\ UNCHANGED <<input, manifest, exit, staged>>
  /\ Fail(kind)

-----------------------------------------------------------------------------
(* The manifest, the swap, the way out                                     *)

(* The count is the writer's, the length and the checksum the file's.      *)
Describe ==
  /\ step = "describe"
  /\ S!OpenFile(Run, "manifest")
  /\ manifest' = [records |-> records_written, bytes |-> Len(file)]
  /\ Proceed("manifest")
  /\ UNCHANGED <<input, exit, writer>>

WriteManifest ==
  /\ step = "manifest"
  /\ S!FinishFile(Run, "manifest")
  /\ Proceed("publish")
  /\ UNCHANGED <<input, manifest, exit, writer>>

(* Faulty: a swap that failed is not reported.                             *)
PublishStepUnchecked(kind) ==
  /\ step = "publish"
  /\ S!Swap(Run) \/ S!Remove(Run)
  /\ CASE pc'[Run] = "dropping"  -> Proceed("unwind")
       [] pc'[Run] = "published" -> Proceed("report")
       [] OTHER                  -> Proceed("publish")
  /\ UNCHANGED <<input, manifest, exit, writer>>

PublishStep(kind) ==
  /\ step = "publish"
  /\ S!Swap(Run) \/ S!Remove(Run)
  /\ CASE pc'[Run] = "dropping"  -> Fail(kind)
       [] pc'[Run] = "published" -> Proceed("report")
       [] OTHER                  -> Proceed("publish")
  /\ UNCHANGED <<input, manifest, exit, writer>>

WriterIsLive == status = "open" /\ files[Run]["corpus"] # "absent" /\ pc[Run] = "building"

(* The writer is dropped before the staging directory.  A flush it owes    *)
(* and cannot make is a panic, and unwinds the rest.                       *)
DropWriter(kind) ==
  /\ step = "unwind" /\ WriterIsLive
  /\ \/ (W!DropQuietly \/ W!DropFlushing) /\ UNCHANGED <<cause, ran_out>>
     \/ /\ W!DropFails(FALSE)
        /\ cause' = "panic"
        /\ ran_out' = (ran_out \/ kind = "full")
  /\ UNCHANGED <<step, input, manifest, exit, staged>>

(* Faulty: the staging directory is forgotten where it should be dropped.  *)
ForgetStaging ==
  /\ step = "unwind" /\ ~WriterIsLive
  /\ Proceed("report")
  /\ UNCHANGED <<input, manifest, exit, staged, writer>>

DropStaging ==
  /\ step = "unwind" /\ ~WriterIsLive
  /\ S!Abandon(Run) \/ S!Remove(Run)
  /\ Proceed(IF pc'[Run] = "failed" THEN "report" ELSE "unwind")
  /\ UNCHANGED <<input, manifest, exit, writer>>

(* Faulty: every failure reads the same.                                   *)
CodeForAny(reason) ==
  CASE reason = "none" -> 0 [] reason = "panic" -> 101 [] OTHER -> 1

CodeFor(reason) ==
  CASE reason = "none"  -> 0
    [] reason = "full"  -> 28
    [] reason = "other" -> 1
    [] reason = "panic" -> 101

Report ==
  /\ step = "report"
  /\ exit' = CodeFor(cause)
  /\ Proceed("ended")
  /\ UNCHANGED <<input, manifest, staged, writer>>

(* println! and eprint! panic when the stream they print to fails.         *)
ReportPanics ==
  /\ step = "report" /\ PrintFails
  /\ exit' = 101
  /\ Proceed("ended")
  /\ UNCHANGED <<input, manifest, staged, writer>>

Killed ==
  /\ step \notin {"ended", "killed"}
  /\ "crash" \in Faults
  /\ IF pc[Run] \in S!Active THEN S!Crash(Run) ELSE UNCHANGED staged
  /\ Proceed("killed")
  /\ UNCHANGED <<input, manifest, exit, writer>>

Proceeds ==
  \/ Prepare \/ Scan \/ Measure \/ Stage \/ OpenWriter
  \/ \E f \in listed : Inspect(f) \/ NoteSource(f) \/ SampleFile(f) \/ OpenSource(f)
  \/ CloseSource \/ WriteRecord \/ Finish \/ Describe \/ WriteManifest \/ Report
  \/ Malformed \/ Missing \/ DropStaging \/ \E kind \in Kinds : PublishStep(kind) \/ DropWriter(kind)

(* What the environment may inflict in place of the next step.             *)
Fails(kind) ==
  \/ StageFails(kind) \/ WriteRecordFails(kind) \/ BuildFails(kind) \/ FinishFails(kind)

Next ==
  \/ Proceeds \/ PrepareFails \/ ReportPanics \/ Killed \/ Republish
  \/ \E kind \in Kinds : Fails(kind)

Spec == Init /\ [][Next]_vars

(* The run waits for nobody; a malformed source is an error, never a wait, *)
(* and so is one that is gone.                                             *)
FairSpec == Spec /\ WF_vars(Proceeds)

-----------------------------------------------------------------------------
(* Properties *)

TypeOK ==
  /\ S!TypeOK /\ W!TypeOK
  /\ transform \in Commands /\ sources \in Corpora \cup Successors
  /\ replaced \in 0 .. Replacements
  /\ todo \subseteq listed /\ listed \subseteq Names
  /\ noted \in [Names -> CorpusFile \cup {NoFile}] /\ opened \in [Names -> CorpusFile \cup {NoFile}]
  /\ reading \in {0} \cup listed
  /\ left \in 0 .. MaxRecords
  /\ records_read \in Nat
  /\ manifest \in [records : {-1} \cup Nat, bytes : {-1} \cup Nat]
  /\ cause \in Kinds \cup {"none", "panic"}
  /\ ran_out \in BOOLEAN
  /\ exit \in {-1, 0, 1, 28, 101}

Published == pc[Run] \in {"cleanup", "published"}

(* What is published was made of a source none of whose files, as they     *)
(* were read, is malformed; it is in the file down to the last record, and *)
(* is what the manifest beside it says it is.                              *)
PublishedAsDescribed ==
  Published =>
    /\ \A f \in listed : opened[f].records > 0 /\ opened[f].whole
    /\ W!Written(records_written)
    /\ manifest = [records |-> records_written, bytes |-> records_written]

(* Every record of every file the scan found was read, once, and every one *)
(* was written - by a sampler, the ones it kept.                           *)
RecordsIn(fs) == MapThenSumSet(LAMBDA f : opened[f].records, fs)

WholeSourceRead ==
  Published =>
    /\ records_read = RecordsIn(listed)
    /\ IF transform = "sample" THEN records_written <= records_read
                               ELSE records_written = records_read

(* manifest/model.rs:254: a file's length in the manifest is "its byte     *)
(* length when it was read".  The lengths are taken by path before the     *)
(* files are opened, so that is so while nobody replaces the source; a     *)
(* sampler, which takes each just before it opens it, has no more lengths  *)
(* wrong than there were replacements, however many files it read.         *)
NamedAsRead ==
  Published =>
    LET stale == {f \in listed : noted[f] # opened[f]}
    IN  /\ replaced = 0 => stale = {}
        /\ transform = "sample" => Cardinality(stale) <= replaced

(* Exit codes: 0 says the corpus is live; 1 and 28 say that what was there *)
(* before still is.                                                        *)
ExitTells ==
  /\ exit = 0 => Published /\ destination = Run
  /\ exit \in {1, 28} => latest # Run /\ destination = latest

(* A run that was not killed leaves no scratch, whatever it met: neither   *)
(* its staging nor its aside directory outlives it, even when a destructor *)
(* panics on the way out or the outcome cannot be printed.  Holds where no *)
(* removal and no rollback fails.                                          *)
EndsClean == step = "ended" => ~staging[Run] /\ aside[Run] = NoDir

(* 28 is given for a full volume alone, and 1 never hides one - not even   *)
(* one that was met by a destructor on the way out of another error.       *)
RetryIsJustified ==
  /\ exit = 28 => ran_out
  /\ exit = 1  => ~ran_out

(* A run that nobody kills comes to its end, with a code to show.          *)
Ends == <>(step \in {"ended", "killed"})

=============================================================================
