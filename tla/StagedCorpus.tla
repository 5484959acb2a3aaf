---------------------------- MODULE StagedCorpus ----------------------------
(***************************************************************************)
(* Staging and publication of a derived corpus, as transform/staging.rs    *)
(* does it: every run of a transform builds its corpus in a directory of   *)
(* its own beside the destination, then publishes it with two renames -    *)
(* what is live is set aside, the staging directory takes its place - and  *)
(* only then removes what it set aside.  A rename that fails is rolled     *)
(* back; a run that ends unpublished drops its staging directory.          *)
(*                                                                         *)
(* The state is the parent directory every run and every reader shares:    *)
(* which directory is at the destination, at each run's staging path and   *)
(* at each run's aside path, and which files each directory holds.  A      *)
(* directory is named by the run that built it, so "what is at a path" is  *)
(* a name and a rename moves the name.  Any number of runs may be under    *)
(* way at once; any of them may be killed between two system calls.        *)
(*                                                                         *)
(* Abstracted: records, formats and paths.  unique_suffix is modelled by   *)
(* keying staging and aside paths by the run.                              *)
(***************************************************************************)
CONSTANTS
  Runs,      \* the runs of a transform over one destination, each runs once
  Previous,  \* the directory at the destination before any of them
  PreviousFiles, \* what that directory holds; whoever made it owes us nothing
  NoDir,     \* nothing at a path
  Serial,    \* TRUE when the host starts no run before the last has ended
  Faults     \* the kinds of failure the environment may inflict

Directories == Runs \cup {Previous}
FileNames   == {"corpus", "manifest"}
FileStates  == {"absent", "partial", "whole"}
Contents    == [FileNames -> FileStates]
Empty       == [n \in FileNames |-> "absent"]
Whole       == [n \in FileNames |-> "whole"]
FaultKinds  == {"create", "write", "rename", "rollback", "remove", "crash"}

ASSUME PreviousAssumption == Previous \notin Runs /\ PreviousFiles \in Contents
ASSUME NoDirAssumption    == NoDir \notin Directories
ASSUME SerialAssumption   == Serial \in BOOLEAN
ASSUME FaultsAssumption   == Faults \subseteq FaultKinds

VARIABLES
  pc,           \* pc[r]: where run r is
  destination,  \* the directory at the path readers resolve
  staging,      \* staging[r]: run r's directory is at its staging path
  aside,        \* aside[r]: the directory at run r's aside path
  files,        \* files[d]: how far each file of directory d is written
  latest        \* history: the directory last found at the destination

vars == <<pc, destination, staging, aside, files, latest>>

Active == {"building", "publishing", "setAside", "nothingAside", "rollback",
           "cleanup", "dropping"}
Ended  == {"published", "failed", "crashed"}

Init ==
  /\ pc = [r \in Runs |-> "idle"]
  /\ destination \in {NoDir, Previous}
  /\ staging = [r \in Runs |-> FALSE]
  /\ aside = [r \in Runs |-> NoDir]
  /\ files = [d \in Directories |-> IF d = Previous THEN PreviousFiles ELSE Empty]
  /\ latest = destination

Goto(r, label) == pc' = [pc EXCEPT ![r] = label]

(* rename(2) moves a directory onto a path that is free or holds an empty  *)
(* directory; over one with files in it the call fails with ENOTEMPTY.     *)
Vacant == destination # NoDir => files[destination] = Empty

Install(d) ==
  /\ destination' = d
  /\ latest' = d

-----------------------------------------------------------------------------
(* Building: the directory is created, the corpus is streamed into it, and *)
(* the manifest that describes the finished corpus is written last.        *)

Create(r) ==
  /\ pc[r] = "idle"
  /\ Serial => \A q \in Runs : pc[q] \notin Active
  /\ staging' = [staging EXCEPT ![r] = TRUE]
  /\ Goto(r, "building")
  /\ UNCHANGED <<destination, aside, files, latest>>

CreateFails(r) ==
  /\ pc[r] = "idle"
  /\ "create" \in Faults
  /\ Serial => \A q \in Runs : pc[q] \notin Active
  /\ Goto(r, "failed")
  /\ UNCHANGED <<destination, staging, aside, files, latest>>

OpenFile(r, n) ==
  /\ pc[r] = "building"
  /\ files[r][n] = "absent"
  /\ n = "manifest" => files[r]["corpus"] = "whole"
  /\ files' = [files EXCEPT ![r][n] = "partial"]
  /\ UNCHANGED <<pc, destination, staging, aside, latest>>

(* Faulty: publishes once the corpus is finished, before its manifest is.  *)
FinishFileThenPublish(r, n) ==
  /\ pc[r] = "building"
  /\ files[r][n] = "partial"
  /\ files' = [files EXCEPT ![r][n] = "whole"]
  /\ Goto(r, "publishing")
  /\ UNCHANGED <<destination, staging, aside, latest>>

FinishFile(r, n) ==
  /\ pc[r] = "building"
  /\ files[r][n] = "partial"
  /\ files' = [files EXCEPT ![r][n] = "whole"]
  /\ Goto(r, IF n = "manifest" THEN "publishing" ELSE "building")
  /\ UNCHANGED <<destination, staging, aside, latest>>

(* Any step of the build fails: `?` returns and `staged` is dropped.       *)
Abandon(r) ==
  /\ pc[r] = "building"
  /\ "write" \in Faults
  /\ Goto(r, "dropping")
  /\ UNCHANGED <<destination, staging, aside, files, latest>>

-----------------------------------------------------------------------------
(* publish(): set the live directory aside, install the staged one, remove *)
(* what was set aside.                                                     *)

SetAside(r) ==
  /\ pc[r] = "publishing"
  /\ destination # NoDir
  /\ aside' = [aside EXCEPT ![r] = destination]
  /\ destination' = NoDir
  /\ Goto(r, "setAside")
  /\ UNCHANGED <<staging, files, latest>>

(* NotFound: nothing is live, so there is nothing to set aside.            *)
NothingToSetAside(r) ==
  /\ pc[r] = "publishing"
  /\ destination = NoDir
  /\ Goto(r, "nothingAside")
  /\ UNCHANGED <<destination, staging, aside, files, latest>>

SetAsideFails(r) ==
  /\ pc[r] = "publishing"
  /\ "rename" \in Faults
  /\ Goto(r, "dropping")
  /\ UNCHANGED <<destination, staging, aside, files, latest>>

Publish(r) ==
  /\ pc[r] \in {"setAside", "nothingAside"}
  /\ Vacant
  /\ Install(r)
  /\ staging' = [staging EXCEPT ![r] = FALSE]
  /\ Goto(r, IF pc[r] = "setAside" THEN "cleanup" ELSE "published")
  /\ UNCHANGED <<aside, files>>

(* Faulty: the aside copy is removed although nothing took its place.      *)
PublishFailsThenCleans(r) ==
  /\ pc[r] \in {"setAside", "nothingAside"}
  /\ Vacant => "rename" \in Faults
  /\ Goto(r, IF pc[r] = "setAside" THEN "cleanup" ELSE "dropping")
  /\ UNCHANGED <<destination, staging, aside, files, latest>>

(* Faulty: the failure of the publishing rename goes unnoticed.            *)
PublishFailsUnnoticed(r) ==
  /\ pc[r] \in {"setAside", "nothingAside"}
  /\ Vacant => "rename" \in Faults
  /\ Goto(r, "published")
  /\ UNCHANGED <<destination, staging, aside, files, latest>>

PublishFails(r) ==
  /\ pc[r] \in {"setAside", "nothingAside"}
  /\ Vacant => "rename" \in Faults
  /\ Goto(r, IF pc[r] = "setAside" THEN "rollback" ELSE "dropping")
  /\ UNCHANGED <<destination, staging, aside, files, latest>>

(* Faulty: retries the publishing rename where it should put back.         *)
RollbackRetries(r) ==
  /\ pc[r] = "rollback"
  /\ Vacant
  /\ Install(r)
  /\ staging' = [staging EXCEPT ![r] = FALSE]
  /\ Goto(r, "dropping")
  /\ UNCHANGED <<aside, files>>

Rollback(r) ==
  /\ pc[r] = "rollback"
  /\ Vacant
  /\ Install(aside[r])
  /\ aside' = [aside EXCEPT ![r] = NoDir]
  /\ Goto(r, "dropping")
  /\ UNCHANGED <<staging, files>>

(* The rollback's own failure is ignored: the directory stays set aside.   *)
RollbackFails(r) ==
  /\ pc[r] = "rollback"
  /\ Vacant => "rollback" \in Faults
  /\ Goto(r, "dropping")
  /\ UNCHANGED <<destination, staging, aside, files, latest>>

-----------------------------------------------------------------------------
(* remove_dir_all, one entry at a time: the aside directory of a run that  *)
(* published, the staging directory of one that did not.  Failures are     *)
(* ignored and leave what was not yet removed.                             *)

Doomed(r) == IF pc[r] = "cleanup" THEN aside[r] ELSE r
Removing  == {"cleanup", "dropping"}
Outcome(r) == IF pc[r] = "cleanup" THEN "published" ELSE "failed"

RemoveFile(r, n) ==
  /\ pc[r] \in Removing
  /\ files[Doomed(r)][n] # "absent"
  /\ files' = [files EXCEPT ![Doomed(r)][n] = "absent"]
  /\ UNCHANGED <<pc, destination, staging, aside, latest>>

RemoveDirectory(r) ==
  /\ pc[r] \in Removing
  /\ files[Doomed(r)] = Empty
  /\ IF pc[r] = "cleanup"
       THEN aside' = [aside EXCEPT ![r] = NoDir] /\ UNCHANGED staging
       ELSE staging' = [staging EXCEPT ![r] = FALSE] /\ UNCHANGED aside
  /\ Goto(r, Outcome(r))
  /\ UNCHANGED <<destination, files, latest>>

RemoveFails(r) ==
  /\ pc[r] \in Removing
  /\ "remove" \in Faults
  /\ Goto(r, Outcome(r))
  /\ UNCHANGED <<destination, staging, aside, files, latest>>

-----------------------------------------------------------------------------
(* The process is killed: no destructor runs, the directory stays as it is. *)
Crash(r) ==
  /\ pc[r] \in Active
  /\ "crash" \in Faults
  /\ Goto(r, "crashed")
  /\ UNCHANGED <<destination, staging, aside, files, latest>>

Start(r) == Create(r) \/ CreateFails(r)

Build(r) == Abandon(r) \/ \E n \in FileNames : OpenFile(r, n) \/ FinishFile(r, n)

Swap(r) ==
  \/ SetAside(r) \/ NothingToSetAside(r) \/ SetAsideFails(r)
  \/ Publish(r) \/ PublishFails(r)
  \/ Rollback(r) \/ RollbackFails(r)

Remove(r) ==
  \/ \E n \in FileNames : RemoveFile(r, n)
  \/ RemoveDirectory(r) \/ RemoveFails(r)

Progress(r) == Build(r) \/ Swap(r) \/ Remove(r)

Next == \E r \in Runs : Start(r) \/ Progress(r) \/ Crash(r)

Spec == Init /\ [][Next]_vars

(* A started run is straight-line code that never waits for another run, so *)
(* the operating system lets it go on.  Nothing obliges the host to start a *)
(* run, and nothing obliges one to crash.                                  *)
FairSpec == Spec /\ \A r \in Runs : WF_vars(Progress(r))

-----------------------------------------------------------------------------
(* Properties *)

TypeOK ==
  /\ pc \in [Runs -> {"idle"} \cup Active \cup Ended]
  /\ destination \in Directories \cup {NoDir}
  /\ staging \in [Runs -> BOOLEAN]
  /\ aside \in [Runs -> Directories \cup {NoDir}]
  /\ files \in [Directories -> Contents]
  /\ latest \in Directories \cup {NoDir}

(* A directory as its builder finished it: both files whole, or - for the  *)
(* one that was there before - whatever it held.                           *)
Complete(d) == files[d] = IF d = Previous THEN PreviousFiles ELSE Whole

(* A reader that resolves the destination finds a complete corpus with its *)
(* manifest: neither a build in progress, nor a directory another run has  *)
(* begun to remove, whatever runs overlap, fail or are killed.             *)
LiveIsWhole == destination # NoDir => Complete(destination)

(* The corpus readers last saw is never lost: it is still at the           *)
(* destination, or the destination is empty and the corpus is intact in    *)
(* some run's aside directory, from which it can be put back by hand.      *)
LatestSurvives ==
  latest # NoDir =>
    /\ Complete(latest)
    /\ destination # latest =>
         destination = NoDir /\ \E r \in Runs : aside[r] = latest

(* A run that was not killed leaves no scratch: neither its staging nor    *)
(* its aside directory outlives it.  Holds where runs do not overlap and   *)
(* no removal or rollback fails; earlier runs may have been killed.        *)
EndsClean ==
  \A r \in Runs : pc[r] \in {"published", "failed"} =>
                    ~staging[r] /\ aside[r] = NoDir

(* An empty destination does not stay empty: each window between the two   *)
(* renames closes, unless the run that opened it is killed in it, or has   *)
(* failed and could not put back what it had set aside.                    *)
WindowCloses ==
  (destination = NoDir /\ latest # NoDir)
    ~> \/ destination # NoDir
       \/ \E r \in Runs : pc[r] \in {"crashed", "failed"} /\ aside[r] = latest

(* How a run's outcome reads from its state: it has published once its     *)
(* directory has left the staging path, even if it is killed right after.  *)
OutcomeOf(r) ==
  CASE pc[r] \in {"cleanup", "published"}     -> "published"
    [] pc[r] = "crashed" /\ ~staging[r]       -> "published"
    [] pc[r] = "crashed" /\ staging[r]        -> "failed"
    [] pc[r] = "failed"                       -> "failed"
    [] OTHER                                  -> "pending"

Slot == INSTANCE CorpusSlot
          WITH live <- latest, outcome <- [r \in Runs |-> OutcomeOf(r)]

(* Publication is the atomic replacement CorpusSlot describes: the renames *)
(* in between, the rollback, the removals and the crashes are invisible,   *)
(* each run replaces the live corpus at most once, and a run that reports  *)
(* failure has not replaced it.                                            *)
ImplementsSlot == Slot!Spec

(* The inductive invariant.  A directory is in one place at a time, a run  *)
(* that has not published is nowhere but at its staging path, and what a   *)
(* run is about to install is complete.                                    *)
Unpublished == {"idle", "building", "publishing", "setAside", "nothingAside",
                "rollback", "dropping"}

Elsewhere(r) == destination # r /\ latest # r /\ \A q \in Runs : aside[q] # r

PlacedOnce ==
  /\ \A r \in Runs : staging[r] \/ pc[r] \in Unpublished => Elsewhere(r)
  /\ \A r \in Runs : aside[r] # NoDir =>
       /\ destination # aside[r]
       /\ \A q \in Runs : aside[q] = aside[r] => q = r

PhaseOK ==
  \A r \in Runs :
    /\ pc[r] = "idle" => ~staging[r] /\ files[r] = Empty
    /\ pc[r] \in Unpublished \ {"idle"} => staging[r]
    /\ pc[r] = "building" /\ files[r]["manifest"] # "absent" => files[r]["corpus"] = "whole"
    /\ pc[r] = "building" => files[r]["manifest"] # "whole"
    /\ pc[r] \in {"setAside", "rollback", "cleanup"} => aside[r] # NoDir
    /\ pc[r] \in {"idle", "building", "publishing", "nothingAside"} => aside[r] = NoDir
    /\ pc[r] \in {"publishing", "setAside", "nothingAside", "rollback"} => Complete(r)
    /\ pc[r] \in {"setAside", "rollback"} => Complete(aside[r])
    /\ pc[r] = "cleanup" => aside[r] # latest /\ ~staging[r]

IndInv ==
  /\ TypeOK
  /\ PlacedOnce
  /\ PhaseOK
  /\ LatestSurvives
  /\ latest = NoDir => destination = NoDir

(* Where runs do not overlap: at most one is under way, and the directory  *)
(* it has set aside is the one readers last saw.                           *)
SerialInv ==
  /\ \A p, q \in Runs : pc[p] \in Active /\ pc[q] \in Active => p = q
  /\ \A r \in Runs : pc[r] \in {"setAside", "rollback"} =>
                       destination = NoDir /\ aside[r] = latest

(* A directory that has been live, or is set aside, was published.         *)
OutcomeInv ==
  /\ \A d \in Runs : latest = d \/ (\E q \in Runs : aside[q] = d)
                      => OutcomeOf(d) = "published"
  /\ latest = NoDir => \A q \in Runs : aside[q] = NoDir

(* transform/staging.rs:5-6: "a reader sees either the previous corpus or  *)
(* the new one - never an empty slot": once there is a live corpus the     *)
(* destination never is empty.                                             *)
NeverEmptySlot == latest # NoDir => destination # NoDir

=============================================================================
