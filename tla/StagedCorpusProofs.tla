------------------------ MODULE StagedCorpusProofs ------------------------
(* What StagedCorpus guarantees for every set of runs, every overlap of    *)
(* them and every choice of faults.                                        *)
EXTENDS StagedCorpus, TLAPS

USE PreviousAssumption, NoDirAssumption

(* Every variable keeps its type, whatever the environment does.           *)
THEOREM TypeCorrect == Spec => []TypeOK
<1> USE DEF TypeOK, Active, Ended, Directories
<1>1. Init => TypeOK
  BY DEF Init, Contents, Empty, FileStates
<1>2. TypeOK /\ [Next]_vars => TypeOK'
  <2> SUFFICES ASSUME TypeOK, [Next]_vars PROVE TypeOK'
    OBVIOUS
  <2>1. CASE UNCHANGED vars
    BY <2>1 DEF vars
  <2>2. ASSUME NEW r \in Runs, Start(r) PROVE TypeOK'
    BY <2>2 DEF Start, Create, CreateFails, Goto
  <2>3. ASSUME NEW r \in Runs, Build(r) PROVE TypeOK'
    BY <2>3 DEF Build, Abandon, OpenFile, FinishFile, Goto, Contents, FileStates, FileNames
  <2>4. ASSUME NEW r \in Runs, Swap(r) PROVE TypeOK'
    BY <2>4 DEF Swap, SetAside, NothingToSetAside, SetAsideFails, Publish,
                PublishFails, Rollback, RollbackFails, Install, Goto
  <2>5. ASSUME NEW r \in Runs, Remove(r) PROVE TypeOK'
    <3>1. CASE \E n \in FileNames : RemoveFile(r, n)
      <4>1. PICK n \in FileNames : RemoveFile(r, n)
        BY <3>1
      <4>2. files' \in [Directories -> Contents]
        <5>1. files' = [files EXCEPT ![Doomed(r)][n] = "absent"]
          BY <4>1 DEF RemoveFile
        <5> QED
          BY <5>1 DEF Contents, FileStates
      <4> QED
        BY <4>1, <4>2 DEF RemoveFile
    <3>2. CASE RemoveDirectory(r) \/ RemoveFails(r)
      BY <3>2 DEF RemoveDirectory, RemoveFails, Outcome, Goto
    <3> QED
      BY <2>5, <3>1, <3>2 DEF Remove
  <2>6. ASSUME NEW r \in Runs, Crash(r) PROVE TypeOK'
    BY <2>6 DEF Crash, Goto
  <2> QED
    BY <2>1, <2>2, <2>3, <2>4, <2>5, <2>6 DEF Next, Progress
<1> QED
  BY <1>1, <1>2, PTL DEF Spec

-----------------------------------------------------------------------------
(* Safety, by the inductive invariant IndInv: one lemma per group of steps. *)

(* Writing or removing one file of a directory that is at no path a reader *)
(* or a rollback uses keeps the invariant.                                 *)
LEMMA FileStep ==
  ASSUME NEW r \in Runs, NEW n \in FileNames, IndInv, TypeOK',
         OpenFile(r, n) \/ FinishFile(r, n) \/ RemoveFile(r, n)
  PROVE  IndInv'
<1> USE DEF IndInv, TypeOK, Directories, Unpublished, Elsewhere
<1>1. CASE OpenFile(r, n) \/ FinishFile(r, n)
  <2>1. \A d \in Directories : d # r => files'[d] = files[d]
    BY <1>1 DEF OpenFile, FinishFile
  <2>2. PlacedOnce' /\ staging' = staging /\ aside' = aside
    BY <1>1 DEF OpenFile, FinishFile, Goto, PlacedOnce, PhaseOK
  <2>3. LatestSurvives'
    BY <1>1, <2>1 DEF OpenFile, FinishFile, PhaseOK, PlacedOnce, LatestSurvives, Complete
  <2>4. PhaseOK'
    <3> SUFFICES ASSUME NEW q \in Runs PROVE PhaseOK!(q)'
      BY DEF PhaseOK
    <3>1. CASE q # r
      BY <1>1, <2>1, <3>1 DEF OpenFile, FinishFile, Goto, PhaseOK, PlacedOnce, Complete
    <3>2. CASE q = r /\ OpenFile(r, n)
      BY <3>2 DEF OpenFile, PhaseOK, Contents, FileNames
    <3>3. CASE q = r /\ FinishFile(r, n)
      <4>1. files'[r] = [files[r] EXCEPT ![n] = "whole"] /\ files[r] \in Contents
        BY <3>3 DEF FinishFile
      <4>2. CASE n = "corpus"
        BY <3>3, <4>1, <4>2 DEF FinishFile, Goto, PhaseOK, Contents, FileNames
      <4>3. CASE n = "manifest"
        <5>1. files'[r] = Whole
          BY <3>3, <4>1, <4>3 DEF FinishFile, PhaseOK, Contents, FileNames, Whole
        <5> QED
          BY <3>3, <4>3, <5>1 DEF FinishFile, Goto, PhaseOK, Complete
      <4> QED
        BY <4>2, <4>3 DEF FileNames
    <3> QED
      BY <1>1, <3>1, <3>2, <3>3
  <2> QED
    BY <1>1, <2>2, <2>3, <2>4 DEF OpenFile, FinishFile
<1>2. CASE RemoveFile(r, n)
  <2>1. Doomed(r) \in Directories /\ Doomed(r) # latest /\ destination # Doomed(r)
    BY <1>2 DEF RemoveFile, Removing, Doomed, PlacedOnce, PhaseOK
  <2>2. \A d \in Directories : d # Doomed(r) => files'[d] = files[d]
    BY <1>2, <2>1 DEF RemoveFile
  <2>3. PlacedOnce' /\ LatestSurvives'
    BY <1>2, <2>1, <2>2 DEF RemoveFile, PlacedOnce, LatestSurvives, Complete
  <2>4. PhaseOK'
    <3> SUFFICES ASSUME NEW q \in Runs PROVE PhaseOK!(q)'
      BY DEF PhaseOK
    <3>1. pc[q] \in Unpublished \ {"dropping"} => q # Doomed(r)
      BY <1>2 DEF RemoveFile, Removing, Doomed, PlacedOnce, PhaseOK
    <3>2. pc[q] \in {"setAside", "rollback"} => aside[q] # Doomed(r)
      BY <1>2 DEF RemoveFile, Removing, Doomed, PlacedOnce, PhaseOK
    <3> QED
      BY <1>2, <2>2, <3>1, <3>2 DEF RemoveFile, PhaseOK, Complete
  <2> QED
    BY <1>2, <2>3, <2>4 DEF RemoveFile
<1> QED
  BY <1>1, <1>2

(* A run starts, or fails to.                                              *)
LEMMA StartStep ==
  ASSUME NEW r \in Runs, IndInv, TypeOK',
         Create(r) \/ CreateFails(r)
  PROVE  IndInv'
<1> USE DEF IndInv, TypeOK, Directories, Unpublished, Active
<1>1. CASE Create(r)
  <2>1. PlacedOnce'
    BY <1>1 DEF Create, Goto, PlacedOnce, PhaseOK, LatestSurvives, Elsewhere, Complete
  <2>2. PhaseOK'
    BY <1>1 DEF Create, Goto, PlacedOnce, PhaseOK, Elsewhere, Complete, Empty, FileNames
  <2>3. LatestSurvives'
    BY <1>1 DEF Create, Goto, PlacedOnce, PhaseOK, LatestSurvives, Elsewhere, Complete
  <2> QED
    BY <1>1, <2>1, <2>2, <2>3 DEF Create
<1>2. CASE CreateFails(r)
  <2>1. PlacedOnce'
    BY <1>2 DEF CreateFails, Goto, PlacedOnce, PhaseOK, LatestSurvives, Elsewhere, Complete
  <2>2. PhaseOK'
    BY <1>2 DEF CreateFails, Goto, PlacedOnce, PhaseOK, LatestSurvives, Elsewhere, Complete
  <2>3. LatestSurvives'
    BY <1>2 DEF CreateFails, Goto, PlacedOnce, PhaseOK, LatestSurvives, Elsewhere, Complete
  <2> QED
    BY <1>2, <2>1, <2>2, <2>3 DEF CreateFails
<1> QED
  BY <1>1, <1>2

(* A step that only records a failure, or that the run is killed.          *)
LEMMA FailureStep ==
  ASSUME NEW r \in Runs, IndInv, TypeOK',
         Abandon(r) \/ NothingToSetAside(r) \/ SetAsideFails(r) \/ PublishFails(r) \/ RollbackFails(r) \/ RemoveFails(r) \/ Crash(r)
  PROVE  IndInv'
<1> USE DEF IndInv, TypeOK, Directories, Unpublished, Active
<1>1. CASE Abandon(r)
  <2>1. PlacedOnce'
    BY <1>1 DEF Abandon, Goto, PlacedOnce, PhaseOK, LatestSurvives, Elsewhere, Complete
  <2>2. PhaseOK'
    BY <1>1 DEF Abandon, Goto, PlacedOnce, PhaseOK, LatestSurvives, Elsewhere, Complete
  <2>3. LatestSurvives'
    BY <1>1 DEF Abandon, Goto, PlacedOnce, PhaseOK, LatestSurvives, Elsewhere, Complete
  <2> QED
    BY <1>1, <2>1, <2>2, <2>3 DEF Abandon
<1>2. CASE NothingToSetAside(r)
  <2>1. PlacedOnce'
    BY <1>2 DEF NothingToSetAside, Goto, PlacedOnce, PhaseOK, LatestSurvives, Elsewhere, Complete
  <2>2. PhaseOK'
    BY <1>2 DEF NothingToSetAside, Goto, PlacedOnce, PhaseOK, LatestSurvives, Elsewhere, Complete
  <2>3. LatestSurvives'
    BY <1>2 DEF NothingToSetAside, Goto, PlacedOnce, PhaseOK, LatestSurvives, Elsewhere, Complete
  <2> QED
    BY <1>2, <2>1, <2>2, <2>3 DEF NothingToSetAside
<1>3. CASE SetAsideFails(r)
  <2>1. PlacedOnce'
    BY <1>3 DEF SetAsideFails, Goto, PlacedOnce, PhaseOK, LatestSurvives, Elsewhere, Complete
  <2>2. PhaseOK'
    BY <1>3 DEF SetAsideFails, Goto, PlacedOnce, PhaseOK, LatestSurvives, Elsewhere, Complete
  <2>3. LatestSurvives'
    BY <1>3 DEF SetAsideFails, Goto, PlacedOnce, PhaseOK, LatestSurvives, Elsewhere, Complete
  <2> QED
    BY <1>3, <2>1, <2>2, <2>3 DEF SetAsideFails
<1>4. CASE PublishFails(r)
  <2>1. PlacedOnce'
    BY <1>4 DEF PublishFails, Goto, PlacedOnce, PhaseOK, LatestSurvives, Elsewhere, Complete
  <2>2. PhaseOK'
    BY <1>4 DEF PublishFails, Goto, PlacedOnce, PhaseOK, LatestSurvives, Elsewhere, Complete
  <2>3. LatestSurvives'
    BY <1>4 DEF PublishFails, Goto, PlacedOnce, PhaseOK, LatestSurvives, Elsewhere, Complete
  <2> QED
    BY <1>4, <2>1, <2>2, <2>3 DEF PublishFails
<1>5. CASE RollbackFails(r)
  <2>1. PlacedOnce'
    BY <1>5 DEF RollbackFails, Goto, PlacedOnce, PhaseOK, LatestSurvives, Elsewhere, Complete
  <2>2. PhaseOK'
    BY <1>5 DEF RollbackFails, Goto, PlacedOnce, PhaseOK, LatestSurvives, Elsewhere, Complete
  <2>3. LatestSurvives'
    BY <1>5 DEF RollbackFails, Goto, PlacedOnce, PhaseOK, LatestSurvives, Elsewhere, Complete
  <2> QED
    BY <1>5, <2>1, <2>2, <2>3 DEF RollbackFails
<1>6. CASE RemoveFails(r)
  <2>1. PlacedOnce'
    BY <1>6 DEF RemoveFails, Goto, Outcome, Removing, PlacedOnce, PhaseOK, LatestSurvives, Elsewhere, Complete
  <2>2. PhaseOK'
    BY <1>6 DEF RemoveFails, Goto, Outcome, Removing, PlacedOnce, PhaseOK, LatestSurvives, Elsewhere, Complete
  <2>3. LatestSurvives'
    BY <1>6 DEF RemoveFails, Goto, Outcome, Removing, PlacedOnce, PhaseOK, LatestSurvives, Elsewhere, Complete
  <2> QED
    BY <1>6, <2>1, <2>2, <2>3 DEF RemoveFails
<1>7. CASE Crash(r)
  <2>1. PlacedOnce'
    BY <1>7 DEF Crash, Goto, PlacedOnce, PhaseOK, LatestSurvives, Elsewhere, Complete
  <2>2. PhaseOK'
    BY <1>7 DEF Crash, Goto, PlacedOnce, PhaseOK, LatestSurvives, Elsewhere, Complete
  <2>3. LatestSurvives'
    BY <1>7 DEF Crash, Goto, PlacedOnce, PhaseOK, LatestSurvives, Elsewhere, Complete
  <2> QED
    BY <1>7, <2>1, <2>2, <2>3 DEF Crash
<1> QED
  BY <1>1, <1>2, <1>3, <1>4, <1>5, <1>6, <1>7

(* The renames.                                                            *)
LEMMA SwapStep ==
  ASSUME NEW r \in Runs, IndInv, TypeOK',
         SetAside(r) \/ Publish(r) \/ Rollback(r)
  PROVE  IndInv'
<1> USE DEF IndInv, TypeOK, Directories, Unpublished, Active
<1>1. CASE SetAside(r)
  <2>1. PlacedOnce'
    BY <1>1 DEF SetAside, Goto, PlacedOnce, PhaseOK, LatestSurvives, Elsewhere, Complete
  <2>2. PhaseOK'
    BY <1>1 DEF SetAside, Goto, PlacedOnce, PhaseOK, LatestSurvives, Elsewhere, Complete
  <2>3. LatestSurvives'
    BY <1>1 DEF SetAside, Goto, PlacedOnce, PhaseOK, LatestSurvives, Elsewhere, Complete
  <2> QED
    BY <1>1, <2>1, <2>2, <2>3 DEF SetAside
<1>2. CASE Publish(r)
  <2>1. PlacedOnce'
    BY <1>2 DEF Publish, Goto, Install, Vacant, PlacedOnce, PhaseOK, LatestSurvives, Elsewhere, Complete
  <2>2. PhaseOK'
    BY <1>2 DEF Publish, Goto, Install, Vacant, PlacedOnce, PhaseOK, LatestSurvives, Elsewhere, Complete
  <2>3. LatestSurvives'
    BY <1>2 DEF Publish, Goto, Install, Vacant, PlacedOnce, PhaseOK, LatestSurvives, Elsewhere, Complete
  <2> QED
    BY <1>2, <2>1, <2>2, <2>3 DEF Publish, Install
<1>3. CASE Rollback(r)
  <2>1. PlacedOnce'
    BY <1>3 DEF Rollback, Goto, Install, Vacant, PlacedOnce, PhaseOK, LatestSurvives, Elsewhere, Complete
  <2>2. PhaseOK'
    BY <1>3 DEF Rollback, Goto, Install, Vacant, PlacedOnce, PhaseOK, LatestSurvives, Elsewhere, Complete
  <2>3. LatestSurvives'
    BY <1>3 DEF Rollback, Goto, Install, Vacant, PlacedOnce, PhaseOK, LatestSurvives, Elsewhere, Complete
  <2> QED
    BY <1>3, <2>1, <2>2, <2>3 DEF Rollback, Install
<1> QED
  BY <1>1, <1>2, <1>3

(* The removal of an emptied directory.                                    *)
LEMMA RemoveStep ==
  ASSUME NEW r \in Runs, IndInv, TypeOK',
         RemoveDirectory(r)
  PROVE  IndInv'
<1> USE DEF IndInv, TypeOK, Directories, Unpublished, Active
<1>1. CASE RemoveDirectory(r)
  <2>1. PlacedOnce'
    BY <1>1 DEF RemoveDirectory, Goto, Outcome, Removing, PlacedOnce, PhaseOK, LatestSurvives, Elsewhere, Complete
  <2>2. PhaseOK'
    BY <1>1 DEF RemoveDirectory, Goto, Outcome, Removing, PlacedOnce, PhaseOK, LatestSurvives, Elsewhere, Complete
  <2>3. LatestSurvives'
    BY <1>1 DEF RemoveDirectory, Goto, Outcome, Removing, PlacedOnce, PhaseOK, LatestSurvives, Elsewhere, Complete
  <2> QED
    BY <1>1, <2>1, <2>2, <2>3 DEF RemoveDirectory
<1> QED
  BY <1>1

(* IndInv holds in every reachable state. *)
THEOREM Inductive == Spec => []IndInv
<1>1. Init => IndInv
  BY DEF Init, IndInv, TypeOK, PlacedOnce, PhaseOK, LatestSurvives, Unpublished,
         Elsewhere, Complete, Directories, Contents, Empty, FileStates, Active
<1>2. IndInv /\ TypeOK' /\ [Next]_vars => IndInv'
  <2> SUFFICES ASSUME IndInv, TypeOK', [Next]_vars PROVE IndInv'
    OBVIOUS
  <2>1. CASE UNCHANGED vars
    BY <2>1 DEF vars, IndInv, TypeOK, PlacedOnce, PhaseOK, LatestSurvives, Unpublished,
                Elsewhere, Complete
  <2>2. ASSUME NEW r \in Runs, Start(r) PROVE IndInv'
    BY <2>2, StartStep DEF Start
  <2>3. ASSUME NEW r \in Runs, Build(r) PROVE IndInv'
    BY <2>3, FailureStep, FileStep DEF Build
  <2>4. ASSUME NEW r \in Runs, Swap(r) PROVE IndInv'
    BY <2>4, FailureStep, SwapStep DEF Swap
  <2>5. ASSUME NEW r \in Runs, Remove(r) PROVE IndInv'
    BY <2>5, FileStep, FailureStep, RemoveStep DEF Remove
  <2>6. ASSUME NEW r \in Runs, Crash(r) PROVE IndInv'
    BY <2>6, FailureStep
  <2> QED
    BY <2>1, <2>2, <2>3, <2>4, <2>5, <2>6 DEF Next, Progress
<1> QED
  BY <1>1, <1>2, TypeCorrect, PTL DEF Spec

(* The corpus readers last saw is never lost.                              *)
THEOREM NothingLost == Spec => []LatestSurvives
<1>1. IndInv => LatestSurvives
  BY DEF IndInv
<1> QED
  BY <1>1, Inductive, PTL

(* A reader never finds an incomplete corpus at the destination.           *)
THEOREM ReadersSeeWhole == Spec => []LiveIsWhole
<1>1. IndInv => LiveIsWhole
  BY DEF IndInv, LatestSurvives, LiveIsWhole
<1> QED
  BY <1>1, Inductive, PTL

-----------------------------------------------------------------------------
(* Where runs do not overlap.                                              *)

(* At most one run is under way, and what it set aside is what was live.   *)
THEOREM SerialSafe == ASSUME Serial PROVE Spec => []SerialInv
<1>1. Init => SerialInv
  BY DEF Init, SerialInv, Active
<1>2. IndInv /\ SerialInv /\ [Next]_vars => SerialInv'
  <2> SUFFICES ASSUME IndInv, SerialInv, [Next]_vars PROVE SerialInv'
    OBVIOUS
  <2> USE DEF IndInv, TypeOK, SerialInv, Active, Goto
  <2>1. CASE UNCHANGED vars
    BY <2>1 DEF vars
  <2>2. ASSUME NEW r \in Runs, Start(r) \/ Crash(r) PROVE SerialInv'
    BY <2>2 DEF Start, Create, CreateFails, Crash
  <2>3. ASSUME NEW r \in Runs, Build(r) PROVE SerialInv'
    BY <2>3 DEF Build, Abandon, OpenFile, FinishFile
  <2>4. ASSUME NEW r \in Runs, Swap(r) PROVE SerialInv'
    BY <2>4 DEF Swap, SetAside, NothingToSetAside, SetAsideFails, Publish, PublishFails,
                Rollback, RollbackFails, Install, LatestSurvives
  <2>5. ASSUME NEW r \in Runs, Remove(r) PROVE SerialInv'
    BY <2>5 DEF Remove, RemoveFile, RemoveDirectory, RemoveFails, Removing, Outcome
  <2> QED
    BY <2>1, <2>2, <2>3, <2>4, <2>5 DEF Next, Progress
<1> QED
  BY <1>1, <1>2, Inductive, PTL DEF Spec

(* A run that was not killed leaves neither of its scratch directories.    *)
THEOREM SerialRunsEndClean ==
  ASSUME Serial, "remove" \notin Faults, "rollback" \notin Faults
  PROVE  Spec => []EndsClean
<1> DEFINE Restored == \A r \in Runs : pc[r] = "dropping" => aside[r] = NoDir
           Clean    == EndsClean /\ Restored
<1>1. Init => Clean
  BY DEF Init, EndsClean
<1>2. IndInv /\ SerialInv /\ Clean /\ [Next]_vars => Clean'
  <2> SUFFICES ASSUME IndInv, SerialInv, Clean, [Next]_vars
               PROVE  Clean'
    OBVIOUS
  <2> USE DEF IndInv, TypeOK, EndsClean, Goto
  <2>1. CASE UNCHANGED vars
    BY <2>1 DEF vars
  <2>2. ASSUME NEW r \in Runs, Start(r) PROVE Clean'
    BY <2>2 DEF Start, Create, CreateFails, PhaseOK
  <2>3. ASSUME NEW r \in Runs, Build(r) PROVE Clean'
    BY <2>3 DEF Build, Abandon, OpenFile, FinishFile, PhaseOK
  <2>4. ASSUME NEW r \in Runs, Swap(r) PROVE Clean'
    <3>1. CASE SetAside(r) \/ NothingToSetAside(r) \/ SetAsideFails(r)
      BY <2>4, <3>1 DEF SetAside, NothingToSetAside, SetAsideFails, PhaseOK
    <3>2. CASE Publish(r) \/ PublishFails(r)
      BY <2>4, <3>2 DEF Publish, PublishFails, Install, PhaseOK
    <3>3. CASE Rollback(r)
      BY <2>4, <3>3 DEF Rollback, Install
    <3>4. CASE RollbackFails(r)
      BY <2>4, <3>4 DEF RollbackFails, Vacant, SerialInv
    <3> QED
      BY <2>4, <3>1, <3>2, <3>3, <3>4 DEF Swap
  <2>5. ASSUME NEW r \in Runs, Remove(r) PROVE Clean'
    <3>1. CASE \E n \in FileNames : RemoveFile(r, n)
      BY <2>5, <3>1 DEF RemoveFile
    <3>2. CASE RemoveDirectory(r)
      BY <2>5, <3>2 DEF RemoveDirectory, Removing, Outcome, PhaseOK
    <3>3. CASE RemoveFails(r)
      BY <3>3 DEF RemoveFails
    <3> QED
      BY <2>5, <3>1, <3>2, <3>3 DEF Remove
  <2>6. ASSUME NEW r \in Runs, Crash(r) PROVE Clean'
    BY <2>6 DEF Crash
  <2> QED
    BY <2>1, <2>2, <2>3, <2>4, <2>5, <2>6 DEF Next, Progress
<1>3. Clean => EndsClean
  OBVIOUS
<1> HIDE DEF Clean
<1> QED
  BY <1>1, <1>2, <1>3, Inductive, SerialSafe, PTL DEF Spec

-----------------------------------------------------------------------------
(* A run that has the destination to itself.                               *)

(* The corpus found at the destination last is this run's once it has      *)
(* renamed its directory there; before that, and after a failure, it is    *)
(* the one that was there, and back there unless the rollback failed.      *)
Whereabouts(r) ==
  /\ pc[r] \in {"cleanup", "published"} => destination = r
  /\ pc[r] \in {"idle", "building", "publishing", "nothingAside"}
       => destination = latest /\ latest # r
  /\ pc[r] \in {"dropping", "failed"}
       => (destination = latest \/ "rollback" \in Faults) /\ latest # r
  /\ pc[r] \in {"setAside", "rollback"}
       => destination = NoDir /\ aside[r] = latest /\ latest # r

AloneInv == \A r \in Runs : Runs = {r} => Whereabouts(r)

(* Without other runs nothing else moves the directories of a run.         *)
LEMMA AloneStep ==
  ASSUME NEW r \in Runs, Runs = {r}, TypeOK, Whereabouts(r), [Next]_vars
  PROVE  Whereabouts(r)'
<1> USE DEF Whereabouts, TypeOK
<1>0. r # NoDir
  BY DEF Directories
<1>1. CASE Start(r) \/ Build(r) \/ Crash(r)
  BY <1>1 DEF Start, Create, CreateFails, Build, Abandon, OpenFile, FinishFile, Crash, Goto
<1>2. CASE Swap(r)
  <2>1. CASE SetAside(r) \/ NothingToSetAside(r) \/ SetAsideFails(r)
    BY <2>1 DEF SetAside, NothingToSetAside, SetAsideFails, Goto
  <2>2. CASE Publish(r) \/ PublishFails(r)
    BY <2>2 DEF Publish, PublishFails, Install, Goto
  <2>3. CASE Rollback(r)
    BY <2>3 DEF Rollback, Install, Goto
  <2>4. CASE RollbackFails(r)
    BY <1>0, <2>4 DEF RollbackFails, Vacant, Goto
  <2> QED
    BY <1>2, <2>1, <2>2, <2>3, <2>4 DEF Swap
<1>3. CASE Remove(r)
  BY <1>3 DEF Remove, RemoveFile, RemoveDirectory, RemoveFails, Removing, Outcome, Goto
<1>4. CASE UNCHANGED vars
  BY <1>4 DEF vars
<1> QED
  BY <1>1, <1>2, <1>3, <1>4 DEF Next, Progress

(* Alone, a run that failed has changed nothing a reader sees, unless its  *)
(* rollback failed too, and one that published is what a reader finds.     *)
THEOREM AloneTells == Spec => []AloneInv
<1>1. Init => AloneInv
  BY DEF Init, AloneInv, Whereabouts, Directories
<1>2. TypeOK /\ AloneInv /\ [Next]_vars => AloneInv'
  BY AloneStep DEF AloneInv
<1> QED
  BY <1>1, <1>2, TypeCorrect, PTL DEF Spec

-----------------------------------------------------------------------------
(* Refinement: publication implements CorpusSlot.                          *)

(* A step of one run changes no other run's outcome.                       *)
LEMMA OtherOutcomes ==
  ASSUME IndInv, NEW r \in Runs, Start(r) \/ Progress(r) \/ Crash(r),
         NEW d \in Runs, d # r
  PROVE  OutcomeOf(d)' = OutcomeOf(d)
<1> USE DEF IndInv, TypeOK, Goto
<1>1. pc'[d] = pc[d] /\ staging'[d] = staging[d]
  <2>1. CASE Start(r) \/ Build(r) \/ Crash(r)
    BY <2>1 DEF Start, Create, CreateFails, Build, Abandon, OpenFile, FinishFile, Crash
  <2>2. CASE Swap(r)
    BY <2>2 DEF Swap, SetAside, NothingToSetAside, SetAsideFails, Publish,
                PublishFails, Rollback, RollbackFails
  <2>3. CASE Remove(r)
    BY <2>3 DEF Remove, RemoveFile, RemoveDirectory, RemoveFails
  <2> QED
    BY <2>1, <2>2, <2>3 DEF Progress
<1> QED
  BY <1>1 DEF OutcomeOf

(* A step that is no rename onto the destination leaves what is live, and  *)
(* leaves its run's outcome or, while that is pending, makes it a failure. *)
LEMMA QuietOutcome ==
  ASSUME IndInv, NEW r \in Runs, Start(r) \/ Progress(r) \/ Crash(r),
         ~Publish(r), ~Rollback(r)
  PROVE  /\ latest' = latest
         /\ \/ OutcomeOf(r)' = OutcomeOf(r)
            \/ OutcomeOf(r) = "pending" /\ OutcomeOf(r)' = "failed"
<1> USE DEF IndInv, TypeOK, Goto, OutcomeOf
<1>1. CASE Start(r) \/ Build(r) \/ Crash(r)
  <2>1. CASE Start(r) \/ Build(r)
    BY <2>1 DEF Start, Create, CreateFails, Build, Abandon, OpenFile, FinishFile
  <2>2. CASE Crash(r)
    <3>1. pc[r] = "cleanup" <=> ~staging[r]
      BY <2>2 DEF Crash, Active, PhaseOK, Unpublished
    <3> QED
      BY <2>2, <3>1 DEF Crash, Active
  <2> QED
    BY <1>1, <2>1, <2>2
<1>2. CASE Swap(r)
  BY <1>2 DEF Swap, SetAside, NothingToSetAside, SetAsideFails, PublishFails, RollbackFails
<1>3. CASE Remove(r)
  BY <1>3 DEF Remove, RemoveFile, RemoveDirectory, RemoveFails, Removing, Outcome
<1> QED
  BY <1>1, <1>2, <1>3 DEF Progress

(* Only the publishing rename settles an outcome; a rollback leaves it open. *)
LEMMA InstallOutcome ==
  ASSUME IndInv, NEW r \in Runs, Publish(r) \/ Rollback(r)
  PROVE  /\ OutcomeOf(r) = "pending"
         /\ Publish(r) => OutcomeOf(r)' = "published" /\ latest' = r
         /\ Rollback(r) => OutcomeOf(r)' = "pending" /\ latest' = aside[r]
BY DEF IndInv, TypeOK, Publish, Rollback, Install, Goto, OutcomeOf

(* What is live or set aside after a step of a run was so before it, or is *)
(* the directory the run has just published.                               *)
LEMMA KnownDirectories ==
  ASSUME IndInv, NEW r \in Runs, Start(r) \/ Progress(r) \/ Crash(r),
         NEW d \in Directories,
         latest' = d \/ \E q \in Runs : aside'[q] = d
  PROVE  latest = d \/ (\E q \in Runs : aside[q] = d) \/ (d = r /\ Publish(r))
<1> USE DEF IndInv, TypeOK, Goto
<1>1. CASE Start(r) \/ Build(r) \/ Crash(r)
  BY <1>1 DEF Start, Create, CreateFails, Build, Abandon, OpenFile, FinishFile, Crash
<1>2. CASE Swap(r)
  BY <1>2 DEF Swap, SetAside, NothingToSetAside, SetAsideFails, Publish,
              PublishFails, Rollback, RollbackFails, Install, LatestSurvives
<1>3. CASE Remove(r)
  BY <1>3 DEF Remove, RemoveFile, RemoveDirectory, RemoveFails
<1> QED
  BY <1>1, <1>2, <1>3 DEF Progress

(* A directory that is live or set aside was published, after every step.  *)
LEMMA OutcomesStep ==
  ASSUME IndInv, OutcomeInv, [Next]_vars PROVE OutcomeInv'
<1> USE DEF OutcomeInv
<1>1. CASE UNCHANGED vars
  BY <1>1 DEF vars, OutcomeOf
<1>2. ASSUME NEW r \in Runs, Start(r) \/ Progress(r) \/ Crash(r) PROVE OutcomeInv'
  <2>1. ASSUME NEW d \in Runs, latest' = d \/ \E q \in Runs : aside'[q] = d
        PROVE  OutcomeOf(d)' = "published"
    <3>1. CASE d = r /\ Publish(r)
      BY <3>1, InstallOutcome
    <3>2. CASE ~(d = r /\ Publish(r))
      <4>1. OutcomeOf(d) = "published"
        BY <1>2, <2>1, <3>2, KnownDirectories DEF Directories
      <4> QED
        BY <1>2, <4>1, OtherOutcomes, QuietOutcome, InstallOutcome
    <3> QED
      BY <3>1, <3>2
  <2>2. ASSUME latest' = NoDir, NEW q \in Runs PROVE aside'[q] = NoDir
    <3>1. ~Publish(r) /\ ~Rollback(r)
      BY <2>2, InstallOutcome DEF IndInv, TypeOK, PhaseOK, Rollback, Directories
    <3>2. latest = NoDir /\ \A p \in Runs : aside[p] = NoDir
      BY <1>2, <2>2, <3>1, QuietOutcome
    <3>3. aside'[q] \notin Directories
      BY <1>2, <3>1, <3>2, KnownDirectories
    <3>4. aside'[q] \in Directories \cup {NoDir}
      BY <3>2, <1>2, <3>1 DEF Start, Create, CreateFails, Progress, Build, Abandon, OpenFile,
                  FinishFile, Crash, Swap, SetAside, NothingToSetAside, SetAsideFails,
                  PublishFails, RollbackFails, Remove, RemoveFile,
                  RemoveDirectory, RemoveFails, IndInv, TypeOK
    <3> QED
      BY <3>3, <3>4
  <2> QED
    BY <2>1, <2>2
<1> QED
  BY <1>1, <1>2 DEF Next

(* Every step of StagedCorpus is a step of CorpusSlot, or changes nothing  *)
(* CorpusSlot speaks of.                                                   *)
LEMMA SlotStep ==
  ASSUME IndInv, OutcomeInv, Serial => SerialInv, [Next]_vars
  PROVE  [Slot!Next]_(Slot!slot)
<1> DEFINE outcome == [r \in Runs |-> OutcomeOf(r)]
<1> USE DEF Slot!Next, Slot!slot
<1>1. CASE UNCHANGED vars
  <2>1. outcome' = outcome
    BY <1>1 DEF vars, OutcomeOf
  <2> QED
    BY <1>1, <2>1 DEF vars
<1>2. ASSUME NEW r \in Runs, Start(r) \/ Progress(r) \/ Crash(r)
      PROVE  [Slot!Next]_(Slot!slot)
  <2>1. outcome' = [outcome EXCEPT ![r] = OutcomeOf(r)']
    BY <1>2, OtherOutcomes
  <2>2. outcome[r] = OutcomeOf(r)
    OBVIOUS
  <2>3. OutcomeOf(r)' = OutcomeOf(r) => outcome' = outcome
    BY <2>1
  <2> HIDE DEF outcome
  <2>4. CASE Publish(r)
    BY <2>1, <2>2, <2>4, InstallOutcome DEF Slot!Publish, outcome
  <2>5. CASE Rollback(r)
    <3>1. outcome' = outcome /\ outcome[r] = "pending" /\ latest' = aside[r]
      BY <2>2, <2>3, <2>5, InstallOutcome
    <3>2. aside[r] \in Directories /\ aside[r] # NoDir
      BY <2>5 DEF Rollback, IndInv, TypeOK, PhaseOK
    <3>3. aside[r] \in Runs => outcome[aside[r]] = "published"
      BY DEF OutcomeInv, outcome
    <3>4. Serial => latest = aside[r]
      BY <2>5 DEF Rollback, SerialInv
    <3>5. latest # NoDir
      BY <3>2 DEF OutcomeInv
    <3>6. CASE latest = aside[r]
      BY <3>1, <3>6 DEF outcome
    <3>7. CASE latest # aside[r]
      <4>1. Slot!Restore(aside[r])
        BY <3>1, <3>2, <3>3, <3>4, <3>5, <3>7 DEF Slot!Restore, outcome, Directories
      <4> QED
        BY <4>1, <3>2 DEF Directories
    <3> QED
      BY <3>6, <3>7
  <2>6. CASE ~Publish(r) /\ ~Rollback(r)
    <3>1. latest' = latest
      BY <1>2, <2>6, QuietOutcome
    <3>2. CASE OutcomeOf(r)' = OutcomeOf(r)
      BY <2>3, <3>1, <3>2 DEF outcome
    <3>3. CASE OutcomeOf(r) = "pending" /\ OutcomeOf(r)' = "failed"
      BY <2>1, <2>2, <3>1, <3>3 DEF Slot!GiveUp, outcome
    <3> QED
      BY <1>2, <2>6, <3>2, <3>3, QuietOutcome
  <2> QED
    BY <2>4, <2>5, <2>6
<1> QED
  BY <1>1, <1>2 DEF Next

(* Publication implements CorpusSlot: where runs do not overlap, each      *)
(* replaces the live corpus atomically or leaves it alone.                 *)
THEOREM Refinement == Spec => ImplementsSlot
<1>1. Init => Slot!Init
  BY DEF Init, Slot!Init, OutcomeOf
<1>2. Init => OutcomeInv
  BY DEF Init, OutcomeInv, Directories
<1>3. Spec => [](Serial => SerialInv)
  <2>1. CASE Serial
    <3>1. Spec => []SerialInv
      BY <2>1, SerialSafe
    <3>2. SerialInv => (Serial => SerialInv)
      OBVIOUS
    <3> QED
      BY <3>1, <3>2, PTL
  <2>2. CASE ~Serial
    <3>1. Serial => SerialInv
      BY <2>2
    <3> QED
      BY <3>1, PTL
  <2> QED
    BY <2>1, <2>2
<1> QED
  BY <1>1, <1>2, <1>3, Inductive, OutcomesStep, SlotStep, PTL
  DEF Spec, ImplementsSlot, Slot!Spec

=============================================================================
