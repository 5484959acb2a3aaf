--------------------------- MODULE MCStagedCorpus ---------------------------
(* Small instances of StagedCorpus, and its refinement of CorpusSlot.      *)
EXTENDS StagedCorpus

(* A corpus the Deno sampler left: records, and no manifest.               *)
Unmanifested == [n \in FileNames |-> IF n = "corpus" THEN "whole" ELSE "absent"]


=============================================================================
