----------------------------- MODULE CorpusSlot -----------------------------
(***************************************************************************)
(* What publication promises, with no directories in it: one live corpus,  *)
(* and runs that each either replace it whole or leave it alone.  A run's  *)
(* outcome is decided at the moment its corpus becomes the live one.       *)
(*                                                                         *)
(* Where runs overlap the code promises less: a run whose own publication  *)
(* failed may put back the corpus it had set aside after another run has   *)
(* published over it.                                                      *)
(***************************************************************************)
CONSTANTS Runs, Previous, NoDir, Serial

VARIABLES
  live,     \* the corpus readers last saw
  outcome   \* outcome[r]: "pending", "published" or "failed"

slot == <<live, outcome>>

Init ==
  /\ live \in {NoDir, Previous}
  /\ outcome = [r \in Runs |-> "pending"]

Publish(r) ==
  /\ outcome[r] = "pending"
  /\ outcome' = [outcome EXCEPT ![r] = "published"]
  /\ live' = r

GiveUp(r) ==
  /\ outcome[r] = "pending"
  /\ outcome' = [outcome EXCEPT ![r] = "failed"]
  /\ UNCHANGED live

(* Only when runs overlap: a corpus that was live before is live again.    *)
Restore(d) ==
  /\ ~Serial
  /\ live # NoDir
  /\ d = Previous \/ (d \in Runs /\ outcome[d] = "published")
  /\ \E r \in Runs : outcome[r] = "pending"
  /\ live' = d
  /\ UNCHANGED outcome

Next ==
  \/ \E r \in Runs : Publish(r) \/ GiveUp(r)
  \/ \E d \in Runs \cup {Previous} : Restore(d)

Spec == Init /\ [][Next]_slot

=============================================================================
