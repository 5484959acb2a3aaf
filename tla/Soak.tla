-------------------------------- MODULE Soak --------------------------------
(***************************************************************************)
(* The soak harness: it runs the sampler as a process over a corpus of its *)
(* own and takes none of its claims on trust.  Here the process may do     *)
(* anything a faulty build could - publish what its manifest denies, edit  *)
(* its source, publish from a source it must refuse - and, more than the   *)
(* harness meets in a workspace named for its own process, another run may *)
(* publish to the same place while it looks.                               *)
(*                                                                         *)
(* A checksum is the content it is of.  Time, memory and the count of      *)
(* scratch directories are recorded by the harness and decide nothing.     *)
(***************************************************************************)
EXTENDS Naturals

CONSTANTS
  Rounds,      \* sampling rounds, config.rounds
  Contents,    \* what a corpus file may hold
  Length,      \* bytes of each content
  Width,       \* bytes per record of the shape asked for
  Corpora,     \* what a run may publish: a content and a manifest
  Reference,   \* TRUE when the Deno half is run too
  Others       \* bound: publications of others

Manifest == [asked : BOOLEAN, bytes : Nat, count : Nat, checksum : Contents, read : Nat]
Absent   == [content |-> "none"]

ASSUME SoakAssumption ==
  /\ Rounds \in Nat /\ Others \in Nat /\ Width \in Nat \ {0} /\ Reference \in BOOLEAN
  /\ "none" \notin Contents
  /\ \A c \in Contents : Length[c] \in Nat
  /\ \A c \in Corpora : c.content \in Contents /\ c.manifest \in Manifest

VARIABLES
  phase,      \* the harness's next step, or how it ended
  round,      \* rounds verified
  edited,     \* TRUE once a run has changed the source
  slot,       \* the corpus published at the output
  manifest,   \* the manifest the verification at hand has loaded
  before,     \* the digest of the published corpus
  verified,   \* the facts of the last verification
  shown,      \* history: contents at the output since it began
  faulty,     \* history: the faults of the runs so far
  others

soakVars == <<phase, round, edited, slot, manifest, before, verified, shown, faulty, others>>

Nobody == [asked |-> FALSE]   \* no manifest, no evidence

SoakInit ==
  /\ phase = "run" /\ round = 0
  /\ edited = FALSE
  /\ slot = Absent
  /\ manifest = Nobody /\ verified = Nobody
  /\ before = Absent
  /\ shown = {} /\ faulty = {}
  /\ others = 0

(* What the manifest of an honest run says of its corpus.                  *)
Truthful(c) ==
  /\ c.manifest.asked
  /\ c.manifest.bytes = Length[c.content] /\ c.manifest.checksum = c.content
  /\ c.manifest.bytes = c.manifest.count * Width
  /\ c.manifest.count <= c.manifest.read

Turn(from, to) == phase = from /\ phase' = to

Publish(c) ==
  /\ slot' = c
  /\ shown' = shown \cup {c.content}

-----------------------------------------------------------------------------
(* The processes the harness starts, and one it does not                   *)

(* The binary over the source, whatever it does.                           *)
RunBinary ==
  /\ Turn("run", "load") /\ round < Rounds
  /\ \E c \in Corpora :
       /\ Publish(c)
       /\ faulty' = faulty \cup (IF Truthful(c) THEN {} ELSE {"corpus"})
  /\ edited' \in {edited, TRUE}
  /\ UNCHANGED <<round, manifest, before, verified, others>>

EndRounds ==
  /\ Turn("run", "digest") /\ round = Rounds
  /\ UNCHANGED <<round, edited, slot, manifest, before, verified, shown, faulty, others>>

Ended == phase \in {"reported", "rejected", "failed", "panicked"}

(* A run that exits non-zero, or any I/O failure, ends the soak; not the   *)
(* run that must fail.                                                     *)
SoakFails ==
  /\ ~Ended /\ phase' = "failed"
  /\ UNCHANGED <<round, edited, slot, manifest, before, verified, shown, faulty, others>>

(* The error of a run that exits non-zero carries the end of its standard  *)
(* error, cut at a byte: inside a character, that panics.                  *)
SoakTailPanics ==
  /\ phase \in {"run", "reference", "consumer", "break"} /\ phase' = "panicked"
  /\ phase = "run" => round < Rounds
  /\ UNCHANGED <<round, edited, slot, manifest, before, verified, shown, faulty, others>>

(* The binary over a source that ends mid-record: it must fail.            *)
RunBroken ==
  /\ phase = "break"
  /\ \E exits \in {"zero", "nonzero"}, harms \in BOOLEAN :
       /\ phase' = IF exits = "zero" THEN "rejected" ELSE "after"
       /\ IF harms THEN \E c \in Corpora : Publish(c) ELSE UNCHANGED <<slot, shown>>
       /\ faulty' = faulty \cup (IF exits = "zero" THEN {"accepts"} ELSE {})
                           \cup (IF slot' # slot THEN {"harms"} ELSE {})
  /\ UNCHANGED <<round, edited, manifest, before, verified, others>>

OtherPublishes ==
  /\ others < Others /\ ~Ended
  /\ \E c \in Corpora : Truthful(c) /\ Publish(c)
  /\ others' = others + 1
  /\ UNCHANGED <<phase, round, edited, manifest, before, verified, faulty>>

-----------------------------------------------------------------------------
(* PublishedCorpus::verify, which finds every file by its path anew        *)

Load ==
  /\ phase = "load"
  /\ manifest' = slot.manifest
  /\ phase' = IF slot.manifest.asked THEN "measure" ELSE "rejected"
  /\ shown' = {slot.content}
  /\ UNCHANGED <<round, edited, slot, before, verified, faulty, others>>

Measure ==
  /\ phase = "measure"
  /\ LET bytes == Length[slot.content]
     IN  phase' = IF /\ bytes = manifest.bytes
                     /\ bytes % Width = 0
                     /\ bytes \div Width = manifest.count
                    THEN "hash" ELSE "rejected"
  /\ UNCHANGED <<round, edited, slot, manifest, before, verified, shown, faulty, others>>

(* Faulty: the length is taken for the content.                            *)
SameLength(checksum) == Length[slot.content] = Length[checksum]

HashesTo(checksum) == slot.content = checksum

(* Faulty: a sample of every record is refused.                            *)
SmallerThanRead(count) == count < manifest.read

NoMoreThanRead(count) == count <= manifest.read

Hash ==
  /\ phase = "hash"
  /\ IF HashesTo(manifest.checksum) /\ NoMoreThanRead(manifest.count)
       THEN phase' = "run" /\ verified' = manifest /\ round' = round + 1
       ELSE phase' = "rejected" /\ UNCHANGED <<verified, round>>
  /\ UNCHANGED <<edited, slot, manifest, before, shown, faulty, others>>

-----------------------------------------------------------------------------
(* The rest of soak()                                                      *)

(* Faulty: the source is digested for the first time after the rounds.     *)
DigestedLate(sourceEdited) == FALSE

Digested(sourceEdited) == sourceEdited

DigestSource ==
  /\ phase = "digest"
  /\ phase' = IF Digested(edited) THEN "rejected" ELSE IF Reference THEN "reference" ELSE "before"
  /\ UNCHANGED <<round, edited, slot, manifest, before, verified, shown, faulty, others>>

MeasureDeno ==
  /\ Turn("reference", "consumer")
  /\ UNCHANGED <<round, edited, slot, manifest, before, verified, shown, faulty, others>>

CheckConsumer ==
  /\ phase = "consumer" /\ phase' \in {"before", "rejected"}
  /\ faulty' = faulty \cup (IF phase' = "rejected" THEN {"consumer"} ELSE {})
  /\ UNCHANGED <<round, edited, slot, manifest, before, verified, shown, others>>

(* CorpusDigest::of covers the manifest as well as the records.            *)
DigestPublished ==
  /\ phase = "before"
  /\ phase' = IF slot = Absent THEN "failed" ELSE "break"
  /\ before' = slot
  /\ UNCHANGED <<round, edited, slot, manifest, verified, shown, faulty, others>>

SameDigest(c, d) == c = d

ComparePublished ==
  /\ phase = "after"
  /\ phase' = IF SameDigest(slot, before) THEN "reported" ELSE "rejected"
  /\ UNCHANGED <<round, edited, slot, manifest, before, verified, shown, faulty, others>>

SoakNext ==
  \/ RunBinary \/ EndRounds \/ SoakFails \/ SoakTailPanics \/ RunBroken \/ OtherPublishes
  \/ Load \/ Measure \/ Hash
  \/ DigestSource \/ MeasureDeno \/ CheckConsumer \/ DigestPublished \/ ComparePublished

SoakSpec == SoakInit /\ [][SoakNext]_soakVars

-----------------------------------------------------------------------------
(* Properties *)

SoakTypeOK ==
  /\ phase \in {"run", "load", "measure", "hash", "digest", "reference", "consumer", "before",
                "break", "after", "reported", "rejected", "failed", "panicked"}
  /\ round \in 0 .. Rounds /\ others \in 0 .. Others
  /\ edited \in BOOLEAN
  /\ slot \in Corpora \cup {Absent} /\ before \in Corpora \cup {Absent}
  /\ manifest \in Manifest \cup {Nobody} /\ verified \in Manifest \cup {Nobody}
  /\ shown \subseteq Contents
  /\ faulty \subseteq {"corpus", "accepts", "harms", "consumer"}

(* What the report says of a round is true of a corpus that was published  *)
(* while the harness looked, whatever a faulty binary published or another *)
(* run swapped in between its looks - though not of both at once: then the *)
(* bytes of one corpus may be reported beside the checksum of another.     *)
EvidenceIsTrue ==
  round > 0 /\ phase \in {"run", "digest"} /\ ("corpus" \notin faulty \/ others = 0) =>
    \E c \in shown : Truthful([content |-> c, manifest |-> verified])

(* A report is not written after a round that changed the source, nor of a *)
(* binary that publishes where it must fail or disturbs what is published. *)
ReportIsEarned ==
  phase = "reported" => ~edited /\ "accepts" \notin faulty /\ ("harms" \in faulty => others > 0)

(* An honest binary that has the output to itself is never rejected.       *)
NoFalseAlarm == phase = "rejected" => edited \/ faulty # {} \/ others > 0

=============================================================================
