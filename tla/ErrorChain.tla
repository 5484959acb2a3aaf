----------------------------- MODULE ErrorChain -----------------------------
(***************************************************************************)
(* What a caller learns of a failed run: an exit code, and the bytes that  *)
(* a retry needs.  Both are found by walking the chain of source() from    *)
(* the error main() is handed, through every type that wraps it.           *)
(*                                                                         *)
(* An error is the sequence of links that walk meets, outermost first; a   *)
(* variant whose type does not answer source() for it ends the sequence,   *)
(* whatever it was made from.                                              *)
(***************************************************************************)
EXTENDS Integers, Sequences, FiniteSetsExt

NoFigure == -1

Link(type, variant) == [type |-> type, variant |-> variant, required_bytes |-> NoFigure]
Wrap(type, variant, carries, cause) ==
  <<Link(type, variant)>> \o (IF variant \in carries THEN cause ELSE <<>>)

(* Kinds of io::Error: a full volume, by kind or by errno, and any other.   *)
IoKinds == {"full", "other"}
IoError(kind) == <<Link("io::Error", kind)>>

-----------------------------------------------------------------------------
(* The error types: their variants and, of each, what source() answers.    *)

CorpusError(variant, cause)   == Wrap("CorpusError", variant, {"Io"}, cause)
ManifestError(variant, cause) == Wrap("ManifestError", variant, {"Json", "Io"}, cause)

(* Faulty: source() forgets the failure of a swap.                          *)
TransformErrorOpaque(variant, cause) ==
  Wrap("TransformError", variant, {"Corpus", "Manifest", "Io"}, cause)

TransformError(variant, cause) ==
  Wrap("TransformError", variant, {"Corpus", "Manifest", "Publish", "Io"}, cause)

SampleError(variant, cause) ==
  Wrap("SampleError", variant, {"Corpus", "Manifest", "Publish", "Io", "StorageFull"}, cause)

FuzzError(variant, cause)     == Wrap("FuzzError", variant, {"Transform"}, cause)
QuantiseError(variant, cause) == Wrap("QuantiseError", variant, {"Transform"}, cause)
StageError(variant, cause)    == Wrap("StageError", variant, {"Sample", "Fuzz", "Quantise"}, cause)
PipelineError(variant, cause) ==
  Wrap("PipelineError", variant, {"Stage", "Transform", "Json", "Io"}, cause)
CliError(variant, cause)      == Wrap("CliError", variant, {"Sample", "Quantise", "Fuzz", "Pipeline"}, cause)

(* From<TransformError> for SampleError: the same variant in its own words. *)
Restated(error) == SampleError(Head(error).variant, Tail(error))

-----------------------------------------------------------------------------
(* The walk                                                                *)

IsStorageFull(error) ==
  \E i \in DOMAIN error : error[i].type = "io::Error" /\ error[i].variant = "full"

(* The first SampleError on the chain that knows a figure.                 *)
RequiredBytes(error) ==
  LET known == {i \in DOMAIN error : error[i].required_bytes # NoFigure}
  IN  IF known = {} THEN NoFigure ELSE error[Min(known)].required_bytes

(* with_required_bytes: only a full volume, and only once.                 *)
WithRequiredBytes(error, bytes) ==
  IF RequiredBytes(<<Head(error)>>) # NoFigure \/ ~IsStorageFull(error) THEN error
  ELSE <<[Link("SampleError", "StorageFull") EXCEPT !.required_bytes = bytes]>> \o error

CodeFor(error) == IF IsStorageFull(error) THEN 28 ELSE 1

(* failure_report: the figure is printed beside the one code it explains.  *)
ReportedFigure(error) == IF CodeFor(error) = 28 THEN RequiredBytes(error) ELSE NoFigure

-----------------------------------------------------------------------------
(* Where a transform fails, as the TransformError its helpers return or the *)
(* CorpusError or ManifestError that becomes one.                          *)

Shared(kind) ==
  {TransformError("Io", IoError(kind)),        \* paths, staging, lengths
   TransformError("Corpus", CorpusError("Io", IoError(kind))),      \* records
   TransformError("Manifest", ManifestError("Io", IoError(kind))),
   TransformError("Publish", IoError(kind))}

(* The error a transform returns; figure is what a sampler would say.      *)
Returned(transform, error, figure) ==
  CASE transform = "sample"   -> WithRequiredBytes(Restated(error), figure)
    [] transform = "fuzz"     -> FuzzError("Transform", error)
    [] transform = "quantise" -> QuantiseError("Transform", error)

(* PipelineError::stage, from the transform's own error.                   *)
InStage(transform, error) ==
  PipelineError("Stage",
    StageError(CASE transform = "sample" -> "Sample" [] transform = "fuzz" -> "Fuzz"
                 [] transform = "quantise" -> "Quantise", error))

=============================================================================
