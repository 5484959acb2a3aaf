--------------------------- MODULE MCTransformRun ---------------------------
(* Small instances of TransformRun: sources of up to two files of up to two *)
(* records, some of which end in the middle of one.                        *)
EXTENDS TransformRun

UpToTwoFiles == UNION {[1 .. n -> [records : 0 .. 2, whole : BOOLEAN]] : n \in 1 .. 2}
(* What takes the source's place: nothing, other records in the same files, *)
(* fewer files, or a malformed one.                                        *)
File(n, w) == [records |-> n, whole |-> w]
Others == {<<>>, <<File(2, TRUE), File(1, TRUE)>>, <<File(1, TRUE)>>, <<File(1, TRUE), File(1, FALSE)>>}
BothWhole == [n \in {"corpus", "manifest"} |-> "whole"]

=============================================================================
