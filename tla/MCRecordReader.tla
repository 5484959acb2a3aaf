--------------------------- MODULE MCRecordReader ---------------------------
(* Small instances of RecordReader: up to three files of up to five bytes.  *)
EXTENDS RecordReader

UpToThreeFiles == UNION {[1 .. n -> 0 .. 5] : n \in 1 .. 3}

=============================================================================
