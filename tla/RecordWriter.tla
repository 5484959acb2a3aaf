---------------------------- MODULE RecordWriter ----------------------------
(***************************************************************************)
(* corpus/writer.rs: whole records gathered in a buffer and written with   *)
(* write_all, a finish that flushes the tail, and a destructor that        *)
(* flushes too and panics if it cannot - unless the failure of a flush has *)
(* been returned to the caller already.                                    *)
(*                                                                         *)
(* The bytes accepted are numbered 1, 2, 3, ... in the order of the        *)
(* records, so the file is right when it reads 1, 2, 3, ... as well.  A    *)
(* write_all that fails may have put any part of the buffer in the file    *)
(* first; the buffer is kept as it was.                                    *)
(***************************************************************************)
EXTENDS Integers, Sequences

CONSTANTS
  Width,            \* bytes per record
  RecordsPerFlush,  \* records the buffer holds, after max(1)
  MaxRecords,       \* bound: records the caller offers
  MaxFailures,      \* bound: writes that fail
  Retries           \* TRUE for a caller that goes on after a failed flush

ASSUME WidthAssumption   == Width \in Nat \ {0} /\ RecordsPerFlush \in Nat \ {0}
ASSUME BoundAssumption   == MaxRecords \in Nat /\ MaxFailures \in Nat
ASSUME RetriesAssumption == Retries \in BOOLEAN

VARIABLES
  status,            \* "open", or how the writer ended
  file,              \* the bytes in the file
  buffered,          \* how many of the last accepted bytes the buffer holds
  records_written,   \* records accepted
  reported_failure,  \* the writer's flag
  told,              \* history: records accepted when an error was returned
  failures           \* writes that have failed, for the bound

vars == <<status, file, buffered, records_written, reported_failure, told, failures>>

Capacity == RecordsPerFlush * Width
Accepted == records_written * Width
Numbers(first, n) == [i \in 1 .. n |-> first + i - 1]

Init ==
  /\ status = "open"
  /\ file = <<>>
  /\ buffered = 0
  /\ records_written = 0
  /\ reported_failure = FALSE
  /\ told = 0
  /\ failures = 0

(* A caller that takes an error as final touches the writer no more.       *)
Usable == status = "open" /\ (Retries \/ told = 0)

Full == buffered + Width > Capacity

(* Faulty: write in place of write_all, which may land less.               *)
LandShort(n) == \E k \in 0 .. n : file' = file \o Numbers(Accepted - buffered + 1, k)

(* write_all lands the first n bytes of the buffer at the end of the file. *)
Land(n) == file' = file \o Numbers(Accepted - buffered + 1, n)

FlushOk ==
  /\ Land(buffered)
  /\ reported_failure' = IF buffered = 0 THEN reported_failure ELSE FALSE
  /\ UNCHANGED <<told, failures>>

(* Faulty: a failed flush leaves no trace for the destructor.              *)
ReportNothing == UNCHANGED reported_failure

Report == reported_failure' = TRUE

FlushFails ==
  /\ buffered > 0
  /\ failures < MaxFailures
  /\ failures' = failures + 1
  /\ \E n \in 0 .. buffered - 1 : Land(n)
  /\ Report
  /\ told' = records_written
  /\ UNCHANGED <<buffered, records_written>>

WriteBuffered ==
  /\ Usable /\ ~Full
  /\ records_written < MaxRecords
  /\ buffered' = buffered + Width
  /\ records_written' = records_written + 1
  /\ UNCHANGED <<status, file, reported_failure, told, failures>>

WriteThrough ==
  /\ Usable /\ Full
  /\ records_written < MaxRecords
  /\ FlushOk
  /\ buffered' = Width
  /\ records_written' = records_written + 1
  /\ UNCHANGED status

(* The record that met the full buffer is refused with the flush's error.  *)
WriteFails ==
  /\ Usable /\ Full
  /\ records_written < MaxRecords
  /\ FlushFails
  /\ UNCHANGED status

Flush ==
  /\ Usable
  /\ \/ FlushOk /\ buffered' = 0 /\ UNCHANGED records_written
     \/ FlushFails
  /\ UNCHANGED status

FlushTail == FlushOk /\ buffered' = 0 /\ UNCHANGED records_written

Finish ==
  /\ Usable
  /\ FlushTail
  /\ status' = "finished"

(* finish consumes the writer: after its error only the destructor is left, *)
(* and it finds the failure reported.                                      *)
FinishFails ==
  /\ Usable
  /\ FlushFails
  /\ status' = "failed"

(* The destructor, without a finish: on the way out of an error elsewhere, *)
(* or of a panic.                                                          *)
(* Faulty: a writer that has been told of nothing is dropped quietly too.  *)
SparedAlways == TRUE

(* The records still buffered are none, or were reported lost already.     *)
Spared == buffered = 0 \/ reported_failure

DropQuietly ==
  /\ status = "open" /\ Spared
  /\ status' = "dropped"
  /\ UNCHANGED <<file, buffered, records_written, reported_failure, told, failures>>

DropFlushing ==
  /\ status = "open" /\ ~Spared
  /\ FlushOk /\ buffered' = 0 /\ UNCHANGED records_written
  /\ status' = "dropped"

DropFails(panicking) ==
  /\ status = "open" /\ ~Spared
  /\ failures < MaxFailures
  /\ failures' = failures + 1
  /\ \E n \in 0 .. buffered - 1 : Land(n)
  /\ Report
  /\ status' = IF panicking THEN "lostOnStderr" ELSE "panicked"
  /\ UNCHANGED <<buffered, records_written, told>>

Next ==
  \/ WriteBuffered \/ WriteThrough \/ WriteFails
  \/ Flush \/ Finish \/ FinishFails
  \/ DropQuietly \/ DropFlushing
  \/ \E panicking \in BOOLEAN : DropFails(panicking)

Spec == Init /\ [][Next]_vars

-----------------------------------------------------------------------------
(* Properties *)

TypeOK ==
  /\ status \in {"open", "finished", "failed", "dropped", "lostOnStderr", "panicked"}
  /\ file \in Seq(Nat)
  /\ buffered \in 0 .. Capacity
  /\ records_written \in 0 .. MaxRecords
  /\ reported_failure \in BOOLEAN
  /\ told \in 0 .. MaxRecords
  /\ failures \in 0 .. MaxFailures

Written(n) == file = Numbers(1, n)

(* The file is a prefix of the bytes accepted: none repeated, none out of  *)
(* order and none missing, where the caller stops at the first error.      *)
FileIsPrefix == Len(file) <= Accepted /\ Written(Len(file))

(* A finish that returns a count has put that many records in the file.    *)
FinishedIsWritten == status = "finished" => Written(Accepted)

(* README: "buffered records are never lost in silence": a destructor that *)
(* says nothing leaves every accepted record in the file, or drops only    *)
(* records whose loss an error has already told the caller of.             *)
NothingLostInSilence ==
  status = "dropped" => Written(Accepted) \/ told = records_written

(* The destructor panics only over records no error has told of: a panic   *)
(* in place of an error would replace the run's exit code.                 *)
PanicIsNews ==
  status \in {"panicked", "lostOnStderr"} => told = 0 \/ told < records_written

=============================================================================
