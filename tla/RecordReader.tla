---------------------------- MODULE RecordReader ----------------------------
(***************************************************************************)
(* corpus/reader.rs: records of a fixed width streamed from a list of      *)
(* files through one buffer of a few records.  A read may return any part  *)
(* of what was asked; what is left of a record is moved to the front of    *)
(* the buffer before the next read; a file must hold whole records and at  *)
(* least one.                                                              *)
(*                                                                         *)
(* A byte is named by its file and its offset, so a record that skips a    *)
(* byte, repeats one or mixes two files is a wrong value.  One step is one *)
(* turn of the loop in fill_to_record, or the return of a record; the      *)
(* caller may stop calling at any time, and after an error or the end      *)
(* every further call answers None.                                        *)
(***************************************************************************)
EXTENDS Integers, Sequences

CONSTANTS
  Width,          \* bytes per record
  BufferRecords,  \* records the buffer holds, after with_capacity's max(1)
  Corpora,        \* the source lists to read: sequences of file lengths
  Stale           \* what the buffer holds where no read has put a byte

ASSUME WidthAssumption   == Width \in Nat \ {0} /\ BufferRecords \in Nat \ {0}
ASSUME CorporaAssumption == Corpora \subseteq Seq(Nat) \ {<<>>}
ASSUME StaleAssumption   == Stale \notin Nat \X Nat

VARIABLES
  lengths,    \* the length of each file
  opened,     \* how many files have been taken from `remaining`
  current,    \* whether the file last taken is still open
  byte_len,   \* bytes read from it
  buffer,     \* the buffer, from 0
  filled,     \* bytes of it that hold data
  cursor,     \* bytes of it already handed out
  record,     \* the slice last handed out
  records_read,
  exhausted,
  failure     \* the error that ended the stream, or "none"

vars == <<lengths, opened, current, byte_len, buffer, filled, cursor, record,
          records_read, exhausted, failure>>

BufferBytes == BufferRecords * Width
Places      == 0 .. BufferBytes - 1
Slice       == 0 .. Width - 1

Init ==
  /\ lengths \in Corpora
  /\ opened = 0
  /\ current = FALSE
  /\ byte_len = 0
  /\ buffer = [i \in Places |-> Stale]
  /\ filled = 0
  /\ cursor = 0
  /\ record = [i \in Slice |-> Stale]
  /\ records_read = 0
  /\ exhausted = FALSE
  /\ failure = "none"

Buffered == filled - cursor

(* next_record hands out a slice of the buffer.                            *)
HandOut ==
  /\ ~exhausted
  /\ Buffered >= Width
  /\ record' = [i \in Slice |-> buffer[cursor + i]]
  /\ cursor' = cursor + Width
  /\ records_read' = records_read + 1
  /\ UNCHANGED <<lengths, opened, current, byte_len, buffer, filled, exhausted, failure>>

(* The remainder of the loop runs only when no whole record is buffered.   *)
Starved == ~exhausted /\ Buffered < Width

(* Faulty: the indices move to the front, the bytes stay.                  *)
CompactedIndices == buffer

(* copy_within(cursor..filled, 0)                                          *)
Compacted ==
  [i \in Places |-> IF i < Buffered THEN buffer[cursor + i] ELSE buffer[i]]

Compact ==
  /\ filled' = Buffered
  /\ cursor' = 0

Fail(error) ==
  /\ exhausted' = TRUE
  /\ failure' = error

OpenNext ==
  /\ Starved /\ ~current /\ opened < Len(lengths)
  /\ buffer' = Compacted /\ Compact
  /\ opened' = opened + 1
  /\ current' = TRUE
  /\ byte_len' = 0
  /\ UNCHANGED <<lengths, record, records_read, exhausted, failure>>

OpenFails ==
  /\ Starved /\ ~current /\ opened < Len(lengths)
  /\ buffer' = Compacted /\ Compact
  /\ opened' = opened + 1
  /\ Fail("io")
  /\ UNCHANGED <<lengths, current, byte_len, record, records_read>>

(* No file is left: the stream has ended cleanly.                          *)
End ==
  /\ Starved /\ ~current /\ opened = Len(lengths)
  /\ buffer' = Compacted /\ Compact
  /\ exhausted' = TRUE
  /\ UNCHANGED <<lengths, opened, current, byte_len, record, records_read, failure>>

(* One read of n bytes into the rest of the buffer.                        *)
Unread == lengths[opened] - byte_len

Room == BufferBytes - Buffered

Read(n) ==
  /\ Starved /\ current
  /\ n \in 1 .. Unread /\ n <= Room
  /\ buffer' = [i \in Places |-> IF i \in Buffered .. Buffered + n - 1
                                   THEN <<opened, byte_len + i - Buffered>>
                                   ELSE Compacted[i]]
  /\ filled' = Buffered + n
  /\ cursor' = 0
  /\ byte_len' = byte_len + n
  /\ UNCHANGED <<lengths, opened, current, record, records_read, exhausted, failure>>

ReadFails ==
  /\ Starved /\ current
  /\ buffer' = Compacted /\ Compact
  /\ Fail("io")
  /\ UNCHANGED <<lengths, opened, current, byte_len, record, records_read>>

(* Faulty: a file that ends inside a record goes unnoticed.                *)
VerdictIgnoringTheRest == IF byte_len = 0 THEN "empty" ELSE "none"

(* What close_current finds wrong with the file it retires.                *)
Verdict ==
  IF byte_len = 0 THEN "empty" ELSE IF byte_len % Width # 0 THEN "partial" ELSE "none"

(* Faulty: the finished file stays the current one.                        *)
RetireKeepingIt == UNCHANGED current

Retire == current' = FALSE

(* A read of 0 bytes - at the end of the file, or into no room - closes    *)
(* the file.                                                               *)
Close ==
  /\ Starved /\ current
  /\ Unread = 0 \/ Room = 0
  /\ buffer' = Compacted /\ Compact
  /\ Retire
  /\ IF Verdict = "none" THEN UNCHANGED <<exhausted, failure>> ELSE Fail(Verdict)
  /\ UNCHANGED <<lengths, opened, byte_len, record, records_read>>

Fill == OpenNext \/ End \/ Close \/ \E n \in 1 .. BufferBytes : Read(n)

Next == HandOut \/ Fill \/ OpenFails \/ ReadFails

Spec == Init /\ [][Next]_vars

(* A caller that drains the stream, as the three transforms do, calls again *)
(* until it has an answer that ends it.                                    *)
FairSpec == Spec /\ WF_vars(HandOut \/ Fill)

-----------------------------------------------------------------------------
(* Properties *)

TypeOK ==
  /\ lengths \in Corpora
  /\ opened \in 0 .. Len(lengths)
  /\ current \in BOOLEAN /\ (current => opened > 0)
  /\ byte_len \in Nat
  /\ buffer \in [Places -> (Nat \X Nat) \cup {Stale}]
  /\ filled \in 0 .. BufferBytes /\ cursor \in 0 .. filled
  /\ record \in [Slice -> (Nat \X Nat) \cup {Stale}]
  /\ records_read \in Nat
  /\ exhausted \in BOOLEAN
  /\ failure \in {"none", "io", "empty", "partial"}

(* Whole records in the files up to and including the f-th.                *)
RecordsUpTo ==
  LET upto[f \in 0 .. Len(lengths)] ==
        IF f = 0 THEN 0 ELSE upto[f - 1] + lengths[f] \div Width
  IN  upto

(* The n-th record of the corpus, read file after file.                    *)
RecordOf(n) ==
  LET f == CHOOSE g \in 1 .. Len(lengths) : RecordsUpTo[g - 1] < n /\ n <= RecordsUpTo[g]
  IN  [i \in Slice |-> <<f, (n - 1 - RecordsUpTo[f - 1]) * Width + i>>]

(* The record handed out last is the next one of the corpus: whole, from   *)
(* one file, none skipped and none repeated, however the reads were cut.   *)
InOrder == records_read > 0 => record = RecordOf(records_read)

(* The stream ends for the reason it gives, and not before every record    *)
(* that precedes that reason was handed out: at the end all of them; for a *)
(* file with trailing bytes, every whole record up to them.                *)
EndIsEarned ==
  exhausted =>
    CASE failure = "none"    -> /\ opened = Len(lengths)
                                /\ \A f \in 1 .. opened : lengths[f] > 0 /\ lengths[f] % Width = 0
                                /\ records_read = RecordsUpTo[opened]
      [] failure = "empty"   -> /\ lengths[opened] = 0
                                /\ records_read = RecordsUpTo[opened - 1]
      [] failure = "partial" -> /\ lengths[opened] % Width # 0
                                /\ records_read = RecordsUpTo[opened]
      [] failure = "io"      -> records_read <= RecordsUpTo[opened]

(* A stream that is drained ends: no turn of the loop repeats for ever.    *)
Drained == <>exhausted

=============================================================================
