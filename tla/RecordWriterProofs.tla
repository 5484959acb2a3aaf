------------------------- MODULE RecordWriterProofs -------------------------
(***************************************************************************)
(* What RecordWriter promises to a caller that takes an error as final, as *)
(* the three transforms do (~Retries), for every record width, buffer,     *)
(* number of records and number of failing writes.                         *)
(*                                                                         *)
(* The invariant: until an error is returned, the file and the buffer are  *)
(* the bytes accepted, cut in two; after it, the file is some prefix and   *)
(* the destructor knows that it was told.                                  *)
(***************************************************************************)
EXTENDS RecordWriter, SequenceTheorems, TLAPS

(* The file holds everything accepted that the buffer does not.            *)
CutInTwo == file = Numbers(1, Accepted - buffered)

Undisturbed ==
  told = 0 /\ status = "open" => CutInTwo /\ ~reported_failure

Told ==
  told # 0 => /\ told = records_written
              /\ status \in {"open", "failed", "dropped"}
              /\ status = "open" => reported_failure

Buffered ==
  /\ buffered <= Accepted
  /\ buffered > 0 => records_written > 0

IInv ==
  /\ TypeOK
  /\ Buffered
  /\ Undisturbed
  /\ Told
  /\ FileIsPrefix
  /\ FinishedIsWritten
  /\ NothingLostInSilence

-----------------------------------------------------------------------------

(* A run of numbers is a sequence of its length.                           *)
LEMMA NumbersSeq ==
  ASSUME NEW a \in Nat, NEW n \in Nat
  PROVE  /\ Numbers(a, n) \in Seq(Nat) /\ Len(Numbers(a, n)) = n
         /\ \A i \in 1 .. n : Numbers(a, n)[i] = a + i - 1
<1>1. \A i \in 1 .. n : a + i - 1 \in Nat
  OBVIOUS
<1> QED
  BY <1>1 DEF Numbers

(* Two runs, the second starting where the first stops, are one.           *)
LEMMA NumbersJoin ==
  ASSUME NEW m \in Nat, NEW n \in Nat
  PROVE  Numbers(1, m) \o Numbers(m + 1, n) = Numbers(1, m + n)
<1> DEFINE s == Numbers(1, m)
           t == Numbers(m + 1, n)
           u == Numbers(1, m + n)
<1>1. s \in Seq(Nat) /\ Len(s) = m /\ \A i \in 1 .. m : s[i] = i
  BY NumbersSeq
<1>2. t \in Seq(Nat) /\ Len(t) = n /\ \A i \in 1 .. n : t[i] = m + i
  BY NumbersSeq
<1>3. u \in Seq(Nat) /\ Len(u) = m + n /\ \A i \in 1 .. m + n : u[i] = i
  <2>1. PICK k \in Nat : k = m + n
    OBVIOUS
  <2>2. \A i \in 1 .. k : 1 + i - 1 = i
    OBVIOUS
  <2>3. Numbers(1, k) \in Seq(Nat) /\ Len(Numbers(1, k)) = k
        /\ \A i \in 1 .. k : Numbers(1, k)[i] = i
    BY <2>2, NumbersSeq
  <2> QED
    BY <2>1, <2>3
<1> HIDE DEF s, t, u
<1>4. /\ s \o t \in Seq(Nat) /\ Len(s \o t) = m + n
      /\ \A i \in 1 .. m + n : (s \o t)[i] = IF i <= m THEN s[i] ELSE t[i - m]
  BY <1>1, <1>2, ConcatProperties
<1>5. ASSUME NEW i \in 1 .. m + n PROVE (s \o t)[i] = u[i]
  <2>1. CASE i <= m
    BY <1>1, <1>3, <1>4, <2>1
  <2>2. CASE ~(i <= m)
    <3>1. i - m \in 1 .. n /\ m + (i - m) = i
      BY <2>2
    <3> QED
      BY <1>2, <1>3, <1>4, <2>2, <3>1
  <2> QED
    BY <2>1, <2>2
<1>6. s \o t = u
  BY <1>3, <1>4, <1>5, SeqEqual
<1> QED
  BY <1>6 DEF s, t, u

(* The buffer holds one record at least, and a record adds Width bytes.    *)
LEMMA Widths ==
  /\ Capacity \in Nat /\ Width <= Capacity
  /\ 0 * Width = 0
  /\ \A r \in Nat : r * Width \in Nat /\ (r + 1) * Width = r * Width + Width
<1>1. Width \in Nat \ {0} /\ RecordsPerFlush \in Nat \ {0}
  BY WidthAssumption
<1>2. PICK k \in Nat : RecordsPerFlush = k + 1
  <2>1. RecordsPerFlush - 1 \in Nat /\ RecordsPerFlush = (RecordsPerFlush - 1) + 1
    BY <1>1
  <2> QED
    BY <2>1
<1>3. 0 * Width = 0 /\ \A r \in Nat : r * Width \in Nat /\ (r + 1) * Width = r * Width + Width
  BY <1>1
<1>4. Capacity = k * Width + Width
  BY <1>2, <1>3 DEF Capacity
<1> QED
  BY <1>1, <1>3, <1>4

(* What the type invariant says of the counts, bounds aside.               *)
LEMMA Counts ==
  ASSUME TypeOK
  PROVE  records_written \in Nat /\ Accepted \in Nat /\ buffered \in Nat
<1>1. records_written \in Nat
  BY BoundAssumption DEF TypeOK
<1>2. buffered \in Nat
  BY Widths DEF TypeOK
<1> QED
  BY <1>1, <1>2, Widths DEF Accepted

(* What a write puts in an undisturbed file: the bytes that come next.     *)
LEMMA Landed ==
  ASSUME TypeOK, Buffered, CutInTwo, NEW n \in 0 .. buffered, Land(n)
  PROVE  file' = Numbers(1, Accepted - buffered + n)
<1>1. Accepted \in Nat /\ Accepted - buffered \in Nat /\ n \in Nat
  BY Counts DEF Buffered
<1>2. file' = Numbers(1, Accepted - buffered) \o Numbers((Accepted - buffered) + 1, n)
  BY DEF Land, CutInTwo
<1> QED
  BY <1>1, <1>2, NumbersJoin

(* A prefix by name is a prefix by length.                                 *)
LEMMA PrefixOf ==
  ASSUME NEW n \in Nat, NEW s, s = Numbers(1, n)
  PROVE  s \in Seq(Nat) /\ Len(s) = n /\ s = Numbers(1, Len(s))
BY NumbersSeq

-----------------------------------------------------------------------------

(* The invariant holds of a new writer.                                    *)
LEMMA InitHolds ==
  ASSUME Init
  PROVE  IInv
<1>1. Numbers(1, 0) = <<>>
  BY DEF Numbers
<1>2. Accepted = 0 /\ Accepted - buffered = 0
  BY Widths DEF Init, Accepted
<1>3. file = Numbers(1, 0) /\ Len(file) = 0 /\ file \in Seq(Nat)
  BY <1>1 DEF Init
<1>4. TypeOK
  <2>1. Capacity \in Nat
    BY Widths
  <2>2. reported_failure \in BOOLEAN
    BY DEF Init
  <2> QED
    BY <1>3, <2>1, <2>2, BoundAssumption DEF Init, TypeOK
<1> QED
  BY <1>2, <1>3, <1>4 DEF Init, IInv, Buffered, Undisturbed, CutInTwo, Told, FileIsPrefix,
     Written, FinishedIsWritten, NothingLostInSilence

(* What a step that writes the whole buffer leaves in the file.            *)
LEMMA Flushed ==
  ASSUME IInv, status = "open", told = 0, FlushOk
  PROVE  /\ file' = Numbers(1, Accepted) /\ file' \in Seq(Nat) /\ Len(file') = Accepted
         /\ reported_failure' = FALSE /\ told' = 0 /\ failures' = failures
<1>1. Accepted \in Nat /\ buffered \in Nat /\ (Accepted - buffered) + buffered = Accepted
  BY Counts DEF IInv
<1>2. file' = Numbers(1, Accepted)
  BY <1>1, Landed DEF IInv, Undisturbed, FlushOk
<1> QED
  BY <1>1, <1>2, PrefixOf DEF IInv, Undisturbed, FlushOk

(* What a failing write leaves there: part of what comes next.             *)
LEMMA FlushedPartly ==
  ASSUME IInv, status = "open", told = 0, NEW n \in 0 .. buffered - 1, Land(n)
  PROVE  /\ file' \in Seq(Nat) /\ Len(file') <= Accepted
         /\ file' = Numbers(1, Len(file'))
<1>1. /\ Accepted \in Nat /\ buffered \in Nat /\ n \in 0 .. buffered
      /\ Accepted - buffered + n \in Nat /\ Accepted - buffered + n <= Accepted
  BY Counts DEF IInv, Buffered
<1>2. file' = Numbers(1, Accepted - buffered + n)
  BY <1>1, Landed DEF IInv, Undisturbed
<1> QED
  BY <1>1, <1>2, PrefixOf

(* A flush that fails and tells the caller.                                *)
LEMMA FlushFailsHolds ==
  ASSUME IInv, status = "open", told = 0, FlushFails, status' \in {"open", "failed"}
  PROVE  IInv'
<1>1. PICK n \in 0 .. buffered - 1 : Land(n)
  BY DEF FlushFails
<1>2. file' \in Seq(Nat) /\ Len(file') <= Accepted /\ file' = Numbers(1, Len(file'))
  BY <1>1, FlushedPartly
<1>3. Accepted' = Accepted
  BY DEF FlushFails, Accepted
<1>4. TypeOK'
  BY <1>2, BoundAssumption DEF IInv, TypeOK, FlushFails, Report, Capacity
<1>5. Buffered'
  BY <1>3 DEF IInv, Buffered, FlushFails
<1>6. told' # 0 /\ Told'
  BY DEF IInv, TypeOK, Buffered, FlushFails, Report, Told
<1>7. FileIsPrefix'
  BY <1>2, <1>3 DEF FileIsPrefix, Written
<1> QED
  BY <1>4, <1>5, <1>6, <1>7 DEF IInv, Undisturbed, FinishedIsWritten, NothingLostInSilence

(* The steps of a caller that has not been told of a failure, and those of *)
(* the destructor.                                                         *)
LEMMA NextHolds ==
  ASSUME ~Retries, IInv, [Next]_vars
  PROVE  IInv'
<1>1. /\ Accepted \in Nat
      /\ Width \in Nat \ {0} /\ buffered \in 0 .. Capacity /\ buffered <= Accepted
      /\ Capacity \in Nat /\ Width <= Capacity /\ Capacity' = Capacity
  BY WidthAssumption, Counts, Widths DEF IInv, TypeOK, Buffered, Capacity
<1>2. CASE WriteBuffered
  <2>1. status = "open" /\ told = 0 /\ UNCHANGED <<status, file, reported_failure, told, failures>>
    BY <1>2 DEF WriteBuffered, Usable
  <2>2. Accepted' = Accepted + Width /\ records_written' \in 1 .. MaxRecords
    BY <1>2, Counts, Widths, BoundAssumption DEF IInv, TypeOK, WriteBuffered, Accepted
  <2>3. buffered' = buffered + Width /\ buffered' \in 0 .. Capacity
    BY <1>1, <1>2 DEF WriteBuffered, Full
  <2>4. Accepted' - buffered' = Accepted - buffered
    BY <1>1, <2>2, <2>3
  <2>5. TypeOK' /\ Buffered'
    BY <1>1, <2>1, <2>2, <2>3 DEF IInv, TypeOK, Buffered
  <2>6. Undisturbed'
    BY <2>1, <2>4 DEF IInv, Undisturbed, CutInTwo, Numbers
  <2>7. FileIsPrefix'
    <3>1. Len(file) \in Nat
      BY DEF IInv, TypeOK
    <3> QED
      BY <1>1, <2>1, <2>2, <3>1 DEF IInv, FileIsPrefix, Written, Numbers
  <2> QED
    BY <2>1, <2>5, <2>6, <2>7 DEF IInv, Told, FinishedIsWritten, NothingLostInSilence
<1>3. CASE WriteThrough
  <2>1. status = "open" /\ told = 0 /\ FlushOk /\ status' = "open"
    BY <1>3 DEF WriteThrough, Usable
  <2>2. /\ file' = Numbers(1, Accepted) /\ file' \in Seq(Nat) /\ Len(file') = Accepted
        /\ reported_failure' = FALSE /\ told' = 0 /\ failures' = failures
    BY <2>1, Flushed
  <2>3. Accepted' = Accepted + Width /\ records_written' \in 1 .. MaxRecords /\ buffered' = Width
    BY <1>3, Counts, Widths, BoundAssumption DEF IInv, TypeOK, WriteThrough, Accepted
  <2>4. Accepted' - buffered' = Accepted
    BY <1>1, <2>3
  <2>5. TypeOK' /\ Buffered'
    <3>1. reported_failure' \in BOOLEAN
      BY <2>2, Zenon
    <3>2. 0 \in 0 .. MaxRecords
      BY BoundAssumption
    <3> QED
      BY <1>1, <2>1, <2>2, <2>3, <3>1, <3>2 DEF IInv, TypeOK, Buffered
  <2>6. Undisturbed' /\ FileIsPrefix'
    BY <1>1, <2>2, <2>3, <2>4 DEF Undisturbed, CutInTwo, FileIsPrefix, Written, Numbers
  <2> QED
    BY <2>1, <2>2, <2>5, <2>6 DEF IInv, Told, FinishedIsWritten, NothingLostInSilence
<1>4. CASE WriteFails \/ (Flush /\ FlushFails) \/ FinishFails
  <2>1. status = "open" /\ told = 0 /\ FlushFails /\ status' \in {"open", "failed"}
    BY <1>4 DEF WriteFails, Flush, FinishFails, Usable
  <2> QED
    BY <2>1, FlushFailsHolds
<1>5. CASE \/ Flush /\ FlushOk /\ buffered' = 0 /\ UNCHANGED records_written
           \/ Finish \/ DropFlushing
  <2>1. /\ status = "open" /\ FlushOk /\ buffered' = 0 /\ UNCHANGED records_written
        /\ status' \in {"open", "finished", "dropped"}
    BY <1>5 DEF Flush, Finish, FlushTail, DropFlushing, Usable
  <2>2. told = 0
    BY <1>5 DEF Flush, Finish, DropFlushing, Usable, Spared, IInv, Told
  <2>3. /\ file' = Numbers(1, Accepted) /\ file' \in Seq(Nat) /\ Len(file') = Accepted
        /\ reported_failure' = FALSE /\ told' = 0 /\ failures' = failures
    BY <2>1, <2>2, Flushed
  <2>4. Accepted' = Accepted /\ Accepted' - buffered' = Accepted
    BY <1>1, <2>1 DEF Accepted
  <2>5. TypeOK' /\ Buffered'
    <3>1. reported_failure' \in BOOLEAN
      BY <2>3, Zenon
    <3>2. 0 \in 0 .. MaxRecords
      BY BoundAssumption
    <3> QED
      BY <1>1, <2>1, <2>3, <2>4, <3>1, <3>2 DEF IInv, TypeOK, Buffered
  <2>6. Written(Accepted)' /\ FileIsPrefix' /\ Undisturbed'
    BY <1>1, <2>3, <2>4 DEF Written, FileIsPrefix, Undisturbed, CutInTwo, Numbers
  <2> QED
    BY <2>3, <2>5, <2>6 DEF IInv, Told, FinishedIsWritten, NothingLostInSilence
<1>6. CASE DropQuietly
  <2>1. /\ status = "open" /\ status' = "dropped" /\ Spared
        /\ UNCHANGED <<file, buffered, records_written, reported_failure, told, failures>>
    BY <1>6 DEF DropQuietly
  <2>2. Accepted' = Accepted
    BY <2>1 DEF Accepted
  <2>3. told = 0 => Written(Accepted)
    <3>1. ASSUME told = 0 PROVE buffered = 0 /\ file = Numbers(1, Accepted - buffered)
      BY <2>1, <3>1 DEF IInv, Undisturbed, Spared, CutInTwo
    <3>2. Accepted - 0 = Accepted
      BY <1>1
    <3> QED
      BY <3>1, <3>2 DEF Written
  <2>4. NothingLostInSilence'
    BY <2>1, <2>2, <2>3 DEF IInv, Told, NothingLostInSilence, Written
  <2>5. TypeOK' /\ Buffered' /\ FileIsPrefix'
    BY <1>1, <2>1, <2>2 DEF IInv, TypeOK, Buffered, FileIsPrefix, Written
  <2> QED
    BY <2>1, <2>4, <2>5 DEF IInv, Undisturbed, Told, FinishedIsWritten
<1>7. CASE \E panicking \in BOOLEAN : DropFails(panicking)
  <2>1. PICK n \in 0 .. buffered - 1 : Land(n)
    BY <1>7 DEF DropFails
  <2>2. /\ status = "open" /\ ~Spared /\ Report /\ status' \in {"lostOnStderr", "panicked"}
        /\ failures' \in 0 .. MaxFailures /\ UNCHANGED <<buffered, records_written, told>>
    BY <1>7, BoundAssumption DEF DropFails, IInv, TypeOK
  <2>3. told = 0
    BY <2>2 DEF IInv, Told, Spared
  <2>4. file' \in Seq(Nat) /\ Len(file') <= Accepted /\ file' = Numbers(1, Len(file'))
    BY <2>1, <2>2, <2>3, FlushedPartly
  <2>5. Accepted' = Accepted
    BY <2>2 DEF Accepted
  <2>6. TypeOK' /\ Buffered' /\ FileIsPrefix'
    BY <1>1, <2>2, <2>4, <2>5 DEF IInv, TypeOK, Buffered, FileIsPrefix, Written, Report
  <2> QED
    BY <2>2, <2>3, <2>6 DEF IInv, Undisturbed, Told, FinishedIsWritten, NothingLostInSilence
<1>8. CASE UNCHANGED vars
  BY <1>8 DEF vars, IInv, TypeOK, Buffered, Undisturbed, CutInTwo, Told, FileIsPrefix,
     FinishedIsWritten, NothingLostInSilence, Written, Accepted, Capacity
<1> QED
  BY <1>2, <1>3, <1>4, <1>5, <1>6, <1>7, <1>8 DEF Next, Flush

-----------------------------------------------------------------------------

(* The invariant holds whenever the caller takes an error as final.        *)
LEMMA Inductive == ~Retries /\ Spec => []IInv
<1> SUFFICES ASSUME ~Retries PROVE Spec => []IInv
  OBVIOUS
<1>1. Init => IInv
  BY InitHolds
<1>2. IInv /\ [Next]_vars => IInv'
  BY NextHolds
<1> QED
  BY <1>1, <1>2, PTL DEF Spec

(* A caller that takes an error as final finds in the file the records it  *)
(* wrote, in order and none twice, whatever a failing write left there.    *)
THEOREM FileFollowsRecords == ~Retries /\ Spec => []FileIsPrefix
<1>1. IInv => FileIsPrefix
  BY DEF IInv
<1> QED
  BY <1>1, Inductive, PTL

(* It finds all of them there once finish has returned, and no destructor  *)
(* drops a record in silence.                                              *)
THEOREM WriterKeepsRecords ==
  ~Retries /\ Spec => [](FinishedIsWritten /\ NothingLostInSilence)
<1>1. IInv => FinishedIsWritten /\ NothingLostInSilence
  BY DEF IInv
<1> QED
  BY <1>1, Inductive, PTL

(* The destructor panics over the records of a failure the caller has not  *)
(* been told of, never over one that a flush has returned.                 *)
THEOREM PanicsOverNews == ~Retries /\ Spec => []PanicIsNews
<1>1. IInv => PanicIsNews
  BY DEF IInv, Told, PanicIsNews
<1> QED
  BY <1>1, Inductive, PTL

(* Every variable of the writer keeps its type: the buffer never outgrows  *)
(* its capacity.                                                           *)
THEOREM TypeCorrect == ~Retries /\ Spec => []TypeOK
<1>1. IInv => TypeOK
  BY DEF IInv
<1> QED
  BY <1>1, Inductive, PTL

=============================================================================
