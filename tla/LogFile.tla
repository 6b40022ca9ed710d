------------------------------- MODULE LogFile -------------------------------
(***************************************************************************)
(* The log format of leveldb: log::Writer (db/log_writer.cc) over a        *)
(* PosixWritableFile (util/env_posix.cc), a death of the process or of the *)
(* machine, and log::Reader (db/log_reader.cc) on what is left.  Write     *)
(* ahead logs and the MANIFEST are such files.                             *)
(*                                                                         *)
(* A file is a sequence of bytes; a byte is <<f, i>>, the i-th byte of the *)
(* f-th physical record, and a byte of a trailer is <<0, 0>>.  A checksum  *)
(* is taken to tell bytes that are not one whole physical record; bytes    *)
(* that are no header may be read as any header but a right one.           *)
(***************************************************************************)
EXTENDS Naturals, Sequences, FiniteSets, SequencesExt

CONSTANTS
  BlockSize,   \* kBlockSize
  HeaderSize,  \* kHeaderSize
  Sizes,       \* the sizes of the records that are added
  MaxRecords,  \* bound: records
  MaxFailures  \* bound: calls of write() that fail

ASSUME SizesAssumption ==
  /\ {BlockSize, HeaderSize} \subseteq Nat \ {0} /\ HeaderSize < BlockSize
  /\ Sizes \subseteq Nat /\ {MaxRecords, MaxFailures} \subseteq Nat

VARIABLES
  file,      \* the bytes given to the operating system
  durable,   \* how many of them a Sync has made durable
  emitted,   \* the physical records so far: [rec, type, length]
  offset,    \* block_offset_
  adding,    \* the AddRecord in progress: [left, begin], or <<>>
  records,   \* what became of each record: "adding", "added", "failed" or "synced"
  failures,  \* how many writes have failed
  phase,     \* "writing", "reading" or "read"
  died,      \* what ended the writing: "nothing" yet, "process" or "machine"
  buffer,    \* buffer_: from and to, positions in file
  eof,       \* eof_
  scratch,   \* the fragments of the record being put together, or <<>>
  out,       \* the records returned, each a sequence of fragments
  reported   \* whether the reporter was told of a corruption

writer == <<file, durable, emitted, offset, adding, records, failures>>
reader == <<buffer, eof, scratch, out, reported>>
vars == <<writer, reader, phase, died>>

----------------------------------------------------------------------------
(* log::Writer                                                             *)

BytesOf(f, n) == [i \in 1..n |-> <<f, i>>]

AddRecord(size) ==
  /\ phase = "writing" /\ adding = <<>> /\ Len(records) < MaxRecords
  /\ adding' = <<[left |-> size, begin |-> TRUE]>>
  /\ records' = Append(records, "adding")
  /\ UNCHANGED <<file, durable, emitted, offset, failures, phase, died, reader>>

Leftover == BlockSize - offset

\* what is left of the block cannot hold a header
NeedsTrailer == Leftover < HeaderSize

FragmentStart == IF NeedsTrailer THEN 0 ELSE offset

FragmentLength ==
  LET avail == BlockSize - FragmentStart - HeaderSize
  IN IF adding[1].left < avail THEN adding[1].left ELSE avail

\* mutant: begin is not reset in the loop
AlwaysBegins ==
  IF adding[1].left = FragmentLength
  THEN IF adding[1].begin THEN "full" ELSE "last"
  ELSE "first"

FragmentType ==
  LET end == adding[1].left = FragmentLength
  IN CASE adding[1].begin /\ end -> "full"
       [] adding[1].begin /\ ~end -> "first"
       [] ~adding[1].begin /\ end -> "last"
       [] OTHER -> "middle"

\* mutant: the rest of the block is not filled
NoTrailer == BytesOf(Len(emitted) + 1, HeaderSize + FragmentLength)

\* the trailer, the header and the payload: they fit into the buffer of the
\* file, so the Flush that follows is the one write() of a turn
Pending ==
  (IF NeedsTrailer THEN [i \in 1..Leftover |-> <<0, 0>>] ELSE <<>>)
    \o BytesOf(Len(emitted) + 1, HeaderSize + FragmentLength)

Fragment == [rec |-> Len(records), type |-> FragmentType, length |-> FragmentLength]

\* a turn of the loop of AddRecord; block_offset_ moves on in any case
EmitPhysicalRecord ==
  /\ phase = "writing" /\ adding # <<>>
  /\ emitted' = Append(emitted, Fragment)
  /\ offset' = FragmentStart + HeaderSize + FragmentLength
  /\ \/ /\ file' = file \o Pending
        /\ IF adding[1].left = FragmentLength
           THEN adding' = <<>> /\ records' = [records EXCEPT ![Len(records)] = "added"]
           ELSE /\ adding' = <<[left |-> adding[1].left - FragmentLength, begin |-> FALSE]>>
                /\ UNCHANGED records
        /\ UNCHANGED failures
     \/ /\ failures < MaxFailures
        /\ failures' = failures + 1
        /\ \E n \in 0..Len(Pending) - 1 : file' = file \o SubSeq(Pending, 1, n)
        /\ adding' = <<>>
        /\ records' = [records EXCEPT ![Len(records)] = "failed"]
  /\ UNCHANGED <<durable, phase, died, reader>>

\* mutant: a Sync does not wait for the last write
SyncEarly ==
  /\ phase = "writing" /\ adding = <<>> /\ durable < Len(file)
  /\ durable' = Len(file) - 1
  /\ records' = [r \in DOMAIN records |-> IF records[r] = "added" THEN "synced" ELSE records[r]]
  /\ UNCHANGED <<file, emitted, offset, adding, failures, phase, died, reader>>

Sync ==
  /\ phase = "writing" /\ adding = <<>> /\ durable < Len(file)
  /\ durable' = Len(file)
  /\ records' = [r \in DOMAIN records |-> IF records[r] = "added" THEN "synced" ELSE records[r]]
  /\ UNCHANGED <<file, emitted, offset, adding, failures, phase, died, reader>>

----------------------------------------------------------------------------
(* The end of the writing                                                  *)

\* the process dies, perhaps inside a write()
ProcessDies ==
  /\ phase = "writing"
  /\ phase' = "reading" /\ died' = "process"
  /\ IF adding = <<>> THEN UNCHANGED <<file, emitted>>
     ELSE /\ emitted' = Append(emitted, Fragment)
          /\ \E n \in 0..Len(Pending) : file' = file \o SubSeq(Pending, 1, n)
  /\ UNCHANGED <<durable, offset, adding, records, failures, reader>>

\* the machine dies: a prefix is left that has all that is durable
MachineDies ==
  /\ phase = "writing"
  /\ phase' = "reading" /\ died' = "machine"
  /\ \E n \in durable..Len(file) : file' = SubSeq(file, 1, n)
  /\ UNCHANGED <<durable, emitted, offset, adding, records, failures, reader>>

----------------------------------------------------------------------------
(* log::Reader: one action is one return of ReadPhysicalRecord, with what  *)
(* ReadRecord does about it                                                *)

InBuffer == buffer.to - buffer.from

\* mutant: the last block is taken for a whole one
ReadPastEnd ==
  /\ phase = "reading" /\ InBuffer < HeaderSize /\ ~eof
  /\ buffer' = [from |-> buffer.to, to |-> buffer.to + BlockSize]
  /\ eof' = (buffer.to + BlockSize > Len(file))
  /\ UNCHANGED <<writer, phase, died, scratch, out, reported>>

ReadBlock ==
  /\ phase = "reading" /\ InBuffer < HeaderSize /\ ~eof
  /\ LET to == IF buffer.to + BlockSize <= Len(file) THEN buffer.to + BlockSize ELSE Len(file) IN
       /\ buffer' = [from |-> buffer.to, to |-> to]
       /\ eof' = (to - buffer.to < BlockSize)
  /\ UNCHANGED <<writer, phase, died, scratch, out, reported>>

\* the physical record whose header the buffer starts with, or 0 if it starts
\* with anything else
HeaderAt ==
  LET f == file[buffer.from + 1][1]
  IN IF f # 0 /\ SubSeq(file, buffer.from + 1, buffer.from + HeaderSize) = BytesOf(f, HeaderSize)
     THEN f ELSE 0

PhysicalSize == HeaderSize + emitted[HeaderAt].length

Complete == HeaderAt # 0 /\ PhysicalSize <= InBuffer

\* mutant: the reader does not compare checksums
ChecksumIgnored == TRUE

ChecksumFits ==
  SubSeq(file, buffer.from + 1, buffer.from + PhysicalSize) = BytesOf(HeaderAt, PhysicalSize)

\* mutant: a record cut off by a death is reported
CutOffReported ==
  /\ phase = "reading" /\ eof
  /\ InBuffer >= HeaderSize => ~Complete
  /\ phase' = "read"
  /\ buffer' = [buffer EXCEPT !.from = buffer.to]
  /\ reported' = (reported \/ InBuffer > 0)
  /\ scratch' = <<>>
  /\ UNCHANGED <<writer, died, eof, out>>

\* kEof: nothing left, or a record that was being written when the writer died
EndOfFile ==
  /\ phase = "reading" /\ eof
  /\ InBuffer >= HeaderSize => ~Complete
  /\ phase' = "read"
  /\ buffer' = [buffer EXCEPT !.from = buffer.to]
  /\ scratch' = <<>>
  /\ UNCHANGED <<writer, died, eof, out, reported>>

\* kBadRecord: the rest of the block is dropped, silently if what should be a
\* header is all zeros
BadRecord ==
  /\ phase = "reading" /\ InBuffer >= HeaderSize
  /\ Complete => ~ChecksumFits
  /\ HeaderAt # 0 /\ ~Complete => ~eof
  /\ buffer' = [buffer EXCEPT !.from = buffer.to]
  /\ \E zeros \in {FALSE, HeaderAt = 0} : reported' = (reported \/ scratch # <<>> \/ ~zeros)
  /\ scratch' = <<>>
  /\ UNCHANGED <<writer, phase, died, eof, out>>

Returned(type) ==
  /\ phase = "reading" /\ InBuffer >= HeaderSize /\ Complete /\ ChecksumFits
  /\ emitted[HeaderAt].type = type
  /\ buffer' = [buffer EXCEPT !.from = @ + PhysicalSize]
  /\ UNCHANGED <<writer, phase, died, eof>>

\* a fragment that is there already is dropped, and reported if not empty
LeavesPartial == \E i \in DOMAIN scratch : emitted[scratch[i]].length > 0

FullRecord ==
  /\ Returned("full")
  /\ reported' = (reported \/ LeavesPartial)
  /\ out' = Append(out, <<HeaderAt>>)
  /\ scratch' = <<>>

FirstFragment ==
  /\ Returned("first")
  /\ reported' = (reported \/ LeavesPartial)
  /\ scratch' = <<HeaderAt>>
  /\ UNCHANGED out

MiddleFragment ==
  /\ Returned("middle")
  /\ IF scratch = <<>> THEN reported' = TRUE /\ UNCHANGED scratch
     ELSE scratch' = Append(scratch, HeaderAt) /\ UNCHANGED reported
  /\ UNCHANGED out

LastFragment ==
  /\ Returned("last")
  /\ IF scratch = <<>> THEN reported' = TRUE /\ UNCHANGED out
     ELSE out' = Append(out, Append(scratch, HeaderAt)) /\ UNCHANGED reported
  /\ scratch' = <<>>

----------------------------------------------------------------------------

Init ==
  /\ file = <<>> /\ durable = 0 /\ emitted = <<>> /\ offset = 0
  /\ adding = <<>> /\ records = <<>> /\ failures = 0
  /\ phase = "writing" /\ died = "nothing"
  /\ buffer = [from |-> 0, to |-> 0] /\ eof = FALSE
  /\ scratch = <<>> /\ out = <<>> /\ reported = FALSE

Read ==
  \/ ReadBlock \/ EndOfFile \/ BadRecord
  \/ FullRecord \/ FirstFragment \/ MiddleFragment \/ LastFragment

Next ==
  \/ \E size \in Sizes : AddRecord(size)
  \/ EmitPhysicalRecord \/ Sync
  \/ ProcessDies \/ MachineDies
  \/ Read

Spec == Init /\ [][Next]_vars

----------------------------------------------------------------------------
(* Properties                                                              *)

TypeOK ==
  /\ \A p \in DOMAIN file : file[p] = <<0, 0>> \/ file[p][1] \in DOMAIN emitted
  /\ durable \in 0..Len(file)
  /\ offset \in 0..BlockSize
  /\ buffer.from <= buffer.to /\ buffer.to <= Len(file)
  /\ ToSet(scratch) \subseteq DOMAIN emitted
  /\ adding # <<>> => records # <<>>

\* the fragments that make up record r
FragmentsOf(r) == {f \in DOMAIN emitted : emitted[f].rec = r}

RecordOf(fragments) == emitted[Head(fragments)].rec

\* What the reader returns are records the writer was given, each whole, none
\* twice and in the order they were added, wherever a write was cut off or has
\* failed; and none that AddRecord said was not written.
OnlyRecords ==
  /\ TypeOK
  /\ \A i \in DOMAIN out : /\ ToSet(out[i]) = FragmentsOf(RecordOf(out[i]))
                           /\ \A j, k \in DOMAIN out[i] : j < k => out[i][j] < out[i][k]
                           /\ emitted[Last(out[i])].type \in {"full", "last"}
                           /\ records[RecordOf(out[i])] # "failed"
  /\ \A i, j \in DOMAIN out : i < j => RecordOf(out[i]) < RecordOf(out[j])

Having(status) == {r \in DOMAIN records : records[r] \in status}
Survivors == {RecordOf(out[i]) : i \in DOMAIN out}

\* "If it is just the process that crashes (i.e., the machine does not reboot), no
\* writes will be lost even if sync==false" (include/leveldb/options.h), and none
\* that a Sync followed if it does: once the log is read they are all there.
\* After a failed write() that is not so: the writer goes on at a wrong offset.
RecordsSurvive ==
  phase = "read" /\ failures = 0 =>
    Having(IF died = "process" THEN {"added", "synced"} ELSE {"synced"}) \subseteq Survivors

\* A record cut off by a death is not taken for a corruption: with
\* paranoid_checks, one that is reported keeps the database from opening.
CutOffIsNoCorruption == failures = 0 => ~reported

==============================================================================
