------------------------------- MODULE LogFile -------------------------------
(* A log (db/log_writer.cc, db/log_reader.cc) in a file of the posix Env    *)
(* (PosixWritableFile, PosixSequentialFile of util/env_posix.cc): the       *)
(* writer cuts records into fragments that do not cross blocks, the process *)
(* dies or the machine loses power at any byte, bytes go bad, and a reader  *)
(* reassembles the records.                                                 *)
(*                                                                          *)
(* A byte is a record.  The header is scaled to a byte each for the crc, the*)
(* length and the type; a crc is the pair it was computed from, so equal    *)
(* crcs mean equal fragments.  Payload bytes name their record and place.   *)
EXTENDS Integers, Sequences, SequencesExt, FiniteSetsExt

CONSTANTS BlockSize,  \* kBlockSize
          Sizes,      \* the sizes of records
          Offsets,    \* where a reader may be told to begin
          MaxRecords, \* bound: records added
          MaxFaults   \* bound: faults of one behaviour

HeaderSize == 3

ASSUME LogConstants ==
    /\ BlockSize \in Nat /\ BlockSize > HeaderSize
    /\ Sizes \subseteq Nat /\ Offsets \subseteq Nat
    /\ MaxRecords \in Nat /\ MaxFaults \in Nat

VARIABLES
    file,   \* what was appended, how much of it the kernel has, and the disk
    writer, \* log::Writer, and the record it is adding
    added,  \* the records begun: size, start, and end once AddRecord returned ok
    whole,  \* those all of whose bytes are in the file
    safe,   \* those that what happened may not have lost
    faults, \* the faults so far, by kind
    reader  \* log::Reader and what it returned

vars == <<file, writer, added, whole, safe, faults, reader>>

----------------------------------------------------------------------------
(* Bytes                                                                    *)
Crc(type, payload) == [is |-> "crc", of |-> <<type, payload>>]
Length(n) == [is |-> "length", n |-> n]
Type(t) == [is |-> "type", n |-> t]
Data(rec, at) == [is |-> "data", rec |-> rec, at |-> at]
Zero == [is |-> "zero"]
Junk == [is |-> "junk"]

Number(byte) == IF byte.is \in {"length", "type"} THEN byte.n ELSE 0
Zeros(n) == [k \in 1 .. n |-> Zero]

\* The record of number rec in the log, as the bytes it consists of.
Record(rec) == [k \in 1 .. added[rec].size |-> Data(rec, k)]

----------------------------------------------------------------------------
(* The writer                                                               *)
kFullType == 1
kFirstType == 2
kMiddleType == 3
kLastType == 4
\* log_reader.h extends the record types.
kEof == 5
kBadRecord == 6

Idle == [live |-> TRUE, block |-> 0, left |-> 0, begin |-> FALSE, adding |-> FALSE]
NoReader == [open |-> FALSE]

Init ==
    /\ file = [bytes |-> <<>>, flushed |-> 0, synced |-> 0]
    /\ writer = Idle
    /\ added = <<>> /\ whole = {} /\ safe = {}
    /\ faults = <<>>
    /\ reader = NoReader

\* The part of the loop of AddRecord before a fragment: the trailer of a block
\* in which no header fits.
NoTrailer == BlockSize - writer.block >= HeaderSize
Trailer == IF NoTrailer THEN <<>> ELSE Zeros(BlockSize - writer.block)
BlockOffset == IF NoTrailer THEN writer.block ELSE 0

Available == BlockSize - BlockOffset - HeaderSize
FragmentLength == Min({writer.left, Available})

FragmentType ==
    LET end == writer.left = FragmentLength
    IN  IF writer.begin THEN (IF end THEN kFullType ELSE kFirstType)
        ELSE (IF end THEN kLastType ELSE kMiddleType)

Fragment ==
    LET rec == Len(added)
        from == added[rec].size - writer.left
    IN  SubSeq(Record(rec), from + 1, from + FragmentLength)

PhysicalRecord == <<Crc(FragmentType, Fragment), Length(FragmentLength),
                    Type(FragmentType)>> \o Fragment

AddRecord(n) ==
    /\ writer.live /\ ~writer.adding
    /\ Len(added) < MaxRecords
    /\ added' = Append(added, [size |-> n, start |-> Len(file.bytes \o Trailer), end |-> 0])
    /\ writer' = [writer EXCEPT !.left = n, !.begin = TRUE, !.adding = TRUE]
    /\ UNCHANGED <<file, whole, safe, faults, reader>>

\* What one round of that loop appends
Emitted == Trailer \o PhysicalRecord

\* The last of a record's fragments being in the file, so is the record.
IsLast == writer.left = FragmentLength
Completed == IF IsLast THEN {Len(added)} ELSE {}

\* The offset in the block moves on even if the append failed.
NextRound == [writer EXCEPT !.block = BlockOffset + HeaderSize + FragmentLength,
                            !.left = @ - FragmentLength, !.begin = FALSE,
                            !.adding = ~IsLast]

Emit(flushed) ==
    LET bytes == file.bytes \o Emitted
    IN  /\ writer.live /\ writer.adding
        /\ file' = [file EXCEPT !.bytes = bytes, !.flushed = IF flushed THEN Len(bytes) ELSE @]
        /\ writer' = NextRound
        /\ added' = IF IsLast THEN [added EXCEPT ![Len(added)].end = Len(bytes)] ELSE added
        /\ whole' = whole \cup Completed
        /\ UNCHANGED <<safe, faults, reader>>

\* Mutant: the fragment is left in the buffer of stdio.
EmitUnflushed == Emit(FALSE)

\* EmitPhysicalRecord: append and flush
EmitPhysicalRecord == Emit(TRUE)

Fault(kind) ==
    /\ Len(faults) < MaxFaults
    /\ faults' = Append(faults, kind)

\* PosixWritableFile::Append or Flush fails, the disk being full: some of the
\* fragment is in the file, and AddRecord gives the record up.
EmitFails ==
    /\ writer.live /\ writer.adding
    /\ \E n \in 0 .. Len(Emitted) :
         LET bytes == file.bytes \o SubSeq(Emitted, 1, n)
         IN  file' = [file EXCEPT !.bytes = bytes, !.flushed = Len(bytes)]
    /\ writer' = [NextRound EXCEPT !.adding = FALSE]
    /\ Fault("append")
    /\ UNCHANGED <<added, whole, safe, reader>>

\* PosixWritableFile::Sync
Sync ==
    /\ writer.live /\ ~writer.adding
    /\ file.synced < Len(file.bytes)
    /\ file' = [file EXCEPT !.flushed = Len(file.bytes), !.synced = Len(file.bytes)]
    /\ UNCHANGED <<writer, added, whole, safe, faults, reader>>

----------------------------------------------------------------------------
(* The end of the process, and what it leaves                               *)
Acked == {rec \in DOMAIN added : added[rec].end > 0}
Within(n) == {rec \in Acked : added[rec].end <= n}

\* What a fragment under way would add; any part of it may be in the file.
UnderWay == IF writer.adding THEN Emitted ELSE <<>>

\* The file is cut at n.
Cut(n) ==
    LET bytes == file.bytes \o UnderWay
    IN  /\ writer.live
        /\ file' = [bytes |-> SubSeq(bytes, 1, n), flushed |-> n, synced |-> n]
        /\ whole' = (whole \cap Within(n))
                       \cup IF writer.adding /\ n = Len(bytes) THEN Completed ELSE {}
        /\ writer' = [Idle EXCEPT !.live = FALSE]
        /\ UNCHANGED <<added, faults, reader>>

Kill ==
    /\ \E n \in file.flushed .. Len(file.bytes \o UnderWay) : Cut(n)
    /\ safe' = whole \cap Acked

PowerLoss ==
    /\ \E n \in file.synced .. Len(file.bytes \o UnderWay) : Cut(n)
    /\ safe' = whole \cap Within(file.synced)

\* The size of the file reached the disk, and not all of its bytes.
PowerLossLeavesZeros ==
    /\ writer.live
    /\ \E n \in file.synced .. Len(file.bytes) - 1 :
         /\ file' = [bytes |-> SubSeq(file.bytes, 1, n) \o Zeros(Len(file.bytes) - n),
                     flushed |-> Len(file.bytes), synced |-> Len(file.bytes)]
         /\ whole' = whole \cap Within(n)
    /\ safe' = whole \cap Within(file.synced)
    /\ writer' = [Idle EXCEPT !.live = FALSE]
    /\ Fault("zeros")
    /\ UNCHANGED <<added, reader>>

\* A byte of the file goes bad.
Other(byte) ==
    CASE byte.is = "length" -> {Length(n) : n \in 0 .. BlockSize} \ {byte}
      [] byte.is = "type" -> {Type(t) : t \in 0 .. kBadRecord + 1} \ {byte}
      [] OTHER -> {Junk}

GoesBad ==
    /\ ~writer.live /\ ~reader.open
    /\ \E k \in DOMAIN file.bytes : \E byte \in Other(file.bytes[k]) :
         file' = [file EXCEPT !.bytes[k] = byte]
    /\ Fault("byte")
    /\ UNCHANGED <<writer, added, whole, safe, reader>>

----------------------------------------------------------------------------
(* The reader.  One step is one round of the loop of ReadRecord.            *)

\* SkipToInitialBlock
InitialBlock(offset) ==
    LET inBlock == offset % BlockSize
        start == offset - inBlock
    IN  IF inBlock > BlockSize - (HeaderSize - 1) THEN start + BlockSize ELSE start

NewReader(checksum, offset) ==
    [open |-> TRUE, checksum |-> checksum, initial |-> offset,
     pos |-> InitialBlock(offset), buffer |-> <<>>, eof |-> FALSE,
     end |-> InitialBlock(offset), resyncing |-> offset > 0,
     scratch |-> <<>>, fragmented |-> FALSE,
     records |-> <<>>, drops |-> 0, done |-> FALSE]

Open(checksum, offset) ==
    /\ ~writer.live /\ ~reader.open
    /\ reader' = NewReader(checksum, offset)
    /\ UNCHANGED <<file, writer, added, whole, safe, faults>>

Rest(s, n) == SubSeq(s, n + 1, Len(s))

\* PosixSequentialFile::Read of a block, when no header is left in the buffer
Refilled(r) ==
    IF Len(r.buffer) >= HeaderSize \/ r.eof THEN r
    ELSE LET block == SubSeq(file.bytes, r.pos + 1, Min({r.pos + BlockSize, Len(file.bytes)}))
         IN  [r EXCEPT !.buffer = block, !.pos = @ + Len(block), !.end = @ + Len(block),
                       !.eof = Len(block) < BlockSize]

Dropped(r) == [r EXCEPT !.buffer = <<>>]

\* ReportDrop, once the buffer is without the bytes dropped
Report(r, bytes) ==
    [r EXCEPT !.drops = @ + IF r.end - Len(r.buffer) - bytes >= r.initial THEN 1 ELSE 0]

\* What ReadPhysicalRecord returns, the fragment, and the reader after it
Physical(type, fragment, r) == [type |-> type, fragment |-> fragment, reader |-> r]

\* A fragment longer than the bytes there are: the writer died, or they are bad.
Truncated(r) ==
    IF r.eof THEN Physical(kEof, <<>>, Dropped(r))
    ELSE Physical(kBadRecord, <<>>, Report(Dropped(r), Len(r.buffer)))

ReadPhysicalRecord ==
    LET r == Refilled(reader)
        length == Number(r.buffer[2])
        type == Number(r.buffer[3])
        payload == SubSeq(r.buffer, HeaderSize + 1, HeaderSize + length)
        after == [r EXCEPT !.buffer = Rest(@, HeaderSize + length)]
    IN  IF Len(r.buffer) < HeaderSize THEN Physical(kEof, <<>>, Dropped(r))
        ELSE IF HeaderSize + length > Len(r.buffer) THEN Truncated(r)
        ELSE IF type = 0 /\ length = 0 THEN Physical(kBadRecord, <<>>, Dropped(r))
        ELSE IF r.checksum /\ r.buffer[1] # Crc(type, payload)
             THEN Physical(kBadRecord, <<>>, Report(Dropped(r), Len(r.buffer)))
        ELSE IF r.end - Len(after.buffer) - HeaderSize - length < r.initial
             THEN Physical(kBadRecord, <<>>, after)
        ELSE Physical(type, payload, after)

Return(r, record) ==
    [r EXCEPT !.records = Append(@, record), !.scratch = <<>>, !.fragmented = FALSE]

\* A record begins while another has no end: an empty one is forgiven.
Unfinished(p) ==
    IF p.reader.fragmented /\ p.reader.scratch # <<>>
    THEN Report(p.reader, Len(p.reader.scratch)) ELSE p.reader

Abandoned(r) == [r EXCEPT !.scratch = <<>>, !.fragmented = FALSE]

Resyncs(p) ==
    /\ reader.resyncing
    /\ p.type \in {kMiddleType, kLastType}
    /\ reader' = [p.reader EXCEPT !.resyncing = p.type = kMiddleType]

ReadFull(p) == p.type = kFullType /\ reader' = Return(Unfinished(p), p.fragment)

ReadFirst(p) ==
    /\ p.type = kFirstType
    /\ reader' = [Unfinished(p) EXCEPT !.scratch = p.fragment, !.fragmented = TRUE]

ReadMiddle(p) ==
    /\ p.type = kMiddleType
    /\ reader' = IF p.reader.fragmented
                 THEN [p.reader EXCEPT !.scratch = @ \o p.fragment]
                 ELSE Report(p.reader, Len(p.fragment))

ReadLast(p) ==
    /\ p.type = kLastType
    /\ reader' = IF p.reader.fragmented
                 THEN Return(p.reader, p.reader.scratch \o p.fragment)
                 ELSE Report(p.reader, Len(p.fragment))

\* What was cut off is no corruption: the writer died.
ReadEof(p) == p.type = kEof /\ reader' = [Abandoned(p.reader) EXCEPT !.done = TRUE]

ReadBad(p) ==
    /\ p.type = kBadRecord
    /\ reader' = IF p.reader.fragmented
                 THEN Abandoned(Report(p.reader, Len(p.reader.scratch))) ELSE p.reader

ReadUnknown(p) ==
    /\ p.type \notin kFullType .. kBadRecord
    /\ reader' = Abandoned(Report(p.reader, Len(p.fragment) + Len(p.reader.scratch)))

\* Anything but a middle or last fragment ends the resynchronisation.
Synced(p) == [p EXCEPT !.reader.resyncing = FALSE]

ReadRecord ==
    /\ reader.open /\ ~reader.done
    /\ LET p == ReadPhysicalRecord
           q == Synced(p)
       IN  \/ Resyncs(p)
           \/ /\ ~(reader.resyncing /\ p.type \in {kMiddleType, kLastType})
              /\ \/ ReadFull(q) \/ ReadFirst(q) \/ ReadMiddle(q) \/ ReadLast(q)
                 \/ ReadEof(q) \/ ReadBad(q) \/ ReadUnknown(q)
    /\ UNCHANGED <<file, writer, added, whole, safe, faults>>

\* PosixSequentialFile::Read fails: the reader is at its end.
ReadFails ==
    /\ reader.open /\ ~reader.done
    /\ Len(reader.buffer) < HeaderSize /\ ~reader.eof
    /\ reader' = [Abandoned(Report(Dropped(reader), BlockSize)) EXCEPT !.eof = TRUE, !.done = TRUE]
    /\ Fault("read")
    /\ UNCHANGED <<file, writer, added, whole, safe>>

\* DBImpl::RecoverLogFile goes on with the log it has read (reuse_logs).
Reuse ==
    /\ reader.open /\ reader.done /\ reader.checksum /\ reader.initial = 0
    /\ Len(added) < MaxRecords
    /\ IF Len(file.bytes) \in {0} \cup {added[rec].end : rec \in whole} THEN UNCHANGED faults
       ELSE Fault("torn")
    /\ writer' = [Idle EXCEPT !.block = Len(file.bytes) % BlockSize]
    /\ reader' = NoReader
    /\ UNCHANGED <<file, added, whole, safe>>

Next ==
    \/ \E n \in Sizes : AddRecord(n)
    \/ EmitPhysicalRecord \/ EmitFails \/ Sync
    \/ Kill \/ PowerLoss \/ PowerLossLeavesZeros \/ GoesBad
    \/ Open(TRUE, 0) \/ \E offset \in Offsets : Open(TRUE, offset)
    \/ ReadRecord \/ ReadFails \/ Reuse

Spec == Init /\ [][Next]_vars

----------------------------------------------------------------------------
(* Properties                                                               *)
Bytes == [is : {"crc"}, of : (kFullType .. kLastType) \X Seq([is : {"data"}, rec : Nat, at : Nat])]
           \cup [is : {"length", "type"}, n : Nat]
           \cup [is : {"data"}, rec : Nat, at : Nat] \cup [is : {"zero", "junk"}]

TypeOK ==
    /\ file.bytes \in Seq(Bytes)
    /\ file.synced <= file.flushed /\ file.flushed <= Len(file.bytes)
    /\ added \in Seq([size : Sizes, start : Nat, end : Nat])
    /\ safe \cup whole \subseteq DOMAIN added

RecordsOf(recs) ==
    LET order == SetToSortSeq(recs, <)
    IN  [k \in DOMAIN order |-> Record(order[k])]

IsSubsequence(s, t) ==
    \E S \in SUBSET DOMAIN t :
      LET order == SetToSortSeq(S, <) IN s = [k \in DOMAIN order |-> t[order[k]]]

\* After any crash a reader returns just the records that are wholly in the
\* file from its offset on, in their order; they are all those whose AddRecord
\* returned before the process died, or before the last Sync when power was
\* lost.  No append may have failed, no byte gone bad.  A log that was only cut
\* short is read without a report of corruption, which would keep a database
\* with paranoid_checks from opening.  Whatever happened to the file, a reader
\* that verifies checksums returns records that were added, each once and in
\* their order.
ReadsBack ==
    /\ TypeOK
    /\ (reader.open /\ reader.done /\ ToSet(faults) \subseteq {"zeros"}
         /\ (reader.checksum \/ faults = <<>>)) =>
         /\ reader.records =
              RecordsOf({rec \in whole : added[rec].start >= reader.initial})
         /\ safe \subseteq whole
    /\ (reader.open /\ faults = <<>> /\ reader.initial = 0) => reader.drops = 0
    /\ (reader.open /\ reader.checksum) =>
         IsSubsequence(reader.records, [rec \in DOMAIN added |-> Record(rec)])

============================================================================
