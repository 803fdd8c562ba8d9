------------------------------- MODULE Table -------------------------------
(* Sorted tables: how one is written (table/table_builder.cc, format.cc,    *)
(* filter_block.cc, util/bloom.cc), opened and read (table/table.cc), and   *)
(* the iterator over one (table/two_level_iterator.cc).  A table file is a  *)
(* sequence of cells: the data blocks, a filter, an index of each, a footer.*)
(* Appending to the file does not fail here.                                *)
EXTENDS InternalKey, Block, FiniteSets, Functions

CONSTANTS BlockSize,        \* cells after which a block is written out
          RestartInterval,  \* entries between two restart points
          FilterBaseLg      \* a filter for each 2^FilterBaseLg cells of data

ASSUME TableConstants ==
    {BlockSize, RestartInterval} \subseteq Nat \ {0} /\ FilterBaseLg \in Nat

----------------------------------------------------------------------------
(* Internal keys in a file: the user key, then a cell for number and type.  *)
UserKey(k) == <<FirstByte(k)>> \o IF IsLong(k) THEN <<1>> ELSE <<>>

TypeCode == [deletion |-> 0, value |-> 1, bad |-> 2]

AppendInternalKey(k, seq, type) == Append(UserKey(k), 3 * seq + TypeCode[type])

ParseInternalKey(cells) ==
    LET tag == Last(cells)
    IN  [key |-> 2 * cells[1] + Len(cells) - 2, seq |-> tag \div 3,
         type |-> CHOOSE t \in DOMAIN TypeCode : TypeCode[t] = tag % 3]

\* A separator looks like an entry of type value.
Separator(t) == AppendInternalKey(t.key, t.seq, "value")
ValueOf(e) == IF e.type = "deletion" THEN <<>> ELSE <<e.seq>>

PutEntry(builder, e) ==
    BlockAdd(builder, RestartInterval, AppendInternalKey(e.key, e.seq, e.type), ValueOf(e))

SeekEntry(block, i, t) == BlockSeek(block, i, LAMBDA key : Before(ParseInternalKey(key), t))

----------------------------------------------------------------------------
(* Bloom filters: a cell for each bit, then the number of probes.           *)
BitsPerKey == 4
MinBits == 6
Probes == 2

BloomHash(k) == 5 * k + 3
Probed(k, bits, n) == {(BloomHash(k) + j * (k + 1)) % bits : j \in 0 .. n - 1}

CreateFilter(keys, n) ==
    LET bits == Max({MinBits, n * BitsPerKey})
        set == UNION {Probed(k, bits, Probes) : k \in keys}
    IN  [b \in 1 .. bits |-> IF b - 1 \in set THEN 1 ELSE 0] \o <<Probes>>

BloomMayMatch(k, filter) ==
    /\ Len(filter) >= 2
    /\ \A b \in Probed(k, Len(filter) - 1, Last(filter)) : filter[b + 1] = 1

(* FilterBlockBuilder: the keys since the last filter wait until a block    *)
(* begins in another stretch of the file.                                   *)
NewFilterBlock == [result |-> <<>>, offsets |-> <<>>, keys |-> <<>>]

GenerateFilter(f) ==
    [result |-> f.result \o IF f.keys = <<>> THEN <<>>
                            ELSE CreateFilter(Range(f.keys), Len(f.keys)),
     offsets |-> Append(f.offsets, Len(f.result)), keys |-> <<>>]

StartBlock(f, offset) ==
    LET missing == (offset \div 2 ^ FilterBaseLg) - Len(f.offsets)
    IN  FoldLeft(LAMBDA g, n : GenerateFilter(g), f, [n \in 1 .. missing |-> n])

FinishFilterBlock(f) ==
    LET g == IF f.keys = <<>> THEN f ELSE GenerateFilter(f)
    IN  g.result \o g.offsets \o <<Len(g.result), FilterBaseLg>>

\* FilterBlockReader: a filter that cannot be found may match.
FilterMayMatch(cells, offset, k) ==
    LET n == Len(cells)
        array == Cell(cells, n - 2)
        index == offset \div 2 ^ Last(cells)
        start == Cell(cells, array + index)
        limit == Cell(cells, array + index + 1)
    IN  \/ n < 2
        \/ array > n - 2
        \/ index >= n - 2 - array
        \/ IF start <= limit /\ limit <= array THEN BloomMayMatch(k, Cells(cells, start, limit))
           ELSE start # limit

----------------------------------------------------------------------------
(* Blocks in a file: contents, a type, a checksum.  A handle says where.    *)
NoCompression == 0
TrailerSize == 2

Crc(cells) == FoldLeft(LAMBDA crc, c : (2 * crc + c) % 97, 1, cells)

WriteRawBlock(file, contents) ==
    file \o contents \o <<NoCompression, Crc(Append(contents, NoCompression))>>

EncodeHandle(h) == PutVarint[h.offset] \o PutVarint[h.size]

DecodeHandle(s) ==
    Bind(GetVarints(s, 0, Len(s), 2, Digits64), LAMBDA n :
      IF n.ok THEN [ok |-> TRUE, offset |-> n.values[1], size |-> n.values[2]] ELSE No)

ReadBlock(file, h, verify) ==
    Bind(Cells(file, h.offset, Min({h.offset + h.size + TrailerSize, Len(file)})), LAMBDA stored :
      IF \/ Len(stored) # h.size + TrailerSize
         \/ verify /\ Last(stored) # Crc(Front(stored))
         \/ stored[h.size + 1] # NoCompression
      THEN No ELSE [ok |-> TRUE, cells |-> SubSeq(stored, 1, h.size)])

\* The footer: the handles of the two indexes, padded, and the magic number.
MaxEncodedLength == 2 * Digits64
FooterLength == 2 * MaxEncodedLength + 1
Magic == 57
FilterName == 7

EncodeFooter(metaindex, index) ==
    Bind(EncodeHandle(metaindex) \o EncodeHandle(index), LAMBDA handles :
      handles \o [c \in 1 .. FooterLength - 1 - Len(handles) |-> 0] \o <<Magic>>)

DecodeFooter(s) ==
    Bind(GetVarints(s, 0, Len(s), 4, Digits64), LAMBDA n :
      IF Last(s) # Magic \/ ~n.ok THEN No
      ELSE [ok |-> TRUE, metaindex |-> [offset |-> n.values[1], size |-> n.values[2]],
            index |-> [offset |-> n.values[3], size |-> n.values[4]]])

----------------------------------------------------------------------------
(* TableBuilder.  The index entry of a block waits for the first key of the *)
(* next one ("pending").                                                    *)
NewTableBuilder(filtered) ==
    [file |-> <<>>, data |-> NewBlockBuilder, index |-> NewBlockBuilder, pending |-> FALSE,
     handle |-> [offset |-> 0, size |-> 0], last |-> Target(0, 0),
     filtered |-> filtered, filter |-> StartBlock(NewFilterBlock, 0)]

PutIndexEntry(r, separator) ==
    IF ~r.pending THEN r
    ELSE [r EXCEPT !.pending = FALSE,
                   !.index = BlockAdd(@, 1, Separator(separator), EncodeHandle(r.handle))]

\* WriteBlock, and where: the file and the handle after it.
Written(file, contents) ==
    [file |-> WriteRawBlock(file, contents),
     handle |-> [offset |-> Len(file), size |-> Len(contents)]]

Flush(r) ==
    IF r.data.buffer = <<>> THEN r
    ELSE Bind(Written(r.file, FinishBlock(r.data)), LAMBDA w :
           [r EXCEPT !.file = w.file, !.handle = w.handle, !.pending = TRUE,
                     !.data = NewBlockBuilder, !.filter = StartBlock(@, Len(w.file))])

AddToTable(builder, e) ==
    Bind([PutIndexEntry(builder, FindShortestSeparator(builder.last, e))
            EXCEPT !.filter.keys = Append(@, e.key), !.last = e, !.data = PutEntry(@, e)],
         LAMBDA r : IF CurrentSizeEstimate(r.data) >= BlockSize THEN Flush(r) ELSE r)

MetaIndex(filtered, handle) ==
    FinishBlock(IF filtered THEN BlockAdd(NewBlockBuilder, RestartInterval, <<FilterName>>,
                                          EncodeHandle(handle))
                ELSE NewBlockBuilder)

FinishTable(builder) ==
    Bind(Flush(builder), LAMBDA r :
    Bind(IF r.filtered THEN Written(r.file, FinishFilterBlock(r.filter))
         ELSE [file |-> r.file, handle |-> r.handle], LAMBDA filter :
    Bind(Written(filter.file, MetaIndex(r.filtered, filter.handle)), LAMBDA meta :
    Bind(Written(meta.file, FinishBlock(PutIndexEntry(r, FindShortSuccessor(r.last)).index)),
         LAMBDA index : index.file \o EncodeFooter(meta.handle, index.handle)))))

BuildTable(entries, filtered) ==
    FinishTable(FoldLeft(AddToTable, NewTableBuilder(filtered), entries))

----------------------------------------------------------------------------
(* Table::Open and what it keeps: the index block, where its entries are,   *)
(* the filter.  What reading a block gives is kept too: the file does not   *)
(* change.  A level has the same form below: one block per file and an      *)
(* index of their largest keys.                                             *)
IndexEntries(block) ==
    LET rest[i \in Iter] == IF ~IterValid(block, i) THEN <<>>
                            ELSE <<i>> \o rest[BlockNext(block, i)]
    IN  rest[BlockSeekToFirst(block, BlockIter(block))]

FilterHandle(meta) ==
    Bind(BlockSeek(meta, BlockIter(meta), LAMBDA key : key[1] < FilterName), LAMBDA i :
      IF ~IterValid(meta, i) THEN No
      ELSE IF i.key # <<FilterName>> THEN No ELSE DecodeHandle(Value(meta, i)))

\* ReadMeta, ReadFilter: without a word if there is no filter to be read.
ReadFilter(file, metaindex) ==
    Bind(ReadBlock(file, metaindex, FALSE), LAMBDA meta :
    Bind(IF meta.ok THEN FilterHandle(OpenBlock(meta.cells)) ELSE No, LAMBDA handle :
    Bind(IF handle.ok THEN ReadBlock(file, handle, FALSE) ELSE No, LAMBDA filter :
      IF filter.ok THEN filter.cells ELSE <<>>)))

BlockReader(file, value, verify) ==
    Bind(DecodeHandle(value), LAMBDA handle :
    Bind(IF handle.ok THEN ReadBlock(file, handle, verify) ELSE No, LAMBDA read :
      IF read.ok THEN OpenBlock(read.cells) ELSE No))

Unopened == [ok |-> FALSE, blocks |-> <<>>]

ReadFooter(file) ==
    IF Len(file) < FooterLength THEN No
    ELSE DecodeFooter(Cells(file, Len(file) - FooterLength, Len(file)))

OpenTable(file, filtered, verify) ==
    Bind(ReadFooter(file), LAMBDA footer :
    Bind(IF footer.ok THEN ReadBlock(file, footer.index, FALSE) ELSE No, LAMBDA read :
    Bind(IF read.ok THEN OpenBlock(read.cells) ELSE No, LAMBDA index :
      IF ~read.ok THEN Unopened
      ELSE Bind(IndexEntries(index), LAMBDA entries :
        [ok |-> TRUE, index |-> index, entries |-> entries,
         filter |-> IF filtered THEN ReadFilter(file, footer.metaindex) ELSE <<>>,
         metaindex |-> footer.metaindex.offset,
         blocks |-> Computed([b \in DOMAIN entries |->
                                BlockReader(file, Value(index, entries[b]), verify)])]))))

\* The place of the index iterator after Seek, 0 if it is not valid.
IndexSeek(table, t) ==
    IF table.blocks = <<>> THEN 0
    ELSE Bind(SeekEntry(table.index, BlockIter(table.index), t), LAMBDA i :
           Max({0} \cup {b \in DOMAIN table.entries :
                           IterValid(table.index, i) /\ table.entries[b].at = i.at}))

KeyMayMatch(table, b, k) ==
    Bind(DecodeHandle(Value(table.index, table.entries[b])), LAMBDA handle :
      handle.ok => FilterMayMatch(table.filter, handle.offset, k))

(* Table::InternalGet: the entry of this table that a reader of t gets to   *)
(* see, Missing if there is none.  Only the one block the index names is    *)
(* read: an entry at or after t in the next block is never looked for.      *)
InternalGet(table, t, Missing, Unreadable) ==
    LET b == IndexSeek(table, t)
        block == table.blocks[b]
        i == SeekEntry(block, BlockIter(block), t)
    IN  IF ~table.ok THEN Unreadable
        ELSE IF b = 0 THEN Missing
        ELSE IF ~KeyMayMatch(table, b, t.key) THEN Missing
        ELSE IF i.bad THEN Unreadable
        ELSE IF IterValid(block, i) THEN ParseInternalKey(i.key) ELSE Missing

\* Table::ApproximateOffsetOf: the block a reader of t would go to, or the end of
\* the data if there is none or its handle cannot be read.
ApproximateOffsetOf(table, t) ==
    Bind(IndexSeek(table, t), LAMBDA b :
    Bind(IF b = 0 THEN No ELSE DecodeHandle(Value(table.index, table.entries[b])),
         LAMBDA handle : IF handle.ok THEN handle.offset ELSE table.metaindex))

----------------------------------------------------------------------------
(* TwoLevelIterator over an opened table or a level.  A position is the     *)
(* place of the index iterator (0: not valid), the data iterator (one of no *)
(* block if there is none) and whether an error has been saved.             *)
NoIter == [ErrorIter EXCEPT !.bad = FALSE]
Nowhere == [blk |-> 0, data |-> NoIter, err |-> FALSE]
Position == [blk : Nat, data : Iter, err : BOOLEAN]

TwoLevelValid(source, p) == p.blk # 0 /\ IterValid(source.blocks[p.blk], p.data)
TwoLevelKey(p) == ParseInternalKey(p.data.key)
TwoLevelStatus(source, p) == source.ok /\ ~p.data.bad /\ ~p.err

(* InitDataBlock: the data iterator is kept if it is this block's already;  *)
(* the status of one that is given up is saved (SetDataIterator).           *)
MoveIndex(source, p, b) ==
    IF b = p.blk /\ b # 0 THEN p
    ELSE [blk |-> b, err |-> p.err \/ p.data.bad,
          data |-> IF b = 0 THEN NoIter ELSE BlockIter(source.blocks[b])]

\* The index iterator at b, the data iterator after a Seek of its own.
Enter(source, p, b, Seek(_, _)) ==
    Bind(MoveIndex(source, p, b), LAMBDA q :
      IF b = 0 THEN q ELSE [q EXCEPT !.data = Seek(source.blocks[b], @)])

\* A block that cannot be read, or holds nothing, is left for the next one.
SkipEmpty(source, p, Onward(_), Seek(_, _)) ==
    LET skip[q \in Position] ==
            IF q.blk = 0 \/ TwoLevelValid(source, q) THEN q
            ELSE skip[Enter(source, q, Onward(q.blk), Seek)]
    IN  skip[p]

\* A mutant: the iterator of a bad block is dropped without its status.
SkipForwardSilently(source, p) ==
    [SkipEmpty(source, p, LAMBDA b : (b + 1) % (Len(source.blocks) + 1), BlockSeekToFirst)
       EXCEPT !.err = p.err]

SkipForward(source, p) ==
    SkipEmpty(source, p, LAMBDA b : (b + 1) % (Len(source.blocks) + 1), BlockSeekToFirst)
SkipBackward(source, p) == SkipEmpty(source, p, LAMBDA b : b - 1, BlockSeekToLast)

\* b is the place of the index iterator after its own Seek for t.
TwoLevelSeek(source, p, b, t) ==
    SkipForward(source, Enter(source, p, b, LAMBDA block, i : SeekEntry(block, i, t)))
TwoLevelSeekToFirst(source, p) ==
    SkipForward(source, Enter(source, p, Min({1, Len(source.blocks)}), BlockSeekToFirst))
TwoLevelSeekToLast(source, p) ==
    SkipBackward(source, Enter(source, p, Len(source.blocks), BlockSeekToLast))
TwoLevelNext(source, p) == SkipForward(source, Enter(source, p, p.blk, BlockNext))
TwoLevelPrev(source, p) == SkipBackward(source, Enter(source, p, p.blk, BlockPrev))
=============================================================================
