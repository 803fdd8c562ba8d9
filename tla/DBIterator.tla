----------------------------- MODULE DBIterator -----------------------------
(* A read of the database (db/db_iter.cc, table/merger.cc, and the readers  *)
(* of DBImpl::Get): the iterator a client holds merges the memtable, a table*)
(* of level 0 and a deeper level, and shows the newest version of each key  *)
(* that its snapshot may see, while another thread writes to the memtable.  *)
(* The tables do not change: the iterator pins its version.                 *)
EXTENDS SkipList, Table, SequencesExt

CONSTANTS Key,       \* the user keys written
          SeekKeys,  \* the user keys asked for
          Layouts,   \* what the files and the memtable hold at the start
          Error      \* a read that reports an error

ASSUME KeysAreKeys == Key \subseteq Nat /\ SeekKeys \subseteq Nat

VARIABLES
    files,     \* the opened table and level, the entries put into them and
               \* those that can still be read: constant
    mem,       \* the memtable's skip list
    inserting, \* the insertion under way, Nil if none
    last,      \* LastSequence: the newest write readers may ask for
    snapshot,  \* sequence_ of the iterator
    it,        \* the merging iterator: children's positions, current_, direction_
    dbi,       \* the DBIter: direction_, valid_, saved entry and key, status_
    pc,        \* where the call of the client is
    showed,    \* what the iterator showed when that call began
    scanned    \* whether only Next followed the last SeekToFirst

vars == <<files, mem, inserting, last, snapshot, it, dbi, pc, showed, scanned>>

Child == {"mem", "table", "level"}

----------------------------------------------------------------------------
(* A file of the level holds one block; a layout damages some files, as the *)
(* first cell of a block of the table, or the last of the table's file.     *)
FileBlock(entries) == OpenBlock(FinishBlock(FoldLeft(PutEntry, NewBlockBuilder, entries)))

LevelOf(lay) ==
    [ok |-> TRUE,
     blocks |-> Computed([f \in DOMAIN lay.level |->
                            IF f \in lay.badFiles THEN No ELSE FileBlock(lay.level[f])]),
     smallest |-> Computed([f \in DOMAIN lay.level |-> lay.level[f][1]]),
     largest |-> Computed([f \in DOMAIN lay.level |-> Last(lay.level[f])])]

Overwrite(file, cells) == [c \in DOMAIN file |-> IF c \in cells THEN 1 ELSE file[c]]

NoTable == [ok |-> TRUE, blocks |-> <<>>]

\* The first cells of some blocks of the table in a file.
FirstCells(file, blocks) ==
    Bind(OpenTable(file, FALSE, TRUE), LAMBDA t :
      {DecodeHandle(Value(t.index, t.entries[b])).offset + 1 : b \in blocks})

TableOf(lay) ==
    IF lay.table = <<>> THEN NoTable
    ELSE Bind(BuildTable(lay.table, lay.filtered), LAMBDA file :
           OpenTable(Overwrite(file, FirstCells(file, lay.badBlocks)
                                       \cup IF lay.badFooter THEN {Len(file)} ELSE {}),
                     lay.filtered, lay.verify))

Put(lay) == UNION {Range(f) : f \in {lay.table} \cup Range(lay.level)}

----------------------------------------------------------------------------
(* The children: one interface over a skip list and two kinds of two-level  *)
(* iterators.                                                               *)
EntryOf(c, p) ==
    IF c = "mem" THEN p
    ELSE IF TwoLevelValid(files[c], p) THEN TwoLevelKey(p) ELSE Nil

(* The index of the level is the list of its files; of a table, a block.    *)
FindFile(level, t) ==
    LET search[l \in Nat, r \in Nat] ==
            IF l >= r THEN r
            ELSE LET mid == (l + r) \div 2
                 IN  IF Before(level.largest[mid], t) THEN search[mid + 1, r]
                     ELSE search[l, mid]
    IN  search[1, Len(level.blocks) + 1] % (Len(level.blocks) + 1)

ChildSeek(c, p, t) ==
    IF c = "mem" THEN FindGreaterOrEqual(mem, t)
    ELSE Bind(IF c = "table" THEN IndexSeek(files.table, t) ELSE FindFile(files.level, t),
              LAMBDA b : TwoLevelSeek(files[c], p, b, t))
ChildFirst(c, p) == IF c = "mem" THEN First(mem) ELSE TwoLevelSeekToFirst(files[c], p)
ChildLast(c, p) == IF c = "mem" THEN FindLast(mem) ELSE TwoLevelSeekToLast(files[c], p)
ChildNext(c, p) == IF c = "mem" THEN mem.next[p][1] ELSE TwoLevelNext(files[c], p)
ChildPrev(c, p) == IF c = "mem" THEN FindLessThan(mem, p) ELSE TwoLevelPrev(files[c], p)

----------------------------------------------------------------------------
(* MergingIterator.  An iterator is [pos, cur, dir]; each operation gives   *)
(* the iterator after it.                                                   *)
Valid(m) == m.cur # Nil
Current(m) == EntryOf(m.cur, m.pos[m.cur])

OnEach(Op(_)) == [c \in Child |-> Op(c)]

Extreme(entries, Beats(_, _)) ==
    LET placed == {c \in Child : entries[c] # Nil}
    IN  IF placed = {} THEN Nil
        ELSE CHOOSE c \in placed : \A d \in placed : ~Beats(entries[d], entries[c])

Merged(positions, direction, Beats(_, _)) ==
    Bind(positions, LAMBDA pos :
      [pos |-> pos, dir |-> direction,
       cur |-> Extreme(OnEach(LAMBDA c : EntryOf(c, pos[c])), Beats)])
FindSmallest(pos) == Merged(pos, "forward", Before)
FindLargest(pos) == Merged(pos, "reverse", LAMBDA a, b : Before(b, a))

MergeSeek(m, t) == FindSmallest(OnEach(LAMBDA c : ChildSeek(c, m.pos[c], t)))
MergeSeekToFirst(m) == FindSmallest(OnEach(LAMBDA c : ChildFirst(c, m.pos[c])))
MergeSeekToLast(m) == FindLargest(OnEach(LAMBDA c : ChildLast(c, m.pos[c])))

(* A change of direction puts every other child after (before) the current  *)
(* entry first.                                                             *)
AfterCurrent(m, c) ==
    Bind(ChildSeek(c, m.pos[c], Current(m)), LAMBDA p :
      IF EntryOf(c, p) = Current(m) THEN ChildNext(c, p) ELSE p)
BeforeCurrent(m, c) ==
    Bind(ChildSeek(c, m.pos[c], Current(m)), LAMBDA p :
      IF EntryOf(c, p) # Nil THEN ChildPrev(c, p) ELSE ChildLast(c, p))

\* A mutant: a change of direction leaves the other children where they are.
MergeNextWithoutTurn(m) ==
    FindSmallest(OnEach(LAMBDA c :
        IF c = m.cur THEN ChildNext(c, m.pos[c]) ELSE m.pos[c]))

MergeNext(m) ==
    FindSmallest(OnEach(LAMBDA c :
        IF c = m.cur THEN ChildNext(c, m.pos[c])
        ELSE IF m.dir = "forward" THEN m.pos[c] ELSE AfterCurrent(m, c)))
MergePrev(m) ==
    FindLargest(OnEach(LAMBDA c :
        IF c = m.cur THEN ChildPrev(c, m.pos[c])
        ELSE IF m.dir = "reverse" THEN m.pos[c] ELSE BeforeCurrent(m, c)))

----------------------------------------------------------------------------
NewMerge == [pos |-> [c \in Child |-> IF c = "mem" THEN Nil ELSE Nowhere],
             cur |-> Nil, dir |-> "forward"]

(* "key" is saved_key_ and "entry" the entry saved_value_ comes from;       *)
(* "skipping" and "type" are the local variables of the two loops.          *)
NewIter == [dir |-> "forward", valid |-> FALSE, key |-> Nil, entry |-> Nil,
            skipping |-> FALSE, type |-> "deletion", err |-> FALSE]

(* The insertion of one entry, and the list that holds some: how the        *)
(* memtable came to be before the iterator was made.                        *)
InsertAll(list, x, h) ==
    LET begun == BeginInsert(list, x, h)
    IN  FoldLeft(LAMBDA l, level : Link(l, [begun.todo EXCEPT !.level = level]),
                 begun.list, [level \in 1 .. h |-> level])
LoadedList(nodes) == FoldLeft(LAMBDA l, n : InsertAll(l, n.entry, n.height), EmptyList, nodes)

Init ==
    /\ \E lay \in Layouts :
         /\ files = [table |-> TableOf(lay), level |-> LevelOf(lay),
                     put |-> Put(lay), readable |-> Put(lay) \ lay.lost]
         /\ mem = LoadedList(lay.mem)
         /\ last = lay.last
         /\ snapshot = lay.snapshot
    /\ inserting = Nil
    /\ it = NewMerge
    /\ dbi = NewIter
    /\ pc = "idle"
    /\ showed = Nil
    /\ scanned = FALSE

\* key() and value(), while Valid(); a value is known by its number.
Shown ==
    IF ~dbi.valid THEN Nil
    ELSE IF dbi.dir = "forward" THEN <<Current(it).key, Current(it).seq>>
    ELSE <<dbi.key, dbi.entry.seq>>

\* status() is not ok.
Failed == dbi.err \/ \E c \in {"table", "level"} : ~TwoLevelStatus(files[c], it.pos[c])

----------------------------------------------------------------------------
(* The writer: MemTable::Add, step by step, under DBImpl::Write, which lets *)
(* readers ask for the new number only when the insertion is done.          *)
Add(k, type, h) ==
    /\ inserting = Nil
    /\ last + 1 < MaxSequenceNumber
    /\ LET begun == BeginInsert(mem, [key |-> k, seq |-> last + 1, type |-> type], h)
       IN  mem' = begun.list /\ inserting' = begun.todo
    /\ UNCHANGED <<files, last, snapshot, it, dbi, pc, showed, scanned>>

SetNext ==
    /\ inserting # Nil
    /\ mem' = Link(mem, inserting)
    /\ IF inserting.level < inserting.height
       THEN inserting' = [inserting EXCEPT !.level = @ + 1] /\ UNCHANGED last
       ELSE inserting' = Nil /\ last' = inserting.node.seq
    /\ UNCHANGED <<files, snapshot, it, dbi, pc, showed, scanned>>

----------------------------------------------------------------------------
(* The calls of the client.  Each runs up to the first turn of its loop.    *)
Clear(d) == [d EXCEPT !.key = Nil, !.entry = Nil]

Called ==
    /\ pc = "idle"
    /\ showed' = Shown
    /\ UNCHANGED <<files, mem, inserting, last, snapshot>>

\* FindNextUserEntry(skipping, ...) from where the iterator i stands.
Forward(i, d, skipping) ==
    /\ it' = i
    /\ IF Valid(it')
       THEN pc' = "findNext" /\ dbi' = [d EXCEPT !.dir = "forward", !.skipping = skipping]
       ELSE pc' = "idle" /\ dbi' = [d EXCEPT !.dir = "forward", !.valid = FALSE, !.key = Nil]

SeekToFirst == Called /\ scanned' = TRUE /\ Forward(MergeSeekToFirst(it), Clear(dbi), FALSE)

Seek(k) ==
    Called /\ scanned' = FALSE /\ Forward(MergeSeek(it, Target(k, snapshot)), Clear(dbi), FALSE)

SeekToLast ==
    /\ Called
    /\ scanned' = FALSE
    /\ it' = MergeSeekToLast(it)
    /\ dbi' = [dbi EXCEPT !.dir = "reverse", !.entry = Nil, !.type = "deletion"]
    /\ pc' = "findPrev"

(* Moving backwards the merged iterator stands just before the entries of   *)
(* the key shown; moving forwards it stands at the entry shown.             *)
Next ==
    /\ Called
    /\ dbi.valid
    /\ UNCHANGED scanned
    /\ IF dbi.dir = "reverse"
       THEN Forward(IF Valid(it) THEN MergeNext(it) ELSE MergeSeekToFirst(it), dbi, TRUE)
       ELSE Forward(it, [dbi EXCEPT !.key = Current(it).key], TRUE)

Prev ==
    /\ Called
    /\ dbi.valid
    /\ scanned' = FALSE
    /\ UNCHANGED it
    /\ IF dbi.dir = "forward"
       THEN pc' = "scanBack" /\ dbi' = [dbi EXCEPT !.key = Current(it).key]
       ELSE pc' = "findPrev" /\ dbi' = [dbi EXCEPT !.type = "deletion"]

NewIterator ==
    /\ pc = "idle"
    /\ snapshot' = last
    /\ it' = NewMerge
    /\ dbi' = NewIter
    /\ showed' = Nil
    /\ scanned' = FALSE
    /\ UNCHANGED <<files, mem, inserting, last, pc>>

----------------------------------------------------------------------------
(* One turn of a loop each.                                                 *)
\* ParseKey succeeds and the snapshot includes the entry.
Included(e) == e.type # "bad" /\ e.seq <= snapshot

NoteBad(d, e) == [d EXCEPT !.err = @ \/ e.type = "bad"]

FindNextUserEntry ==
    LET e == Current(it)
        deleted == Included(e) /\ e.type = "deletion"
        hidden == dbi.skipping /\ e.key <= dbi.key
        skip == IF deleted THEN [dbi EXCEPT !.key = e.key, !.skipping = TRUE] ELSE dbi
    IN  /\ pc = "findNext"
        /\ \/ /\ Included(e) /\ e.type = "value" /\ ~hidden
              /\ dbi' = [dbi EXCEPT !.valid = TRUE, !.key = Nil]
              /\ pc' = "idle"
              /\ UNCHANGED it
           \/ /\ ~(Included(e) /\ e.type = "value" /\ ~hidden)
              /\ Forward(MergeNext(it), NoteBad(skip, e), skip.skipping)
        /\ UNCHANGED <<files, mem, inserting, last, snapshot, showed, scanned>>

\* Prev, moving forwards until now: back to before the key shown.
ScanBack ==
    /\ pc = "scanBack"
    /\ it' = MergePrev(it)
    /\ IF ~Valid(it')
       THEN pc' = "idle" /\ dbi' = [Clear(dbi) EXCEPT !.valid = FALSE]
       ELSE IF Current(it').key < dbi.key
       THEN pc' = "findPrev" /\ dbi' = [dbi EXCEPT !.dir = "reverse", !.type = "deletion"]
       ELSE UNCHANGED <<pc, dbi>>
    /\ UNCHANGED <<files, mem, inserting, last, snapshot, showed, scanned>>

FindPrevUserEntry ==
    LET e == Current(it)
        done == Valid(it) => Included(e) /\ dbi.type = "value" /\ e.key < dbi.key
    IN  /\ pc = "findPrev"
        /\ \/ /\ done
              /\ dbi' = IF dbi.type = "value" THEN [dbi EXCEPT !.valid = TRUE]
                        ELSE [Clear(dbi) EXCEPT !.valid = FALSE, !.dir = "forward"]
              /\ pc' = "idle"
              /\ UNCHANGED it
           \/ /\ ~done
              /\ dbi' = IF ~Included(e) THEN NoteBad(dbi, e)
                        ELSE IF e.type = "deletion" THEN [Clear(dbi) EXCEPT !.type = "deletion"]
                        ELSE [dbi EXCEPT !.type = "value", !.key = e.key, !.entry = e]
              /\ it' = MergePrev(it)
              /\ UNCHANGED pc
        /\ UNCHANGED <<files, mem, inserting, last, snapshot, showed, scanned>>

Loops == FindNextUserEntry \/ ScanBack \/ FindPrevUserEntry
Calls == SeekToFirst \/ SeekToLast \/ Next \/ Prev \/ \E k \in SeekKeys : Seek(k)
Writer ==
    \/ \E k \in Key, type \in {"value", "deletion"}, h \in 1 .. MaxHeight : Add(k, type, h)
    \/ SetNext

Step == Loops \/ Calls \/ NewIterator \/ Writer

Spec == Init /\ [][Step]_vars

----------------------------------------------------------------------------
(* A point read (DBImpl::Get, Version::Get): the memtable, then the table,  *)
(* then the one file of the level that may hold the key; the first that has *)
(* a version of the key answers.                                            *)
NotFound == 0

LevelGet(level, t) ==
    LET f == FindFile(level, t)
        block == level.blocks[f]
        i == SeekEntry(block, BlockIter(block), t)
    IN  IF f = 0 THEN Nil
        ELSE IF t.key < level.smallest[f].key THEN Nil
        ELSE IF i.bad THEN Error
        ELSE ParseInternalKey(i.key)

Get(k, s) ==
    LET t == Target(k, s)
        inMem == MemTableGet(mem, t)
        inTable == InternalGet(files.table, t, Nil, Error)
        inLevel == LevelGet(files.level, t)
        Has(e) == e = Error \/ (e # Nil /\ e.key = k)
        Answer(e) == IF e = Error THEN Error
                     ELSE IF e.type = "bad" THEN Error
                     ELSE IF e.type = "deletion" THEN NotFound ELSE e.seq
    IN  IF inMem # Nil THEN Answer(inMem)
        ELSE IF Has(inTable) THEN Answer(inTable)
        ELSE IF Has(inLevel) THEN Answer(inLevel)
        ELSE NotFound

----------------------------------------------------------------------------
(* Properties.                                                              *)
Sorted(list, l, x) == list.next[x][l] # Nil => Before(x, list.next[x][l])

ValueIsItsOwn(source, p) ==
    TwoLevelValid(source, p) =>
        Value(source.blocks[p.blk], p.data) = ValueOf(TwoLevelKey(p))

(* The types; each key read from a file comes with its own value; a loop    *)
(* runs only where its code may stand; on every level the links of the      *)
(* memtable lead to later entries (SkipList::Insert).                       *)
TypeOK ==
    /\ pc \in {"idle", "findNext", "findPrev", "scanBack"}
    /\ dbi.dir \in {"forward", "reverse"} /\ dbi.type \in {"value", "deletion"}
    /\ pc = "findNext" => Valid(it) /\ dbi.dir = "forward"
    /\ pc = "findPrev" => dbi.dir = "reverse"
    /\ pc = "scanBack" => Valid(it) /\ dbi.dir = "forward"
    /\ pc = "idle" /\ dbi.valid /\ dbi.dir = "forward" => Valid(it) /\ Included(Current(it))
    /\ \A c \in {"table", "level"} : ValueIsItsOwn(files[c], it.pos[c])
    /\ mem.height \in 1 .. MaxHeight
    /\ \A x \in Nodes(mem) : \A l \in DOMAIN mem.next[x] : Sorted(mem, l, x)

\* The newest version of a key among some entries, 0 if there is none or it
\* is a deletion.
NewestVersion(k, s, entries) ==
    LET versions == {e \in entries : e.key = k /\ e.seq <= s}
        newest == CHOOSE e \in versions : \A f \in versions : f.seq <= e.seq
    IN  IF versions = {} THEN NotFound
        ELSE IF newest.type = "deletion" THEN NotFound ELSE newest.seq

(* A point read answers with the newest version its snapshot may see, in    *)
(* whichever place that lies, or reports an error: while a write is being   *)
(* linked into the memtable, across the gaps the separators leave in an     *)
(* index, through the filter, and past a block that cannot be read (Get);   *)
(* and all of the state has its type.  (A read does not look at the         *)
(* iterator: the states in which that is new are enough.)                   *)
PointReadsFindNewest ==
    /\ TypeOK
    /\ dbi = NewIter =>
         \A k \in SeekKeys, s \in {snapshot, last} :
            Get(k, s) \in {NewestVersion(k, s, files.put \cup Nodes(mem)), Error}

View ==
    LET entries == {e \in files.readable \cup Nodes(mem) : e.type # "bad"}
        newest == [k \in Key |-> NewestVersion(k, snapshot, entries)]
    IN  [k \in {k \in Key : newest[k] # NotFound} |-> newest[k]]

(* The iterator is a cursor over what its snapshot may see: its calls, in   *)
(* any order and with any change of direction, show each key present once,  *)
(* in order and with its newest value, whatever is written meanwhile        *)
(* (DBIter over MergingIterator over its children).                         *)
C == INSTANCE Cursor WITH view <- View, cur <- IF pc = "idle" THEN Shown ELSE showed,
                          Key <- SeekKeys, NoEntry <- Nil
ImplementsCursor == C!Spec

(* A client that walks from the first key to the end learns from status()   *)
(* that something could not be read, wherever it lay                        *)
(* (TwoLevelIterator::SaveError, MergingIterator::status, DBIter::status).  *)
Damaged == files.put # files.readable \/ \E e \in files.put : e.type = "bad"
ScansReportDamage ==
    scanned /\ pc = "idle" /\ ~dbi.valid /\ Damaged => Failed
=============================================================================
