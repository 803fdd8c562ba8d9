----------------------------- MODULE VersionSet -----------------------------
(***************************************************************************)
(* leveldb's VersionSet and Compaction: the table files of a store, in     *)
(* levels, and which of them a read looks at, a memtable is placed among   *)
(* and a merge replaces. One background thread flushes and merges; a flush *)
(* may come in the middle of a merge. Threads, logs and crashes in between *)
(* are the subject of DBImpl.tla; a memtable here is what was written      *)
(* between two switches.                                                   *)
(*                                                                         *)
(* The size of a file is the number of its entries. A sequence number      *)
(* stands for the value that was written with it.                          *)
(***************************************************************************)
EXTENDS Integers, Sequences, FiniteSets, SequencesExt, FiniteSetsExt

CONSTANTS
  Key,               \* the user keys
  NumLevels,         \* config::kNumLevels
  MaxMemCompactLevel, \* config::kMaxMemCompactLevel
  Settings           \* the options of the store and what its clients do

\* options.h and dbformat.h: the size at which an output file is closed, the
\* overlap with grandparents and the total size a merge should not exceed, the
\* files of level 0 and the size of level 1 that ask for a merge.
Options ==
  [maxFile : Nat \ {0}, grandparents : Nat, expanded : Nat, trigger : Nat \ {0},
   base : Nat \ {0}]

\* Bounds on what clients do: memtables, writes in one, the keys and types
\* written, snapshots taken at one time or another, files that may run out of
\* seeks, calls of CompactRange, and whether nobody writes during these.
Clients ==
  [memtables : Nat, writes : Nat, keys : SUBSET Key, types : SUBSET {"put", "del"},
   snapshots : Nat, seeks : Nat, ranges : Nat, quiet : BOOLEAN, crashes : Nat]

ASSUME VersionSetAssumption ==
  /\ Key \subseteq Nat \ {0}
  /\ NumLevels \in Nat /\ NumLevels > MaxMemCompactLevel
  /\ MaxMemCompactLevel \in Nat
  /\ Settings \subseteq [options : Options, clients : Clients]

VARIABLES
  files,          \* current_: the files of each level
  compactPointer, \* the entry after which the next merge of a level starts
  fileToCompact,  \* file_to_compact_ of the current version, as a set
  nextFile,       \* next_file_number_
  lastSequence,   \* last_sequence_
  imm,            \* the immutable memtable
  snapshots,      \* the snapshots not released
  merge,          \* the merge the background thread is working on
  manual,         \* the CompactRange in progress
  written,        \* every entry that was written
  parted,         \* history: the keys whose newer entries left older ones behind
  options, clients

vars == <<files, compactPointer, fileToCompact, nextFile, lastSequence, imm,
          snapshots, merge, manual, written, parted, options, clients>>

Levels == 0..NumLevels - 1

Entry == [k : Key, s : Nat, t : {"put", "del"}]

-----------------------------------------------------------------------------
(* Entries and files                                                       *)

\* The members of S in the order less
Sorted(S, less(_, _)) ==
  [i \in 1..Cardinality(S) |->
     CHOOSE e \in S : Cardinality({x \in S : less(x, e)}) = i - 1]

\* InternalKeyComparator: by user key, then the newest first.
Before(a, b) == a.k < b.k \/ (a.k = b.k /\ a.s > b.s)

FirstEntry(E) == CHOOSE e \in E : \A x \in E \ {e} : Before(e, x)

LastEntry(E) == CHOOSE e \in E : \A x \in E \ {e} : Before(x, e)

\* FileMetaData
File(number, E) ==
  [number |-> number, entries |-> E,
   smallest |-> FirstEntry(E), largest |-> LastEntry(E)]

Size(F) == MapThenSumSet(LAMBDA f : Cardinality(f.entries), F)

\* Builder::BySmallestKey: the order of the files of a level
BySmallestKey(f, g) ==
  \/ Before(f.smallest, g.smallest)
  \/ f.smallest = g.smallest /\ f.number < g.number

InOrder(F) == Sorted(F, BySmallestKey)

EntriesOf(F) == UNION {f.entries : f \in F}

AllFiles == UNION {files[l] : l \in Levels}

\* The newest entry of k in E that is not newer than n, as a set.
Newest(E, k, n) ==
  LET old == {e \in E : e.k = k /\ e.s <= n}
  IN  {e \in old : \A x \in old : x.s <= e.s}

\* The value a read finds: a number, or 0 for a key that is not there.
Value(found) ==
  IF \E e \in found : e.t = "put" THEN (CHOOSE e \in found : TRUE).s ELSE 0

\* Keys before and after all keys stand for NULL ends of a range.
NoBegin == 0
NoEnd == Max(Key) + 1

InRange(f, begin, end) == f.largest.k >= begin /\ f.smallest.k <= end

\* FindFile: the first file whose largest entry is not before the entry, as a set
FindFile(F, e) ==
  LET later == {f \in F : ~Before(f.largest, e)}
  IN  {f \in later : \A g \in later \ {f} : BySmallestKey(f, g)}

Seek(k, n) == [k |-> k, s |-> n, t |-> "put"]

\* SomeFileOverlapsRange: a binary search where files are disjoint
OverlapInLevel(level, begin, end) ==
  IF level = 0 THEN \E f \in files[0] : InRange(f, begin, end)
  ELSE \E f \in FindFile(files[level], Seek(begin, lastSequence + 1)) :
         f.smallest.k <= end

\* A mutant: the range is not widened on level 0.
GetInputs(level, begin, end) == {f \in files[level] : InRange(f, begin, end)}

\* GetOverlappingInputs: on level 0 a file that is taken widens the range.
GetOverlappingInputs(level, begin, end) ==
  LET F == files[level]
      taken(from, to) == {f \in F : InRange(f, from, to)}
      Grown[i \in 0..Cardinality(F)] ==
        IF i = 0 THEN taken(begin, end)
        ELSE LET before == Grown[i - 1]
             IN  taken(Min({begin} \cup {f.smallest.k : f \in before}),
                       Max({end} \cup {f.largest.k : f \in before}))
  IN  IF level = 0 THEN Grown[Cardinality(F)] ELSE taken(begin, end)

\* The files of a level a read of k looks at: beyond level 0 at most one.
ToSearch(level, k, n) ==
  IF level = 0 THEN {f \in files[0] : InRange(f, k, k)}
  ELSE {f \in FindFile(files[level], Seek(k, n)) : f.smallest.k <= k}

\* ForEachOverlapping: those of all levels ...
Candidates(k, n) ==
  UNION {{[level |-> l, file |-> f] : f \in ToSearch(l, k, n)} : l \in Levels}

\* ... level by level, and the newest first on level 0
FirstOf(C) ==
  {c \in C : \A d \in C \ {c} :
     c.level < d.level \/ (c.level = d.level /\ c.file.number > d.file.number)}

\* Version::Get, after the memtable: the first file that has an entry for k.
Get(k, n) ==
  LET hit(c) == Newest(c.file.entries, k, n)
      inMemory == Newest(imm, k, n)
  IN  IF inMemory # {} THEN Value(inMemory)
      ELSE Value(UNION {hit(c) : c \in
                          FirstOf({c \in Candidates(k, n) : hit(c) # {}})})

\* Table::ApproximateOffsetOf, where every block holds one entry
OffsetIn(f, e) == Cardinality({x \in f.entries : Before(x, e)})

\* VersionSet::ApproximateOffsetOf: what is stored before e. Beyond level 0 the
\* first file that begins after e ends the search of a level.
ApproximateOffsetOf(e) ==
  LET ends(l) == {g \in files[l] : l > 0 /\ Before(e, g.smallest)}
      searched(l) == {f \in files[l] : \A g \in ends(l) : BySmallestKey(f, g)}
      part(f) ==
        IF ~Before(e, f.largest) THEN Size({f})
        ELSE IF Before(e, f.smallest) THEN 0
        ELSE OffsetIn(f, e)
  IN  MapThenSumSet(LAMBDA l : MapThenSumSet(part, searched(l)), Levels)

SizeBetween(start, limit) == IF limit >= start THEN limit - start ELSE 0

\* A mutant: a range begins and ends after the entries of its keys.
SizesAfterKeys(begin, end) ==
  SizeBetween(ApproximateOffsetOf(Seek(begin, 0)), ApproximateOffsetOf(Seek(end, 0)))

\* DBImpl::GetApproximateSizes: k1 and k2 come before the entries of their keys.
GetApproximateSizes(begin, end) ==
  SizeBetween(ApproximateOffsetOf(Seek(begin, lastSequence + 1)),
              ApproximateOffsetOf(Seek(end, lastSequence + 1)))

-----------------------------------------------------------------------------

NoMerge ==
  [on |-> FALSE, manual |-> FALSE, level |-> 0, in0 |-> {}, in1 |-> {},
   grandparents |-> {}, deeper |-> <<>>, smallest |-> 0]

NoManual ==
  [on |-> FALSE, level |-> 0, levels |-> 0, begin |-> 0, end |-> 0, from |-> 0]

Init ==
  /\ files = [l \in Levels |-> {}]
  /\ compactPointer = [l \in Levels |-> {}]
  /\ fileToCompact = {}
  /\ nextFile = 1
  /\ lastSequence = 0
  /\ imm = {}
  /\ snapshots = {}
  /\ merge = NoMerge
  /\ manual = NoManual
  /\ written = {}
  /\ parted = {}
  /\ \E s \in Settings : options = s.options /\ clients = s.clients

Allowed(kind) ==
  /\ clients[kind] > 0
  /\ clients' = [clients EXCEPT ![kind] = @ - 1]

\* History: below level 0, the keys of which a level keeps entries that are older
\* than one that is taken from it to a deeper level.  No code looks for them.
LeftBehind(del, level) ==
  {k \in Key : \E l \in 1..level - 1 :
     \E e \in EntriesOf(files[l] \cap del), x \in EntriesOf(files[l] \ del) :
       e.k = k /\ x.k = k /\ e.s > x.s}

\* LogAndApply: Builder::Apply and SaveTo, and the new version is current.
Apply(del, add, level) ==
  /\ files' = [l \in Levels |->
       (files[l] \ del) \cup IF l = level THEN add ELSE {}]
  /\ fileToCompact' = {}
  /\ parted' = parted \cup LeftBehind(del, level)

-----------------------------------------------------------------------------
(* Clients                                                                 *)

\* A memtable fills up and becomes the immutable one.
Fill ==
  /\ imm = {}
  /\ manual.on => ~clients.quiet
  /\ Allowed("memtables")
  /\ \E n \in 1..clients.writes :
       \E ops \in [1..n -> clients.keys \X clients.types] :
         imm' = {[k |-> ops[i][1], s |-> lastSequence + i, t |-> ops[i][2]] :
                   i \in 1..n}
  /\ lastSequence' = lastSequence + Cardinality(imm')
  /\ written' = written \cup imm'
  /\ UNCHANGED <<files, compactPointer, fileToCompact, nextFile, snapshots,
                 merge, manual, parted, options>>

GetSnapshot ==
  /\ lastSequence \notin snapshots
  /\ Allowed("snapshots")
  /\ snapshots' = snapshots \cup {lastSequence}
  /\ UNCHANGED <<files, compactPointer, fileToCompact, nextFile, lastSequence,
                 imm, merge, manual, written, parted, options>>

ReleaseSnapshot ==
  /\ \E n \in snapshots : snapshots' = snapshots \ {n}
  /\ UNCHANGED <<files, compactPointer, fileToCompact, nextFile, lastSequence,
                 imm, merge, manual, written, parted, options, clients>>

\* The file a read is charged with: the first of several it looked at, or, when
\* an iterator samples its reads, of several that overlap the key.
Charged ==
  LET several(k) ==
        LET cs == Candidates(k, lastSequence)
        IN  IF Cardinality(cs) >= 2 THEN FirstOf(cs) ELSE {}
  IN  UNION {several(k) : k \in Key}

\* UpdateStats: a file is read more often than it was allowed to.
RunOutOfSeeks ==
  /\ fileToCompact = {}
  /\ Allowed("seeks")
  /\ \E c \in Charged : fileToCompact' = {c}
  /\ UNCHANGED <<files, compactPointer, nextFile, lastSequence, imm, snapshots,
                 merge, manual, written, parted, options>>

\* DBImpl::CompactRange: how deep it will go is decided before it waits for the
\* memtable.
CompactRange ==
  /\ ~manual.on
  /\ Allowed("ranges")
  /\ \E begin \in {NoBegin} \cup clients.keys, end \in {NoEnd} \cup clients.keys :
       /\ begin <= end
       /\ manual' =
            [on |-> TRUE, level |-> 0, begin |-> begin, end |-> end, from |-> begin,
             levels |-> Max({1} \cup {l \in Levels \ {0} :
                                        OverlapInLevel(l, begin, end)})]
  /\ UNCHANGED <<files, compactPointer, fileToCompact, nextFile, lastSequence,
                 imm, snapshots, merge, written, parted, options>>

-----------------------------------------------------------------------------
(* The background thread                                                   *)

\* PickLevelForMemTableOutput
LevelFor(begin, end) ==
  LET mayPass(l) ==
        /\ ~OverlapInLevel(l + 1, begin, end)
        /\ l + 2 < NumLevels =>
             Size(GetOverlappingInputs(l + 2, begin, end)) <= options.grandparents
  IN  IF OverlapInLevel(0, begin, end) THEN 0
      ELSE Max({l \in 0..MaxMemCompactLevel : \A i \in 0..l - 1 : mayPass(i)})

\* CompactMemTable, before a merge or between two of its keys
Flush ==
  /\ imm # {}
  /\ Apply({}, {File(nextFile, imm)},
           LevelFor(FirstEntry(imm).k, LastEntry(imm).k))
  /\ nextFile' = nextFile + 1
  /\ imm' = {}
  /\ UNCHANGED <<compactPointer, lastSequence, snapshots, merge, manual, written,
                 options, clients>>

\* MaxBytesForLevel, with a factor of two from level to level
MaxBytesForLevel(l) == options.base * 2^(l - 1)

\* Finalize: a level with a better score than another, in integers
Wanted(l) == IF l = 0 THEN options.trigger ELSE MaxBytesForLevel(l)

Held(l) == IF l = 0 THEN Cardinality(files[0]) ELSE Size(files[l])

Full == {l \in 0..NumLevels - 2 : Held(l) >= Wanted(l)}

CompactionLevel ==
  LET better(l, m) == Held(l) * Wanted(m) > Held(m) * Wanted(l)
  IN  Min({l \in 0..NumLevels - 2 : \A m \in 0..NumLevels - 2 : ~better(m, l)})

NeedsCompaction == Full # {} \/ fileToCompact # {}

\* PickCompaction: the first file after the compaction pointer, or the first.
AfterPointer(level) ==
  LET fs == InOrder(files[level])
      later == {i \in DOMAIN fs :
                  \A p \in compactPointer[level] : Before(p, fs[i].largest)}
  IN  fs[Min(later \cup IF later = {} THEN {1} ELSE {})]

\* GetRange, in user keys
Begin(F) == Min({f.smallest.k : f \in F})
End(F) == Max({f.largest.k : f \in F})

\* SetupOtherInputs: the files of the next level, and more of this one if that
\* does not change them.
Inputs(level, F) ==
  LET in1 == GetOverlappingInputs(level + 1, Begin(F), End(F))
      more0 == GetOverlappingInputs(level, Begin(F \cup in1), End(F \cup in1))
      more1 == GetOverlappingInputs(level + 1, Begin(more0), End(more0))
      grows ==
        /\ in1 # {}
        /\ Cardinality(more0) > Cardinality(F)
        /\ Size(in1) + Size(more0) < options.expanded
        /\ Cardinality(more1) = Cardinality(in1)
      all == IF grows THEN more0 \cup more1 ELSE F \cup in1
  IN  [in0 |-> IF grows THEN more0 ELSE F,
       in1 |-> IF grows THEN more1 ELSE in1,
       grandparents |->
         IF level + 2 < NumLevels
         THEN GetOverlappingInputs(level + 2, Begin(all), End(all)) ELSE {}]

SetPointer(level, F) ==
  compactPointer' = [compactPointer EXCEPT ![level] = {LastEntry(EntriesOf(F))}]

\* The start of DoCompactionWork
StartMerge(level, c, isManual) ==
  merge' = [on |-> TRUE, manual |-> isManual, level |-> level,
            in0 |-> c.in0, in1 |-> c.in1, grandparents |-> c.grandparents,
            deeper |-> [i \in 1..NumLevels - level - 2 |-> InOrder(files[level + 1 + i])],
            smallest |-> Min(snapshots \cup {lastSequence})]

\* IsTrivialMove
IsTrivialMove(c) ==
  /\ Cardinality(c.in0) = 1
  /\ c.in1 = {}
  /\ Size(c.grandparents) <= options.grandparents

\* A mutant: a trivial move adds the file to the level it is deleted from.
BeginsInPlace(level, F) ==
  LET c == Inputs(level,
             IF level = 0 THEN GetOverlappingInputs(0, Begin(F), End(F)) ELSE F)
  IN  /\ SetPointer(level, c.in0)
      /\ IF IsTrivialMove(c)
         THEN Apply(c.in0, c.in0, level) /\ UNCHANGED merge
         ELSE StartMerge(level, c, FALSE) /\ UNCHANGED <<files, fileToCompact, parted>>
      /\ UNCHANGED <<nextFile, lastSequence, imm, snapshots, manual, written,
                     options, clients>>

\* BackgroundCompaction: move a file to the next level or start a merge.
Begins(level, F) ==
  LET c == Inputs(level,
             IF level = 0 THEN GetOverlappingInputs(0, Begin(F), End(F)) ELSE F)
  IN  /\ SetPointer(level, c.in0)
      /\ IF IsTrivialMove(c)
         THEN Apply(c.in0, c.in0, level + 1) /\ UNCHANGED merge
         ELSE StartMerge(level, c, FALSE) /\ UNCHANGED <<files, fileToCompact, parted>>
      /\ UNCHANGED <<nextFile, lastSequence, imm, snapshots, manual, written,
                     options, clients>>

Idle == imm = {} /\ ~merge.on

\* There is too much in a level.
SizeCompaction ==
  /\ Idle
  /\ Full # {}
  /\ Begins(CompactionLevel, {AfterPointer(CompactionLevel)})

\* A file has been sought too often.
SeekCompaction ==
  /\ Idle
  /\ Full = {}
  /\ \E c \in fileToCompact : Begins(c.level, {c.file})

\* The first files whose sizes add up to the limit
Truncated(F) ==
  LET fs == InOrder(F)
      upTo(i) == {fs[j] : j \in 1..i}
      enough == {i \in DOMAIN fs : Size(upTo(i)) >= options.maxFile}
  IN  upTo(Min(enough \cup {Len(fs)}))

\* A round of TEST_CompactRange: VersionSet::CompactRange, or the next level.
ManualCompaction ==
  /\ Idle
  /\ manual.on
  /\ LET level == manual.level
         F == GetOverlappingInputs(level, manual.begin, manual.end)
         c == Inputs(level, IF level = 0 THEN F ELSE Truncated(F))
     IN  IF F = {}
         THEN /\ manual' = IF level + 1 < manual.levels
                           THEN [manual EXCEPT !.level = @ + 1, !.begin = manual.from]
                           ELSE NoManual
              /\ UNCHANGED <<merge, compactPointer>>
         ELSE /\ SetPointer(level, c.in0)
              /\ StartMerge(level, c, TRUE)
              /\ UNCHANGED manual
  /\ UNCHANGED <<files, fileToCompact, nextFile, lastSequence, imm, snapshots,
                 written, parted, options, clients>>

-----------------------------------------------------------------------------
(* DoCompactionWork: a fold over the entries of the inputs                 *)

\* ShouldStopBefore: how many grandparents have been passed, and whether those
\* passed by the current output are too large.
Passes(a, e) ==
  LET gs == InOrder(merge.grandparents)
      at == Min({i \in DOMAIN gs : i > a.passed /\ ~Before(gs[i].largest, e)}
                \cup {Len(gs) + 1}) - 1
      passed == {gs[i] : i \in (a.passed + 1)..at}
      overlap == a.overlap + IF a.seen THEN Size(passed) ELSE 0
      stop == overlap > options.grandparents
  IN  [passed |-> at, stop |-> stop, overlap |-> IF stop THEN 0 ELSE overlap]

\* level_ptrs_: the files of each deeper level that earlier keys have passed
PointersAtStart == [i \in DOMAIN merge.deeper |-> 0]

\* A mutant: a file that ends with the key is passed as well.
PassesLast(ptrs, i, k) ==
  Max({ptrs[i]} \cup {j \in DOMAIN merge.deeper[i] : merge.deeper[i][j].largest.k <= k})

\* The pointer of a deeper level once the files that end before the key are
\* passed; it never goes back.
PassedBefore(ptrs, i, k) ==
  Max({ptrs[i]} \cup {j \in DOMAIN merge.deeper[i] : merge.deeper[i][j].largest.k < k})

\* IsBaseLevelForKey: whether no deeper file has the key in its range, and the
\* pointers after it; the levels below one that has the key are not looked at.
IsBaseLevelForKey(ptrs, k) ==
  LET deeper == merge.deeper
      at(i) == PassedBefore(ptrs, i, k)
      has == {i \in DOMAIN deeper :
                at(i) < Len(deeper[i]) /\ deeper[i][at(i) + 1].smallest.k <= k}
      seen == 1..Min(has \cup {Len(deeper)})
  IN  [base |-> has = {},
       ptrs |-> [i \in DOMAIN deeper |-> IF i \in seen THEN at(i) ELSE ptrs[i]]]

\* A newer entry of the key is as old as every snapshot.
IsHidden(a, e) ==
  a.last # {} /\ \A x \in a.last : x.k = e.k /\ x.s <= merge.smallest

\* An entry is dropped if it is hidden or if it is a deletion nobody needs; only
\* then does the code ask for, and move, the pointers.
Drops(a, e) ==
  LET asks == ~IsHidden(a, e) /\ e.t = "del" /\ e.s <= merge.smallest
      asked == IsBaseLevelForKey(a.ptrs, e.k)
  IN  IF asks THEN [drop |-> asked.base, ptrs |-> asked.ptrs]
      ELSE [drop |-> IsHidden(a, e), ptrs |-> a.ptrs]

Close(outs, out) == IF out = {} THEN outs ELSE Append(outs, out)

AddEntry(a, e) ==
  LET p == Passes(a, e)
      d == Drops(a, e)
      outs == IF p.stop THEN Close(a.outs, a.out) ELSE a.outs
      kept == (IF p.stop THEN {} ELSE a.out)
              \cup IF d.drop THEN {} ELSE {e}
      full == ~d.drop /\ Cardinality(kept) >= options.maxFile
  IN  [passed |-> p.passed, overlap |-> p.overlap, seen |-> TRUE, last |-> {e},
       ptrs |-> d.ptrs,
       outs |-> IF full THEN Append(outs, kept) ELSE outs,
       out |-> IF full THEN {} ELSE kept]

\* The entries of the files the merge writes
Outputs ==
  LET start == [passed |-> 0, overlap |-> 0, seen |-> FALSE, last |-> {},
                ptrs |-> PointersAtStart, outs |-> <<>>, out |-> {}]
      end == FoldLeft(AddEntry, start,
                      Sorted(EntriesOf(merge.in0 \cup merge.in1), Before))
  IN  Close(end.outs, end.out)

\* InstallCompactionResults, and what is left of a manual range
FinishMerge ==
  /\ merge.on
  /\ LET outs == Outputs
     IN  /\ Apply(merge.in0 \cup merge.in1,
                  {File(nextFile + i - 1, outs[i]) : i \in DOMAIN outs},
                  merge.level + 1)
         /\ nextFile' = nextFile + Len(outs)
  /\ merge' = NoMerge
  /\ manual' = IF merge.manual
               THEN [manual EXCEPT !.begin =
                       Last(InOrder(merge.in0)).largest.k]
               ELSE manual
  /\ UNCHANGED <<compactPointer, lastSequence, imm, snapshots, written, options,
                 clients>>

-----------------------------------------------------------------------------

\* The process ends and the store is opened again: a log is replayed into
\* level 0, and a merge that was under way is forgotten.
Reopen ==
  /\ Allowed("crashes")
  /\ Apply({}, IF imm = {} THEN {} ELSE {File(nextFile, imm)}, 0)
  /\ nextFile' = nextFile + 1
  /\ imm' = {}
  /\ snapshots' = {}
  /\ merge' = NoMerge
  /\ manual' = NoManual
  /\ UNCHANGED <<compactPointer, lastSequence, written, options>>

BackgroundCall ==
  Flush \/ SizeCompaction \/ SeekCompaction \/ ManualCompaction \/ FinishMerge

\* When the background thread has something to do
HasWork == imm # {} \/ merge.on \/ manual.on \/ NeedsCompaction

\* Nothing is left to do.
Rest == ~HasWork /\ UNCHANGED vars

Next ==
  \/ Fill \/ GetSnapshot \/ ReleaseSnapshot \/ RunOutOfSeeks \/ CompactRange
  \/ BackgroundCall
  \/ Reopen
  \/ Rest

\* A step of BackgroundCall: every other action uses up something of clients or
\* releases a snapshot.
InBackground == clients' = clients /\ snapshots' = snapshots

\* WF_vars(BackgroundCall), with what enables it written out: the thread runs as
\* long as it has work.
Fairness == []<>~HasWork \/ []<><<InBackground>>_vars

Spec == Init /\ [][Next]_vars /\ Fairness

-----------------------------------------------------------------------------
(* Properties                                                              *)

\* Types, and that a file number names one file.
TypeOK ==
  /\ \A l \in Levels : \A f \in files[l] :
       /\ f.entries # {} /\ f.entries \subseteq Entry
       /\ f.number \in 1..nextFile - 1
  /\ \A l, m \in Levels : \A f \in files[l], g \in files[m] :
       f.number = g.number => f = g /\ l = m
  /\ imm \subseteq Entry
  /\ snapshots \subseteq 0..lastSequence
  /\ merge.on => merge.in0 \subseteq files[merge.level]
                 /\ merge.in1 \subseteq files[merge.level + 1]

\* Version::Get (version_set.cc:346) "We can search level-by-level since entries
\* never hop across levels.  Therefore we are guaranteed that if we find data in an
\* smaller level, later levels are irrelevant": what a read finds is the newest of
\* all that is stored.  The code breaks it where a snapshot keeps two entries of a
\* key and a merge closes a file between them: the file of the newer is later an
\* input without the file of the older.
LaterLevelsAreIrrelevant ==
  \A k \in Key, n \in snapshots \cup {lastSequence} :
    Get(k, n) = Value(Newest(imm \cup EntriesOf(AllFiles), k, n))

\* A read of any key, now or at a snapshot, finds the newest entry written by
\* then, however files were placed, moved, merged and dropped: no write is
\* hidden by an older one and no deletion is undone.  The keys that were parted
\* are the exception, and there is no other: a key split between two files is read
\* as it should until the newer half is taken away.
ReadsFindNewest ==
  \A k \in Key \ parted, n \in snapshots \cup {lastSequence} :
    Get(k, n) = Value(Newest(written, k, n))

\* The entries of a key that was not parted get older from level to level, and on
\* level 0 from file to file; on the others files do not overlap
\* (Builder::MaybeAddFile, version_set.cc:765 "Must not overlap").  All of the
\* state has its type.
OlderIsDeeper ==
  /\ TypeOK
  /\ \A l, m \in Levels : \A f \in files[l], g \in files[m] :
       (l < m \/ (l = 0 /\ m = 0 /\ f.number > g.number)) =>
         \A e \in f.entries, x \in g.entries :
           e.k = x.k /\ e.k \notin parted => e.s > x.s
  /\ \A l \in Levels \ {0} : \A f, g \in files[l] :
       f # g => \/ Before(f.largest, g.smallest)
                \/ Before(g.largest, f.smallest)

\* db.h:122 "file system space used by keys in [range[i].start .. range[i].limit)":
\* with blocks of one entry, just the entries of these keys, each counted as
\* often as a file has it and none missed by a search of a level that ends early.
SizesAreOfRanges ==
  \A begin \in Key : \A end \in {k \in Key \cup {NoEnd} : k > begin} :
    GetApproximateSizes(begin, end) =
      MapThenSumSet(LAMBDA f : Cardinality({e \in f.entries : e.k \in begin..end - 1}),
                    AllFiles)

\* Once nobody writes, every call of CompactRange returns and merges come to an
\* end, with no level over its size.
Settles == <>[](imm = {} /\ ~merge.on /\ ~manual.on /\ ~NeedsCompaction)

=============================================================================
