------------------------ MODULE DBImplRecoveryProofs ------------------------
(***************************************************************************)
(* Proofs about DBImpl.tla: what tables and logs hold. For any number of   *)
(* threads and keys, and without bounds on the calls and the faults:       *)
(*                                                                         *)
(*  - a sequence number names one write;                                   *)
(*  - a read sees the store as of its snapshot;                            *)
(*  - what clients could see, and what they were promised, is found by a   *)
(*    recovery, if no record of a log was written in part.                 *)
(*                                                                         *)
(* The invariants stand on one another: FilesInv (DBImplProofs) says which *)
(* files there are, ContentInv what a file that is being written, or read  *)
(* by a recovery, holds, and that numbers are used once; on these, ReadInv *)
(* is inductive, and so is PromisedInv.                                    *)
(***************************************************************************)
EXTENDS DBImplProofs, WellFoundedInduction, NaturalsInduction

-----------------------------------------------------------------------------
(* The invariants                                                          *)

\* Tables and logs by number, for the files of one state.
In(tb, nums) == UNION {tb[n].entries : n \in nums \cap DOMAIN tb}

Tab(tb, files) == In(tb, Numbers(files))

Logged(lg, b) == UNION {Readable(lg[n].recs) : n \in {m \in DOMAIN lg : m >= b}}

FoundIn(tb, lg, v) == Tab(tb, v.files) \cup Logged(lg, v.log)

Dated(rec) == \A e \in rec.entries : e.s <= rec.last

\* A log has nothing before the first descriptor is on the disk.
LogInv ==
  /\ \A n \in DOMAIN log :
       /\ log[n].synced <= Len(log[n].recs)
       /\ \A i \in DOMAIN log[n].recs : Dated(log[n].recs[i])
  /\ current = 0 \/ manifest[current].synced = 0 =>
       \A n \in DOMAIN log : log[n].recs = <<>>

\* What the background thread has written, and what its edit rests on.
WorkInv ==
  /\ bg.pc \notin {"idle", "sync"} => versions.files \subseteq Described.files
  /\ bg.pc = "sync" => Edited \subseteq Described.files
  /\ Editing /\ bg.edit.del = {} => Tab(table, bg.edit.add) = ImmEntries
  /\ Editing /\ bg.edit.del # {} =>
       Tab(table, bg.edit.add) = Merged(Tab(table, bg.inputs), bg.smallest)

\* The records RecoverLogFile would read, and what they add after the first pos.
Reads(recs) == {j \in DOMAIN recs : \A k \in 1..j : recs[k] # Torn}

Rest(recs, pos) == UNION {recs[j].entries : j \in {i \in Reads(recs) : i > pos}}

IsFirst(n, nums) == \A m \in nums : n <= m

Unread(lg, r) ==
  UNION {Rest(lg[n].recs, IF IsFirst(n, r.logs) THEN r.pos ELSE 0) : n \in r.logs}

ReplayInv ==
  /\ db = "replay" =>
       /\ versions.files = Described.files /\ versions.log = Described.log
       /\ versions.last = Described.last
       /\ Logged(log, versions.log) =
            Tab(table, recovery.add) \cup recovery.mem \cup Unread(log, recovery)
       /\ \A n \in recovery.logs : IsFirst(n, recovery.logs) =>
            /\ recovery.pos <= Len(log[n].recs)
            /\ \A k \in 1..recovery.pos : log[n].recs[k] # Torn
       /\ recovery.logs = {} => recovery.mem = {}
  /\ db = "switch" => FoundIn(table, log, Described) = Tab(table, versions.files)
  /\ db \in {"switch", "clean"} => Logged(log, versions.log) = {}

\* The entries in memory and in the files a recovery may read.
Shown(tb, files) == mem \cup ImmEntries \cup Tab(tb, files)

Used ==
  (IF Up THEN Shown(table, versions.files) \cup Logged(log, versions.log) ELSE {})
    \cup UNION {FoundIn(table, log, st) : st \in Possible}

OneWrite(E) == \A e, f \in E : e.s = f.s => e = f

UpTo(E, n) == \A e \in E : e.s <= n

NumbersInv ==
  /\ OneWrite(Used \cup group.entries)
  /\ Up => UpTo(Used \ group.entries, versions.last)
  /\ Running => UpTo(mem \cup ImmEntries, versions.last)
  /\ Running => \A n \in DOMAIN table : UpTo(table[n].entries, versions.last)
  /\ \A e \in group.entries : versions.last < e.s /\ e.s <= group.last
  /\ group.size # 0 => versions.last < group.last
  /\ \A st \in Possible : UpTo(Tab(table, st.files), st.last)
  /\ bg.pc = "append" =>
       UpTo(Tab(table, Described.files \cup bg.edit.add), bg.edit.last)
  /\ db = "replay" => UpTo(Tab(table, recovery.add) \cup recovery.mem, recovery.max)
  /\ db \in {"switch", "clean"} => UpTo(Tab(table, versions.files), versions.last)

ReadInv ==
  /\ Running => Shown(table, versions.files) \subseteq store
  /\ UpTo(store, versions.last)
  /\ Running => \A n \in snapshots \cup {versions.last} :
       n <= versions.last /\ View(store, n) \subseteq Shown(table, versions.files)
  /\ reader.on =>
       /\ reader.snap <= versions.last
       /\ reader.seen \cup In(table, reader.files) \subseteq store
       /\ View(store, reader.snap) \subseteq reader.seen \cup In(table, reader.files)
  /\ bg.inputs # {} =>
       bg.smallest <= versions.last /\ \A n \in snapshots : bg.smallest <= n

\* No record in part.
Whole ==
  /\ \A n \in DOMAIN log : \A i \in DOMAIN log[n].recs : log[n].recs[i] # Torn
  /\ budget.faults["torn"] = 0

SyncedOf(l) == UNION {l.recs[i].entries : i \in {j \in DOMAIN l.recs : j <= l.synced}}

LoggedSynced(lg, b) == UNION {SyncedOf(lg[n]) : n \in {m \in DOMAIN lg : m >= b}}

OnDisk(tb, lg, v) == Tab(tb, v.files) \cup LoggedSynced(lg, v.log)

KeptInv ==
  /\ Running =>
       /\ mem \subseteq Readable(log[logfile].recs)
       /\ ImmEntries \subseteq Logged(log, versions.log)
       /\ \A t \in Writer :
            /\ writer[t].pc \in {"sync", "insert"} =>
                 group.entries \subseteq Readable(log[logfile].recs)
            /\ writer[t].pc = "insert" /\ writer[t].sync =>
                 group.entries \subseteq SyncedOf(log[logfile])

SeenInv ==
  Running => \A st \in Possible :
    Covers(FoundIn(table, log, st), Shown(table, versions.files))

AckedInv ==
  /\ current = 0 => acked = {}
  /\ Running => Covers(Shown(table, versions.files), acked)
  /\ current # 0 => Covers(FoundIn(table, log, Described), acked)

\* What is shown and would outlive a loss of power.
Safe ==
  Tab(table, versions.files)
    \cup (mem \cap SyncedOf(log[logfile]))
    \cup (ImmEntries \cap LoggedSynced(log, versions.log))

DurableInv ==
  /\ durable \subseteq acked
  /\ \A st \in Possible : Covers(OnDisk(table, log, st), durable)
  /\ Running => Covers(Safe, durable)

PromiseInv == SeenInv /\ AckedInv /\ DurableInv


(***************************************************************************)
(* Sets of entries                                                         *)
(***************************************************************************)
LEMMA NewestExists ==
  ASSUME NEW T \in SUBSET Nat, T # {}, NEW n \in Nat, \A t \in T : t <= n
  PROVE  \E m \in T : \A t \in T : t <= m
<1>. DEFINE R == {ss \in Nat \X Nat : ss[1] < ss[2]}
            D == {n - t : t \in T}
<1>1. IsWellFoundedOn(R, Nat)  BY NatLessThanWellFounded, Zenon DEF OpToRel
<1>. HIDE DEF R
<1>2. D \in SUBSET Nat /\ D # {}
  <2>1. \A t \in T : n - t \in Nat  OBVIOUS
  <2>. QED  BY <2>1
<1>. HIDE DEF D
<1>3. PICK d \in D : \A y \in D : ~(<<y, d>> \in R)  BY <1>1, <1>2, WFMin, Zenon
<1>4. \A y \in D : d <= y
  <2>1. ASSUME NEW y \in D, y < d  PROVE <<y, d>> \in R  BY <1>2, <2>1 DEF R
  <2>2. \A y \in D : ~(y < d)  BY <1>3, <2>1
  <2>. QED  BY <1>2, <2>2
<1>5. PICK m \in T : d = n - m  BY DEF D
<1>6. \A t \in T : n - t \in D  BY DEF D
<1>. QED  BY <1>4, <1>5, <1>6

LEMMA ViewFinds ==
  ASSUME NEW E \in SUBSET Entry, NEW n \in Nat, NEW e \in E, e.s <= n
  PROVE  \E x \in View(E, n) : x.k = e.k /\ e.s <= x.s
<1>. DEFINE T == {x.s : x \in {y \in E : y.k = e.k /\ y.s <= n}}
<1>1. \A x \in E : x.s \in Nat  BY DEF Entry
<1>2. T \in SUBSET Nat /\ e.s \in T /\ \A t \in T : t <= n  BY <1>1
<1>. HIDE DEF T
<1>3. PICK m \in T : \A t \in T : t <= m  BY <1>2, NewestExists
<1>. USE DEF T
<1>4. PICK x \in E : x.k = e.k /\ x.s <= n /\ x.s = m  OBVIOUS
<1>5. \A y \in E : y.k = x.k /\ y.s <= n => y.s <= x.s  BY <1>3, <1>4
<1>. QED  BY <1>2, <1>3, <1>4, <1>5 DEF View

LEMMA ViewIn ==
  ASSUME NEW E, NEW n
  PROVE  View(E, n) \subseteq E
BY DEF View

LEMMA MergedIn ==
  ASSUME NEW E, NEW n
  PROVE  Merged(E, n) \subseteq E
BY DEF Merged, View

\* A merge forgets no newest entry ...
LEMMA MergedCovers ==
  ASSUME NEW E \in SUBSET Entry, NEW n \in Nat
  PROVE  Covers(Merged(E, n), E)
<1>1. SUFFICES ASSUME NEW e \in E  PROVE \E f \in Merged(E, n) : f.k = e.k /\ f.s >= e.s
  BY DEF Covers
<1>2. e.s \in Nat  BY DEF Entry
<1>3. CASE e.s > n  BY <1>2, <1>3 DEF Merged
<1>4. CASE e.s <= n
  <2>1. PICK x \in View(E, n) : x.k = e.k /\ e.s <= x.s  BY <1>4, ViewFinds
  <2>2. x \in E /\ x.s \in Nat  BY <2>1, ViewIn DEF Entry
  <2>. QED  BY <1>2, <2>1, <2>2 DEF Merged
<1>. QED  BY <1>2, <1>3, <1>4

\* ... and no entry a snapshot sees.
LEMMA MergedKeepsViews ==
  ASSUME NEW E \in SUBSET Entry, NEW F \in SUBSET Entry, F \subseteq E,
         NEW n \in Nat, NEW m \in Nat, m <= n,
         NEW e \in View(E, n), e \in F
  PROVE  e \in Merged(F, m)
<1>1. e.s \in Nat /\ e.s <= n /\ \A x \in E : x.k = e.k /\ x.s <= n => x.s <= e.s
  BY DEF View, Entry
<1>2. CASE e.s > m  BY <1>2 DEF Merged
<1>3. CASE e.s <= m
  <2>1. ASSUME NEW x \in F, x.k = e.k, x.s <= m  PROVE x.s <= e.s
    <3>1. x.s \in Nat  BY DEF Entry
    <3>. QED  BY <1>1, <2>1, <3>1
  <2>2. e \in View(F, m)  BY <1>3, <2>1 DEF View
  <2>. QED  BY <2>2 DEF Merged
<1>. QED  BY <1>1, <1>2, <1>3

LEMMA CoversMore ==
  ASSUME NEW E \in SUBSET Entry, NEW F, E \subseteq F
  PROVE  Covers(F, E)
<1>1. \A e \in E : e.s \in Nat  BY DEF Entry
<1>. QED  BY <1>1 DEF Covers

LEMMA CoversTrans ==
  ASSUME NEW E \in SUBSET Entry, NEW F \in SUBSET Entry, NEW G \in SUBSET Entry,
         Covers(F, E), Covers(G, F)
  PROVE  Covers(G, E)
<1>1. SUFFICES ASSUME NEW e \in E  PROVE \E g \in G : g.k = e.k /\ g.s >= e.s
  BY DEF Covers
<1>2. PICK f \in F : f.k = e.k /\ f.s >= e.s  BY DEF Covers
<1>3. PICK g \in G : g.k = f.k /\ g.s >= f.s  BY DEF Covers
<1>4. e.s \in Nat /\ f.s \in Nat /\ g.s \in Nat  BY DEF Entry
<1>. QED  BY <1>2, <1>3, <1>4

LEMMA CoversUnion ==
  ASSUME NEW E, NEW F, NEW G, Covers(G, E), Covers(G, F)
  PROVE  Covers(G, E \cup F)
BY DEF Covers

LEMMA CoversLarger ==
  ASSUME NEW E, NEW F, NEW G, Covers(F, E), F \subseteq G
  PROVE  Covers(G, E)
BY DEF Covers

\* What two stores agree on.
LEMMA SameViews ==
  ASSUME NEW E \in SUBSET Entry, NEW F, F \subseteq E, NEW n \in Nat,
         View(E, n) \subseteq F
  PROVE  View(F, n) = View(E, n)
<1>1. \A x \in E : x.s \in Nat  BY DEF Entry
<1>2. View(E, n) \subseteq View(F, n)  BY DEF View
<1>3. ASSUME NEW e \in View(F, n)  PROVE e \in View(E, n)
  <2>1. e \in E /\ e.s <= n  BY DEF View
  <2>2. PICK x \in View(E, n) : x.k = e.k /\ e.s <= x.s  BY <2>1, ViewFinds
  <2>3. x \in F /\ x.s <= n  BY <2>2 DEF View
  <2>4. x.s <= e.s  BY <2>2, <2>3 DEF View
  <2>5. e.s = x.s  BY <1>1, <2>1, <2>2, <2>3, <2>4
  <2>. QED  BY <2>1, <2>2, <2>5 DEF View
<1>. QED  BY <1>2, <1>3

\* Entries with later numbers do not change an earlier view.
LEMMA LaterEntries ==
  ASSUME NEW E \in SUBSET Entry, NEW F \in SUBSET Entry, NEW n \in Nat,
         \A e \in F : n < e.s
  PROVE  View(E \cup F, n) = View(E, n)
<1>1. \A e \in F : ~(e.s <= n)  BY DEF Entry
<1>. QED  BY <1>1 DEF View

LEMMA UpToViews ==
  ASSUME NEW E \in SUBSET Entry, NEW m \in Nat, NEW n \in Nat, m <= n, UpTo(E, m)
  PROVE  View(E, n) = View(E, m)
<1>1. \A e \in E : e.s <= m /\ e.s <= n  BY DEF UpTo, Entry
<1>. QED  BY <1>1 DEF View

LEMMA UpToMore ==
  ASSUME NEW E \in SUBSET Entry, NEW m \in Nat, NEW n \in Nat, m <= n, UpTo(E, m)
  PROVE  UpTo(E, n)
BY DEF UpTo, Entry

LEMMA OneWriteFewer ==
  ASSUME NEW E, NEW F, F \subseteq E, OneWrite(E)
  PROVE  OneWrite(F)
BY DEF OneWrite

LEMMA InMore ==
  ASSUME NEW tb, NEW A, NEW B, A \subseteq B
  PROVE  In(tb, A) \subseteq In(tb, B)
BY DEF In

LEMMA InSame ==
  ASSUME NEW f, NEW g, NEW A,
         \A n \in A : n \in DOMAIN f /\ n \in DOMAIN g /\ g[n] = f[n]
  PROVE  In(g, A) = In(f, A)
BY DEF In

LEMMA TabMore ==
  ASSUME NEW tb, NEW F, NEW G, F \subseteq G
  PROVE  Tab(tb, F) \subseteq Tab(tb, G)
BY NumbersSubset, InMore DEF Tab

LEMMA TabUnion ==
  ASSUME NEW tb, NEW F, NEW G
  PROVE  Tab(tb, F \cup G) = Tab(tb, F) \cup Tab(tb, G)
<1>1. PICK a : a = Numbers(F)  OBVIOUS
<1>2. PICK b : b = Numbers(G)  OBVIOUS
<1>3. Numbers(F \cup G) = a \cup b  BY <1>1, <1>2, NumbersUnion
<1>4. In(tb, a \cup b) = In(tb, a) \cup In(tb, b)  BY DEF In
<1>. QED  BY ONLY <1>1, <1>2, <1>3, <1>4 DEF Tab

LEMMA InTyped ==
  ASSUME DiskOK, NEW A
  PROVE  In(table, A) \subseteq Entry
BY DEF DiskOK, In, IsDirectory, TableFile

LEMMA LoggedTyped ==
  ASSUME DiskOK, NEW b
  PROVE  Logged(log, b) \subseteq Entry
<1>1. \A n \in DOMAIN log : log[n].recs \in Seq(Record)
  BY DEF DiskOK, IsDirectory, LogFile
<1>. QED  BY <1>1, ReadableTyped DEF Logged

LEMMA LoggedMore ==
  ASSUME NEW f, NEW g, NEW a \in Int, NEW b \in Int, a <= b, DOMAIN f \subseteq Nat,
         \A n \in DOMAIN g : n >= b => n \in DOMAIN f
                                       /\ Readable(g[n].recs) \subseteq Readable(f[n].recs)
  PROVE  Logged(g, b) \subseteq Logged(f, a)
<1>1. \A n \in DOMAIN f : n >= b => n >= a  OBVIOUS
<1>. QED  BY <1>1 DEF Logged

LEMMA LogIn ==
  ASSUME NEW f, NEW n \in DOMAIN f, NEW b, n >= b
  PROVE  Readable(f[n].recs) \subseteq Logged(f, b)
BY DEF Logged

\* What the properties say of.
LEMMA FoundIs ==
  /\ \A v : Found(v) = FoundIn(table, log, v)
  /\ Visible = Shown(table, versions.files)
  /\ \A nums : EntriesOf(nums) = In(table, nums)
BY DEF Found, FoundIn, Tab, Logged, LogsFrom, EntriesOf, In, Visible, Shown

(***************************************************************************)
(* The logs and the jobs                                                   *)
(***************************************************************************)
TablesStay ==
  \A n \in DOMAIN table : table[n].synced => n \in DOMAIN table' /\ table'[n] = table[n]

LEMMA StoredIn ==
  ASSUME TablesStay, NEW nums, Stored(nums)
  PROVE  In(table', nums) = In(table, nums)
<1>1. \A n \in nums : n \in DOMAIN table /\ n \in DOMAIN table' /\ table'[n] = table[n]
  BY DEF TablesStay, Stored
<1>. QED  BY <1>1, InSame

\* As long as a process runs, tables on the disk only go when a version is installed.
LEMMA RunningTables ==
  ASSUME TypedInv, FilesInv, Running, Next, ~InstallVersion, ~PowerLoss
  PROVE  TablesStay
<1>0. Typed /\ JobShape /\ UpInv /\ JobInv /\ versions.next \in Nat /\ DescriptorInv
  BY DEF TypedInv, FilesInv, Typed, OpenOK
<1>1. Below(DOMAIN table, versions.next)  BY <1>0, UpFacts
<1>2. versions.next \notin DOMAIN table  BY <1>0, <1>1 DEF Below
<1>3. ASSUME NEW n, n \notin DOMAIN table, NEW y, table' = With(table, n, y)
      PROVE  TablesStay
  BY <1>3 DEF With, TablesStay
<1>4. CASE BuildTable \/ BuildTableFails
  <2>1. PICK ok \in BOOLEAN : Build(ok)  BY <1>4 DEF BuildTable, BuildTableFails
  <2>2. table' = table \/ \E y : table' = With(table, bg.num, y)  BY <1>0, <2>1, BuildWrites
  <2>3. bg.num \notin DOMAIN table  BY <1>0, <2>1 DEF Build, JobInv, BuildInv
  <2>4. table' = table => TablesStay  BY DEF TablesStay
  <2>. QED  BY <1>3, <2>2, <2>3, <2>4
<1>5. CASE OpenOutput
  BY <1>2, <1>3, <1>5 DEF OpenOutput
<1>6. CASE FinishOutput
  <2>1. bg.out \in DOMAIN table /\ ~table[bg.out].synced
    BY <1>0, <1>6 DEF FinishOutput, JobInv, WriteInv, Writing
  <2>2. DOMAIN table' = DOMAIN table /\ \A n \in DOMAIN table : n # bg.out => table'[n] = table[n]
    BY <1>0, <1>6, OutputWrites
  <2>. QED  BY <2>1, <2>2 DEF TablesStay
<1>7. CASE ~(BuildTable \/ BuildTableFails \/ OpenOutput \/ FinishOutput)
  <2>1. table' = table
    BY <1>7 DEF Next, Running, Submit, Write, WriteFaults, Refuse, Room, Wait, Switch,
       AddRecord, AddRecordFails, SyncLog, SyncLogFails, Insert, GiveUp, CheckFlushed,
       SwitchFails, StartGet, EndGet, GetSnapshot, ReleaseSnapshot, BackgroundCall,
       BackgroundFaults, BackgroundNothing, Flush, FlushWhileMerging, StartTable, Compact,
       MergeStops, MergeFails, MergeEnds, AppendToManifest, ManifestFails, NewDB, Recover,
       Open, ReplayLog, ReplayRecord, EndLog, Replaying, NewManifest, SetCurrent, Opened,
       OpenFails, StartClose, EndClose, Kill, disk
  <2>. QED  BY <2>1 DEF TablesStay
<1>. QED  BY <1>4, <1>5, <1>6, <1>7

\* What a step may do to the logs.
NewLog == log' = With(log, versions.next, [recs |-> <<>>, synced |-> 0])

Logging(t) ==
  /\ db = "open" /\ writer[t].pc = "log"
  /\ AppendToLog(GroupRecord) \/ (AppendToLog(Torn) /\ budget.faults["torn"] > 0)

SyncsLog ==
  db = "open" /\ log' = [log EXCEPT ![logfile].synced = Len(log[logfile].recs)]

LEMMA LogMoves ==
  ASSUME Next
  PROVE  \/ log' = log
         \/ (\E t \in Writer : Switch(t)) /\ NewLog
         \/ NewManifest /\ NewLog
         \/ \E t \in Writer : Logging(t) /\ (AddRecord(t) \/ AddRecordFails(t))
         \/ \E t \in Writer : SyncsLog /\ SyncLog(t)
         \/ (InstallVersion \/ Opened) /\ \E S : log' = Restricted(log, S)
         \/ PowerLoss
<1>1. CASE \E t \in Writer : Submit(t) \/ Write(t) \/ WriteFaults(t)
  <2>0. PICK t \in Writer : Submit(t) \/ Write(t) \/ WriteFaults(t)  BY <1>1
  <2>1. CASE \/ Submit(t) \/ Refuse(t) \/ Room(t) \/ Wait(t) \/ Insert(t) \/ GiveUp(t)
             \/ CheckFlushed(t) \/ SwitchFails(t) \/ SyncLogFails(t)
    BY <2>1 DEF Submit, Refuse, Room, Wait, Insert, GiveUp, CheckFlushed, SwitchFails,
                SyncLogFails, disk
  <2>2. CASE Switch(t)  BY <2>2 DEF Switch, NewLog
  <2>3. CASE AddRecord(t)  BY <2>3 DEF AddRecord, Logging, Leading
  <2>4. CASE AddRecordFails(t)
    BY <2>4 DEF AddRecordFails, Logging, Leading, Fault
  <2>5. CASE SyncLog(t)  BY <2>5 DEF SyncLog, SyncsLog, Leading
  <2>. QED  BY <2>0, <2>1, <2>2, <2>3, <2>4, <2>5 DEF Write, WriteFaults
<1>2. CASE Reading \/ BackgroundFaults \/ StartClose \/ EndClose \/ Kill
  BY <1>2 DEF Reading, StartGet, EndGet, GetSnapshot, ReleaseSnapshot,
              BackgroundFaults, BuildTableFails, Build, MergeFails, MergeEnds,
              ManifestFails, StartClose, EndClose, Kill, disk
<1>3. CASE BackgroundCall
  <2>1. CASE ~InstallVersion
    BY <1>3, <2>1 DEF BackgroundCall, BackgroundNothing, Flush, FlushWhileMerging,
         StartTable, BuildTable, Build, Compact, OpenOutput, FinishOutput, MergeStops,
         MergeEnds, AppendToManifest, disk
  <2>2. CASE InstallVersion
    <3>1. \E S : log' = Restricted(log, S) \/ log' = log
      BY <2>2, Zenon DEF InstallVersion, DeleteObsoleteFiles
    <3>. QED  BY <2>2, <3>1
  <2>. QED  BY <2>1, <2>2
<1>4. CASE NewDB \/ Recover \/ OpenFails
  BY <1>4 DEF NewDB, Recover, OpenFails, disk
<1>5. CASE Open
  <2>1. CASE NewManifest  BY <2>1 DEF NewManifest, NewLog
  <2>2. CASE Opened
    <3>1. \E S : log' = Restricted(log, S) \/ log' = log
      BY <2>2, Zenon DEF Opened, DeleteObsoleteFiles
    <3>. QED  BY <2>2, <3>1
  <2>3. CASE ~NewManifest /\ ~Opened
    BY <1>5, <2>3 DEF Open, ReplayLog, ReplayRecord, EndLog, SetCurrent
  <2>. QED  BY <2>1, <2>2, <2>3
<1>6. CASE PowerLoss  BY <1>6
<1>. QED  BY <1>1, <1>2, <1>3, <1>4, <1>5, <1>6 DEF Next, Reading

\* One more record.
LEMMA AddedRecord ==
  ASSUME DiskOK, logfile \in DOMAIN log, NEW r \in Record, AppendToLog(r)
  PROVE  /\ DOMAIN log' = DOMAIN log
         /\ \A n \in DOMAIN log : n # logfile => log'[n] = log[n]
         /\ log'[logfile].synced = log[logfile].synced
         /\ Len(log'[logfile].recs) = Len(log[logfile].recs) + 1
         /\ log'[logfile].recs[Len(log[logfile].recs) + 1] = r
         /\ \A i \in 1..Len(log[logfile].recs) : log'[logfile].recs[i] = log[logfile].recs[i]
         /\ log[logfile].recs \in Seq(Record) /\ Len(log[logfile].recs) \in Nat
         /\ log'[logfile].recs \in Seq(Record) /\ log[logfile].synced \in Nat
<1>1. /\ DOMAIN log' = DOMAIN log
      /\ \A n \in DOMAIN log : n # logfile => log'[n] = log[n]
      /\ log'[logfile] = [recs |-> Append(log[logfile].recs, r),
                          synced |-> log[logfile].synced]
  BY LogAppends
<1>2. log[logfile].recs \in Seq(Record) /\ log[logfile].synced \in Nat
  BY DEF DiskOK, IsDirectory, LogFile
<1>3. PICK q \in Seq(Record) : q = log[logfile].recs  BY <1>2
<1>4. /\ Append(q, r) \in Seq(Record) /\ Len(Append(q, r)) = Len(q) + 1
      /\ Append(q, r)[Len(q) + 1] = r
      /\ \A i \in 1..Len(q) : Append(q, r)[i] = q[i]
  BY AppendProperties
<1>5. Len(q) \in Nat  BY LenProperties
<1>6. log'[logfile].recs = Append(q, r) /\ log'[logfile].synced = log[logfile].synced
  BY <1>1, <1>3
<1>. QED  BY <1>1, <1>2, <1>3, <1>4, <1>5, <1>6

\* What a log keeps when a part of it is lost.
LEMMA CutLogIs ==
  ASSUME NEW f \in LogFile, NEW l \in f.synced..Len(f.recs)
  PROVE  /\ CutLog(f, l).synced = l /\ Len(CutLog(f, l).recs) = l
         /\ l \in Nat /\ f.synced <= l /\ l <= Len(f.recs)
         /\ CutLog(f, l).recs \in Seq(Record)
         /\ \A i \in 1..l : CutLog(f, l).recs[i] = f.recs[i]
<1>1. f.recs \in Seq(Record) /\ f.synced \in Nat  BY DEF LogFile
<1>. QED  BY <1>1, CutIs DEF CutLog

LEMMA NextKeepsLogs ==
  ASSUME TypedInv, FilesInv, TypedInv', FilesInv', LogInv,
         UpTo(group.entries, group.last), Next
  PROVE  LogInv'
<1>0. DiskOK /\ DiskOK' /\ QueueInv /\ UpInv /\ Typed
  BY DEF TypedInv, Typed, FilesInv
<1>1. \A n \in DOMAIN log :
        /\ log[n].recs \in Seq(Record) /\ DOMAIN log[n].recs = 1..Len(log[n].recs)
        /\ Len(log[n].recs) \in Nat
  <2>1. \A n \in DOMAIN log : log[n].recs \in Seq(Record)
    BY <1>0 DEF DiskOK, IsDirectory, LogFile
  <2>. QED  BY <2>1, LenProperties
<1>2. ASSUME NEW n \in DOMAIN log'
      PROVE  /\ log'[n].synced <= Len(log'[n].recs)
             /\ \A i \in DOMAIN log'[n].recs : Dated(log'[n].recs[i])
  <2>0. n \in DOMAIN log =>
          /\ log[n].synced <= Len(log[n].recs)
          /\ \A i \in DOMAIN log[n].recs : Dated(log[n].recs[i])
    BY DEF LogInv
  <2>1. CASE log' = log  BY <1>2, <2>0, <2>1
  <2>2. CASE NewLog
    <3>1. log' = With(log, versions.next, [recs |-> <<>>, synced |-> 0])
      BY <2>2 DEF NewLog
    <3>2. CASE n = versions.next
      <4>1. log'[n] = [recs |-> <<>>, synced |-> 0]  BY <1>2, <3>1, <3>2 DEF With
      <4>2. log'[n].synced = 0 /\ log'[n].recs = <<>>  BY <4>1
      <4>3. Len(<<>>) = 0 /\ DOMAIN <<>> = {}  OBVIOUS
      <4>. QED  BY <4>2, <4>3
    <3>3. CASE n # versions.next
      <4>1. n \in DOMAIN log /\ log'[n] = log[n]  BY <1>2, <3>1, <3>3 DEF With
      <4>. QED  BY <2>0, <4>1
    <3>. QED  BY <3>2, <3>3
  <2>3. CASE \E t \in Writer : Logging(t)
    <3>1. PICK r \in {GroupRecord, Torn} : AppendToLog(r)  BY <2>3 DEF Logging
    <3>2. logfile \in DOMAIN log  BY <1>0, <2>3 DEF Logging, UpInv, Up
    <3>3. r \in Record  BY <1>0, <3>1, GroupRecordTyped
    <3>4. Dated(r)
      <4>1. Dated(GroupRecord)  BY DEF Dated, GroupRecord, UpTo
      <4>2. Dated(Torn)  BY DEF Dated, Torn
      <4>. QED  BY <3>1, <4>1, <4>2
    <3>5. /\ DOMAIN log' = DOMAIN log
          /\ \A m \in DOMAIN log : m # logfile => log'[m] = log[m]
          /\ log'[logfile].synced = log[logfile].synced
          /\ Len(log'[logfile].recs) = Len(log[logfile].recs) + 1
          /\ log'[logfile].recs[Len(log[logfile].recs) + 1] = r
          /\ \A i \in 1..Len(log[logfile].recs) :
               log'[logfile].recs[i] = log[logfile].recs[i]
          /\ log'[logfile].recs \in Seq(Record) /\ log[logfile].synced \in Nat
      BY <1>0, <3>1, <3>2, <3>3, AddedRecord
    <3>6. CASE n = logfile
      <4>1. DOMAIN log'[n].recs = 1..(Len(log[n].recs) + 1)
        BY <3>5, <3>6, LenProperties
      <4>2. \A i \in DOMAIN log'[n].recs : i \in 1..Len(log[n].recs) \/ i = Len(log[n].recs) + 1
        BY <1>1, <3>2, <3>6, <4>1
      <4>3. \A i \in DOMAIN log'[n].recs : Dated(log'[n].recs[i])
        BY <1>1, <2>0, <3>2, <3>4, <3>5, <3>6, <4>2
      <4>. QED  BY <1>1, <2>0, <3>2, <3>5, <3>6, <4>3
    <3>. QED  BY <1>2, <2>0, <3>5, <3>6
  <2>4. CASE SyncsLog
    <3>1. logfile \in DOMAIN log  BY <1>0, <2>4 DEF SyncsLog, UpInv, Up
    <3>2. /\ DOMAIN log' = DOMAIN log
          /\ \A m \in DOMAIN log : m # logfile => log'[m] = log[m]
          /\ log'[logfile] = [recs |-> log[logfile].recs, synced |-> Len(log[logfile].recs)]
      BY <1>0, <2>4, <3>1, LogSynced DEF SyncsLog
    <3>3. log'[logfile].recs = log[logfile].recs /\ log'[logfile].synced = Len(log[logfile].recs)
      BY <3>2
    <3>. QED  BY <1>1, <1>2, <2>0, <3>1, <3>2, <3>3
  <2>5. CASE \E S : log' = Restricted(log, S)
    <3>1. n \in DOMAIN log /\ log'[n] = log[n]  BY <1>2, <2>5 DEF Restricted
    <3>. QED  BY <2>0, <3>1
  <2>6. CASE PowerLoss
    <3>1. n \in DOMAIN log  BY <1>0, <1>2, <2>6, PowerLossCuts
    <3>2. PICK l \in log[n].synced..Len(log[n].recs) : log'[n] = CutLog(log[n], l)
      BY <1>0, <2>6, <3>1, PowerLossCuts
    <3>3. log[n] \in LogFile  BY <1>0, <3>1 DEF DiskOK, IsDirectory
    <3>4. /\ log'[n].synced = l /\ Len(log'[n].recs) = l /\ l \in Nat
          /\ l <= Len(log[n].recs) /\ log'[n].recs \in Seq(Record)
          /\ \A i \in 1..l : log'[n].recs[i] = log[n].recs[i]
      BY <3>2, <3>3, CutLogIs
    <3>5. DOMAIN log'[n].recs = 1..l  BY <3>4, LenProperties
    <3>6. 1..l \subseteq DOMAIN log[n].recs  BY <1>1, <3>1, <3>4
    <3>. QED  BY <2>0, <3>1, <3>4, <3>5, <3>6
  <2>. QED  BY <2>1, <2>2, <2>3, <2>4, <2>5, <2>6, LogMoves
<1>3. ASSUME current' = 0 \/ manifest'[current'].synced = 0, NEW n \in DOMAIN log'
      PROVE  log'[n].recs = <<>>
  <2>1. ~Up'
    <3>1. DescriptorInv' /\ UpInv'  BY DEF FilesInv
    <3>. QED  BY <1>3, <3>1 DEF UpInv
  <2>2. current = 0 \/ manifest[current].synced = 0 =>
          \A m \in DOMAIN log : log[m].recs = <<>>
    BY DEF LogInv
  <2>3. CASE PowerLoss
    <3>1. current' = current  BY <2>3 DEF PowerLoss
    <3>2. current = 0 \/ manifest[current].synced = 0
      <4>1. SUFFICES ASSUME current # 0  PROVE manifest[current].synced = 0  OBVIOUS
      <4>2. current \in DOMAIN manifest  BY <4>1 DEF FilesInv, DescriptorInv
      <4>3. PICK l \in manifest[current].synced..Len(manifest[current].states) :
              manifest'[current] = CutManifest(manifest[current], l)
        BY <1>0, <2>3, <4>2, PowerLossCuts
      <4>4. manifest[current] \in Descriptor  BY <1>0, <4>2 DEF DiskOK, IsDirectory
      <4>5. manifest[current].synced \in Nat /\ Len(manifest[current].states) \in Nat
        BY <4>4, LenProperties DEF Descriptor
      <4>6. manifest'[current].synced = l  BY <4>3 DEF CutManifest
      <4>. QED  BY <1>3, <3>1, <4>1, <4>5, <4>6
    <3>3. n \in DOMAIN log  BY <1>0, <1>3, <2>3, PowerLossCuts
    <3>4. log[n].recs = <<>> /\ log[n] \in LogFile
      BY <1>0, <2>2, <3>2, <3>3 DEF DiskOK, IsDirectory
    <3>5. PICK l \in log[n].synced..Len(log[n].recs) : log'[n] = CutLog(log[n], l)
      BY <1>0, <2>3, <3>3, PowerLossCuts
    <3>6. Len(log'[n].recs) = l /\ l \in Nat /\ l <= Len(log[n].recs)
          /\ log'[n].recs \in Seq(Record)
      BY <3>4, <3>5, CutLogIs
    <3>7. Len(log[n].recs) = 0  BY <3>4
    <3>8. Len(log'[n].recs) = 0  BY <3>6, <3>7
    <3>. QED  BY <3>6, <3>8, EmptySeq
  <2>4. CASE ~PowerLoss
    <3>1. current = 0 \/ manifest[current].synced = 0
      <4>1. CASE NewDB  BY <4>1 DEF NewDB
      <4>2. CASE EndClose \/ Kill  BY <1>3, <4>2 DEF EndClose, Kill, disk
      <4>3. CASE Recover \/ \E number \in recovery.logs : ReplayLog(number)
        BY <1>3, <4>3 DEF Recover, ReplayLog, ReplayRecord, EndLog, disk
      <4>4. CASE NewManifest
        <5>1. current # 0 /\ current < versions.manifest
          BY <4>4 DEF NewManifest, FilesInv, OpeningInv
        <5>2. current \in DOMAIN manifest /\ current # versions.manifest
          BY <1>0, <5>1 DEF FilesInv, DescriptorInv, DiskOK
        <5>3. manifest'[current] = manifest[current] /\ current' = current
          BY <1>0, <4>4, <5>2, NewManifestFacts
        <5>. QED  BY <1>3, <5>3
      <4>5. CASE OpenFails
        <5>1. db \in {"replay", "switch"} /\ current' = current  BY <4>5 DEF OpenFails
        <5>2. current # 0 /\ current < versions.manifest
          BY <5>1 DEF FilesInv, OpeningInv
        <5>3. current \in DOMAIN manifest /\ current # versions.manifest
          BY <1>0, <5>2 DEF FilesInv, DescriptorInv, DiskOK
        <5>4. manifest'[current] = manifest[current]
          BY <4>5, <5>3 DEF OpenFails, Restricted
        <5>. QED  BY <1>3, <5>1, <5>4
      <4>6. CASE Running /\ ~EndClose /\ ~Kill
        <5>1. Running' \/ db' = db
          BY <2>4, <4>6 DEF Next, Running, Submit, Write, WriteFaults, Refuse, Room, Wait,
             Switch, AddRecord, AddRecordFails, SyncLog, SyncLogFails, Insert, GiveUp,
             CheckFlushed, SwitchFails, StartGet, EndGet, GetSnapshot, ReleaseSnapshot,
             BackgroundCall, BackgroundFaults, BackgroundNothing, Flush, FlushWhileMerging,
             StartTable, BuildTable, BuildTableFails, Build, Compact, OpenOutput,
             FinishOutput, MergeStops, MergeFails, MergeEnds, AppendToManifest,
             ManifestFails, InstallVersion, NewDB, Recover, Open, ReplayLog, ReplayRecord,
             EndLog, Replaying, NewManifest, SetCurrent, Opened, OpenFails, StartClose
        <5>. QED  BY <2>1, <4>6, <5>1 DEF Up, Running
      <4>7. CASE SetCurrent \/ Opened  BY <2>1, <4>7 DEF SetCurrent, Opened, Up
      <4>8. CASE ~Running /\ ~(\/ NewDB \/ Recover \/ Kill \/ EndClose \/ OpenFails
                               \/ (\E number \in recovery.logs : ReplayLog(number))
                               \/ NewManifest \/ SetCurrent \/ Opened)
        <5>1. \/ \E t \in Writer : Submit(t) \/ Write(t) \/ WriteFaults(t)
              \/ Reading \/ BackgroundCall \/ BackgroundFaults \/ StartClose
          BY <2>4, <4>8 DEF Next, Open, Reading
        <5>2. UNCHANGED <<manifest, current>>
          <6>1. CASE \E t \in Writer : Submit(t) \/ Write(t) \/ WriteFaults(t)
            BY <4>8, <6>1, WriterIsOpen DEF Running
          <6>2. CASE Reading \/ StartClose
            BY <6>2 DEF Reading, StartGet, EndGet, GetSnapshot, ReleaseSnapshot,
                        StartClose, disk
          <6>3. CASE BackgroundCall \/ BackgroundFaults
            BY <4>8, <6>3 DEF BackgroundCall, BackgroundFaults, BackgroundNothing, Flush,
               FlushWhileMerging, Idle, BuildTable, BuildTableFails, Build, Compact,
               OpenOutput, FinishOutput, MergeStops, MergeFails, MergeEnds,
               AppendToManifest, ManifestFails, InstallVersion
          <6>. QED  BY <5>1, <6>1, <6>2, <6>3
        <5>. QED  BY <1>3, <5>2
      <4>. QED  BY <4>1, <4>2, <4>3, <4>4, <4>5, <4>6, <4>7, <4>8
    <3>2. \A m \in DOMAIN log : log[m].recs = <<>>  BY <2>2, <3>1
    <3>3. ~Running
      BY <3>1 DEF FilesInv, UpInv, Up, Running
    <3>4. \/ log' = log \/ NewLog \/ \E S : log' = Restricted(log, S)
      <4>1. \A t \in Writer : ~Logging(t)  BY <3>3 DEF Logging, Running
      <4>2. ~SyncsLog  BY <3>3 DEF SyncsLog, Running
      <4>. QED  BY <2>4, <4>1, <4>2, LogMoves
    <3>5. (n \in DOMAIN log /\ log'[n] = log[n]) \/ log'[n] = [recs |-> <<>>, synced |-> 0]
      BY <1>3, <3>4 DEF NewLog, With, Restricted
    <3>. QED  BY <3>2, <3>5
  <2>. QED  BY <2>3, <2>4
<1>. QED  BY <1>2, <1>3 DEF LogInv

LEMMA AppendsEdit ==
  ASSUME TypedInv, FilesInv, Running, Editing, AppendEdit,
         UNCHANGED <<table, current, durable>>
  PROVE  /\ Described'.files = (Described.files \ bg.edit.del) \cup bg.edit.add
         /\ Described'.log = bg.edit.log /\ Described'.last = bg.edit.last
         /\ Possible' = Possible \cup {Described'}
<1>1. /\ Described' = ApplyEdit(Described, bg.edit)
      /\ Possible' = Possible \cup {ApplyEdit(Described, bg.edit)}
      /\ bg.edit \in Edit /\ Described \in Version
  BY EditKeepsDescriptor
<1>2. PICK d \in Version : d = Described  BY <1>1
<1>3. PICK e \in Edit : e = bg.edit  BY <1>1
<1>4. ApplyEdit(d, e).files = (d.files \ e.del) \cup e.add
      /\ ApplyEdit(d, e).log = e.log /\ ApplyEdit(d, e).last = e.last
  BY DEF ApplyEdit
<1>. QED  BY ONLY <1>1, <1>2, <1>3, <1>4

LEMMA IdleCurrent ==
  ASSUME TypedInv, FilesInv, Idle, ~bgError
  PROVE  Described.files = versions.files /\ Described.log = versions.log
<1>1. Up /\ bg.pc = "idle"  BY UpFacts DEF Idle, TypedInv, FilesInv
<1>. QED  BY <1>1 DEF FilesInv, UpInv, Current

\* The table of the immutable memtable.
LEMMA BuiltTable ==
  ASSUME TypedInv, FilesInv, NEW ok \in BOOLEAN, Build(ok), bg'.pc = "append"
  PROVE  /\ bg'.edit.del = {} /\ bg'.edit.log = logfile /\ bg'.edit.last = versions.last
         /\ Tab(table', bg'.edit.add) = ImmEntries
         /\ bg'.inputs = bg.inputs /\ bg'.smallest = bg.smallest /\ bg'.back = bg.back
<1>. DEFINE E == imm[1]
            add == IF E = {} THEN {} ELSE {<<LevelFor(E), bg.num>>}
            e == LogAndApply(add, {}, logfile)
<1>0. Typed /\ JobShape /\ OpenOK /\ bg \in BgState /\ bg.back \in {"idle", "merge", "write"}
  BY DEF TypedInv, Typed, BackgroundOK, BgState
<1>1. /\ ImmEntries = E
      /\ table' = IF ok /\ E # {}
                  THEN With(table, bg.num, [entries |-> E, synced |-> TRUE]) ELSE table
  BY <1>0, BuildWrites
<1>2. ok /\ ~shuttingDown
  <2>1. SUFFICES ASSUME ~(ok /\ ~shuttingDown)  PROVE FALSE  OBVIOUS
  <2>2. JobFails({bg.num})  BY <2>1 DEF Build
  <2>3. bg'.pc = bg.back  BY <1>0, <2>2, FailedJob
  <2>. QED  BY <1>0, <2>3
<1>3. bg' = [bg EXCEPT !.pc = "append", !.edit = e]  BY <1>2 DEF Build
<1>4. /\ bg'.edit = e /\ bg'.inputs = bg.inputs /\ bg'.smallest = bg.smallest
      /\ bg'.back = bg.back
  BY <1>0, <1>3 DEF BgState
<1>5. e.add = add /\ e.del = {} /\ e.log = logfile /\ e.last = versions.last
  BY <1>0, MakeEdit
<1>. HIDE DEF e
<1>6. Tab(table', add) = E
  <2>1. CASE E = {}
    <3>1. add = {}  BY <2>1
    <3>2. Numbers({}) = {}  BY DEF Numbers
    <3>. QED  BY <2>1, <3>1, <3>2 DEF Tab, In
  <2>2. CASE E # {}
    <3>1. PICK l : l = LevelFor(E)  OBVIOUS
    <3>2. add = {<<l, bg.num>>}  BY <2>2, <3>1
    <3>3. Numbers(add) = {bg.num}
      <4>1. PICK k : k = bg.num  OBVIOUS
      <4>2. add = {<<l, k>>}  BY ONLY <3>2, <4>1
      <4>3. Numbers(add) = {f[2] : f \in {<<l, k>>}}  BY ONLY <4>2 DEF Numbers
      <4>. QED  BY ONLY <4>1, <4>3
    <3>4. table' = With(table, bg.num, [entries |-> E, synced |-> TRUE])
      BY <1>1, <1>2, <2>2
    <3>5. PICK x : x = [entries |-> E, synced |-> TRUE]  OBVIOUS
    <3>6. bg.num \in DOMAIN table' /\ table'[bg.num] = x
      BY ONLY <3>4, <3>5, WithIs DEF With
    <3>7. x.entries = E  BY <3>5, SyncedTable
    <3>8. In(table', {bg.num}) = E  BY ONLY <3>6, <3>7 DEF In
    <3>. QED  BY ONLY <3>3, <3>8 DEF Tab
  <2>. QED  BY <2>1, <2>2
<1>. HIDE DEF add, E
<1>7. bg'.edit.add = add  BY <1>4, <1>5
<1>. QED  BY <1>1, <1>4, <1>5, <1>6, <1>7

\* The output of a merge.
LEMMA FinishedOutput ==
  ASSUME TypedInv, FilesInv, FinishOutput
  PROVE  /\ bg'.pc = "append" /\ bg'.edit.del = bg.inputs /\ bg.inputs # {}
         /\ bg'.edit.log = versions.log /\ bg'.edit.last = versions.last
         /\ bg'.inputs = bg.inputs /\ bg'.smallest = bg.smallest /\ bg'.back = "idle"
         /\ Tab(table', bg'.edit.add) = Merged(Tab(table, bg.inputs), bg.smallest)
<1>. DEFINE e == LogAndApply({<<1, bg.out>>}, bg.inputs, versions.log)
<1>0. Typed /\ JobShape /\ OpenOK /\ bg \in BgState /\ JobInv
  BY DEF TypedInv, Typed, BackgroundOK, BgState, FilesInv
<1>1. bg.pc = "write" /\ bg' = [bg EXCEPT !.pc = "append", !.back = "idle", !.edit = e]
  BY DEF FinishOutput
<1>2. /\ bg'.pc = "append" /\ bg'.back = "idle" /\ bg'.edit = e /\ bg'.inputs = bg.inputs
      /\ bg'.smallest = bg.smallest
  BY <1>0, <1>1 DEF BgState
<1>3. /\ e.add = {<<1, bg.out>>} /\ e.del = bg.inputs /\ e.log = versions.log
      /\ e.last = versions.last
  BY <1>0, MakeEdit
<1>. HIDE DEF e
<1>4. bg.out \in DOMAIN table  BY <1>0, <1>1 DEF JobInv, WriteInv, Writing
<1>5. bg.inputs # {}  BY <1>0, <1>1 DEF JobShape
<1>6. PICK E : E = Merged(Tab(table, bg.inputs), bg.smallest)  OBVIOUS
<1>7. EntriesOf(Numbers(bg.inputs)) = Tab(table, bg.inputs)  BY DEF EntriesOf, Tab, In
<1>8. bg.out \in DOMAIN table' /\ table'[bg.out] = [entries |-> E, synced |-> TRUE]
  BY <1>0, <1>4, <1>6, <1>7, OutputWrites
<1>9. PICK x : x = table'[bg.out]  OBVIOUS
<1>10. x.entries = E  BY ONLY <1>8, <1>9, SyncedTable
<1>11. Numbers({<<1, bg.out>>}) = {bg.out}  BY DEF Numbers
<1>12. In(table', {bg.out}) = E  BY ONLY <1>8, <1>9, <1>10 DEF In
<1>13. bg'.edit.add = {<<1, bg.out>>}  BY <1>2, <1>3
<1>14. Tab(table', bg'.edit.add) = E  BY ONLY <1>11, <1>12, <1>13 DEF Tab
<1>. QED  BY <1>2, <1>3, <1>5, <1>6, <1>14

\* The tables that the background thread has read and written.
LEMMA WorkStays ==
  ASSUME TypedInv, FilesInv, TablesStay
  PROVE  /\ Tab(table', versions.files) = Tab(table, versions.files)
         /\ Tab(table', bg.inputs) = Tab(table, bg.inputs)
         /\ Editing => Tab(table', bg.edit.add) = Tab(table, bg.edit.add)
         /\ In(table', reader.files) = In(table, reader.files)
<1>1. Stored(Numbers(versions.files)) /\ Stored(Numbers(bg.inputs)) /\ Stored(reader.files)
  <2>1. FilesInUseExist  BY FilesInUse
  <2>2. \A n \in Numbers(versions.files) \cup reader.files : n \in DOMAIN table /\ table[n].synced
    BY <2>1 DEF FilesInUseExist
  <2>3. Numbers(bg.inputs) \subseteq Numbers(versions.files)
    BY NumbersSubset DEF FilesInv, JobInv
  <2>. QED  BY <2>2, <2>3 DEF Stored
<1>2. Editing => Stored(Numbers(bg.edit.add))  BY DEF FilesInv, JobInv, EditInv
<1>. QED  BY <1>1, <1>2, StoredIn DEF Tab

\* The descriptor of a running process whose edit is on the disk.
LEMMA InstallsDescribed ==
  ASSUME TypedInv, FilesInv, InstallVersion
  PROVE  Possible' = {Described} /\ Described' = Described
<1>0. Typed /\ UpInv /\ DescriptorInv /\ JobShape
  BY DEF TypedInv, FilesInv, Typed
<1>1. current' = current /\ Running  BY <1>0, InstallFacts
<1>2. /\ Up /\ current # 0 /\ versions.manifest = current /\ current \in DOMAIN manifest
  BY <1>0, <1>1, UpFacts
<1>3. /\ LastState(SyncedManifest[current]) = Described
      /\ States(SyncedManifest[current]) = {Described}
  BY <1>2, SyncedDescriptor
<1>4. /\ \A n \in DOMAIN manifest' : manifest'[n] = SyncedManifest[n]
      /\ \A n \in DOMAIN manifest : n >= versions.manifest => n \in DOMAIN manifest'
  BY InstallDeletes
<1>5. current \in DOMAIN manifest' /\ manifest'[current] = SyncedManifest[current]
  <2>1. current \in Nat  BY <1>0 DEF Typed, DiskOK
  <2>2. current >= versions.manifest  BY <1>2, <2>1
  <2>. QED  BY <1>2, <1>4, <2>2
<1>. QED  BY <1>1, <1>2, <1>3, <1>5 DEF Possible, Described

LEMMA NextKeepsWork ==
  ASSUME TypedInv, FilesInv, TypedInv', FilesInv', WorkInv, Next
  PROVE  WorkInv'
<1>0. Typed /\ JobShape /\ bg \in BgState
  BY DEF TypedInv, Typed, BackgroundOK, BgState
<1>1. CASE bg'.pc = "idle"  BY <1>1 DEF WorkInv, Editing
<1>2. CASE bg' = bg /\ bg.pc # "idle" /\ TablesStay
           /\ UNCHANGED <<manifest, current>> /\ versions'.files = versions.files
           /\ (imm' = imm \/ imm = <<>>)
  <2>1. Described' = Described  BY <1>2 DEF Described
  <2>2. Editing /\ bg.edit.del = {} => imm # <<>>  BY <1>0 DEF JobShape, Editing
  <2>3. Edited' = Edited  BY <1>2 DEF Edited
  <2>4. /\ Editing => Tab(table', bg.edit.add) = Tab(table, bg.edit.add)
        /\ Tab(table', bg.inputs) = Tab(table, bg.inputs)
    BY <1>2, WorkStays
  <2>5. imm' = imm => ImmEntries' = ImmEntries  BY DEF ImmEntries
  <2>. QED  BY <1>2, <2>1, <2>2, <2>3, <2>4, <2>5 DEF WorkInv, Editing
<1>3. ASSUME Running, UNCHANGED <<manifest, current>>, versions'.files = versions.files,
             bg'.pc \in {"build", "merge", "write"},
             bg.pc \notin {"idle", "sync"} \/ (Idle /\ ~bgError)
      PROVE  WorkInv'
  <2>1. Described' = Described  BY <1>3 DEF Described
  <2>2. versions.files \subseteq Described.files
    BY <1>3, IdleCurrent DEF WorkInv
  <2>. QED  BY <1>3, <2>1, <2>2 DEF WorkInv, Editing
<1>4. CASE ~Running' \/ ~Running
  <2>1. CASE ~Running'
    <3>1. JobShape'  BY DEF TypedInv
    <3>. QED  BY <1>1, <2>1, <3>1 DEF JobShape
  <2>2. CASE ~Running /\ Running'
    <3>1. Opened
      BY <2>2, WriterIsOpen DEF Next, Running, StartGet, EndGet, GetSnapshot,
         ReleaseSnapshot, BackgroundCall, BackgroundFaults, BackgroundNothing, Flush,
         FlushWhileMerging, Idle, BuildTable, BuildTableFails, Build, Compact, OpenOutput,
         FinishOutput, MergeStops, MergeFails, MergeEnds, AppendToManifest, ManifestFails,
         InstallVersion, NewDB, Recover, Open, ReplayLog, ReplayRecord, EndLog, Replaying,
         NewManifest, SetCurrent, OpenFails, StartClose, EndClose, Kill, PowerLoss, Reset
    <3>2. bg' = bg /\ bg.pc = "idle"  BY <1>0, <2>2, <3>1 DEF Opened, JobShape
    <3>. QED  BY <1>1, <3>2
  <2>. QED  BY <1>4, <2>1, <2>2
<1>5. ASSUME Running, Running', bg'.pc # "idle",
             \/ \E t \in Writer : Submit(t) \/ Write(t) \/ WriteFaults(t)
             \/ Reading \/ StartClose
      PROVE  WorkInv'
  <2>1. ~InstallVersion
    <3>1. bg' = bg
      BY <1>5 DEF Submit, Write, WriteFaults, Refuse, Room, Wait, Switch, AddRecord,
         AddRecordFails, SyncLog, SyncLogFails, Insert, GiveUp, CheckFlushed, SwitchFails,
         Reading, StartGet, EndGet, GetSnapshot, ReleaseSnapshot, StartClose, background
    <3>2. InstallVersion => bg'.pc = bg.back /\ bg.pc = "sync"
      BY <1>0, InstallFacts DEF Typed
    <3>3. bg.back \in {"idle", "merge", "write"}  BY <1>0 DEF BgState
    <3>. QED  BY <1>5, <3>1, <3>2, <3>3
  <2>2. ~PowerLoss  BY <1>5 DEF PowerLoss, Reset, Running
  <2>3. TablesStay  BY <1>5, <2>1, <2>2, RunningTables
  <2>4. UNCHANGED <<manifest, current, bg>> /\ (imm' = imm \/ imm = <<>>)
    BY <1>5 DEF Submit, Write, WriteFaults, Refuse, Room, Wait, Switch, MustWait, AddRecord,
       AddRecordFails, SyncLog, SyncLogFails, Insert, GiveUp, CheckFlushed, SwitchFails,
       Reading, StartGet, EndGet, GetSnapshot, ReleaseSnapshot, StartClose, background, disk
  <2>5. versions'.files = versions.files
    <3>1. CASE Reading \/ StartClose
      BY <3>1 DEF Reading, StartGet, EndGet, GetSnapshot, ReleaseSnapshot, StartClose
    <3>2. CASE \E t \in Writer : Switch(t)
      <4>1. versions' = [versions EXCEPT !.next = @ + 1] /\ versions \in VersionSetState
        BY <1>0, <3>2 DEF Switch, Typed, OpenOK, VersionSetState
      <4>. QED  BY <4>1, VersionsNext
    <3>3. CASE \E t \in Writer : (Submit(t) \/ Write(t) \/ WriteFaults(t)) /\ ~Switch(t)
      BY <3>3, QuietWrites DEF Quiet, FilesInv
    <3>. QED  BY <1>5, <3>1, <3>2, <3>3
  <2>. QED  BY <1>2, <1>5, <2>3, <2>4, <2>5
<1>6. ASSUME Running, Running', bg'.pc # "idle", BackgroundCall \/ BackgroundFaults
      PROVE  WorkInv'
  <2>1. CASE BackgroundNothing
    <3>1. bg'.pc = "idle"  BY <2>1 DEF BackgroundNothing, EndCall, IdleBg
    <3>. QED  BY <1>1, <3>1
  <2>2. CASE Flush \/ FlushWhileMerging
    <3>1. /\ UNCHANGED <<manifest, current>> /\ versions'.files = versions.files
          /\ bg'.pc = "build"
      <4>1. /\ versions' = [versions EXCEPT !.next = @ + 1]
            /\ \E back, num : bg' = [bg EXCEPT !.pc = "build", !.back = back, !.num = num]
            /\ UNCHANGED <<manifest, current>>
        BY <2>2 DEF Flush, FlushWhileMerging, StartTable, disk
      <4>2. versions \in VersionSetState  BY <1>0 DEF Typed, OpenOK, VersionSetState
      <4>. QED  BY <1>0, <4>1, <4>2, VersionsNext DEF BgState
    <3>. QED  BY <1>3, <1>6, <2>2, <3>1 DEF Flush, FlushWhileMerging
  <2>3. CASE Compact
    <3>1. bg'.pc = "merge"  BY <1>0, <2>3 DEF Compact, BgState
    <3>. QED  BY <1>3, <1>6, <2>3, <3>1 DEF Compact, disk
  <2>4. CASE OpenOutput
    <3>1. /\ versions' = [versions EXCEPT !.next = @ + 1]
          /\ bg' = [bg EXCEPT !.pc = "write", !.out = versions.next]
          /\ UNCHANGED <<manifest, current>> /\ bg.pc = "merge"
      BY <2>4 DEF OpenOutput
    <3>2. versions \in VersionSetState  BY <1>0 DEF Typed, OpenOK, VersionSetState
    <3>3. versions'.files = versions.files /\ bg'.pc = "write"
      BY <1>0, <3>1, <3>2, VersionsNext DEF BgState
    <3>. QED  BY <1>3, <1>6, <3>1, <3>3
  <2>5. CASE BuildTable \/ BuildTableFails
    <3>1. PICK ok \in BOOLEAN : Build(ok)  BY <2>5 DEF BuildTable, BuildTableFails
    <3>2. UNCHANGED <<manifest, current, versions, imm>> /\ bg.pc = "build"
      BY <3>1 DEF Build
    <3>3. CASE bg'.pc = "append"
      <4>1. bg'.edit.del = {} /\ Tab(table', bg'.edit.add) = ImmEntries
        BY <3>1, <3>3, BuiltTable
      <4>2. Described' = Described /\ ImmEntries' = ImmEntries
        BY <3>2 DEF Described, ImmEntries
      <4>. QED  BY <3>2, <3>3, <4>1, <4>2 DEF WorkInv, Editing
    <3>4. CASE bg'.pc # "append"
      <4>1. ~(ok /\ ~shuttingDown)
        <5>1. SUFFICES ASSUME ok /\ ~shuttingDown  PROVE FALSE  OBVIOUS
        <5>2. \E e : bg' = [bg EXCEPT !.pc = "append", !.edit = e]  BY <3>1, <5>1 DEF Build
        <5>. QED  BY <1>0, <3>4, <5>2 DEF BgState
      <4>2. JobFails({bg.num})  BY <3>1, <4>1 DEF Build
      <4>3. bg'.pc = bg.back  BY <1>0, <4>2, FailedJob
      <4>4. bg'.pc \in {"merge", "write"}  BY <1>0, <1>6, <4>3 DEF BgState
      <4>. QED  BY <1>3, <1>6, <3>2, <4>4
    <3>. QED  BY <3>3, <3>4
  <2>6. CASE FinishOutput
    <3>1. /\ bg'.pc = "append" /\ bg'.edit.del # {} /\ bg'.inputs = bg.inputs
          /\ bg'.smallest = bg.smallest
          /\ Tab(table', bg'.edit.add) = Merged(Tab(table, bg.inputs), bg.smallest)
      BY <2>6, FinishedOutput
    <3>2. UNCHANGED <<manifest, current, versions>> /\ bg.pc = "write"
      BY <2>6 DEF FinishOutput
    <3>3. Described' = Described  BY <3>2 DEF Described
    <3>4. ~InstallVersion /\ ~PowerLoss
      BY <1>6, <3>2 DEF InstallVersion, PowerLoss, Reset, Running
    <3>5. Tab(table', bg.inputs) = Tab(table, bg.inputs)
      BY <1>6, <3>4, RunningTables, WorkStays
    <3>. QED  BY <3>1, <3>2, <3>3, <3>5 DEF WorkInv, Editing
  <2>7. CASE MergeStops \/ MergeFails
    <3>1. bg.back = "idle" /\ JobFails({bg.out})
      BY <1>0, <2>7 DEF MergeStops, MergeFails, MergeEnds, JobShape
    <3>2. bg'.pc = bg.back  BY <1>0, <3>1, FailedJob
    <3>. QED  BY <1>6, <3>1, <3>2
  <2>8. CASE AppendToManifest
    <3>1. /\ bg.pc = "append" /\ AppendEdit /\ UNCHANGED <<table, current, durable, imm, versions>>
          /\ bg' = [bg EXCEPT !.pc = "sync"]
      BY <2>8 DEF AppendToManifest, promises
    <3>2. Described'.files = (Described.files \ bg.edit.del) \cup bg.edit.add
      BY <1>6, <3>1, AppendsEdit DEF Editing
    <3>3. /\ bg'.pc = "sync" /\ bg'.edit = bg.edit /\ bg'.inputs = bg.inputs
          /\ bg'.smallest = bg.smallest
      BY <1>0, <3>1 DEF BgState
    <3>4. Edited' = Edited /\ ImmEntries' = ImmEntries
      BY <3>1, <3>3 DEF Edited, ImmEntries
    <3>5. Edited \subseteq Described'.files
      BY <3>1, <3>2 DEF WorkInv, Edited
    <3>. QED  BY <3>1, <3>3, <3>4, <3>5 DEF WorkInv, Editing
  <2>9. CASE ManifestFails
    <3>1. /\ bg.pc \in {"append", "sync"}
          /\ UNCHANGED <<table, current, durable, versions>>
          /\ UNCHANGED manifest \/ (bg.pc = "append" /\ AppendEdit)
          /\ \E outputs : JobFails(outputs)
      BY <2>9 DEF ManifestFails, promises
    <3>2. bg'.pc = bg.back  BY <1>0, <3>1, FailedJob
    <3>3. bg'.pc \in {"merge", "write"} /\ bg.edit.del = {}
      BY <1>0, <1>6, <3>1, <3>2 DEF BgState, JobShape
    <3>4. versions.files \subseteq Described.files
      BY <3>1, <3>3 DEF WorkInv, Edited
    <3>5. versions.files \subseteq Described'.files
      <4>1. CASE UNCHANGED manifest  BY <3>1, <3>4, <4>1 DEF Described
      <4>2. CASE bg.pc = "append" /\ AppendEdit
        <5>1. Described'.files = (Described.files \ bg.edit.del) \cup bg.edit.add
          BY <1>6, <3>1, <4>2, AppendsEdit DEF Editing
        <5>. QED  BY <3>3, <3>4, <5>1
      <4>. QED  BY <3>1, <4>1, <4>2
    <3>. QED  BY <3>1, <3>3, <3>5 DEF WorkInv, Editing
  <2>10. CASE InstallVersion
    <3>1. /\ bg.pc = "sync" /\ bg'.pc = bg.back /\ versions'.files = Edited
          /\ current' = current
      BY <1>0, <2>10, InstallFacts
    <3>2. bg'.pc \in {"merge", "write"}  BY <1>0, <1>6, <3>1 DEF BgState
    <3>3. Described' = Described  BY <2>10, InstallsDescribed
    <3>. QED  BY <3>1, <3>2, <3>3 DEF WorkInv, Editing
  <2>. QED
    BY <1>6, <2>1, <2>2, <2>3, <2>4, <2>5, <2>6, <2>7, <2>8, <2>9, <2>10
       DEF BackgroundCall, BackgroundFaults
<1>7. CASE Running /\ Running' /\ bg'.pc # "idle"
  <2>1. ~(\/ NewDB \/ Recover \/ Open \/ OpenFails \/ EndClose \/ Kill \/ PowerLoss)
    BY <1>7 DEF Running, NewDB, Recover, Open, ReplayLog, ReplayRecord, EndLog, Replaying,
       NewManifest, SetCurrent, Opened, OpenFails, EndClose, Kill, PowerLoss, Reset
  <2>. QED  BY <1>5, <1>6, <1>7, <2>1 DEF Next, Reading
<1>. QED  BY <1>1, <1>4, <1>7

(***************************************************************************)
(* The recovery                                                            *)
(***************************************************************************)
\* The steps of Open.
LEMMA OpeningSteps ==
  ASSUME TypedInv, FilesInv, Next, db' \in {"replay", "switch", "clean"}
  PROVE  \/ Recover \/ NewManifest \/ SetCurrent
         \/ \E number \in recovery.logs : ReplayLog(number)
<1>1. ASSUME NEW t \in Writer, Submit(t) \/ Write(t) \/ WriteFaults(t)  PROVE FALSE
  <2>1. db = "open"  BY <1>1, WriterIsOpen
  <2>2. db' = db
    BY <1>1 DEF Submit, Write, WriteFaults, Refuse, Room, Wait, Switch, AddRecord,
       AddRecordFails, SyncLog, SyncLogFails, Insert, GiveUp, CheckFlushed, SwitchFails
  <2>. QED  BY <2>1, <2>2
<1>2. ~Reading
  <2>1. Reading => db' = db
    BY DEF Reading, StartGet, EndGet, GetSnapshot, ReleaseSnapshot
  <2>2. Reading => db = "open"
    BY DEF Reading, StartGet, EndGet, GetSnapshot, ReleaseSnapshot, FilesInv, AtRest
  <2>. QED  BY <2>1, <2>2
<1>3. ~(BackgroundCall \/ BackgroundFaults)
  <2>1. BackgroundCall \/ BackgroundFaults => Running /\ db' = db
    BY DEF BackgroundCall, BackgroundFaults, BackgroundNothing, Flush,
       FlushWhileMerging, StartTable, BuildTable, BuildTableFails, Build, Compact,
       OpenOutput, FinishOutput, MergeStops, MergeFails, MergeEnds, AppendToManifest,
       ManifestFails, InstallVersion, Idle
  <2>. QED  BY <2>1 DEF Running
<1>4. ~(\/ NewDB \/ OpenFails \/ StartClose \/ EndClose \/ Kill \/ PowerLoss \/ Opened)
  BY DEF NewDB, OpenFails, StartClose, EndClose, Kill, PowerLoss, Opened, Reset
<1>. QED  BY <1>1, <1>2, <1>3, <1>4 DEF Next, Open, Reading

LEMMA RestAll ==
  ASSUME NEW recs \in Seq(Record)
  PROVE  Rest(recs, 0) = Readable(recs)
<1>1. DOMAIN recs = 1..Len(recs)  BY LenProperties
<1>2. {i \in Reads(recs) : i > 0} = {j \in DOMAIN recs : \A k \in 1..j : recs[k] # Torn}
  BY <1>1 DEF Reads
<1>. QED  BY <1>2 DEF Rest, Readable

\* The next record and what comes after it.
LEMMA RestNext ==
  ASSUME NEW recs \in Seq(Record), NEW pos \in Nat, pos + 1 <= Len(recs),
         \A k \in 1..(pos + 1) : recs[k] # Torn
  PROVE  Rest(recs, pos) = recs[pos + 1].entries \cup Rest(recs, pos + 1)
<1>1. DOMAIN recs = 1..Len(recs) /\ Len(recs) \in Nat  BY LenProperties
<1>2. pos + 1 \in Reads(recs)  BY <1>1 DEF Reads
<1>3. {i \in Reads(recs) : i > pos} = {pos + 1} \cup {i \in Reads(recs) : i > pos + 1}
  <2>1. \A i \in Reads(recs) : i \in Nat  BY <1>1 DEF Reads
  <2>2. \A i \in Reads(recs) : i > pos <=> i = pos + 1 \/ i > pos + 1  BY <2>1
  <2>. QED  BY <1>2, <2>2
<1>. QED  BY <1>3 DEF Rest

LEMMA RestEnds ==
  ASSUME NEW recs \in Seq(Record), NEW pos \in Nat,
         ~(pos < Len(recs) /\ recs[pos + 1] # Torn)
  PROVE  Rest(recs, pos) = {}
<1>1. DOMAIN recs = 1..Len(recs) /\ Len(recs) \in Nat  BY LenProperties
<1>2. SUFFICES ASSUME NEW i \in Reads(recs), i > pos  PROVE FALSE  BY DEF Rest
<1>3. i \in 1..Len(recs) /\ \A k \in 1..i : recs[k] # Torn  BY <1>1 DEF Reads
<1>4. pos + 1 \in 1..i /\ pos < Len(recs)  BY <1>1, <1>2, <1>3
<1>. QED  BY <1>3, <1>4

Unfirst(lg, nums) == UNION {Rest(lg[n].recs, 0) : n \in nums}

LEMMA UnreadFirst ==
  ASSUME NEW lg, NEW r, r.logs \subseteq Nat, NEW number \in r.logs,
         IsFirst(number, r.logs)
  PROVE  Unread(lg, r) = Rest(lg[number].recs, r.pos) \cup Unfirst(lg, r.logs \ {number})
<1>1. \A n \in r.logs : IsFirst(n, r.logs) <=> n = number  BY DEF IsFirst
<1>2. PICK p : p = r.pos  OBVIOUS
<1>3. PICK S \in SUBSET Nat : S = r.logs  OBVIOUS
<1>4. Unread(lg, r) = UNION {Rest(lg[n].recs, IF n = number THEN p ELSE 0) : n \in S}
  BY <1>1, <1>2, <1>3 DEF Unread
<1>5. UNION {Rest(lg[n].recs, IF n = number THEN p ELSE 0) : n \in S}
        = Rest(lg[number].recs, p) \cup UNION {Rest(lg[n].recs, 0) : n \in S \ {number}}
  BY <1>3
<1>. QED  BY <1>2, <1>3, <1>4, <1>5 DEF Unfirst

LEMMA UnreadAll ==
  ASSUME NEW lg, NEW r, r.pos = 0
  PROVE  Unread(lg, r) = Unfirst(lg, r.logs)
<1>1. \A n : (IF IsFirst(n, r.logs) THEN r.pos ELSE 0) = 0  OBVIOUS
<1>. QED  BY <1>1 DEF Unread, Unfirst

\* The tables that RecoverLogFile has written.
LEMMA RecoveredTab ==
  ASSUME TypedInv, FilesInv, db = "replay", NEW m \in SUBSET Entry, NEW write \in BOOLEAN,
         WriteRecovered(m, write), recovery'.add = Recovered(write)
  PROVE  /\ Tab(table', recovery'.add) = Tab(table, recovery.add) \cup IF write THEN m ELSE {}
         /\ Tab(table', versions.files) = Tab(table, versions.files)
         /\ Numbers(recovery'.add) = Numbers(recovery.add)
                                       \cup IF write THEN {versions.next} ELSE {}
<1>. DEFINE nums == Numbers(recovery.add)
            files == Numbers(versions.files)
<1>1. versions.next \in Nat /\ nums \subseteq Nat /\ files \subseteq Nat
  BY NumbersTyped DEF TypedInv, Typed, OpenOK
<1>2. Stored(files \cup nums) /\ Below(files \cup nums, versions.next)
  BY DEF FilesInv, OpeningInv
<1>3. \A n \in files \cup nums : n \in DOMAIN table /\ n # versions.next
  BY <1>1, <1>2 DEF Stored, Below
<1>. HIDE DEF nums, files
<1>4. CASE ~write
  <2>1. table' = table /\ recovery'.add = recovery.add
    BY <1>4 DEF WriteRecovered, Recovered
  <2>. QED  BY <1>4, <2>1
<1>5. CASE write
  <2>1. table' = With(table, versions.next, [entries |-> m, synced |-> TRUE])
    BY <1>5 DEF WriteRecovered
  <2>2. PICK k : k = versions.next  OBVIOUS
  <2>3. PICK x : x = [entries |-> m, synced |-> TRUE]  OBVIOUS
  <2>4. x.entries = m  BY <2>3, SyncedTable
  <2>5. k \in DOMAIN table' /\ table'[k] = x
        /\ \A n \in DOMAIN table : n # k => n \in DOMAIN table' /\ table'[n] = table[n]
    BY ONLY <2>1, <2>2, <2>3 DEF With
  <2>6. In(table', nums) = In(table, nums) /\ In(table', files) = In(table, files)
    BY <1>3, <2>2, <2>5, InSame
  <2>7. In(table', {k}) = m  BY ONLY <2>4, <2>5 DEF In
  <2>8. In(table', nums \cup {k}) = In(table', nums) \cup In(table', {k})  BY DEF In
  <2>9. Numbers(recovery'.add) = nums \cup {k}
    <3>1. recovery'.add = recovery.add \cup {<<0, k>>}  BY <1>5, <2>2 DEF Recovered
    <3>2. Numbers({<<0, k>>}) = {k}  BY DEF Numbers
    <3>3. Numbers(recovery.add \cup {<<0, k>>}) = Numbers(recovery.add) \cup Numbers({<<0, k>>})
      BY NumbersUnion
    <3>. QED  BY <3>1, <3>2, <3>3 DEF nums
  <2>10. Tab(table', recovery'.add) = In(table, nums) \cup m
    BY ONLY <2>6, <2>7, <2>8, <2>9 DEF Tab
  <2>11. Tab(table', versions.files) = In(table, files)  BY <2>6 DEF Tab, files
  <2>. QED  BY <1>5, <2>2, <2>9, <2>10, <2>11 DEF Tab, nums, files
<1>. QED  BY <1>4, <1>5

\* What a step of RecoverLogFile moves from the logs into memory and tables.
LEMMA ReplayReads ==
  ASSUME TypedInv, FilesInv, ReplayInv, NEW number \in recovery.logs, ReplayLog(number)
  PROVE  /\ Tab(table', recovery'.add) \cup recovery'.mem \cup Unread(log, recovery')
              = Tab(table, recovery.add) \cup recovery.mem \cup Unread(log, recovery)
         /\ Tab(table', versions.files) = Tab(table, versions.files)
         /\ \A n \in recovery'.logs : IsFirst(n, recovery'.logs) =>
              /\ recovery'.pos <= Len(log[n].recs)
              /\ \A k \in 1..recovery'.pos : log[n].recs[k] # Torn
         /\ recovery'.logs = {} => recovery'.mem = {}
         /\ \/ /\ recovery'.max = recovery.max
               /\ Tab(table', recovery'.add) \cup recovery'.mem
                    = Tab(table, recovery.add) \cup recovery.mem
            \/ \E i \in DOMAIN log[number].recs :
                 /\ recovery'.max = Larger(recovery.max, log[number].recs[i].last)
                 /\ log[number].recs[i] \in Record
                 /\ Tab(table', recovery'.add) \cup recovery'.mem
                      = Tab(table, recovery.add) \cup recovery.mem
                          \cup log[number].recs[i].entries
<1>0. /\ Typed /\ recovery \in RecoveryState /\ db = "replay" /\ number \in DOMAIN log
      /\ recovery.logs \subseteq Nat /\ recovery.pos \in Nat
  <2>1. recovery \in RecoveryState /\ Typed  BY DEF TypedInv, Typed, OpenOK, RecoveryState
  <2>2. db = "replay" /\ number \in DOMAIN log  BY ReplayFacts
  <2>. QED  BY <2>1, <2>2 DEF RecoveryState
<1>1. IsFirst(number, recovery.logs)
  BY DEF ReplayLog, ReplayRecord, EndLog, Replaying, IsFirst
<1>2. log[number].recs \in Seq(Record) /\ Len(log[number].recs) \in Nat
      /\ DOMAIN log[number].recs = 1..Len(log[number].recs)
  BY <1>0, LenProperties DEF Typed, DiskOK, IsDirectory, LogFile
<1>3. PICK q \in Seq(Record) : q = log[number].recs  BY <1>2
<1>4. recovery.pos <= Len(q) /\ \A k \in 1..recovery.pos : q[k] # Torn
  BY <1>0, <1>1, <1>3 DEF ReplayInv
<1>5. Unread(log, recovery) = Rest(q, recovery.pos) \cup Unfirst(log, recovery.logs \ {number})
  BY <1>0, <1>1, <1>3, UnreadFirst
<1>6. CASE ReplayRecord(number)
  <2>. DEFINE p == recovery.pos
              m == recovery.mem \cup q[p + 1].entries
              full == Cardinality(m) > WriteBufferSize
  <2>1. /\ HasRecord(number) /\ WriteRecovered(m, full)
    BY <1>3, <1>6 DEF ReplayRecord
  <2>2. /\ recovery'.add = Recovered(full) /\ recovery'.logs = recovery.logs
        /\ recovery'.pos = p + 1 /\ recovery'.mem = IF full THEN {} ELSE m
        /\ recovery'.max = Larger(recovery.max, q[p + 1].last)
    BY <1>0, <1>3, <1>6 DEF ReplayRecord, RecoveryState
  <2>3. p + 1 \in 1..Len(q) /\ q[p + 1] \in Record /\ q[p + 1] # Torn
    BY <1>0, <1>3, <2>1, NextRecord DEF HasRecord
  <2>4. \A k \in 1..(p + 1) : q[k] # Torn
    <3>1. \A k \in 1..(p + 1) : k \in 1..p \/ k = p + 1  BY <1>0
    <3>. QED  BY <1>4, <2>3, <3>1
  <2>5. m \in SUBSET Entry  BY <1>0, <2>3 DEF Record, RecoveryState
  <2>6. full \in BOOLEAN  OBVIOUS
  <2>7. Rest(q, p) = q[p + 1].entries \cup Rest(q, p + 1)
    BY <1>0, <1>2, <1>3, <2>3, <2>4, RestNext
  <2>8. Unread(log, recovery') = Rest(q, p + 1) \cup Unfirst(log, recovery.logs \ {number})
    <3>1. IsFirst(number, recovery'.logs) /\ recovery'.logs \subseteq Nat
          /\ number \in recovery'.logs
      BY <1>0, <1>1, <2>2
    <3>2. PICK r : r = recovery'  OBVIOUS
    <3>3. Unread(log, r) = Rest(log[number].recs, r.pos)
                             \cup Unfirst(log, r.logs \ {number})
      BY <3>1, <3>2, UnreadFirst
    <3>. QED  BY <1>3, <2>2, <3>2, <3>3
  <2>9. /\ Tab(table', recovery'.add) = Tab(table, recovery.add) \cup IF full THEN m ELSE {}
        /\ Tab(table', versions.files) = Tab(table, versions.files)
    <3>. HIDE DEF m, full
    <3>. QED  BY <1>0, <2>1, <2>2, <2>5, <2>6, RecoveredTab
  <2>10. Tab(table', recovery'.add) \cup recovery'.mem
           = Tab(table, recovery.add) \cup recovery.mem \cup q[p + 1].entries
    <3>1. (IF full THEN m ELSE {}) \cup (IF full THEN {} ELSE m) = m  OBVIOUS
    <3>. HIDE DEF full
    <3>. QED  BY <2>2, <2>9, <3>1
  <2>11. \A n \in recovery'.logs : IsFirst(n, recovery'.logs) =>
           /\ recovery'.pos <= Len(log[n].recs)
           /\ \A k \in 1..recovery'.pos : log[n].recs[k] # Torn
    <3>1. \A n \in recovery.logs : IsFirst(n, recovery.logs) => n = number
      BY <1>0, <1>1 DEF IsFirst
    <3>. QED  BY <1>2, <1>3, <2>2, <2>3, <2>4, <3>1
  <2>12. recovery'.logs # {}  BY <2>2
  <2>. HIDE DEF m, full
  <2>13. p + 1 \in DOMAIN log[number].recs  BY <1>2, <1>3, <2>3
  <2>. QED
    BY <1>3, <1>5, <2>2, <2>3, <2>7, <2>8, <2>9, <2>10, <2>11, <2>12, <2>13
<1>7. CASE EndLog(number)
  <2>. DEFINE rest == recovery.mem # {}
  <2>1. /\ ~HasRecord(number) /\ WriteRecovered(recovery.mem, rest)
    BY <1>7 DEF EndLog
  <2>2. /\ recovery'.add = Recovered(rest) /\ recovery'.logs = recovery.logs \ {number}
        /\ recovery'.pos = 0 /\ recovery'.mem = {} /\ recovery'.max = recovery.max
    BY <1>0, <1>7 DEF EndLog, RecoveryState
  <2>3. Rest(q, recovery.pos) = {}  BY <1>0, <1>3, <2>1, RestEnds DEF HasRecord
  <2>4. Unread(log, recovery') = Unfirst(log, recovery.logs \ {number})
    <3>1. PICK r : r = recovery'  OBVIOUS
    <3>. QED  BY <2>2, <3>1, UnreadAll
  <2>5. recovery.mem \in SUBSET Entry /\ rest \in BOOLEAN  BY <1>0 DEF RecoveryState
  <2>6. /\ Tab(table', recovery'.add)
             = Tab(table, recovery.add) \cup IF rest THEN recovery.mem ELSE {}
        /\ Tab(table', versions.files) = Tab(table, versions.files)
    <3>. HIDE DEF rest
    <3>. QED  BY <1>0, <2>1, <2>2, <2>5, RecoveredTab
  <2>7. (IF rest THEN recovery.mem ELSE {}) = recovery.mem  OBVIOUS
  <2>8. \A n : /\ recovery'.pos <= Len(log[n].recs) \/ n \notin recovery'.logs
               /\ \A k \in 1..recovery'.pos : log[n].recs[k] # Torn
    <3>1. \A n \in DOMAIN log : Len(log[n].recs) \in Nat
      BY <1>0, LenProperties DEF Typed, DiskOK, IsDirectory, LogFile
    <3>2. recovery'.logs \subseteq DOMAIN log
      BY <1>0, <2>2 DEF TypedInv, ReplayShape
    <3>. QED  BY <2>2, <3>1, <3>2
  <2>. HIDE DEF rest
  <2>. QED  BY <1>5, <2>2, <2>3, <2>4, <2>6, <2>7, <2>8
<1>. QED  BY <1>6, <1>7 DEF ReplayLog

\* An empty log adds nothing.
LEMMA NewLogIs ==
  ASSUME DiskOK, DiskOK', NEW k, k \notin DOMAIN log, NEW b,
         log' = With(log, k, [recs |-> <<>>, synced |-> 0])
  PROVE  /\ Logged(log', b) = Logged(log, b)
         /\ DOMAIN log' = DOMAIN log \cup {k} /\ log'[k].recs = <<>> /\ log'[k].synced = 0
         /\ \A n \in DOMAIN log : n # k /\ log'[n] = log[n]
         /\ Readable(log'[k].recs) = {}
<1>1. /\ DOMAIN log' = DOMAIN log \cup {k} /\ log'[k] = [recs |-> <<>>, synced |-> 0]
      /\ \A n \in DOMAIN log : n # k /\ log'[n] = log[n]
  BY DEF With
<1>2. log'[k].recs = <<>> /\ log'[k].synced = 0  BY <1>1
<1>3. Readable(<<>>) = {}  BY DEF Readable
<1>4. Readable(log'[k].recs) = {}  BY <1>2, <1>3
<1>5. Logged(log', b) \subseteq Logged(log, b)  BY <1>1, <1>4 DEF Logged
<1>6. Logged(log, b) \subseteq Logged(log', b)  BY <1>1 DEF Logged
<1>. QED  BY <1>1, <1>2, <1>4, <1>5, <1>6

LEMMA LogsDisjoint ==
  ASSUME DiskOK, NEW b, \A n \in DOMAIN log : n >= b => Readable(log[n].recs) = {}
  PROVE  Logged(log, b) = {}
BY DEF Logged

LEMMA NewManifestReads ==
  ASSUME TypedInv, FilesInv, TypedInv', ReplayInv, NewManifest
  PROVE  /\ Described' = Described /\ Possible' = Possible
         /\ versions.next \notin DOMAIN log
         /\ \A b : Logged(log', b) = Logged(log, b)
         /\ Logged(log', versions'.log) = {}
         /\ Tab(table', versions'.files) = Tab(table, versions.files) \cup Tab(table, recovery.add)
         /\ Logged(log, versions.log) = Tab(table, recovery.add)
         /\ recovery.mem = {}
<1>0. Typed /\ DiskOK /\ DiskOK' /\ OpeningInv /\ DescriptorInv /\ versions.next \in Nat
  BY DEF TypedInv, FilesInv, Typed, OpenOK
<1>1. /\ UNCHANGED <<table, current>> /\ db = "replay" /\ recovery.logs = {}
      /\ log' = With(log, versions.next, [recs |-> <<>>, synced |-> 0])
      /\ versions'.files = versions.files \cup recovery.add
      /\ versions'.log = versions.next
      /\ \A n \in DOMAIN manifest : n # versions.manifest => manifest'[n] = manifest[n]
  BY <1>0, NewManifestFacts
<1>2. /\ current # 0 /\ current < versions.manifest
      /\ \A n \in DOMAIN log : n < versions.next
  BY <1>0, <1>1 DEF OpeningInv
<1>3. current \in DOMAIN manifest /\ current # versions.manifest
  BY <1>0, <1>2 DEF DescriptorInv, DiskOK
<1>4. Described' = Described /\ Possible' = Possible  BY <1>1, <1>3 DEF Described, Possible
<1>5. versions.next \notin DOMAIN log /\ DOMAIN log \subseteq Nat
  BY <1>0, <1>2 DEF DiskOK, IsDirectory
<1>6. /\ \A b : Logged(log', b) = Logged(log, b)
      /\ DOMAIN log' = DOMAIN log \cup {versions.next}
      /\ Readable(log'[versions.next].recs) = {}
  BY <1>0, <1>1, <1>5, NewLogIs
<1>7. Logged(log', versions'.log) = {}
  <2>1. \A n \in DOMAIN log' : n >= versions.next => Readable(log'[n].recs) = {}
    BY <1>0, <1>2, <1>5, <1>6
  <2>2. PICK k : k = versions.next  OBVIOUS
  <2>3. Logged(log', k) = {}  BY <2>1, <2>2 DEF Logged
  <2>. QED  BY <1>1, <2>2, <2>3
<1>8. recovery.mem = {} /\ Logged(log, versions.log) = Tab(table, recovery.add)
  <2>1. recovery.mem = {}  BY <1>1 DEF ReplayInv
  <2>2. Unread(log, recovery) = {}  BY <1>1 DEF Unread
  <2>. QED  BY <1>1, <2>1, <2>2 DEF ReplayInv
<1>9. Tab(table', versions'.files) = Tab(table, versions.files) \cup Tab(table, recovery.add)
  BY <1>1, TabUnion
<1>. QED  BY <1>4, <1>5, <1>6, <1>7, <1>8, <1>9

LEMMA RecoverReads ==
  ASSUME TypedInv, FilesInv, Recover
  PROVE  /\ UNCHANGED <<log, table, manifest, current>> /\ db' = "replay"
         /\ Described' = Described /\ Possible' = Possible
         /\ versions'.files = Described.files /\ versions'.log = Described.log
         /\ versions'.last = Described.last
         /\ recovery'.logs = LogsFrom(Described.log) /\ recovery'.pos = 0
         /\ recovery'.mem = {} /\ recovery'.add = {} /\ recovery'.max = 0
         /\ Unread(log, recovery') = Logged(log, Described.log)
<1>1. UNCHANGED <<log, table, manifest, current>> /\ db' = "replay"
  BY DEF Recover, disk
<1>2. Described' = Described /\ Possible' = Possible  BY <1>1 DEF Described, Possible
<1>3. PICK d : d = Described  OBVIOUS
<1>4. versions' = [files |-> d.files, log |-> d.log, next |-> d.next + 1, last |-> d.last,
                   manifest |-> d.next]
  BY <1>3 DEF Recover
<1>5. versions'.files = d.files /\ versions'.log = d.log /\ versions'.last = d.last
  BY ONLY <1>4
<1>6. PICK L : L = LogsFrom(d.log)  OBVIOUS
<1>7. recovery' = [NoRecovery EXCEPT !.logs = L]  BY <1>3, <1>6 DEF Recover
<1>8. /\ recovery'.logs = L /\ recovery'.pos = 0 /\ recovery'.mem = {} /\ recovery'.add = {}
      /\ recovery'.max = 0
  BY ONLY <1>7 DEF NoRecovery
<1>9. Unread(log, recovery') = Logged(log, d.log)
  <2>1. PICK r : r = recovery'  OBVIOUS
  <2>2. Unread(log, r) = Unfirst(log, L)  BY <1>8, <2>1, UnreadAll
  <2>3. \A n \in DOMAIN log : Rest(log[n].recs, 0) = Readable(log[n].recs)
    BY RestAll DEF TypedInv, Typed, DiskOK, IsDirectory, LogFile
  <2>4. L = {n \in DOMAIN log : n >= d.log}  BY <1>6 DEF LogsFrom
  <2>5. Unfirst(log, L) = Logged(log, d.log)  BY <2>3, <2>4 DEF Unfirst, Logged
  <2>. QED  BY <2>1, <2>2, <2>5
<1>. QED  BY <1>1, <1>2, <1>3, <1>5, <1>6, <1>8, <1>9

LEMMA NoFiles ==
  ASSUME NEW tb
  PROVE  Tab(tb, {}) = {}
BY DEF Tab, In, Numbers

LEMMA NextKeepsRecovery ==
  ASSUME TypedInv, FilesInv, TypedInv', ReplayInv, Next
  PROVE  ReplayInv'
<1>1. CASE db' \notin {"replay", "switch", "clean"}  BY <1>1 DEF ReplayInv
<1>2. CASE Recover
  <2>1. /\ UNCHANGED <<log, table, manifest, current>> /\ db' = "replay"
        /\ Described' = Described
        /\ versions'.files = Described.files /\ versions'.log = Described.log
        /\ versions'.last = Described.last
        /\ recovery'.pos = 0 /\ recovery'.mem = {} /\ recovery'.add = {}
        /\ Unread(log, recovery') = Logged(log, Described.log)
        /\ recovery'.logs = LogsFrom(Described.log)
    BY <1>2, RecoverReads
  <2>2. Logged(log', versions'.log) =
          Tab(table', recovery'.add) \cup recovery'.mem \cup Unread(log', recovery')
    <3>1. PICK b : b = Described.log  OBVIOUS
    <3>2. PICK r : r = recovery'  OBVIOUS
    <3>3. Tab(table', r.add) = {}  BY <2>1, <3>2, NoFiles
    <3>4. Logged(log', b) = Logged(log, b) /\ Unread(log', r) = Unread(log, r)  BY <2>1
    <3>. QED  BY <2>1, <3>1, <3>2, <3>3, <3>4
  <2>3. \A n \in recovery'.logs : 0 <= Len(log[n].recs) /\ \A k \in 1..0 : log[n].recs[k] # Torn
    <3>1. \A n \in DOMAIN log : Len(log[n].recs) \in Nat
      BY LenProperties DEF TypedInv, Typed, DiskOK, IsDirectory, LogFile
    <3>. QED  BY <2>1, <3>1 DEF LogsFrom
  <2>4. \A n \in recovery'.logs :
          /\ recovery'.pos <= Len(log'[n].recs)
          /\ \A k \in 1..recovery'.pos : log'[n].recs[k] # Torn
    BY <2>1, <2>3
  <2>. QED  BY <2>1, <2>2, <2>4 DEF ReplayInv
<1>3. CASE \E number \in recovery.logs : ReplayLog(number)
  <2>0. PICK number \in recovery.logs : ReplayLog(number)  BY <1>3
  <2>1. /\ UNCHANGED <<log, manifest, current, db>> /\ db = "replay"
        /\ versions'.files = versions.files /\ versions'.log = versions.log
        /\ versions'.last = versions.last
    BY <2>0, ReplayFacts
  <2>2. /\ Tab(table', recovery'.add) \cup recovery'.mem \cup Unread(log, recovery')
             = Tab(table, recovery.add) \cup recovery.mem \cup Unread(log, recovery)
        /\ \A n \in recovery'.logs : IsFirst(n, recovery'.logs) =>
             /\ recovery'.pos <= Len(log[n].recs)
             /\ \A k \in 1..recovery'.pos : log[n].recs[k] # Torn
        /\ recovery'.logs = {} => recovery'.mem = {}
    BY <2>0, ReplayReads
  <2>3. Described' = Described  BY <2>1 DEF Described
  <2>4. Logged(log', versions'.log) =
          Tab(table', recovery'.add) \cup recovery'.mem \cup Unread(log', recovery')
    <3>1. PICK b : b = versions.log  OBVIOUS
    <3>2. PICK r : r = recovery'  OBVIOUS
    <3>3. Logged(log', b) = Logged(log, b) /\ Unread(log', r) = Unread(log, r)  BY <2>1
    <3>4. Logged(log, versions.log) =
            Tab(table, recovery.add) \cup recovery.mem \cup Unread(log, recovery)
      BY <2>1 DEF ReplayInv
    <3>. QED  BY <2>1, <2>2, <3>1, <3>2, <3>3, <3>4
  <2>5. \A n \in recovery'.logs : IsFirst(n, recovery'.logs) =>
          /\ recovery'.pos <= Len(log'[n].recs)
          /\ \A k \in 1..recovery'.pos : log'[n].recs[k] # Torn
    BY <2>1, <2>2
  <2>6. versions.files = Described.files /\ versions.log = Described.log
        /\ versions.last = Described.last
    BY <2>1 DEF ReplayInv
  <2>. QED  BY <2>1, <2>2, <2>3, <2>4, <2>5, <2>6 DEF ReplayInv
<1>4. CASE NewManifest
  <2>1. /\ Described' = Described
        /\ \A b : Logged(log', b) = Logged(log, b)
        /\ Logged(log', versions'.log) = {}
        /\ Tab(table', versions'.files)
             = Tab(table, versions.files) \cup Tab(table, recovery.add)
        /\ Logged(log, versions.log) = Tab(table, recovery.add)
    BY <1>4, NewManifestReads
  <2>2. db = "replay" /\ db' = "switch" /\ table' = table  BY <1>4 DEF NewManifest
  <2>3. versions.files = Described.files /\ versions.log = Described.log
    BY <2>2 DEF ReplayInv
  <2>4. FoundIn(table', log', Described') = Tab(table', versions'.files)
    <3>1. PICK d : d = Described  OBVIOUS
    <3>2. FoundIn(table', log', d) = Tab(table', d.files) \cup Logged(log', d.log)
      BY DEF FoundIn
    <3>3. Tab(table', d.files) = Tab(table, d.files)  BY <2>2
    <3>. QED  BY <2>1, <2>3, <3>1, <3>2, <3>3
  <2>. QED  BY <2>1, <2>2, <2>4 DEF ReplayInv
<1>5. CASE SetCurrent
  <2>1. UNCHANGED <<log, versions>> /\ db = "switch" /\ db' = "clean"
    BY <1>5 DEF SetCurrent
  <2>2. Logged(log, versions.log) = {}  BY <2>1 DEF ReplayInv
  <2>. QED  BY <2>1, <2>2 DEF ReplayInv
<1>. QED  BY <1>1, <1>2, <1>3, <1>4, <1>5, OpeningSteps

(***************************************************************************)
(* The steps, by what they do to the entries                               *)
(***************************************************************************)
\* A step of a running process that moves no entry.
Still ==
  /\ Running /\ Running'
  /\ UNCHANGED <<table, manifest, current, mem, imm, group, logfile, store, acked, durable>>
  /\ log' = log \/ SyncsLog
  /\ versions'.files = versions.files /\ versions'.log = versions.log
  /\ versions'.last = versions.last
  /\ bg'.pc = "append" => bg.pc = "append" /\ bg'.edit = bg.edit

AddsRecord(t) == Logging(t) /\ (AddRecord(t) \/ AddRecordFails(t))

AddsEdit ==
  Running /\ bg.pc = "append" /\ AppendEdit /\ (AppendToManifest \/ ManifestFails)

LEMMA QuietVersions ==
  ASSUME NEW v \in VersionSetState, versions = v, NEW n,
         versions' = [versions EXCEPT !.next = n]
  PROVE  /\ versions'.files = versions.files /\ versions'.log = versions.log
         /\ versions'.last = versions.last
BY DEF VersionSetState

LEMMA WriterKinds ==
  ASSUME TypedInv, FilesInv, NEW t \in Writer, Submit(t) \/ Write(t) \/ WriteFaults(t)
  PROVE  \/ Still \/ Room(t) \/ Switch(t) \/ Insert(t) \/ GiveUp(t) \/ AddsRecord(t)
<1>1. db = "open"  BY WriterIsOpen
<1>2. CASE \/ Submit(t) \/ Refuse(t) \/ Wait(t) \/ CheckFlushed(t) \/ SwitchFails(t)
           \/ SyncLogFails(t)
  BY <1>1, <1>2 DEF Still, Submit, Refuse, Wait, CheckFlushed, SwitchFails, SyncLogFails,
                    disk, background, promises, Running
<1>3. CASE SyncLog(t)
  BY <1>1, <1>3 DEF Still, SyncLog, SyncsLog, Leading, background, promises, Running
<1>4. CASE AddRecord(t)  BY <1>4 DEF AddsRecord, AddRecord, Logging, Leading
<1>5. CASE AddRecordFails(t)
  <2>1. UNCHANGED log \/ Logging(t)  BY <1>5 DEF AddRecordFails, Logging, Leading, Fault
  <2>2. CASE UNCHANGED log
    BY <1>1, <1>5, <2>2 DEF Still, AddRecordFails, background, promises, Running
  <2>. QED  BY <1>5, <2>1, <2>2 DEF AddsRecord
<1>6. CASE Room(t) \/ Switch(t) \/ Insert(t) \/ GiveUp(t)  BY <1>6
<1>. QED  BY <1>2, <1>3, <1>4, <1>5, <1>6 DEF Write, WriteFaults

LEMMA BackgroundKinds ==
  ASSUME TypedInv, FilesInv, BackgroundCall \/ BackgroundFaults
  PROVE  \/ Still \/ OpenOutput \/ FinishOutput \/ (\E ok \in BOOLEAN : Build(ok))
         \/ AddsEdit \/ InstallVersion
<1>0. Typed /\ JobShape /\ bg \in BgState /\ versions \in VersionSetState
  BY DEF TypedInv, Typed, BackgroundOK, BgState, OpenOK, VersionSetState
<1>1. CASE BackgroundNothing
  <2>1. bg'.pc = "idle"  BY <1>1 DEF BackgroundNothing, EndCall, IdleBg
  <2>. QED
    BY <1>1, <2>1 DEF Still, BackgroundNothing, Idle, disk, promises, Running
<1>2. CASE Flush \/ FlushWhileMerging
  <2>1. PICK back : StartTable(back) /\ Running
    BY <1>2 DEF Flush, FlushWhileMerging, Idle
  <2>2. /\ bg' = [bg EXCEPT !.pc = "build", !.back = back, !.num = versions.next]
        /\ versions' = [versions EXCEPT !.next = versions.next + 1]
    BY <2>1 DEF StartTable
  <2>3. bg'.pc = "build"  BY <1>0, <2>2 DEF BgState
  <2>4. /\ versions'.files = versions.files /\ versions'.log = versions.log
        /\ versions'.last = versions.last
    BY <1>0, <2>2, QuietVersions
  <2>. QED
    BY <2>1, <2>3, <2>4 DEF Still, StartTable, disk, client, promises, Running
<1>3. CASE Compact
  <2>1. bg'.pc = "merge"  BY <1>0, <1>3 DEF Compact, BgState
  <2>. QED  BY <1>3, <2>1 DEF Still, Compact, Idle, disk, client, promises, Running
<1>4. CASE MergeStops \/ MergeFails
  <2>1. MergeEnds  BY <1>4 DEF MergeStops, MergeFails
  <2>2. bg'.pc = bg.back  BY <1>0, <2>1, FailedJob DEF MergeEnds
  <2>3. bg.back # "append"  BY <1>0 DEF BgState
  <2>. QED  BY <2>1, <2>2, <2>3 DEF Still, MergeEnds, disk, promises, Running
<1>5. CASE AppendToManifest
  BY <1>5 DEF AddsEdit, AppendToManifest
<1>6. CASE ManifestFails
  <2>1. UNCHANGED manifest \/ AddsEdit  BY <1>6 DEF ManifestFails, AddsEdit
  <2>2. bg'.pc = bg.back  BY <1>0, <1>6, FailedJob DEF ManifestFails
  <2>3. bg.back # "append"  BY <1>0 DEF BgState
  <2>4. CASE UNCHANGED manifest
    BY <1>6, <2>2, <2>3, <2>4 DEF Still, ManifestFails, promises, Running
  <2>. QED  BY <2>1, <2>4
<1>. QED
  BY <1>1, <1>2, <1>3, <1>4, <1>5, <1>6
     DEF BackgroundCall, BackgroundFaults, BuildTable, BuildTableFails

LEMMA NextKinds ==
  ASSUME TypedInv, FilesInv, Next
  PROVE  \/ Still
         \/ \E t \in Writer : Room(t) \/ Switch(t) \/ Insert(t) \/ GiveUp(t) \/ AddsRecord(t)
         \/ OpenOutput \/ FinishOutput \/ (\E ok \in BOOLEAN : Build(ok))
         \/ AddsEdit \/ InstallVersion
         \/ NewDB \/ Recover \/ (\E number \in recovery.logs : ReplayLog(number))
         \/ NewManifest \/ SetCurrent \/ Opened \/ OpenFails \/ EndClose \/ Kill
         \/ PowerLoss
<1>1. CASE \E t \in Writer : Submit(t) \/ Write(t) \/ WriteFaults(t)  BY <1>1, WriterKinds
<1>2. CASE BackgroundCall \/ BackgroundFaults  BY <1>2, BackgroundKinds
<1>3. CASE Reading
  <2>1. db = "open"
    BY <1>3 DEF Reading, StartGet, EndGet, GetSnapshot, ReleaseSnapshot, FilesInv, AtRest
  <2>. QED
    BY <1>3, <2>1 DEF Still, Reading, StartGet, EndGet, GetSnapshot, ReleaseSnapshot, disk,
                      background, promises, Running
<1>4. CASE StartClose
  BY <1>4 DEF Still, StartClose, disk, client, promises, Running
<1>. QED  BY <1>1, <1>2, <1>3, <1>4 DEF Next, Open, Reading

\* A synced log reads as before.
LEMMA SyncedLogged ==
  ASSUME TypedInv, FilesInv, log' = log \/ SyncsLog
  PROVE  /\ \A b : Logged(log', b) = Logged(log, b)
         /\ DOMAIN log' = DOMAIN log
         /\ \A n \in DOMAIN log : log'[n].recs = log[n].recs
<1>1. CASE log' = log  BY <1>1
<1>2. CASE SyncsLog
  <2>1. logfile \in DOMAIN log  BY <1>2 DEF SyncsLog, FilesInv, UpInv, Up
  <2>2. DiskOK  BY DEF TypedInv, Typed
  <2>3. /\ DOMAIN log' = DOMAIN log
        /\ \A n \in DOMAIN log : n # logfile => log'[n] = log[n]
        /\ log'[logfile] = [recs |-> log[logfile].recs, synced |-> Len(log[logfile].recs)]
    BY <1>2, <2>1, <2>2, LogSynced DEF SyncsLog
  <2>4. log'[logfile].recs = log[logfile].recs  BY <2>3
  <2>5. \A n \in DOMAIN log : log'[n].recs = log[n].recs  BY <2>3, <2>4
  <2>6. \A b : Logged(log', b) = Logged(log, b)  BY <2>3, <2>5 DEF Logged
  <2>. QED  BY <2>3, <2>5, <2>6
<1>. QED  BY <1>1, <1>2

LEMMA AppendReadable ==
  ASSUME NEW q \in Seq(Record), NEW r \in Record
  PROVE  /\ Readable(q) \subseteq Readable(Append(q, r))
         /\ Readable(Append(q, r)) \subseteq Readable(q) \cup r.entries
<1>1. /\ Len(q) \in Nat /\ DOMAIN q = 1..Len(q)
      /\ DOMAIN Append(q, r) = 1..(Len(q) + 1)
      /\ Append(q, r)[Len(q) + 1] = r
      /\ \A i \in 1..Len(q) : Append(q, r)[i] = q[i]
  BY LenProperties, AppendProperties
<1>2. ASSUME NEW j \in 1..Len(q)
      PROVE  /\ (\A k \in 1..j : q[k] # Torn) <=> (\A k \in 1..j : Append(q, r)[k] # Torn)
             /\ j \in 1..(Len(q) + 1)
  <2>1. \A k \in 1..j : k \in 1..Len(q)  BY <1>1
  <2>. QED  BY <1>1, <2>1
<1>3. Readable(q) \subseteq Readable(Append(q, r))
  <2>1. ASSUME NEW e \in Readable(q)  PROVE e \in Readable(Append(q, r))
    <3>1. PICK j \in 1..Len(q) : (\A k \in 1..j : q[k] # Torn) /\ e \in q[j].entries
      BY <1>1 DEF Readable
    <3>2. j \in DOMAIN Append(q, r) /\ (\A k \in 1..j : Append(q, r)[k] # Torn)
          /\ e \in Append(q, r)[j].entries
      BY <1>1, <1>2, <3>1
    <3>. QED  BY <3>2 DEF Readable
  <2>. QED  BY <2>1
<1>4. Readable(Append(q, r)) \subseteq Readable(q) \cup r.entries
  <2>1. ASSUME NEW e \in Readable(Append(q, r))  PROVE e \in Readable(q) \cup r.entries
    <3>1. PICK j \in 1..(Len(q) + 1) :
            (\A k \in 1..j : Append(q, r)[k] # Torn) /\ e \in Append(q, r)[j].entries
      BY <1>1 DEF Readable
    <3>2. CASE j = Len(q) + 1  BY <1>1, <3>1, <3>2
    <3>3. CASE j # Len(q) + 1
      <4>1. j \in 1..Len(q)  BY <1>1, <3>3
      <4>2. (\A k \in 1..j : q[k] # Torn) /\ e \in q[j].entries  BY <1>1, <1>2, <3>1, <4>1
      <4>. QED  BY <1>1, <4>1, <4>2 DEF Readable
    <3>. QED  BY <3>2, <3>3
  <2>. QED  BY <2>1
<1>. QED  BY <1>3, <1>4

\* A record that is added is of the group, or of nothing.
LEMMA AddedLogged ==
  ASSUME TypedInv, FilesInv, NEW t \in Writer, AddsRecord(t)
  PROVE  /\ \A b : Logged(log', b) \subseteq Logged(log, b) \cup group.entries
         /\ \A b : Logged(log, b) \subseteq Logged(log', b)
         /\ Readable(log[logfile].recs) \subseteq Readable(log'[logfile].recs)
         /\ DOMAIN log' = DOMAIN log /\ logfile \in DOMAIN log
<1>0. DiskOK /\ QueueInv /\ db = "open"
  BY DEF TypedInv, Typed, AddsRecord, Logging
<1>1. logfile \in DOMAIN log  BY <1>0 DEF FilesInv, UpInv, Up
<1>2. PICK r \in {GroupRecord, Torn} : AppendToLog(r)  BY DEF AddsRecord, Logging
<1>3. r \in Record /\ r.entries \subseteq group.entries
  <2>1. r \in Record  BY <1>0, <1>2, GroupRecordTyped
  <2>2. GroupRecord.entries = group.entries /\ Torn.entries = {}  BY DEF GroupRecord, Torn
  <2>. QED  BY <2>1, <2>2
<1>4. /\ DOMAIN log' = DOMAIN log
      /\ \A n \in DOMAIN log : n # logfile => log'[n] = log[n]
      /\ log'[logfile] = [recs |-> Append(log[logfile].recs, r),
                          synced |-> log[logfile].synced]
  BY <1>0, <1>1, <1>2, <1>3, LogAppends
<1>5. log'[logfile].recs = Append(log[logfile].recs, r)  BY <1>4
<1>6. log[logfile].recs \in Seq(Record)  BY <1>0, <1>1 DEF DiskOK, IsDirectory, LogFile
<1>7. /\ Readable(log[logfile].recs) \subseteq Readable(log'[logfile].recs)
      /\ Readable(log'[logfile].recs) \subseteq Readable(log[logfile].recs) \cup group.entries
  BY <1>3, <1>5, <1>6, AppendReadable
<1>8. ASSUME NEW n \in DOMAIN log
      PROVE  /\ Readable(log[n].recs) \subseteq Readable(log'[n].recs)
             /\ Readable(log'[n].recs) \subseteq Readable(log[n].recs) \cup group.entries
  BY <1>4, <1>7
<1>9. \A b : Logged(log', b) \subseteq Logged(log, b) \cup group.entries
  BY <1>4, <1>8 DEF Logged
<1>10. \A b : Logged(log, b) \subseteq Logged(log', b)
  BY <1>4, <1>8 DEF Logged
<1>. QED  BY <1>1, <1>4, <1>7, <1>9, <1>10

\* A memtable and a log are exchanged.
LEMMA SwitchMoves ==
  ASSUME TypedInv, FilesInv, TypedInv', NEW t \in Writer, Switch(t)
  PROVE  /\ UNCHANGED <<table, manifest, current, bg, db, store, acked, durable, snapshots,
                        reader>>
         /\ db = "open" /\ imm = <<>> /\ ImmEntries = {} /\ imm' = <<mem>>
         /\ mem' = {} /\ ImmEntries' = mem
         /\ \A b : Logged(log', b) = Logged(log, b)
         /\ versions'.files = versions.files /\ versions'.log = versions.log
         /\ versions'.last = versions.last
         /\ logfile' = versions.next /\ logfile < logfile'
         /\ DOMAIN log' = DOMAIN log \cup {versions.next}
         /\ \A n \in DOMAIN log : n # versions.next /\ log'[n] = log[n]
         /\ log'[logfile'].recs = <<>> /\ log'[logfile'].synced = 0
         /\ group' = group \/ (StartGroup(t) /\ writer[t].key # NoKey)
<1>0. /\ Typed /\ DiskOK /\ DiskOK' /\ OpenOK /\ OpenOK' /\ versions \in VersionSetState
      /\ versions.next \in Nat
  BY DEF TypedInv, Typed, OpenOK, VersionSetState
<1>1. db = "open"  BY WriterIsOpen DEF Write
<1>2. /\ UNCHANGED <<table, manifest, current, bg, db, store, acked, durable, snapshots,
                     reader>>
      /\ imm = <<>> /\ imm' = <<mem>> /\ mem' = {}
      /\ versions' = [versions EXCEPT !.next = versions.next + 1]
      /\ logfile' = versions.next
      /\ log' = With(log, versions.next, [recs |-> <<>>, synced |-> 0])
      /\ group' = group \/ (StartGroup(t) /\ writer[t].key # NoKey)
  BY DEF Switch, MustWait, promises
<1>3. ImmEntries = {} /\ ImmEntries' = mem
  <2>1. ImmEntries = {}  BY <1>0, <1>2, ImmTyped
  <2>2. Range(<<mem>>) = {mem}  BY DEF Range
  <2>. QED  BY <1>2, <2>1, <2>2 DEF ImmEntries
<1>4. (\A n \in DOMAIN log : n <= logfile) /\ logfile < versions.next /\ DOMAIN log \subseteq Nat
      /\ logfile \in Nat
  BY <1>0, <1>1 DEF FilesInv, UpInv, Up, DiskOK, IsDirectory, OpenOK
<1>5. versions.next \notin DOMAIN log  BY <1>0, <1>4
<1>6. /\ \A b : Logged(log', b) = Logged(log, b)
      /\ DOMAIN log' = DOMAIN log \cup {versions.next}
      /\ \A n \in DOMAIN log : n # versions.next /\ log'[n] = log[n]
      /\ log'[versions.next].recs = <<>> /\ log'[versions.next].synced = 0
  BY <1>0, <1>2, <1>5, NewLogIs
<1>7. /\ versions'.files = versions.files /\ versions'.log = versions.log
      /\ versions'.last = versions.last
  BY <1>0, <1>2, QuietVersions
<1>. QED  BY <1>1, <1>2, <1>3, <1>4, <1>6, <1>7

\* What is deleted when a version is installed or the store is opened.
LEMMA OnlyDeletes ==
  ASSUME InstallVersion \/ Opened
  PROVE  /\ \A n \in DOMAIN table' : n \in DOMAIN table /\ table'[n] = table[n]
         /\ \A n \in DOMAIN log' : n \in DOMAIN log /\ log'[n] = log[n]
<1>1. (\E S : table' = Restricted(table, S)) \/ table' = table
  BY Zenon DEF InstallVersion, Opened, DeleteObsoleteFiles
<1>2. (\E S : log' = Restricted(log, S)) \/ log' = log
  BY Zenon DEF InstallVersion, Opened, DeleteObsoleteFiles
<1>3. \A n \in DOMAIN table' : n \in DOMAIN table /\ table'[n] = table[n]
  BY <1>1 DEF Restricted
<1>4. \A n \in DOMAIN log' : n \in DOMAIN log /\ log'[n] = log[n]
  BY <1>2 DEF Restricted
<1>. QED  BY <1>3, <1>4

LEMMA FewerTables ==
  ASSUME NEW f, NEW g, \A n \in DOMAIN g : n \in DOMAIN f /\ g[n] = f[n], NEW A
  PROVE  In(g, A) \subseteq In(f, A)
BY DEF In

LEMMA FewerLogs ==
  ASSUME NEW f, NEW g,
         \A n \in DOMAIN g : n \in DOMAIN f /\ Readable(g[n].recs) \subseteq Readable(f[n].recs),
         NEW b
  PROVE  Logged(g, b) \subseteq Logged(f, b)
BY DEF Logged

(***************************************************************************)
(* The sequence numbers                                                    *)
(***************************************************************************)
LEMMA OneWriteMore ==
  ASSUME NEW E \in SUBSET Entry, NEW F \in SUBSET Entry, NEW n \in Nat,
         OneWrite(E), OneWrite(F), UpTo(E, n), \A e \in F : n < e.s
  PROVE  OneWrite(E \cup F)
<1>1. \A e \in E, f \in F : e.s # f.s
  <2>1. \A e \in E : e.s \in Nat /\ e.s <= n  BY DEF UpTo, Entry
  <2>2. \A f \in F : f.s \in Nat /\ n < f.s  BY DEF Entry
  <2>. QED  BY <2>1, <2>2
<1>. QED  BY <1>1 DEF OneWrite

LEMMA MergedMore ==
  ASSUME NEW E, NEW F, F \subseteq E, NEW n
  PROVE  Merged(F, n) \subseteq E
BY MergedIn

\* The numbers of a group follow the last one in use and differ.
LEMMA FreshGroup ==
  ASSUME TypedInv, NEW t \in Writer, AtFront(t), StartGroup(t), writer[t].key # NoKey
  PROVE  /\ group = IdleGroup /\ group.entries = {}
         /\ OneWrite(group'.entries)
         /\ versions.last < group'.last
         /\ \A e \in group'.entries : versions.last < e.s /\ e.s <= group'.last
<1>0. QueueInv /\ versions.last \in Nat  BY DEF TypedInv, Typed, OpenOK
<1>1. 1 \in 1..Len(queue) /\ t = queue[1] /\ group = IdleGroup  BY <1>0, FirstIsFront
<1>2. group.entries = {}  BY <1>1 DEF IdleGroup
<1>3. PICK n \in GroupSizes :
        group' = [size |-> n, entries |-> GroupEntries(n), last |-> NumberOf(n)]
  BY DEF StartGroup
<1>4. n \in 1..Len(queue) /\ Len(queue) \in Nat
  BY <1>0, <1>3, LenProperties DEF GroupSizes, QueueInv, QueueShape
<1>5. group'.entries = GroupEntries(n) /\ group'.last = NumberOf(n)  BY <1>3
<1>6. \A i \in 1..n : /\ IsFiniteSet(Batches(i)) /\ Cardinality(Batches(i)) \in Nat
  <2>1. ASSUME NEW i \in 1..n
        PROVE  IsFiniteSet(Batches(i)) /\ Cardinality(Batches(i)) \in Nat
    <3>1. IsFiniteSet(1..i)  BY <1>4, FS_Interval
    <3>2. Batches(i) \in SUBSET (1..i)  BY DEF Batches
    <3>3. IsFiniteSet(Batches(i))  BY <3>1, <3>2, FS_Subset
    <3>. QED  BY <3>3, FS_CardinalityType
  <2>. QED  BY <2>1
<1>7. ASSUME NEW i \in 1..n, NEW j \in 1..n, i <= j
      PROVE  /\ Cardinality(Batches(i)) <= Cardinality(Batches(j))
             /\ i < j /\ j \in Batches(j) => Cardinality(Batches(i)) < Cardinality(Batches(j))
  <2>1. Batches(i) \in SUBSET Batches(j)  BY <1>4, <1>7 DEF Batches
  <2>2. /\ Cardinality(Batches(i)) <= Cardinality(Batches(j))
        /\ Cardinality(Batches(i)) = Cardinality(Batches(j)) => Batches(i) = Batches(j)
    BY <1>6, <2>1, FS_Subset
  <2>3. i < j => j \notin Batches(i)  BY <1>4 DEF Batches
  <2>. QED  BY <1>6, <2>2, <2>3
<1>8. \A i \in Batches(n) : /\ i \in 1..n /\ i \in Batches(i) /\ Cardinality(Batches(i)) > 0
  <2>1. ASSUME NEW i \in Batches(n)
        PROVE  i \in 1..n /\ i \in Batches(i) /\ Cardinality(Batches(i)) > 0
    <3>1. i \in 1..n /\ i \in Batches(i)  BY <1>4, <2>1 DEF Batches
    <3>2. Cardinality(Batches(i)) # 0  BY <1>6, <3>1, FS_EmptySet
    <3>. QED  BY <1>6, <3>1, <3>2
  <2>. QED  BY <2>1
<1>9. 1 \in Batches(n)  BY <1>1, <1>4 DEF Batches
<1>10. \A e \in group'.entries : \E i \in Batches(n) :
         e = [k |-> writer[queue[i]].key, s |-> versions.last + Cardinality(Batches(i))]
  BY <1>5 DEF GroupEntries, NumberOf
<1>11. group'.last = versions.last + Cardinality(Batches(n))  BY <1>5 DEF NumberOf
<1>12. n \in 1..n  BY <1>4
<1>13. versions.last < group'.last
  <2>1. Cardinality(Batches(1)) <= Cardinality(Batches(n))  BY <1>4, <1>7, <1>12
  <2>2. 1 \in 1..n  BY <1>4
  <2>. QED  BY <1>0, <1>6, <1>8, <1>9, <1>11, <1>12, <2>1, <2>2
<1>14. \A e \in group'.entries : versions.last < e.s /\ e.s <= group'.last
  <2>1. ASSUME NEW e \in group'.entries  PROVE versions.last < e.s /\ e.s <= group'.last
    <3>1. PICK i \in Batches(n) :
            e = [k |-> writer[queue[i]].key, s |-> versions.last + Cardinality(Batches(i))]
      BY <1>10
    <3>2. e.s = versions.last + Cardinality(Batches(i))  BY <3>1
    <3>3. i \in 1..n /\ i <= n /\ Cardinality(Batches(i)) > 0  BY <1>4, <1>8
    <3>4. Cardinality(Batches(i)) <= Cardinality(Batches(n))  BY <1>7, <1>12, <3>3
    <3>. QED  BY <1>0, <1>6, <1>11, <1>12, <3>2, <3>3, <3>4
  <2>. QED  BY <2>1
<1>15. OneWrite(group'.entries)
  <2>1. ASSUME NEW e \in group'.entries, NEW f \in group'.entries, e.s = f.s  PROVE e = f
    <3>1. PICK i \in Batches(n) :
            e = [k |-> writer[queue[i]].key, s |-> versions.last + Cardinality(Batches(i))]
      BY <1>10
    <3>2. PICK j \in Batches(n) :
            f = [k |-> writer[queue[j]].key, s |-> versions.last + Cardinality(Batches(j))]
      BY <1>10
    <3>3. i \in 1..n /\ j \in 1..n /\ i \in Batches(i) /\ j \in Batches(j)  BY <1>8
    <3>4. Cardinality(Batches(i)) = Cardinality(Batches(j))
      BY <1>0, <1>6, <2>1, <3>1, <3>2, <3>3
    <3>5. ~(i < j) /\ ~(j < i)  BY <1>4, <1>6, <1>7, <3>3, <3>4
    <3>6. i = j  BY <1>4, <3>3, <3>5
    <3>. QED  BY <3>1, <3>2, <3>6
  <2>. QED  BY <2>1 DEF OneWrite
<1>. QED  BY <1>1, <1>2, <1>13, <1>14, <1>15

LEMMA FoundTyped ==
  ASSUME DiskOK, NEW st
  PROVE  FoundIn(table, log, st) \subseteq Entry
BY InTyped, LoggedTyped DEF FoundIn, Tab

LEMMA UsedTyped ==
  ASSUME TypedInv
  PROVE  Used \subseteq Entry /\ group.entries \subseteq Entry
         /\ Shown(table, versions.files) \subseteq Entry
<1>1. DiskOK /\ OpenOK /\ group.entries \subseteq Entry /\ mem \subseteq Entry
  BY DEF TypedInv, Typed, OpenOK, QueueInv, GroupShape
<1>2. ImmEntries \subseteq Entry  BY <1>1, ImmTyped
<1>3. Shown(table, versions.files) \subseteq Entry  BY <1>1, <1>2, InTyped DEF Shown, Tab
<1>4. Logged(log, versions.log) \subseteq Entry  BY <1>1, LoggedTyped
<1>5. \A st \in Possible : FoundIn(table, log, st) \subseteq Entry  BY <1>1, FoundTyped
<1>. QED  BY <1>1, <1>3, <1>4, <1>5 DEF Used

LEMMA NoGroup ==
  ASSUME TypedInv, db # "open"
  PROVE  group = IdleGroup /\ group.entries = {} /\ group.size = 0
<1>1. group = IdleGroup  BY DEF TypedInv, QueueInv, GroupShape, InProgress
<1>. QED  BY <1>1 DEF IdleGroup

\* What a group that is or is not begun means for the numbers.
GroupStays ==
  \/ group' = group
  \/ /\ group.entries = {} /\ OneWrite(group'.entries) /\ versions.last < group'.last
     /\ \A e \in group'.entries : versions.last < e.s /\ e.s <= group'.last

LEMMA NumbersStep ==
  ASSUME TypedInv, TypedInv', NumbersInv, Up, Used' \subseteq Used \cup group.entries,
         versions'.last = versions.last, GroupStays
  PROVE  /\ OneWrite(Used' \cup group'.entries)
         /\ UpTo(Used' \ group'.entries, versions'.last)
         /\ \A e \in group'.entries : versions'.last < e.s /\ e.s <= group'.last
         /\ group'.size # 0 => versions'.last < group'.last
<1>0. Used \subseteq Entry /\ versions.last \in Nat /\ group.entries \subseteq Entry
      /\ group'.entries \subseteq Entry
  BY UsedTyped DEF TypedInv, Typed, OpenOK, QueueInv, GroupShape
<1>1. /\ OneWrite(Used \cup group.entries) /\ UpTo(Used \ group.entries, versions.last)
      /\ \A e \in group.entries : versions.last < e.s /\ e.s <= group.last
      /\ group.size # 0 => versions.last < group.last
  BY DEF NumbersInv
<1>2. PICK U : U = Used'  OBVIOUS
<1>3. PICK G : G = group'  OBVIOUS
<1>4. CASE group' = group
  <2>1. U \cup G.entries \subseteq Used \cup group.entries  BY <1>2, <1>3, <1>4
  <2>2. OneWrite(U \cup G.entries)  BY <1>1, <2>1, OneWriteFewer
  <2>3. UpTo(U \ G.entries, versions.last)
    <3>1. U \ G.entries \subseteq Used \ group.entries  BY <1>2, <1>3, <1>4
    <3>. QED  BY <1>1, <3>1 DEF UpTo
  <2>. QED  BY <1>1, <1>2, <1>3, <1>4, <2>2, <2>3
<1>5. CASE /\ group.entries = {} /\ OneWrite(group'.entries) /\ versions.last < group'.last
           /\ \A e \in group'.entries : versions.last < e.s /\ e.s <= group'.last
  <2>1. U \subseteq Used /\ UpTo(Used, versions.last)
    <3>1. Used \ {} = Used  OBVIOUS
    <3>. QED  BY <1>1, <1>2, <1>5, <3>1
  <2>2. UpTo(U, versions.last) /\ OneWrite(U)
    <3>1. OneWrite(Used)  BY <1>1, OneWriteFewer
    <3>. QED  BY <2>1, <3>1, OneWriteFewer DEF UpTo
  <2>3. OneWrite(U \cup G.entries)
    <3>1. U \in SUBSET Entry /\ G.entries \in SUBSET Entry  BY <1>0, <1>3, <2>1
    <3>2. OneWrite(G.entries) /\ \A e \in G.entries : versions.last < e.s  BY <1>3, <1>5
    <3>. QED  BY ONLY <1>0, <2>2, <3>1, <3>2, OneWriteMore
  <2>4. UpTo(U \ G.entries, versions.last)  BY <2>2 DEF UpTo
  <2>. QED  BY <1>2, <1>3, <1>5, <2>3, <2>4
<1>. QED  BY <1>4, <1>5 DEF GroupStays

\* Every table is below the last number, and so are all files together.
LEMMA TablesUpTo ==
  ASSUME NEW tb, NEW n, \A m \in DOMAIN tb : UpTo(tb[m].entries, n), NEW files
  PROVE  UpTo(Tab(tb, files), n)
BY DEF UpTo, Tab, In

LEMMA PossibleStays ==
  ASSUME TypedInv, FilesInv, TablesStay, NEW st \in Possible
  PROVE  Tab(table', st.files) = Tab(table, st.files)
<1>1. Stored(Numbers(st.files))  BY DEF FilesInv, DescriptorInv, Openable
<1>. QED  BY <1>1, StoredIn DEF Tab

\* A step of a running process that only logs, writes tables or begins a group.
LEMMA NumbersStay ==
  ASSUME TypedInv, FilesInv, TypedInv', NumbersInv, Running, Running',
         Possible' = Possible, Described' = Described, TablesStay,
         versions'.files = versions.files, versions'.log = versions.log,
         versions'.last = versions.last,
         mem' \cup ImmEntries' \subseteq mem \cup ImmEntries,
         \A b : Logged(log', b) \subseteq Logged(log, b) \cup group.entries,
         \A n \in DOMAIN table' : (n \in DOMAIN table /\ table'[n] = table[n])
                                    \/ UpTo(table'[n].entries, versions.last),
         bg'.pc = "append" => (bg.pc = "append" /\ bg'.edit = bg.edit)
                                \/ bg'.edit.last = versions.last,
         GroupStays
  PROVE  NumbersInv'
<1>0. /\ Typed /\ DescriptorInv /\ UpInv /\ JobInv /\ Up /\ Up' /\ Described \in Possible
      /\ \A st \in Possible : Tab(table', st.files) = Tab(table, st.files)
  <2>1. Typed /\ DescriptorInv /\ UpInv /\ JobInv  BY DEF TypedInv, FilesInv
  <2>2. Up /\ Described \in Possible  BY <2>1, UpFacts
  <2>3. Up'  BY DEF Up, Running
  <2>. QED  BY <2>1, <2>2, <2>3, PossibleStays
<1>1. Tab(table', versions.files) = Tab(table, versions.files)  BY WorkStays
<1>2. Used' \subseteq Used \cup group.entries
  <2>1. (Shown(table, versions.files))' \subseteq Shown(table, versions.files)
    BY <1>1 DEF Shown
  <2>2. PICK b : b = versions.log  OBVIOUS
  <2>3. Logged(log', versions'.log) \subseteq Logged(log, b) \cup group.entries  BY <2>2
  <2>4. \A st \in Possible :
          FoundIn(table', log', st) \subseteq FoundIn(table, log, st) \cup group.entries
    BY <1>0 DEF FoundIn
  <2>. QED  BY <1>0, <2>1, <2>2, <2>3, <2>4 DEF Used
<1>3. /\ OneWrite(Used' \cup group'.entries)
      /\ UpTo(Used' \ group'.entries, versions'.last)
      /\ \A e \in group'.entries : versions'.last < e.s /\ e.s <= group'.last
      /\ group'.size # 0 => versions'.last < group'.last
  BY <1>0, <1>2, NumbersStep
<1>4. UpTo(mem' \cup ImmEntries', versions'.last)
  <2>1. UpTo(mem \cup ImmEntries, versions.last)  BY DEF NumbersInv
  <2>. QED  BY <2>1 DEF UpTo
<1>5. \A n \in DOMAIN table' : UpTo(table'[n].entries, versions'.last)
  <2>1. \A n \in DOMAIN table : UpTo(table[n].entries, versions.last)  BY DEF NumbersInv
  <2>. QED  BY <2>1
<1>6. \A st \in Possible' : UpTo(Tab(table', st.files), st.last)
  BY <1>0 DEF NumbersInv
<1>7. bg'.pc = "append" =>
        UpTo(Tab(table', Described'.files \cup bg'.edit.add), bg'.edit.last)
  <2>1. CASE bg.pc = "append" /\ bg'.edit = bg.edit
    <3>1. UpTo(Tab(table, Described.files \cup bg.edit.add), bg.edit.last)
      BY <2>1 DEF NumbersInv
    <3>2. PICK F : F = Described.files  OBVIOUS
    <3>3. PICK A : A = bg.edit.add  OBVIOUS
    <3>4. Tab(table', F) = Tab(table, F)  BY <1>0, <3>2
    <3>5. Tab(table', A) = Tab(table, A)  BY <2>1, <3>3, WorkStays DEF Editing
    <3>6. Tab(table', F \cup A) = Tab(table, F \cup A)
      <4>1. Tab(table', F \cup A) = Tab(table', F) \cup Tab(table', A)  BY ONLY TabUnion
      <4>2. Tab(table, F \cup A) = Tab(table, F) \cup Tab(table, A)  BY ONLY TabUnion
      <4>. QED  BY ONLY <3>4, <3>5, <4>1, <4>2
    <3>. QED  BY <2>1, <3>1, <3>2, <3>3, <3>6
  <2>2. CASE bg'.edit.last = versions.last
    <3>1. PICK F : F = Described'.files \cup bg'.edit.add  OBVIOUS
    <3>2. UpTo(Tab(table', F), versions'.last)  BY <1>5, TablesUpTo
    <3>. QED  BY <2>2, <3>1, <3>2
  <2>. QED  BY <2>1, <2>2
<1>8. db' \notin {"replay", "switch", "clean"}  BY DEF Running
<1>. QED  BY <1>0, <1>3, <1>4, <1>5, <1>6, <1>7, <1>8 DEF NumbersInv

\* The end of a group uses its numbers up.
LEMMA CommitFacts ==
  ASSUME TypedInv, NEW t \in Writer, Insert(t) \/ GiveUp(t)
  PROVE  /\ UNCHANGED <<log, table, manifest, current, imm, bg, db, logfile, snapshots, reader>>
         /\ versions'.files = versions.files /\ versions'.log = versions.log
         /\ versions'.last = group.last
         /\ group' = IdleGroup /\ db = "open" /\ group.size # 0
         /\ mem' = mem \/ (Insert(t) /\ mem' = mem \cup group.entries)
<1>0. QueueInv /\ versions \in VersionSetState
  BY DEF TypedInv, Typed, OpenOK, VersionSetState
<1>1. /\ UNCHANGED <<log, table, manifest, current, imm, bg, db, logfile, snapshots, reader>>
      /\ mem' = mem \/ (Insert(t) /\ mem' = mem \cup group.entries)
  BY DEF Insert, GiveUp, disk, background
<1>2. (\E w : Commit(t, w)) /\ writer[t].pc \in InProgress
  BY DEF Insert, GiveUp, Leading, InProgress
<1>3. versions' = [versions EXCEPT !.last = group.last] /\ group' = IdleGroup
  BY <1>2 DEF Commit
<1>4. versions'.files = versions.files /\ versions'.log = versions.log
      /\ versions'.last = group.last
  BY <1>0, <1>3 DEF VersionSetState
<1>5. db = "open" /\ group.size \in 1..Len(queue)  BY <1>0, <1>2, Leader
<1>. QED  BY <1>1, <1>3, <1>4, <1>5

LEMMA CommitKeepsNumbers ==
  ASSUME TypedInv, FilesInv, TypedInv', NumbersInv, NEW t \in Writer, Insert(t) \/ GiveUp(t)
  PROVE  NumbersInv'
<1>1. /\ UNCHANGED <<log, table, manifest, current, imm, bg, db>>
      /\ versions'.files = versions.files /\ versions'.log = versions.log
      /\ versions'.last = group.last
      /\ group' = IdleGroup /\ db = "open" /\ group.size # 0
      /\ mem' = mem \/ mem' = mem \cup group.entries
  BY CommitFacts
<1>2. group'.entries = {} /\ group'.size = 0  BY <1>1 DEF IdleGroup
<1>3. /\ versions.last \in Nat /\ group.last \in Nat /\ versions.last < group.last
      /\ Used \subseteq Entry /\ group.entries \subseteq Entry
      /\ mem \cup ImmEntries \subseteq Entry
  <2>1. versions.last \in Nat /\ group.last \in Nat
    BY DEF TypedInv, Typed, OpenOK, QueueInv, GroupShape
  <2>2. mem \cup ImmEntries \subseteq Entry  BY UsedTyped DEF Shown
  <2>. QED  BY <1>1, <2>1, <2>2, UsedTyped DEF NumbersInv
<1>4. Running /\ Up /\ Running' /\ Up'  BY <1>1 DEF Running, Up
<1>5. ImmEntries' = ImmEntries /\ Possible' = Possible /\ Described' = Described
  BY <1>1 DEF ImmEntries, Possible, Described
<1>6. Used' \subseteq Used \cup group.entries
  <2>1. (Shown(table, versions.files))' \subseteq Shown(table, versions.files) \cup group.entries
    BY <1>1, <1>5 DEF Shown
  <2>. QED  BY <1>1, <1>4, <1>5, <2>1 DEF Used
<1>7. UpTo(Used \cup group.entries, group.last)
  <2>1. UpTo(Used \ group.entries, versions.last)  BY <1>4 DEF NumbersInv
  <2>2. UpTo(group.entries, group.last)  BY DEF NumbersInv, UpTo
  <2>3. UpTo(Used \ group.entries, group.last)
    <3>1. Used \ group.entries \in SUBSET Entry  BY <1>3
    <3>. QED  BY <1>3, <2>1, <3>1, UpToMore
  <2>. QED  BY <2>2, <2>3 DEF UpTo
<1>8. OneWrite(Used' \cup group'.entries) /\ UpTo(Used' \ group'.entries, versions'.last)
  <2>1. PICK U : U = Used'  OBVIOUS
  <2>2. OneWrite(U)  BY <1>6, <2>1, OneWriteFewer DEF NumbersInv
  <2>3. U \cup group'.entries = U  BY <1>2
  <2>4. UpTo(U \ group'.entries, group.last)  BY <1>6, <1>7, <2>1 DEF UpTo
  <2>. QED  BY <1>1, <2>1, <2>2, <2>3, <2>4
<1>9. UpTo(mem' \cup ImmEntries', versions'.last)
  <2>1. UpTo(mem \cup ImmEntries, versions.last)  BY <1>4 DEF NumbersInv
  <2>2. UpTo(mem \cup ImmEntries, group.last)  BY <1>3, <2>1, UpToMore
  <2>3. UpTo(group.entries, group.last)  BY DEF NumbersInv, UpTo
  <2>. QED  BY <1>1, <1>5, <2>2, <2>3 DEF UpTo
<1>10. \A n \in DOMAIN table' : UpTo(table'[n].entries, versions'.last)
  <2>1. ASSUME NEW n \in DOMAIN table  PROVE UpTo(table[n].entries, group.last)
    <3>1. UpTo(table[n].entries, versions.last)  BY <1>4 DEF NumbersInv
    <3>2. table[n].entries \in SUBSET Entry
      BY DEF TypedInv, Typed, DiskOK, IsDirectory, TableFile
    <3>. QED  BY <1>3, <3>1, <3>2, UpToMore
  <2>. QED  BY <1>1, <2>1
<1>11. \A st \in Possible' : UpTo(Tab(table', st.files), st.last)
  BY <1>1, <1>5 DEF NumbersInv
<1>12. bg'.pc = "append" =>
         UpTo(Tab(table', Described'.files \cup bg'.edit.add), bg'.edit.last)
  BY <1>1, <1>5 DEF NumbersInv
<1>13. db' \notin {"replay", "switch", "clean"}  BY <1>1
<1>. QED  BY <1>2, <1>8, <1>9, <1>10, <1>11, <1>12, <1>13 DEF NumbersInv

\* What an edit brings was there already: the immutable memtable, or older tables.
LEMMA EditSources ==
  ASSUME TypedInv, FilesInv, WorkInv, Editing
  PROVE  /\ Tab(table, bg.edit.add) \subseteq Shown(table, versions.files)
         /\ Logged(log, bg.edit.log) \subseteq Logged(log, versions.log)
         /\ Running
<1>0. JobShape /\ DiskOK /\ versions.log \in Nat /\ logfile \in Nat /\ UpInv
  BY DEF TypedInv, Typed, OpenOK, FilesInv
<1>1. Running /\ Up  BY <1>0 DEF JobShape, Editing, Running, Up
<1>2. CASE bg.edit.del = {}
  <2>1. Tab(table, bg.edit.add) = ImmEntries /\ bg.edit.log = logfile
    BY <1>2 DEF WorkInv, FilesInv, JobInv, EditInv
  <2>2. versions.log <= logfile /\ DOMAIN log \subseteq Nat
    BY <1>0, <1>1 DEF UpInv, DiskOK, IsDirectory
  <2>3. PICK a : a = versions.log  OBVIOUS
  <2>4. PICK b : b = logfile  OBVIOUS
  <2>5. Logged(log, b) \subseteq Logged(log, a)
    <3>1. \A n \in DOMAIN log : n >= b => n >= a  BY <1>0, <2>2, <2>3, <2>4
    <3>. QED  BY <3>1 DEF Logged
  <2>. QED  BY <1>1, <2>1, <2>3, <2>4, <2>5 DEF Shown
<1>3. CASE bg.edit.del # {}
  <2>1. /\ Tab(table, bg.edit.add) = Merged(Tab(table, bg.inputs), bg.smallest)
        /\ bg.edit.log = versions.log
    BY <1>3 DEF WorkInv, FilesInv, JobInv, EditInv
  <2>2. bg.inputs \subseteq versions.files  BY DEF FilesInv, JobInv
  <2>3. Merged(Tab(table, bg.inputs), bg.smallest) \subseteq Tab(table, bg.inputs)
    BY MergedIn
  <2>4. Tab(table, bg.inputs) \subseteq Tab(table, versions.files)  BY <2>2, TabMore
  <2>. QED  BY <1>1, <2>1, <2>3, <2>4 DEF Shown
<1>. QED  BY <1>2, <1>3

LEMMA AddsEditFacts ==
  ASSUME TypedInv, FilesInv, WorkInv, AddsEdit
  PROVE  /\ UNCHANGED <<log, table, current, mem, imm, logfile, group, db, versions, store,
                        acked, durable, snapshots, reader>>
         /\ Running /\ Editing /\ bg.pc = "append" /\ bg'.pc # "append"
         /\ ImmEntries' = ImmEntries
         /\ Described'.files = (Described.files \ bg.edit.del) \cup bg.edit.add
         /\ bg.edit.del # {} => bg.edit.del = bg.inputs
         /\ Described'.log = bg.edit.log /\ Described'.last = bg.edit.last
         /\ Possible' = Possible \cup {Described'} /\ Described \in Possible
         /\ versions.files \subseteq Described.files
         /\ bg'.inputs # {} => bg'.inputs = bg.inputs /\ bg'.smallest = bg.smallest
<1>0. Typed /\ JobShape /\ bg \in BgState /\ DescriptorInv /\ UpInv
  BY DEF TypedInv, Typed, BackgroundOK, BgState, FilesInv
<1>1. Running /\ bg.pc = "append" /\ AppendEdit /\ (AppendToManifest \/ ManifestFails)
  BY DEF AddsEdit
<1>2. UNCHANGED <<log, table, current, mem, imm, logfile, group, db, versions, store,
                  acked, durable, snapshots, reader>>
  BY <1>1 DEF AppendToManifest, ManifestFails, client, promises
<1>3. bg'.pc # "append" /\ (bg'.inputs # {} => bg'.inputs = bg.inputs /\ bg'.smallest = bg.smallest)
  <2>1. CASE AppendToManifest
    <3>1. bg' = [bg EXCEPT !.pc = "sync"]  BY <2>1 DEF AppendToManifest
    <3>. QED  BY <1>0, <3>1 DEF BgState
  <2>2. CASE ManifestFails
    <3>1. PICK outputs : JobFails(outputs)  BY <2>2 DEF ManifestFails
    <3>2. bg'.pc = bg.back  BY <1>0, <3>1, FailedJob
    <3>3. bg.back # "append"  BY <1>0 DEF BgState
    <3>4. CASE bg.back = "idle"
      <4>1. bg' = IdleBg  BY <3>1, <3>4 DEF JobFails, EndCall
      <4>. QED  BY <3>2, <3>3, <4>1 DEF IdleBg
    <3>5. CASE bg.back # "idle"
      <4>1. bg' = [bg EXCEPT !.pc = bg.back, !.back = "idle", !.num = 0]
        BY <3>1, <3>5 DEF JobFails
      <4>2. bg'.inputs = bg.inputs /\ bg'.smallest = bg.smallest  BY <1>0, <4>1 DEF BgState
      <4>. QED  BY <3>2, <3>3, <4>2
    <3>. QED  BY <3>4, <3>5
  <2>. QED  BY <1>1, <2>1, <2>2
<1>4. Editing /\ ImmEntries' = ImmEntries  BY <1>1, <1>2 DEF Editing, ImmEntries
<1>5. /\ Described'.files = (Described.files \ bg.edit.del) \cup bg.edit.add
      /\ Described'.log = bg.edit.log /\ Described'.last = bg.edit.last
      /\ Possible' = Possible \cup {Described'}
  BY <1>1, <1>2, <1>4, AppendsEdit
<1>6. Described \in Possible  BY <1>0, <1>1, UpFacts
<1>7. versions.files \subseteq Described.files  BY <1>1 DEF WorkInv
<1>8. bg.edit.del # {} => bg.edit.del = bg.inputs  BY <1>0, <1>4 DEF JobShape, Editing
<1>. QED  BY <1>1, <1>2, <1>3, <1>4, <1>5, <1>6, <1>7, <1>8

LEMMA NumbersRunning ==
  ASSUME TypedInv, TypedInv', NumbersInv, Running, Running', Used' \subseteq Used,
         versions'.last = versions.last, group' = group,
         mem' \cup ImmEntries' \subseteq mem \cup ImmEntries,
         \A n \in DOMAIN table' : n \in DOMAIN table /\ table'[n] = table[n],
         \A st \in Possible' : UpTo(Tab(table', st.files), st.last),
         bg'.pc # "append"
  PROVE  NumbersInv'
<1>1. Up  BY DEF Up, Running
<1>2. /\ OneWrite(Used' \cup group'.entries)
      /\ UpTo(Used' \ group'.entries, versions'.last)
      /\ \A e \in group'.entries : versions'.last < e.s /\ e.s <= group'.last
      /\ group'.size # 0 => versions'.last < group'.last
  BY <1>1, NumbersStep DEF GroupStays
<1>3. UpTo(mem' \cup ImmEntries', versions'.last)
  <2>1. UpTo(mem \cup ImmEntries, versions.last)  BY DEF NumbersInv
  <2>. QED  BY <2>1 DEF UpTo
<1>4. \A n \in DOMAIN table' : UpTo(table'[n].entries, versions'.last)
  BY DEF NumbersInv
<1>5. db' \notin {"replay", "switch", "clean"}  BY DEF Running
<1>. QED  BY <1>2, <1>3, <1>4, <1>5 DEF NumbersInv

LEMMA AddsEditKeepsNumbers ==
  ASSUME TypedInv, FilesInv, TypedInv', WorkInv, NumbersInv, AddsEdit
  PROVE  NumbersInv'
<1>1. /\ UNCHANGED <<log, table, mem, group, db, versions>>
      /\ Running /\ Editing /\ bg.pc = "append" /\ bg'.pc # "append"
      /\ ImmEntries' = ImmEntries
      /\ Described'.files = (Described.files \ bg.edit.del) \cup bg.edit.add
      /\ Described'.log = bg.edit.log /\ Described'.last = bg.edit.last
      /\ Possible' = Possible \cup {Described'} /\ Described \in Possible
  BY AddsEditFacts
<1>2. /\ Tab(table, bg.edit.add) \subseteq Shown(table, versions.files)
      /\ Logged(log, bg.edit.log) \subseteq Logged(log, versions.log)
  BY <1>1, EditSources
<1>3. Running' /\ Up /\ Up'  BY <1>1 DEF Running, Up
<1>4. PICK d : d = Described'  OBVIOUS
<1>5. PICK F : F = Described.files \cup bg.edit.add  OBVIOUS
<1>6. Tab(table, d.files) \subseteq Tab(table, F)  BY <1>1, <1>4, <1>5, TabMore
<1>7. Tab(table, F) = Tab(table, Described.files) \cup Tab(table, bg.edit.add)
  BY <1>5, TabUnion
<1>8. Tab(table, Described.files) \subseteq FoundIn(table, log, Described)  BY DEF FoundIn
<1>9. Shown(table, versions.files) \cup Logged(log, versions.log) \subseteq Used
      /\ \A st \in Possible : FoundIn(table, log, st) \subseteq Used
  BY <1>3 DEF Used
<1>10. FoundIn(table, log, d) \subseteq Used
  <2>1. Logged(log, d.log) \subseteq Used  BY <1>1, <1>2, <1>4, <1>9
  <2>2. Tab(table, d.files) \subseteq Used  BY <1>1, <1>2, <1>6, <1>7, <1>8, <1>9
  <2>. QED  BY <2>1, <2>2 DEF FoundIn
<1>11. Used' \subseteq Used
  <2>1. (Shown(table, versions.files))' = Shown(table, versions.files)  BY <1>1 DEF Shown
  <2>2. PICK P : P = Possible'  OBVIOUS
  <2>3. \A st \in P : FoundIn(table, log, st) \subseteq Used  BY <1>1, <1>4, <1>9, <1>10, <2>2
  <2>4. Used' = (Shown(table, versions.files) \cup Logged(log, versions.log))
                  \cup UNION {FoundIn(table, log, st) : st \in P}
    BY <1>1, <1>3, <2>1, <2>2 DEF Used
  <2>. QED  BY <1>9, <2>3, <2>4
<1>12. \A st \in Possible' : UpTo(Tab(table', st.files), st.last)
  <2>1. UpTo(Tab(table, F), bg.edit.last)  BY <1>1, <1>5 DEF NumbersInv
  <2>2. UpTo(Tab(table, d.files), d.last)  BY <1>1, <1>4, <1>6, <2>1 DEF UpTo
  <2>. QED  BY <1>1, <1>4, <2>2 DEF NumbersInv
<1>. QED  BY <1>1, <1>3, <1>11, <1>12, NumbersRunning

LEMMA InstallReads ==
  ASSUME TypedInv, FilesInv, WorkInv, InstallVersion
  PROVE  /\ \A A : In(table', A) \subseteq In(table, A)
         /\ \A b : Logged(log', b) \subseteq Logged(log, b)
         /\ mem' \cup ImmEntries' \subseteq mem \cup ImmEntries
         /\ Tab(table', versions'.files) \subseteq Shown(table, versions.files)
         /\ Logged(log', versions'.log) \subseteq Logged(log, versions.log)
<1>0. Typed /\ JobShape  BY DEF TypedInv, Typed
<1>1. /\ mem' = mem /\ bg.pc = "sync" /\ versions'.files = Edited
      /\ versions'.log = bg.edit.log
      /\ imm' = IF bg.edit.del # {} THEN imm ELSE <<>>
  BY <1>0, InstallFacts
<1>2. /\ \A n \in DOMAIN table' : n \in DOMAIN table /\ table'[n] = table[n]
      /\ \A n \in DOMAIN log' : n \in DOMAIN log /\ log'[n] = log[n]
  BY OnlyDeletes
<1>3. \A A : In(table', A) \subseteq In(table, A)  BY <1>2, FewerTables
<1>4. \A b : Logged(log', b) \subseteq Logged(log, b)  BY <1>2, FewerLogs
<1>5. ImmEntries' \subseteq ImmEntries
  BY <1>1 DEF ImmEntries, Range
<1>6. /\ Tab(table, bg.edit.add) \subseteq Shown(table, versions.files)
      /\ Logged(log, bg.edit.log) \subseteq Logged(log, versions.log)
  BY <1>1, EditSources DEF Editing
<1>7. Tab(table, Edited) \subseteq Shown(table, versions.files)
  <2>1. PICK D : D = versions.files \ bg.edit.del  OBVIOUS
  <2>2. Tab(table, Edited) = Tab(table, D) \cup Tab(table, bg.edit.add)
    BY <2>1, TabUnion DEF Edited
  <2>3. Tab(table, D) \subseteq Tab(table, versions.files)  BY <2>1, TabMore
  <2>. QED  BY <1>6, <2>2, <2>3 DEF Shown
<1>8. Tab(table', versions'.files) \subseteq Shown(table, versions.files)
  <2>1. PICK F : F = Edited  OBVIOUS
  <2>2. Tab(table', F) \subseteq Tab(table, F)  BY <1>3 DEF Tab
  <2>. QED  BY <1>1, <1>7, <2>1, <2>2
<1>9. Logged(log', versions'.log) \subseteq Logged(log, versions.log)
  <2>1. PICK b : b = bg.edit.log  OBVIOUS
  <2>2. Logged(log', b) \subseteq Logged(log, b)  BY <1>4
  <2>. QED  BY <1>1, <1>6, <2>1, <2>2
<1>. QED  BY <1>1, <1>3, <1>4, <1>5, <1>8, <1>9

LEMMA InstallKeepsNumbers ==
  ASSUME TypedInv, FilesInv, TypedInv', WorkInv, NumbersInv, InstallVersion
  PROVE  NumbersInv'
<1>0. Typed /\ JobShape /\ bg \in BgState /\ UpInv /\ DescriptorInv
  BY DEF TypedInv, Typed, BackgroundOK, BgState, FilesInv
<1>1. /\ UNCHANGED <<db, group>> /\ Running /\ versions'.last = versions.last
      /\ bg'.pc = bg.back
  BY <1>0, InstallFacts
<1>2. /\ \A A : In(table', A) \subseteq In(table, A)
      /\ \A b : Logged(log', b) \subseteq Logged(log, b)
      /\ mem' \cup ImmEntries' \subseteq mem \cup ImmEntries
      /\ Tab(table', versions'.files) \subseteq Shown(table, versions.files)
      /\ Logged(log', versions'.log) \subseteq Logged(log, versions.log)
  BY InstallReads
<1>3. Possible' = {Described} /\ Described \in Possible
  BY <1>0, <1>1, InstallsDescribed, UpFacts
<1>4. Running' /\ Up /\ Up' /\ bg'.pc # "append"
  BY <1>0, <1>1 DEF Running, Up, BgState
<1>5. Used' \subseteq Used
  <2>1. (Shown(table, versions.files))' \subseteq Shown(table, versions.files)
    BY <1>2 DEF Shown
  <2>2. PICK d : d = Described  OBVIOUS
  <2>3. Tab(table', d.files) \subseteq Tab(table, d.files)
        /\ Logged(log', d.log) \subseteq Logged(log, d.log)
    BY <1>2 DEF Tab
  <2>4. FoundIn(table', log', d) \subseteq FoundIn(table, log, d)  BY <2>3 DEF FoundIn
  <2>5. FoundIn(table, log, d) \subseteq Used  BY <1>3, <2>2 DEF Used
  <2>6. Shown(table, versions.files) \cup Logged(log, versions.log) \subseteq Used
    BY <1>4 DEF Used
  <2>7. Used' = (Shown(table, versions.files))' \cup Logged(log', versions'.log)
                  \cup FoundIn(table', log', d)
    <3>1. PICK P : P = Possible'  OBVIOUS
    <3>2. UNION {FoundIn(table', log', st) : st \in P} = FoundIn(table', log', d)
      BY <1>3, <2>2, <3>1
    <3>. QED  BY <1>4, <3>1, <3>2 DEF Used
  <2>. QED  BY <1>2, <2>1, <2>4, <2>5, <2>6, <2>7
<1>6. \A st \in Possible' : UpTo(Tab(table', st.files), st.last)
  <2>1. \A st \in Possible : UpTo(Tab(table, st.files), st.last)  BY DEF NumbersInv
  <2>2. \A st : Tab(table', st.files) \subseteq Tab(table, st.files)  BY <1>2 DEF Tab
  <2>. QED  BY <1>3, <2>1, <2>2 DEF UpTo
<1>7. \A n \in DOMAIN table' : n \in DOMAIN table /\ table'[n] = table[n]  BY OnlyDeletes
<1>. QED  BY <1>1, <1>2, <1>4, <1>5, <1>6, <1>7, NumbersRunning

\* The numbers when no process runs, or while one opens the store.
LEMMA NumbersAtRest ==
  ASSUME TypedInv', NumbersInv, ~Running', Used' \subseteq Used,
         \A st \in Possible' : UpTo(Tab(table', st.files), st.last),
         Up' => UpTo(Used', versions'.last),
         db' = "replay" => UpTo(Tab(table', recovery'.add) \cup recovery'.mem, recovery'.max),
         db' \in {"switch", "clean"} => UpTo(Tab(table', versions'.files), versions'.last)
  PROVE  NumbersInv'
<1>1. group'.entries = {} /\ group'.size = 0
  <2>1. db' # "open"  BY DEF Running
  <2>2. group' = IdleGroup
    BY <2>1 DEF TypedInv, QueueInv, GroupShape, InProgress
  <2>. QED  BY <2>2 DEF IdleGroup
<1>2. bg'.pc = "idle"
  BY DEF TypedInv, JobShape
<1>3. OneWrite(Used' \cup group'.entries)
  <2>1. PICK U : U = Used'  OBVIOUS
  <2>2. U \cup group'.entries \subseteq Used \cup group.entries  BY <1>1, <2>1
  <2>3. OneWrite(U \cup group'.entries)  BY <2>2, OneWriteFewer DEF NumbersInv
  <2>. QED  BY <2>1, <2>3
<1>4. Up' => UpTo(Used' \ group'.entries, versions'.last)  BY DEF UpTo
<1>. QED  BY <1>1, <1>2, <1>3, <1>4 DEF NumbersInv

\* What the descriptor could be is all that is left of a process.
LEMMA FewerUsed ==
  ASSUME ~Up', Possible' \subseteq Possible,
         \A st \in Possible' : FoundIn(table', log', st) \subseteq FoundIn(table, log, st)
  PROVE  Used' \subseteq Used
<1>1. PICK P : P = Possible'  OBVIOUS
<1>2. Used' = UNION {FoundIn(table', log', st) : st \in P}  BY <1>1 DEF Used
<1>3. \A st \in P : FoundIn(table, log, st) \subseteq Used  BY <1>1 DEF Used
<1>. QED  BY <1>1, <1>2, <1>3

LEMMA NewDBReads ==
  ASSUME NewDB, LogInv
  PROVE  /\ db' = "closed" /\ current = 0 /\ UNCHANGED <<log, table>>
         /\ \A st \in Possible' : st.files = {}
         /\ \A b : Logged(log, b) = {}
<1>. DEFINE first == [EmptyVersion EXCEPT !.next = 2]
<1>1. /\ db' = "closed" /\ current = 0 /\ current' = 1 /\ UNCHANGED <<log, table>>
      /\ manifest' = With(manifest, 1, [states |-> <<first>>, synced |-> 0])
  BY DEF NewDB
<1>2. first.files = {}  BY DEF EmptyVersion
<1>. HIDE DEF first
<1>3. manifest'[1] = [states |-> <<first>>, synced |-> 0]  BY <1>1 DEF With
<1>4. manifest'[1].states = <<first>>  BY <1>3
<1>5. \A i \in 1..Len(<<first>>) : <<first>>[i] = first
  <2>1. Len(<<first>>) = 1 /\ <<first>>[1] = first  OBVIOUS
  <2>2. \A i \in 1..1 : i = 1  OBVIOUS
  <2>. QED  BY <2>1, <2>2
<1>6. \A st \in Possible' : st = first  BY <1>1, <1>4, <1>5 DEF Possible, States
<1>7. \A n \in DOMAIN log : log[n].recs = <<>>  BY <1>1 DEF LogInv
<1>8. Readable(<<>>) = {}  BY DEF Readable
<1>9. \A b : Logged(log, b) = {}  BY <1>7, <1>8 DEF Logged
<1>. QED  BY <1>1, <1>2, <1>6, <1>9

LEMMA EndsReads ==
  ASSUME TypedInv, FilesInv, EndClose \/ Kill \/ OpenFails
  PROVE  /\ db' = "closed" /\ UNCHANGED <<log, table, current, acked, durable>>
         /\ Possible' = Possible /\ Described' = Described
<1>1. db' = "closed"  BY DEF EndClose, Kill, OpenFails, Reset
<1>2. CASE EndClose \/ Kill
  <2>1. UNCHANGED <<log, table, manifest, current, acked, durable>>
    BY <1>2 DEF EndClose, Kill, disk
  <2>. QED  BY <1>1, <2>1 DEF Possible, Described
<1>3. CASE OpenFails
  <2>1. /\ UNCHANGED <<log, table, current, acked, durable>> /\ db \in {"replay", "switch"}
        /\ manifest' = IF db = "switch"
                       THEN Restricted(manifest, DOMAIN manifest \ {versions.manifest})
                       ELSE manifest
    BY <1>3 DEF OpenFails
  <2>2. current # 0 /\ current < versions.manifest  BY <2>1 DEF FilesInv, OpeningInv
  <2>3. current \in DOMAIN manifest /\ current # versions.manifest
    BY <2>2 DEF FilesInv, DescriptorInv, TypedInv, Typed, DiskOK
  <2>4. /\ DOMAIN manifest' \subseteq DOMAIN manifest /\ current \in DOMAIN manifest'
        /\ \A n \in DOMAIN manifest' : manifest'[n] = manifest[n]
    BY <2>1, <2>3 DEF Restricted
  <2>. QED  BY <1>1, <2>1, <2>4 DEF Possible, Described
<1>. QED  BY <1>2, <1>3

\* A log that was cut reads less, and keeps what was synced.
LEMMA CutReads ==
  ASSUME NEW q \in Seq(Record), NEW p \in Seq(Record), Len(p) <= Len(q),
         \A i \in 1..Len(p) : p[i] = q[i]
  PROVE  Readable(p) \subseteq Readable(q)
<1>1. Len(p) \in Nat /\ Len(q) \in Nat /\ DOMAIN p = 1..Len(p) /\ DOMAIN q = 1..Len(q)
  BY LenProperties
<1>2. ASSUME NEW j \in 1..Len(p)
      PROVE  j \in 1..Len(q) /\ \A k \in 1..j : q[k] = p[k]
  <2>1. \A k \in 1..j : k \in 1..Len(p)  BY <1>1
  <2>. QED  BY <1>1, <2>1
<1>. QED  BY <1>1, <1>2 DEF Readable

LEMMA PowerLossReads ==
  ASSUME TypedInv, FilesInv, LogInv, PowerLoss
  PROVE  /\ db' = "closed" /\ current' = current /\ acked' = durable /\ durable' = durable
         /\ Possible' \subseteq Possible
         /\ \A st \in Possible' : st = Described'
         /\ \A n \in DOMAIN table' : n \in DOMAIN table /\ table'[n] = table[n]
         /\ \A n \in DOMAIN table : table[n].synced => n \in DOMAIN table'
         /\ DOMAIN log' = DOMAIN log
         /\ \A n \in DOMAIN log : \E l \in log[n].synced..Len(log[n].recs) :
              log'[n] = CutLog(log[n], l)
         /\ \A b : Logged(log', b) \subseteq Logged(log, b)
<1>0. Typed /\ DescriptorInv /\ DiskOK  BY DEF TypedInv, FilesInv, Typed
<1>1. /\ db' = "closed" /\ current' = current /\ acked' = durable /\ durable' = durable
      /\ table' = Restricted(table, {n \in DOMAIN table : table[n].synced})
  BY DEF PowerLoss, Reset
<1>2. /\ \A n \in DOMAIN table : table[n].synced => n \in DOMAIN table'
      /\ \A n \in DOMAIN table' : n \in DOMAIN table /\ table'[n] = table[n]
  BY <1>1 DEF Restricted
<1>3. /\ DOMAIN manifest' = DOMAIN manifest
      /\ \A n \in DOMAIN manifest :
           \E l \in manifest[n].synced..Len(manifest[n].states) :
             manifest'[n] = CutManifest(manifest[n], l)
  BY <1>0, PowerLossCuts
<1>4. ASSUME NEW n \in DOMAIN manifest
      PROVE  /\ States(manifest'[n]) \subseteq States(manifest[n])
             /\ \A st \in States(manifest'[n]) : st = LastState(manifest'[n])
  <2>1. PICK l \in manifest[n].synced..Len(manifest[n].states) :
          manifest'[n] = CutManifest(manifest[n], l)
    BY <1>3
  <2>2. manifest[n] \in Descriptor /\ manifest[n].synced <= Len(manifest[n].states)
    BY <1>0 DEF DiskOK, IsDirectory, DescriptorInv
  <2>3. /\ States(CutManifest(manifest[n], l)) \subseteq States(manifest[n])
        /\ \A st \in States(CutManifest(manifest[n], l)) :
             st = LastState(CutManifest(manifest[n], l))
    BY <2>2, CutStates
  <2>. HIDE DEF CutManifest
  <2>. QED  BY <2>1, <2>3
<1>5. Possible' \subseteq Possible /\ \A st \in Possible' : st = Described'
  <2>1. CASE current = 0  BY <1>1, <2>1 DEF Possible
  <2>2. CASE current # 0
    <3>1. current \in DOMAIN manifest  BY <1>0, <2>2 DEF DescriptorInv
    <3>. QED  BY <1>1, <1>4, <2>2, <3>1 DEF Possible, Described
  <2>. QED  BY <2>1, <2>2
<1>6. /\ DOMAIN log' = DOMAIN log
      /\ \A n \in DOMAIN log : \E l \in log[n].synced..Len(log[n].recs) :
           log'[n] = CutLog(log[n], l)
  BY <1>0, PowerLossCuts
<1>7. ASSUME NEW n \in DOMAIN log
      PROVE  Readable(log'[n].recs) \subseteq Readable(log[n].recs)
  <2>1. PICK l \in log[n].synced..Len(log[n].recs) : log'[n] = CutLog(log[n], l)  BY <1>6
  <2>2. log[n] \in LogFile  BY <1>0 DEF DiskOK, IsDirectory
  <2>3. PICK c : c = CutLog(log[n], l)  OBVIOUS
  <2>4. /\ Len(c.recs) = l /\ l <= Len(log[n].recs) /\ c.recs \in Seq(Record)
        /\ \A i \in 1..l : c.recs[i] = log[n].recs[i]
    BY <2>2, <2>3, CutLogIs
  <2>5. log[n].recs \in Seq(Record)  BY <2>2 DEF LogFile
  <2>6. Readable(c.recs) \subseteq Readable(log[n].recs)  BY <2>4, <2>5, CutReads
  <2>. QED  BY <2>1, <2>3, <2>6
<1>8. \A b : Logged(log', b) \subseteq Logged(log, b)  BY <1>6, <1>7 DEF Logged
<1>. QED  BY <1>1, <1>2, <1>5, <1>6, <1>8

LEMMA ClosingKeepsNumbers ==
  ASSUME TypedInv, FilesInv, TypedInv', LogInv, NumbersInv,
         NewDB \/ EndClose \/ Kill \/ OpenFails \/ PowerLoss
  PROVE  NumbersInv'
<1>1. db' = "closed" /\ ~Running' /\ ~Up'
  <2>1. db' = "closed"
    BY NewDBReads, EndsReads, PowerLossReads
  <2>. QED  BY <2>1 DEF Running, Up
<1>2. CASE NewDB
  <2>1. /\ UNCHANGED <<log, table>> /\ \A st \in Possible' : st.files = {}
        /\ \A b : Logged(log, b) = {}
    BY <1>2, NewDBReads
  <2>2. \A st \in Possible' : Tab(table', st.files) = {} /\ Logged(log', st.log) = {}
    BY <2>1, NoFiles
  <2>3. PICK P : P = Possible'  OBVIOUS
  <2>4. Used' = UNION {FoundIn(table', log', st) : st \in P}  BY <1>1, <2>3 DEF Used
  <2>5. \A st \in P : FoundIn(table', log', st) = {}  BY <2>2, <2>3 DEF FoundIn
  <2>6. Used' \subseteq Used  BY <2>4, <2>5
  <2>7. \A st \in Possible' : UpTo(Tab(table', st.files), st.last)  BY <2>2 DEF UpTo
  <2>. QED  BY <1>1, <2>6, <2>7, NumbersAtRest
<1>3. CASE EndClose \/ Kill \/ OpenFails
  <2>1. UNCHANGED <<log, table>> /\ Possible' = Possible  BY <1>3, EndsReads
  <2>2. \A st : FoundIn(table', log', st) = FoundIn(table, log, st)  BY <2>1
  <2>3. Used' \subseteq Used  BY <1>1, <2>1, <2>2, FewerUsed
  <2>4. \A st \in Possible' : UpTo(Tab(table', st.files), st.last)
    BY <2>1 DEF NumbersInv
  <2>. QED  BY <1>1, <2>3, <2>4, NumbersAtRest
<1>4. CASE PowerLoss
  <2>1. /\ Possible' \subseteq Possible
        /\ \A n \in DOMAIN table' : n \in DOMAIN table /\ table'[n] = table[n]
        /\ \A b : Logged(log', b) \subseteq Logged(log, b)
    BY <1>4, PowerLossReads
  <2>2. \A A : In(table', A) \subseteq In(table, A)  BY <2>1, FewerTables
  <2>3. \A st : Tab(table', st.files) \subseteq Tab(table, st.files)  BY <2>2 DEF Tab
  <2>4. \A st : FoundIn(table', log', st) \subseteq FoundIn(table, log, st)
    BY <2>1, <2>3 DEF FoundIn
  <2>5. Used' \subseteq Used  BY <1>1, <2>1, <2>4, FewerUsed
  <2>6. \A st \in Possible' : UpTo(Tab(table', st.files), st.last)
    BY <2>1, <2>3 DEF NumbersInv, UpTo
  <2>. QED  BY <1>1, <2>5, <2>6, NumbersAtRest
<1>. QED  BY <1>2, <1>3, <1>4

\* The tables of the descriptor, while the logs are replayed.
LEMMA ReplayTables ==
  ASSUME TypedInv, FilesInv, NEW number \in recovery.logs, ReplayLog(number),
         NEW st \in Possible
  PROVE  Tab(table', st.files) = Tab(table, st.files)
<1>0. /\ Typed /\ DescriptorInv /\ OpeningInv /\ DiskOK
  BY DEF TypedInv, FilesInv, Typed
<1>1. db = "replay"  BY ReplayFacts
<1>2. PICK write \in BOOLEAN, m \in SUBSET Entry : WriteRecovered(m, write)  BY ReplayFacts
<1>3. Openable(st) /\ st \in Version /\ Described.next < versions.next
      /\ versions.next \in Nat /\ Described.next \in Nat
  <2>1. Openable(st) /\ st \in Version  BY <1>0, PossibleTyped DEF DescriptorInv
  <2>2. Described.next < versions.next /\ Described \in Possible  BY <1>0, <1>1 DEF OpeningInv
  <2>3. Described \in Version  BY <1>0, <2>2, PossibleTyped
  <2>. QED  BY <2>1, <2>2, <2>3 DEF Version, TypedInv, Typed, OpenOK
<1>4. \A n \in Numbers(st.files) : n # versions.next /\ n \in DOMAIN table
  <2>1. Numbers(st.files) \subseteq Nat  BY <1>3, NumbersTyped DEF Version
  <2>2. \A n \in Numbers(st.files) : n < st.next /\ n \in DOMAIN table
    BY <1>3 DEF Openable, Stored, Below
  <2>3. st.next \in Nat /\ st.next < versions.next  BY <1>3 DEF Openable, Version
  <2>. QED  BY <1>3, <2>1, <2>2, <2>3
<1>5. \A n \in Numbers(st.files) : n \in DOMAIN table /\ n \in DOMAIN table'
                                     /\ table'[n] = table[n]
  <2>1. CASE write
    <3>1. table' = With(table, versions.next, [entries |-> m, synced |-> TRUE])
      BY <1>2, <2>1 DEF WriteRecovered
    <3>. QED  BY <1>4, <3>1 DEF With
  <2>2. CASE ~write
    <3>1. table' = table  BY <1>2, <2>2 DEF WriteRecovered
    <3>. QED  BY <1>4, <3>1
  <2>. QED  BY <2>1, <2>2
<1>. QED  BY <1>5, InSame DEF Tab

LEMMA RecoverKeepsNumbers ==
  ASSUME TypedInv, FilesInv, TypedInv', NumbersInv, Recover
  PROVE  NumbersInv'
<1>1. /\ UNCHANGED <<log, table>> /\ db' = "replay" /\ Possible' = Possible
      /\ recovery'.mem = {} /\ recovery'.add = {}
  BY RecoverReads
<1>2. ~Running' /\ ~Up'  BY <1>1 DEF Running, Up
<1>3. \A st : FoundIn(table', log', st) = FoundIn(table, log, st)  BY <1>1
<1>4. Used' \subseteq Used  BY <1>1, <1>2, <1>3, FewerUsed
<1>5. \A st \in Possible' : UpTo(Tab(table', st.files), st.last)  BY <1>1 DEF NumbersInv
<1>6. UpTo(Tab(table', recovery'.add) \cup recovery'.mem, recovery'.max)
  <2>1. PICK A : A = recovery'.add  OBVIOUS
  <2>2. Tab(table', A) = {}  BY <1>1, <2>1, NoFiles
  <2>. QED  BY <1>1, <2>1, <2>2 DEF UpTo
<1>. QED  BY <1>1, <1>2, <1>4, <1>5, <1>6, NumbersAtRest

LEMMA ReplayKeepsNumbers ==
  ASSUME TypedInv, FilesInv, TypedInv', LogInv, ReplayInv, NumbersInv,
         NEW number \in recovery.logs, ReplayLog(number)
  PROVE  NumbersInv'
<1>0. /\ Typed /\ recovery \in RecoveryState /\ DiskOK
  BY DEF TypedInv, Typed, OpenOK, RecoveryState
<1>1. UNCHANGED <<log, manifest, current, db>> /\ db = "replay" /\ number \in DOMAIN log
  BY ReplayFacts
<1>2. Possible' = Possible  BY <1>1 DEF Possible
<1>3. ~Running' /\ ~Up'  BY <1>1 DEF Running, Up
<1>4. \A st \in Possible : Tab(table', st.files) = Tab(table, st.files)  BY ReplayTables
<1>5. Used' \subseteq Used
  <2>1. \A st \in Possible' : FoundIn(table', log', st) \subseteq FoundIn(table, log, st)
    BY <1>1, <1>2, <1>4 DEF FoundIn
  <2>. QED  BY <1>2, <1>3, <2>1, FewerUsed
<1>6. \A st \in Possible' : UpTo(Tab(table', st.files), st.last)
  BY <1>2, <1>4 DEF NumbersInv
<1>7. UpTo(Tab(table', recovery'.add) \cup recovery'.mem, recovery'.max)
  <2>. DEFINE E == Tab(table, recovery.add) \cup recovery.mem
  <2>1. UpTo(E, recovery.max) /\ E \in SUBSET Entry /\ recovery.max \in Nat
    BY <1>0, <1>1, InTyped DEF NumbersInv, RecoveryState, Tab
  <2>2. \/ /\ recovery'.max = recovery.max
           /\ Tab(table', recovery'.add) \cup recovery'.mem = E
        \/ \E i \in DOMAIN log[number].recs :
             /\ recovery'.max = Larger(recovery.max, log[number].recs[i].last)
             /\ log[number].recs[i] \in Record
             /\ Tab(table', recovery'.add) \cup recovery'.mem
                  = E \cup log[number].recs[i].entries
    BY ReplayReads
  <2>. HIDE DEF E
  <2>3. CASE /\ recovery'.max = recovery.max
             /\ Tab(table', recovery'.add) \cup recovery'.mem = E
    BY <2>1, <2>3
  <2>4. ASSUME NEW i \in DOMAIN log[number].recs,
               /\ recovery'.max = Larger(recovery.max, log[number].recs[i].last)
               /\ log[number].recs[i] \in Record
               /\ Tab(table', recovery'.add) \cup recovery'.mem
                    = E \cup log[number].recs[i].entries
        PROVE  UpTo(Tab(table', recovery'.add) \cup recovery'.mem, recovery'.max)
    <3>1. PICK r \in Record : r = log[number].recs[i]  BY <2>4
    <3>2. UpTo(r.entries, r.last)  BY <1>1, <3>1 DEF LogInv, Dated, UpTo
    <3>3. r.last \in Nat /\ r.entries \in SUBSET Entry  BY DEF Record
    <3>4. PICK x : x = Larger(recovery.max, r.last)  OBVIOUS
    <3>5. x \in Nat /\ recovery.max <= x /\ r.last <= x  BY <2>1, <3>3, <3>4 DEF Larger
    <3>6. UpTo(E, x) /\ UpTo(r.entries, x)  BY <2>1, <3>2, <3>3, <3>5, UpToMore
    <3>7. UpTo(E \cup r.entries, x)  BY <3>6 DEF UpTo
    <3>. QED  BY <2>4, <3>1, <3>4, <3>7
  <2>. QED  BY <2>2, <2>3, <2>4
<1>. QED  BY <1>1, <1>3, <1>5, <1>6, <1>7, NumbersAtRest

LEMMA NewManifestKeepsNumbers ==
  ASSUME TypedInv, FilesInv, TypedInv', ReplayInv, NumbersInv, NewManifest
  PROVE  NumbersInv'
<1>0. Typed /\ DiskOK /\ versions.last \in Nat /\ recovery.max \in Nat
  BY DEF TypedInv, Typed, OpenOK
<1>1. /\ Described' = Described /\ Possible' = Possible
      /\ \A b : Logged(log', b) = Logged(log, b)
      /\ Tab(table', versions'.files)
           = Tab(table, versions.files) \cup Tab(table, recovery.add)
  BY NewManifestReads
<1>2. /\ UNCHANGED <<table, current>> /\ db = "replay" /\ db' = "switch"
      /\ versions'.last = Larger(versions.last, recovery.max)
  BY <1>0, NewManifestFacts
<1>3. ~Running' /\ ~Up'  BY <1>2 DEF Running, Up
<1>4. Used' \subseteq Used
  <2>1. \A st \in Possible' : FoundIn(table', log', st) \subseteq FoundIn(table, log, st)
    BY <1>1, <1>2 DEF FoundIn
  <2>. QED  BY <1>1, <1>3, <2>1, FewerUsed
<1>5. \A st \in Possible' : UpTo(Tab(table', st.files), st.last)
  BY <1>1, <1>2 DEF NumbersInv
<1>6. UpTo(Tab(table', versions'.files), versions'.last)
  <2>1. UpTo(Tab(table, recovery.add), recovery.max)  BY <1>2 DEF NumbersInv, UpTo
  <2>2. UpTo(Tab(table, versions.files), versions.last)
    <3>1. Described \in Possible  BY <1>2 DEF FilesInv, OpeningInv
    <3>2. versions.files = Described.files /\ versions.last = Described.last
      BY <1>2 DEF ReplayInv
    <3>. QED  BY <3>1, <3>2 DEF NumbersInv
  <2>3. PICK x : x = Larger(versions.last, recovery.max)  OBVIOUS
  <2>4. x \in Nat /\ versions.last <= x /\ recovery.max <= x  BY <1>0, <2>3 DEF Larger
  <2>5. Tab(table, versions.files) \in SUBSET Entry /\ Tab(table, recovery.add) \in SUBSET Entry
    BY <1>0, InTyped DEF Tab
  <2>6. UpTo(Tab(table, versions.files), x) /\ UpTo(Tab(table, recovery.add), x)
    BY <1>0, <2>1, <2>2, <2>4, <2>5, UpToMore
  <2>. QED  BY <1>1, <1>2, <2>3, <2>6 DEF UpTo
<1>. QED  BY <1>2, <1>3, <1>4, <1>5, <1>6, NumbersAtRest

\* The new descriptor describes what was recovered.
LEMMA SetCurrentReads ==
  ASSUME TypedInv, FilesInv, SetCurrent
  PROVE  /\ UNCHANGED <<log, table, versions, logfile, acked, durable>>
         /\ db = "switch" /\ db' = "clean" /\ current # 0 /\ current' # 0
         /\ Possible' = {Described'}
         /\ Described'.files = versions.files /\ Described'.log = versions.log
         /\ Described'.last = versions.last
<1>. DEFINE c == versions.manifest
            q == manifest[c].states
            st == [files |-> versions.files, log |-> versions.log, next |-> versions.next,
                   last |-> versions.last]
<1>0. /\ Typed /\ DescriptorInv /\ OpeningInv /\ SwitchInv /\ DiskOK /\ c \in Nat
  BY DEF TypedInv, FilesInv, Typed, OpenOK
<1>1. /\ UNCHANGED <<log, table, versions, logfile, acked, durable>>
      /\ db = "switch" /\ db' = "clean" /\ manifest' = SyncedManifest /\ current' = c
  BY DEF SetCurrent, promises
<1>2. current # 0 /\ current < c  BY <1>0, <1>1 DEF OpeningInv
<1>3. c \in DOMAIN manifest /\ q # <<>> /\ LastState(manifest[c]) = st
  BY <1>0, <1>1 DEF SwitchInv
<1>4. SyncedManifest[c] = [states |-> q, synced |-> Len(q)]
  BY <1>0, <1>3, ManifestSynced
<1>5. SyncedManifest[c].states = q /\ SyncedManifest[c].synced = Len(q)  BY <1>4
<1>6. q \in Seq(Version) /\ Len(q) \in Nat /\ Len(q) >= 1
  <2>1. manifest[c] \in Descriptor  BY <1>0, <1>3 DEF DiskOK, IsDirectory
  <2>2. q \in Seq(Version) /\ Len(q) \in Nat  BY <2>1, LenProperties DEF Descriptor
  <2>. QED  BY <1>3, <2>2, EmptySeq
<1>7. LastState(SyncedManifest[c]) = st /\ q[Len(q)] = st
  BY <1>3, <1>5 DEF LastState
<1>. HIDE DEF st
<1>8. States(SyncedManifest[c]) = {st}
  <2>1. {j \in 1..Len(q) : j >= Len(q)} = {Len(q)}  BY <1>6
  <2>. QED  BY <1>5, <1>7, <2>1 DEF States
<1>9. current \in Nat /\ c # 0  BY <1>0, <1>2 DEF DiskOK
<1>10. Possible' = {st} /\ Described' = st
  BY <1>1, <1>7, <1>8, <1>9 DEF Possible, Described
<1>11. /\ st.files = versions.files /\ st.log = versions.log /\ st.last = versions.last
  BY DEF st
<1>. QED  BY <1>1, <1>2, <1>9, <1>10, <1>11

LEMMA SetCurrentKeepsNumbers ==
  ASSUME TypedInv, FilesInv, TypedInv', AtRest', ReplayInv, NumbersInv, SetCurrent
  PROVE  NumbersInv'
<1>1. /\ UNCHANGED <<log, table, versions>> /\ db = "switch" /\ db' = "clean"
      /\ Possible' = {Described'}
      /\ Described'.files = versions.files /\ Described'.log = versions.log
      /\ Described'.last = versions.last
  BY SetCurrentReads
<1>2. ~Running' /\ Up'  BY <1>1 DEF Running, Up
<1>3. mem' = {} /\ ImmEntries' = {}
  <2>1. mem' = {} /\ imm' = <<>>  BY <1>2 DEF AtRest
  <2>2. Range(<<>>) = {}  BY DEF Range
  <2>. QED  BY <2>1, <2>2 DEF ImmEntries
<1>4. /\ FoundIn(table, log, Described) = Tab(table, versions.files)
      /\ Logged(log, versions.log) = {} /\ Described \in Possible
  BY <1>1 DEF ReplayInv, FilesInv, OpeningInv
<1>5. Used' = Tab(table, versions.files)
  <2>1. PICK d : d = Described'  OBVIOUS
  <2>2. FoundIn(table', log', d) = Tab(table, versions.files)  BY <1>1, <1>4, <2>1 DEF FoundIn
  <2>3. (Shown(table, versions.files))' = Tab(table, versions.files)
    BY <1>1, <1>3 DEF Shown
  <2>4. UNION {FoundIn(table', log', st) : st \in Possible'} = FoundIn(table', log', d)
    BY <1>1, <2>1
  <2>. QED  BY <1>1, <1>2, <1>4, <2>2, <2>3, <2>4 DEF Used
<1>6. Used' \subseteq Used  BY <1>4, <1>5 DEF Used
<1>7. UpTo(Tab(table, versions.files), versions.last)  BY <1>1 DEF NumbersInv
<1>8. \A st \in Possible' : UpTo(Tab(table', st.files), st.last)
  <2>1. PICK d : d = Described'  OBVIOUS
  <2>2. UpTo(Tab(table', d.files), d.last)  BY <1>1, <1>7, <2>1
  <2>. QED  BY <1>1, <2>1, <2>2
<1>. QED  BY <1>1, <1>2, <1>5, <1>6, <1>7, <1>8, NumbersAtRest

\* What the background thread writes into tables comes from the immutable
\* memtable or from the current tables.
LEMMA JobWrites ==
  ASSUME TypedInv, FilesInv, Next, OpenOutput \/ FinishOutput \/ \E ok \in BOOLEAN : Build(ok)
  PROVE  /\ UNCHANGED <<log, manifest, current, db, mem, imm, logfile, group, store, acked,
                        durable, snapshots, reader>>
         /\ Running /\ Running' /\ TablesStay
         /\ Possible' = Possible /\ Described' = Described /\ ImmEntries' = ImmEntries
         /\ versions'.files = versions.files /\ versions'.log = versions.log
         /\ versions'.last = versions.last
         /\ \A n \in DOMAIN table' :
              \/ n \in DOMAIN table /\ table'[n] = table[n]
              \/ table'[n].entries \subseteq ImmEntries \cup Tab(table, versions.files)
         /\ bg'.pc = "append" => bg'.edit.last = versions.last
         /\ bg'.inputs # {} => bg'.inputs = bg.inputs /\ bg'.smallest = bg.smallest
<1>0. /\ Typed /\ JobShape /\ bg \in BgState /\ OpenOK /\ versions \in VersionSetState
      /\ JobInv
  BY DEF TypedInv, Typed, BackgroundOK, BgState, OpenOK, VersionSetState, FilesInv
<1>1. /\ UNCHANGED <<log, manifest, current, db, mem, imm, logfile, group, store, acked,
                     durable, snapshots, reader>>
      /\ Running /\ bg.pc # "sync"
  BY DEF OpenOutput, FinishOutput, Build, client, promises
<1>2. Running' /\ Possible' = Possible /\ Described' = Described /\ ImmEntries' = ImmEntries
  BY <1>1 DEF Running, Possible, Described, ImmEntries
<1>3. TablesStay
  <2>1. ~InstallVersion  BY <1>1 DEF InstallVersion
  <2>2. ~PowerLoss  BY <1>2 DEF PowerLoss, Reset, Running
  <2>. QED  BY <1>1, <2>1, <2>2, RunningTables
<1>4. CASE OpenOutput
  <2>1. /\ versions' = [versions EXCEPT !.next = versions.next + 1]
        /\ table' = With(table, versions.next, [entries |-> {}, synced |-> FALSE])
        /\ bg' = [bg EXCEPT !.pc = "write", !.out = versions.next]
    BY <1>4 DEF OpenOutput
  <2>2. /\ versions'.files = versions.files /\ versions'.log = versions.log
        /\ versions'.last = versions.last
    BY <1>0, <2>1, QuietVersions
  <2>3. bg'.pc = "write" /\ bg'.inputs = bg.inputs /\ bg'.smallest = bg.smallest
    BY <1>0, <2>1 DEF BgState
  <2>4. PICK r : r = [entries |-> {}, synced |-> FALSE]  OBVIOUS
  <2>5. r.entries = {}  BY ONLY <2>4, UnsyncedTable
  <2>6. table' = With(table, versions.next, r)  BY <2>1, <2>4
  <2>7. \A n \in DOMAIN table' :
          \/ n \in DOMAIN table /\ table'[n] = table[n]
          \/ table'[n].entries = {}
    BY <2>5, <2>6 DEF With
  <2>. QED  BY <1>1, <1>2, <1>3, <2>2, <2>3, <2>7
<1>5. CASE FinishOutput
  <2>1. /\ bg'.pc = "append" /\ bg'.edit.last = versions.last
        /\ bg'.inputs = bg.inputs /\ bg'.smallest = bg.smallest
    BY <1>5, FinishedOutput
  <2>2. versions' = versions  BY <1>5 DEF FinishOutput
  <2>3. bg.out \in DOMAIN table  BY <1>0, <1>5 DEF FinishOutput, JobInv, WriteInv, Writing
  <2>4. PICK E : E = Merged(EntriesOf(Numbers(bg.inputs)), bg.smallest)  OBVIOUS
  <2>5. /\ DOMAIN table' = DOMAIN table
        /\ \A n \in DOMAIN table : n # bg.out => table'[n] = table[n]
        /\ table'[bg.out] = [entries |-> E, synced |-> TRUE]
    BY <1>0, <1>5, <2>3, <2>4, OutputWrites
  <2>6. PICK x : x = table'[bg.out]  OBVIOUS
  <2>7. x.entries = E  BY ONLY <2>5, <2>6, SyncedTable
  <2>8. E \subseteq Tab(table, versions.files)
    <3>1. EntriesOf(Numbers(bg.inputs)) = Tab(table, bg.inputs)  BY DEF EntriesOf, Tab, In
    <3>2. Merged(Tab(table, bg.inputs), bg.smallest) \subseteq Tab(table, bg.inputs)
      BY MergedIn
    <3>3. Tab(table, bg.inputs) \subseteq Tab(table, versions.files)
      BY <1>0, TabMore DEF JobInv
    <3>. QED  BY <2>4, <3>1, <3>2, <3>3
  <2>9. \A n \in DOMAIN table' :
          \/ n \in DOMAIN table /\ table'[n] = table[n]
          \/ table'[n].entries = E
    BY <2>5, <2>6, <2>7
  <2>. QED  BY <1>1, <1>2, <1>3, <2>1, <2>2, <2>8, <2>9
<1>6. ASSUME NEW ok \in BOOLEAN, Build(ok)
      PROVE  /\ versions' = versions
             /\ \A n \in DOMAIN table' :
                  \/ n \in DOMAIN table /\ table'[n] = table[n]
                  \/ table'[n].entries \subseteq ImmEntries
             /\ bg'.pc = "append" => bg'.edit.last = versions.last
             /\ bg'.inputs # {} => bg'.inputs = bg.inputs /\ bg'.smallest = bg.smallest
  <2>1. versions' = versions  BY <1>6 DEF Build
  <2>2. /\ ImmEntries = imm[1]
        /\ table' = IF ok /\ imm[1] # {}
                    THEN With(table, bg.num, [entries |-> imm[1], synced |-> TRUE])
                    ELSE table
    BY <1>0, <1>6, BuildWrites
  <2>3. PICK r : r = [entries |-> ImmEntries, synced |-> TRUE]  OBVIOUS
  <2>4. r.entries = ImmEntries  BY ONLY <2>3, SyncedTable
  <2>5. table' = With(table, bg.num, r) \/ table' = table  BY <2>2, <2>3
  <2>6. \A n \in DOMAIN table' :
          \/ n \in DOMAIN table /\ table'[n] = table[n]
          \/ table'[n].entries \subseteq ImmEntries
    <3>1. CASE table' = With(table, bg.num, r)  BY <2>4, <3>1 DEF With
    <3>2. CASE table' = table  BY <3>2
    <3>. QED  BY <2>5, <3>1, <3>2
  <2>7. bg'.pc = "append" => bg'.edit.last = versions.last  BY <1>6, BuiltTable
  <2>8. bg'.inputs # {} => bg'.inputs = bg.inputs /\ bg'.smallest = bg.smallest
    <3>1. CASE bg'.pc = "append"  BY <1>6, <3>1, BuiltTable
    <3>2. CASE bg'.pc # "append"
      <4>1. JobFails({bg.num})
        <5>1. CASE ok /\ ~shuttingDown
          <6>1. PICK ed : bg' = [bg EXCEPT !.pc = "append", !.edit = ed]
            BY <1>6, <5>1 DEF Build
          <6>. QED  BY <1>0, <3>2, <6>1 DEF BgState
        <5>2. CASE ~(ok /\ ~shuttingDown)  BY <1>6, <5>2 DEF Build
        <5>. QED  BY <5>1, <5>2
      <4>2. CASE bg.back = "idle"
        <5>1. bg' = IdleBg  BY <4>1, <4>2 DEF JobFails, EndCall
        <5>. QED  BY <5>1 DEF IdleBg
      <4>3. CASE bg.back # "idle"
        <5>1. bg' = [bg EXCEPT !.pc = bg.back, !.back = "idle", !.num = 0]
          BY <4>1, <4>3 DEF JobFails
        <5>. QED  BY <1>0, <5>1 DEF BgState
      <4>. QED  BY <4>2, <4>3
    <3>. QED  BY <3>1, <3>2
  <2>. QED  BY <2>1, <2>6, <2>7, <2>8
<1>7. CASE \E ok \in BOOLEAN : Build(ok)
  <2>1. PICK ok \in BOOLEAN : Build(ok)  BY <1>7
  <2>. QED  BY <1>1, <1>2, <1>3, <1>6, <2>1
<1>. QED  BY <1>4, <1>5, <1>7

LEMMA OpenedReads ==
  ASSUME TypedInv, FilesInv, Opened
  PROVE  /\ UNCHANGED <<current, versions, mem, imm, logfile, group, bg, snapshots, reader,
                        acked, durable>>
         /\ db = "clean" /\ db' = "open"
         /\ Possible' = Possible /\ Described' = Described /\ Possible = {Described}
         /\ Described.files = versions.files /\ Described.log = versions.log
         /\ store' = Tab(table, versions.files)
         /\ Tab(table', versions.files) = Tab(table, versions.files)
         /\ \A n \in DOMAIN table' :
              table'[n] = table[n] /\ table[n].entries \subseteq Tab(table, versions.files)
         /\ \A n \in DOMAIN log' : n \in DOMAIN log /\ log'[n] = log[n]
         /\ \A b : Logged(log', b) \subseteq Logged(log, b)
         /\ Logged(log', versions.log) = Logged(log, versions.log)
<1>0. /\ Typed /\ DescriptorInv /\ UpInv /\ DiskOK /\ AtRest
  BY DEF TypedInv, FilesInv, Typed
<1>1. /\ UNCHANGED <<current, versions, mem, imm, logfile, group, bg, snapshots, reader,
                     acked, durable, bgError>>
      /\ db = "clean" /\ db' = "open"
      /\ DeleteObsoleteFiles(versions, {}, {}, manifest)
      /\ store' = EntriesOf(Numbers(versions.files))
  BY DEF Opened, client
<1>2. ~bgError /\ bg.pc = "idle"
  BY <1>0, <1>1 DEF AtRest, Running, TypedInv, JobShape
<1>3. /\ log' = Restricted(log, LogsFrom(versions.log))
      /\ manifest' = Restricted(manifest, {n \in DOMAIN manifest : n >= versions.manifest})
      /\ table' = Restricted(table, {} \cup {} \cup Numbers(versions.files))
  BY <1>1, <1>2 DEF DeleteObsoleteFiles
<1>4. /\ DOMAIN log' = {n \in DOMAIN log : n >= versions.log}
      /\ \A n \in DOMAIN log' : log'[n] = log[n]
      /\ DOMAIN manifest' = {n \in DOMAIN manifest : n >= versions.manifest}
      /\ \A n \in DOMAIN manifest' : manifest'[n] = manifest[n]
      /\ DOMAIN table' = DOMAIN table \cap Numbers(versions.files)
      /\ \A n \in DOMAIN table' : table'[n] = table[n]
  BY <1>3 DEF Restricted, LogsFrom
<1>5. /\ current # 0 /\ versions.manifest = current /\ manifest[current].synced >= 1
      /\ Stored(Numbers(versions.files) \cup reader.files) /\ Current
  BY <1>0, <1>1, <1>2 DEF UpInv, Up
<1>6. current \in DOMAIN manifest /\ current \in Nat
  BY <1>0, <1>5 DEF DescriptorInv, DiskOK
<1>7. current \in DOMAIN manifest' /\ manifest'[current] = manifest[current]
  BY <1>4, <1>5, <1>6
<1>8. Possible' = Possible /\ Described' = Described
  BY <1>1, <1>7 DEF Possible, Described
<1>9. Possible = {Described}
  <2>. DEFINE q == manifest[current].states
  <2>0. manifest[current] \in Descriptor  BY <1>0, <1>6 DEF DiskOK, IsDirectory
  <2>1. q \in Seq(Version) /\ Len(q) \in Nat  BY <2>0, LenProperties DEF Descriptor
  <2>2. manifest[current].synced = Len(q) /\ Len(q) >= 1  BY <1>5 DEF Current
  <2>3. q # <<>>  BY <2>1, <2>2, EmptySeq
  <2>4. Described = q[Len(q)]  BY <2>3 DEF Described, LastState
  <2>5. {j \in 1..Len(q) : j >= Len(q)} = {Len(q)}  BY <2>1, <2>2
  <2>. QED  BY <1>5, <2>2, <2>4, <2>5 DEF Possible, States
<1>10. Described.files = versions.files /\ Described.log = versions.log  BY <1>5 DEF Current
<1>11. store' = Tab(table, versions.files)  BY <1>1 DEF EntriesOf, Tab, In
<1>12. Tab(table', versions.files) = Tab(table, versions.files)
  <2>1. \A n \in Numbers(versions.files) : n \in DOMAIN table /\ n \in DOMAIN table'
                                             /\ table'[n] = table[n]
    BY <1>4, <1>5 DEF Stored
  <2>. QED  BY <2>1, InSame DEF Tab
<1>13. \A n \in DOMAIN table' :
         table'[n] = table[n] /\ table[n].entries \subseteq Tab(table, versions.files)
  BY <1>4 DEF Tab, In
<1>14. \A n \in DOMAIN log' : n \in DOMAIN log /\ log'[n] = log[n]  BY <1>4
<1>15. \A b : Logged(log', b) \subseteq Logged(log, b)  BY <1>14, FewerLogs
<1>16. Logged(log', versions.log) = Logged(log, versions.log)
  <2>1. Logged(log, versions.log) \subseteq Logged(log', versions.log)  BY <1>4 DEF Logged
  <2>. QED  BY <1>15, <2>1
<1>. QED
  BY <1>1, <1>8, <1>9, <1>10, <1>11, <1>12, <1>13, <1>14, <1>15, <1>16

LEMMA OpenedKeepsNumbers ==
  ASSUME TypedInv, FilesInv, TypedInv', NumbersInv, Opened
  PROVE  NumbersInv'
<1>1. /\ UNCHANGED <<versions, mem, imm, group, bg>> /\ db = "clean" /\ db' = "open"
      /\ Possible' = Possible /\ Possible = {Described}
      /\ Described.files = versions.files
      /\ Tab(table', versions.files) = Tab(table, versions.files)
      /\ \A n \in DOMAIN table' :
           table'[n] = table[n] /\ table[n].entries \subseteq Tab(table, versions.files)
      /\ \A b : Logged(log', b) \subseteq Logged(log, b)
  BY OpenedReads
<1>2. Up /\ Up' /\ ~Running  BY <1>1 DEF Up, Running
<1>3. mem = {} /\ ImmEntries = {} /\ ImmEntries' = ImmEntries
  <2>1. mem = {} /\ imm = <<>>  BY <1>2 DEF FilesInv, AtRest
  <2>2. Range(<<>>) = {}  BY DEF Range
  <2>. QED  BY <1>1, <2>1, <2>2 DEF ImmEntries
<1>4. UpTo(Tab(table, versions.files), versions.last)  BY <1>1 DEF NumbersInv
<1>5. Used' \subseteq Used
  <2>1. (Shown(table, versions.files))' = Shown(table, versions.files)
    BY <1>1, <1>3 DEF Shown
  <2>2. PICK d : d = Described  OBVIOUS
  <2>3. FoundIn(table', log', d) \subseteq FoundIn(table, log, d)
    <3>1. Tab(table', d.files) = Tab(table, d.files)  BY <1>1, <2>2
    <3>. QED  BY <1>1, <3>1 DEF FoundIn
  <2>4. PICK b : b = versions.log  OBVIOUS
  <2>5. Logged(log', versions'.log) \subseteq Logged(log, b)  BY <1>1, <2>4
  <2>6. Used = Shown(table, versions.files) \cup Logged(log, b) \cup FoundIn(table, log, d)
    BY <1>1, <1>2, <2>2, <2>4 DEF Used
  <2>7. Used' = (Shown(table, versions.files))' \cup Logged(log', versions'.log)
                  \cup FoundIn(table', log', d)
    <3>1. PICK P : P = Possible'  OBVIOUS
    <3>2. P = {d}  BY <1>1, <2>2, <3>1
    <3>. QED  BY <1>2, <3>1, <3>2 DEF Used
  <2>. QED  BY <2>1, <2>3, <2>5, <2>6, <2>7
<1>6. /\ OneWrite(Used' \cup group'.entries)
      /\ UpTo(Used' \ group'.entries, versions'.last)
      /\ \A e \in group'.entries : versions'.last < e.s /\ e.s <= group'.last
      /\ group'.size # 0 => versions'.last < group'.last
  BY <1>1, <1>2, <1>5, NumbersStep DEF GroupStays
<1>7. UpTo(mem' \cup ImmEntries', versions'.last)  BY <1>1, <1>3 DEF UpTo
<1>8. \A n \in DOMAIN table' : UpTo(table'[n].entries, versions'.last)
  BY <1>1, <1>4 DEF UpTo
<1>9. \A st \in Possible' : UpTo(Tab(table', st.files), st.last)
  <2>1. PICK d : d = Described  OBVIOUS
  <2>2. UpTo(Tab(table, d.files), d.last)  BY <1>1, <2>1 DEF NumbersInv
  <2>. QED  BY <1>1, <2>1, <2>2
<1>10. bg'.pc = "idle"  BY <1>1, <1>2 DEF TypedInv, JobShape
<1>. QED  BY <1>1, <1>6, <1>7, <1>8, <1>9, <1>10 DEF NumbersInv

LEMMA NextKeepsNumbers ==
  ASSUME TypedInv, FilesInv, TypedInv', FilesInv', LogInv, WorkInv, ReplayInv, NumbersInv, Next
  PROVE  NumbersInv'
<1>1. CASE Still
  <2>1. /\ Running /\ Running'
        /\ UNCHANGED <<table, manifest, current, mem, imm, group>>
        /\ log' = log \/ SyncsLog
        /\ versions'.files = versions.files /\ versions'.log = versions.log
        /\ versions'.last = versions.last
        /\ bg'.pc = "append" => bg.pc = "append" /\ bg'.edit = bg.edit
    BY <1>1 DEF Still
  <2>2. \A b : Logged(log', b) \subseteq Logged(log, b) \cup group.entries
    BY <2>1, SyncedLogged
  <2>3. TablesStay  BY <2>1 DEF TablesStay
  <2>4. Possible' = Possible /\ Described' = Described /\ ImmEntries' = ImmEntries
    BY <2>1 DEF Possible, Described, ImmEntries
  <2>. QED  BY <2>1, <2>2, <2>3, <2>4, NumbersStay DEF GroupStays
<1>2. ASSUME NEW t \in Writer, Room(t)  PROVE NumbersInv'
  <2>1. db = "open"  BY <1>2, WriterIsOpen DEF Write
  <2>2. /\ UNCHANGED <<log, table, manifest, current, db, mem, imm, versions, bg>>
        /\ StartGroup(t) /\ AtFront(t) /\ writer[t].key # NoKey
    BY <1>2 DEF Room, disk, background, HasRoom
  <2>3. Running /\ Running'  BY <2>1, <2>2 DEF Running
  <2>4. GroupStays  BY <2>2, FreshGroup DEF GroupStays
  <2>5. TablesStay  BY <2>2 DEF TablesStay
  <2>6. Possible' = Possible /\ Described' = Described /\ ImmEntries' = ImmEntries
    BY <2>2 DEF Possible, Described, ImmEntries
  <2>. QED  BY <2>2, <2>3, <2>4, <2>5, <2>6, NumbersStay
<1>3. ASSUME NEW t \in Writer, Switch(t)  PROVE NumbersInv'
  <2>1. /\ UNCHANGED <<table, manifest, current, bg, db>>
        /\ db = "open" /\ mem' = {} /\ ImmEntries' = mem
        /\ \A b : Logged(log', b) = Logged(log, b)
        /\ versions'.files = versions.files /\ versions'.log = versions.log
        /\ versions'.last = versions.last
        /\ group' = group \/ (StartGroup(t) /\ writer[t].key # NoKey)
    BY <1>3, SwitchMoves
  <2>2. Running /\ Running'  BY <2>1 DEF Running
  <2>3. AtFront(t)  BY <1>3 DEF Switch
  <2>4. GroupStays  BY <2>1, <2>3, FreshGroup DEF GroupStays
  <2>5. TablesStay  BY <2>1 DEF TablesStay
  <2>6. Possible' = Possible /\ Described' = Described  BY <2>1 DEF Possible, Described
  <2>7. \A b : Logged(log', b) \subseteq Logged(log, b) \cup group.entries  BY <2>1
  <2>. QED  BY <2>1, <2>2, <2>4, <2>5, <2>6, <2>7, NumbersStay
<1>4. ASSUME NEW t \in Writer, Insert(t) \/ GiveUp(t)  PROVE NumbersInv'
  BY <1>4, CommitKeepsNumbers
<1>5. ASSUME NEW t \in Writer, AddsRecord(t)  PROVE NumbersInv'
  <2>1. /\ UNCHANGED <<table, manifest, current, db, mem, imm, versions, bg, group>>
        /\ db = "open"
    BY <1>5 DEF AddsRecord, Logging, AddRecord, AddRecordFails, background
  <2>2. \A b : Logged(log', b) \subseteq Logged(log, b) \cup group.entries
    BY <1>5, AddedLogged
  <2>3. Running /\ Running'  BY <2>1 DEF Running
  <2>4. TablesStay  BY <2>1 DEF TablesStay
  <2>5. Possible' = Possible /\ Described' = Described /\ ImmEntries' = ImmEntries
    BY <2>1 DEF Possible, Described, ImmEntries
  <2>. QED  BY <2>1, <2>2, <2>3, <2>4, <2>5, NumbersStay DEF GroupStays
<1>6. CASE OpenOutput \/ FinishOutput \/ \E ok \in BOOLEAN : Build(ok)
  <2>1. /\ UNCHANGED <<log, db, mem, group>>
        /\ Running /\ Running' /\ TablesStay
        /\ Possible' = Possible /\ Described' = Described /\ ImmEntries' = ImmEntries
        /\ versions'.files = versions.files /\ versions'.log = versions.log
        /\ versions'.last = versions.last
        /\ \A n \in DOMAIN table' :
             \/ n \in DOMAIN table /\ table'[n] = table[n]
             \/ table'[n].entries \subseteq ImmEntries \cup Tab(table, versions.files)
        /\ bg'.pc = "append" => bg'.edit.last = versions.last
    BY <1>6, JobWrites
  <2>2. UpTo(ImmEntries \cup Tab(table, versions.files), versions.last)
    <3>1. UpTo(ImmEntries, versions.last)  BY <2>1 DEF NumbersInv, UpTo
    <3>2. UpTo(Tab(table, versions.files), versions.last)
      BY <2>1, TablesUpTo DEF NumbersInv
    <3>. QED  BY <3>1, <3>2 DEF UpTo
  <2>3. \A n \in DOMAIN table' : (n \in DOMAIN table /\ table'[n] = table[n])
                                   \/ UpTo(table'[n].entries, versions.last)
    BY <2>1, <2>2 DEF UpTo
  <2>4. \A b : Logged(log', b) \subseteq Logged(log, b) \cup group.entries  BY <2>1
  <2>. QED  BY <2>1, <2>3, <2>4, NumbersStay DEF GroupStays
<1>7. CASE AddsEdit  BY <1>7, AddsEditKeepsNumbers
<1>8. CASE InstallVersion  BY <1>8, InstallKeepsNumbers
<1>9. CASE NewDB \/ EndClose \/ Kill \/ OpenFails \/ PowerLoss  BY <1>9, ClosingKeepsNumbers
<1>10. CASE Recover  BY <1>10, RecoverKeepsNumbers
<1>11. CASE \E number \in recovery.logs : ReplayLog(number)  BY <1>11, ReplayKeepsNumbers
<1>12. CASE NewManifest  BY <1>12, NewManifestKeepsNumbers
<1>13. CASE SetCurrent  BY <1>13, SetCurrentKeepsNumbers DEF FilesInv
<1>14. CASE Opened  BY <1>14, OpenedKeepsNumbers
<1>. QED
  BY <1>1, <1>2, <1>3, <1>4, <1>5, <1>6, <1>7, <1>8, <1>9, <1>10, <1>11, <1>12, <1>13, <1>14,
     NextKinds

\* What the entries and their numbers rest on.
ContentInv == LogInv /\ WorkInv /\ ReplayInv /\ NumbersInv

LEMMA InitContent ==
  ASSUME Init
  PROVE  ContentInv
<1>1. /\ log = <<>> /\ current = 0 /\ db = "closed" /\ bg = IdleBg /\ group = IdleGroup
  BY DEF Init
<1>2. /\ DOMAIN log = {} /\ bg.pc = "idle" /\ ~Running /\ ~Up /\ Possible = {}
      /\ group.entries = {} /\ group.size = 0
  BY <1>1 DEF IdleBg, IdleGroup, Running, Up, Possible
<1>3. LogInv  BY <1>2 DEF LogInv
<1>4. WorkInv  BY <1>2 DEF WorkInv, Editing
<1>5. ReplayInv  BY <1>1 DEF ReplayInv
<1>6. Used = {}  BY <1>2 DEF Used
<1>7. NumbersInv
  BY <1>1, <1>2, <1>6 DEF NumbersInv, OneWrite, UpTo
<1>. QED  BY <1>3, <1>4, <1>5, <1>7 DEF ContentInv

LEMMA ContentStutter ==
  ASSUME ContentInv, UNCHANGED vars
  PROVE  ContentInv'
<1>1. UNCHANGED <<log, table, manifest, current, db, recovery, versions, mem, imm, group,
                  bg>>
  BY DEF vars, disk, client, background
<1>2. Possible' = Possible /\ Described' = Described /\ ImmEntries' = ImmEntries
  BY <1>1 DEF Possible, Described, ImmEntries
<1>3. Used' = Used  BY <1>1, <1>2 DEF Used, Up, Shown
<1>4. LogInv'  BY <1>1 DEF ContentInv, LogInv
<1>5. WorkInv'  BY <1>1, <1>2 DEF ContentInv, WorkInv, Editing, Edited
<1>6. ReplayInv'  BY <1>1, <1>2 DEF ContentInv, ReplayInv
<1>7. NumbersInv'  BY <1>1, <1>2, <1>3 DEF ContentInv, NumbersInv, Up, Running
<1>. QED  BY <1>4, <1>5, <1>6, <1>7 DEF ContentInv

LEMMA NextKeepsContent ==
  ASSUME TypedInv, FilesInv, TypedInv', FilesInv', ContentInv, Next
  PROVE  ContentInv'
<1>1. UpTo(group.entries, group.last)  BY DEF ContentInv, NumbersInv, UpTo
<1>2. LogInv'  BY <1>1, NextKeepsLogs DEF ContentInv
<1>3. WorkInv'  BY NextKeepsWork DEF ContentInv
<1>4. ReplayInv'  BY NextKeepsRecovery DEF ContentInv
<1>5. NumbersInv'  BY NextKeepsNumbers DEF ContentInv
<1>. QED  BY <1>2, <1>3, <1>4, <1>5 DEF ContentInv

\* The files and their entries, at every step.
THEOREM ContentHolds == Spec => [](TypedInv /\ FilesInv /\ ContentInv)
<1>1. Init => TypedInv /\ FilesInv /\ ContentInv  BY InitTyped, InitFiles, InitContent
<1>2. TypedInv /\ FilesInv /\ ContentInv /\ (TypedInv /\ FilesInv)' /\ [Next]_vars
        => ContentInv'
  BY NextKeepsContent, ContentStutter
<1>3. TypedInv /\ FilesInv /\ [Next]_vars => (TypedInv /\ FilesInv)'  BY FilesStep
<1>. QED  BY <1>1, <1>2, <1>3, PTL DEF Spec

\* NumbersNameOneWrite follows: what is read from the disk or from memory was used.
LEMMA NumbersOnce ==
  ASSUME TypedInv, FilesInv, ContentInv
  PROVE  NumbersNameOneWrite
<1>0. Typed /\ DescriptorInv /\ OpeningInv /\ AtRest /\ DiskOK
  BY DEF TypedInv, FilesInv, Typed
<1>1. OneWrite(Used)  BY OneWriteFewer DEF ContentInv, NumbersInv
<1>2. Recoverable \subseteq Used
  <2>1. CASE current = 0  BY <2>1 DEF Recoverable
  <2>2. CASE current # 0
    <3>1. Recoverable = FoundIn(table, log, Described)  BY <2>2, FoundIs DEF Recoverable
    <3>2. CASE manifest[current].states # <<>>
      <4>1. Described \in Possible  BY <1>0, <2>2, <3>2, DescribedPossible
      <4>. QED  BY <3>1, <4>1 DEF Used
    <3>3. CASE manifest[current].states = <<>>
      <4>1. Described = EmptyVersion  BY <3>3 DEF Described, LastState
      <4>2. manifest[current] \in Descriptor /\ current \in DOMAIN manifest
        BY <1>0, <2>2 DEF DescriptorInv, DiskOK, IsDirectory
      <4>3. manifest[current].synced \in Nat /\ manifest[current].synced <= 0
        BY <1>0, <3>3, <4>2 DEF DescriptorInv, Descriptor
      <4>4. manifest[current].synced = 0  BY <4>3
      <4>5. \A n \in DOMAIN log : log[n].recs = <<>>  BY <4>4 DEF ContentInv, LogInv
      <4>6. Readable(<<>>) = {}  BY DEF Readable
      <4>7. \A b : Logged(log, b) = {}  BY <4>5, <4>6 DEF Logged
      <4>8. Tab(table, EmptyVersion.files) = {}  BY NoFiles DEF EmptyVersion
      <4>9. FoundIn(table, log, EmptyVersion) = {}  BY <4>7, <4>8 DEF FoundIn
      <4>. QED  BY <3>1, <4>1, <4>9
    <3>. QED  BY <3>2, <3>3
  <2>. QED  BY <2>1, <2>2
<1>3. Visible \subseteq Used
  <2>0. Visible = Shown(table, versions.files)  BY FoundIs
  <2>1. CASE Up  BY <2>0, <2>1 DEF Used
  <2>2. CASE ~Up
    <3>1. mem = {} /\ ImmEntries = {}
      <4>1. mem = {} /\ imm = <<>>  BY <1>0, <2>2 DEF AtRest, Running, Up
      <4>2. Range(<<>>) = {}  BY DEF Range
      <4>. QED  BY <4>1, <4>2 DEF ImmEntries
    <3>2. Shown(table, versions.files) = Tab(table, versions.files)  BY <3>1 DEF Shown
    <3>3. CASE db = "closed"
      <4>1. versions.files = {}  BY <1>0, <3>3 DEF AtRest, NoVersions
      <4>. QED  BY <2>0, <3>2, <4>1, NoFiles
    <3>4. CASE db = "replay"
      <4>1. Described \in Possible /\ versions.files = Described.files
        BY <1>0, <3>4 DEF OpeningInv, ContentInv, ReplayInv
      <4>. QED  BY <2>0, <3>2, <4>1 DEF Used, FoundIn
    <3>5. CASE db = "switch"
      <4>1. Described \in Possible
            /\ FoundIn(table, log, Described) = Tab(table, versions.files)
        BY <1>0, <3>5 DEF OpeningInv, ContentInv, ReplayInv
      <4>. QED  BY <2>0, <3>2, <4>1 DEF Used
    <3>. QED  BY <1>0, <2>2, <3>3, <3>4, <3>5 DEF Up, Typed, OpenOK
  <2>. QED  BY <2>1, <2>2
<1>4. \A e \in Recoverable \cup Visible, f \in Recoverable \cup Visible :
        e.s = f.s => e = f
  BY <1>1, <1>2, <1>3 DEF OneWrite
<1>. QED  BY <1>4 DEF NumbersNameOneWrite

\* NumbersNameOneWrite: a sequence number names one write, in memory and in all
\* files a recovery reads, for any number of threads, keys, faults and crashes,
\* also when a record is cut in two.
THEOREM NumbersAreOnce == Spec => []NumbersNameOneWrite
BY ContentHolds, NumbersOnce, PTL

(***************************************************************************)
(* Reads                                                                   *)
(***************************************************************************)
\* Later writes do not change an earlier view, and are the latest themselves.
LEMMA ViewAdds ==
  ASSUME NEW E \in SUBSET Entry, NEW G \in SUBSET Entry, NEW m \in Nat, NEW n \in Nat,
         m <= n, UpTo(E, m)
  PROVE  View(E \cup G, n) \subseteq G \cup View(E, m)
<1>1. \A e \in E : e.s <= m /\ e.s <= n  BY DEF UpTo, Entry
<1>. QED  BY <1>1 DEF View

\* A merge keeps whatever a view of the whole store finds in its inputs.
LEMMA MergeKeepsView ==
  ASSUME NEW S \in SUBSET Entry, NEW E, E \subseteq S, NEW m \in Nat, NEW n \in Nat, m <= n,
         NEW e \in View(S, n), e \in E
  PROVE  e \in Merged(E, m)
<1>1. \A x \in S : x.s \in Nat  BY DEF Entry
<1>2. CASE e.s > m  BY <1>2 DEF Merged
<1>3. CASE ~(e.s > m)
  <2>1. e.s <= m  BY <1>1, <1>3
  <2>2. \A x \in E : x.k = e.k /\ x.s <= m => x.s <= e.s
    <3>1. \A x \in E : x.s <= m => x.s <= n  BY <1>1
    <3>. QED  BY <3>1 DEF View
  <2>. QED  BY <2>1, <2>2 DEF Merged, View
<1>. QED  BY <1>2, <1>3

LEMMA JobEnds ==
  ASSUME bg \in BgState,
         bg' = IdleBg \/ bg' = [bg EXCEPT !.pc = bg.back, !.back = "idle", !.num = 0]
  PROVE  bg'.inputs # {} => bg'.inputs = bg.inputs /\ bg'.smallest = bg.smallest
<1>1. CASE bg' = IdleBg  BY <1>1 DEF IdleBg
<1>2. CASE bg' = [bg EXCEPT !.pc = bg.back, !.back = "idle", !.num = 0]
  BY <1>2 DEF BgState
<1>. QED  BY <1>1, <1>2

\* Who begins and ends a read or a merge.
LEMMA ReaderSteps ==
  ASSUME TypedInv, FilesInv, Next, Running, Running'
  PROVE  /\ reader' = reader \/ StartGet \/ EndGet
         /\ snapshots' = snapshots \/ GetSnapshot \/ ReleaseSnapshot
         /\ Compact \/ (bg'.inputs # {} => bg'.inputs = bg.inputs /\ bg'.smallest = bg.smallest)
<1>0. Typed /\ JobShape /\ bg \in BgState
  BY DEF TypedInv, Typed, BackgroundOK, BgState
<1>1. CASE \E t \in Writer : Submit(t) \/ Write(t) \/ WriteFaults(t)
  BY <1>1 DEF Submit, Write, WriteFaults, Refuse, Room, Wait, Switch, AddRecord,
     AddRecordFails, SyncLog, SyncLogFails, Insert, GiveUp, CheckFlushed, SwitchFails,
     background
<1>2. CASE Reading
  BY <1>2 DEF Reading, StartGet, EndGet, GetSnapshot, ReleaseSnapshot, background
<1>3. CASE BackgroundNothing \/ MergeStops \/ MergeFails
  <2>1. /\ UNCHANGED <<reader, snapshots>>
        /\ \/ bg' = IdleBg
           \/ bg' = [bg EXCEPT !.pc = bg.back, !.back = "idle", !.num = 0]
    BY <1>3 DEF BackgroundNothing, EndCall, MergeStops, MergeFails, MergeEnds, JobFails
  <2>. QED  BY <1>0, <2>1, JobEnds
<1>4. CASE Flush \/ FlushWhileMerging
  <2>1. PICK back : StartTable(back)  BY <1>4 DEF Flush, FlushWhileMerging
  <2>2. /\ UNCHANGED <<reader, snapshots>>
        /\ bg' = [bg EXCEPT !.pc = "build", !.back = back, !.num = versions.next]
    BY <2>1 DEF StartTable, client
  <2>. QED  BY <1>0, <2>2 DEF BgState
<1>5. CASE OpenOutput \/ FinishOutput \/ BuildTable \/ BuildTableFails
  <2>1. OpenOutput \/ FinishOutput \/ \E ok \in BOOLEAN : Build(ok)
    BY <1>5 DEF BuildTable, BuildTableFails
  <2>. QED  BY <2>1, JobWrites
<1>6. CASE Compact  BY <1>6 DEF Compact, client
<1>7. CASE AppendToManifest
  <2>1. UNCHANGED <<reader, snapshots>> /\ bg' = [bg EXCEPT !.pc = "sync"]
    BY <1>7 DEF AppendToManifest, client
  <2>. QED  BY <1>0, <2>1 DEF BgState
<1>8. CASE ManifestFails
  <2>1. UNCHANGED <<reader, snapshots>> /\ \E outputs : JobFails(outputs)
    BY <1>8 DEF ManifestFails
  <2>2. \/ bg' = IdleBg
        \/ bg' = [bg EXCEPT !.pc = bg.back, !.back = "idle", !.num = 0]
    BY <2>1 DEF JobFails, EndCall
  <2>. QED  BY <1>0, <2>1, <2>2, JobEnds
<1>9. CASE InstallVersion
  <2>1. UNCHANGED <<reader, snapshots>>  BY <1>9 DEF InstallVersion
  <2>2. \/ bg' = IdleBg
        \/ bg' = [bg EXCEPT !.pc = bg.back, !.back = "idle", !.num = 0]
    BY <1>9 DEF InstallVersion, EndCall
  <2>. QED  BY <1>0, <2>1, <2>2, JobEnds
<1>10. CASE StartClose  BY <1>10 DEF StartClose, client
<1>11. ~(\/ NewDB \/ Recover \/ Open \/ OpenFails \/ EndClose \/ Kill \/ PowerLoss)
  BY DEF NewDB, Recover, Open, ReplayLog, ReplayRecord, EndLog, Replaying, NewManifest,
     SetCurrent, Opened, OpenFails, EndClose, Kill, PowerLoss, Reset, Running
<1>. QED
  BY <1>1, <1>2, <1>3, <1>4, <1>5, <1>6, <1>7, <1>8, <1>9, <1>10, <1>11
     DEF Next, Reading, BackgroundCall, BackgroundFaults

\* Without a process there is nothing to read.
LEMMA RestReads ==
  ASSUME TypedInv, FilesInv, ~Running
  PROVE  ReadInv
<1>1. store = {} /\ reader = NoReader  BY DEF FilesInv, AtRest
<1>2. ~reader.on  BY <1>1 DEF FilesInv, AtRest, Running
<1>3. bg.inputs = {}
  <2>1. bg = IdleBg  BY DEF TypedInv, JobShape
  <2>. QED  BY <2>1 DEF IdleBg
<1>. QED  BY <1>1, <1>2, <1>3 DEF ReadInv, UpTo

\* A step that changes nothing a read sees.
LEMMA ReadStays ==
  ASSUME ReadInv, Running, Running', (Shown(table, versions.files))' = Shown(table, versions.files),
         store' = store, versions'.last = versions.last, snapshots' \subseteq snapshots,
         ~reader'.on \/ (reader' = reader
                           /\ In(table', reader.files) = In(table, reader.files)),
         bg'.inputs # {} => bg'.inputs = bg.inputs /\ bg'.smallest = bg.smallest
  PROVE  ReadInv'
<1>1. PICK l : l = versions.last  OBVIOUS
<1>2. PICK S : S = Shown(table, versions.files)  OBVIOUS
<1>3. Running' => S \subseteq store  BY <1>2 DEF ReadInv
<1>4. UpTo(store, l)  BY <1>1 DEF ReadInv
<1>5. \A n \in snapshots' \cup {l} : n <= l /\ View(store, n) \subseteq S
  BY <1>1, <1>2 DEF ReadInv
<1>6. reader'.on =>
        /\ reader'.snap <= l
        /\ reader'.seen \cup In(table', reader'.files) \subseteq store
        /\ View(store, reader'.snap) \subseteq reader'.seen \cup In(table', reader'.files)
  <2>1. CASE ~reader'.on  BY <2>1
  <2>2. CASE reader' = reader /\ In(table', reader.files) = In(table, reader.files)
    <3>1. PICK r : r = reader  OBVIOUS
    <3>2. In(table', r.files) = In(table, r.files)  BY <2>2, <3>1
    <3>3. r.on =>
            /\ r.snap <= l
            /\ r.seen \cup In(table, r.files) \subseteq store
            /\ View(store, r.snap) \subseteq r.seen \cup In(table, r.files)
      BY <1>1, <3>1 DEF ReadInv
    <3>. QED  BY <2>2, <3>1, <3>2, <3>3
  <2>. QED  BY <2>1, <2>2
<1>7. bg'.inputs # {} => bg'.smallest <= l /\ \A n \in snapshots' : bg'.smallest <= n
  BY <1>1 DEF ReadInv
<1>. QED  BY <1>1, <1>2, <1>3, <1>4, <1>5, <1>6, <1>7 DEF ReadInv

LEMMA StartGetKeepsReads ==
  ASSUME TypedInv, ReadInv, StartGet
  PROVE  ReadInv'
<1>0. versions.last \in Nat /\ snapshots \subseteq Nat
  BY DEF TypedInv, Typed, OpenOK, ClientsOK
<1>1. /\ UNCHANGED <<log, table, db, versions, mem, imm, snapshots, bg, store>>
      /\ db = "open"
  BY DEF StartGet, disk, background, promises
<1>2. PICK n \in snapshots \cup {versions.last} :
        reader' = [on |-> TRUE, snap |-> n,
                   seen |-> {e \in mem \cup ImmEntries : e.s <= n},
                   files |-> Numbers(versions.files)]
  BY DEF StartGet
<1>3. /\ reader'.snap = n /\ reader'.seen = {e \in mem \cup ImmEntries : e.s <= n}
      /\ reader'.files = Numbers(versions.files)
  BY <1>2
<1>4. Running /\ Running' /\ ImmEntries' = ImmEntries
  BY <1>1 DEF Running, ImmEntries
<1>5. PICK S : S = Shown(table, versions.files)  OBVIOUS
<1>6. (Shown(table, versions.files))' = S  BY <1>1, <1>4, <1>5 DEF Shown
<1>7. S = mem \cup ImmEntries \cup In(table, Numbers(versions.files))
  BY <1>5 DEF Shown, Tab
<1>8. S \subseteq store /\ n <= versions.last /\ View(store, n) \subseteq S
  BY <1>4, <1>5 DEF ReadInv
<1>9. PICK R : R = reader'.seen \cup In(table, Numbers(versions.files))  OBVIOUS
<1>10. R \subseteq store /\ View(store, n) \subseteq R
  <2>1. \A e \in View(store, n) : e.s <= n  BY DEF View
  <2>. QED  BY <1>3, <1>7, <1>8, <1>9, <2>1
<1>11. PICK r : r = reader'  OBVIOUS
<1>12. r.seen \cup In(table, r.files) = R  BY <1>3, <1>9, <1>11
<1>13. r.snap <= versions.last /\ R \subseteq store /\ View(store, r.snap) \subseteq R
  BY <1>3, <1>8, <1>10, <1>11
<1>14. /\ UpTo(store, versions.last)
       /\ \A k \in snapshots \cup {versions.last} : k <= versions.last /\ View(store, k) \subseteq S
       /\ bg.inputs # {} => bg.smallest <= versions.last /\ \A k \in snapshots : bg.smallest <= k
  BY <1>4, <1>5 DEF ReadInv
<1>. QED  BY <1>1, <1>6, <1>8, <1>11, <1>12, <1>13, <1>14 DEF ReadInv

LEMMA GetSnapshotKeepsReads ==
  ASSUME TypedInv, ReadInv, GetSnapshot
  PROVE  ReadInv'
<1>0. versions.last \in Nat  BY DEF TypedInv, Typed, OpenOK
<1>1. /\ UNCHANGED <<log, table, db, versions, mem, imm, reader, bg, store>>
      /\ db = "open" /\ snapshots' = {versions.last}
  BY DEF GetSnapshot, disk, background, promises
<1>2. Running /\ Running' /\ ImmEntries' = ImmEntries
  BY <1>1 DEF Running, ImmEntries
<1>3. PICK S : S = Shown(table, versions.files)  OBVIOUS
<1>4. (Shown(table, versions.files))' = S  BY <1>1, <1>2, <1>3 DEF Shown
<1>5. /\ S \subseteq store /\ UpTo(store, versions.last)
      /\ versions.last <= versions.last /\ View(store, versions.last) \subseteq S
      /\ bg.inputs # {} => bg.smallest <= versions.last
  BY <1>0, <1>2, <1>3 DEF ReadInv
<1>6. reader.on =>
        /\ reader.snap <= versions.last
        /\ reader.seen \cup In(table, reader.files) \subseteq store
        /\ View(store, reader.snap) \subseteq reader.seen \cup In(table, reader.files)
  BY DEF ReadInv
<1>. QED  BY <1>1, <1>4, <1>5, <1>6 DEF ReadInv

LEMMA CompactKeepsReads ==
  ASSUME TypedInv, ReadInv, Compact
  PROVE  ReadInv'
<1>0. bg \in BgState /\ versions.last \in Nat
  BY DEF TypedInv, Typed, BackgroundOK, BgState, OpenOK
<1>1. /\ UNCHANGED <<log, table, db, versions, mem, imm, reader, snapshots, store>> /\ Running
  BY DEF Compact, Idle, disk, client, promises
<1>2. PICK n \in snapshots \cup {versions.last} :
        /\ \A m \in snapshots \cup {versions.last} : n <= m
        /\ bg' = [bg EXCEPT !.pc = "merge", !.inputs = versions.files, !.smallest = n]
  BY DEF Compact
<1>3. bg'.smallest = n  BY <1>0, <1>2 DEF BgState
<1>4. Running' /\ ImmEntries' = ImmEntries  BY <1>1 DEF Running, ImmEntries
<1>5. PICK S : S = Shown(table, versions.files)  OBVIOUS
<1>6. (Shown(table, versions.files))' = S  BY <1>1, <1>4, <1>5 DEF Shown
<1>7. /\ S \subseteq store /\ UpTo(store, versions.last)
      /\ \A k \in snapshots \cup {versions.last} : k <= versions.last /\ View(store, k) \subseteq S
      /\ reader.on =>
           /\ reader.snap <= versions.last
           /\ reader.seen \cup In(table, reader.files) \subseteq store
           /\ View(store, reader.snap) \subseteq reader.seen \cup In(table, reader.files)
  BY <1>1, <1>5 DEF ReadInv
<1>8. bg'.smallest <= versions.last /\ \A k \in snapshots : bg'.smallest <= k
  BY <1>2, <1>3
<1>. QED  BY <1>1, <1>6, <1>7, <1>8 DEF ReadInv

\* A group is inserted, or given up: its numbers are new.
LEMMA CommitKeepsReads ==
  ASSUME TypedInv, NumbersInv, ReadInv, NEW t \in Writer, Insert(t) \/ GiveUp(t)
  PROVE  ReadInv'
<1>1. /\ UNCHANGED <<log, table, imm, bg, db, snapshots, reader>>
      /\ versions'.files = versions.files /\ versions'.last = group.last
      /\ db = "open" /\ group.size # 0
      /\ mem' = mem \/ (Insert(t) /\ mem' = mem \cup group.entries)
  BY CommitFacts
<1>2. PICK G \in SUBSET Entry : /\ G \subseteq group.entries /\ mem' = mem \cup G
                                /\ store' = store \cup G
  <2>1. group.entries \subseteq Entry  BY UsedTyped
  <2>2. CASE Insert(t)
    <3>1. mem' = mem \cup group.entries /\ store' = store \cup group.entries
      BY <2>2 DEF Insert
    <3>. QED  BY <2>1, <3>1
  <2>3. CASE GiveUp(t)
    <3>1. mem' = mem \cup {} /\ store' = store \cup {}  BY <2>3 DEF GiveUp, promises
    <3>. QED  BY <3>1
  <2>. QED  BY <2>2, <2>3
<1>3. /\ versions.last \in Nat /\ group.last \in Nat /\ versions.last < group.last
      /\ store \in SUBSET Entry /\ snapshots \subseteq Nat /\ reader.snap \in Nat
      /\ bg.smallest \in Nat
  <2>1. /\ versions.last \in Nat /\ group.last \in Nat /\ store \in SUBSET Entry
    BY DEF TypedInv, Typed, OpenOK, QueueInv, GroupShape, PromisesOK
  <2>2. snapshots \subseteq Nat /\ reader.snap \in Nat
    BY DEF TypedInv, Typed, ClientsOK
  <2>3. bg.smallest \in Nat  BY DEF TypedInv, Typed, BackgroundOK
  <2>. QED  BY <1>1, <2>1, <2>2, <2>3 DEF NumbersInv
<1>4. Running /\ Running' /\ ImmEntries' = ImmEntries
  BY <1>1 DEF Running, ImmEntries
<1>5. PICK S : S = Shown(table, versions.files)  OBVIOUS
<1>6. (Shown(table, versions.files))' = S \cup G
  BY <1>1, <1>2, <1>4, <1>5 DEF Shown
<1>7. /\ S \subseteq store /\ UpTo(store, versions.last)
      /\ \A n \in snapshots \cup {versions.last} : n <= versions.last /\ View(store, n) \subseteq S
      /\ reader.on =>
           /\ reader.snap <= versions.last
           /\ reader.seen \cup In(table, reader.files) \subseteq store
           /\ View(store, reader.snap) \subseteq reader.seen \cup In(table, reader.files)
      /\ bg.inputs # {} =>
           bg.smallest <= versions.last /\ \A n \in snapshots : bg.smallest <= n
  BY <1>4, <1>5 DEF ReadInv
<1>8. \A e \in G : versions.last < e.s /\ e.s <= group.last  BY <1>2 DEF NumbersInv
<1>9. UpTo(store \cup G, group.last)
  <2>1. UpTo(store, group.last)  BY <1>3, <1>7, UpToMore
  <2>. QED  BY <1>8, <2>1 DEF UpTo
<1>10. \A n \in Nat : n <= versions.last => View(store \cup G, n) = View(store, n)
  <2>1. ASSUME NEW n \in Nat, n <= versions.last
        PROVE  View(store \cup G, n) = View(store, n)
    <3>1. \A e \in G : n < e.s
      <4>1. \A e \in G : e.s \in Nat  BY DEF Entry
      <4>. QED  BY <1>3, <1>8, <2>1, <4>1
    <3>. QED  BY <1>3, <3>1, LaterEntries
  <2>. QED  BY <2>1
<1>11. \A n \in snapshots \cup {group.last} :
         n <= group.last /\ View(store \cup G, n) \subseteq S \cup G
  <2>1. ASSUME NEW n \in snapshots
        PROVE  n <= group.last /\ View(store \cup G, n) \subseteq S \cup G
    <3>1. n \in Nat /\ n <= versions.last /\ View(store, n) \subseteq S  BY <1>3, <1>7
    <3>. QED  BY <1>3, <1>10, <3>1
  <2>2. group.last <= group.last /\ View(store \cup G, group.last) \subseteq S \cup G
    <3>1. View(store \cup G, group.last) \subseteq G \cup View(store, versions.last)
      BY <1>3, <1>7, ViewAdds
    <3>. QED  BY <1>3, <1>7, <3>1
  <2>. QED  BY <2>1, <2>2
<1>12. reader.on =>
         /\ reader.snap <= group.last
         /\ reader.seen \cup In(table, reader.files) \subseteq store \cup G
         /\ View(store \cup G, reader.snap) \subseteq reader.seen \cup In(table, reader.files)
  <2>1. SUFFICES ASSUME reader.on
                 PROVE  /\ reader.snap <= group.last
                        /\ reader.seen \cup In(table, reader.files) \subseteq store \cup G
                        /\ View(store \cup G, reader.snap)
                             \subseteq reader.seen \cup In(table, reader.files)
    OBVIOUS
  <2>2. View(store \cup G, reader.snap) = View(store, reader.snap)
    BY <1>3, <1>7, <1>10, <2>1
  <2>3. reader.snap <= group.last  BY <1>3, <1>7, <2>1
  <2>. QED  BY <1>7, <2>1, <2>2, <2>3
<1>13. bg.inputs # {} => bg.smallest <= group.last /\ \A n \in snapshots : bg.smallest <= n
  BY <1>3, <1>7
<1>. QED  BY <1>1, <1>2, <1>6, <1>7, <1>9, <1>11, <1>12, <1>13 DEF ReadInv

\* What a version that is installed shows.
LEMMA InstalledShown ==
  ASSUME TypedInv, FilesInv, WorkInv, InstallVersion
  PROVE  /\ In(table', reader.files) = In(table, reader.files)
         /\ (Shown(table, versions.files))'
              = mem \cup (IF bg.edit.del = {} THEN {} ELSE ImmEntries)
                  \cup Tab(table, versions.files \ bg.edit.del) \cup Tab(table, bg.edit.add)
         /\ Tab(table', versions'.files) = Tab(table, Edited)
<1>0. Typed /\ JobShape /\ UpInv /\ DescriptorInv  BY DEF TypedInv, FilesInv, Typed
<1>1. /\ mem' = mem /\ bg.pc = "sync" /\ Running /\ versions'.files = Edited
      /\ imm' = IF bg.edit.del # {} THEN imm ELSE <<>>
  BY <1>0, InstallFacts
<1>2. \A n \in DOMAIN table : n \in reader.files \/ n \in Numbers(Edited)
                                => n \in DOMAIN table' /\ table'[n] = table[n]
  BY InstallDeletes
<1>3. Stored(Numbers(versions.files)) /\ Stored(reader.files) /\ Stored(Numbers(bg.edit.add))
  <2>1. Up  BY <1>1 DEF Up, Running
  <2>2. Stored(Numbers(versions.files) \cup reader.files)  BY <1>0, <2>1 DEF UpInv
  <2>3. Stored(Numbers(bg.edit.add))  BY <1>1 DEF FilesInv, JobInv, EditInv, Editing
  <2>. QED  BY <2>2, <2>3 DEF Stored
<1>4. In(table', reader.files) = In(table, reader.files)
  <2>1. \A n \in reader.files : n \in DOMAIN table /\ n \in DOMAIN table'
                                  /\ table'[n] = table[n]
    BY <1>2, <1>3 DEF Stored
  <2>. QED  BY <2>1, InSame
<1>5. PICK D : D = versions.files \ bg.edit.del  OBVIOUS
<1>6. PICK F : F = Edited  OBVIOUS
<1>7. Tab(table', F) = Tab(table, F)
  <2>1. Numbers(F) \subseteq Numbers(versions.files) \cup Numbers(bg.edit.add)
    BY <1>6 DEF Edited, Numbers
  <2>2. \A n \in Numbers(F) : n \in DOMAIN table /\ n \in DOMAIN table'
                                /\ table'[n] = table[n]
    BY <1>2, <1>3, <1>6, <2>1 DEF Stored
  <2>. QED  BY <2>2, InSame DEF Tab
<1>8. Tab(table, F) = Tab(table, D) \cup Tab(table, bg.edit.add)
  BY <1>5, <1>6, TabUnion DEF Edited
<1>9. ImmEntries' = IF bg.edit.del = {} THEN {} ELSE ImmEntries
  <2>1. Range(<<>>) = {}  BY DEF Range
  <2>. QED  BY <1>1, <2>1 DEF ImmEntries
<1>10. (Shown(table, versions.files))' = mem \cup ImmEntries' \cup Tab(table', F)
  BY <1>1, <1>6 DEF Shown
<1>. QED  BY <1>1, <1>4, <1>5, <1>6, <1>7, <1>8, <1>9, <1>10

LEMMA InstallKeepsReads ==
  ASSUME TypedInv, FilesInv, WorkInv, ReadInv, InstallVersion
  PROVE  ReadInv'
<1>0. /\ Typed /\ JobShape /\ bg \in BgState /\ versions.last \in Nat /\ store \in SUBSET Entry
      /\ snapshots \subseteq Nat
  BY DEF TypedInv, Typed, BackgroundOK, BgState, OpenOK, PromisesOK, ClientsOK
<1>1. /\ UNCHANGED <<db, reader, snapshots, store>> /\ Running /\ bg.pc = "sync"
      /\ versions'.last = versions.last
  BY <1>0, InstallFacts
<1>2. bg'.inputs # {} => bg'.inputs = bg.inputs /\ bg'.smallest = bg.smallest
  <2>1. bg' = IdleBg \/ bg' = [bg EXCEPT !.pc = bg.back, !.back = "idle", !.num = 0]
    BY DEF InstallVersion, EndCall
  <2>. QED  BY <1>0, <2>1, JobEnds
<1>3. Running' /\ Editing  BY <1>1 DEF Running, Editing
<1>4. In(table', reader.files) = In(table, reader.files)  BY InstalledShown
<1>5. PICK S : S = Shown(table, versions.files)  OBVIOUS
<1>6. PICK Z : Z = (Shown(table, versions.files))'  OBVIOUS
<1>7. Z = mem \cup (IF bg.edit.del = {} THEN {} ELSE ImmEntries)
            \cup Tab(table, versions.files \ bg.edit.del) \cup Tab(table, bg.edit.add)
  BY <1>6, InstalledShown
<1>8. S = mem \cup ImmEntries \cup Tab(table, versions.files)  BY <1>5 DEF Shown
<1>9. S \subseteq store
      /\ \A n \in snapshots \cup {versions.last} : View(store, n) \subseteq S
  BY <1>1, <1>5 DEF ReadInv
<1>10. Z \subseteq store /\ \A n \in snapshots \cup {versions.last} : View(store, n) \subseteq Z
  <2>1. CASE bg.edit.del = {}
    <3>1. Tab(table, bg.edit.add) = ImmEntries  BY <1>3, <2>1 DEF WorkInv
    <3>2. versions.files \ bg.edit.del = versions.files  BY <2>1
    <3>3. Z = S  BY <1>7, <1>8, <2>1, <3>1, <3>2
    <3>. QED  BY <1>9, <3>3
  <2>2. CASE bg.edit.del # {}
    <3>1. bg.edit.del = bg.inputs /\ bg.inputs # {}  BY <1>0, <1>1, <2>2 DEF JobShape
    <3>2. PICK E : E = Tab(table, bg.inputs)  OBVIOUS
    <3>3. Tab(table, bg.edit.add) = Merged(E, bg.smallest)
      BY <1>3, <2>2, <3>2 DEF WorkInv
    <3>4. bg.inputs \subseteq versions.files  BY DEF FilesInv, JobInv
    <3>5. Tab(table, versions.files) = Tab(table, versions.files \ bg.inputs) \cup E
      <4>1. PICK D : D = versions.files \ bg.inputs  OBVIOUS
      <4>2. versions.files = D \cup bg.inputs  BY <3>4, <4>1
      <4>. QED  BY <3>2, <4>1, <4>2, TabUnion
    <3>6. Z = mem \cup ImmEntries \cup Tab(table, versions.files \ bg.inputs)
                \cup Merged(E, bg.smallest)
      BY <1>7, <2>2, <3>1, <3>3
    <3>7. E \subseteq store /\ Merged(E, bg.smallest) \subseteq E
      BY <1>8, <1>9, <3>5, MergedIn
    <3>8. Z \subseteq store  BY <1>8, <1>9, <3>5, <3>6, <3>7
    <3>9. ASSUME NEW n \in snapshots \cup {versions.last}, NEW e \in View(store, n)
          PROVE  e \in Z
      <4>1. n \in Nat /\ bg.smallest \in Nat /\ bg.smallest <= n
        <5>1. bg.smallest \in Nat  BY <1>0 DEF BgState
        <5>2. bg.smallest <= n  BY <3>1 DEF ReadInv
        <5>. QED  BY <1>0, <5>1, <5>2
      <4>2. e \in S  BY <1>9, <3>9
      <4>3. CASE e \in E
        <5>1. e \in Merged(E, bg.smallest)  BY <1>0, <3>7, <3>9, <4>1, <4>3, MergeKeepsView
        <5>. QED  BY <3>6, <5>1
      <4>4. CASE e \notin E  BY <1>8, <3>5, <3>6, <4>2, <4>4
      <4>. QED  BY <4>3, <4>4
    <3>. QED  BY <3>8, <3>9
  <2>. QED  BY <2>1, <2>2
<1>11. PICK l : l = versions.last  OBVIOUS
<1>12. /\ UpTo(store, l) /\ \A n \in snapshots \cup {l} : n <= l
       /\ bg'.inputs # {} => bg'.smallest <= l /\ \A n \in snapshots : bg'.smallest <= n
  BY <1>1, <1>2, <1>11 DEF ReadInv
<1>13. PICK r : r = reader  OBVIOUS
<1>14. r.on =>
         /\ r.snap <= l
         /\ r.seen \cup In(table', r.files) \subseteq store
         /\ View(store, r.snap) \subseteq r.seen \cup In(table', r.files)
  BY <1>4, <1>11, <1>13 DEF ReadInv
<1>. QED  BY <1>1, <1>6, <1>10, <1>11, <1>12, <1>13, <1>14 DEF ReadInv

LEMMA NextKeepsReads ==
  ASSUME TypedInv, FilesInv, TypedInv', FilesInv', ContentInv, ReadInv, Next
  PROVE  ReadInv'
<1>1. CASE ~Running'  BY <1>1, RestReads, PTL
<1>2. CASE Opened
  <2>1. /\ UNCHANGED <<versions, mem, imm, bg, snapshots, reader>> /\ db = "clean"
        /\ db' = "open" /\ store' = Tab(table, versions.files)
        /\ Tab(table', versions.files) = Tab(table, versions.files)
    BY <1>2, OpenedReads
  <2>2. ~Running /\ mem = {} /\ imm = <<>> /\ snapshots = {} /\ ~reader.on
    BY <2>1 DEF FilesInv, AtRest, Running
  <2>3. bg.inputs = {}
    <3>1. bg = IdleBg  BY <2>2 DEF TypedInv, JobShape
    <3>. QED  BY <3>1 DEF IdleBg
  <2>4. ImmEntries' = {}
    <3>1. Range(<<>>) = {}  BY DEF Range
    <3>. QED  BY <2>1, <2>2, <3>1 DEF ImmEntries
  <2>5. (Shown(table, versions.files))' = Tab(table, versions.files)
    BY <2>1, <2>2, <2>4 DEF Shown
  <2>6. UpTo(Tab(table, versions.files), versions.last) /\ versions.last \in Nat
    BY <2>1 DEF ContentInv, NumbersInv, TypedInv, Typed, OpenOK
  <2>7. \A n : View(Tab(table, versions.files), n) \subseteq Tab(table, versions.files)
    BY DEF View
  <2>8. snapshots' = {} /\ ~reader'.on /\ bg'.inputs = {} /\ versions'.last = versions.last
    BY <2>1, <2>2, <2>3
  <2>9. PICK T : T = Tab(table, versions.files)  OBVIOUS
  <2>10. /\ store' = T /\ (Shown(table, versions.files))' = T /\ UpTo(T, versions.last)
         /\ \A n : View(T, n) \subseteq T
    BY <2>1, <2>5, <2>6, <2>7, <2>9
  <2>. QED  BY <2>6, <2>8, <2>10 DEF ReadInv
<1>3. CASE StartGet  BY <1>3, StartGetKeepsReads
<1>4. CASE GetSnapshot  BY <1>4, GetSnapshotKeepsReads
<1>5. CASE Compact  BY <1>5, CompactKeepsReads
<1>6. CASE InstallVersion  BY <1>6, InstallKeepsReads DEF ContentInv
<1>7. ASSUME NEW t \in Writer, Insert(t) \/ GiveUp(t)  PROVE ReadInv'
  BY <1>7, CommitKeepsReads DEF ContentInv
<1>8. ASSUME Running, Running', ~StartGet, ~GetSnapshot, ~Compact,
             (Shown(table, versions.files))' = Shown(table, versions.files),
             store' = store, versions'.last = versions.last,
             In(table', reader.files) = In(table, reader.files)
      PROVE  ReadInv'
  <2>1. /\ reader' = reader \/ EndGet
        /\ snapshots' = snapshots \/ ReleaseSnapshot
        /\ bg'.inputs # {} => bg'.inputs = bg.inputs /\ bg'.smallest = bg.smallest
    BY <1>8, ReaderSteps
  <2>2. snapshots' \subseteq snapshots  BY <2>1 DEF ReleaseSnapshot
  <2>3. EndGet => ~reader'.on
    <3>1. EndGet => reader' = NoReader  BY DEF EndGet
    <3>2. NoReader.on = FALSE  BY DEF NoReader
    <3>. QED  BY <3>1, <3>2
  <2>. QED  BY <1>8, <2>1, <2>2, <2>3, ReadStays
<1>9. CASE Still
  <2>1. /\ UNCHANGED <<table, mem, imm, store>> /\ Running /\ Running'
        /\ versions'.files = versions.files /\ versions'.last = versions.last
    BY <1>9 DEF Still
  <2>2. (Shown(table, versions.files))' = Shown(table, versions.files)
    BY <2>1 DEF Shown, ImmEntries
  <2>. QED  BY <1>3, <1>4, <1>5, <1>8, <2>1, <2>2
<1>10. ASSUME NEW t \in Writer, Room(t) \/ Switch(t) \/ AddsRecord(t)
       PROVE  ReadInv'
  <2>1. db = "open"
    BY <1>10, WriterIsOpen DEF Write, WriteFaults, AddsRecord
  <2>2. CASE Switch(t)
    <3>1. /\ UNCHANGED <<table, db, store>> /\ ImmEntries = {}
          /\ mem' = {} /\ ImmEntries' = mem
          /\ versions'.files = versions.files /\ versions'.last = versions.last
      BY <2>2, SwitchMoves
    <3>2. (Shown(table, versions.files))' = Shown(table, versions.files)
      BY <3>1 DEF Shown
    <3>3. Running /\ Running'  BY <2>1, <3>1 DEF Running
    <3>. QED  BY <1>3, <1>4, <1>5, <1>8, <3>1, <3>2, <3>3
  <2>3. CASE Room(t) \/ AddsRecord(t)
    <3>1. UNCHANGED <<table, mem, imm, db, store, versions>>
      BY <2>3 DEF Room, AddsRecord, AddRecord, AddRecordFails, disk, promises
    <3>2. (Shown(table, versions.files))' = Shown(table, versions.files)
      BY <3>1 DEF Shown, ImmEntries
    <3>3. Running /\ Running'  BY <2>1, <3>1 DEF Running
    <3>. QED  BY <1>3, <1>4, <1>5, <1>8, <3>1, <3>2, <3>3
  <2>. QED  BY <1>10, <2>2, <2>3
<1>11. CASE OpenOutput \/ FinishOutput \/ \E ok \in BOOLEAN : Build(ok)
  <2>1. /\ UNCHANGED <<mem, store>> /\ Running /\ Running' /\ TablesStay
        /\ ImmEntries' = ImmEntries
        /\ versions'.files = versions.files /\ versions'.last = versions.last
    BY <1>11, JobWrites
  <2>2. Tab(table', versions.files) = Tab(table, versions.files)
        /\ In(table', reader.files) = In(table, reader.files)
    BY <2>1, WorkStays
  <2>3. (Shown(table, versions.files))' = Shown(table, versions.files)
    BY <2>1, <2>2 DEF Shown
  <2>. QED  BY <1>3, <1>4, <1>5, <1>8, <2>1, <2>2, <2>3
<1>12. CASE AddsEdit
  <2>1. /\ UNCHANGED <<table, mem, db, versions, store>> /\ Running /\ ImmEntries' = ImmEntries
    BY <1>12, AddsEditFacts DEF ContentInv
  <2>2. (Shown(table, versions.files))' = Shown(table, versions.files)
    BY <2>1 DEF Shown
  <2>3. Running'  BY <2>1 DEF Running
  <2>. QED  BY <1>3, <1>4, <1>5, <1>8, <2>1, <2>2, <2>3
<1>13. CASE Running'
  <2>1. ~(NewDB \/ Recover \/ (\E number \in recovery.logs : ReplayLog(number)) \/ NewManifest
            \/ SetCurrent \/ OpenFails \/ EndClose \/ Kill \/ PowerLoss)
    BY <1>13 DEF NewDB, Recover, ReplayLog, ReplayRecord, EndLog, Replaying, NewManifest,
       SetCurrent, OpenFails, EndClose, Kill, PowerLoss, Reset, Running
  <2>. QED
    BY <1>2, <1>3, <1>4, <1>5, <1>6, <1>7, <1>9, <1>10, <1>11, <1>12, <2>1, NextKinds
<1>. QED  BY <1>1, <1>13

LEMMA InitReads ==
  ASSUME Init
  PROVE  ReadInv
<1>1. /\ db = "closed" /\ store = {} /\ snapshots = {} /\ reader = NoReader /\ bg = IdleBg
  BY DEF Init
<1>2. ~Running /\ NoReader.on = FALSE /\ IdleBg.inputs = {}
  BY <1>1 DEF Running, NoReader, IdleBg
<1>. QED  BY <1>1, <1>2 DEF ReadInv, UpTo

LEMMA ReadStutter ==
  ASSUME ReadInv, UNCHANGED vars
  PROVE  ReadInv'
<1>1. UNCHANGED <<table, db, versions, mem, imm, snapshots, reader, bg, store>>
  BY DEF vars, disk, client, background, promises
<1>2. /\ Running' = Running
      /\ (Shown(table, versions.files))' = Shown(table, versions.files)
  BY <1>1 DEF Running, Shown, ImmEntries
<1>. QED  BY <1>1, <1>2 DEF ReadInv

\* What a read sees of a state is what ReadsSeeStore asks.
LEMMA ReadsAgree ==
  ASSUME TypedInv, FilesInv, ReadInv
  PROVE  ReadsSeeStore
<1>0. /\ store \in SUBSET Entry /\ versions.last \in Nat /\ snapshots \subseteq Nat
      /\ reader.snap \in Nat
  BY DEF TypedInv, Typed, OpenOK, PromisesOK, ClientsOK
<1>1. PICK S : S = Shown(table, versions.files)  OBVIOUS
<1>2. Visible = S  BY <1>1, FoundIs
<1>3. ASSUME db = "open", NEW n \in snapshots \cup {versions.last}
      PROVE  View(Visible, n) = View(store, n)
  <2>1. Running  BY <1>3 DEF Running
  <2>2. S \subseteq store /\ View(store, n) \subseteq S  BY <1>1, <1>3, <2>1 DEF ReadInv
  <2>3. n \in Nat  BY <1>0, <1>3
  <2>. QED  BY <1>0, <1>2, <2>2, <2>3, SameViews
<1>4. ASSUME reader.on
      PROVE  View(reader.seen \cup EntriesOf(reader.files), reader.snap)
               = View(store, reader.snap)
  <2>1. PICK R : R = reader.seen \cup In(table, reader.files)  OBVIOUS
  <2>2. reader.seen \cup EntriesOf(reader.files) = R  BY <2>1, FoundIs
  <2>3. R \subseteq store /\ View(store, reader.snap) \subseteq R
    BY <1>4, <2>1 DEF ReadInv
  <2>. QED  BY <1>0, <2>2, <2>3, SameViews
<1>. QED  BY <1>3, <1>4 DEF ReadsSeeStore

\* A read sees, of every key, the newest entry that is no newer than its
\* snapshot, whatever the compactions did to the files meanwhile.
THEOREM ReadsHold == Spec => []ReadsSeeStore
<1>1. Init => ReadInv  BY InitReads
<1>2. TypedInv /\ FilesInv /\ TypedInv' /\ FilesInv' /\ ContentInv /\ ReadInv /\ [Next]_vars
        => ReadInv'
  BY NextKeepsReads, ReadStutter
<1>3. TypedInv /\ FilesInv /\ ReadInv => ReadsSeeStore  BY ReadsAgree
<1>4. Spec => [](TypedInv /\ FilesInv /\ ContentInv)  BY ContentHolds
<1>. QED  BY <1>1, <1>2, <1>3, <1>4, PTL DEF Spec

(***************************************************************************)
(* The records, when none is written in part                               *)
(***************************************************************************)
LEMMA FaultsFewer ==
  ASSUME TypedInv, Next, NEW f \in FaultKinds, budget.faults[f] = 0
  PROVE  budget'.faults[f] = 0
<1>1. budget \in Budget  BY DEF TypedInv, Typed, ClientsOK
<1>2. BudgetMoves  BY BudgetStep
<1>3. CASE budget' = budget  BY <1>3
<1>4. CASE \/ budget' = [budget EXCEPT !.writes = @ - 1]
           \/ budget' = [budget EXCEPT !.opens = @ - 1]
           \/ budget' = [budget EXCEPT !.gets = @ - 1]
  BY <1>1, <1>4 DEF Budget
<1>5. ASSUME NEW kind, budget.faults[kind] > 0,
             budget' = [budget EXCEPT !.faults[kind] = @ - 1]
      PROVE  budget'.faults[f] = 0
  <2>1. kind # f  BY <1>5
  <2>. QED  BY <1>1, <1>5, <2>1 DEF Budget
<1>. QED  BY <1>2, <1>3, <1>4, <1>5 DEF BudgetMoves

LEMMA WholeReads ==
  ASSUME NEW recs \in Seq(Record), \A i \in DOMAIN recs : recs[i] # Torn
  PROVE  Readable(recs) = UNION {recs[i].entries : i \in DOMAIN recs}
<1>1. DOMAIN recs = 1..Len(recs) /\ Len(recs) \in Nat  BY LenProperties
<1>2. \A j \in DOMAIN recs : \A k \in 1..j : k \in DOMAIN recs  BY <1>1
<1>3. \A j \in DOMAIN recs : \A k \in 1..j : recs[k] # Torn  BY <1>2
<1>. QED  BY <1>3 DEF Readable

LEMMA LogIs ==
  ASSUME TypedInv, NEW n \in DOMAIN log
  PROVE  /\ log[n] \in LogFile /\ log[n].recs \in Seq(Record) /\ log[n].synced \in Nat
         /\ DOMAIN log[n].recs = 1..Len(log[n].recs) /\ Len(log[n].recs) \in Nat
         /\ n \in Nat
<1>1. log[n] \in LogFile /\ n \in Nat  BY DEF TypedInv, Typed, DiskOK, IsDirectory
<1>2. log[n].recs \in Seq(Record) /\ log[n].synced \in Nat  BY <1>1 DEF LogFile
<1>. QED  BY <1>1, <1>2, LenProperties

LEMMA SyncedIsRead ==
  ASSUME TypedInv, Whole, NEW n \in DOMAIN log
  PROVE  SyncedOf(log[n]) \subseteq Readable(log[n].recs)
<1>1. log[n].recs \in Seq(Record) /\ \A i \in DOMAIN log[n].recs : log[n].recs[i] # Torn
  BY LogIs DEF Whole
<1>. QED  BY <1>1, WholeReads DEF SyncedOf

\* A group is a record with a number.
LEMMA GroupIsWhole ==
  ASSUME TypedInv, NumbersInv, Whole, NEW t \in Writer, Logging(t)
  PROVE  /\ AppendToLog(GroupRecord) /\ GroupRecord # Torn
         /\ GroupRecord \in Record /\ GroupRecord.entries = group.entries
<1>0. QueueInv /\ versions.last \in Nat /\ writer[t].pc \in InProgress
  BY DEF TypedInv, Typed, OpenOK, Logging, InProgress
<1>1. group.size # 0  BY <1>0, Leader
<1>2. group.last \in Nat /\ group.last # 0
  <2>1. versions.last < group.last  BY <1>1 DEF NumbersInv
  <2>2. group.last \in Nat  BY <1>0 DEF QueueInv, GroupShape
  <2>. QED  BY <1>0, <2>1, <2>2
<1>3. GroupRecord.last = group.last /\ GroupRecord.entries = group.entries /\ Torn.last = 0
  BY DEF GroupRecord, Torn
<1>4. AppendToLog(GroupRecord)  BY DEF Logging, Whole
<1>. QED  BY <1>0, <1>2, <1>3, <1>4, GroupRecordTyped

\* The log of the group, once its record is there.
LEMMA GroupAdded ==
  ASSUME TypedInv, FilesInv, LogInv, NumbersInv, Whole, NEW t \in Writer, AddsRecord(t)
  PROVE  /\ DOMAIN log' = DOMAIN log /\ logfile \in DOMAIN log
         /\ \A n \in DOMAIN log : n # logfile => log'[n] = log[n]
         /\ log'[logfile].synced = log[logfile].synced
         /\ \A i \in DOMAIN log'[logfile].recs : log'[logfile].recs[i] # Torn
         /\ group.entries \subseteq Readable(log'[logfile].recs)
         /\ Readable(log[logfile].recs) \subseteq Readable(log'[logfile].recs)
         /\ SyncedOf(log'[logfile]) = SyncedOf(log[logfile])
<1>0. DiskOK /\ db = "open"  BY DEF TypedInv, Typed, AddsRecord, Logging
<1>1. logfile \in DOMAIN log  BY <1>0 DEF FilesInv, UpInv, Up
<1>2. PICK r : r = GroupRecord  OBVIOUS
<1>3. AppendToLog(r) /\ r # Torn /\ r \in Record /\ r.entries = group.entries
  BY <1>2, GroupIsWhole DEF AddsRecord
<1>4. PICK q : q = log[logfile].recs  OBVIOUS
<1>5. PICK p : p = log'[logfile].recs  OBVIOUS
<1>6. /\ DOMAIN log' = DOMAIN log
      /\ \A n \in DOMAIN log : n # logfile => log'[n] = log[n]
      /\ log'[logfile].synced = log[logfile].synced
      /\ Len(p) = Len(q) + 1 /\ p[Len(q) + 1] = r
      /\ \A i \in 1..Len(q) : p[i] = q[i]
      /\ q \in Seq(Record) /\ Len(q) \in Nat /\ p \in Seq(Record)
  BY <1>0, <1>1, <1>3, <1>4, <1>5, AddedRecord
<1>7. DOMAIN q = 1..Len(q) /\ DOMAIN p = 1..(Len(q) + 1)  BY <1>6, LenProperties
<1>8. \A i \in DOMAIN q : q[i] # Torn  BY <1>1, <1>4 DEF Whole
<1>9. \A i \in DOMAIN p : p[i] # Torn
  <2>1. \A i \in DOMAIN p : i \in 1..Len(q) \/ i = Len(q) + 1  BY <1>6, <1>7
  <2>. QED  BY <1>3, <1>6, <1>7, <1>8, <2>1
<1>10. /\ Readable(p) = UNION {p[i].entries : i \in DOMAIN p}
       /\ Readable(q) = UNION {q[i].entries : i \in DOMAIN q}
  BY <1>6, <1>8, <1>9, WholeReads
<1>11. group.entries \subseteq Readable(p)
  <2>1. Len(q) + 1 \in DOMAIN p  BY <1>6, <1>7
  <2>. QED  BY <1>3, <1>6, <1>10, <2>1
<1>12. Readable(q) \subseteq Readable(p)
  <2>1. \A i \in DOMAIN q : i \in DOMAIN p /\ p[i] = q[i]  BY <1>6, <1>7
  <2>. QED  BY <1>10, <2>1
<1>13. SyncedOf(log'[logfile]) = SyncedOf(log[logfile])
  <2>1. PICK s : s = log[logfile].synced  OBVIOUS
  <2>2. s \in Nat /\ s <= Len(q)  BY <1>1, <1>4, <2>1, LogIs DEF LogInv
  <2>3. \A i : (i \in DOMAIN p /\ i <= s) <=> (i \in DOMAIN q /\ i <= s)
    BY <1>6, <1>7, <2>2
  <2>4. \A i \in {j \in DOMAIN q : j <= s} : p[i] = q[i]  BY <1>6, <1>7
  <2>5. {j \in DOMAIN p : j <= s} = {j \in DOMAIN q : j <= s}  BY <2>3
  <2>6. SyncedOf(log'[logfile]) = UNION {p[i].entries : i \in {j \in DOMAIN p : j <= s}}
    BY <1>5, <1>6, <2>1 DEF SyncedOf
  <2>7. SyncedOf(log[logfile]) = UNION {q[i].entries : i \in {j \in DOMAIN q : j <= s}}
    BY <1>4, <2>1 DEF SyncedOf
  <2>. QED  BY <2>4, <2>5, <2>6, <2>7
<1>. QED  BY <1>1, <1>4, <1>5, <1>6, <1>9, <1>11, <1>12, <1>13

\* A log that is synced holds all it can be read of.
LEMMA LogAllSynced ==
  ASSUME TypedInv, FilesInv, LogInv, Whole, SyncsLog
  PROVE  /\ DOMAIN log' = DOMAIN log /\ logfile \in DOMAIN log
         /\ \A n \in DOMAIN log : n # logfile => log'[n] = log[n]
         /\ log'[logfile].recs = log[logfile].recs
         /\ Readable(log[logfile].recs) = SyncedOf(log'[logfile])
         /\ SyncedOf(log[logfile]) \subseteq SyncedOf(log'[logfile])
<1>0. DiskOK /\ db = "open"  BY DEF TypedInv, Typed, SyncsLog
<1>1. logfile \in DOMAIN log  BY <1>0 DEF FilesInv, UpInv, Up
<1>2. /\ DOMAIN log' = DOMAIN log
      /\ \A n \in DOMAIN log : n # logfile => log'[n] = log[n]
      /\ log'[logfile] = [recs |-> log[logfile].recs, synced |-> Len(log[logfile].recs)]
  BY <1>0, <1>1, LogSynced DEF SyncsLog
<1>3. log'[logfile].recs = log[logfile].recs /\ log'[logfile].synced = Len(log[logfile].recs)
  BY <1>2
<1>4. PICK q : q = log[logfile].recs  OBVIOUS
<1>5. q \in Seq(Record) /\ DOMAIN q = 1..Len(q) /\ Len(q) \in Nat /\ \A i \in DOMAIN q : q[i] # Torn
  BY <1>1, <1>4, LogIs DEF Whole
<1>6. {j \in DOMAIN q : j <= Len(q)} = DOMAIN q  BY <1>5
<1>7. SyncedOf(log'[logfile]) = UNION {q[i].entries : i \in DOMAIN q}
  BY <1>3, <1>4, <1>6 DEF SyncedOf
<1>8. SyncedOf(log[logfile]) \subseteq UNION {q[i].entries : i \in DOMAIN q}
  BY <1>4 DEF SyncedOf
<1>. QED  BY <1>1, <1>2, <1>3, <1>4, <1>5, <1>7, <1>8, WholeReads

LEMMA NextKeepsWhole ==
  ASSUME TypedInv, FilesInv, TypedInv', LogInv, NumbersInv, Whole, Next
  PROVE  Whole'
<1>0. DiskOK /\ Typed  BY DEF TypedInv, Typed
<1>1. budget'.faults["torn"] = 0  BY FaultsFewer DEF Whole, FaultKinds
<1>2. ASSUME NEW n \in DOMAIN log'
      PROVE  \A i \in DOMAIN log'[n].recs : log'[n].recs[i] # Torn
  <2>0. n \in DOMAIN log => \A i \in DOMAIN log[n].recs : log[n].recs[i] # Torn
    BY DEF Whole
  <2>1. CASE log' = log  BY <1>2, <2>0, <2>1
  <2>2. CASE NewLog
    <3>1. log' = With(log, versions.next, [recs |-> <<>>, synced |-> 0])
      BY <2>2 DEF NewLog
    <3>2. CASE n = versions.next
      <4>1. log'[n] = [recs |-> <<>>, synced |-> 0]  BY <1>2, <3>1, <3>2 DEF With
      <4>2. log'[n].recs = <<>> /\ DOMAIN <<>> = {}  BY <4>1
      <4>. QED  BY <4>2
    <3>3. CASE n # versions.next
      <4>1. n \in DOMAIN log /\ log'[n] = log[n]  BY <1>2, <3>1, <3>3 DEF With
      <4>. QED  BY <2>0, <4>1
    <3>. QED  BY <3>2, <3>3
  <2>3. ASSUME NEW t \in Writer, AddsRecord(t)
        PROVE  \A i \in DOMAIN log'[n].recs : log'[n].recs[i] # Torn
    <3>1. /\ DOMAIN log' = DOMAIN log
          /\ \A m \in DOMAIN log : m # logfile => log'[m] = log[m]
          /\ \A i \in DOMAIN log'[logfile].recs : log'[logfile].recs[i] # Torn
      BY <2>3, GroupAdded
    <3>. QED  BY <1>2, <2>0, <3>1
  <2>4. CASE SyncsLog
    <3>1. /\ DOMAIN log' = DOMAIN log /\ log'[logfile].recs = log[logfile].recs
          /\ \A m \in DOMAIN log : m # logfile => log'[m] = log[m]
      BY <2>4, LogAllSynced
    <3>. QED  BY <1>2, <2>0, <3>1
  <2>5. CASE \E S : log' = Restricted(log, S)
    <3>1. n \in DOMAIN log /\ log'[n] = log[n]  BY <1>2, <2>5 DEF Restricted
    <3>. QED  BY <2>0, <3>1
  <2>6. CASE PowerLoss
    <3>1. n \in DOMAIN log  BY <1>0, <1>2, <2>6, PowerLossCuts
    <3>2. PICK l \in log[n].synced..Len(log[n].recs) : log'[n] = CutLog(log[n], l)
      BY <1>0, <2>6, <3>1, PowerLossCuts
    <3>3. log[n] \in LogFile  BY <1>0, <3>1 DEF DiskOK, IsDirectory
    <3>4. /\ Len(log'[n].recs) = l /\ l \in Nat
          /\ l <= Len(log[n].recs) /\ log'[n].recs \in Seq(Record)
          /\ \A i \in 1..l : log'[n].recs[i] = log[n].recs[i]
      BY <3>2, <3>3, CutLogIs
    <3>5. DOMAIN log'[n].recs = 1..l  BY <3>4, LenProperties
    <3>6. DOMAIN log[n].recs = 1..Len(log[n].recs) /\ Len(log[n].recs) \in Nat
      BY <3>1, LogIs
    <3>7. \A i \in 1..l : i \in DOMAIN log[n].recs  BY <3>4, <3>6
    <3>. QED  BY <2>0, <3>1, <3>4, <3>5, <3>7
  <2>. QED  BY <2>1, <2>2, <2>3, <2>4, <2>5, <2>6, LogMoves DEF AddsRecord
<1>. QED  BY <1>1, <1>2 DEF Whole

(***************************************************************************)
(* What is in memory is in the logs                                        *)
(***************************************************************************)
\* No log from b on loses a record, or a record that is on the disk.
LogsGrow(b) ==
  \A n \in DOMAIN log : n >= b =>
    /\ n \in DOMAIN log'
    /\ Readable(log[n].recs) \subseteq Readable(log'[n].recs)
    /\ SyncedOf(log[n]) \subseteq SyncedOf(log'[n])

LEMMA GrowsReads ==
  ASSUME TypedInv, NEW b \in Nat, LogsGrow(b), NEW c \in Nat, b <= c
  PROVE  /\ Logged(log, c) \subseteq Logged(log', c)
         /\ LoggedSynced(log, c) \subseteq LoggedSynced(log', c)
<1>1. \A n \in {m \in DOMAIN log : m >= c} :
        /\ n \in {m \in DOMAIN log' : m >= c}
        /\ Readable(log[n].recs) \subseteq Readable(log'[n].recs)
        /\ SyncedOf(log[n]) \subseteq SyncedOf(log'[n])
  <2>1. \A n \in DOMAIN log : n \in Nat  BY LogIs
  <2>2. \A n \in DOMAIN log : n >= c => n >= b  BY <2>1
  <2>. QED  BY <2>2 DEF LogsGrow
<1>2. Logged(log, c) \subseteq Logged(log', c)  BY <1>1 DEF Logged
<1>3. LoggedSynced(log, c) \subseteq LoggedSynced(log', c)  BY <1>1 DEF LoggedSynced
<1>. QED  BY <1>2, <1>3

LEMMA GrowsSame ==
  ASSUME NEW b, \A n \in DOMAIN log : n >= b => n \in DOMAIN log' /\ log'[n] = log[n]
  PROVE  LogsGrow(b)
BY DEF LogsGrow

\* Only what is obsolete, or not on the disk when the power is lost, goes.
LEMMA LogsKept ==
  ASSUME TypedInv, FilesInv, TypedInv', ContentInv, Whole, Next, ~PowerLoss, ~Opened,
         NEW b \in Nat, InstallVersion => b = versions'.log
  PROVE  LogsGrow(b)
<1>0. Typed /\ JobShape /\ LogInv /\ NumbersInv /\ ReplayInv
  BY DEF TypedInv, Typed, ContentInv
<1>1. CASE log' = log  BY <1>1, GrowsSame
<1>2. ASSUME NEW t \in Writer, Switch(t)  PROVE LogsGrow(b)
  <2>1. /\ DOMAIN log' = DOMAIN log \cup {versions.next}
        /\ \A n \in DOMAIN log : log'[n] = log[n]
    BY <1>2, SwitchMoves
  <2>. QED  BY <2>1, GrowsSame
<1>3. CASE NewManifest /\ NewLog
  <2>1. versions.next \notin DOMAIN log  BY <1>0, <1>3, NewManifestReads
  <2>2. \A n \in DOMAIN log : n \in DOMAIN log' /\ log'[n] = log[n]
    BY <1>3, <2>1 DEF NewLog, With
  <2>. QED  BY <2>2, GrowsSame
<1>4. ASSUME NEW t \in Writer, AddsRecord(t)  PROVE LogsGrow(b)
  <2>1. /\ DOMAIN log' = DOMAIN log
        /\ \A n \in DOMAIN log : n # logfile => log'[n] = log[n]
        /\ Readable(log[logfile].recs) \subseteq Readable(log'[logfile].recs)
        /\ SyncedOf(log'[logfile]) = SyncedOf(log[logfile])
    BY <1>0, <1>4, GroupAdded
  <2>. QED  BY <2>1 DEF LogsGrow
<1>5. CASE SyncsLog
  <2>1. /\ DOMAIN log' = DOMAIN log
        /\ \A n \in DOMAIN log : n # logfile => log'[n] = log[n]
        /\ log'[logfile].recs = log[logfile].recs
        /\ SyncedOf(log[logfile]) \subseteq SyncedOf(log'[logfile])
    BY <1>0, <1>5, LogAllSynced
  <2>. QED  BY <2>1 DEF LogsGrow
<1>6. CASE InstallVersion
  <2>1. versions'.log = bg.edit.log  BY <1>0, <1>6, InstallFacts
  <2>2. /\ \A n \in DOMAIN log' : log'[n] = log[n]
        /\ \A n \in DOMAIN log : bgError \/ n >= bg.edit.log => n \in DOMAIN log'
    BY <1>6, InstallDeletes
  <2>. QED  BY <1>6, <2>1, <2>2, GrowsSame
<1>. QED  BY <1>1, <1>2, <1>3, <1>4, <1>5, <1>6, LogMoves DEF AddsRecord

\* A writer that has its group in the log has just put it there, or waits.
LEMMA LoggedGroup ==
  ASSUME TypedInv, Next, Running', NEW t \in Writer, writer'[t].pc \in {"sync", "insert"}
  PROVE  /\ UNCHANGED <<group, logfile>>
         /\ \/ AddRecord(t) /\ (writer'[t].sync => writer'[t].pc = "sync")
            \/ SyncLog(t) /\ writer[t].pc = "sync"
            \/ writer'[t] = writer[t]
<1>0. QueueInv /\ QueueShape(queue, writer) /\ writer \in [Writer -> WriterState]
      /\ writer'[t].pc \in InProgress
  BY DEF TypedInv, QueueInv, QueueShape, InProgress
<1>1. ASSUME NEW u \in Writer, NEW w, QueueShape(queue, w), NEW n \in 1..Len(queue), NEW ok,
             Answer(w, n, ok)
      PROVE  FALSE
  BY <1>0, <1>1, AnswerKeeps
<1>2. ASSUME NEW u \in Writer, AtFront(u)
      PROVE  1 \in 1..Len(queue) /\ writer[t].pc \notin InProgress
  <2>1. 1 \in 1..Len(queue) /\ group = IdleGroup  BY <1>0, <1>2, FirstIsFront
  <2>2. IdleGroup.size = 0  BY DEF IdleGroup
  <2>3. writer[t].pc \in InProgress => group.size \in 1..Len(queue)  BY <1>0, Leader
  <2>4. Len(queue) \in Nat  BY <1>0, LenProperties DEF QueueShape
  <2>. QED  BY <2>1, <2>2, <2>3, <2>4
<1>3. ASSUME NEW u \in Writer, NEW x, writer' = [writer EXCEPT ![u] = x],
             x.pc \notin {"sync", "insert"}
      PROVE  writer'[t] = writer[t]
  <2>1. t # u  BY <1>0, <1>3
  <2>. QED  BY <1>0, <1>3, <2>1
<1>4. ASSUME NEW u \in Writer, NEW pc, writer' = [writer EXCEPT ![u].pc = pc],
             pc \notin {"sync", "insert"}
      PROVE  writer'[t] = writer[t]
  <2>1. writer[u] \in WriterState  BY <1>0
  <2>2. [writer[u] EXCEPT !.pc = pc].pc = pc  BY <2>1 DEF WriterState
  <2>. QED  BY <1>3, <1>4, <2>2
<1>5. ASSUME writer' = SignalAll(writer)  PROVE writer'[t] = writer[t]
  <2>0. writer[t] \in WriterState  BY <1>0
  <2>1. CASE writer[t].pc = "wait"
    <3>1. writer'[t] = [writer[t] EXCEPT !.pc = "front"]  BY <1>5, <2>1 DEF SignalAll
    <3>. QED  BY <2>0, <3>1 DEF WriterState
  <2>2. CASE writer[t].pc = "sleep"
    <3>1. writer'[t] = [writer[t] EXCEPT !.pc = "check"]  BY <1>5, <2>2 DEF SignalAll
    <3>. QED  BY <2>0, <3>1 DEF WriterState
  <2>3. CASE writer[t].pc # "wait" /\ writer[t].pc # "sleep"
    BY <1>5, <2>3 DEF SignalAll
  <2>. QED  BY <2>1, <2>2, <2>3
<1>6. ASSUME NEW u \in Writer, Submit(u) \/ Write(u) \/ WriteFaults(u)
      PROVE  /\ UNCHANGED <<group, logfile>>
             /\ \/ AddRecord(t) /\ (writer'[t].sync => writer'[t].pc = "sync")
                \/ SyncLog(t) /\ writer[t].pc = "sync"
                \/ writer'[t] = writer[t]
  <2>1. CASE Submit(u)
    <3>1. PICK k \in budget.keys \cup {NoKey}, sync \in budget.sync :
            writer' = [writer EXCEPT ![u] =
              [pc |-> IF queue = <<>> THEN "front" ELSE "queued", key |-> k, sync |-> sync]]
      BY <2>1 DEF Submit
    <3>2. PICK x : x = [pc |-> IF queue = <<>> THEN "front" ELSE "queued",
                        key |-> k, sync |-> sync]
      OBVIOUS
    <3>3. x.pc \notin {"sync", "insert"}  BY <3>2
    <3>4. writer'[t] = writer[t]  BY <1>3, <3>1, <3>2, <3>3
    <3>. QED  BY <2>1, <3>4 DEF Submit
  <2>2. CASE Refuse(u) \/ SwitchFails(u)
    <3>1. AtFront(u) /\ Answer(writer, 1, FALSE)  BY <2>2 DEF Refuse, SwitchFails
    <3>. QED  BY <1>0, <1>1, <1>2, <3>1
  <2>3. CASE Room(u) \/ Switch(u)
    <3>1. AtFront(u)  BY <2>3 DEF Room, Switch
    <3>2. StartGroup(u) \/ Answer(writer, 1, TRUE)  BY <2>3 DEF Room, Switch
    <3>3. CASE StartGroup(u)
      <4>1. writer' = [writer EXCEPT ![u].pc = "log"]  BY <3>3 DEF StartGroup
      <4>2. writer'[t] = writer[t]  BY <1>4, <4>1
      <4>. QED  BY <1>0, <1>2, <3>1, <4>2
    <3>. QED  BY <1>0, <1>1, <1>2, <3>1, <3>2, <3>3
  <2>4. CASE Wait(u)
    <3>1. writer' = [writer EXCEPT ![u].pc = "wait"] /\ UNCHANGED <<group, logfile>>
      BY <2>4 DEF Wait
    <3>. QED  BY <1>4, <3>1
  <2>5. CASE AddRecord(u)
    <3>1. /\ writer[u].pc = "log" /\ UNCHANGED <<group, logfile>>
          /\ writer' = [writer EXCEPT ![u].pc = IF @ = "log" /\ writer[u].sync
                                                THEN "sync" ELSE "insert"]
      BY <2>5 DEF AddRecord, Leading
    <3>2. CASE t = u
      <4>1. PICK pc : pc = IF writer[u].sync THEN "sync" ELSE "insert"  OBVIOUS
      <4>2. writer' = [writer EXCEPT ![u].pc = pc]  BY <3>1, <4>1
      <4>3. writer[u] \in WriterState  BY <1>0
      <4>4. writer'[u] = [writer[u] EXCEPT !.pc = pc]  BY <1>0, <4>2
      <4>5. writer'[u].pc = pc /\ writer'[u].sync = writer[u].sync
        BY <4>3, <4>4 DEF WriterState
      <4>. QED  BY <2>5, <3>1, <3>2, <4>1, <4>5
    <3>3. CASE t # u
      <4>1. writer'[t] = writer[t]  BY <1>0, <3>1, <3>3
      <4>. QED  BY <3>1, <4>1
    <3>. QED  BY <3>2, <3>3
  <2>6. CASE SyncLog(u)
    <3>1. /\ writer[u].pc = "sync" /\ UNCHANGED <<group, logfile>>
          /\ writer' = [writer EXCEPT ![u].pc = "insert"]
      BY <2>6 DEF SyncLog, Leading
    <3>2. t # u => writer'[t] = writer[t]  BY <1>0, <3>1
    <3>. QED  BY <2>6, <3>1, <3>2
  <2>7. CASE AddRecordFails(u) \/ SyncLogFails(u)
    <3>1. PICK pc \in {"failed", "unsynced"} :
            writer' = [writer EXCEPT ![u].pc = pc] /\ UNCHANGED <<group, logfile>>
      BY <2>7 DEF AddRecordFails, SyncLogFails
    <3>. QED  BY <1>4, <3>1
  <2>8. CASE Insert(u) \/ GiveUp(u)
    <3>1. PICK w, ok : (w = writer \/ w = SignalAll(writer)) /\ Answer(w, group.size, ok)
      <4>1. CASE Insert(u)  BY <4>1 DEF Insert, Commit
      <4>2. CASE GiveUp(u)
        <5>1. PICK w : /\ w = IF bgError' /\ ~bgError THEN SignalAll(writer) ELSE writer
                       /\ Commit(u, w)
          BY <4>2 DEF GiveUp
        <5>. QED  BY <5>1 DEF Commit
      <4>. QED  BY <2>8, <4>1, <4>2
    <3>2. writer[u].pc \in InProgress  BY <2>8 DEF Insert, GiveUp, Leading, InProgress
    <3>3. group.size \in 1..Len(queue)  BY <1>0, <3>2, Leader
    <3>4. QueueShape(queue, w)  BY <1>0, <3>1, SignalAllKeeps
    <3>. QED  BY <1>1, <3>1, <3>3, <3>4
  <2>9. CASE CheckFlushed(u)
    <3>1. writer[u].pc = "check" /\ UNCHANGED <<group, logfile>>
          /\ writer' = [writer EXCEPT ![u] =
               IF imm # <<>> /\ ~bgError THEN [@ EXCEPT !.pc = "sleep"] ELSE IdleWriter]
      BY <2>9 DEF CheckFlushed
    <3>2. PICK x : x = IF imm # <<>> /\ ~bgError THEN [writer[u] EXCEPT !.pc = "sleep"]
                       ELSE IdleWriter
      OBVIOUS
    <3>3. writer' = [writer EXCEPT ![u] = x]  BY <1>0, <3>1, <3>2
    <3>4. writer[u] \in WriterState  BY <1>0
    <3>5. [writer[u] EXCEPT !.pc = "sleep"].pc = "sleep" /\ IdleWriter.pc = "idle"
      BY <3>4 DEF WriterState, IdleWriter
    <3>6. x.pc \notin {"sync", "insert"}  BY <3>2, <3>5
    <3>. QED  BY <1>3, <3>1, <3>3, <3>6
  <2>. QED  BY <1>6, <2>1, <2>2, <2>3, <2>4, <2>5, <2>6, <2>7, <2>8, <2>9 DEF Write, WriteFaults
<1>7. CASE BackgroundCall \/ BackgroundFaults
  <2>1. UNCHANGED <<group, logfile>> /\ (writer' = writer \/ writer' = SignalAll(writer))
    BY <1>7 DEF BackgroundCall, BackgroundFaults, BackgroundNothing, Flush, FlushWhileMerging,
       StartTable, BuildTable, BuildTableFails, Build, Compact, OpenOutput, FinishOutput,
       MergeStops, MergeFails, MergeEnds, AppendToManifest, ManifestFails, InstallVersion,
       JobFails, EndCall, client
  <2>. QED  BY <1>5, <2>1
<1>8. CASE Reading \/ StartClose \/ Opened
  BY <1>8 DEF Reading, StartGet, EndGet, GetSnapshot, ReleaseSnapshot, StartClose, Opened,
     client
<1>9. ~(NewDB \/ Recover \/ (\E number \in recovery.logs : ReplayLog(number)) \/ NewManifest
          \/ SetCurrent \/ OpenFails \/ EndClose \/ Kill \/ PowerLoss)
  BY DEF NewDB, Recover, ReplayLog, ReplayRecord, EndLog, Replaying, NewManifest,
     SetCurrent, OpenFails, EndClose, Kill, PowerLoss, Reset, Running
<1>. QED  BY <1>6, <1>7, <1>8, <1>9 DEF Next, Open, Reading

\* The log of the memtable stays, with what it holds.
LEMMA CurrentLogKept ==
  ASSUME TypedInv, FilesInv, TypedInv', ContentInv, Whole, Next, Running, Running'
  PROVE  /\ logfile \in DOMAIN log /\ logfile \in DOMAIN log'
         /\ Readable(log[logfile].recs) \subseteq Readable(log'[logfile].recs)
         /\ SyncedOf(log[logfile]) \subseteq SyncedOf(log'[logfile])
         /\ ~PowerLoss /\ ~Opened
         /\ logfile \in Nat /\ versions.log \in Nat /\ versions.log <= logfile
<1>0. /\ Typed /\ JobShape /\ UpInv /\ logfile \in Nat /\ versions.log \in Nat
      /\ bg.edit.log \in Nat
  BY DEF TypedInv, FilesInv, Typed, OpenOK, BackgroundOK, Edit
<1>1. ~PowerLoss /\ ~Opened  BY DEF PowerLoss, Reset, Opened, Running
<1>2. logfile \in DOMAIN log /\ versions.log <= logfile  BY <1>0 DEF UpInv, Up, Running
<1>3. CASE InstallVersion
  <2>1. versions'.log = bg.edit.log /\ bg.pc = "sync"  BY <1>0, <1>3, InstallFacts
  <2>2. /\ bg.edit.del # {} => bg.edit.log = versions.log
        /\ bg.edit.del = {} => bg.edit.log = logfile
    BY <2>1 DEF FilesInv, JobInv, EditInv, Editing
  <2>3. LogsGrow(bg.edit.log)  BY <1>0, <1>1, <2>1, LogsKept
  <2>4. logfile >= bg.edit.log  BY <1>0, <1>2, <2>2
  <2>. QED  BY <1>0, <1>1, <1>2, <2>3, <2>4 DEF LogsGrow
<1>4. CASE ~InstallVersion
  <2>1. LogsGrow(0)  BY <1>1, <1>4, LogsKept
  <2>. QED  BY <1>0, <1>1, <1>2, <2>1 DEF LogsGrow
<1>. QED  BY <1>3, <1>4

LEMMA GroupKept ==
  ASSUME TypedInv, FilesInv, TypedInv', ContentInv, Whole, KeptInv, Next, Running, Running',
         NEW t \in Writer, writer'[t].pc \in {"sync", "insert"}
  PROVE  /\ group'.entries \subseteq Readable(log'[logfile'].recs)
         /\ writer'[t].pc = "insert" /\ writer'[t].sync =>
              group'.entries \subseteq SyncedOf(log'[logfile'])
<1>0. LogInv /\ NumbersInv  BY DEF ContentInv
<1>1. UNCHANGED <<group, logfile>>  BY LoggedGroup
<1>2. /\ Readable(log[logfile].recs) \subseteq Readable(log'[logfile].recs)
      /\ SyncedOf(log[logfile]) \subseteq SyncedOf(log'[logfile])
  BY CurrentLogKept
<1>3. /\ writer[t].pc \in {"sync", "insert"} =>
           group.entries \subseteq Readable(log[logfile].recs)
      /\ writer[t].pc = "insert" /\ writer[t].sync =>
           group.entries \subseteq SyncedOf(log[logfile])
  BY DEF KeptInv
<1>4. CASE AddRecord(t) /\ (writer'[t].sync => writer'[t].pc = "sync")
  <2>1. AddsRecord(t)  BY <1>4 DEF AddsRecord, Logging, AddRecord, Leading
  <2>2. group.entries \subseteq Readable(log'[logfile].recs)  BY <1>0, <2>1, GroupAdded
  <2>. QED  BY <1>1, <1>4, <2>2
<1>5. CASE SyncLog(t) /\ writer[t].pc = "sync"
  <2>1. SyncsLog  BY <1>5 DEF SyncsLog, SyncLog, Leading
  <2>2. Readable(log[logfile].recs) = SyncedOf(log'[logfile])  BY <1>0, <2>1, LogAllSynced
  <2>. QED  BY <1>1, <1>2, <1>3, <1>5, <2>2
<1>6. CASE writer'[t] = writer[t]
  BY <1>1, <1>2, <1>3, <1>6
<1>. QED  BY <1>4, <1>5, <1>6, LoggedGroup

LEMMA NextKeepsMemory ==
  ASSUME TypedInv, FilesInv, TypedInv', ContentInv, Whole, KeptInv, Next
  PROVE  KeptInv'
<1>1. CASE ~Running'  BY <1>1 DEF KeptInv
<1>2. CASE Opened
  <2>1. UNCHANGED <<mem, imm>> /\ db = "clean"  BY <1>2, OpenedReads
  <2>2. mem = {} /\ imm = <<>>  BY <2>1 DEF FilesInv, AtRest, Running
  <2>3. ImmEntries' = {}
    <3>1. Range(<<>>) = {}  BY DEF Range
    <3>. QED  BY <2>1, <2>2, <3>1 DEF ImmEntries
  <2>4. writer' = writer /\ \A t \in Writer : writer[t].pc = "idle"
    BY <1>2, <2>1 DEF Opened, client, TypedInv, QueueInv
  <2>. QED  BY <2>1, <2>2, <2>3, <2>4 DEF KeptInv
<1>3. ASSUME Running, Running',
             mem' \subseteq Readable(log'[logfile'].recs),
             ImmEntries' \subseteq Logged(log', versions'.log)
      PROVE  KeptInv'
  BY <1>3, GroupKept DEF KeptInv
<1>4. ASSUME Running, Running', ~InstallVersion, mem' = mem, ImmEntries' = ImmEntries,
             versions'.log = versions.log, logfile' = logfile
      PROVE  KeptInv'
  <2>1. /\ Readable(log[logfile].recs) \subseteq Readable(log'[logfile].recs)
        /\ versions.log \in Nat /\ ~PowerLoss /\ ~Opened
    BY <1>4, CurrentLogKept
  <2>2. LogsGrow(0)  BY <1>4, <2>1, LogsKept
  <2>3. Logged(log, versions.log) \subseteq Logged(log', versions.log)
    BY <2>1, <2>2, GrowsReads
  <2>4. mem \subseteq Readable(log[logfile].recs) /\ ImmEntries \subseteq Logged(log, versions.log)
    BY <1>4 DEF KeptInv
  <2>. QED  BY <1>3, <1>4, <2>1, <2>3, <2>4
<1>5. CASE InstallVersion
  <2>0. Typed /\ JobShape /\ Running  BY <1>5 DEF TypedInv, Typed, InstallVersion
  <2>1. /\ mem' = mem /\ logfile' = logfile /\ db' = db /\ bg.pc = "sync"
        /\ versions'.log = bg.edit.log
        /\ imm' = IF bg.edit.del # {} THEN imm ELSE <<>>
    BY <1>5, <2>0, InstallFacts
  <2>2. Running'  BY <2>0, <2>1 DEF Running
  <2>3. /\ Readable(log[logfile].recs) \subseteq Readable(log'[logfile].recs)
        /\ versions.log \in Nat /\ ~PowerLoss /\ ~Opened
    BY <2>0, <2>2, CurrentLogKept
  <2>4. mem \subseteq Readable(log[logfile].recs) /\ ImmEntries \subseteq Logged(log, versions.log)
    BY <2>0 DEF KeptInv
  <2>5. CASE bg.edit.del = {}
    <3>1. Range(<<>>) = {}  BY DEF Range
    <3>2. ImmEntries' = {}  BY <2>1, <2>5, <3>1 DEF ImmEntries
    <3>. QED  BY <1>3, <2>0, <2>1, <2>2, <2>3, <2>4, <3>2
  <2>6. CASE bg.edit.del # {}
    <3>1. ImmEntries' = ImmEntries  BY <2>1, <2>6 DEF ImmEntries
    <3>2. versions'.log = versions.log  BY <2>1, <2>6 DEF FilesInv, JobInv, EditInv, Editing
    <3>3. LogsGrow(versions.log)  BY <2>3, <3>2, LogsKept
    <3>4. Logged(log, versions.log) \subseteq Logged(log', versions.log)
      BY <2>3, <3>3, GrowsReads
    <3>. QED  BY <1>3, <2>0, <2>1, <2>2, <2>3, <2>4, <3>1, <3>2, <3>4
  <2>. QED  BY <2>5, <2>6
<1>6. CASE Still
  <2>1. /\ Running /\ Running' /\ UNCHANGED <<mem, imm, logfile>>
        /\ versions'.log = versions.log
    BY <1>6 DEF Still
  <2>2. ImmEntries' = ImmEntries  BY <2>1 DEF ImmEntries
  <2>. QED  BY <1>4, <1>5, <2>1, <2>2
<1>7. ASSUME NEW t \in Writer, Room(t) \/ AddsRecord(t)
      PROVE  KeptInv'
  <2>1. UNCHANGED <<mem, imm, logfile, db, versions>>
    BY <1>7 DEF Room, AddsRecord, AddRecord, AddRecordFails
  <2>2. db = "open"  BY <1>7, WriterIsOpen DEF Write, AddsRecord, Logging
  <2>3. Running /\ Running' /\ ImmEntries' = ImmEntries
    BY <2>1, <2>2 DEF Running, ImmEntries
  <2>. QED  BY <1>4, <1>5, <2>1, <2>3
<1>8. ASSUME NEW t \in Writer, Switch(t)
      PROVE  KeptInv'
  <2>1. /\ db = "open" /\ db' = db /\ mem' = {} /\ ImmEntries' = mem
        /\ \A b : Logged(log', b) = Logged(log, b)
        /\ versions'.log = versions.log
    BY <1>8, SwitchMoves
  <2>2. Running /\ Running'  BY <2>1 DEF Running
  <2>3. /\ logfile \in DOMAIN log /\ logfile \in Nat /\ versions.log \in Nat
        /\ versions.log <= logfile
    BY <2>2, CurrentLogKept
  <2>4. Readable(log[logfile].recs) \subseteq Logged(log, versions.log)
    BY <2>3, LogIn
  <2>5. mem \subseteq Readable(log[logfile].recs)  BY <2>2 DEF KeptInv
  <2>. QED  BY <1>3, <2>1, <2>2, <2>4, <2>5
<1>9. ASSUME NEW t \in Writer, Insert(t) \/ GiveUp(t)
      PROVE  KeptInv'
  <2>1. /\ UNCHANGED <<log, imm, db, logfile>> /\ db = "open"
        /\ versions'.log = versions.log
        /\ mem' = mem \/ (Insert(t) /\ mem' = mem \cup group.entries)
    BY <1>9, CommitFacts
  <2>2. Running /\ Running' /\ ImmEntries' = ImmEntries
    BY <2>1 DEF Running, ImmEntries
  <2>3. Insert(t) => group.entries \subseteq Readable(log[logfile].recs)
    BY <2>2 DEF KeptInv, Insert, Leading
  <2>4. mem \subseteq Readable(log[logfile].recs) /\ ImmEntries \subseteq Logged(log, versions.log)
    BY <2>2 DEF KeptInv
  <2>. QED  BY <1>3, <2>1, <2>2, <2>3, <2>4
<1>10. CASE OpenOutput \/ FinishOutput \/ \E ok \in BOOLEAN : Build(ok)
  <2>1. /\ UNCHANGED <<mem, logfile>> /\ Running /\ Running' /\ ImmEntries' = ImmEntries
        /\ versions'.log = versions.log
    BY <1>10, JobWrites
  <2>. QED  BY <1>4, <1>5, <2>1
<1>11. CASE AddsEdit
  <2>1. /\ UNCHANGED <<mem, logfile, db, versions>> /\ Running /\ ImmEntries' = ImmEntries
    BY <1>11, AddsEditFacts DEF ContentInv
  <2>2. Running'  BY <2>1 DEF Running
  <2>. QED  BY <1>4, <1>5, <2>1, <2>2
<1>12. CASE Running'
  <2>1. ~(NewDB \/ Recover \/ (\E number \in recovery.logs : ReplayLog(number)) \/ NewManifest
            \/ SetCurrent \/ OpenFails \/ EndClose \/ Kill \/ PowerLoss)
    BY <1>12 DEF NewDB, Recover, ReplayLog, ReplayRecord, EndLog, Replaying, NewManifest,
       SetCurrent, OpenFails, EndClose, Kill, PowerLoss, Reset, Running
  <2>. QED
    BY <1>2, <1>5, <1>6, <1>7, <1>8, <1>9, <1>10, <1>11, <2>1, NextKinds
<1>. QED  BY <1>1, <1>12

(***************************************************************************)
(* What was promised is found again                                        *)
(***************************************************************************)
LEMMA LoggedSyncedIn ==
  ASSUME TypedInv, Whole, NEW b
  PROVE  LoggedSynced(log, b) \subseteq Logged(log, b)
BY SyncedIsRead DEF LoggedSynced, Logged

LEMMA OnDiskTyped ==
  ASSUME TypedInv, Whole, NEW st
  PROVE  /\ OnDisk(table, log, st) \subseteq FoundIn(table, log, st)
         /\ FoundIn(table, log, st) \subseteq Entry /\ OnDisk(table, log, st) \subseteq Entry
<1>1. FoundIn(table, log, st) \subseteq Entry  BY FoundTyped DEF TypedInv, Typed
<1>2. OnDisk(table, log, st) \subseteq FoundIn(table, log, st)
  BY LoggedSyncedIn DEF OnDisk, FoundIn
<1>. QED  BY <1>1, <1>2

LEMMA PromisesTyped ==
  ASSUME TypedInv
  PROVE  /\ acked \subseteq Entry /\ durable \subseteq Entry
         /\ Shown(table, versions.files) \subseteq Entry /\ Safe \subseteq Entry
         /\ Safe \subseteq Shown(table, versions.files)
<1>1. acked \subseteq Entry /\ durable \subseteq Entry
  BY DEF TypedInv, Typed, PromisesOK
<1>2. Safe \subseteq Shown(table, versions.files)  BY DEF Safe, Shown
<1>. QED  BY <1>1, <1>2, UsedTyped

LEMMA PossibleLogs ==
  ASSUME TypedInv, FilesInv, NEW st \in Possible
  PROVE  st.log \in Nat /\ Stored(Numbers(st.files))
<1>1. st \in Version  BY PossibleTyped DEF TypedInv, FilesInv, Typed
<1>2. Stored(Numbers(st.files))  BY DEF FilesInv, DescriptorInv, Openable
<1>. QED  BY <1>1, <1>2 DEF Version

\* What can be recovered does not get less.
LEMMA FoundKept ==
  ASSUME TypedInv, FilesInv, TablesStay, LogsGrow(0), NEW st \in Possible
  PROVE  /\ FoundIn(table, log, st) \subseteq FoundIn(table', log', st)
         /\ OnDisk(table, log, st) \subseteq OnDisk(table', log', st)
<1>1. st.log \in Nat  BY PossibleLogs
<1>2. Tab(table', st.files) = Tab(table, st.files)  BY PossibleStays
<1>3. /\ Logged(log, st.log) \subseteq Logged(log', st.log)
      /\ LoggedSynced(log, st.log) \subseteq LoggedSynced(log', st.log)
  BY <1>1, GrowsReads
<1>. QED  BY <1>2, <1>3 DEF FoundIn, OnDisk

LEMMA RunningPromises ==
  ASSUME TypedInv, FilesInv, Running, SeenInv, Covers(Shown(table, versions.files), acked)
  PROVE  AckedInv
<1>1. Described \in Possible /\ current # 0  BY UpFacts DEF TypedInv, FilesInv
<1>2. Covers(FoundIn(table, log, Described), Shown(table, versions.files))
  BY <1>1 DEF SeenInv
<1>3. FoundIn(table, log, Described) \subseteq Entry  BY FoundTyped DEF TypedInv, Typed
<1>4. Covers(FoundIn(table, log, Described), acked)
  BY <1>2, <1>3, PromisesTyped, CoversTrans
<1>. QED  BY <1>1, <1>4 DEF AckedInv

\* A step of the running store that neither shows nor promises anything new.
LEMMA PromisesStay ==
  ASSUME TypedInv, FilesInv, TypedInv', FilesInv', PromiseInv, Running, Running',
         Possible' = Possible, TablesStay, LogsGrow(0),
         (Shown(table, versions.files))' = Shown(table, versions.files), Safe \subseteq Safe',
         UNCHANGED <<acked, durable>>
  PROVE  PromiseInv'
<1>1. PICK S : S = Shown(table, versions.files)  OBVIOUS
<1>2. (Shown(table, versions.files))' = S  BY <1>1
<1>3. /\ \A st \in Possible : Covers(FoundIn(table, log, st), S)
      /\ \A st \in Possible : Covers(OnDisk(table, log, st), durable)
      /\ Covers(S, acked) /\ Covers(Safe, durable) /\ durable \subseteq acked
  BY <1>1 DEF PromiseInv, SeenInv, AckedInv, DurableInv
<1>4. \A st \in Possible : /\ Covers(FoundIn(table', log', st), S)
                           /\ Covers(OnDisk(table', log', st), durable)
  BY <1>3, FoundKept, CoversLarger
<1>5. SeenInv'  BY <1>2, <1>4 DEF SeenInv
<1>6. (Covers(Shown(table, versions.files), acked))'  BY <1>2, <1>3
<1>7. AckedInv'  BY <1>5, <1>6, RunningPromises, PTL
<1>8. PICK Z : Z = Safe'  OBVIOUS
<1>9. Covers(Z, durable)  BY <1>3, <1>8, CoversLarger
<1>10. DurableInv'  BY <1>3, <1>4, <1>8, <1>9 DEF DurableInv
<1>. QED  BY <1>5, <1>7, <1>10 DEF PromiseInv

LEMMA QuietPromises ==
  ASSUME TypedInv, FilesInv, TypedInv', FilesInv', ContentInv, Whole, PromiseInv, Next,
         Running, Running', ~InstallVersion, TablesStay, Possible' = Possible,
         UNCHANGED <<mem, logfile, acked, durable>>, ImmEntries' = ImmEntries,
         versions'.files = versions.files, versions'.log = versions.log
  PROVE  PromiseInv'
<1>1. /\ SyncedOf(log[logfile]) \subseteq SyncedOf(log'[logfile])
      /\ versions.log \in Nat /\ ~PowerLoss /\ ~Opened
  BY CurrentLogKept
<1>2. LogsGrow(0)  BY <1>1, LogsKept
<1>3. LoggedSynced(log, versions.log) \subseteq LoggedSynced(log', versions.log)
  BY <1>1, <1>2, GrowsReads
<1>4. Tab(table', versions.files) = Tab(table, versions.files)  BY WorkStays
<1>5. (Shown(table, versions.files))' = Shown(table, versions.files)  BY <1>4 DEF Shown
<1>6. Safe \subseteq Safe'  BY <1>1, <1>3, <1>4 DEF Safe
<1>. QED  BY <1>2, <1>5, <1>6, PromisesStay

LEMMA SwitchKeepsPromises ==
  ASSUME TypedInv, FilesInv, TypedInv', FilesInv', ContentInv, Whole, PromiseInv, Next,
         NEW t \in Writer, Switch(t)
  PROVE  PromiseInv'
<1>1. /\ UNCHANGED <<table, manifest, current, db, acked, durable>>
      /\ db = "open" /\ ImmEntries = {} /\ mem' = {} /\ ImmEntries' = mem
      /\ versions'.files = versions.files /\ versions'.log = versions.log
  BY SwitchMoves
<1>2. Running /\ Running' /\ TablesStay /\ Possible' = Possible
  BY <1>1 DEF Running, TablesStay, Possible
<1>3. /\ logfile \in DOMAIN log /\ versions.log <= logfile /\ versions.log \in Nat
      /\ logfile \in Nat
  BY <1>2, CurrentLogKept
<1>4. LogsGrow(0)
  <2>1. /\ DOMAIN log' = DOMAIN log \cup {versions.next}
        /\ \A n \in DOMAIN log : log'[n] = log[n]
    BY SwitchMoves
  <2>. QED  BY <2>1, GrowsSame
<1>5. LoggedSynced(log, versions.log) \subseteq LoggedSynced(log', versions.log)
  BY <1>3, <1>4, GrowsReads
<1>6. SyncedOf(log[logfile]) \subseteq LoggedSynced(log, versions.log)
  BY <1>3 DEF LoggedSynced
<1>7. (Shown(table, versions.files))' = Shown(table, versions.files)
  BY <1>1 DEF Shown
<1>8. Safe \subseteq Safe'  BY <1>1, <1>5, <1>6 DEF Safe
<1>. QED  BY <1>1, <1>2, <1>4, <1>7, <1>8, PromisesStay

\* A group that is inserted is in the log, and is synced if it asked for that.
LEMMA InsertKeepsPromises ==
  ASSUME TypedInv, FilesInv, TypedInv', FilesInv', Whole, KeptInv, PromiseInv,
         NEW t \in Writer, Insert(t)
  PROVE  PromiseInv'
<1>1. /\ UNCHANGED <<log, table, manifest, current, imm, db, logfile>>
      /\ versions'.files = versions.files /\ versions'.log = versions.log /\ db = "open"
  BY CommitFacts
<1>2. /\ mem' = mem \cup group.entries /\ acked' = acked \cup group.entries
      /\ durable' = IF writer[t].sync THEN durable \cup group.entries ELSE durable
      /\ writer[t].pc = "insert"
  BY DEF Insert, Leading
<1>3. Running /\ Running' /\ ImmEntries' = ImmEntries
  BY <1>1 DEF Running, ImmEntries
<1>4. PICK G : G = group.entries  OBVIOUS
<1>5. G \subseteq Entry  BY <1>4, UsedTyped
<1>6. /\ G \subseteq Readable(log[logfile].recs)
      /\ writer[t].sync => G \subseteq SyncedOf(log[logfile])
  BY <1>2, <1>3, <1>4 DEF KeptInv
<1>7. Possible' = Possible  BY <1>1 DEF Possible
<1>8. \A st \in Possible : /\ Readable(log[logfile].recs) \subseteq FoundIn(table, log, st)
                           /\ SyncedOf(log[logfile]) \subseteq OnDisk(table, log, st)
  <2>1. /\ logfile \in DOMAIN log /\ \A st \in Possible : st.log <= logfile
    BY <1>3 DEF FilesInv, UpInv, Up, Running
  <2>2. \A st \in Possible : st.log \in Nat  BY PossibleLogs
  <2>3. logfile \in Nat  BY DEF TypedInv, Typed, OpenOK
  <2>4. \A st \in Possible : logfile >= st.log  BY <2>1, <2>2, <2>3
  <2>. QED  BY <2>1, <2>4, LogIn DEF FoundIn, OnDisk, LoggedSynced
<1>9. PICK S : S = Shown(table, versions.files)  OBVIOUS
<1>10. (Shown(table, versions.files))' = S \cup G
  BY <1>1, <1>2, <1>3, <1>4, <1>9 DEF Shown
<1>11. /\ \A st \in Possible : Covers(FoundIn(table, log, st), S)
       /\ \A st \in Possible : Covers(OnDisk(table, log, st), durable)
       /\ Covers(S, acked) /\ Covers(Safe, durable) /\ durable \subseteq acked
  BY <1>3, <1>9 DEF PromiseInv, SeenInv, AckedInv, DurableInv
<1>12. \A st \in Possible : Covers(FoundIn(table, log, st), S \cup G)
  BY <1>5, <1>6, <1>8, <1>11, CoversMore, CoversUnion
<1>13. SeenInv'  BY <1>1, <1>7, <1>10, <1>12 DEF SeenInv
<1>14. Covers(S \cup G, acked \cup G)
  <2>1. Covers(S \cup G, acked)  BY <1>11, CoversLarger
  <2>2. Covers(S \cup G, G)  BY <1>5, CoversMore
  <2>. QED  BY <2>1, <2>2, CoversUnion
<1>15. (Covers(Shown(table, versions.files), acked))'  BY <1>2, <1>4, <1>10, <1>14
<1>16. AckedInv'  BY <1>3, <1>13, <1>15, RunningPromises, PTL
<1>17. PICK Z : Z = Safe'  OBVIOUS
<1>18. Safe \subseteq Z /\ (writer[t].sync => G \subseteq Z)
  <2>1. Z = Tab(table, versions.files) \cup ((mem \cup G) \cap SyncedOf(log[logfile]))
              \cup (ImmEntries \cap LoggedSynced(log, versions.log))
    BY <1>1, <1>2, <1>3, <1>4, <1>17 DEF Safe
  <2>. QED  BY <1>6, <2>1 DEF Safe
<1>19. PICK D : D = durable'  OBVIOUS
<1>20. D \subseteq durable \cup G /\ (~writer[t].sync => D = durable)
  BY <1>2, <1>4, <1>19
<1>21. \A st \in Possible : Covers(OnDisk(table, log, st), D)
  <2>1. CASE writer[t].sync
    <3>1. \A st \in Possible : Covers(OnDisk(table, log, st), G)
      BY <1>5, <1>6, <1>8, <2>1, CoversMore
    <3>2. \A st \in Possible : Covers(OnDisk(table, log, st), durable \cup G)
      BY <1>11, <3>1, CoversUnion
    <3>. QED  BY <1>20, <3>2 DEF Covers
  <2>2. CASE ~writer[t].sync  BY <1>11, <1>20, <2>2
  <2>. QED  BY <2>1, <2>2
<1>22. Covers(Z, D)
  <2>0. Covers(Z, durable)  BY <1>11, <1>18, CoversLarger
  <2>1. CASE writer[t].sync
    <3>1. Covers(Z, G)  BY <1>5, <1>18, <2>1, CoversMore
    <3>2. Covers(Z, durable \cup G)  BY <2>0, <3>1, CoversUnion
    <3>. QED  BY <1>20, <3>2 DEF Covers
  <2>2. CASE ~writer[t].sync  BY <1>20, <2>0, <2>2
  <2>. QED  BY <2>1, <2>2
<1>23. D \subseteq acked \cup G  BY <1>11, <1>20
<1>24. DurableInv'  BY <1>1, <1>2, <1>4, <1>7, <1>17, <1>19, <1>21, <1>22, <1>23 DEF DurableInv
<1>. QED  BY <1>13, <1>16, <1>24 DEF PromiseInv

(***************************************************************************)
(* An edit does not lose what was promised                                 *)
(***************************************************************************)
LEMMA EditedCovers ==
  ASSUME TypedInv, FilesInv, WorkInv, Editing, NEW F, Edited \subseteq F
  PROVE  /\ Covers(Tab(table, F), Tab(table, versions.files))
         /\ bg.edit.del = {} => ImmEntries \subseteq Tab(table, F)
<1>0. DiskOK /\ JobShape /\ bg.smallest \in Nat
  BY DEF TypedInv, Typed, BackgroundOK
<1>1. Tab(table, F) \in SUBSET Entry /\ Tab(table, versions.files) \in SUBSET Entry
  BY <1>0, InTyped DEF Tab
<1>2. PICK D : D = versions.files \ bg.edit.del  OBVIOUS
<1>3. PICK A : A = bg.edit.add  OBVIOUS
<1>4. Tab(table, D) \cup Tab(table, A) \subseteq Tab(table, F)
  <2>1. D \subseteq F /\ A \subseteq F  BY <1>2, <1>3 DEF Edited
  <2>. QED  BY <2>1, TabMore
<1>5. CASE bg.edit.del = {}
  <2>1. Tab(table, A) = ImmEntries  BY <1>3, <1>5 DEF WorkInv
  <2>2. D = versions.files  BY <1>2, <1>5
  <2>3. Tab(table, versions.files) \subseteq Tab(table, F)  BY <1>4, <2>2
  <2>. QED  BY <1>1, <1>4, <2>1, <2>3, CoversMore
<1>6. CASE bg.edit.del # {}
  <2>1. bg.edit.del = bg.inputs /\ bg.inputs \subseteq versions.files
    BY <1>0, <1>6 DEF JobShape, Editing, FilesInv, JobInv
  <2>2. PICK E : E = Tab(table, bg.inputs)  OBVIOUS
  <2>3. Tab(table, A) = Merged(E, bg.smallest)  BY <1>3, <1>6, <2>2 DEF WorkInv
  <2>4. E \in SUBSET Entry  BY <1>0, <2>2, InTyped DEF Tab
  <2>5. Covers(Merged(E, bg.smallest), E)  BY <1>0, <2>4, MergedCovers
  <2>6. Covers(Tab(table, F), E)
    <3>1. Merged(E, bg.smallest) \subseteq Tab(table, F)  BY <1>4, <2>3
    <3>. QED  BY <2>5, <3>1, CoversLarger
  <2>7. Covers(Tab(table, F), Tab(table, D))
    <3>1. Tab(table, D) \in SUBSET Entry  BY <1>0, InTyped DEF Tab
    <3>. QED  BY <1>4, <3>1, CoversMore
  <2>8. Tab(table, versions.files) = Tab(table, D) \cup E
    <3>1. versions.files = D \cup bg.inputs  BY <1>2, <2>1
    <3>. QED  BY <2>2, <3>1, TabUnion
  <2>. QED  BY <1>6, <2>6, <2>7, <2>8, CoversUnion
<1>. QED  BY <1>5, <1>6

\* The state an edit adds to the descriptor can be recovered as well as the others.
LEMMA EditRecovers ==
  ASSUME TypedInv, FilesInv, WorkInv, Whole, KeptInv, Running, Editing, NEW st,
         Edited \subseteq st.files, st.log = bg.edit.log
  PROVE  /\ Covers(FoundIn(table, log, st), Shown(table, versions.files))
         /\ Covers(OnDisk(table, log, st), Safe)
<1>1. /\ Covers(Tab(table, st.files), Tab(table, versions.files))
      /\ bg.edit.del = {} => ImmEntries \subseteq Tab(table, st.files)
  BY EditedCovers
<1>2. /\ mem \subseteq Readable(log[logfile].recs)
      /\ ImmEntries \subseteq Logged(log, versions.log)
  BY DEF KeptInv
<1>3. /\ logfile \in DOMAIN log /\ versions.log <= logfile
      /\ logfile \in Nat /\ versions.log \in Nat
      /\ bg.edit.del # {} => st.log = versions.log
      /\ bg.edit.del = {} => st.log = logfile
  BY DEF FilesInv, UpInv, Up, Running, JobInv, EditInv, TypedInv, Typed, OpenOK
<1>4. logfile >= st.log  BY <1>3
<1>5. /\ Readable(log[logfile].recs) \subseteq Logged(log, st.log)
      /\ SyncedOf(log[logfile]) \subseteq LoggedSynced(log, st.log)
  BY <1>3, <1>4, LogIn DEF LoggedSynced
<1>6. PICK X : X = FoundIn(table, log, st)  OBVIOUS
<1>7. PICK Y : Y = OnDisk(table, log, st)  OBVIOUS
<1>8. PICK T : T = Tab(table, versions.files)  OBVIOUS
<1>9. Tab(table, st.files) \subseteq X /\ Tab(table, st.files) \subseteq Y
      /\ Logged(log, st.log) \subseteq X /\ LoggedSynced(log, st.log) \subseteq Y
  BY <1>6, <1>7 DEF FoundIn, OnDisk
<1>10. Covers(X, T) /\ Covers(Y, T)  BY <1>1, <1>8, <1>9, CoversLarger
<1>11. PICK M : M = mem \cup ImmEntries  OBVIOUS
<1>12. PICK N : N = (mem \cap SyncedOf(log[logfile]))
                      \cup (ImmEntries \cap LoggedSynced(log, versions.log))
  OBVIOUS
<1>13. M \subseteq X
  <2>1. CASE bg.edit.del = {}  BY <1>1, <1>2, <1>5, <1>9, <1>11, <2>1
  <2>2. CASE bg.edit.del # {}
    <3>1. Logged(log, versions.log) \subseteq X  BY <1>3, <1>9, <2>2
    <3>. QED  BY <1>2, <1>5, <1>9, <1>11, <3>1
  <2>. QED  BY <2>1, <2>2
<1>14. N \subseteq Y
  <2>1. CASE bg.edit.del = {}  BY <1>1, <1>5, <1>9, <1>12, <2>1
  <2>2. CASE bg.edit.del # {}
    <3>1. LoggedSynced(log, versions.log) \subseteq Y  BY <1>3, <1>9, <2>2
    <3>. QED  BY <1>5, <1>9, <1>12, <3>1
  <2>. QED  BY <2>1, <2>2
<1>15. Shown(table, versions.files) = M \cup T /\ Safe = N \cup T
  BY <1>8, <1>11, <1>12 DEF Shown, Safe
<1>16. M \subseteq Entry /\ N \subseteq Entry
  <2>1. Shown(table, versions.files) \subseteq Entry /\ Safe \subseteq Entry  BY PromisesTyped
  <2>. QED  BY <1>15, <2>1
<1>17. Covers(X, M \cup T)  BY <1>10, <1>13, <1>16, CoversMore, CoversUnion
<1>18. Covers(Y, N \cup T)  BY <1>10, <1>14, <1>16, CoversMore, CoversUnion
<1>. QED  BY <1>6, <1>7, <1>15, <1>17, <1>18

LEMMA AddsEditKeepsPromises ==
  ASSUME TypedInv, FilesInv, TypedInv', FilesInv', ContentInv, Whole, KeptInv, PromiseInv,
         AddsEdit
  PROVE  PromiseInv'
<1>1. /\ UNCHANGED <<log, table, mem, logfile, db, versions, acked, durable>>
      /\ Running /\ Editing /\ ImmEntries' = ImmEntries
      /\ Described'.files = (Described.files \ bg.edit.del) \cup bg.edit.add
      /\ Described'.log = bg.edit.log
      /\ Possible' = Possible \cup {Described'}
      /\ versions.files \subseteq Described.files
  BY AddsEditFacts DEF ContentInv
<1>2. Running'  BY <1>1 DEF Running
<1>3. PICK d : d = Described'  OBVIOUS
<1>5. Edited \subseteq d.files /\ d.log = bg.edit.log  BY <1>1, <1>3 DEF Edited
<1>6. /\ Covers(FoundIn(table, log, d), Shown(table, versions.files))
      /\ Covers(OnDisk(table, log, d), Safe)
  BY <1>1, <1>5, EditRecovers DEF ContentInv
<1>7. /\ \A st \in Possible : Covers(FoundIn(table, log, st), Shown(table, versions.files))
      /\ \A st \in Possible : Covers(OnDisk(table, log, st), durable)
      /\ Covers(Shown(table, versions.files), acked) /\ Covers(Safe, durable)
      /\ durable \subseteq acked
  BY <1>1 DEF PromiseInv, SeenInv, AckedInv, DurableInv
<1>8. Covers(OnDisk(table, log, d), durable)
  BY <1>6, <1>7, CoversTrans, PromisesTyped, OnDiskTyped
<1>9. PICK S : S = Shown(table, versions.files)  OBVIOUS
<1>10. (Shown(table, versions.files))' = S  BY <1>1, <1>9 DEF Shown
<1>11. SeenInv'  BY <1>1, <1>3, <1>6, <1>7, <1>9, <1>10 DEF SeenInv
<1>12. (Covers(Shown(table, versions.files), acked))'  BY <1>1, <1>7, <1>9, <1>10
<1>13. AckedInv'  BY <1>2, <1>11, <1>12, RunningPromises, PTL
<1>14. Safe' = Safe  BY <1>1 DEF Safe
<1>15. DurableInv'  BY <1>1, <1>3, <1>7, <1>8, <1>14 DEF DurableInv
<1>. QED  BY <1>11, <1>13, <1>15 DEF PromiseInv

LEMMA SafeTyped ==
  ASSUME TypedInv
  PROVE  Safe \subseteq Entry
BY PromisesTyped

\* The version that is installed, and the clean-up after it.
LEMMA InstallFinds ==
  ASSUME TypedInv, FilesInv, TypedInv', ContentInv, Whole, Next, InstallVersion
  PROVE  /\ FoundIn(table, log, Described) \subseteq FoundIn(table', log', Described)
         /\ OnDisk(table, log, Described) \subseteq OnDisk(table', log', Described)
         /\ LogsGrow(versions'.log) /\ Described.log = versions'.log /\ versions'.log \in Nat
<1>1. /\ bg.pc = "sync" /\ Running /\ db' = db /\ versions'.log = bg.edit.log
  BY InstallFacts DEF TypedInv
<1>2. Described.log = bg.edit.log /\ (~bgError => Described.files = Edited)
  BY <1>1 DEF FilesInv, JobInv, SyncInv
<1>3. Described \in Possible  BY <1>1, UpFacts DEF TypedInv, FilesInv
<1>4. Stored(Numbers(Described.files))  BY <1>3, PossibleLogs
<1>5. \A n \in Numbers(Described.files) :
        n \in DOMAIN table /\ n \in DOMAIN table' /\ table'[n] = table[n]
  BY <1>2, <1>4, InstallDeletes DEF Stored
<1>6. Tab(table', Described.files) = Tab(table, Described.files)
  BY <1>5, InSame DEF Tab
<1>7. versions'.log \in Nat  BY <1>1, <1>2, <1>3, PossibleLogs
<1>8. ~PowerLoss /\ ~Opened
  <2>1. PowerLoss => db' = "closed"  BY DEF PowerLoss, Reset
  <2>2. Opened => db = "clean"  BY DEF Opened
  <2>. QED  BY <1>1, <2>1, <2>2 DEF Running
<1>9. LogsGrow(versions'.log)  BY <1>7, <1>8, LogsKept
<1>10. PICK b : b = versions'.log  OBVIOUS
<1>11. LogsGrow(b) /\ b \in Nat  BY <1>7, <1>9, <1>10
<1>12. /\ Logged(log, b) \subseteq Logged(log', b)
       /\ LoggedSynced(log, b) \subseteq LoggedSynced(log', b)
  BY <1>11, GrowsReads
<1>13. Described.log = b  BY <1>1, <1>2, <1>10
<1>. QED  BY <1>6, <1>7, <1>9, <1>10, <1>12, <1>13 DEF FoundIn, OnDisk

LEMMA InstallKeepsPromises ==
  ASSUME TypedInv, FilesInv, TypedInv', FilesInv', ContentInv, Whole, KeptInv, PromiseInv,
         Next, InstallVersion
  PROVE  PromiseInv'
<1>0. JobShape /\ DiskOK  BY DEF TypedInv, Typed
<1>1. /\ UNCHANGED <<current, db, mem, logfile, acked, durable>> /\ bg.pc = "sync"
      /\ versions'.files = Edited /\ versions'.log = bg.edit.log
      /\ imm' = IF bg.edit.del # {} THEN imm ELSE <<>>
  BY InstallFacts DEF TypedInv
<1>2. Running /\ Running' /\ Editing  BY <1>0, <1>1 DEF JobShape, Running, Editing
<1>3. Possible' = {Described} /\ Described' = Described  BY InstallsDescribed
<1>4. Described \in Possible  BY <1>2, UpFacts DEF TypedInv, FilesInv
<1>5. PICK d : d = Described  OBVIOUS
<1>6. PICK S : S = Shown(table, versions.files)  OBVIOUS
<1>7. PICK Z : Z = (Shown(table, versions.files))'  OBVIOUS
<1>8. /\ Covers(FoundIn(table, log, d), S) /\ Covers(OnDisk(table, log, d), durable)
      /\ Covers(S, acked) /\ Covers(Safe, durable) /\ durable \subseteq acked
  BY <1>2, <1>4, <1>5, <1>6 DEF PromiseInv, SeenInv, AckedInv, DurableInv
<1>9. /\ FoundIn(table, log, d) \subseteq FoundIn(table', log', d)
      /\ OnDisk(table, log, d) \subseteq OnDisk(table', log', d)
      /\ LogsGrow(bg.edit.log) /\ bg.edit.log \in Nat
  BY <1>1, <1>5, InstallFinds
<1>10. Covers(FoundIn(table', log', d), S) /\ Covers(OnDisk(table', log', d), durable)
  BY <1>8, <1>9, CoversLarger
<1>11. PICK T : T = Tab(table, versions.files)  OBVIOUS
<1>12. PICK F : F = Edited  OBVIOUS
<1>13. /\ Covers(Tab(table, F), T)
       /\ bg.edit.del = {} => ImmEntries \subseteq Tab(table, F)
  BY <1>2, <1>11, <1>12, EditedCovers DEF ContentInv
<1>14. Tab(table', F) = Tab(table, F)
  BY <1>1, <1>12, InstalledShown DEF ContentInv
<1>15. ImmEntries' = IF bg.edit.del = {} THEN {} ELSE ImmEntries
  <2>1. Range(<<>>) = {}  BY DEF Range
  <2>. QED  BY <1>1, <2>1 DEF ImmEntries
<1>16. PICK I : I = ImmEntries  OBVIOUS
<1>17. PICK J : J = ImmEntries'  OBVIOUS
<1>18. Z = mem \cup J \cup Tab(table, F) /\ S = mem \cup I \cup T
       /\ I \subseteq J \cup Tab(table, F) /\ J \subseteq I
  BY <1>1, <1>6, <1>7, <1>11, <1>12, <1>13, <1>14, <1>15, <1>16, <1>17 DEF Shown
<1>19. S \subseteq Entry /\ T \subseteq Entry /\ Tab(table, F) \subseteq Entry
       /\ Z \subseteq Entry
  <2>1. Tab(table, F) \subseteq Entry  BY <1>0, InTyped DEF Tab
  <2>2. S \subseteq Entry  BY <1>6, PromisesTyped
  <2>. QED  BY <1>18, <2>1, <2>2
<1>20. Z \subseteq S
  <2>1. /\ mem' \cup ImmEntries' \subseteq mem \cup ImmEntries
        /\ Tab(table', versions'.files) \subseteq S
    BY <1>6, InstallReads DEF ContentInv
  <2>. QED  BY <1>1, <1>12, <1>14, <1>18, <2>1
<1>21. SeenInv'
  <2>1. Covers(FoundIn(table', log', d), Z)  BY <1>10, <1>20 DEF Covers
  <2>. QED  BY <1>3, <1>5, <1>7, <2>1 DEF SeenInv
<1>22. Covers(Z, S)
  <2>1. Covers(Z, T)  BY <1>13, <1>18, CoversLarger
  <2>2. Covers(Z, mem \cup I)  BY <1>18, <1>19, CoversMore
  <2>. QED  BY <1>18, <2>1, <2>2, CoversUnion
<1>23. Covers(Z, acked)  BY <1>8, <1>19, <1>22, CoversTrans, PromisesTyped
<1>24. (Covers(Shown(table, versions.files), acked))'  BY <1>1, <1>7, <1>23
<1>25. AckedInv'  BY <1>2, <1>21, <1>24, RunningPromises, PTL
<1>26. PICK Y : Y = Safe'  OBVIOUS
<1>27. Covers(Y, Safe)
  <2>1. PICK M : M = mem \cap SyncedOf(log[logfile])  OBVIOUS
  <2>2. PICK N : N = I \cap LoggedSynced(log, versions.log)  OBVIOUS
  <2>3. Safe = T \cup (M \cup N)  BY <1>11, <1>16, <2>1, <2>2 DEF Safe
  <2>4. Tab(table, F) \subseteq Y
    BY <1>1, <1>12, <1>14, <1>26 DEF Safe
  <2>5. M \subseteq Y
    <3>1. SyncedOf(log[logfile]) \subseteq SyncedOf(log'[logfile])
      BY <1>2, CurrentLogKept
    <3>. QED  BY <1>1, <1>26, <2>1, <3>1 DEF Safe
  <2>6. N \subseteq Y
    <3>1. CASE bg.edit.del = {}  BY <1>13, <1>16, <2>2, <2>4, <3>1
    <3>2. CASE bg.edit.del # {}
      <4>1. PICK b : b = versions.log  OBVIOUS
      <4>2. bg.edit.log = b /\ J = I
        BY <1>2, <1>15, <1>16, <1>17, <3>2, <4>1 DEF FilesInv, JobInv, EditInv
      <4>3. LogsGrow(b) /\ b \in Nat  BY <1>9, <4>2
      <4>4. LoggedSynced(log, b) \subseteq LoggedSynced(log', b)  BY <4>3, GrowsReads
      <4>5. J \cap LoggedSynced(log', b) \subseteq Y
        BY <1>1, <1>17, <1>26, <4>2 DEF Safe
      <4>. QED  BY <2>2, <4>1, <4>2, <4>4, <4>5
    <3>. QED  BY <3>1, <3>2
  <2>7. Covers(Y, T)  BY <1>13, <2>4, CoversLarger
  <2>8. M \cup N \subseteq Entry
    <3>1. Safe \subseteq Entry  BY PromisesTyped
    <3>. QED  BY <2>3, <3>1
  <2>9. Covers(Y, M \cup N)  BY <2>5, <2>6, <2>8, CoversMore
  <2>. QED  BY <2>3, <2>7, <2>9, CoversUnion
<1>28. Y \subseteq Entry
  <2>1. (Safe \subseteq Entry)'  BY SafeTyped, PTL
  <2>2. Entry' = Entry  BY DEF Entry
  <2>. QED  BY <1>26, <2>1, <2>2
<1>29. Covers(Y, durable)
  BY <1>8, <1>27, <1>28, CoversTrans, PromisesTyped
<1>30. DurableInv'  BY <1>1, <1>3, <1>5, <1>8, <1>10, <1>26, <1>29 DEF DurableInv
<1>. QED  BY <1>21, <1>25, <1>30 DEF PromiseInv

(***************************************************************************)
(* What was promised outlives the process                                  *)
(***************************************************************************)
LEMMA CoversNothing ==
  ASSUME NEW F
  PROVE  Covers(F, {})
BY DEF Covers

LEMMA OpenedKeepsPromises ==
  ASSUME TypedInv, FilesInv, TypedInv', FilesInv', ContentInv, Whole, PromiseInv, Opened
  PROVE  PromiseInv'
<1>0. DiskOK  BY DEF TypedInv, Typed
<1>1. /\ UNCHANGED <<current, versions, mem, imm, logfile, acked, durable>>
      /\ db = "clean" /\ db' = "open"
      /\ Possible' = Possible /\ Described' = Described /\ Possible = {Described}
      /\ Described.files = versions.files /\ Described.log = versions.log
      /\ Tab(table', versions.files) = Tab(table, versions.files)
  BY OpenedReads
<1>2. mem = {} /\ imm = <<>> /\ Running' /\ current # 0
  BY <1>1 DEF FilesInv, AtRest, Running, UpInv, Up
<1>3. ImmEntries = {} /\ ImmEntries' = {}
  <2>1. Range(<<>>) = {}  BY DEF Range
  <2>. QED  BY <1>1, <1>2, <2>1 DEF ImmEntries
<1>4. PICK T : T = Tab(table, versions.files)  OBVIOUS
<1>5. PICK b : b = versions.log  OBVIOUS
<1>6. T \subseteq Entry  BY <1>0, <1>4, InTyped DEF Tab
<1>7. Covers(T, T)  BY <1>6, CoversMore
<1>8. Logged(log, b) = {}  BY <1>1, <1>5 DEF ContentInv, ReplayInv
<1>9. LoggedSynced(log, b) = {}  BY <1>8, LoggedSyncedIn
<1>10. FoundIn(table, log, Described) = T /\ OnDisk(table, log, Described) = T
  BY <1>1, <1>4, <1>5, <1>8, <1>9 DEF FoundIn, OnDisk
<1>11. Covers(T, acked) /\ Covers(T, durable) /\ durable \subseteq acked
  BY <1>1, <1>2, <1>10 DEF PromiseInv, AckedInv, DurableInv
<1>12. (Shown(table, versions.files))' = T
  BY <1>1, <1>2, <1>3, <1>4 DEF Shown
<1>13. PICK d : d = Described  OBVIOUS
<1>14. T \subseteq FoundIn(table', log', d) /\ T \subseteq OnDisk(table', log', d)
  BY <1>1, <1>4, <1>13 DEF FoundIn, OnDisk
<1>15. Covers(FoundIn(table', log', d), T) /\ Covers(OnDisk(table', log', d), durable)
  BY <1>7, <1>11, <1>14, CoversLarger
<1>16. SeenInv'  BY <1>1, <1>12, <1>13, <1>15 DEF SeenInv
<1>17. (Covers(Shown(table, versions.files), acked))'  BY <1>1, <1>11, <1>12
<1>18. AckedInv'  BY <1>2, <1>16, <1>17, RunningPromises, PTL
<1>19. PICK Y : Y = Safe'  OBVIOUS
<1>20. T \subseteq Y  BY <1>1, <1>4, <1>19 DEF Safe
<1>21. Covers(Y, durable)  BY <1>11, <1>20, CoversLarger
<1>22. DurableInv'  BY <1>1, <1>11, <1>13, <1>15, <1>19, <1>21 DEF DurableInv
<1>. QED  BY <1>16, <1>18, <1>22 DEF PromiseInv

\* A step after which no process runs, and which keeps what can be recovered.
LEMMA RestKeepsPromises ==
  ASSUME PromiseInv, ~Running', UNCHANGED <<acked, durable, current>>,
         Possible' = Possible,
         current # 0 =>
           FoundIn(table, log, Described) \subseteq FoundIn(table', log', Described'),
         \A st \in Possible : OnDisk(table, log, st) \subseteq OnDisk(table', log', st)
  PROVE  PromiseInv'
<1>1. SeenInv'  BY DEF SeenInv
<1>2. PICK X : X = (FoundIn(table, log, Described))'  OBVIOUS
<1>3. current # 0 => Covers(X, acked)
  BY <1>2, CoversLarger DEF PromiseInv, AckedInv
<1>4. AckedInv'  BY <1>2, <1>3 DEF PromiseInv, AckedInv
<1>5. \A st \in Possible : Covers(OnDisk(table', log', st), durable)
  BY CoversLarger DEF PromiseInv, DurableInv
<1>6. DurableInv'  BY <1>5 DEF PromiseInv, DurableInv
<1>. QED  BY <1>1, <1>4, <1>6 DEF PromiseInv

LEMMA NewDBKeepsPromises ==
  ASSUME PromiseInv, NewDB
  PROVE  PromiseInv'
<1>1. /\ current = 0 /\ db' = "closed" /\ UNCHANGED <<acked, durable>> /\ current' = 1
  BY DEF NewDB, promises
<1>2. acked = {} /\ durable = {}
  BY <1>1 DEF PromiseInv, AckedInv, DurableInv
<1>3. ~Running' /\ acked' = {} /\ durable' = {} /\ current' # 0
  BY <1>1, <1>2 DEF Running
<1>4. SeenInv'  BY <1>3 DEF SeenInv
<1>5. AckedInv'  BY <1>3, CoversNothing DEF AckedInv
<1>6. DurableInv'  BY <1>3, CoversNothing DEF DurableInv
<1>. QED  BY <1>4, <1>5, <1>6 DEF PromiseInv

LEMMA OpeningKeepsPromises ==
  ASSUME TypedInv, FilesInv, TypedInv', ContentInv, Whole, PromiseInv, Next,
         \/ Recover \/ NewManifest \/ EndClose \/ Kill \/ OpenFails
         \/ \E number \in recovery.logs : ReplayLog(number)
  PROVE  PromiseInv'
<1>1. CASE Recover
  <2>1. /\ UNCHANGED <<log, table, current>> /\ db' = "replay"
        /\ Described' = Described /\ Possible' = Possible
    BY <1>1, RecoverReads
  <2>2. UNCHANGED <<acked, durable>>  BY <1>1 DEF Recover, promises
  <2>. QED  BY <2>1, <2>2, RestKeepsPromises DEF Running
<1>2. CASE NewManifest
  <2>1. Described' = Described /\ Possible' = Possible
    BY <1>2, NewManifestReads DEF ContentInv
  <2>2. db = "replay" /\ db' = "switch" /\ UNCHANGED <<table, current, acked, durable>>
    BY <1>2 DEF NewManifest, promises
  <2>3. ~PowerLoss /\ ~Opened /\ ~InstallVersion
    <3>1. PowerLoss => db' = "closed"  BY DEF PowerLoss, Reset
    <3>. QED  BY <2>2, <3>1 DEF Opened, InstallVersion, Running
  <2>4. LogsGrow(0)  BY <2>3, LogsKept
  <2>5. TablesStay  BY <2>2 DEF TablesStay
  <2>6. current # 0 => Described \in Possible
    BY <2>2 DEF FilesInv, OpeningInv
  <2>7. PICK d : d = Described  OBVIOUS
  <2>8. current # 0 =>
          FoundIn(table, log, d) \subseteq FoundIn(table', log', d)
    BY <2>4, <2>5, <2>6, <2>7, FoundKept
  <2>9. \A st \in Possible : OnDisk(table, log, st) \subseteq OnDisk(table', log', st)
    BY <2>4, <2>5, FoundKept
  <2>10. ~Running'  BY <2>2 DEF Running
  <2>. QED  BY <2>1, <2>2, <2>7, <2>8, <2>9, <2>10, RestKeepsPromises
<1>3. CASE EndClose \/ Kill \/ OpenFails
  <2>1. /\ db' = "closed" /\ UNCHANGED <<log, table, current, acked, durable>>
        /\ Possible' = Possible /\ Described' = Described
    BY <1>3, EndsReads
  <2>. QED  BY <2>1, RestKeepsPromises DEF Running
<1>4. ASSUME NEW number \in recovery.logs, ReplayLog(number)  PROVE PromiseInv'
  <2>1. /\ db = "replay" /\ db' = "replay"
        /\ UNCHANGED <<log, manifest, current, acked, durable>>
    BY <1>4 DEF ReplayLog, ReplayRecord, EndLog, Replaying, promises
  <2>2. Possible' = Possible /\ Described' = Described  BY <2>1 DEF Possible, Described
  <2>3. \A st \in Possible : Tab(table', st.files) = Tab(table, st.files)
    BY <1>4, ReplayTables
  <2>4. Described \in Possible  BY <2>1 DEF FilesInv, OpeningInv
  <2>5. PICK d : d = Described  OBVIOUS
  <2>6. FoundIn(table, log, d) = FoundIn(table', log', d)
    BY <2>1, <2>3, <2>4, <2>5 DEF FoundIn
  <2>7. \A st \in Possible : OnDisk(table, log, st) = OnDisk(table', log', st)
    BY <2>1, <2>3 DEF OnDisk
  <2>8. ~Running'  BY <2>1 DEF Running
  <2>. QED  BY <2>1, <2>2, <2>5, <2>6, <2>7, <2>8, RestKeepsPromises
<1>. QED  BY <1>1, <1>2, <1>3, <1>4

\* The new descriptor describes the tables that hold all that was found.
LEMMA SetCurrentKeepsPromises ==
  ASSUME TypedInv, FilesInv, ContentInv, Whole, PromiseInv, SetCurrent
  PROVE  PromiseInv'
<1>1. /\ UNCHANGED <<log, table, versions, acked, durable>>
      /\ db = "switch" /\ db' = "clean" /\ current # 0 /\ current' # 0
      /\ Possible' = {Described'}
      /\ Described'.files = versions.files /\ Described'.log = versions.log
  BY SetCurrentReads
<1>2. PICK T : T = Tab(table, versions.files)  OBVIOUS
<1>3. FoundIn(table, log, Described) = T
  BY <1>1, <1>2 DEF ContentInv, ReplayInv
<1>4. Described \in Possible  BY <1>1 DEF FilesInv, OpeningInv
<1>5. OnDisk(table, log, Described) \subseteq T  BY <1>3, OnDiskTyped
<1>6. Covers(T, acked) /\ Covers(T, durable) /\ durable \subseteq acked
  <2>1. /\ Covers(FoundIn(table, log, Described), acked)
        /\ Covers(OnDisk(table, log, Described), durable) /\ durable \subseteq acked
    BY <1>1, <1>4 DEF PromiseInv, AckedInv, DurableInv
  <2>. QED  BY <1>3, <1>5, <2>1, CoversLarger
<1>7. PICK d : d = Described'  OBVIOUS
<1>8. T \subseteq FoundIn(table, log, d) /\ T \subseteq OnDisk(table, log, d)
  BY <1>1, <1>2, <1>7 DEF FoundIn, OnDisk
<1>9. Covers(FoundIn(table, log, d), acked) /\ Covers(OnDisk(table, log, d), durable)
  BY <1>6, <1>8, CoversLarger
<1>10. SeenInv'  BY <1>1 DEF SeenInv, Running
<1>11. AckedInv'  BY <1>1, <1>7, <1>9 DEF AckedInv, Running
<1>12. DurableInv'  BY <1>1, <1>6, <1>7, <1>9 DEF DurableInv, Running
<1>. QED  BY <1>10, <1>11, <1>12 DEF PromiseInv

LEMMA AllLoggedSynced ==
  ASSUME TypedInv, Whole
  PROVE  \A b : LoggedSynced(log, b) \subseteq Logged(log, b)
BY LoggedSyncedIn

LEMMA DurablePossible ==
  ASSUME TypedInv, FilesInv
  PROVE  durable # {} => Described \in Possible
BY SyncedPossible DEF TypedInv, FilesInv, DescriptorInv

\* What was synced outlives a loss of power.
LEMMA CutKeepsSynced ==
  ASSUME NEW f \in LogFile, NEW l \in f.synced..Len(f.recs)
  PROVE  SyncedOf(f) \subseteq SyncedOf(CutLog(f, l))
<1>1. /\ CutLog(f, l).synced = l /\ Len(CutLog(f, l).recs) = l
      /\ l \in Nat /\ f.synced <= l /\ l <= Len(f.recs)
      /\ CutLog(f, l).recs \in Seq(Record)
      /\ \A i \in 1..l : CutLog(f, l).recs[i] = f.recs[i]
  BY CutLogIs
<1>2. f.recs \in Seq(Record) /\ f.synced \in Nat  BY DEF LogFile
<1>3. PICK r : r = CutLog(f, l).recs  OBVIOUS
<1>4. DOMAIN f.recs = 1..Len(f.recs) /\ DOMAIN r = 1..l /\ Len(f.recs) \in Nat
  BY <1>1, <1>2, <1>3, LenProperties
<1>5. \A j \in DOMAIN f.recs : j <= f.synced =>
        j \in DOMAIN r /\ j <= l /\ r[j] = f.recs[j]
  BY <1>1, <1>2, <1>3, <1>4
<1>. QED  BY <1>1, <1>3, <1>5 DEF SyncedOf

LEMMA PowerLossKeepsPromises ==
  ASSUME TypedInv, FilesInv, TypedInv', FilesInv', ContentInv, Whole, Whole', PromiseInv,
         PowerLoss
  PROVE  PromiseInv'
<1>1. /\ db' = "closed" /\ current' = current /\ acked' = durable /\ durable' = durable
      /\ Possible' \subseteq Possible
      /\ \A n \in DOMAIN table' : n \in DOMAIN table /\ table'[n] = table[n]
      /\ \A n \in DOMAIN table : table[n].synced => n \in DOMAIN table'
      /\ DOMAIN log' = DOMAIN log
      /\ \A n \in DOMAIN log : \E l \in log[n].synced..Len(log[n].recs) :
           log'[n] = CutLog(log[n], l)
  BY PowerLossReads DEF ContentInv
<1>2. TablesStay  BY <1>1 DEF TablesStay
<1>3. \A n \in DOMAIN log : SyncedOf(log[n]) \subseteq SyncedOf(log'[n])
  BY <1>1, LogIs, CutKeepsSynced
<1>4. \A b : LoggedSynced(log, b) \subseteq LoggedSynced(log', b)
  BY <1>1, <1>3 DEF LoggedSynced
<1>5. \A b : LoggedSynced(log', b) \subseteq Logged(log', b)
  <2>1. (\A b : LoggedSynced(log, b) \subseteq Logged(log, b))'  BY AllLoggedSynced, PTL
  <2>. QED  BY <2>1
<1>6. \A st \in Possible : /\ OnDisk(table, log, st) \subseteq OnDisk(table', log', st)
                           /\ OnDisk(table', log', st) \subseteq FoundIn(table', log', st)
  <2>1. \A st \in Possible : Tab(table', st.files) = Tab(table, st.files)
    BY <1>2, PossibleStays
  <2>. QED  BY <1>4, <1>5, <2>1 DEF OnDisk, FoundIn
<1>7. durable \subseteq acked
      /\ \A st \in Possible : Covers(OnDisk(table', log', st), durable)
  BY <1>6, CoversLarger DEF PromiseInv, DurableInv
<1>8. \A st \in Possible : Covers(FoundIn(table', log', st), durable)
  BY <1>6, <1>7, CoversLarger
<1>9. ~Running'  BY <1>1 DEF Running
<1>10. SeenInv'  BY <1>9 DEF SeenInv
<1>11. PICK d : d = Described'  OBVIOUS
<1>12. durable # {} => d \in Possible
  <2>1. (durable # {} => Described \in Possible)'  BY DurablePossible, PTL
  <2>. QED  BY <1>1, <1>11, <2>1
<1>13. Covers(FoundIn(table', log', d), durable)
  <2>1. CASE durable = {}  BY <2>1, CoversNothing
  <2>2. CASE durable # {}  BY <1>8, <1>12, <2>2
  <2>. QED  BY <2>1, <2>2
<1>14. current = 0 => durable = {}  BY <1>7 DEF PromiseInv, AckedInv
<1>15. AckedInv'  BY <1>1, <1>9, <1>11, <1>13, <1>14 DEF AckedInv
<1>16. DurableInv'  BY <1>1, <1>7, <1>9 DEF DurableInv
<1>. QED  BY <1>10, <1>15, <1>16 DEF PromiseInv

LEMMA NextKeepsPromises ==
  ASSUME TypedInv, FilesInv, TypedInv', FilesInv', ContentInv, Whole, Whole', KeptInv,
         PromiseInv, Next
  PROVE  PromiseInv'
<1>1. CASE InstallVersion  BY <1>1, InstallKeepsPromises
<1>2. SUFFICES ASSUME ~InstallVersion  PROVE PromiseInv'  BY <1>1
<1>3. ASSUME Running, Running', TablesStay, Possible' = Possible,
             UNCHANGED <<mem, logfile, acked, durable>>, ImmEntries' = ImmEntries,
             versions'.files = versions.files, versions'.log = versions.log
      PROVE  PromiseInv'
  BY <1>2, <1>3, QuietPromises
<1>4. CASE Still
  <2>1. /\ Running /\ Running'
        /\ UNCHANGED <<table, manifest, current, mem, imm, logfile, acked, durable>>
        /\ versions'.files = versions.files /\ versions'.log = versions.log
    BY <1>4 DEF Still
  <2>2. TablesStay /\ Possible' = Possible /\ ImmEntries' = ImmEntries
    BY <2>1 DEF TablesStay, Possible, ImmEntries
  <2>. QED  BY <1>3, <2>1, <2>2
<1>5. ASSUME NEW t \in Writer, Room(t) \/ AddsRecord(t) \/ GiveUp(t)
      PROVE  PromiseInv'
  <2>1. db = "open"
    BY <1>5, WriterIsOpen DEF Write, WriteFaults, AddsRecord
  <2>2. /\ UNCHANGED <<table, manifest, current, db, mem, imm, logfile, acked, durable>>
        /\ versions'.files = versions.files /\ versions'.log = versions.log
    <3>1. CASE GiveUp(t)
      <4>1. mem' = mem /\ UNCHANGED <<acked, durable>>  BY <3>1 DEF GiveUp, promises
      <4>. QED  BY <3>1, <4>1, CommitFacts
    <3>2. CASE Room(t) \/ AddsRecord(t)
      BY <3>2 DEF Room, AddsRecord, AddRecord, AddRecordFails, disk, promises
    <3>. QED  BY <1>5, <3>1, <3>2
  <2>3. Running /\ Running' /\ TablesStay /\ Possible' = Possible /\ ImmEntries' = ImmEntries
    BY <2>1, <2>2 DEF Running, TablesStay, Possible, ImmEntries
  <2>. QED  BY <1>3, <2>2, <2>3
<1>6. ASSUME NEW t \in Writer, Switch(t)  PROVE PromiseInv'
  BY <1>6, SwitchKeepsPromises
<1>7. ASSUME NEW t \in Writer, Insert(t)  PROVE PromiseInv'
  BY <1>7, InsertKeepsPromises
<1>8. CASE OpenOutput \/ FinishOutput \/ \E ok \in BOOLEAN : Build(ok)
  <2>1. /\ UNCHANGED <<mem, logfile, acked, durable>>
        /\ Running /\ Running' /\ TablesStay
        /\ Possible' = Possible /\ ImmEntries' = ImmEntries
        /\ versions'.files = versions.files /\ versions'.log = versions.log
    BY <1>8, JobWrites
  <2>. QED  BY <1>3, <2>1
<1>9. CASE AddsEdit  BY <1>9, AddsEditKeepsPromises
<1>10. CASE NewDB  BY <1>10, NewDBKeepsPromises
<1>11. CASE Recover \/ NewManifest \/ EndClose \/ Kill \/ OpenFails
            \/ \E number \in recovery.logs : ReplayLog(number)
  BY <1>11, OpeningKeepsPromises
<1>12. CASE SetCurrent  BY <1>12, SetCurrentKeepsPromises
<1>13. CASE Opened  BY <1>13, OpenedKeepsPromises
<1>14. CASE PowerLoss  BY <1>14, PowerLossKeepsPromises
<1>. QED
  BY <1>2, <1>4, <1>5, <1>6, <1>7, <1>8, <1>9, <1>10, <1>11, <1>12, <1>13, <1>14, NextKinds

PromisedInv == Whole /\ KeptInv /\ PromiseInv

\* No record is written in part. A reader of a log stops at such a record, so that
\* all that is appended after it is lost, although it was answered OK.
NoTorn == \A b \in Budgets : b.faults["torn"] = 0

LEMMA InitPromises ==
  ASSUME NoTorn, Init
  PROVE  PromisedInv
<1>1. /\ log = <<>> /\ current = 0 /\ db = "closed" /\ acked = {} /\ durable = {}
      /\ budget \in Budgets
  BY DEF Init
<1>2. DOMAIN log = {} /\ ~Running /\ Possible = {}
  BY <1>1 DEF Running, Possible
<1>3. Whole  BY <1>1, <1>2 DEF Whole, NoTorn
<1>4. KeptInv  BY <1>2 DEF KeptInv
<1>5. SeenInv  BY <1>2 DEF SeenInv
<1>6. AckedInv  BY <1>1, <1>2 DEF AckedInv
<1>7. DurableInv  BY <1>1, <1>2 DEF DurableInv
<1>. QED  BY <1>3, <1>4, <1>5, <1>6, <1>7 DEF PromisedInv, PromiseInv

LEMMA PromisesStutter ==
  ASSUME PromisedInv, UNCHANGED vars
  PROVE  PromisedInv'
<1>1. /\ UNCHANGED <<log, table, manifest, current, db, versions, mem, imm, logfile>>
      /\ UNCHANGED <<writer, group, acked, durable, budget>>
  BY DEF vars, disk, client, promises
<1>2. /\ Running' = Running /\ Possible' = Possible /\ Described' = Described
      /\ ImmEntries' = ImmEntries
      /\ (Shown(table, versions.files))' = Shown(table, versions.files)
  BY <1>1 DEF Running, Possible, Described, Shown, ImmEntries
<1>3. Safe' = Safe  BY <1>1, <1>2 DEF Safe
<1>4. Whole'  BY <1>1 DEF PromisedInv, Whole
<1>5. KeptInv'  BY <1>1, <1>2 DEF PromisedInv, KeptInv
<1>6. SeenInv'  BY <1>1, <1>2 DEF PromisedInv, PromiseInv, SeenInv
<1>7. AckedInv'  BY <1>1, <1>2 DEF PromisedInv, PromiseInv, AckedInv
<1>8. DurableInv'  BY <1>1, <1>2, <1>3 DEF PromisedInv, PromiseInv, DurableInv
<1>. QED  BY <1>4, <1>5, <1>6, <1>7, <1>8 DEF PromisedInv, PromiseInv

LEMMA NextKeepsPromised ==
  ASSUME TypedInv, FilesInv, TypedInv', FilesInv', ContentInv, PromisedInv, Next
  PROVE  PromisedInv'
<1>1. Whole /\ KeptInv /\ PromiseInv  BY DEF PromisedInv
<1>2. Whole'  BY <1>1, NextKeepsWhole DEF ContentInv
<1>3. KeptInv'  BY <1>1, NextKeepsMemory
<1>4. PromiseInv'  BY <1>1, <1>2, NextKeepsPromises
<1>. QED  BY <1>2, <1>3, <1>4 DEF PromisedInv

\* The inductive invariant of the promises, which the two theorems below read off.
THEOREM PromisesHold ==
  ASSUME NoTorn
  PROVE  Spec => [](TypedInv /\ FilesInv /\ ContentInv /\ PromisedInv)
<1>1. Init => PromisedInv  BY InitPromises
<1>2. TypedInv /\ FilesInv /\ TypedInv' /\ FilesInv' /\ ContentInv /\ PromisedInv
        /\ [Next]_vars => PromisedInv'
  BY NextKeepsPromised, PromisesStutter
<1>3. Spec => [](TypedInv /\ FilesInv /\ ContentInv)  BY ContentHolds
<1>. QED  BY <1>1, <1>2, <1>3, PTL DEF Spec

LEMMA SeenAgree ==
  ASSUME TypedInv, FilesInv, PromisedInv
  PROVE  SeenIsRecoverable
<1>1. SUFFICES ASSUME db = "open"  PROVE Covers(Recoverable, Visible)
  BY DEF SeenIsRecoverable
<1>2. Running  BY <1>1 DEF Running
<1>3. Described \in Possible /\ current # 0
  BY <1>2, UpFacts DEF TypedInv, FilesInv
<1>4. Covers(FoundIn(table, log, Described), Shown(table, versions.files))
  BY <1>2, <1>3 DEF PromisedInv, PromiseInv, SeenInv
<1>5. Recoverable = FoundIn(table, log, Described)
  BY <1>3, FoundIs DEF Recoverable
<1>. QED  BY <1>4, <1>5, FoundIs

LEMMA AckedAgree ==
  ASSUME PromisedInv
  PROVE  AckedAreRecoverable
<1>1. CASE current = 0
  BY <1>1, CoversNothing DEF PromisedInv, PromiseInv, AckedInv, AckedAreRecoverable
<1>2. CASE current # 0
  <2>1. Recoverable = FoundIn(table, log, Described)
    BY <1>2, FoundIs DEF Recoverable
  <2>. QED
    BY <1>2, <2>1 DEF PromisedInv, PromiseInv, AckedInv, AckedAreRecoverable
<1>. QED  BY <1>1, <1>2

\* SeenIsRecoverable: what a client could read is found by the next recovery when
\* the process dies, wherever its threads were in a write, a flush or a merge, for
\* any number of threads, keys, faults and crashes that leave no record in part.
THEOREM SeenRecovered ==
  ASSUME NoTorn
  PROVE  Spec => []SeenIsRecoverable
BY PromisesHold, SeenAgree, PTL

\* AckedAreRecoverable: a write answered OK is found again after a crash of the
\* process, and one answered by a synced write after a loss of power, whatever
\* faults happened that leave no record in part.
THEOREM AckedRecovered ==
  ASSUME NoTorn
  PROVE  Spec => []AckedAreRecoverable
BY PromisesHold, AckedAgree, PTL
=============================================================================
