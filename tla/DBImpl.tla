------------------------------- MODULE DBImpl -------------------------------
(***************************************************************************)
(* leveldb's DBImpl, the store the Firebase pods keep on the device:       *)
(* client threads queue their writes and one of them logs a whole group;   *)
(* a background thread turns the full memtable into a table and merges     *)
(* tables; a recovery rebuilds the state from MANIFEST and log files.      *)
(*                                                                         *)
(* An entry is a key with the sequence number of the write. Tables have    *)
(* two levels here and a merge takes all of them: which files are chosen   *)
(* and how ranges matter is the subject of VersionSet.tla.                 *)
(***************************************************************************)
EXTENDS Integers, Sequences, FiniteSets, Functions

CONSTANTS
  Writer,          \* the client threads that write
  Key,             \* the keys, naturals so that files have ranges
  WriteBufferSize, \* a memtable with more entries than this is full
  GroupLimit,      \* the most batches one group holds
  CompactTrigger,  \* config::kL0_CompactionTrigger
  StopTrigger,     \* config::kL0_StopWritesTrigger
  Budgets          \* what the clients and the environment may do: see Budget

\* What may go wrong in a file operation, and to the process and the machine.
FaultKinds ==
  {"newfile", "append", "torn", "sync", "table", "manifest", "kill", "power"}

\* Bounds on the calls of Write, the keys and the WriteOptions::sync in them,
\* the calls of Open and of Get and GetSnapshot, and the faults of each kind.
Budget ==
  [writes : Nat, keys : SUBSET Key, sync : SUBSET BOOLEAN, opens : Nat, gets : Nat,
   faults : [FaultKinds -> Nat]]

ASSUME DBImplAssumption ==
  /\ Key \subseteq Nat \ {0}
  /\ {WriteBufferSize, StopTrigger} \subseteq Nat
  /\ {GroupLimit, CompactTrigger} \subseteq Nat \ {0}
  /\ Budgets \subseteq Budget

NoKey == 0  \* the batch of TEST_CompactMemTable is NULL

Entry == [k : Key, s : Nat]

VARIABLES
  log,       \* the log files: their records and how many are on the disk
  table,     \* the table files: their entries and whether they are synced
  manifest,  \* the descriptor files: the states their edits build, one after
             \* the other, and how many of the edits are on the disk
  current,   \* the descriptor CURRENT names, 0 before there is one
  db,        \* "closed", a phase of Open, "open" or "closing"
  recovery,  \* what Recover still has to replay and the files it has written
  versions,  \* the VersionSet: current files and the counters
  mem, imm,  \* the memtable, and the immutable one if there is one
  logfile,   \* logfile_number_
  queue,     \* writers_
  writer,    \* for each thread, where it is in Write and its arguments
  group,     \* the group the first writer is logging
  snapshots, \* the snapshots not released
  reader,    \* the Get in progress
  pending,   \* pending_outputs_
  bgError, scheduled, shuttingDown,
  bg,        \* the background thread
  store,     \* the entries inserted or recovered since Open
  acked,     \* the entries of the writes answered OK that must not be lost
  durable,   \* those that must survive a loss of power
  budget     \* what the environment may still do

disk == <<log, table, manifest, current>>
client == <<queue, writer, group, snapshots, reader>>
background == <<pending, bgError, scheduled, shuttingDown, bg>>
promises == <<store, acked, durable>>
vars == <<disk, db, recovery, versions, mem, imm, logfile, client,
          background, promises, budget>>

-----------------------------------------------------------------------------
(* Entries and files                                                       *)

\* What a read as of n finds in E: of every key the newest entry up to n.
View(E, n) ==
  {e \in E : e.s <= n /\ \A x \in E : x.k = e.k /\ x.s <= n => x.s <= e.s}

\* What a merge keeps: what is newer than the oldest snapshot, and of the rest
\* the newest entry of each key.
Merged(E, smallest) == {e \in E : e.s > smallest} \cup View(E, smallest)

\* Whoever reads F finds no key in an older state than whoever reads E.
Covers(F, E) == \A e \in E : \E f \in F : f.k = e.k /\ f.s >= e.s

Larger(a, b) == IF a >= b THEN a ELSE b

Restricted(f, S) == [x \in DOMAIN f \cap S |-> f[x]]

With(f, x, y) == [z \in DOMAIN f \cup {x} |-> IF z = x THEN y ELSE f[z]]

\* A record that was written in part.
Torn == [entries |-> {}, last |-> 0]

\* A log reader stops at such a record.
Readable(recs) ==
  UNION {recs[i].entries :
           i \in {j \in DOMAIN recs : \A k \in 1..j : recs[k] # Torn}}

Numbers(files) == {f[2] : f \in files}

Level(files, level) == {f \in files : f[1] = level}

EntriesOf(nums) ==
  UNION {table[n].entries : n \in nums \cap DOMAIN table}

\* VersionSet::Builder: one edit applied to the files and counters.
ApplyEdit(v, e) ==
  [files |-> (v.files \ e.del) \cup e.add,
   log |-> e.log, next |-> e.next, last |-> e.last]

EmptyVersion == [files |-> {}, log |-> 0, next |-> 0, last |-> 0]

\* The state the edits of a descriptor build.
LastState(m) == IF m.states = <<>> THEN EmptyVersion ELSE m.states[Len(m.states)]

Described == LastState(manifest[current])

LogsFrom(n) == {m \in DOMAIN log : m >= n}

\* Everything a recovery from v and the files as they are would find.
Found(v) ==
  EntriesOf(Numbers(v.files))
    \cup UNION {Readable(log[n].recs) : n \in LogsFrom(v.log)}

Recoverable == IF current = 0 THEN {} ELSE Found(Described)

ImmEntries == UNION Range(imm)

Visible == mem \cup ImmEntries \cup EntriesOf(Numbers(versions.files))

-----------------------------------------------------------------------------
(* The state of a process                                                  *)

IdleWriter == [pc |-> "idle", key |-> NoKey, sync |-> FALSE]

IdleGroup == [size |-> 0, entries |-> {}, last |-> 0]

NoReader == [on |-> FALSE, snap |-> 0, seen |-> {}, files |-> {}]

NoEdit == [add |-> {}, del |-> {}, log |-> 0, next |-> 0, last |-> 0]

IdleBg ==
  [pc |-> "idle", back |-> "idle", num |-> 0, out |-> 0, edit |-> NoEdit,
   inputs |-> {}, smallest |-> 0]

NoVersions ==
  [files |-> {}, log |-> 0, next |-> 2, last |-> 0, manifest |-> 0]

NoRecovery == [logs |-> {}, pos |-> 0, mem |-> {}, add |-> {}, max |-> 0]

\* The memory of a process that is not there, or of one whose Open failed.
Reset ==
  /\ db' = "closed"
  /\ recovery' = NoRecovery
  /\ versions' = NoVersions
  /\ mem' = {} /\ imm' = <<>> /\ logfile' = 0
  /\ queue' = <<>> /\ group' = IdleGroup
  /\ writer' = [t \in Writer |-> IdleWriter]
  /\ snapshots' = {} /\ reader' = NoReader
  /\ pending' = {} /\ bg' = IdleBg
  /\ bgError' = FALSE /\ scheduled' = FALSE /\ shuttingDown' = FALSE
  /\ store' = {}

Init ==
  /\ log = <<>> /\ table = <<>> /\ manifest = <<>> /\ current = 0
  /\ db = "closed" /\ recovery = NoRecovery /\ versions = NoVersions
  /\ mem = {} /\ imm = <<>> /\ logfile = 0
  /\ queue = <<>> /\ group = IdleGroup
  /\ writer = [t \in Writer |-> IdleWriter]
  /\ snapshots = {} /\ reader = NoReader
  /\ pending = {} /\ bg = IdleBg
  /\ bgError = FALSE /\ scheduled = FALSE /\ shuttingDown = FALSE
  /\ store = {} /\ acked = {} /\ durable = {}
  /\ budget \in Budgets

Fault(kind) ==
  /\ budget.faults[kind] > 0
  /\ budget' = [budget EXCEPT !.faults[kind] = @ - 1]

-----------------------------------------------------------------------------
(* Shared helpers of the two threads                                       *)

NeedsCompaction(files) == Cardinality(Level(files, 0)) >= CompactTrigger

\* A mutant: only level 0 is looked at.
SchedulesForFiles(already, error, stopping, immutable, files) ==
  already \/ (~stopping /\ ~error /\ NeedsCompaction(files))

\* MaybeScheduleCompaction
Schedules(already, error, stopping, immutable, files) ==
  \/ already
  \/ /\ ~stopping /\ ~error
     /\ immutable # <<>> \/ NeedsCompaction(files)

\* bg_cv_.SignalAll
SignalAll(w) ==
  [t \in Writer |->
     CASE w[t].pc = "wait"  -> [w[t] EXCEPT !.pc = "front"]
       [] w[t].pc = "sleep" -> [w[t] EXCEPT !.pc = "check"]
       [] OTHER -> w[t]]

\* A mutant: only the current version is asked.
DeleteAllButCurrent(v, outputs, held, m) ==
  /\ log' = Restricted(log, LogsFrom(v.log))
  /\ manifest' = Restricted(m, {n \in DOMAIN m : n >= v.manifest})
  /\ table' = Restricted(table, outputs \cup Numbers(v.files))

\* DeleteObsoleteFiles: held are the tables of versions still in use, m the
\* descriptor files as they are by then. After an error nothing is deleted.
DeleteObsoleteFiles(v, outputs, held, m) ==
  IF bgError
  THEN manifest' = m /\ UNCHANGED <<log, table>>
  ELSE /\ log' = Restricted(log, LogsFrom(v.log))
       /\ manifest' = Restricted(m, {n \in DOMAIN m : n >= v.manifest})
       /\ table' = Restricted(table, outputs \cup held \cup Numbers(v.files))

-----------------------------------------------------------------------------
(* Write                                                                   *)

Submit(t) ==
  /\ db = "open"
  /\ writer[t].pc = "idle"
  /\ budget.writes > 0
  /\ budget' = [budget EXCEPT !.writes = @ - 1]
  /\ \E k \in budget.keys \cup {NoKey}, sync \in budget.sync :
       /\ writer' = [writer EXCEPT ![t] =
            [pc |-> IF queue = <<>> THEN "front" ELSE "queued",
             key |-> k, sync |-> sync]]
  /\ queue' = Append(queue, t)
  /\ UNCHANGED <<disk, db, recovery, versions, mem, imm, logfile, group,
                 snapshots, reader, background, promises>>

\* A mutant: the first writer that is left is not woken.
AnswerOnly(w, n, ok) ==
  LET done == {queue[i] : i \in 1..n}
      answered(t) ==
        IF ok /\ w[t].key = NoKey THEN [w[t] EXCEPT !.pc = "check"]
        ELSE IdleWriter
  IN  /\ queue' = SubSeq(queue, n + 1, Len(queue))
      /\ writer' = [t \in Writer |-> IF t \in done THEN answered(t) ELSE w[t]]

\* The end of Write: the first n writers get the answer, the next one wakes.
Answer(w, n, ok) ==
  LET done == {queue[i] : i \in 1..n}
      answered(t) ==
        IF ok /\ w[t].key = NoKey THEN [w[t] EXCEPT !.pc = "check"]
        ELSE IdleWriter
  IN  /\ queue' = SubSeq(queue, n + 1, Len(queue))
      /\ writer' = [t \in Writer |->
           IF t \in done THEN answered(t)
           ELSE IF Len(queue) > n /\ t = queue[n + 1]
           THEN [w[t] EXCEPT !.pc = "front"]
           ELSE w[t]]

\* The batches among the first n writers, in the group of the first one.
Batches(n) == {i \in 1..n : writer[queue[i]].key # NoKey}

Fits(n) ==
  /\ Cardinality(Batches(n)) <= GroupLimit
  /\ \A i \in 2..n : writer[queue[i]].sync => writer[queue[1]].sync

\* BuildBatchGroup: the longest prefix of the queue the first writer may take.
GroupSizes == {n \in 1..Len(queue) : Fits(n) /\ (n = Len(queue) \/ ~Fits(n + 1))}

\* The numbers follow the last one in use, one for every batch.
NumberOf(i) == versions.last + Cardinality(Batches(i))

GroupEntries(n) == {[k |-> writer[queue[i]].key, s |-> NumberOf(i)] : i \in Batches(n)}

StartGroup(t) ==
  /\ \E n \in GroupSizes :
       group' = [size |-> n, entries |-> GroupEntries(n), last |-> NumberOf(n)]
  /\ writer' = [writer EXCEPT ![t].pc = "log"]
  /\ UNCHANGED queue

AtFront(t) ==
  /\ queue # <<>>
  /\ t = Head(queue)
  /\ writer[t].pc = "front"

HasRoom(t) ==
  /\ writer[t].key # NoKey
  /\ Cardinality(mem) <= WriteBufferSize

MustWait ==
  \/ imm # <<>>
  \/ Cardinality(Level(versions.files, 0)) >= StopTrigger

\* MakeRoomForWrite yields an error the background thread has met.
Refuse(t) ==
  /\ AtFront(t)
  /\ bgError
  /\ Answer(writer, 1, FALSE)
  /\ UNCHANGED <<disk, db, recovery, versions, mem, imm, logfile, group,
                 snapshots, reader, background, promises, budget>>

\* There is room in the memtable.
Room(t) ==
  /\ AtFront(t)
  /\ ~bgError
  /\ HasRoom(t)
  /\ StartGroup(t)
  /\ UNCHANGED <<disk, db, recovery, versions, mem, imm, logfile,
                 snapshots, reader, background, promises, budget>>

\* The previous memtable is still there, or level 0 has too many files.
Wait(t) ==
  /\ AtFront(t)
  /\ ~bgError
  /\ ~HasRoom(t)
  /\ MustWait
  /\ writer' = [writer EXCEPT ![t].pc = "wait"]
  /\ UNCHANGED <<disk, db, recovery, versions, mem, imm, logfile, queue,
                 group, snapshots, reader, background, promises, budget>>

\* A new log and a new memtable; the loop then finds room for a batch.
Switch(t) ==
  /\ AtFront(t)
  /\ ~bgError
  /\ ~HasRoom(t)
  /\ ~MustWait
  /\ log' = With(log, versions.next, [recs |-> <<>>, synced |-> 0])
  /\ logfile' = versions.next
  /\ versions' = [versions EXCEPT !.next = @ + 1]
  /\ imm' = <<mem>>
  /\ mem' = {}
  /\ scheduled' =
       Schedules(scheduled, bgError, shuttingDown, imm', versions.files)
  /\ IF writer[t].key = NoKey
     THEN Answer(writer, 1, TRUE) /\ UNCHANGED group
     ELSE StartGroup(t)
  /\ UNCHANGED <<table, manifest, current, db, recovery, snapshots, reader,
                 pending, bgError, shuttingDown, bg, promises, budget>>

\* The new log cannot be created: its number is given back.
SwitchFails(t) ==
  /\ AtFront(t)
  /\ ~bgError
  /\ ~HasRoom(t)
  /\ ~MustWait
  /\ Fault("newfile")
  /\ Answer(writer, 1, FALSE)
  /\ UNCHANGED <<disk, db, recovery, versions, mem, imm, logfile, group,
                 snapshots, reader, background, promises>>

Leading(t, pc) ==
  /\ db = "open"
  /\ writer[t].pc = pc

AppendToLog(record) ==
  log' = [log EXCEPT ![logfile].recs = Append(@, record)]

\* The batch of the group, with its entries and the number of the last one.
GroupRecord == [entries |-> group.entries, last |-> group.last]

\* A mutant: the log is not synced.
AddRecordOnly(t) ==
  /\ Leading(t, "log")
  /\ AppendToLog(GroupRecord)
  /\ writer' = [writer EXCEPT ![t].pc = "insert"]
  /\ UNCHANGED <<table, manifest, current, db, recovery, versions, mem, imm,
                 logfile, queue, group, snapshots, reader, background,
                 promises, budget>>

\* log_->AddRecord, with the mutex released
AddRecord(t) ==
  /\ Leading(t, "log")
  /\ AppendToLog(GroupRecord)
  /\ writer' = [writer EXCEPT ![t].pc = IF @ = "log" /\ writer[t].sync
                                        THEN "sync" ELSE "insert"]
  /\ UNCHANGED <<table, manifest, current, db, recovery, versions, mem, imm,
                 logfile, queue, group, snapshots, reader, background,
                 promises, budget>>

\* The append fails: the record is not there, there in part, or there.
AddRecordFails(t) ==
  /\ Leading(t, "log")
  /\ \/ Fault("append") /\ UNCHANGED log
     \/ Fault("append") /\ AppendToLog(GroupRecord)
     \/ Fault("torn") /\ AppendToLog(Torn)
  /\ writer' = [writer EXCEPT ![t].pc = "failed"]
  /\ UNCHANGED <<table, manifest, current, db, recovery, versions, mem, imm,
                 logfile, queue, group, snapshots, reader, background,
                 promises>>

\* logfile_->Sync
SyncLog(t) ==
  /\ Leading(t, "sync")
  /\ log' = [log EXCEPT ![logfile].synced = Len(log[logfile].recs)]
  /\ writer' = [writer EXCEPT ![t].pc = "insert"]
  /\ UNCHANGED <<table, manifest, current, db, recovery, versions, mem, imm,
                 logfile, queue, group, snapshots, reader, background,
                 promises, budget>>

SyncLogFails(t) ==
  /\ Leading(t, "sync")
  /\ Fault("sync")
  /\ writer' = [writer EXCEPT ![t].pc = "unsynced"]
  /\ UNCHANGED <<disk, db, recovery, versions, mem, imm, logfile, queue,
                 group, snapshots, reader, background, promises>>

\* A mutant: a write that failed gives its numbers back.
CommitIfOk(t, w) ==
  LET ok == writer[t].pc = "insert"
  IN  /\ versions' = IF ok
                     THEN [versions EXCEPT !.last = group.last]
                     ELSE versions
      /\ Answer(w, group.size, ok)
      /\ group' = IdleGroup

\* What is left of Write: the numbers of the group are used up either way.
Commit(t, w) ==
  /\ versions' = [versions EXCEPT !.last = group.last]
  /\ Answer(w, group.size, writer[t].pc = "insert")
  /\ group' = IdleGroup

\* InsertInto, then the mutex and the answers
Insert(t) ==
  /\ Leading(t, "insert")
  /\ mem' = mem \cup group.entries
  /\ Commit(t, writer)
  /\ store' = store \cup group.entries
  /\ acked' = acked \cup group.entries
  /\ durable' = IF writer[t].sync THEN durable \cup group.entries ELSE durable
  /\ UNCHANGED <<disk, db, recovery, imm, logfile, snapshots, reader,
                 background, budget>>

\* A failed append is told to the group and forgotten; a failed sync makes all
\* future writes fail.
GiveUp(t) ==
  /\ writer[t].pc \in {"failed", "unsynced"}
  /\ bgError' = (bgError \/ writer[t].pc = "unsynced")
  /\ Commit(t, IF bgError' /\ ~bgError THEN SignalAll(writer) ELSE writer)
  /\ UNCHANGED <<disk, db, recovery, mem, imm, logfile, snapshots, reader,
                 pending, scheduled, shuttingDown, bg, promises, budget>>

\* TEST_CompactMemTable waits until the immutable memtable is gone.
CheckFlushed(t) ==
  /\ writer[t].pc = "check"
  /\ writer' = [writer EXCEPT ![t] =
       IF imm # <<>> /\ ~bgError THEN [@ EXCEPT !.pc = "sleep"]
       ELSE IdleWriter]
  /\ UNCHANGED <<disk, db, recovery, versions, mem, imm, logfile, queue,
                 group, snapshots, reader, background, promises, budget>>

-----------------------------------------------------------------------------
(* Reads                                                                   *)

\* Get takes the number and the references under the mutex ...
StartGet ==
  /\ db = "open"
  /\ ~reader.on
  /\ budget.gets > 0
  /\ budget' = [budget EXCEPT !.gets = @ - 1]
  /\ \E n \in snapshots \cup {versions.last} :
       reader' = [on |-> TRUE, snap |-> n,
                  seen |-> {e \in mem \cup ImmEntries : e.s <= n},
                  files |-> Numbers(versions.files)]
  /\ UNCHANGED <<disk, db, recovery, versions, mem, imm, logfile, queue,
                 writer, group, snapshots, background, promises>>

\* ... and reads the files without it.
EndGet ==
  /\ reader.on
  /\ reader' = NoReader
  /\ UNCHANGED <<disk, db, recovery, versions, mem, imm, logfile, queue,
                 writer, group, snapshots, background, promises, budget>>

GetSnapshot ==
  /\ db = "open"
  /\ snapshots = {}
  /\ budget.gets > 0
  /\ budget' = [budget EXCEPT !.gets = @ - 1]
  /\ snapshots' = {versions.last}
  /\ UNCHANGED <<disk, db, recovery, versions, mem, imm, logfile, queue,
                 writer, group, reader, background, promises>>

ReleaseSnapshot ==
  /\ snapshots # {}
  /\ \E n \in snapshots : snapshots' = snapshots \ {n}
  /\ UNCHANGED <<disk, db, recovery, versions, mem, imm, logfile, queue,
                 writer, group, reader, background, promises, budget>>

-----------------------------------------------------------------------------
(* The background thread                                                   *)

Running == db \in {"open", "closing"}

\* The end of BackgroundCall
EndCall(error, immutable, files) ==
  /\ bg' = IdleBg
  /\ scheduled' = Schedules(FALSE, error, shuttingDown, immutable, files)
  /\ writer' = SignalAll(writer)

Idle == Running /\ scheduled /\ bg.pc = "idle"

BackgroundNothing ==
  /\ Idle
  /\ \/ shuttingDown
     \/ bgError
     \/ imm = <<>> /\ ~NeedsCompaction(versions.files)
  /\ EndCall(bgError, imm, versions.files)
  /\ UNCHANGED <<disk, db, recovery, versions, mem, imm, logfile, queue,
                 group, snapshots, reader, pending, bgError, shuttingDown,
                 promises, budget>>

\* WriteLevel0Table takes a number; the thread goes back to "back" afterwards.
StartTable(back) ==
  /\ imm # <<>>
  /\ versions' = [versions EXCEPT !.next = @ + 1]
  /\ pending' = pending \cup {versions.next}
  /\ bg' = [bg EXCEPT !.pc = "build", !.back = back, !.num = versions.next]
  /\ UNCHANGED <<disk, db, recovery, mem, imm, logfile, client, bgError,
                 scheduled, shuttingDown, promises, budget>>

\* BackgroundCompaction prefers the immutable memtable.
Flush ==
  /\ Idle
  /\ ~shuttingDown /\ ~bgError
  /\ StartTable("idle")

\* DoCompactionWork looks for one between two keys, whatever bg_error_ says.
FlushWhileMerging ==
  /\ Running
  /\ bg.pc \in {"merge", "write"}
  /\ ~shuttingDown
  /\ StartTable(bg.pc)

\* A merge or a flush has failed, or stops because the store is closed.
JobFails(outputs) ==
  /\ bgError' = TRUE
  /\ pending' = pending \ outputs
  /\ IF bg.back = "idle"
     THEN EndCall(TRUE, imm, versions.files)
     ELSE /\ bg' = [bg EXCEPT !.pc = bg.back, !.back = "idle", !.num = 0]
          /\ writer' = SignalAll(writer)
          /\ UNCHANGED scheduled

Overlaps(num, E) ==
  /\ \E e \in table[num].entries, x \in E : e.k <= x.k
  /\ \E e \in table[num].entries, x \in E : e.k >= x.k

\* PickLevelForMemTableOutput, with two levels
LevelFor(E) ==
  IF \E f \in versions.files : Overlaps(f[2], E) THEN 0 ELSE 1

\* LogAndApply: what every edit is given
LogAndApply(add, del, logNumber) ==
  [add |-> add, del |-> del, log |-> logNumber,
   next |-> versions.next, last |-> versions.last]

Build(ok) ==
  /\ Running
  /\ bg.pc = "build"
  /\ LET E == imm[1]
     IN  /\ table' = IF ok /\ E # {}
                     THEN With(table, bg.num, [entries |-> E, synced |-> TRUE])
                     ELSE table
         /\ IF ok /\ ~shuttingDown
            THEN /\ pending' = pending \ {bg.num}
                 /\ bg' = [bg EXCEPT !.pc = "append", !.edit =
                      LogAndApply(IF E = {} THEN {} ELSE {<<LevelFor(E), bg.num>>},
                                  {}, logfile)]
                 /\ UNCHANGED <<bgError, scheduled, writer>>
            ELSE JobFails({bg.num})
  /\ UNCHANGED <<log, manifest, current, db, recovery, versions, mem, imm,
                 logfile, queue, group, snapshots, reader, shuttingDown,
                 promises>>

\* BuildTable, and the check for a store that is being closed
BuildTable == Build(TRUE) /\ UNCHANGED budget

BuildTableFails == Fault("table") /\ Build(FALSE)

\* A mutant: snapshots are not looked at.
CompactForNewest ==
  /\ Idle
  /\ ~shuttingDown /\ ~bgError
  /\ imm = <<>>
  /\ NeedsCompaction(versions.files)
  /\ bg' = [bg EXCEPT !.pc = "merge", !.inputs = versions.files,
                      !.smallest = versions.last]
  /\ UNCHANGED <<disk, db, recovery, versions, mem, imm, logfile, client,
                 pending, bgError, scheduled, shuttingDown, promises, budget>>

\* BackgroundCompaction: all files of both levels become one of level 1.
Compact ==
  /\ Idle
  /\ ~shuttingDown /\ ~bgError
  /\ imm = <<>>
  /\ NeedsCompaction(versions.files)
  /\ \E n \in snapshots \cup {versions.last} :
       /\ \A m \in snapshots \cup {versions.last} : n <= m
       /\ bg' = [bg EXCEPT !.pc = "merge", !.inputs = versions.files,
                           !.smallest = n]
  /\ UNCHANGED <<disk, db, recovery, versions, mem, imm, logfile, client,
                 pending, bgError, scheduled, shuttingDown, promises, budget>>

\* OpenCompactionOutputFile
OpenOutput ==
  /\ Running
  /\ bg.pc = "merge"
  /\ ~shuttingDown
  /\ versions' = [versions EXCEPT !.next = @ + 1]
  /\ pending' = pending \cup {versions.next}
  /\ table' = With(table, versions.next, [entries |-> {}, synced |-> FALSE])
  /\ bg' = [bg EXCEPT !.pc = "write", !.out = versions.next]
  /\ UNCHANGED <<log, manifest, current, db, recovery, mem, imm, logfile,
                 client, bgError, scheduled, shuttingDown, promises, budget>>

\* A mutant: the edit of a merge names the log of the memtable.
FinishOutputNewLog ==
  /\ Running
  /\ bg.pc = "write"
  /\ ~shuttingDown
  /\ table' = [table EXCEPT ![bg.out] =
       [entries |-> Merged(EntriesOf(Numbers(bg.inputs)), bg.smallest),
        synced |-> TRUE]]
  /\ bg' = [bg EXCEPT !.pc = "append", !.back = "idle", !.edit =
       LogAndApply({<<1, bg.out>>}, bg.inputs, logfile)]
  /\ UNCHANGED <<log, manifest, current, db, recovery, versions, mem, imm,
                 logfile, client, pending, bgError, scheduled, shuttingDown,
                 promises, budget>>

\* The last keys, FinishCompactionOutputFile and InstallCompactionResults
FinishOutput ==
  /\ Running
  /\ bg.pc = "write"
  /\ ~shuttingDown
  /\ table' = [table EXCEPT ![bg.out] =
       [entries |-> Merged(EntriesOf(Numbers(bg.inputs)), bg.smallest),
        synced |-> TRUE]]
  /\ bg' = [bg EXCEPT !.pc = "append", !.back = "idle", !.edit =
       LogAndApply({<<1, bg.out>>}, bg.inputs, versions.log)]
  /\ UNCHANGED <<log, manifest, current, db, recovery, versions, mem, imm,
                 logfile, client, pending, bgError, scheduled, shuttingDown,
                 promises, budget>>

MergeEnds ==
  /\ Running
  /\ bg.pc \in {"merge", "write"}
  /\ JobFails({bg.out})
  /\ UNCHANGED <<disk, db, recovery, versions, mem, imm, logfile, queue,
                 group, snapshots, reader, shuttingDown, promises>>

\* The output cannot be written ...
MergeFails == ~shuttingDown /\ Fault("table") /\ MergeEnds

\* ... or the store is being closed.
MergeStops == shuttingDown /\ MergeEnds /\ UNCHANGED budget

AppendEdit ==
  manifest' = [manifest EXCEPT ![versions.manifest].states =
                 Append(@, ApplyEdit(LastState(manifest[versions.manifest]), bg.edit))]

\* descriptor_log_->AddRecord, with the mutex released
AppendToManifest ==
  /\ Running
  /\ bg.pc = "append"
  /\ AppendEdit
  /\ bg' = [bg EXCEPT !.pc = "sync"]
  /\ UNCHANGED <<log, table, current, db, recovery, versions, mem, imm,
                 logfile, client, pending, bgError, scheduled, shuttingDown,
                 promises, budget>>

SyncedManifest ==
  [manifest EXCEPT ![versions.manifest].synced =
     Len(manifest[versions.manifest].states)]

\* The record, or its sync, fails; the record may be in the file or not.
ManifestFails ==
  /\ Running
  /\ bg.pc \in {"append", "sync"}
  /\ Fault("manifest")
  /\ \/ UNCHANGED manifest
     \/ bg.pc = "append" /\ AppendEdit
  /\ JobFails(IF bg.back = "idle" THEN {bg.out} ELSE {})
  /\ UNCHANGED <<log, table, current, db, recovery, versions, mem, imm,
                 logfile, queue, group, snapshots, reader, shuttingDown,
                 promises>>

\* The edit is on the disk: the new version is installed and, unless there was
\* an error, what it does not need is deleted.
InstallVersion ==
  /\ Running
  /\ bg.pc = "sync"
  /\ LET isMerge == bg.edit.del # {}
         inner == bg.back # "idle"
         v == [versions EXCEPT
                 !.files = (@ \ bg.edit.del) \cup bg.edit.add,
                 !.log = bg.edit.log]
         outputs == IF isMerge THEN pending \ {bg.out} ELSE pending
         held == reader.files \cup IF inner THEN Numbers(bg.inputs) ELSE {}
     IN  /\ versions' = v
         /\ pending' = outputs
         /\ imm' = IF isMerge THEN imm ELSE <<>>
         /\ DeleteObsoleteFiles(v, outputs, held, SyncedManifest)
         /\ IF inner
            THEN /\ bg' = [bg EXCEPT !.pc = bg.back, !.back = "idle", !.num = 0]
                 /\ writer' = SignalAll(writer)
                 /\ UNCHANGED scheduled
            ELSE EndCall(bgError, imm', v.files)
  /\ UNCHANGED <<current, db, recovery, mem, logfile, queue, group, snapshots,
                 reader, bgError, shuttingDown, promises, budget>>

-----------------------------------------------------------------------------
(* Open and close                                                          *)

Processless == <<queue, writer, group, snapshots, reader, background>>

\* NewDB: a first descriptor, closed but not synced, then CURRENT.
NewDB ==
  /\ db = "closed"
  /\ current = 0
  /\ manifest' = With(manifest, 1,
       [states |-> <<[EmptyVersion EXCEPT !.next = 2]>>, synced |-> 0])
  /\ current' = 1
  /\ UNCHANGED <<log, table, db, recovery, versions, mem, imm, logfile,
                 Processless, promises, budget>>

\* VersionSet::Recover, and the logs that are still needed. It fails when no
\* edit of the descriptor names the next file, or a table it names is missing.
Recover ==
  /\ db = "closed"
  /\ current # 0
  /\ budget.opens > 0
  /\ budget' = [budget EXCEPT !.opens = @ - 1]
  /\ Described.next # 0
  /\ Numbers(Described.files) \subseteq DOMAIN table
  /\ versions' = [files |-> Described.files, log |-> Described.log,
                  next |-> Described.next + 1, last |-> Described.last,
                  manifest |-> Described.next]
  /\ recovery' = [NoRecovery EXCEPT !.logs = LogsFrom(Described.log)]
  /\ db' = "replay"
  /\ UNCHANGED <<disk, mem, imm, logfile, Processless, promises>>

\* The log RecoverLogFile reads: the oldest of those that are left.
Replaying(number) ==
  /\ db = "replay"
  /\ number \in recovery.logs
  /\ \A m \in recovery.logs : number <= m

\* ReadRecord finds one more record.
HasRecord(number) ==
  /\ recovery.pos < Len(log[number].recs)
  /\ log[number].recs[recovery.pos + 1] # Torn

\* A table of everything in m, if write is TRUE, with a new number.
WriteRecovered(m, write) ==
  table' = IF write
           THEN With(table, versions.next, [entries |-> m, synced |-> TRUE])
           ELSE table

Recovered(write) ==
  recovery.add \cup IF write THEN {<<0, versions.next>>} ELSE {}

\* The loop of RecoverLogFile: a record, and a table when the memtable is full.
ReplayRecord(number) ==
  /\ Replaying(number)
  /\ HasRecord(number)
  /\ LET record == log[number].recs[recovery.pos + 1]
         m == recovery.mem \cup record.entries
         full == Cardinality(m) > WriteBufferSize
     IN  /\ WriteRecovered(m, full)
         /\ versions' = [versions EXCEPT !.next = IF full THEN @ + 1 ELSE @]
         /\ recovery' = [recovery EXCEPT
              !.pos = @ + 1,
              !.mem = IF full THEN {} ELSE m,
              !.add = Recovered(full),
              !.max = Larger(@, record.last)]
  /\ UNCHANGED <<log, manifest, current, db, mem, imm, logfile, Processless,
                 promises, budget>>

\* VersionSet::MarkFileNumberUsed
MarkFileNumberUsed(next, number) == Larger(next, number + 1)

\* The end of RecoverLogFile: the rest becomes a table.
EndLog(number) ==
  /\ Replaying(number)
  /\ ~HasRecord(number)
  /\ LET rest == recovery.mem # {}
     IN  /\ WriteRecovered(recovery.mem, rest)
         /\ versions' = [versions EXCEPT !.next =
              MarkFileNumberUsed(IF rest THEN @ + 1 ELSE @, number)]
         /\ recovery' = [recovery EXCEPT
              !.logs = @ \ {number},
              !.pos = 0,
              !.mem = {},
              !.add = Recovered(rest)]
  /\ UNCHANGED <<log, manifest, current, db, mem, imm, logfile, Processless,
                 promises, budget>>

\* WriteSnapshot: the files, and no counter.
WriteSnapshot(files) == [EmptyVersion EXCEPT !.files = files]

\* A new log, and a new descriptor with a snapshot and the edit of the recovery.
NewManifest ==
  /\ db = "replay"
  /\ recovery.logs = {}
  /\ LET v == [versions EXCEPT
              !.files = @ \cup recovery.add,
              !.log = versions.next,
              !.next = @ + 1,
              !.last = Larger(@, recovery.max)]
     IN  /\ log' = With(log, v.log, [recs |-> <<>>, synced |-> 0])
         /\ manifest' = With(manifest, v.manifest,
              [states |-> <<WriteSnapshot(versions.files),
                            [files |-> v.files, log |-> v.log,
                             next |-> v.next, last |-> v.last]>>,
               synced |-> 0])
         /\ versions' = v
         /\ logfile' = v.log
  /\ db' = "switch"
  /\ UNCHANGED <<table, current, recovery, mem, imm, Processless, promises,
                 budget>>

\* The descriptor is synced, then SetCurrentFile.
SetCurrent ==
  /\ db = "switch"
  /\ manifest' = SyncedManifest
  /\ current' = versions.manifest
  /\ db' = "clean"
  /\ UNCHANGED <<log, table, recovery, versions, mem, imm, logfile,
                 Processless, promises, budget>>

\* The end of DB::Open
Opened ==
  /\ db = "clean"
  /\ DeleteObsoleteFiles(versions, {}, {}, manifest)
  /\ scheduled' = Schedules(FALSE, FALSE, FALSE, <<>>, versions.files)
  /\ db' = "open"
  /\ recovery' = NoRecovery
  /\ store' = EntriesOf(Numbers(versions.files))
  /\ UNCHANGED <<current, versions, mem, imm, logfile, client, pending,
                 bgError, shuttingDown, bg, acked, durable, budget>>

\* A file cannot be written: Open fails, with the new descriptor deleted.
OpenFails ==
  /\ db \in {"replay", "switch"}
  /\ Fault("newfile")
  /\ manifest' = IF db = "switch"
                 THEN Restricted(manifest, DOMAIN manifest \ {versions.manifest})
                 ELSE manifest
  /\ Reset
  /\ UNCHANGED <<log, table, current, acked, durable>>

\* The destructor, which the clients call when they have no call in progress.
StartClose ==
  /\ db = "open"
  /\ \A t \in Writer : writer[t].pc = "idle"
  /\ ~reader.on
  /\ snapshots = {}
  /\ shuttingDown' = TRUE
  /\ db' = "closing"
  /\ UNCHANGED <<disk, recovery, versions, mem, imm, logfile, client, pending,
                 bgError, scheduled, bg, promises, budget>>

EndClose ==
  /\ db = "closing"
  /\ ~scheduled
  /\ Reset
  /\ UNCHANGED <<disk, acked, durable, budget>>

\* The process dies: the files stay as the operating system has them.
Kill ==
  /\ db # "closed"
  /\ Fault("kill")
  /\ Reset
  /\ UNCHANGED <<disk, acked, durable>>

\* How much of each file is left.
Kept(choices) ==
  {f \in [DOMAIN choices -> UNION Range(choices)] :
     \A n \in DOMAIN choices : f[n] \in choices[n]}

\* The machine stops: of every file a part that was not synced is lost.  No
\* directory loses an entry: what was created, renamed or deleted stays so.
PowerLoss ==
  /\ Fault("power")
  /\ \E l \in Kept([n \in DOMAIN log |-> log[n].synced..Len(log[n].recs)]) :
       log' = [n \in DOMAIN log |->
         [recs |-> SubSeq(log[n].recs, 1, l[n]), synced |-> l[n]]]
  /\ \E m \in Kept([n \in DOMAIN manifest |->
                   manifest[n].synced..Len(manifest[n].states)]) :
       manifest' = [n \in DOMAIN manifest |->
         [states |-> SubSeq(manifest[n].states, 1, m[n]), synced |-> m[n]]]
  /\ table' = Restricted(table, {n \in DOMAIN table : table[n].synced})
  /\ Reset
  /\ acked' = durable
  /\ UNCHANGED <<current, durable>>

-----------------------------------------------------------------------------

Write(t) ==
  \/ Refuse(t) \/ Room(t) \/ Wait(t) \/ Switch(t) \/ AddRecord(t)
  \/ SyncLog(t) \/ Insert(t) \/ GiveUp(t) \/ CheckFlushed(t)

WriteFaults(t) == SwitchFails(t) \/ AddRecordFails(t) \/ SyncLogFails(t)

BackgroundCall ==
  \/ BackgroundNothing \/ Flush \/ FlushWhileMerging \/ BuildTable
  \/ Compact \/ OpenOutput \/ FinishOutput \/ MergeStops
  \/ AppendToManifest \/ InstallVersion

BackgroundFaults == BuildTableFails \/ MergeFails \/ ManifestFails

ReplayLog(number) == ReplayRecord(number) \/ EndLog(number)

Open ==
  \/ \E number \in recovery.logs : ReplayLog(number)
  \/ NewManifest \/ SetCurrent \/ Opened

Next ==
  \/ \E t \in Writer : Submit(t) \/ Write(t) \/ WriteFaults(t)
  \/ StartGet \/ EndGet \/ GetSnapshot \/ ReleaseSnapshot
  \/ BackgroundCall \/ BackgroundFaults
  \/ NewDB \/ Recover \/ Open \/ OpenFails
  \/ StartClose \/ EndClose \/ Kill \/ PowerLoss

\* The threads of the process run; nothing obliges clients or the environment.
Fairness ==
  /\ \A t \in Writer : WF_vars(Write(t))
  /\ WF_vars(BackgroundCall)

Spec == Init /\ [][Next]_vars

FairSpec == Spec /\ Fairness

-----------------------------------------------------------------------------
(* Properties                                                              *)

\* What the files and the variables hold.
Record == [entries : SUBSET Entry, last : Nat]

LogFile == [recs : Seq(Record), synced : Nat]

TableFile == [entries : SUBSET Entry, synced : BOOLEAN]

File == {0, 1} \X Nat

Version == [files : SUBSET File, log : Nat, next : Nat, last : Nat]

Descriptor == [states : Seq(Version), synced : Nat]

Edit ==
  [add : SUBSET File, del : SUBSET File, log : Nat, next : Nat, last : Nat]

InQueue == {"queued", "front", "wait", "log", "sync", "insert", "failed", "unsynced"}

WriterState ==
  [pc : InQueue \cup {"idle", "check", "sleep"}, key : Key \cup {NoKey}, sync : BOOLEAN]

IsDirectory(f, S) == DOMAIN f \subseteq Nat /\ \A n \in DOMAIN f : f[n] \in S

DiskOK ==
  /\ IsDirectory(log, LogFile)
  /\ IsDirectory(table, TableFile)
  /\ IsDirectory(manifest, Descriptor)
  /\ current \in Nat

OpenOK ==
  /\ db \in {"closed", "replay", "switch", "clean", "open", "closing"}
  /\ recovery \in [logs : SUBSET Nat, pos : Nat, mem : SUBSET Entry,
                   add : SUBSET File, max : Nat]
  /\ versions \in [files : SUBSET File, log : Nat, next : Nat, last : Nat,
                   manifest : Nat]
  /\ mem \subseteq Entry
  /\ imm \in Seq(SUBSET Entry) /\ Len(imm) <= 1
  /\ logfile \in Nat

ClientsOK ==
  /\ queue \in Seq(Writer)
  /\ writer \in [Writer -> WriterState]
  /\ group \in [size : Nat, entries : SUBSET Entry, last : Nat]
  /\ snapshots \subseteq Nat
  /\ reader \in [on : BOOLEAN, snap : Nat, seen : SUBSET Entry, files : SUBSET Nat]
  /\ budget \in Budget

BackgroundOK ==
  /\ pending \subseteq Nat
  /\ {bgError, scheduled, shuttingDown} \subseteq BOOLEAN
  /\ bg \in [pc : {"idle", "build", "merge", "write", "append", "sync"},
             back : {"idle", "merge", "write"}, num : Nat, out : Nat, edit : Edit,
             inputs : SUBSET File, smallest : Nat]

PromisesOK == store \subseteq Entry /\ acked \subseteq Entry /\ durable \subseteq Entry

\* Types, and what ties the threads to what they share.
TypeOK ==
  /\ DiskOK /\ OpenOK /\ ClientsOK /\ BackgroundOK /\ PromisesOK
  /\ current # 0 => current \in DOMAIN manifest
  /\ db = "open" => logfile \in DOMAIN log
  /\ \A t \in Writer : writer[t].pc \in InQueue <=> t \in Range(queue)
  /\ bg.pc # "idle" => scheduled

\* options.h:183-188: what was answered OK is found again, whatever step of a
\* write, a flush, a merge, a clean-up or an earlier recovery was interrupted;
\* after a loss of power, what was answered by a synced write.
AckedAreRecoverable == Covers(Recoverable, acked)

\* A Get and a snapshot see exactly what had been inserted by then, although
\* the memtable is switched, flushed and merged with older tables meanwhile.
ReadsSeeStore ==
  /\ db = "open" =>
       \A n \in snapshots \cup {versions.last} :
         View(Visible, n) = View(store, n)
  /\ reader.on =>
       View(reader.seen \cup EntriesOf(reader.files), reader.snap)
         = View(store, reader.snap)

\* DeleteObsoleteFiles spares every table that the current version, a read, a
\* merge or the descriptor on the disk still names, and it is complete; once
\* something was promised there is a descriptor to open the store with.  All of
\* the state has its type.
FilesInUseExist ==
  LET named == IF current = 0 THEN {} ELSE Numbers(Described.files)
      merged == IF bg.pc = "idle" THEN {} ELSE Numbers(bg.inputs)
  IN  /\ TypeOK
      /\ \A n \in Numbers(versions.files) \cup reader.files \cup merged \cup named :
           n \in DOMAIN table /\ table[n].synced
      /\ durable # {} => current # 0 /\ Described.next # 0

\* A sequence number names one write, in memory and in all files a recovery
\* reads, also after writes that failed half-way and after crashes.
NumbersNameOneWrite ==
  \A e, f \in Recoverable \cup Visible : e.s = f.s => e = f

\* What a client could see is not forgotten when the process dies.
SeenIsRecoverable == db = "open" => Covers(Recoverable, Visible)

\* Every call of Write returns, unless the process dies first: no writer is
\* left asleep by a switch, a flush, an error or the answers of another.
WritesReturn ==
  \A t \in Writer : (writer[t].pc # "idle") ~> (writer[t].pc = "idle")

\* The background thread gets rid of the immutable memtable, unless there was
\* an error or the store is closed.
MemtableIsFlushed == (imm # <<>>) ~> (imm = <<>> \/ bgError \/ db # "open")
=============================================================================
