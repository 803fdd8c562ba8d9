------------------------------- MODULE Repair -------------------------------
(* RepairDB (db/repair.cc) of a directory with a log, the one of LogFile,   *)
(* and a table that may have gone bad: the log is read without checksums    *)
(* and turned into a table, each table is scanned and copied if it has bad  *)
(* blocks, and a descriptor of all of them takes the place of the old one.  *)
(* What is replaced moves to lost/.  Calls of the Env fail, and the process *)
(* dies between any two steps and starts over.                              *)
(*                                                                          *)
(* An entry is its sequence number: those of the table come first, then one *)
(* for each record of the log.  A record that was never added holds nothing *)
(* that can be inserted, or an entry of any sequence number.  The bytes of  *)
(* the descriptor are those of VersionEdit, the names of files and the     *)
(* calls on the directory those of Files.                                   *)
EXTENDS LogFile, VersionEdit, Files

CONSTANTS BatchHeader, \* the size of a batch without entries
          MaxKills     \* bound: times the process that repairs dies

ASSUME RepairConstants == BatchHeader \in Nat /\ MaxKills \in Nat

\* The name of the comparator, in a cell.
Comparator == <<0>>

VARIABLES
    repair, \* Repairer: the step it is at and its members
    tables, \* the tables of the directory, by number
    lost,   \* the tables in lost/, and the entries of the log there
    log,    \* the log is in the directory
    names,  \* the manifests of the directory, and the one that CURRENT names
    found,  \* every entry a Repairer read
    kills   \* the times it died

onDisk == <<tables, lost, log, names>>
logVars == <<file, writer, added, whole, safe, reader>>
repairVars == <<repair, tables, lost, log, names, found, kills>>

TableNumber == 2
LogNumber == 3
Old == {1, 2}
SequenceOf(rec) == Cardinality(Old) + rec
Wild == SequenceOf(MaxRecords) + 1

\* A table and the entries that can be read of it: those before its bad block,
\* or none, unless it is sound.
Sound(entries) == [entries |-> entries, sound |-> TRUE]
Spoilt(entries) == [entries |-> entries, sound |-> FALSE]
Incomplete == Spoilt({})

\* The members: the next file number, the tables to scan, the tables scanned,
\* the number of the table being written, the edit, what this repair has read,
\* and whether a call it made has failed.
NewRepairer ==
    [at |-> "off", next |-> 1, numbers |-> <<>>, scanned |-> {}, output |-> 0,
     edit |-> <<>>, read |-> {}, failed |-> FALSE]

OldManifest == 4
NewManifest == 1

RepairInit ==
    /\ Init
    /\ repair = NewRepairer
    /\ tables = (TableNumber :> Sound(Old))
    /\ lost = [tables |-> <<>>, log |-> {}]
    /\ log = TRUE
    /\ names = [manifests |-> (OldManifest :> <<>>), current |-> OldManifest]
    /\ found = {} /\ kills = 0

Read(entries) == found' = found \cup entries

----------------------------------------------------------------------------
(* FindFiles                                                                *)
Listed ==
    {TableFileName(n) : n \in GetChildren(tables)}
      \cup {DescriptorFileName(n) : n \in GetChildren(names.manifests)}
      \cup {CurrentFileName, LockFileName}
      \cup IF log THEN {LogFileName(LogNumber)} ELSE {}

\* Those whose names are a database's, and their numbers by type
FilesFound == {p \in {ParseFileName(f) : f \in Listed} : p.ok}
NumbersOf(types) == {p.number : p \in {q \in FilesFound : q.type \in types}}

\* Descriptors are archived: their numbers are free.
Highest == Max(NumbersOf({"log", "table", "temp", "current", "lock", "info log"}))

FindFrom(next) ==
    /\ repair.at = "off" /\ ~writer.live /\ ~reader.open
    /\ repair' = [NewRepairer EXCEPT !.at = IF NumbersOf({"log"}) # {} THEN "convert" ELSE "scan",
                                     !.next = next,
                                     !.numbers = SetToSortSeq(NumbersOf({"table"}), <)]
    /\ UNCHANGED <<logVars, faults, onDisk, found, kills>>

\* Mutant: the next file takes the number of the last.
FindFilesOffByOne == FindFrom(Highest)

FindFiles == FindFrom(Highest + 1)

----------------------------------------------------------------------------
(* ConvertLogFilesToTables, ConvertLogToTable                               *)

\* The reader is told not to verify checksums.
OpenLog == repair.at = "convert" /\ Open(FALSE, 0) /\ UNCHANGED repairVars

ReadLog == repair.at = "convert" /\ (ReadRecord \/ ReadFails) /\ UNCHANGED repairVars

\* An error of the conversion is ignored: the log is archived all the same.
OpenLogFails ==
    /\ repair.at = "convert" /\ ~reader.open
    /\ repair' = [repair EXCEPT !.at = "archive", !.failed = TRUE]
    /\ Fault("open")
    /\ UNCHANGED <<logVars, onDisk, found, kills>>

\* What InsertInto may make of a record, too short ones being skipped: of bytes
\* that are no batch the entries before the first that is malformed.
Inserted(record) ==
    LET recs == {rec \in DOMAIN added : Record(rec) = record}
    IN  IF Len(record) < BatchHeader THEN {{}}
        ELSE IF recs = {} THEN {{}, {Wild}}
        ELSE {{SequenceOf(rec)} : rec \in recs}

Memtables ==
    FoldLeft(LAMBDA mems, record :
                 {mem \cup new : mem \in mems, new \in Inserted(record)},
             {{}}, reader.records)

\* The log being read, BuildTable begins a table, if there is an entry for it.
BeginTable ==
    /\ repair.at = "convert" /\ reader.open /\ reader.done
    /\ \E mem \in Memtables :
         /\ repair' = [repair EXCEPT !.at = IF mem = {} THEN "archive" ELSE "build",
                                     !.next = @ + 1, !.output = repair.next,
                                     !.read = mem]
         /\ tables' = IF mem = {} THEN tables
                       ELSE NewWritableFile(tables, repair.next, Incomplete)
         /\ Read(mem)
    /\ reader' = NoReader
    /\ UNCHANGED <<file, writer, added, whole, safe, faults, lost, log, names, kills>>

BuildTable ==
    /\ repair.at = "build"
    /\ tables' = [tables EXCEPT ![repair.output] = Sound(repair.read)]
    /\ repair' = [repair EXCEPT !.at = "archive", !.numbers = Append(@, repair.output)]
    /\ UNCHANGED <<logVars, faults, lost, log, names, found, kills>>

BuildTableFails ==
    /\ repair.at = "build"
    /\ tables' = DeleteFile(tables, repair.output)
    /\ repair' = [repair EXCEPT !.at = "archive", !.failed = TRUE]
    /\ Fault("build")
    /\ UNCHANGED <<logVars, lost, log, names, found, kills>>

\* The bytes of the log are not needed in the directory any more.
LogGone ==
    /\ log' = FALSE
    /\ file' = [bytes |-> <<>>, flushed |-> 0, synced |-> 0]
    /\ added' = <<>> /\ whole' = {} /\ safe' = {}

\* Mutant: the log is deleted, now that it is converted.
DeleteLog ==
    /\ repair.at = "archive"
    /\ LogGone
    /\ repair' = [repair EXCEPT !.at = "scan"]
    /\ UNCHANGED <<writer, reader, faults, tables, lost, names, found, kills>>

ArchiveLog ==
    /\ repair.at = "archive"
    /\ LogGone
    /\ lost' = [lost EXCEPT !.log = found \ Old]
    /\ repair' = [repair EXCEPT !.at = "scan"]
    /\ UNCHANGED <<writer, reader, faults, tables, names, found, kills>>

----------------------------------------------------------------------------
(* ExtractMetaData, ScanTable                                               *)
Number1 == Head(repair.numbers)
Scanning == repair.at = "scan" /\ repair.numbers # <<>>

\* At any time before the table is first read, some of it may have gone bad.
TableGoesBad ==
    /\ Scanning /\ Number1 = TableNumber /\ tables[TableNumber].sound
    /\ found \cap Old = {}
    /\ \E entries \in {{}, {1}} : tables' = [tables EXCEPT ![TableNumber] = Spoilt(entries)]
    /\ UNCHANGED <<logVars, faults, repair, lost, log, names, found, kills>>

\* The table is on the list of those scanned.
OnList(n, entries) ==
    [repair EXCEPT !.at = "scan", !.numbers = Tail(@),
                   !.scanned = @ \cup {[number |-> n, entries |-> entries]},
                   !.read = @ \cup entries]

Skipped(after) == [after EXCEPT !.at = "scan", !.numbers = Tail(@)]
Failed(after) == [Skipped(after) EXCEPT !.failed = TRUE]

ScanTable ==
    /\ Scanning /\ tables[Number1].sound
    /\ repair' = OnList(Number1, tables[Number1].entries)
    /\ Read(tables[Number1].entries)
    /\ UNCHANGED <<logVars, faults, onDisk, kills>>

Archived(n) == [lost EXCEPT !.tables = (n :> tables[n]) @@ @]

\* GetFileSize fails: the table is archived unread.
ScanTableFails ==
    /\ Scanning
    /\ tables' = DeleteFile(tables, Number1)
    /\ lost' = Archived(Number1)
    /\ repair' = Failed(repair)
    /\ Fault("size")
    /\ UNCHANGED <<logVars, log, names, found, kills>>

\* RepairTable: what can be read is added to a new table ...
CopyTable ==
    /\ Scanning /\ ~tables[Number1].sound
    /\ tables' = NewWritableFile(tables, repair.next, Incomplete)
    /\ repair' = [repair EXCEPT !.at = "copied", !.next = @ + 1, !.output = repair.next,
                                !.read = @ \cup tables[Number1].entries]
    /\ Read(tables[Number1].entries)
    /\ UNCHANGED <<logVars, faults, lost, log, names, kills>>

\* (The table stays where it is if there can be none.)
CopyTableFails ==
    /\ Scanning /\ ~tables[Number1].sound
    /\ repair' = [Failed(repair) EXCEPT !.next = @ + 1]
    /\ Read(tables[Number1].entries)
    /\ Fault("create")
    /\ UNCHANGED <<logVars, onDisk, kills>>

\* ... the old one is archived ...
ArchiveTable ==
    /\ repair.at = "copied"
    /\ tables' = DeleteFile(tables, Number1)
    /\ lost' = Archived(Number1)
    /\ repair' = [repair EXCEPT !.at = "archived"]
    /\ UNCHANGED <<logVars, faults, log, names, found, kills>>

Copied == lost.tables[Number1].entries

\* ... the new one is finished, or abandoned if there is nothing to save ...
FinishCopy ==
    /\ repair.at = "archived"
    /\ IF Copied = {} THEN repair' = Skipped(repair) /\ UNCHANGED tables
       ELSE /\ tables' = [tables EXCEPT ![repair.output] = Sound(Copied)]
            /\ repair' = [repair EXCEPT !.at = "finished"]
    /\ UNCHANGED <<logVars, faults, lost, log, names, found, kills>>

\* ... and takes the name of the old one.
RenameCopy ==
    /\ repair.at = "finished"
    /\ tables' = RenameFile(tables, repair.output, Number1)
    /\ repair' = OnList(Number1, Copied)
    /\ UNCHANGED <<logVars, faults, lost, log, names, found, kills>>

\* Finish, Close or RenameFile fails.
CopyIsDeleted ==
    /\ repair.at \in {"archived", "finished"}
    /\ tables' = DeleteFile(tables, repair.output)
    /\ repair' = Failed(repair)
    /\ Fault("copy")
    /\ UNCHANGED <<logVars, lost, log, names, found, kills>>

----------------------------------------------------------------------------
(* WriteDescriptor                                                          *)
\* A table in the edit: its size is the number of its entries, its keys are
\* named by them.
NewFile(t) ==
    <<0, t.number, Cardinality(t.entries), <<Min(t.entries)>>, <<Max(t.entries)>>>>

Edit ==
    [Clear EXCEPT
       !.scalars = [comparator |-> Comparator, logNumber |-> 0, nextFileNumber |-> repair.next,
                    lastSequence |-> Max({0} \cup UNION {t.entries : t \in repair.scanned})],
       !.newFiles = LET InOrder(t, u) == t.number < u.number
                        scanned == SetToSortSeq(repair.scanned, InOrder)
                    IN  [i \in DOMAIN scanned |-> NewFile(scanned[i])]]

WriteDescriptor ==
    /\ repair.at = "scan" /\ repair.numbers = <<>>
    /\ repair' = [repair EXCEPT !.at = "described", !.edit = Edit]
    /\ UNCHANGED <<logVars, faults, onDisk, found, kills>>

ArchiveManifests ==
    /\ repair.at = "described"
    /\ names' = [names EXCEPT !.manifests = <<>>]
    /\ repair' = [repair EXCEPT !.at = "install"]
    /\ UNCHANGED <<logVars, faults, tables, lost, log, found, kills>>

InstallManifest ==
    /\ repair.at = "install"
    /\ names' = [names EXCEPT !.manifests = (NewManifest :> EncodeTo(repair.edit))]
    /\ repair' = [repair EXCEPT !.at = "installed"]
    /\ UNCHANGED <<logVars, faults, tables, lost, log, found, kills>>

SetCurrentFile ==
    /\ repair.at = "installed"
    /\ names' = [names EXCEPT !.current = NewManifest]
    /\ repair' = [repair EXCEPT !.at = "done"]
    /\ UNCHANGED <<logVars, faults, tables, lost, log, found, kills>>

\* The descriptor cannot be written, or a rename fails: Run returns the error.
WriteDescriptorFails ==
    /\ \/ repair.at = "scan" /\ repair.numbers = <<>>
       \/ repair.at \in {"install", "installed"}
    /\ repair' = [repair EXCEPT !.at = "done", !.failed = TRUE]
    /\ Fault("descriptor")
    /\ UNCHANGED <<logVars, onDisk, found, kills>>

----------------------------------------------------------------------------
\* The process dies, or has done its work; the database is repaired again.
RepairKilled ==
    /\ repair.at # "off"
    /\ kills < MaxKills
    /\ kills' = kills + 1
    /\ repair' = NewRepairer
    /\ reader' = NoReader
    /\ UNCHANGED <<file, writer, added, whole, safe, faults, onDisk, found>>

\* The log as LogFile has it, until it is repaired.
LogStep == repair.at = "off" /\ kills = 0 /\ Next /\ UNCHANGED repairVars

RepairNext ==
    \/ LogStep
    \/ FindFiles
    \/ OpenLog \/ ReadLog \/ OpenLogFails
    \/ BeginTable \/ BuildTable \/ BuildTableFails \/ ArchiveLog
    \/ TableGoesBad \/ ScanTable \/ ScanTableFails
    \/ CopyTable \/ CopyTableFails \/ ArchiveTable \/ FinishCopy \/ RenameCopy \/ CopyIsDeleted
    \/ WriteDescriptor \/ ArchiveManifests \/ InstallManifest \/ SetCurrentFile
    \/ WriteDescriptorFails
    \/ RepairKilled

RepairSpec == RepairInit /\ [][RepairNext]_<<vars, repairVars>>

----------------------------------------------------------------------------
EntriesOf(ts) == UNION {ts[n].entries : n \in DOMAIN ts}

\* What a repair has once read can always be read again, from a file of the
\* directory or of lost/: whichever step fails or is the last before the process
\* dies, in this repair and in the one that follows (repair.cc 14-22, 337-373).
\* (What was read of the log is in it as long as it is in the directory.)
NothingIsDestroyed ==
    ~log => found \subseteq EntriesOf(tables) \cup EntriesOf(lost.tables) \cup lost.log

\* A repair no call of which failed ends with a descriptor from which the
\* database opens with all that it read, even if an earlier one was cut short:
\* its tables are there and sound, no file will get the number of one that is
\* there, and no sequence number comes twice (repair.cc 375-432).
RepairedIsWhole ==
    (repair.at = "done" /\ ~repair.failed) =>
        LET m == DecodeFrom(names.manifests[names.current])
            files == {f[2] : f \in Range(m.edit.newFiles)}
        IN  /\ names.current \in DOMAIN names.manifests
            /\ m.ok
            /\ files \subseteq {n \in DOMAIN tables : tables[n].sound}
            /\ repair.read \subseteq UNION {tables[n].entries : n \in files}
            /\ m.edit.scalars.nextFileNumber > Highest
            /\ \A entry \in repair.read : m.edit.scalars.lastSequence >= entry

============================================================================
