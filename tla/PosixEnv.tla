------------------------------ MODULE PosixEnv ------------------------------
(* What the databases of a machine share (util/env_posix.cc): the lock on a *)
(* database, which is a name in a table of the process and a lock of the    *)
(* operating system on the file LOCK, and the one background thread of each *)
(* process, which runs the work of all its databases in turn.               *)
(*                                                                          *)
(* A lock of fcntl belongs to a process, and is lost when the process closes*)
(* any descriptor of the file.                                              *)
EXTENDS Naturals, Sequences, FiniteSets

CONSTANTS Process,
          DB,        \* the objects DBImpl that may be made
          ProcessOf, \* the process each of them is in
          DirOf,     \* the database each of them opens
          Nobody     \* not a process

ASSUME EnvConstants ==
    /\ ProcessOf \in [DB -> Process] /\ DOMAIN DirOf = DB /\ Nobody \notin Process
    /\ DB \cap {"none", "awake", "waiting"} = {}

VARIABLES
    pc,       \* where each database is in DB::Open, its life and its end
    names,    \* locks_ of each process
    osLock,   \* the process that has the lock of the operating system
    lost,     \* the databases whose lock was lost while one was open: history
    scheduled,\* bg_compaction_scheduled_ of each database
    queue,    \* queue_ of each process
    thread    \* the background thread of each process

vars == <<pc, names, osLock, lost, scheduled, queue, thread>>
lockVars == <<pc, names, osLock, lost>>
workVars == <<scheduled, queue, thread>>

Dir == {DirOf[d] : d \in DB}

Init ==
    /\ pc = [d \in DB |-> "closed"]
    /\ names = [p \in Process |-> {}]
    /\ osLock = [dir \in Dir |-> Nobody]
    /\ lost = {}
    /\ scheduled = [d \in DB |-> FALSE]
    /\ queue = [p \in Process |-> <<>>]
    /\ thread = [p \in Process |-> "none"]

Goes(d, from, to) == pc[d] = from /\ pc' = [pc EXCEPT ![d] = to]

----------------------------------------------------------------------------
(* LockFile and UnlockFile                                                  *)

Others(d) == {e \in DB \ {d} : ProcessOf[e] = ProcessOf[d] /\ DirOf[e] = DirOf[d]}

\* A descriptor of the file is closed, and with it goes the lock of the process.
CloseDescriptor(d) ==
    IF osLock[DirOf[d]] = ProcessOf[d]
    THEN /\ osLock' = [osLock EXCEPT ![DirOf[d]] = Nobody]
         /\ lost' = lost \cup {DirOf[e] : e \in {e \in Others(d) : pc[e] = "open"}}
    ELSE UNCHANGED <<osLock, lost>>

HasName(d) == DirOf[d] \in names[ProcessOf[d]]
AddName(d) == names' = [names EXCEPT ![ProcessOf[d]] = @ \cup {DirOf[d]}]
RemoveName(d) == names' = [names EXCEPT ![ProcessOf[d]] = @ \ {DirOf[d]}]

OpenFile(d) ==
    /\ Goes(d, "closed", "file open")
    /\ UNCHANGED <<names, osLock, lost, workVars>>

\* locks_.Insert finds the name: the process holds the lock already.
NameTaken(d) ==
    /\ HasName(d)
    /\ Goes(d, "file open", "closed")
    /\ CloseDescriptor(d)
    /\ UNCHANGED <<names, workVars>>

InsertName(d) ==
    /\ ~HasName(d)
    /\ Goes(d, "file open", "named")
    /\ AddName(d)
    /\ UNCHANGED <<osLock, lost, workVars>>

\* Mutant: a lock that another process has is taken for one's own.
LockIsFreeOrNot(d) == TRUE

LockIsFree(d) == osLock[DirOf[d]] \in {Nobody, ProcessOf[d]}

Lock(d) ==
    /\ LockIsFree(d)
    /\ Goes(d, "named", "open")
    /\ osLock' = [osLock EXCEPT ![DirOf[d]] = ProcessOf[d]]
    /\ UNCHANGED <<names, lost, workVars>>

LockTaken(d) ==
    /\ ~LockIsFree(d)
    /\ Goes(d, "named", "closed")
    /\ CloseDescriptor(d)
    /\ RemoveName(d)
    /\ UNCHANGED workVars

\* ~DBImpl, once no work is scheduled
Unlock(d) ==
    /\ ~scheduled[d]
    /\ Goes(d, "open", "unlocked")
    /\ CloseDescriptor(d)
    /\ UNCHANGED <<names, workVars>>

ForgetName(d) ==
    /\ Goes(d, "unlocked", "unnamed")
    /\ RemoveName(d)
    /\ UNCHANGED <<osLock, lost, workVars>>

CloseFile(d) ==
    /\ Goes(d, "unnamed", "closed")
    /\ CloseDescriptor(d)
    /\ UNCHANGED <<names, workVars>>

----------------------------------------------------------------------------
(* Schedule and BGThread                                                    *)

\* The thread waits on bgsignal_ while the queue is empty; its creation and the
\* signal come before the item is in the queue, under the mutex.
Woken(p) ==
    CASE thread[p] = "none" -> "awake"
      [] thread[p] = "waiting" /\ queue[p] = <<>> -> "awake"
      [] OTHER -> thread[p]

Put(d) ==
    /\ scheduled' = [scheduled EXCEPT ![d] = TRUE]
    /\ queue' = [queue EXCEPT ![ProcessOf[d]] = Append(@, d)]

\* Mutant: whether to signal is decided once the item is in the queue.
ScheduleAfterPush(d) ==
    /\ pc[d] = "open" /\ ~scheduled[d]
    /\ Put(d)
    /\ thread' = [thread EXCEPT ![ProcessOf[d]] = IF @ = "none" THEN "awake" ELSE @]
    /\ UNCHANGED lockVars

\* MaybeScheduleCompaction of an open database
Schedule(d) ==
    /\ pc[d] = "open" /\ ~scheduled[d]
    /\ Put(d)
    /\ thread' = [thread EXCEPT ![ProcessOf[d]] = Woken(ProcessOf[d])]
    /\ UNCHANGED lockVars

\* A round of BGThread
Wait(p) ==
    /\ thread[p] = "awake" /\ queue[p] = <<>>
    /\ thread' = [thread EXCEPT ![p] = "waiting"]
    /\ UNCHANGED <<scheduled, queue, lockVars>>

Run(p) ==
    /\ thread[p] = "awake" /\ queue[p] # <<>>
    /\ thread' = [thread EXCEPT ![p] = Head(queue[p])]
    /\ queue' = [queue EXCEPT ![p] = Tail(@)]
    /\ UNCHANGED <<scheduled, lockVars>>

\* The end of BackgroundCall, which may schedule more work for its database
Return(p) ==
    \E d \in DB, more \in BOOLEAN :
      /\ thread[p] = d
      /\ scheduled' = [scheduled EXCEPT ![d] = more]
      /\ queue' = IF more THEN [queue EXCEPT ![p] = Append(@, d)] ELSE queue
      /\ thread' = [thread EXCEPT ![p] = "awake"]
      /\ UNCHANGED lockVars

\* pthread_cond_wait may return without a signal.
WakeAnyway(p) ==
    /\ thread[p] = "waiting"
    /\ thread' = [thread EXCEPT ![p] = "awake"]
    /\ UNCHANGED <<scheduled, queue, lockVars>>

\* A process ends, and the operating system takes its locks back.
Kill(p) ==
    /\ pc' = [d \in DB |-> IF ProcessOf[d] = p THEN "closed" ELSE pc[d]]
    /\ names' = [names EXCEPT ![p] = {}]
    /\ osLock' = [dir \in Dir |-> IF osLock[dir] = p THEN Nobody ELSE osLock[dir]]
    /\ scheduled' = [d \in DB |-> IF ProcessOf[d] = p THEN FALSE ELSE scheduled[d]]
    /\ queue' = [queue EXCEPT ![p] = <<>>]
    /\ thread' = [thread EXCEPT ![p] = "none"]
    /\ UNCHANGED lost

BGThread(p) == Wait(p) \/ Run(p) \/ Return(p)

Next ==
    \/ \E d \in DB :
         \/ OpenFile(d) \/ NameTaken(d) \/ InsertName(d) \/ Lock(d) \/ LockTaken(d)
         \/ Unlock(d) \/ ForgetName(d) \/ CloseFile(d) \/ Schedule(d)
    \/ \E p \in Process : BGThread(p) \/ WakeAnyway(p) \/ Kill(p)

\* The background thread of a process goes on running, and work ends.
Fairness == \A p \in Process : WF_vars(BGThread(p))

Spec == Init /\ [][Next]_vars /\ Fairness

----------------------------------------------------------------------------
(* Properties                                                               *)
Steps == {"closed", "file open", "named", "open", "unlocked", "unnamed"}

TypeOK ==
    /\ pc \in [DB -> Steps]
    /\ names \in [Process -> SUBSET Dir]
    /\ osLock \in [Dir -> Process \cup {Nobody}]
    /\ lost \subseteq Dir
    /\ scheduled \in [DB -> BOOLEAN]
    /\ queue \in [Process -> Seq(DB)]
    /\ thread \in [Process -> DB \cup {"none", "awake", "waiting"}]

\* "Used to prevent concurrent access to the same db by multiple processes"
\* (env.h:112): a database is open once.
LockExcludes ==
    \A d, e \in DB :
      (d # e /\ DirOf[d] = DirOf[e] /\ pc[d] = "open") => pc[e] # "open"

\* A database is open once, in all processes, as long as no process closes a
\* descriptor of the file LOCK while an object of its own has the database open,
\* which a second object made for it does.
OpenOnce ==
    TypeOK /\ \A d, e \in DB :
                (d # e /\ DirOf[d] = DirOf[e] /\ DirOf[d] \notin lost /\ pc[d] = "open")
                  => pc[e] # "open"

\* Work that is scheduled is run in the end, whatever the other databases of
\* the process schedule, unless the process ends.
WorkIsRun ==
    \A d \in DB : scheduled[d] ~> (thread[ProcessOf[d]] = d \/ pc[d] = "closed")

============================================================================
