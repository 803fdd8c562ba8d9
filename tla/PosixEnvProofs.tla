--------------------------- MODULE PosixEnvProofs ---------------------------
(* Proofs about PosixEnv, for every set of processes and databases: its     *)
(* types; that the lock keeps a database from being open twice, and what a  *)
(* program must not do for that; and that the background thread only works  *)
(* for a database that is open.                                             *)
EXTENDS PosixEnv, SequenceTheorems, TLAPS

----------------------------------------------------------------------------
(* The lock                                                                 *)

\* The name of the database is in locks_ because of this object.
Holds(d) == pc[d] \in {"named", "open", "unlocked"}

Rivals(d, e) == d # e /\ DirOf[d] = DirOf[e] /\ ProcessOf[d] = ProcessOf[e]

NamesAreHeld == \A d \in DB : Holds(d) => HasName(d)

HeldByOne == \A d, e \in DB : Rivals(d, e) /\ Holds(d) => ~Holds(e)

OpenHasLock ==
    \A d \in DB : pc[d] = "open" /\ DirOf[d] \notin lost => osLock[DirOf[d]] = ProcessOf[d]

LockInv == TypeOK /\ NamesAreHeld /\ HeldByOne /\ OpenHasLock

LEMMA DirType == \A d \in DB : DirOf[d] \in Dir /\ ProcessOf[d] \in Process
  BY EnvConstants DEF Dir

LEMMA Closing ==
  ASSUME TypeOK, NEW d \in DB, CloseDescriptor(d)
  PROVE  osLock' \in [Dir -> Process \cup {Nobody}] /\ lost' \subseteq Dir
<1>1. osLock' \in [Dir -> Process \cup {Nobody}]
  BY DirType DEF TypeOK, CloseDescriptor
<1>2. lost' \subseteq Dir
  <2>1. CASE osLock[DirOf[d]] = ProcessOf[d]
    <3>1. {DirOf[e] : e \in {x \in Others(d) : pc[x] = "open"}} \subseteq Dir
      BY DirType DEF Others
    <3> QED BY <2>1, <3>1 DEF TypeOK, CloseDescriptor
  <2> QED BY <2>1 DEF TypeOK, CloseDescriptor
<1> QED BY <1>1, <1>2

\* What is left of OpenHasLock once d, no longer open, closed its descriptor.
LEMMA ClosingKeepsLocks ==
  ASSUME LockInv, NEW d \in DB, CloseDescriptor(d), pc' \in [DB -> Steps],
         pc'[d] # "open", \A e \in DB \ {d} : pc'[e] = pc[e]
  PROVE  OpenHasLock'
<1> SUFFICES ASSUME NEW e \in DB, pc'[e] = "open", DirOf[e] \notin lost'
             PROVE  osLock'[DirOf[e]] = ProcessOf[e]
  BY DEF OpenHasLock
<1>1. e # d /\ pc[e] = "open"
  OBVIOUS
<1>2. CASE osLock[DirOf[d]] # ProcessOf[d]
  BY <1>1, <1>2 DEF CloseDescriptor, LockInv, OpenHasLock
<1>3. CASE osLock[DirOf[d]] = ProcessOf[d]
  <2>1. DirOf[e] \notin lost /\ osLock[DirOf[e]] = ProcessOf[e]
    BY <1>1, <1>3 DEF CloseDescriptor, LockInv, OpenHasLock
  <2>2. e \notin Others(d)
    BY <1>1, <1>3 DEF CloseDescriptor
  <2>3. DirOf[e] # DirOf[d]
    BY <1>1, <1>3, <2>1, <2>2 DEF Others
  <2> QED BY <1>3, <2>1, <2>3, DirType DEF CloseDescriptor, LockInv, TypeOK
<1> QED BY <1>2, <1>3

LEMMA LockStep ==
  ASSUME LockInv, [Next]_vars
  PROVE  LockInv'
<1> USE DEF LockInv
<1>1. ASSUME NEW d \in DB, OpenFile(d)
      PROVE  LockInv'
  BY <1>1, DirType DEF OpenFile, Goes, workVars, TypeOK, Steps, NamesAreHeld, HeldByOne,
     OpenHasLock, Holds, HasName, Rivals
<1>2. ASSUME NEW d \in DB, NameTaken(d)
      PROVE  LockInv'
  <2>1. TypeOK'
    BY <1>2, Closing DEF NameTaken, Goes, workVars, TypeOK, Steps
  <2>2. NamesAreHeld' /\ HeldByOne'
    BY <1>2 DEF NameTaken, Goes, TypeOK, NamesAreHeld, HeldByOne, Holds, HasName, Rivals
  <2>3. OpenHasLock'
    BY <1>2, <2>1, ClosingKeepsLocks DEF NameTaken, Goes, TypeOK, Steps
  <2> QED BY <2>1, <2>2, <2>3
<1>3. ASSUME NEW d \in DB, InsertName(d)
      PROVE  LockInv'
  <2>1. TypeOK'
    BY <1>3, DirType DEF InsertName, AddName, Goes, workVars, TypeOK, Steps
  <2>2. NamesAreHeld'
    BY <1>3, DirType DEF InsertName, AddName, Goes, TypeOK, NamesAreHeld, Holds, HasName
  <2>3. HeldByOne'
    BY <1>3, DirType DEF InsertName, Goes, TypeOK, NamesAreHeld, HeldByOne, Holds, HasName,
       Rivals
  <2>4. OpenHasLock'
    BY <1>3 DEF InsertName, Goes, TypeOK, OpenHasLock
  <2> QED BY <2>1, <2>2, <2>3, <2>4
<1>4. ASSUME NEW d \in DB, Lock(d)
      PROVE  LockInv'
  <2>1. TypeOK'
    BY <1>4, DirType DEF Lock, Goes, workVars, TypeOK, Steps
  <2>2. NamesAreHeld' /\ HeldByOne'
    BY <1>4 DEF Lock, Goes, TypeOK, NamesAreHeld, HeldByOne, Holds, HasName, Rivals
  <2>3. ASSUME NEW e \in DB, pc'[e] = "open", DirOf[e] \notin lost'
        PROVE  osLock'[DirOf[e]] = ProcessOf[e]
    <3>1. CASE e = d
      BY <1>4, <3>1, DirType DEF Lock, TypeOK
    <3>2. CASE e # d
      <4>1. pc[e] = "open" /\ osLock[DirOf[e]] = ProcessOf[e]
        BY <1>4, <2>3, <3>2 DEF Lock, Goes, TypeOK, OpenHasLock
      <4>2. DirOf[e] = DirOf[d] => ProcessOf[e] = ProcessOf[d]
        BY <1>4, <4>1, DirType, EnvConstants DEF Lock, LockIsFree
      <4>3. DirOf[e] # DirOf[d]
        BY <1>4, <3>2, <4>1, <4>2 DEF Lock, Goes, HeldByOne, Holds, Rivals
      <4> QED BY <1>4, <4>1, <4>3, DirType DEF Lock, TypeOK
    <3> QED BY <3>1, <3>2
  <2> QED BY <2>1, <2>2, <2>3 DEF OpenHasLock
<1>5. ASSUME NEW d \in DB, LockTaken(d)
      PROVE  LockInv'
  <2>1. TypeOK'
    BY <1>5, Closing, DirType DEF LockTaken, RemoveName, Goes, workVars, TypeOK, Steps
  <2>2. NamesAreHeld'
    BY <1>5, DirType
       DEF LockTaken, RemoveName, Goes, TypeOK, NamesAreHeld, HeldByOne, Holds, HasName, Rivals
  <2>3. HeldByOne'
    BY <1>5 DEF LockTaken, Goes, TypeOK, HeldByOne, Holds, Rivals
  <2>4. OpenHasLock'
    BY <1>5, <2>1, ClosingKeepsLocks DEF LockTaken, Goes, TypeOK, Steps
  <2> QED BY <2>1, <2>2, <2>3, <2>4
<1>6. ASSUME NEW d \in DB, Unlock(d)
      PROVE  LockInv'
  <2>1. TypeOK'
    BY <1>6, Closing DEF Unlock, Goes, workVars, TypeOK, Steps
  <2>2. NamesAreHeld' /\ HeldByOne'
    BY <1>6 DEF Unlock, Goes, TypeOK, NamesAreHeld, HeldByOne, Holds, HasName, Rivals
  <2>3. OpenHasLock'
    BY <1>6, <2>1, ClosingKeepsLocks DEF Unlock, Goes, TypeOK, Steps
  <2> QED BY <2>1, <2>2, <2>3
<1>7. ASSUME NEW d \in DB, ForgetName(d)
      PROVE  LockInv'
  <2>1. TypeOK'
    BY <1>7, DirType DEF ForgetName, RemoveName, Goes, workVars, TypeOK, Steps
  <2>2. NamesAreHeld'
    BY <1>7, DirType
       DEF ForgetName, RemoveName, Goes, TypeOK, NamesAreHeld, HeldByOne, Holds, HasName, Rivals
  <2>3. HeldByOne' /\ OpenHasLock'
    BY <1>7 DEF ForgetName, Goes, TypeOK, HeldByOne, OpenHasLock, Holds, Rivals
  <2> QED BY <2>1, <2>2, <2>3
<1>8. ASSUME NEW d \in DB, CloseFile(d)
      PROVE  LockInv'
  <2>1. TypeOK'
    BY <1>8, Closing DEF CloseFile, Goes, workVars, TypeOK, Steps
  <2>2. NamesAreHeld' /\ HeldByOne'
    BY <1>8 DEF CloseFile, Goes, TypeOK, NamesAreHeld, HeldByOne, Holds, HasName, Rivals
  <2>3. OpenHasLock'
    BY <1>8, <2>1, ClosingKeepsLocks DEF CloseFile, Goes, TypeOK, Steps
  <2> QED BY <2>1, <2>2, <2>3
<1>9. ASSUME NEW d \in DB, Schedule(d)
      PROVE  LockInv'
  <2>1. TypeOK'
    BY <1>9, DirType DEF Schedule, Put, Woken, lockVars, TypeOK
  <2> QED BY <1>9, <2>1 DEF Schedule, lockVars, NamesAreHeld, HeldByOne, OpenHasLock, Holds, HasName
<1>10. ASSUME NEW p \in Process, BGThread(p) \/ WakeAnyway(p)
       PROVE  LockInv'
  <2>1. UNCHANGED lockVars
    BY <1>10 DEF BGThread, Wait, Run, Return, WakeAnyway
  <2>2. ASSUME Wait(p) \/ WakeAnyway(p) PROVE TypeOK'
    BY <1>10, <2>1, <2>2 DEF Wait, WakeAnyway, lockVars, TypeOK
  <2>3. ASSUME Run(p) PROVE TypeOK'
    BY <1>10, <2>1, <2>3 DEF Run, lockVars, TypeOK
  <2>4. ASSUME Return(p) PROVE TypeOK'
    BY <1>10, <2>1, <2>4 DEF Return, lockVars, TypeOK
  <2> QED BY <1>10, <2>1, <2>2, <2>3, <2>4
       DEF BGThread, lockVars, TypeOK, NamesAreHeld, HeldByOne, OpenHasLock, Holds, HasName
<1>11. ASSUME NEW p \in Process, Kill(p)
       PROVE  LockInv'
  <2>1. /\ pc' \in [DB -> Steps] /\ names' \in [Process -> SUBSET Dir]
        /\ osLock' \in [Dir -> Process \cup {Nobody}] /\ lost' \subseteq Dir
    BY <1>11 DEF Kill, TypeOK, Steps
  <2>2. queue' \in [Process -> Seq(DB)]
    BY <1>11 DEF Kill, TypeOK
  <2>7. scheduled' \in [DB -> BOOLEAN]
    BY <1>11 DEF Kill, TypeOK
  <2>6. thread' \in [Process -> DB \cup {"none", "awake", "waiting"}]
    BY <1>11 DEF Kill, TypeOK
  <2>3. TypeOK'
    BY <2>1, <2>2, <2>6, <2>7 DEF TypeOK
  <2>4. NamesAreHeld' /\ HeldByOne'
    BY <1>11, DirType DEF Kill, TypeOK, NamesAreHeld, HeldByOne, Holds, HasName, Rivals
  <2>5. OpenHasLock'
    BY <1>11, DirType DEF Kill, TypeOK, OpenHasLock
  <2> QED BY <2>3, <2>4, <2>5
<1>12. CASE UNCHANGED vars
  BY <1>12 DEF vars, TypeOK, NamesAreHeld, HeldByOne, OpenHasLock, Holds, HasName
<1> QED BY <1>1, <1>2, <1>3, <1>4, <1>5, <1>6, <1>7, <1>8, <1>9, <1>10, <1>11, <1>12 DEF Next

LEMMA LockInit == Init => LockInv
BY DirType DEF Init, LockInv, TypeOK, Steps, NamesAreHeld, HeldByOne, OpenHasLock, Holds

LEMMA LockInvOpensOnce ==
  ASSUME LockInv
  PROVE  OpenOnce
BY DirType DEF LockInv, OpenOnce, HeldByOne, OpenHasLock, Holds, Rivals

\* In every state a database is open in one object only, of whatever process,
\* unless its process closed a descriptor of LOCK under it; and types are right.
THEOREM OpenedOnce == Spec => []OpenOnce
<1>1. LockInv /\ [Next]_vars => LockInv'
  BY LockStep
<1> QED BY <1>1, LockInit, LockInvOpensOnce, PTL DEF Spec

\* No program makes two objects for one database.
OneObjectEach == \A d, e \in DB : ~Rivals(d, e)

LEMMA NothingLost ==
  ASSUME OneObjectEach, lost = {}, [Next]_vars
  PROVE  lost' = {}
<1>1. ASSUME NEW d \in DB, CloseDescriptor(d)
      PROVE  lost' = {}
  <2>1. Others(d) = {}
    BY DEF OneObjectEach, Others, Rivals
  <2> QED BY <1>1, <2>1 DEF CloseDescriptor
<1> QED BY <1>1
     DEF Next, vars, lockVars, OpenFile, NameTaken, InsertName, Lock, LockTaken, Unlock,
         ForgetName, CloseFile, Schedule, BGThread, Wait, Run, Return, WakeAnyway, Kill

\* What env.h:112 promises of LockFile, in programs that make one object for
\* each database: however many processes try, it is open once.
THEOREM LockIsEnough ==
  ASSUME OneObjectEach
  PROVE  Spec => []LockExcludes
<1>1. lost = {} /\ [Next]_vars => (lost = {})'
  BY NothingLost
<1>2. Init => lost = {}
  BY DEF Init
<1>3. lost = {} /\ OpenOnce => LockExcludes
  BY DEF OpenOnce, LockExcludes
<1> QED BY <1>1, <1>2, <1>3, OpenedOnce, PTL DEF Spec

----------------------------------------------------------------------------
(* The background thread                                                    *)

Elements(q) == {q[i] : i \in DOMAIN q}
Distinct(q) == \A i, j \in DOMAIN q : q[i] = q[j] => i = j
Queued(p) == Elements(queue[p])

\* The thread works for a database of its process that is open and stays so.
WorksForOpen ==
    \A p \in Process :
      thread[p] \in DB => pc[thread[p]] = "open" /\ ProcessOf[thread[p]] = p

\* Scheduled work is in the queue or under way, and no thread sleeps over it:
\* the signal of Schedule is never lost.
WorkIsNotForgotten ==
    /\ \A d \in DB :
         scheduled[d] => d \in Queued(ProcessOf[d]) \/ thread[ProcessOf[d]] = d
    /\ \A p \in Process : thread[p] \in {"none", "waiting"} => queue[p] = <<>>

\* A database is in one place at most: the thread does not run it twice.
QueuedOnce ==
    \A p \in Process : thread[p] \notin Queued(p) /\ Distinct(queue[p])

ScheduledIsOpen == \A d \in DB : scheduled[d] => pc[d] = "open"

WorkIsScheduled ==
    \A p \in Process, d \in DB :
      d \in Queued(p) \/ thread[p] = d => scheduled[d] /\ ProcessOf[d] = p

WorkInv == ScheduledIsOpen /\ WorkIsScheduled /\ QueuedOnce /\ WorkIsNotForgotten

LEMMA AppendElements ==
  ASSUME NEW S, NEW q \in Seq(S), NEW x \in S
  PROVE  /\ Elements(Append(q, x)) = Elements(q) \cup {x}
         /\ Distinct(q) /\ x \notin Elements(q) => Distinct(Append(q, x))
<1> DEFINE r == Append(q, x)
<1>1. /\ DOMAIN q = 1 .. Len(q) /\ DOMAIN r = 1 .. Len(q) + 1 /\ Len(q) \in Nat
      /\ r[Len(q) + 1] = x
      /\ \A i \in 1 .. Len(q) : r[i] = q[i]
  OBVIOUS
<1> HIDE DEF r
<1>2. Elements(r) \subseteq Elements(q) \cup {x}
  <2> SUFFICES ASSUME NEW i \in DOMAIN r PROVE r[i] \in Elements(q) \cup {x}
    BY DEF Elements
  <2>1. i \in 1 .. Len(q) \/ i = Len(q) + 1
    BY <1>1
  <2> QED BY <1>1, <2>1 DEF Elements
<1>3. \A i \in 1 .. Len(q) : q[i] \in Elements(r)
  <2> TAKE i \in 1 .. Len(q)
  <2>1. i \in DOMAIN r
    BY <1>1
  <2> QED BY <1>1, <2>1 DEF Elements
<1>4. x \in Elements(r)
  <2>1. Len(q) + 1 \in DOMAIN r
    BY <1>1
  <2> QED BY <1>1, <2>1 DEF Elements
<1>5. Elements(q) \cup {x} \subseteq Elements(r)
  BY <1>1, <1>3, <1>4 DEF Elements
<1>6. ASSUME Distinct(q), x \notin Elements(q) PROVE Distinct(r)
  <2> SUFFICES ASSUME NEW i \in DOMAIN r, NEW j \in DOMAIN r, r[i] = r[j] PROVE i = j
    BY DEF Distinct
  <2>1. \A k \in DOMAIN q : q[k] # x
    BY <1>6 DEF Elements
  <2> QED BY <1>1, <1>6, <2>1 DEF Distinct
<1> QED BY <1>2, <1>5, <1>6 DEF r

LEMMA TailElements ==
  ASSUME NEW S, NEW q \in Seq(S), q # <<>>
  PROVE  /\ Head(q) \in S
         /\ Elements(q) = {Head(q)} \cup Elements(Tail(q))
         /\ Distinct(q) => Distinct(Tail(q)) /\ Head(q) \notin Elements(Tail(q))
<1> DEFINE r == Tail(q)
<1>1. /\ DOMAIN q = 1 .. Len(q) /\ DOMAIN r = 1 .. Len(q) - 1 /\ Len(q) \in Nat \ {0}
      /\ Head(q) = q[1] /\ Head(q) \in S
      /\ \A i \in 1 .. Len(q) - 1 : r[i] = q[i + 1]
  OBVIOUS
<1> HIDE DEF r
<1>2. \A i \in 1 .. Len(q) : i = 1 \/ (i - 1 \in DOMAIN r /\ q[i] = r[i - 1])
  BY <1>1
<1>3. Elements(q) \subseteq {Head(q)} \cup Elements(r)
  BY <1>1, <1>2 DEF Elements
<1>4. \A i \in DOMAIN r : i + 1 \in DOMAIN q /\ r[i] = q[i + 1]
  BY <1>1
<1>5. {Head(q)} \cup Elements(r) \subseteq Elements(q)
  BY <1>1, <1>4 DEF Elements
<1>6. ASSUME Distinct(q) PROVE Distinct(r) /\ Head(q) \notin Elements(r)
  <2>1. Distinct(r)
    BY <1>1, <1>4, <1>6 DEF Distinct
  <2>2. \A i \in DOMAIN r : r[i] # q[1]
    BY <1>1, <1>4, <1>6 DEF Distinct
  <2> QED BY <1>1, <2>1, <2>2 DEF Elements
<1> QED BY <1>1, <1>3, <1>5, <1>6 DEF r

LEMMA EmptyElements == Elements(<<>>) = {} /\ Distinct(<<>>)
BY DEF Elements, Distinct

\* A step of the lock: no object that has work scheduled is closed.
LEMMA LockKeepsWork ==
  ASSUME TypeOK, WorkInv, UNCHANGED workVars, NEW d \in DB,
         \A e \in DB \ {d} : pc'[e] = pc[e], pc[d] # "open" \/ ~scheduled[d]
  PROVE  WorkInv'
<1>1. ScheduledIsOpen'
  BY DEF WorkInv, ScheduledIsOpen, workVars
<1>2. WorkIsScheduled' /\ QueuedOnce' /\ WorkIsNotForgotten'
  BY DEF WorkInv, WorkIsScheduled, QueuedOnce, WorkIsNotForgotten, Queued, workVars
<1> QED BY <1>1, <1>2 DEF WorkInv

LEMMA WorkStep ==
  ASSUME TypeOK, WorkInv, [Next]_vars
  PROVE  WorkInv'
<1>1. ASSUME NEW d \in DB,
             \/ OpenFile(d) \/ NameTaken(d) \/ InsertName(d) \/ Lock(d) \/ LockTaken(d)
             \/ Unlock(d) \/ ForgetName(d) \/ CloseFile(d)
      PROVE  WorkInv'
  <2>1. UNCHANGED workVars
    BY <1>1 DEF OpenFile, NameTaken, InsertName, Lock, LockTaken, Unlock, ForgetName, CloseFile
  <2>2. \A e \in DB \ {d} : pc'[e] = pc[e]
    BY <1>1 DEF OpenFile, NameTaken, InsertName, Lock, LockTaken, Unlock, ForgetName, CloseFile,
       Goes, TypeOK
  <2>3. pc[d] # "open" \/ ~scheduled[d]
    BY <1>1 DEF OpenFile, NameTaken, InsertName, Lock, LockTaken, Unlock, ForgetName, CloseFile,
       Goes
  <2> QED BY <1>1, <2>1, <2>2, <2>3, LockKeepsWork
<1>2. ASSUME NEW d \in DB, Schedule(d)
      PROVE  WorkInv'
  <2> DEFINE p == ProcessOf[d]
  <2>1. /\ p \in Process /\ queue[p] \in Seq(DB)
        /\ queue' = [queue EXCEPT ![p] = Append(queue[p], d)]
        /\ scheduled' = [scheduled EXCEPT ![d] = TRUE]
        /\ thread' = [thread EXCEPT ![p] = Woken(p)]
        /\ pc' = pc /\ pc[d] = "open" /\ ~scheduled[d]
    BY <1>2, DirType DEF Schedule, Put, lockVars, TypeOK
  <2>2. Woken(p) \notin {"none", "waiting"} /\ (thread[p] \in DB => Woken(p) = thread[p])
    BY <2>1, EnvConstants DEF Woken, TypeOK, WorkInv, WorkIsNotForgotten
  <2>3. Woken(p) # d /\ (Woken(p) \in DB => Woken(p) = thread[p])
    BY <2>1, EnvConstants DEF Woken, TypeOK, WorkInv, WorkIsScheduled
  <2>4. d \notin Queued(p)
    BY <2>1 DEF WorkInv, WorkIsScheduled
  <2>5. /\ Elements(Append(queue[p], d)) = Queued(p) \cup {d}
        /\ Distinct(Append(queue[p], d))
    BY <2>1, <2>4, AppendElements DEF Queued, WorkInv, QueuedOnce
  <2>6. \A r \in Process : Queued(r)' = IF r = p THEN Queued(p) \cup {d} ELSE Queued(r)
    BY <2>1, <2>5 DEF Queued, TypeOK
  <2> HIDE DEF p
  <2>7. ScheduledIsOpen'
    BY <2>1 DEF TypeOK, WorkInv, ScheduledIsOpen
  <2>8. WorkIsScheduled'
    BY <2>1, <2>3, <2>6 DEF TypeOK, WorkInv, WorkIsScheduled, p
  <2>9. QueuedOnce'
    <3>1. Woken(p) \notin Queued(p) \cup {d}
      BY <2>1, <2>3, EnvConstants DEF WorkInv, QueuedOnce, Queued, Elements, TypeOK
    <3> QED BY <2>1, <2>5, <2>6, <3>1 DEF TypeOK, WorkInv, QueuedOnce
  <2>10. WorkIsNotForgotten'
    <3>1. \A e \in DB :
           scheduled'[e] => e \in Queued(ProcessOf[e])' \/ thread'[ProcessOf[e]] = e
      BY <2>1, <2>2, <2>6, DirType DEF TypeOK, WorkInv, WorkIsNotForgotten, p
    <3>2. \A r \in Process : thread'[r] \in {"none", "waiting"} => queue'[r] = <<>>
      BY <2>1, <2>2 DEF TypeOK, WorkInv, WorkIsNotForgotten
    <3> QED BY <3>1, <3>2 DEF WorkIsNotForgotten
  <2> QED BY <2>7, <2>8, <2>9, <2>10 DEF WorkInv
<1>3. ASSUME NEW p \in Process, Wait(p) \/ WakeAnyway(p)
      PROVE  WorkInv'
  <2>1. UNCHANGED <<pc, scheduled, queue>>
    BY <1>3 DEF Wait, WakeAnyway, lockVars
  <2>2. /\ thread' \in [Process -> DB \cup {"none", "awake", "waiting"}]
        /\ thread[p] \notin DB /\ thread'[p] \notin DB
        /\ \A r \in Process \ {p} : thread'[r] = thread[r]
        /\ thread'[p] \in {"none", "waiting"} => queue[p] = <<>>
    BY <1>3, EnvConstants DEF Wait, WakeAnyway, TypeOK
  <2>3. ScheduledIsOpen' /\ WorkIsScheduled'
    BY <2>1, <2>2 DEF WorkInv, ScheduledIsOpen, WorkIsScheduled, Queued
  <2>4. QueuedOnce'
    <3>1. Queued(p) \subseteq DB
      BY <1>3 DEF Queued, Elements, TypeOK
    <3> QED BY <2>1, <2>2, <3>1 DEF WorkInv, QueuedOnce, Queued
  <2>5. WorkIsNotForgotten'
    BY <2>1, <2>2, DirType DEF WorkInv, WorkIsNotForgotten, Queued
  <2> QED BY <2>3, <2>4, <2>5 DEF WorkInv
<1>4. ASSUME NEW p \in Process, Run(p)
      PROVE  WorkInv'
  <2> DEFINE d == Head(queue[p])
  <2>1. /\ UNCHANGED <<pc, scheduled>> /\ thread[p] = "awake" /\ queue[p] # <<>>
        /\ thread' = [thread EXCEPT ![p] = d] /\ queue' = [queue EXCEPT ![p] = Tail(queue[p])]
    BY <1>4 DEF Run, lockVars
  <2>2. /\ d \in DB /\ Queued(p) = {d} \cup Elements(Tail(queue[p]))
        /\ d \notin Elements(Tail(queue[p])) /\ Distinct(Tail(queue[p]))
    BY <1>4, <2>1, TailElements DEF Queued, TypeOK, WorkInv, QueuedOnce
  <2>3. \A r \in Process : Queued(r)' = IF r = p THEN Elements(Tail(queue[p])) ELSE Queued(r)
    BY <2>1 DEF Queued, TypeOK
  <2> HIDE DEF d
  <2>4. ScheduledIsOpen'
    BY <2>1 DEF WorkInv, ScheduledIsOpen
  <2>5. WorkIsScheduled'
    BY <2>1, <2>2, <2>3 DEF TypeOK, WorkInv, WorkIsScheduled
  <2>6. QueuedOnce'
    BY <2>1, <2>2, <2>3 DEF TypeOK, WorkInv, QueuedOnce
  <2>7. WorkIsNotForgotten'
    <3>1. \A e \in DB :
           scheduled'[e] => e \in Queued(ProcessOf[e])' \/ thread'[ProcessOf[e]] = e
      BY <2>1, <2>2, <2>3, DirType, EnvConstants DEF TypeOK, WorkInv, WorkIsNotForgotten
    <3>2. \A r \in Process : thread'[r] \in {"none", "waiting"} => queue'[r] = <<>>
      BY <2>1, <2>2, EnvConstants DEF TypeOK, WorkInv, WorkIsNotForgotten
    <3> QED BY <3>1, <3>2 DEF WorkIsNotForgotten
  <2> QED BY <2>4, <2>5, <2>6, <2>7 DEF WorkInv
<1>5. ASSUME NEW p \in Process, Return(p)
      PROVE  WorkInv'
  <2>1. PICK d \in DB, more \in BOOLEAN :
          /\ thread[p] = d /\ scheduled' = [scheduled EXCEPT ![d] = more]
          /\ queue' = IF more THEN [queue EXCEPT ![p] = Append(@, d)] ELSE queue
          /\ thread' = [thread EXCEPT ![p] = "awake"] /\ pc' = pc
    BY <1>5 DEF Return, lockVars
  <2>2. scheduled[d] /\ ProcessOf[d] = p /\ d \notin Queued(p) /\ queue[p] \in Seq(DB)
    BY <1>5, <2>1 DEF TypeOK, WorkInv, WorkIsScheduled, QueuedOnce
  <2>3. /\ Elements(Append(queue[p], d)) = Queued(p) \cup {d}
        /\ Distinct(Append(queue[p], d))
    BY <1>5, <2>1, <2>2, AppendElements DEF Queued, WorkInv, QueuedOnce
  <2>4. \A r \in Process :
         /\ Queued(r)' = IF more /\ r = p THEN Queued(p) \cup {d} ELSE Queued(r)
         /\ Distinct(queue[r])'
    BY <2>1, <2>3 DEF Queued, TypeOK, WorkInv, QueuedOnce
  <2>5. \A e \in DB : scheduled'[e] = IF e = d THEN more ELSE scheduled[e]
    BY <2>1 DEF TypeOK
  <2>6. ScheduledIsOpen'
    BY <2>1, <2>2, <2>5 DEF WorkInv, ScheduledIsOpen
  <2>7. WorkIsScheduled'
    <3>1. \A r \in Process : d \in Queued(r) => r = p
      BY <2>2 DEF WorkInv, WorkIsScheduled
    <3>2. \A r \in Process, e \in DB : thread'[r] = e => r # p /\ thread[r] = e
      BY <1>5, <2>1, EnvConstants DEF TypeOK
    <3>3. \A r \in Process : r # p => thread[r] # d
      BY <2>2 DEF WorkInv, WorkIsScheduled
    <3> SUFFICES ASSUME NEW r \in Process, NEW e \in DB, e \in Queued(r)' \/ thread'[r] = e
                 PROVE  scheduled'[e] /\ ProcessOf[e] = r
      BY DEF WorkIsScheduled
    <3>4. CASE e = d
      BY <2>2, <2>4, <2>5, <3>1, <3>2, <3>3, <3>4
    <3>5. CASE e # d
      BY <2>4, <2>5, <3>2, <3>5 DEF WorkInv, WorkIsScheduled
    <3> QED BY <3>4, <3>5
  <2>8. QueuedOnce'
    <3>1. \A r \in Process : Queued(r) \subseteq DB
      BY DEF Queued, Elements, TypeOK
    <3>2. ASSUME NEW r \in Process PROVE thread'[r] \notin Queued(r)'
      <4>1. CASE r = p
        BY <1>5, <2>1, <2>4, <3>1, <4>1, EnvConstants DEF TypeOK
      <4>2. CASE r # p
        BY <2>1, <2>4, <4>2 DEF TypeOK, WorkInv, QueuedOnce
      <4> QED BY <4>1, <4>2
    <3> QED BY <2>4, <3>2 DEF QueuedOnce
  <2>9. WorkIsNotForgotten'
    <3>1. ASSUME NEW e \in DB, scheduled'[e]
          PROVE  e \in Queued(ProcessOf[e])' \/ thread'[ProcessOf[e]] = e
      BY <2>1, <2>2, <2>4, <2>5, <3>1, DirType DEF TypeOK, WorkInv, WorkIsNotForgotten
    <3>2. ASSUME NEW r \in Process, thread'[r] \in {"none", "waiting"}
          PROVE  queue'[r] = <<>>
      BY <1>5, <2>1, <3>2 DEF TypeOK, WorkInv, WorkIsNotForgotten
    <3> QED BY <3>1, <3>2 DEF WorkIsNotForgotten
  <2> QED BY <2>6, <2>7, <2>8, <2>9 DEF WorkInv
<1>6. ASSUME NEW p \in Process, Kill(p)
      PROVE  WorkInv'
  <2>1. /\ queue'[p] = <<>> /\ thread'[p] = "none"
        /\ \A r \in Process \ {p} : queue'[r] = queue[r] /\ thread'[r] = thread[r]
    BY <1>6 DEF Kill, TypeOK
  <2>2. \A d \in DB :
         IF ProcessOf[d] = p THEN ~scheduled'[d]
         ELSE scheduled'[d] = scheduled[d] /\ pc'[d] = pc[d]
    BY <1>6 DEF Kill
  <2>3. Queued(p)' = {} /\ Distinct(queue[p])' /\ \A r \in Process \ {p} : Queued(r)' = Queued(r)
    BY <2>1, EmptyElements DEF Queued
  <2>4. ScheduledIsOpen'
    BY <2>2 DEF WorkInv, ScheduledIsOpen
  <2>5. WorkIsScheduled'
    BY <2>1, <2>2, <2>3, EnvConstants DEF WorkInv, WorkIsScheduled
  <2>6. QueuedOnce'
    BY <2>1, <2>3 DEF WorkInv, QueuedOnce
  <2>7. WorkIsNotForgotten'
    BY <2>1, <2>2, <2>3, DirType DEF WorkInv, WorkIsNotForgotten
  <2> QED BY <2>4, <2>5, <2>6, <2>7 DEF WorkInv
<1>7. CASE UNCHANGED vars
  BY <1>7 DEF vars, WorkInv, ScheduledIsOpen, WorkIsScheduled, QueuedOnce, WorkIsNotForgotten, Queued
<1> QED BY <1>1, <1>2, <1>3, <1>4, <1>5, <1>6, <1>7 DEF Next, BGThread

\* The one thread of a process never works for a database that is closed or of
\* another process, and no work scheduled while a database is open is forgotten
\* or slept over: the safety half of WorkIsRun.
THEOREM WorkIsSafe == Spec => [](WorksForOpen /\ WorkIsNotForgotten)
<1>1. Init => WorkInv
  BY EmptyElements, EnvConstants
     DEF Init, WorkInv, ScheduledIsOpen, WorkIsScheduled, QueuedOnce, WorkIsNotForgotten, Queued
<1>2. TypeOK /\ WorkInv /\ [Next]_vars => WorkInv'
  BY WorkStep
<1>3. OpenOnce => TypeOK
  BY DEF OpenOnce
<1>4. WorkInv => WorksForOpen /\ WorkIsNotForgotten
  BY DEF WorkInv, WorksForOpen, ScheduledIsOpen, WorkIsScheduled
<1> QED BY <1>1, <1>2, <1>3, <1>4, OpenedOnce, PTL DEF Spec
=============================================================================
