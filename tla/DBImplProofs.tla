---------------------------- MODULE DBImplProofs ----------------------------
(***************************************************************************)
(* Proofs about DBImpl.tla, for any number of threads and keys and without *)
(* bounds on the calls and the faults: the files in use exist.             *)
(***************************************************************************)
EXTENDS DBImpl, FiniteSetTheorems, SequenceTheorems, TLAPS

(***************************************************************************)
(* Directories                                                             *)
(***************************************************************************)

LEMMA WithIs ==
  ASSUME NEW f, NEW x, NEW y
  PROVE  /\ DOMAIN With(f, x, y) = DOMAIN f \cup {x}
         /\ With(f, x, y)[x] = y
         /\ \A z \in DOMAIN f : z # x => With(f, x, y)[z] = f[z]
  BY DEF With

LEMMA RestrictedIs ==
  ASSUME NEW f, NEW S
  PROVE  /\ DOMAIN Restricted(f, S) = DOMAIN f \cap S
         /\ \A z \in DOMAIN f \cap S : Restricted(f, S)[z] = f[z]
  BY DEF Restricted

LEMMA DirectoryWith ==
  ASSUME NEW f, NEW S, IsDirectory(f, S), NEW x \in Nat, NEW y \in S
  PROVE  IsDirectory(With(f, x, y), S)
  BY DEF IsDirectory, With

LEMMA DirectoryRestricted ==
  ASSUME NEW f, NEW S, IsDirectory(f, S), NEW T
  PROVE  IsDirectory(Restricted(f, T), S)
  BY DEF IsDirectory, Restricted

LEMMA DirectoryExcept ==
  ASSUME NEW f, NEW S, IsDirectory(f, S), NEW x, NEW g,
         DOMAIN g = DOMAIN f, x \in DOMAIN f => g[x] \in S,
         \A z \in DOMAIN f : z # x => g[z] = f[z]
  PROVE  IsDirectory(g, S)
  BY DEF IsDirectory

(***************************************************************************)
(* Types                                                                   *)
(***************************************************************************)

\* The types alone.
Typed == DiskOK /\ OpenOK /\ ClientsOK /\ BackgroundOK /\ PromisesOK

LEMMA EmptyVersionTyped == EmptyVersion \in Version /\ NoEdit \in Edit
  BY DEF EmptyVersion, Version, NoEdit, Edit

LEMMA IdleTyped ==
  /\ IdleWriter \in WriterState
  /\ IdleGroup \in [size : Nat, entries : SUBSET Entry, last : Nat]
  /\ NoReader \in [on : BOOLEAN, snap : Nat, seen : SUBSET Entry, files : SUBSET Nat]
  /\ NoVersions \in [files : SUBSET File, log : Nat, next : Nat, last : Nat,
                     manifest : Nat]
  /\ NoRecovery \in [logs : SUBSET Nat, pos : Nat, mem : SUBSET Entry,
                     add : SUBSET File, max : Nat]
<1>1. IdleWriter \in WriterState  BY DEF IdleWriter, WriterState
<1>2. IdleGroup \in [size : Nat, entries : SUBSET Entry, last : Nat]  BY DEF IdleGroup
<1>3. NoReader \in [on : BOOLEAN, snap : Nat, seen : SUBSET Entry, files : SUBSET Nat]
  BY DEF NoReader
<1>4. NoVersions \in [files : SUBSET File, log : Nat, next : Nat, last : Nat,
                      manifest : Nat]
  BY DEF NoVersions
<1>5. NoRecovery \in [logs : SUBSET Nat, pos : Nat, mem : SUBSET Entry,
                      add : SUBSET File, max : Nat]
  BY DEF NoRecovery
<1>. QED  BY <1>1, <1>2, <1>3, <1>4, <1>5, Zenon

BgState ==
  [pc : {"idle", "build", "merge", "write", "append", "sync"},
   back : {"idle", "merge", "write"}, num : Nat, out : Nat, edit : Edit,
   inputs : SUBSET File, smallest : Nat]

LEMMA IdleBgTyped == IdleBg \in BgState
  BY EmptyVersionTyped DEF IdleBg, BgState

LEMMA LastStateTyped ==
  ASSUME NEW m \in Descriptor
  PROVE  LastState(m) \in Version
  BY EmptyVersionTyped DEF LastState, Descriptor

LEMMA ApplyEditTyped ==
  ASSUME NEW v \in Version, NEW e \in Edit
  PROVE  /\ ApplyEdit(v, e) \in Version
         /\ ApplyEdit(v, e).files = (v.files \ e.del) \cup e.add
         /\ ApplyEdit(v, e).log = e.log
         /\ ApplyEdit(v, e).next = e.next
         /\ ApplyEdit(v, e).last = e.last
  BY DEF ApplyEdit, Version, Edit

LEMMA ReadableTyped ==
  ASSUME NEW recs \in Seq(Record)
  PROVE  Readable(recs) \subseteq Entry
<1>1. \A i \in DOMAIN recs : recs[i] \in Record  OBVIOUS
<1>2. \A r \in Record : r.entries \in SUBSET Entry  BY DEF Record
<1>. QED  BY <1>1, <1>2 DEF Readable

LEMMA EntriesTyped ==
  ASSUME DiskOK, NEW nums
  PROVE  EntriesOf(nums) \subseteq Entry
  BY DEF DiskOK, EntriesOf, IsDirectory, TableFile

LEMMA AtMostOne ==
  ASSUME NEW S, NEW q \in Seq(S), Len(q) <= 1
  PROVE  \/ q = <<>> /\ Range(q) = {}
         \/ Len(q) = 1 /\ q[1] \in S /\ Range(q) = {q[1]}
<1>1. Len(q) \in Nat /\ DOMAIN q = 1..Len(q) /\ (q = <<>> <=> Len(q) = 0)
  BY EmptySeq, LenProperties
<1>2. CASE Len(q) = 0  BY <1>1, <1>2 DEF Range
<1>3. CASE Len(q) = 1
  <2>1. q[1] \in S  BY <1>3, ElementOfSeq
  <2>2. DOMAIN q = {1}  BY <1>1, <1>3
  <2>. QED  BY <1>3, <2>1, <2>2 DEF Range
<1>. QED  BY <1>1, <1>2, <1>3

LEMMA ImmTyped ==
  ASSUME OpenOK
  PROVE  /\ ImmEntries \subseteq Entry
         /\ imm # <<>> => imm[1] \subseteq Entry /\ ImmEntries = imm[1]
         /\ imm = <<>> => ImmEntries = {}
<1>1. imm \in Seq(SUBSET Entry) /\ Len(imm) <= 1  BY DEF OpenOK
<1>2. \/ imm = <<>> /\ Range(imm) = {}
      \/ Len(imm) = 1 /\ imm[1] \in SUBSET Entry /\ Range(imm) = {imm[1]}
  BY <1>1, AtMostOne, Zenon
<1>3. CASE imm = <<>> /\ Range(imm) = {}  BY <1>3 DEF ImmEntries
<1>4. CASE Len(imm) = 1 /\ imm[1] \in SUBSET Entry /\ Range(imm) = {imm[1]}
  <2>1. imm # <<>>  BY <1>4
  <2>2. ImmEntries = imm[1]  BY <1>4 DEF ImmEntries
  <2>. QED  BY <1>4, <2>1, <2>2
<1>. QED  BY <1>2, <1>3, <1>4

LEMMA NumbersTyped ==
  ASSUME NEW F \in SUBSET File
  PROVE  Numbers(F) \subseteq Nat
  BY DEF Numbers, File
(***************************************************************************)
(* The queue of the writers                                                *)
(***************************************************************************)

\* A writer that is in the queue is there once; only the first one has left
\* the wait on its condition variable, or will.
QueueShape(q, w) ==
  /\ q \in Seq(Writer)
  /\ w \in [Writer -> WriterState]
  /\ \A i, j \in 1..Len(q) : q[i] = q[j] => i = j
  /\ \A t \in Writer : w[t].pc \in InQueue <=> \E i \in 1..Len(q) : q[i] = t
  /\ \A i \in 2..Len(q) : w[q[i]].pc = "queued"

InProgress == {"log", "sync", "insert", "failed", "unsynced"}

LEMMA WriterIs ==
  ASSUME NEW w \in [Writer -> WriterState], NEW t \in Writer
  PROVE  /\ w[t] \in WriterState
         /\ w[t].pc \in InQueue \cup {"idle", "check", "sleep"}
         /\ w[t].key \in Key \cup {NoKey}
         /\ w[t].sync \in BOOLEAN
  BY DEF WriterState

\* Everyone but the first writer that has work to do is not in the queue.
LEMMA FirstInProgress ==
  ASSUME NEW q, NEW w, QueueShape(q, w), NEW t \in Writer,
         w[t].pc \in InQueue, w[t].pc # "queued"
  PROVE  Len(q) >= 1 /\ t = q[1]
<1>1. PICK i \in 1..Len(q) : q[i] = t  BY DEF QueueShape
<1>2. Len(q) \in Nat  BY LenProperties DEF QueueShape
<1>3. i \in 2..Len(q) => FALSE  BY <1>1 DEF QueueShape
<1>. QED  BY <1>1, <1>2, <1>3

LEMMA WriterMoves ==
  ASSUME NEW q, NEW w, QueueShape(q, w), NEW t \in Writer, NEW x \in WriterState,
         w[t].pc \in InQueue <=> x.pc \in InQueue,
         w[t].pc = "queued" => x.pc = "queued"
  PROVE  QueueShape(q, [w EXCEPT ![t] = x])
<1>. DEFINE v == [w EXCEPT ![t] = x]
<1>1. w \in [Writer -> WriterState] /\ q \in Seq(Writer)  BY DEF QueueShape
<1>2. v \in [Writer -> WriterState] /\ v[t] = x /\ \A u \in Writer : u # t => v[u] = w[u]
  BY <1>1
<1>. HIDE DEF v
<1>3. ASSUME NEW u \in Writer
      PROVE  v[u].pc \in InQueue <=> \E i \in 1..Len(q) : q[i] = u
  <2>1. w[u].pc \in InQueue <=> \E i \in 1..Len(q) : q[i] = u  BY DEF QueueShape
  <2>. QED  BY <1>2, <2>1
<1>4. ASSUME NEW i \in 2..Len(q)  PROVE v[q[i]].pc = "queued"
  <2>1. w[q[i]].pc = "queued"  BY DEF QueueShape
  <2>2. Len(q) \in Nat  BY <1>1, LenProperties
  <2>3. i \in 1..Len(q)  BY <2>2
  <2>4. q[i] \in Writer  BY <1>1, <2>3, ElementOfSeq
  <2>5. CASE q[i] = t  BY <1>2, <2>1, <2>5
  <2>6. CASE q[i] # t  BY <1>2, <2>1, <2>4, <2>6
  <2>. QED  BY <2>5, <2>6
<1>5. \A i, j \in 1..Len(q) : q[i] = q[j] => i = j  BY DEF QueueShape
<1>6. QueueShape(q, v)  BY ONLY <1>1, <1>2, <1>3, <1>4, <1>5 DEF QueueShape
<1>. QED  BY <1>6 DEF v

LEMMA SignalAllKeeps ==
  ASSUME NEW q, NEW w, QueueShape(q, w)
  PROVE  QueueShape(q, SignalAll(w))
<1>1. w \in [Writer -> WriterState] /\ q \in Seq(Writer)  BY DEF QueueShape
<1>2. ASSUME NEW u \in Writer
      PROVE  /\ SignalAll(w)[u] \in WriterState
             /\ SignalAll(w)[u].pc \in InQueue <=> w[u].pc \in InQueue
             /\ w[u].pc = "queued" => SignalAll(w)[u].pc = "queued"
  <2>0. w[u] \in WriterState  BY <1>1
  <2>1. CASE w[u].pc = "wait"
    <3>1. SignalAll(w)[u] = [w[u] EXCEPT !.pc = "front"]  BY <2>1 DEF SignalAll
    <3>. QED  BY <2>0, <2>1, <3>1 DEF WriterState, InQueue
  <2>2. CASE w[u].pc = "sleep"
    <3>1. SignalAll(w)[u] = [w[u] EXCEPT !.pc = "check"]  BY <2>2 DEF SignalAll
    <3>. QED  BY <2>0, <2>2, <3>1 DEF WriterState, InQueue
  <2>3. CASE w[u].pc # "wait" /\ w[u].pc # "sleep"
    <3>1. SignalAll(w)[u] = w[u]  BY <2>3 DEF SignalAll
    <3>. QED  BY <2>0, <3>1
  <2>. QED  BY <2>1, <2>2, <2>3
<1>3. SignalAll(w) \in [Writer -> WriterState]
  <2>1. DOMAIN SignalAll(w) = Writer /\ SignalAll(w) = [u \in Writer |-> SignalAll(w)[u]]
    BY DEF SignalAll
  <2>. QED  BY <1>2, <2>1
<1>4. ASSUME NEW u \in Writer
      PROVE  SignalAll(w)[u].pc \in InQueue <=> \E i \in 1..Len(q) : q[i] = u
  BY <1>2 DEF QueueShape
<1>5. ASSUME NEW i \in 2..Len(q)  PROVE SignalAll(w)[q[i]].pc = "queued"
  <2>1. w[q[i]].pc = "queued"  BY DEF QueueShape
  <2>2. Len(q) \in Nat  BY <1>1, LenProperties
  <2>3. i \in 1..Len(q)  BY <2>2
  <2>4. q[i] \in Writer  BY <1>1, <2>3, ElementOfSeq
  <2>. QED  BY <1>2, <2>1, <2>4
<1>6. \A i, j \in 1..Len(q) : q[i] = q[j] => i = j  BY DEF QueueShape
<1>. QED  BY ONLY <1>1, <1>3, <1>4, <1>5, <1>6 DEF QueueShape

LEMMA NewWriter ==
  ASSUME NEW q, NEW w, QueueShape(q, w), NEW t \in Writer, NEW x \in WriterState,
         w[t].pc \notin InQueue,
         x.pc = IF q = <<>> THEN "front" ELSE "queued"
  PROVE  QueueShape(Append(q, t), [w EXCEPT ![t] = x])
<1>. DEFINE v == [w EXCEPT ![t] = x]
            p == Append(q, t)
<1>1. w \in [Writer -> WriterState] /\ q \in Seq(Writer)  BY DEF QueueShape
<1>2. v \in [Writer -> WriterState] /\ v[t] = x /\ \A u \in Writer : u # t => v[u] = w[u]
  BY <1>1
<1>3. /\ p \in Seq(Writer) /\ Len(q) \in Nat /\ Len(p) = Len(q) + 1
      /\ \A i \in 1..Len(q) : p[i] = q[i] /\ q[i] \in Writer
      /\ p[Len(q) + 1] = t
  BY <1>1, AppendProperties, LenProperties, ElementOfSeq
<1>. HIDE DEF v, p
<1>4. \A i \in 1..Len(q) : q[i] # t  BY DEF QueueShape
<1>5. ASSUME NEW i \in 1..Len(p), NEW j \in 1..Len(p), p[i] = p[j]  PROVE i = j
  <2>1. \A a, b \in 1..Len(q) : q[a] = q[b] => a = b  BY DEF QueueShape
  <2>. QED  BY <1>3, <1>4, <1>5, <2>1
<1>6. ASSUME NEW u \in Writer
      PROVE  v[u].pc \in InQueue <=> \E i \in 1..Len(p) : p[i] = u
  <2>1. CASE u = t
    <3>1. v[u].pc \in InQueue  BY <1>2, <2>1 DEF InQueue
    <3>2. \E i \in 1..Len(p) : p[i] = u  BY <1>3, <2>1
    <3>. QED  BY <3>1, <3>2
  <2>2. CASE u # t
    <3>1. w[u].pc \in InQueue <=> \E i \in 1..Len(q) : q[i] = u  BY DEF QueueShape
    <3>2. (\E i \in 1..Len(q) : q[i] = u) <=> (\E i \in 1..Len(p) : p[i] = u)
      BY <1>3, <2>2
    <3>. QED  BY <1>2, <2>2, <3>1, <3>2
  <2>. QED  BY <2>1, <2>2
<1>7. ASSUME NEW i \in 2..Len(p)  PROVE v[p[i]].pc = "queued"
  <2>1. CASE i \in 2..Len(q)
    <3>1. w[q[i]].pc = "queued"  BY <2>1 DEF QueueShape
    <3>2. i \in 1..Len(q)  BY <1>3, <2>1
    <3>. QED  BY <1>2, <1>3, <1>4, <3>1, <3>2
  <2>2. CASE i = Len(q) + 1
    <3>1. q # <<>>  BY <1>3, <2>2, EmptySeq
    <3>. QED  BY <1>2, <1>3, <2>2, <3>1
  <2>. QED  BY <1>3, <2>1, <2>2
<1>8. QueueShape(p, v)  BY ONLY <1>1, <1>2, <1>3, <1>5, <1>6, <1>7 DEF QueueShape
<1>. QED  BY <1>8 DEF v, p

\* The first n writers leave the queue and the next one wakes.
LEMMA AnswerKeeps ==
  ASSUME NEW w, QueueShape(queue, w), NEW n \in 1..Len(queue), NEW ok,
         Answer(w, n, ok)
  PROVE  /\ QueueShape(queue', writer')
         /\ \A t \in Writer : writer'[t].pc \notin InProgress
         /\ \A t \in Writer : w[t].pc = "idle" => writer'[t].pc = "idle"
<1>. DEFINE q == queue
            p == SubSeq(q, n + 1, Len(q))
            done == {q[i] : i \in 1..n}
            v == writer'
<1>1. w \in [Writer -> WriterState] /\ q \in Seq(Writer)  BY DEF QueueShape
<1>2. Len(q) \in Nat /\ n \in Nat /\ n <= Len(q)  BY <1>1, LenProperties
<1>3. queue' = p  BY DEF Answer
<1>4. /\ p \in Seq(Writer) /\ Len(p) = Len(q) - n
      /\ \A i \in 1..Len(p) : p[i] = q[n + i]
  <2>1. n + 1 \in 1..Len(q) + 1 /\ Len(q) \in n..Len(q)  BY <1>2
  <2>. QED  BY <1>1, <1>2, <2>1, SubSeqProperties
<1>5. /\ v \in [Writer -> WriterState]
      /\ \A t \in Writer :
           /\ t \in done => v[t].pc \in {"check", "idle"}
           /\ t \notin done /\ Len(q) > n /\ t = q[n + 1] => v[t].pc = "front"
           /\ t \notin done /\ ~(Len(q) > n /\ t = q[n + 1]) => v[t] = w[t]
  <2>. DEFINE f(t) == IF t \in done
                      THEN IF ok /\ w[t].key = NoKey THEN [w[t] EXCEPT !.pc = "check"]
                           ELSE IdleWriter
                      ELSE IF Len(q) > n /\ t = q[n + 1]
                      THEN [w[t] EXCEPT !.pc = "front"]
                      ELSE w[t]
  <2>1. v = [t \in Writer |-> f(t)]  BY DEF Answer
  <2>2. ASSUME NEW t \in Writer
        PROVE  /\ f(t) \in WriterState
               /\ t \in done => f(t).pc \in {"check", "idle"}
               /\ t \notin done /\ Len(q) > n /\ t = q[n + 1] => f(t).pc = "front"
               /\ t \notin done /\ ~(Len(q) > n /\ t = q[n + 1]) => f(t) = w[t]
    <3>0. w[t] \in WriterState  BY <1>1
    <3>1. /\ [w[t] EXCEPT !.pc = "check"] \in WriterState
          /\ [w[t] EXCEPT !.pc = "check"].pc = "check"
          /\ [w[t] EXCEPT !.pc = "front"] \in WriterState
          /\ [w[t] EXCEPT !.pc = "front"].pc = "front"
      BY <3>0 DEF WriterState, InQueue
    <3>2. IdleWriter \in WriterState /\ IdleWriter.pc = "idle"
      BY IdleTyped DEF IdleWriter
    <3>. HIDE DEF done
    <3>. QED  BY <3>0, <3>1, <3>2
  <2>. HIDE DEF f, done
  <2>. QED  BY <2>1, <2>2
<1>6. \A t \in done : \E i \in 1..n : q[i] = t  OBVIOUS
<1>7. \A i \in 1..n : q[i] \in done  OBVIOUS
<1>8. /\ \A i, j \in 1..Len(q) : q[i] = q[j] => i = j
      /\ \A t \in Writer : w[t].pc \in InQueue <=> \E i \in 1..Len(q) : q[i] = t
      /\ \A i \in 2..Len(q) : w[q[i]].pc = "queued"
  BY DEF QueueShape
<1>. HIDE DEF done, p, v, q
<1>9. \A i \in 1..Len(q) : q[i] \in Writer /\ (q[i] \in done <=> i <= n)
  BY <1>1, <1>2, <1>6, <1>7, <1>8, ElementOfSeq
<1>10. ASSUME NEW i \in 1..Len(p), NEW j \in 1..Len(p), p[i] = p[j]  PROVE i = j
  <2>1. n + i \in 1..Len(q) /\ n + j \in 1..Len(q) /\ q[n + i] = q[n + j]
    BY <1>2, <1>4, <1>10
  <2>2. n + i = n + j  BY <1>8, <2>1
  <2>. QED  BY <1>2, <2>2
<1>11. ASSUME NEW t \in Writer
       PROVE  v[t].pc \in InQueue <=> \E i \in 1..Len(p) : p[i] = t
  <2>1. (\E i \in 1..Len(p) : p[i] = t) <=> (\E i \in 1..Len(q) : i > n /\ q[i] = t)
    <3>1. ASSUME NEW i \in 1..Len(p), p[i] = t
          PROVE  n + i \in 1..Len(q) /\ n + i > n /\ q[n + i] = t
      BY <1>2, <1>4, <3>1
    <3>2. ASSUME NEW i \in 1..Len(q), i > n, q[i] = t
          PROVE  i - n \in 1..Len(p) /\ p[i - n] = t
      BY <1>2, <1>4, <3>2
    <3>. QED  BY <3>1, <3>2
  <2>2. CASE t \in done
    <3>1. v[t].pc \notin InQueue  BY <1>5, <2>2 DEF InQueue
    <3>2. ~ \E i \in 1..Len(q) : i > n /\ q[i] = t  BY <1>2, <1>9, <2>2
    <3>. QED  BY <2>1, <3>1, <3>2
  <2>3. CASE t \notin done
    <3>1. w[t].pc \in InQueue <=> \E i \in 1..Len(q) : i > n /\ q[i] = t
      BY <1>2, <1>8, <1>9, <2>3
    <3>2. CASE Len(q) > n /\ t = q[n + 1]
      <4>1. v[t].pc \in InQueue  BY <1>5, <2>3, <3>2 DEF InQueue
      <4>2. n + 1 \in 1..Len(q)  BY <1>2, <3>2
      <4>. QED  BY <1>2, <2>1, <3>2, <4>1, <4>2
    <3>3. CASE ~(Len(q) > n /\ t = q[n + 1])  BY <1>5, <2>1, <2>3, <3>1, <3>3
    <3>. QED  BY <3>2, <3>3
  <2>. QED  BY <2>2, <2>3
<1>12. ASSUME NEW i \in 2..Len(p)  PROVE v[p[i]].pc = "queued"
  <2>1. n + i \in 2..Len(q) /\ p[i] = q[n + i] /\ n + i \in 1..Len(q) /\ ~(n + i <= n)
    BY <1>2, <1>4
  <2>2. p[i] \in Writer /\ p[i] \notin done /\ w[p[i]].pc = "queued"
    BY <1>8, <1>9, <2>1
  <2>3. p[i] # q[n + 1]
    <3>1. n + 1 \in 1..Len(q)  BY <1>2, <2>1
    <3>. QED  BY <1>2, <1>8, <2>1, <3>1
  <2>. QED  BY <1>5, <2>2, <2>3
<1>13. QueueShape(p, v)  BY ONLY <1>4, <1>5, <1>10, <1>11, <1>12 DEF QueueShape
<1>14. ASSUME NEW t \in Writer  PROVE v[t].pc \notin InProgress
  <2>1. CASE t \in done \/ (Len(q) > n /\ t = q[n + 1])
    BY <1>5, <2>1 DEF InProgress
  <2>2. CASE t \notin done /\ ~(Len(q) > n /\ t = q[n + 1])
    <3>1. v[t] = w[t]  BY <1>5, <2>2
    <3>2. SUFFICES ASSUME w[t].pc \in InProgress  PROVE FALSE  BY <3>1
    <3>3. w[t].pc \in InQueue /\ w[t].pc # "queued"  BY <3>2 DEF InProgress, InQueue
    <3>4. t = q[1]  BY <3>3, FirstInProgress DEF q
    <3>. QED  BY <1>2, <1>7, <2>2, <3>4
  <2>. QED  BY <2>1, <2>2
<1>15. ASSUME NEW t \in Writer, w[t].pc = "idle"  PROVE v[t].pc = "idle"
  <2>1. w[t].pc \notin InQueue  BY <1>15 DEF InQueue
  <2>2. \A i \in 1..Len(q) : q[i] # t  BY <1>8, <2>1
  <2>3. t \notin done  BY <1>2, <1>6, <2>2
  <2>4. ~(Len(q) > n /\ t = q[n + 1])  BY <1>2, <2>2
  <2>. QED  BY <1>5, <1>15, <2>3, <2>4
<1>. QED  BY <1>3, <1>13, <1>14, <1>15 DEF v
LEMMA BatchesFinite ==
  ASSUME NEW n \in Nat
  PROVE  IsFiniteSet(Batches(n)) /\ Cardinality(Batches(n)) \in Nat
<1>1. IsFiniteSet(1..n)  BY FS_Interval
<1>2. Batches(n) \subseteq 1..n  BY DEF Batches
<1>3. IsFiniteSet(Batches(n))  BY <1>1, <1>2, FS_Subset
<1>. QED  BY <1>3, FS_CardinalityType

\* There is a group only while the first writer is logging it.
GroupShape(q, w, g) ==
  /\ g \in [size : Nat, entries : SUBSET Entry, last : Nat]
  /\ \A t \in Writer : w[t].pc \in InProgress => g.size \in 1..Len(q)
  /\ (\A t \in Writer : w[t].pc \notin InProgress) => g = IdleGroup

QueueInv ==
  /\ QueueShape(queue, writer)
  /\ GroupShape(queue, writer, group)
  /\ db # "open" => \A t \in Writer : writer[t].pc = "idle"

LEMMA FirstIsFront ==
  ASSUME QueueInv, NEW t \in Writer, AtFront(t)
  PROVE  /\ db = "open"
         /\ 1 \in 1..Len(queue) /\ t = queue[1]
         /\ group = IdleGroup
<1>1. writer[t].pc = "front"  BY DEF AtFront
<1>2. db = "open"  BY <1>1 DEF QueueInv
<1>3. writer[t].pc \in InQueue /\ writer[t].pc # "queued"  BY <1>1 DEF InQueue
<1>4. Len(queue) >= 1 /\ t = queue[1]  BY <1>3, FirstInProgress DEF QueueInv
<1>5. Len(queue) \in Nat  BY LenProperties DEF QueueInv, QueueShape
<1>6. ASSUME NEW u \in Writer, writer[u].pc \in InProgress  PROVE FALSE
  <2>1. writer[u].pc \in InQueue /\ writer[u].pc # "queued"
    BY <1>6 DEF InProgress, InQueue
  <2>2. u = queue[1]  BY <2>1, FirstInProgress DEF QueueInv
  <2>. QED  BY <1>1, <1>4, <1>6, <2>2 DEF InProgress
<1>7. group = IdleGroup  BY <1>6 DEF QueueInv, GroupShape
<1>. QED  BY <1>2, <1>4, <1>5, <1>7

LEMMA Leader ==
  ASSUME QueueInv, NEW t \in Writer, writer[t].pc \in InProgress
  PROVE  /\ db = "open"
         /\ t = queue[1]
         /\ group.size \in 1..Len(queue)
         /\ \A u \in Writer : writer[u].pc \in InProgress => u = t
<1>1. db = "open"  BY DEF QueueInv, InProgress
<1>2. ASSUME NEW u \in Writer, writer[u].pc \in InProgress  PROVE u = queue[1]
  <2>1. writer[u].pc \in InQueue /\ writer[u].pc # "queued"
    BY <1>2 DEF InProgress, InQueue
  <2>. QED  BY <2>1, FirstInProgress DEF QueueInv
<1>3. group.size \in 1..Len(queue)  BY DEF QueueInv, GroupShape
<1>. QED  BY <1>1, <1>2, <1>3

\* A writer that is in the queue does its next step there.
LEMMA LeaderMoves ==
  ASSUME QueueInv, NEW t \in Writer, NEW pc,
         \/ writer[t].pc \in InProgress /\ pc \in InProgress
         \/ writer[t].pc = "front" /\ pc = "wait",
         queue' = queue, group' = group, db' = db,
         writer' = [writer EXCEPT ![t].pc = pc]
  PROVE  QueueInv'
<1>1. writer \in [Writer -> WriterState]  BY DEF QueueInv, QueueShape
<1>2. writer[t] \in WriterState  BY <1>1
<1>. DEFINE x == [writer[t] EXCEPT !.pc = pc]
<1>3. x \in WriterState /\ x.pc = pc  BY <1>2 DEF WriterState, InProgress, InQueue
<1>4. writer' = [writer EXCEPT ![t] = x]  BY <1>1
<1>. HIDE DEF x
<1>5. /\ writer[t].pc \in InQueue <=> x.pc \in InQueue
      /\ writer[t].pc = "queued" => x.pc = "queued"
  BY <1>3 DEF InProgress, InQueue
<1>6. QueueShape(queue, [writer EXCEPT ![t] = x])
  BY <1>3, <1>5, WriterMoves DEF QueueInv
<1>7. \A u \in Writer : u # t => writer'[u] = writer[u]  BY <1>1, <1>4
<1>8. writer'[t] = x  BY <1>1, <1>4
<1>9. \A u \in Writer : writer[u].pc \in InProgress <=> writer'[u].pc \in InProgress
  BY <1>3, <1>7, <1>8 DEF InProgress
<1>10. GroupShape(queue, writer', group)  BY <1>9 DEF GroupShape, QueueInv
<1>11. db = "open"  BY DEF QueueInv, InProgress
<1>. QED  BY <1>4, <1>6, <1>10, <1>11 DEF QueueInv

\* The answers end the group.
LEMMA GroupAnswered ==
  ASSUME NEW w, QueueShape(queue, w), NEW n \in 1..Len(queue), NEW ok,
         Answer(w, n, ok), group' = IdleGroup, db = "open", db' = db
  PROVE  QueueInv'
<1>1. /\ QueueShape(queue', writer')
      /\ \A t \in Writer : writer'[t].pc \notin InProgress
  BY AnswerKeeps, Zenon
<1>2. GroupShape(queue', writer', group')  BY <1>1, IdleTyped DEF GroupShape
<1>. QED  BY <1>1, <1>2 DEF QueueInv

LEMMA GroupStarts ==
  ASSUME QueueInv, NEW t \in Writer, AtFront(t), StartGroup(t), db' = db,
         versions.last \in Nat
  PROVE  QueueInv'
<1>1. /\ db = "open"
      /\ 1 \in 1..Len(queue) /\ t = queue[1]
  BY FirstIsFront
<1>2. PICK n \in GroupSizes :
        group' = [size |-> n, entries |-> GroupEntries(n), last |-> NumberOf(n)]
  BY DEF StartGroup
<1>3. n \in 1..Len(queue)  BY <1>2 DEF GroupSizes
<1>4. writer \in [Writer -> WriterState] /\ queue \in Seq(Writer) /\ Len(queue) \in Nat
  BY LenProperties DEF QueueInv, QueueShape
<1>5. \A i \in 1..n : NumberOf(i) \in Nat  BY BatchesFinite DEF NumberOf
<1>6. GroupEntries(n) \subseteq Entry
  <2>1. ASSUME NEW i \in Batches(n)
        PROVE  [k |-> writer[queue[i]].key, s |-> NumberOf(i)] \in Entry
    <3>1. i \in 1..n /\ writer[queue[i]].key # NoKey  BY DEF Batches
    <3>2. queue[i] \in Writer
      <4>1. i \in 1..Len(queue)  BY <1>3, <1>4, <3>1
      <4>. QED  BY <1>4, <4>1, ElementOfSeq
    <3>3. writer[queue[i]].key \in Key  BY <1>4, <3>1, <3>2, WriterIs
    <3>. QED  BY <1>5, <3>1, <3>3 DEF Entry
  <2>. QED  BY <2>1 DEF GroupEntries
<1>7. group' \in [size : Nat, entries : SUBSET Entry, last : Nat] /\ group'.size = n
  <2>1. NumberOf(n) \in Nat /\ n \in Nat  BY <1>3, <1>4, <1>5
  <2>. QED  BY <1>2, <1>6, <2>1
<1>. DEFINE x == [writer[t] EXCEPT !.pc = "log"]
<1>8. x \in WriterState /\ x.pc = "log"
  <2>1. writer[t] \in WriterState  BY <1>4
  <2>. QED  BY <2>1 DEF WriterState, InQueue
<1>9. writer' = [writer EXCEPT ![t] = x] /\ queue' = queue  BY <1>4 DEF StartGroup
<1>. HIDE DEF x
<1>10. writer[t].pc = "front"  BY DEF AtFront
<1>11. QueueShape(queue, [writer EXCEPT ![t] = x])
  <2>1. /\ writer[t].pc \in InQueue <=> x.pc \in InQueue
        /\ writer[t].pc = "queued" => x.pc = "queued"
    BY <1>8, <1>10 DEF InQueue
  <2>. QED  BY <1>8, <2>1, WriterMoves DEF QueueInv
<1>12. writer'[t].pc \in InProgress  BY <1>4, <1>8, <1>9 DEF InProgress
<1>13. GroupShape(queue, writer', group')
  BY <1>3, <1>7, <1>12 DEF GroupShape
<1>. QED  BY <1>1, <1>9, <1>11, <1>13 DEF QueueInv

LEMMA Woken ==
  ASSUME QueueInv, queue' = queue, group' = group, db' = db,
         writer' = SignalAll(writer)
  PROVE  QueueInv'
<1>1. QueueShape(queue, writer')  BY SignalAllKeeps DEF QueueInv
<1>2. ASSUME NEW u \in Writer
      PROVE  /\ writer'[u].pc \in InProgress <=> writer[u].pc \in InProgress
             /\ writer[u].pc = "idle" => writer'[u].pc = "idle"
  <2>0. writer[u] \in WriterState  BY DEF QueueInv, QueueShape
  <2>1. CASE writer[u].pc = "wait"
    <3>1. writer'[u] = [writer[u] EXCEPT !.pc = "front"]  BY <2>1 DEF SignalAll
    <3>. QED  BY <2>0, <2>1, <3>1 DEF WriterState, InQueue, InProgress
  <2>2. CASE writer[u].pc = "sleep"
    <3>1. writer'[u] = [writer[u] EXCEPT !.pc = "check"]  BY <2>2 DEF SignalAll
    <3>. QED  BY <2>0, <2>2, <3>1 DEF WriterState, InQueue, InProgress
  <2>3. CASE writer[u].pc # "wait" /\ writer[u].pc # "sleep"
    <3>1. writer'[u] = writer[u]  BY <2>3 DEF SignalAll
    <3>. QED  BY <3>1
  <2>. QED  BY <2>1, <2>2, <2>3
<1>3. GroupShape(queue, writer', group)  BY <1>2 DEF GroupShape, QueueInv
<1>. QED  BY <1>1, <1>2, <1>3 DEF QueueInv

LEMMA QueueReset ==
  ASSUME Reset
  PROVE  QueueInv'
<1>1. queue' = <<>> /\ group' = IdleGroup /\ writer' = [t \in Writer |-> IdleWriter]
  BY DEF Reset
<1>2. <<>> \in Seq(Writer) /\ Len(<<>>) = 0  BY EmptySeq
<1>3. \A t \in Writer : writer'[t].pc = "idle"  BY <1>1 DEF IdleWriter
<1>4. writer' \in [Writer -> WriterState]  BY <1>1, IdleTyped
<1>5. QueueShape(queue', writer')
  BY <1>1, <1>2, <1>3, <1>4 DEF QueueShape, InQueue
<1>6. GroupShape(queue', writer', group')  BY <1>1, <1>3, IdleTyped DEF GroupShape, InProgress
<1>. QED  BY <1>3, <1>5, <1>6 DEF QueueInv
\* Steps that leave the writers alone.
LEMMA QueueFrame ==
  ASSUME QueueInv, UNCHANGED <<queue, writer, group>>,
         db' # "open" => db # "open" \/ \A t \in Writer : writer[t].pc = "idle"
  PROVE  QueueInv'
BY DEF QueueInv

LEMMA WriterStepKeepsQueue ==
  ASSUME Typed, QueueInv, NEW t \in Writer, Submit(t) \/ Write(t) \/ WriteFaults(t)
  PROVE  QueueInv'
<1>0. /\ writer \in [Writer -> WriterState] /\ queue \in Seq(Writer)
      /\ QueueShape(queue, writer)
      /\ versions.last \in Nat
  BY DEF QueueInv, QueueShape, Typed, OpenOK
<1>1. CASE Submit(t)
  <2>1. PICK k \in budget.keys \cup {NoKey}, sync \in budget.sync :
          writer' = [writer EXCEPT ![t] =
            [pc |-> IF queue = <<>> THEN "front" ELSE "queued",
             key |-> k, sync |-> sync]]
    BY <1>1 DEF Submit
  <2>. DEFINE x == [pc |-> IF queue = <<>> THEN "front" ELSE "queued",
                    key |-> k, sync |-> sync]
  <2>2. k \in Key \cup {NoKey} /\ sync \in BOOLEAN
    <3>1. budget \in Budget  BY DEF Typed, ClientsOK
    <3>2. budget.keys \subseteq Key /\ budget.sync \subseteq BOOLEAN  BY <3>1 DEF Budget
    <3>. QED  BY <3>2
  <2>3. x \in WriterState /\ x.pc = IF queue = <<>> THEN "front" ELSE "queued"
    BY <2>2 DEF WriterState, InQueue
  <2>4. writer' = [writer EXCEPT ![t] = x] /\ queue' = Append(queue, t) /\ group' = group
        /\ db = "open" /\ db' = db /\ writer[t].pc = "idle"
    BY <1>1, <2>1 DEF Submit
  <2>. HIDE DEF x
  <2>5. writer[t].pc \notin InQueue  BY <2>4 DEF InQueue
  <2>6. QueueShape(queue', writer')  BY <1>0, <2>3, <2>4, <2>5, NewWriter
  <2>7. x.pc \notin InProgress  BY <2>3 DEF InProgress
  <2>8. \A u \in Writer : writer'[u].pc \in InProgress <=> writer[u].pc \in InProgress
    <3>1. writer[t].pc \notin InProgress  BY <2>4 DEF InProgress
    <3>2. writer'[t] = x /\ \A u \in Writer : u # t => writer'[u] = writer[u]
      BY <1>0, <2>4
    <3>. QED  BY <2>7, <3>1, <3>2
  <2>9. Len(queue) \in Nat /\ Len(queue') = Len(queue) + 1
    BY <1>0, <2>4, AppendProperties, LenProperties
  <2>10. GroupShape(queue', writer', group')
    <3>1. GroupShape(queue, writer, group)  BY DEF QueueInv
    <3>2. group.size \in 1..Len(queue) => group.size \in 1..Len(queue')  BY <2>9
    <3>. QED  BY <2>4, <2>8, <3>1, <3>2 DEF GroupShape
  <2>. QED  BY <2>4, <2>6, <2>10 DEF QueueInv
<1>2. CASE Refuse(t) \/ SwitchFails(t)
  <2>1. AtFront(t) /\ Answer(writer, 1, FALSE) /\ group' = group /\ db' = db
    BY <1>2 DEF Refuse, SwitchFails
  <2>2. db = "open" /\ 1 \in 1..Len(queue) /\ group = IdleGroup  BY <2>1, FirstIsFront
  <2>. QED  BY <1>0, <2>1, <2>2, GroupAnswered
<1>3. CASE Room(t)
  <2>1. AtFront(t) /\ StartGroup(t) /\ db' = db  BY <1>3 DEF Room
  <2>. QED  BY <1>0, <2>1, GroupStarts
<1>4. CASE Wait(t)
  <2>1. AtFront(t) /\ writer' = [writer EXCEPT ![t].pc = "wait"]
        /\ queue' = queue /\ group' = group /\ db' = db
    BY <1>4 DEF Wait
  <2>. QED  BY <2>1, LeaderMoves DEF AtFront
<1>5. CASE Switch(t)
  <2>1. AtFront(t) /\ db' = db  BY <1>5 DEF Switch
  <2>2. db = "open" /\ 1 \in 1..Len(queue) /\ group = IdleGroup  BY <2>1, FirstIsFront
  <2>3. CASE writer[t].key = NoKey
    <3>1. Answer(writer, 1, TRUE) /\ group' = group  BY <1>5, <2>3 DEF Switch
    <3>. QED  BY <1>0, <2>1, <2>2, <3>1, GroupAnswered
  <2>4. CASE writer[t].key # NoKey
    <3>1. StartGroup(t)  BY <1>5, <2>4 DEF Switch
    <3>. QED  BY <1>0, <2>1, <3>1, GroupStarts
  <2>. QED  BY <2>3, <2>4
<1>6. CASE AddRecord(t)
  <2>. DEFINE pc == IF writer[t].pc = "log" /\ writer[t].sync THEN "sync" ELSE "insert"
  <2>1. writer[t].pc = "log" /\ writer' = [writer EXCEPT ![t].pc = pc]
        /\ queue' = queue /\ group' = group /\ db' = db
    BY <1>0, <1>6 DEF AddRecord, Leading
  <2>2. writer[t].pc \in InProgress /\ pc \in InProgress  BY <2>1 DEF InProgress
  <2>. HIDE DEF pc
  <2>. QED  BY <2>1, <2>2, LeaderMoves
<1>7. CASE SyncLog(t) \/ SyncLogFails(t) \/ AddRecordFails(t)
  <2>1. PICK pc \in {"insert", "unsynced", "failed"} :
          /\ writer[t].pc \in {"log", "sync"} /\ writer' = [writer EXCEPT ![t].pc = pc]
          /\ queue' = queue /\ group' = group /\ db' = db
    BY <1>7 DEF SyncLog, SyncLogFails, AddRecordFails, Leading
  <2>2. writer[t].pc \in InProgress /\ pc \in InProgress  BY <2>1 DEF InProgress
  <2>. QED  BY <2>1, <2>2, LeaderMoves
<1>8. CASE Insert(t)
  <2>1. writer[t].pc \in InProgress /\ db' = db /\ group' = IdleGroup
        /\ Answer(writer, group.size, writer[t].pc = "insert")
    BY <1>8 DEF Insert, Leading, Commit, InProgress
  <2>2. db = "open" /\ group.size \in 1..Len(queue)  BY <2>1, Leader
  <2>. QED  BY <1>0, <2>1, <2>2, GroupAnswered
<1>9. CASE GiveUp(t)
  <2>. DEFINE w == IF bgError' /\ ~bgError THEN SignalAll(writer) ELSE writer
  <2>1. writer[t].pc \in InProgress /\ db' = db /\ group' = IdleGroup
        /\ Answer(w, group.size, writer[t].pc = "insert")
    BY <1>9 DEF GiveUp, Commit, InProgress
  <2>2. db = "open" /\ group.size \in 1..Len(queue)  BY <2>1, Leader
  <2>3. QueueShape(queue, w)  BY <1>0, SignalAllKeeps
  <2>. HIDE DEF w
  <2>. QED  BY <2>1, <2>2, <2>3, GroupAnswered
<1>10. CASE CheckFlushed(t)
  <2>. DEFINE x == IF imm # <<>> /\ ~bgError THEN [writer[t] EXCEPT !.pc = "sleep"]
                   ELSE IdleWriter
  <2>1. writer[t].pc = "check" /\ writer' = [writer EXCEPT ![t] = x]
        /\ queue' = queue /\ group' = group /\ db' = db
    BY <1>0, <1>10 DEF CheckFlushed
  <2>2. x \in WriterState /\ x.pc \in {"sleep", "idle"}
    <3>1. writer[t] \in WriterState  BY <1>0
    <3>2. [writer[t] EXCEPT !.pc = "sleep"] \in WriterState
          /\ [writer[t] EXCEPT !.pc = "sleep"].pc = "sleep"
      BY <3>1 DEF WriterState
    <3>3. IdleWriter \in WriterState /\ IdleWriter.pc = "idle"
      BY IdleTyped DEF IdleWriter
    <3>. QED  BY <3>2, <3>3
  <2>. HIDE DEF x
  <2>3. writer[t].pc \notin InQueue /\ x.pc \notin InQueue /\ writer[t].pc # "queued"
    BY <2>1, <2>2 DEF InQueue
  <2>4. QueueShape(queue, writer')  BY <1>0, <2>1, <2>2, <2>3, WriterMoves
  <2>5. \A u \in Writer : writer'[u].pc \in InProgress <=> writer[u].pc \in InProgress
    <3>1. writer'[t] = x /\ \A u \in Writer : u # t => writer'[u] = writer[u]
      BY <1>0, <2>1
    <3>. QED  BY <2>1, <2>2, <3>1 DEF InProgress
  <2>6. GroupShape(queue, writer', group)  BY <2>5 DEF QueueInv, GroupShape
  <2>7. db = "open"  BY <2>1 DEF QueueInv
  <2>. QED  BY <2>1, <2>4, <2>6, <2>7 DEF QueueInv
<1>. QED
  BY <1>1, <1>2, <1>3, <1>4, <1>5, <1>6, <1>7, <1>8, <1>9, <1>10 DEF Write, WriteFaults

LEMMA BackgroundKeepsQueue ==
  ASSUME QueueInv, BackgroundCall \/ BackgroundFaults
  PROVE  QueueInv'
<1>1. /\ queue' = queue /\ group' = group /\ db' = db
      /\ writer' = SignalAll(writer) \/ writer' = writer
  <2>1. CASE BackgroundNothing
    BY <2>1 DEF BackgroundNothing, EndCall
  <2>2. CASE Flush \/ FlushWhileMerging
    BY <2>2 DEF Flush, FlushWhileMerging, StartTable, client
  <2>3. CASE BuildTable \/ BuildTableFails
    BY <2>3 DEF BuildTable, BuildTableFails, Build, JobFails, EndCall
  <2>4. CASE Compact \/ OpenOutput \/ FinishOutput \/ AppendToManifest
    BY <2>4 DEF Compact, OpenOutput, FinishOutput, AppendToManifest, client
  <2>5. CASE MergeStops \/ MergeFails
    BY <2>5 DEF MergeStops, MergeFails, MergeEnds, JobFails, EndCall
  <2>6. CASE ManifestFails
    BY <2>6 DEF ManifestFails, JobFails, EndCall
  <2>7. CASE InstallVersion
    BY <2>7 DEF InstallVersion, EndCall
  <2>. QED
    BY <2>1, <2>2, <2>3, <2>4, <2>5, <2>6, <2>7 DEF BackgroundCall, BackgroundFaults
<1>2. CASE writer' = SignalAll(writer)  BY <1>1, <1>2, Woken
<1>3. CASE writer' = writer  BY <1>1, <1>3, QueueFrame
<1>. QED  BY <1>1, <1>2, <1>3

Reading == StartGet \/ EndGet \/ GetSnapshot \/ ReleaseSnapshot

LEMMA OthersKeepQueue ==
  ASSUME QueueInv,
         \/ Reading \/ NewDB \/ Recover \/ Open \/ OpenFails
         \/ StartClose \/ EndClose \/ Kill \/ PowerLoss
  PROVE  QueueInv'
<1>1. CASE Reading
  <2>1. UNCHANGED <<queue, writer, group, db>>
    BY <1>1 DEF Reading, StartGet, EndGet, GetSnapshot, ReleaseSnapshot
  <2>. QED  BY <2>1, QueueFrame
<1>2. CASE NewDB \/ Recover \/ Open
  <2>1. UNCHANGED <<queue, writer, group>> /\ db # "open"
    BY <1>2 DEF NewDB, Recover, Open, ReplayLog, ReplayRecord, EndLog, Replaying,
                NewManifest, SetCurrent, Opened, Processless, client
  <2>2. \A t \in Writer : writer[t].pc = "idle"  BY <2>1 DEF QueueInv
  <2>. QED  BY <2>1, <2>2, QueueFrame
<1>3. CASE OpenFails \/ EndClose \/ Kill \/ PowerLoss
  <2>1. Reset  BY <1>3 DEF OpenFails, EndClose, Kill, PowerLoss
  <2>. QED  BY <2>1, QueueReset
<1>4. CASE StartClose
  <2>1. UNCHANGED <<queue, writer, group>> /\ \A t \in Writer : writer[t].pc = "idle"
    BY <1>4 DEF StartClose, client
  <2>. QED  BY <2>1, QueueFrame
<1>. QED  BY <1>1, <1>2, <1>3, <1>4
(***************************************************************************)
(* The types are kept                                                      *)
(***************************************************************************)

LEMMA MakeLog ==
  ASSUME NEW q \in Seq(Record), NEW n \in Nat
  PROVE  [recs |-> q, synced |-> n] \in LogFile
BY DEF LogFile

LEMMA MakeDescriptor ==
  ASSUME NEW q \in Seq(Version), NEW n \in Nat
  PROVE  [states |-> q, synced |-> n] \in Descriptor
BY DEF Descriptor

LEMMA ExceptRecords ==
  ASSUME NEW f \in LogFile, NEW q
  PROVE  [f EXCEPT !.recs = q] = [recs |-> q, synced |-> f.synced]
BY DEF LogFile

LEMMA ExceptStates ==
  ASSUME NEW f \in Descriptor, NEW q
  PROVE  [f EXCEPT !.states = q] = [states |-> q, synced |-> f.synced]
BY DEF Descriptor

LEMMA AppendTyped ==
  ASSUME DiskOK, NEW n \in DOMAIN log, NEW r \in Record
  PROVE  [log[n] EXCEPT !.recs = Append(@, r)] \in LogFile
<1>1. log[n] \in LogFile  BY DEF DiskOK, IsDirectory
<1>2. log[n].recs \in Seq(Record) /\ log[n].synced \in Nat  BY <1>1 DEF LogFile
<1>3. Append(log[n].recs, r) \in Seq(Record)  BY <1>2, AppendProperties
<1>4. [log[n] EXCEPT !.recs = Append(@, r)] = [recs |-> Append(log[n].recs, r),
                                               synced |-> log[n].synced]
  BY ONLY <1>1, ExceptRecords, Zenon
<1>5. [recs |-> Append(log[n].recs, r), synced |-> log[n].synced] \in LogFile
  BY ONLY <1>2, <1>3, MakeLog, Zenon
<1>. QED  BY ONLY <1>4, <1>5, Zenon

LEMMA LogAppends ==
  ASSUME DiskOK, NEW r \in Record, AppendToLog(r)
  PROVE  /\ IsDirectory(log', LogFile)
         /\ DOMAIN log' = DOMAIN log
         /\ \A n \in DOMAIN log : n # logfile => log'[n] = log[n]
         /\ logfile \in DOMAIN log =>
              log'[logfile] = [recs |-> Append(log[logfile].recs, r),
                               synced |-> log[logfile].synced]
<1>. DEFINE x == [log[logfile] EXCEPT !.recs = Append(@, r)]
<1>1. log' = [log EXCEPT ![logfile] = x]  BY DEF AppendToLog
<1>2. DOMAIN log' = DOMAIN log /\ \A n \in DOMAIN log : n # logfile => log'[n] = log[n]
  BY <1>1
<1>3. ASSUME logfile \in DOMAIN log
      PROVE  /\ log'[logfile] \in LogFile
             /\ log'[logfile] = [recs |-> Append(log[logfile].recs, r),
                                 synced |-> log[logfile].synced]
  <2>1. log'[logfile] = x  BY <1>1, <1>3
  <2>2. x \in LogFile  BY <1>3, AppendTyped
  <2>3. log[logfile] \in LogFile  BY <1>3 DEF DiskOK, IsDirectory
  <2>4. x = [recs |-> Append(log[logfile].recs, r), synced |-> log[logfile].synced]
    BY ONLY <2>3, ExceptRecords, Zenon
  <2>. QED  BY ONLY <2>1, <2>2, <2>4, Zenon
<1>4. IsDirectory(log, LogFile)  BY DEF DiskOK
<1>5. IsDirectory(log', LogFile)  BY <1>2, <1>3, <1>4 DEF IsDirectory
<1>. QED  BY <1>2, <1>3, <1>5

LEMMA GroupRecordTyped ==
  ASSUME QueueInv
  PROVE  GroupRecord \in Record /\ Torn \in Record
BY DEF QueueInv, GroupShape, GroupRecord, Torn, Record

LEMMA LogSynced ==
  ASSUME DiskOK, log' = [log EXCEPT ![logfile].synced = Len(log[logfile].recs)]
  PROVE  /\ IsDirectory(log', LogFile)
         /\ DOMAIN log' = DOMAIN log
         /\ \A n \in DOMAIN log : n # logfile => log'[n] = log[n]
         /\ logfile \in DOMAIN log =>
              log'[logfile] = [recs |-> log[logfile].recs,
                               synced |-> Len(log[logfile].recs)]
<1>. DEFINE x == [log[logfile] EXCEPT !.synced = Len(log[logfile].recs)]
<1>1. log' = [log EXCEPT ![logfile] = x]  OBVIOUS
<1>2. DOMAIN log' = DOMAIN log /\ \A n \in DOMAIN log : n # logfile => log'[n] = log[n]
  BY <1>1
<1>3. ASSUME logfile \in DOMAIN log
      PROVE  /\ log'[logfile] \in LogFile
             /\ log'[logfile] = [recs |-> log[logfile].recs,
                                 synced |-> Len(log[logfile].recs)]
  <2>1. log'[logfile] = x  BY <1>1, <1>3
  <2>2. log[logfile] \in LogFile  BY <1>3 DEF DiskOK, IsDirectory
  <2>3. x = [recs |-> log[logfile].recs, synced |-> Len(log[logfile].recs)]
    BY <2>2 DEF LogFile
  <2>4. log[logfile].recs \in Seq(Record)  BY <2>2 DEF LogFile
  <2>5. Len(log[logfile].recs) \in Nat  BY <2>4, LenProperties
  <2>. QED  BY <2>1, <2>3, <2>4, <2>5 DEF LogFile
<1>4. IsDirectory(log, LogFile)  BY DEF DiskOK
<1>5. IsDirectory(log', LogFile)  BY <1>2, <1>3, <1>4 DEF IsDirectory
<1>. QED  BY <1>2, <1>3, <1>5

\* What AppendEdit makes of the descriptor that is in use.
Extended(m, e) ==
  [states |-> Append(m.states, ApplyEdit(LastState(m), e)), synced |-> m.synced]

LEMMA EditAppended ==
  ASSUME DiskOK, BackgroundOK, AppendEdit
  PROVE  /\ IsDirectory(manifest', Descriptor)
         /\ DOMAIN manifest' = DOMAIN manifest
         /\ \A n \in DOMAIN manifest : n # versions.manifest => manifest'[n] = manifest[n]
         /\ versions.manifest \in DOMAIN manifest =>
              manifest'[versions.manifest] = Extended(manifest[versions.manifest], bg.edit)
<1>. DEFINE c == versions.manifest
            y == ApplyEdit(LastState(manifest[c]), bg.edit)
            x == [manifest[c] EXCEPT !.states = Append(@, y)]
<1>1. manifest' = [manifest EXCEPT ![c] = x]  BY DEF AppendEdit
<1>2. DOMAIN manifest' = DOMAIN manifest
      /\ \A n \in DOMAIN manifest : n # c => manifest'[n] = manifest[n]
  BY <1>1
<1>3. ASSUME c \in DOMAIN manifest
      PROVE  manifest'[c] \in Descriptor /\ manifest'[c] = Extended(manifest[c], bg.edit)
  <2>1. manifest'[c] = x  BY <1>1, <1>3
  <2>2. manifest[c] \in Descriptor  BY <1>3 DEF DiskOK, IsDirectory
  <2>3. y \in Version
    <3>1. bg.edit \in Edit  BY DEF BackgroundOK
    <3>2. LastState(manifest[c]) \in Version  BY <2>2, LastStateTyped
    <3>. QED  BY <3>1, <3>2, ApplyEditTyped
  <2>. HIDE DEF y
  <2>4. manifest[c].states \in Seq(Version) /\ manifest[c].synced \in Nat
    BY <2>2 DEF Descriptor
  <2>5. Append(manifest[c].states, y) \in Seq(Version)  BY <2>3, <2>4, AppendProperties
  <2>6. x = [states |-> Append(manifest[c].states, y), synced |-> manifest[c].synced]
    BY ONLY <2>2, ExceptStates, Zenon
  <2>7. [states |-> Append(manifest[c].states, y), synced |-> manifest[c].synced]
          \in Descriptor
    BY ONLY <2>4, <2>5, MakeDescriptor, Zenon
  <2>8. Extended(manifest[c], bg.edit)
          = [states |-> Append(manifest[c].states, y), synced |-> manifest[c].synced]
    BY DEF Extended, y
  <2>. QED  BY ONLY <2>1, <2>6, <2>7, <2>8, Zenon
<1>4. IsDirectory(manifest, Descriptor)  BY DEF DiskOK
<1>5. IsDirectory(manifest', Descriptor)  BY <1>2, <1>3, <1>4 DEF IsDirectory
<1>. QED  BY <1>2, <1>3, <1>5

LEMMA ManifestSynced ==
  ASSUME DiskOK
  PROVE  /\ IsDirectory(SyncedManifest, Descriptor)
         /\ DOMAIN SyncedManifest = DOMAIN manifest
         /\ \A n \in DOMAIN manifest :
              n # versions.manifest => SyncedManifest[n] = manifest[n]
         /\ versions.manifest \in DOMAIN manifest =>
              SyncedManifest[versions.manifest] =
                [states |-> manifest[versions.manifest].states,
                 synced |-> Len(manifest[versions.manifest].states)]
<1>. DEFINE c == versions.manifest
            x == [manifest[c] EXCEPT !.synced = Len(manifest[c].states)]
<1>1. SyncedManifest = [manifest EXCEPT ![c] = x]  BY DEF SyncedManifest
<1>2. DOMAIN SyncedManifest = DOMAIN manifest
      /\ \A n \in DOMAIN manifest : n # c => SyncedManifest[n] = manifest[n]
  BY <1>1
<1>3. ASSUME c \in DOMAIN manifest
      PROVE  /\ SyncedManifest[c] \in Descriptor
             /\ SyncedManifest[c] = [states |-> manifest[c].states,
                                     synced |-> Len(manifest[c].states)]
  <2>1. SyncedManifest[c] = x  BY <1>1, <1>3
  <2>2. manifest[c] \in Descriptor  BY <1>3 DEF DiskOK, IsDirectory
  <2>3. x = [states |-> manifest[c].states, synced |-> Len(manifest[c].states)]
    BY <2>2 DEF Descriptor
  <2>4. manifest[c].states \in Seq(Version)  BY <2>2 DEF Descriptor
  <2>5. Len(manifest[c].states) \in Nat  BY <2>4, LenProperties
  <2>. QED  BY <2>1, <2>3, <2>4, <2>5 DEF Descriptor
<1>4. IsDirectory(manifest, Descriptor)  BY DEF DiskOK
<1>5. IsDirectory(SyncedManifest, Descriptor)  BY <1>2, <1>3, <1>4 DEF IsDirectory
<1>. QED  BY <1>2, <1>3, <1>5
LEMMA CutIs ==
  ASSUME NEW S, NEW q \in Seq(S), NEW a \in Nat, NEW l \in a..Len(q)
  PROVE  /\ SubSeq(q, 1, l) \in Seq(S)
         /\ Len(SubSeq(q, 1, l)) = l
         /\ l \in Nat /\ a <= l /\ l <= Len(q)
         /\ \A i \in 1..l : SubSeq(q, 1, l)[i] = q[i]
<1>1. Len(q) \in Nat  BY LenProperties
<1>2. l \in Nat /\ a <= l /\ l <= Len(q)  BY <1>1
<1>3. 1 \in 1..Len(q) + 1 /\ l \in 1 - 1..Len(q)  BY <1>1, <1>2
<1>4. /\ SubSeq(q, 1, l) \in Seq(S)
      /\ Len(SubSeq(q, 1, l)) = l - 1 + 1
      /\ \A i \in 1..l - 1 + 1 : SubSeq(q, 1, l)[i] = q[1 + i - 1]
  BY <1>3, SubSeqProperties
<1>5. l - 1 + 1 = l /\ \A i \in 1..l : 1 + i - 1 = i  BY <1>2
<1>. QED  BY <1>2, <1>4, <1>5

\* What a loss of power leaves of a log and of a descriptor.
CutLog(f, l) == [recs |-> SubSeq(f.recs, 1, l), synced |-> l]

CutManifest(f, l) == [states |-> SubSeq(f.states, 1, l), synced |-> l]

LEMMA PowerLossCuts ==
  ASSUME DiskOK, PowerLoss
  PROVE  /\ IsDirectory(log', LogFile)
         /\ DOMAIN log' = DOMAIN log
         /\ \A n \in DOMAIN log :
              \E l \in log[n].synced..Len(log[n].recs) : log'[n] = CutLog(log[n], l)
         /\ IsDirectory(manifest', Descriptor)
         /\ DOMAIN manifest' = DOMAIN manifest
         /\ \A n \in DOMAIN manifest :
              \E l \in manifest[n].synced..Len(manifest[n].states) :
                manifest'[n] = CutManifest(manifest[n], l)
<1>1. PICK l \in Kept([n \in DOMAIN log |-> log[n].synced..Len(log[n].recs)]) :
        log' = [n \in DOMAIN log |->
                  [recs |-> SubSeq(log[n].recs, 1, l[n]), synced |-> l[n]]]
  BY DEF PowerLoss
<1>2. \A n \in DOMAIN log : l[n] \in log[n].synced..Len(log[n].recs)  BY DEF Kept
<1>3. DOMAIN log' = DOMAIN log
      /\ \A n \in DOMAIN log : log'[n] = CutLog(log[n], l[n])
  BY <1>1 DEF CutLog
<1>4. ASSUME NEW n \in DOMAIN log  PROVE log'[n] \in LogFile
  <2>1. log[n] \in LogFile  BY DEF DiskOK, IsDirectory
  <2>2. log[n].recs \in Seq(Record) /\ log[n].synced \in Nat  BY <2>1 DEF LogFile
  <2>3. SubSeq(log[n].recs, 1, l[n]) \in Seq(Record) /\ l[n] \in Nat
    BY <1>2, <2>2, CutIs
  <2>4. CutLog(log[n], l[n]) \in LogFile
    BY ONLY <2>3, MakeLog, Zenon DEF CutLog
  <2>. QED  BY ONLY <1>3, <2>4
<1>5. PICK m \in Kept([n \in DOMAIN manifest |->
                        manifest[n].synced..Len(manifest[n].states)]) :
        manifest' = [n \in DOMAIN manifest |->
          [states |-> SubSeq(manifest[n].states, 1, m[n]), synced |-> m[n]]]
  BY DEF PowerLoss
<1>6. \A n \in DOMAIN manifest : m[n] \in manifest[n].synced..Len(manifest[n].states)
  BY DEF Kept
<1>7. DOMAIN manifest' = DOMAIN manifest
      /\ \A n \in DOMAIN manifest : manifest'[n] = CutManifest(manifest[n], m[n])
  BY <1>5 DEF CutManifest
<1>8. ASSUME NEW n \in DOMAIN manifest  PROVE manifest'[n] \in Descriptor
  <2>1. manifest[n] \in Descriptor  BY DEF DiskOK, IsDirectory
  <2>2. manifest[n].states \in Seq(Version) /\ manifest[n].synced \in Nat
    BY <2>1 DEF Descriptor
  <2>3. SubSeq(manifest[n].states, 1, m[n]) \in Seq(Version) /\ m[n] \in Nat
    BY <1>6, <2>2, CutIs
  <2>4. CutManifest(manifest[n], m[n]) \in Descriptor
    BY ONLY <2>3, MakeDescriptor, Zenon DEF CutManifest
  <2>. QED  BY ONLY <1>7, <2>4
<1>9. IsDirectory(log', LogFile) /\ IsDirectory(manifest', Descriptor)
  BY <1>3, <1>4, <1>7, <1>8 DEF DiskOK, IsDirectory
<1>. QED  BY <1>2, <1>3, <1>6, <1>7, <1>9

LEMMA LogKeepsType ==
  ASSUME Typed, QueueInv, Next
  PROVE  IsDirectory(log', LogFile)
<1>0. DiskOK /\ IsDirectory(log, LogFile)  BY DEF Typed, DiskOK
<1>1. CASE \E t \in Writer : Submit(t) \/ Write(t) \/ WriteFaults(t)
  <2>0. PICK t \in Writer : Submit(t) \/ Write(t) \/ WriteFaults(t)  BY <1>1
  <2>1. CASE \/ Submit(t) \/ Refuse(t) \/ Room(t) \/ Wait(t) \/ Insert(t) \/ GiveUp(t)
             \/ CheckFlushed(t) \/ SwitchFails(t) \/ SyncLogFails(t)
    <3>1. log' = log
      BY <2>1 DEF Submit, Refuse, Room, Wait, Insert, GiveUp, CheckFlushed, SwitchFails,
                  SyncLogFails, disk
    <3>. QED  BY <1>0, <3>1
  <2>2. CASE Switch(t)
    <3>1. log' = With(log, versions.next, [recs |-> <<>>, synced |-> 0])
      BY <2>2 DEF Switch
    <3>2. versions.next \in Nat  BY DEF Typed, OpenOK
    <3>3. [recs |-> <<>>, synced |-> 0] \in LogFile  BY EmptySeq DEF LogFile
    <3>. QED  BY <1>0, <3>1, <3>2, <3>3, DirectoryWith
  <2>3. CASE AddRecord(t) \/ AddRecordFails(t)
    <3>1. log' = log \/ AppendToLog(GroupRecord) \/ AppendToLog(Torn)
      BY <2>3 DEF AddRecord, AddRecordFails
    <3>. QED  BY <1>0, <3>1, GroupRecordTyped, LogAppends
  <2>4. CASE SyncLog(t)
    <3>1. log' = [log EXCEPT ![logfile].synced = Len(log[logfile].recs)]
      BY <2>4 DEF SyncLog
    <3>. QED  BY <1>0, <3>1, LogSynced
  <2>. QED  BY <2>0, <2>1, <2>2, <2>3, <2>4 DEF Write, WriteFaults
<1>2. CASE Reading \/ BackgroundFaults \/ StartClose \/ EndClose \/ Kill
  <2>1. log' = log
    BY <1>2 DEF Reading, StartGet, EndGet, GetSnapshot, ReleaseSnapshot,
                BackgroundFaults, BuildTableFails, Build, MergeFails, MergeEnds,
                ManifestFails, StartClose, EndClose, Kill, disk
  <2>. QED  BY <1>0, <2>1
<1>3. CASE BackgroundCall
  <2>1. CASE ~InstallVersion
    <3>1. log' = log
      BY <1>3, <2>1 DEF BackgroundCall, BackgroundNothing, Flush, FlushWhileMerging,
           StartTable, BuildTable, Build, Compact, OpenOutput, FinishOutput, MergeStops,
           MergeEnds, AppendToManifest, disk
    <3>. QED  BY <1>0, <3>1
  <2>2. CASE InstallVersion
    <3>1. \E S : log' = Restricted(log, S) \/ log' = log
      BY <2>2, Zenon DEF InstallVersion, DeleteObsoleteFiles
    <3>. QED  BY <1>0, <3>1, DirectoryRestricted
  <2>. QED  BY <2>1, <2>2
<1>4. CASE NewDB \/ Recover \/ OpenFails
  <2>1. log' = log  BY <1>4 DEF NewDB, Recover, OpenFails, disk
  <2>. QED  BY <1>0, <2>1
<1>5. CASE Open
  <2>1. CASE NewManifest
    <3>1. log' = With(log, versions.next, [recs |-> <<>>, synced |-> 0])
      BY <2>1 DEF NewManifest
    <3>2. versions.next \in Nat  BY DEF Typed, OpenOK
    <3>3. [recs |-> <<>>, synced |-> 0] \in LogFile  BY EmptySeq DEF LogFile
    <3>. QED  BY <1>0, <3>1, <3>2, <3>3, DirectoryWith
  <2>2. CASE Opened
    <3>1. \E S : log' = Restricted(log, S) \/ log' = log
      BY <2>2, Zenon DEF Opened, DeleteObsoleteFiles
    <3>. QED  BY <1>0, <3>1, DirectoryRestricted
  <2>3. CASE ~NewManifest /\ ~Opened
    <3>1. log' = log
      BY <1>5, <2>3 DEF Open, ReplayLog, ReplayRecord, EndLog, SetCurrent
    <3>. QED  BY <1>0, <3>1
  <2>. QED  BY <2>1, <2>2, <2>3
<1>6. CASE PowerLoss  BY <1>0, <1>6, PowerLossCuts
<1>. QED  BY <1>1, <1>2, <1>3, <1>4, <1>5, <1>6 DEF Next, Reading
(***************************************************************************)
(* The background thread                                                   *)
(***************************************************************************)

JobShape ==
  /\ bg.pc # "idle" => Running /\ scheduled
  /\ bg.pc = "idle" => bg = IdleBg
  /\ bg.back # "idle" => bg.pc \in {"build", "append", "sync"}
  /\ bg.pc \in {"merge", "write"} \/ bg.back # "idle" => bg.inputs # {}
  /\ bg.pc = "build" => imm # <<>>
  /\ bg.pc \in {"append", "sync"} =>
       \/ bg.edit.del = {} /\ imm # <<>>
       \/ bg.edit.del # {} /\ bg.edit.del = bg.inputs /\ bg.back = "idle"

LEMMA CompactsSome ==
  ASSUME NeedsCompaction(versions.files)
  PROVE  versions.files # {}
<1>1. SUFFICES ASSUME versions.files = {}  PROVE FALSE  OBVIOUS
<1>2. Level(versions.files, 0) = {}  BY <1>1 DEF Level
<1>3. Cardinality(Level(versions.files, 0)) = 0  BY <1>2, FS_EmptySet
<1>4. CompactTrigger \in Nat \ {0}  BY DBImplAssumption
<1>. QED  BY <1>3, <1>4 DEF NeedsCompaction

LEMMA JobFrame ==
  ASSUME JobShape, UNCHANGED <<bg, imm>>, scheduled => scheduled', Running => Running'
  PROVE  JobShape'
BY DEF JobShape

LEMMA JobReset ==
  ASSUME bg' = IdleBg
  PROVE  JobShape'
BY DEF JobShape, IdleBg

LEMMA JobFailsKeepsShape ==
  ASSUME Typed, JobShape, NEW outputs, JobFails(outputs), UNCHANGED <<imm, db>>
  PROVE  JobShape'
<1>1. bg \in BgState  BY DEF Typed, BackgroundOK, BgState
<1>2. CASE bg.back = "idle"
  <2>1. bg' = IdleBg  BY <1>2 DEF JobFails, EndCall
  <2>. QED  BY <2>1, JobReset
<1>3. CASE bg.back # "idle"
  <2>1. /\ bg' = [bg EXCEPT !.pc = bg.back, !.back = "idle", !.num = 0]
        /\ scheduled' = scheduled
    BY <1>3 DEF JobFails
  <2>2. /\ bg'.pc = bg.back /\ bg'.back = "idle" /\ bg'.inputs = bg.inputs
        /\ bg.back \in {"merge", "write"}
    BY <1>1, <1>3, <2>1 DEF BgState
  <2>3. bg.inputs # {} /\ Running /\ scheduled  BY <1>3 DEF JobShape
  <2>. QED  BY <2>1, <2>2, <2>3 DEF JobShape, Running
<1>. QED  BY <1>2, <1>3

LEMMA BackgroundKeepsShape ==
  ASSUME Typed, JobShape, BackgroundCall \/ BackgroundFaults
  PROVE  JobShape'
<1>0. bg \in BgState /\ db' = db
  <2>1. db' = db
    BY DEF BackgroundCall, BackgroundFaults, BackgroundNothing, Flush, FlushWhileMerging,
           StartTable, BuildTable, BuildTableFails, Build, Compact, OpenOutput,
           FinishOutput, MergeStops, MergeFails, MergeEnds, AppendToManifest,
           ManifestFails, InstallVersion
  <2>. QED  BY <2>1 DEF Typed, BackgroundOK, BgState
<1>1. CASE BackgroundNothing
  BY <1>1, JobReset DEF BackgroundNothing, EndCall
<1>2. CASE Flush \/ FlushWhileMerging
  <2>1. PICK back \in {"idle", "merge", "write"} :
          /\ StartTable(back) /\ Running /\ scheduled
          /\ bg.back = "idle" /\ (back # "idle" => bg.pc = back)
    <3>1. CASE Flush
      <4>1. bg.pc = "idle" /\ Running /\ scheduled /\ StartTable("idle")
        BY <3>1 DEF Flush, Idle
      <4>2. bg.back = "idle"  BY <4>1 DEF JobShape, IdleBg
      <4>. QED  BY <4>1, <4>2
    <3>2. CASE FlushWhileMerging
      <4>1. bg.pc \in {"merge", "write"} /\ Running /\ StartTable(bg.pc)
        BY <3>2 DEF FlushWhileMerging
      <4>2. scheduled /\ bg.back = "idle"  BY <1>0, <4>1 DEF JobShape, BgState
      <4>. QED  BY <4>1, <4>2
    <3>. QED  BY <1>2, <3>1, <3>2
  <2>2. /\ bg' = [bg EXCEPT !.pc = "build", !.back = back, !.num = versions.next]
        /\ imm # <<>> /\ imm' = imm /\ scheduled' = scheduled
    BY <2>1 DEF StartTable
  <2>3. bg'.pc = "build" /\ bg'.back = back /\ bg'.inputs = bg.inputs
    BY <1>0, <2>2 DEF BgState
  <2>4. back # "idle" => bg.inputs # {}  BY <2>1 DEF JobShape
  <2>. QED  BY <1>0, <2>1, <2>2, <2>3, <2>4 DEF JobShape, Running
<1>3. CASE BuildTable \/ BuildTableFails
  <2>1. PICK ok \in BOOLEAN : Build(ok)  BY <1>3 DEF BuildTable, BuildTableFails
  <2>2. imm' = imm /\ db' = db /\ bg.pc = "build" /\ Running  BY <2>1 DEF Build
  <2>3. CASE ok /\ ~shuttingDown
    <3>. DEFINE e == LogAndApply(IF imm[1] = {} THEN {} ELSE {<<LevelFor(imm[1]), bg.num>>},
                                 {}, logfile)
    <3>1. bg' = [bg EXCEPT !.pc = "append", !.edit = e] /\ scheduled' = scheduled
      BY <2>1, <2>3 DEF Build
    <3>2. e.del = {}  BY DEF LogAndApply
    <3>. HIDE DEF e
    <3>3. bg'.pc = "append" /\ bg'.back = bg.back /\ bg'.inputs = bg.inputs /\ bg'.edit = e
      BY <1>0, <3>1 DEF BgState
    <3>4. imm # <<>> /\ scheduled /\ (bg.back # "idle" => bg.inputs # {})
      BY <2>2 DEF JobShape
    <3>. QED  BY <2>2, <3>1, <3>2, <3>3, <3>4 DEF JobShape, Running
  <2>4. CASE ~(ok /\ ~shuttingDown)
    <3>1. JobFails({bg.num})  BY <2>1, <2>4 DEF Build
    <3>. QED  BY <2>2, <3>1, JobFailsKeepsShape
  <2>. QED  BY <2>3, <2>4
<1>4. CASE Compact
  <2>1. PICK n : bg' = [bg EXCEPT !.pc = "merge", !.inputs = versions.files, !.smallest = n]
    BY <1>4 DEF Compact
  <2>2. /\ bg.pc = "idle" /\ Running /\ scheduled /\ scheduled' = scheduled
        /\ NeedsCompaction(versions.files) /\ imm' = imm
    BY <1>4 DEF Compact, Idle
  <2>3. bg.back = "idle"  BY <2>2 DEF JobShape, IdleBg
  <2>4. bg'.pc = "merge" /\ bg'.back = "idle" /\ bg'.inputs = versions.files
    BY <1>0, <2>1, <2>3 DEF BgState
  <2>5. versions.files # {}  BY <2>2, CompactsSome
  <2>. QED  BY <1>0, <2>2, <2>4, <2>5 DEF JobShape, Running
<1>5. CASE OpenOutput
  <2>1. /\ bg' = [bg EXCEPT !.pc = "write", !.out = versions.next]
        /\ bg.pc = "merge" /\ imm' = imm /\ scheduled' = scheduled /\ Running
    BY <1>5 DEF OpenOutput
  <2>2. bg'.pc = "write" /\ bg'.back = bg.back /\ bg'.inputs = bg.inputs
    BY <1>0, <2>1 DEF BgState
  <2>3. bg.back = "idle" /\ bg.inputs # {} /\ scheduled
    BY <1>0, <2>1 DEF JobShape, BgState
  <2>. QED  BY <1>0, <2>1, <2>2, <2>3 DEF JobShape, Running
<1>6. CASE FinishOutput
  <2>. DEFINE e == LogAndApply({<<1, bg.out>>}, bg.inputs, versions.log)
  <2>1. /\ bg' = [bg EXCEPT !.pc = "append", !.back = "idle", !.edit = e]
        /\ bg.pc = "write" /\ imm' = imm /\ scheduled' = scheduled /\ Running
    BY <1>6 DEF FinishOutput
  <2>2. e.del = bg.inputs  BY DEF LogAndApply
  <2>. HIDE DEF e
  <2>3. bg'.pc = "append" /\ bg'.back = "idle" /\ bg'.inputs = bg.inputs /\ bg'.edit = e
    BY <1>0, <2>1 DEF BgState
  <2>4. bg.inputs # {} /\ scheduled  BY <2>1 DEF JobShape
  <2>. QED  BY <1>0, <2>1, <2>2, <2>3, <2>4 DEF JobShape, Running
<1>7. CASE MergeStops \/ MergeFails
  <2>1. MergeEnds  BY <1>7 DEF MergeStops, MergeFails
  <2>2. JobFails({bg.out}) /\ imm' = imm  BY <2>1 DEF MergeEnds
  <2>. QED  BY <1>0, <2>2, JobFailsKeepsShape
<1>8. CASE AppendToManifest
  <2>1. /\ bg' = [bg EXCEPT !.pc = "sync"] /\ Running
        /\ bg.pc = "append" /\ imm' = imm /\ scheduled' = scheduled
    BY <1>8 DEF AppendToManifest
  <2>2. bg'.pc = "sync" /\ bg'.back = bg.back /\ bg'.inputs = bg.inputs /\ bg'.edit = bg.edit
    BY <1>0, <2>1 DEF BgState
  <2>. QED  BY <1>0, <2>1, <2>2 DEF JobShape, Running
<1>9. CASE ManifestFails
  <2>1. PICK outputs : JobFails(outputs)  BY <1>9 DEF ManifestFails
  <2>2. imm' = imm  BY <1>9 DEF ManifestFails
  <2>. QED  BY <1>0, <2>1, <2>2, JobFailsKeepsShape
<1>10. CASE InstallVersion
  <2>1. bg.pc = "sync" /\ Running  BY <1>10 DEF InstallVersion
  <2>2. CASE bg.back = "idle"
    <3>1. bg' = IdleBg  BY <1>10, <2>2 DEF InstallVersion, EndCall
    <3>. QED  BY <3>1, JobReset
  <2>3. CASE bg.back # "idle"
    <3>1. /\ bg' = [bg EXCEPT !.pc = bg.back, !.back = "idle", !.num = 0]
          /\ scheduled' = scheduled
      BY <1>10, <2>3 DEF InstallVersion
    <3>2. /\ bg'.pc = bg.back /\ bg'.back = "idle" /\ bg'.inputs = bg.inputs
          /\ bg.back \in {"merge", "write"}
      BY <1>0, <2>3, <3>1 DEF BgState
    <3>3. bg.inputs # {} /\ scheduled  BY <2>1, <2>3 DEF JobShape
    <3>. QED  BY <1>0, <2>1, <3>1, <3>2, <3>3 DEF JobShape, Running
  <2>. QED  BY <2>2, <2>3
<1>. QED
  BY <1>1, <1>2, <1>3, <1>4, <1>5, <1>6, <1>7, <1>8, <1>9, <1>10
     DEF BackgroundCall, BackgroundFaults

LEMMA NextKeepsShape ==
  ASSUME Typed, QueueInv, JobShape, Next
  PROVE  JobShape'
<1>1. CASE \E t \in Writer : Submit(t) \/ Write(t) \/ WriteFaults(t)
  <2>0. PICK t \in Writer : Submit(t) \/ Write(t) \/ WriteFaults(t)  BY <1>1
  <2>1. CASE Switch(t)
    <3>1. /\ imm' = <<mem>> /\ bg' = bg /\ db' = db
          /\ scheduled' = Schedules(scheduled, bgError, shuttingDown, imm', versions.files)
      BY <2>1 DEF Switch
    <3>2. scheduled => scheduled'  BY <3>1 DEF Schedules
    <3>3. imm' # <<>>
      <4>1. Len(imm') = 1  BY <3>1
      <4>. QED  BY <4>1
    <3>. QED  BY <3>1, <3>2, <3>3 DEF JobShape, Running
  <2>2. CASE ~Switch(t)
    <3>1. UNCHANGED <<bg, imm, scheduled, db>>
      BY <2>0, <2>2 DEF Submit, Write, WriteFaults, Refuse, Room, Wait, AddRecord,
           AddRecordFails, SyncLog, SyncLogFails, Insert, GiveUp, CheckFlushed,
           SwitchFails, background
    <3>. QED  BY <3>1, JobFrame DEF Running
  <2>. QED  BY <2>1, <2>2
<1>2. CASE Reading \/ StartClose
  <2>1. UNCHANGED <<bg, imm, scheduled>> /\ (Running => Running')
    BY <1>2 DEF Reading, StartGet, EndGet, GetSnapshot, ReleaseSnapshot, StartClose,
                background, Running
  <2>. QED  BY <2>1, JobFrame
<1>3. CASE BackgroundCall \/ BackgroundFaults
  BY <1>3, BackgroundKeepsShape
<1>4. CASE NewDB \/ Recover \/ Open
  <2>1. bg' = bg /\ ~Running
    BY <1>4 DEF NewDB, Recover, Open, ReplayLog, ReplayRecord, EndLog, Replaying,
                NewManifest, SetCurrent, Opened, Processless, background, Running
  <2>2. bg' = IdleBg  BY <2>1 DEF JobShape
  <2>. QED  BY <2>2, JobReset
<1>5. CASE OpenFails \/ EndClose \/ Kill \/ PowerLoss
  <2>1. Reset  BY <1>5 DEF OpenFails, EndClose, Kill, PowerLoss
  <2>. QED  BY <2>1, JobReset DEF Reset
<1>. QED  BY <1>1, <1>2, <1>3, <1>4, <1>5 DEF Next, Reading
(***************************************************************************)
(* Types of the tables, the descriptors and the memory                     *)
(***************************************************************************)

LEMMA TableWrites ==
  ASSUME Typed, NEW n \in Nat, NEW E \in SUBSET Entry, NEW b \in BOOLEAN
  PROVE  IsDirectory(With(table, n, [entries |-> E, synced |-> b]), TableFile)
<1>1. [entries |-> E, synced |-> b] \in TableFile  BY DEF TableFile
<1>2. IsDirectory(table, TableFile)  BY DEF Typed, DiskOK
<1>. QED  BY <1>1, <1>2, DirectoryWith

LEMMA MergedTyped ==
  ASSUME NEW E \in SUBSET Entry, NEW n
  PROVE  Merged(E, n) \in SUBSET Entry
BY DEF Merged, View

\* What BuildTable leaves of the tables.
LEMMA BuildWrites ==
  ASSUME Typed, JobShape, NEW ok \in BOOLEAN, Build(ok)
  PROVE  /\ imm # <<>> /\ imm[1] \in SUBSET Entry /\ ImmEntries = imm[1]
         /\ table' = IF ok /\ imm[1] # {}
                     THEN With(table, bg.num, [entries |-> imm[1], synced |-> TRUE])
                     ELSE table
<1>1. imm # <<>>  BY DEF Build, JobShape
<1>2. imm[1] \subseteq Entry /\ ImmEntries = imm[1]  BY <1>1, ImmTyped DEF Typed
<1>. QED  BY <1>1, <1>2 DEF Build

\* The output of a merge.
LEMMA OutputWrites ==
  ASSUME Typed, FinishOutput
  PROVE  /\ Merged(EntriesOf(Numbers(bg.inputs)), bg.smallest) \in SUBSET Entry
         /\ DOMAIN table' = DOMAIN table
         /\ bg.out \in DOMAIN table =>
              table'[bg.out] =
                [entries |-> Merged(EntriesOf(Numbers(bg.inputs)), bg.smallest),
                 synced |-> TRUE]
         /\ \A n \in DOMAIN table : n # bg.out => table'[n] = table[n]
<1>1. EntriesOf(Numbers(bg.inputs)) \in SUBSET Entry  BY EntriesTyped DEF Typed
<1>2. Merged(EntriesOf(Numbers(bg.inputs)), bg.smallest) \in SUBSET Entry
  BY <1>1, MergedTyped
<1>3. table' = [table EXCEPT ![bg.out] =
        [entries |-> Merged(EntriesOf(Numbers(bg.inputs)), bg.smallest), synced |-> TRUE]]
  BY DEF FinishOutput
<1>. QED  BY <1>2, <1>3

LEMMA RecoveredWrites ==
  ASSUME Typed, NEW m \in SUBSET Entry, NEW write \in BOOLEAN, WriteRecovered(m, write)
  PROVE  IsDirectory(table', TableFile)
<1>1. versions.next \in Nat  BY DEF Typed, OpenOK
<1>2. IsDirectory(With(table, versions.next, [entries |-> m, synced |-> TRUE]), TableFile)
  BY <1>1, TableWrites
<1>3. IsDirectory(table, TableFile)  BY DEF Typed, DiskOK
<1>. QED  BY <1>2, <1>3 DEF WriteRecovered

\* The record that a recovery reads next.
LEMMA NextRecord ==
  ASSUME Typed, NEW number, number \in DOMAIN log, HasRecord(number)
  PROVE  /\ recovery.pos + 1 \in 1..Len(log[number].recs)
         /\ log[number].recs[recovery.pos + 1] \in Record
<1>1. log[number] \in LogFile  BY DEF Typed, DiskOK, IsDirectory
<1>2. log[number].recs \in Seq(Record)  BY <1>1 DEF LogFile
<1>3. Len(log[number].recs) \in Nat  BY <1>2, LenProperties
<1>4. recovery.pos \in Nat  BY DEF Typed, OpenOK
<1>5. recovery.pos + 1 \in 1..Len(log[number].recs)  BY <1>3, <1>4 DEF HasRecord
<1>. QED  BY <1>2, <1>5, ElementOfSeq

\* Only logs that are there are replayed.
ReplayShape == db = "replay" => recovery.logs \subseteq DOMAIN log

LEMMA TableKeepsType ==
  ASSUME Typed, JobShape, ReplayShape, Next
  PROVE  IsDirectory(table', TableFile)
<1>0. IsDirectory(table, TableFile) /\ versions.next \in Nat /\ bg \in BgState
  BY DEF Typed, DiskOK, OpenOK, BackgroundOK, BgState
<1>1. CASE \E t \in Writer : Submit(t) \/ Write(t) \/ WriteFaults(t)
  <2>1. table' = table
    BY <1>1 DEF Submit, Write, WriteFaults, Refuse, Room, Wait, Switch, AddRecord,
         AddRecordFails, SyncLog, SyncLogFails, Insert, GiveUp, CheckFlushed,
         SwitchFails, disk
  <2>. QED  BY <1>0, <2>1
<1>2. CASE Reading \/ StartClose \/ EndClose \/ Kill \/ NewDB \/ Recover \/ OpenFails
  <2>1. table' = table
    BY <1>2 DEF Reading, StartGet, EndGet, GetSnapshot, ReleaseSnapshot, StartClose,
                EndClose, Kill, NewDB, Recover, OpenFails, disk
  <2>. QED  BY <1>0, <2>1
<1>3. CASE \/ BackgroundNothing \/ Flush \/ FlushWhileMerging \/ Compact \/ MergeStops
           \/ MergeFails \/ AppendToManifest \/ ManifestFails
  <2>1. table' = table
    BY <1>3 DEF BackgroundNothing, Flush, FlushWhileMerging, StartTable, Compact,
         MergeStops, MergeFails, MergeEnds, AppendToManifest, ManifestFails, disk
  <2>. QED  BY <1>0, <2>1
<1>4. CASE BuildTable \/ BuildTableFails
  <2>1. PICK ok \in BOOLEAN : Build(ok)  BY <1>4 DEF BuildTable, BuildTableFails
  <2>2. bg.num \in Nat  BY <1>0 DEF BgState
  <2>. QED  BY <1>0, <2>1, <2>2, BuildWrites, TableWrites
<1>5. CASE OpenOutput
  <2>1. table' = With(table, versions.next, [entries |-> {}, synced |-> FALSE])
    BY <1>5 DEF OpenOutput
  <2>. QED  BY <1>0, <2>1, TableWrites
<1>6. CASE FinishOutput
  <2>1. [entries |-> Merged(EntriesOf(Numbers(bg.inputs)), bg.smallest),
         synced |-> TRUE] \in TableFile
    BY <1>6, OutputWrites DEF TableFile
  <2>. QED  BY <1>0, <1>6, <2>1, OutputWrites DEF IsDirectory
<1>7. CASE InstallVersion \/ Opened
  <2>1. \E S : table' = Restricted(table, S) \/ table' = table
    BY <1>7, Zenon DEF InstallVersion, Opened, DeleteObsoleteFiles
  <2>. QED  BY <1>0, <2>1, DirectoryRestricted
<1>8. CASE NewManifest \/ SetCurrent
  <2>1. table' = table  BY <1>8 DEF NewManifest, SetCurrent
  <2>. QED  BY <1>0, <2>1
<1>9. CASE \E number \in recovery.logs : ReplayLog(number)
  <2>1. PICK number \in recovery.logs : ReplayLog(number)  BY <1>9
  <2>2. number \in DOMAIN log
    BY <2>1 DEF ReplayShape, ReplayLog, ReplayRecord, EndLog, Replaying
  <2>3. recovery.mem \in SUBSET Entry  BY DEF Typed, OpenOK
  <2>4. CASE ReplayRecord(number)
    <3>. DEFINE r == log[number].recs[recovery.pos + 1]
                m == recovery.mem \cup r.entries
                full == Cardinality(m) > WriteBufferSize
    <3>1. HasRecord(number) /\ WriteRecovered(m, full)  BY <2>4 DEF ReplayRecord
    <3>2. r \in Record  BY <2>2, <3>1, NextRecord
    <3>3. m \in SUBSET Entry  BY <2>3, <3>2 DEF Record
    <3>4. full \in BOOLEAN  OBVIOUS
    <3>. HIDE DEF m, full
    <3>. QED  BY <3>1, <3>3, <3>4, RecoveredWrites
  <2>5. CASE EndLog(number)
    <3>1. WriteRecovered(recovery.mem, recovery.mem # {})  BY <2>5 DEF EndLog
    <3>. QED  BY <2>3, <3>1, RecoveredWrites
  <2>. QED  BY <2>1, <2>4, <2>5 DEF ReplayLog
<1>10. CASE PowerLoss
  <2>1. \E S : table' = Restricted(table, S)  BY <1>10, Zenon DEF PowerLoss
  <2>. QED  BY <1>0, <2>1, DirectoryRestricted
<1>. QED
  BY <1>1, <1>2, <1>3, <1>4, <1>5, <1>6, <1>7, <1>8, <1>9, <1>10
     DEF Next, BackgroundCall, BackgroundFaults, Open, Reading

LEMMA ManifestKeepsType ==
  ASSUME Typed, Next
  PROVE  IsDirectory(manifest', Descriptor) /\ current' \in Nat
<1>0. /\ IsDirectory(manifest, Descriptor) /\ versions.manifest \in Nat /\ current \in Nat
      /\ DiskOK /\ BackgroundOK
  BY DEF Typed, DiskOK, OpenOK
<1>1. CASE \E t \in Writer : Submit(t) \/ Write(t) \/ WriteFaults(t)
  <2>1. manifest' = manifest /\ current' = current
    BY <1>1 DEF Submit, Write, WriteFaults, Refuse, Room, Wait, Switch, AddRecord,
         AddRecordFails, SyncLog, SyncLogFails, Insert, GiveUp, CheckFlushed,
         SwitchFails, disk
  <2>. QED  BY <1>0, <2>1
<1>2. CASE Reading \/ StartClose \/ EndClose \/ Kill \/ Recover
  <2>1. manifest' = manifest /\ current' = current
    BY <1>2 DEF Reading, StartGet, EndGet, GetSnapshot, ReleaseSnapshot, StartClose,
                EndClose, Kill, Recover, disk
  <2>. QED  BY <1>0, <2>1
<1>3. CASE \/ BackgroundNothing \/ Flush \/ FlushWhileMerging \/ Compact \/ MergeStops
           \/ MergeFails \/ BuildTable \/ BuildTableFails \/ OpenOutput \/ FinishOutput
  <2>1. manifest' = manifest /\ current' = current
    BY <1>3 DEF BackgroundNothing, Flush, FlushWhileMerging, StartTable, Compact,
         MergeStops, MergeFails, MergeEnds, BuildTable, BuildTableFails, Build, OpenOutput,
         FinishOutput, disk
  <2>. QED  BY <1>0, <2>1
<1>4. CASE AppendToManifest \/ ManifestFails
  <2>1. (manifest' = manifest \/ AppendEdit) /\ current' = current
    BY <1>4 DEF AppendToManifest, ManifestFails
  <2>. QED  BY <1>0, <2>1, EditAppended
<1>5. CASE InstallVersion
  <2>1. /\ \E S : manifest' = Restricted(SyncedManifest, S) \/ manifest' = SyncedManifest
        /\ current' = current
    BY <1>5, Zenon DEF InstallVersion, DeleteObsoleteFiles
  <2>. QED  BY <1>0, <2>1, ManifestSynced, DirectoryRestricted
<1>6. CASE Opened
  <2>1. /\ \E S : manifest' = Restricted(manifest, S) \/ manifest' = manifest
        /\ current' = current
    BY <1>6, Zenon DEF Opened, DeleteObsoleteFiles
  <2>. QED  BY <1>0, <2>1, DirectoryRestricted
<1>7. CASE NewDB
  <2>. DEFINE v == [EmptyVersion EXCEPT !.next = 2]
  <2>1. manifest' = With(manifest, 1, [states |-> <<v>>, synced |-> 0]) /\ current' = 1
    BY <1>7 DEF NewDB
  <2>2. v \in Version  BY DEF EmptyVersion, Version
  <2>. HIDE DEF v
  <2>3. <<v>> \in Seq(Version)  BY <2>2
  <2>4. [states |-> <<v>>, synced |-> 0] \in Descriptor  BY <2>3, MakeDescriptor
  <2>. QED  BY <1>0, <2>1, <2>4, DirectoryWith
<1>8. CASE NewManifest
  <2>. DEFINE v == versions'
              a == WriteSnapshot(versions.files)
              b == [files |-> v.files, log |-> v.log, next |-> v.next, last |-> v.last]
  <2>1. /\ manifest' = With(manifest, v.manifest, [states |-> <<a, b>>, synced |-> 0])
        /\ current' = current
        /\ v = [versions EXCEPT
              !.files = @ \cup recovery.add,
              !.log = versions.next,
              !.next = @ + 1,
              !.last = Larger(@, recovery.max)]
    BY <1>8 DEF NewManifest
  <2>2. /\ versions \in [files : SUBSET File, log : Nat, next : Nat, last : Nat,
                         manifest : Nat]
        /\ recovery.add \subseteq File /\ recovery.max \in Nat
    BY DEF Typed, OpenOK
  <2>3. a \in Version  BY <2>2 DEF WriteSnapshot, EmptyVersion, Version
  <2>4. v.manifest \in Nat /\ b \in Version
    BY <2>1, <2>2 DEF Larger, Version
  <2>. HIDE DEF a, b, v
  <2>5. <<a, b>> \in Seq(Version)  BY <2>3, <2>4
  <2>6. [states |-> <<a, b>>, synced |-> 0] \in Descriptor  BY <2>5, MakeDescriptor
  <2>. QED  BY <1>0, <2>1, <2>4, <2>6, DirectoryWith
<1>9. CASE SetCurrent
  <2>1. manifest' = SyncedManifest /\ current' = versions.manifest
    BY <1>9 DEF SetCurrent
  <2>. QED  BY <1>0, <2>1, ManifestSynced
<1>10. CASE OpenFails
  <2>1. /\ \E S : manifest' = Restricted(manifest, S) \/ manifest' = manifest
        /\ current' = current
    BY <1>10, Zenon DEF OpenFails
  <2>. QED  BY <1>0, <2>1, DirectoryRestricted
<1>11. CASE \E number \in recovery.logs : ReplayLog(number)
  <2>1. manifest' = manifest /\ current' = current
    BY <1>11 DEF ReplayLog, ReplayRecord, EndLog
  <2>. QED  BY <1>0, <2>1
<1>12. CASE PowerLoss
  <2>1. current' = current  BY <1>12 DEF PowerLoss
  <2>. QED  BY <1>0, <1>12, <2>1, PowerLossCuts
<1>. QED
  BY <1>1, <1>2, <1>3, <1>4, <1>5, <1>6, <1>7, <1>8, <1>9, <1>10, <1>11, <1>12
     DEF Next, BackgroundCall, BackgroundFaults, Open, Reading
LEMMA MemoryKeepsType ==
  ASSUME Typed, QueueInv, ReplayShape, Next
  PROVE  /\ mem' \subseteq Entry
         /\ imm' \in Seq(SUBSET Entry) /\ Len(imm') <= 1
         /\ PromisesOK'
<1>0. /\ mem \subseteq Entry /\ imm \in Seq(SUBSET Entry) /\ Len(imm) <= 1
      /\ group.entries \subseteq Entry
      /\ store \subseteq Entry /\ acked \subseteq Entry /\ durable \subseteq Entry
  BY DEF Typed, OpenOK, PromisesOK, QueueInv, GroupShape
<1>1. <<>> \in Seq(SUBSET Entry) /\ Len(<<>>) = 0  BY EmptySeq
<1>2. CASE \E t \in Writer : Submit(t) \/ Write(t) \/ WriteFaults(t)
  <2>0. PICK t \in Writer : Submit(t) \/ Write(t) \/ WriteFaults(t)  BY <1>2
  <2>1. CASE ~Switch(t) /\ ~Insert(t)
    <3>1. UNCHANGED <<mem, imm, store, acked, durable>>
      BY <2>0, <2>1 DEF Submit, Write, WriteFaults, Refuse, Room, Wait, AddRecord,
           AddRecordFails, SyncLog, SyncLogFails, GiveUp, CheckFlushed,
           SwitchFails, promises
    <3>. QED  BY <1>0, <3>1 DEF PromisesOK
  <2>2. CASE Switch(t)
    <3>1. imm' = <<mem>> /\ mem' = {} /\ UNCHANGED <<store, acked, durable>>
      BY <2>2 DEF Switch, promises
    <3>2. <<mem>> \in Seq(SUBSET Entry) /\ Len(<<mem>>) = 1  BY <1>0
    <3>. QED  BY <1>0, <3>1, <3>2 DEF PromisesOK
  <2>3. CASE Insert(t)
    <3>1. /\ mem' = mem \cup group.entries /\ imm' = imm
          /\ store' = store \cup group.entries
          /\ acked' = acked \cup group.entries
          /\ durable' \in {durable, durable \cup group.entries}
      BY <2>3 DEF Insert
    <3>. QED  BY <1>0, <3>1 DEF PromisesOK
  <2>. QED  BY <2>1, <2>2, <2>3
<1>3. CASE Reading \/ StartClose \/ NewDB \/ Recover
  <2>1. UNCHANGED <<mem, imm, store, acked, durable>>
    BY <1>3 DEF Reading, StartGet, EndGet, GetSnapshot, ReleaseSnapshot, StartClose,
                NewDB, Recover, promises
  <2>. QED  BY <1>0, <2>1 DEF PromisesOK
<1>4. CASE BackgroundCall \/ BackgroundFaults
  <2>1. /\ UNCHANGED <<mem, store, acked, durable>>
        /\ imm' \in {imm, <<>>}
    BY <1>4 DEF BackgroundCall, BackgroundFaults, BackgroundNothing, Flush,
           FlushWhileMerging, StartTable, BuildTable, BuildTableFails, Build, Compact,
           OpenOutput, FinishOutput, MergeStops, MergeFails, MergeEnds, AppendToManifest,
           ManifestFails, InstallVersion, promises
  <2>2. PromisesOK' /\ mem' \subseteq Entry  BY <1>0, <2>1 DEF PromisesOK
  <2>3. CASE imm' = imm  BY ONLY <1>0, <2>2, <2>3
  <2>4. CASE imm' = <<>>  BY ONLY <1>0, <1>1, <2>2, <2>4
  <2>. QED  BY <2>1, <2>3, <2>4
<1>5. CASE Open
  <2>1. /\ UNCHANGED <<mem, imm, acked, durable>>
        /\ store' = store \/ (store' = EntriesOf(Numbers(versions.files)))
    BY <1>5 DEF Open, ReplayLog, ReplayRecord, EndLog, NewManifest, SetCurrent, Opened,
                promises
  <2>2. EntriesOf(Numbers(versions.files)) \subseteq Entry  BY EntriesTyped DEF Typed
  <2>. QED  BY <1>0, <2>1, <2>2 DEF PromisesOK
<1>6. CASE OpenFails \/ EndClose \/ Kill \/ PowerLoss
  <2>1. /\ Reset /\ durable' = durable
        /\ acked' \in {acked, durable}
    BY <1>6 DEF OpenFails, EndClose, Kill, PowerLoss
  <2>. QED  BY <1>0, <1>1, <2>1 DEF PromisesOK, Reset
<1>. QED  BY <1>2, <1>3, <1>4, <1>5, <1>6 DEF Next, Reading

VersionSetState ==
  [files : SUBSET File, log : Nat, next : Nat, last : Nat, manifest : Nat]

RecoveryState ==
  [logs : SUBSET Nat, pos : Nat, mem : SUBSET Entry, add : SUBSET File, max : Nat]

VersionsOK == versions \in VersionSetState

RecoveryOK == recovery \in RecoveryState

LEMMA RecoveryExcept ==
  ASSUME NEW r \in RecoveryState, NEW l \in SUBSET Nat, NEW p \in Nat,
         NEW m \in SUBSET Entry, NEW a \in SUBSET File, NEW x \in Nat
  PROVE  [r EXCEPT !.logs = l, !.pos = p, !.mem = m, !.add = a, !.max = x]
           \in RecoveryState
BY DEF RecoveryState

LEMMA VersionsExcept ==
  ASSUME NEW v \in VersionSetState, NEW f \in SUBSET File, NEW l \in Nat,
         NEW n \in Nat, NEW s \in Nat
  PROVE  [v EXCEPT !.files = f, !.log = l, !.next = n, !.last = s] \in VersionSetState
BY DEF VersionSetState

LEMMA DescribedTyped ==
  ASSUME DiskOK, current # 0 => current \in DOMAIN manifest, current # 0
  PROVE  Described \in Version
<1>1. manifest[current] \in Descriptor  BY DEF DiskOK, IsDirectory
<1>. QED  BY <1>1, LastStateTyped DEF Described

LEMMA LogsFromTyped ==
  ASSUME DiskOK, NEW n
  PROVE  LogsFrom(n) \in SUBSET Nat
BY DEF DiskOK, IsDirectory, LogsFrom

LEMMA FileIs ==
  ASSUME NEW level \in {0, 1}, NEW n \in Nat
  PROVE  <<level, n>> \in File /\ <<level, n>>[1] = level /\ <<level, n>>[2] = n
BY DEF File

LEMMA OpeningKeepsType ==
  ASSUME Typed, QueueInv, ReplayShape, current # 0 => current \in DOMAIN manifest, Next
  PROVE  /\ db' \in {"closed", "replay", "switch", "clean", "open", "closing"}
         /\ VersionsOK' /\ RecoveryOK' /\ logfile' \in Nat
<1>0. /\ db \in {"closed", "replay", "switch", "clean", "open", "closing"}
      /\ versions \in [files : SUBSET File, log : Nat, next : Nat, last : Nat,
                       manifest : Nat]
      /\ recovery \in [logs : SUBSET Nat, pos : Nat, mem : SUBSET Entry,
                       add : SUBSET File, max : Nat]
      /\ logfile \in Nat /\ DiskOK
      /\ bg \in BgState
      /\ group.last \in Nat
  BY DEF Typed, OpenOK, BackgroundOK, BgState, QueueInv, GroupShape
<1>1. /\ versions.next \in Nat /\ versions.last \in Nat /\ versions.files \in SUBSET File
      /\ versions.next + 1 \in Nat
  BY <1>0
<1>2. CASE \E t \in Writer : Submit(t) \/ Write(t) \/ WriteFaults(t)
  <2>0. PICK t \in Writer : Submit(t) \/ Write(t) \/ WriteFaults(t)  BY <1>2
  <2>1. CASE ~Switch(t) /\ ~Insert(t) /\ ~GiveUp(t)
    <3>1. UNCHANGED <<db, versions, recovery, logfile>>
      BY <2>0, <2>1 DEF Submit, Write, WriteFaults, Refuse, Room, Wait, AddRecord,
           AddRecordFails, SyncLog, SyncLogFails, CheckFlushed, SwitchFails
    <3>. QED  BY <1>0, <3>1 DEF VersionsOK, VersionSetState, RecoveryOK, RecoveryState
  <2>2. CASE Switch(t)
    <3>1. /\ UNCHANGED <<db, recovery>> /\ logfile' = versions.next
          /\ versions' = [versions EXCEPT !.next = @ + 1]
      BY <2>2 DEF Switch
    <3>. QED  BY <1>0, <1>1, <3>1 DEF VersionsOK, VersionSetState, RecoveryOK, RecoveryState
  <2>3. CASE Insert(t) \/ GiveUp(t)
    <3>1. /\ UNCHANGED <<db, recovery, logfile>>
          /\ versions' = [versions EXCEPT !.last = group.last]
      BY <2>3 DEF Insert, GiveUp, Commit
    <3>. QED  BY <1>0, <1>1, <3>1 DEF VersionsOK, VersionSetState, RecoveryOK, RecoveryState
  <2>. QED  BY <2>1, <2>2, <2>3
<1>3. CASE Reading \/ StartClose \/ NewDB
  <2>1. UNCHANGED <<versions, recovery, logfile>> /\ db' \in {db, "closing"}
    BY <1>3 DEF Reading, StartGet, EndGet, GetSnapshot, ReleaseSnapshot, StartClose, NewDB
  <2>. QED  BY <1>0, <2>1 DEF VersionsOK, VersionSetState, RecoveryOK, RecoveryState
<1>4. CASE BackgroundCall \/ BackgroundFaults
  <2>1. UNCHANGED <<db, recovery, logfile>>
    BY <1>4 DEF BackgroundCall, BackgroundFaults, BackgroundNothing, Flush,
           FlushWhileMerging, StartTable, BuildTable, BuildTableFails, Build, Compact,
           OpenOutput, FinishOutput, MergeStops, MergeFails, MergeEnds, AppendToManifest,
           ManifestFails, InstallVersion
  <2>2. \/ versions' = versions
        \/ versions' = [versions EXCEPT !.next = @ + 1]
        \/ versions' = [versions EXCEPT !.files = (@ \ bg.edit.del) \cup bg.edit.add,
                                        !.log = bg.edit.log]
    BY <1>4 DEF BackgroundCall, BackgroundFaults, BackgroundNothing, Flush,
           FlushWhileMerging, StartTable, BuildTable, BuildTableFails, Build, Compact,
           OpenOutput, FinishOutput, MergeStops, MergeFails, MergeEnds, AppendToManifest,
           ManifestFails, InstallVersion
  <2>3. bg.edit.add \subseteq File /\ bg.edit.log \in Nat
    BY <1>0 DEF BgState, Edit
  <2>4. VersionsOK'  BY <1>0, <1>1, <2>2, <2>3 DEF VersionsOK, VersionSetState
  <2>. QED  BY <1>0, <2>1, <2>4 DEF RecoveryOK, RecoveryState
<1>5. CASE Recover
  <2>1. /\ versions' = [files |-> Described.files, log |-> Described.log,
                        next |-> Described.next + 1, last |-> Described.last,
                        manifest |-> Described.next]
        /\ recovery' = [NoRecovery EXCEPT !.logs = LogsFrom(Described.log)]
        /\ db' = "replay" /\ logfile' = logfile /\ current # 0
    BY <1>5 DEF Recover
  <2>2. Described \in Version  BY <1>0, <2>1, DescribedTyped
  <2>3. LogsFrom(Described.log) \in SUBSET Nat  BY <1>0, LogsFromTyped
  <2>4. VersionsOK'  BY <2>1, <2>2 DEF VersionsOK, VersionSetState, Version
  <2>5. RecoveryOK'  BY <2>1, <2>3 DEF RecoveryOK, RecoveryState, NoRecovery
  <2>. QED  BY <1>0, <2>1, <2>4, <2>5
<1>6. CASE \E number \in recovery.logs : ReplayLog(number)
  <2>0. PICK number \in recovery.logs : ReplayLog(number)  BY <1>6
  <2>1. number \in DOMAIN log /\ number \in Nat
    BY <1>0, <2>0 DEF ReplayShape, ReplayLog, ReplayRecord, EndLog, Replaying
  <2>2. <<0, versions.next>> \in File  BY <1>1, FileIs
  <2>3. \A w \in BOOLEAN : Recovered(w) \in SUBSET File
    BY <1>0, <2>2 DEF Recovered
  <2>4. CASE ReplayRecord(number)
    <3>. DEFINE r == log[number].recs[recovery.pos + 1]
                m == recovery.mem \cup r.entries
                full == Cardinality(m) > WriteBufferSize
                rest == IF full THEN {} ELSE m
                add == Recovered(full)
                max == Larger(recovery.max, r.last)
                next == IF full THEN versions.next + 1 ELSE versions.next
    <3>1. /\ HasRecord(number)
          /\ versions' = [versions EXCEPT !.next = next]
          /\ recovery' = [recovery EXCEPT !.pos = @ + 1, !.mem = rest, !.add = add,
                                          !.max = max]
          /\ UNCHANGED <<db, logfile>>
      BY <2>4 DEF ReplayRecord
    <3>2. r \in Record  BY <2>1, <3>1, NextRecord
    <3>3. m \in SUBSET Entry /\ r.last \in Nat  BY <1>0, <3>2 DEF Record
    <3>4. full \in BOOLEAN  OBVIOUS
    <3>5. add \in SUBSET File  BY <2>3, <3>4
    <3>6. max \in Nat /\ rest \in SUBSET Entry /\ next \in Nat
      BY <1>0, <1>1, <3>3 DEF Larger
    <3>. HIDE DEF m, full, r, rest, add, max, next
    <3>7. VersionsOK'  BY <1>0, <3>1, <3>6 DEF VersionsOK, VersionSetState
    <3>8. RecoveryOK'
      <4>. DEFINE pos == recovery.pos + 1
      <4>1. recovery' = [recovery EXCEPT !.logs = recovery.logs, !.pos = pos,
                                        !.mem = rest, !.add = add, !.max = max]
        BY <1>0, <3>1
      <4>2. pos \in Nat  BY <1>0
      <4>. HIDE DEF pos
      <4>3. recovery \in RecoveryState /\ recovery.logs \in SUBSET Nat
        BY <1>0 DEF RecoveryState
      <4>4. rest \in SUBSET Entry /\ max \in Nat  BY <3>6
      <4>. QED  BY ONLY <3>5, <4>1, <4>2, <4>3, <4>4, RecoveryExcept, Zenon DEF RecoveryOK
    <3>. QED  BY <1>0, <3>1, <3>7, <3>8
  <2>5. CASE EndLog(number)
    <3>. DEFINE rest == recovery.mem # {}
                next == MarkFileNumberUsed(IF rest THEN versions.next + 1 ELSE versions.next,
                                           number)
    <3>1. /\ versions' = [versions EXCEPT !.next = next]
          /\ recovery' = [recovery EXCEPT
              !.logs = @ \ {number},
              !.pos = 0,
              !.mem = {},
              !.add = Recovered(rest)]
          /\ UNCHANGED <<db, logfile>>
      BY <2>5 DEF EndLog
    <3>2. next \in Nat  BY <1>1, <2>1 DEF MarkFileNumberUsed, Larger
    <3>3. Recovered(rest) \in SUBSET File  BY <2>3
    <3>. HIDE DEF rest, next
    <3>4. VersionsOK'  BY <1>0, <3>1, <3>2 DEF VersionsOK, VersionSetState
    <3>5. RecoveryOK'  BY <1>0, <3>1, <3>3 DEF RecoveryOK, RecoveryState
    <3>. QED  BY <1>0, <3>1, <3>4, <3>5
  <2>. QED  BY <2>0, <2>4, <2>5 DEF ReplayLog
<1>7. CASE NewManifest
  <2>. DEFINE last == Larger(versions.last, recovery.max)
  <2>1. /\ versions' = [versions EXCEPT
              !.files = @ \cup recovery.add,
              !.log = versions.next,
              !.next = @ + 1,
              !.last = last]
        /\ logfile' = versions'.log /\ recovery' = recovery /\ db' = "switch"
    BY <1>7 DEF NewManifest
  <2>2. last \in Nat  BY <1>0 DEF Larger
  <2>. HIDE DEF last
  <2>. DEFINE files == versions.files \cup recovery.add
              next == versions.next + 1
  <2>3. versions' = [versions EXCEPT !.files = files, !.log = versions.next,
                                    !.next = next, !.last = last]
    BY <2>1
  <2>4. /\ files \in SUBSET File /\ next \in Nat /\ versions.next \in Nat
        /\ versions.manifest \in Nat
    BY <1>0
  <2>. HIDE DEF files, next
  <2>5. versions \in VersionSetState  BY <1>0 DEF VersionSetState
  <2>6. VersionsOK'
    BY ONLY <2>2, <2>3, <2>4, <2>5, VersionsExcept, Zenon DEF VersionsOK
  <2>7. versions'.log = versions.next
    <3>. DEFINE w == [versions EXCEPT !.files = files, !.log = versions.next,
                                      !.next = next, !.last = last]
    <3>1. w.log = versions.next
      BY ONLY <2>2, <2>4, <2>5 DEF VersionSetState
    <3>2. versions' = w  BY ONLY <2>3
    <3>. HIDE DEF w
    <3>. QED  BY ONLY <3>1, <3>2
  <2>8. logfile' = versions'.log /\ recovery' = recovery /\ db' = "switch"  BY <2>1
  <2>. QED  BY ONLY <1>0, <2>4, <2>6, <2>7, <2>8 DEF RecoveryOK, RecoveryState
<1>8. CASE SetCurrent \/ Opened
  <2>1. UNCHANGED <<versions, logfile>> /\ recovery' \in {recovery, NoRecovery}
        /\ db' \in {"clean", "open"}
    BY <1>8 DEF SetCurrent, Opened
  <2>. QED  BY <1>0, <2>1, IdleTyped DEF VersionsOK, VersionSetState, RecoveryOK, RecoveryState
<1>9. CASE OpenFails \/ EndClose \/ Kill \/ PowerLoss
  <2>1. Reset  BY <1>9 DEF OpenFails, EndClose, Kill, PowerLoss
  <2>. QED  BY <2>1, IdleTyped DEF VersionsOK, VersionSetState, RecoveryOK, RecoveryState, Reset
<1>. QED
  BY <1>2, <1>3, <1>4, <1>5, <1>6, <1>7, <1>8, <1>9 DEF Next, Reading, Open
LEMMA BudgetSpent ==
  ASSUME NEW b \in Budget
  PROVE  /\ b.writes > 0 => [b EXCEPT !.writes = @ - 1] \in Budget
         /\ b.opens > 0 => [b EXCEPT !.opens = @ - 1] \in Budget
         /\ b.gets > 0 => [b EXCEPT !.gets = @ - 1] \in Budget
         /\ \A kind : b.faults[kind] > 0 => [b EXCEPT !.faults[kind] = @ - 1] \in Budget
<1>1. b.writes > 0 => [b EXCEPT !.writes = @ - 1] \in Budget  BY DEF Budget
<1>2. b.opens > 0 => [b EXCEPT !.opens = @ - 1] \in Budget  BY DEF Budget
<1>3. b.gets > 0 => [b EXCEPT !.gets = @ - 1] \in Budget  BY DEF Budget
<1>4. ASSUME NEW kind, b.faults[kind] > 0
      PROVE  [b EXCEPT !.faults[kind] = @ - 1] \in Budget
  <2>1. b.faults \in [FaultKinds -> Nat]  BY DEF Budget
  <2>2. [b.faults EXCEPT ![kind] = @ - 1] \in [FaultKinds -> Nat]
    <3>1. CASE kind \in FaultKinds
      <4>1. b.faults[kind] \in Nat  BY <2>1, <3>1
      <4>2. b.faults[kind] - 1 \in Nat  BY <1>4, <4>1
      <4>. QED  BY <2>1, <3>1, <4>2
    <3>2. CASE kind \notin FaultKinds
      <4>1. [b.faults EXCEPT ![kind] = @ - 1] = b.faults  BY <2>1, <3>2
      <4>. QED  BY <2>1, <4>1
    <3>. QED  BY <3>1, <3>2
  <2>. QED  BY <2>2 DEF Budget
<1>. QED  BY <1>1, <1>2, <1>3, <1>4

BudgetMoves ==
  \/ budget' = budget
  \/ budget.writes > 0 /\ budget' = [budget EXCEPT !.writes = @ - 1]
  \/ budget.opens > 0 /\ budget' = [budget EXCEPT !.opens = @ - 1]
  \/ budget.gets > 0 /\ budget' = [budget EXCEPT !.gets = @ - 1]
  \/ \E kind :
       budget.faults[kind] > 0 /\ budget' = [budget EXCEPT !.faults[kind] = @ - 1]

LEMMA BudgetStep ==
  ASSUME Next
  PROVE  BudgetMoves
<1>1. \A kind : Fault(kind) => BudgetMoves  BY DEF Fault, BudgetMoves
<1>2. budget' = budget => BudgetMoves  BY DEF BudgetMoves
<1>3. ASSUME NEW t \in Writer, Submit(t)
      PROVE  BudgetMoves
  BY <1>3 DEF Submit, BudgetMoves
<1>4. ASSUME NEW t \in Writer, Write(t)
      PROVE  BudgetMoves
  BY <1>2, <1>4 DEF Write, Refuse, Room, Wait, Switch, AddRecord, SyncLog, Insert,
       GiveUp, CheckFlushed
<1>5. ASSUME NEW t \in Writer, WriteFaults(t)
      PROVE  BudgetMoves
  BY <1>1, <1>5 DEF WriteFaults, SwitchFails, AddRecordFails, SyncLogFails
<1>6. CASE Reading
  BY <1>6 DEF BudgetMoves, Reading, StartGet, EndGet, GetSnapshot, ReleaseSnapshot
<1>7. CASE BackgroundCall
  <2>1. CASE BackgroundNothing \/ Flush \/ FlushWhileMerging
    BY <1>2, <2>1 DEF BackgroundNothing, Flush, FlushWhileMerging, StartTable
  <2>2. CASE BuildTable \/ Compact \/ OpenOutput
    <3>1. CASE BuildTable  BY <1>2, <3>1 DEF BuildTable
    <3>2. CASE Compact
      <4>1. budget' = budget  BY <3>2 DEF Compact
      <4>. QED  BY <1>2, <4>1
    <3>3. CASE OpenOutput
      <4>1. budget' = budget  BY <3>3 DEF OpenOutput
      <4>. QED  BY <1>2, <4>1
    <3>. QED  BY <2>2, <3>1, <3>2, <3>3
  <2>3. CASE FinishOutput \/ MergeStops
    BY <1>2, <2>3 DEF FinishOutput, MergeStops
  <2>4. CASE AppendToManifest \/ InstallVersion
    BY <1>2, <2>4 DEF AppendToManifest, InstallVersion
  <2>. QED  BY <1>7, <2>1, <2>2, <2>3, <2>4 DEF BackgroundCall
<1>8. CASE BackgroundFaults
  BY <1>1, <1>8 DEF BackgroundFaults, BuildTableFails, MergeFails, ManifestFails
<1>9. CASE NewDB \/ StartClose \/ EndClose
  BY <1>2, <1>9 DEF NewDB, StartClose, EndClose
<1>10. CASE Recover
  BY <1>10 DEF BudgetMoves, Recover
<1>11. CASE Open
  <2>1. ASSUME NEW number, ReplayRecord(number) \/ EndLog(number)
        PROVE  BudgetMoves
    BY <1>2, <2>1 DEF ReplayRecord, EndLog
  <2>2. CASE NewManifest \/ SetCurrent \/ Opened
    BY <1>2, <2>2 DEF NewManifest, SetCurrent, Opened
  <2>. QED  BY <1>11, <2>1, <2>2 DEF Open, ReplayLog
<1>12. CASE OpenFails \/ Kill \/ PowerLoss
  BY <1>1, <1>12 DEF OpenFails, Kill, PowerLoss
<1>. QED
  BY <1>3, <1>4, <1>5, <1>6, <1>7, <1>8, <1>9, <1>10, <1>11, <1>12 DEF Next, Reading

LEMMA BudgetKeepsType ==
  ASSUME budget \in Budget, Next
  PROVE  budget' \in Budget
BY BudgetStep, BudgetSpent, Zenon DEF BudgetMoves

ReaderState == [on : BOOLEAN, snap : Nat, seen : SUBSET Entry, files : SUBSET Nat]

LEMMA ReadersKeepType ==
  ASSUME Typed, Next
  PROVE  snapshots' \subseteq Nat /\ reader' \in ReaderState
<1>0. snapshots \subseteq Nat /\ reader \in ReaderState /\ versions.last \in Nat
      /\ versions.files \in SUBSET File /\ mem \subseteq Entry /\ ImmEntries \subseteq Entry
  BY ImmTyped DEF Typed, ClientsOK, OpenOK, ReaderState
<1>1. CASE StartGet
  <2>1. PICK n \in snapshots \cup {versions.last} :
          reader' = [on |-> TRUE, snap |-> n,
                     seen |-> {e \in mem \cup ImmEntries : e.s <= n},
                     files |-> Numbers(versions.files)]
    BY <1>1 DEF StartGet
  <2>2. snapshots' = snapshots  BY <1>1 DEF StartGet
  <2>3. Numbers(versions.files) \in SUBSET Nat  BY <1>0, NumbersTyped
  <2>4. {e \in mem \cup ImmEntries : e.s <= n} \in SUBSET Entry  BY <1>0
  <2>5. n \in Nat  BY <1>0
  <2>. HIDE DEF Numbers, ImmEntries
  <2>. QED  BY ONLY <1>0, <2>1, <2>2, <2>3, <2>4, <2>5 DEF ReaderState
<1>2. CASE EndGet \/ GetSnapshot \/ ReleaseSnapshot
  <2>1. reader' \in {reader, NoReader} /\ snapshots' \subseteq snapshots \cup {versions.last}
    BY <1>2 DEF EndGet, GetSnapshot, ReleaseSnapshot
  <2>. QED  BY <1>0, <2>1, IdleTyped DEF ReaderState
<1>3. CASE OpenFails \/ EndClose \/ Kill \/ PowerLoss
  <2>1. Reset  BY <1>3 DEF OpenFails, EndClose, Kill, PowerLoss
  <2>. QED  BY <2>1, IdleTyped DEF ReaderState, Reset
<1>4. CASE \/ \E t \in Writer : Submit(t) \/ Write(t) \/ WriteFaults(t)
           \/ BackgroundCall \/ BackgroundFaults
           \/ NewDB \/ Recover \/ Open \/ StartClose
  <2>1. UNCHANGED <<snapshots, reader>>
    <3>1. CASE \E t \in Writer : Submit(t) \/ Write(t) \/ WriteFaults(t)
      BY <3>1 DEF Submit, Write, WriteFaults, Refuse, Room, Wait, Switch,
         AddRecord, AddRecordFails, SyncLog, SyncLogFails, Insert, GiveUp, CheckFlushed,
         SwitchFails
    <3>2. CASE BackgroundCall \/ BackgroundFaults
      BY <3>2 DEF BackgroundCall, BackgroundFaults, BackgroundNothing, Flush,
         FlushWhileMerging, StartTable, BuildTable, BuildTableFails, Build, Compact,
         OpenOutput, FinishOutput, MergeStops, MergeFails, MergeEnds, AppendToManifest,
         ManifestFails, InstallVersion, client
    <3>3. CASE NewDB \/ Recover \/ Open \/ StartClose
      BY <3>3 DEF NewDB, Recover, Open, ReplayLog, ReplayRecord, EndLog,
         NewManifest, SetCurrent, Opened, StartClose, client, Processless
    <3>. QED  BY <1>4, <3>1, <3>2, <3>3
  <2>. QED  BY <1>0, <2>1
<1>. QED  BY <1>1, <1>2, <1>3, <1>4 DEF Next
LEMMA SchedulesTyped ==
  ASSUME NEW a \in BOOLEAN, NEW b, NEW c, NEW d, NEW e
  PROVE  Schedules(a, b, c, d, e) \in BOOLEAN
BY Zenon DEF Schedules

LEMMA BgMoves ==
  ASSUME NEW b \in BgState
  PROVE  /\ \A pc \in {"idle", "build", "merge", "write", "append", "sync"} :
              [b EXCEPT !.pc = pc] \in BgState
         /\ \A pc \in {"idle", "build", "merge", "write", "append", "sync"},
              back \in {"idle", "merge", "write"}, n \in Nat :
              [b EXCEPT !.pc = pc, !.back = back, !.num = n] \in BgState
         /\ \A e \in Edit : [b EXCEPT !.pc = "append", !.edit = e] \in BgState
         /\ \A e \in Edit :
              [b EXCEPT !.pc = "append", !.back = "idle", !.edit = e] \in BgState
         /\ \A n \in Nat : [b EXCEPT !.pc = "write", !.out = n] \in BgState
         /\ \A i \in SUBSET File, n \in Nat :
              [b EXCEPT !.pc = "merge", !.inputs = i, !.smallest = n] \in BgState
<1>1. \A pc \in {"idle", "build", "merge", "write", "append", "sync"} :
        [b EXCEPT !.pc = pc] \in BgState
  BY DEF BgState
<1>2. \A pc \in {"idle", "build", "merge", "write", "append", "sync"},
        back \in {"idle", "merge", "write"}, n \in Nat :
        [b EXCEPT !.pc = pc, !.back = back, !.num = n] \in BgState
  BY DEF BgState
<1>3. \A e \in Edit : [b EXCEPT !.pc = "append", !.edit = e] \in BgState
  BY DEF BgState
<1>4. \A e \in Edit : [b EXCEPT !.pc = "append", !.back = "idle", !.edit = e] \in BgState
  BY DEF BgState
<1>5. \A n \in Nat : [b EXCEPT !.pc = "write", !.out = n] \in BgState
  BY DEF BgState
<1>6. \A i \in SUBSET File, n \in Nat :
        [b EXCEPT !.pc = "merge", !.inputs = i, !.smallest = n] \in BgState
  BY DEF BgState
<1>. QED  BY ONLY <1>1, <1>2, <1>3, <1>4, <1>5, <1>6, Zenon

LEMMA EditTyped ==
  ASSUME OpenOK, NEW a \in SUBSET File, NEW d \in SUBSET File, NEW l \in Nat
  PROVE  LogAndApply(a, d, l) \in Edit
<1>1. versions.next \in Nat /\ versions.last \in Nat  BY DEF OpenOK
<1>. QED  BY <1>1 DEF LogAndApply, Edit

LEMMA LevelTyped == \A E : LevelFor(E) \in {0, 1}
BY DEF LevelFor

Flags == {bgError, scheduled, shuttingDown} \subseteq BOOLEAN

LEMMA JobFailsKeepsType ==
  ASSUME Typed, NEW outputs, JobFails(outputs), shuttingDown' = shuttingDown
  PROVE  Flags' /\ pending' \subseteq Nat /\ bg' \in BgState
<1>0. Flags /\ pending \subseteq Nat /\ bg \in BgState
  BY DEF Typed, BackgroundOK, BgState, Flags
<1>1. bgError' = TRUE /\ pending' = pending \ outputs  BY DEF JobFails
<1>2. CASE bg.back = "idle"
  <2>1. bg' = IdleBg
        /\ scheduled' = Schedules(FALSE, TRUE, shuttingDown, imm, versions.files)
    BY <1>2 DEF JobFails, EndCall
  <2>2. scheduled' \in BOOLEAN  BY <2>1, SchedulesTyped
  <2>. QED  BY <1>0, <1>1, <2>1, <2>2, IdleBgTyped DEF Flags
<1>3. CASE bg.back # "idle"
  <2>1. /\ bg' = [bg EXCEPT !.pc = bg.back, !.back = "idle", !.num = 0]
        /\ scheduled' = scheduled
    BY <1>3 DEF JobFails
  <2>2. bg.back \in {"idle", "build", "merge", "write", "append", "sync"}
    BY <1>0 DEF BgState
  <2>3. bg' \in BgState  BY ONLY <1>0, <2>1, <2>2, BgMoves, Zenon
  <2>. QED  BY <1>0, <1>1, <2>1, <2>3 DEF Flags
<1>. QED  BY <1>2, <1>3

LEMMA JobsKeepType ==
  ASSUME Typed, BackgroundCall \/ BackgroundFaults
  PROVE  Flags' /\ pending' \subseteq Nat /\ bg' \in BgState
<1>0. /\ Flags /\ pending \subseteq Nat /\ bg \in BgState
      /\ versions.next \in Nat /\ versions.files \in SUBSET File /\ versions.log \in Nat
      /\ versions.last \in Nat /\ logfile \in Nat /\ snapshots \subseteq Nat
  BY DEF Typed, BackgroundOK, BgState, Flags, OpenOK, ClientsOK
<1>1. CASE BackgroundNothing
  <2>1. /\ UNCHANGED <<pending, bgError, shuttingDown>> /\ bg' = IdleBg
        /\ scheduled' = Schedules(FALSE, bgError, shuttingDown, imm, versions.files)
    BY <1>1 DEF BackgroundNothing, EndCall
  <2>2. scheduled' \in BOOLEAN  BY <2>1, SchedulesTyped
  <2>. QED  BY <1>0, <2>1, <2>2, IdleBgTyped DEF Flags
<1>2. CASE Flush \/ FlushWhileMerging
  <2>1. PICK back \in {"idle", "merge", "write"} : StartTable(back)
    BY <1>2 DEF Flush, FlushWhileMerging
  <2>2. /\ UNCHANGED <<bgError, scheduled, shuttingDown>>
        /\ pending' = pending \cup {versions.next}
        /\ bg' = [bg EXCEPT !.pc = "build", !.back = back, !.num = versions.next]
    BY <2>1 DEF StartTable
  <2>3. bg' \in BgState  BY ONLY <1>0, <2>2, BgMoves, Zenon
  <2>. QED  BY <1>0, <2>2, <2>3 DEF Flags
<1>3. CASE BuildTable \/ BuildTableFails
  <2>1. PICK ok \in BOOLEAN : Build(ok)  BY <1>3 DEF BuildTable, BuildTableFails
  <2>2. CASE ok /\ ~shuttingDown
    <3>. DEFINE add == IF imm[1] = {} THEN {} ELSE {<<LevelFor(imm[1]), bg.num>>}
                e == LogAndApply(add, {}, logfile)
    <3>1. /\ bg' = [bg EXCEPT !.pc = "append", !.edit = e]
          /\ pending' = pending \ {bg.num}
          /\ UNCHANGED <<bgError, scheduled, shuttingDown>>
      BY <2>1, <2>2 DEF Build
    <3>2. add \in SUBSET File
      <4>1. LevelFor(imm[1]) \in {0, 1} /\ bg.num \in Nat  BY <1>0, LevelTyped DEF BgState
      <4>. QED  BY <4>1, FileIs
    <3>. HIDE DEF add
    <3>3. e \in Edit  BY <1>0, <3>2, EditTyped DEF Typed
    <3>. HIDE DEF e
    <3>4. bg' \in BgState  BY ONLY <1>0, <3>1, <3>3, BgMoves, Zenon
    <3>. QED  BY <1>0, <3>1, <3>4 DEF Flags
  <2>3. CASE ~(ok /\ ~shuttingDown)
    <3>1. JobFails({bg.num}) /\ shuttingDown' = shuttingDown  BY <2>1, <2>3 DEF Build
    <3>. QED  BY <3>1, JobFailsKeepsType
  <2>. QED  BY <2>2, <2>3
<1>4. CASE Compact
  <2>1. PICK n \in snapshots \cup {versions.last} :
          bg' = [bg EXCEPT !.pc = "merge", !.inputs = versions.files, !.smallest = n]
    BY <1>4 DEF Compact
  <2>2. UNCHANGED <<pending, bgError, scheduled, shuttingDown>>  BY <1>4 DEF Compact
  <2>3. n \in Nat  BY <1>0
  <2>4. bg' \in BgState  BY ONLY <1>0, <2>1, <2>3, BgMoves, Zenon
  <2>. QED  BY <1>0, <2>2, <2>4 DEF Flags
<1>5. CASE OpenOutput
  <2>1. /\ UNCHANGED <<bgError, scheduled, shuttingDown>>
        /\ pending' = pending \cup {versions.next}
        /\ bg' = [bg EXCEPT !.pc = "write", !.out = versions.next]
    BY <1>5 DEF OpenOutput
  <2>2. bg' \in BgState  BY ONLY <1>0, <2>1, BgMoves, Zenon
  <2>. QED  BY <1>0, <2>1, <2>2 DEF Flags
<1>6. CASE FinishOutput
  <2>. DEFINE e == LogAndApply({<<1, bg.out>>}, bg.inputs, versions.log)
  <2>1. /\ UNCHANGED <<pending, bgError, scheduled, shuttingDown>>
        /\ bg' = [bg EXCEPT !.pc = "append", !.back = "idle", !.edit = e]
    BY <1>6 DEF FinishOutput
  <2>2. bg.out \in Nat /\ bg.inputs \in SUBSET File  BY <1>0 DEF BgState
  <2>3. {<<1, bg.out>>} \in SUBSET File  BY <2>2, FileIs
  <2>4. e \in Edit  BY <1>0, <2>2, <2>3, EditTyped DEF Typed
  <2>. HIDE DEF e
  <2>5. bg' \in BgState  BY ONLY <1>0, <2>1, <2>4, BgMoves, Zenon
  <2>. QED  BY <1>0, <2>1, <2>5 DEF Flags
<1>7. CASE MergeStops \/ MergeFails \/ ManifestFails
  <2>1. PICK outputs : JobFails(outputs)
    BY <1>7, Zenon DEF MergeStops, MergeFails, MergeEnds, ManifestFails
  <2>2. shuttingDown' = shuttingDown
    BY <1>7 DEF MergeStops, MergeFails, MergeEnds, ManifestFails
  <2>. QED  BY <2>1, <2>2, JobFailsKeepsType
<1>8. CASE AppendToManifest
  <2>1. /\ UNCHANGED <<pending, bgError, scheduled, shuttingDown>>
        /\ bg' = [bg EXCEPT !.pc = "sync"]
    BY <1>8 DEF AppendToManifest
  <2>2. bg' \in BgState  BY ONLY <1>0, <2>1, BgMoves, Zenon
  <2>. QED  BY <1>0, <2>1, <2>2 DEF Flags
<1>9. CASE InstallVersion
  <2>1. UNCHANGED <<bgError, shuttingDown>> /\ pending' \subseteq pending
    BY <1>9 DEF InstallVersion
  <2>2. CASE bg.back # "idle"
    <3>1. scheduled' = scheduled
          /\ bg' = [bg EXCEPT !.pc = bg.back, !.back = "idle", !.num = 0]
      BY <1>9, <2>2 DEF InstallVersion
    <3>2. bg.back \in {"idle", "build", "merge", "write", "append", "sync"}
      BY <1>0 DEF BgState
    <3>3. bg' \in BgState  BY ONLY <1>0, <3>1, <3>2, BgMoves, Zenon
    <3>. QED  BY <1>0, <2>1, <3>1, <3>3 DEF Flags
  <2>3. CASE bg.back = "idle"
    <3>1. bg' = IdleBg
      BY <1>9, <2>3 DEF InstallVersion, EndCall
    <3>2. PICK i, f : scheduled' = Schedules(FALSE, bgError, shuttingDown, i, f)
      BY <1>9, <2>3, Zenon DEF InstallVersion, EndCall
    <3>3. scheduled' \in BOOLEAN  BY <3>2, SchedulesTyped
    <3>. QED  BY <1>0, <2>1, <3>1, <3>3, IdleBgTyped DEF Flags
  <2>. QED  BY <2>2, <2>3
<1>. QED
  BY <1>1, <1>2, <1>3, <1>4, <1>5, <1>6, <1>7, <1>8, <1>9
     DEF BackgroundCall, BackgroundFaults
LEMMA BackgroundKeepsType ==
  ASSUME Typed, Next
  PROVE  BackgroundOK'
<1>0. Flags /\ pending \subseteq Nat /\ bg \in BgState
  BY DEF Typed, BackgroundOK, BgState, Flags
<1>1. CASE BackgroundCall \/ BackgroundFaults
  BY <1>1, JobsKeepType DEF BackgroundOK, BgState, Flags
<1>2. CASE OpenFails \/ EndClose \/ Kill \/ PowerLoss
  <2>1. Reset  BY <1>2 DEF OpenFails, EndClose, Kill, PowerLoss
  <2>2. /\ pending' = {} /\ bg' = IdleBg
        /\ bgError' = FALSE /\ scheduled' = FALSE /\ shuttingDown' = FALSE
    BY <2>1 DEF Reset
  <2>. QED  BY <2>2, IdleBgTyped DEF BackgroundOK, BgState
<1>3. CASE \/ \E t \in Writer : Submit(t) \/ Write(t) \/ WriteFaults(t)
           \/ Reading \/ NewDB \/ Recover \/ Open \/ StartClose
  <2>1. UNCHANGED <<pending, bg>>
    <3>1. CASE \E t \in Writer : Submit(t) \/ Write(t) \/ WriteFaults(t)
      BY <3>1 DEF Submit, Write, WriteFaults, Refuse, Room, Wait, Switch,
         AddRecord, AddRecordFails, SyncLog, SyncLogFails, Insert, GiveUp, CheckFlushed,
         SwitchFails, background
    <3>2. CASE Reading \/ NewDB \/ Recover \/ Open \/ StartClose
      BY <3>2 DEF Reading, StartGet, EndGet, GetSnapshot, ReleaseSnapshot, NewDB,
         Recover, Open, ReplayLog, ReplayRecord, EndLog, NewManifest, SetCurrent,
         Opened, StartClose, background, Processless
    <3>. QED  BY <1>3, <3>1, <3>2
  <2>2. Flags'
    <3>1. CASE \E t \in Writer : Switch(t)
      <4>1. PICK t \in Writer : Switch(t)  BY <3>1
      <4>2. UNCHANGED <<bgError, shuttingDown>>
            /\ scheduled' = Schedules(scheduled, bgError, shuttingDown, imm', versions.files)
        BY <4>1 DEF Switch
      <4>3. scheduled \in BOOLEAN  BY <1>0 DEF Flags
      <4>4. scheduled' \in BOOLEAN  BY ONLY <4>2, <4>3, SchedulesTyped
      <4>. QED  BY <1>0, <4>2, <4>4 DEF Flags
    <3>2. CASE \E t \in Writer : GiveUp(t)
      <4>1. PICK t \in Writer : GiveUp(t)  BY <3>2
      <4>2. UNCHANGED <<scheduled, shuttingDown>>
            /\ bgError' = (bgError \/ writer[t].pc = "unsynced")
        BY <4>1 DEF GiveUp
      <4>3. bgError' \in BOOLEAN  BY ONLY <4>2, Zenon
      <4>. QED  BY <1>0, <4>2, <4>3 DEF Flags
    <3>3. CASE Opened
      <4>1. UNCHANGED <<bgError, shuttingDown>>
            /\ scheduled' = Schedules(FALSE, FALSE, FALSE, <<>>, versions.files)
        BY <3>3 DEF Opened
      <4>2. scheduled' \in BOOLEAN  BY <4>1, SchedulesTyped
      <4>. QED  BY <1>0, <4>1, <4>2 DEF Flags
    <3>4. CASE StartClose
      BY <1>0, <3>4 DEF Flags, StartClose
    <3>5. CASE \E t \in Writer : ~Switch(t) /\ ~GiveUp(t)
                                 /\ (Submit(t) \/ Write(t) \/ WriteFaults(t))
      <4>1. UNCHANGED <<bgError, scheduled, shuttingDown>>
        BY <3>5 DEF Submit, Write, WriteFaults, Refuse, Room, Wait,
           AddRecord, AddRecordFails, SyncLog, SyncLogFails, Insert, CheckFlushed,
           SwitchFails, background
      <4>. QED  BY <1>0, <4>1 DEF Flags
    <3>6. CASE Reading \/ NewDB \/ Recover \/ (Open /\ ~Opened)
      <4>1. UNCHANGED <<bgError, scheduled, shuttingDown>>
        BY <3>6 DEF Reading, StartGet, EndGet, GetSnapshot, ReleaseSnapshot, NewDB,
         Recover, Open, ReplayLog, ReplayRecord, EndLog, NewManifest, SetCurrent,
         background, Processless
      <4>. QED  BY <1>0, <4>1 DEF Flags
    <3>. QED  BY <1>3, <3>1, <3>2, <3>3, <3>4, <3>5, <3>6
  <2>. QED  BY <1>0, <2>1, <2>2 DEF BackgroundOK, BgState, Flags
<1>. QED  BY <1>1, <1>2, <1>3 DEF Next, Reading

LEMMA NextKeepsReplay ==
  ASSUME Typed, QueueInv, JobShape, ReplayShape, Next
  PROVE  ReplayShape'
<1>1. CASE Recover
  <2>1. recovery' = [NoRecovery EXCEPT !.logs = LogsFrom(Described.log)] /\ log' = log
    BY <1>1 DEF Recover, disk
  <2>2. recovery'.logs = LogsFrom(Described.log)  BY <2>1 DEF NoRecovery
  <2>. QED  BY <2>1, <2>2 DEF ReplayShape, LogsFrom
<1>2. CASE \E number \in recovery.logs : ReplayLog(number)
  <2>0. recovery \in RecoveryState  BY DEF Typed, OpenOK, RecoveryState
  <2>1. PICK number \in recovery.logs : ReplayLog(number)  BY <1>2
  <2>2. log' = log /\ db = "replay"
    BY <2>1 DEF ReplayLog, ReplayRecord, EndLog, Replaying
  <2>3. recovery'.logs \subseteq recovery.logs
    <3>1. CASE ReplayRecord(number)
      <4>1. recovery'.logs = recovery.logs  BY <2>0, <3>1 DEF ReplayRecord, RecoveryState
      <4>. QED  BY <4>1
    <3>2. CASE EndLog(number)
      <4>1. recovery'.logs = recovery.logs \ {number}
        BY <2>0, <3>2 DEF EndLog, RecoveryState
      <4>. QED  BY <4>1
    <3>. QED  BY <2>1, <3>1, <3>2 DEF ReplayLog
  <2>. QED  BY <2>2, <2>3 DEF ReplayShape
<1>3. CASE ~Recover /\ ~\E number \in recovery.logs : ReplayLog(number)
  <2>1. db' = "replay" => db = "replay" /\ UNCHANGED <<recovery, log>>
    <3>1. CASE \E t \in Writer : Submit(t) \/ Write(t) \/ WriteFaults(t)
      <4>1. PICK t \in Writer : Submit(t) \/ Write(t) \/ WriteFaults(t)  BY <3>1
      <4>2. db' = db
        BY <4>1 DEF Submit, Write, WriteFaults, Refuse, Room, Wait, Switch,
         AddRecord, AddRecordFails, SyncLog, SyncLogFails, Insert, GiveUp, CheckFlushed,
         SwitchFails
      <4>3. CASE CheckFlushed(t)  BY <4>3 DEF CheckFlushed, disk
      <4>4. CASE ~CheckFlushed(t)
        <5>1. db = "open" \/ writer[t].pc \in InProgress
          BY <4>1, <4>4, FirstIsFront DEF Submit, Write, WriteFaults, Refuse, Room, Wait,
             Switch, AddRecord, AddRecordFails, SyncLog, SyncLogFails, Insert, GiveUp,
             SwitchFails, Leading, InProgress
        <5>. QED  BY <4>2, <5>1, Leader
      <4>. QED  BY <4>3, <4>4
    <3>2. CASE BackgroundCall \/ BackgroundFaults
      <4>1. Running /\ db' = db
        BY <3>2 DEF BackgroundCall, BackgroundFaults, BackgroundNothing, Flush,
           FlushWhileMerging, StartTable, BuildTable, BuildTableFails, Build, Compact,
           OpenOutput, FinishOutput, MergeStops, MergeFails, MergeEnds, AppendToManifest,
           ManifestFails, InstallVersion, Idle
      <4>. QED  BY <4>1 DEF Running
    <3>3. CASE \/ Reading \/ StartClose \/ NewDB \/ OpenFails \/ EndClose \/ Kill
               \/ PowerLoss
      BY <3>3 DEF Reading, StartGet, EndGet, GetSnapshot, ReleaseSnapshot, StartClose,
           NewDB, OpenFails, EndClose, Kill, PowerLoss, Reset, disk
    <3>4. CASE Open
      BY <1>3, <3>4 DEF Open, NewManifest, SetCurrent, Opened
    <3>. QED  BY <1>3, <3>1, <3>2, <3>3, <3>4 DEF Next, Reading
  <2>. QED  BY <2>1 DEF ReplayShape
<1>. QED  BY <1>1, <1>2, <1>3

LEMMA NextKeepsQueue ==
  ASSUME Typed, QueueInv, Next
  PROVE  QueueInv'
BY WriterStepKeepsQueue, BackgroundKeepsQueue, OthersKeepQueue DEF Next, Reading

\* The types and the shapes that the steps need to keep them.
TypedInv == Typed /\ QueueInv /\ JobShape /\ ReplayShape

LEMMA InitTyped ==
  ASSUME Init
  PROVE  TypedInv
<1>1. Typed
  <2>1. budget \in Budget  BY DBImplAssumption DEF Init
  <2>2. DiskOK  BY DEF Init, DiskOK, IsDirectory
  <2>3. <<>> \in Seq(SUBSET Entry) /\ Len(<<>>) = 0 /\ <<>> \in Seq(Writer)  BY EmptySeq
  <2>4. OpenOK  BY <2>3, IdleTyped DEF Init, OpenOK
  <2>5. ClientsOK  BY <2>1, <2>3, IdleTyped DEF Init, ClientsOK
  <2>6. BackgroundOK
    <3>1. /\ pending = {} /\ bg = IdleBg
          /\ bgError = FALSE /\ scheduled = FALSE /\ shuttingDown = FALSE
      BY DEF Init
    <3>. QED  BY <3>1, IdleBgTyped DEF BackgroundOK, BgState
  <2>. QED  BY <2>2, <2>4, <2>5, <2>6 DEF Typed, PromisesOK, Init
<1>2. QueueInv
  <2>1. /\ queue = <<>> /\ group = IdleGroup
        /\ writer = [t \in Writer |-> IdleWriter]
    BY DEF Init
  <2>2. <<>> \in Seq(Writer) /\ Len(<<>>) = 0  BY EmptySeq
  <2>3. \A t \in Writer : writer[t].pc = "idle"  BY <2>1 DEF IdleWriter
  <2>4. QueueShape(queue, writer)
    BY <2>1, <2>2, <2>3, IdleTyped DEF QueueShape, InQueue
  <2>5. GroupShape(queue, writer, group)
    BY <2>1, <2>2, <2>3, IdleTyped DEF GroupShape, InProgress
  <2>. QED  BY <2>3, <2>4, <2>5 DEF QueueInv
<1>3. JobShape  BY DEF Init, JobShape, IdleBg
<1>4. ReplayShape  BY DEF Init, ReplayShape
<1>. QED  BY <1>1, <1>2, <1>3, <1>4 DEF TypedInv

LEMMA NextKeepsTypes ==
  ASSUME TypedInv, current # 0 => current \in DOMAIN manifest, Next
  PROVE  TypedInv'
<1>1. Typed /\ QueueInv /\ JobShape /\ ReplayShape  BY DEF TypedInv
<1>2. QueueInv' /\ JobShape' /\ ReplayShape'
  BY <1>1, NextKeepsQueue, NextKeepsShape, NextKeepsReplay
<1>3. DiskOK'
  BY <1>1, LogKeepsType, TableKeepsType, ManifestKeepsType DEF DiskOK
<1>4. OpenOK'
  <2>1. mem' \subseteq Entry /\ imm' \in Seq(SUBSET Entry) /\ Len(imm') <= 1
    BY <1>1, MemoryKeepsType
  <2>2. /\ db' \in {"closed", "replay", "switch", "clean", "open", "closing"}
        /\ VersionsOK' /\ RecoveryOK' /\ logfile' \in Nat
    BY <1>1, OpeningKeepsType
  <2>. QED
    BY <2>1, <2>2 DEF OpenOK, VersionsOK, RecoveryOK, VersionSetState, RecoveryState
<1>5. ClientsOK'
  <2>1. snapshots' \subseteq Nat /\ reader' \in ReaderState  BY <1>1, ReadersKeepType
  <2>2. budget' \in Budget  BY <1>1, BudgetKeepsType DEF Typed, ClientsOK
  <2>. QED
    BY <1>2, <2>1, <2>2 DEF ClientsOK, ReaderState, QueueInv, QueueShape, GroupShape
<1>6. BackgroundOK'  BY <1>1, BackgroundKeepsType
<1>7. PromisesOK'  BY <1>1, MemoryKeepsType
<1>. QED  BY <1>2, <1>3, <1>4, <1>5, <1>6, <1>7 DEF TypedInv, Typed

LEMMA TypesStutter ==
  ASSUME TypedInv, UNCHANGED vars
  PROVE  TypedInv'
<1>1. UNCHANGED <<log, table, manifest, current, db, recovery, versions, mem, imm, logfile,
                  queue, writer, group, snapshots, reader, pending, bgError, scheduled,
                  shuttingDown, bg, store, acked, durable, budget>>
  BY DEF vars, disk, client, background, promises
<1>. QED
  BY <1>1 DEF TypedInv, Typed, DiskOK, OpenOK, ClientsOK, BackgroundOK, PromisesOK,
              QueueInv, JobShape, ReplayShape, Running
(***************************************************************************)
(* What a process that is not running holds                                *)
(***************************************************************************)

AtRest ==
  /\ ~Running => /\ mem = {} /\ imm = <<>> /\ store = {} /\ pending = {}
                 /\ snapshots = {} /\ reader = NoReader
                 /\ ~bgError /\ ~scheduled /\ ~shuttingDown
  /\ db = "closed" => versions = NoVersions /\ recovery = NoRecovery
  /\ db = "open" => ~shuttingDown
  /\ db # "open" => snapshots = {} /\ ~reader.on
  /\ ~reader.on => reader = NoReader

LEMMA ResetRests ==
  ASSUME Reset
  PROVE  AtRest'
<1>1. ~NoReader.on  BY Zenon DEF NoReader
<1>2. /\ db' = "closed" /\ recovery' = NoRecovery /\ versions' = NoVersions
      /\ mem' = {} /\ imm' = <<>> /\ store' = {} /\ pending' = {}
      /\ snapshots' = {} /\ reader' = NoReader
      /\ bgError' = FALSE /\ scheduled' = FALSE /\ shuttingDown' = FALSE
  BY Zenon DEF Reset
<1>3. ~bgError' /\ ~scheduled' /\ ~shuttingDown' /\ ~reader'.on
  BY ONLY <1>1, <1>2, Zenon
<1>. QED  BY ONLY <1>2, <1>3, Zenon DEF AtRest

LEMMA RunningRests ==
  ASSUME AtRest, Running, db' = db, UNCHANGED <<shuttingDown, snapshots, reader>>
  PROVE  AtRest'
BY DEF AtRest, Running

LEMMA NextKeepsRest ==
  ASSUME TypedInv, AtRest, Next
  PROVE  AtRest'
<1>1. CASE \E t \in Writer : Submit(t) \/ Write(t) \/ WriteFaults(t)
  <2>1. PICK t \in Writer : Submit(t) \/ Write(t) \/ WriteFaults(t)  BY <1>1
  <2>2. UNCHANGED <<db, shuttingDown, snapshots, reader>>
    BY <2>1 DEF Submit, Write, WriteFaults, Refuse, Room, Wait, Switch,
         AddRecord, AddRecordFails, SyncLog, SyncLogFails, Insert, GiveUp, CheckFlushed,
         SwitchFails, background
  <2>3. db = "open"
    <3>1. writer[t].pc # "idle" => db = "open"  BY DEF TypedInv, QueueInv
    <3>. QED
      BY <2>1, <3>1 DEF Submit, Write, WriteFaults, Refuse, Room, Wait, Switch, AtFront,
         AddRecord, AddRecordFails, SyncLog, SyncLogFails, Insert, GiveUp, CheckFlushed,
         SwitchFails, Leading
  <2>. QED  BY <2>2, <2>3, RunningRests DEF Running
<1>2. CASE StartGet
  <2>1. db = "open" /\ UNCHANGED <<db, shuttingDown, snapshots>> /\ reader'.on
    BY <1>2 DEF StartGet, background
  <2>. QED  BY <2>1 DEF AtRest, Running
<1>3. CASE EndGet
  <2>1. UNCHANGED <<db, shuttingDown, snapshots, mem, imm, store, pending, versions,
                    recovery, bgError, scheduled>>
        /\ reader' = NoReader /\ ~reader'.on
    BY <1>3 DEF EndGet, background, promises, NoReader
  <2>. QED  BY <2>1 DEF AtRest, Running
<1>4. CASE GetSnapshot
  <2>1. db = "open" /\ UNCHANGED <<db, shuttingDown, reader>>
    BY <1>4 DEF GetSnapshot, background
  <2>. QED  BY <2>1 DEF AtRest, Running
<1>5. CASE ReleaseSnapshot
  <2>1. snapshots # {} /\ UNCHANGED <<db, shuttingDown, reader>>
    BY <1>5 DEF ReleaseSnapshot, background
  <2>. QED  BY <2>1 DEF AtRest, Running
<1>6. CASE BackgroundCall \/ BackgroundFaults
  <2>1. Running /\ UNCHANGED <<db, shuttingDown, snapshots, reader>>
    BY <1>6 DEF BackgroundCall, BackgroundFaults, BackgroundNothing, Flush,
           FlushWhileMerging, StartTable, BuildTable, BuildTableFails, Build, Compact,
           OpenOutput, FinishOutput, MergeStops, MergeFails, MergeEnds, AppendToManifest,
           ManifestFails, InstallVersion, Idle, client
  <2>. QED  BY <2>1, RunningRests
<1>7. CASE NewDB
  <2>1. UNCHANGED <<db, mem, imm, store, pending, snapshots, reader, bgError, scheduled,
                    shuttingDown, versions, recovery>>
    BY <1>7 DEF NewDB, Processless, background, promises
  <2>. QED  BY <2>1 DEF AtRest, Running
<1>8. CASE Recover \/ (\E number \in recovery.logs : ReplayLog(number)) \/ NewManifest
           \/ SetCurrent
  <2>1. /\ db \in {"closed", "replay", "switch"} /\ db' \in {"replay", "switch", "clean"}
        /\ UNCHANGED <<mem, imm, store, pending, snapshots, reader, bgError, scheduled,
                       shuttingDown>>
    BY <1>8 DEF Recover, ReplayLog, ReplayRecord, EndLog, Replaying, NewManifest,
                SetCurrent, Processless, background, promises
  <2>. QED  BY <2>1 DEF AtRest, Running
<1>9. CASE Opened
  <2>1. /\ db = "clean" /\ db' = "open" /\ UNCHANGED <<snapshots, reader, shuttingDown>>
    BY <1>9 DEF Opened, client
  <2>. QED  BY <2>1 DEF AtRest, Running
<1>10. CASE StartClose
  <2>1. /\ db' = "closing" /\ snapshots = {} /\ ~reader.on
        /\ UNCHANGED <<snapshots, reader>>
    BY <1>10 DEF StartClose, client
  <2>. QED  BY <2>1 DEF AtRest, Running
<1>11. CASE OpenFails \/ EndClose \/ Kill \/ PowerLoss
  BY <1>11, ResetRests DEF OpenFails, EndClose, Kill, PowerLoss
<1>. QED
  BY <1>1, <1>2, <1>3, <1>4, <1>5, <1>6, <1>7, <1>8, <1>9, <1>10, <1>11 DEF Next, Open
(***************************************************************************)
(* The files                                                               *)
(***************************************************************************)

Up == db \in {"clean", "open", "closing"}

\* The states a loss of power may leave in a descriptor, the last one first.
States(m) == {m.states[i] : i \in {j \in 1..Len(m.states) : j >= m.synced}}

Possible == IF current = 0 THEN {} ELSE States(manifest[current])

Stored(nums) == \A n \in nums : n \in DOMAIN table /\ table[n].synced

Below(nums, bound) == \A n \in nums : n < bound

\* What the store can be opened with, whichever of them is left.
Openable(st) ==
  /\ current < st.next /\ st.next <= Described.next /\ st.log < st.next
  /\ Stored(Numbers(st.files)) /\ Below(Numbers(st.files), st.next)

DescriptorInv ==
  /\ \A n \in DOMAIN manifest : manifest[n].synced <= Len(manifest[n].states)
  /\ current # 0 => current \in DOMAIN manifest
  /\ \A st \in Possible : Openable(st)
  /\ durable # {} => current # 0 /\ manifest[current].synced >= 1

\* Open, up to the new descriptor ...
OpeningInv ==
  db \in {"replay", "switch"} =>
    /\ current # 0 /\ Described \in Possible
    /\ current < versions.manifest /\ versions.manifest < versions.next
    /\ Described.next < versions.next
    /\ Stored(Numbers(versions.files) \cup Numbers(recovery.add))
    /\ Below(Numbers(versions.files) \cup Numbers(recovery.add), versions.next)
    /\ \A n \in DOMAIN log : n < versions.next \/ n \in recovery.logs
    /\ versions.log < versions.next

\* ... which then describes the state in memory ...
SwitchInv ==
  db = "switch" =>
    /\ recovery.logs = {}
    /\ versions.manifest \in DOMAIN manifest
    /\ manifest[versions.manifest].states # <<>>
    /\ LastState(manifest[versions.manifest]) =
         [files |-> versions.files, log |-> versions.log, next |-> versions.next,
          last |-> versions.last]
    /\ logfile = versions.log /\ versions.log \in DOMAIN log
    /\ versions.next = versions.log + 1

\* ... and so does CURRENT's, until an edit is added to it or an error stops that.
Current ==
  /\ manifest[current].synced = Len(manifest[current].states)
  /\ Described.files = versions.files /\ Described.log = versions.log

UpInv ==
  Up =>
    /\ current # 0 /\ versions.manifest = current
    /\ manifest[current].synced >= 1
    /\ Described.next <= versions.next
    /\ \A st \in Possible : st.log <= logfile
    /\ logfile \in DOMAIN log /\ logfile < versions.next
    /\ \A n \in DOMAIN log : n <= logfile
    /\ versions.log <= logfile
    /\ Stored(Numbers(versions.files) \cup reader.files)
    /\ Below(Numbers(versions.files), versions.next)
    /\ db # "clean" => Below(DOMAIN table, versions.next)
    /\ ~bgError /\ bg.pc # "sync" => Current

\* The files of the background thread.
Writing == bg.pc = "write" \/ bg.back = "write"

Editing == bg.pc \in {"append", "sync"}

Edited == (versions.files \ bg.edit.del) \cup bg.edit.add

BuildInv ==
  bg.pc = "build" => bg.num \notin DOMAIN table /\ bg.num < versions.next

WriteInv ==
  Writing => bg.out \in DOMAIN table /\ ~table[bg.out].synced /\ bg.out \in pending

EditInv ==
  Editing =>
    /\ bg.edit.next <= versions.next /\ Described.next <= bg.edit.next
    /\ current < bg.edit.next /\ bg.edit.log < bg.edit.next
    /\ Stored(Numbers(bg.edit.add)) /\ Below(Numbers(bg.edit.add), bg.edit.next)
    /\ bg.edit.del # {} => bg.edit.log = versions.log
    /\ bg.edit.del = {} => bg.edit.log = logfile

SyncInv ==
  bg.pc = "sync" =>
    /\ Described.log = bg.edit.log
    /\ ~bgError => Described.files = Edited

JobInv ==
  bg.inputs \subseteq versions.files /\ BuildInv /\ WriteInv /\ EditInv /\ SyncInv

FilesInv ==
  AtRest /\ DescriptorInv /\ OpeningInv /\ SwitchInv /\ UpInv /\ JobInv

\* A table that is on the disk and has a number below the bound stays as it is.
TableKeeps(bound) ==
  \A n \in DOMAIN table :
    n < bound /\ table[n].synced => n \in DOMAIN table' /\ table'[n] = table[n]

LEMMA StoredKeeps ==
  ASSUME NEW nums, NEW bound, Stored(nums), Below(nums, bound), TableKeeps(bound)
  PROVE  Stored(nums)'
BY DEF Stored, Below, TableKeeps

LEMMA DescribedPossible ==
  ASSUME Typed, DescriptorInv, current # 0, manifest[current].states # <<>>
  PROVE  Described \in Possible
<1>1. manifest[current] \in Descriptor  BY DEF Typed, DiskOK, IsDirectory, DescriptorInv
<1>. DEFINE q == manifest[current].states
<1>2. q \in Seq(Version) /\ manifest[current].synced \in Nat  BY <1>1 DEF Descriptor
<1>3. Len(q) \in 1..Len(q)  BY <1>2, EmptySeq, LenProperties
<1>4. manifest[current].synced <= Len(q)  BY DEF DescriptorInv
<1>5. Described = q[Len(q)]  BY DEF Described, LastState
<1>. QED  BY <1>3, <1>4, <1>5 DEF Possible, States

LEMMA SyncedPossible ==
  ASSUME Typed, DescriptorInv, current # 0, manifest[current].synced >= 1
  PROVE  Described \in Possible
<1>1. manifest[current] \in Descriptor  BY DEF Typed, DiskOK, IsDirectory, DescriptorInv
<1>2. manifest[current].states # <<>>
  BY <1>1, EmptySeq DEF Descriptor, DescriptorInv
<1>. QED  BY <1>2, DescribedPossible

LEMMA PossibleTyped ==
  ASSUME Typed, DescriptorInv
  PROVE  \A st \in Possible : st \in Version
<1>1. SUFFICES ASSUME current # 0  PROVE \A st \in Possible : st \in Version
  BY DEF Possible
<1>2. manifest[current] \in Descriptor
  BY <1>1 DEF Typed, DiskOK, IsDirectory, DescriptorInv
<1>. QED  BY <1>1, <1>2, ElementOfSeq DEF Possible, States, Descriptor

\* What a step may do that the files do not notice.
Quiet ==
  /\ UNCHANGED <<table, manifest, current, recovery, logfile, bg, pending>>
  /\ DOMAIN log' = DOMAIN log
  /\ db' = db \/ (db = "open" /\ db' = "closing")
  /\ versions'.files = versions.files /\ versions'.log = versions.log
  /\ versions'.next = versions.next /\ versions'.manifest = versions.manifest
  /\ db = "switch" => versions' = versions
  /\ reader'.files \subseteq reader.files \cup Numbers(versions.files)
  /\ bgError => bgError'
  /\ durable' # {} => durable # {} \/ Up

LEMMA QuietKeepsFiles ==
  ASSUME Typed, FilesInv, Quiet, AtRest'
  PROVE  FilesInv'
<1>1. /\ Possible' = Possible /\ Described' = Described
      /\ \A nums : Stored(nums)' <=> Stored(nums)
      /\ Up' = Up
  BY DEF Quiet, Possible, Described, Stored, Up
<1>2. DescriptorInv'
  <2>1. \A st \in Possible : Openable(st)'
    BY <1>1 DEF FilesInv, DescriptorInv, Openable, Quiet
  <2>2. durable' # {} => current # 0 /\ manifest[current].synced >= 1
    BY DEF FilesInv, DescriptorInv, UpInv, Quiet
  <2>. QED  BY <1>1, <2>1, <2>2 DEF FilesInv, DescriptorInv, Quiet
<1>3. OpeningInv'
  <2>1. db' \in {"replay", "switch"} => db \in {"replay", "switch"}  BY DEF Quiet
  <2>. QED  BY <1>1, <2>1 DEF FilesInv, OpeningInv, Quiet, Stored
<1>4. SwitchInv'
  <2>1. db' = "switch" => db = "switch" /\ versions' = versions  BY DEF Quiet
  <2>. QED  BY <2>1 DEF FilesInv, SwitchInv, Quiet
<1>5. UpInv'
  <2>1. Stored(Numbers(versions.files) \cup reader.files)
          => Stored(Numbers(versions.files) \cup reader.files)'
    BY <1>1 DEF Quiet, Stored
  <2>2. Current => Current'  BY <1>1 DEF Current, Quiet
  <2>3. db' # "clean" /\ Up => db # "clean"  BY DEF Quiet, Up
  <2>. QED  BY <1>1, <2>1, <2>2, <2>3 DEF FilesInv, UpInv, Quiet
<1>6. JobInv'
  <2>1. BuildInv' /\ WriteInv' /\ bg'.inputs \subseteq versions'.files
    BY DEF FilesInv, JobInv, BuildInv, WriteInv, Writing, Quiet
  <2>2. EditInv'
    BY <1>1 DEF FilesInv, JobInv, EditInv, Editing, Quiet
  <2>3. SyncInv'
    BY <1>1 DEF FilesInv, JobInv, SyncInv, Edited, Quiet
  <2>. QED  BY <2>1, <2>2, <2>3 DEF JobInv
<1>. QED  BY <1>2, <1>3, <1>4, <1>5, <1>6 DEF FilesInv
LEMMA VersionsLast ==
  ASSUME NEW v \in VersionSetState, NEW n,
         versions' = [v EXCEPT !.last = n]
  PROVE  /\ versions'.files = v.files /\ versions'.log = v.log
         /\ versions'.next = v.next /\ versions'.manifest = v.manifest
         /\ versions'.last = n
BY DEF VersionSetState

LEMMA VersionsNext ==
  ASSUME NEW v \in VersionSetState, NEW n,
         versions' = [v EXCEPT !.next = n]
  PROVE  /\ versions'.files = v.files /\ versions'.log = v.log
         /\ versions'.last = v.last /\ versions'.manifest = v.manifest
         /\ versions'.next = n
BY DEF VersionSetState

LEMMA WriterIsOpen ==
  ASSUME TypedInv, NEW t \in Writer, Write(t) \/ WriteFaults(t) \/ Submit(t)
  PROVE  db = "open"
<1>1. writer[t].pc # "idle" => db = "open"  BY DEF TypedInv, QueueInv
<1>. QED
  BY <1>1 DEF Submit, Write, WriteFaults, Refuse, Room, Wait, Switch, AtFront,
     AddRecord, AddRecordFails, SyncLog, SyncLogFails, Insert, GiveUp, CheckFlushed,
     SwitchFails, Leading

LEMMA QuietWrites ==
  ASSUME TypedInv, AtRest, NEW t \in Writer, Submit(t) \/ Write(t) \/ WriteFaults(t),
         ~Switch(t)
  PROVE  Quiet
<1>0. db = "open" /\ versions \in VersionSetState /\ DiskOK /\ group.last \in Nat
  BY WriterIsOpen DEF TypedInv, Typed, OpenOK, VersionSetState, ClientsOK
<1>1. /\ UNCHANGED <<table, manifest, current, recovery, logfile, bg, pending, db, reader>>
      /\ bgError' = (bgError \/ writer[t].pc = "unsynced") \/ bgError' = bgError
  BY DEF Submit, Write, WriteFaults, Refuse, Room, Wait, AddRecord,
     AddRecordFails, SyncLog, SyncLogFails, Insert, GiveUp, CheckFlushed,
     SwitchFails, disk, background
<1>2. DOMAIN log' = DOMAIN log
  BY DEF Submit, Write, WriteFaults, Refuse, Room, Wait, AddRecord, AppendToLog,
     AddRecordFails, SyncLog, SyncLogFails, Insert, GiveUp, CheckFlushed,
     SwitchFails, disk
<1>3. versions' = versions \/ versions' = [versions EXCEPT !.last = group.last]
  BY DEF Submit, Write, WriteFaults, Refuse, Room, Wait, AddRecord,
     AddRecordFails, SyncLog, SyncLogFails, Insert, GiveUp, CheckFlushed,
     SwitchFails, Commit
<1>4. /\ versions'.files = versions.files /\ versions'.log = versions.log
      /\ versions'.next = versions.next /\ versions'.manifest = versions.manifest
  BY <1>0, <1>3, VersionsLast
<1>5. bgError => bgError'  BY ONLY <1>1, Zenon
<1>. QED  BY <1>0, <1>1, <1>2, <1>4, <1>5 DEF Quiet, Up

LEMMA QuietOthers ==
  ASSUME TypedInv, AtRest, Reading \/ BackgroundNothing \/ StartClose
  PROVE  Quiet
<1>1. CASE Reading
  <2>1. /\ UNCHANGED <<log, table, manifest, current, recovery, logfile, bg, pending, db,
                       versions, bgError, durable>>
    BY <1>1 DEF Reading, StartGet, EndGet, GetSnapshot, ReleaseSnapshot, disk, background,
                promises
  <2>2. reader'.files \subseteq reader.files \cup Numbers(versions.files)
    BY <1>1 DEF Reading, StartGet, EndGet, GetSnapshot, ReleaseSnapshot, NoReader
  <2>. QED  BY <2>1, <2>2 DEF Quiet
<1>2. CASE BackgroundNothing
  <2>1. bg.pc = "idle" /\ bg' = IdleBg  BY <1>2 DEF BackgroundNothing, Idle, EndCall
  <2>2. bg' = bg  BY <2>1 DEF TypedInv, JobShape
  <2>. QED  BY <1>2, <2>2 DEF Quiet, BackgroundNothing, disk, promises
<1>3. CASE StartClose
  BY <1>3 DEF StartClose, Quiet, disk, client, promises
<1>. QED  BY <1>1, <1>2, <1>3

LEMMA DescriptorFrame ==
  ASSUME Typed, DescriptorInv, UpInv, UNCHANGED <<manifest, current>>,
         TableKeeps(versions.next),
         current # 0 => Described.next <= versions.next,
         durable' # {} => durable # {} \/ Up
  PROVE  DescriptorInv'
<1>1. Possible' = Possible /\ Described' = Described  BY DEF Possible, Described
<1>2. ASSUME NEW st \in Possible  PROVE Openable(st)'
  <2>1. Openable(st)  BY <1>2 DEF DescriptorInv
  <2>2. current # 0  BY <1>2 DEF Possible
  <2>3. st \in Version  BY <1>2, PossibleTyped
  <2>4. manifest[current] \in Descriptor
    BY <2>2 DEF Typed, DiskOK, IsDirectory, DescriptorInv
  <2>5. Described \in Version  BY <2>4, LastStateTyped DEF Described
  <2>6. st.next <= versions.next /\ st.next \in Nat /\ versions.next \in Nat
    BY <2>1, <2>2, <2>3, <2>5 DEF Openable, Version, Typed, OpenOK
  <2>7. Numbers(st.files) \subseteq Nat  BY <2>3, NumbersTyped DEF Version
  <2>8. Below(Numbers(st.files), versions.next)
    BY <2>1, <2>6, <2>7 DEF Openable, Below
  <2>9. Stored(Numbers(st.files))'
    BY <2>1, <2>8 DEF Openable, Stored, Below, TableKeeps
  <2>. QED  BY <1>1, <2>1, <2>9 DEF Openable
<1>3. durable' # {} => current # 0 /\ manifest[current].synced >= 1
  BY DEF DescriptorInv, UpInv
<1>. QED  BY <1>1, <1>2, <1>3 DEF DescriptorInv

\* A step of a running process that does not touch the descriptor or the logs.
LEMMA UpFrame ==
  ASSUME Typed, DescriptorInv, UpInv, Running,
         UNCHANGED <<manifest, current, logfile, reader, db>>,
         DOMAIN log' = DOMAIN log,
         versions'.files = versions.files, versions'.log = versions.log,
         versions'.manifest = versions.manifest,
         versions'.next \in Nat, versions.next <= versions'.next,
         TableKeeps(versions.next), Below(DOMAIN table', versions'.next),
         ~bgError' /\ bg'.pc # "sync" => ~bgError /\ bg.pc # "sync"
  PROVE  UpInv'
<1>0. Up /\ db # "clean"  BY DEF Up, Running
<1>1. Possible' = Possible /\ Described' = Described  BY DEF Possible, Described
<1>2. versions.next \in Nat /\ logfile \in Nat /\ versions.files \in SUBSET File
  BY DEF Typed, OpenOK
<1>3. DOMAIN table \subseteq Nat  BY DEF Typed, DiskOK, IsDirectory
<1>. DEFINE nums == Numbers(versions.files) \cup reader.files
<1>4. Stored(nums) /\ Below(DOMAIN table, versions.next)  BY <1>0 DEF UpInv
<1>5. Below(nums, versions.next)  BY <1>4 DEF Stored, Below
<1>6. Stored(nums)'
  <2>1. PICK S : S = nums  OBVIOUS
  <2>2. PICK bound : bound = versions.next  OBVIOUS
  <2>3. Stored(S) /\ Below(S, bound) /\ TableKeeps(bound)  BY <1>4, <1>5, <2>1, <2>2
  <2>4. Stored(S)'  BY ONLY <2>3, StoredKeeps
  <2>5. nums' = nums  OBVIOUS
  <2>6. S = nums'  BY ONLY <2>1, <2>5
  <2>. HIDE DEF nums
  <2>. QED  BY ONLY <2>4, <2>6 DEF Stored
<1>7. Current => Current'  BY <1>1 DEF Current
<1>8. manifest[current] \in Descriptor
  BY <1>0 DEF Typed, DiskOK, IsDirectory, DescriptorInv, UpInv
<1>9. Described.next \in Nat  BY <1>8, LastStateTyped DEF Described, Version
<1>10. /\ Described'.next <= versions'.next /\ logfile' < versions'.next
  BY <1>0, <1>1, <1>2, <1>9 DEF UpInv
<1>11. Below(Numbers(versions.files), versions.next)  BY <1>5 DEF Below
<1>12. Numbers(versions.files) \subseteq Nat  BY <1>2, NumbersTyped
<1>13. Below(Numbers(versions'.files), versions'.next)
  BY <1>2, <1>11, <1>12 DEF Below
<1>14. Stored(Numbers(versions.files) \cup reader.files)'
       /\ Numbers(versions.files)' = Numbers(versions.files)
  BY <1>6
<1>. QED
  BY <1>0, <1>1, <1>6, <1>7, <1>10, <1>13, <1>14 DEF UpInv

LEMMA RunningPhases ==
  ASSUME Running, db' = db
  PROVE  OpeningInv' /\ SwitchInv'
BY DEF Running, OpeningInv, SwitchInv
LEMMA TableSame ==
  ASSUME table' = table, NEW bound
  PROVE  TableKeeps(bound)
BY DEF TableKeeps

LEMMA TableNew ==
  ASSUME NEW n \in Nat, NEW r, table' = With(table, n, r), NEW bound \in Nat,
         bound <= n \/ n \notin DOMAIN table \/ ~table[n].synced
  PROVE  TableKeeps(bound)
<1>1. SUFFICES ASSUME NEW m \in DOMAIN table, m < bound, table[m].synced
               PROVE  m \in DOMAIN table' /\ table'[m] = table[m]
  BY DEF TableKeeps
<1>2. m # n  BY <1>1
<1>. QED  BY <1>1, <1>2 DEF With

LEMMA NextNumber ==
  ASSUME Typed
  PROVE  /\ versions.next \in Nat /\ versions.next + 1 \in Nat
         /\ versions.next < versions.next + 1
BY DEF Typed, OpenOK

LEMMA UnsyncedTable ==
  ASSUME NEW r, r = [entries |-> {}, synced |-> FALSE]
  PROVE  ~r.synced /\ r.entries = {}
<1>1. ~r.synced  BY Zenon
<1>2. r.entries = {}  OBVIOUS
<1>. QED  BY <1>1, <1>2

LEMMA SyncedTable ==
  ASSUME NEW E, NEW r, r = [entries |-> E, synced |-> TRUE]
  PROVE  r.synced /\ r.entries = E
<1>1. r.synced  BY Zenon
<1>2. r.entries = E  OBVIOUS
<1>. QED  BY <1>1, <1>2

LEMMA FreshTable ==
  ASSUME Typed, UpInv, Running, NEW E, NEW b,
         table' = With(table, versions.next, [entries |-> E, synced |-> b]),
         versions' = [versions EXCEPT !.next = @ + 1]
  PROVE  /\ TableKeeps(versions.next) /\ versions.next \notin DOMAIN table
         /\ Below(DOMAIN table', versions'.next)
<1>0. versions \in VersionSetState  BY DEF Typed, OpenOK, VersionSetState
<1>1. Below(DOMAIN table, versions.next)  BY DEF UpInv, Up, Running
<1>2. versions.next \notin DOMAIN table  BY <1>1, NextNumber DEF Below
<1>3. DOMAIN table' = DOMAIN table \cup {versions.next}  BY DEF With
<1>4. versions'.next = versions.next + 1  BY <1>0, VersionsNext
<1>5. DOMAIN table \subseteq Nat  BY DEF Typed, DiskOK, IsDirectory
<1>6. TableKeeps(versions.next)
  <2>1. ASSUME NEW m \in DOMAIN table  PROVE m \in DOMAIN table' /\ table'[m] = table[m]
    BY <1>2, <2>1 DEF With
  <2>. QED  BY <2>1 DEF TableKeeps
<1>. QED  BY <1>1, <1>2, <1>3, <1>4, <1>5, <1>6, NextNumber DEF Below

LEMMA SwitchKeepsFiles ==
  ASSUME TypedInv, FilesInv, NEW t \in Writer, Switch(t), AtRest'
  PROVE  FilesInv'
<1>0. /\ db = "open" /\ Running /\ Up /\ versions \in VersionSetState
      /\ logfile \in Nat /\ DOMAIN log \subseteq Nat
  BY WriterIsOpen DEF TypedInv, Typed, OpenOK, VersionSetState, Running, Up, Write,
                      DiskOK, IsDirectory
<1>1. /\ UNCHANGED <<table, manifest, current, db, recovery, reader, pending, bgError, bg,
                     durable>>
      /\ log' = With(log, versions.next, [recs |-> <<>>, synced |-> 0])
      /\ logfile' = versions.next /\ imm = <<>>
      /\ versions' = [versions EXCEPT !.next = @ + 1]
  BY DEF Switch, MustWait, promises
<1>2. /\ versions'.files = versions.files /\ versions'.log = versions.log
      /\ versions'.manifest = versions.manifest
      /\ versions'.next = versions.next + 1
  BY <1>0, <1>1, VersionsNext
<1>3. Typed /\ DescriptorInv /\ UpInv /\ JobInv /\ AtRest  BY DEF TypedInv, FilesInv
<1>4. Possible' = Possible /\ Described' = Described
  BY <1>1 DEF Possible, Described
<1>5. DOMAIN log' = DOMAIN log \cup {versions.next}  BY <1>1 DEF With
<1>6. manifest[current] \in Descriptor
  BY <1>0, <1>3 DEF Typed, DiskOK, IsDirectory, DescriptorInv, UpInv
<1>7. Described.next \in Nat  BY <1>6, LastStateTyped DEF Described, Version
<1>8. Described.next <= versions.next  BY <1>0, <1>3 DEF UpInv
<1>9. DescriptorInv'
  BY <1>1, <1>3, <1>8, TableSame, DescriptorFrame
<1>10. UpInv'
  <2>1. Numbers(versions.files) \subseteq Nat /\ DOMAIN table \subseteq Nat
    BY <1>3, NumbersTyped DEF Typed, OpenOK, DiskOK, IsDirectory
  <2>2. /\ Below(Numbers(versions.files), versions.next + 1)
        /\ Below(DOMAIN table, versions.next + 1)
    BY <1>0, <1>3, <2>1, NextNumber DEF UpInv, Below
  <2>3. \A st \in Possible : st.log \in Nat
    BY <1>3, PossibleTyped DEF Version
  <2>4. /\ Described.next <= versions.next + 1
        /\ \A st \in Possible : st.log <= versions.next
        /\ \A n \in DOMAIN log \cup {versions.next} : n <= versions.next
        /\ versions.log <= versions.next
    <3>1. versions.log \in Nat  BY <1>0 DEF VersionSetState
    <3>. QED  BY <1>0, <1>3, <1>7, <2>3, <3>1, NextNumber DEF UpInv
  <2>5. Stored(Numbers(versions.files) \cup reader.files)'
    BY <1>0, <1>1, <1>2, <1>3 DEF UpInv, Stored
  <2>6. Current => Current'  BY <1>1, <1>2, <1>4 DEF Current
  <2>7. /\ current # 0 /\ versions.manifest = current /\ manifest[current].synced >= 1
        /\ ~bgError /\ bg.pc # "sync" => Current
    BY <1>0, <1>3 DEF UpInv
  <2>8. logfile' \in DOMAIN log' /\ logfile' < versions'.next
    BY <1>1, <1>2, <1>5, <1>3, NextNumber
  <2>. QED
    BY <1>1, <1>2, <1>4, <1>5, <2>2, <2>4, <2>5, <2>6, <2>7, <2>8 DEF UpInv
<1>11. JobInv'
  <2>1. bg.num \in Nat /\ bg.edit.next \in Nat /\ bg.edit.log \in Nat
    BY <1>3 DEF Typed, BackgroundOK, Edit
  <2>2. Editing => bg.edit.del # {}  BY <1>1 DEF TypedInv, JobShape, Editing
  <2>3. BuildInv'
    BY <1>1, <1>2, <1>3, <2>1, NextNumber DEF JobInv, BuildInv
  <2>4. WriteInv'  BY <1>1, <1>3 DEF JobInv, WriteInv, Writing
  <2>5. EditInv'
    BY <1>1, <1>2, <1>3, <1>4, <2>1, <2>2, NextNumber
       DEF JobInv, EditInv, Editing, Stored
  <2>6. SyncInv'  BY <1>1, <1>2, <1>3, <1>4 DEF JobInv, SyncInv, Edited
  <2>. QED  BY <1>1, <1>2, <1>3, <2>3, <2>4, <2>5, <2>6 DEF JobInv
<1>. QED  BY <1>0, <1>1, <1>9, <1>10, <1>11, RunningPhases DEF FilesInv
\* A running process has read the descriptor that CURRENT names.
LEMMA UpFacts ==
  ASSUME Typed, DescriptorInv, UpInv, Running
  PROVE  /\ Up /\ db # "clean" /\ current # 0 /\ versions.manifest = current
         /\ current \in DOMAIN manifest /\ manifest[current] \in Descriptor
         /\ Described \in Possible /\ Described \in Version
         /\ Described.next <= versions.next /\ current < versions.next
         /\ versions.next \in Nat /\ Described.next \in Nat
         /\ Below(DOMAIN table, versions.next)
<1>1. Up /\ db # "clean"  BY DEF Up, Running
<1>2. current # 0 /\ versions.manifest = current /\ manifest[current].synced >= 1
      /\ Described.next <= versions.next /\ Below(DOMAIN table, versions.next)
  BY <1>1 DEF UpInv
<1>3. current \in DOMAIN manifest  BY <1>2 DEF DescriptorInv
<1>4. manifest[current] \in Descriptor  BY <1>3 DEF Typed, DiskOK, IsDirectory
<1>5. Described \in Possible  BY <1>2, SyncedPossible
<1>6. Described \in Version  BY <1>4, LastStateTyped DEF Described
<1>7. Described.next \in Nat  BY <1>6 DEF Version
<1>8. current < Described.next  BY <1>5 DEF DescriptorInv, Openable
<1>9. current \in Nat  BY DEF Typed, DiskOK
<1>10. current < versions.next  BY <1>2, <1>7, <1>8, <1>9, NextNumber
<1>. QED  BY <1>1, <1>2, <1>3, <1>4, <1>5, <1>6, <1>7, <1>10, NextNumber

LEMMA StartTableKeepsFiles ==
  ASSUME TypedInv, FilesInv, AtRest', NEW back \in {"idle", "merge", "write"},
         StartTable(back), Running, bg.pc \in {"idle", "merge", "write"},
         back = "write" => bg.pc = "write"
  PROVE  FilesInv'
<1>0. Typed /\ DescriptorInv /\ UpInv /\ JobInv /\ versions \in VersionSetState
      /\ bg \in BgState
  BY DEF TypedInv, FilesInv, Typed, OpenOK, VersionSetState, BackgroundOK, BgState
<1>1. /\ UNCHANGED <<log, table, manifest, current, db, recovery, imm, logfile, reader,
                     bgError, durable>>
      /\ versions' = [versions EXCEPT !.next = @ + 1]
      /\ pending' = pending \cup {versions.next}
      /\ bg' = [bg EXCEPT !.pc = "build", !.back = back, !.num = versions.next]
  BY DEF StartTable, disk, client, promises
<1>2. /\ versions'.files = versions.files /\ versions'.log = versions.log
      /\ versions'.manifest = versions.manifest
      /\ versions'.next = versions.next + 1
  BY <1>0, <1>1, VersionsNext
<1>3. bg'.pc = "build" /\ bg'.back = back /\ bg'.num = versions.next
      /\ bg'.inputs = bg.inputs /\ bg'.out = bg.out
  BY <1>0, <1>1 DEF BgState
<1>4. Below(DOMAIN table, versions.next) /\ Described.next <= versions.next
  BY <1>0, UpFacts
<1>5. DOMAIN table \subseteq Nat  BY <1>0 DEF Typed, DiskOK, IsDirectory
<1>6. Below(DOMAIN table', versions'.next)
  BY <1>0, <1>1, <1>2, <1>4, <1>5, NextNumber DEF Below
<1>7. DescriptorInv'  BY <1>0, <1>1, <1>4, TableSame, DescriptorFrame
<1>8. UpInv'
  BY <1>0, <1>1, <1>2, <1>3, <1>6, TableSame, NextNumber, UpFrame
<1>9. JobInv'
  <2>1. BuildInv'
    BY <1>0, <1>1, <1>2, <1>3, <1>4, NextNumber DEF BuildInv, Below
  <2>2. WriteInv'  BY <1>0, <1>1, <1>3 DEF JobInv, WriteInv, Writing
  <2>3. EditInv' /\ SyncInv'  BY <1>3 DEF EditInv, SyncInv, Editing
  <2>. QED  BY <1>0, <1>2, <1>3, <2>1, <2>2, <2>3 DEF JobInv
<1>. QED  BY <1>1, <1>7, <1>8, <1>9, RunningPhases DEF FilesInv

LEMMA CompactKeepsFiles ==
  ASSUME TypedInv, FilesInv, AtRest', Compact
  PROVE  FilesInv'
<1>0. Typed /\ DescriptorInv /\ UpInv /\ JobInv /\ bg \in BgState
  BY DEF TypedInv, FilesInv, Typed, BackgroundOK, BgState
<1>1. /\ UNCHANGED <<log, table, manifest, current, db, recovery, imm, logfile, reader,
                     bgError, durable, versions, pending>>
      /\ Running /\ bg.pc = "idle"
  BY DEF Compact, Idle, disk, client, promises
<1>2. PICK n : bg' = [bg EXCEPT !.pc = "merge", !.inputs = versions.files, !.smallest = n]
  BY DEF Compact
<1>3. bg'.pc = "merge" /\ bg'.back = bg.back /\ bg'.inputs = versions.files
  BY <1>0, <1>2 DEF BgState
<1>4. bg.back = "idle"  BY <1>1 DEF TypedInv, JobShape, IdleBg
<1>5. Below(DOMAIN table, versions.next) /\ Described.next <= versions.next
  BY <1>0, <1>1, UpFacts
<1>6. DescriptorInv'  BY <1>0, <1>1, <1>5, TableSame, DescriptorFrame
<1>7. UpInv'
  BY <1>0, <1>1, <1>3, <1>5, TableSame, NextNumber, UpFrame
<1>8. JobInv'
  BY <1>1, <1>3, <1>4 DEF JobInv, BuildInv, WriteInv, EditInv, SyncInv, Editing, Writing
<1>. QED  BY <1>1, <1>6, <1>7, <1>8, RunningPhases DEF FilesInv

LEMMA OpenOutputKeepsFiles ==
  ASSUME TypedInv, FilesInv, AtRest', OpenOutput
  PROVE  FilesInv'
<1>0. Typed /\ DescriptorInv /\ UpInv /\ JobInv /\ bg \in BgState
      /\ versions \in VersionSetState
  BY DEF TypedInv, FilesInv, Typed, BackgroundOK, BgState, OpenOK, VersionSetState
<1>1. /\ UNCHANGED <<log, manifest, current, db, recovery, imm, logfile, reader,
                     bgError, durable>>
      /\ Running /\ bg.pc = "merge"
      /\ versions' = [versions EXCEPT !.next = @ + 1]
      /\ pending' = pending \cup {versions.next}
      /\ table' = With(table, versions.next, [entries |-> {}, synced |-> FALSE])
      /\ bg' = [bg EXCEPT !.pc = "write", !.out = versions.next]
  BY DEF OpenOutput, client, promises
<1>2. /\ versions'.files = versions.files /\ versions'.log = versions.log
      /\ versions'.manifest = versions.manifest
      /\ versions'.next = versions.next + 1
  BY <1>0, <1>1, VersionsNext
<1>3. bg'.pc = "write" /\ bg'.out = versions.next /\ bg'.inputs = bg.inputs
  BY <1>0, <1>1 DEF BgState
<1>4. Described.next <= versions.next  BY <1>0, <1>1, UpFacts
<1>5. /\ TableKeeps(versions.next) /\ Below(DOMAIN table', versions'.next)
  BY <1>0, <1>1, FreshTable
<1>6. DescriptorInv'  BY <1>0, <1>1, <1>4, <1>5, DescriptorFrame
<1>7. UpInv'
  BY <1>0, <1>1, <1>2, <1>3, <1>5, NextNumber, UpFrame
<1>8. JobInv'
  <2>1. /\ versions.next \in DOMAIN table' /\ versions.next \in pending'
        /\ table'[versions.next] = [entries |-> {}, synced |-> FALSE]
    BY <1>1 DEF With
  <2>2. ~table'[versions.next].synced
    <3>1. PICK r : r = table'[versions.next]  OBVIOUS
    <3>2. r = [entries |-> {}, synced |-> FALSE]  BY <2>1, <3>1
    <3>3. ~r.synced  BY ONLY <3>2, UnsyncedTable
    <3>. QED  BY ONLY <3>1, <3>3
  <2>3. WriteInv'  BY <1>3, <2>1, <2>2 DEF WriteInv
  <2>. QED
    BY <1>0, <1>2, <1>3, <2>3 DEF JobInv, BuildInv, EditInv, SyncInv, Editing
<1>. QED  BY <1>1, <1>6, <1>7, <1>8, RunningPhases DEF FilesInv
LEMMA MakeEdit ==
  ASSUME OpenOK, NEW a, NEW d, NEW l
  PROVE  /\ LogAndApply(a, d, l).add = a /\ LogAndApply(a, d, l).del = d
         /\ LogAndApply(a, d, l).log = l /\ LogAndApply(a, d, l).next = versions.next
         /\ LogAndApply(a, d, l).last = versions.last
BY DEF LogAndApply

LEMMA OneFile ==
  ASSUME NEW level, NEW n
  PROVE  Numbers({<<level, n>>}) = {n}
BY DEF Numbers

LEMMA FinishOutputKeepsFiles ==
  ASSUME TypedInv, FilesInv, AtRest', FinishOutput
  PROVE  FilesInv'
<1>0. Typed /\ DescriptorInv /\ UpInv /\ JobInv /\ bg \in BgState /\ OpenOK
      /\ versions.next \in Nat /\ versions.log \in Nat /\ logfile \in Nat
  BY DEF TypedInv, FilesInv, Typed, BackgroundOK, BgState, OpenOK
<1>. DEFINE e == LogAndApply({<<1, bg.out>>}, bg.inputs, versions.log)
<1>1. /\ UNCHANGED <<log, manifest, current, db, recovery, imm, logfile, reader,
                     bgError, durable, versions, pending>>
      /\ Running /\ bg.pc = "write"
      /\ bg' = [bg EXCEPT !.pc = "append", !.back = "idle", !.edit = e]
  BY DEF FinishOutput, client, promises
<1>2. bg'.pc = "append" /\ bg'.back = "idle" /\ bg'.edit = e /\ bg'.inputs = bg.inputs
  BY <1>0, <1>1 DEF BgState
<1>3. /\ e.add = {<<1, bg.out>>} /\ e.del = bg.inputs /\ e.log = versions.log
      /\ e.next = versions.next
  BY <1>0, MakeEdit
<1>. HIDE DEF e
<1>4. bg.out \in DOMAIN table /\ ~table[bg.out].synced
  BY <1>0, <1>1 DEF JobInv, WriteInv, Writing
<1>5. bg.inputs # {}  BY <1>1 DEF TypedInv, JobShape
<1>6. /\ DOMAIN table' = DOMAIN table
      /\ \A n \in DOMAIN table : n # bg.out => table'[n] = table[n]
      /\ table'[bg.out] =
           [entries |-> Merged(EntriesOf(Numbers(bg.inputs)), bg.smallest), synced |-> TRUE]
  BY <1>0, <1>4, OutputWrites
<1>7. table'[bg.out].synced
  <2>1. PICK r : r = table'[bg.out]  OBVIOUS
  <2>2. PICK E : r = [entries |-> E, synced |-> TRUE]  BY <1>6, <2>1
  <2>3. r.synced  BY ONLY <2>2, SyncedTable
  <2>. QED  BY ONLY <2>1, <2>3
<1>8. TableKeeps(versions.next)  BY <1>4, <1>6 DEF TableKeeps
<1>9. /\ Described.next <= versions.next /\ current < versions.next
      /\ Below(DOMAIN table, versions.next) /\ Up
  BY <1>0, <1>1, UpFacts
<1>10. DescriptorInv'  BY <1>0, <1>1, <1>8, <1>9, DescriptorFrame
<1>11. UpInv'
  BY <1>0, <1>1, <1>2, <1>6, <1>8, <1>9, NextNumber, UpFrame
<1>12. JobInv'
  <2>1. versions.log <= logfile /\ logfile < versions.next  BY <1>0, <1>9 DEF UpInv
  <2>2. Described' = Described  BY <1>1 DEF Described
  <2>3. bg'.edit.add = {<<1, bg.out>>}  BY <1>2, <1>3
  <2>4. Numbers(bg'.edit.add) = {bg.out}  BY ONLY <2>3 DEF Numbers
  <2>5. Below({bg.out}, versions.next)  BY <1>4, <1>9 DEF Below
  <2>6. versions.log < versions.next  BY <1>0, <2>1
  <2>7. Stored(Numbers(bg.edit.add))'  BY <1>4, <1>6, <1>7, <2>4 DEF Stored
  <2>8. EditInv'
    BY <1>1, <1>2, <1>3, <1>5, <1>9, <2>2, <2>4, <2>5, <2>6, <2>7, NextNumber, <1>0
       DEF EditInv
  <2>. QED
    BY <1>0, <1>1, <1>2, <2>8 DEF JobInv, BuildInv, WriteInv, SyncInv, Writing
<1>. QED  BY <1>1, <1>10, <1>11, <1>12, RunningPhases DEF FilesInv

\* After an error the thread is idle, or back in its merge.
LEMMA FailedJob ==
  ASSUME Typed, JobShape, NEW outputs, JobFails(outputs)
  PROVE  /\ bgError'
         /\ bg'.pc = bg.back /\ bg'.back = "idle" /\ bg'.inputs \subseteq bg.inputs
         /\ bg.back # "idle" => bg'.out = bg.out
         /\ pending' = pending \ outputs
<1>0. bg \in BgState  BY DEF Typed, BackgroundOK, BgState
<1>1. bgError' = TRUE /\ pending' = pending \ outputs  BY DEF JobFails
<1>2. bgError'  BY ONLY <1>1, Zenon
<1>3. CASE bg.back = "idle"
  <2>1. bg' = IdleBg  BY <1>3 DEF JobFails, EndCall
  <2>. QED  BY <1>1, <1>2, <1>3, <2>1 DEF IdleBg
<1>4. CASE bg.back # "idle"
  <2>1. bg' = [bg EXCEPT !.pc = bg.back, !.back = "idle", !.num = 0]
    BY <1>4 DEF JobFails
  <2>. QED  BY <1>0, <1>1, <1>2, <2>1 DEF BgState
<1>. QED  BY <1>3, <1>4

LEMMA JobFailsKeepsJob ==
  ASSUME Typed, JobShape, JobInv, NEW outputs, JobFails(outputs),
         versions' = versions,
         bg.back = "write" => /\ bg.out \notin outputs
                              /\ bg.out \in DOMAIN table'
                              /\ table'[bg.out] = table[bg.out]
  PROVE  JobInv'
<1>1. /\ bg'.pc = bg.back /\ bg'.back = "idle" /\ bg'.inputs \subseteq bg.inputs
      /\ bg.back # "idle" => bg'.out = bg.out
      /\ pending' = pending \ outputs
  BY FailedJob
<1>2. bg.back \in {"idle", "merge", "write"}  BY DEF Typed, BackgroundOK
<1>3. WriteInv'
  <2>1. SUFFICES ASSUME bg.back = "write"  PROVE WriteInv'
    BY <1>1 DEF WriteInv, Writing
  <2>2. ~table[bg.out].synced /\ bg.out \in pending
    BY <2>1 DEF JobInv, WriteInv, Writing
  <2>. QED  BY <1>1, <2>1, <2>2 DEF WriteInv
<1>. QED
  BY <1>1, <1>2, <1>3 DEF JobInv, BuildInv, EditInv, SyncInv, Editing

LEMMA MergeEndsKeepsFiles ==
  ASSUME TypedInv, FilesInv, AtRest', MergeEnds
  PROVE  FilesInv'
<1>0. Typed /\ DescriptorInv /\ UpInv /\ JobInv /\ JobShape
  BY DEF TypedInv, FilesInv
<1>1. /\ UNCHANGED <<log, table, manifest, current, db, recovery, imm, logfile, reader,
                     durable, versions>>
      /\ Running /\ bg.pc \in {"merge", "write"} /\ JobFails({bg.out})
  BY DEF MergeEnds, disk, promises
<1>2. bg.back = "idle"  BY <1>0, <1>1 DEF JobShape
<1>3. bgError' /\ bg'.pc # "sync"  BY <1>0, <1>1, <1>2, FailedJob
<1>4. Described.next <= versions.next /\ Below(DOMAIN table, versions.next)
  BY <1>0, <1>1, UpFacts
<1>5. DescriptorInv'  BY <1>0, <1>1, <1>4, TableSame, DescriptorFrame
<1>6. UpInv'
  BY <1>0, <1>1, <1>3, <1>4, TableSame, NextNumber, UpFrame
<1>7. JobInv'  BY <1>0, <1>1, <1>2, JobFailsKeepsJob
<1>. QED  BY <1>1, <1>5, <1>6, <1>7, RunningPhases DEF FilesInv

LEMMA BuildKeepsFiles ==
  ASSUME TypedInv, FilesInv, AtRest', NEW ok \in BOOLEAN, Build(ok)
  PROVE  FilesInv'
<1>0. Typed /\ DescriptorInv /\ UpInv /\ JobInv /\ JobShape /\ bg \in BgState /\ OpenOK
      /\ versions.next \in Nat /\ logfile \in Nat
  BY DEF TypedInv, FilesInv, Typed, BackgroundOK, BgState, OpenOK
<1>1. /\ UNCHANGED <<log, manifest, current, db, recovery, imm, logfile, reader,
                     durable, versions>>
      /\ Running /\ bg.pc = "build"
  BY DEF Build, promises
<1>2. /\ table' = IF ok /\ imm[1] # {}
                  THEN With(table, bg.num, [entries |-> imm[1], synced |-> TRUE])
                  ELSE table
  BY <1>0, BuildWrites
<1>3. bg.num \notin DOMAIN table /\ bg.num < versions.next /\ bg.num \in Nat
  BY <1>0, <1>1 DEF JobInv, BuildInv, BgState
<1>4. /\ \A n \in DOMAIN table : n \in DOMAIN table' /\ table'[n] = table[n]
      /\ DOMAIN table' \subseteq DOMAIN table \cup {bg.num}
  BY <1>2, <1>3 DEF With
<1>5. TableKeeps(versions.next)  BY <1>4 DEF TableKeeps
<1>6. /\ Described.next <= versions.next /\ current < versions.next
      /\ Below(DOMAIN table, versions.next) /\ Up
  BY <1>0, <1>1, UpFacts
<1>7. Below(DOMAIN table', versions.next)  BY <1>3, <1>4, <1>6 DEF Below
<1>8. DescriptorInv'  BY <1>0, <1>1, <1>5, <1>6, DescriptorFrame
<1>9. bg.back = "write" => bg.out \in DOMAIN table /\ bg.out \in pending /\ bg.out # bg.num
                           /\ ~table[bg.out].synced
  BY <1>0, <1>3 DEF JobInv, WriteInv, Writing
<1>10. CASE ok /\ ~shuttingDown
  <2>. DEFINE add == IF imm[1] = {} THEN {} ELSE {<<LevelFor(imm[1]), bg.num>>}
              e == LogAndApply(add, {}, logfile)
  <2>1. /\ bg' = [bg EXCEPT !.pc = "append", !.edit = e]
        /\ pending' = pending \ {bg.num} /\ bgError' = bgError
    BY <1>10 DEF Build
  <2>2. /\ e.add = add /\ e.del = {} /\ e.log = logfile /\ e.next = versions.next
    BY <1>0, MakeEdit
  <2>3. PICK A : A = add  OBVIOUS
  <2>4. Numbers(A) = IF imm[1] = {} THEN {} ELSE {bg.num}
    BY <2>3, OneFile DEF Numbers
  <2>. HIDE DEF add
  <2>. HIDE DEF e
  <2>5. /\ bg'.pc = "append" /\ bg'.edit = e /\ bg'.back = bg.back
        /\ bg'.out = bg.out /\ bg'.inputs = bg.inputs
    BY <1>0, <2>1 DEF BgState
  <2>6. imm[1] # {} => bg.num \in DOMAIN table' /\ table'[bg.num].synced
    <3>1. SUFFICES ASSUME imm[1] # {}  PROVE bg.num \in DOMAIN table' /\ table'[bg.num].synced
      OBVIOUS
    <3>2. table' = With(table, bg.num, [entries |-> imm[1], synced |-> TRUE])
      BY <1>2, <1>10, <3>1
    <3>3. bg.num \in DOMAIN table'
          /\ table'[bg.num] = [entries |-> imm[1], synced |-> TRUE]
      BY <3>2 DEF With
    <3>4. PICK r : r = table'[bg.num]  OBVIOUS
    <3>5. PICK E : r = [entries |-> E, synced |-> TRUE]  BY <3>3, <3>4
    <3>6. r.synced  BY ONLY <3>5, SyncedTable
    <3>7. table'[bg.num].synced  BY ONLY <3>4, <3>6
    <3>. QED  BY <3>3, <3>7
  <2>7. Stored(Numbers(A))' /\ Below(Numbers(A), versions.next)
    BY <1>3, <2>4, <2>6 DEF Stored, Below
  <2>8. bg'.edit.add = A  BY <2>2, <2>3, <2>5
  <2>9. Stored(Numbers(bg.edit.add))' /\ Below(Numbers(bg'.edit.add), versions.next)
    <3>1. Numbers(bg'.edit.add) = Numbers(A)  BY ONLY <2>8
    <3>. QED  BY ONLY <2>7, <3>1 DEF Stored, Below
  <2>10. logfile < versions.next  BY <1>0, <1>6 DEF UpInv
  <2>11. Described' = Described  BY <1>1 DEF Described
  <2>12. EditInv'
    BY <1>0, <1>1, <1>6, <2>2, <2>5, <2>9, <2>10, <2>11 DEF EditInv
  <2>13. WriteInv'
    BY <1>4, <1>9, <2>1, <2>5 DEF WriteInv, Writing
  <2>14. JobInv'
    BY <1>0, <1>1, <2>5, <2>12, <2>13 DEF JobInv, BuildInv, SyncInv
  <2>15. UpInv'
    BY <1>0, <1>1, <1>5, <1>7, <2>1, <2>5, NextNumber, UpFrame
  <2>. QED  BY <1>1, <1>8, <2>14, <2>15, RunningPhases DEF FilesInv
<1>11. CASE ~(ok /\ ~shuttingDown)
  <2>1. JobFails({bg.num})  BY <1>11 DEF Build
  <2>2. bgError' /\ bg'.pc # "sync"
    <3>1. bgError' /\ bg'.pc = bg.back  BY <1>0, <2>1, FailedJob
    <3>. QED  BY <1>0, <3>1 DEF BgState
  <2>3. UpInv'
    BY <1>0, <1>1, <1>5, <1>7, <2>2, NextNumber, UpFrame
  <2>4. JobInv'
    <3>1. bg.back = "write" => /\ bg.out \notin {bg.num}
                               /\ bg.out \in DOMAIN table'
                               /\ table'[bg.out] = table[bg.out]
      BY <1>4, <1>9
    <3>. QED  BY <1>0, <1>1, <2>1, <3>1, JobFailsKeepsJob
  <2>. QED  BY <1>1, <1>8, <2>3, <2>4, RunningPhases DEF FilesInv
<1>. QED  BY <1>10, <1>11
LEMMA ExtendedStates ==
  ASSUME NEW m \in Descriptor, NEW e \in Edit, m.synced <= Len(m.states)
  PROVE  /\ States(Extended(m, e)) = States(m) \cup {ApplyEdit(LastState(m), e)}
         /\ LastState(Extended(m, e)) = ApplyEdit(LastState(m), e)
         /\ Extended(m, e).synced = m.synced
         /\ Extended(m, e).synced <= Len(Extended(m, e).states)
<1>. DEFINE y == ApplyEdit(LastState(m), e)
            q == m.states
            x == Extended(m, e)
<1>1. q \in Seq(Version) /\ m.synced \in Nat /\ Len(q) \in Nat
  BY LenProperties DEF Descriptor
<1>2. y \in Version  BY LastStateTyped, ApplyEditTyped
<1>3. x.states = Append(q, y) /\ x.synced = m.synced  BY DEF Extended
<1>. HIDE DEF x, y, q
<1>4. /\ Len(Append(q, y)) = Len(q) + 1 /\ Append(q, y)[Len(q) + 1] = y
      /\ \A i \in 1..Len(q) : Append(q, y)[i] = q[i]
  BY ONLY <1>1, <1>2, AppendProperties
<1>5. q = m.states  BY DEF q
<1>6. LastState(x) = y
  <2>1. Append(q, y) # <<>>  BY ONLY <1>1, <1>2, AppendProperties, EmptySeq
  <2>. QED  BY <1>3, <1>4, <2>1 DEF LastState
<1>7. States(x) = States(m) \cup {y}
  <2>1. ASSUME NEW st \in States(x)  PROVE st \in States(m) \cup {y}
    <3>1. PICK i \in 1..(Len(q) + 1) : i >= m.synced /\ st = Append(q, y)[i]
      BY <1>3, <1>4 DEF States
    <3>2. CASE i = Len(q) + 1  BY <1>4, <3>1, <3>2
    <3>3. CASE i # Len(q) + 1
      <4>1. i \in 1..Len(q)  BY <1>1, <3>3
      <4>2. st = q[i]  BY <1>4, <3>1, <4>1
      <4>. QED  BY <1>5, <3>1, <4>1, <4>2 DEF States
    <3>. QED  BY <3>2, <3>3
  <2>2. ASSUME NEW st \in States(m)  PROVE st \in States(x)
    <3>1. PICK i \in 1..Len(q) : i >= m.synced /\ st = q[i]  BY <1>5 DEF States
    <3>2. i \in 1..(Len(q) + 1) /\ st = Append(q, y)[i]  BY <1>1, <1>4, <3>1
    <3>. QED  BY <1>3, <1>4, <3>1, <3>2 DEF States
  <2>3. y \in States(x)
    <3>1. Len(q) + 1 \in 1..(Len(q) + 1) /\ Len(q) + 1 >= m.synced
      BY <1>1, <1>5
    <3>. QED  BY <1>3, <1>4, <3>1 DEF States
  <2>. QED  BY <2>1, <2>2, <2>3
<1>8. m.synced <= Len(q) + 1  BY <1>1, <1>5
<1>. QED  BY <1>3, <1>4, <1>6, <1>7, <1>8 DEF x, y

LEMMA EditKeepsDescriptor ==
  ASSUME TypedInv, FilesInv, Running, Editing, AppendEdit,
         UNCHANGED <<table, current, durable>>
  PROVE  /\ DescriptorInv'
         /\ Described' = ApplyEdit(Described, bg.edit)
         /\ Possible' = Possible \cup {ApplyEdit(Described, bg.edit)}
         /\ manifest'[current].synced = manifest[current].synced
         /\ bg.edit \in Edit /\ Described \in Version
<1>0. Typed /\ DescriptorInv /\ UpInv /\ JobInv /\ DiskOK /\ BackgroundOK
      /\ bg.edit \in Edit
  BY DEF TypedInv, FilesInv, Typed, BackgroundOK
<1>1. /\ Up /\ current # 0 /\ versions.manifest = current
      /\ current \in DOMAIN manifest /\ manifest[current] \in Descriptor
      /\ Described \in Possible /\ Described \in Version
      /\ versions.next \in Nat /\ Described.next \in Nat
  BY <1>0, UpFacts
<1>2. /\ DOMAIN manifest' = DOMAIN manifest
      /\ \A n \in DOMAIN manifest : n # current => manifest'[n] = manifest[n]
      /\ manifest'[current] = Extended(manifest[current], bg.edit)
  BY <1>0, <1>1, EditAppended
<1>3. manifest[current].synced <= Len(manifest[current].states)
  BY <1>0, <1>1 DEF DescriptorInv
<1>. DEFINE new == ApplyEdit(Described, bg.edit)
<1>4. /\ Possible' = Possible \cup {new} /\ Described' = new
      /\ manifest'[current].synced = manifest[current].synced
      /\ manifest'[current].synced <= Len(manifest'[current].states)
  BY <1>0, <1>1, <1>2, <1>3, ExtendedStates DEF Possible, Described
<1>5. /\ new.files = (Described.files \ bg.edit.del) \cup bg.edit.add
      /\ new.log = bg.edit.log /\ new.next = bg.edit.next
  BY <1>0, <1>1, ApplyEditTyped
<1>. HIDE DEF new
<1>6. /\ bg.edit.next <= versions.next /\ Described.next <= bg.edit.next
      /\ current < bg.edit.next /\ bg.edit.log < bg.edit.next
      /\ Stored(Numbers(bg.edit.add)) /\ Below(Numbers(bg.edit.add), bg.edit.next)
  BY <1>0 DEF JobInv, EditInv
<1>7. bg.edit.next \in Nat  BY <1>0 DEF Edit
<1>8. ASSUME NEW st \in Possible  PROVE Openable(st)'
  <2>1. Openable(st)  BY <1>0, <1>8 DEF DescriptorInv
  <2>2. st.next \in Nat  BY <1>0, <1>8, PossibleTyped DEF Version
  <2>3. st.next <= bg.edit.next  BY <1>1, <1>6, <1>7, <2>1, <2>2 DEF Openable
  <2>. QED  BY <1>4, <1>5, <2>1, <2>3 DEF Openable, Stored
<1>9. ASSUME NEW st, st = new  PROVE Openable(st)'
  <2>1. Openable(Described)  BY <1>0, <1>1 DEF DescriptorInv
  <2>2. \A n \in Numbers(st.files) :
          n \in Numbers(Described.files) \cup Numbers(bg.edit.add)
    BY <1>5, <1>9 DEF Numbers
  <2>3. Numbers(Described.files) \subseteq Nat  BY <1>1, NumbersTyped DEF Version
  <2>4. Below(Numbers(Described.files), bg.edit.next)
    BY <1>1, <1>6, <1>7, <2>1, <2>3 DEF Openable, Below
  <2>5. Below(Numbers(st.files), bg.edit.next)  BY <1>6, <2>2, <2>4 DEF Below
  <2>6. Stored(Numbers(st.files))  BY <1>6, <2>1, <2>2 DEF Openable, Stored
  <2>7. Stored(Numbers(st.files))'  BY <2>6 DEF Stored
  <2>. QED
    BY <1>4, <1>5, <1>6, <1>7, <1>9, <2>5, <2>7 DEF Openable
<1>10. \A st \in Possible' : Openable(st)'  BY <1>4, <1>8, <1>9
<1>11. \A n \in DOMAIN manifest' : manifest'[n].synced <= Len(manifest'[n].states)
  BY <1>0, <1>2, <1>4 DEF DescriptorInv
<1>12. DescriptorInv'
  BY <1>0, <1>1, <1>2, <1>4, <1>10, <1>11 DEF DescriptorInv
<1>. QED  BY <1>0, <1>1, <1>4, <1>12 DEF new
LEMMA EditKeepsUp ==
  ASSUME TypedInv, FilesInv, Running, Editing, AppendEdit,
         UNCHANGED <<log, table, current, durable, logfile, versions, reader, db>>,
         bgError' \/ bg'.pc = "sync"
  PROVE  UpInv'
<1>0. Typed /\ DescriptorInv /\ UpInv /\ JobInv /\ logfile \in Nat /\ versions.log \in Nat
  BY DEF TypedInv, FilesInv, Typed, OpenOK
<1>1. /\ Described' = ApplyEdit(Described, bg.edit)
      /\ Possible' = Possible \cup {ApplyEdit(Described, bg.edit)}
      /\ manifest'[current].synced = manifest[current].synced
      /\ bg.edit \in Edit /\ Described \in Version
  BY EditKeepsDescriptor
<1>. DEFINE new == ApplyEdit(Described, bg.edit)
<1>2. new.log = bg.edit.log /\ new.next = bg.edit.next  BY <1>1, ApplyEditTyped
<1>. HIDE DEF new
<1>3. Up  BY <1>0, UpFacts
<1>4. bg.edit.next <= versions.next /\ bg.edit.log <= logfile
  <2>1. versions.log <= logfile  BY <1>0, <1>3 DEF UpInv
  <2>2. bg.edit.log \in {versions.log, logfile} /\ bg.edit.next <= versions.next
    BY <1>0 DEF JobInv, EditInv
  <2>. QED  BY <1>0, <2>1, <2>2
<1>5. \A st \in Possible' : st.log <= logfile
  <2>1. \A st \in Possible : st.log <= logfile  BY <1>0, <1>3 DEF UpInv
  <2>2. Possible' = Possible \cup {new}  BY <1>1 DEF new
  <2>. QED  BY <1>2, <1>4, <2>1, <2>2
<1>6. Described'.next <= versions.next  BY <1>1, <1>2, <1>4 DEF new
<1>7. /\ current # 0 /\ versions.manifest = current /\ manifest[current].synced >= 1
      /\ logfile \in DOMAIN log /\ logfile < versions.next
      /\ \A n \in DOMAIN log : n <= logfile
      /\ versions.log <= logfile
      /\ Stored(Numbers(versions.files) \cup reader.files)
      /\ Below(Numbers(versions.files), versions.next)
      /\ db # "clean" => Below(DOMAIN table, versions.next)
  BY <1>0, <1>3 DEF UpInv
<1>8. Stored(Numbers(versions.files) \cup reader.files)'  BY <1>7 DEF Stored
<1>9. bgError' \/ bg'.pc = "sync"  OBVIOUS
<1>. QED  BY <1>1, <1>5, <1>6, <1>7, <1>8, <1>9 DEF UpInv

LEMMA AppendToManifestKeepsFiles ==
  ASSUME TypedInv, FilesInv, AtRest', AppendToManifest
  PROVE  FilesInv'
<1>0. Typed /\ DescriptorInv /\ UpInv /\ JobInv /\ bg \in BgState
  BY DEF TypedInv, FilesInv, Typed, BackgroundOK, BgState
<1>1. /\ UNCHANGED <<log, table, current, db, recovery, imm, logfile, reader,
                     bgError, durable, versions, pending>>
      /\ Running /\ bg.pc = "append" /\ AppendEdit /\ bg' = [bg EXCEPT !.pc = "sync"]
  BY DEF AppendToManifest, client, promises
<1>2. /\ bg'.pc = "sync" /\ bg'.back = bg.back /\ bg'.edit = bg.edit
      /\ bg'.inputs = bg.inputs /\ bg'.out = bg.out
  BY <1>0, <1>1 DEF BgState
<1>3. Editing  BY <1>1 DEF Editing
<1>4. /\ DescriptorInv' /\ Described' = ApplyEdit(Described, bg.edit)
      /\ bg.edit \in Edit /\ Described \in Version
  BY <1>1, <1>3, EditKeepsDescriptor
<1>5. UpInv'  BY <1>1, <1>2, <1>3, EditKeepsUp
<1>6. /\ Described'.files = (Described.files \ bg.edit.del) \cup bg.edit.add
      /\ Described'.log = bg.edit.log /\ Described'.next = bg.edit.next
  BY <1>4, ApplyEditTyped
<1>7. JobInv'
  <2>1. ~bgError => Described.files = versions.files
    BY <1>0, <1>1, UpFacts DEF UpInv, Current
  <2>2. SyncInv'  BY <1>1, <1>2, <1>6, <2>1 DEF SyncInv, Edited
  <2>3. WriteInv'  BY <1>0, <1>1, <1>2 DEF JobInv, WriteInv, Writing
  <2>4. bg.edit.next <= bg.edit.next  BY <1>4 DEF Edit
  <2>5. EditInv'
    BY <1>0, <1>1, <1>2, <1>3, <1>6, <2>4 DEF JobInv, EditInv, Editing, Stored
  <2>. QED  BY <1>0, <1>1, <1>2, <2>2, <2>3, <2>5 DEF JobInv, BuildInv
<1>. QED  BY <1>1, <1>4, <1>5, <1>7, RunningPhases DEF FilesInv

LEMMA ManifestFailsKeepsFiles ==
  ASSUME TypedInv, FilesInv, AtRest', ManifestFails
  PROVE  FilesInv'
<1>0. Typed /\ DescriptorInv /\ UpInv /\ JobInv /\ bg \in BgState /\ JobShape
  BY DEF TypedInv, FilesInv, Typed, BackgroundOK, BgState
<1>1. /\ UNCHANGED <<log, table, current, db, recovery, imm, logfile, reader,
                     durable, versions>>
      /\ Running /\ bg.pc \in {"append", "sync"}
      /\ manifest' = manifest \/ AppendEdit
      /\ JobFails(IF bg.back = "idle" THEN {bg.out} ELSE {})
  BY DEF ManifestFails, promises
<1>2. Editing  BY <1>1 DEF Editing
<1>3. bgError' /\ bg'.pc # "sync"
  <2>1. bgError' /\ bg'.pc = bg.back  BY <1>0, <1>1, FailedJob
  <2>. QED  BY <1>0, <2>1 DEF BgState
<1>4. Described.next <= versions.next /\ Below(DOMAIN table, versions.next)
  BY <1>0, <1>1, UpFacts
<1>5. DescriptorInv' /\ UpInv'
  <2>1. CASE AppendEdit
    BY <1>1, <1>2, <1>3, <2>1, EditKeepsDescriptor, EditKeepsUp
  <2>2. CASE manifest' = manifest
    <3>1. DescriptorInv'  BY <1>0, <1>1, <1>4, <2>2, TableSame, DescriptorFrame
    <3>2. UpInv'
      BY <1>0, <1>1, <1>3, <1>4, <2>2, TableSame, NextNumber, UpFrame
    <3>. QED  BY <3>1, <3>2
  <2>. QED  BY <1>1, <2>1, <2>2
<1>6. JobInv'
  <2>1. bg.back = "write" => bg.out \notin IF bg.back = "idle" THEN {bg.out} ELSE {}
    OBVIOUS
  <2>2. bg.back = "write" => bg.out \in DOMAIN table  BY <1>0 DEF JobInv, WriteInv, Writing
  <2>. QED  BY <1>0, <1>1, <2>1, <2>2, JobFailsKeepsJob
<1>. QED  BY <1>1, <1>5, <1>6, RunningPhases DEF FilesInv

LEMMA SyncedDescriptor ==
  ASSUME TypedInv, FilesInv, Up
  PROVE  /\ SyncedManifest[current].synced = Len(SyncedManifest[current].states)
         /\ LastState(SyncedManifest[current]) = Described
         /\ States(SyncedManifest[current]) = {Described}
         /\ SyncedManifest[current].synced >= 1
         /\ DOMAIN SyncedManifest = DOMAIN manifest /\ current \in DOMAIN manifest
         /\ \A n \in DOMAIN manifest :
              SyncedManifest[n].synced <= Len(SyncedManifest[n].states)
<1>0. Typed /\ DescriptorInv /\ UpInv /\ DiskOK  BY DEF TypedInv, FilesInv, Typed
<1>1. current # 0 /\ versions.manifest = current /\ manifest[current].synced >= 1
  BY <1>0 DEF UpInv
<1>2. current \in DOMAIN manifest  BY <1>0, <1>1 DEF DescriptorInv
<1>3. manifest[current] \in Descriptor  BY <1>0, <1>2 DEF DiskOK, IsDirectory
<1>. DEFINE q == manifest[current].states
<1>4. q \in Seq(Version) /\ Len(q) \in Nat /\ manifest[current].synced \in Nat
      /\ manifest[current].synced <= Len(q)
  BY <1>0, <1>2, <1>3, LenProperties DEF Descriptor, DescriptorInv
<1>5. /\ DOMAIN SyncedManifest = DOMAIN manifest
      /\ \A n \in DOMAIN manifest : n # current => SyncedManifest[n] = manifest[n]
      /\ SyncedManifest[current] = [states |-> q, synced |-> Len(q)]
  BY <1>0, <1>1, <1>2, ManifestSynced
<1>6. SyncedManifest[current].states = q /\ SyncedManifest[current].synced = Len(q)
  BY <1>5
<1>7. Len(q) >= 1  BY <1>1, <1>4
<1>8. q # <<>>  BY <1>4, <1>7, EmptySeq
<1>9. LastState(SyncedManifest[current]) = Described /\ Described = q[Len(q)]
  BY <1>6, <1>8 DEF LastState, Described
<1>10. States(SyncedManifest[current]) = {Described}
  <2>1. {j \in 1..Len(q) : j >= Len(q)} = {Len(q)}  BY <1>4, <1>7
  <2>. QED  BY <1>6, <1>9, <2>1 DEF States
<1>11. \A n \in DOMAIN manifest : SyncedManifest[n].synced <= Len(SyncedManifest[n].states)
  BY <1>0, <1>4, <1>5, <1>6 DEF DescriptorInv
<1>. QED  BY <1>2, <1>5, <1>6, <1>7, <1>9, <1>10, <1>11
\* What the installation of a version leaves.
LEMMA InstallFacts ==
  ASSUME Typed, JobShape, InstallVersion
  PROVE  /\ UNCHANGED <<current, db, recovery, mem, logfile, reader, snapshots, bgError,
                        shuttingDown, queue, group, store, acked, durable, budget>>
         /\ Running /\ bg.pc = "sync"
         /\ versions'.files = Edited /\ versions'.log = bg.edit.log
         /\ versions'.next = versions.next /\ versions'.manifest = versions.manifest
         /\ versions'.last = versions.last
         /\ pending' = IF bg.edit.del # {} THEN pending \ {bg.out} ELSE pending
         /\ imm' = IF bg.edit.del # {} THEN imm ELSE <<>>
         /\ bg'.pc = bg.back /\ bg'.back = "idle"
         /\ bg'.inputs = IF bg.back # "idle" THEN bg.inputs ELSE {}
         /\ bg.back # "idle" => bg'.out = bg.out /\ bg'.smallest = bg.smallest
<1>0. bg \in BgState /\ versions \in VersionSetState
  BY DEF Typed, BackgroundOK, BgState, OpenOK, VersionSetState
<1>1. /\ UNCHANGED <<current, db, recovery, mem, logfile, reader, snapshots, bgError,
                     shuttingDown, queue, group, store, acked, durable, budget>>
      /\ Running /\ bg.pc = "sync"
      /\ versions' = [versions EXCEPT !.files = (@ \ bg.edit.del) \cup bg.edit.add,
                                      !.log = bg.edit.log]
      /\ pending' = IF bg.edit.del # {} THEN pending \ {bg.out} ELSE pending
      /\ imm' = IF bg.edit.del # {} THEN imm ELSE <<>>
  BY DEF InstallVersion, promises
<1>2. /\ versions'.files = Edited /\ versions'.log = bg.edit.log
      /\ versions'.next = versions.next /\ versions'.manifest = versions.manifest
      /\ versions'.last = versions.last
  BY <1>0, <1>1 DEF VersionSetState, Edited
<1>3. CASE bg.back # "idle"
  <2>1. bg' = [bg EXCEPT !.pc = bg.back, !.back = "idle", !.num = 0]
    BY <1>3 DEF InstallVersion
  <2>2. /\ bg'.pc = bg.back /\ bg'.back = "idle" /\ bg'.inputs = bg.inputs
        /\ bg'.out = bg.out /\ bg'.smallest = bg.smallest
    BY <1>0, <2>1 DEF BgState
  <2>. QED  BY <1>1, <1>2, <1>3, <2>2
<1>4. CASE bg.back = "idle"
  <2>1. bg' = IdleBg  BY <1>4 DEF InstallVersion, EndCall
  <2>2. bg'.pc = "idle" /\ bg'.back = "idle" /\ bg'.inputs = {}  BY <2>1 DEF IdleBg
  <2>. QED  BY <1>1, <1>2, <1>4, <2>2
<1>. QED  BY <1>3, <1>4

\* What it deletes.
LEMMA InstallDeletes ==
  ASSUME TypedInv, FilesInv, InstallVersion
  PROVE  /\ DOMAIN table' \subseteq DOMAIN table
         /\ \A n \in DOMAIN table :
              \/ bgError \/ n \in pending' \/ n \in reader.files \/ n \in Numbers(Edited)
              \/ bg.back # "idle" /\ n \in Numbers(bg.inputs)
              => n \in DOMAIN table' /\ table'[n] = table[n]
         /\ DOMAIN log' \subseteq DOMAIN log
         /\ \A n \in DOMAIN log' : log'[n] = log[n]
         /\ \A n \in DOMAIN log : bgError \/ n >= bg.edit.log => n \in DOMAIN log'
         /\ DOMAIN manifest' \subseteq DOMAIN manifest
         /\ \A n \in DOMAIN manifest' : manifest'[n] = SyncedManifest[n]
         /\ \A n \in DOMAIN manifest : n >= versions.manifest => n \in DOMAIN manifest'
<1>. DEFINE outputs == IF bg.edit.del # {} THEN pending \ {bg.out} ELSE pending
            held == reader.files \cup IF bg.back # "idle" THEN Numbers(bg.inputs) ELSE {}
<1>0. Typed /\ JobShape /\ Up  BY UpFacts DEF TypedInv, FilesInv, InstallVersion
<1>1. DOMAIN SyncedManifest = DOMAIN manifest  BY <1>0, SyncedDescriptor
<1>2. PICK v : v = versions'  OBVIOUS
<1>3. DeleteObsoleteFiles(v, outputs, held, SyncedManifest) /\ pending' = outputs
  BY <1>2 DEF InstallVersion
<1>4. v.files = Edited /\ v.log = bg.edit.log /\ v.manifest = versions.manifest
  BY <1>0, <1>2, InstallFacts
<1>. HIDE DEF outputs
<1>5. CASE bgError
  <2>1. manifest' = SyncedManifest /\ log' = log /\ table' = table
    BY <1>3, <1>5 DEF DeleteObsoleteFiles
  <2>. QED  BY <1>1, <2>1
<1>6. CASE ~bgError
  <2>1. /\ log' = Restricted(log, LogsFrom(v.log))
        /\ manifest' = Restricted(SyncedManifest,
                                  {n \in DOMAIN SyncedManifest : n >= v.manifest})
        /\ table' = Restricted(table, outputs \cup held \cup Numbers(v.files))
    BY <1>3, <1>6 DEF DeleteObsoleteFiles
  <2>2. /\ DOMAIN log' = DOMAIN log \cap LogsFrom(v.log)
        /\ \A n \in DOMAIN log' : log'[n] = log[n]
    BY <2>1 DEF Restricted
  <2>3. /\ DOMAIN manifest' = {n \in DOMAIN SyncedManifest : n >= v.manifest}
        /\ \A n \in DOMAIN manifest' : manifest'[n] = SyncedManifest[n]
    BY <2>1 DEF Restricted
  <2>4. /\ DOMAIN table' = DOMAIN table \cap (outputs \cup held \cup Numbers(v.files))
        /\ \A n \in DOMAIN table' : table'[n] = table[n]
    BY <2>1 DEF Restricted
  <2>5. \A n \in DOMAIN log : n >= bg.edit.log => n \in DOMAIN log'
    BY <1>4, <2>2 DEF LogsFrom
  <2>6. \A n \in DOMAIN table :
          \/ n \in pending' \/ n \in reader.files \/ n \in Numbers(Edited)
          \/ bg.back # "idle" /\ n \in Numbers(bg.inputs)
          => n \in DOMAIN table'
    BY <1>3, <1>4, <2>4
  <2>. QED  BY <1>1, <1>4, <1>6, <2>2, <2>3, <2>4, <2>5, <2>6
<1>. QED  BY <1>5, <1>6

LEMMA NumbersUnion ==
  ASSUME NEW F, NEW G
  PROVE  Numbers(F \cup G) = Numbers(F) \cup Numbers(G)
BY DEF Numbers

LEMMA NumbersSubset ==
  ASSUME NEW F, NEW G, F \subseteq G
  PROVE  Numbers(F) \subseteq Numbers(G)
BY DEF Numbers

LEMMA InstallVersionKeepsFiles ==
  ASSUME TypedInv, FilesInv, AtRest', InstallVersion
  PROVE  FilesInv'
<1>0. /\ Typed /\ DescriptorInv /\ UpInv /\ JobInv /\ JobShape /\ bg \in BgState
      /\ logfile \in Nat /\ versions.log \in Nat /\ versions.next \in Nat
  BY DEF TypedInv, FilesInv, Typed, BackgroundOK, BgState, OpenOK
<1>1. /\ UNCHANGED <<current, db, recovery, logfile, reader, bgError, durable>>
      /\ Running /\ bg.pc = "sync"
      /\ versions'.files = Edited /\ versions'.log = bg.edit.log
      /\ versions'.next = versions.next /\ versions'.manifest = versions.manifest
      /\ pending' = IF bg.edit.del # {} THEN pending \ {bg.out} ELSE pending
      /\ bg'.pc = bg.back /\ bg'.back = "idle"
      /\ bg'.inputs = IF bg.back # "idle" THEN bg.inputs ELSE {}
      /\ bg.back # "idle" => bg'.out = bg.out
  BY <1>0, InstallFacts
<1>2. /\ Up /\ db # "clean" /\ current # 0 /\ versions.manifest = current
      /\ current \in DOMAIN manifest /\ Described \in Possible /\ Described \in Version
      /\ Described.next <= versions.next
      /\ Below(DOMAIN table, versions.next)
  BY <1>0, <1>1, UpFacts
<1>3. /\ SyncedManifest[current].synced = Len(SyncedManifest[current].states)
      /\ LastState(SyncedManifest[current]) = Described
      /\ States(SyncedManifest[current]) = {Described}
      /\ SyncedManifest[current].synced >= 1
      /\ \A n \in DOMAIN manifest :
           SyncedManifest[n].synced <= Len(SyncedManifest[n].states)
  BY <1>2, SyncedDescriptor
<1>4. /\ DOMAIN table' \subseteq DOMAIN table
      /\ \A n \in DOMAIN table :
           \/ bgError \/ n \in pending' \/ n \in reader.files \/ n \in Numbers(Edited)
           \/ bg.back # "idle" /\ n \in Numbers(bg.inputs)
           => n \in DOMAIN table' /\ table'[n] = table[n]
      /\ DOMAIN log' \subseteq DOMAIN log
      /\ \A n \in DOMAIN log : bgError \/ n >= bg.edit.log => n \in DOMAIN log'
      /\ DOMAIN manifest' \subseteq DOMAIN manifest
      /\ \A n \in DOMAIN manifest' : manifest'[n] = SyncedManifest[n]
      /\ \A n \in DOMAIN manifest : n >= versions.manifest => n \in DOMAIN manifest'
  BY InstallDeletes
<1>5. current \in DOMAIN manifest' /\ manifest'[current] = SyncedManifest[current]
  <2>1. current \in Nat  BY <1>0 DEF Typed, DiskOK
  <2>2. current >= versions.manifest  BY <1>2, <2>1
  <2>. QED  BY <1>2, <1>4, <2>2
<1>6. Possible' = {Described} /\ Described' = Described
  BY <1>1, <1>2, <1>3, <1>5 DEF Possible, Described
<1>7. Openable(Described) /\ Described.log <= logfile
  BY <1>0, <1>2 DEF DescriptorInv, UpInv
<1>8. /\ bg.edit.next <= versions.next
      /\ Stored(Numbers(bg.edit.add)) /\ Below(Numbers(bg.edit.add), bg.edit.next)
      /\ bg.edit.log \in {versions.log, logfile}
      /\ Described.log = bg.edit.log
      /\ ~bgError => Described.files = Edited
  BY <1>0, <1>1 DEF JobInv, EditInv, SyncInv, Editing
<1>9. DescriptorInv'
  <2>1. \A n \in Numbers(Described.files) :
          bgError \/ n \in Numbers(Edited)
    BY <1>8
  <2>2. \A n \in Numbers(Described.files) : n \in DOMAIN table' /\ table'[n].synced
    BY <1>4, <1>7, <2>1 DEF Openable, Stored
  <2>3. PICK z : z = Described  OBVIOUS
  <2>4. Stored(Numbers(z.files))'  BY <2>2, <2>3 DEF Stored
  <2>5. Openable(z)'  BY <1>1, <1>6, <1>7, <2>3, <2>4 DEF Openable
  <2>6. \A st \in Possible' : Openable(st)'  BY <1>6, <2>3, <2>5
  <2>7. \A n \in DOMAIN manifest' : manifest'[n].synced <= Len(manifest'[n].states)
    BY <1>3, <1>4
  <2>. QED  BY <1>1, <1>2, <1>3, <1>5, <2>6, <2>7 DEF DescriptorInv
<1>10. UpInv'
  <2>1. Numbers(Edited) \subseteq Numbers(versions.files) \cup Numbers(bg.edit.add)
    BY DEF Numbers, Edited
  <2>2. Stored(Numbers(versions.files) \cup reader.files)
        /\ Below(Numbers(versions.files), versions.next)
    BY <1>0, <1>2 DEF UpInv
  <2>3. \A n \in Numbers(Edited) \cup reader.files : n \in DOMAIN table /\ table[n].synced
    BY <1>8, <2>1, <2>2 DEF Stored
  <2>4. \A n \in Numbers(Edited) \cup reader.files : n \in DOMAIN table' /\ table'[n].synced
    BY <1>4, <2>3
  <2>5. Stored(Numbers(versions.files) \cup reader.files)'
    BY <1>1, <2>4 DEF Stored
  <2>6. Below(Numbers(versions'.files), versions.next)
    <3>1. bg.edit.next \in Nat /\ bg.edit.add \in SUBSET File
      BY <1>0 DEF BgState, Edit
    <3>2. Numbers(bg.edit.add) \subseteq Nat  BY <3>1, NumbersTyped
    <3>. QED  BY <1>0, <1>1, <1>8, <2>1, <2>2, <3>1, <3>2 DEF Below
  <2>7. Below(DOMAIN table', versions.next)  BY <1>2, <1>4 DEF Below
  <2>8. versions.log <= logfile /\ logfile \in DOMAIN log /\ logfile < versions.next
        /\ \A n \in DOMAIN log : n <= logfile
    BY <1>0, <1>2 DEF UpInv
  <2>9. bg.edit.log <= logfile  BY <1>0, <1>8, <2>8
  <2>10. logfile \in DOMAIN log'  BY <1>0, <1>4, <1>8, <2>8, <2>9
  <2>11. ~bgError => Current'
    BY <1>1, <1>3, <1>5, <1>6, <1>8 DEF Current
  <2>. QED
    BY <1>1, <1>2, <1>3, <1>4, <1>5, <1>6, <1>7, <2>5, <2>6, <2>7, <2>8, <2>9, <2>10, <2>11
       DEF UpInv
<1>11. JobInv'
  <2>1. bg.back # "idle" => bg.edit.del = {}  BY <1>0, <1>1 DEF JobShape
  <2>2. bg'.inputs \subseteq versions'.files
    <3>1. bg.inputs \subseteq versions.files  BY <1>0 DEF JobInv
    <3>. QED  BY <1>1, <2>1, <3>1 DEF Edited
  <2>3. WriteInv'
    <3>1. SUFFICES ASSUME bg.back = "write"  PROVE WriteInv'
      BY <1>1 DEF WriteInv, Writing
    <3>2. bg.out \in DOMAIN table /\ ~table[bg.out].synced /\ bg.out \in pending
      BY <1>0, <3>1 DEF JobInv, WriteInv, Writing
    <3>3. bg.out \in pending' /\ bg'.out = bg.out  BY <1>1, <2>1, <3>1, <3>2
    <3>4. bg.out \in DOMAIN table' /\ table'[bg.out] = table[bg.out]
      BY <1>4, <3>2, <3>3
    <3>. QED  BY <3>2, <3>3, <3>4 DEF WriteInv
  <2>4. bg.back \in {"idle", "merge", "write"}  BY <1>0 DEF BgState
  <2>. QED
    BY <1>1, <2>2, <2>3, <2>4 DEF JobInv, BuildInv, EditInv, SyncInv, Editing
<1>. QED  BY <1>1, <1>9, <1>10, <1>11, RunningPhases DEF FilesInv
LEMMA IdleJob ==
  ASSUME TypedInv, ~Running
  PROVE  JobInv
<1>1. bg.pc = "idle" /\ bg = IdleBg  BY DEF TypedInv, JobShape
<1>2. bg.back = "idle" /\ bg.inputs = {}  BY <1>1 DEF IdleBg
<1>. QED
  BY <1>1, <1>2 DEF JobInv, BuildInv, WriteInv, EditInv, SyncInv, Editing, Writing

\* A step after which the process is not there, or has not begun to open.
LEMMA ClosedFiles ==
  ASSUME TypedInv', AtRest', DescriptorInv', db' = "closed"
  PROVE  FilesInv'
<1>1. ~Running'  BY DEF Running
<1>2. JobInv'  BY <1>1, IdleJob, PTL
<1>. QED  BY <1>2 DEF FilesInv, OpeningInv, SwitchInv, UpInv, Up

LEMMA NewDBKeepsFiles ==
  ASSUME TypedInv, FilesInv, TypedInv', AtRest', NewDB
  PROVE  FilesInv'
<1>. DEFINE first == [EmptyVersion EXCEPT !.next = 2]
<1>1. /\ db' = "closed" /\ current = 0 /\ current' = 1 /\ table' = table
      /\ durable' = durable
      /\ manifest' = With(manifest, 1, [states |-> <<first>>, synced |-> 0])
  BY DEF NewDB, promises
<1>2. /\ first.files = {} /\ first.log = 0 /\ first.next = 2  BY DEF EmptyVersion
<1>. HIDE DEF first
<1>3. /\ DOMAIN manifest' = DOMAIN manifest \cup {1}
      /\ manifest'[1] = [states |-> <<first>>, synced |-> 0]
      /\ \A n \in DOMAIN manifest : n # 1 => manifest'[n] = manifest[n]
  BY <1>1 DEF With
<1>4. /\ manifest'[1].states = <<first>> /\ manifest'[1].synced = 0
      /\ Len(<<first>>) = 1 /\ <<first>>[1] = first
  BY <1>3
<1>5. Possible' = {first} /\ Described' = first
  <2>1. {j \in 1..1 : j >= 0} = {1}  OBVIOUS
  <2>2. PICK q : q = <<first>>  OBVIOUS
  <2>3. q # <<>> /\ Len(q) = 1 /\ q[1] = first  BY <1>4, <2>2
  <2>4. manifest'[1].states = q  BY <1>4, <2>2
  <2>5. States(manifest'[1]) = {q[1]}
    BY ONLY <1>4, <2>1, <2>3, <2>4 DEF States
  <2>6. LastState(manifest'[1]) = q[1]  BY ONLY <2>3, <2>4 DEF LastState
  <2>7. Possible' = {first}  BY ONLY <1>1, <2>3, <2>5 DEF Possible
  <2>8. Described' = first  BY ONLY <1>1, <2>3, <2>6 DEF Described
  <2>. QED  BY <2>7, <2>8
<1>6. \A st \in Possible' : Openable(st)'
  <2>1. ASSUME NEW st, st = first  PROVE Openable(st)'
    <3>1. Numbers(st.files) = {}  BY <1>2, <2>1 DEF Numbers
    <3>. QED  BY <1>1, <1>2, <1>5, <2>1, <3>1 DEF Openable, Stored, Below
  <2>. QED  BY <1>5, <2>1
<1>7. durable = {}  BY <1>1 DEF FilesInv, DescriptorInv
<1>8. \A n \in DOMAIN manifest' : manifest'[n].synced <= Len(manifest'[n].states)
  BY <1>3, <1>4 DEF FilesInv, DescriptorInv
<1>9. DescriptorInv'  BY <1>1, <1>3, <1>6, <1>7, <1>8 DEF DescriptorInv
<1>. QED  BY <1>1, <1>9, ClosedFiles

LEMMA DiskFrame ==
  ASSUME DescriptorInv, UNCHANGED <<table, manifest, current, durable>>
  PROVE  DescriptorInv'
<1>1. Possible' = Possible /\ Described' = Described  BY DEF Possible, Described
<1>. QED  BY <1>1 DEF DescriptorInv, Openable, Stored

LEMMA EndsKeepFiles ==
  ASSUME TypedInv, FilesInv, TypedInv', AtRest', EndClose \/ Kill \/ OpenFails
  PROVE  FilesInv'
<1>1. db' = "closed"  BY DEF EndClose, Kill, OpenFails, Reset
<1>2. CASE EndClose \/ Kill
  <2>1. UNCHANGED <<table, manifest, current, durable>>  BY <1>2 DEF EndClose, Kill, disk
  <2>. QED  BY <1>1, <2>1, DiskFrame, ClosedFiles DEF FilesInv
<1>3. CASE OpenFails
  <2>1. /\ UNCHANGED <<table, current, durable>> /\ db \in {"replay", "switch"}
        /\ manifest' = IF db = "switch"
                       THEN Restricted(manifest, DOMAIN manifest \ {versions.manifest})
                       ELSE manifest
    BY <1>3 DEF OpenFails
  <2>2. current # 0 /\ current < versions.manifest  BY <2>1 DEF FilesInv, OpeningInv
  <2>3. current \in DOMAIN manifest /\ current # versions.manifest
    BY <2>2 DEF FilesInv, DescriptorInv, TypedInv, Typed, DiskOK
  <2>4. /\ DOMAIN manifest' \subseteq DOMAIN manifest /\ current \in DOMAIN manifest'
        /\ \A n \in DOMAIN manifest' : manifest'[n] = manifest[n]
    BY <2>1, <2>3 DEF Restricted
  <2>5. Possible' = Possible /\ Described' = Described
    BY <2>1, <2>4 DEF Possible, Described
  <2>6. DescriptorInv'
    BY <2>1, <2>4, <2>5 DEF FilesInv, DescriptorInv, Openable, Stored
  <2>. QED  BY <1>1, <2>6, ClosedFiles
<1>. QED  BY <1>2, <1>3

\* What is left of a descriptor after a loss of power was possible before.
LEMMA CutStates ==
  ASSUME NEW m \in Descriptor, m.synced <= Len(m.states),
         NEW l \in m.synced..Len(m.states)
  PROVE  /\ CutManifest(m, l).synced = l
         /\ CutManifest(m, l).synced <= Len(CutManifest(m, l).states)
         /\ States(CutManifest(m, l)) \subseteq States(m)
         /\ \A st \in States(CutManifest(m, l)) : st = LastState(CutManifest(m, l))
<1>. DEFINE q == m.states
            c == CutManifest(m, l)
<1>1. q \in Seq(Version) /\ m.synced \in Nat /\ Len(q) \in Nat
  BY LenProperties DEF Descriptor
<1>2. /\ SubSeq(q, 1, l) \in Seq(Version)
      /\ Len(SubSeq(q, 1, l)) = l
      /\ l \in Nat /\ m.synced <= l /\ l <= Len(q)
      /\ \A i \in 1..l : SubSeq(q, 1, l)[i] = q[i]
  BY <1>1, CutIs
<1>3. c.states = SubSeq(q, 1, l) /\ c.synced = l  BY DEF CutManifest
<1>. HIDE DEF c
<1>4. ASSUME NEW st \in States(c)
      PROVE  st \in States(m) /\ st = LastState(c)
  <2>1. PICK i \in 1..l : i >= l /\ st = SubSeq(q, 1, l)[i]
    BY <1>2, <1>3 DEF States
  <2>2. i = l /\ l \in 1..Len(q) /\ st = q[l]  BY <1>1, <1>2, <2>1
  <2>3. st \in States(m)  BY <1>2, <2>2 DEF States
  <2>4. SubSeq(q, 1, l) # <<>>  BY <1>2, <2>2, EmptySeq
  <2>. QED  BY <1>2, <1>3, <2>1, <2>2, <2>3, <2>4 DEF LastState
<1>5. l <= Len(SubSeq(q, 1, l))  BY <1>2
<1>. QED  BY <1>3, <1>4, <1>5 DEF c

LEMMA PowerLossKeepsFiles ==
  ASSUME TypedInv, FilesInv, TypedInv', AtRest', PowerLoss
  PROVE  FilesInv'
<1>0. Typed /\ DescriptorInv /\ DiskOK  BY DEF TypedInv, FilesInv, Typed
<1>1. /\ db' = "closed" /\ current' = current /\ durable' = durable
      /\ table' = Restricted(table, {n \in DOMAIN table : table[n].synced})
  BY DEF PowerLoss, Reset
<1>2. \A n \in DOMAIN table : table[n].synced => n \in DOMAIN table' /\ table'[n] = table[n]
  BY <1>1 DEF Restricted
<1>3. /\ DOMAIN manifest' = DOMAIN manifest
      /\ \A n \in DOMAIN manifest :
           \E l \in manifest[n].synced..Len(manifest[n].states) :
             manifest'[n] = CutManifest(manifest[n], l)
  BY <1>0, PowerLossCuts
<1>4. ASSUME NEW n \in DOMAIN manifest
      PROVE  /\ manifest'[n].synced <= Len(manifest'[n].states)
             /\ manifest[n].synced <= manifest'[n].synced
             /\ manifest'[n].synced \in Nat /\ manifest[n].synced \in Nat
             /\ States(manifest'[n]) \subseteq States(manifest[n])
             /\ \A st \in States(manifest'[n]) : st = LastState(manifest'[n])
  <2>1. PICK l \in manifest[n].synced..Len(manifest[n].states) :
          manifest'[n] = CutManifest(manifest[n], l)
    BY <1>3
  <2>2. manifest[n] \in Descriptor /\ manifest[n].synced <= Len(manifest[n].states)
    BY <1>0 DEF DiskOK, IsDirectory, DescriptorInv
  <2>3. manifest[n].synced \in Nat /\ Len(manifest[n].states) \in Nat
    BY <2>2, LenProperties DEF Descriptor
  <2>4. l \in Nat /\ manifest[n].synced <= l  BY <2>3
  <2>5. /\ CutManifest(manifest[n], l).synced = l
        /\ CutManifest(manifest[n], l).synced <= Len(CutManifest(manifest[n], l).states)
        /\ States(CutManifest(manifest[n], l)) \subseteq States(manifest[n])
        /\ \A st \in States(CutManifest(manifest[n], l)) :
             st = LastState(CutManifest(manifest[n], l))
    BY <2>2, CutStates
  <2>. HIDE DEF CutManifest
  <2>. QED  BY <2>1, <2>3, <2>4, <2>5
<1>5. ASSUME NEW st \in Possible'  PROVE Openable(st)'
  <2>1. current # 0 /\ current \in DOMAIN manifest
    BY <1>0, <1>1, <1>5 DEF Possible, DescriptorInv
  <2>2. st \in States(manifest'[current])  BY <1>1, <1>5, <2>1 DEF Possible
  <2>3. st \in Possible /\ st = Described'
    BY <1>1, <1>4, <2>1, <2>2 DEF Possible, Described
  <2>4. Openable(st)  BY <1>0, <2>3 DEF DescriptorInv
  <2>5. st.next \in Nat  BY <1>0, <2>3, PossibleTyped DEF Version
  <2>6. st.next <= Described'.next  BY <2>3, <2>5
  <2>7. Stored(Numbers(st.files))'  BY <1>2, <2>4 DEF Openable, Stored
  <2>. QED  BY <1>1, <2>4, <2>6, <2>7 DEF Openable
<1>6. DescriptorInv'
  <2>1. durable' # {} => current' # 0 /\ manifest'[current'].synced >= 1
    BY <1>0, <1>1, <1>4 DEF DescriptorInv
  <2>. QED  BY <1>0, <1>1, <1>3, <1>4, <1>5, <2>1 DEF DescriptorInv
<1>. QED  BY <1>1, <1>6, ClosedFiles
LEMMA RecoverKeepsFiles ==
  ASSUME TypedInv, FilesInv, TypedInv', AtRest', Recover
  PROVE  FilesInv'
<1>1. /\ UNCHANGED <<log, table, manifest, current, durable>> /\ current # 0
      /\ Described.next # 0 /\ db' = "replay"
      /\ versions' = [files |-> Described.files, log |-> Described.log,
                      next |-> Described.next + 1, last |-> Described.last,
                      manifest |-> Described.next]
      /\ recovery' = [NoRecovery EXCEPT !.logs = LogsFrom(Described.log)]
  BY DEF Recover, disk, promises
<1>2. Described \in Version
  BY <1>1, DescribedTyped DEF TypedInv, Typed, FilesInv, DescriptorInv
<1>3. Described.next \in Nat /\ Described.log \in Nat /\ Described.files \in SUBSET File
  BY <1>2 DEF Version
<1>4. Described \in Possible
  <2>1. manifest[current].states # <<>>
    BY <1>1 DEF Described, LastState, EmptyVersion
  <2>. QED  BY <1>1, <2>1, DescribedPossible DEF TypedInv, FilesInv
<1>5. Openable(Described)  BY <1>4 DEF FilesInv, DescriptorInv
<1>6. /\ versions'.files = Described.files /\ versions'.log = Described.log
      /\ versions'.next = Described.next + 1 /\ versions'.manifest = Described.next
  BY <1>1
<1>7. recovery'.logs = LogsFrom(Described.log) /\ recovery'.add = {}
  BY <1>1 DEF NoRecovery
<1>8. Possible' = Possible /\ Described' = Described  BY <1>1 DEF Possible, Described
<1>9. DescriptorInv'  BY <1>1, DiskFrame DEF FilesInv
<1>10. ~Running'  BY <1>1 DEF Running
<1>11. JobInv'  BY <1>10, IdleJob, PTL
<1>12. OpeningInv'
  <2>1. Numbers(recovery'.add) = {}  BY <1>7 DEF Numbers
  <2>2. Numbers(Described.files) \subseteq Nat  BY <1>3, NumbersTyped
  <2>3. Stored(Numbers(versions.files) \cup Numbers(recovery.add))'
    BY <1>1, <1>5, <1>6, <2>1 DEF Openable, Stored
  <2>4. Below(Numbers(versions'.files) \cup Numbers(recovery'.add), versions'.next)
    BY <1>3, <1>5, <1>6, <2>1, <2>2 DEF Openable, Below
  <2>5. DOMAIN log \subseteq Nat  BY DEF TypedInv, Typed, DiskOK, IsDirectory
  <2>6. \A n \in DOMAIN log' : n < versions'.next \/ n \in recovery'.logs
    <3>1. Described.log < Described.next  BY <1>5 DEF Openable
    <3>. QED  BY <1>1, <1>3, <1>6, <1>7, <2>5, <3>1 DEF LogsFrom
  <2>7. /\ current < Described.next /\ Described.next < Described.next + 1
        /\ Described.log < Described.next + 1
    BY <1>3, <1>5 DEF Openable
  <2>. QED
    BY <1>1, <1>4, <1>6, <1>8, <2>3, <2>4, <2>6, <2>7 DEF OpeningInv
<1>. QED  BY <1>1, <1>9, <1>11, <1>12 DEF FilesInv, SwitchInv, UpInv, Up

\* What RecoverLogFile does to files and counters.
LEMMA ReplayFacts ==
  ASSUME TypedInv, NEW number \in recovery.logs, ReplayLog(number)
  PROVE  /\ UNCHANGED <<log, manifest, current, db, mem, imm, logfile, durable, acked,
                        store>>
         /\ db = "replay" /\ number \in Nat /\ number \in DOMAIN log
         /\ \E write \in BOOLEAN, m \in SUBSET Entry :
              /\ WriteRecovered(m, write) /\ recovery'.add = Recovered(write)
              /\ versions'.next >= IF write THEN versions.next + 1 ELSE versions.next
         /\ versions'.files = versions.files /\ versions'.log = versions.log
         /\ versions'.manifest = versions.manifest /\ versions'.last = versions.last
         /\ recovery'.logs \subseteq recovery.logs
         /\ recovery.logs \subseteq recovery'.logs \cup {number}
         /\ number \in recovery'.logs \/ number < versions'.next
         /\ versions'.next \in Nat
<1>0. /\ Typed /\ versions \in VersionSetState /\ recovery \in RecoveryState
      /\ versions.next \in Nat
  BY DEF TypedInv, Typed, OpenOK, VersionSetState, RecoveryState
<1>1. /\ UNCHANGED <<log, manifest, current, db, mem, imm, logfile, durable, acked, store>>
      /\ db = "replay"
  BY DEF ReplayLog, ReplayRecord, EndLog, Replaying, promises
<1>2. number \in DOMAIN log /\ number \in Nat
  BY <1>1 DEF TypedInv, ReplayShape, Typed, DiskOK, IsDirectory
<1>3. CASE ReplayRecord(number)
  <2>. DEFINE m == recovery.mem \cup log[number].recs[recovery.pos + 1].entries
              full == Cardinality(m) > WriteBufferSize
              next == IF full THEN versions.next + 1 ELSE versions.next
  <2>1. /\ HasRecord(number) /\ WriteRecovered(m, full)
        /\ versions' = [versions EXCEPT !.next = next]
    BY <1>3 DEF ReplayRecord
  <2>2. recovery'.add = Recovered(full) /\ recovery'.logs = recovery.logs
    BY <1>0, <1>3 DEF ReplayRecord, RecoveryState
  <2>3. log[number].recs[recovery.pos + 1] \in Record  BY <1>0, <1>2, <2>1, NextRecord
  <2>4. m \in SUBSET Entry  BY <1>0, <2>3 DEF Record, RecoveryState
  <2>5. full \in BOOLEAN  OBVIOUS
  <2>6. next \in Nat /\ next >= IF full THEN versions.next + 1 ELSE versions.next
    BY <1>0
  <2>. HIDE DEF m, full, next
  <2>7. /\ versions'.files = versions.files /\ versions'.log = versions.log
        /\ versions'.manifest = versions.manifest /\ versions'.next = next
        /\ versions'.last = versions.last
    BY <1>0, <2>1, VersionsNext
  <2>. QED  BY <1>1, <1>2, <2>1, <2>2, <2>4, <2>5, <2>6, <2>7
<1>4. CASE EndLog(number)
  <2>. DEFINE rest == recovery.mem # {}
              next == MarkFileNumberUsed(
                        IF rest THEN versions.next + 1 ELSE versions.next, number)
  <2>1. WriteRecovered(recovery.mem, rest) /\ versions' = [versions EXCEPT !.next = next]
    BY <1>4 DEF EndLog
  <2>2. recovery'.add = Recovered(rest) /\ recovery'.logs = recovery.logs \ {number}
    BY <1>0, <1>4 DEF EndLog, RecoveryState
  <2>3. recovery.mem \in SUBSET Entry /\ rest \in BOOLEAN
    BY <1>0 DEF RecoveryState
  <2>4. /\ next \in Nat /\ number < next
        /\ next >= IF rest THEN versions.next + 1 ELSE versions.next
    BY <1>0, <1>2 DEF MarkFileNumberUsed, Larger
  <2>. HIDE DEF rest, next
  <2>5. /\ versions'.files = versions.files /\ versions'.log = versions.log
        /\ versions'.manifest = versions.manifest /\ versions'.next = next
        /\ versions'.last = versions.last
    BY <1>0, <2>1, VersionsNext
  <2>. QED  BY <1>1, <1>2, <2>1, <2>2, <2>3, <2>4, <2>5
<1>. QED  BY <1>3, <1>4 DEF ReplayLog

LEMMA ReplayKeepsFiles ==
  ASSUME TypedInv, FilesInv, TypedInv', AtRest', NEW number \in recovery.logs,
         ReplayLog(number)
  PROVE  FilesInv'
<1>0. /\ Typed /\ DescriptorInv /\ OpeningInv /\ UpInv /\ versions.next \in Nat
      /\ versions.files \in SUBSET File /\ recovery.add \in SUBSET File
  BY DEF TypedInv, FilesInv, Typed, OpenOK
<1>1. /\ UNCHANGED <<log, manifest, current, db, logfile, durable>>
      /\ db = "replay" /\ number \in Nat
      /\ versions'.files = versions.files /\ versions'.log = versions.log
      /\ versions'.manifest = versions.manifest
      /\ recovery.logs \subseteq recovery'.logs \cup {number}
      /\ number \in recovery'.logs \/ number < versions'.next
      /\ versions'.next \in Nat
  BY ReplayFacts
<1>2. PICK write \in BOOLEAN, m \in SUBSET Entry :
        /\ WriteRecovered(m, write) /\ recovery'.add = Recovered(write)
        /\ versions'.next >= IF write THEN versions.next + 1 ELSE versions.next
  BY ReplayFacts
<1>3. /\ current # 0 /\ Described \in Possible
      /\ current < versions.manifest /\ versions.manifest < versions.next
      /\ Described.next < versions.next
      /\ Stored(Numbers(versions.files) \cup Numbers(recovery.add))
      /\ Below(Numbers(versions.files) \cup Numbers(recovery.add), versions.next)
      /\ \A n \in DOMAIN log : n < versions.next \/ n \in recovery.logs
      /\ versions.log < versions.next
  BY <1>0, <1>1 DEF OpeningInv
<1>4. \A n \in DOMAIN table : n # versions.next => n \in DOMAIN table' /\ table'[n] = table[n]
  BY <1>2 DEF WriteRecovered, With
<1>5. write => versions.next \in DOMAIN table' /\ table'[versions.next].synced
  <2>1. SUFFICES ASSUME write
                 PROVE  versions.next \in DOMAIN table' /\ table'[versions.next].synced
    OBVIOUS
  <2>2. table' = With(table, versions.next, [entries |-> m, synced |-> TRUE])
    BY <1>2, <2>1 DEF WriteRecovered
  <2>3. versions.next \in DOMAIN table'
        /\ table'[versions.next] = [entries |-> m, synced |-> TRUE]
    BY <2>2 DEF With
  <2>4. PICK r : r = table'[versions.next]  OBVIOUS
  <2>5. r = [entries |-> m, synced |-> TRUE]  BY <2>3, <2>4
  <2>6. r.synced  BY ONLY <2>5, SyncedTable
  <2>7. table'[versions.next].synced  BY ONLY <2>4, <2>6
  <2>. QED  BY <2>3, <2>7
<1>6. TableKeeps(versions.next)
  <2>1. \A n : n < versions.next => n # versions.next \/ n \notin Nat
    BY <1>0
  <2>2. DOMAIN table \subseteq Nat  BY <1>0 DEF Typed, DiskOK, IsDirectory
  <2>. QED  BY <1>4, <2>1, <2>2 DEF TableKeeps
<1>7. Described.next \in Nat /\ versions.manifest \in Nat /\ versions.log \in Nat
      /\ current \in Nat /\ DOMAIN log \subseteq Nat
  BY <1>0, <1>3, DescribedTyped
     DEF Typed, OpenOK, DiskOK, IsDirectory, DescriptorInv, Version
<1>8. DescriptorInv'
  <2>1. Described.next <= versions.next  BY <1>0, <1>3, <1>7
  <2>. QED  BY <1>0, <1>1, <1>6, <2>1, DescriptorFrame
<1>9. Possible' = Possible /\ Described' = Described  BY <1>1 DEF Possible, Described
<1>10. versions.next <= versions'.next /\ (write => versions.next + 1 <= versions'.next)
  BY <1>0, <1>1, <1>2
<1>11. OpeningInv'
  <2>. DEFINE old == Numbers(versions.files) \cup Numbers(recovery.add)
  <2>1. \A n \in Numbers(versions.files) \cup Numbers(recovery'.add) :
          n \in old \/ (write /\ n = versions.next)
    BY <1>2 DEF Recovered, Numbers
  <2>2. old \subseteq Nat  BY <1>0, NumbersTyped
  <2>3. \A n \in old : n \in DOMAIN table' /\ table'[n].synced /\ n < versions'.next
    BY <1>0, <1>1, <1>3, <1>6, <1>10, <2>2 DEF Stored, Below, TableKeeps
  <2>4. versions.next < versions.next + 1 /\ (write => versions.next < versions'.next)
    BY <1>0, <1>1, <1>10
  <2>5. \A n \in Numbers(versions'.files) \cup Numbers(recovery'.add) :
          n \in DOMAIN table' /\ table'[n].synced /\ n < versions'.next
    BY <1>1, <1>5, <2>1, <2>3, <2>4
  <2>6. Stored(Numbers(versions.files) \cup Numbers(recovery.add))'
        /\ Below(Numbers(versions'.files) \cup Numbers(recovery'.add), versions'.next)
    BY <2>5 DEF Stored, Below
  <2>7. \A n \in DOMAIN log' : n < versions'.next \/ n \in recovery'.logs
    BY <1>0, <1>1, <1>3, <1>7, <1>10
  <2>8. /\ versions.manifest < versions'.next /\ Described.next < versions'.next
        /\ versions.log < versions'.next
    BY <1>0, <1>1, <1>3, <1>7, <1>10
  <2>. QED  BY <1>1, <1>3, <1>9, <2>6, <2>7, <2>8 DEF OpeningInv
<1>12. ~Running'  BY <1>1 DEF Running
<1>13. JobInv'  BY <1>12, IdleJob, PTL
<1>. QED  BY <1>1, <1>8, <1>11, <1>13 DEF FilesInv, SwitchInv, UpInv, Up

\* The new descriptor describes what was recovered.
LEMMA NewManifestFacts ==
  ASSUME Typed, NewManifest
  PROVE  /\ UNCHANGED <<table, current, recovery, reader, bg, pending, bgError, durable,
                        mem, imm, acked, store>>
         /\ db = "replay" /\ db' = "switch" /\ recovery.logs = {}
         /\ log' = With(log, versions.next, [recs |-> <<>>, synced |-> 0])
         /\ versions'.files = versions.files \cup recovery.add
         /\ versions'.log = versions.next /\ versions'.next = versions.next + 1
         /\ versions'.last = Larger(versions.last, recovery.max)
         /\ versions'.manifest = versions.manifest /\ logfile' = versions.next
         /\ DOMAIN manifest' = DOMAIN manifest \cup {versions.manifest}
         /\ \A n \in DOMAIN manifest : n # versions.manifest => manifest'[n] = manifest[n]
         /\ manifest'[versions.manifest].states # <<>>
         /\ LastState(manifest'[versions.manifest]) =
              [files |-> versions'.files, log |-> versions'.log, next |-> versions'.next,
               last |-> versions'.last]
         /\ manifest'[versions.manifest].synced = 0
<1>0. versions \in VersionSetState  BY DEF Typed, OpenOK, VersionSetState
<1>1. /\ UNCHANGED <<table, current, recovery, reader, bg, pending, bgError, durable,
                     mem, imm, acked, store>>
      /\ db = "replay" /\ db' = "switch" /\ recovery.logs = {}
  BY DEF NewManifest, Processless, background, promises
<1>2. versions' = [versions EXCEPT !.files = @ \cup recovery.add, !.log = versions.next,
                                   !.next = @ + 1, !.last = Larger(@, recovery.max)]
  BY DEF NewManifest
<1>3. /\ versions'.files = versions.files \cup recovery.add
      /\ versions'.log = versions.next /\ versions'.next = versions.next + 1
      /\ versions'.last = Larger(versions.last, recovery.max)
      /\ versions'.manifest = versions.manifest
  BY <1>0, <1>2 DEF VersionSetState
<1>4. PICK v : v = versions'  OBVIOUS
<1>5. /\ log' = With(log, v.log, [recs |-> <<>>, synced |-> 0]) /\ logfile' = v.log
      /\ manifest' = With(manifest, v.manifest,
           [states |-> <<WriteSnapshot(versions.files),
                         [files |-> v.files, log |-> v.log, next |-> v.next,
                          last |-> v.last]>>,
            synced |-> 0])
  BY <1>4 DEF NewManifest
<1>6. PICK st : st = [files |-> v.files, log |-> v.log, next |-> v.next, last |-> v.last]
  OBVIOUS
<1>7. PICK q : q = <<WriteSnapshot(versions.files), st>>  OBVIOUS
<1>8. manifest' = With(manifest, versions.manifest, [states |-> q, synced |-> 0])
  BY <1>3, <1>4, <1>5, <1>6, <1>7
<1>9. /\ DOMAIN manifest' = DOMAIN manifest \cup {versions.manifest}
      /\ \A n \in DOMAIN manifest : n # versions.manifest => manifest'[n] = manifest[n]
      /\ manifest'[versions.manifest] = [states |-> q, synced |-> 0]
  BY <1>8 DEF With
<1>10. manifest'[versions.manifest].states = q /\ manifest'[versions.manifest].synced = 0
  BY <1>9
<1>11. Len(q) = 2 /\ q[2] = st /\ q # <<>>  BY <1>7
<1>12. LastState(manifest'[versions.manifest]) = st
  BY ONLY <1>10, <1>11 DEF LastState
<1>. QED  BY <1>1, <1>3, <1>4, <1>5, <1>6, <1>9, <1>10, <1>11, <1>12

LEMMA NewManifestKeepsFiles ==
  ASSUME TypedInv, FilesInv, TypedInv', AtRest', NewManifest
  PROVE  FilesInv'
<1>0. /\ Typed /\ DescriptorInv /\ OpeningInv /\ versions.next \in Nat
      /\ versions.files \in SUBSET File /\ recovery.add \in SUBSET File
  BY DEF TypedInv, FilesInv, Typed, OpenOK
<1>1. /\ UNCHANGED <<table, current, recovery, durable>>
      /\ db = "replay" /\ db' = "switch" /\ recovery.logs = {}
      /\ log' = With(log, versions.next, [recs |-> <<>>, synced |-> 0])
      /\ versions'.files = versions.files \cup recovery.add
      /\ versions'.log = versions.next /\ versions'.next = versions.next + 1
      /\ versions'.manifest = versions.manifest /\ logfile' = versions.next
      /\ DOMAIN manifest' = DOMAIN manifest \cup {versions.manifest}
      /\ \A n \in DOMAIN manifest : n # versions.manifest => manifest'[n] = manifest[n]
      /\ manifest'[versions.manifest].states # <<>>
      /\ LastState(manifest'[versions.manifest]) =
           [files |-> versions'.files, log |-> versions'.log, next |-> versions'.next,
            last |-> versions'.last]
      /\ manifest'[versions.manifest].synced = 0
  BY <1>0, NewManifestFacts
<1>2. /\ current # 0 /\ Described \in Possible
      /\ current < versions.manifest /\ versions.manifest < versions.next
      /\ Described.next < versions.next
      /\ Stored(Numbers(versions.files) \cup Numbers(recovery.add))
      /\ Below(Numbers(versions.files) \cup Numbers(recovery.add), versions.next)
      /\ \A n \in DOMAIN log : n < versions.next
  BY <1>0, <1>1 DEF OpeningInv
<1>3. current \in DOMAIN manifest /\ current # versions.manifest /\ current \in Nat
      /\ versions.manifest \in Nat
  BY <1>0, <1>2 DEF DescriptorInv, Typed, DiskOK, OpenOK
<1>4. manifest'[current] = manifest[current] /\ current' = current
  BY <1>1, <1>3
<1>5. Possible' = Possible /\ Described' = Described
  BY <1>4 DEF Possible, Described
<1>6. DescriptorInv'
  <2>1. \A st \in Possible' : Openable(st)'
    BY <1>0, <1>1, <1>5 DEF DescriptorInv, Openable, Stored
  <2>2. manifest'[versions.manifest].states \in Seq(Version)
    <3>1. versions.manifest \in DOMAIN manifest'  BY <1>1
    <3>. QED  BY <3>1 DEF TypedInv, Typed, DiskOK, IsDirectory, Descriptor
  <2>3. manifest'[versions.manifest].synced <= Len(manifest'[versions.manifest].states)
    BY <1>1, <2>2, LenProperties
  <2>4. \A n \in DOMAIN manifest' : manifest'[n].synced <= Len(manifest'[n].states)
    BY <1>0, <1>1, <2>3 DEF DescriptorInv
  <2>5. durable' # {} => current' # 0 /\ manifest'[current'].synced >= 1
    BY <1>0, <1>1, <1>4 DEF DescriptorInv
  <2>. QED  BY <1>1, <1>3, <1>4, <2>1, <2>4, <2>5 DEF DescriptorInv
<1>7. versions.next + 1 \in Nat /\ versions.next < versions.next + 1  BY <1>0
<1>8. OpeningInv'
  <2>1. Numbers(versions'.files) \cup Numbers(recovery'.add)
          = Numbers(versions.files) \cup Numbers(recovery.add)
    BY <1>1, NumbersUnion
  <2>2. Numbers(versions.files) \cup Numbers(recovery.add) \subseteq Nat
    BY <1>0, NumbersTyped
  <2>3. Below(Numbers(versions'.files) \cup Numbers(recovery'.add), versions'.next)
    BY <1>0, <1>1, <1>2, <2>1, <2>2 DEF Below
  <2>4. Stored(Numbers(versions.files) \cup Numbers(recovery.add))'
    BY <1>1, <1>2, <2>1 DEF Stored
  <2>5. DOMAIN log' = DOMAIN log \cup {versions.next} /\ DOMAIN log \subseteq Nat
    BY <1>0, <1>1 DEF With, Typed, DiskOK, IsDirectory
  <2>6. \A n \in DOMAIN log' : n < versions'.next
    BY <1>0, <1>1, <1>2, <2>5
  <2>7. Described.next \in Nat
    BY <1>0, <1>2, PossibleTyped DEF Version
  <2>8. /\ versions.manifest < versions'.next /\ Described.next < versions'.next
        /\ versions'.log < versions'.next
    BY <1>0, <1>1, <1>2, <1>3, <2>7
  <2>. QED  BY <1>1, <1>2, <1>5, <2>3, <2>4, <2>6, <2>8 DEF OpeningInv
<1>9. SwitchInv'
  <2>1. versions.next \in DOMAIN log'  BY <1>1 DEF With
  <2>. QED  BY <1>1, <2>1 DEF SwitchInv
<1>10. ~Running'  BY <1>1 DEF Running
<1>11. JobInv'  BY <1>10, IdleJob, PTL
<1>. QED  BY <1>1, <1>6, <1>8, <1>9, <1>11 DEF FilesInv, UpInv, Up

LEMMA SetCurrentKeepsFiles ==
  ASSUME TypedInv, FilesInv, TypedInv', AtRest', SetCurrent
  PROVE  FilesInv'
<1>. DEFINE c == versions.manifest
            q == manifest[c].states
            st == [files |-> versions.files, log |-> versions.log, next |-> versions.next,
                   last |-> versions.last]
<1>0. /\ Typed /\ DescriptorInv /\ OpeningInv /\ SwitchInv /\ DiskOK /\ versions.next \in Nat
      /\ c \in Nat /\ versions.log \in Nat /\ versions.files \in SUBSET File
  BY DEF TypedInv, FilesInv, Typed, OpenOK
<1>1. /\ UNCHANGED <<log, table, recovery, versions, reader, durable, bgError, logfile, bg>>
      /\ db = "switch" /\ db' = "clean" /\ manifest' = SyncedManifest /\ current' = c
  BY DEF SetCurrent, Processless, background, promises
<1>2. /\ current # 0 /\ current < c /\ c < versions.next
      /\ Stored(Numbers(versions.files) \cup Numbers(recovery.add))
      /\ Below(Numbers(versions.files) \cup Numbers(recovery.add), versions.next)
      /\ \A n \in DOMAIN log : n < versions.next \/ n \in recovery.logs
      /\ versions.log < versions.next
  BY <1>0, <1>1 DEF OpeningInv
<1>3. /\ recovery.logs = {} /\ c \in DOMAIN manifest /\ q # <<>>
      /\ LastState(manifest[c]) = st
      /\ logfile = versions.log /\ versions.log \in DOMAIN log
      /\ versions.next = versions.log + 1
  BY <1>0, <1>1 DEF SwitchInv
<1>4. /\ DOMAIN SyncedManifest = DOMAIN manifest
      /\ \A n \in DOMAIN manifest : n # c => SyncedManifest[n] = manifest[n]
      /\ SyncedManifest[c] = [states |-> q, synced |-> Len(q)]
  BY <1>0, <1>3, ManifestSynced
<1>5. SyncedManifest[c].states = q /\ SyncedManifest[c].synced = Len(q)  BY <1>4
<1>6. q \in Seq(Version) /\ Len(q) \in Nat /\ Len(q) >= 1
  <2>1. manifest[c] \in Descriptor  BY <1>0, <1>3 DEF DiskOK, IsDirectory
  <2>2. q \in Seq(Version) /\ Len(q) \in Nat  BY <2>1, LenProperties DEF Descriptor
  <2>. QED  BY <1>3, <2>2, EmptySeq
<1>7. LastState(SyncedManifest[c]) = st /\ q[Len(q)] = st
  BY <1>3, <1>5 DEF LastState
<1>. HIDE DEF st
<1>8. States(SyncedManifest[c]) = {st}
  <2>1. {j \in 1..Len(q) : j >= Len(q)} = {Len(q)}  BY <1>6
  <2>. QED  BY <1>5, <1>7, <2>1 DEF States
<1>9. current \in Nat /\ c # 0  BY <1>0, <1>2 DEF DiskOK
<1>10. Possible' = {st} /\ Described' = st
  BY <1>1, <1>7, <1>8, <1>9 DEF Possible, Described
<1>11. /\ st.files = versions.files /\ st.log = versions.log /\ st.next = versions.next
       /\ st.last = versions.last
  BY DEF st
<1>12. Stored(Numbers(versions.files))' /\ Below(Numbers(versions.files), versions.next)
  BY <1>1, <1>2 DEF Stored, Below
<1>13. DescriptorInv'
  <2>0. PICK z : z = st  OBVIOUS
  <2>1. Openable(z)'
    <3>1. Stored(Numbers(z.files)) /\ Below(Numbers(z.files), z.next)
      BY <1>2, <1>11, <2>0 DEF Stored, Below
    <3>2. Stored(Numbers(z.files))'  BY <1>1, <3>1 DEF Stored
    <3>3. Described' = z /\ z.next \in Nat  BY <1>0, <1>10, <1>11, <2>0
    <3>. QED  BY <1>0, <1>1, <1>2, <1>11, <2>0, <3>1, <3>2, <3>3 DEF Openable
  <2>2. \A n \in DOMAIN manifest' : manifest'[n].synced <= Len(manifest'[n].states)
    BY <1>0, <1>1, <1>4, <1>5, <1>6 DEF DescriptorInv
  <2>3. \A s \in Possible' : Openable(s)'
    <3>1. Possible' = {z}  BY ONLY <1>10, <2>0
    <3>. QED  BY ONLY <2>1, <3>1
  <2>. QED  BY <1>1, <1>3, <1>4, <1>5, <1>6, <1>9, <2>2, <2>3 DEF DescriptorInv
<1>14. UpInv'
  <2>1. reader'.files = {}
    <3>1. reader' = NoReader  BY <1>1 DEF AtRest, Running
    <3>. QED  BY <3>1 DEF NoReader
  <2>2. Stored(Numbers(versions.files) \cup reader.files)'
    BY <1>12, <2>1 DEF Stored
  <2>3. DOMAIN log \subseteq Nat  BY <1>0 DEF DiskOK, IsDirectory
  <2>4. \A n \in DOMAIN log' : n <= logfile'
    BY <1>0, <1>1, <1>2, <1>3, <2>3
  <2>5. Current'
    BY <1>1, <1>5, <1>10, <1>11 DEF Current
  <2>6. \A s \in Possible' : s.log <= logfile'
    BY <1>0, <1>1, <1>3, <1>10, <1>11
  <2>. QED
    BY <1>0, <1>1, <1>2, <1>3, <1>5, <1>6, <1>9, <1>10, <1>11, <1>12, <2>2, <2>4, <2>5, <2>6
       DEF UpInv
<1>15. ~Running'  BY <1>1 DEF Running
<1>16. JobInv'  BY <1>15, IdleJob, PTL
<1>. QED  BY <1>1, <1>13, <1>14, <1>16 DEF FilesInv, OpeningInv, SwitchInv

LEMMA OpenedKeepsFiles ==
  ASSUME TypedInv, FilesInv, TypedInv', AtRest', Opened
  PROVE  FilesInv'
<1>0. /\ Typed /\ DescriptorInv /\ UpInv /\ DiskOK /\ AtRest /\ versions.next \in Nat
      /\ versions.files \in SUBSET File /\ logfile \in Nat /\ versions.log \in Nat
  BY DEF TypedInv, FilesInv, Typed, OpenOK
<1>1. /\ UNCHANGED <<current, versions, reader, durable, bgError, logfile, bg>>
      /\ db = "clean" /\ db' = "open"
      /\ DeleteObsoleteFiles(versions, {}, {}, manifest)
  BY DEF Opened, client
<1>2. ~bgError /\ reader = NoReader /\ bg = IdleBg /\ bg.pc = "idle"
  BY <1>0, <1>1 DEF AtRest, Running, TypedInv, JobShape
<1>3. /\ log' = Restricted(log, LogsFrom(versions.log))
      /\ manifest' = Restricted(manifest, {n \in DOMAIN manifest : n >= versions.manifest})
      /\ table' = Restricted(table, {} \cup {} \cup Numbers(versions.files))
  BY <1>1, <1>2 DEF DeleteObsoleteFiles
<1>4. /\ DOMAIN log' = {n \in DOMAIN log : n >= versions.log}
      /\ DOMAIN manifest' = {n \in DOMAIN manifest : n >= versions.manifest}
      /\ \A n \in DOMAIN manifest' : manifest'[n] = manifest[n]
      /\ DOMAIN table' = DOMAIN table \cap Numbers(versions.files)
      /\ \A n \in DOMAIN table' : table'[n] = table[n]
  BY <1>3 DEF Restricted, LogsFrom
<1>5. /\ current # 0 /\ versions.manifest = current /\ manifest[current].synced >= 1
      /\ Described.next <= versions.next
      /\ \A st \in Possible : st.log <= logfile
      /\ logfile \in DOMAIN log /\ logfile < versions.next
      /\ \A n \in DOMAIN log : n <= logfile
      /\ versions.log <= logfile
      /\ Stored(Numbers(versions.files) \cup reader.files)
      /\ Below(Numbers(versions.files), versions.next)
      /\ Current
  BY <1>0, <1>1, <1>2 DEF UpInv, Up
<1>6. current \in DOMAIN manifest /\ current \in Nat
  BY <1>0, <1>5 DEF DescriptorInv, DiskOK
<1>7. current \in DOMAIN manifest' /\ manifest'[current] = manifest[current]
  BY <1>4, <1>5, <1>6
<1>8. Possible' = Possible /\ Described' = Described
  BY <1>1, <1>7 DEF Possible, Described
<1>9. manifest[current] \in Descriptor  BY <1>0, <1>6 DEF DiskOK, IsDirectory
<1>10. \A st \in Possible : st = Described
  <2>. DEFINE q == manifest[current].states
  <2>1. q \in Seq(Version) /\ Len(q) \in Nat  BY <1>9, LenProperties DEF Descriptor
  <2>2. manifest[current].synced = Len(q) /\ Len(q) >= 1  BY <1>5 DEF Current
  <2>3. q # <<>>  BY <2>1, <2>2, EmptySeq
  <2>4. Described = q[Len(q)]  BY <2>3 DEF Described, LastState
  <2>5. ASSUME NEW j \in 1..Len(q), j >= manifest[current].synced  PROVE j = Len(q)
    BY <2>1, <2>2, <2>5
  <2>. QED  BY <1>5, <2>4, <2>5 DEF Possible, States
<1>11. Described.files = versions.files  BY <1>5 DEF Current
<1>12. \A n \in Numbers(versions.files) : n \in DOMAIN table' /\ table'[n].synced
  BY <1>4, <1>5 DEF Stored
<1>13. DescriptorInv'
  <2>1. ASSUME NEW st \in Possible  PROVE Openable(st)'
    <3>1. Openable(st) /\ st.files = versions.files
      BY <1>0, <1>10, <1>11, <2>1 DEF DescriptorInv
    <3>2. Stored(Numbers(st.files))'  BY <1>12, <3>1 DEF Stored
    <3>. QED  BY <1>1, <1>8, <3>1, <3>2 DEF Openable
  <2>. QED
    BY <1>0, <1>1, <1>4, <1>5, <1>7, <1>8, <2>1 DEF DescriptorInv
<1>14. UpInv'
  <2>1. reader'.files = {}  BY <1>1, <1>2 DEF NoReader
  <2>2. Stored(Numbers(versions.files) \cup reader.files)'
    BY <1>1, <1>12, <2>1 DEF Stored
  <2>3. Below(DOMAIN table', versions.next)  BY <1>4, <1>5 DEF Below
  <2>4. Current'  BY <1>1, <1>5, <1>7, <1>8 DEF Current
  <2>5. logfile \in DOMAIN log'  BY <1>0, <1>4, <1>5
  <2>. QED  BY <1>1, <1>4, <1>5, <1>7, <1>8, <2>2, <2>3, <2>4, <2>5 DEF UpInv
<1>15. JobInv'
  <2>1. bg' = IdleBg /\ IdleBg.pc = "idle" /\ IdleBg.back = "idle" /\ IdleBg.inputs = {}
    BY <1>1, <1>2 DEF IdleBg
  <2>. QED
    BY <2>1 DEF JobInv, BuildInv, WriteInv, EditInv, SyncInv, Editing, Writing
<1>. QED  BY <1>1, <1>13, <1>14, <1>15 DEF FilesInv, OpeningInv, SwitchInv

LEMMA BackgroundKeepsFiles ==
  ASSUME TypedInv, FilesInv, TypedInv', AtRest', BackgroundCall \/ BackgroundFaults
  PROVE  FilesInv'
<1>0. Typed /\ AtRest  BY DEF TypedInv, FilesInv
<1>1. CASE BackgroundNothing
  BY <1>0, <1>1, QuietOthers, QuietKeepsFiles
<1>2. CASE Flush \/ FlushWhileMerging
  <2>1. CASE Flush
    BY <2>1, StartTableKeepsFiles DEF Flush, Idle
  <2>2. CASE FlushWhileMerging
    <3>1. /\ Running /\ bg.pc \in {"merge", "write"} /\ StartTable(bg.pc)
      BY <2>2 DEF FlushWhileMerging
    <3>2. PICK back : back = bg.pc  OBVIOUS
    <3>. QED  BY <3>1, <3>2, StartTableKeepsFiles
  <2>. QED  BY <1>2, <2>1, <2>2
<1>3. CASE BuildTable \/ BuildTableFails
  BY <1>3, BuildKeepsFiles DEF BuildTable, BuildTableFails
<1>4. CASE Compact  BY <1>4, CompactKeepsFiles
<1>5. CASE OpenOutput  BY <1>5, OpenOutputKeepsFiles
<1>6. CASE FinishOutput  BY <1>6, FinishOutputKeepsFiles
<1>7. CASE MergeStops \/ MergeFails
  BY <1>7, MergeEndsKeepsFiles DEF MergeStops, MergeFails
<1>8. CASE AppendToManifest  BY <1>8, AppendToManifestKeepsFiles
<1>9. CASE ManifestFails  BY <1>9, ManifestFailsKeepsFiles
<1>10. CASE InstallVersion  BY <1>10, InstallVersionKeepsFiles
<1>. QED
  BY <1>1, <1>2, <1>3, <1>4, <1>5, <1>6, <1>7, <1>8, <1>9, <1>10
     DEF BackgroundCall, BackgroundFaults

LEMMA NextKeepsFiles ==
  ASSUME TypedInv, FilesInv, TypedInv', Next
  PROVE  FilesInv'
<1>0. AtRest' /\ Typed /\ AtRest
  <2>1. AtRest /\ Typed  BY DEF FilesInv, TypedInv
  <2>. QED  BY <2>1, NextKeepsRest
<1>1. ASSUME NEW t \in Writer, Submit(t) \/ Write(t) \/ WriteFaults(t)
      PROVE  FilesInv'
  <2>1. CASE Switch(t)  BY <1>0, <2>1, SwitchKeepsFiles
  <2>2. CASE ~Switch(t)  BY <1>0, <1>1, <2>2, QuietWrites, QuietKeepsFiles
  <2>. QED  BY <2>1, <2>2
<1>2. CASE Reading \/ StartClose  BY <1>0, <1>2, QuietOthers, QuietKeepsFiles
<1>3. CASE BackgroundCall \/ BackgroundFaults  BY <1>0, <1>3, BackgroundKeepsFiles
<1>4. CASE NewDB  BY <1>0, <1>4, NewDBKeepsFiles
<1>5. CASE Recover  BY <1>0, <1>5, RecoverKeepsFiles
<1>6. CASE \E number \in recovery.logs : ReplayLog(number)
  BY <1>0, <1>6, ReplayKeepsFiles
<1>7. CASE NewManifest  BY <1>0, <1>7, NewManifestKeepsFiles
<1>8. CASE SetCurrent  BY <1>0, <1>8, SetCurrentKeepsFiles
<1>9. CASE Opened  BY <1>0, <1>9, OpenedKeepsFiles
<1>10. CASE EndClose \/ Kill \/ OpenFails  BY <1>0, <1>10, EndsKeepFiles
<1>11. CASE PowerLoss  BY <1>0, <1>11, PowerLossKeepsFiles
<1>. QED
  BY <1>1, <1>2, <1>3, <1>4, <1>5, <1>6, <1>7, <1>8, <1>9, <1>10, <1>11
     DEF Next, Open, Reading

LEMMA InitFiles ==
  ASSUME Init
  PROVE  FilesInv
<1>1. /\ current = 0 /\ db = "closed" /\ durable = {} /\ bg = IdleBg /\ manifest = <<>>
      /\ versions = NoVersions /\ reader = NoReader
  BY DEF Init
<1>2. AtRest
  <2>1. ~bgError /\ ~scheduled /\ ~shuttingDown /\ ~NoReader.on
    BY Zenon DEF Init, NoReader
  <2>. QED  BY <1>1, <2>1 DEF Init, AtRest, Running
<1>3. DescriptorInv
  <2>1. DOMAIN manifest = {}  BY <1>1
  <2>. QED  BY <1>1, <2>1 DEF DescriptorInv, Possible
<1>4. JobInv
  <2>1. TypedInv /\ ~Running  BY <1>1, InitTyped DEF Running
  <2>. QED  BY <2>1, IdleJob
<1>. QED  BY <1>1, <1>2, <1>3, <1>4 DEF FilesInv, OpeningInv, SwitchInv, UpInv, Up

LEMMA FilesStutter ==
  ASSUME FilesInv, UNCHANGED vars
  PROVE  FilesInv'
<1>1. UNCHANGED <<log, table, manifest, current, db, recovery, versions, mem, imm, logfile,
                  queue, writer, group, snapshots, reader, pending, bgError, scheduled,
                  shuttingDown, bg, store, acked, durable, budget>>
  BY DEF vars, disk, client, background, promises
<1>2. Possible' = Possible /\ Described' = Described  BY <1>1 DEF Possible, Described
<1>3. AtRest'  BY <1>1 DEF FilesInv, AtRest, Running
<1>4. DescriptorInv'  BY <1>1, DiskFrame DEF FilesInv
<1>5. OpeningInv' /\ SwitchInv'
  BY <1>1, <1>2 DEF FilesInv, OpeningInv, SwitchInv, Stored
<1>6. UpInv'
  BY <1>1, <1>2 DEF FilesInv, UpInv, Up, Stored, Current
<1>7. JobInv'
  BY <1>1, <1>2 DEF FilesInv, JobInv, BuildInv, WriteInv, EditInv, SyncInv, Editing, Writing,
                    Edited, Stored
<1>. QED  BY <1>3, <1>4, <1>5, <1>6, <1>7 DEF FilesInv

LEMMA FilesStep ==
  ASSUME TypedInv, FilesInv, [Next]_vars
  PROVE  (TypedInv /\ FilesInv)'
<1>1. CASE Next
  <2>1. TypedInv'  BY <1>1, NextKeepsTypes DEF FilesInv, DescriptorInv
  <2>. QED  BY <1>1, <2>1, NextKeepsFiles
<1>2. CASE UNCHANGED vars  BY <1>2, TypesStutter, FilesStutter
<1>. QED  BY <1>1, <1>2

\* The files and what the process knows of them, at every step of every thread,
\* of a recovery and through every fault and crash.
THEOREM FilesHold == Spec => [](TypedInv /\ FilesInv)
<1>1. Init => TypedInv /\ FilesInv  BY InitTyped, InitFiles
<1>2. TypedInv /\ FilesInv /\ [Next]_vars => (TypedInv /\ FilesInv)'  BY FilesStep
<1>. QED  BY <1>1, <1>2, PTL DEF Spec

\* What FilesInUseExist says follows.
LEMMA FilesInUse ==
  ASSUME TypedInv, FilesInv
  PROVE  FilesInUseExist
<1>0. Typed /\ DescriptorInv /\ UpInv /\ JobInv /\ AtRest /\ OpeningInv
  BY DEF TypedInv, FilesInv
<1>1. TypeOK
  <2>1. \A t \in Writer : writer[t].pc \in InQueue <=> t \in Range(queue)
    BY DEF TypedInv, QueueInv, QueueShape, Range
  <2>2. bg.pc # "idle" => scheduled  BY DEF TypedInv, JobShape
  <2>3. db = "open" => logfile \in DOMAIN log  BY <1>0 DEF UpInv, Up
  <2>4. current # 0 => current \in DOMAIN manifest  BY <1>0 DEF DescriptorInv
  <2>. QED  BY <1>0, <2>1, <2>2, <2>3, <2>4 DEF TypeOK, Typed
<1>2. Stored(Numbers(versions.files))
  <2>1. CASE db = "closed"
    <3>1. versions.files = {}  BY <1>0, <2>1 DEF AtRest, NoVersions
    <3>. QED  BY <3>1 DEF Numbers, Stored
  <2>2. CASE db \in {"replay", "switch"}  BY <1>0, <2>2 DEF OpeningInv, Stored
  <2>3. CASE Up  BY <1>0, <2>3 DEF UpInv, Stored
  <2>. QED  BY <1>0, <2>1, <2>2, <2>3 DEF Typed, OpenOK, Up
<1>3. Stored(reader.files)
  <2>1. CASE Up  BY <1>0, <2>1 DEF UpInv, Stored
  <2>2. CASE ~Up
    <3>1. reader = NoReader  BY <1>0, <2>2 DEF AtRest, Up, Running
    <3>. QED  BY <3>1 DEF NoReader, Stored
  <2>. QED  BY <2>1, <2>2
<1>4. Stored(Numbers(bg.inputs))
  <2>1. Numbers(bg.inputs) \subseteq Numbers(versions.files)
    BY <1>0, NumbersSubset DEF JobInv
  <2>. QED  BY <1>2, <2>1 DEF Stored
<1>5. current # 0 => Stored(Numbers(Described.files))
  <2>1. SUFFICES ASSUME current # 0  PROVE Stored(Numbers(Described.files))  OBVIOUS
  <2>2. CASE manifest[current].states = <<>>
    <3>1. Described.files = {}  BY <2>2 DEF Described, LastState, EmptyVersion
    <3>. QED  BY <3>1 DEF Numbers, Stored
  <2>3. CASE manifest[current].states # <<>>
    BY <1>0, <2>1, <2>3, DescribedPossible DEF DescriptorInv, Openable
  <2>. QED  BY <2>2, <2>3
<1>6. durable # {} => current # 0 /\ Described.next # 0
  <2>1. SUFFICES ASSUME durable # {}  PROVE current # 0 /\ Described.next # 0  OBVIOUS
  <2>2. current # 0 /\ manifest[current].synced >= 1  BY <1>0, <2>1 DEF DescriptorInv
  <2>3. Described \in Possible  BY <1>0, <2>2, SyncedPossible
  <2>4. current < Described.next /\ current \in Nat
    BY <1>0, <2>3 DEF DescriptorInv, Openable, Typed, DiskOK
  <2>. QED  BY <2>2, <2>4
<1>. QED
  BY <1>1, <1>2, <1>3, <1>4, <1>5, <1>6 DEF FilesInUseExist, Stored

\* FilesInUseExist for any threads, keys, buffer sizes and faults: no table in
\* use is deleted or incomplete, and the store can be opened again.
THEOREM FilesExist == Spec => []FilesInUseExist
<1>1. TypedInv /\ FilesInv => FilesInUseExist  BY FilesInUse
<1>. QED  BY <1>1, FilesHold, PTL

=============================================================================
