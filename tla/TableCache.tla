----------------------------- MODULE TableCache -----------------------------
(* The open tables of the database (db/table_cache.cc) in the shards of the *)
(* cache, and the two limits on the ways to open a file (env_posix.cc).     *)
(* Threads read tables of the versions they hold: a table that misses is    *)
(* opened outside the cache's mutex, so that two threads may open the same  *)
(* one, and the last to finish replaces the other's.                        *)
EXTENDS LRUCache

CONSTANTS Thread,    \* the threads that read
          Table,     \* the numbers of the tables
          MmapLimit, \* mmap_limit_ at the start
          FdLimit    \* fd_limit_ at the start

ASSUME TableCacheConstants ==
    /\ Table \subseteq DOMAIN Hash
    /\ {MmapLimit, FdLimit} \subseteq Nat

VARIABLES cache,   \* cache_, by shard
          threads, \* the step each thread is at, its table and what it holds
          allowed, \* what each Limiter allows
          current, \* the tables of the current version
          stored   \* the tables whose file is in the directory

cacheVars == <<cache, threads, allowed, current, stored>>

NoFile == "none"
Limited == {"mmap", "fd"}
Kind == Limited \cup {"temporary"}

AtRest == [at |-> "rest", table |-> 0, file |-> NoFile, handle |-> NoHandle]

CacheInit ==
    /\ cache = NewShardedLRUCache
    /\ threads = [t \in Thread |-> AtRest]
    /\ allowed = [mmap |-> MmapLimit, fd |-> FdLimit]
    /\ current = Table
    /\ stored = Table

----------------------------------------------------------------------------
(* Limiter                                                                  *)
Acquire(kind) == [allowed EXCEPT ![kind] = @ - 1]

\* A file is mapped while the limit lasts, then kept open, then opened at each read.
KindToOpen ==
    IF allowed.mmap > 0 THEN "mmap" ELSE IF allowed.fd > 0 THEN "fd" ELSE "temporary"

\* The limits when the files are deleted
Released(files) ==
    [kind \in Limited |-> allowed[kind] + Len(SelectSeq(files, LAMBDA f : f = kind))]

----------------------------------------------------------------------------
(* Threads                                                                  *)
Step(t, to) == threads' = [threads EXCEPT ![t] = to]

ShardOf(t) == cache[Shard(threads[t].table)]

\* The deleter of the entries a shard let go of deletes their files.
Close(table, c) ==
    /\ cache' = [cache EXCEPT ![Shard(table)] = [c EXCEPT !.deleted = <<>>]]
    /\ allowed' = Released([i \in DOMAIN c.deleted |-> c.deleted[i].file])

\* Version::Get, which holds the version, asks for a table of it.
Start(t, table) ==
    /\ threads[t].at = "rest"
    /\ table \in current
    /\ Step(t, [AtRest EXCEPT !.at = "find", !.table = table])
    /\ UNCHANGED <<cache, allowed, current, stored>>

\* FindTable
Hit(t) ==
    LET table == threads[t].table
        h == TableLookup(ShardOf(t), table)
    IN  /\ threads[t].at = "find"
        /\ h # NoHandle
        /\ cache' = [cache EXCEPT ![Shard(table)] = Lookup(@, table)]
        /\ Step(t, [threads[t] EXCEPT !.at = "read", !.handle = h])
        /\ UNCHANGED <<allowed, current, stored>>

Miss(t) ==
    /\ threads[t].at = "find"
    /\ TableLookup(ShardOf(t), threads[t].table) = NoHandle
    /\ Step(t, [threads[t] EXCEPT !.at = "open"])
    /\ UNCHANGED <<cache, allowed, current, stored>>

NewRandomAccessFile(t) ==
    /\ threads[t].at = "open"
    /\ threads[t].table \in stored
    /\ allowed' = IF KindToOpen \in Limited THEN Acquire(KindToOpen) ELSE allowed
    /\ Step(t, [threads[t] EXCEPT !.at = "load", !.file = KindToOpen])
    /\ UNCHANGED <<cache, current, stored>>

\* Errors are not cached: the thread's read ends.
Fail(t) == Step(t, AtRest)

\* open() fails, or GetFileSize() or mmap(), after which the limit is put back.
NewRandomAccessFileFails(t) ==
    /\ threads[t].at = "open"
    /\ Fail(t)
    /\ UNCHANGED <<cache, allowed, current, stored>>

\* Mutant: the file is not deleted.
OpenFailsAndLeaks(t) ==
    /\ threads[t].at = "load"
    /\ Fail(t)
    /\ UNCHANGED <<cache, allowed, current, stored>>

\* Table::Open fails: the table is damaged, or a read of its footer or of its
\* index, for which a file without a limit is opened again, has an error.
OpenFails(t) ==
    /\ threads[t].at = "load"
    /\ allowed' = Released(<<threads[t].file>>)
    /\ Fail(t)
    /\ UNCHANGED <<cache, current, stored>>

InsertTable(t) ==
    LET me == threads[t]
    IN  /\ me.at = "load"
        /\ Close(me.table,
                 Insert(ShardOf(t), me.table, [table |-> me.table, file |-> me.file], 1))
        /\ Step(t, [me EXCEPT !.at = "read", !.file = NoFile, !.handle = NewHandle(ShardOf(t))])
        /\ UNCHANGED <<current, stored>>

\* The read is over: Get releases the handle, or UnrefEntry when the table's
\* iterator is deleted.
ReleaseTable(t) ==
    /\ threads[t].at = "read"
    /\ Close(threads[t].table, Release(ShardOf(t), threads[t].handle))
    /\ Step(t, AtRest)
    /\ UNCHANGED <<current, stored>>

----------------------------------------------------------------------------
(* The database's background thread                                         *)

\* A version that some thread holds has the table.
InUse(table) == \E t \in Thread : threads[t].at # "rest" /\ threads[t].table = table

\* The new version does without the table.
Die(table) ==
    /\ table \in current
    /\ current' = current \ {table}
    /\ UNCHANGED <<cache, threads, allowed, stored>>

\* DeleteObsoleteFiles: the last version with the table is gone.
Delete(table) ==
    /\ table \in stored \ current
    /\ ~InUse(table)
    /\ Close(table, Erase(cache[Shard(table)], table))
    /\ stored' = stored \ {table}
    /\ UNCHANGED <<threads, current>>

\* ~DBImpl deletes the cache with all its shards; the next DBImpl has a new one.
CloseAndOpen ==
    /\ \A t \in Thread : threads[t].at = "rest"
    /\ cache' = NewShardedLRUCache
    /\ allowed' =
         LET values == FlattenSeq([i \in 1 .. NumShards |-> DeleteLRUCache(cache[i - 1])])
         IN  Released([i \in DOMAIN values |-> values[i].file])
    /\ UNCHANGED <<threads, current, stored>>

CacheNext ==
    \/ \E t \in Thread :
         \/ \E table \in Table : Start(t, table)
         \/ Hit(t)
         \/ Miss(t)
         \/ NewRandomAccessFile(t)
         \/ NewRandomAccessFileFails(t)
         \/ OpenFails(t)
         \/ InsertTable(t)
         \/ ReleaseTable(t)
    \/ \E table \in Table : Die(table) \/ Delete(table)
    \/ CloseAndOpen

CacheSpec == CacheInit /\ [][CacheNext]_cacheVars

----------------------------------------------------------------------------
Holders(s, h) ==
    {t \in Thread : /\ threads[t].at = "read"
                    /\ Shard(threads[t].table) = s /\ threads[t].handle = h}

\* The shard and the handle of what is open
OpenInCache == {p \in (DOMAIN cache) \X Handle : cache[p[1]].at[p[2]] # Freed}
HandleAt(p) == cache[p[1]].at[p[2]]

CacheTypeOK ==
    /\ \A s \in DOMAIN cache : DOMAIN cache[s].at = Handle /\ cache[s].deleted = <<>>
    /\ threads \in [Thread -> [at : {"rest", "find", "open", "load", "read"},
                               table : Table \cup {0}, file : Kind \cup {NoFile},
                               handle : Handle \cup {NoHandle}]]
    /\ allowed \in [Limited -> Nat]
    /\ current \subseteq stored /\ stored \subseteq Table

\* The cache's table, its lists and its usage agree with the handles (cache.cc
\* 24-41, 181-188), whatever threads open the same table at once, and each handle
\* has a reference for each thread that holds it and one for the cache.
CacheIsConsistent ==
    /\ CacheTypeOK
    /\ \A s \in DOMAIN cache : Consistent(cache[s])
    /\ \A p \in OpenInCache :
         HandleAt(p).refs =
           Cardinality(Holders(p[1], p[2])) + (IF HandleAt(p).inCache THEN 1 ELSE 0)

\* Every file of a kind that is limited is either open or allowed: no error and
\* no second opening loses one (env_posix.cc 68-73, 366-368).
LimitsBalance ==
    \A kind \in Limited :
        allowed[kind] + Cardinality({p \in OpenInCache : HandleAt(p).value.file = kind})
                      + Cardinality({t \in Thread : threads[t].file = kind})
            = IF kind = "mmap" THEN MmapLimit ELSE FdLimit

\* The table a thread reads stays open, and is the one it asked for, whatever
\* replaces it in the cache or pushes it out (table_cache.h 27-34); and of a table
\* whose file was deleted nothing is open, so that its space is given back
\* (DeleteObsoleteFiles evicts it, db_impl.cc 261-263).
HeldAreOpen ==
    /\ \A t \in Thread : threads[t].at = "read" =>
         /\ ShardOf(t).at[threads[t].handle] # Freed
         /\ ShardOf(t).at[threads[t].handle].value.table = threads[t].table
    /\ \A p \in OpenInCache : HandleAt(p).value.table \in stored
    /\ \A t \in Thread : threads[t].file # NoFile => threads[t].table \in stored

=============================================================================
