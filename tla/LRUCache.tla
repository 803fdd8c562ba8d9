------------------------------ MODULE LRUCache ------------------------------
(* The cache (util/cache.cc).  A shard of it has handles with reference     *)
(* counts, a hash table of the cached ones, and the list of those no client *)
(* holds, in the order in which they were let go.  Each operation runs under*)
(* mutex_ and is an operator from the shard before it to the shard after    *)
(* it; the values whose deleter it calls are in "deleted".                  *)
EXTENDS Naturals, SequencesExt, FiniteSetsExt

CONSTANTS MaxHandles,  \* bound: handles of a shard allocated at a time
          Capacity,    \* the capacity of all shards
          MinLength,   \* the smallest length of the hash table
          Hash,        \* the hash of each key
          NumShards,   \* kNumShards
          ShardHashes  \* as many hashes as have the same highest bits

ASSUME CacheConstants ==
    /\ {MaxHandles, Capacity} \subseteq Nat
    /\ {MinLength, NumShards, ShardHashes} \subseteq Nat \ {0}
    /\ \A key \in DOMAIN Hash : Hash[key] \in 0 .. NumShards * ShardHashes - 1

\* ShardedLRUCache: the shard of a key, and what each may hold
Shard(key) == Hash[key] \div ShardHashes
PerShard == (Capacity + NumShards - 1) \div NumShards

NoHandle == 0
Handle == 1 .. MaxHandles
Freed == [refs |-> 0]

Buckets(length) == [b \in 0 .. length - 1 |-> <<>>]

NewLRUCache ==
    [at |-> [h \in Handle |-> Freed], lru |-> <<>>, inUse |-> {},
     table |-> Buckets(MinLength), usage |-> 0, deleted |-> <<>>]

Allocated(c) == {h \in Handle : c.at[h] # Freed}

----------------------------------------------------------------------------
(* HandleTable                                                              *)
TableLength(t) == Cardinality(DOMAIN t)
Elems(t) == MapThenSumSet(LAMBDA b : Len(t[b]), DOMAIN t)
Bucket(t, key) == Hash[key] % TableLength(t)

FindPointer(c, key) ==
    SelectSeq(c.table[Bucket(c.table, key)], LAMBDA h : c.at[h].key = key)

TableLookup(c, key) ==
    LET found == FindPointer(c, key) IN IF found = <<>> THEN NoHandle ELSE Head(found)

\* The length doubles until it is enough for the handles.
Doubled(n, length) == CHOOSE l \in {length * 2 ^ k : k \in 0 .. n} :
                        l >= n /\ (l = length \/ l \div 2 < n)

\* Every handle goes to the front of its new bucket.
Resize(c) ==
    LET old == c.table
        all == FlattenSeq([i \in 1 .. TableLength(old) |-> old[i - 1]])
        new == Buckets(Doubled(Elems(old), MinLength))
    IN  [c EXCEPT !.table =
           FoldLeft(LAMBDA t, h : [t EXCEPT ![Bucket(t, c.at[h].key)] = <<h>> \o @], new, all)]

\* A handle takes the place of the one with its key, or the end of the bucket.
TableInsert(c, h) ==
    LET key == c.at[h].key
        b == Bucket(c.table, key)
        old == TableLookup(c, key)
        linked == [c EXCEPT !.table[b] =
                     IF old = NoHandle THEN Append(@, h)
                     ELSE [i \in DOMAIN @ |-> IF @[i] = old THEN h ELSE @[i]]]
    IN  IF old = NoHandle /\ Elems(linked.table) > TableLength(linked.table)
        THEN Resize(linked) ELSE linked

TableRemove(c, key) ==
    [c EXCEPT !.table[Bucket(c.table, key)] = SelectSeq(@, LAMBDA h : c.at[h].key # key)]

----------------------------------------------------------------------------
(* LRUCache                                                                 *)

\* A handle in the cache leaves lru_ with its first client ...
Ref(c, h) ==
    LET moved == IF c.at[h].refs = 1 /\ c.at[h].inCache
                 THEN [c EXCEPT !.lru = Remove(@, h), !.inUse = @ \cup {h}] ELSE c
    IN  [moved EXCEPT !.at[h].refs = @ + 1]

\* ... and is its newest element when the last client releases it.
Unref(c, h) ==
    LET e == c.at[h]
    IN  IF e.refs = 1
        THEN [c EXCEPT !.at[h] = Freed, !.deleted = Append(@, e.value)]
        ELSE [c EXCEPT !.at[h].refs = @ - 1,
                       !.lru = IF e.inCache /\ e.refs = 2 THEN Append(@, h) ELSE @,
                       !.inUse = IF e.inCache /\ e.refs = 2 THEN @ \ {h} ELSE @]

\* Mutant: what is taken out of the cache is freed at once.
FinishEraseFrees(c, h) ==
    IF h = NoHandle THEN c
    ELSE [c EXCEPT !.lru = Remove(@, h), !.inUse = @ \ {h},
                   !.usage = @ - c.at[h].charge,
                   !.deleted = Append(@, c.at[h].value), !.at[h] = Freed]

\* The handle, already out of the hash table, loses the cache's reference.
FinishErase(c, h) ==
    IF h = NoHandle THEN c
    ELSE Unref([c EXCEPT !.lru = Remove(@, h), !.inUse = @ \ {h},
                         !.at[h].inCache = FALSE,
                         !.usage = @ - c.at[h].charge], h)

Erase(c, key) ==
    FinishErase(TableRemove(c, key), TableLookup(c, key))

Lookup(c, key) ==
    LET h == TableLookup(c, key) IN IF h = NoHandle THEN c ELSE Ref(c, h)

\* The handle Insert returns
NewHandle(c) == Min(Handle \ Allocated(c))

Shrink(c) ==
    FoldLeft(LAMBDA d, h : IF d.usage > PerShard THEN Erase(d, d.at[h].key) ELSE d, c, c.lru)

\* Mutant: the handle that had the key stays where it is.
EvictAllButOld(c, old) == Shrink(c)

\* The handle that had the key, then the oldest that no client holds, are let go.
Evict(c, old) == Shrink(FinishErase(c, old))

Insert(c, key, value, charge) ==
    LET h == NewHandle(c)
        cached == PerShard > 0
        made == [c EXCEPT !.at[h] = [key |-> key, value |-> value, charge |-> charge,
                                     inCache |-> cached, refs |-> IF cached THEN 2 ELSE 1]]
    IN  IF cached
        THEN Evict(TableInsert([made EXCEPT !.inUse = @ \cup {h}, !.usage = @ + charge], h),
                   TableLookup(c, key))
        ELSE made

Release(c, h) == Unref(c, h)

\* ~LRUCache: no client holds a handle; the values of all are deleted.
DeleteLRUCache(c) ==
    FoldLeft(LAMBDA d, h : Unref([d EXCEPT !.at[h].inCache = FALSE], h), c, c.lru).deleted

NewShardedLRUCache == [s \in 0 .. NumShards - 1 |-> NewLRUCache]

----------------------------------------------------------------------------
\* The comment on struct LRUHandle and the lists: every cached handle is in the
\* hash table once, under its key, and in the list that its references call for,
\* and usage_ is what is cached.
Linked(c) == UNION {ToSet(c.table[b]) : b \in DOMAIN c.table}

Consistent(c) ==
    LET cached == {h \in Allocated(c) : c.at[h].inCache}
        held == {h \in cached : c.at[h].refs > 1}
    IN  /\ Linked(c) = cached
        /\ \A h \in cached : FindPointer(c, c.at[h].key) = <<h>>
        /\ ToSet(c.lru) = cached \ held /\ Len(c.lru) = Cardinality(cached \ held)
        /\ c.inUse = held
        /\ c.usage = MapThenSumSet(LAMBDA h : c.at[h].charge, cached)

============================================================================
