------------------------------ MODULE MCRepair ------------------------------
(* Instances for TLC of a directory that is repaired, Repair, and of the    *)
(* open tables of a database, TableCache.  They have no variable in common, *)
(* so that a step of the one says nothing of the other: TLC looks at the    *)
(* steps of each while the other is as it was at first.                     *)
EXTENDS Repair, TableCache, TLC

CONSTANTS t1, t2, t3

\* Two shards; both tables are in one bucket of the first, which has room for
\* one of them.
Hashes == <<0, 2>>

Threads == Permutations(Thread)

BothInit == RepairInit /\ CacheInit

BothNext ==
    \/ CacheInit /\ RepairNext /\ UNCHANGED cacheVars
    \/ RepairInit /\ CacheNext /\ UNCHANGED <<vars, repairVars>>

BothSpec == BothInit /\ [][BothNext]_<<vars, repairVars, cacheVars>>

=============================================================================
