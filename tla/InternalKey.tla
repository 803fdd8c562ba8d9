---------------------------- MODULE InternalKey ----------------------------
(* The internal keys of leveldb (db/dbformat.h, db/dbformat.cc): a user key *)
(* and the number of the write, ordered by increasing user key and then     *)
(* decreasing number, so that the newest version of a key comes first.  A   *)
(* seek target and an index entry are internal keys too.                    *)
(*                                                                          *)
(* A user key is a natural number whose parity says how long its text is:   *)
(* 2b is the single byte b, 2b + 1 is byte b followed by something else.    *)
(* That is all the separators of util/comparator.cc look at.                *)
EXTENDS Integers

CONSTANT MaxSequenceNumber  \* no write has a number this large

ASSUME MaxSequenceIsNat == MaxSequenceNumber \in Nat \ {0}

Target(k, s) == [key |-> k, seq |-> s]

\* InternalKeyComparator::Compare(a, b) < 0.
Before(a, b) == a.key < b.key \/ (a.key = b.key /\ a.seq > b.seq)

FirstByte(k) == k \div 2
IsLong(k) == k % 2 = 1
NextByte(k) == 2 * (FirstByte(k) + 1)

\* A mutant: the largest number is tacked on to a key that was not cut, too.
SeparatorOnlyOfKeys(start, limit) ==
    IF IsLong(start.key) /\ FirstByte(start.key) + 1 < FirstByte(limit.key)
    THEN Target(NextByte(start.key), MaxSequenceNumber)
    ELSE Target(start.key, MaxSequenceNumber)

(* A key to stand between two blocks: the user key of the last entry is cut *)
(* to one byte more when that still is below the next block's, and then it  *)
(* carries the largest number, which sorts before every entry of that key.  *)
FindShortestSeparator(start, limit) ==
    IF IsLong(start.key) /\ FirstByte(start.key) + 1 < FirstByte(limit.key)
    THEN Target(NextByte(start.key), MaxSequenceNumber)
    ELSE Target(start.key, start.seq)

FindShortSuccessor(start) ==
    IF IsLong(start.key) THEN Target(NextByte(start.key), MaxSequenceNumber)
    ELSE Target(start.key, start.seq)
=============================================================================
