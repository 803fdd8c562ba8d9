------------------------------- MODULE Cursor -------------------------------
(* What leveldb promises of an iterator (include/leveldb/iterator.h): it    *)
(* walks, in the order of the keys and in both directions, the contents the *)
(* database had when the iterator was made.                                 *)
EXTENDS Integers, FiniteSetsExt

CONSTANTS Key, NoEntry

VARIABLES view,  \* the contents: a function from the keys present to values
          cur    \* the pair of key and value the iterator is at, or NoEntry

vars == <<view, cur>>

Entry(k) == <<k, view[k]>>
Present == DOMAIN view

Least(S) == IF S = {} THEN NoEntry ELSE Entry(Min(S))
Greatest(S) == IF S = {} THEN NoEntry ELSE Entry(Max(S))

Init == cur = NoEntry

Renew == cur' = NoEntry

SeekToFirst == cur' = Least(Present)
SeekToLast == cur' = Greatest(Present)
Seek == \E k \in Key : cur' = Least({j \in Present : j >= k})
Next == cur # NoEntry /\ cur' = Least({j \in Present : j > cur[1]})
Prev == cur # NoEntry /\ cur' = Greatest({j \in Present : j < cur[1]})

Move == UNCHANGED view /\ (SeekToFirst \/ SeekToLast \/ Seek \/ Next \/ Prev)

Spec == Init /\ [][Move \/ Renew]_vars
=============================================================================
