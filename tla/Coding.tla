------------------------------- MODULE Coding -------------------------------
(* How leveldb writes numbers and strings into its files (util/coding.h,    *)
(* coding.cc) and where it looks when it reads them back.  A file is a      *)
(* sequence of cells.  A byte of a varint carries one digit of the number,  *)
(* lowest first, to the base Radix (128 in the code); Radix is added to it  *)
(* when more digits follow.  A fixed-width number fills a single cell.      *)
(* Positions count from 0, as in the code.                                  *)
EXTENDS Integers, Sequences, FiniteSetsExt

CONSTANT Radix

ASSUME RadixHasTwoDigits == Radix \in Nat \ {0, 1}

Digits32 == 5
Digits64 == 10

Cell(s, p) == s[p + 1]
Cells(s, from, to) == SubSeq(s, from + 1, to)

(* The same sequence, and F(x).  TLC computes an element of a function, and *)
(* an argument, at each of its uses: here once and for all.                 *)
Computed(s) == s \o <<>>
Bind(x, F(_)) == CHOOSE y \in {F(z) : z \in {x}} : TRUE

\* A reader's "no": NULL, or a Status that is not ok.
No == [ok |-> FALSE]

PutVarint[v \in Nat] ==
    IF v < Radix THEN <<v>> ELSE <<(v % Radix) + Radix>> \o PutVarint[v \div Radix]

(* The number at p, and where what follows it begins, unless its last digit *)
(* is not before the limit or not among the first "most".                   *)
GetVarint(s, p, limit, most) ==
    LET ends == {q \in p .. limit - 1 : q < p + most /\ Cell(s, q) < Radix}
        number[q \in Nat] ==
            (Cell(s, q) % Radix) + IF Cell(s, q) < Radix THEN 0 ELSE Radix * number[q + 1]
    IN  IF ends = {} THEN No ELSE [ok |-> TRUE, value |-> number[p], next |-> Min(ends) + 1]

\* n numbers in a row.
GetVarints(s, p, limit, n, most) ==
    LET get[k \in 0 .. n] ==
            IF k = 0 THEN [ok |-> TRUE, values |-> <<>>, next |-> p]
            ELSE Bind(get[k - 1], LAMBDA got :
                   IF ~got.ok THEN No
                   ELSE Bind(GetVarint(s, got.next, limit, most), LAMBDA v :
                          IF ~v.ok THEN No
                          ELSE [ok |-> TRUE, values |-> Append(got.values, v.value),
                                next |-> v.next]))
    IN  get[n]

PutLengthPrefixed(cells) == PutVarint[Len(cells)] \o cells

GetLengthPrefixed(s, p, limit) ==
    Bind(GetVarint(s, p, limit, Digits32), LAMBDA n :
      IF ~n.ok \/ (n.ok /\ n.next + n.value > limit) THEN No
      ELSE [ok |-> TRUE, value |-> Cells(s, n.next, n.next + n.value),
            next |-> n.next + n.value])
=============================================================================
