------------------------------- MODULE Block -------------------------------
(* A block of a table, cell by cell (table/block_builder.cc, block.cc).     *)
(* Entries in the order of their keys, each key without the part it shares  *)
(* with the one before; every so many entries a whole key, a restart point; *)
(* behind the entries the offsets of the restart points and their number.   *)
EXTENDS Coding, SequencesExt

----------------------------------------------------------------------------
(* BlockBuilder.                                                            *)
NewBlockBuilder == [buffer |-> <<>>, restarts |-> <<0>>, counter |-> 0, last |-> <<>>]

SharedPrefix(a, b) ==
    Max({n \in 0 .. Min({Len(a), Len(b)}) : \A i \in 1 .. n : a[i] = b[i]})

BlockAdd(builder, interval, key, value) ==
    LET restart == builder.counter = interval
    IN  Bind(IF restart THEN 0 ELSE SharedPrefix(builder.last, key), LAMBDA shared :
          [buffer |-> builder.buffer
                        \o PutVarint[shared] \o PutVarint[Len(key) - shared]
                        \o PutVarint[Len(value)]
                        \o Cells(key, shared, Len(key)) \o value,
           restarts |-> IF restart THEN Append(builder.restarts, Len(builder.buffer))
                        ELSE builder.restarts,
           counter |-> 1 + IF restart THEN 0 ELSE builder.counter,
           last |-> key])

CurrentSizeEstimate(builder) == Len(builder.buffer) + Len(builder.restarts) + 1
FinishBlock(builder) == builder.buffer \o builder.restarts \o <<Len(builder.restarts)>>

----------------------------------------------------------------------------
(* Block and Block::Iter.  An iterator knows the offset of its entry        *)
(* (current_), the restart point it falls under (restart_index_), its key,  *)
(* where its value lies, and whether it has met an entry it cannot decode.  *)
NumRestarts(cells) == Last(cells)

DecodeEntry(s, p, limit) ==
    Bind(GetVarints(s, p, limit, 3, Digits32), LAMBDA n :
      IF limit - p < 3 \/ ~n.ok THEN No
      ELSE IF limit - n.next < n.values[2] + n.values[3] THEN No
      ELSE [ok |-> TRUE, shared |-> n.values[1], delta |-> n.next,
            from |-> n.next + n.values[2], to |-> n.next + n.values[2] + n.values[3]])

\* An entry is a function of its offset: each is decoded once.
OpenBlock(cells) ==
    IF cells = <<>> \/ NumRestarts(cells) > Len(cells) - 1 THEN No
    ELSE Bind(Len(cells) - 1 - NumRestarts(cells), LAMBDA restarts :
           [ok |-> TRUE, cells |-> cells, num |-> NumRestarts(cells), restarts |-> restarts,
            entries |-> Computed([p \in 1 .. restarts |-> DecodeEntry(cells, p - 1, restarts)])])

EntryAt(block, p) == IF p >= block.restarts THEN No ELSE Cell(block.entries, p)

Iter == [at : Nat, restart : Nat, key : Seq(Nat), from : Nat, to : Nat, bad : BOOLEAN]

ErrorIter == [at |-> 0, restart |-> 0, key |-> <<>>, from |-> 0, to |-> 0, bad |-> TRUE]

BlockIter(block) ==
    IF block.ok THEN [at |-> block.restarts, restart |-> block.num, key |-> <<>>,
                      from |-> 0, to |-> 0, bad |-> FALSE]
    ELSE ErrorIter

\* The iterators of a bad block and of one without restart points never move.
Walkable(block) == block.ok /\ block.num > 0

IterValid(block, i) == block.ok /\ i.at < block.restarts
Value(block, i) == Cells(block.cells, i.from, i.to)

RestartPoint(block, r) == Cell(block.cells, block.restarts + r)

SeekToRestartPoint(block, i, r) ==
    [i EXCEPT !.restart = r, !.key = <<>>,
              !.from = RestartPoint(block, r), !.to = RestartPoint(block, r)]

PastEnd(block, i) == [i EXCEPT !.at = block.restarts, !.restart = block.num]
CorruptionError(block, i) ==
    [PastEnd(block, i) EXCEPT !.bad = TRUE, !.key = <<>>, !.from = 0, !.to = 0]

\* restart_index_ once the entry at p is reached.
RestartIndex(block, r, p) ==
    Max({r} \cup {q \in r + 1 .. block.num - 1 :
                    \A m \in r + 1 .. q : RestartPoint(block, m) < p})

ParseNextKey(block, i) ==
    IF i.to >= block.restarts THEN PastEnd(block, i)
    ELSE Bind(EntryAt(block, i.to), LAMBDA e :
           IF ~e.ok \/ (e.ok /\ Len(i.key) < e.shared) THEN CorruptionError(block, i)
           ELSE [i EXCEPT !.at = i.to, !.restart = RestartIndex(block, @, i.to),
                          !.key = SubSeq(@, 1, e.shared) \o Cells(block.cells, e.delta, e.from),
                          !.from = e.from, !.to = e.to])

\* The next entry, the one after it, ... until one satisfies Stop.
WalkUntil(block, i, Stop(_)) ==
    LET walk[j \in Iter] ==
            Bind(ParseNextKey(block, j), LAMBDA n :
              IF ~IterValid(block, n) \/ Stop(n) THEN n ELSE walk[n])
    IN  walk[i]

BlockSeekToFirst(block, i) ==
    IF ~Walkable(block) THEN i ELSE ParseNextKey(block, SeekToRestartPoint(block, i, 0))

BlockSeekToLast(block, i) ==
    IF ~Walkable(block) THEN i
    ELSE WalkUntil(block, SeekToRestartPoint(block, i, block.num - 1),
                   LAMBDA j : j.to >= block.restarts)

BlockNext(block, i) == ParseNextKey(block, i)

(* Back to a restart point before the entry, and ahead from there to the    *)
(* entry that ends where this one began.                                    *)
BlockPrev(block, i) ==
    LET before == {r \in 0 .. i.restart : RestartPoint(block, r) < i.at}
    IN  IF before = {} THEN PastEnd(block, i)
        ELSE WalkUntil(block, SeekToRestartPoint(block, i, Max(before)),
                       LAMBDA j : j.to >= i.at)

(* A binary search for the last restart point with a key Less than the one  *)
(* sought, then entry by entry to the first that is not Less.               *)
BlockSeek(block, i, Less(_)) ==
    LET search[l \in Nat, r \in Int] ==
            IF l >= r THEN l
            ELSE Bind((l + r + 1) \div 2, LAMBDA mid :
                   Bind(EntryAt(block, RestartPoint(block, mid)), LAMBDA e :
                     IF ~e.ok \/ (e.ok /\ e.shared # 0) THEN -1
                     ELSE IF Less(Cells(block.cells, e.delta, e.from)) THEN search[mid, r]
                     ELSE search[l, mid - 1]))
    IN  IF ~Walkable(block) THEN i
        ELSE Bind(search[0, block.num - 1], LAMBDA left :
               IF left = -1 THEN CorruptionError(block, i)
               ELSE WalkUntil(block, SeekToRestartPoint(block, i, left), LAMBDA j : ~Less(j.key)))
=============================================================================
