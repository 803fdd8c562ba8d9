------------------------------ MODULE SkipList ------------------------------
(* The memtable's skip list (db/skiplist.h, db/memtable.cc).  A list is a   *)
(* record: "height" is max_height_, "next" maps each node, and the head, to *)
(* its links, one per level.  A node is named by the entry it holds.  One   *)
(* writer links a new node level by level, lowest first, while readers walk *)
(* the list without a lock; so the links of one insertion are separate      *)
(* steps here (Begin, Link).                                                *)
EXTENDS InternalKey, TLC, SequencesExt

CONSTANTS HeadNode, Nil, MaxHeight,
          ArenaBlockSize, \* kBlockSize of the arena
          Alignment       \* what a node's address is a multiple of

ASSUME SkipListConstants == /\ {ArenaBlockSize, Alignment} \subseteq Nat \ {0}
                            /\ ArenaBlockSize % Alignment = 0

EmptyList == [height |-> 1, next |-> HeadNode :> [l \in 1 .. MaxHeight |-> Nil]]

Nodes(list) == DOMAIN list.next \ {HeadNode}

(* The walk all searches share: from the head on the highest level, ahead   *)
(* while the next node is still Short of the goal, else one level down.     *)
(* Path(...)[l] is the node where the walk leaves level l.                  *)
Path(list, Short(_)) ==
    LET leaves[l \in 1 .. list.height] ==
            LET walk[x \in DOMAIN list.next] ==
                    LET n == list.next[x][l]
                    IN  IF n # Nil /\ Short(n) THEN walk[n] ELSE x
            IN  walk[IF l = list.height THEN HeadNode ELSE leaves[l + 1]]
    IN  leaves

OrNil(x) == IF x = HeadNode THEN Nil ELSE x

FindGreaterOrEqual(list, t) ==
    list.next[Path(list, LAMBDA n : Before(n, t))[1]][1]
FindLessThan(list, t) == OrNil(Path(list, LAMBDA n : Before(n, t))[1])
FindLast(list) == OrNil(Path(list, LAMBDA n : TRUE)[1])
First(list) == list.next[HeadNode][1]

(* SkipList::Insert up to its loop: where the new node goes on each level,  *)
(* and the new height, which readers may see before any link.               *)
BeginInsert(list, x, h) ==
    [list |-> [height |-> IF h > list.height THEN h ELSE list.height,
               next |-> (x :> [l \in 1 .. h |-> Nil]) @@ list.next],
     todo |-> [node |-> x, level |-> 1, height |-> h,
               prev |-> [l \in 1 .. h |->
                           IF l > list.height THEN HeadNode
                           ELSE Path(list, LAMBDA n : Before(n, x))[l]]]]

(* One turn of the loop: the node's own link is set before the link to it   *)
(* is published.                                                            *)
Link(list, todo) ==
    LET p == todo.prev[todo.level]
    IN  [list EXCEPT
          !.next[todo.node][todo.level] = list.next[p][todo.level],
          !.next[p][todo.level] = todo.node]

\* MemTable::Get: the first entry at or after the target decides if it is
\* one of the same user key.
MemTableGet(list, t) ==
    LET n == FindGreaterOrEqual(list, t)
    IN  IF n # Nil /\ n.key = t.key THEN n ELSE Nil

----------------------------------------------------------------------------
(* The arena that entries and nodes are in (util/arena.h, arena.cc): the    *)
(* sizes of its blocks, and where in which of them the rest begins.  A new  *)
(* block is aligned.                                                        *)
NewArena == [blocks |-> <<>>, block |-> 0, at |-> 0, left |-> 0, usage |-> 0]

Region(arena, block, at, bytes) ==
    [arena |-> arena, region |-> [block |-> block, from |-> at, to |-> at + bytes]]

Take(a, slop, bytes) ==
    Region([a EXCEPT !.at = @ + slop + bytes, !.left = @ - slop - bytes],
           a.block, a.at + slop, bytes)

\* The address of a block, 8 bytes or Alignment of them, is kept beside it.
AllocateNewBlock(a, bytes) ==
    [a EXCEPT !.blocks = Append(@, bytes), !.usage = @ + bytes + Alignment]

\* What is more than a quarter of a block gets one of its own; else the rest of
\* the current block is wasted.
AllocateFallback(a, bytes) ==
    LET big == bytes > ArenaBlockSize \div 4
        b == AllocateNewBlock(a, IF big THEN bytes ELSE ArenaBlockSize)
        fresh == [b EXCEPT !.block = Len(b.blocks), !.at = 0, !.left = ArenaBlockSize]
    IN  IF big THEN Region(b, Len(b.blocks), 0, bytes) ELSE Take(fresh, 0, bytes)

Allocate(a, bytes) ==
    IF bytes <= a.left THEN Take(a, 0, bytes) ELSE AllocateFallback(a, bytes)

AllocateAligned(a, bytes) ==
    LET mod == a.at % Alignment
        slop == IF mod = 0 THEN 0 ELSE Alignment - mod
    IN  IF bytes + slop <= a.left THEN Take(a, slop, bytes) ELSE AllocateFallback(a, bytes)

\* The regions handed out for any few requests lie in their blocks and share no
\* byte, those of nodes are aligned, and MemoryUsage counts every block.
ASSUME ArenaIsSound ==
    LET sizes == {1, Alignment, Alignment + 1, ArenaBlockSize \div 4, ArenaBlockSize + 1}
        serve(acc, r) ==
            LET got == IF r[2] THEN AllocateAligned(acc.arena, r[1])
                       ELSE Allocate(acc.arena, r[1])
            IN  [arena |-> got.arena, regions |-> Append(acc.regions, got.region)]
    IN  \A requests \in [1 .. 4 -> sizes \X BOOLEAN] :
          LET end == FoldLeft(serve, [arena |-> NewArena, regions |-> <<>>], requests)
              R == end.regions
          IN  /\ \A i \in DOMAIN R :
                   /\ R[i].to - R[i].from = requests[i][1]
                   /\ R[i].to <= end.arena.blocks[R[i].block]
                   /\ requests[i][2] => R[i].from % Alignment = 0
              /\ \A i, j \in DOMAIN R :
                   \/ i = j \/ R[i].block # R[j].block
                   \/ R[i].to <= R[j].from \/ R[j].to <= R[i].from
              /\ end.arena.usage =
                   FoldLeft(+, Alignment * Len(end.arena.blocks), end.arena.blocks)

=============================================================================
