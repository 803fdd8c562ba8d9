---------------------------- MODULE MCDBIterator ----------------------------
(* A small database for DBIterator: two entries in the deep level, three in *)
(* a table of level 0, one in the memtable.                                 *)
EXTENDS DBIterator

Keys == {1, 2, 5}
Asked == {1, 2, 4, 5, 6}

V(k, s) == [key |-> k, seq |-> s, type |-> "value"]
D(k, s) == [key |-> k, seq |-> s, type |-> "deletion"]
Bad(k, s) == [key |-> k, seq |-> s, type |-> "bad"]

Node(e, h) == [entry |-> e, height |-> h]
(* One layout per hard case: several versions of a key in one place and in  *)
(* several; a snapshot older than some of them; deletions above what they   *)
(* hide; versions of one key on both sides of a block's end; a key equal to *)
(* a separator; a filter; nothing in some place; a block, a file or an entry*)
(* that cannot be read.                                                     *)
Whole == [level |-> <<<<V(1, 1)>>, <<V(5, 2)>>>>, badFiles |-> {}, badBlocks |-> {},
          badFooter |-> FALSE, filtered |-> FALSE, verify |-> TRUE, lost |-> {},
          table |-> <<V(1, 5), V(1, 3), V(5, 4)>>,
          mem |-> <<Node(V(2, 6), 1)>>, last |-> 6, snapshot |-> 6]

OldSnapshot == [Whole EXCEPT !.table = <<V(2, 5), V(2, 4), V(2, 3), V(2, 2)>>,
                             !.level = <<<<V(1, 1)>>>>, !.snapshot = 4,
                             !.mem = <<Node(D(1, 6), 2)>>, !.filtered = TRUE]
Deletions == [Whole EXCEPT !.table = <<D(1, 5), V(2, 4), D(5, 3)>>,
                           !.mem = <<Node(D(2, 6), 1)>>, !.filtered = TRUE]
OnlyDeep == [Whole EXCEPT !.table = <<>>, !.mem = <<>>]
OnlyShallow == [Whole EXCEPT !.level = <<>>]
LostBlock == [Whole EXCEPT !.badBlocks = {1}, !.lost = {V(1, 5), V(1, 3)}]
GarbledBlock == [LostBlock EXCEPT !.verify = FALSE]
LostTable == [Whole EXCEPT !.badFooter = TRUE, !.lost = Range(Whole.table)]
LostFile == [Whole EXCEPT !.badFiles = {2}, !.table = <<V(1, 5), Bad(2, 4), V(2, 3)>>,
                          !.lost = {V(5, 2)}]

SomeLayouts ==
    {Whole, OldSnapshot, Deletions, OnlyDeep, OnlyShallow, LostBlock, GarbledBlock, LostTable,
      LostFile}

\* Table::ApproximateOffsetOf grows with the entry asked for, up to the end of
\* the data.
ASSUME OffsetsGrow ==
    \A layout \in {l \in SomeLayouts : l.table # <<>>} :
      LET table == OpenTable(BuildTable(layout.table, layout.filtered), layout.filtered, TRUE)
          asked == Range(layout.table) \cup {Target(k, 9) : k \in Asked}
      IN  /\ \A t, u \in asked : Before(t, u) =>
               ApproximateOffsetOf(table, t) <= ApproximateOffsetOf(table, u)
          /\ \A t \in asked : ApproximateOffsetOf(table, t) <= table.metaindex
=============================================================================
