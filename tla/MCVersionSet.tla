---------------------------- MODULE MCVersionSet ----------------------------
(* Instances of VersionSet for TLC: small files, levels and clients.       *)
EXTENDS VersionSet

Opt(maxFile, grandparents, expanded, trigger, base) ==
  [maxFile |-> maxFile, grandparents |-> grandparents, expanded |-> expanded,
   trigger |-> trigger, base |-> base]

Cl(memtables, writes, keys, types, snaps, seeks, ranges, quiet, crashes) ==
  [memtables |-> memtables, writes |-> writes, keys |-> keys, types |-> types,
   snapshots |-> snaps, seeks |-> seeks, ranges |-> ranges, quiet |-> quiet,
   crashes |-> crashes]

With(o, c) == [options |-> o, clients |-> c]

All == {"put", "del"}

\* Files of one entry, and a snapshot: a key is split between files of a level.
SplitSettings ==
  {With(Opt(1, 2, 6, 1, 1), Cl(4, 1, {1, 2}, {"put"}, 1, 0, 0, TRUE, 0))}

\* Overwriting and deleting with files of one entry, also after a crash; a
\* snapshot, with large files and with keys that are split; a file that runs
\* out of seeks; five memtables of three keys, with gaps between files and outputs
\* cut at grandparents; files that overlap on level 0; CompactRange while nobody writes.
MCSettings ==
  SplitSettings \cup
  {With(Opt(1, 2, 6, 2, 1), Cl(2, 2, {1, 2, 3}, All, 0, 0, 0, TRUE, 0)),
   With(Opt(1, 2, 6, 2, 1), Cl(4, 1, {1, 2}, All, 0, 1, 0, TRUE, 0)),
   With(Opt(1, 2, 6, 2, 1), Cl(3, 1, {1, 2}, All, 0, 1, 0, TRUE, 1)),
   With(Opt(9, 9, 9, 1, 2), Cl(4, 1, {1, 2}, All, 1, 0, 0, TRUE, 0)),
   With(Opt(1, 2, 6, 1, 1), Cl(3, 1, {1, 2}, All, 1, 0, 0, TRUE, 0)),
   With(Opt(1, 2, 6, 4, 2), Cl(4, 1, {1, 2}, All, 0, 1, 0, TRUE, 0)),
   With(Opt(2, 0, 6, 2, 2), Cl(5, 1, {1, 2, 3}, {"put"}, 0, 0, 0, TRUE, 0)),
   With(Opt(9, 0, 6, 3, 9), Cl(4, 2, {1, 2, 3}, {"put"}, 0, 0, 0, TRUE, 0)),
   With(Opt(2, 2, 9, 4, 4), Cl(4, 1, {1, 2, 3}, {"put"}, 0, 0, 1, TRUE, 0)),
   With(Opt(1, 2, 6, 2, 2), Cl(4, 1, {1, 2}, All, 0, 0, 1, TRUE, 0))}

\* CompactRange while somebody writes.
GapSettings ==
  {With(Opt(2, 2, 9, 4, 4), Cl(5, 1, {1, 2, 3}, {"put"}, 0, 0, 1, FALSE, 0))}
=============================================================================
