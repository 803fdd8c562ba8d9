----------------------------- MODULE VersionEdit -----------------------------
(* A VersionEdit (db/version_edit.cc) and the record of a MANIFEST that it is *)
(* written as: fields that may be set, each behind its tag, and lists of      *)
(* positions of merges, of files deleted and of files added.                  *)
EXTENDS Coding, SequencesExt, TLC

CONSTANT NumLevels

\* The tags, and what follows each.
Tag ==
    [comparator |-> 1, logNumber |-> 2, nextFileNumber |-> 3, lastSequence |-> 4,
     compactPointer |-> 5, deletedFile |-> 6, newFile |-> 7, prevLogNumber |-> 9]

Parts ==
    [comparator |-> <<"slice">>, logNumber |-> <<"number">>, nextFileNumber |-> <<"number">>,
     lastSequence |-> <<"number">>, prevLogNumber |-> <<"number">>,
     compactPointer |-> <<"level", "slice">>, deletedFile |-> <<"level", "number">>,
     newFile |-> <<"level", "number", "number", "slice", "slice">>]

\* The fields there is one of, in the order they are written.
Scalars == <<"comparator", "logNumber", "prevLogNumber", "nextFileNumber", "lastSequence">>

Clear == [scalars |-> <<>>, compactPointers |-> <<>>, deletedFiles |-> {}, newFiles |-> <<>>]

----------------------------------------------------------------------------
PutPart(part, v) == IF part = "slice" THEN PutLengthPrefixed(v) ELSE PutVarint[v]

PutField(kind, values) ==
    FoldLeft(LAMBDA cells, i : cells \o PutPart(Parts[kind][i], values[i]),
             PutVarint[Tag[kind]], [i \in DOMAIN values |-> i])

PutAll(kind, items) == FoldLeft(LAMBDA cells, v : cells \o PutField(kind, v), <<>>, items)

ByLevel(f, g) == f[1] < g[1] \/ (f[1] = g[1] /\ f[2] < g[2])

EncodeTo(edit) ==
    FoldLeft(LAMBDA cells, kind :
                 IF kind \in DOMAIN edit.scalars
                 THEN cells \o PutField(kind, <<edit.scalars[kind]>>) ELSE cells,
             <<>>, Scalars)
    \o PutAll("compactPointer", edit.compactPointers)
    \o PutAll("deletedFile", SetToSortSeq(edit.deletedFiles, ByLevel))
    \o PutAll("newFile", edit.newFiles)

----------------------------------------------------------------------------
GetLevel(s, p) ==
    Bind(GetVarint(s, p, Len(s), Digits32), LAMBDA v :
      IF v.ok /\ v.value < NumLevels THEN v ELSE No)

GetPart(part, s, p) ==
    CASE part = "number" -> GetVarint(s, p, Len(s), Digits64)
      [] part = "level" -> GetLevel(s, p)
      [] part = "slice" -> GetLengthPrefixed(s, p, Len(s))

GetParts(parts, s, p) ==
    LET get[k \in 0 .. Len(parts)] ==
            IF k = 0 THEN [ok |-> TRUE, values |-> <<>>, next |-> p]
            ELSE Bind(get[k - 1], LAMBDA got :
                   IF ~got.ok THEN No
                   ELSE Bind(GetPart(parts[k], s, got.next), LAMBDA v :
                          IF ~v.ok THEN No
                          ELSE [ok |-> TRUE, values |-> Append(got.values, v.value),
                                next |-> v.next]))
    IN  get[Len(parts)]

Added(edit, kind, v) ==
    CASE kind = "compactPointer" -> [edit EXCEPT !.compactPointers = Append(@, v)]
      [] kind = "deletedFile" -> [edit EXCEPT !.deletedFiles = @ \cup {v}]
      [] kind = "newFile" -> [edit EXCEPT !.newFiles = Append(@, v)]
      [] OTHER -> [edit EXCEPT !.scalars = (kind :> v[1]) @@ @]

\* One turn of DecodeFrom's loop; an unknown tag and a field cut short are
\* corruption.
GetField(s, got) ==
    Bind(GetVarint(s, got.next, Len(s), Digits32), LAMBDA tag :
      LET kinds == {kind \in DOMAIN Tag : tag.ok /\ Tag[kind] = tag.value}
          kind == CHOOSE k \in kinds : TRUE
      IN  IF kinds = {} THEN No
          ELSE Bind(GetParts(Parts[kind], s, tag.next), LAMBDA v :
                 IF ~v.ok THEN No
                 ELSE [ok |-> TRUE, edit |-> Added(got.edit, kind, v.values), next |-> v.next]))

DecodeFrom(s) ==
    LET turn[n \in 0 .. Len(s)] ==
            IF n = 0 THEN [ok |-> TRUE, edit |-> Clear, next |-> 0]
            ELSE Bind(turn[n - 1], LAMBDA got :
                   IF got.ok /\ got.next < Len(s) THEN GetField(s, got) ELSE got)
    IN  turn[Len(s)]
=============================================================================
