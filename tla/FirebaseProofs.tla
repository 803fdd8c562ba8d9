--------------------------- MODULE FirebaseProofs ---------------------------
(***************************************************************************)
(* Lemmas about the database and its client that the proofs about the      *)
(* screens share: the types of what is written, the ids of a list, and the *)
(* sequences of unsent writes and of requests.                             *)
(***************************************************************************)
EXTENDS Firebase, SequencesExt, SequenceTheorems, TLAPS

-----------------------------------------------------------------------------
(* Writes                                                                  *)

LEMMA WriteNodes ==
  ASSUME NEW w \in Write
  PROVE  /\ w.node \in {"items", "profile", "friendList", "itemList"}
         /\ w.node = "items" => w.id \in ItemId
         /\ w.node = "profile" => w.uid \in Uid /\ w.value \in Profile
         /\ w.node = "friendList" =>
              w.uid \in Uid /\ w.value \in Seq(Uid \cup {NoId})
         /\ w.node = "itemList" => w.uid \in Uid /\ w.value \in Seq(ItemId)
  BY DEF Write, ItemWrite, ProfileWrite, FriendListWrite, ItemListWrite

LEMMA WrittenType ==
  ASSUME NEW w \in Write, NEW u \in Uid, NEW record \in Record
  PROVE  Written(w, u, record) \in Record
<1>1. CASE w.node = "items"
  BY <1>1 DEF Written
<1>2. CASE w.node = "profile"
  BY <1>2, WriteNodes DEF Written, Record, EmptyRecord
<1>3. CASE w.node = "friendList"
  BY <1>3, WriteNodes DEF Written, Record
<1>4. CASE w.node = "itemList"
  BY <1>4, WriteNodes DEF Written, Record
<1> QED BY <1>1, <1>2, <1>3, <1>4, WriteNodes

LEMMA IssueType ==
  ASSUME NEW d \in Device, NEW ws \in Seq(Write),
         FirebaseTypeOK, Issue(d, ws)
  PROVE  pending' \in [Device -> Seq(Write)]
  BY DEF FirebaseTypeOK, Issue

LEMMA CommitType ==
  ASSUME FirebaseTypeOK, NEW d \in Device, Commit(d)
  PROVE  FirebaseTypeOK'
<1> USE DEF FirebaseTypeOK
<1>1. Head(pending[d]) \in Write
  BY DEF Commit
<1>2. users' \in [Uid -> Record]
  BY <1>1, WrittenType DEF Commit
<1>3. items' \in SUBSET ItemId
  BY <1>1, WriteNodes DEF Commit
<1>4. pending' \in [Device -> Seq(Write)]
  BY DEF Commit
<1> QED BY <1>2, <1>3, <1>4 DEF Commit

-----------------------------------------------------------------------------
(* Lists of ids                                                            *)

LEMMA IdsOfSeq ==
  ASSUME NEW S, NEW s \in Seq(S), Missing \notin Seq(S)
  PROVE  Ids(s) = {s[k] : k \in 1 .. Len(s)}
<1>1. s # Missing /\ DOMAIN s = 1 .. Len(s)
  OBVIOUS
<1> QED BY <1>1, Zenon DEF Ids

LEMMA IdsOfAppend ==
  ASSUME NEW S, NEW s \in Seq(S), NEW e \in S, Missing \notin Seq(S)
  PROVE  Ids(Append(s, e)) = Ids(s) \cup {e}
<1>1. Append(s, e) \in Seq(S)
  OBVIOUS
<1>2. /\ Ids(s) = {s[k] : k \in 1 .. Len(s)}
      /\ Ids(Append(s, e)) = {Append(s, e)[k] : k \in 1 .. Len(s) + 1}
  <2>1. Len(Append(s, e)) = Len(s) + 1
    OBVIOUS
  <2> QED BY <1>1, <2>1, IdsOfSeq
<1>3. /\ Len(s) \in Nat
      /\ Append(s, e)[Len(s) + 1] = e
      /\ \A k \in 1 .. Len(s) : Append(s, e)[k] = s[k]
  OBVIOUS
<1>4. 1 .. Len(s) + 1 = (1 .. Len(s)) \cup {Len(s) + 1}
  BY <1>3
<1> QED BY <1>2, <1>3, <1>4, Zenon

\* A list that names nothing twice, if there is one.
Once(list) == list # Missing => \A j, k \in DOMAIN list : list[j] = list[k] => j = k

LEMMA NothingListed ==
  /\ Once(<<>>) /\ Ids(<<>>) = {}
  /\ Once(Missing) /\ Ids(Missing) = {}
  BY DEF Once, Ids

LEMMA AppendOnce ==
  ASSUME NEW S, NEW list \in Seq(S), Once(list), NEW i \in S, i \notin Ids(list),
         Missing \notin Seq(S)
  PROVE  Once(Append(list, i)) /\ Ids(Append(list, i)) = Ids(list) \cup {i}
<1>1. Ids(Append(list, i)) = Ids(list) \cup {i} /\ Ids(list) = {list[k] : k \in 1 .. Len(list)}
  BY IdsOfAppend, IdsOfSeq
<1>2. \A k \in 1 .. Len(list) : list[k] # i
  BY <1>1
<1>3. /\ DOMAIN Append(list, i) = 1 .. Len(list) + 1 /\ DOMAIN list = 1 .. Len(list)
      /\ Append(list, i)[Len(list) + 1] = i /\ Len(list) \in Nat
      /\ \A k \in 1 .. Len(list) : Append(list, i)[k] = list[k]
  OBVIOUS
<1>4. \A k \in 1 .. Len(list) + 1 : k \in 1 .. Len(list) \/ k = Len(list) + 1
  BY <1>3
<1>5. \A j, k \in 1 .. Len(list) : list[j] = list[k] => j = k
  BY <1>3 DEF Once
<1>6. \A j, k \in DOMAIN Append(list, i) : Append(list, i)[j] = Append(list, i)[k] => j = k
  BY <1>2, <1>3, <1>4, <1>5, Zenon
<1> QED BY <1>1, <1>6 DEF Once

-----------------------------------------------------------------------------
(* Unsent writes and requests                                              *)

LEMMA ConcatPair ==
  ASSUME NEW S, NEW s \in Seq(S), NEW t \in Seq(S), Len(t) = 2
  PROVE  /\ Len(s \o t) = Len(s) + 2
         /\ DOMAIN (s \o t) = 1 .. Len(s) + 2
         /\ DOMAIN s = 1 .. Len(s)
         /\ \A k \in 1 .. Len(s) : (s \o t)[k] = s[k]
         /\ (s \o t)[Len(s) + 1] = t[1]
         /\ (s \o t)[Len(s) + 2] = t[2]
<1>1. Len(s) \in Nat /\ DOMAIN s = 1 .. Len(s)
  OBVIOUS
<1>2. /\ s \o t \in Seq(S) /\ Len(s \o t) = Len(s) + 2
      /\ \A k \in 1 .. Len(s) + 2 :
           (s \o t)[k] = IF k <= Len(s) THEN s[k] ELSE t[k - Len(s)]
  <2>1. /\ s \o t \in Seq(S) /\ Len(s \o t) = Len(s) + Len(t)
        /\ \A k \in 1 .. Len(s) + Len(t) :
             (s \o t)[k] = IF k <= Len(s) THEN s[k] ELSE t[k - Len(s)]
    BY ConcatProperties, Zenon
  <2> QED BY <2>1, Zenon
<1>3. DOMAIN (s \o t) = 1 .. Len(s) + 2
  BY <1>2
<1> QED BY <1>1, <1>2, <1>3

LEMMA TailShift ==
  ASSUME NEW S, NEW s \in Seq(S), s # <<>>
  PROVE  /\ 1 \in DOMAIN s /\ Head(s) = s[1]
         /\ Len(Tail(s)) = Len(s) - 1
         /\ \A k \in DOMAIN Tail(s) :
              k \in Nat /\ k + 1 \in DOMAIN s /\ Tail(s)[k] = s[k + 1]
  OBVIOUS

LEMMA RemoveAtType ==
  ASSUME NEW S, NEW s \in Seq(S), NEW k \in DOMAIN s
  PROVE  RemoveAt(s, k) \in Seq(S)
BY DEF RemoveAt

\* What is left once the first request is answered.
LEMMA AskedTail ==
  ASSUME NEW S, NEW asked \in Seq(S), asked # <<>>
  PROVE  /\ RemoveAt(asked, 1) \in Seq(S)
         /\ Len(RemoveAt(asked, 1)) = Len(asked) - 1
         /\ \A k \in DOMAIN RemoveAt(asked, 1) :
              k + 1 \in DOMAIN asked /\ RemoveAt(asked, 1)[k] = asked[k + 1]
<1>1. SubSeq(asked, 1, 1 - 1) = <<>>
  BY SubSeqEmpty
<1>2. Tail(asked) = SubSeq(asked, 1 + 1, Len(asked)) /\ Tail(asked) \in Seq(S)
  BY TailIsSubSeq, HeadTailProperties
<1>3. RemoveAt(asked, 1) = <<>> \o Tail(asked)
  BY <1>1, <1>2 DEF RemoveAt
<1>4. RemoveAt(asked, 1) = Tail(asked)
  BY <1>2, <1>3, ConcatEmptySeq
<1> QED BY <1>4, HeadTailProperties

=============================================================================
