---------------------------- MODULE ProfileProofs ----------------------------
(***************************************************************************)
(* Proofs about AddEntry and Profile, the screen a new item is entered on  *)
(* and the one it is shown on, for every set of devices, users and items.  *)
(*                                                                         *)
(* Of AddEntry:                                                            *)
(*  - its types, and that a list never names an item the database does not *)
(*    hold;                                                                *)
(*  - no save takes an item off a list, and AddEntry implements WishList,  *)
(*    if users wait for their list before they save and no account is      *)
(*    signed in on two devices; without either TLC finds a counterexample; *)
(*  - no item gets on a list twice or on the lists of two users, without   *)
(*    either condition and however old the copy a save starts from.        *)
(*                                                                         *)
(* Of Profile: that the two screens together do only what AddEntry allows, *)
(* so that all that is proved of AddEntry holds of them, and that the      *)
(* profile shows the latest list once its answers are in.                  *)
(***************************************************************************)
EXTENDS Profile, FirebaseProofs, FiniteSetTheorems


-----------------------------------------------------------------------------
(* Types                                                                   *)

LEMMA ItemListSeenType ==
  ASSUME FirebaseTypeOK, NEW d \in Device, NEW u \in Uid
  PROVE  ItemListSeen(d, u) \in Seq(ItemId) \cup {Missing}
<1>1. CASE LatestWrite(d, u, "itemList") = {}
  BY <1>1 DEF ItemListSeen, Seen, FirebaseTypeOK, Record
<1>2. CASE LatestWrite(d, u, "itemList") # {}
  <2> DEFINE i == CHOOSE k \in LatestWrite(d, u, "itemList") : TRUE
             w == pending[d][i]
  <2>1. i \in DOMAIN pending[d]
    BY <1>2 DEF LatestWrite
  <2>2. w \in Write
    BY <2>1 DEF FirebaseTypeOK
  <2>3. ItemListSeen(d, u) = IF w.node = "itemList" THEN w.value ELSE Missing
    BY <1>2 DEF ItemListSeen, Seen
  <2> QED BY <2>2, <2>3, WriteNodes
<1> QED BY <1>1, <1>2

LEMMA AddItemType ==
  ASSUME TypeOK, NEW d \in Device, NEW i \in ItemId, currentUser[d] \in Uid
  PROVE  AddItem(d, i) \in Seq(Write)
<1>1. Append(entry[d].itemIds, i) \in Seq(ItemId)
  BY DEF TypeOK, Entry
<1> QED BY <1>1 DEF AddItem, Write, ItemWrite, ItemListWrite

\* The user does not change, and the screen is only opened by a user.
SignedIn ==
  /\ currentUser = Account
  /\ \A d \in Device : entry[d].load = "waiting" => entry[d].uid \in Uid

LEMMA EntryLoaded ==
  ASSUME NEW e \in Entry, NEW list \in Seq(ItemId)
  PROVE  /\ [e EXCEPT !.load = "done"] \in Entry
         /\ [e EXCEPT !.load = "done", !.itemIds = list] \in Entry
         /\ [e EXCEPT !.load = "done"].load = "done"
         /\ [e EXCEPT !.load = "done", !.itemIds = list].load = "done"
  BY DEF Entry

LEMMA CrashType ==
  ASSUME TypeOK, SignedIn, NEW d \in Device, Crash(d)
  PROVE  TypeOK' /\ SignedIn'
<1>1. FirebaseTypeOK'
  BY DEF TypeOK, FirebaseTypeOK, Crash, ProcessDies
<1>2. Closed \in Entry
  BY DEF Closed, Entry
<1>3. entry' \in [Device -> Entry] /\ strays' \in [Device -> SUBSET Uid]
  BY <1>2 DEF TypeOK, Crash
<1>4. SignedIn'
  BY DEF SignedIn, TypeOK, Crash, ProcessDies, Closed
<1> QED BY <1>1, <1>3, <1>4 DEF TypeOK, Crash

LEMMA LeaveType ==
  ASSUME TypeOK, SignedIn, NEW d \in Device, Leave(d),
         UNCHANGED currentUser
  PROVE  /\ entry' \in [Device -> Entry]
         /\ strays' \in [Device -> SUBSET Uid]
         /\ SignedIn'
<1>1. Closed \in Entry
  BY DEF Closed, Entry
<1>2. entry' \in [Device -> Entry]
  BY <1>1 DEF TypeOK, Leave
<1>3. strays' \in [Device -> SUBSET Uid]
  BY DEF TypeOK, SignedIn, Leave
<1>4. SignedIn'
  BY DEF TypeOK, SignedIn, Leave, Closed
<1> QED BY <1>2, <1>3, <1>4

LEMMA TypeStep ==
  ASSUME TypeOK, SignedIn, [Next]_vars
  PROVE  TypeOK' /\ SignedIn'
<1> USE DEF TypeOK, FirebaseTypeOK, SignedIn, addEntryVars, firebaseVars
<1>1. ASSUME NEW d \in Device, Open(d)
      PROVE  TypeOK' /\ SignedIn'
  BY <1>1 DEF Open, Entry
<1>2. ASSUME NEW d \in Device, Save(d)
      PROVE  TypeOK' /\ SignedIn'
  <2>1. PICK i \in ItemId \ minted :
          Issue(d, AddItem(d, i)) /\ minted' = minted \cup {i}
    BY <1>2 DEF Save
  <2>2. currentUser[d] \in Uid
    BY AddEntryAssumption
  <2>3. pending' \in [Device -> Seq(Write)]
    BY <2>1, <2>2, AddItemType, IssueType
  <2>4. /\ entry' \in [Device -> Entry]
        /\ strays' \in [Device -> SUBSET Uid]
        /\ SignedIn'
    BY <1>2, LeaveType DEF Save
  <2> QED BY <1>2, <2>1, <2>3, <2>4 DEF Save
<1>3. ASSUME NEW d \in Device, Back(d)
      PROVE  TypeOK' /\ SignedIn'
  <2>1. /\ entry' \in [Device -> Entry]
        /\ strays' \in [Device -> SUBSET Uid]
        /\ SignedIn'
    BY <1>3, LeaveType DEF Back
  <2> QED BY <1>3, <2>1 DEF Back
<1>4. ASSUME NEW d \in Device, LoadNothing(d)
      PROVE  TypeOK' /\ SignedIn'
  <2> DEFINE e == [entry[d] EXCEPT !.load = "done"]
  <2>1. e \in Entry /\ e.load = "done"
    <3>1. entry[d] \in Entry /\ entry[d].itemIds \in Seq(ItemId)
      BY DEF Entry
    <3> QED BY <3>1, EntryLoaded
  <2>2. entry' = [entry EXCEPT ![d] = e] /\ UNCHANGED currentUser
    BY <1>4 DEF LoadNothing
  <2> HIDE DEF e
  <2>3. entry' \in [Device -> Entry] /\ SignedIn'
    BY <2>1, <2>2
  <2> QED BY <1>4, <2>3 DEF LoadNothing
<1>5. ASSUME NEW d \in Device, LoadItemIds(d)
      PROVE  TypeOK' /\ SignedIn'
  <2>1. ItemListSeen(d, entry[d].uid) \in Seq(ItemId)
    BY <1>5, ItemListSeenType DEF LoadItemIds, Waiting
  <2> DEFINE e == [entry[d] EXCEPT
                     !.load = "done", !.itemIds = ItemListSeen(d, entry[d].uid)]
  <2>2. e \in Entry /\ e.load = "done"
    BY <2>1, EntryLoaded
  <2>3. entry' = [entry EXCEPT ![d] = e] /\ UNCHANGED currentUser
    BY <1>5 DEF LoadItemIds
  <2> HIDE DEF e
  <2>4. entry' \in [Device -> Entry] /\ SignedIn'
    BY <2>2, <2>3
  <2> QED BY <1>5, <2>4 DEF LoadItemIds
<1>6. ASSUME NEW d \in Device, LoadTraps(d)
      PROVE  TypeOK' /\ SignedIn'
  BY <1>6, CrashType DEF LoadTraps, Trap
<1>7. ASSUME NEW d \in Device, NEW u \in Uid, StrayIsIdle(d, u)
      PROVE  TypeOK' /\ SignedIn'
  BY <1>7 DEF StrayIsIdle
<1>8. ASSUME NEW d \in Device, NEW u \in Uid, StrayTraps(d, u)
      PROVE  TypeOK' /\ SignedIn'
  BY <1>8, CrashType DEF StrayTraps, Trap
<1>9. ASSUME NEW d \in Device, Send(d)
      PROVE  TypeOK' /\ SignedIn'
  BY <1>9, CommitType DEF Send, Commit
<1>10. ASSUME NEW d \in Device, Kill(d)
       PROVE  TypeOK' /\ SignedIn'
  BY <1>10, CrashType DEF Kill
<1>11. ASSUME NEW d \in Device, Launch(d)
       PROVE  TypeOK' /\ SignedIn'
  BY <1>11 DEF Launch, ProcessStarts
<1>12. CASE UNCHANGED vars
  BY <1>12 DEF vars
<1> QED BY <1>1, <1>2, <1>3, <1>4, <1>5, <1>6, <1>7, <1>8, <1>9, <1>10,
           <1>11, <1>12 DEF Next, Answer

LEMMA TypeInit == Init => TypeOK /\ SignedIn
  BY AddEntryAssumption, FirebaseAssumption
  DEF Init, TypeOK, FirebaseTypeOK, Closed, Entry, SignedIn, Ids, Record

\* Every variable keeps its type: what AddEntryVC writes to the users node are
\* records in the shape the other screens read back.
THEOREM TypeCorrect == Spec => []TypeOK
<1>1. Spec => [](TypeOK /\ SignedIn)
  BY TypeInit, TypeStep, PTL DEF Spec
<1> QED BY <1>1, PTL

-----------------------------------------------------------------------------
(* A list never names an item that is not there                            *)

ListWrites(d) == {k \in DOMAIN pending[d] : pending[d][k].node = "itemList"}

\* The items d will have sent when it sends its k-th unsent write.
ItemsBefore(d, k) ==
  {pending[d][j].id : j \in {m \in DOMAIN pending[d] :
                               m < k /\ pending[d][m].node = "items"}}

\* What a list names is on the server when the list gets there: the items of
\* the lists on the way are there or are sent before them, and the list a
\* screen keeps, which the next list is made from, names items the client has
\* written or seen.
NamedFirst(d) ==
  /\ \A k \in ListWrites(d) :
       Ids(pending[d][k].value) \subseteq items \cup ItemsBefore(d, k)
  /\ Ids(entry[d].itemIds) \subseteq ItemsSeen(d)

NamedItemsComeFirst ==
  /\ ListedItemsExist
  /\ \A d \in Device : NamedFirst(d)

LEMMA OthersKeepNamed ==
  ASSUME NEW d \in Device, NamedFirst(d), items \subseteq items',
         UNCHANGED <<pending[d], entry[d]>>
  PROVE  NamedFirst(d)'
<1>1. /\ ListWrites(d)' = ListWrites(d)
      /\ UnsentItems(d)' = UnsentItems(d)
      /\ ItemsSeen(d) \subseteq ItemsSeen(d)'
  BY DEF ListWrites, UnsentItems, ItemsSeen
<1>2. ASSUME NEW k \in ListWrites(d)
      PROVE  Ids(pending'[d][k].value) \subseteq items' \cup ItemsBefore(d, k)'
  <2>1. ItemsBefore(d, k)' = ItemsBefore(d, k)
    BY DEF ItemsBefore
  <2> QED BY <2>1 DEF NamedFirst
<1> QED BY <1>1, <1>2 DEF NamedFirst

\* What a device sees of a list is what the server has or what a write says.
LEMMA SeenIsWritten ==
  ASSUME TypeOK, NEW d \in Device, NEW u \in Uid,
         ItemListSeen(d, u) # Missing
  PROVE  \/ ItemListSeen(d, u) = users[u].itemList
         \/ \E k \in ListWrites(d) : ItemListSeen(d, u) = pending[d][k].value
<1>1. CASE LatestWrite(d, u, "itemList") = {}
  BY <1>1 DEF ItemListSeen, Seen
<1>2. CASE LatestWrite(d, u, "itemList") # {}
  <2> DEFINE i == CHOOSE k \in LatestWrite(d, u, "itemList") : TRUE
  <2>1. i \in DOMAIN pending[d]
    BY <1>2 DEF LatestWrite
  <2>2. /\ pending[d][i].node = "itemList"
        /\ ItemListSeen(d, u) = pending[d][i].value
    BY <1>2 DEF ItemListSeen, Seen
  <2> QED BY <2>1, <2>2 DEF ListWrites
<1> QED BY <1>1, <1>2

LEMMA ItemsBeforeAreSeen ==
  ASSUME NEW d \in Device, NEW k
  PROVE  items \cup ItemsBefore(d, k) \subseteq ItemsSeen(d)
  BY DEF ItemsBefore, ItemsSeen, UnsentItems

LEMMA SeenItemsExist ==
  ASSUME TypeOK, NamedItemsComeFirst, NEW d \in Device, NEW u \in Uid,
         ItemListSeen(d, u) # Missing
  PROVE  Ids(ItemListSeen(d, u)) \subseteq ItemsSeen(d)
<1>1. CASE ItemListSeen(d, u) = users[u].itemList
  BY <1>1 DEF NamedItemsComeFirst, ListedItemsExist, ItemsSeen
<1>2. CASE \E k \in ListWrites(d) : ItemListSeen(d, u) = pending[d][k].value
  BY <1>2, ItemsBeforeAreSeen DEF NamedItemsComeFirst, NamedFirst
<1> QED BY <1>1, <1>2, SeenIsWritten

LEMMA CrashKeepsNamed ==
  ASSUME TypeOK, NamedItemsComeFirst, NEW d \in Device, Crash(d)
  PROVE  NamedItemsComeFirst'
<1>1. /\ UNCHANGED <<users, items>>
      /\ pending' = [pending EXCEPT ![d] = <<>>]
      /\ entry' = [entry EXCEPT ![d] = Closed]
  BY DEF Crash, ProcessDies
<1>2. ListedItemsExist'
  BY <1>1 DEF NamedItemsComeFirst, ListedItemsExist
<1>3. ASSUME NEW e \in Device
      PROVE  NamedFirst(e)'
  <2>1. CASE e = d
    <3>1. pending'[d] = <<>> /\ entry'[d].itemIds = <<>>
      BY <1>1 DEF TypeOK, FirebaseTypeOK, Closed
    <3>2. Ids(<<>>) = {}
      BY DEF Ids
    <3> QED BY <2>1, <3>1, <3>2 DEF NamedFirst, ListWrites
  <2>2. CASE e # d
    <3>1. pending'[e] = pending[e] /\ entry'[e] = entry[e]
      BY <1>1, <2>2 DEF TypeOK, FirebaseTypeOK
    <3> QED BY <1>1, <3>1, OthersKeepNamed DEF NamedItemsComeFirst
  <2> QED BY <2>1, <2>2
<1> QED BY <1>2, <1>3 DEF NamedItemsComeFirst

\* An item that is sent is still seen.
LEMMA SendKeepsItemsSeen ==
  ASSUME TypeOK, NEW d \in Device, Send(d)
  PROVE  ItemsSeen(d) \subseteq ItemsSeen(d)'
<1> DEFINE w == Head(pending[d])
<1>1. /\ pending[d] \in Seq(Write) /\ pending[d] # <<>> /\ w = pending[d][1]
      /\ pending'[d] = Tail(pending[d])
      /\ items' = IF w.node = "items" THEN items \cup {w.id} ELSE items
  BY DEF Send, Commit, TypeOK, FirebaseTypeOK
<1>2. ASSUME NEW j \in DOMAIN pending[d], pending[d][j].node = "items"
      PROVE  pending[d][j].id \in ItemsSeen(d)'
  <2>1. CASE j = 1
    BY <1>1, <1>2, <2>1 DEF ItemsSeen
  <2>2. CASE j # 1
    <3>1. j - 1 \in DOMAIN pending'[d] /\ pending'[d][j - 1] = pending[d][j]
      BY <1>1, <2>2
    <3> QED BY <1>2, <3>1 DEF ItemsSeen, UnsentItems
  <2> QED BY <2>1, <2>2
<1> QED BY <1>1, <1>2 DEF ItemsSeen, UnsentItems

\* The list a commit puts on the server names items that are there.
LEMMA SendKeepsNamed ==
  ASSUME TypeOK, NamedItemsComeFirst, NEW d \in Device, Send(d)
  PROVE  NamedItemsComeFirst'
<1> DEFINE w == Head(pending[d])
<1>1. /\ pending[d] \in Seq(Write) /\ pending[d] # <<>>
      /\ w = pending[d][1] /\ 1 \in DOMAIN pending[d] /\ w \in Write
      /\ entry' = entry
      /\ pending' = [pending EXCEPT ![d] = Tail(@)]
      /\ users' = [u \in Uid |-> Written(w, u, users[u])]
      /\ items' = IF w.node = "items" THEN items \cup {w.id} ELSE items
  BY DEF Send, Commit, addEntryVars, TypeOK, FirebaseTypeOK
<1>2. items \subseteq items'
  BY <1>1
<1>3. /\ Len(pending[d]) \in Nat \ {0}
      /\ DOMAIN pending[d] = 1 .. Len(pending[d])
      /\ DOMAIN pending'[d] = 1 .. Len(pending[d]) - 1
      /\ \A k \in DOMAIN pending'[d] :
           /\ k + 1 \in DOMAIN pending[d]
           /\ pending'[d][k] = pending[d][k + 1]
  BY <1>1 DEF TypeOK, FirebaseTypeOK
<1>4. ItemsBefore(d, 1) = {}
  BY <1>3 DEF ItemsBefore
<1>5. w.node = "itemList" => Ids(w.value) \subseteq items
  BY <1>1, <1>4 DEF NamedItemsComeFirst, NamedFirst, ListWrites
<1>6. ListedItemsExist'
  <2>1. ASSUME NEW u \in Uid
        PROVE  Ids(users'[u].itemList) \subseteq items
    <3>1. /\ users'[u] = Written(w, u, users[u])
          /\ users[u] \in Record
          /\ Ids(users[u].itemList) \subseteq items
      BY <1>1 DEF TypeOK, FirebaseTypeOK, NamedItemsComeFirst, ListedItemsExist
    <3>2. \/ users'[u].itemList = users[u].itemList
          \/ users'[u].itemList = Missing
          \/ w.node = "itemList" /\ users'[u].itemList = w.value
      BY <3>1, <1>1, WriteNodes DEF Written, Record
    <3>3. Ids(Missing) = {}
      BY DEF Ids
    <3> QED BY <3>1, <3>2, <3>3, <1>5
  <2> QED BY <2>1, <1>2 DEF ListedItemsExist
<1>7. items \cup ItemsBefore(d, 2) \subseteq items'
  <2>1. ASSUME NEW j \in DOMAIN pending[d], j < 2
        PROVE  j = 1
    BY <2>1, <1>3
  <2> QED BY <2>1, <1>1 DEF ItemsBefore
<1>8. ASSUME NEW k \in DOMAIN pending'[d]
      PROVE  items \cup ItemsBefore(d, k + 1) \subseteq items' \cup ItemsBefore(d, k)'
  <2>1. ASSUME NEW j \in DOMAIN pending[d], j < k + 1,
               pending[d][j].node = "items"
        PROVE  pending[d][j].id \in items' \cup ItemsBefore(d, k)'
    <3>1. CASE j = 1
      BY <3>1, <2>1, <1>1
    <3>2. CASE j # 1
      <4>1. /\ j - 1 \in DOMAIN pending'[d] /\ j - 1 < k
            /\ pending'[d][j - 1] = pending[d][j]
        BY <3>2, <2>1, <1>3, SMTT(20)
      <4> QED BY <4>1, <2>1 DEF ItemsBefore
    <3> QED BY <3>1, <3>2
  <2> QED BY <2>1, <1>2 DEF ItemsBefore
<1>9. ASSUME NEW k \in ListWrites(d)'
      PROVE  Ids(pending'[d][k].value) \subseteq items' \cup ItemsBefore(d, k)'
  <2>1. k \in DOMAIN pending'[d] /\ k + 1 \in ListWrites(d)
    BY <1>3 DEF ListWrites
  <2>2. Ids(pending[d][k + 1].value) \subseteq items \cup ItemsBefore(d, k + 1)
    BY <2>1 DEF NamedItemsComeFirst, NamedFirst
  <2> QED BY <2>1, <2>2, <1>3, <1>8
<1>10. ItemsSeen(d) \subseteq ItemsSeen(d)'
  BY SendKeepsItemsSeen
<1>11. ASSUME NEW e \in Device
       PROVE  NamedFirst(e)'
  <2>1. CASE e = d
    <3>1. Ids(entry'[d].itemIds) \subseteq ItemsSeen(d)'
      BY <1>1, <1>10 DEF NamedItemsComeFirst, NamedFirst
    <3> QED BY <2>1, <3>1, <1>9 DEF NamedFirst
  <2>2. CASE e # d
    <3>1. pending'[e] = pending[e]
      BY <1>1, <2>2 DEF TypeOK, FirebaseTypeOK
    <3> QED BY <1>1, <1>2, <3>1, OthersKeepNamed DEF NamedItemsComeFirst
  <2> QED BY <2>1, <2>2
<1> QED BY <1>6, <1>11 DEF NamedItemsComeFirst

\* Save names the new item, whose write goes first, and items it has seen.
LEMMA SaveKeepsNamed ==
  ASSUME TypeOK, NamedItemsComeFirst, NEW d \in Device, Save(d),
         currentUser[d] \in Uid
  PROVE  NamedItemsComeFirst'
<1> DEFINE old == pending[d]
<1>0. PICK n : n = Len(old)
  OBVIOUS
<1>1. PICK i \in ItemId \ minted : Issue(d, AddItem(d, i))
  BY DEF Save
<1> DEFINE list == Append(entry[d].itemIds, i)
<1>2. /\ UNCHANGED <<users, items>>
      /\ pending' = [pending EXCEPT ![d] = @ \o AddItem(d, i)]
      /\ entry' = [entry EXCEPT ![d] = Closed]
  BY <1>1 DEF Issue, Save, Leave
<1>3. /\ old \in Seq(Write) /\ n \in Nat
      /\ AddItem(d, i) \in Seq(Write) /\ Len(AddItem(d, i)) = 2
      /\ pending'[d] = old \o AddItem(d, i)
  <2>1. AddItem(d, i) \in Seq(Write)
    BY AddItemType
  <2>2. Len(AddItem(d, i)) = 2
    BY DEF AddItem
  <2>3. pending \in [Device -> Seq(Write)]
    BY DEF TypeOK, FirebaseTypeOK
  <2> QED BY <2>1, <2>2, <2>3, <1>0, <1>2
<1>4. /\ DOMAIN pending'[d] = 1 .. n + 2
      /\ DOMAIN old = 1 .. n
      /\ \A k \in 1 .. n : pending'[d][k] = old[k]
      /\ pending'[d][n + 1] = AddItem(d, i)[1]
      /\ pending'[d][n + 2] = AddItem(d, i)[2]
  BY <1>0, <1>3, ConcatPair
<1>5. /\ pending'[d][n + 1].node = "items"
      /\ pending'[d][n + 1].id = i
      /\ pending'[d][n + 2].node = "itemList"
      /\ pending'[d][n + 2].value = list
  BY <1>4 DEF AddItem
<1>6. ASSUME NEW k \in 1 .. n + 2
      PROVE  ItemsBefore(d, k) \subseteq ItemsBefore(d, k)'
  <2>1. ASSUME NEW j \in DOMAIN old, j < k, old[j].node = "items"
        PROVE  old[j].id \in ItemsBefore(d, k)'
    <3>1. j \in DOMAIN pending'[d] /\ pending'[d][j] = old[j]
      BY <1>3, <1>4
    <3> QED BY <2>1, <3>1 DEF ItemsBefore
  <2> QED BY <2>1 DEF ItemsBefore
<1>7. ItemsSeen(d) \cup {i} \subseteq items' \cup ItemsBefore(d, n + 2)'
  <2>1. ASSUME NEW j \in DOMAIN old, old[j].node = "items"
        PROVE  old[j].id \in ItemsBefore(d, n + 2)'
    <3>1. /\ j \in DOMAIN pending'[d] /\ pending'[d][j] = old[j]
          /\ j < n + 2
      BY <1>3, <1>4
    <3> QED BY <2>1, <3>1 DEF ItemsBefore
  <2>2. i \in ItemsBefore(d, n + 2)'
    <3>1. n + 1 \in DOMAIN pending'[d] /\ n + 1 < n + 2
      BY <1>3, <1>4
    <3> QED BY <3>1, <1>5 DEF ItemsBefore
  <2> QED BY <2>1, <2>2, <1>2 DEF ItemsSeen, UnsentItems
<1>8. Ids(list) \subseteq ItemsSeen(d) \cup {i}
  <2>1. entry[d].itemIds \in Seq(ItemId)
    BY DEF TypeOK, Entry
  <2>2. Ids(list) = Ids(entry[d].itemIds) \cup {i}
    BY <2>1, FirebaseAssumption, IdsOfAppend
  <2> QED BY <2>2 DEF NamedItemsComeFirst, NamedFirst
<1>9. ASSUME NEW k \in ListWrites(d)'
      PROVE  Ids(pending'[d][k].value) \subseteq items' \cup ItemsBefore(d, k)'
  <2>1. CASE k \in 1 .. n
    <3>1. k \in ListWrites(d) /\ pending'[d][k] = old[k] /\ k \in 1 .. n + 2
      BY <2>1, <1>3, <1>4 DEF ListWrites
    <3> QED BY <3>1, <1>2, <1>6 DEF NamedItemsComeFirst, NamedFirst
  <2>2. CASE k = n + 2
    BY <2>2, <1>5, <1>7, <1>8
  <2>3. CASE k = n + 1
    BY <2>3, <1>5 DEF ListWrites
  <2>4. k \in 1 .. n + 2
    BY <1>4 DEF ListWrites
  <2>5. n \in Nat
    BY <1>3
  <2>6. k \in 1 .. n \/ k = n + 1 \/ k = n + 2
    BY ONLY <2>4, <2>5
  <2> QED BY <2>1, <2>2, <2>3, <2>6
<1>10. ASSUME NEW e \in Device
       PROVE  NamedFirst(e)'
  <2>1. CASE e = d
    <3>1. entry'[d].itemIds = <<>>
      BY <1>2 DEF TypeOK, Closed
    <3>2. Ids(<<>>) = {}
      BY DEF Ids
    <3> QED BY <2>1, <1>9, <3>1, <3>2 DEF NamedFirst
  <2>2. CASE e # d
    <3>1. pending'[e] = pending[e] /\ entry'[e] = entry[e]
      BY <1>2, <2>2 DEF TypeOK, FirebaseTypeOK
    <3> QED BY <1>2, <3>1, OthersKeepNamed DEF NamedItemsComeFirst
  <2> QED BY <2>1, <2>2
<1> QED BY <1>2, <1>10 DEF NamedItemsComeFirst, ListedItemsExist

\* The steps that write nothing only matter if the kept list changes.
LEMMA QuietKeepsNamed ==
  ASSUME NamedItemsComeFirst, UNCHANGED <<users, items, pending>>,
         \A d \in Device : Ids(entry'[d].itemIds) \subseteq ItemsSeen(d)
  PROVE  NamedItemsComeFirst'
<1>1. ListedItemsExist'
  BY DEF NamedItemsComeFirst, ListedItemsExist
<1>2. ASSUME NEW d \in Device
      PROVE  NamedFirst(d)'
  <2>1. ListWrites(d)' = ListWrites(d) /\ ItemsSeen(d)' = ItemsSeen(d)
    BY DEF ListWrites, ItemsSeen, UnsentItems
  <2>2. ASSUME NEW k \in ListWrites(d)
        PROVE  Ids(pending'[d][k].value) \subseteq items' \cup ItemsBefore(d, k)'
    BY DEF NamedItemsComeFirst, NamedFirst, ItemsBefore
  <2> QED BY <2>1, <2>2 DEF NamedFirst
<1> QED BY <1>1, <1>2 DEF NamedItemsComeFirst

LEMMA NamedStep ==
  ASSUME TypeOK, SignedIn, NamedItemsComeFirst, [Next]_vars
  PROVE  NamedItemsComeFirst'
<1> USE DEF firebaseVars
<1>1. Ids(Closed.itemIds) = {}
  BY DEF Closed, Ids
<1>2. \A d \in Device : Ids(entry[d].itemIds) \subseteq ItemsSeen(d)
  BY DEF NamedItemsComeFirst, NamedFirst
<1>3. ASSUME NEW d \in Device, Open(d)
      PROVE  NamedItemsComeFirst'
  <2>1. entry'[d].itemIds = <<>> /\ Ids(<<>>) = {}
    BY <1>3 DEF Open, TypeOK, Ids
  <2>2. \A e \in Device : e # d => entry'[e] = entry[e]
    BY <1>3 DEF Open, TypeOK
  <2> QED BY <1>2, <1>3, <2>1, <2>2, QuietKeepsNamed DEF Open
<1>4. ASSUME NEW d \in Device, Save(d)
      PROVE  NamedItemsComeFirst'
  <2>1. currentUser[d] \in Uid
    BY AddEntryAssumption DEF SignedIn
  <2> QED BY <1>4, <2>1, SaveKeepsNamed
<1>5. ASSUME NEW d \in Device, Back(d)
      PROVE  NamedItemsComeFirst'
  <2>1. \A e \in Device : entry'[e] = IF e = d THEN Closed ELSE entry[e]
    BY <1>5 DEF Back, Leave, TypeOK
  <2> QED BY <1>1, <1>2, <1>5, <2>1, QuietKeepsNamed DEF Back
<1>6. ASSUME NEW d \in Device, LoadNothing(d)
      PROVE  NamedItemsComeFirst'
  <2>1. \A e \in Device : entry'[e].itemIds = entry[e].itemIds
    BY <1>6 DEF LoadNothing, TypeOK, Entry
  <2> QED BY <1>2, <1>6, <2>1, QuietKeepsNamed DEF LoadNothing
<1>7. ASSUME NEW d \in Device, LoadItemIds(d)
      PROVE  NamedItemsComeFirst'
  <2>1. /\ entry[d].uid \in Uid
        /\ ItemListSeen(d, entry[d].uid) # Missing
    BY <1>7 DEF LoadItemIds, Waiting, SignedIn
  <2>2. Ids(ItemListSeen(d, entry[d].uid)) \subseteq ItemsSeen(d)
    BY <2>1, SeenItemsExist
  <2>3. entry'[d].itemIds = ItemListSeen(d, entry[d].uid)
    BY <1>7 DEF LoadItemIds, TypeOK, Entry
  <2>4. \A e \in Device : e # d => entry'[e] = entry[e]
    BY <1>7 DEF LoadItemIds, TypeOK
  <2> QED BY <1>2, <1>7, <2>2, <2>3, <2>4, QuietKeepsNamed DEF LoadItemIds
<1>8. ASSUME NEW d \in Device, Crash(d)
      PROVE  NamedItemsComeFirst'
  BY <1>8, CrashKeepsNamed
<1>9. ASSUME NEW d \in Device, NEW u \in Uid, StrayIsIdle(d, u)
      PROVE  NamedItemsComeFirst'
  BY <1>2, <1>9, QuietKeepsNamed DEF StrayIsIdle
<1>10. ASSUME NEW d \in Device, Send(d)
       PROVE  NamedItemsComeFirst'
  BY <1>10, SendKeepsNamed
<1>11. ASSUME NEW d \in Device, Launch(d)
       PROVE  NamedItemsComeFirst'
  BY <1>2, <1>11, QuietKeepsNamed DEF Launch, ProcessStarts, addEntryVars
<1>12. CASE UNCHANGED vars
  BY <1>2, <1>12, QuietKeepsNamed DEF vars, addEntryVars
<1> QED BY <1>3, <1>4, <1>5, <1>6, <1>7, <1>8, <1>9, <1>10, <1>11, <1>12
        DEF Next, Answer, LoadTraps, StrayTraps, Trap, Kill

LEMMA NamedInit ==
  ASSUME Init
  PROVE  NamedItemsComeFirst
<1>1. ListedItemsExist
  BY DEF Init, ListedItemsExist
<1>2. \A d \in Device : ListWrites(d) = {} /\ Ids(entry[d].itemIds) = {}
  BY DEF Init, ListWrites, Closed, Ids
<1> QED BY <1>1, <1>2 DEF NamedItemsComeFirst, NamedFirst

\* Whatever the interleaving of saves, answers, sends and deaths on any number
\* of devices, shared accounts and impatient users included, a list on the
\* server names only items that are on the server.
THEOREM ListedItemsAlwaysExist == Spec => []ListedItemsExist
<1>1. Init => NamedItemsComeFirst
  BY NamedInit
<1>2. TypeOK /\ SignedIn /\ NamedItemsComeFirst /\ [Next]_vars
        => NamedItemsComeFirst'
  BY NamedStep
<1>3. Spec => []SignedIn
  BY TypeStep, TypeInit, PTL DEF Spec
<1>4. NamedItemsComeFirst => ListedItemsExist
  BY DEF NamedItemsComeFirst
<1> QED BY <1>1, <1>2, <1>3, <1>4, TypeCorrect, PTL DEF Spec


-----------------------------------------------------------------------------
(* Lists only grow: the lists on the way from a device form a chain, the   *)
(* list on the server, the unsent ones in their order, the kept one.       *)

AccountsExclusive ==
  \A d, e \in Device : Account[d] = Account[e] => d = e

ServerIds(d) == Ids(users[Account[d]].itemList)

OwnWrites(d) ==
  \A k \in DOMAIN pending[d] :
    /\ pending[d][k].node \in {"items", "itemList"}
    /\ pending[d][k].node = "itemList" => pending[d][k].uid = Account[d]

EndsWithList(d) == pending[d] # <<>> => Len(pending[d]) \in ListWrites(d)

Chain(d) ==
  /\ \A k \in ListWrites(d) : ServerIds(d) \subseteq Ids(pending[d][k].value)
  /\ \A j, k \in ListWrites(d) :
       j < k => Ids(pending[d][j].value) \subseteq Ids(pending[d][k].value)

KeptIsLatest(d) ==
  /\ entry[d].load # "none" => entry[d].uid = Account[d]
  /\ entry[d].load = "done" =>
       /\ ServerIds(d) \subseteq Ids(entry[d].itemIds)
       /\ \A k \in ListWrites(d) :
            Ids(pending[d][k].value) \subseteq Ids(entry[d].itemIds)

\* The inductive invariant, for one device.
Chained(d) ==
  /\ OwnWrites(d)
  /\ EndsWithList(d)
  /\ Chain(d)
  /\ KeptIsLatest(d)

AllChained == \A d \in Device : Chained(d)

-----------------------------------------------------------------------------
\* A device whose list writes all concern its account sees its latest write,
\* or the server's list if it has none.
LEMMA OwnListSeen ==
  ASSUME TypeOK, NEW d \in Device, OwnWrites(d), EndsWithList(d)
  PROVE  ItemListSeen(d, Account[d]) =
           IF pending[d] = <<>> THEN users[Account[d]].itemList
                                ELSE pending[d][Len(pending[d])].value
<1> DEFINE u == Account[d]
           n == Len(pending[d])
<1>1. CASE pending[d] = <<>>
  <2>1. LatestWrite(d, u, "itemList") = {}
    BY <1>1 DEF LatestWrite
  <2> QED BY <1>1, <2>1 DEF ItemListSeen, Seen
<1>2. CASE pending[d] # <<>>
  <2>1. /\ n \in DOMAIN pending[d]
        /\ pending[d][n].node = "itemList"
        /\ pending[d][n].uid = u
    BY <1>2 DEF EndsWithList, ListWrites, OwnWrites
  <2>2. pending[d] \in Seq(Write) /\ DOMAIN pending[d] = 1 .. n /\ n \in Nat
    BY DEF TypeOK, FirebaseTypeOK
  <2>3. Overwrites(pending[d][n], u, "itemList")
    BY <2>1 DEF Overwrites
  <2>4. \A j \in DOMAIN pending[d] : ~(j > n)
    BY <2>2
  <2>5. \A i \in DOMAIN pending[d] : i # n => n > i
    BY <2>2
  <2>6. n \in LatestWrite(d, u, "itemList")
    BY <2>1, <2>3, <2>4 DEF LatestWrite
  <2>7. \A i \in LatestWrite(d, u, "itemList") : i = n
    BY <2>1, <2>3, <2>5 DEF LatestWrite
  <2>8. (CHOOSE i \in LatestWrite(d, u, "itemList") : TRUE) = n
    BY <2>6, <2>7
  <2> QED BY <1>2, <2>1, <2>6, <2>8 DEF ItemListSeen, Seen
<1> QED BY <1>1, <1>2

\* Whatever the chain holds, the list a device sees holds.
LEMMA SeenIsLatest ==
  ASSUME TypeOK, NEW d \in Device, Chained(d)
  PROVE  /\ ServerIds(d) \subseteq Ids(ItemListSeen(d, Account[d]))
         /\ \A k \in ListWrites(d) :
              Ids(pending[d][k].value)
                \subseteq Ids(ItemListSeen(d, Account[d]))
<1>1. CASE pending[d] = <<>>
  BY <1>1, OwnListSeen DEF Chained, ServerIds, ListWrites
<1>2. CASE pending[d] # <<>>
  <2> DEFINE n == Len(pending[d])
  <2>1. n \in ListWrites(d)
    BY <1>2 DEF Chained, EndsWithList
  <2>2. ItemListSeen(d, Account[d]) = pending[d][n].value
    BY <1>2, OwnListSeen DEF Chained
  <2>3. pending[d] \in Seq(Write)
    BY DEF TypeOK, FirebaseTypeOK
  <2>4. \A k \in ListWrites(d) : k = n \/ k < n
    BY <2>3 DEF ListWrites
  <2> QED BY <2>1, <2>2, <2>4 DEF Chained, Chain
<1> QED BY <1>1, <1>2

\* If a device sees no users node, there is no list it could lose.
LEMMA NothingToLose ==
  ASSUME TypeOK, NEW d \in Device, Chained(d), UsersSeen(d) = {}
  PROVE  ServerIds(d) = {} /\ ListWrites(d) = {}
<1>1. Account[d] \in Uid
  BY AddEntryAssumption
<1>2. ItemListSeen(d, Account[d]) = Missing
  BY <1>1 DEF UsersSeen, RecordSeen, EmptyRecord
<1>3. pending[d] = <<>>
  <2>1. SUFFICES ASSUME pending[d] # <<>> PROVE FALSE
    OBVIOUS
  <2>2. Len(pending[d]) \in ListWrites(d)
    BY <2>1 DEF Chained, EndsWithList
  <2>3. pending[d][Len(pending[d])] \in Write
    BY <2>2 DEF ListWrites, TypeOK, FirebaseTypeOK
  <2>4. pending[d][Len(pending[d])].value \in Seq(ItemId)
    BY <2>2, <2>3, WriteNodes DEF ListWrites
  <2> QED BY <1>2, <2>1, <2>4, OwnListSeen, FirebaseAssumption DEF Chained
<1>4. users[Account[d]].itemList = Missing
  BY <1>2, <1>3, OwnListSeen DEF Chained
<1> QED BY <1>3, <1>4 DEF ServerIds, ListWrites, Ids

-----------------------------------------------------------------------------
(* The steps                                                               *)

\* A step of another device, or of the screen alone.
LEMMA UntouchedStaysChained ==
  ASSUME NEW d \in Device, Chained(d),
         UNCHANGED <<pending[d], users[Account[d]], entry[d]>>
  PROVE  Chained(d)'
<1>1. ListWrites(d)' = ListWrites(d) /\ ServerIds(d)' = ServerIds(d)
  BY DEF ListWrites, ServerIds
<1>2. OwnWrites(d)' /\ EndsWithList(d)'
  BY <1>1 DEF Chained, OwnWrites, EndsWithList
<1>3. Chain(d)' /\ KeptIsLatest(d)'
  BY <1>1 DEF Chained, Chain, KeptIsLatest
<1> QED BY <1>2, <1>3 DEF Chained

LEMMA ScreenStaysChained ==
  ASSUME NEW d \in Device, Chained(d),
         UNCHANGED <<pending[d], users[Account[d]]>>, KeptIsLatest(d)'
  PROVE  Chained(d)'
<1>1. ListWrites(d)' = ListWrites(d) /\ ServerIds(d)' = ServerIds(d)
  BY DEF ListWrites, ServerIds
<1>2. OwnWrites(d)' /\ EndsWithList(d)' /\ Chain(d)'
  BY <1>1 DEF Chained, OwnWrites, EndsWithList, Chain
<1> QED BY <1>2 DEF Chained

LEMMA CrashStaysChained ==
  ASSUME TypeOK, NEW d \in Device, Crash(d)
  PROVE  Chained(d)'
<1>1. pending'[d] = <<>> /\ entry'[d] = Closed
  BY DEF Crash, ProcessDies, TypeOK, FirebaseTypeOK
<1>2. Closed.load = "none" /\ DOMAIN <<>> = {}
  BY DEF Closed
<1> QED BY <1>1, <1>2
        DEF Chained, OwnWrites, EndsWithList, Chain, KeptIsLatest, ListWrites

\* Save puts a longer list at the end of the chain.
LEMMA SaveStaysChained ==
  ASSUME TypeOK, SignedIn, Patient, NEW d \in Device, Chained(d), Save(d)
  PROVE  Chained(d)'
<1>0. PICK n : n = Len(pending[d])
  OBVIOUS
<1>1. PICK i \in ItemId \ minted : Issue(d, AddItem(d, i))
  BY DEF Save
<1>2. PICK list : list = Append(entry[d].itemIds, i)
  OBVIOUS
<1>3. /\ UNCHANGED users
      /\ pending' = [pending EXCEPT ![d] = @ \o AddItem(d, i)]
      /\ entry'[d] = Closed
      /\ entry[d].load = "done"
  BY <1>1 DEF Issue, Save, Leave, TypeOK
<1>4. /\ pending[d] \in Seq(Write) /\ n \in Nat
      /\ AddItem(d, i) \in Seq(Write) /\ Len(AddItem(d, i)) = 2
      /\ pending'[d] = pending[d] \o AddItem(d, i)
  <2>1. AddItem(d, i) \in Seq(Write)
    BY AddEntryAssumption, AddItemType DEF SignedIn
  <2>2. Len(AddItem(d, i)) = 2
    BY DEF AddItem
  <2>3. pending \in [Device -> Seq(Write)]
    BY DEF TypeOK, FirebaseTypeOK
  <2> QED BY <2>1, <2>2, <2>3, <1>0, <1>3
<1>5. /\ DOMAIN pending'[d] = 1 .. n + 2
      /\ DOMAIN pending[d] = 1 .. n
      /\ \A k \in 1 .. n : pending'[d][k] = pending[d][k]
      /\ pending'[d][n + 1] = AddItem(d, i)[1]
      /\ pending'[d][n + 2] = AddItem(d, i)[2]
  BY <1>0, <1>4, ConcatPair
<1>6. /\ pending'[d][n + 1].node = "items"
      /\ pending'[d][n + 2].node = "itemList"
      /\ pending'[d][n + 2].uid = Account[d]
      /\ pending'[d][n + 2].value = list
  BY <1>2, <1>5 DEF AddItem, SignedIn
<1>7. \A k \in 1 .. n + 2 : k \in 1 .. n \/ k = n + 1 \/ k = n + 2
  BY <1>4
<1>8. OwnWrites(d)'
  BY <1>5, <1>6, <1>7 DEF Chained, OwnWrites
<1>9. ListWrites(d)' = ListWrites(d) \cup {n + 2}
  BY <1>4, <1>5, <1>6, <1>7 DEF ListWrites
<1>10. EndsWithList(d)'
  <2>1. Len(pending'[d]) = n + 2
    BY <1>0, <1>4, ConcatPair
  <2> QED BY <2>1, <1>9 DEF EndsWithList
<1>11. Ids(entry[d].itemIds) \subseteq Ids(list)
  <2>1. entry[d].itemIds \in Seq(ItemId)
    BY DEF TypeOK, Entry
  <2> QED BY <2>1, <1>2, FirebaseAssumption, IdsOfAppend
<1>12. /\ ServerIds(d) \subseteq Ids(list)
       /\ \A k \in ListWrites(d) : Ids(pending[d][k].value) \subseteq Ids(list)
  BY <1>3, <1>11 DEF Chained, KeptIsLatest
<1>13. Chain(d)'
  <2>1. \A k \in ListWrites(d) :
          k \in 1 .. n /\ k < n + 2 /\ pending'[d][k] = pending[d][k]
    BY <1>4, <1>5 DEF ListWrites
  <2>2. ServerIds(d)' = ServerIds(d)
    BY <1>3 DEF ServerIds
  <2>3. ASSUME NEW k \in ListWrites(d)'
        PROVE  ServerIds(d)' \subseteq Ids(pending'[d][k].value)
    BY <1>6, <1>9, <1>12, <2>1, <2>2 DEF Chained, Chain
  <2>4. ASSUME NEW j \in ListWrites(d)', NEW k \in ListWrites(d)', j < k
        PROVE  Ids(pending'[d][j].value) \subseteq Ids(pending'[d][k].value)
    <3>1. CASE k \in ListWrites(d)
      <4>1. j # n + 2
        BY <3>1, <2>1, <2>4, <1>4
      <4>2. j \in ListWrites(d)
        BY <4>1, <1>9
      <4> QED BY <3>1, <4>2, <2>1, <2>4 DEF Chained, Chain
    <3>2. CASE k = n + 2 /\ j \in ListWrites(d)
      BY <3>2, <2>1, <1>6, <1>12
    <3>3. CASE k = n + 2 /\ j = n + 2
      BY <3>3
    <3> QED BY <3>1, <3>2, <3>3, <1>9
  <2> QED BY <2>3, <2>4 DEF Chain
<1>14. KeptIsLatest(d)'
  BY <1>3 DEF KeptIsLatest, Closed
<1> QED BY <1>8, <1>10, <1>13, <1>14 DEF Chained

\* Send moves the first list of the chain to the server.
LEMMA SendStaysChained ==
  ASSUME TypeOK, NEW d \in Device, Chained(d), Send(d)
  PROVE  Chained(d)'
<1> DEFINE w == pending[d][1]
<1>1. /\ pending[d] \in Seq(Write) /\ pending[d] # <<>>
      /\ entry' = entry
      /\ pending'[d] = Tail(pending[d])
      /\ users' = [u \in Uid |-> Written(w, u, users[u])]
      /\ Account[d] \in Uid
  <2>1. pending[d] \in Seq(Write) /\ pending[d] # <<>>
    BY DEF Send, Commit, TypeOK, FirebaseTypeOK
  <2>2. Head(pending[d]) = w
    BY <2>1, TailShift
  <2> QED BY <2>1, <2>2, AddEntryAssumption
          DEF Send, Commit, addEntryVars, TypeOK, FirebaseTypeOK
<1>2. /\ 1 \in DOMAIN pending[d]
      /\ Len(pending'[d]) = Len(pending[d]) - 1
      /\ \A k \in DOMAIN pending'[d] :
           /\ k \in Nat /\ k + 1 \in DOMAIN pending[d]
           /\ pending'[d][k] = pending[d][k + 1]
  BY <1>1, TailShift
<1>3. \A k \in ListWrites(d)' :
        /\ k \in Nat /\ k + 1 \in ListWrites(d)
        /\ pending'[d][k] = pending[d][k + 1]
  BY <1>2 DEF ListWrites
<1>4. \/ ServerIds(d)' = ServerIds(d)
      \/ 1 \in ListWrites(d) /\ ServerIds(d)' = Ids(w.value)
  <2>1. /\ w.node \in {"items", "itemList"}
        /\ users[Account[d]] \in Record
    BY <1>1, <1>2 DEF Chained, OwnWrites, TypeOK, FirebaseTypeOK
  <2>2. \/ users'[Account[d]].itemList = users[Account[d]].itemList
        \/ w.node = "itemList" /\ users'[Account[d]].itemList = w.value
    BY <1>1, <2>1 DEF Written, Record
  <2> QED BY <1>2, <2>2 DEF ServerIds, ListWrites
<1>5. OwnWrites(d)'
  BY <1>2 DEF Chained, OwnWrites
<1>6. EndsWithList(d)'
  <2>1. SUFFICES ASSUME pending'[d] # <<>>
                 PROVE  Len(pending'[d]) \in ListWrites(d)'
    BY DEF EndsWithList
  <2>2. Len(pending[d]) \in ListWrites(d)
    BY <1>1 DEF Chained, EndsWithList
  <2>3. pending'[d] \in Seq(Write)
    BY <1>1
  <2>4. Len(pending'[d]) \in DOMAIN pending'[d]
    BY <2>1, <2>3
  <2>5. pending'[d][Len(pending'[d])] = pending[d][Len(pending[d])]
    BY <1>1, <1>2, <2>4
  <2> QED BY <2>2, <2>4, <2>5 DEF ListWrites
<1>7. ASSUME NEW k \in ListWrites(d)'
      PROVE  ServerIds(d)' \subseteq Ids(pending'[d][k].value)
  <2>1. /\ 1 < k + 1 /\ k + 1 \in ListWrites(d)
        /\ pending'[d][k] = pending[d][k + 1]
    <3>1. k \in DOMAIN pending'[d] /\ pending'[d] \in Seq(Write)
      BY <1>1 DEF ListWrites
    <3>2. k >= 1
      BY <3>1
    <3> QED BY <1>3, <3>2
  <2> QED BY <2>1, <1>4 DEF Chained, Chain
<1>8. Chain(d)'
  <2>1. ASSUME NEW j \in ListWrites(d)', NEW k \in ListWrites(d)', j < k
        PROVE  Ids(pending'[d][j].value) \subseteq Ids(pending'[d][k].value)
    <3>1. j + 1 < k + 1
      BY <1>3, <2>1
    <3> QED BY <1>3, <3>1 DEF Chained, Chain
  <2> QED BY <1>7, <2>1 DEF Chain
<1>9. KeptIsLatest(d)'
  BY <1>1, <1>3, <1>4 DEF Chained, KeptIsLatest
<1> QED BY <1>5, <1>6, <1>8, <1>9 DEF Chained

\* ... and leaves the accounts of other devices alone.
LEMMA SendLeavesOthers ==
  ASSUME TypeOK, NEW d \in Device, Chained(d), Send(d), AccountsExclusive,
         NEW e \in Device, e # d
  PROVE  UNCHANGED <<pending[e], users[Account[e]], entry[e]>>
<1> DEFINE w == Head(pending[d])
<1>1. /\ pending[d] \in Seq(Write) /\ pending[d] # <<>>
      /\ UNCHANGED <<pending[e], entry[e]>>
      /\ users'[Account[e]] = Written(w, Account[e], users[Account[e]])
  BY AddEntryAssumption
  DEF Send, Commit, addEntryVars, TypeOK, FirebaseTypeOK
<1>2. 1 \in DOMAIN pending[d] /\ w = pending[d][1]
  BY <1>1, TailShift
<1>3. w.node = "items" \/ w.uid # Account[e]
  BY <1>2 DEF Chained, OwnWrites, AccountsExclusive
<1> QED BY <1>1, <1>3 DEF Written

LEMMA ChainedStep ==
  ASSUME TypeOK, SignedIn, Patient, AccountsExclusive, AllChained, [Next]_vars
  PROVE  AllChained'
<1> USE DEF firebaseVars, AllChained
<1>1. ASSUME NEW d \in Device, NEW e \in Device, e # d,
             \/ Open(d) \/ Save(d) \/ Back(d) \/ LoadNothing(d)
             \/ LoadItemIds(d) \/ Crash(d)
      PROVE  Chained(e)'
  <2>1. UNCHANGED <<pending[e], users[Account[e]], entry[e]>>
    BY <1>1 DEF Open, Save, Issue, Back, Leave, LoadNothing, LoadItemIds,
                Crash, ProcessDies, TypeOK, FirebaseTypeOK
  <2> QED BY <2>1, UntouchedStaysChained
<1>2. ASSUME NEW d \in Device, Open(d)
      PROVE  AllChained'
  <2>1. entry'[d].load = "waiting" /\ entry'[d].uid = Account[d]
    BY <1>2 DEF Open, TypeOK, SignedIn
  <2>2. KeptIsLatest(d)'
    BY <2>1 DEF KeptIsLatest
  <2>3. Chained(d)'
    BY <1>2, <2>2, ScreenStaysChained DEF Open
  <2> QED BY <1>1, <1>2, <2>3
<1>3. ASSUME NEW d \in Device, Save(d)
      PROVE  AllChained'
  BY <1>1, <1>3, SaveStaysChained
<1>4. ASSUME NEW d \in Device, Back(d)
      PROVE  AllChained'
  <2>1. entry'[d].load = "none"
    BY <1>4 DEF Back, Leave, Closed, TypeOK
  <2>2. KeptIsLatest(d)'
    BY <2>1 DEF KeptIsLatest
  <2>3. Chained(d)'
    BY <1>4, <2>2, ScreenStaysChained DEF Back
  <2> QED BY <1>1, <1>4, <2>3
<1>5. ASSUME NEW d \in Device, LoadNothing(d)
      PROVE  AllChained'
  <2>1. ServerIds(d) = {} /\ ListWrites(d) = {}
    BY <1>5, NothingToLose DEF LoadNothing
  <2>2. entry'[d].uid = Account[d]
    BY <1>5 DEF LoadNothing, Waiting, TypeOK, Entry, Chained, KeptIsLatest
  <2>3. ServerIds(d)' = ServerIds(d) /\ ListWrites(d)' = ListWrites(d)
    BY <1>5 DEF LoadNothing, ServerIds, ListWrites
  <2>4. KeptIsLatest(d)'
    BY <2>1, <2>2, <2>3 DEF KeptIsLatest
  <2>5. Chained(d)'
    BY <1>5, <2>4, ScreenStaysChained DEF LoadNothing
  <2> QED BY <1>1, <1>5, <2>5
<1>6. ASSUME NEW d \in Device, LoadItemIds(d)
      PROVE  AllChained'
  <2>1. entry[d].uid = Account[d]
    BY <1>6 DEF LoadItemIds, Waiting, Chained, KeptIsLatest
  <2>2. /\ entry'[d].uid = Account[d]
        /\ entry'[d].itemIds = ItemListSeen(d, Account[d])
    BY <1>6, <2>1 DEF LoadItemIds, TypeOK, Entry
  <2>3. ServerIds(d)' = ServerIds(d) /\ ListWrites(d)' = ListWrites(d)
    BY <1>6 DEF LoadItemIds, ServerIds, ListWrites
  <2>4. pending' = pending
    BY <1>6 DEF LoadItemIds
  <2>5. KeptIsLatest(d)'
    BY <2>2, <2>3, <2>4, SeenIsLatest DEF KeptIsLatest
  <2>6. Chained(d)'
    BY <1>6, <2>5, ScreenStaysChained DEF LoadItemIds
  <2> QED BY <1>1, <1>6, <2>6
<1>7. ASSUME NEW d \in Device, Crash(d)
      PROVE  AllChained'
  BY <1>1, <1>7, CrashStaysChained
<1>8. ASSUME NEW d \in Device, NEW u \in Uid, StrayIsIdle(d, u)
      PROVE  AllChained'
  BY <1>8, UntouchedStaysChained DEF StrayIsIdle
<1>9. ASSUME NEW d \in Device, Send(d)
      PROVE  AllChained'
  <2>1. ASSUME NEW e \in Device, e # d
        PROVE  Chained(e)'
    BY <1>9, <2>1, SendLeavesOthers, UntouchedStaysChained
  <2> QED BY <1>9, <2>1, SendStaysChained
<1>10. ASSUME NEW d \in Device, Launch(d)
       PROVE  AllChained'
  BY <1>10, UntouchedStaysChained DEF Launch, ProcessStarts, addEntryVars
<1>11. CASE UNCHANGED vars
  BY <1>11, UntouchedStaysChained DEF vars, addEntryVars
<1> QED BY <1>2, <1>3, <1>4, <1>5, <1>6, <1>7, <1>8, <1>9, <1>10, <1>11
        DEF Next, Answer, LoadTraps, StrayTraps, Trap, Kill

\* Only Send changes a list on the server, and the list it puts there is the
\* first of the chain that starts with the list it replaces.
LEMMA GrowthStep ==
  ASSUME TypeOK, AllChained, [Next]_vars, NEW u \in Uid
  PROVE  Ids(users[u].itemList) \subseteq Ids(users'[u].itemList)
<1>1. ASSUME NEW d \in Device, Send(d)
      PROVE  Ids(users[u].itemList) \subseteq Ids(users'[u].itemList)
  <2> DEFINE w == pending[d][1]
  <2>1. /\ pending[d] \in Seq(Write) /\ pending[d] # <<>>
        /\ users[u] \in Record
    BY <1>1 DEF Send, Commit, TypeOK, FirebaseTypeOK
  <2>2. 1 \in DOMAIN pending[d] /\ Head(pending[d]) = w
    BY <2>1, TailShift
  <2>3. users'[u] = Written(w, u, users[u])
    BY <1>1, <2>2 DEF Send, Commit
  <2>4. /\ w.node \in {"items", "itemList"}
        /\ w.node = "itemList" => w.uid = Account[d]
    BY <2>2 DEF AllChained, Chained, OwnWrites
  <2>5. CASE w.node = "itemList" /\ u = Account[d]
    <3>1. Ids(users[u].itemList) \subseteq Ids(w.value)
      BY <2>2, <2>5 DEF AllChained, Chained, Chain, ServerIds, ListWrites
    <3>2. users'[u].itemList = w.value
      BY <2>1, <2>3, <2>4, <2>5 DEF Written, Record
    <3> QED BY <3>1, <3>2
  <2>6. CASE w.node = "items" \/ u # Account[d]
    BY <2>3, <2>4, <2>6 DEF Written
  <2> QED BY <2>4, <2>5, <2>6
<1>2. CASE UNCHANGED users
  BY <1>2
<1>3. UNCHANGED users \/ \E d \in Device : Send(d)
  BY DEF Next, vars, firebaseVars, Open, Save, Back, Answer, LoadNothing,
         LoadItemIds, LoadTraps, StrayIsIdle, StrayTraps, Trap, Kill, Crash,
         ProcessDies, Launch, ProcessStarts
<1> QED BY <1>1, <1>2, <1>3

\* If users wait for their list and no account is signed in on two devices,
\* no interleaving of saves, answers, sends and deaths takes an item off a
\* list, although every save writes the whole list over.
THEOREM SavesOnlyAdd ==
  ASSUME Patient, AccountsExclusive
  PROVE  Spec => WishlistGrows
<1>1. Init => AllChained
  <2>1. ASSUME Init, NEW d \in Device
        PROVE  Chained(d)
    <3>1. pending[d] = <<>> /\ entry[d].load = "none"
      BY <2>1 DEF Init, Closed
    <3> QED BY <3>1 DEF Chained, OwnWrites, EndsWithList, Chain,
                        KeptIsLatest, ListWrites
  <2> QED BY <2>1 DEF AllChained
<1>2. TypeOK /\ SignedIn /\ AllChained /\ [Next]_vars => AllChained'
  BY ChainedStep
<1>3. TypeOK /\ AllChained /\ [Next]_vars
        => [\A u \in Uid :
              Ids(users[u].itemList) \subseteq Ids(users'[u].itemList)]_vars
  BY GrowthStep
<1>4. Spec => [](TypeOK /\ SignedIn)
  BY TypeInit, TypeStep, PTL DEF Spec
<1> QED BY <1>1, <1>2, <1>3, <1>4, PTL DEF Spec, WishlistGrows

-----------------------------------------------------------------------------
(* No item is listed twice                                                 *)

WritesOf(d, u) == {k \in ListWrites(d) : pending[d][k].uid = u}

ListsOf(u) ==
  {users[u].itemList}
    \cup {entry[d].itemIds : d \in {e \in Device : Account[e] = u}}
    \cup UNION {{pending[d][k].value : k \in WritesOf(d, u)} : d \in Device}

\* The inductive invariant: lists of two users share no item, no list repeats
\* one, and the key of the next item is on none.
ListedApart ==
  /\ \A u \in Uid : \A list \in ListsOf(u) : Once(list) /\ Ids(list) \subseteq minted
  /\ \A u, v \in Uid :
       u # v => \A list \in ListsOf(u), other \in ListsOf(v) : Ids(list) \cap Ids(other) = {}
  /\ \A d \in Device : entry[d].load = "waiting" => entry[d].uid = Account[d]

\* What the app finds at the start lists each item once.
FoundListedOnce ==
  \A db \in InitialUsers : \A u, v \in {w \in Uid : db[w].itemList # Missing} :
    \A j \in DOMAIN db[u].itemList, k \in DOMAIN db[v].itemList :
      db[u].itemList[j] = db[v].itemList[k] => u = v /\ j = k

LEMMA ListOfUser ==
  ASSUME NEW u, NEW list
  PROVE  list \in ListsOf(u) <=>
           \/ list = users[u].itemList
           \/ \E d \in Device : Account[d] = u /\ list = entry[d].itemIds
           \/ \E d \in Device : \E k \in ListWrites(d) :
                pending[d][k].uid = u /\ list = pending[d][k].value
  BY DEF ListsOf, WritesOf

LEMMA ListOfUserPrime ==
  ASSUME NEW u, NEW list
  PROVE  list \in ListsOf(u)' <=>
           \/ list = users'[u].itemList
           \/ \E d \in Device : Account[d] = u /\ list = entry'[d].itemIds
           \/ \E d \in Device : \E k \in ListWrites(d)' :
                pending'[d][k].uid = u /\ list = pending'[d][k].value
  BY DEF ListsOf, WritesOf

\* What a device sees of a list is one of the lists there are.
LEMMA SeenIsListed ==
  ASSUME TypeOK, NEW d \in Device, NEW u \in Uid
  PROVE  ItemListSeen(d, u) \in ListsOf(u) \cup {Missing}
<1>1. CASE LatestWrite(d, u, "itemList") = {}
  BY <1>1, ListOfUser DEF ItemListSeen, Seen
<1>2. CASE LatestWrite(d, u, "itemList") # {}
  <2>1. PICK k : k = (CHOOSE i \in LatestWrite(d, u, "itemList") : TRUE)
    OBVIOUS
  <2>2. k \in DOMAIN pending[d] /\ Overwrites(pending[d][k], u, "itemList")
    BY <1>2, <2>1 DEF LatestWrite
  <2>3. ItemListSeen(d, u) =
          IF pending[d][k].node = "itemList" THEN pending[d][k].value ELSE Missing
    BY <1>2, <2>1 DEF ItemListSeen, Seen
  <2>4. pending[d][k].uid = u
    BY <2>2 DEF Overwrites
  <2> QED BY <2>2, <2>3, <2>4, ListOfUser DEF ListWrites
<1> QED BY <1>1, <1>2

\* A step that makes no new list keeps them apart.
LEMMA OldListsApart ==
  ASSUME ListedApart, minted \subseteq minted',
         \A u \in Uid : ListsOf(u)' \subseteq ListsOf(u) \cup {<<>>, Missing},
         \A d \in Device : entry'[d].load = "waiting" => entry'[d].uid = Account[d]
  PROVE  ListedApart'
<1>1. ASSUME NEW u \in Uid, NEW list \in ListsOf(u)'
      PROVE  Once(list) /\ Ids(list) \subseteq minted'
  BY NothingListed DEF ListedApart
<1>2. ASSUME NEW u \in Uid, NEW v \in Uid, u # v,
             NEW list \in ListsOf(u)', NEW other \in ListsOf(v)'
      PROVE  Ids(list) \cap Ids(other) = {}
  <2>1. CASE list \in ListsOf(u) /\ other \in ListsOf(v)
    BY <1>2, <2>1 DEF ListedApart
  <2>2. CASE ~(list \in ListsOf(u) /\ other \in ListsOf(v))
    <3>1. list \in {<<>>, Missing} \/ other \in {<<>>, Missing}
      BY <2>2
    <3> QED BY <3>1, NothingListed
  <2> QED BY <2>1, <2>2
<1> QED BY <1>1, <1>2 DEF ListedApart

\* ... and so does one that appends a new key to a list.
LEMMA NewListApart ==
  ASSUME ListedApart, NEW d \in Device, NEW i \in ItemId \ minted, minted' = minted \cup {i},
         NEW new, Once(new), NEW old \in ListsOf(Account[d]), Ids(new) = Ids(old) \cup {i},
         \A u \in Uid : ListsOf(u)' \subseteq ListsOf(u) \cup {<<>>}
                          \cup IF u = Account[d] THEN {new} ELSE {},
         \A e \in Device : entry'[e].load = "waiting" => entry'[e].uid = Account[e]
  PROVE  ListedApart'
<1>0. Account[d] \in Uid
  BY AddEntryAssumption
<1>1. \A list \in ListsOf(Account[d]) : Ids(list) \subseteq minted
  BY <1>0 DEF ListedApart
<1>2. ASSUME NEW u \in Uid, NEW list \in ListsOf(u)'
      PROVE  Once(list) /\ Ids(list) \subseteq minted'
  <2>1. CASE list = new /\ u = Account[d]
    BY <2>1, <1>1
  <2>2. CASE list \in ListsOf(u) \cup {<<>>}
    BY <2>2, NothingListed DEF ListedApart
  <2> QED BY <2>1, <2>2
<1>3. ASSUME NEW u \in Uid, NEW v \in Uid, u # v, u = Account[d], NEW other \in ListsOf(v)
      PROVE  Ids(new) \cap Ids(other) = {}
  <2>1. Ids(old) \cap Ids(other) = {} /\ Ids(other) \subseteq minted
    BY <1>3 DEF ListedApart
  <2> QED BY <2>1
<1>4. ASSUME NEW u \in Uid, NEW v \in Uid, u # v,
             NEW list \in ListsOf(u)', NEW other \in ListsOf(v)'
      PROVE  Ids(list) \cap Ids(other) = {}
  <2>1. /\ list \in ListsOf(u) \cup {<<>>} \/ (list = new /\ u = Account[d])
        /\ other \in ListsOf(v) \cup {<<>>} \/ (other = new /\ v = Account[d])
    OBVIOUS
  <2>2. CASE list \in ListsOf(u) /\ other \in ListsOf(v)
    BY <1>4, <2>2 DEF ListedApart
  <2>3. CASE list = <<>> \/ other = <<>>
    BY <2>3, NothingListed
  <2>4. CASE list = new /\ u = Account[d] /\ other \in ListsOf(v)
    BY <1>3, <1>4, <2>4
  <2>5. CASE other = new /\ v = Account[d] /\ list \in ListsOf(u)
    BY <1>3, <1>4, <2>5
  <2> QED BY <1>4, <2>1, <2>2, <2>3, <2>4, <2>5
<1> QED BY <1>2, <1>4 DEF ListedApart

\* The lists after a step that leaves the users node and the unsent writes.
LEMMA KeptLists ==
  ASSUME UNCHANGED <<users, pending>>,
         \A d \in Device : entry'[d].itemIds \in ListsOf(Account[d]) \cup {<<>>}
  PROVE  \A u \in Uid : ListsOf(u)' \subseteq ListsOf(u) \cup {<<>>, Missing}
<1> SUFFICES ASSUME NEW u \in Uid, NEW list \in ListsOf(u)'
             PROVE  list \in ListsOf(u) \cup {<<>>}
  OBVIOUS
<1>1. \A d \in Device : ListWrites(d)' = ListWrites(d)
  BY DEF ListWrites
<1> QED BY <1>1, ListOfUser, ListOfUserPrime

\* The process dies and takes lists with it.
LEMMA CrashKeepsApart ==
  ASSUME TypeOK, ListedApart, NEW d \in Device, Crash(d)
  PROVE  ListedApart'
<1>1. /\ users' = users /\ minted' = minted
      /\ pending'[d] = <<>> /\ \A e \in Device \ {d} : pending'[e] = pending[e]
      /\ entry'[d] = Closed /\ \A e \in Device \ {d} : entry'[e] = entry[e]
  BY DEF Crash, ProcessDies, TypeOK, FirebaseTypeOK
<1>2. Closed.itemIds = <<>> /\ Closed.load = "none"
  BY DEF Closed
<1>3. ASSUME NEW e \in Device, NEW k \in ListWrites(e)'
      PROVE  k \in ListWrites(e) /\ pending'[e][k] = pending[e][k]
  BY <1>1 DEF ListWrites
<1>4. ASSUME NEW u \in Uid, NEW list \in ListsOf(u)'
      PROVE  list \in ListsOf(u) \cup {<<>>}
  <2>1. CASE list = users'[u].itemList
    BY <1>1, <2>1, ListOfUser
  <2>2. ASSUME NEW e \in Device, Account[e] = u, list = entry'[e].itemIds
        PROVE  list \in ListsOf(u) \cup {<<>>}
    BY <1>1, <1>2, <2>2, ListOfUser
  <2>3. ASSUME NEW e \in Device, NEW k \in ListWrites(e)',
               pending'[e][k].uid = u, list = pending'[e][k].value
        PROVE  list \in ListsOf(u) \cup {<<>>}
    BY <1>3, <2>3, ListOfUser
  <2> QED BY <2>1, <2>2, <2>3, ListOfUserPrime
<1>5. \A e \in Device : entry'[e].load = "waiting" => entry'[e].uid = Account[e]
  BY <1>1, <1>2 DEF ListedApart
<1> QED BY <1>1, <1>4, <1>5, OldListsApart

\* A list that gets to the server was on its way before.
LEMMA SendKeepsApart ==
  ASSUME TypeOK, ListedApart, NEW d \in Device, Send(d)
  PROVE  ListedApart'
<1> DEFINE w == pending[d][1]
<1>1. /\ pending[d] \in Seq(Write) /\ pending[d] # <<>>
      /\ UNCHANGED <<entry, minted>>
      /\ pending'[d] = Tail(pending[d]) /\ \A e \in Device \ {d} : pending'[e] = pending[e]
      /\ users' = [u \in Uid |-> Written(Head(pending[d]), u, users[u])]
  BY DEF Send, Commit, addEntryVars, TypeOK, FirebaseTypeOK
<1>2. /\ 1 \in DOMAIN pending[d] /\ Head(pending[d]) = w /\ w \in Write
      /\ \A k \in DOMAIN pending'[d] :
           k + 1 \in DOMAIN pending[d] /\ pending'[d][k] = pending[d][k + 1]
  BY <1>1, TailShift
<1>3. ASSUME NEW e \in Device, NEW k \in ListWrites(e)'
      PROVE  \E j \in ListWrites(e) : pending'[e][k] = pending[e][j]
  <2>1. k \in DOMAIN pending'[e] /\ pending'[e][k].node = "itemList"
    BY <1>3 DEF ListWrites
  <2>2. CASE e = d
    <3>1. k + 1 \in DOMAIN pending[d] /\ pending'[d][k] = pending[d][k + 1]
      BY <1>2, <2>1, <2>2
    <3> QED BY <2>1, <2>2, <3>1 DEF ListWrites
  <2>3. CASE e # d
    BY <1>1, <2>1, <2>3 DEF ListWrites
  <2> QED BY <2>2, <2>3
<1>4. ASSUME NEW u \in Uid
      PROVE  users'[u].itemList \in ListsOf(u) \cup {Missing}
  <2>1. users'[u] = Written(w, u, users[u]) /\ users[u] \in Record
    BY <1>1, <1>2 DEF TypeOK, FirebaseTypeOK
  <2>2. \/ users'[u].itemList = users[u].itemList
        \/ users'[u].itemList = Missing
        \/ w.node = "itemList" /\ w.uid = u /\ users'[u].itemList = w.value
    BY <1>2, <2>1, WriteNodes DEF Written, Record
  <2> QED BY <1>2, <2>2, ListOfUser DEF ListWrites
<1>5. ASSUME NEW u \in Uid, NEW list \in ListsOf(u)'
      PROVE  list \in ListsOf(u) \cup {Missing}
  <2>1. ASSUME NEW e \in Device, NEW k \in ListWrites(e)',
               pending'[e][k].uid = u, list = pending'[e][k].value
        PROVE  list \in ListsOf(u)
    <3>1. PICK j \in ListWrites(e) : pending'[e][k] = pending[e][j]
      BY <1>3
    <3>2. pending[e][j].uid = u /\ list = pending[e][j].value
      BY <2>1, <3>1
    <3> QED BY <3>2, ListOfUser
  <2>2. ASSUME NEW e \in Device, Account[e] = u, list = entry'[e].itemIds
        PROVE  list \in ListsOf(u)
    BY <1>1, <2>2, ListOfUser
  <2> QED BY <1>4, <2>1, <2>2, ListOfUserPrime
<1> QED BY <1>1, <1>5, OldListsApart DEF ListedApart

\* Save makes one new list: the kept one and a new key.
LEMMA SaveKeepsApart ==
  ASSUME TypeOK, SignedIn, ListedApart, NEW d \in Device, Save(d)
  PROVE  ListedApart'
<1>0. PICK n : n = Len(pending[d])
  OBVIOUS
<1>1. PICK i \in ItemId \ minted : Issue(d, AddItem(d, i)) /\ minted' = minted \cup {i}
  BY DEF Save
<1>2. PICK new : new = Append(entry[d].itemIds, i)
  OBVIOUS
<1>3. /\ users' = users /\ entry'[d] = Closed
      /\ \A e \in Device \ {d} : entry'[e] = entry[e] /\ pending'[e] = pending[e]
      /\ pending' = [pending EXCEPT ![d] = @ \o AddItem(d, i)]
  BY <1>1 DEF Issue, Save, Leave, TypeOK, FirebaseTypeOK
<1>4. /\ pending[d] \in Seq(Write) /\ n \in Nat
      /\ AddItem(d, i) \in Seq(Write) /\ Len(AddItem(d, i)) = 2
      /\ pending'[d] = pending[d] \o AddItem(d, i)
  <2>1. AddItem(d, i) \in Seq(Write)
    BY AddEntryAssumption, AddItemType DEF SignedIn
  <2>2. Len(AddItem(d, i)) = 2
    BY DEF AddItem
  <2>3. pending \in [Device -> Seq(Write)]
    BY DEF TypeOK, FirebaseTypeOK
  <2> QED BY <2>1, <2>2, <2>3, <1>0, <1>3
<1>5. /\ DOMAIN pending'[d] = 1 .. n + 2 /\ DOMAIN pending[d] = 1 .. n
      /\ \A k \in 1 .. n : pending'[d][k] = pending[d][k]
      /\ pending'[d][n + 1] = AddItem(d, i)[1] /\ pending'[d][n + 2] = AddItem(d, i)[2]
  BY <1>0, <1>4, ConcatPair
<1>6. /\ pending'[d][n + 1].node = "items"
      /\ pending'[d][n + 2].uid = Account[d] /\ pending'[d][n + 2].value = new
  BY <1>2, <1>5 DEF AddItem, SignedIn
<1>7. \A k \in 1 .. n + 2 : k \in 1 .. n \/ k = n + 1 \/ k = n + 2
  BY <1>4
<1>8. ASSUME NEW e \in Device, NEW k \in ListWrites(e)'
      PROVE  \/ k \in ListWrites(e) /\ pending'[e][k] = pending[e][k]
             \/ e = d /\ pending'[e][k].uid = Account[d] /\ pending'[e][k].value = new
  BY <1>3, <1>5, <1>6, <1>7, ZenonT(30) DEF ListWrites
<1>9. Closed.itemIds = <<>> /\ Closed.load = "none"
  BY DEF Closed
<1>10. ASSUME NEW u \in Uid, NEW list \in ListsOf(u)'
       PROVE  list \in ListsOf(u) \cup {<<>>} \/ (u = Account[d] /\ list = new)
  <2>1. ASSUME NEW e \in Device, NEW k \in ListWrites(e)',
               pending'[e][k].uid = u, list = pending'[e][k].value
        PROVE  list \in ListsOf(u) \/ (u = Account[d] /\ list = new)
    BY <1>8, <2>1, ListOfUser
  <2>2. ASSUME NEW e \in Device, Account[e] = u, list = entry'[e].itemIds
        PROVE  list \in ListsOf(u) \cup {<<>>}
    BY <1>3, <1>9, <2>2, ListOfUser
  <2>3. ASSUME list = users'[u].itemList
        PROVE  list \in ListsOf(u)
    BY <1>3, <2>3, ListOfUser
  <2> QED BY <2>1, <2>2, <2>3, ListOfUserPrime
<1>11. entry[d].itemIds \in ListsOf(Account[d]) /\ entry[d].itemIds \in Seq(ItemId)
  BY ListOfUser DEF TypeOK, Entry
<1>12. Once(new) /\ Ids(new) = Ids(entry[d].itemIds) \cup {i}
  <2>1. Once(entry[d].itemIds) /\ i \notin Ids(entry[d].itemIds)
    BY <1>11, AddEntryAssumption DEF ListedApart
  <2> QED BY <1>2, <1>11, <2>1, AppendOnce, FirebaseAssumption
<1>13. \A e \in Device : entry'[e].load = "waiting" => entry'[e].uid = Account[e]
  BY <1>3, <1>9 DEF ListedApart
<1> QED BY <1>1, <1>10, <1>11, <1>12, <1>13, NewListApart

LEMMA ApartStep ==
  ASSUME TypeOK, SignedIn, ListedApart, [Next]_vars
  PROVE  ListedApart'
<1> USE DEF firebaseVars
<1>1. \A d \in Device : entry[d].itemIds \in ListsOf(Account[d])
  BY ListOfUser
<1>2. ASSUME UNCHANGED <<users, pending, minted>>,
             \A d \in Device : /\ entry'[d].itemIds \in ListsOf(Account[d]) \cup {<<>>}
                               /\ entry'[d].load = "waiting" => entry'[d].uid = Account[d]
      PROVE  ListedApart'
  BY <1>2, KeptLists, OldListsApart
<1>3. ASSUME NEW d \in Device, \A e \in Device \ {d} : entry'[e] = entry[e],
             UNCHANGED <<users, pending, minted>>,
             entry'[d].itemIds \in ListsOf(Account[d]) \cup {<<>>},
             entry'[d].load = "waiting" => entry'[d].uid = Account[d]
      PROVE  ListedApart'
  BY <1>1, <1>2, <1>3 DEF ListedApart
<1>4. ASSUME UNCHANGED <<users, pending, minted, entry>>
      PROVE  ListedApart'
  BY <1>1, <1>2, <1>4 DEF ListedApart
<1>5. ASSUME NEW d \in Device, Open(d)
      PROVE  ListedApart'
  <2>1. entry'[d].itemIds = <<>> /\ entry'[d].uid = Account[d]
        /\ \A e \in Device \ {d} : entry'[e] = entry[e]
    BY <1>5 DEF Open, TypeOK, SignedIn
  <2> QED BY <1>3, <1>5, <2>1 DEF Open
<1>6. ASSUME NEW d \in Device, Back(d)
      PROVE  ListedApart'
  <2>1. entry'[d].itemIds = <<>> /\ entry'[d].load = "none"
        /\ \A e \in Device \ {d} : entry'[e] = entry[e]
    BY <1>6 DEF Back, Leave, Closed, TypeOK
  <2> QED BY <1>3, <1>6, <2>1 DEF Back
<1>7. ASSUME NEW d \in Device, LoadNothing(d)
      PROVE  ListedApart'
  <2>1. entry'[d].itemIds = entry[d].itemIds /\ entry'[d].load = "done"
        /\ \A e \in Device \ {d} : entry'[e] = entry[e]
    BY <1>7 DEF LoadNothing, TypeOK, Entry
  <2> QED BY <1>1, <1>3, <1>7, <2>1 DEF LoadNothing
<1>8. ASSUME NEW d \in Device, LoadItemIds(d)
      PROVE  ListedApart'
  <2>1. entry[d].uid = Account[d] /\ Account[d] \in Uid
    BY <1>8, AddEntryAssumption DEF LoadItemIds, Waiting, ListedApart
  <2>2. /\ entry'[d].itemIds = ItemListSeen(d, Account[d]) /\ entry'[d].load = "done"
        /\ ItemListSeen(d, Account[d]) # Missing
        /\ \A e \in Device \ {d} : entry'[e] = entry[e]
    BY <1>8, <2>1 DEF LoadItemIds, TypeOK, Entry
  <2>3. entry'[d].itemIds \in ListsOf(Account[d])
    BY <2>1, <2>2, SeenIsListed
  <2> QED BY <1>3, <1>8, <2>2, <2>3 DEF LoadItemIds
<1>9. ASSUME NEW d \in Device, Save(d) \/ Send(d) \/ Crash(d)
      PROVE  ListedApart'
  BY <1>9, SaveKeepsApart, SendKeepsApart, CrashKeepsApart
<1>10. ASSUME NEW d \in Device, NEW u \in Uid, StrayIsIdle(d, u)
       PROVE  ListedApart'
  BY <1>4, <1>10 DEF StrayIsIdle
<1>11. ASSUME NEW d \in Device, Launch(d)
       PROVE  ListedApart'
  BY <1>4, <1>11 DEF Launch, ProcessStarts, addEntryVars
<1>12. CASE UNCHANGED vars
  BY <1>4, <1>12 DEF vars, addEntryVars
<1> QED BY <1>5, <1>6, <1>7, <1>8, <1>9, <1>10, <1>11, <1>12
        DEF Next, Answer, LoadTraps, StrayTraps, Trap, Kill

LEMMA ApartInit ==
  ASSUME FoundListedOnce, Init
  PROVE  ListedApart
<1>1. /\ \A d \in Device : pending[d] = <<>> /\ entry[d].itemIds = <<>> /\ entry[d].load = "none"
      /\ users \in InitialUsers /\ users \in [Uid -> Record]
      /\ minted = UNION {Ids(users[u].itemList) : u \in Uid}
  BY AddEntryAssumption DEF Init, Closed
<1>2. \A d \in Device : ListWrites(d) = {}
  BY <1>1 DEF ListWrites
<1>3. ASSUME NEW u \in Uid, NEW list \in ListsOf(u)
      PROVE  list = <<>> \/ list = users[u].itemList
  BY <1>1, <1>2, ListOfUser
<1>4. ASSUME NEW u \in Uid
      PROVE  Once(users[u].itemList) /\ Ids(users[u].itemList) \subseteq minted
  BY <1>1 DEF FoundListedOnce, Once
<1>5. ASSUME NEW u \in Uid, NEW v \in Uid, u # v
      PROVE  Ids(users[u].itemList) \cap Ids(users[v].itemList) = {}
  BY <1>1, <1>5 DEF FoundListedOnce, Ids
<1>6. \A u \in Uid : \A list \in ListsOf(u) : Once(list) /\ Ids(list) \subseteq minted
  BY <1>3, <1>4, NothingListed
<1>7. \A u, v \in Uid :
        u # v => \A list \in ListsOf(u), other \in ListsOf(v) : Ids(list) \cap Ids(other) = {}
  BY <1>3, <1>5, NothingListed
<1> QED BY <1>1, <1>6, <1>7 DEF ListedApart

LEMMA ApartIsOnce ==
  ASSUME ListedApart
  PROVE  EachItemListedOnce
<1> SUFFICES ASSUME NEW u \in WithList, NEW v \in WithList,
                    NEW j \in DOMAIN users[u].itemList, NEW k \in DOMAIN users[v].itemList,
                    users[u].itemList[j] = users[v].itemList[k]
             PROVE  u = v /\ j = k
  BY DEF EachItemListedOnce
<1>1. /\ u \in Uid /\ users[u].itemList # Missing /\ users[u].itemList \in ListsOf(u)
      /\ v \in Uid /\ users[v].itemList # Missing /\ users[v].itemList \in ListsOf(v)
  BY ListOfUser DEF WithList
<1>2. /\ users[u].itemList[j] \in Ids(users[u].itemList)
      /\ users[v].itemList[k] \in Ids(users[v].itemList)
  BY <1>1 DEF Ids
<1>3. u = v
  BY <1>1, <1>2 DEF ListedApart
<1>4. Once(users[u].itemList)
  BY <1>1 DEF ListedApart
<1> QED BY <1>1, <1>3, <1>4 DEF Once

\* A saved item is one wish of one user: no list on the server repeats an item
\* or shares one with another user's list, with however many devices on one
\* account and however old the list a screen keeps, if it was so at the start.
THEOREM ItemsAlwaysListedOnce ==
  ASSUME FoundListedOnce
  PROVE  Spec => []EachItemListedOnce
<1>1. Init => ListedApart
  BY ApartInit
<1>2. TypeOK /\ SignedIn /\ ListedApart /\ [Next]_vars => ListedApart'
  BY ApartStep
<1>3. ListedApart => EachItemListedOnce
  BY ApartIsOnce
<1>4. Spec => [](TypeOK /\ SignedIn)
  BY TypeInit, TypeStep, PTL DEF Spec
<1> QED BY <1>1, <1>2, <1>3, <1>4, PTL DEF Spec

-----------------------------------------------------------------------------
(* AddEntry implements WishList                                            *)

OneMore(list, next) == \E i \in ItemId \ Ids(list) : Ids(next) = Ids(list) \cup {i}

\* Each list of the chain has one item more than the one before it, of which
\* the first is on the server; what the screen keeps is what the device sees.
Stepwise(d) ==
  /\ \A k \in ListWrites(d) :
       (\A j \in ListWrites(d) : j >= k)
         => OneMore(users[Account[d]].itemList, pending[d][k].value)
  /\ \A j, k \in ListWrites(d) :
       j < k /\ (\A m \in ListWrites(d) : m <= j \/ m >= k)
         => OneMore(pending[d][j].value, pending[d][k].value)
  /\ entry[d].load = "waiting" => entry[d].itemIds = <<>>
  /\ entry[d].load = "done" => Ids(entry[d].itemIds) = Ids(ItemListSeen(d, Account[d]))

AllStepwise == \A d \in Device : Stepwise(d)

\* A step of another device.
LEMMA UntouchedStaysStepwise ==
  ASSUME NEW d \in Device, Stepwise(d),
         UNCHANGED <<pending[d], users[Account[d]], entry[d]>>
  PROVE  Stepwise(d)'
<1>1. ListWrites(d)' = ListWrites(d)
  BY DEF ListWrites
<1>2. ItemListSeen(d, Account[d])' = ItemListSeen(d, Account[d])
  BY DEF ItemListSeen, Seen, LatestWrite
<1> QED BY <1>1, <1>2 DEF Stepwise

\* A step of the screen.
LEMMA ScreenStaysStepwise ==
  ASSUME NEW d \in Device, Stepwise(d), UNCHANGED <<pending[d], users[Account[d]]>>,
         entry'[d].load = "waiting" => entry'[d].itemIds = <<>>,
         entry'[d].load = "done" => Ids(entry'[d].itemIds) = Ids(ItemListSeen(d, Account[d]))
  PROVE  Stepwise(d)'
<1>1. ListWrites(d)' = ListWrites(d)
  BY DEF ListWrites
<1>2. ItemListSeen(d, Account[d])' = ItemListSeen(d, Account[d])
  BY DEF ItemListSeen, Seen, LatestWrite
<1> QED BY <1>1, <1>2 DEF Stepwise

LEMMA CrashStaysStepwise ==
  ASSUME TypeOK, NEW d \in Device, Crash(d)
  PROVE  Stepwise(d)'
<1>1. pending'[d] = <<>> /\ entry'[d] = Closed
  BY DEF Crash, ProcessDies, TypeOK, FirebaseTypeOK
<1> QED BY <1>1 DEF Stepwise, ListWrites, Closed

\* The list Save makes has one item more than the list the device sees.
LEMMA SaveStaysStepwise ==
  ASSUME TypeOK, SignedIn, Patient, NEW d \in Device, Chained(d), Stepwise(d),
         ListedApart, Save(d)
  PROVE  Stepwise(d)'
<1>0. PICK n : n = Len(pending[d])
  OBVIOUS
<1>1. PICK i \in ItemId \ minted : Issue(d, AddItem(d, i))
  BY DEF Save
<1>2. PICK list : list = Append(entry[d].itemIds, i)
  OBVIOUS
<1>3. /\ UNCHANGED users
      /\ pending' = [pending EXCEPT ![d] = @ \o AddItem(d, i)]
      /\ entry'[d] = Closed
      /\ entry[d].load = "done"
  BY <1>1 DEF Issue, Save, Leave, TypeOK
<1>4. /\ pending[d] \in Seq(Write) /\ n \in Nat
      /\ AddItem(d, i) \in Seq(Write) /\ Len(AddItem(d, i)) = 2
      /\ pending'[d] = pending[d] \o AddItem(d, i)
  <2>1. AddItem(d, i) \in Seq(Write)
    BY AddEntryAssumption, AddItemType DEF SignedIn
  <2>2. Len(AddItem(d, i)) = 2
    BY DEF AddItem
  <2>3. pending \in [Device -> Seq(Write)]
    BY DEF TypeOK, FirebaseTypeOK
  <2> QED BY <2>1, <2>2, <2>3, <1>0, <1>3
<1>5. /\ DOMAIN pending'[d] = 1 .. n + 2 /\ DOMAIN pending[d] = 1 .. n
      /\ \A k \in 1 .. n : pending'[d][k] = pending[d][k]
      /\ pending'[d][n + 1] = AddItem(d, i)[1] /\ pending'[d][n + 2] = AddItem(d, i)[2]
  BY <1>0, <1>4, ConcatPair
<1>6. /\ pending'[d][n + 1].node = "items" /\ pending'[d][n + 2].node = "itemList"
      /\ pending'[d][n + 2].value = list
  BY <1>2, <1>5 DEF AddItem
<1>7. \A k \in 1 .. n + 2 : k \in 1 .. n \/ k = n + 1 \/ k = n + 2
  BY <1>4
<1>8. ListWrites(d)' = ListWrites(d) \cup {n + 2}
  BY <1>4, <1>5, <1>6, <1>7 DEF ListWrites
<1>9. \A k \in ListWrites(d) :
        k \in Nat /\ k <= n /\ k < n + 2 /\ pending'[d][k] = pending[d][k]
  BY <1>4, <1>5 DEF ListWrites
<1>10. OneMore(ItemListSeen(d, Account[d]), list)
  <2>1. entry[d].itemIds \in Seq(ItemId) /\ entry[d].itemIds \in ListsOf(Account[d])
    BY ListOfUser DEF TypeOK, Entry
  <2>2. i \notin Ids(entry[d].itemIds)
    BY <2>1, AddEntryAssumption DEF ListedApart
  <2>3. Ids(list) = Ids(entry[d].itemIds) \cup {i}
    BY <1>2, <2>1, FirebaseAssumption, IdsOfAppend
  <2>4. Ids(entry[d].itemIds) = Ids(ItemListSeen(d, Account[d]))
    BY <1>3 DEF Stepwise
  <2> QED BY <2>2, <2>3, <2>4 DEF OneMore
<1>11. ASSUME NEW k \in ListWrites(d)', \A j \in ListWrites(d)' : j >= k
       PROVE  OneMore(users'[Account[d]].itemList, pending'[d][k].value)
  <2>1. CASE k \in ListWrites(d)
    BY <1>3, <1>8, <1>9, <1>11, <2>1 DEF Stepwise
  <2>2. CASE k = n + 2
    <3>1. ListWrites(d) = {}
      BY <1>4, <1>8, <1>9, <1>11, <2>2
    <3>2. pending[d] = <<>>
      BY <3>1 DEF Chained, EndsWithList
    <3>3. ItemListSeen(d, Account[d]) = users[Account[d]].itemList
      BY <3>2, OwnListSeen DEF Chained
    <3> QED BY <1>3, <1>6, <1>10, <2>2, <3>3
  <2> QED BY <1>8, <2>1, <2>2
<1>12. ASSUME NEW j \in ListWrites(d)', NEW k \in ListWrites(d)', j < k,
              \A m \in ListWrites(d)' : m <= j \/ m >= k
       PROVE  OneMore(pending'[d][j].value, pending'[d][k].value)
  <2>1. CASE k \in ListWrites(d)
    <3>1. j \in ListWrites(d)
      BY <1>4, <1>8, <1>9, <1>12, <2>1
    <3> QED BY <1>8, <1>9, <1>12, <2>1, <3>1 DEF Stepwise
  <2>2. CASE k = n + 2
    <3>1. j \in ListWrites(d)
      BY <1>4, <1>8, <1>12, <2>2
    <3>2. pending[d] # <<>>
      BY <3>1 DEF ListWrites
    <3>3. n \in ListWrites(d)
      BY <1>0, <3>2 DEF Chained, EndsWithList
    <3>4. j = n
      BY <1>4, <1>8, <1>9, <1>12, <2>2, <3>1, <3>3
    <3>5. ItemListSeen(d, Account[d]) = pending[d][n].value
      BY <1>0, <3>2, OwnListSeen DEF Chained
    <3> QED BY <1>6, <1>9, <1>10, <2>2, <3>3, <3>4, <3>5
  <2> QED BY <1>8, <2>1, <2>2
<1>13. entry'[d].load = "none"
  BY <1>3 DEF Closed
<1> QED BY <1>11, <1>12, <1>13 DEF Stepwise

\* OwnListSeen of the next state.
LEMMA OwnListSeenNext ==
  ASSUME NEW d \in Device, pending'[d] \in Seq(Write), OwnWrites(d)', EndsWithList(d)'
  PROVE  ItemListSeen(d, Account[d])' =
           IF pending'[d] = <<>> THEN users'[Account[d]].itemList
                                 ELSE pending'[d][Len(pending'[d])].value
<1> DEFINE u == Account[d]
           n == Len(pending'[d])
<1>1. CASE pending'[d] = <<>>
  <2>1. LatestWrite(d, u, "itemList")' = {}
    BY <1>1 DEF LatestWrite
  <2> QED BY <1>1, <2>1 DEF ItemListSeen, Seen
<1>2. CASE pending'[d] # <<>>
  <2>1. /\ n \in DOMAIN pending'[d]
        /\ pending'[d][n].node = "itemList"
        /\ pending'[d][n].uid = u
    BY <1>2 DEF EndsWithList, ListWrites, OwnWrites
  <2>2. DOMAIN pending'[d] = 1 .. n /\ n \in Nat
    OBVIOUS
  <2>3. Overwrites(pending'[d][n], u, "itemList")
    BY <2>1 DEF Overwrites
  <2>4. \A i \in DOMAIN pending'[d] : ~(i > n) /\ (i # n => n > i)
    BY <2>2
  <2>5. n \in LatestWrite(d, u, "itemList")'
    BY <2>1, <2>3, <2>4 DEF LatestWrite
  <2>6. \A i \in LatestWrite(d, u, "itemList")' : i = n
    BY <2>1, <2>3, <2>4 DEF LatestWrite
  <2>7. (CHOOSE i \in LatestWrite(d, u, "itemList")' : TRUE) = n
    BY <2>5, <2>6
  <2> QED BY <1>2, <2>1, <2>5, <2>7 DEF ItemListSeen, Seen
<1> QED BY <1>1, <1>2

\* The list a device sees is the same whether its last write is sent or not.
LEMMA SendKeepsSeen ==
  ASSUME TypeOK, NEW d \in Device, Chained(d), Send(d)
  PROVE  ItemListSeen(d, Account[d])' = ItemListSeen(d, Account[d])
<1> DEFINE w == pending[d][1]
           u == Account[d]
           n == Len(pending[d])
<1>1. /\ pending[d] \in Seq(Write) /\ pending[d] # <<>> /\ n \in Nat
      /\ pending'[d] = Tail(pending[d]) /\ pending'[d] \in Seq(Write)
      /\ users' = [v \in Uid |-> Written(w, v, users[v])]
      /\ u \in Uid
  <2>1. pending[d] \in Seq(Write) /\ pending[d] # <<>>
    BY DEF Send, Commit, TypeOK, FirebaseTypeOK
  <2>2. Head(pending[d]) = w
    BY <2>1, TailShift
  <2>3. pending'[d] = Tail(pending[d])
    BY DEF Send, Commit, TypeOK, FirebaseTypeOK
  <2>4. n \in Nat /\ Tail(pending[d]) \in Seq(Write)
    BY <2>1
  <2>5. users' = [v \in Uid |-> Written(w, v, users[v])]
    BY <2>2 DEF Send, Commit
  <2> QED BY <2>1, <2>3, <2>4, <2>5, AddEntryAssumption
<1>2. /\ Len(pending'[d]) = n - 1
      /\ \A k \in DOMAIN pending'[d] : pending'[d][k] = pending[d][k + 1]
  BY <1>1, TailShift
<1>3. n \in ListWrites(d) /\ ItemListSeen(d, u) = pending[d][n].value
  BY <1>1, OwnListSeen DEF Chained, EndsWithList
<1>4. ItemListSeen(d, u)' = IF pending'[d] = <<>> THEN users'[u].itemList
                            ELSE pending'[d][Len(pending'[d])].value
  <2>1. OwnWrites(d)' /\ EndsWithList(d)'
    BY SendStaysChained DEF Chained
  <2> QED BY <1>1, <2>1, OwnListSeenNext
<1>5. CASE pending'[d] = <<>>
  <2>0. n - 1 = 0 /\ n \in Nat
    BY <1>1, <1>2, <1>5
  <2>1. n = 1
    BY <2>0
  <2>2. w.node = "itemList" /\ w.uid = u /\ users[u] \in Record
    BY <1>1, <1>3, <2>1 DEF ListWrites, Chained, OwnWrites, TypeOK, FirebaseTypeOK
  <2>3. users'[u] = Written(w, u, users[u])
    BY <1>1
  <2>4. users'[u].itemList = w.value
    BY <2>2, <2>3 DEF Written, Record
  <2> QED BY <1>3, <1>4, <1>5, <2>1, <2>4
<1>6. CASE pending'[d] # <<>>
  <2>1. Len(pending'[d]) \in DOMAIN pending'[d]
    BY <1>1, <1>6
  <2>2. pending'[d][Len(pending'[d])] = pending[d][n]
    BY <1>1, <1>2, <2>1
  <2> QED BY <1>3, <1>4, <1>6, <2>2
<1> QED BY <1>5, <1>6

LEMMA SendStaysStepwise ==
  ASSUME TypeOK, NEW d \in Device, Chained(d), Stepwise(d), Send(d)
  PROVE  Stepwise(d)'
<1> DEFINE w == pending[d][1]
           u == Account[d]
<1>1. /\ pending[d] \in Seq(Write) /\ pending[d] # <<>>
      /\ entry' = entry
      /\ pending'[d] = Tail(pending[d])
      /\ users' = [v \in Uid |-> Written(w, v, users[v])]
      /\ u \in Uid
  <2>1. pending[d] \in Seq(Write) /\ pending[d] # <<>>
    BY DEF Send, Commit, TypeOK, FirebaseTypeOK
  <2>2. Head(pending[d]) = w
    BY <2>1, TailShift
  <2> QED BY <2>1, <2>2, AddEntryAssumption
          DEF Send, Commit, addEntryVars, TypeOK, FirebaseTypeOK
<1>2. /\ 1 \in DOMAIN pending[d]
      /\ Len(pending'[d]) = Len(pending[d]) - 1
      /\ \A k \in DOMAIN pending'[d] :
           /\ k \in Nat /\ k + 1 \in DOMAIN pending[d]
           /\ pending'[d][k] = pending[d][k + 1]
  BY <1>1, TailShift
<1>3. \A k \in ListWrites(d)' :
        /\ k \in Nat \ {0} /\ k + 1 \in ListWrites(d)
        /\ pending'[d][k] = pending[d][k + 1]
  <2>1. \A k \in DOMAIN pending'[d] : k \in Nat \ {0}
    BY <1>1
  <2> QED BY <1>2, <2>1 DEF ListWrites
<1>4. \A k \in ListWrites(d) : k = 1 \/ (k \in Nat /\ k > 1 /\ k - 1 \in ListWrites(d)')
  <2>1. ASSUME NEW k \in ListWrites(d), k # 1
        PROVE  k \in Nat /\ k > 1 /\ k - 1 \in ListWrites(d)'
    <3>1. k \in Nat /\ k > 1 /\ k - 1 \in DOMAIN pending'[d]
      BY <1>1, <2>1 DEF ListWrites
    <3>2. pending'[d][k - 1] = pending[d][k]
      BY <1>2, <3>1
    <3> QED BY <3>1, <3>2 DEF ListWrites
  <2> QED BY <2>1
<1>5. /\ w.node \in {"items", "itemList"}
      /\ w.node = "items" => users'[u].itemList = users[u].itemList /\ 1 \notin ListWrites(d)
      /\ w.node = "itemList" => users'[u].itemList = w.value /\ 1 \in ListWrites(d)
  <2>1. /\ w.node \in {"items", "itemList"}
        /\ w.node = "itemList" => w.uid = u
        /\ users[u] \in Record
    BY <1>1, <1>2 DEF Chained, OwnWrites, TypeOK, FirebaseTypeOK
  <2>2. users'[u] = Written(w, u, users[u])
    BY <1>1
  <2>3. /\ w.node = "items" => users'[u].itemList = users[u].itemList
        /\ w.node = "itemList" => users'[u].itemList = w.value
    BY <2>1, <2>2 DEF Written, Record
  <2> QED BY <1>2, <2>1, <2>3 DEF ListWrites
<1>6. ASSUME NEW k \in ListWrites(d)', \A j \in ListWrites(d)' : j >= k
      PROVE  OneMore(users'[u].itemList, pending'[d][k].value)
  <2>1. k + 1 \in ListWrites(d) /\ pending'[d][k] = pending[d][k + 1] /\ k \in Nat \ {0}
    BY <1>3
  <2>2. \A m \in ListWrites(d) : m = 1 \/ m >= k + 1
    BY <1>4, <1>6, <2>1
  <2>3. CASE w.node = "items"
    <3>1. \A m \in ListWrites(d) : m >= k + 1
      BY <1>5, <2>2, <2>3
    <3> QED BY <1>5, <2>1, <2>3, <3>1 DEF Stepwise
  <2>4. CASE w.node = "itemList"
    <3>1. 1 \in ListWrites(d) /\ 1 < k + 1
      BY <1>5, <2>1, <2>4
    <3>2. \A m \in ListWrites(d) : m <= 1 \/ m >= k + 1
      BY <2>2
    <3>3. OneMore(pending[d][1].value, pending[d][k + 1].value)
      BY <2>1, <3>1, <3>2 DEF Stepwise
    <3> QED BY <1>5, <2>1, <2>4, <3>3
  <2> QED BY <1>5, <2>3, <2>4
<1>7. ASSUME NEW j \in ListWrites(d)', NEW k \in ListWrites(d)', j < k,
             \A m \in ListWrites(d)' : m <= j \/ m >= k
      PROVE  OneMore(pending'[d][j].value, pending'[d][k].value)
  <2>1. /\ j + 1 \in ListWrites(d) /\ pending'[d][j] = pending[d][j + 1] /\ j \in Nat \ {0}
        /\ k + 1 \in ListWrites(d) /\ pending'[d][k] = pending[d][k + 1] /\ k \in Nat \ {0}
    BY <1>3
  <2>2. \A m \in ListWrites(d) : m <= j + 1 \/ m >= k + 1
    BY <1>4, <1>7, <2>1
  <2>3. j + 1 < k + 1
    BY <1>7, <2>1
  <2> QED BY <2>1, <2>2, <2>3 DEF Stepwise
<1>8. ItemListSeen(d, u)' = ItemListSeen(d, u)
  BY SendKeepsSeen
<1> QED BY <1>1, <1>6, <1>7, <1>8 DEF Stepwise

LEMMA StepwiseStep ==
  ASSUME TypeOK, SignedIn, Patient, AccountsExclusive, AllChained, ListedApart, AllStepwise,
         [Next]_vars
  PROVE  AllStepwise'
<1> USE DEF firebaseVars, AllStepwise, AllChained
<1>1. ASSUME NEW d \in Device, NEW e \in Device, e # d,
             \/ Open(d) \/ Save(d) \/ Back(d) \/ LoadNothing(d)
             \/ LoadItemIds(d) \/ Crash(d)
      PROVE  Stepwise(e)'
  <2>1. UNCHANGED <<pending[e], users[Account[e]], entry[e]>>
    BY <1>1 DEF Open, Save, Issue, Back, Leave, LoadNothing, LoadItemIds,
                Crash, ProcessDies, TypeOK, FirebaseTypeOK
  <2> QED BY <2>1, UntouchedStaysStepwise
<1>2. ASSUME NEW d \in Device, Open(d) \/ Back(d)
      PROVE  AllStepwise'
  <2>1. entry'[d].itemIds = <<>> /\ entry'[d].load # "done"
    BY <1>2 DEF Open, Back, Leave, Closed, TypeOK
  <2>2. UNCHANGED <<users, pending>>
    BY <1>2 DEF Open, Back
  <2> QED BY <1>1, <1>2, <2>1, <2>2, ScreenStaysStepwise
<1>3. ASSUME NEW d \in Device, LoadNothing(d)
      PROVE  AllStepwise'
  <2>1. /\ entry'[d].load = "done" /\ entry'[d].itemIds = entry[d].itemIds
        /\ entry[d].load = "waiting"
    BY <1>3 DEF LoadNothing, Waiting, TypeOK, Entry
  <2>2. entry[d].itemIds = <<>>
    BY <2>1 DEF Stepwise
  <2>3. ItemListSeen(d, Account[d]) = Missing
    BY <1>3, AddEntryAssumption DEF LoadNothing, UsersSeen, RecordSeen, EmptyRecord
  <2>4. Ids(entry'[d].itemIds) = Ids(ItemListSeen(d, Account[d]))
    BY <2>1, <2>2, <2>3, NothingListed
  <2>5. UNCHANGED <<users, pending>>
    BY <1>3 DEF LoadNothing
  <2> QED BY <1>1, <1>3, <2>1, <2>4, <2>5, ScreenStaysStepwise
<1>4. ASSUME NEW d \in Device, LoadItemIds(d)
      PROVE  AllStepwise'
  <2>1. entry[d].uid = Account[d]
    BY <1>4 DEF LoadItemIds, Waiting, ListedApart
  <2>2. entry'[d].load = "done" /\ entry'[d].itemIds = ItemListSeen(d, Account[d])
    BY <1>4, <2>1 DEF LoadItemIds, TypeOK, Entry
  <2>3. UNCHANGED <<users, pending>>
    BY <1>4 DEF LoadItemIds
  <2> QED BY <1>1, <1>4, <2>2, <2>3, ScreenStaysStepwise
<1>5. ASSUME NEW d \in Device, Save(d) \/ Crash(d)
      PROVE  AllStepwise'
  BY <1>1, <1>5, SaveStaysStepwise, CrashStaysStepwise
<1>6. ASSUME NEW d \in Device, Send(d)
      PROVE  AllStepwise'
  <2>1. ASSUME NEW e \in Device, e # d
        PROVE  Stepwise(e)'
    BY <1>6, <2>1, SendLeavesOthers, UntouchedStaysStepwise
  <2> QED BY <1>6, <2>1, SendStaysStepwise
<1>7. ASSUME UNCHANGED <<users, pending, entry>>
      PROVE  AllStepwise'
  BY <1>7, UntouchedStaysStepwise
<1>8. ASSUME NEW d \in Device, Launch(d) \/ \E u \in Uid : StrayIsIdle(d, u)
      PROVE  AllStepwise'
  BY <1>7, <1>8 DEF Launch, ProcessStarts, addEntryVars, StrayIsIdle
<1>9. CASE UNCHANGED vars
  BY <1>7, <1>9 DEF vars, addEntryVars
<1> QED BY <1>2, <1>3, <1>4, <1>5, <1>6, <1>8, <1>9
        DEF Next, Answer, LoadTraps, StrayTraps, Trap, Kill

\* The wish a commit adds: the first list of the chain has one item more than
\* the list it replaces, and no other user's list has that item.
LEMMA WishAdded ==
  ASSUME TypeOK, AllChained, ListedApart, AllStepwise, NEW d \in Device, Send(d)
  PROVE  UNCHANGED wishes \/ Promised!WishListNext
<1> DEFINE w == pending[d][1]
           u == Account[d]
<1>1. /\ pending[d] \in Seq(Write) /\ pending[d] # <<>>
      /\ users' = [v \in Uid |-> Written(w, v, users[v])]
      /\ u \in Uid /\ users \in [Uid -> Record]
  <2>1. pending[d] \in Seq(Write) /\ pending[d] # <<>>
    BY DEF Send, Commit, TypeOK, FirebaseTypeOK
  <2>2. Head(pending[d]) = w
    BY <2>1, TailShift
  <2> QED BY <2>1, <2>2, AddEntryAssumption DEF Send, Commit, TypeOK, FirebaseTypeOK
<1>2. /\ 1 \in DOMAIN pending[d]
      /\ w.node \in {"items", "itemList"}
      /\ w.node = "itemList" => w.uid = u
  BY <1>1 DEF AllChained, Chained, OwnWrites
<1>3. CASE w.node = "items"
  <2>1. \A v \in Uid : users'[v] = users[v]
    BY <1>1, <1>3 DEF Written
  <2> QED BY <2>1 DEF wishes
<1>4. CASE w.node = "itemList"
  <2>1. 1 \in ListWrites(d) /\ \A k \in ListWrites(d) : k >= 1
    BY <1>1, <1>2, <1>4 DEF ListWrites
  <2>2. OneMore(users[u].itemList, w.value)
    BY <2>1 DEF AllStepwise, Stepwise
  <2>3. PICK i \in ItemId : i \notin Ids(users[u].itemList)
                            /\ Ids(w.value) = Ids(users[u].itemList) \cup {i}
    BY <2>2 DEF OneMore
  <2>4. /\ users'[u].itemList = w.value
        /\ \A v \in Uid \ {u} : users'[v] = users[v]
    BY <1>1, <1>2, <1>4 DEF Written, Record
  <2>5. w.value \in ListsOf(u) /\ \A v \in Uid : users[v].itemList \in ListsOf(v)
    BY <1>2, <1>4, <2>1, ListOfUser
  <2>6. \A v \in Uid : i \notin Ids(users[v].itemList)
    BY <1>1, <2>3, <2>5 DEF ListedApart
  <2>7. wishes' = [wishes EXCEPT ![u] = @ \cup {i}]
    <3>1. \A v \in Uid : Ids(users'[v].itemList) =
            IF v = u THEN Ids(users[u].itemList) \cup {i} ELSE Ids(users[v].itemList)
      BY <2>3, <2>4
    <3> QED BY <1>1, <3>1 DEF wishes
  <2>8. i \notin Promised!OnSomeList
    BY <2>6 DEF Promised!OnSomeList, wishes
  <2>9. Promised!Add(u, i)
    BY <2>7, <2>8 DEF Promised!Add
  <2> QED BY <1>1, <2>9 DEF Promised!WishListNext
<1> QED BY <1>2, <1>3, <1>4

LEMMA WishStep ==
  ASSUME TypeOK, AllChained, ListedApart, AllStepwise, [Next]_vars
  PROVE  UNCHANGED wishes \/ Promised!WishListNext
<1>1. CASE UNCHANGED users
  BY <1>1 DEF wishes
<1>2. UNCHANGED users \/ \E d \in Device : Send(d)
  BY DEF Next, vars, firebaseVars, Open, Save, Back, Answer, LoadNothing,
         LoadItemIds, LoadTraps, StrayIsIdle, StrayTraps, Trap, Kill, Crash,
         ProcessDies, Launch, ProcessStarts
<1> QED BY <1>1, <1>2, WishAdded

LEMMA StepwiseInit ==
  ASSUME Init
  PROVE  AllChained /\ AllStepwise
<1> SUFFICES ASSUME NEW d \in Device
             PROVE  Chained(d) /\ Stepwise(d)
  BY DEF AllChained, AllStepwise
<1>1. pending[d] = <<>> /\ entry[d].load = "none"
  BY DEF Init, Closed
<1> QED BY <1>1 DEF Chained, OwnWrites, EndsWithList, Chain, KeptIsLatest, ListWrites, Stepwise

LEMMA WishInit ==
  ASSUME TypeOK
  PROVE  Promised!WishListInit
<1>1. ASSUME NEW u \in Uid
      PROVE  Ids(users[u].itemList) \in SUBSET ItemId
  <2>1. users[u].itemList \in Seq(ItemId) \cup {Missing}
    BY DEF TypeOK, FirebaseTypeOK, Record
  <2> QED BY <2>1 DEF Ids
<1> QED BY <1>1 DEF Promised!WishListInit, wishes

\* AddEntry implements WishList: what reaches the server is one new item at a
\* time on the list of one user, however the saves, answers, sends and deaths
\* of the devices interleave, if users wait for their list and no account is
\* signed in on two devices; TLC refutes it without either.
THEOREM AddEntryImplementsWishList ==
  ASSUME FoundListedOnce, Patient, AccountsExclusive
  PROVE  Spec => ImplementsWishList
<1> DEFINE Inv == TypeOK /\ SignedIn /\ AllChained /\ ListedApart /\ AllStepwise
<1>1. Init => Inv
  BY TypeInit, ApartInit, StepwiseInit
<1>2. Inv /\ [Next]_vars => Inv'
  BY TypeStep, ChainedStep, ApartStep, StepwiseStep
<1>3. Init => Promised!WishListInit
  BY TypeInit, WishInit
<1>4. Inv /\ [Next]_vars => [Promised!WishListNext]_wishes
  BY WishStep
<1> HIDE DEF Inv
<1> QED BY <1>1, <1>2, <1>3, <1>4, PTL DEF Spec, ImplementsWishList, Promised!WishListSpec


-----------------------------------------------------------------------------
(* Profile: the inductive invariant                                        *)

\* Answers that come in the order of the requests: after the last of them, which
\* is for the items, the profile shows the list it was given by then.
InTurn(s, listed) ==
  /\ s.asked # <<>> => s.asked[Len(s.asked)] = "items"
  /\ (\A k \in DOMAIN s.asked : s.asked[k] # "ids") => Ids(s.IDList) = listed
  /\ s.asked = <<>> => s.ItemList = listed

\* A profile of user u, of whom the device sees this set of listed items, and
\* sees these items there.
ScreenOK(s, u, listed, there) ==
  /\ s.asked # <<>> => s.screen = "open"
  /\ s.screen = "open" => s.uid = u
  /\ Ids(s.IDList) \subseteq listed
  /\ s.ItemList \subseteq Ids(s.IDList) \cap there
  /\ s.rows <= Cardinality(s.ItemList)
  /\ s.reloads = 0 => s.rows = Cardinality(s.ItemList)
  /\ s.inOrder => InTurn(s, listed)

Listed(d) == Ids(ItemListSeen(d, Account[d]))

ProfileOK(d) ==
  /\ ScreenOK(profile[d], Account[d], Listed(d), ItemsSeen(d))
  /\ entry[d].screen = "open" => profile[d].screen = "open"

AllProfilesOK ==
  /\ profile \in [Device -> Screen]
  /\ \A d \in Device : ProfileOK(d)

-----------------------------------------------------------------------------
(* One screen                                                              *)

\* The screen when it appears again, and after each answer.
AskedMore(s) == [s EXCEPT !.asked = s.asked \o Requests]

GivenIDs(s, list, k) == [s EXCEPT !.IDList = list, !.asked = RemoveAt(s.asked, k)]

GivenNothing(s, k) == [s EXCEPT !.asked = RemoveAt(s.asked, k)]

GivenItems(s, there, k) ==
  [s EXCEPT !.ItemList = there \cap Ids(s.IDList), !.reloads = s.reloads + 1,
            !.asked = RemoveAt(s.asked, k)]

LEMMA FiniteIds ==
  ASSUME NEW list \in Seq(ItemId)
  PROVE  IsFiniteSet(Ids(list)) /\ Ids(list) \subseteq ItemId
<1>1. Len(list) \in Nat /\ list \in [1 .. Len(list) -> ItemId]
  OBVIOUS
<1>2. Ids(list) = {list[k] : k \in 1 .. Len(list)}
  BY FirebaseAssumption, IdsOfSeq
<1>3. list \in Surjection(1 .. Len(list), Ids(list))
  BY <1>1, <1>2 DEF Surjection
<1>4. IsFiniteSet(1 .. Len(list))
  BY <1>1, FS_Interval
<1> QED BY <1>1, <1>2, <1>3, <1>4, FS_Surjection

\* Of a set within another one that is finite.
LEMMA Fewer ==
  ASSUME NEW S, NEW T \in SUBSET S, IsFiniteSet(S)
  PROVE  Cardinality(S) \in Nat /\ Cardinality(T) \in Nat /\ Cardinality(T) <= Cardinality(S)
  BY FS_Subset, FS_CardinalityType

LEMMA ShownIsFinite ==
  ASSUME NEW s \in Screen, s.ItemList \subseteq Ids(s.IDList)
  PROVE  IsFiniteSet(s.ItemList) /\ Cardinality(s.ItemList) \in Nat
<1>1. s.IDList \in Seq(ItemId)
  BY DEF Screen
<1>2. IsFiniteSet(Ids(s.IDList))
  BY <1>1, FiniteIds
<1> QED BY <1>2, FS_Subset, FS_CardinalityType

LEMMA ClosedProfileOK ==
  ASSUME NEW u, NEW listed, NEW there
  PROVE  /\ ClosedProfile \in Screen
         /\ ClosedProfile.asked = <<>> /\ ClosedProfile.screen = "closed"
         /\ ScreenOK(ClosedProfile, u, listed, there)
<1>1. ClosedProfile \in Screen
  BY DEF ClosedProfile, Screen
<1>2. Ids(<<>>) = {} /\ Cardinality({}) = 0
  BY NothingListed, FS_EmptySet
<1> QED BY <1>1, <1>2 DEF ClosedProfile, ScreenOK

\* The two requests of an appearance.
LEMMA AskedAgain ==
  ASSUME NEW asked \in Seq({"ids", "items"})
  PROVE  /\ asked \o Requests \in Seq({"ids", "items"})
         /\ asked \o Requests # <<>>
         /\ (asked \o Requests)[Len(asked \o Requests)] = "items"
         /\ \E k \in DOMAIN (asked \o Requests) : (asked \o Requests)[k] = "ids"
<1>1. Requests \in Seq({"ids", "items"}) /\ Len(Requests) = 2
      /\ Requests[1] = "ids" /\ Requests[2] = "items"
  BY DEF Requests
<1>2. asked \o Requests \in Seq({"ids", "items"}) /\ Len(asked) \in Nat
  BY <1>1, ConcatProperties
<1>3. /\ Len(asked \o Requests) = Len(asked) + 2
      /\ DOMAIN (asked \o Requests) = 1 .. Len(asked) + 2
      /\ (asked \o Requests)[Len(asked) + 1] = "ids"
      /\ (asked \o Requests)[Len(asked) + 2] = "items"
  BY <1>1, ConcatPair
<1>4. Len(asked) + 1 \in 1 .. Len(asked) + 2
  BY <1>2
<1>5. asked \o Requests # <<>>
  BY <1>2, <1>3
<1> QED BY <1>2, <1>3, <1>4, <1>5

LEMMA OpenedType ==
  ASSUME NEW u \in Uid, NEW inOrder \in BOOLEAN, NEW asked \in Seq({"ids", "items"})
  PROVE  [screen |-> "open", IDList |-> <<>>, ItemList |-> {}, uid |-> u,
          inOrder |-> inOrder, asked |-> asked, reloads |-> 0, rows |-> 0] \in Screen
  BY DEF Screen

LEMMA OpenedOK ==
  ASSUME NEW u \in Uid, NEW listed, NEW there, NEW inOrder \in BOOLEAN, NEW s,
         s = [ClosedProfile EXCEPT !.screen = "open", !.uid = u, !.inOrder = inOrder,
                                   !.asked = Requests \o Requests]
  PROVE  s \in Screen /\ s.screen = "open" /\ ScreenOK(s, u, listed, there)
<1>1. Requests \in Seq({"ids", "items"})
  BY DEF Requests
<1>2. PICK asked : asked = Requests \o Requests
  OBVIOUS
<1>3. /\ asked \in Seq({"ids", "items"}) /\ asked # <<>> /\ asked[Len(asked)] = "items"
      /\ \E k \in DOMAIN asked : asked[k] = "ids"
  BY <1>1, <1>2, AskedAgain
<1>4. s = [ClosedProfile EXCEPT !.screen = "open", !.uid = u, !.inOrder = inOrder,
                                !.asked = asked]
  BY <1>2
<1>5. /\ s.screen = "open" /\ s.uid = u /\ s.asked = asked /\ s.IDList = <<>>
      /\ s.ItemList = {} /\ s.rows = 0
  BY <1>4 DEF ClosedProfile
<1>6. s \in Screen
  <2>1. s = [screen |-> "open", IDList |-> <<>>, ItemList |-> {}, uid |-> u,
             inOrder |-> inOrder, asked |-> asked, reloads |-> 0, rows |-> 0]
    BY <1>4 DEF ClosedProfile
  <2>2. asked \in Seq({"ids", "items"})
    BY <1>3
  <2>3. [screen |-> "open", IDList |-> <<>>, ItemList |-> {}, uid |-> u,
         inOrder |-> inOrder, asked |-> asked, reloads |-> 0, rows |-> 0] \in Screen
    BY <2>2, OpenedType, Zenon
  <2> QED BY <2>1, <2>3
<1>7. Ids(s.IDList) = {} /\ Cardinality(s.ItemList) = 0
  BY <1>5, NothingListed, FS_EmptySet
<1>8. InTurn(s, listed)
  BY <1>3, <1>5 DEF InTurn
<1> QED BY <1>5, <1>6, <1>7, <1>8 DEF ScreenOK

\* More is listed, and the list is asked for again.
LEMMA AppearedOK ==
  ASSUME NEW s \in Screen, s.screen = "open", NEW u, NEW listed, NEW there,
         ScreenOK(s, u, listed, there),
         NEW more, NEW still, listed \subseteq more, there \subseteq still,
         NEW t, t = AskedMore(s)
  PROVE  t \in Screen /\ t.screen = "open" /\ ScreenOK(t, u, more, still)
<1>1. s.asked \in Seq({"ids", "items"})
  BY DEF Screen
<1>2. PICK asked : asked = s.asked \o Requests
  OBVIOUS
<1>3. /\ asked \in Seq({"ids", "items"}) /\ asked # <<>> /\ asked[Len(asked)] = "items"
      /\ \E k \in DOMAIN asked : asked[k] = "ids"
  BY <1>1, <1>2, AskedAgain
<1>4. t = [s EXCEPT !.asked = asked]
  BY <1>2 DEF AskedMore
<1>5. /\ t.screen = s.screen /\ t.uid = s.uid /\ t.asked = asked /\ t.IDList = s.IDList
      /\ t.ItemList = s.ItemList /\ t.rows = s.rows /\ t.reloads = s.reloads
  BY <1>4 DEF Screen
<1>6. t \in Screen
  BY <1>3, <1>4 DEF Screen
<1>7. InTurn(t, more)
  BY <1>3, <1>5 DEF InTurn
<1> QED BY <1>5, <1>6, <1>7 DEF ScreenOK

\* The list is the same and no item goes.
LEMMA UntouchedOK ==
  ASSUME NEW s, NEW u, NEW listed, NEW there, ScreenOK(s, u, listed, there),
         NEW still, there \subseteq still
  PROVE  ScreenOK(s, u, listed, still)
  BY DEF ScreenOK

\* What the answer to a request leaves of them; in order, it is the first one.
Leaves(s, kind, rest) ==
  /\ s.asked # <<>> /\ rest \in Seq({"ids", "items"})
  /\ s.inOrder =>
       /\ s.asked[1] = kind
       /\ rest # <<>> => rest[Len(rest)] = s.asked[Len(s.asked)]
       /\ rest = <<>> => s.asked[Len(s.asked)] = kind
       /\ \A j \in DOMAIN s.asked : j = 1 \/ \E i \in DOMAIN rest : rest[i] = s.asked[j]

LEMMA AnsweredOne ==
  ASSUME NEW s \in Screen, NEW kind, NEW k \in Turn(s.asked, kind, s.inOrder)
  PROVE  Leaves(s, kind, RemoveAt(s.asked, k))
<1>0. PICK rest : rest = RemoveAt(s.asked, k)
  OBVIOUS
<1>1. s.asked \in Seq({"ids", "items"}) /\ k \in DOMAIN s.asked /\ s.asked[k] = kind
  BY DEF Screen, Turn
<1>2. s.asked # <<>> /\ rest \in Seq({"ids", "items"})
  BY <1>0, <1>1, RemoveAtType
<1>3. ASSUME s.inOrder
      PROVE  k = 1
  <2>1. 1 \in DOMAIN s.asked /\ k \in Nat /\ (k = 1 \/ 1 < k)
    BY <1>1
  <2> QED BY <1>3, <2>1 DEF Turn
<1>4. ASSUME s.inOrder
      PROVE  /\ s.asked[1] = kind
             /\ rest # <<>> => rest[Len(rest)] = s.asked[Len(s.asked)]
             /\ rest = <<>> => s.asked[Len(s.asked)] = kind
             /\ \A j \in DOMAIN s.asked : j = 1 \/ \E i \in DOMAIN rest : rest[i] = s.asked[j]
  <2>1. /\ Len(rest) = Len(s.asked) - 1 /\ Len(s.asked) \in Nat
        /\ \A i \in DOMAIN rest : i + 1 \in DOMAIN s.asked /\ rest[i] = s.asked[i + 1]
    BY <1>0, <1>1, <1>2, <1>3, <1>4, AskedTail
  <2>2. s.asked[1] = kind
    BY <1>1, <1>3, <1>4
  <2>3. ASSUME rest # <<>>
        PROVE  rest[Len(rest)] = s.asked[Len(s.asked)]
    <3>1. Len(rest) \in DOMAIN rest /\ Len(rest) + 1 = Len(s.asked)
      BY <1>2, <2>1, <2>3
    <3> QED BY <2>1, <3>1
  <2>4. ASSUME rest = <<>>
        PROVE  s.asked[Len(s.asked)] = kind
    <3>1. Len(s.asked) = 1
      BY <2>1, <2>4
    <3> QED BY <2>2, <3>1
  <2>5. ASSUME NEW j \in DOMAIN s.asked, j # 1
        PROVE  \E i \in DOMAIN rest : rest[i] = s.asked[j]
    <3>1. j - 1 \in DOMAIN rest /\ j - 1 + 1 = j
      BY <1>1, <1>2, <2>1, <2>5
    <3> QED BY <2>1, <3>1
  <2> QED BY <2>2, <2>3, <2>4, <2>5
<1> QED BY <1>0, <1>2, <1>4 DEF Leaves

LEMMA LoadIDsOK ==
  ASSUME NEW s \in Screen, NEW u, NEW listed, NEW there, ScreenOK(s, u, listed, there),
         NEW k \in Turn(s.asked, "ids", s.inOrder),
         NEW list \in Seq(ItemId), Ids(list) = listed,
         NEW t, t = GivenIDs(s, list, k)
  PROVE  t \in Screen /\ t.screen = "open" /\ ScreenOK(t, u, listed, there)
<1>1. PICK rest : rest = RemoveAt(s.asked, k)
  OBVIOUS
<1>2. /\ s.asked # <<>> /\ rest \in Seq({"ids", "items"})
      /\ s.inOrder =>
           /\ rest # <<>> => rest[Len(rest)] = s.asked[Len(s.asked)]
           /\ rest = <<>> => s.asked[Len(s.asked)] = "ids"
  <2>1. Leaves(s, "ids", RemoveAt(s.asked, k))
    BY AnsweredOne
  <2> QED BY <1>1, <2>1 DEF Leaves
<1>3. t = [s EXCEPT !.IDList = list, !.asked = rest]
  BY <1>1 DEF GivenIDs
<1>4. /\ t.screen = s.screen /\ t.uid = s.uid /\ t.asked = rest /\ t.IDList = list
      /\ t.ItemList = s.ItemList /\ t.rows = s.rows /\ t.reloads = s.reloads
      /\ t.inOrder = s.inOrder
  BY <1>3 DEF Screen
<1>5. t \in Screen
  BY <1>2, <1>3 DEF Screen
<1>6. ASSUME s.inOrder
      PROVE  InTurn(t, listed)
  <2>1. s.asked[Len(s.asked)] = "items"
    BY <1>2, <1>6 DEF ScreenOK, InTurn
  <2> QED BY <1>2, <1>4, <1>6, <2>1 DEF InTurn
<1> QED BY <1>2, <1>4, <1>5, <1>6 DEF ScreenOK

\* The answer is that there are no users, or no items.
LEMMA LoadNothingOK ==
  ASSUME NEW s \in Screen, NEW u, NEW there, ScreenOK(s, u, {}, there),
         NEW kind, NEW k \in Turn(s.asked, kind, s.inOrder),
         NEW t, t = GivenNothing(s, k)
  PROVE  t \in Screen /\ t.screen = "open" /\ ScreenOK(t, u, {}, there)
<1>1. PICK rest : rest = RemoveAt(s.asked, k)
  OBVIOUS
<1>2. /\ s.asked # <<>> /\ rest \in Seq({"ids", "items"})
      /\ s.inOrder => (rest # <<>> => rest[Len(rest)] = s.asked[Len(s.asked)])
  BY <1>1, AnsweredOne DEF Leaves
<1>3. t = [s EXCEPT !.asked = rest]
  BY <1>1 DEF GivenNothing
<1>4. /\ t.screen = s.screen /\ t.uid = s.uid /\ t.asked = rest /\ t.IDList = s.IDList
      /\ t.ItemList = s.ItemList /\ t.rows = s.rows /\ t.reloads = s.reloads
      /\ t.inOrder = s.inOrder
  BY <1>3 DEF Screen
<1>5. t \in Screen
  BY <1>2, <1>3 DEF Screen
<1>6. Ids(s.IDList) = {} /\ s.ItemList = {}
  BY DEF ScreenOK
<1>7. s.inOrder => InTurn(t, {})
  BY <1>2, <1>4, <1>6 DEF ScreenOK, InTurn
<1> QED BY <1>2, <1>4, <1>5, <1>7 DEF ScreenOK

\* The items that are there and that the list names: never fewer than before.
LEMMA LoadItemsOK ==
  ASSUME NEW s \in Screen, NEW u, NEW listed, NEW there, ScreenOK(s, u, listed, there),
         listed \subseteq there,
         NEW k \in Turn(s.asked, "items", s.inOrder),
         NEW t, t = GivenItems(s, there, k)
  PROVE  t \in Screen /\ t.screen = "open" /\ ScreenOK(t, u, listed, there)
<1>1. PICK rest : rest = RemoveAt(s.asked, k)
  OBVIOUS
<1>2. PICK shown : shown = there \cap Ids(s.IDList)
  OBVIOUS
<1>3. /\ s.asked # <<>> /\ rest \in Seq({"ids", "items"})
      /\ s.inOrder =>
           /\ s.asked[1] = "items"
           /\ rest # <<>> => rest[Len(rest)] = s.asked[Len(s.asked)]
           /\ \A j \in DOMAIN s.asked : j = 1 \/ \E i \in DOMAIN rest : rest[i] = s.asked[j]
  <2>1. Leaves(s, "items", RemoveAt(s.asked, k))
    BY AnsweredOne
  <2> QED BY <1>1, <2>1 DEF Leaves
<1>4. t = [s EXCEPT !.ItemList = shown, !.reloads = s.reloads + 1, !.asked = rest]
  BY <1>1, <1>2 DEF GivenItems
<1>5. s.reloads \in Nat /\ s.rows \in Nat /\ s.IDList \in Seq(ItemId)
  BY DEF Screen
<1>6. /\ t.screen = s.screen /\ t.uid = s.uid /\ t.asked = rest /\ t.IDList = s.IDList
      /\ t.ItemList = shown /\ t.rows = s.rows /\ t.reloads = s.reloads + 1
      /\ t.inOrder = s.inOrder
  BY <1>4 DEF Screen
<1>7. IsFiniteSet(Ids(s.IDList)) /\ Ids(s.IDList) \subseteq ItemId
  BY <1>5, FiniteIds
<1>8. t \in Screen
  <2>1. shown \in SUBSET ItemId
    BY <1>2, <1>7
  <2>2. s.reloads + 1 \in Nat
    BY <1>5
  <2> QED BY <1>3, <1>4, <2>1, <2>2 DEF Screen
<1>9. s.rows <= Cardinality(shown)
  <2>1. shown \in SUBSET Ids(s.IDList) /\ s.ItemList \in SUBSET shown
    BY <1>2 DEF ScreenOK
  <2>2. IsFiniteSet(shown)
    BY <1>7, <2>1, FS_Subset
  <2>3. /\ Cardinality(shown) \in Nat /\ Cardinality(s.ItemList) \in Nat
        /\ Cardinality(s.ItemList) <= Cardinality(shown)
    BY <2>1, <2>2, Fewer
  <2> QED BY <1>5, <2>3 DEF ScreenOK
<1>10. ASSUME s.inOrder
       PROVE  InTurn(t, listed)
  <2>1. InTurn(s, listed)
    BY <1>10 DEF ScreenOK
  <2>2. ASSUME \A i \in DOMAIN rest : rest[i] # "ids"
        PROVE  Ids(s.IDList) = listed /\ shown = listed
    <3>1. \A j \in DOMAIN s.asked : s.asked[j] # "ids"
      BY <1>3, <1>10, <2>2
    <3>2. Ids(s.IDList) = listed
      BY <2>1, <3>1 DEF InTurn
    <3> QED BY <1>2, <3>2
  <2>3. rest = <<>> => \A i \in DOMAIN rest : rest[i] # "ids"
    OBVIOUS
  <2> QED BY <1>3, <1>6, <1>10, <2>1, <2>2, <2>3 DEF InTurn
<1>11. t.reloads # 0
  BY <1>5, <1>6
<1> QED BY <1>2, <1>3, <1>6, <1>8, <1>9, <1>10, <1>11 DEF ScreenOK

LEMMA ReloadOK ==
  ASSUME NEW s \in Screen, NEW u, NEW listed, NEW there, ScreenOK(s, u, listed, there),
         s.reloads > 0,
         NEW t, t = [s EXCEPT !.reloads = s.reloads - 1, !.rows = Cardinality(s.ItemList)]
  PROVE  t \in Screen /\ t.screen = s.screen /\ ScreenOK(t, u, listed, there)
<1>1. PICK n : n = Cardinality(s.ItemList)
  OBVIOUS
<1>2. n \in Nat /\ s.reloads - 1 \in Nat
  BY <1>1, ShownIsFinite DEF ScreenOK, Screen
<1>3. t = [s EXCEPT !.reloads = s.reloads - 1, !.rows = n]
  BY <1>1
<1>4. /\ t.screen = s.screen /\ t.uid = s.uid /\ t.asked = s.asked /\ t.IDList = s.IDList
      /\ t.ItemList = s.ItemList /\ t.rows = n /\ t.inOrder = s.inOrder
  BY <1>3 DEF Screen
<1>5. t \in Screen
  BY <1>2, <1>3 DEF Screen
<1>6. s.inOrder => InTurn(t, listed)
  BY <1>4 DEF ScreenOK, InTurn
<1> QED BY <1>1, <1>2, <1>4, <1>5, <1>6 DEF ScreenOK

-----------------------------------------------------------------------------
(* Profile implements AddEntry                                             *)

LEMMA EntryStep ==
  ASSUME [ProfileNext]_profileVars
  PROVE  [Next]_vars
<1>1. ASSUME NEW d \in Device, OpenProfile(d) \/ Reappear(d) \/ ProfileAnswer(d) \/ Reload(d)
      PROVE  UNCHANGED vars
  BY <1>1 DEF OpenProfile, Reappear, ProfileAnswer, LoadIDs, LoadNoIDs, LoadItems,
              LoadNoItems, Reload
<1>2. ASSUME NEW d \in Device, Add(d) \/ SaveAndAppear(d) \/ BackAndAppear(d)
      PROVE  Next
  BY <1>2 DEF Add, SaveAndAppear, BackAndAppear, Next
<1>3. ASSUME NEW d \in Device, EntryAnswer(d) \/ Around(d)
      PROVE  Next
  BY <1>3 DEF EntryAnswer, Around, Next, Answer
<1>4. ASSUME NEW d \in Device, Dies(d)
      PROVE  Next
  <2>1. CASE IDsTrap(d)
    BY <2>1 DEF IDsTrap, Next, Kill
  <2>2. CASE LoadTraps(d) \/ (\E u \in Uid : StrayTraps(d, u)) \/ Kill(d)
    BY <2>2 DEF Next, Answer
  <2> QED BY <1>4, <2>1, <2>2 DEF Dies
<1>5. CASE UNCHANGED profileVars
  BY <1>5 DEF profileVars
<1> QED BY <1>1, <1>2, <1>3, <1>4, <1>5 DEF ProfileNext

\* The profile adds no behaviour to AddEntry: opening the screen, its requests,
\* its answers and its trap change nothing of the database, and the trap is one
\* more way for the process to die.
THEOREM ProfileImplementsAddEntry == ProfileSpec => Spec
<1>1. ProfileInit => Init
  BY DEF ProfileInit
<1>2. [ProfileNext]_profileVars => [Next]_vars
  BY EntryStep
<1> QED BY <1>1, <1>2, PTL DEF ProfileSpec, Spec

\* What is proved of AddEntry holds with the profile around it, on which the
\* runs check it.
THEOREM ProfileKeepsLists ==
  ASSUME FoundListedOnce, Patient, AccountsExclusive
  PROVE  ProfileSpec => []ListedItemsExist /\ []EachItemListedOnce /\ ImplementsWishList
<1>1. Spec => []ListedItemsExist
  BY ListedItemsAlwaysExist
<1>2. Spec => []EachItemListedOnce
  BY ItemsAlwaysListedOnce
<1>3. Spec => ImplementsWishList
  BY AddEntryImplementsWishList
<1> QED BY <1>1, <1>2, <1>3, ProfileImplementsAddEntry

-----------------------------------------------------------------------------
(* What the devices see                                                    *)

LEMMA ListedSame ==
  ASSUME NEW d \in Device, UNCHANGED <<pending[d], users[Account[d]]>>, items \subseteq items'
  PROVE  Listed(d)' = Listed(d) /\ ItemsSeen(d) \subseteq ItemsSeen(d)'
  BY DEF Listed, ItemListSeen, Seen, LatestWrite, ItemsSeen, UnsentItems

LEMMA NoneListed ==
  ASSUME NEW d \in Device, UsersSeen(d) = {}
  PROVE  Listed(d) = {}
<1>1. ItemListSeen(d, Account[d]) = Missing
  BY AddEntryAssumption DEF UsersSeen, RecordSeen, EmptyRecord
<1> QED BY <1>1, NothingListed DEF Listed

LEMMA ListedIsThere ==
  ASSUME TypeOK, NamedItemsComeFirst, NEW d \in Device
  PROVE  Listed(d) \subseteq ItemsSeen(d)
<1>1. CASE ItemListSeen(d, Account[d]) = Missing
  BY <1>1, NothingListed DEF Listed
<1>2. CASE ItemListSeen(d, Account[d]) # Missing
  BY <1>2, AddEntryAssumption, SeenItemsExist DEF Listed
<1> QED BY <1>1, <1>2

\* A save shows more items at once.
LEMMA SaveListsMore ==
  ASSUME TypeOK, SignedIn, Patient, NEW d \in Device, Chained(d), Save(d)
  PROVE  Listed(d) \subseteq Listed(d)' /\ ItemsSeen(d) \subseteq ItemsSeen(d)'
<1>0. PICK n : n = Len(pending[d])
  OBVIOUS
<1>1. PICK i \in ItemId \ minted : Issue(d, AddItem(d, i))
  BY DEF Save
<1>2. PICK list : list = Append(entry[d].itemIds, i)
  OBVIOUS
<1>3. /\ UNCHANGED <<users, items>>
      /\ pending' = [pending EXCEPT ![d] = @ \o AddItem(d, i)]
      /\ entry[d].load = "done"
  BY <1>1 DEF Issue, Save
<1>4. /\ pending[d] \in Seq(Write) /\ n \in Nat
      /\ AddItem(d, i) \in Seq(Write) /\ Len(AddItem(d, i)) = 2
      /\ pending'[d] = pending[d] \o AddItem(d, i)
  <2>1. AddItem(d, i) \in Seq(Write)
    BY AddEntryAssumption, AddItemType DEF SignedIn
  <2>2. Len(AddItem(d, i)) = 2
    BY DEF AddItem
  <2>3. pending \in [Device -> Seq(Write)]
    BY DEF TypeOK, FirebaseTypeOK
  <2> QED BY <2>1, <2>2, <2>3, <1>0, <1>3
<1>5. /\ Len(pending'[d]) = n + 2
      /\ DOMAIN pending'[d] = 1 .. n + 2 /\ DOMAIN pending[d] = 1 .. n
      /\ \A k \in 1 .. n : pending'[d][k] = pending[d][k]
      /\ pending'[d][n + 2] = AddItem(d, i)[2]
  BY <1>0, <1>4, ConcatPair
<1>6. Listed(d)' = Ids(list)
  <2>1. OwnWrites(d)' /\ EndsWithList(d)'
    BY SaveStaysChained DEF Chained
  <2>2. pending'[d] \in Seq(Write)
    BY <1>4
  <2>3. ItemListSeen(d, Account[d])' = IF pending'[d] = <<>> THEN users'[Account[d]].itemList
                                       ELSE pending'[d][Len(pending'[d])].value
    BY <2>1, <2>2, OwnListSeenNext
  <2>4. pending'[d] # <<>>
    BY <1>4, <1>5, <2>2
  <2>5. pending'[d][n + 2].value = list
    BY <1>2, <1>5 DEF AddItem
  <2> QED BY <1>5, <2>3, <2>4, <2>5 DEF Listed
<1>7. Ids(entry[d].itemIds) \subseteq Ids(list)
  <2>1. entry[d].itemIds \in Seq(ItemId)
    BY DEF TypeOK, Entry
  <2> QED BY <2>1, <1>2, FirebaseAssumption, IdsOfAppend
<1>8. Listed(d) \subseteq Ids(entry[d].itemIds)
  <2>1. CASE pending[d] = <<>>
    <3>1. ItemListSeen(d, Account[d]) = users[Account[d]].itemList
      BY <2>1, OwnListSeen DEF Chained
    <3> QED BY <1>3, <3>1 DEF Listed, Chained, KeptIsLatest, ServerIds
  <2>2. CASE pending[d] # <<>>
    <3>1. ItemListSeen(d, Account[d]) = pending[d][n].value /\ n \in ListWrites(d)
      BY <1>0, <2>2, OwnListSeen DEF Chained, EndsWithList
    <3> QED BY <1>3, <3>1 DEF Listed, Chained, KeptIsLatest
  <2> QED BY <2>1, <2>2
<1>9. \A k \in DOMAIN pending[d] : k \in DOMAIN pending'[d] /\ pending'[d][k] = pending[d][k]
  BY <1>4, <1>5
<1>10. ItemsSeen(d) \subseteq ItemsSeen(d)'
  BY <1>3, <1>9 DEF ItemsSeen, UnsentItems
<1> QED BY <1>6, <1>7, <1>8, <1>10

-----------------------------------------------------------------------------
(* The profile shows the latest list                                       *)

\* A step of one device leaves the other devices as they are.
LEMMA OthersAlone ==
  ASSUME TypeOK, NEW d \in Device, NEW e \in Device, e # d,
         \/ UNCHANGED vars \/ Open(d) \/ Save(d) \/ Back(d) \/ LoadNothing(d) \/ LoadItemIds(d)
         \/ Crash(d) \/ Launch(d) \/ \E u \in Uid : StrayIsIdle(d, u)
  PROVE  UNCHANGED <<pending[e], users[Account[e]], entry[e], items>>
  BY DEF vars, firebaseVars, addEntryVars, Open, Save, Issue, Back, Leave, LoadNothing,
         LoadItemIds, Crash, ProcessDies, Launch, ProcessStarts, StrayIsIdle, TypeOK,
         FirebaseTypeOK

LEMMA SendAlone ==
  ASSUME TypeOK, AccountsExclusive, AllChained, NEW d \in Device, Send(d)
  PROVE  /\ items \subseteq items'
         /\ \A e \in Device : e # d => UNCHANGED <<pending[e], users[Account[e]], entry[e]>>
  BY SendLeavesOthers DEF AllChained, Send, Commit

\* Only the profile of the device that moves is to be looked at.
LEMMA OneProfile ==
  ASSUME AllProfilesOK, NEW d \in Device, NEW s \in Screen,
         profile' = [profile EXCEPT ![d] = s],
         items \subseteq items',
         \A e \in Device : e # d => UNCHANGED <<pending[e], users[Account[e]], entry[e]>>,
         ScreenOK(s, Account[d], Listed(d)', ItemsSeen(d)'),
         entry'[d].screen = "open" => s.screen = "open"
  PROVE  AllProfilesOK'
<1>1. /\ profile' \in [Device -> Screen] /\ profile'[d] = s
      /\ \A e \in Device : e # d => profile'[e] = profile[e]
  BY DEF AllProfilesOK
<1>2. ProfileOK(d)'
  BY <1>1 DEF ProfileOK
<1>3. ASSUME NEW e \in Device, e # d
      PROVE  ProfileOK(e)'
  <2>1. Listed(e)' = Listed(e) /\ ItemsSeen(e) \subseteq ItemsSeen(e)'
    BY <1>3, ListedSame
  <2>2. ScreenOK(profile[e], Account[e], Listed(e), ItemsSeen(e))
    BY DEF AllProfilesOK, ProfileOK
  <2>3. ScreenOK(profile[e], Account[e], Listed(e), ItemsSeen(e)')
    BY <2>1, <2>2, UntouchedOK
  <2>4. entry'[e] = entry[e] /\ profile'[e] = profile[e]
    BY <1>1, <1>3
  <2> QED BY <2>1, <2>3, <2>4 DEF AllProfilesOK, ProfileOK
<1> QED BY <1>1, <1>2, <1>3 DEF AllProfilesOK

\* Nor that one, if its screens, its writes and its list stay as they are.
LEMMA NoProfile ==
  ASSUME AllProfilesOK, NEW d \in Device, UNCHANGED profile, items \subseteq items',
         \A e \in Device : e # d => UNCHANGED <<pending[e], users[Account[e]], entry[e]>>,
         Listed(d)' = Listed(d), ItemsSeen(d) \subseteq ItemsSeen(d)',
         entry'[d].screen = "open" => profile[d].screen = "open"
  PROVE  AllProfilesOK'
<1>1. /\ profile[d] \in Screen /\ profile' = [profile EXCEPT ![d] = profile[d]]
      /\ ScreenOK(profile[d], Account[d], Listed(d), ItemsSeen(d))
  BY DEF AllProfilesOK, ProfileOK
<1>2. ScreenOK(profile[d], Account[d], Listed(d)', ItemsSeen(d)')
  BY <1>1, UntouchedOK
<1> QED BY <1>1, <1>2, OneProfile

LEMMA AnswerKeepsProfiles ==
  ASSUME TypeOK, NamedItemsComeFirst, AllProfilesOK, NEW d \in Device,
         ProfileAnswer(d) \/ Reload(d)
  PROVE  AllProfilesOK'
<1> DEFINE s == profile[d]
<1>1. s \in Screen /\ ScreenOK(s, Account[d], Listed(d), ItemsSeen(d))
  BY DEF AllProfilesOK, ProfileOK
<1> HIDE DEF s
<1>2. UNCHANGED vars
  BY DEF ProfileAnswer, LoadIDs, LoadNoIDs, LoadItems, LoadNoItems, Reload
<1>3. /\ Listed(d)' = Listed(d) /\ ItemsSeen(d)' = ItemsSeen(d)
      /\ items \subseteq items' /\ entry' = entry
      /\ \A e \in Device : UNCHANGED <<pending[e], users[Account[e]], entry[e]>>
  BY <1>2 DEF vars, firebaseVars, addEntryVars, Listed, ItemListSeen, Seen, LatestWrite,
              ItemsSeen, UnsentItems
<1>4. ASSUME NEW t \in Screen, profile' = [profile EXCEPT ![d] = t],
             ScreenOK(t, Account[d], Listed(d), ItemsSeen(d)),
             t.screen = "open" \/ t.screen = s.screen
      PROVE  AllProfilesOK'
  <2>1. ScreenOK(t, Account[d], Listed(d)', ItemsSeen(d)')
    BY <1>3, <1>4
  <2>2. entry'[d].screen = "open" => t.screen = "open"
    BY <1>3, <1>4 DEF AllProfilesOK, ProfileOK, s
  <2> QED BY <1>3, <1>4, <2>1, <2>2, OneProfile
<1>5. CASE LoadIDs(d)
  <2>1. PICK k \in Turn(s.asked, "ids", s.inOrder) :
          /\ ItemListSeen(d, s.uid) # Missing
          /\ profile' = [profile EXCEPT ![d] = GivenIDs(s, ItemListSeen(d, s.uid), k)]
    BY <1>5 DEF LoadIDs, Asked, GivenIDs, s
  <2>2. s.uid = Account[d]
    BY <1>1, <2>1 DEF ScreenOK, Turn
  <2>3. PICK list : list = ItemListSeen(d, s.uid)
    OBVIOUS
  <2>4. list \in Seq(ItemId) /\ Ids(list) = Listed(d)
    BY <2>1, <2>2, <2>3, AddEntryAssumption, ItemListSeenType DEF Listed, TypeOK
  <2>5. PICK t : t = GivenIDs(s, list, k)
    OBVIOUS
  <2>6. t \in Screen /\ t.screen = "open" /\ ScreenOK(t, Account[d], Listed(d), ItemsSeen(d))
    BY <1>1, <2>1, <2>4, <2>5, LoadIDsOK
  <2>7. profile' = [profile EXCEPT ![d] = t]
    BY <2>1, <2>3, <2>5
  <2> QED BY <1>4, <2>6, <2>7
<1>6. ASSUME NEW kind, NEW k \in Turn(s.asked, kind, s.inOrder), Listed(d) = {},
             profile' = [profile EXCEPT ![d] = GivenNothing(s, k)]
      PROVE  AllProfilesOK'
  <2>1. PICK t : t = GivenNothing(s, k)
    OBVIOUS
  <2>2. ScreenOK(s, Account[d], {}, ItemsSeen(d))
    BY <1>1, <1>6
  <2>3. t \in Screen /\ t.screen = "open" /\ ScreenOK(t, Account[d], {}, ItemsSeen(d))
    BY <1>1, <1>6, <2>1, <2>2, LoadNothingOK
  <2> QED BY <1>4, <1>6, <2>1, <2>3
<1>7. CASE LoadNoIDs(d)
  <2>1. PICK k \in Turn(s.asked, "ids", s.inOrder) :
          profile' = [profile EXCEPT ![d] = GivenNothing(s, k)]
    BY <1>7 DEF LoadNoIDs, Asked, GivenNothing, s
  <2>2. Listed(d) = {}
    BY <1>7, NoneListed DEF LoadNoIDs
  <2> QED BY <1>6, <2>1, <2>2
<1>8. CASE LoadItems(d)
  <2>1. PICK k \in Turn(s.asked, "items", s.inOrder) :
          profile' = [profile EXCEPT ![d] = GivenItems(s, ItemsSeen(d), k)]
    BY <1>8 DEF LoadItems, Asked, GivenItems, s
  <2>2. PICK t : t = GivenItems(s, ItemsSeen(d), k)
    OBVIOUS
  <2>3. Listed(d) \subseteq ItemsSeen(d)
    BY ListedIsThere
  <2>4. t \in Screen /\ t.screen = "open" /\ ScreenOK(t, Account[d], Listed(d), ItemsSeen(d))
    BY <1>1, <2>1, <2>2, <2>3, LoadItemsOK
  <2> QED BY <1>4, <2>1, <2>2, <2>4
<1>9. CASE LoadNoItems(d)
  <2>1. PICK k \in Turn(s.asked, "items", s.inOrder) :
          profile' = [profile EXCEPT ![d] = GivenNothing(s, k)]
    BY <1>9 DEF LoadNoItems, Asked, GivenNothing, s
  <2>2. Listed(d) = {}
    BY <1>9, ListedIsThere DEF LoadNoItems
  <2> QED BY <1>6, <2>1, <2>2
<1>10. CASE Reload(d)
  <2>1. PICK t : t = [s EXCEPT !.reloads = s.reloads - 1, !.rows = Cardinality(s.ItemList)]
    OBVIOUS
  <2>2. profile' = [profile EXCEPT ![d] = t] /\ s.reloads > 0
    BY <1>10, <2>1 DEF Reload, Screen, s
  <2>3. t \in Screen /\ t.screen = s.screen
        /\ ScreenOK(t, Account[d], Listed(d), ItemsSeen(d))
    BY <1>1, <2>1, <2>2, ReloadOK, ZenonT(30)
  <2> QED BY <1>4, <2>2, <2>3
<1> QED BY <1>5, <1>7, <1>8, <1>9, <1>10 DEF ProfileAnswer

\* The profile appears, and asks for what may be a longer list than before.
LEMMA AppearKeepsProfiles ==
  ASSUME AllProfilesOK, NEW d \in Device, profile[d].screen = "open", Appear(d),
         items \subseteq items',
         \A e \in Device : e # d => UNCHANGED <<pending[e], users[Account[e]], entry[e]>>,
         Listed(d) \subseteq Listed(d)', ItemsSeen(d) \subseteq ItemsSeen(d)'
  PROVE  AllProfilesOK'
<1> DEFINE s == profile[d]
<1>1. /\ s \in Screen /\ s.screen = "open"
      /\ ScreenOK(s, Account[d], Listed(d), ItemsSeen(d))
  BY DEF AllProfilesOK, ProfileOK
<1>2. profile' = [profile EXCEPT ![d] = AskedMore(s)]
  BY DEF Appear, AskedMore
<1> HIDE DEF s
<1>3. PICK t : t = AskedMore(s)
  OBVIOUS
<1>4. t \in Screen /\ t.screen = "open" /\ ScreenOK(t, Account[d], Listed(d)', ItemsSeen(d)')
  <2>1. PICK more, still : more = Listed(d)' /\ still = ItemsSeen(d)'
    OBVIOUS
  <2>2. Listed(d) \subseteq more /\ ItemsSeen(d) \subseteq still
    BY <2>1
  <2>3. t \in Screen /\ t.screen = "open" /\ ScreenOK(t, Account[d], more, still)
    BY <1>1, <1>3, <2>2, AppearedOK
  <2> QED BY <2>1, <2>3
<1>5. profile' = [profile EXCEPT ![d] = t]
  BY <1>2, <1>3
<1> QED BY <1>4, <1>5, OneProfile

LEMMA ProfileStep ==
  ASSUME TypeOK, SignedIn, Patient, AccountsExclusive, AllChained, NamedItemsComeFirst,
         AllProfilesOK, [ProfileNext]_profileVars
  PROVE  AllProfilesOK'
<1>1. ASSUME NEW d \in Device, OpenProfile(d)
      PROVE  AllProfilesOK'
  <2>1. PICK inOrder \in BOOLEAN :
          profile' = [profile EXCEPT ![d] =
                        [ClosedProfile EXCEPT !.screen = "open", !.uid = currentUser[d],
                                              !.inOrder = inOrder,
                                              !.asked = Requests \o Requests]]
    BY <1>1 DEF OpenProfile
  <2>2. PICK u \in Uid : u = currentUser[d] /\ u = Account[d]
    BY AddEntryAssumption DEF SignedIn
  <2>3. PICK s : s = [ClosedProfile EXCEPT !.screen = "open", !.uid = u, !.inOrder = inOrder,
                                           !.asked = Requests \o Requests]
    OBVIOUS
  <2>4. /\ s \in Screen /\ s.screen = "open"
        /\ ScreenOK(s, Account[d], Listed(d)', ItemsSeen(d)')
    BY <2>1, <2>2, <2>3, OpenedOK
  <2>5. profile' = [profile EXCEPT ![d] = s]
    BY <2>1, <2>2, <2>3
  <2>6. UNCHANGED vars
    BY <1>1 DEF OpenProfile
  <2>7. items' = items
        /\ \A e \in Device : e # d => UNCHANGED <<pending[e], users[Account[e]], entry[e]>>
    BY <2>6 DEF vars, firebaseVars, addEntryVars
  <2> QED BY <2>4, <2>5, <2>7, OneProfile
<1>2. ASSUME NEW d \in Device, Reappear(d)
      PROVE  AllProfilesOK'
  <2>1. UNCHANGED vars /\ Appear(d) /\ profile[d].screen = "open"
    BY <1>2 DEF Reappear
  <2>2. items' = items
        /\ \A e \in Device : UNCHANGED <<pending[e], users[Account[e]], entry[e]>>
    BY <2>1 DEF vars, firebaseVars, addEntryVars
  <2>3. Listed(d)' = Listed(d) /\ ItemsSeen(d) \subseteq ItemsSeen(d)'
    BY <2>2, ListedSame
  <2> QED BY <2>1, <2>2, <2>3, AppearKeepsProfiles
<1>3. ASSUME NEW d \in Device, Save(d) \/ Back(d)
      PROVE  entry[d].screen = "open" /\ profile[d].screen = "open"
  BY <1>3 DEF Save, Back, AllProfilesOK, ProfileOK
<1>4. ASSUME NEW d \in Device, SaveAndAppear(d)
      PROVE  AllProfilesOK'
  <2>1. Save(d) /\ Appear(d) /\ profile[d].screen = "open"
    BY <1>3, <1>4 DEF SaveAndAppear
  <2>2. \A e \in Device : e # d => UNCHANGED <<pending[e], users[Account[e]], entry[e]>>
    BY <2>1, OthersAlone
  <2>3. items \subseteq items'
    BY <2>1 DEF Save
  <2>4. Listed(d) \subseteq Listed(d)' /\ ItemsSeen(d) \subseteq ItemsSeen(d)'
    BY <2>1, SaveListsMore DEF AllChained
  <2> QED BY <2>1, <2>2, <2>3, <2>4, AppearKeepsProfiles
<1>5. ASSUME NEW d \in Device, BackAndAppear(d)
      PROVE  AllProfilesOK'
  <2>1. Back(d) /\ Appear(d) /\ profile[d].screen = "open"
    BY <1>3, <1>5 DEF BackAndAppear
  <2>2. \A e \in Device : e # d => UNCHANGED <<pending[e], users[Account[e]], entry[e]>>
    BY <2>1, OthersAlone
  <2>3. items' = items /\ UNCHANGED <<pending[d], users[Account[d]]>>
    BY <2>1 DEF Back, firebaseVars
  <2>4. Listed(d)' = Listed(d) /\ ItemsSeen(d) \subseteq ItemsSeen(d)'
    BY <2>3, ListedSame
  <2> QED BY <2>1, <2>2, <2>3, <2>4, AppearKeepsProfiles
<1>6. ASSUME NEW d \in Device, Dies(d)
      PROVE  AllProfilesOK'
  <2>1. Crash(d) /\ profile' = [profile EXCEPT ![d] = ClosedProfile]
    BY <1>6 DEF Dies, IDsTrap, LoadTraps, StrayTraps, Trap, Kill
  <2>2. \A e \in Device : e # d => UNCHANGED <<pending[e], users[Account[e]], entry[e]>>
    BY <2>1, OthersAlone
  <2>3. items' = items /\ entry'[d].screen = "closed"
    BY <2>1 DEF Crash, ProcessDies, Closed, TypeOK
  <2>4. ClosedProfile \in Screen /\ ScreenOK(ClosedProfile, Account[d], Listed(d)', ItemsSeen(d)')
    BY ClosedProfileOK
  <2> QED BY <2>1, <2>2, <2>3, <2>4, OneProfile
<1>7. ASSUME NEW d \in Device, Add(d) \/ EntryAnswer(d) \/ (Around(d) /\ ~Send(d))
      PROVE  AllProfilesOK'
  <2>1. /\ UNCHANGED <<profile, items, pending, users>>
        /\ Open(d) \/ LoadNothing(d) \/ LoadItemIds(d) \/ Launch(d)
           \/ \E u \in Uid : StrayIsIdle(d, u)
    BY <1>7 DEF Add, EntryAnswer, Around, Open, LoadNothing, LoadItemIds, Launch, ProcessStarts,
                StrayIsIdle, firebaseVars
  <2>2. \A e \in Device : e # d => UNCHANGED <<pending[e], users[Account[e]], entry[e]>>
    BY <2>1, OthersAlone
  <2>3. Listed(d)' = Listed(d) /\ ItemsSeen(d) \subseteq ItemsSeen(d)'
    BY <2>1, ListedSame
  <2>4. entry'[d].screen = "open" => profile[d].screen = "open"
    <3>1. CASE Add(d)
      BY <3>1 DEF Add
    <3>2. CASE ~Add(d)
      <4>1. entry'[d].screen = entry[d].screen
        BY <1>7, <3>2 DEF EntryAnswer, Around, LoadNothing, LoadItemIds, Launch, addEntryVars,
                          StrayIsIdle, TypeOK, Entry
      <4> QED BY <4>1 DEF AllProfilesOK, ProfileOK
    <3> QED BY <3>1, <3>2
  <2> QED BY <2>1, <2>2, <2>3, <2>4, NoProfile
<1>8. ASSUME NEW d \in Device, Send(d), UNCHANGED profile
      PROVE  AllProfilesOK'
  <2>1. /\ items \subseteq items' /\ entry' = entry
        /\ \A e \in Device : e # d => UNCHANGED <<pending[e], users[Account[e]], entry[e]>>
    BY <1>8, SendAlone DEF Send, addEntryVars
  <2>2. Listed(d)' = Listed(d) /\ ItemsSeen(d) \subseteq ItemsSeen(d)'
    BY <1>8, SendKeepsSeen, SendKeepsItemsSeen DEF Listed, AllChained
  <2>3. entry'[d].screen = "open" => profile[d].screen = "open"
    BY <2>1 DEF AllProfilesOK, ProfileOK
  <2> QED BY <1>8, <2>1, <2>2, <2>3, NoProfile
<1>9. ASSUME UNCHANGED profileVars
      PROVE  AllProfilesOK'
  <2>1. UNCHANGED <<users, items, pending, entry, profile>>
    BY <1>9 DEF profileVars, vars, firebaseVars, addEntryVars
  <2>2. \A d \in Device : Listed(d)' = Listed(d)
    BY <2>1 DEF Listed, ItemListSeen, Seen, LatestWrite
  <2>3. \A d \in Device : ItemsSeen(d)' = ItemsSeen(d)
    BY <2>1 DEF ItemsSeen, UnsentItems
  <2> QED BY <2>1, <2>2, <2>3 DEF AllProfilesOK, ProfileOK
<1>10. ASSUME NEW d \in Device, Around(d), Send(d)
       PROVE  AllProfilesOK'
  BY <1>8, <1>10 DEF Around
<1>11. ASSUME NEW d \in Device, Add(d) \/ EntryAnswer(d) \/ Around(d)
       PROVE  AllProfilesOK'
  BY <1>7, <1>10, <1>11
<1>12. ASSUME NEW d \in Device, ProfileAnswer(d) \/ Reload(d)
       PROVE  AllProfilesOK'
  BY <1>12, AnswerKeepsProfiles
<1> QED BY <1>1, <1>2, <1>4, <1>5, <1>6, <1>9, <1>11, <1>12 DEF ProfileNext

LEMMA ProfilesInit ==
  ASSUME ProfileInit
  PROVE  AllProfilesOK
<1>1. profile = [d \in Device |-> ClosedProfile] /\ entry = [d \in Device |-> Closed]
  BY DEF ProfileInit, Init
<1>2. ASSUME NEW d \in Device
      PROVE  ProfileOK(d)
  <2>1. ScreenOK(ClosedProfile, Account[d], Listed(d), ItemsSeen(d))
    BY ClosedProfileOK
  <2> QED BY <1>1, <2>1 DEF ProfileOK, Closed
<1> QED BY <1>1, <1>2, ClosedProfileOK DEF AllProfilesOK

LEMMA ProfilesShow ==
  ASSUME TypeOK, SignedIn, AllProfilesOK
  PROVE  ProfileIsLatest
<1>1. ProfileTypeOK
  BY DEF ProfileTypeOK, AllProfilesOK
<1>2. ASSUME NEW d \in Device
      PROVE  /\ profile[d].rows <= Cardinality(profile[d].ItemList)
             /\ Settled(d) => /\ profile[d].ItemList = Ids(ItemListSeen(d, currentUser[d]))
                              /\ profile[d].rows = Cardinality(profile[d].ItemList)
  <2>1. ScreenOK(profile[d], Account[d], Listed(d), ItemsSeen(d))
    BY DEF AllProfilesOK, ProfileOK
  <2>2. currentUser[d] = Account[d]
    BY DEF SignedIn
  <2> QED BY <2>1, <2>2 DEF ScreenOK, InTurn, Settled, Listed
<1> QED BY <1>1, <1>2 DEF ProfileIsLatest

\* The table never asks for a row that is not there, and once the answers are in,
\* in order, the profile shows just the list of the user, the saved items
\* included, however the saves, answers, reloads, sends and deaths interleave,
\* if users wait for their list and no account is signed in on two devices.
THEOREM ProfileAlwaysLatest ==
  ASSUME Patient, AccountsExclusive
  PROVE  ProfileSpec => []ProfileIsLatest
<1> DEFINE Inv == TypeOK /\ SignedIn /\ AllChained /\ NamedItemsComeFirst
<1>1. Init => Inv
  BY TypeInit, StepwiseInit, NamedInit
<1>2. Inv /\ [Next]_vars => Inv'
  BY TypeStep, ChainedStep, NamedStep
<1>3. Spec => []Inv
  <2> HIDE DEF Inv
  <2> QED BY <1>1, <1>2, PTL DEF Spec
<1>4. ProfileInit => AllProfilesOK
  BY ProfilesInit
<1>5. Inv /\ AllProfilesOK /\ [ProfileNext]_profileVars => AllProfilesOK'
  BY ProfileStep
<1>6. Inv /\ AllProfilesOK => ProfileIsLatest
  BY ProfilesShow
<1> HIDE DEF Inv
<1> QED BY <1>3, <1>4, <1>5, <1>6, ProfileImplementsAddEntry, PTL DEF ProfileSpec

=============================================================================
