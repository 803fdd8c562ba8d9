--------------------------- MODULE UserPageProofs ---------------------------
(***************************************************************************)
(* Proofs about the feed and the page over it, for every set of devices,   *)
(* users and items: that their tables never ask for a row that is not      *)
(* there, and what they show once their answers are in.                    *)
(***************************************************************************)
EXTENDS UserPage, FirebaseProofs, FiniteSetTheorems

-----------------------------------------------------------------------------
(* What is assumed of the devices and of the users nodes the app finds     *)

AccountsExclusive == \A d, e \in Device : Account[d] = Account[e] => d = e

\* Sign-up puts every user on his own list and gives him a first item, which is
\* his alone; the other screens of a user who is Patient only add to the lists.
FoundWell ==
  \A db \in InitialUsers : \A u \in Uid :
    /\ db[u].friendList # Missing => u \in Ids(db[u].friendList)
    /\ db[u].itemList # <<>>
    /\ \A v \in Uid : u # v => Ids(db[u].itemList) \cap Ids(db[v].itemList) = {}

-----------------------------------------------------------------------------
(* The inductive invariant: the data                                       *)

\* A viewer writes the list of its user, who stays on it.
ViewerWrites(d) ==
  \A k \in DOMAIN pending[d] :
    /\ pending[d][k].node = "friendList"
    /\ pending[d][k].uid = Account[d]
    /\ Account[d] \in Ids(pending[d][k].value)

ListWrites(d) == {k \in DOMAIN pending[d] : pending[d][k].node = "itemList"}

\* The items d will have sent when it sends its k-th unsent write.
ItemsBefore(d, k) ==
  {pending[d][j].id : j \in {m \in DOMAIN pending[d] :
                               m < k /\ pending[d][m].node = "items"}}

\* What an adder writes: items, each before the first list that names it, and
\* lists that only grow; the last of them is the list it sees.
OwnWrites(d) ==
  /\ \A k \in DOMAIN pending[d] :
       /\ pending[d][k].node \in {"items", "itemList"}
       /\ pending[d][k].node = "itemList" =>
            pending[d][k].uid = Account[d] /\ pending[d][k].value # <<>>
  /\ pending[d] # <<>> => Len(pending[d]) \in ListWrites(d)

NamedFirst(d) ==
  \A k \in ListWrites(d) :
    Ids(pending[d][k].value) \subseteq items \cup ItemsBefore(d, k)

Chain(d) ==
  /\ \A k \in ListWrites(d) :
       Ids(users[Account[d]].itemList) \subseteq Ids(pending[d][k].value)
  /\ \A j, k \in ListWrites(d) :
       j < k => Ids(pending[d][j].value) \subseteq Ids(pending[d][k].value)

AdderWrites(d) == OwnWrites(d) /\ NamedFirst(d) /\ Chain(d)

RecordsOK ==
  \A u \in Uid :
    /\ users[u].friendList # Missing => u \in Ids(users[u].friendList)
    /\ users[u].itemList # <<>>
    /\ Ids(users[u].itemList) \subseteq items

\* Item i is on a list of user u, on the server or on its way there.
Lists(u, i) ==
  \/ i \in Ids(users[u].itemList)
  \/ \E d \in Device : \E k \in ListWrites(d) :
       pending[d][k].uid = u /\ i \in Ids(pending[d][k].value)

ListsApart == \A u, v \in Uid, i \in ItemId : Lists(u, i) /\ Lists(v, i) => u = v

DataOK ==
  /\ currentUser = Account
  /\ RecordsOK
  /\ \A d \in Viewer : ViewerWrites(d)
  /\ \A d \in Device \ Viewer : AdderWrites(d)
  /\ ListsApart

-----------------------------------------------------------------------------
(* The inductive invariant: the feed                                       *)

Friends(d) == Ids(FriendListSeen(d, Account[d]))

Latest(d) == {Last(users[u].itemList) : u \in Friends(d) \cap UsersSeen(d)}

\* The request for the names comes after the one for the ids, and so on.
OneAfterOther(asked) ==
  /\ \A j \in DOMAIN asked :
       asked[j] = "ids" => \E k \in DOMAIN asked : j < k /\ asked[k] = "names"
  /\ \A j \in DOMAIN asked :
       asked[j] = "names" => \E k \in DOMAIN asked : j < k /\ asked[k] = "items"

NoneAsked(asked, kind) == \A k \in DOMAIN asked : asked[k] # kind

\* A feed of user u, whose device sees these friends, users and items: each of
\* its arrays belongs to the one before it, as that is or was.
Arrays(f, u, friends, seen, there) ==
  /\ f.asked # <<>> => f.uid = u
  /\ Ids(f.friendList) \subseteq friends
  /\ f.friendNames \subseteq Ids(f.friendList) \cap seen
  /\ f.recentItemList \subseteq there
  /\ IsFiniteSet(f.recentItemList)
  /\ Cardinality(f.recentItemList) = Cardinality(f.friendNames)
  /\ f.recentItemNames \subseteq there
  /\ IsFiniteSet(f.recentItemNames)
  /\ Cardinality(f.recentItemNames) <= Cardinality(f.friendNames)
  /\ f.rows <= Cardinality(f.recentItemNames)

\* What has been answered, in order, since it appeared is as it is now.
UpToDate(f, friends, latest) ==
  /\ NoneAsked(f.asked, "ids") => Ids(f.friendList) = friends
  /\ NoneAsked(f.asked, "names") => f.recentItemList = latest
  /\ NoneAsked(f.asked, "items") => f.recentItemNames = latest

FeedOK(f, u, friends, seen, there, latest, new) ==
  /\ Arrays(f, u, friends, seen, there)
  /\ f.inOrder => OneAfterOther(f.asked)
  /\ f.inOrder /\ new => UpToDate(f, friends, latest)

FeedInv(d) ==
  FeedOK(feed[d], Account[d], Friends(d), UsersSeen(d), items, Latest(d), fresh[d])

-----------------------------------------------------------------------------
(* The inductive invariant: the page                                       *)

\* The items the server lists of user u; the page may be that of nobody.
ListedOf(u) == IF u \in Uid THEN Ids(users[u].itemList) ELSE {}

\* A page whose device sees these friends, and these items of its user.
PageOK(p, friends, listed) ==
  /\ p.screen = "open" => p.uid \in friends
  /\ p.screen = "open" /\ p.inOrder => p.following \/ ~NoneAsked(p.asked, "info")
  /\ p.following => p.uid \in Uid
  /\ p.items \subseteq p.itemList /\ p.itemList \subseteq listed
  /\ p.rows <= Cardinality(p.items)
  /\ p.reloads = 0 => p.rows = Cardinality(p.items)
  /\ p.inOrder /\ p.asked # <<>> => p.asked[Len(p.asked)] = "items"
  /\ p.inOrder /\ p.unchanged =>
       /\ NoneAsked(p.asked, "info") => p.itemList = listed
       /\ p.asked = <<>> => p.items = listed

PageInv(d) == PageOK(userVC[d], Friends(d), ListedOf(userVC[d].uid))

\* The types of what is proved first.
ScreensTypeOK ==
  /\ FirebaseTypeOK
  /\ feed \in [Device -> Feed]
  /\ fresh \in [Device -> BOOLEAN]

\* All of it, but for the copies.
PagesInv ==
  /\ ScreensTypeOK /\ PageTypeOK
  /\ DataOK
  /\ \A d \in Viewer : FeedInv(d) /\ PageInv(d)

\* The copy a screen has loaded is the list its device sees: only that device
\* writes it, and a write closes the screen or is made to the copy as well.
CopiesInv ==
  /\ userCopyVC \in [Device -> UserCopy]
  /\ addEntryVC \in [Device -> AddEntry]
  /\ \A d \in Viewer :
       userCopyVC[d].loaded =>
         userCopyVC[d].myFriendList = FriendListSeen(d, Account[d])
  /\ \A d \in Device \ Viewer :
       addEntryVC[d].loaded => addEntryVC[d].itemIds = ItemListSeen(d, Account[d])

\* What Follow and AddItem write then.
FollowSeen(d, u) ==
  /\ u \in UsersSeen(d)
  /\ FriendListSeen(d, currentUser[d]) # Missing
  /\ Issue(d, <<[node |-> "friendList", uid |-> currentUser[d],
                 value |-> Append(FriendListSeen(d, currentUser[d]), u)]>>)
  /\ fresh' = [fresh EXCEPT ![d] = FALSE]
  /\ UNCHANGED <<users, items, currentUser, up, feed>>

AddItemSeen(d, i) ==
  /\ i \in ItemId \ (items \cup UNION {UnsentItems(e) : e \in Device})
  /\ ItemListSeen(d, currentUser[d]) # Missing
  /\ Issue(d, <<[node |-> "items", id |-> i],
                [node |-> "itemList", uid |-> currentUser[d],
                 value |-> Append(ItemListSeen(d, currentUser[d]), i)]>>)
  /\ UNCHANGED <<users, items, currentUser, up, feed, fresh>>
-----------------------------------------------------------------------------
(* Finite sets and lists                                                   *)

\* Of a set within another one that is finite.
LEMMA Fewer ==
  ASSUME NEW S, NEW T \in SUBSET S, IsFiniteSet(S)
  PROVE  /\ IsFiniteSet(T) /\ Cardinality(S) \in Nat /\ Cardinality(T) \in Nat
         /\ Cardinality(T) <= Cardinality(S)
  BY FS_Subset, FS_CardinalityType

LEMMA FiniteIds ==
  ASSUME NEW S, NEW list \in Seq(S), Missing \notin Seq(S)
  PROVE  /\ IsFiniteSet(Ids(list)) /\ Ids(list) \subseteq S
         /\ Cardinality(Ids(list)) <= Len(list)
         /\ \A k \in 1 .. Len(list) : list[k] \in Ids(list)
<1>1. Len(list) \in Nat /\ list \in [1 .. Len(list) -> S]
  OBVIOUS
<1>2. Ids(list) = {list[k] : k \in 1 .. Len(list)}
  BY IdsOfSeq
<1>3. list \in Surjection(1 .. Len(list), Ids(list))
  BY <1>1, <1>2 DEF Surjection
<1>4. IsFiniteSet(1 .. Len(list)) /\ Cardinality(1 .. Len(list)) = Len(list)
  <2>1. 1 \in Int /\ Len(list) \in Int
    BY <1>1
  <2>2. /\ IsFiniteSet(1 .. Len(list))
        /\ Cardinality(1 .. Len(list)) = IF 1 > Len(list) THEN 0 ELSE Len(list) - 1 + 1
    BY <2>1, FS_Interval
  <2> QED BY <1>1, <2>2
<1>5. IsFiniteSet(Ids(list)) /\ Cardinality(Ids(list)) <= Cardinality(1 .. Len(list))
  BY <1>3, <1>4, FS_Surjection
<1> QED BY <1>1, <1>2, <1>4, <1>5

LEMMA FriendIds ==
  ASSUME NEW list \in Seq(Uid \cup {NoId})
  PROVE  /\ IsFiniteSet(Ids(list)) /\ Cardinality(Ids(list)) <= Len(list)
         /\ Ids(list) \subseteq Uid \cup {NoId}
         /\ \A k \in 1 .. Len(list) : list[k] \in Ids(list)
  BY FirebaseAssumption, FiniteIds

LEMMA ItemIds ==
  ASSUME NEW list \in Seq(ItemId)
  PROVE  IsFiniteSet(Ids(list)) /\ Ids(list) \subseteq ItemId
  BY FirebaseAssumption, FiniteIds

LEMMA LastIsListed ==
  ASSUME NEW list \in Seq(ItemId), list # <<>>
  PROVE  Last(list) \in Ids(list) /\ Last(list) \in ItemId
<1>1. Len(list) \in DOMAIN list /\ list[Len(list)] \in ItemId /\ list # Missing
  BY FirebaseAssumption
<1> QED BY <1>1 DEF Ids, Last

\* The last items of users whose lists have nothing in common are as many.
LEMMA LastApart ==
  ASSUME users \in [Uid -> Record], RecordsOK, ListsApart,
         NEW S \in SUBSET Uid, IsFiniteSet(S), \A u \in S : users[u].itemList # Missing,
         NEW T, T = {Last(users[u].itemList) : u \in S}
  PROVE  /\ IsFiniteSet(T) /\ Cardinality(T) = Cardinality(S)
         /\ T \subseteq items /\ T \subseteq ItemId
<1>1. ASSUME NEW u \in S
      PROVE  /\ Last(users[u].itemList) \in Ids(users[u].itemList)
             /\ Last(users[u].itemList) \in ItemId
             /\ Last(users[u].itemList) \in items
  <2>1. users[u].itemList \in Seq(ItemId) /\ users[u].itemList # <<>>
    BY DEF Record, RecordsOK
  <2>2. Last(users[u].itemList) \in Ids(users[u].itemList)
        /\ Last(users[u].itemList) \in ItemId
    BY <2>1, LastIsListed
  <2> QED BY <2>2 DEF RecordsOK
<1> DEFINE f == [u \in S |-> Last(users[u].itemList)]
<1>2. ASSUME NEW u \in S, NEW v \in S, f[u] = f[v]
      PROVE  u = v
  <2>1. f[u] \in Ids(users[u].itemList) /\ f[u] \in Ids(users[v].itemList) /\ f[u] \in ItemId
    BY <1>1, <1>2
  <2> QED BY <2>1 DEF ListsApart, Lists
<1>3. f \in Surjection(S, T) /\ f \in Injection(S, T)
  <2>1. f \in [S -> T] /\ \A t \in T : \E u \in S : f[u] = t
    OBVIOUS
  <2>2. \A u, v \in S : f[u] = f[v] => u = v
    BY <1>2
  <2> HIDE DEF f
  <2> QED BY <2>1, <2>2 DEF Surjection, Injection, IsInjective
<1>4. IsFiniteSet(T) /\ Cardinality(T) = Cardinality(S)
  BY <1>3, FS_Surjection
<1> QED BY <1>1, <1>4

-----------------------------------------------------------------------------
(* What a device sees                                                      *)

LEMMA NoneWritten ==
  ASSUME NEW d \in Device, NEW u, NEW child, NEW committed,
         \A k \in DOMAIN pending[d] : ~Overwrites(pending[d][k], u, child)
  PROVE  Seen(d, u, child, committed) = committed
<1>1. LatestWrite(d, u, child) = {}
  BY DEF LatestWrite
<1> QED BY <1>1 DEF Seen

LEMMA LastWritten ==
  ASSUME pending \in [Device -> Seq(Write)],
         NEW d \in Device, NEW u, NEW child, NEW committed, pending[d] # <<>>,
         Overwrites(pending[d][Len(pending[d])], u, child),
         pending[d][Len(pending[d])].node = child
  PROVE  Seen(d, u, child, committed) = pending[d][Len(pending[d])].value
<1>1. PICK n : n = Len(pending[d])
  OBVIOUS
<1>2. pending[d] \in Seq(Write) /\ DOMAIN pending[d] = 1 .. n /\ n \in Nat /\ n \in DOMAIN pending[d]
  BY <1>1
<1>3. n \in LatestWrite(d, u, child)
  <2>1. \A j \in DOMAIN pending[d] : ~(j > n)
    BY <1>2
  <2> QED BY <1>1, <1>2, <2>1 DEF LatestWrite
<1>4. \A i \in LatestWrite(d, u, child) : i = n
  <2>1. \A i \in DOMAIN pending[d] : i # n => n > i
    BY <1>2
  <2> QED BY <1>1, <1>2, <2>1 DEF LatestWrite
<1>5. (CHOOSE i \in LatestWrite(d, u, child) : TRUE) = n
  BY <1>3, <1>4
<1> QED BY <1>1, <1>3, <1>5 DEF Seen

\* A viewer sees what the server has, but for the friends of its user: the last
\* list it has written, if there is one.
SeesServer(d) ==
  /\ \A u \in Uid : /\ ProfileSeen(d, u) = users[u].profile
                    /\ ItemListSeen(d, u) = users[u].itemList
                    /\ u # Account[d] => FriendListSeen(d, u) = users[u].friendList
  /\ FriendListSeen(d, Account[d]) =
       IF pending[d] = <<>> THEN users[Account[d]].friendList
                            ELSE pending[d][Len(pending[d])].value
  /\ ItemsSeen(d) = items

ViewersSee ==
  \A d \in Device : FirebaseTypeOK /\ ViewerWrites(d) => SeesServer(d)

LEMMA ViewerSees == ViewersSee
<1> SUFFICES ASSUME NEW d \in Device, FirebaseTypeOK, ViewerWrites(d)
             PROVE  SeesServer(d)
  BY DEF ViewersSee
<1>1. ASSUME NEW u \in Uid
      PROVE  /\ ProfileSeen(d, u) = users[u].profile
             /\ ItemListSeen(d, u) = users[u].itemList
  <2>1. \A k \in DOMAIN pending[d] : /\ ~Overwrites(pending[d][k], u, "profile")
                                     /\ ~Overwrites(pending[d][k], u, "itemList")
    BY DEF ViewerWrites, Overwrites
  <2> QED BY <2>1, NoneWritten DEF ProfileSeen, ItemListSeen
<1>2. ASSUME NEW u \in Uid, u # Account[d]
      PROVE  FriendListSeen(d, u) = users[u].friendList
  <2>1. \A k \in DOMAIN pending[d] : ~Overwrites(pending[d][k], u, "friendList")
    BY <1>2 DEF ViewerWrites, Overwrites
  <2> QED BY <2>1, NoneWritten DEF FriendListSeen
<1>3. UnsentItems(d) = {}
  BY DEF ViewerWrites, UnsentItems
<1>4. CASE pending[d] = <<>>
  <2>1. FriendListSeen(d, Account[d]) = users[Account[d]].friendList
    BY <1>4, NoneWritten DEF FriendListSeen
  <2> QED BY <1>1, <1>2, <1>3, <1>4, <2>1 DEF ItemsSeen, SeesServer
<1>5. CASE pending[d] # <<>>
  <2>1. pending \in [Device -> Seq(Write)]
    BY DEF FirebaseTypeOK
  <2>2. Len(pending[d]) \in DOMAIN pending[d]
    BY <1>5, <2>1
  <2>3. /\ pending[d][Len(pending[d])].node = "friendList"
        /\ Overwrites(pending[d][Len(pending[d])], Account[d], "friendList")
    BY <2>2 DEF ViewerWrites, Overwrites
  <2>4. FriendListSeen(d, Account[d]) = pending[d][Len(pending[d])].value
    BY <1>5, <2>1, <2>3, LastWritten, Zenon DEF FriendListSeen
  <2> QED BY <1>1, <1>2, <1>3, <1>5, <2>4 DEF ItemsSeen, SeesServer
<1> QED BY <1>4, <1>5

LEMMA ViewerSeesNext == ViewersSee'
  BY ViewerSees, PTL

SeenAre ==
  \A d \in Device :
    UsersSeen(d) = {u \in Uid : \/ ProfileSeen(d, u) # Missing
                               \/ FriendListSeen(d, u) # Missing
                               \/ ItemListSeen(d, u) # Missing}

LEMMA UsersSeenAre == SeenAre
  BY DEF SeenAre, UsersSeen, RecordSeen, EmptyRecord

LEMMA UsersSeenAreNext == SeenAre'
  BY UsersSeenAre, PTL

LEMMA FriendListSeenOK ==
  ASSUME ScreensTypeOK, DataOK, NEW d \in Viewer, NEW u \in Uid
  PROVE  /\ FriendListSeen(d, u) \in Seq(Uid \cup {NoId}) \cup {Missing}
         /\ FriendListSeen(d, u) # Missing => u \in Ids(FriendListSeen(d, u))
<1>1. d \in Device /\ ViewerWrites(d) /\ pending \in [Device -> Seq(Write)] /\ SeesServer(d)
  BY FriendFeedAssumption, ViewerSees DEF DataOK, ScreensTypeOK, FirebaseTypeOK, ViewersSee
<1>2. /\ users[u].friendList \in Seq(Uid \cup {NoId}) \cup {Missing}
      /\ users[u].friendList # Missing => u \in Ids(users[u].friendList)
  BY DEF ScreensTypeOK, FirebaseTypeOK, Record, DataOK, RecordsOK
<1>3. CASE u # Account[d] \/ pending[d] = <<>>
  BY <1>1, <1>2, <1>3 DEF SeesServer
<1>4. CASE u = Account[d] /\ pending[d] # <<>>
  <2>1. PICK w : w = pending[d][Len(pending[d])]
    OBVIOUS
  <2>2. Len(pending[d]) \in DOMAIN pending[d]
    BY <1>1, <1>4
  <2>3. w \in Write /\ w.node = "friendList" /\ u \in Ids(w.value)
    BY <1>1, <1>4, <2>1, <2>2 DEF ViewerWrites
  <2>4. w.value \in Seq(Uid \cup {NoId})
    BY <2>3, WriteNodes
  <2> QED BY <1>1, <1>4, <2>1, <2>3, <2>4 DEF SeesServer
<1> QED BY <1>3, <1>4
\* What the screens of d read is the same, or there is more of it.
SameView(d) ==
  /\ Friends(d)' = Friends(d) /\ UsersSeen(d)' = UsersSeen(d) /\ Latest(d)' = Latest(d)
  /\ items' = items /\ \A u : ListedOf(u)' = ListedOf(u)

MoreView(d) ==
  /\ Friends(d) \subseteq Friends(d)' /\ UsersSeen(d) \subseteq UsersSeen(d)'
  /\ items \subseteq items' /\ \A u : ListedOf(u) \subseteq ListedOf(u)'

LEMMA UntouchedView ==
  ASSUME NEW d \in Device, UNCHANGED <<users, items, pending[d]>>
  PROVE  /\ SameView(d)
         /\ FriendListSeen(d, Account[d])' = FriendListSeen(d, Account[d])
         /\ ItemListSeen(d, Account[d])' = ItemListSeen(d, Account[d])
<1>1. \A u : /\ ProfileSeen(d, u)' = ProfileSeen(d, u)
             /\ FriendListSeen(d, u)' = FriendListSeen(d, u)
             /\ ItemListSeen(d, u)' = ItemListSeen(d, u)
  BY DEF ProfileSeen, FriendListSeen, ItemListSeen, Seen, LatestWrite, Overwrites
<1>2. UsersSeen(d)' = UsersSeen(d)
  BY <1>1 DEF UsersSeen, RecordSeen
<1>3. Friends(d)' = Friends(d)
  BY <1>1 DEF Friends
<1> QED BY <1>1, <1>2, <1>3 DEF SameView, Latest, ListedOf

\* Sending what a viewer wrote gives the server its user's list.
LEMMA ViewerSends ==
  ASSUME ScreensTypeOK, DataOK, NEW d \in Viewer, Commit(d),
         NEW w, w = Head(pending[d])
  PROVE  /\ items' = items
         /\ w \in Write /\ w.value \in Seq(Uid \cup {NoId}) /\ Account[d] \in Ids(w.value)
         /\ \A u \in Uid : users'[u] = IF u = Account[d]
                                       THEN [users[u] EXCEPT !.friendList = w.value]
                                       ELSE users[u]
<1>1. d \in Device /\ pending[d] \in Seq(Write) /\ pending[d] # <<>> /\ ViewerWrites(d)
  BY FriendFeedAssumption DEF Commit, ScreensTypeOK, FirebaseTypeOK, DataOK
<1>2. w = pending[d][1] /\ 1 \in DOMAIN pending[d] /\ w \in Write
  BY <1>1
<1>3. w.node = "friendList" /\ w.uid = Account[d] /\ Account[d] \in Ids(w.value)
  BY <1>1, <1>2 DEF ViewerWrites
<1>4. w.value \in Seq(Uid \cup {NoId})
  BY <1>2, <1>3, WriteNodes
<1>5. items' = items
  BY <1>3 DEF Commit
<1>6. \A u \in Uid : users'[u] = Written(w, u, users[u])
  BY DEF Commit
<1> QED BY <1>2, <1>3, <1>4, <1>5, <1>6 DEF Written

\* Sending what an adder wrote gives it an item, or a list that holds what the
\* one before did.
LEMMA AdderSends ==
  ASSUME ScreensTypeOK, DataOK, NEW d \in Device \ Viewer, Commit(d),
         NEW w, w = Head(pending[d])
  PROVE  /\ w \in Write
         /\ \/ /\ w.node = "items" /\ w.id \in ItemId /\ items' = items \cup {w.id}
               /\ \A u \in Uid : users'[u] = users[u]
            \/ /\ w.node = "itemList" /\ w.uid = Account[d]
               /\ w.value \in Seq(ItemId) /\ w.value # <<>>
               /\ Ids(users[Account[d]].itemList) \subseteq Ids(w.value)
               /\ Ids(w.value) \subseteq items
               /\ items' = items
               /\ \A u \in Uid : users'[u] = IF u = Account[d]
                                             THEN [users[u] EXCEPT !.itemList = w.value]
                                             ELSE users[u]
<1>1. pending[d] \in Seq(Write) /\ pending[d] # <<>> /\ AdderWrites(d)
  BY DEF Commit, ScreensTypeOK, FirebaseTypeOK, DataOK
<1>2. w = pending[d][1] /\ 1 \in DOMAIN pending[d] /\ w \in Write
  BY <1>1
<1>3. \A u \in Uid : users'[u] = Written(w, u, users[u])
  BY DEF Commit
<1>4. CASE w.node = "items"
  <2>1. w.id \in ItemId /\ items' = items \cup {w.id}
    BY <1>2, <1>4, WriteNodes DEF Commit
  <2>2. \A u \in Uid : users'[u] = users[u]
    BY <1>3, <1>4 DEF Written
  <2> QED BY <1>2, <1>4, <2>1, <2>2
<1>5. CASE w.node = "itemList"
  <2>1. w.uid = Account[d] /\ w.value # <<>> /\ 1 \in ListWrites(d)
    BY <1>1, <1>2, <1>5 DEF AdderWrites, OwnWrites, ListWrites
  <2>2. w.value \in Seq(ItemId)
    BY <1>2, <1>5, WriteNodes
  <2>3. Ids(users[Account[d]].itemList) \subseteq Ids(w.value)
    BY <1>1, <1>2, <2>1 DEF AdderWrites, Chain
  <2>4. Ids(w.value) \subseteq items
    <3>1. \A m \in DOMAIN pending[d] : ~(m < 1)
      BY <1>1
    <3>2. ItemsBefore(d, 1) = {}
      BY <3>1 DEF ItemsBefore
    <3> QED BY <1>1, <1>2, <2>1, <3>2 DEF AdderWrites, NamedFirst
  <2>5. items' = items
    BY <1>5 DEF Commit
  <2>6. \A u \in Uid : users'[u] = IF u = Account[d]
                                   THEN [users[u] EXCEPT !.itemList = w.value]
                                   ELSE users[u]
    BY <1>3, <1>5, <2>1 DEF Written
  <2> QED BY <1>2, <1>5, <2>1, <2>2, <2>3, <2>4, <2>5, <2>6
<1>6. w.node \in {"items", "itemList"}
  BY <1>1, <1>2 DEF AdderWrites, OwnWrites
<1> QED BY <1>4, <1>5, <1>6
\* The friends and users of a viewer, from what is on the server.
LEMMA SeenFrom ==
  ASSUME NEW d \in Device, SeesServer(d)
  PROVE  UsersSeen(d) = {u \in Uid : \/ users[u].profile # Missing
                                     \/ FriendListSeen(d, u) # Missing
                                     \/ users[u].itemList # Missing}
  BY UsersSeenAre DEF SeesServer, SeenAre

LEMMA SeenFromNext ==
  ASSUME NEW d \in Device, SeesServer(d)'
  PROVE  UsersSeen(d)' = {u \in Uid : \/ users'[u].profile # Missing
                                      \/ FriendListSeen(d, u)' # Missing
                                      \/ users'[u].itemList # Missing}
  BY UsersSeenAreNext DEF SeesServer, SeenAre

LEMMA OwnSendView ==
  ASSUME ScreensTypeOK, DataOK, NEW d \in Viewer, Commit(d), SeesServer(d)'
  PROVE  SameView(d) /\ FriendListSeen(d, Account[d])' = FriendListSeen(d, Account[d])
<1>1. PICK w : w = Head(pending[d])
  OBVIOUS
<1>2. /\ d \in Device /\ SeesServer(d) /\ Account[d] \in Uid
      /\ pending[d] \in Seq(Write) /\ pending[d] # <<>> /\ pending'[d] = Tail(pending[d])
      /\ users \in [Uid -> Record]
  BY FriendFeedAssumption, ViewerSees DEF DataOK, ScreensTypeOK, FirebaseTypeOK, ViewersSee, Commit
<1>3. /\ items' = items /\ w.value \in Seq(Uid \cup {NoId}) /\ Account[d] \in Ids(w.value)
      /\ \A u \in Uid : users'[u] = IF u = Account[d]
                                    THEN [users[u] EXCEPT !.friendList = w.value]
                                    ELSE users[u]
  BY <1>1, ViewerSends
<1>4. \A u \in Uid : /\ users'[u].profile = users[u].profile
                     /\ users'[u].itemList = users[u].itemList
                     /\ u # Account[d] => users'[u].friendList = users[u].friendList
                     /\ u = Account[d] => users'[u].friendList = w.value
  BY <1>2, <1>3 DEF Record
<1>5. FriendListSeen(d, Account[d])' = FriendListSeen(d, Account[d])
  <2>1. FriendListSeen(d, Account[d]) = pending[d][Len(pending[d])].value
    BY <1>2 DEF SeesServer
  <2>2. CASE Tail(pending[d]) = <<>>
    <3>1. Len(Tail(pending[d])) = Len(pending[d]) - 1 /\ Head(pending[d]) = pending[d][1]
      BY <1>2, TailShift
    <3>2. Len(pending[d]) = 1 /\ pending[d][1] = w
      <4>1. Len(<<>>) = 0
        OBVIOUS
      <4>2. Len(Tail(pending[d])) = 0
        BY <2>2, <4>1, Zenon
      <4>3. Len(pending[d]) \in Nat
        BY <1>2
      <4> QED BY <1>1, <3>1, <4>2, <4>3
    <3>3. FriendListSeen(d, Account[d])' = users'[Account[d]].friendList
      BY <1>2, <2>2 DEF SeesServer
    <3> QED BY <1>2, <1>4, <2>1, <3>2, <3>3
  <2>3. CASE Tail(pending[d]) # <<>>
    <3>1. Tail(pending[d])[Len(Tail(pending[d]))] = pending[d][Len(pending[d])]
      BY <1>2, <2>3
    <3>2. FriendListSeen(d, Account[d])' = pending'[d][Len(pending'[d])].value
      BY <1>2, <2>3 DEF SeesServer
    <3> QED BY <1>2, <2>1, <3>1, <3>2
  <2> QED BY <2>2, <2>3
<1>6. \A u \in Uid : FriendListSeen(d, u)' = FriendListSeen(d, u)
  BY <1>2, <1>4, <1>5 DEF SeesServer
<1>7. Friends(d)' = Friends(d)
  BY <1>5 DEF Friends
<1>8. UsersSeen(d)' = UsersSeen(d)
  <2>1. \A u \in Uid : u \in UsersSeen(d) <=> \/ users[u].profile # Missing
                                              \/ FriendListSeen(d, u) # Missing
                                              \/ users[u].itemList # Missing
    BY <1>2, SeenFrom
  <2>2. \A u \in Uid : u \in UsersSeen(d)' <=> \/ users'[u].profile # Missing
                                               \/ FriendListSeen(d, u)' # Missing
                                               \/ users'[u].itemList # Missing
    BY <1>2, SeenFromNext
  <2>3. UsersSeen(d) \subseteq Uid /\ UsersSeen(d)' \subseteq Uid
    BY DEF UsersSeen
  <2>4. \A u \in Uid : u \in UsersSeen(d) <=> u \in UsersSeen(d)'
    BY <1>4, <1>6, <2>1, <2>2
  <2> QED BY <2>3, <2>4
<1>9. \A u : ListedOf(u)' = ListedOf(u)
  BY <1>4 DEF ListedOf
<1>10. Latest(d)' = Latest(d)
  <2>1. \A u \in UsersSeen(d) : u \in Uid
    BY DEF UsersSeen
  <2> QED BY <1>4, <1>7, <1>8, <2>1 DEF Latest
<1> QED BY <1>3, <1>5, <1>7, <1>8, <1>9, <1>10 DEF SameView

LEMMA OtherSendView ==
  ASSUME ScreensTypeOK, DataOK, AccountsExclusive, NEW d \in Viewer, NEW e \in Device, e # d, Commit(e),
         SeesServer(d)'
  PROVE  MoreView(d) /\ FriendListSeen(d, Account[d])' = FriendListSeen(d, Account[d])
<1>1. PICK w : w = Head(pending[e])
  OBVIOUS
<1>2. /\ d \in Device /\ SeesServer(d) /\ Account[d] \in Uid /\ Account[e] \in Uid
      /\ Account[e] # Account[d] /\ pending'[d] = pending[d] /\ users \in [Uid -> Record]
  BY FriendFeedAssumption, ViewerSees
  DEF AccountsExclusive, DataOK, ScreensTypeOK, FirebaseTypeOK, ViewersSee, Commit
<1>3. /\ items \subseteq items'
      /\ \A u \in Uid : /\ users'[u].profile = users[u].profile
                        /\ users[u].itemList # Missing => users'[u].itemList # Missing
                        /\ Ids(users[u].itemList) \subseteq Ids(users'[u].itemList)
                        /\ users[u].friendList # Missing => users'[u].friendList # Missing
                        /\ u = Account[d] => users'[u].friendList = users[u].friendList
  <2>1. CASE e \in Viewer
    <3>1. /\ items' = items /\ w.value \in Seq(Uid \cup {NoId})
          /\ \A u \in Uid : users'[u] = IF u = Account[e]
                                        THEN [users[u] EXCEPT !.friendList = w.value]
                                        ELSE users[u]
      BY <1>1, <2>1, ViewerSends
    <3>2. w.value # Missing
      BY <3>1, FirebaseAssumption
    <3> QED BY <1>2, <3>1, <3>2 DEF Record
  <2>2. CASE e \notin Viewer
    <3>1. \/ items \subseteq items' /\ \A u \in Uid : users'[u] = users[u]
          \/ /\ w.value \in Seq(ItemId)
             /\ Ids(users[Account[e]].itemList) \subseteq Ids(w.value)
             /\ items' = items
             /\ \A u \in Uid : users'[u] = IF u = Account[e]
                                           THEN [users[u] EXCEPT !.itemList = w.value]
                                           ELSE users[u]
      BY <1>1, <2>2, AdderSends
    <3>2. w.value \in Seq(ItemId) => w.value # Missing
      BY FirebaseAssumption
    <3> QED BY <1>2, <3>1, <3>2 DEF Record
  <2> QED BY <2>1, <2>2
<1>4. FriendListSeen(d, Account[d])' = FriendListSeen(d, Account[d])
  BY <1>2, <1>3 DEF SeesServer
<1>5. \A u \in Uid : FriendListSeen(d, u) # Missing => FriendListSeen(d, u)' # Missing
  BY <1>2, <1>3, <1>4 DEF SeesServer
<1>6. UsersSeen(d) \subseteq UsersSeen(d)'
  BY <1>2, <1>3, <1>5, SeenFrom, SeenFromNext
<1> QED BY <1>3, <1>4, <1>6 DEF MoreView, Friends, ListedOf

\* Following somebody adds to the friends the user sees.
LEMMA FollowView ==
  ASSUME ScreensTypeOK, DataOK, NEW d \in Viewer, NEW u, FollowSeen(d, u), SeesServer(d)'
  PROVE  /\ MoreView(d) /\ items' = items /\ \A v : ListedOf(v)' = ListedOf(v)
         /\ FriendListSeen(d, Account[d])' = Append(FriendListSeen(d, Account[d]), u)
<1>1. /\ u \in UsersSeen(d) /\ FriendListSeen(d, currentUser[d]) # Missing
      /\ Issue(d, <<[node |-> "friendList", uid |-> currentUser[d],
                     value |-> Append(FriendListSeen(d, currentUser[d]), u)]>>)
      /\ UNCHANGED <<users, items, currentUser, up, feed>>
  BY DEF FollowSeen
<1>2. /\ d \in Device /\ SeesServer(d) /\ Account[d] \in Uid /\ currentUser[d] = Account[d]
      /\ pending[d] \in Seq(Write) /\ u \in Uid
  BY <1>1, FriendFeedAssumption, ViewerSees DEF DataOK, ScreensTypeOK, FirebaseTypeOK, ViewersSee, UsersSeen
<1>3. PICK list : list = FriendListSeen(d, Account[d])
  OBVIOUS
<1>4. list \in Seq(Uid \cup {NoId}) /\ Append(list, u) \in Seq(Uid \cup {NoId})
  BY <1>1, <1>2, <1>3, FriendListSeenOK
<1>5. PICK w : w = [node |-> "friendList", uid |-> Account[d], value |-> Append(list, u)]
  OBVIOUS
<1>6. pending'[d] = pending[d] \o <<w>>
  BY <1>1, <1>2, <1>3, <1>5 DEF Issue, ScreensTypeOK, FirebaseTypeOK
<1>7. FriendListSeen(d, Account[d])' = Append(list, u)
  <2>1. w \in Write
    BY <1>2, <1>4, <1>5 DEF Write, FriendListWrite
  <2>2. pending[d] \o <<w>> # <<>> /\ (pending[d] \o <<w>>)[Len(pending[d] \o <<w>>)] = w
    BY <1>2, <2>1
  <2> QED BY <1>2, <1>5, <1>6, <2>2 DEF SeesServer
<1>8. Ids(Append(list, u)) = Ids(list) \cup {u} /\ Append(list, u) # Missing
  BY <1>2, <1>4, FirebaseAssumption, IdsOfAppend
<1>9. Friends(d) \subseteq Friends(d)'
  BY <1>3, <1>7, <1>8 DEF Friends
<1>10. \A v \in Uid : FriendListSeen(d, v) # Missing => FriendListSeen(d, v)' # Missing
  BY <1>1, <1>2, <1>7, <1>8 DEF SeesServer
<1>11. UsersSeen(d) \subseteq UsersSeen(d)'
  BY <1>1, <1>2, <1>10, SeenFrom, SeenFromNext
<1> QED BY <1>1, <1>3, <1>7, <1>9, <1>11 DEF MoreView, ListedOf
-----------------------------------------------------------------------------
(* The data stays in order                                                 *)

LEMMA AdderKept ==
  ASSUME NEW e \in Device, AdderWrites(e), pending'[e] = pending[e], items \subseteq items',
         users'[Account[e]].itemList = users[Account[e]].itemList
  PROVE  AdderWrites(e)'
<1>1. ListWrites(e)' = ListWrites(e) /\ \A k : ItemsBefore(e, k)' = ItemsBefore(e, k)
  BY DEF ListWrites, ItemsBefore
<1>2. OwnWrites(e)'
  BY <1>1 DEF AdderWrites, OwnWrites
<1>3. NamedFirst(e)'
  BY <1>1 DEF AdderWrites, NamedFirst
<1>4. Chain(e)'
  BY <1>1 DEF AdderWrites, Chain
<1> QED BY <1>2, <1>3, <1>4 DEF AdderWrites

LEMMA ViewerKept ==
  ASSUME NEW e \in Device, ViewerWrites(e), pending'[e] = pending[e]
  PROVE  ViewerWrites(e)'
  BY DEF ViewerWrites

LEMMA StayApart ==
  ASSUME ListsApart, \A u \in Uid, i \in ItemId : Lists(u, i)' => Lists(u, i)
  PROVE  ListsApart'
  BY DEF ListsApart

LEMMA QuietData ==
  ASSUME DataOK, UNCHANGED <<users, items, pending, currentUser>>
  PROVE  DataOK'
<1>1. \A d \in Viewer : ViewerWrites(d)'
  BY FriendFeedAssumption, ViewerKept DEF DataOK
<1>2. \A d \in Device \ Viewer : AdderWrites(d)'
  BY AdderKept DEF DataOK
<1>3. ListsApart'
  <2>1. \A u \in Uid, i \in ItemId : Lists(u, i)' => Lists(u, i)
    BY DEF Lists, ListWrites
  <2> QED BY <2>1, StayApart DEF DataOK
<1> QED BY <1>1, <1>2, <1>3 DEF DataOK, RecordsOK

\* What a viewer had not sent is lost.
LEMMA CrashData ==
  ASSUME ScreensTypeOK, DataOK, NEW d \in Viewer, ProcessDies(d)
  PROVE  DataOK'
<1>1. /\ UNCHANGED <<users, items, currentUser>> /\ d \in Device
      /\ pending'[d] = <<>> /\ \A e \in Device : e # d => pending'[e] = pending[e]
  BY FriendFeedAssumption DEF ProcessDies, ScreensTypeOK, FirebaseTypeOK
<1>2. \A e \in Viewer : ViewerWrites(e)'
  <2>1. ViewerWrites(d)'
    BY <1>1 DEF ViewerWrites
  <2> QED BY <1>1, <2>1, FriendFeedAssumption, ViewerKept DEF DataOK
<1>3. \A e \in Device \ Viewer : AdderWrites(e)'
  BY <1>1, AdderKept DEF DataOK
<1>4. ListsApart'
  <2>1. ListWrites(d)' = {} /\ \A e \in Device : e # d => ListWrites(e)' = ListWrites(e)
    BY <1>1 DEF ListWrites
  <2>2. \A u \in Uid, i \in ItemId : Lists(u, i)' => Lists(u, i)
    BY <1>1, <2>1 DEF Lists
  <2> QED BY <2>2, StayApart DEF DataOK
<1> QED BY <1>1, <1>2, <1>3, <1>4 DEF DataOK, RecordsOK

LEMMA FollowData ==
  ASSUME ScreensTypeOK, DataOK, NEW d \in Viewer, NEW u, FollowSeen(d, u)
  PROVE  DataOK' /\ pending' \in [Device -> Seq(Write)]
<1>1. /\ u \in UsersSeen(d) /\ FriendListSeen(d, currentUser[d]) # Missing
      /\ Issue(d, <<[node |-> "friendList", uid |-> currentUser[d],
                     value |-> Append(FriendListSeen(d, currentUser[d]), u)]>>)
      /\ UNCHANGED <<users, items, currentUser, up, feed>>
  BY DEF FollowSeen
<1>2. /\ d \in Device /\ Account[d] \in Uid /\ currentUser[d] = Account[d] /\ u \in Uid
      /\ pending[d] \in Seq(Write) /\ ViewerWrites(d)
  BY <1>1, FriendFeedAssumption DEF DataOK, ScreensTypeOK, FirebaseTypeOK, UsersSeen
<1>3. PICK list : list = FriendListSeen(d, Account[d])
  OBVIOUS
<1>4. /\ list \in Seq(Uid \cup {NoId}) /\ Append(list, u) \in Seq(Uid \cup {NoId})
      /\ Account[d] \in Ids(list)
  BY <1>1, <1>2, <1>3, FriendListSeenOK
<1>5. PICK w : w = [node |-> "friendList", uid |-> Account[d], value |-> Append(list, u)]
  OBVIOUS
<1>6. w \in Write
  BY <1>2, <1>4, <1>5 DEF Write, FriendListWrite
<1>7. pending' = [pending EXCEPT ![d] = pending[d] \o <<w>>]
  BY <1>1, <1>2, <1>3, <1>5 DEF Issue
<1>8. /\ pending'[d] = pending[d] \o <<w>> /\ \A e \in Device : e # d => pending'[e] = pending[e]
      /\ pending' \in [Device -> Seq(Write)]
  BY <1>2, <1>6, <1>7 DEF ScreensTypeOK, FirebaseTypeOK
<1>9. \A k \in DOMAIN pending'[d] :
        pending'[d][k] = w \/ (k \in DOMAIN pending[d] /\ pending'[d][k] = pending[d][k])
  BY <1>2, <1>6, <1>8
<1>10. Account[d] \in Ids(w.value)
  <2>1. Ids(Append(list, u)) = Ids(list) \cup {u}
    BY <1>2, <1>4, FirebaseAssumption, IdsOfAppend
  <2> QED BY <1>4, <1>5, <2>1
<1>11. \A e \in Viewer : ViewerWrites(e)'
  <2>1. ViewerWrites(d)'
    <3>1. w.node = "friendList" /\ w.uid = Account[d]
      BY <1>5
    <3>2. ASSUME NEW k \in DOMAIN pending'[d]
          PROVE  /\ pending'[d][k].node = "friendList"
                 /\ pending'[d][k].uid = Account[d]
                 /\ Account[d] \in Ids(pending'[d][k].value)
      <4>1. CASE pending'[d][k] = w
        BY <3>1, <4>1, <1>10
      <4>2. CASE k \in DOMAIN pending[d] /\ pending'[d][k] = pending[d][k]
        BY <4>2, <1>2 DEF ViewerWrites
      <4> QED BY <3>2, <4>1, <4>2, <1>9
    <3> QED BY <3>2 DEF ViewerWrites
  <2> QED BY <1>8, <2>1, FriendFeedAssumption, ViewerKept DEF DataOK
<1>12. \A e \in Device \ Viewer : AdderWrites(e)'
  <2>1. \A e \in Device \ Viewer : pending'[e] = pending[e]
    BY <1>8
  <2> QED BY <1>1, <2>1, AdderKept DEF DataOK
<1>13. ListsApart'
  <2>1. ListWrites(d)' = {}
    BY <1>11 DEF ViewerWrites, ListWrites
  <2>2. \A e \in Device : e # d => ListWrites(e)' = ListWrites(e)
    BY <1>8 DEF ListWrites
  <2>3. \A v \in Uid, i \in ItemId : Lists(v, i)' => Lists(v, i)
    BY <1>1, <1>8, <2>1, <2>2 DEF Lists
  <2> QED BY <2>3, StayApart DEF DataOK
<1> QED BY <1>1, <1>8, <1>11, <1>12, <1>13 DEF DataOK, RecordsOK
\* The list an adder sees is the last one it has written, or the server's.
LEMMA AdderSees ==
  ASSUME FirebaseTypeOK, NEW d \in Device, OwnWrites(d), Account[d] \in Uid
  PROVE  /\ ItemListSeen(d, Account[d]) = IF pending[d] = <<>>
                                          THEN users[Account[d]].itemList
                                          ELSE pending[d][Len(pending[d])].value
         /\ ItemListSeen(d, Account[d]) \in Seq(ItemId) \cup {Missing}
<1>1. CASE pending[d] = <<>>
  <2>1. ItemListSeen(d, Account[d]) = users[Account[d]].itemList
    BY <1>1, NoneWritten DEF ItemListSeen
  <2> QED BY <1>1, <2>1 DEF FirebaseTypeOK, Record
<1>2. CASE pending[d] # <<>>
  <2>1. pending \in [Device -> Seq(Write)]
    BY DEF FirebaseTypeOK
  <2>2. Len(pending[d]) \in ListWrites(d)
    BY <1>2 DEF OwnWrites
  <2>3. /\ pending[d][Len(pending[d])] \in Write
        /\ pending[d][Len(pending[d])].node = "itemList"
        /\ Overwrites(pending[d][Len(pending[d])], Account[d], "itemList")
    BY <2>1, <2>2 DEF OwnWrites, ListWrites, Overwrites
  <2>4. ItemListSeen(d, Account[d]) = pending[d][Len(pending[d])].value
    BY <1>2, <2>1, <2>3, LastWritten, Zenon DEF ItemListSeen
  <2>5. pending[d][Len(pending[d])].value \in Seq(ItemId)
    BY <2>3, WriteNodes
  <2> QED BY <1>2, <2>4, <2>5
<1> QED BY <1>1, <1>2

AddersSee ==
  \A d \in Device :
    FirebaseTypeOK /\ OwnWrites(d) =>
      ItemListSeen(d, Account[d]) = IF pending[d] = <<>>
                                    THEN users[Account[d]].itemList
                                    ELSE pending[d][Len(pending[d])].value

LEMMA AdderSeesNext == AddersSee'
<1>1. AddersSee
  BY FriendFeedAssumption, AdderSees DEF AddersSee
<1> QED BY <1>1, PTL

\* Whatever is on the server or on its way there, the list it sees holds, and
\* holds nothing else.
LEMMA AdderSeesAll ==
  ASSUME ScreensTypeOK, DataOK, NEW d \in Device \ Viewer, NEW list \in Seq(ItemId),
         list = ItemListSeen(d, Account[d])
  PROVE  /\ Ids(users[Account[d]].itemList) \subseteq Ids(list)
         /\ \A k \in ListWrites(d) : Ids(pending[d][k].value) \subseteq Ids(list)
         /\ Ids(list) \subseteq items \cup UnsentItems(d)
         /\ \A i \in Ids(list) : Lists(Account[d], i)
<1>1. /\ Account[d] \in Uid /\ FirebaseTypeOK /\ pending[d] \in Seq(Write)
      /\ OwnWrites(d) /\ NamedFirst(d) /\ Chain(d)
  BY FriendFeedAssumption DEF ScreensTypeOK, FirebaseTypeOK, DataOK, AdderWrites
<1>2. list = IF pending[d] = <<>> THEN users[Account[d]].itemList
                                  ELSE pending[d][Len(pending[d])].value
  BY <1>1, AdderSees
<1>3. CASE pending[d] = <<>>
  <2>1. ListWrites(d) = {}
    BY <1>3 DEF ListWrites
  <2> QED BY <1>1, <1>2, <1>3, <2>1 DEF DataOK, RecordsOK, Lists
<1>4. CASE pending[d] # <<>>
  <2>1. PICK n : n = Len(pending[d])
    OBVIOUS
  <2>2. n \in ListWrites(d) /\ list = pending[d][n].value
    BY <1>1, <1>2, <1>4, <2>1 DEF OwnWrites
  <2>3. \A k \in ListWrites(d) : k = n \/ k < n
    BY <1>1, <2>1 DEF ListWrites
  <2>4. /\ Ids(users[Account[d]].itemList) \subseteq Ids(list)
        /\ \A k \in ListWrites(d) : Ids(pending[d][k].value) \subseteq Ids(list)
    BY <1>1, <2>2, <2>3 DEF Chain
  <2>5. Ids(list) \subseteq items \cup UnsentItems(d)
    BY <1>1, <2>2 DEF NamedFirst, ItemsBefore, UnsentItems
  <2>6. pending[d][n].uid = Account[d]
    BY <1>1, <2>2 DEF OwnWrites, ListWrites
  <2> QED BY <2>2, <2>4, <2>5, <2>6 DEF Lists
<1> QED BY <1>3, <1>4

\* An item that was never written is on no list.
LEMMA NewItemUnlisted ==
  ASSUME ScreensTypeOK, DataOK, NEW i, i \notin items, \A e \in Device : i \notin UnsentItems(e),
         NEW u \in Uid
  PROVE  ~Lists(u, i)
<1>1. i \notin Ids(users[u].itemList)
  BY DEF DataOK, RecordsOK
<1>2. ASSUME NEW e \in Device, NEW k \in ListWrites(e)
      PROVE  i \notin Ids(pending[e][k].value)
  <2>1. e \notin Viewer
    BY <1>2 DEF DataOK, ViewerWrites, ListWrites
  <2>2. Ids(pending[e][k].value) \subseteq items \cup ItemsBefore(e, k)
    BY <1>2, <2>1 DEF DataOK, AdderWrites, NamedFirst
  <2>3. ItemsBefore(e, k) \subseteq UnsentItems(e)
    BY DEF ItemsBefore, UnsentItems
  <2> QED BY <1>2, <2>2, <2>3
<1> QED BY <1>1, <1>2 DEF Lists
\* The two writes of an item.
NewItem(i) == [node |-> "items", id |-> i]
NewList(u, list) == [node |-> "itemList", uid |-> u, value |-> list]

LEMMA NewWrites ==
  ASSUME NEW i \in ItemId, NEW u \in Uid, NEW list \in Seq(ItemId)
  PROVE  /\ NewItem(i) \in Write /\ NewList(u, list) \in Write
         /\ NewItem(i).node = "items" /\ NewItem(i).id = i
         /\ NewList(u, list).node = "itemList" /\ NewList(u, list).uid = u
         /\ NewList(u, list).value = list
         /\ <<NewItem(i), NewList(u, list)>> \in Seq(Write)
<1>1. NewItem(i) \in Write /\ NewList(u, list) \in Write
  BY DEF NewItem, NewList, Write, ItemWrite, ItemListWrite
<1> QED BY <1>1 DEF NewItem, NewList

\* A device that writes an item and its list, after what it had not sent.
LEMMA AddedWrites ==
  ASSUME NEW d \in Device, pending[d] \in Seq(Write), AdderWrites(d), items' = items,
         users'[Account[d]].itemList = users[Account[d]].itemList, Account[d] \in Uid,
         NEW i \in ItemId, NEW list \in Seq(ItemId), list # <<>>,
         pending'[d] = pending[d] \o <<NewItem(i), NewList(Account[d], list)>>,
         Ids(users[Account[d]].itemList) \subseteq Ids(list),
         \A k \in ListWrites(d) : Ids(pending[d][k].value) \subseteq Ids(list),
         Ids(list) \subseteq items \cup UnsentItems(d) \cup {i}
  PROVE  /\ AdderWrites(d)'
         /\ \A k \in ListWrites(d)' :
              \/ k \in ListWrites(d) /\ pending'[d][k] = pending[d][k]
              \/ pending'[d][k] = NewList(Account[d], list)
<1>1. PICK n : n = Len(pending[d])
  OBVIOUS
<1>2. PICK a : a = NewItem(i)
  OBVIOUS
<1>3. PICK b : b = NewList(Account[d], list)
  OBVIOUS
<1>4. /\ a.node = "items" /\ a.id = i /\ b.node = "itemList" /\ b.uid = Account[d]
      /\ b.value = list /\ <<a, b>> \in Seq(Write) /\ <<a, b>>[1] = a /\ <<a, b>>[2] = b
      /\ Len(<<a, b>>) = 2
  BY <1>2, <1>3, NewWrites
<1>5. /\ n \in Nat /\ pending'[d] = pending[d] \o <<a, b>>
      /\ Len(pending'[d]) = n + 2
      /\ DOMAIN pending'[d] = 1 .. n + 2 /\ DOMAIN pending[d] = 1 .. n
      /\ \A k \in 1 .. n : pending'[d][k] = pending[d][k]
      /\ pending'[d][n + 1] = a /\ pending'[d][n + 2] = b
  <2>1. pending'[d] = pending[d] \o <<a, b>>
    BY <1>2, <1>3
  <2>2. PICK t : t = <<a, b>>
    OBVIOUS
  <2>3. t \in Seq(Write) /\ Len(t) = 2 /\ t[1] = a /\ t[2] = b
    BY <1>4, <2>2
  <2>4. n \in Nat /\ pending'[d] = pending[d] \o t
    <3>1. n \in Nat
      BY <1>1
    <3> QED BY <2>1, <2>2, <3>1, Zenon
  <2>5. /\ Len(pending[d] \o t) = n + 2
        /\ DOMAIN (pending[d] \o t) = 1 .. n + 2 /\ DOMAIN pending[d] = 1 .. n
        /\ \A k \in 1 .. n : (pending[d] \o t)[k] = pending[d][k]
        /\ (pending[d] \o t)[n + 1] = a /\ (pending[d] \o t)[n + 2] = b
    BY <1>1, <2>3, ConcatPair
  <2> QED BY <2>1, <2>4, <2>5
<1>6. \A k \in 1 .. n + 2 : k \in 1 .. n \/ k = n + 1 \/ k = n + 2
  BY <1>5
<1>7. /\ ListWrites(d)' = ListWrites(d) \cup {n + 2}
      /\ \A k \in ListWrites(d) : k \in 1 .. n /\ k < n + 2 /\ pending'[d][k] = pending[d][k]
  <2>1. n + 2 \in 1 .. n + 2 /\ \A k \in 1 .. n : k \in 1 .. n + 2 /\ k < n + 2
    BY <1>5
  <2> QED BY <1>4, <1>5, <1>6, <2>1 DEF ListWrites
<1>8. OwnWrites(d)'
  <2>1. ASSUME NEW k \in DOMAIN pending'[d]
        PROVE  /\ pending'[d][k].node \in {"items", "itemList"}
               /\ pending'[d][k].node = "itemList" =>
                    pending'[d][k].uid = Account[d] /\ pending'[d][k].value # <<>>
    <3>1. CASE k \in 1 .. n
      BY <3>1, <1>5 DEF AdderWrites, OwnWrites
    <3>2. CASE k = n + 1 \/ k = n + 2
      BY <3>2, <1>4, <1>5
    <3> QED BY <2>1, <3>1, <3>2, <1>5, <1>6
  <2>2. Len(pending'[d]) \in ListWrites(d)'
    BY <1>5, <1>7
  <2> QED BY <2>1, <2>2 DEF OwnWrites
<1>9. /\ \A k : ItemsBefore(d, k) \subseteq ItemsBefore(d, k)'
      /\ UnsentItems(d) \cup {i} \subseteq ItemsBefore(d, n + 2)'
  <2>1. \A k \in 1 .. n : k \in 1 .. n + 2 /\ k < n + 2
    BY <1>5
  <2>2. \A k : ItemsBefore(d, k) \subseteq ItemsBefore(d, k)'
    BY <1>5, <2>1 DEF ItemsBefore
  <2>3. UnsentItems(d) \subseteq ItemsBefore(d, n + 2)'
    BY <1>5, <2>1 DEF ItemsBefore, UnsentItems
  <2>4. n + 1 \in 1 .. n + 2 /\ n + 1 < n + 2
    BY <1>5
  <2>5. i \in ItemsBefore(d, n + 2)'
    BY <1>4, <1>5, <2>4 DEF ItemsBefore
  <2> QED BY <2>2, <2>3, <2>5
<1>10. NamedFirst(d)'
  <2>1. ASSUME NEW k \in ListWrites(d)
        PROVE  Ids(pending'[d][k].value) \subseteq items' \cup ItemsBefore(d, k)'
    BY <2>1, <1>7, <1>9 DEF AdderWrites, NamedFirst
  <2>2. Ids(pending'[d][n + 2].value) \subseteq items' \cup ItemsBefore(d, n + 2)'
    BY <1>4, <1>5, <1>9
  <2> QED BY <2>1, <2>2, <1>7 DEF NamedFirst
<1>11. Chain(d)'
  <2>1. \A k \in ListWrites(d)' : Ids(users'[Account[d]].itemList) \subseteq Ids(pending'[d][k].value)
    BY <1>4, <1>5, <1>7 DEF AdderWrites, Chain
  <2>2. ASSUME NEW j \in ListWrites(d)', NEW k \in ListWrites(d)', j < k
        PROVE  Ids(pending'[d][j].value) \subseteq Ids(pending'[d][k].value)
    <3>1. j \in ListWrites(d)
      <4>1. j # n + 2
        <5>1. k \in 1 .. n + 2
          BY <2>2, <1>5, <1>7
        <5> QED BY <2>2, <5>1, <1>5
      <4> QED BY <2>2, <4>1, <1>7
    <3>2. CASE k \in ListWrites(d)
      BY <2>2, <3>1, <3>2, <1>7 DEF AdderWrites, Chain
    <3>3. CASE k = n + 2
      BY <3>1, <3>3, <1>4, <1>5, <1>7
    <3> QED BY <2>2, <3>2, <3>3, <1>7
  <2> QED BY <2>1, <2>2 DEF Chain
<1>12. \A k \in ListWrites(d)' :
         \/ k \in ListWrites(d) /\ pending'[d][k] = pending[d][k]
         \/ pending'[d][k] = NewList(Account[d], list)
  BY <1>3, <1>5, <1>7
<1> QED BY <1>8, <1>10, <1>11, <1>12 DEF AdderWrites

LEMMA AddItemData ==
  ASSUME ScreensTypeOK, DataOK, NEW d \in Device \ Viewer, NEW i, AddItemSeen(d, i)
  PROVE  /\ DataOK' /\ pending' \in [Device -> Seq(Write)]
         /\ UNCHANGED <<users, items, currentUser, up, feed, fresh>>
         /\ \A e \in Viewer : pending'[e] = pending[e]
<1>1. /\ i \in ItemId \ (items \cup UNION {UnsentItems(e) : e \in Device})
      /\ ItemListSeen(d, currentUser[d]) # Missing
      /\ Issue(d, <<[node |-> "items", id |-> i],
                    [node |-> "itemList", uid |-> currentUser[d],
                     value |-> Append(ItemListSeen(d, currentUser[d]), i)]>>)
      /\ UNCHANGED <<users, items, currentUser, up, feed, fresh>>
  BY DEF AddItemSeen
<1>2. /\ d \in Device /\ Account[d] \in Uid /\ currentUser[d] = Account[d]
      /\ pending[d] \in Seq(Write) /\ AdderWrites(d) /\ FirebaseTypeOK
  BY FriendFeedAssumption DEF DataOK, ScreensTypeOK, FirebaseTypeOK
<1>3. PICK old : old = ItemListSeen(d, Account[d])
  OBVIOUS
<1>4. old \in Seq(ItemId)
  BY <1>1, <1>2, <1>3, AdderSees DEF AdderWrites
<1>5. PICK list : list = Append(old, i)
  OBVIOUS
<1>6. list \in Seq(ItemId) /\ list # <<>>
  <2>1. \A s \in Seq(ItemId) : Append(s, i) \in Seq(ItemId) /\ Append(s, i) # <<>>
    BY <1>1
  <2> QED BY <1>4, <1>5, <2>1
<1>7. Ids(list) = Ids(old) \cup {i}
  BY <1>1, <1>4, <1>5, FirebaseAssumption, IdsOfAppend
<1>8. /\ Ids(users[Account[d]].itemList) \subseteq Ids(old)
      /\ \A k \in ListWrites(d) : Ids(pending[d][k].value) \subseteq Ids(old)
      /\ Ids(old) \subseteq items \cup UnsentItems(d)
      /\ \A j \in Ids(old) : Lists(Account[d], j)
  BY <1>3, <1>4, AdderSeesAll
<1>9. PICK ws : ws = <<NewItem(i), NewList(Account[d], list)>>
  OBVIOUS
<1>10. ws \in Seq(Write)
  BY <1>1, <1>2, <1>6, <1>9, NewWrites
<1>11. pending' = [pending EXCEPT ![d] = pending[d] \o ws]
  BY <1>1, <1>2, <1>3, <1>5, <1>9 DEF Issue, NewItem, NewList
<1>12. /\ pending'[d] = pending[d] \o ws /\ pending' \in [Device -> Seq(Write)]
       /\ \A e \in Device : e # d => pending'[e] = pending[e]
  BY <1>2, <1>10, <1>11 DEF ScreensTypeOK, FirebaseTypeOK
<1>13. /\ AdderWrites(d)'
       /\ \A k \in ListWrites(d)' :
            \/ k \in ListWrites(d) /\ pending'[d][k] = pending[d][k]
            \/ pending'[d][k] = NewList(Account[d], list)
  <2>1. pending'[d] = pending[d] \o <<NewItem(i), NewList(Account[d], list)>>
    BY <1>9, <1>12
  <2>2. Ids(users[Account[d]].itemList) \subseteq Ids(list)
    BY <1>7, <1>8
  <2>3. \A k \in ListWrites(d) : Ids(pending[d][k].value) \subseteq Ids(list)
    BY <1>7, <1>8
  <2>4. Ids(list) \subseteq items \cup UnsentItems(d) \cup {i}
    BY <1>7, <1>8
  <2>5. items' = items /\ users'[Account[d]].itemList = users[Account[d]].itemList
    BY <1>1
  <2> QED BY <1>1, <1>2, <1>6, <2>1, <2>2, <2>3, <2>4, <2>5, AddedWrites
<1>14. \A e \in Device \ Viewer : AdderWrites(e)'
  BY <1>1, <1>12, <1>13, AdderKept DEF DataOK
<1>15. \A e \in Viewer : pending'[e] = pending[e] /\ ViewerWrites(e)'
  BY <1>12, FriendFeedAssumption, ViewerKept DEF DataOK
<1>16. ListsApart'
  <2>1. ASSUME NEW u \in Uid, NEW j \in ItemId, Lists(u, j)'
        PROVE  Lists(u, j) \/ (u = Account[d] /\ j = i)
    <3>1. CASE j \in Ids(users[u].itemList)
      BY <3>1 DEF Lists
    <3>2. ASSUME NEW e \in Device, NEW k \in ListWrites(e)', pending'[e][k].uid = u,
                 j \in Ids(pending'[e][k].value)
          PROVE  Lists(u, j) \/ (u = Account[d] /\ j = i)
      <4>1. CASE k \in ListWrites(e) /\ pending'[e][k] = pending[e][k]
        BY <3>2, <4>1 DEF Lists
      <4>2. CASE e = d /\ pending'[e][k] = NewList(Account[d], list)
        BY <3>2, <4>2, <1>7, <1>8 DEF NewList
      <4>3. CASE e # d
        BY <3>2, <4>1, <4>3, <1>12 DEF ListWrites
      <4> QED BY <3>2, <4>1, <4>2, <4>3, <1>13
    <3> QED BY <2>1, <3>1, <3>2, <1>1 DEF Lists
  <2>2. \A u \in Uid : ~Lists(u, i)
    BY <1>1, NewItemUnlisted
  <2> QED BY <2>1, <2>2 DEF DataOK, ListsApart
<1> QED BY <1>1, <1>12, <1>14, <1>15, <1>16 DEF DataOK, RecordsOK
LEMMA Shifted ==
  ASSUME NEW S, NEW s \in Seq(S), s # <<>>, NEW t, t = Tail(s)
  PROVE  /\ t \in Seq(S) /\ Len(t) = Len(s) - 1 /\ Len(s) \in Nat \ {0} /\ 1 \in DOMAIN s
         /\ DOMAIN s = 1 .. Len(s) /\ DOMAIN t = 1 .. Len(s) - 1
         /\ \A k \in DOMAIN t : k \in Nat /\ k + 1 \in DOMAIN s /\ t[k] = s[k + 1]
         /\ \A k \in DOMAIN s : k = 1 \/ (k - 1 \in DOMAIN t /\ t[k - 1] = s[k])
         /\ t # <<>> => Len(t) \in DOMAIN t /\ t[Len(t)] = s[Len(s)]
  OBVIOUS

LEMMA EmptyLen == Len(<<>>) = 0
  OBVIOUS

LEMMA ViewerSendData ==
  ASSUME ScreensTypeOK, DataOK, NEW d \in Viewer, Commit(d)
  PROVE  DataOK'
<1>1. PICK w : w = Head(pending[d])
  OBVIOUS
<1>2. /\ d \in Device /\ pending[d] \in Seq(Write) /\ pending[d] # <<>> /\ ViewerWrites(d)
      /\ pending'[d] = Tail(pending[d]) /\ \A e \in Device : e # d => pending'[e] = pending[e]
      /\ currentUser' = currentUser /\ users \in [Uid -> Record]
  BY FriendFeedAssumption DEF Commit, ScreensTypeOK, FirebaseTypeOK, DataOK
<1>3. /\ items' = items /\ w.value \in Seq(Uid \cup {NoId}) /\ Account[d] \in Ids(w.value)
      /\ \A u \in Uid : users'[u] = IF u = Account[d]
                                    THEN [users[u] EXCEPT !.friendList = w.value]
                                    ELSE users[u]
  BY <1>1, ViewerSends
<1>4. \A u \in Uid : /\ users'[u].itemList = users[u].itemList
                     /\ \/ users'[u].friendList = users[u].friendList
                        \/ u = Account[d] /\ users'[u].friendList = w.value
  BY <1>2, <1>3 DEF Record
<1>5. RecordsOK'
  BY <1>3, <1>4 DEF DataOK, RecordsOK
<1>6. \A e \in Viewer : ViewerWrites(e)'
  <2>1. \A k \in DOMAIN pending'[d] : k + 1 \in DOMAIN pending[d] /\ pending'[d][k] = pending[d][k + 1]
    BY <1>2, Shifted
  <2>2. ViewerWrites(d)'
    BY <1>2, <2>1 DEF ViewerWrites
  <2> QED BY <1>2, <2>2, FriendFeedAssumption, ViewerKept DEF DataOK
<1>7. \A e \in Device \ Viewer : AdderWrites(e)'
  <2>1. \A e \in Device : Account[e] \in Uid
    BY FriendFeedAssumption
  <2> QED BY <1>2, <1>3, <1>4, <2>1, AdderKept DEF DataOK
<1>8. ListsApart'
  <2>1. ListWrites(d)' = {}
    BY <1>2, <1>6 DEF ViewerWrites, ListWrites
  <2>2. \A e \in Device : e # d => ListWrites(e)' = ListWrites(e)
    BY <1>2 DEF ListWrites
  <2>3. \A v \in Uid, i \in ItemId : Lists(v, i)' => Lists(v, i)
    BY <1>2, <1>4, <2>1, <2>2 DEF Lists
  <2> QED BY <2>3, StayApart DEF DataOK
<1> QED BY <1>2, <1>5, <1>6, <1>7, <1>8 DEF DataOK

\* What an adder has left to send once its oldest write is sent.
LEMMA SentWrites ==
  ASSUME ScreensTypeOK, DataOK, NEW d \in Device \ Viewer, Commit(d)
  PROVE  AdderWrites(d)'
<1>1. PICK w : w = Head(pending[d])
  OBVIOUS
<1>2. /\ pending[d] \in Seq(Write) /\ pending[d] # <<>> /\ AdderWrites(d)
      /\ pending'[d] = Tail(pending[d]) /\ Account[d] \in Uid /\ users \in [Uid -> Record]
  BY FriendFeedAssumption DEF Commit, ScreensTypeOK, FirebaseTypeOK, DataOK
<1>3. /\ Len(pending[d]) \in Nat \ {0} /\ 1 \in DOMAIN pending[d] /\ w = pending[d][1]
      /\ DOMAIN pending[d] = 1 .. Len(pending[d])
      /\ \A k \in DOMAIN pending'[d] :
           k \in Nat /\ k + 1 \in DOMAIN pending[d] /\ pending'[d][k] = pending[d][k + 1]
      /\ \A k \in DOMAIN pending[d] :
           k = 1 \/ (k - 1 \in DOMAIN pending'[d] /\ pending'[d][k - 1] = pending[d][k])
      /\ pending'[d] # <<>> => /\ Len(pending'[d]) \in DOMAIN pending'[d]
                               /\ pending'[d][Len(pending'[d])] = pending[d][Len(pending[d])]
  <2>1. w = pending[d][1]
    BY <1>1, <1>2
  <2> QED BY <1>2, <2>1, Shifted, SMTT(20)
<1>4. \A k \in ListWrites(d)' : k + 1 \in ListWrites(d) /\ pending'[d][k] = pending[d][k + 1]
  BY <1>3 DEF ListWrites
<1>5. OwnWrites(d)'
  <2>1. \A k \in DOMAIN pending'[d] :
          /\ pending'[d][k].node \in {"items", "itemList"}
          /\ pending'[d][k].node = "itemList" =>
               pending'[d][k].uid = Account[d] /\ pending'[d][k].value # <<>>
    BY <1>2, <1>3 DEF AdderWrites, OwnWrites
  <2>2. pending'[d] # <<>> => Len(pending'[d]) \in ListWrites(d)'
    BY <1>2, <1>3 DEF AdderWrites, OwnWrites, ListWrites
  <2> QED BY <2>1, <2>2 DEF OwnWrites
<1>6. /\ w.node = "items" => items' = items \cup {w.id}
      /\ items \subseteq items'
      /\ \/ users'[Account[d]].itemList = users[Account[d]].itemList
         \/ 1 \in ListWrites(d) /\ users'[Account[d]].itemList = w.value
  <2>1. \/ /\ w.node = "items" /\ items' = items \cup {w.id}
           /\ \A u \in Uid : users'[u] = users[u]
        \/ /\ w.node = "itemList" /\ items' = items
           /\ \A u \in Uid : users'[u] = IF u = Account[d]
                                         THEN [users[u] EXCEPT !.itemList = w.value]
                                         ELSE users[u]
    BY <1>1, AdderSends
  <2>2. CASE \A u \in Uid : users'[u] = users[u]
    BY <1>2, <2>1, <2>2
  <2>3. CASE /\ w.node = "itemList" /\ items' = items
             /\ \A u \in Uid : users'[u] = IF u = Account[d]
                                           THEN [users[u] EXCEPT !.itemList = w.value]
                                           ELSE users[u]
    <3>1. 1 \in ListWrites(d)
      BY <1>3, <2>3 DEF ListWrites
    <3>2. users'[Account[d]].itemList = w.value
      BY <1>2, <2>3 DEF Record
    <3> QED BY <2>3, <3>1, <3>2
  <2> QED BY <2>1, <2>2, <2>3
<1>7. NamedFirst(d)'
  <2>1. ASSUME NEW k \in ListWrites(d)'
        PROVE  ItemsBefore(d, k + 1) \subseteq items' \cup ItemsBefore(d, k)'
    <3>1. k \in Nat
      BY <2>1, <1>3 DEF ListWrites
    <3>2. ASSUME NEW j \in DOMAIN pending[d], j < k + 1, pending[d][j].node = "items"
          PROVE  pending[d][j].id \in items' \cup ItemsBefore(d, k)'
      <4>1. CASE j = 1
        BY <3>2, <4>1, <1>3, <1>6
      <4>2. CASE j # 1
        <5>1. j - 1 \in DOMAIN pending'[d] /\ pending'[d][j - 1] = pending[d][j]
          BY <3>2, <4>2, <1>3
        <5>2. j - 1 < k
          BY <3>1, <3>2, <1>3
        <5> QED BY <3>2, <5>1, <5>2 DEF ItemsBefore
      <4> QED BY <4>1, <4>2
    <3> QED BY <3>2 DEF ItemsBefore
  <2>2. ASSUME NEW k \in ListWrites(d)'
        PROVE  Ids(pending'[d][k].value) \subseteq items' \cup ItemsBefore(d, k)'
    <3>1. k + 1 \in ListWrites(d) /\ pending'[d][k] = pending[d][k + 1]
      BY <2>2, <1>4
    <3>2. Ids(pending[d][k + 1].value) \subseteq items \cup ItemsBefore(d, k + 1)
      BY <3>1, <1>2 DEF AdderWrites, NamedFirst
    <3> QED BY <2>1, <2>2, <3>1, <3>2, <1>6
  <2> QED BY <2>2 DEF NamedFirst
<1>8. Chain(d)'
  <2>1. ASSUME NEW k \in ListWrites(d)'
        PROVE  Ids(users'[Account[d]].itemList) \subseteq Ids(pending'[d][k].value)
    <3>1. k + 1 \in ListWrites(d) /\ pending'[d][k] = pending[d][k + 1] /\ 1 < k + 1
      <4>1. k \in 1 .. Len(pending'[d]) /\ k \in DOMAIN pending'[d]
        BY <2>1, <1>2 DEF ListWrites
      <4>2. 1 < k + 1
        BY <4>1
      <4> QED BY <2>1, <1>4, <4>2
    <3>2. CASE users'[Account[d]].itemList = users[Account[d]].itemList
      BY <3>1, <3>2, <1>2 DEF AdderWrites, Chain
    <3>3. CASE 1 \in ListWrites(d) /\ users'[Account[d]].itemList = w.value
      <4>1. Ids(pending[d][1].value) \subseteq Ids(pending[d][k + 1].value)
        BY <3>1, <3>3, <1>2 DEF AdderWrites, Chain
      <4> QED BY <3>1, <3>3, <4>1, <1>3
    <3> QED BY <3>2, <3>3, <1>6
  <2>2. ASSUME NEW j \in ListWrites(d)', NEW k \in ListWrites(d)', j < k
        PROVE  Ids(pending'[d][j].value) \subseteq Ids(pending'[d][k].value)
    <3>1. /\ j + 1 \in ListWrites(d) /\ pending'[d][j] = pending[d][j + 1]
          /\ k + 1 \in ListWrites(d) /\ pending'[d][k] = pending[d][k + 1]
      BY <2>2, <1>4
    <3>2. j + 1 < k + 1
      BY <2>2, <1>3 DEF ListWrites
    <3> QED BY <3>1, <3>2, <1>2 DEF AdderWrites, Chain
  <2> QED BY <2>1, <2>2 DEF Chain
<1> QED BY <1>5, <1>7, <1>8 DEF AdderWrites

LEMMA AdderSendData ==
  ASSUME ScreensTypeOK, DataOK, AccountsExclusive, NEW d \in Device \ Viewer, Commit(d)
  PROVE  DataOK'
<1>1. PICK w : w = Head(pending[d])
  OBVIOUS
<1>2. /\ pending[d] \in Seq(Write) /\ pending[d] # <<>>
      /\ pending'[d] = Tail(pending[d]) /\ \A e \in Device : e # d => pending'[e] = pending[e]
      /\ currentUser' = currentUser /\ users \in [Uid -> Record] /\ Account[d] \in Uid
      /\ w = pending[d][1] /\ 1 \in DOMAIN pending[d]
  BY <1>1, FriendFeedAssumption DEF Commit, ScreensTypeOK, FirebaseTypeOK, DataOK
<1>3. \/ items \subseteq items' /\ \A u \in Uid : users'[u] = users[u]
      \/ /\ w.node = "itemList" /\ w.uid = Account[d] /\ w.value # <<>>
         /\ Ids(w.value) \subseteq items /\ items' = items
         /\ \A u \in Uid : users'[u] = IF u = Account[d]
                                       THEN [users[u] EXCEPT !.itemList = w.value]
                                       ELSE users[u]
  BY <1>1, AdderSends
<1>4. /\ items \subseteq items'
      /\ \A u \in Uid :
           /\ users'[u].friendList = users[u].friendList
           /\ \/ users'[u].itemList = users[u].itemList
              \/ /\ u = Account[d] /\ users'[u].itemList = w.value /\ w.value # <<>>
                 /\ Ids(w.value) \subseteq items /\ 1 \in ListWrites(d) /\ w.uid = u
  <2>1. CASE items \subseteq items' /\ \A u \in Uid : users'[u] = users[u]
    BY <2>1
  <2>2. CASE /\ w.node = "itemList" /\ w.uid = Account[d] /\ w.value # <<>>
             /\ Ids(w.value) \subseteq items /\ items' = items
             /\ \A u \in Uid : users'[u] = IF u = Account[d]
                                           THEN [users[u] EXCEPT !.itemList = w.value]
                                           ELSE users[u]
    <3>1. 1 \in ListWrites(d)
      BY <1>2, <2>2 DEF ListWrites
    <3>2. ASSUME NEW u \in Uid
          PROVE  /\ users'[u].friendList = users[u].friendList
                 /\ \/ users'[u].itemList = users[u].itemList
                    \/ u = Account[d] /\ users'[u].itemList = w.value
      <4>1. users[u] \in Record
        BY <1>2
      <4>2. CASE u = Account[d]
        <5>1. users'[u] = [users[u] EXCEPT !.itemList = w.value]
          BY <2>2, <4>2
        <5> QED BY <4>1, <4>2, <5>1 DEF Record
      <4>3. CASE u # Account[d]
        BY <2>2, <4>3
      <4> QED BY <4>2, <4>3
    <3> QED BY <2>2, <3>1, <3>2
  <2> QED BY <1>3, <2>1, <2>2
<1>5. RecordsOK'
  <2>1. ASSUME NEW u \in Uid
        PROVE  /\ users'[u].friendList # Missing => u \in Ids(users'[u].friendList)
               /\ users'[u].itemList # <<>>
               /\ Ids(users'[u].itemList) \subseteq items'
    BY <1>4 DEF DataOK, RecordsOK
  <2> QED BY <2>1 DEF RecordsOK
<1>6. \A e \in Viewer : ViewerWrites(e)'
  BY <1>2, FriendFeedAssumption, ViewerKept DEF DataOK
<1>7. \A e \in Device \ Viewer : AdderWrites(e)'
  <2>1. ASSUME NEW e \in Device \ Viewer, e # d
        PROVE  AdderWrites(e)'
    <3>1. Account[e] \in Uid /\ Account[e] # Account[d]
      BY <2>1, FriendFeedAssumption DEF AccountsExclusive
    <3> QED BY <1>2, <1>4, <2>1, <3>1, AdderKept DEF DataOK
  <2> QED BY <2>1, SentWrites
<1>8. ListsApart'
  <2>1. \A k \in ListWrites(d)' : k + 1 \in ListWrites(d) /\ pending'[d][k] = pending[d][k + 1]
    BY <1>2, Shifted DEF ListWrites
  <2>2. \A e \in Device : e # d => ListWrites(e)' = ListWrites(e)
    BY <1>2 DEF ListWrites
  <2>3. ASSUME NEW v \in Uid, NEW i \in ItemId, Lists(v, i)'
        PROVE  Lists(v, i)
    <3>1. CASE i \in Ids(users'[v].itemList)
      BY <3>1, <1>2, <1>4 DEF Lists
    <3>2. ASSUME NEW e \in Device, NEW k \in ListWrites(e)', pending'[e][k].uid = v,
                 i \in Ids(pending'[e][k].value)
          PROVE  Lists(v, i)
      <4>1. CASE e = d
        <5>1. k + 1 \in ListWrites(d) /\ pending'[d][k] = pending[d][k + 1]
          BY <3>2, <4>1, <2>1
        <5> QED BY <3>2, <4>1, <5>1 DEF Lists
      <4>2. CASE e # d
        BY <3>2, <4>2, <1>2, <2>2 DEF Lists
      <4> QED BY <4>1, <4>2
    <3> QED BY <2>3, <3>1, <3>2 DEF Lists
  <2> QED BY <2>3, StayApart DEF DataOK
<1> QED BY <1>2, <1>5, <1>6, <1>7, <1>8 DEF DataOK

\* What the server takes, of this device or of another one, does not change the
\* list an adder sees.
LEMMA AdderSendView ==
  ASSUME ScreensTypeOK, DataOK, AccountsExclusive, NEW d \in Device, NEW e \in Device \ Viewer,
         Commit(d), FirebaseTypeOK', DataOK'
  PROVE  ItemListSeen(e, Account[e])' = ItemListSeen(e, Account[e])
<1>1. PICK w : w = Head(pending[d])
  OBVIOUS
<1>2. /\ Account[d] \in Uid /\ Account[e] \in Uid /\ users \in [Uid -> Record]
      /\ pending[d] \in Seq(Write) /\ pending[d] # <<>> /\ pending'[d] = Tail(pending[d])
      /\ d # e => pending'[e] = pending[e] /\ Account[d] # Account[e]
      /\ OwnWrites(e) /\ OwnWrites(e)' /\ FirebaseTypeOK
  BY FriendFeedAssumption
     DEF AccountsExclusive, DataOK, ScreensTypeOK, FirebaseTypeOK, Commit, AdderWrites
<1>3. /\ ItemListSeen(e, Account[e]) = IF pending[e] = <<>>
                                       THEN users[Account[e]].itemList
                                       ELSE pending[e][Len(pending[e])].value
      /\ ItemListSeen(e, Account[e])' = IF pending'[e] = <<>>
                                        THEN users'[Account[e]].itemList
                                        ELSE pending'[e][Len(pending'[e])].value
  BY <1>2, AdderSees, AdderSeesNext DEF AddersSee
<1>4. CASE d # e
  <2>1. users'[Account[e]].itemList = users[Account[e]].itemList
    <3>1. CASE d \in Viewer
      <4>1. \A u \in Uid : users'[u] = IF u = Account[d]
                                       THEN [users[u] EXCEPT !.friendList = w.value]
                                       ELSE users[u]
        BY <1>1, <3>1, ViewerSends
      <4> QED BY <1>2, <1>4, <4>1
    <3>2. CASE d \notin Viewer
      <4>1. \/ \A u \in Uid : users'[u] = users[u]
            \/ \A u \in Uid : users'[u] = IF u = Account[d]
                                          THEN [users[u] EXCEPT !.itemList = w.value]
                                          ELSE users[u]
        BY <1>1, <3>2, AdderSends
      <4> QED BY <1>2, <1>4, <4>1
    <3> QED BY <3>1, <3>2
  <2> QED BY <1>2, <1>3, <1>4, <2>1
<1>5. CASE d = e
  <2>1. PICK t : t = Tail(pending[e])
    OBVIOUS
  <2>2. /\ Len(t) = Len(pending[e]) - 1 /\ Len(pending[e]) \in Nat \ {0}
        /\ t # <<>> => t[Len(t)] = pending[e][Len(pending[e])]
        /\ t = <<>> => Len(t) = 0
        /\ w = pending[e][1]
    <3>1. pending[e] \in Seq(Write) /\ pending[e] # <<>>
      BY <1>2, <1>5
    <3>2. w = pending[e][1]
      BY <1>1, <1>5, <3>1
    <3>3. t = <<>> => Len(t) = 0
      BY Zenon, EmptyLen
    <3>4. /\ Len(t) = Len(pending[e]) - 1 /\ Len(pending[e]) \in Nat \ {0}
          /\ t # <<>> => t[Len(t)] = pending[e][Len(pending[e])]
      BY <2>1, <3>1, Shifted
    <3> QED BY <3>2, <3>3, <3>4
  <2>3. CASE t # <<>>
    BY <1>2, <1>3, <1>5, <2>1, <2>2, <2>3
  <2>4. CASE t = <<>>
    <3>1. Len(pending[e]) = 1
      BY <2>2, <2>4
    <3>2. pending[e] # <<>> /\ 1 \in ListWrites(e)
      BY <1>2, <1>5, <3>1 DEF OwnWrites
    <3>3. w.node = "itemList"
      BY <2>2, <3>2 DEF ListWrites
    <3>4. \A u \in Uid : users'[u] = IF u = Account[e]
                                     THEN [users[u] EXCEPT !.itemList = w.value]
                                     ELSE users[u]
      BY <1>1, <1>5, <3>3, AdderSends
    <3>5. users'[Account[e]].itemList = w.value
      BY <1>2, <3>4 DEF Record
    <3> QED BY <1>2, <1>3, <1>5, <2>1, <2>2, <2>4, <3>1, <3>2, <3>5
  <2> QED BY <2>3, <2>4
<1> QED BY <1>4, <1>5

LEMMA SendData ==
  ASSUME ScreensTypeOK, DataOK, AccountsExclusive, NEW d \in Device, Commit(d)
  PROVE  DataOK'
  BY ViewerSendData, AdderSendData

LEMMA DataInit ==
  ASSUME FoundWell, Init
  PROVE  FirebaseTypeOK /\ DataOK
<1>1. users \in InitialUsers /\ users \in [Uid -> Record] /\ currentUser = Account
  BY FriendFeedAssumption DEF Init
<1>2. ASSUME NEW u \in Uid
      PROVE  /\ users[u].friendList # Missing => u \in Ids(users[u].friendList)
             /\ users[u].itemList # <<>>
             /\ Ids(users[u].itemList) \subseteq items
             /\ Ids(users[u].itemList) \subseteq ItemId
             /\ \A v \in Uid : u # v => Ids(users[u].itemList) \cap Ids(users[v].itemList) = {}
  <2>1. users[u].itemList \in Seq(ItemId) \cup {Missing} /\ Ids(Missing) = {}
    BY <1>1 DEF Record, Ids
  <2>2. Ids(users[u].itemList) \subseteq ItemId
    BY <2>1, ItemIds
  <2>3. Ids(users[u].itemList) \subseteq items
    BY DEF Init
  <2> QED BY <1>1, <2>2, <2>3 DEF FoundWell
<1>3. \A d \in Device : pending[d] = <<>>
  BY DEF Init
<1>4. \A d \in Device : ViewerWrites(d) /\ AdderWrites(d) /\ ListWrites(d) = {}
  BY <1>3 DEF ViewerWrites, AdderWrites, OwnWrites, NamedFirst, Chain, ListWrites
<1>5. RecordsOK
  BY <1>2 DEF RecordsOK
<1>6. ListsApart
  <2>1. \A u \in Uid, i \in ItemId : Lists(u, i) => i \in Ids(users[u].itemList)
    BY <1>4 DEF Lists
  <2> QED BY <1>2, <2>1 DEF ListsApart
<1>7. FirebaseTypeOK
  <2>1. items \in SUBSET ItemId
    BY <1>2 DEF Init
  <2>2. currentUser \in [Device -> Uid \cup {NoId}]
    BY <1>1, FriendFeedAssumption
  <2> QED BY <1>1, <2>1, <2>2 DEF Init, FirebaseTypeOK
<1> QED BY <1>1, <1>4, <1>5, <1>6, <1>7, FriendFeedAssumption DEF DataOK
-----------------------------------------------------------------------------
(* Requests                                                                *)

\* What the answer to the first request leaves of them.
FirstOne(asked, kind, rest) ==
  /\ asked[1] = kind
  /\ \A j \in DOMAIN asked :
       j = 1 \/ (j - 1 \in DOMAIN rest /\ rest[j - 1] = asked[j])
  /\ \A j \in DOMAIN rest :
       j \in Nat /\ j + 1 \in DOMAIN asked /\ rest[j] = asked[j + 1]
  /\ rest # <<>> => rest[Len(rest)] = asked[Len(asked)]
  /\ rest = <<>> => asked[Len(asked)] = kind

LEMMA Answered ==
  ASSUME NEW S, NEW asked \in Seq(S), NEW kind, NEW inOrder \in BOOLEAN,
         NEW k \in Turn(asked, kind, inOrder), NEW rest, rest = RemoveAt(asked, k)
  PROVE  /\ rest \in Seq(S) /\ asked # <<>>
         /\ ~NoneAsked(asked, kind)
         /\ inOrder => FirstOne(asked, kind, rest)
<1>1. k \in DOMAIN asked /\ asked[k] = kind /\ asked # <<>>
  BY DEF Turn
<1>2. rest \in Seq(S)
  BY <1>1, RemoveAtType
<1>3. ASSUME inOrder
      PROVE  FirstOne(asked, kind, rest)
  <2>1. k = 1
    <3>1. 1 \in DOMAIN asked /\ k \in Nat /\ (k = 1 \/ 1 < k)
      BY <1>1
    <3> QED BY <1>3, <3>1 DEF Turn
  <2>2. /\ Len(rest) = Len(asked) - 1 /\ Len(asked) \in Nat
        /\ \A j \in DOMAIN rest : j + 1 \in DOMAIN asked /\ rest[j] = asked[j + 1]
    BY <1>1, <2>1, AskedTail
  <2>3. DOMAIN rest = 1 .. Len(asked) - 1 /\ DOMAIN asked = 1 .. Len(asked)
    BY <1>2, <2>2
  <2>4. \A j \in DOMAIN asked : j = 1 \/ (j - 1 \in DOMAIN rest /\ (j - 1) + 1 = j)
    BY <2>2, <2>3
  <2>5. ASSUME rest # <<>>
        PROVE  rest[Len(rest)] = asked[Len(asked)]
    <3>1. Len(rest) \in DOMAIN rest /\ Len(rest) + 1 = Len(asked)
      BY <1>2, <2>2, <2>5
    <3> QED BY <2>2, <3>1
  <2>6. ASSUME rest = <<>>
        PROVE  asked[Len(asked)] = kind
    <3>1. Len(asked) = 1
      BY <2>2, <2>6
    <3> QED BY <1>1, <2>1, <3>1
  <2>7. \A j \in DOMAIN asked : j = 1 \/ (j - 1 \in DOMAIN rest /\ rest[j - 1] = asked[j])
    BY <2>2, <2>4
  <2>8. \A j \in DOMAIN rest : j \in Nat
    BY <2>3
  <2> QED BY <1>1, <2>1, <2>2, <2>5, <2>6, <2>7, <2>8 DEF FirstOne
<1> QED BY <1>1, <1>2, <1>3 DEF NoneAsked

\* In order: what is not asked for any more was answered, now or before.
NowAnswered(asked, kind, rest) ==
  /\ \A other : other # kind /\ NoneAsked(rest, other) => NoneAsked(asked, other)
  /\ OneAfterOther(asked) =>
       /\ OneAfterOther(rest)
       /\ kind = "names" /\ NoneAsked(rest, "names") => NoneAsked(asked, "ids")
       /\ kind = "items" /\ NoneAsked(rest, "items") => NoneAsked(asked, "names")

LEMMA AnsweredInOrder ==
  ASSUME NEW S, NEW asked \in Seq(S), NEW kind, NEW inOrder \in BOOLEAN, inOrder,
         NEW k \in Turn(asked, kind, inOrder), NEW rest, rest = RemoveAt(asked, k)
  PROVE  NowAnswered(asked, kind, rest)
<1>1. /\ asked[1] = kind /\ rest \in Seq(S)
      /\ \A j \in DOMAIN asked :
           j = 1 \/ (j - 1 \in DOMAIN rest /\ rest[j - 1] = asked[j])
      /\ \A j \in DOMAIN rest :
           j \in Nat /\ j + 1 \in DOMAIN asked /\ rest[j] = asked[j + 1]
  <2>1. rest \in Seq(S) /\ FirstOne(asked, kind, rest)
    BY Answered
  <2> QED BY <2>1 DEF FirstOne
<1>2. ASSUME NEW other, other # kind, NoneAsked(rest, other)
      PROVE  NoneAsked(asked, other)
  <2>1. ASSUME NEW j \in DOMAIN asked
        PROVE  asked[j] # other
    <3>1. CASE j = 1
      BY <1>1, <1>2, <3>1
    <3>2. CASE j - 1 \in DOMAIN rest /\ rest[j - 1] = asked[j]
      BY <1>2, <3>2 DEF NoneAsked
    <3> QED BY <2>1, <3>1, <3>2, <1>1
  <2> QED BY <2>1 DEF NoneAsked
<1>3. ASSUME NEW one, NEW two,
             \A j \in DOMAIN asked :
               asked[j] = one => \E m \in DOMAIN asked : j < m /\ asked[m] = two
      PROVE  /\ \A j \in DOMAIN rest :
                  rest[j] = one => \E m \in DOMAIN rest : j < m /\ rest[m] = two
             /\ kind = two /\ NoneAsked(rest, two) => NoneAsked(asked, one)
  <2>1. ASSUME NEW j \in DOMAIN asked, asked[j] = one
        PROVE  \E m \in DOMAIN rest : j - 1 < m /\ rest[m] = two
    <3>1. PICK m \in DOMAIN asked : j < m /\ asked[m] = two
      BY <1>3, <2>1
    <3>2. j \in Nat \ {0} /\ m \in Nat
      BY <2>1, <3>1
    <3>3. m - 1 \in DOMAIN rest /\ rest[m - 1] = two
      BY <1>1, <3>1, <3>2
    <3> QED BY <3>1, <3>2, <3>3
  <2>2. ASSUME NEW j \in DOMAIN rest, rest[j] = one
        PROVE  \E m \in DOMAIN rest : j < m /\ rest[m] = two
    <3>1. j \in Nat /\ j + 1 \in DOMAIN asked /\ asked[j + 1] = one /\ (j + 1) - 1 = j
      BY <1>1, <2>2
    <3> QED BY <2>1, <3>1
  <2>3. ASSUME kind = two, NoneAsked(rest, two), NEW j \in DOMAIN asked
        PROVE  asked[j] # one
    BY <2>1, <2>3 DEF NoneAsked
  <2> QED BY <2>2, <2>3 DEF NoneAsked
<1>4. ASSUME OneAfterOther(asked)
      PROVE  /\ OneAfterOther(rest)
             /\ kind = "names" /\ NoneAsked(rest, "names") => NoneAsked(asked, "ids")
             /\ kind = "items" /\ NoneAsked(rest, "items") => NoneAsked(asked, "names")
  <2>1. /\ \A j \in DOMAIN rest :
             rest[j] = "ids" => \E m \in DOMAIN rest : j < m /\ rest[m] = "names"
        /\ kind = "names" /\ NoneAsked(rest, "names") => NoneAsked(asked, "ids")
    BY <1>3, <1>4 DEF OneAfterOther
  <2>2. /\ \A j \in DOMAIN rest :
             rest[j] = "names" => \E m \in DOMAIN rest : j < m /\ rest[m] = "items"
        /\ kind = "items" /\ NoneAsked(rest, "items") => NoneAsked(asked, "names")
    BY <1>3, <1>4 DEF OneAfterOther
  <2> QED BY <2>1, <2>2 DEF OneAfterOther
<1> QED BY <1>2, <1>4 DEF NowAnswered

LEMMA ConcatThree ==
  ASSUME NEW S, NEW s \in Seq(S), NEW t \in Seq(S), Len(t) = 3
  PROVE  /\ s \o t \in Seq(S) /\ Len(s) \in Nat
         /\ DOMAIN (s \o t) = 1 .. Len(s) + 3
         /\ DOMAIN s = 1 .. Len(s)
         /\ \A k \in 1 .. Len(s) : (s \o t)[k] = s[k]
         /\ (s \o t)[Len(s) + 1] = t[1]
         /\ (s \o t)[Len(s) + 2] = t[2]
         /\ (s \o t)[Len(s) + 3] = t[3]
<1>1. Len(s) \in Nat /\ DOMAIN s = 1 .. Len(s)
  OBVIOUS
<1>2. /\ s \o t \in Seq(S) /\ Len(s \o t) = Len(s) + 3
      /\ \A k \in 1 .. Len(s) + 3 :
           (s \o t)[k] = IF k <= Len(s) THEN s[k] ELSE t[k - Len(s)]
  <2>1. /\ s \o t \in Seq(S) /\ Len(s \o t) = Len(s) + Len(t)
        /\ \A k \in 1 .. Len(s) + Len(t) :
             (s \o t)[k] = IF k <= Len(s) THEN s[k] ELSE t[k - Len(s)]
    BY ConcatProperties, Zenon
  <2> QED BY <2>1, Zenon
<1>3. DOMAIN (s \o t) = 1 .. Len(s) + 3
  BY <1>2
<1> QED BY <1>1, <1>2, <1>3

\* The three requests of an appearance.
LEMMA AskedAgain ==
  ASSUME NEW asked \in Seq({"ids", "names", "items"}), NEW more, more = asked \o Requests
  PROVE  /\ more \in Seq({"ids", "names", "items"})
         /\ ~NoneAsked(more, "ids") /\ ~NoneAsked(more, "names") /\ ~NoneAsked(more, "items")
         /\ OneAfterOther(asked) => OneAfterOther(more)
<1>1. /\ Requests \in Seq({"ids", "names", "items"}) /\ Len(Requests) = 3
      /\ Requests[1] = "ids" /\ Requests[2] = "names" /\ Requests[3] = "items"
  BY DEF Requests
<1>2. PICK n : n = Len(asked)
  OBVIOUS
<1>3. /\ more \in Seq({"ids", "names", "items"}) /\ n \in Nat
      /\ DOMAIN more = 1 .. n + 3 /\ DOMAIN asked = 1 .. n
      /\ \A k \in 1 .. n : more[k] = asked[k]
      /\ more[n + 1] = "ids" /\ more[n + 2] = "names" /\ more[n + 3] = "items"
  BY <1>1, <1>2, ConcatThree
<1>4. /\ n + 1 \in 1 .. n + 3 /\ n + 2 \in 1 .. n + 3 /\ n + 3 \in 1 .. n + 3
      /\ n + 1 < n + 2 /\ n + 2 < n + 3
      /\ \A k \in 1 .. n : k \in 1 .. n + 3
      /\ \A k \in 1 .. n + 3 : k \in 1 .. n \/ k = n + 1 \/ k = n + 2 \/ k = n + 3
  BY <1>3
<1>5. ~NoneAsked(more, "ids") /\ ~NoneAsked(more, "names") /\ ~NoneAsked(more, "items")
  BY <1>3, <1>4 DEF NoneAsked
<1>6. ASSUME OneAfterOther(asked)
      PROVE  OneAfterOther(more)
  <2>1. ASSUME NEW j \in DOMAIN more
        PROVE  /\ more[j] = "ids" => \E k \in DOMAIN more : j < k /\ more[k] = "names"
               /\ more[j] = "names" => \E k \in DOMAIN more : j < k /\ more[k] = "items"
    <3>1. CASE j \in 1 .. n
      <4>1. /\ asked[j] = "ids" => \E k \in 1 .. n : j < k /\ asked[k] = "names"
            /\ asked[j] = "names" => \E k \in 1 .. n : j < k /\ asked[k] = "items"
        BY <3>1, <1>3, <1>6 DEF OneAfterOther
      <4> QED BY <3>1, <4>1, <1>3, <1>4
    <3>2. CASE j = n + 1
      BY <3>2, <1>3, <1>4
    <3>3. CASE j = n + 2
      BY <3>3, <1>3, <1>4
    <3>4. CASE j = n + 3
      BY <3>4, <1>3
    <3> QED BY <2>1, <3>1, <3>2, <3>3, <3>4, <1>3, <1>4
  <2> QED BY <2>1 DEF OneAfterOther
<1> QED BY <1>3, <1>5, <1>6
-----------------------------------------------------------------------------
(* One feed                                                                *)

\* The feed when it appears again, after each answer, and after a reload.
Appeared(f, u) == [f EXCEPT !.asked = f.asked \o Requests, !.uid = u]

GivenIDs(f, list, k) == [f EXCEPT !.friendList = list, !.asked = RemoveAt(f.asked, k)]

GivenNames(f, names, recent, k) ==
  [f EXCEPT !.friendNames = names, !.recentItemList = recent,
            !.asked = RemoveAt(f.asked, k)]

GivenItems(f, there, k) ==
  [f EXCEPT !.recentItemNames = there \cap f.recentItemList, !.reloads = f.reloads + 1,
            !.asked = RemoveAt(f.asked, k)]

GivenNothing(f, k) == [f EXCEPT !.asked = RemoveAt(f.asked, k)]

Reloaded(f) ==
  [f EXCEPT !.reloads = f.reloads - 1, !.rows = Cardinality(f.recentItemNames)]

LEMMA FeedKept ==
  ASSUME NEW f, NEW u, NEW friends, NEW seen, NEW there, NEW latest, NEW new,
         FeedOK(f, u, friends, seen, there, latest, new),
         NEW friends_2, NEW seen_2, NEW there_2, NEW latest_2, NEW new_2,
         friends \subseteq friends_2, seen \subseteq seen_2, there \subseteq there_2,
         new_2 => new /\ friends_2 = friends /\ latest_2 = latest
  PROVE  FeedOK(f, u, friends_2, seen_2, there_2, latest_2, new_2)
<1>1. Arrays(f, u, friends_2, seen_2, there_2)
  BY DEF FeedOK, Arrays
<1>2. f.inOrder /\ new_2 => UpToDate(f, friends_2, latest_2)
  BY DEF FeedOK
<1> QED BY <1>1, <1>2 DEF FeedOK

LEMMA ClosedFeedOK ==
  ASSUME NEW u, NEW friends, NEW seen, NEW there, NEW latest, NEW new
  PROVE  Closed \in Feed /\ FeedOK(Closed, u, friends, seen, there, latest, new)
<1>1. Closed \in Feed
  BY DEF Closed, Feed
<1>2. Ids(<<>>) = {} /\ Cardinality({}) = 0 /\ IsFiniteSet({})
  BY NothingListed, FS_EmptySet
<1>3. Arrays(Closed, u, friends, seen, there)
  BY <1>2 DEF Closed, Arrays
<1> QED BY <1>1, <1>3 DEF Closed, FeedOK

LEMMA OpenedType ==
  ASSUME NEW u \in Uid, NEW inOrder \in BOOLEAN, NEW asked \in Seq({"ids", "names", "items"})
  PROVE  [screen |-> "open", friendList |-> <<>>, friendNames |-> {},
          recentItemList |-> {}, recentItemNames |-> {}, uid |-> u,
          inOrder |-> inOrder, asked |-> asked, reloads |-> 0, rows |-> 0] \in Feed
  BY DEF Feed

LEMMA OpenedOK ==
  ASSUME NEW u \in Uid, NEW friends, NEW seen, NEW there, NEW latest, NEW inOrder \in BOOLEAN,
         NEW f, f = [Closed EXCEPT !.screen = "open", !.uid = u, !.inOrder = inOrder,
                                   !.asked = Requests \o Requests]
  PROVE  f \in Feed /\ FeedOK(f, u, friends, seen, there, latest, TRUE)
<1>1. Requests \in Seq({"ids", "names", "items"}) /\ OneAfterOther(Requests)
  <2>1. /\ Requests \in Seq({"ids", "names", "items"})
        /\ DOMAIN Requests = 1 .. 3
        /\ Requests[1] = "ids" /\ Requests[2] = "names" /\ Requests[3] = "items"
    BY DEF Requests
  <2> QED BY <2>1 DEF OneAfterOther
<1>2. PICK asked : asked = Requests \o Requests
  OBVIOUS
<1>3. /\ asked \in Seq({"ids", "names", "items"}) /\ OneAfterOther(asked)
      /\ ~NoneAsked(asked, "ids") /\ ~NoneAsked(asked, "names") /\ ~NoneAsked(asked, "items")
  BY <1>1, <1>2, AskedAgain
<1>4. f = [Closed EXCEPT !.screen = "open", !.uid = u, !.inOrder = inOrder, !.asked = asked]
  BY <1>2
<1>5. /\ f.uid = u /\ f.asked = asked /\ f.friendList = <<>> /\ f.friendNames = {}
      /\ f.recentItemList = {} /\ f.recentItemNames = {} /\ f.rows = 0
  BY <1>4 DEF Closed
<1>6. f \in Feed
  <2>1. f = [screen |-> "open", friendList |-> <<>>, friendNames |-> {},
             recentItemList |-> {}, recentItemNames |-> {}, uid |-> u,
             inOrder |-> inOrder, asked |-> asked, reloads |-> 0, rows |-> 0]
    BY <1>4 DEF Closed
  <2>2. asked \in Seq({"ids", "names", "items"})
    BY <1>3
  <2>3. [screen |-> "open", friendList |-> <<>>, friendNames |-> {},
         recentItemList |-> {}, recentItemNames |-> {}, uid |-> u,
         inOrder |-> inOrder, asked |-> asked, reloads |-> 0, rows |-> 0] \in Feed
    BY <2>2, OpenedType, Zenon
  <2> QED BY <2>1, <2>3
<1>7. Ids(<<>>) = {} /\ Cardinality({}) = 0 /\ IsFiniteSet({})
  BY NothingListed, FS_EmptySet
<1>8. Arrays(f, u, friends, seen, there)
  <2>1. Ids(f.friendList) = {} /\ Cardinality(f.friendNames) = 0
    BY <1>5, <1>7
  <2>2. /\ IsFiniteSet(f.recentItemList) /\ Cardinality(f.recentItemList) = 0
        /\ IsFiniteSet(f.recentItemNames) /\ Cardinality(f.recentItemNames) = 0
    BY <1>5, <1>7
  <2> QED BY <1>5, <2>1, <2>2 DEF Arrays
<1>9. UpToDate(f, friends, latest)
  BY <1>3, <1>5 DEF UpToDate
<1> QED BY <1>3, <1>5, <1>8, <1>9, <1>6 DEF FeedOK

LEMMA AppearedOK ==
  ASSUME NEW f \in Feed, NEW u \in Uid, NEW friends, NEW seen, NEW there, NEW latest, NEW new,
         FeedOK(f, u, friends, seen, there, latest, new),
         NEW t, t = Appeared(f, u)
  PROVE  t \in Feed /\ FeedOK(t, u, friends, seen, there, latest, TRUE)
<1>1. PICK asked : asked = f.asked \o Requests
  OBVIOUS
<1>2. f.asked \in Seq({"ids", "names", "items"})
  BY DEF Feed
<1>3. /\ asked \in Seq({"ids", "names", "items"})
      /\ OneAfterOther(f.asked) => OneAfterOther(asked)
      /\ ~NoneAsked(asked, "ids") /\ ~NoneAsked(asked, "names") /\ ~NoneAsked(asked, "items")
  BY <1>1, <1>2, AskedAgain
<1>4. t = [f EXCEPT !.asked = asked, !.uid = u]
  BY <1>1 DEF Appeared
<1>5. /\ t.uid = u /\ t.asked = asked /\ t.friendList = f.friendList
      /\ t.friendNames = f.friendNames /\ t.recentItemList = f.recentItemList
      /\ t.recentItemNames = f.recentItemNames /\ t.rows = f.rows /\ t.inOrder = f.inOrder
  BY <1>4 DEF Feed
<1>6. t \in Feed
  BY <1>3, <1>4 DEF Feed
<1>7. Arrays(t, u, friends, seen, there)
  BY <1>5 DEF FeedOK, Arrays
<1>8. UpToDate(t, friends, latest)
  BY <1>3, <1>5 DEF UpToDate
<1>9. t.inOrder => OneAfterOther(t.asked)
  BY <1>3, <1>5 DEF FeedOK
<1> QED BY <1>6, <1>7, <1>8, <1>9 DEF FeedOK

\* What the answer to a request does to the rest of them.
LEMMA FeedAnswered ==
  ASSUME NEW f \in Feed, NEW kind, NEW k \in Turn(f.asked, kind, f.inOrder),
         f.inOrder => OneAfterOther(f.asked),
         NEW rest, rest = RemoveAt(f.asked, k)
  PROVE  /\ rest \in Seq({"ids", "names", "items"}) /\ f.asked # <<>>
         /\ f.inOrder => OneAfterOther(rest) /\ NowAnswered(f.asked, kind, rest)
<1>1. f.asked \in Seq({"ids", "names", "items"}) /\ f.inOrder \in BOOLEAN
  BY DEF Feed
<1>2. rest \in Seq({"ids", "names", "items"}) /\ f.asked # <<>>
  BY <1>1, Answered
<1>3. ASSUME f.inOrder
      PROVE  NowAnswered(f.asked, kind, rest)
  BY <1>1, <1>3, AnsweredInOrder
<1> QED BY <1>2, <1>3 DEF NowAnswered
LEMMA GivenIDsOK ==
  ASSUME NEW f \in Feed, NEW u, NEW friends, NEW seen, NEW there, NEW latest, NEW new,
         FeedOK(f, u, friends, seen, there, latest, new),
         NEW k \in Turn(f.asked, "ids", f.inOrder),
         NEW list \in Seq(Uid \cup {NoId}), Ids(list) = friends,
         NEW t, t = GivenIDs(f, list, k)
  PROVE  t \in Feed /\ FeedOK(t, u, friends, seen, there, latest, new)
<1>1. PICK rest : rest = RemoveAt(f.asked, k)
  OBVIOUS
<1>2. /\ rest \in Seq({"ids", "names", "items"}) /\ f.asked # <<>>
      /\ f.inOrder => OneAfterOther(rest) /\ NowAnswered(f.asked, "ids", rest)
  BY <1>1, FeedAnswered DEF FeedOK
<1>3. t = [f EXCEPT !.friendList = list, !.asked = rest]
  BY <1>1 DEF GivenIDs
<1>4. /\ t.uid = f.uid /\ t.asked = rest /\ t.friendList = list
      /\ t.friendNames = f.friendNames /\ t.recentItemList = f.recentItemList
      /\ t.recentItemNames = f.recentItemNames /\ t.rows = f.rows /\ t.inOrder = f.inOrder
  BY <1>3 DEF Feed
<1>5. t \in Feed
  BY <1>2, <1>3 DEF Feed
<1>6. Arrays(t, u, friends, seen, there)
  BY <1>2, <1>4 DEF FeedOK, Arrays
<1>7. ASSUME t.inOrder, new
      PROVE  UpToDate(t, friends, latest)
  BY <1>2, <1>4, <1>7 DEF FeedOK, UpToDate, NowAnswered
<1> QED BY <1>2, <1>4, <1>5, <1>6, <1>7 DEF FeedOK

\* There are no users, and so no friends.
LEMMA GivenNoIDsOK ==
  ASSUME NEW f \in Feed, NEW u, NEW seen, NEW there, NEW latest, NEW new,
         FeedOK(f, u, {}, seen, there, latest, new),
         NEW k \in Turn(f.asked, "ids", f.inOrder),
         NEW t, t = GivenNothing(f, k)
  PROVE  t \in Feed /\ FeedOK(t, u, {}, seen, there, latest, new)
<1>1. PICK rest : rest = RemoveAt(f.asked, k)
  OBVIOUS
<1>2. /\ rest \in Seq({"ids", "names", "items"}) /\ f.asked # <<>>
      /\ f.inOrder => OneAfterOther(rest) /\ NowAnswered(f.asked, "ids", rest)
  BY <1>1, FeedAnswered DEF FeedOK
<1>3. t = [f EXCEPT !.asked = rest]
  BY <1>1 DEF GivenNothing
<1>4. /\ t.uid = f.uid /\ t.asked = rest /\ t.friendList = f.friendList
      /\ t.friendNames = f.friendNames /\ t.recentItemList = f.recentItemList
      /\ t.recentItemNames = f.recentItemNames /\ t.rows = f.rows /\ t.inOrder = f.inOrder
  BY <1>3 DEF Feed
<1>5. t \in Feed
  BY <1>2, <1>3 DEF Feed
<1>6. Arrays(t, u, {}, seen, there) /\ Ids(t.friendList) = {}
  BY <1>2, <1>4 DEF FeedOK, Arrays
<1>7. ASSUME t.inOrder, new
      PROVE  UpToDate(t, {}, latest)
  BY <1>2, <1>4, <1>6, <1>7 DEF FeedOK, UpToDate, NowAnswered
<1> QED BY <1>2, <1>4, <1>5, <1>6, <1>7 DEF FeedOK

\* The friends there are, never fewer than before, and as many items.
LEMMA GivenNamesOK ==
  ASSUME NEW f \in Feed, NEW u, NEW friends, NEW seen \in SUBSET Uid, NEW there, NEW latest,
         NEW new, FeedOK(f, u, friends, seen, there, latest, new),
         NEW k \in Turn(f.asked, "names", f.inOrder),
         NEW names, names = seen \cap Ids(f.friendList),
         NEW recent, recent \subseteq there, recent \subseteq ItemId, IsFiniteSet(recent),
         Cardinality(recent) = Cardinality(names),
         Ids(f.friendList) = friends => recent = latest,
         NEW t, t = GivenNames(f, names, recent, k)
  PROVE  t \in Feed /\ FeedOK(t, u, friends, seen, there, latest, new)
<1>1. PICK rest : rest = RemoveAt(f.asked, k)
  OBVIOUS
<1>2. /\ rest \in Seq({"ids", "names", "items"}) /\ f.asked # <<>>
      /\ f.inOrder => OneAfterOther(rest) /\ NowAnswered(f.asked, "names", rest)
  BY <1>1, FeedAnswered DEF FeedOK
<1>3. t = [f EXCEPT !.friendNames = names, !.recentItemList = recent, !.asked = rest]
  BY <1>1 DEF GivenNames
<1>4. /\ t.uid = f.uid /\ t.asked = rest /\ t.friendList = f.friendList
      /\ t.friendNames = names /\ t.recentItemList = recent
      /\ t.recentItemNames = f.recentItemNames /\ t.rows = f.rows /\ t.inOrder = f.inOrder
  BY <1>3 DEF Feed
<1>5. t \in Feed
  <2>1. names \in SUBSET Uid /\ recent \in SUBSET ItemId
    OBVIOUS
  <2> QED BY <1>2, <1>3, <2>1 DEF Feed
<1>6. Cardinality(f.recentItemNames) <= Cardinality(names)
  <2>1. f.friendList \in Seq(Uid \cup {NoId})
    BY DEF Feed
  <2>2. IsFiniteSet(Ids(f.friendList))
    BY <2>1, FriendIds
  <2>3. names \in SUBSET Ids(f.friendList) /\ f.friendNames \in SUBSET names
    BY DEF FeedOK, Arrays
  <2>4. IsFiniteSet(names)
    BY <2>2, <2>3, Fewer
  <2>5. /\ Cardinality(names) \in Nat /\ Cardinality(f.friendNames) \in Nat
        /\ Cardinality(f.friendNames) <= Cardinality(names)
    BY <2>3, <2>4, Fewer
  <2>6. /\ Cardinality(f.recentItemNames) \in Nat
        /\ Cardinality(f.recentItemNames) <= Cardinality(f.friendNames)
    BY FS_CardinalityType DEF FeedOK, Arrays
  <2> QED BY <2>5, <2>6
<1>7. Arrays(t, u, friends, seen, there)
  BY <1>2, <1>4, <1>6 DEF FeedOK, Arrays
<1>8. ASSUME t.inOrder, new
      PROVE  UpToDate(t, friends, latest)
  BY <1>2, <1>4, <1>8 DEF FeedOK, UpToDate, NowAnswered
<1> QED BY <1>2, <1>4, <1>5, <1>7, <1>8 DEF FeedOK

\* All the items whose names are asked for are there.
LEMMA GivenItemsOK ==
  ASSUME NEW f \in Feed, NEW u, NEW friends, NEW seen, NEW there, NEW latest,
         NEW new, FeedOK(f, u, friends, seen, there, latest, new),
         NEW k \in Turn(f.asked, "items", f.inOrder),
         NEW t, t = GivenItems(f, there, k)
  PROVE  t \in Feed /\ FeedOK(t, u, friends, seen, there, latest, new)
<1>1. PICK rest : rest = RemoveAt(f.asked, k)
  OBVIOUS
<1>2. /\ rest \in Seq({"ids", "names", "items"}) /\ f.asked # <<>>
      /\ f.inOrder => OneAfterOther(rest) /\ NowAnswered(f.asked, "items", rest)
  BY <1>1, FeedAnswered DEF FeedOK
<1>3. /\ there \cap f.recentItemList = f.recentItemList
      /\ f.recentItemList \in SUBSET ItemId /\ f.reloads + 1 \in Nat
  BY DEF FeedOK, Arrays, Feed
<1>4. t = [f EXCEPT !.recentItemNames = f.recentItemList, !.reloads = f.reloads + 1,
                    !.asked = rest]
  BY <1>1, <1>3 DEF GivenItems
<1>5. /\ t.uid = f.uid /\ t.asked = rest /\ t.friendList = f.friendList
      /\ t.friendNames = f.friendNames /\ t.recentItemList = f.recentItemList
      /\ t.recentItemNames = f.recentItemList /\ t.rows = f.rows /\ t.inOrder = f.inOrder
  BY <1>4 DEF Feed
<1>6. t \in Feed
  BY <1>2, <1>3, <1>4 DEF Feed
<1>7. /\ Cardinality(f.recentItemList) = Cardinality(f.friendNames)
      /\ Cardinality(f.recentItemList) \in Nat /\ f.rows <= Cardinality(f.recentItemList)
  <2>1. /\ Cardinality(f.recentItemList) = Cardinality(f.friendNames)
        /\ Cardinality(f.recentItemList) \in Nat /\ Cardinality(f.recentItemNames) \in Nat
        /\ Cardinality(f.recentItemNames) <= Cardinality(f.friendNames)
        /\ f.rows <= Cardinality(f.recentItemNames)
    BY FS_CardinalityType DEF FeedOK, Arrays
  <2>2. f.rows \in Nat
    BY DEF Feed
  <2> QED BY <2>1, <2>2
<1>8. Arrays(t, u, friends, seen, there)
  BY <1>2, <1>5, <1>7 DEF FeedOK, Arrays
<1>9. ASSUME t.inOrder, new
      PROVE  UpToDate(t, friends, latest)
  BY <1>2, <1>5, <1>9 DEF FeedOK, UpToDate, NowAnswered
<1> QED BY <1>2, <1>5, <1>6, <1>8, <1>9 DEF FeedOK

\* There are no items, and so nothing to show.
LEMMA GivenNoItemsOK ==
  ASSUME NEW f \in Feed, NEW u, NEW friends, NEW seen, NEW latest,
         NEW new, FeedOK(f, u, friends, seen, {}, latest, new),
         NEW k \in Turn(f.asked, "items", f.inOrder),
         NEW t, t = GivenNothing(f, k)
  PROVE  t \in Feed /\ FeedOK(t, u, friends, seen, {}, latest, new)
<1>1. PICK rest : rest = RemoveAt(f.asked, k)
  OBVIOUS
<1>2. /\ rest \in Seq({"ids", "names", "items"}) /\ f.asked # <<>>
      /\ f.inOrder => OneAfterOther(rest) /\ NowAnswered(f.asked, "items", rest)
  BY <1>1, FeedAnswered DEF FeedOK
<1>3. t = [f EXCEPT !.asked = rest]
  BY <1>1 DEF GivenNothing
<1>4. /\ t.uid = f.uid /\ t.asked = rest /\ t.friendList = f.friendList
      /\ t.friendNames = f.friendNames /\ t.recentItemList = f.recentItemList
      /\ t.recentItemNames = f.recentItemNames /\ t.rows = f.rows /\ t.inOrder = f.inOrder
  BY <1>3 DEF Feed
<1>5. t \in Feed
  BY <1>2, <1>3 DEF Feed
<1>6. /\ Arrays(t, u, friends, seen, {})
      /\ f.recentItemList = {} /\ f.recentItemNames = {}
  BY <1>2, <1>4 DEF FeedOK, Arrays
<1>7. ASSUME t.inOrder, new
      PROVE  UpToDate(t, friends, latest)
  BY <1>2, <1>4, <1>6, <1>7 DEF FeedOK, UpToDate, NowAnswered
<1> QED BY <1>2, <1>4, <1>5, <1>6, <1>7 DEF FeedOK

LEMMA ReloadedOK ==
  ASSUME NEW f \in Feed, NEW u, NEW friends, NEW seen, NEW there, NEW latest,
         NEW new, FeedOK(f, u, friends, seen, there, latest, new),
         f.reloads > 0, NEW t, t = Reloaded(f)
  PROVE  t \in Feed /\ FeedOK(t, u, friends, seen, there, latest, new)
<1>1. PICK n : n = Cardinality(f.recentItemNames)
  OBVIOUS
<1>2. n \in Nat /\ f.reloads - 1 \in Nat
  BY <1>1, FS_CardinalityType DEF FeedOK, Arrays, Feed
<1>3. t = [f EXCEPT !.reloads = f.reloads - 1, !.rows = n]
  BY <1>1 DEF Reloaded
<1>4. /\ t.uid = f.uid /\ t.asked = f.asked /\ t.friendList = f.friendList
      /\ t.friendNames = f.friendNames /\ t.recentItemList = f.recentItemList
      /\ t.recentItemNames = f.recentItemNames /\ t.rows = n /\ t.inOrder = f.inOrder
  BY <1>3 DEF Feed
<1>5. t \in Feed
  BY <1>2, <1>3 DEF Feed
<1>6. Arrays(t, u, friends, seen, there)
  BY <1>1, <1>2, <1>4 DEF FeedOK, Arrays
<1>7. t.inOrder /\ new => UpToDate(t, friends, latest)
  BY <1>4 DEF FeedOK, UpToDate
<1> QED BY <1>4, <1>5, <1>6, <1>7 DEF FeedOK

-----------------------------------------------------------------------------
(* One page                                                                *)

\* The page when it appears again, after each answer, and after a reload.
Noted(p, still) == [p EXCEPT !.unchanged = still]

Reappeared(p) == [p EXCEPT !.asked = p.asked \o PageRequests, !.unchanged = TRUE]

GivenInfo(p, listed, k) ==
  [p EXCEPT !.itemList = listed, !.following = TRUE, !.asked = RemoveAt(p.asked, k)]

GivenPageItems(p, there, k) ==
  [p EXCEPT !.items = there \cap p.itemList, !.reloads = p.reloads + 1,
            !.asked = RemoveAt(p.asked, k)]

GivenNoPageItems(p, k) == [p EXCEPT !.asked = RemoveAt(p.asked, k)]

Selected(u, inOrder) ==
  [ClosedPage EXCEPT !.screen = "open", !.uid = u, !.inOrder = inOrder,
                     !.unchanged = TRUE, !.asked = PageRequests \o PageRequests]

PageReloaded(p) == [p EXCEPT !.reloads = p.reloads - 1, !.rows = Cardinality(p.items)]

\* The two requests of an appearance.
LEMMA PageAskedAgain ==
  ASSUME NEW asked \in Seq({"info", "items"}), NEW more, more = asked \o PageRequests
  PROVE  /\ more \in Seq({"info", "items"}) /\ more # <<>>
         /\ ~NoneAsked(more, "info") /\ more[Len(more)] = "items"
<1>1. /\ PageRequests \in Seq({"info", "items"}) /\ Len(PageRequests) = 2
      /\ PageRequests[1] = "info" /\ PageRequests[2] = "items"
  BY DEF PageRequests
<1>2. /\ Len(more) = Len(asked) + 2 /\ DOMAIN more = 1 .. Len(asked) + 2
      /\ more[Len(asked) + 1] = "info" /\ more[Len(asked) + 2] = "items"
  BY <1>1, ConcatPair
<1>3. more \in Seq({"info", "items"}) /\ Len(asked) \in Nat
  BY <1>1
<1>4. Len(asked) + 1 \in DOMAIN more
  BY <1>2, <1>3
<1> QED BY <1>2, <1>3, <1>4 DEF NoneAsked

LEMMA PageAnswered ==
  ASSUME NEW p \in Page, NEW kind, NEW k \in Turn(p.asked, kind, p.inOrder),
         NEW rest, rest = RemoveAt(p.asked, k)
  PROVE  /\ rest \in Seq({"info", "items"}) /\ p.asked # <<>>
         /\ p.inOrder => FirstOne(p.asked, kind, rest) /\ NowAnswered(p.asked, kind, rest)
<1>1. p.asked \in Seq({"info", "items"}) /\ p.inOrder \in BOOLEAN
  BY DEF Page
<1>2. /\ rest \in Seq({"info", "items"}) /\ p.asked # <<>>
      /\ p.inOrder => FirstOne(p.asked, kind, rest)
  BY <1>1, Answered
<1>3. ASSUME p.inOrder
      PROVE  NowAnswered(p.asked, kind, rest)
  BY <1>1, <1>3, AnsweredInOrder
<1> QED BY <1>2, <1>3

\* Somebody else wrote: the lists may be longer, and it is noted.
LEMMA PageKept ==
  ASSUME NEW p \in Page, NEW friends, NEW listed, PageOK(p, friends, listed),
         NEW friends_2, NEW listed_2, friends \subseteq friends_2, listed \subseteq listed_2,
         NEW still \in BOOLEAN, still => p.unchanged /\ listed_2 = listed,
         NEW t, t = Noted(p, still)
  PROVE  t \in Page /\ t.uid = p.uid /\ PageOK(t, friends_2, listed_2)
<1>1. /\ t.screen = p.screen /\ t.uid = p.uid /\ t.itemList = p.itemList /\ t.items = p.items
      /\ t.following = p.following /\ t.inOrder = p.inOrder /\ t.asked = p.asked
      /\ t.reloads = p.reloads /\ t.rows = p.rows /\ t.unchanged = still
  BY DEF Page, Noted
<1>2. t \in Page
  BY DEF Page, Noted
<1> QED BY <1>1, <1>2 DEF PageOK

LEMMA ClosedPageOK ==
  ASSUME NEW friends, NEW listed
  PROVE  ClosedPage \in Page /\ ClosedPage.uid = NoId /\ PageOK(ClosedPage, friends, listed)
<1>1. ClosedPage \in Page
  BY DEF ClosedPage, Page
<1>2. Cardinality({}) = 0
  BY FS_EmptySet
<1> QED BY <1>1, <1>2 DEF ClosedPage, PageOK

LEMMA OpenedPageType ==
  ASSUME NEW u \in Uid \cup {NoId}, NEW inOrder \in BOOLEAN, NEW asked \in Seq({"info", "items"})
  PROVE  [screen |-> "open", uid |-> u, itemList |-> {}, items |-> {},
          following |-> FALSE, inOrder |-> inOrder, asked |-> asked, reloads |-> 0,
          rows |-> 0, unchanged |-> TRUE] \in Page
  BY DEF Page

LEMMA SelectedOK ==
  ASSUME NEW u \in Uid \cup {NoId}, NEW friends, u \in friends, NEW listed,
         NEW inOrder \in BOOLEAN,
         NEW p, p = Selected(u, inOrder)
  PROVE  p \in Page /\ p.uid = u /\ PageOK(p, friends, listed)
<1>1. PICK asked : asked = PageRequests \o PageRequests
  OBVIOUS
<1>2. /\ asked \in Seq({"info", "items"}) /\ asked # <<>>
      /\ ~NoneAsked(asked, "info") /\ asked[Len(asked)] = "items"
  <2>1. PageRequests \in Seq({"info", "items"})
    BY DEF PageRequests
  <2> QED BY <1>1, <2>1, PageAskedAgain
<1>3. p = [screen |-> "open", uid |-> u, itemList |-> {}, items |-> {},
           following |-> FALSE, inOrder |-> inOrder, asked |-> asked, reloads |-> 0,
           rows |-> 0, unchanged |-> TRUE]
  BY <1>1 DEF Selected, ClosedPage
<1>4. p \in Page
  <2>1. [screen |-> "open", uid |-> u, itemList |-> {}, items |-> {},
         following |-> FALSE, inOrder |-> inOrder, asked |-> asked, reloads |-> 0,
         rows |-> 0, unchanged |-> TRUE] \in Page
    BY <1>2, OpenedPageType, Zenon
  <2> QED BY <1>3, <2>1
<1>5. Cardinality({}) = 0
  BY FS_EmptySet
<1>6. /\ p.screen = "open" /\ p.uid = u /\ p.itemList = {} /\ p.items = {}
      /\ ~p.following /\ p.asked = asked /\ p.reloads = 0 /\ p.rows = 0
  BY ONLY <1>3
<1>7. p.asked # <<>> /\ ~NoneAsked(p.asked, "info") /\ p.asked[Len(p.asked)] = "items"
  BY ONLY <1>2, <1>6
<1>8. p.rows = Cardinality(p.items) /\ p.rows <= Cardinality(p.items)
  <2>1. Cardinality(p.items) = 0
    BY ONLY <1>5, <1>6, Zenon
  <2> QED BY ONLY <2>1, <1>6
<1>9. p.items \subseteq p.itemList /\ p.itemList \subseteq listed
  BY <1>6
<1> QED BY <1>4, <1>6, <1>7, <1>8, <1>9 DEF PageOK

LEMMA ReappearedOK ==
  ASSUME NEW p \in Page, NEW friends, NEW listed, PageOK(p, friends, listed),
         NEW t, t = Reappeared(p)
  PROVE  t \in Page /\ t.uid = p.uid /\ PageOK(t, friends, listed)
<1>1. PICK asked : asked = p.asked \o PageRequests
  OBVIOUS
<1>2. p.asked \in Seq({"info", "items"})
  BY DEF Page
<1>3. /\ asked \in Seq({"info", "items"}) /\ asked # <<>>
      /\ ~NoneAsked(asked, "info") /\ asked[Len(asked)] = "items"
  BY <1>1, <1>2, PageAskedAgain
<1>4. t = [p EXCEPT !.asked = asked, !.unchanged = TRUE]
  BY <1>1 DEF Reappeared
<1>5. /\ t.screen = p.screen /\ t.uid = p.uid /\ t.itemList = p.itemList /\ t.items = p.items
      /\ t.following = p.following /\ t.inOrder = p.inOrder /\ t.asked = asked
      /\ t.reloads = p.reloads /\ t.rows = p.rows
  BY <1>4 DEF Page
<1>6. t \in Page
  BY <1>3, <1>4 DEF Page
<1> QED BY <1>3, <1>5, <1>6 DEF PageOK

\* The list the page reads is that of its user, who is on his own list.
LEMMA GivenInfoOK ==
  ASSUME NEW p \in Page, NEW friends, NEW listed \in SUBSET ItemId,
         PageOK(p, friends, listed), p.uid \in Uid,
         NEW k \in Turn(p.asked, "info", p.inOrder),
         NEW t, t = GivenInfo(p, listed, k)
  PROVE  t \in Page /\ t.uid = p.uid /\ PageOK(t, friends, listed)
<1>1. PICK rest : rest = RemoveAt(p.asked, k)
  OBVIOUS
<1>2. /\ rest \in Seq({"info", "items"}) /\ p.asked # <<>>
      /\ p.inOrder => FirstOne(p.asked, "info", rest)
  BY <1>1, PageAnswered
<1>3. t = [p EXCEPT !.itemList = listed, !.following = TRUE, !.asked = rest]
  BY <1>1 DEF GivenInfo
<1>4. /\ t.screen = p.screen /\ t.uid = p.uid /\ t.itemList = listed /\ t.items = p.items
      /\ t.following = TRUE /\ t.inOrder = p.inOrder /\ t.asked = rest
      /\ t.reloads = p.reloads /\ t.rows = p.rows
  BY <1>3 DEF Page
<1>5. t \in Page
  <2>1. listed \in SUBSET (ItemId \cup {NoId})
    OBVIOUS
  <2> QED BY <1>2, <1>3, <2>1 DEF Page
<1>6. ASSUME t.inOrder
      PROVE  rest # <<>> /\ rest[Len(rest)] = "items"
  BY <1>2, <1>4, <1>6 DEF FirstOne, PageOK
<1> QED BY <1>4, <1>5, <1>6 DEF PageOK

\* The items its list names are there.
LEMMA GivenPageItemsOK ==
  ASSUME NEW p \in Page, NEW friends, NEW listed, PageOK(p, friends, listed),
         IsFiniteSet(listed), NEW there, listed \subseteq there, listed \subseteq ItemId,
         NEW k \in Turn(p.asked, "items", p.inOrder),
         NEW t, t = GivenPageItems(p, there, k)
  PROVE  t \in Page /\ t.uid = p.uid /\ PageOK(t, friends, listed)
<1>1. PICK rest : rest = RemoveAt(p.asked, k)
  OBVIOUS
<1>2. /\ rest \in Seq({"info", "items"}) /\ p.asked # <<>>
      /\ p.inOrder => FirstOne(p.asked, "items", rest) /\ NowAnswered(p.asked, "items", rest)
  BY <1>1, PageAnswered
<1>3. /\ there \cap p.itemList = p.itemList /\ p.itemList \in SUBSET ItemId
      /\ p.reloads + 1 \in Nat /\ p.reloads + 1 # 0
  BY DEF PageOK, Page
<1>4. t = [p EXCEPT !.items = p.itemList, !.reloads = p.reloads + 1, !.asked = rest]
  BY <1>1, <1>3 DEF GivenPageItems
<1>5. /\ t.screen = p.screen /\ t.uid = p.uid /\ t.itemList = p.itemList /\ t.items = p.itemList
      /\ t.following = p.following /\ t.inOrder = p.inOrder /\ t.asked = rest
      /\ t.reloads = p.reloads + 1 /\ t.rows = p.rows /\ t.unchanged = p.unchanged
  BY <1>4 DEF Page
<1>6. t \in Page
  BY <1>2, <1>3, <1>4 DEF Page
<1>7. p.rows <= Cardinality(p.itemList)
  <2>1. p.itemList \in SUBSET listed /\ p.items \in SUBSET p.itemList
    BY DEF PageOK
  <2>2. IsFiniteSet(p.itemList)
    BY <2>1, Fewer
  <2>3. /\ Cardinality(p.itemList) \in Nat /\ Cardinality(p.items) \in Nat
        /\ Cardinality(p.items) <= Cardinality(p.itemList)
    BY <2>1, <2>2, Fewer
  <2>4. p.rows \in Nat /\ p.rows <= Cardinality(p.items)
    BY DEF PageOK, Page
  <2> QED BY <2>3, <2>4
<1>8. t.screen = "open" /\ t.inOrder => t.following \/ ~NoneAsked(t.asked, "info")
  BY <1>2, <1>5 DEF PageOK, NowAnswered
<1>9. t.inOrder /\ t.asked # <<>> => t.asked[Len(t.asked)] = "items"
  BY <1>2, <1>5 DEF PageOK, FirstOne
<1>10. ASSUME t.inOrder, t.unchanged
       PROVE  /\ NoneAsked(t.asked, "info") => t.itemList = listed
              /\ t.asked = <<>> => t.items = listed
  <2>1. NoneAsked(<<>>, "info")
    BY DEF NoneAsked
  <2> QED BY <1>2, <1>5, <1>10, <2>1 DEF PageOK, NowAnswered
<1> QED BY <1>3, <1>5, <1>6, <1>7, <1>8, <1>9, <1>10 DEF PageOK

\* There are no items, and so none to show.
LEMMA GivenNoPageItemsOK ==
  ASSUME NEW p \in Page, NEW friends, PageOK(p, friends, {}),
         NEW k \in Turn(p.asked, "items", p.inOrder),
         NEW t, t = GivenNoPageItems(p, k)
  PROVE  t \in Page /\ t.uid = p.uid /\ PageOK(t, friends, {})
<1>1. PICK rest : rest = RemoveAt(p.asked, k)
  OBVIOUS
<1>2. /\ rest \in Seq({"info", "items"}) /\ p.asked # <<>>
      /\ p.inOrder => FirstOne(p.asked, "items", rest) /\ NowAnswered(p.asked, "items", rest)
  BY <1>1, PageAnswered
<1>3. t = [p EXCEPT !.asked = rest]
  BY <1>1 DEF GivenNoPageItems
<1>4. /\ t.screen = p.screen /\ t.uid = p.uid /\ t.itemList = p.itemList /\ t.items = p.items
      /\ t.following = p.following /\ t.inOrder = p.inOrder /\ t.asked = rest
      /\ t.reloads = p.reloads /\ t.rows = p.rows /\ t.unchanged = p.unchanged
  BY <1>3 DEF Page
<1>5. t \in Page
  BY <1>2, <1>3 DEF Page
<1>6. t.screen = "open" /\ t.inOrder => t.following \/ ~NoneAsked(t.asked, "info")
  BY <1>2, <1>4 DEF PageOK, NowAnswered
<1>7. t.inOrder /\ t.asked # <<>> => t.asked[Len(t.asked)] = "items"
  BY <1>2, <1>4 DEF PageOK, FirstOne
<1>8. t.itemList = {} /\ t.items = {}
  BY <1>4 DEF PageOK
<1> QED BY <1>4, <1>5, <1>6, <1>7, <1>8 DEF PageOK

LEMMA PageReloadedOK ==
  ASSUME NEW p \in Page, NEW friends, NEW listed, PageOK(p, friends, listed),
         IsFiniteSet(listed), p.reloads > 0, NEW t, t = PageReloaded(p)
  PROVE  t \in Page /\ t.uid = p.uid /\ PageOK(t, friends, listed)
<1>1. PICK n : n = Cardinality(p.items)
  OBVIOUS
<1>2. n \in Nat /\ p.reloads - 1 \in Nat
  <2>1. p.items \in SUBSET listed
    BY DEF PageOK
  <2>2. n \in Nat
    BY <1>1, <2>1, Fewer
  <2> QED BY <2>2 DEF Page
<1>3. t = [p EXCEPT !.reloads = p.reloads - 1, !.rows = n]
  BY <1>1 DEF PageReloaded
<1>4. /\ t.screen = p.screen /\ t.uid = p.uid /\ t.itemList = p.itemList /\ t.items = p.items
      /\ t.following = p.following /\ t.inOrder = p.inOrder /\ t.asked = p.asked
      /\ t.rows = n /\ t.unchanged = p.unchanged
  BY <1>3 DEF Page
<1>5. t \in Page
  BY <1>2, <1>3 DEF Page
<1> QED BY <1>1, <1>2, <1>4, <1>5 DEF PageOK

-----------------------------------------------------------------------------
(* Steps                                                                   *)

\* A viewer that a step does not touch.
LEMMA OthersSame ==
  ASSUME NEW e \in Viewer, FeedInv(e), PageInv(e), SameView(e),
         feed'[e] = feed[e], fresh'[e] = fresh[e], userVC'[e] = userVC[e]
  PROVE  FeedInv(e)' /\ PageInv(e)'
<1>1. FeedInv(e)'
  BY DEF FeedInv, SameView
<1>2. ListedOf(userVC[e].uid)' = ListedOf(userVC[e].uid)
  <2>1. PICK u : u = userVC[e].uid
    OBVIOUS
  <2>2. ListedOf(userVC[e].uid)' = ListedOf(u)'
    BY <2>1 DEF ListedOf
  <2> QED BY <2>1, <2>2 DEF SameView
<1>3. PageInv(e)'
  BY <1>2 DEF PageInv, SameView
<1> QED BY <1>1, <1>3

\* A step of viewer d that writes nothing on the server.
LEMMA ViewerStep ==
  ASSUME PagesInv, NEW d \in Viewer, UNCHANGED <<users, items, currentUser>>, DataOK',
         pending' \in [Device -> Seq(Write)], up' \in [Device -> BOOLEAN],
         \A e \in Device : e # d => pending'[e] = pending[e],
         NEW f \in Feed, NEW b \in BOOLEAN, NEW p \in Page,
         feed' = [feed EXCEPT ![d] = f], fresh' = [fresh EXCEPT ![d] = b],
         userVC' = [userVC EXCEPT ![d] = p],
         FeedOK(f, Account[d], Friends(d)', UsersSeen(d)', items', Latest(d)', b),
         PageOK(p, Friends(d)', ListedOf(p.uid)')
  PROVE  PagesInv'
<1> USE FriendFeedAssumption
<1>1. ScreensTypeOK' /\ PageTypeOK'
  BY DEF PagesInv, ScreensTypeOK, PageTypeOK, FirebaseTypeOK
<1>2. /\ feed'[d] = f /\ fresh'[d] = b /\ userVC'[d] = p
      /\ \A e \in Device : e # d => /\ feed'[e] = feed[e] /\ fresh'[e] = fresh[e]
                                    /\ userVC'[e] = userVC[e]
  BY DEF PagesInv, ScreensTypeOK, PageTypeOK
<1>3. FeedInv(d)' /\ PageInv(d)'
  <2>1. FeedInv(d)'
    BY <1>2 DEF FeedInv
  <2>2. ListedOf(userVC[d].uid)' = ListedOf(p.uid)'
    BY <1>2 DEF ListedOf
  <2>3. PageInv(d)'
    BY <1>2, <2>2 DEF PageInv
  <2> QED BY <2>1, <2>3
<1>4. ASSUME NEW e \in Viewer, e # d
      PROVE  FeedInv(e)' /\ PageInv(e)'
  <2>1. UNCHANGED <<users, items, pending[e]>>
    BY <1>4
  <2>2. SameView(e)
    BY <2>1, UntouchedView
  <2>3. feed'[e] = feed[e] /\ fresh'[e] = fresh[e] /\ userVC'[e] = userVC[e]
    BY <1>2, <1>4
  <2>4. FeedInv(e) /\ PageInv(e)
    BY DEF PagesInv
  <2> QED BY <2>2, <2>3, <2>4, OthersSame
<1> QED BY <1>1, <1>3, <1>4 DEF PagesInv

\* A step of viewer d that writes nothing.
LEMMA QuietStep ==
  ASSUME PagesInv, NEW d \in Viewer, UNCHANGED <<users, items, pending, currentUser>>,
         up' \in [Device -> BOOLEAN],
         NEW f \in Feed, NEW b \in BOOLEAN, NEW p \in Page,
         feed' = [feed EXCEPT ![d] = f], fresh' = [fresh EXCEPT ![d] = b],
         userVC' = [userVC EXCEPT ![d] = p],
         FeedOK(f, Account[d], Friends(d), UsersSeen(d), items, Latest(d), b),
         PageOK(p, Friends(d), ListedOf(p.uid))
  PROVE  PagesInv'
<1>1. DataOK'
  BY QuietData DEF PagesInv
<1>2. SameView(d)
  BY FriendFeedAssumption, UntouchedView
<1>3. pending' \in [Device -> Seq(Write)]
  BY DEF PagesInv, ScreensTypeOK, FirebaseTypeOK
<1>4. /\ FeedOK(f, Account[d], Friends(d)', UsersSeen(d)', items', Latest(d)', b)
      /\ PageOK(p, Friends(d)', ListedOf(p.uid)')
  BY <1>2 DEF SameView
<1> QED BY <1>1, <1>3, <1>4, ViewerStep

\* A step of its feed alone, or of its page alone.
LEMMA FeedStep ==
  ASSUME PagesInv, NEW d \in Viewer, UNCHANGED <<firebaseVars, userVC>>,
         NEW f \in Feed, NEW b \in BOOLEAN,
         feed' = [feed EXCEPT ![d] = f], fresh' = [fresh EXCEPT ![d] = b],
         FeedOK(f, Account[d], Friends(d), UsersSeen(d), items, Latest(d), b)
  PROVE  PagesInv'
<1>1. userVC[d] \in Page /\ userVC' = [userVC EXCEPT ![d] = userVC[d]]
  BY FriendFeedAssumption DEF PagesInv, PageTypeOK
<1>2. PageOK(userVC[d], Friends(d), ListedOf(userVC[d].uid))
  BY DEF PagesInv, PageInv
<1>3. UNCHANGED <<users, items, pending, currentUser>> /\ up' \in [Device -> BOOLEAN]
  BY DEF PagesInv, ScreensTypeOK, FirebaseTypeOK, firebaseVars
<1> QED BY <1>1, <1>2, <1>3, QuietStep

LEMMA PageStep ==
  ASSUME PagesInv, NEW d \in Viewer, UNCHANGED vars, NEW p \in Page,
         userVC' = [userVC EXCEPT ![d] = p],
         PageOK(p, Friends(d), ListedOf(p.uid))
  PROVE  PagesInv'
<1>1. /\ feed[d] \in Feed /\ feed' = [feed EXCEPT ![d] = feed[d]]
      /\ fresh[d] \in BOOLEAN /\ fresh' = [fresh EXCEPT ![d] = fresh[d]]
  BY FriendFeedAssumption DEF PagesInv, ScreensTypeOK, vars
<1>2. FeedOK(feed[d], Account[d], Friends(d), UsersSeen(d), items, Latest(d), fresh[d])
  BY DEF PagesInv, FeedInv
<1>3. UNCHANGED <<users, items, pending, currentUser>> /\ up' \in [Device -> BOOLEAN]
  BY DEF PagesInv, ScreensTypeOK, FirebaseTypeOK, firebaseVars, vars
<1> QED BY <1>1, <1>2, <1>3, QuietStep

-----------------------------------------------------------------------------
(* Steps of the feed                                                       *)

\* What a step of viewer d starts from.
LEMMA ViewerState ==
  ASSUME PagesInv, NEW d \in Viewer
  PROVE  /\ d \in Device /\ Account[d] \in Uid /\ currentUser[d] = Account[d]
         /\ feed[d] \in Feed /\ fresh[d] \in BOOLEAN /\ userVC[d] \in Page
         /\ feed \in [Device -> Feed] /\ fresh \in [Device -> BOOLEAN]
         /\ userVC \in [Device -> Page] /\ up \in [Device -> BOOLEAN]
         /\ FeedOK(feed[d], Account[d], Friends(d), UsersSeen(d), items, Latest(d), fresh[d])
         /\ PageOK(userVC[d], Friends(d), ListedOf(userVC[d].uid))
         /\ SeesServer(d)
  BY FriendFeedAssumption, ViewerSees
     DEF PagesInv, ScreensTypeOK, PageTypeOK, FirebaseTypeOK, FeedInv, PageInv, DataOK, ViewersSee

LEMMA OpenStep ==
  ASSUME PagesInv, NEW d \in Viewer, Open(d), UNCHANGED userVC
  PROVE  PagesInv'
<1>1. PICK inOrder \in BOOLEAN :
        feed' = [feed EXCEPT ![d] =
                  [Closed EXCEPT !.screen = "open", !.uid = currentUser[d],
                                 !.inOrder = inOrder, !.asked = Requests \o Requests]]
  BY Zenon DEF Open
<1>2. PICK f : f = [Closed EXCEPT !.screen = "open", !.uid = Account[d],
                                  !.inOrder = inOrder, !.asked = Requests \o Requests]
  BY Zenon
<1>3. Account[d] \in Uid /\ currentUser[d] = Account[d]
  BY ViewerState
<1>4. feed' = [feed EXCEPT ![d] = f]
  BY <1>1, <1>2, <1>3
<1>5. f \in Feed /\ FeedOK(f, Account[d], Friends(d), UsersSeen(d), items, Latest(d), TRUE)
  BY <1>1, <1>2, <1>3, OpenedOK, Zenon
<1>6. UNCHANGED <<firebaseVars, userVC>> /\ fresh' = [fresh EXCEPT ![d] = TRUE]
  BY DEF Open, firebaseVars
<1> QED BY <1>4, <1>5, <1>6, FeedStep

\* The feed appears again, and its page is left or there was none.
LEMMA ReappearStep ==
  ASSUME PagesInv, NEW d \in Viewer, Reappear(d),
         UNCHANGED userVC \/ userVC' = [userVC EXCEPT ![d] = ClosedPage]
  PROVE  PagesInv'
<1>1. PICK f : f = Appeared(feed[d], Account[d])
  OBVIOUS
<1>2. /\ feed[d] \in Feed /\ Account[d] \in Uid /\ currentUser[d] = Account[d]
      /\ FeedOK(feed[d], Account[d], Friends(d), UsersSeen(d), items, Latest(d), fresh[d])
      /\ PageOK(userVC[d], Friends(d), ListedOf(userVC[d].uid)) /\ userVC[d] \in Page
      /\ userVC \in [Device -> Page] /\ up \in [Device -> BOOLEAN]
  BY ViewerState
<1>3. f \in Feed /\ FeedOK(f, Account[d], Friends(d), UsersSeen(d), items, Latest(d), TRUE)
  <2>1. /\ feed[d] \in Feed /\ Account[d] \in Uid
        /\ FeedOK(feed[d], Account[d], Friends(d), UsersSeen(d), items, Latest(d), fresh[d])
    BY <1>2
  <2> QED BY <1>1, <2>1, AppearedOK, Zenon
<1>4. /\ feed' = [feed EXCEPT ![d] = f] /\ fresh' = [fresh EXCEPT ![d] = TRUE]
      /\ UNCHANGED <<users, items, pending, currentUser>> /\ up' \in [Device -> BOOLEAN]
  <2>1. feed' = [feed EXCEPT ![d] = Appeared(feed[d], currentUser[d])]
    BY Zenon DEF Reappear, Appeared
  <2>2. feed' = [feed EXCEPT ![d] = f]
    BY <1>1, <1>2, <2>1
  <2> QED BY <1>2, <2>2 DEF Reappear, firebaseVars
<1>5. PICK p : p = IF userVC' = userVC THEN userVC[d] ELSE ClosedPage
  OBVIOUS
<1>6. userVC' = [userVC EXCEPT ![d] = p]
  BY <1>2, <1>5
<1>7. p \in Page /\ PageOK(p, Friends(d), ListedOf(p.uid))
  BY <1>2, <1>5, ClosedPageOK
<1> QED BY <1>3, <1>4, <1>6, <1>7, QuietStep

\* The answer to a request leaves a feed in order.
LEMMA AnswerStep ==
  ASSUME PagesInv, NEW d \in Viewer, UNCHANGED <<firebaseVars, userVC, fresh>>,
         NEW f \in Feed, feed' = [feed EXCEPT ![d] = f],
         FeedOK(f, Account[d], Friends(d), UsersSeen(d), items, Latest(d), fresh[d])
  PROVE  PagesInv'
<1>1. fresh[d] \in BOOLEAN /\ fresh' = [fresh EXCEPT ![d] = fresh[d]]
  BY ViewerState
<1> QED BY <1>1, FeedStep

LEMMA LoadIDsStep ==
  ASSUME PagesInv, NEW d \in Viewer, LoadIDs(d), UNCHANGED userVC
  PROVE  PagesInv'
<1>1. PICK list : list = FriendListSeen(d, Account[d])
  OBVIOUS
<1>2. PICK k \in Turn(feed[d].asked, "ids", feed[d].inOrder) :
        /\ FriendListSeen(d, feed[d].uid) # Missing
        /\ feed' = [feed EXCEPT ![d] = GivenIDs(feed[d], FriendListSeen(d, feed[d].uid), k)]
  BY Zenon DEF LoadIDs, Asked, GivenIDs
<1>3. /\ feed[d] \in Feed /\ Account[d] \in Uid
      /\ FeedOK(feed[d], Account[d], Friends(d), UsersSeen(d), items, Latest(d), fresh[d])
  BY ViewerState
<1>4. feed[d].uid = Account[d]
  <2>1. feed[d].asked # <<>>
    BY <1>2 DEF Turn
  <2> QED BY <1>3, <2>1 DEF FeedOK, Arrays
<1>5. list \in Seq(Uid \cup {NoId}) /\ Ids(list) = Friends(d)
  BY <1>1, <1>2, <1>3, <1>4, FriendListSeenOK DEF PagesInv, Friends
<1>6. PICK f : f = GivenIDs(feed[d], list, k)
  OBVIOUS
<1>7. f \in Feed /\ FeedOK(f, Account[d], Friends(d), UsersSeen(d), items, Latest(d), fresh[d])
  BY <1>2, <1>3, <1>5, <1>6, GivenIDsOK
<1>8. feed' = [feed EXCEPT ![d] = f]
  BY <1>1, <1>2, <1>4, <1>6
<1>9. UNCHANGED <<firebaseVars, userVC, fresh>>
  BY DEF LoadIDs
<1> QED BY <1>7, <1>8, <1>9, AnswerStep

LEMMA LoadNoIDsStep ==
  ASSUME PagesInv, NEW d \in Viewer, LoadNoIDs(d), UNCHANGED userVC
  PROVE  PagesInv'
<1>1. PICK k \in Turn(feed[d].asked, "ids", feed[d].inOrder) :
        feed' = [feed EXCEPT ![d] = GivenNothing(feed[d], k)]
  BY DEF LoadNoIDs, Asked, GivenNothing
<1>2. /\ feed[d] \in Feed /\ Account[d] \in Uid /\ d \in Device
      /\ FeedOK(feed[d], Account[d], Friends(d), UsersSeen(d), items, Latest(d), fresh[d])
  BY ViewerState
<1>3. Friends(d) = {}
  <2>1. UsersSeen(d) = {}
    BY DEF LoadNoIDs
  <2>2. FriendListSeen(d, Account[d]) = Missing
    BY <1>2, <2>1, UsersSeenAre DEF SeenAre
  <2> QED BY <2>2, NothingListed DEF Friends
<1>4. PICK f : f = GivenNothing(feed[d], k)
  OBVIOUS
<1>5. FeedOK(feed[d], Account[d], {}, UsersSeen(d), items, Latest(d), fresh[d])
  BY <1>2, <1>3
<1>6. f \in Feed /\ FeedOK(f, Account[d], {}, UsersSeen(d), items, Latest(d), fresh[d])
  BY <1>1, <1>2, <1>4, <1>5, GivenNoIDsOK
<1>7. FeedOK(f, Account[d], Friends(d), UsersSeen(d), items, Latest(d), fresh[d])
  BY <1>3, <1>6
<1>8. feed' = [feed EXCEPT ![d] = f]
  BY <1>1, <1>4
<1>9. UNCHANGED <<firebaseVars, userVC, fresh>>
  BY DEF LoadNoIDs
<1> QED BY <1>6, <1>7, <1>8, <1>9, AnswerStep

LEMMA LoadNamesStep ==
  ASSUME PagesInv, NEW d \in Viewer, LoadNames(d), UNCHANGED userVC
  PROVE  PagesInv'
<1>1. PICK names : names = KnownFriends(d)
  OBVIOUS
<1>2. PICK recent : recent = {Last(users[u].itemList) : u \in names}
  OBVIOUS
<1>3. /\ feed[d] \in Feed /\ SeesServer(d)
      /\ FeedOK(feed[d], Account[d], Friends(d), UsersSeen(d), items, Latest(d), fresh[d])
  BY ViewerState
<1>4. names = UsersSeen(d) \cap Ids(feed[d].friendList)
  BY <1>1 DEF KnownFriends
<1>5. names \in SUBSET Uid /\ IsFiniteSet(names)
  <2>1. feed[d].friendList \in Seq(Uid \cup {NoId})
    BY <1>3 DEF Feed
  <2>2. IsFiniteSet(Ids(feed[d].friendList))
    BY <2>1, FriendIds
  <2>3. IsFiniteSet(names)
    BY <1>4, <2>2, Fewer
  <2> QED BY <1>4, <2>3 DEF UsersSeen
<1>6. \A u \in names : ItemListSeen(d, u) = users[u].itemList /\ users[u].itemList # Missing
  BY <1>1, <1>3, <1>5 DEF LoadNames, NamesAreThere, SeesServer
<1>7. recent = {Last(ItemListSeen(d, u)) : u \in names}
  BY <1>2, <1>6
<1>8. /\ IsFiniteSet(recent) /\ Cardinality(recent) = Cardinality(names)
      /\ recent \subseteq items /\ recent \subseteq ItemId
  <2>1. users \in [Uid -> Record] /\ RecordsOK /\ ListsApart
    BY DEF PagesInv, ScreensTypeOK, FirebaseTypeOK, DataOK
  <2> QED BY <1>2, <1>5, <1>6, <2>1, LastApart
<1>9. PICK k \in Turn(feed[d].asked, "names", feed[d].inOrder) :
        feed' = [feed EXCEPT ![d] =
                   GivenNames(feed[d], KnownFriends(d),
                              {Last(ItemListSeen(d, u)) : u \in KnownFriends(d)}, k)]
  BY Zenon DEF LoadNames, Asked, GivenNames
<1>10. Ids(feed[d].friendList) = Friends(d) => recent = Latest(d)
  <2>1. ASSUME Ids(feed[d].friendList) = Friends(d)
        PROVE  names = Friends(d) \cap UsersSeen(d)
    BY <1>4, <2>1
  <2> QED BY <1>2, <2>1 DEF Latest
<1>11. PICK f : f = GivenNames(feed[d], names, recent, k)
  OBVIOUS
<1>12. f \in Feed /\ FeedOK(f, Account[d], Friends(d), UsersSeen(d), items, Latest(d), fresh[d])
  <2>1. /\ feed[d] \in Feed /\ UsersSeen(d) \in SUBSET Uid
        /\ FeedOK(feed[d], Account[d], Friends(d), UsersSeen(d), items, Latest(d), fresh[d])
    BY <1>3 DEF UsersSeen
  <2> QED BY <1>4, <1>8, <1>9, <1>10, <1>11, <2>1, GivenNamesOK
<1>13. feed' = [feed EXCEPT ![d] = f]
  BY <1>1, <1>7, <1>9, <1>11
<1>14. UNCHANGED <<firebaseVars, userVC, fresh>>
  BY DEF LoadNames
<1> QED BY <1>12, <1>13, <1>14, AnswerStep

LEMMA LoadItemsStep ==
  ASSUME PagesInv, NEW d \in Viewer, LoadItems(d), UNCHANGED userVC
  PROVE  PagesInv'
<1>1. PICK k \in Turn(feed[d].asked, "items", feed[d].inOrder) :
        feed' = [feed EXCEPT ![d] = GivenItems(feed[d], ItemsSeen(d), k)]
  BY Zenon DEF LoadItems, Asked, GivenItems
<1>2. /\ feed[d] \in Feed /\ ItemsSeen(d) = items
      /\ FeedOK(feed[d], Account[d], Friends(d), UsersSeen(d), items, Latest(d), fresh[d])
  BY ViewerState DEF SeesServer
<1>3. PICK f : f = GivenItems(feed[d], items, k)
  OBVIOUS
<1>4. f \in Feed /\ FeedOK(f, Account[d], Friends(d), UsersSeen(d), items, Latest(d), fresh[d])
  BY <1>1, <1>2, <1>3, GivenItemsOK
<1>5. feed' = [feed EXCEPT ![d] = f]
  BY <1>1, <1>2, <1>3
<1>6. UNCHANGED <<firebaseVars, userVC, fresh>>
  BY DEF LoadItems
<1> QED BY <1>4, <1>5, <1>6, AnswerStep

LEMMA LoadNoItemsStep ==
  ASSUME PagesInv, NEW d \in Viewer, LoadNoItems(d), UNCHANGED userVC
  PROVE  PagesInv'
<1>1. PICK k \in Turn(feed[d].asked, "items", feed[d].inOrder) :
        feed' = [feed EXCEPT ![d] = GivenNothing(feed[d], k)]
  BY Zenon DEF LoadNoItems, Asked, GivenNothing
<1>2. /\ feed[d] \in Feed /\ items = {}
      /\ FeedOK(feed[d], Account[d], Friends(d), UsersSeen(d), items, Latest(d), fresh[d])
  BY ViewerState DEF SeesServer, LoadNoItems
<1>3. PICK f : f = GivenNothing(feed[d], k)
  OBVIOUS
<1>4. FeedOK(feed[d], Account[d], Friends(d), UsersSeen(d), {}, Latest(d), fresh[d])
  BY <1>2
<1>5. f \in Feed /\ FeedOK(f, Account[d], Friends(d), UsersSeen(d), {}, Latest(d), fresh[d])
  BY <1>1, <1>2, <1>3, <1>4, GivenNoItemsOK
<1>6. FeedOK(f, Account[d], Friends(d), UsersSeen(d), items, Latest(d), fresh[d])
  BY <1>2, <1>5
<1>7. feed' = [feed EXCEPT ![d] = f]
  BY <1>1, <1>3
<1>8. UNCHANGED <<firebaseVars, userVC, fresh>>
  BY DEF LoadNoItems
<1> QED BY <1>5, <1>6, <1>7, <1>8, AnswerStep

LEMMA ReloadStep ==
  ASSUME PagesInv, NEW d \in Viewer, Reload(d), UNCHANGED userVC
  PROVE  PagesInv'
<1>1. PICK f : f = Reloaded(feed[d])
  OBVIOUS
<1>2. /\ feed[d] \in Feed /\ feed[d].reloads > 0
      /\ FeedOK(feed[d], Account[d], Friends(d), UsersSeen(d), items, Latest(d), fresh[d])
  BY ViewerState DEF Reload
<1>3. f \in Feed /\ FeedOK(f, Account[d], Friends(d), UsersSeen(d), items, Latest(d), fresh[d])
  BY <1>1, <1>2, ReloadedOK
<1>4. feed' = [feed EXCEPT ![d] = f]
  BY <1>1, Zenon DEF Reload, Reloaded
<1>5. UNCHANGED <<firebaseVars, userVC, fresh>>
  BY DEF Reload
<1> QED BY <1>3, <1>4, <1>5, AnswerStep

LEMMA LaunchStep ==
  ASSUME PagesInv, NEW d \in Viewer, Launch(d), UNCHANGED userVC
  PROVE  PagesInv'
<1>1. /\ feed[d] \in Feed /\ fresh[d] \in BOOLEAN /\ userVC[d] \in Page
      /\ feed' = [feed EXCEPT ![d] = feed[d]] /\ fresh' = [fresh EXCEPT ![d] = fresh[d]]
      /\ userVC' = [userVC EXCEPT ![d] = userVC[d]]
      /\ FeedOK(feed[d], Account[d], Friends(d), UsersSeen(d), items, Latest(d), fresh[d])
      /\ PageOK(userVC[d], Friends(d), ListedOf(userVC[d].uid))
  BY ViewerState DEF Launch
<1>2. UNCHANGED <<users, items, pending, currentUser>> /\ up' \in [Device -> BOOLEAN]
  BY ViewerState DEF Launch, ProcessStarts
<1> QED BY <1>1, <1>2, QuietStep

\* The process of viewer d dies, with its feed and its page.
LEMMA CrashStep ==
  ASSUME PagesInv, NEW d \in Viewer, Crash(d), PageDies(d)
  PROVE  PagesInv'
<1>1. DataOK'
  BY CrashData DEF PagesInv, Crash
<1>2. /\ UNCHANGED <<users, items, currentUser>>
      /\ \A e \in Device : e # d => pending'[e] = pending[e]
      /\ pending' \in [Device -> Seq(Write)] /\ up' \in [Device -> BOOLEAN]
  BY FriendFeedAssumption DEF PagesInv, ScreensTypeOK, FirebaseTypeOK, Crash, ProcessDies
<1>3. /\ Closed \in Feed
      /\ FeedOK(Closed, Account[d], Friends(d)', UsersSeen(d)', items', Latest(d)', FALSE)
  BY ClosedFeedOK, Zenon
<1>4. ClosedPage \in Page /\ PageOK(ClosedPage, Friends(d)', ListedOf(ClosedPage.uid)')
  BY ClosedPageOK, Zenon
<1>5. /\ feed' = [feed EXCEPT ![d] = Closed] /\ fresh' = [fresh EXCEPT ![d] = FALSE]
      /\ userVC' = [userVC EXCEPT ![d] = ClosedPage]
  BY DEF Crash, PageDies
<1> QED BY <1>1, <1>2, <1>3, <1>4, <1>5, ViewerStep

LEMMA FollowStep ==
  ASSUME PagesInv, NEW d \in Viewer, NEW u, FollowSeen(d, u), UNCHANGED userVC
  PROVE  PagesInv'
<1>1. DataOK' /\ pending' \in [Device -> Seq(Write)]
  BY FollowData DEF PagesInv
<1>2. /\ UNCHANGED <<users, items, currentUser, feed>> /\ up' \in [Device -> BOOLEAN]
      /\ fresh' = [fresh EXCEPT ![d] = FALSE]
      /\ \A e \in Device : e # d => pending'[e] = pending[e]
  BY FriendFeedAssumption DEF PagesInv, ScreensTypeOK, FirebaseTypeOK, FollowSeen, Issue
<1>3. SeesServer(d)'
  <2>1. FirebaseTypeOK'
    BY <1>1, <1>2 DEF PagesInv, ScreensTypeOK, FirebaseTypeOK
  <2>2. ViewerWrites(d)'
    BY <1>1 DEF DataOK
  <2> QED BY FriendFeedAssumption, <2>1, <2>2, ViewerSeesNext DEF ViewersSee
<1>4. MoreView(d) /\ items' = items /\ \A v : ListedOf(v)' = ListedOf(v)
  BY <1>3, FollowView DEF PagesInv
<1>5. /\ feed[d] \in Feed /\ userVC[d] \in Page
      /\ FeedOK(feed[d], Account[d], Friends(d), UsersSeen(d), items, Latest(d), fresh[d])
      /\ PageOK(userVC[d], Friends(d), ListedOf(userVC[d].uid))
      /\ feed' = [feed EXCEPT ![d] = feed[d]] /\ userVC' = [userVC EXCEPT ![d] = userVC[d]]
  BY <1>2, ViewerState
<1>6. FeedOK(feed[d], Account[d], Friends(d)', UsersSeen(d)', items', Latest(d)', FALSE)
  BY <1>4, <1>5, FeedKept, Zenon DEF MoreView
<1>7. PageOK(userVC[d], Friends(d)', ListedOf(userVC[d].uid))
  <2>1. Friends(d) \subseteq Friends(d)'
    BY <1>4 DEF MoreView
  <2> QED BY <1>5, <2>1 DEF PageOK
<1>8. PICK p : p = userVC[d]
  OBVIOUS
<1>9. p \in Page /\ userVC' = [userVC EXCEPT ![d] = p] /\ PageOK(p, Friends(d)', ListedOf(p.uid)')
  BY <1>4, <1>5, <1>7, <1>8
<1>10. PICK f : f = feed[d]
  OBVIOUS
<1>11. /\ f \in Feed /\ feed' = [feed EXCEPT ![d] = f]
       /\ FeedOK(f, Account[d], Friends(d)', UsersSeen(d)', items', Latest(d)', FALSE)
  BY <1>5, <1>6, <1>10
<1> QED BY <1>1, <1>2, <1>9, <1>11, ViewerStep

\* What the rows index is there.
LEMMA RowsInFriendList ==
  ASSUME NEW f \in Feed, NEW u, NEW friends, NEW seen, NEW there, NEW latest, NEW new,
         FeedOK(f, u, friends, seen, there, latest, new)
  PROVE  /\ f.rows <= Cardinality(f.recentItemNames)
         /\ f.rows <= Cardinality(f.friendNames) /\ f.rows <= Len(f.friendList)
<1>1. Arrays(f, u, friends, seen, there) /\ f.rows \in Nat /\ f.friendList \in Seq(Uid \cup {NoId})
  BY DEF FeedOK, Feed
<1>2. IsFiniteSet(Ids(f.friendList)) /\ Cardinality(Ids(f.friendList)) <= Len(f.friendList)
  BY <1>1, FriendIds
<1>3. f.friendNames \in SUBSET Ids(f.friendList)
  BY <1>1 DEF Arrays
<1>4. /\ Cardinality(f.friendNames) \in Nat /\ Cardinality(Ids(f.friendList)) \in Nat
      /\ Cardinality(f.friendNames) <= Cardinality(Ids(f.friendList))
  BY <1>2, <1>3, Fewer
<1>5. /\ Cardinality(f.recentItemNames) \in Nat /\ f.rows <= Cardinality(f.recentItemNames)
      /\ Cardinality(f.recentItemNames) <= Cardinality(f.friendNames)
  BY <1>1, FS_CardinalityType DEF Arrays
<1>6. Len(f.friendList) \in Nat
  BY <1>1
<1> QED BY <1>1, <1>2, <1>4, <1>5, <1>6

-----------------------------------------------------------------------------
(* Steps of the page                                                       *)

LEMMA SelectStep ==
  ASSUME PagesInv, NEW d \in Viewer, Select(d)
  PROVE  PagesInv'
<1>1. PICK row \in 1 .. feed[d].rows, inOrder \in BOOLEAN :
        userVC' = [userVC EXCEPT ![d] = Selected(feed[d].friendList[row], inOrder)]
  BY Zenon DEF Select, Selected
<1>2. PICK u : u = feed[d].friendList[row]
  OBVIOUS
<1>3. /\ feed[d] \in Feed
      /\ FeedOK(feed[d], Account[d], Friends(d), UsersSeen(d), items, Latest(d), fresh[d])
  BY ViewerState
<1>4. feed[d].rows <= Len(feed[d].friendList)
  BY <1>3, RowsInFriendList
<1>5. u \in Uid \cup {NoId} /\ u \in Friends(d)
  <2>1. feed[d].friendList \in Seq(Uid \cup {NoId}) /\ feed[d].rows \in Nat
    BY <1>3 DEF Feed
  <2>2. row \in 1 .. Len(feed[d].friendList)
    BY <1>1, <1>4, <2>1
  <2>3. u \in Ids(feed[d].friendList) /\ Ids(feed[d].friendList) \subseteq Uid \cup {NoId}
    BY <1>2, <2>1, <2>2, FriendIds
  <2> QED BY <1>3, <2>3 DEF FeedOK, Arrays
<1>6. PICK p : p = Selected(u, inOrder)
  OBVIOUS
<1>7. p \in Page /\ PageOK(p, Friends(d), ListedOf(p.uid))
  <2>1. PICK friends : friends = Friends(d)
    OBVIOUS
  <2>2. PICK listed : listed = ListedOf(u)
    OBVIOUS
  <2>3. p \in Page /\ p.uid = u /\ PageOK(p, friends, listed)
    <3>1. u \in Uid \cup {NoId} /\ inOrder \in BOOLEAN
      BY <1>1, <1>5
    <3>2. u \in friends
      BY <1>5, <2>1
    <3> QED BY <3>1, <3>2, <1>6, SelectedOK, Zenon
  <2> QED BY <2>1, <2>2, <2>3
<1>8. userVC' = [userVC EXCEPT ![d] = p]
  BY <1>1, <1>2, <1>6, Zenon
<1>9. UNCHANGED vars
  BY DEF Select
<1> QED BY <1>7, <1>8, <1>9, PageStep

LEMMA ReappearPageStep ==
  ASSUME PagesInv, NEW d \in Viewer, ReappearPage(d)
  PROVE  PagesInv'
<1>1. PICK p : p = Reappeared(userVC[d])
  OBVIOUS
<1>2. userVC[d] \in Page /\ PageOK(userVC[d], Friends(d), ListedOf(userVC[d].uid))
  BY ViewerState
<1>3. p \in Page /\ p.uid = userVC[d].uid /\ PageOK(p, Friends(d), ListedOf(userVC[d].uid))
  BY <1>1, <1>2, ReappearedOK
<1>4. userVC' = [userVC EXCEPT ![d] = p] /\ UNCHANGED vars
  BY <1>1, Zenon DEF ReappearPage, Reappeared
<1> QED BY <1>3, <1>4, PageStep

\* The items listed of a user are among those of the server, and finitely many.
LEMMA ListedItems ==
  ASSUME PagesInv, NEW u
  PROVE  /\ IsFiniteSet(ListedOf(u)) /\ ListedOf(u) \subseteq items
         /\ ListedOf(u) \in SUBSET ItemId
<1>1. CASE u \in Uid
  <2>1. users[u].itemList \in Seq(ItemId) \cup {Missing} /\ Ids(users[u].itemList) \subseteq items
    BY <1>1 DEF PagesInv, ScreensTypeOK, FirebaseTypeOK, Record, DataOK, RecordsOK
  <2>2. IsFiniteSet(Ids(users[u].itemList)) /\ Ids(users[u].itemList) \subseteq ItemId
    BY <2>1, ItemIds, NothingListed, FS_EmptySet
  <2> QED BY <1>1, <2>1, <2>2 DEF ListedOf
<1>2. CASE u \notin Uid
  BY <1>2, FS_EmptySet DEF ListedOf
<1> QED BY <1>1, <1>2

LEMMA LoadInfoStep ==
  ASSUME PagesInv, NEW d \in Viewer, LoadInfo(d)
  PROVE  PagesInv'
<1>1. PICK u : u = userVC[d].uid
  OBVIOUS
<1>2. PICK k \in Turn(userVC[d].asked, "info", userVC[d].inOrder) :
        /\ PersonIsThere(d, u)
        /\ userVC' = [userVC EXCEPT ![d] =
             [userVC[d] EXCEPT !.itemList = Ids(ItemListSeen(d, u)),
                               !.following = @ \/ u \in Ids(FriendListSeen(d, u)),
                               !.asked = RemoveAt(@, k)]]
  BY <1>1, Zenon DEF LoadInfo, PageAsked
<1>3. /\ userVC[d] \in Page /\ PageOK(userVC[d], Friends(d), ListedOf(userVC[d].uid))
      /\ SeesServer(d)
  BY ViewerState
<1>4. u \in Uid /\ FriendListSeen(d, u) # Missing
  BY <1>2 DEF PersonIsThere, UsersSeen
<1>5. Ids(ItemListSeen(d, u)) = ListedOf(userVC[d].uid)
  BY <1>1, <1>3, <1>4 DEF SeesServer, ListedOf
<1>6. (userVC[d].following \/ u \in Ids(FriendListSeen(d, u))) = TRUE
  BY <1>4, FriendListSeenOK DEF PagesInv
<1>7. PICK p : p = GivenInfo(userVC[d], ListedOf(userVC[d].uid), k)
  OBVIOUS
<1>8. p \in Page /\ p.uid = userVC[d].uid /\ PageOK(p, Friends(d), ListedOf(userVC[d].uid))
  <2>1. PICK listed : listed = ListedOf(userVC[d].uid)
    OBVIOUS
  <2>2. listed \in SUBSET ItemId
    BY <2>1, ListedItems
  <2>3. userVC[d] \in Page /\ userVC[d].uid \in Uid /\ PageOK(userVC[d], Friends(d), listed)
    BY <1>1, <1>3, <1>4, <2>1
  <2>4. p = GivenInfo(userVC[d], listed, k)
    BY <1>7, <2>1
  <2>5. p \in Page /\ p.uid = userVC[d].uid /\ PageOK(p, Friends(d), listed)
    BY <1>2, <2>2, <2>3, <2>4, GivenInfoOK
  <2> QED BY <2>1, <2>5
<1>9. userVC' = [userVC EXCEPT ![d] = p]
  BY <1>2, <1>5, <1>6, <1>7, Zenon DEF GivenInfo
<1>10. UNCHANGED vars
  BY DEF LoadInfo
<1> QED BY <1>8, <1>9, <1>10, PageStep

LEMMA LoadPageItemsStep ==
  ASSUME PagesInv, NEW d \in Viewer, LoadPageItems(d)
  PROVE  PagesInv'
<1>1. PICK k \in Turn(userVC[d].asked, "items", userVC[d].inOrder) :
        userVC' = [userVC EXCEPT ![d] =
                     IF ItemsSeen(d) = {} THEN GivenNoPageItems(userVC[d], k)
                     ELSE GivenPageItems(userVC[d], ItemsSeen(d), k)]
  BY Zenon DEF LoadPageItems, PageAsked, GivenNoPageItems, GivenPageItems
<1>2. /\ userVC[d] \in Page /\ PageOK(userVC[d], Friends(d), ListedOf(userVC[d].uid))
      /\ ItemsSeen(d) = items
  BY ViewerState DEF SeesServer
<1>3. PICK listed : listed = ListedOf(userVC[d].uid)
  OBVIOUS
<1>4. /\ IsFiniteSet(listed) /\ listed \subseteq items /\ listed \subseteq ItemId
      /\ PageOK(userVC[d], Friends(d), listed)
  BY <1>2, <1>3, ListedItems
<1>5. UNCHANGED vars
  BY DEF LoadPageItems
<1>6. CASE items = {}
  <2>1. PICK p : p = GivenNoPageItems(userVC[d], k)
    OBVIOUS
  <2>2. listed = {} /\ PageOK(userVC[d], Friends(d), {})
    BY <1>4, <1>6
  <2>3. p \in Page /\ p.uid = userVC[d].uid /\ PageOK(p, Friends(d), {})
    BY <1>1, <1>2, <2>1, <2>2, GivenNoPageItemsOK
  <2>4. PageOK(p, Friends(d), ListedOf(p.uid))
    BY <1>3, <2>2, <2>3
  <2>5. userVC' = [userVC EXCEPT ![d] = p]
    BY <1>1, <1>2, <1>6, <2>1
  <2> QED BY <1>5, <2>3, <2>4, <2>5, PageStep
<1>7. CASE items # {}
  <2>1. PICK p : p = GivenPageItems(userVC[d], items, k)
    OBVIOUS
  <2>2. p \in Page /\ p.uid = userVC[d].uid /\ PageOK(p, Friends(d), listed)
    BY <1>1, <1>2, <1>4, <2>1, GivenPageItemsOK
  <2>3. PageOK(p, Friends(d), ListedOf(p.uid))
    BY <1>3, <2>2
  <2>4. userVC' = [userVC EXCEPT ![d] = p]
    BY <1>1, <1>2, <1>7, <2>1
  <2> QED BY <1>5, <2>2, <2>3, <2>4, PageStep
<1> QED BY <1>6, <1>7

LEMMA PageReloadStep ==
  ASSUME PagesInv, NEW d \in Viewer, PageReload(d)
  PROVE  PagesInv'
<1>1. PICK p : p = PageReloaded(userVC[d])
  OBVIOUS
<1>2. /\ userVC[d] \in Page /\ PageOK(userVC[d], Friends(d), ListedOf(userVC[d].uid))
      /\ IsFiniteSet(ListedOf(userVC[d].uid)) /\ userVC[d].reloads > 0
  BY ViewerState, ListedItems DEF PageReload
<1>3. p \in Page /\ p.uid = userVC[d].uid /\ PageOK(p, Friends(d), ListedOf(userVC[d].uid))
  BY <1>1, <1>2, PageReloadedOK
<1>4. userVC' = [userVC EXCEPT ![d] = p] /\ UNCHANGED vars
  BY <1>1, Zenon DEF PageReload, PageReloaded
<1> QED BY <1>3, <1>4, PageStep

-----------------------------------------------------------------------------
(* Steps of the others, and of the server                                  *)

LEMMA AddItemStep ==
  ASSUME PagesInv, NEW d \in Device \ Viewer, NEW i, AddItemSeen(d, i), UNCHANGED userVC
  PROVE  PagesInv'
<1>1. /\ DataOK' /\ pending' \in [Device -> Seq(Write)]
      /\ UNCHANGED <<users, items, currentUser, up, feed, fresh>>
      /\ \A e \in Viewer : pending'[e] = pending[e]
  BY AddItemData DEF PagesInv
<1>2. ScreensTypeOK' /\ PageTypeOK'
  BY <1>1 DEF PagesInv, ScreensTypeOK, PageTypeOK, FirebaseTypeOK
<1>3. ASSUME NEW e \in Viewer
      PROVE  FeedInv(e)' /\ PageInv(e)'
  <2>1. SameView(e)
    BY <1>1, FriendFeedAssumption, UntouchedView
  <2>2. feed'[e] = feed[e] /\ fresh'[e] = fresh[e] /\ userVC'[e] = userVC[e]
    BY <1>1
  <2>3. FeedInv(e) /\ PageInv(e)
    BY DEF PagesInv
  <2> QED BY <2>1, <2>2, <2>3, OthersSame
<1> QED BY <1>1, <1>2, <1>3 DEF PagesInv

\* A viewer, when the server takes a write: what it sees is the same if the
\* write is its own, and otherwise there is more, which is noted.
LEMMA SentToViewer ==
  ASSUME PagesInv, AccountsExclusive, NEW d \in Device, NEW e \in Viewer, Send(d), SeesServer(e)',
         userVC' = [v \in Device |-> [userVC[v] EXCEPT !.unchanged = @ /\ v = d]]
  PROVE  userVC'[e] \in Page /\ FeedInv(e)' /\ PageInv(e)'
<1>1. PICK f : f = feed[e]
  OBVIOUS
<1>2. PICK p : p = userVC[e]
  OBVIOUS
<1>3. PICK still \in BOOLEAN : still = (p.unchanged /\ e = d)
  OBVIOUS
<1>4. PICK t : t = Noted(p, still)
  OBVIOUS
<1>5. /\ e \in Device /\ f \in Feed /\ p \in Page
      /\ FeedOK(f, Account[e], Friends(e), UsersSeen(e), items, Latest(e), fresh[e])
      /\ PageOK(p, Friends(e), ListedOf(p.uid))
  BY <1>1, <1>2, ViewerState
<1>6. feed'[e] = f /\ userVC'[e] = t /\ fresh'[e] = (fresh[e] /\ e = d)
  BY <1>1, <1>2, <1>3, <1>4, <1>5, Zenon DEF Send, Noted
<1>7. SameView(e) \/ (e # d /\ MoreView(e))
  <2>1. CASE e = d
    BY <2>1, OwnSendView DEF Send, PagesInv
  <2>2. CASE e # d
    BY <2>2, OtherSendView DEF Send, PagesInv
  <2> QED BY <2>1, <2>2
<1>8. /\ Friends(e) \subseteq Friends(e)' /\ UsersSeen(e) \subseteq UsersSeen(e)'
      /\ items \subseteq items' /\ ListedOf(p.uid) \subseteq ListedOf(p.uid)'
      /\ fresh'[e] => fresh[e] /\ Friends(e)' = Friends(e) /\ Latest(e)' = Latest(e)
      /\ still => p.unchanged /\ ListedOf(p.uid)' = ListedOf(p.uid)
  BY <1>3, <1>6, <1>7 DEF SameView, MoreView
<1>9. FeedInv(e)'
  <2>1. FeedOK(f, Account[e], Friends(e)', UsersSeen(e)', items', Latest(e)', fresh'[e])
    BY <1>5, <1>8, FeedKept
  <2> QED BY <1>6, <2>1 DEF FeedInv
<1>10. t \in Page /\ t.uid = p.uid /\ PageOK(t, Friends(e)', ListedOf(p.uid)')
  <2>1. PICK friends : friends = Friends(e)
    OBVIOUS
  <2>2. PICK listed : listed = ListedOf(p.uid)
    OBVIOUS
  <2>3. PICK friends_2 : friends_2 = Friends(e)'
    OBVIOUS
  <2>4. PICK listed_2 : listed_2 = ListedOf(p.uid)'
    OBVIOUS
  <2>5. /\ PageOK(p, friends, listed) /\ friends \subseteq friends_2 /\ listed \subseteq listed_2
        /\ still => p.unchanged /\ listed_2 = listed
    BY <1>5, <1>8, <2>1, <2>2, <2>3, <2>4
  <2>6. t \in Page /\ t.uid = p.uid /\ PageOK(t, friends_2, listed_2)
    <3>1. /\ p \in Page /\ still \in BOOLEAN /\ t = Noted(p, still)
          /\ PageOK(p, friends, listed)
          /\ friends \subseteq friends_2 /\ listed \subseteq listed_2
      BY <1>3, <1>4, <1>5, <2>5
    <3>2. still => p.unchanged /\ listed_2 = listed
      BY <2>5
    <3> QED BY <3>1, <3>2, PageKept
  <2> QED BY <2>3, <2>4, <2>6
<1>11. PageInv(e)'
  <2>1. userVC'[e].uid = p.uid
    BY <1>6, <1>10
  <2>2. ListedOf(userVC[e].uid)' = ListedOf(p.uid)'
    BY ONLY <2>1 DEF ListedOf
  <2> QED BY <1>6, <1>10, <2>2 DEF PageInv
<1> QED BY <1>6, <1>9, <1>10, <1>11

LEMMA SendStep ==
  ASSUME PagesInv, AccountsExclusive, NEW d \in Device, Send(d),
         userVC' = [v \in Device |-> [userVC[v] EXCEPT !.unchanged = @ /\ v = d]]
  PROVE  PagesInv'
<1>1. DataOK' /\ FirebaseTypeOK'
  BY SendData, CommitType DEF PagesInv, ScreensTypeOK, Send
<1>2. feed' \in [Device -> Feed] /\ fresh' \in [Device -> BOOLEAN]
  BY DEF PagesInv, ScreensTypeOK, Send
<1>3. userVC' \in [Device -> Page]
  <2>1. ASSUME NEW v \in Device
        PROVE  [userVC[v] EXCEPT !.unchanged = @ /\ v = d] \in Page
    BY DEF PagesInv, PageTypeOK, Page
  <2> QED BY <2>1
<1>4. ASSUME NEW e \in Viewer
      PROVE  FeedInv(e)' /\ PageInv(e)'
  <2>1. e \in Device
    BY FriendFeedAssumption
  <2>2. ViewerWrites(e)'
    BY <1>1 DEF DataOK
  <2>3. SeesServer(e)'
    BY <1>1, <2>1, <2>2, ViewerSeesNext DEF ViewersSee
  <2> QED BY <2>3, SentToViewer
<1> QED BY <1>1, <1>2, <1>3, <1>4 DEF PagesInv, ScreensTypeOK, PageTypeOK

-----------------------------------------------------------------------------
(* The copies                                                              *)

\* A step that only changes a copy, or nothing.
LEMMA StillStep ==
  ASSUME PagesInv, UNCHANGED <<users, items, pending, currentUser, up, feed, fresh, userVC>>
  PROVE  PagesInv'
<1>1. DataOK'
  BY QuietData DEF PagesInv
<1>2. ScreensTypeOK' /\ PageTypeOK'
  BY DEF PagesInv, ScreensTypeOK, PageTypeOK, FirebaseTypeOK
<1>3. ASSUME NEW e \in Viewer
      PROVE  FeedInv(e)' /\ PageInv(e)'
  <2>1. SameView(e) /\ FeedInv(e) /\ PageInv(e)
    BY FriendFeedAssumption, UntouchedView DEF PagesInv
  <2> QED BY <2>1, OthersSame
<1> QED BY <1>1, <1>2, <1>3 DEF PagesInv

\* A user who is patient writes the list as his device sees it, with a name more.
LEMMA PatientFollow ==
  ASSUME PagesInv, CopiesInv, Patient, NEW d \in Viewer, Follow(d)
  PROVE  \E u \in Uid :
           /\ FollowSeen(d, u)
           /\ userCopyVC' = [userCopyVC EXCEPT ![d] =
                               [userCopyVC[d] EXCEPT !.myFriendList =
                                  Append(FriendListSeen(d, Account[d]), u)]]
           /\ addEntryVC' = addEntryVC
<1>1. PICK u \in FriendIDs(d) \ Ids(userCopyVC[d].myFriendList) :
        /\ Patient => userCopyVC[d].loaded
        /\ userCopyVC' = [userCopyVC EXCEPT ![d] =
                            [userCopyVC[d] EXCEPT !.myFriendList = Append(@, u)]]
        /\ Issue(d, <<[node |-> "friendList", uid |-> currentUser[d],
                       value |-> Append(userCopyVC[d].myFriendList, u)]>>)
        /\ fresh' = [fresh EXCEPT ![d] = FALSE]
        /\ UNCHANGED <<users, items, currentUser, up, feed, addEntryVC>>
  BY DEF Follow
<1>2. u \in UsersSeen(d) /\ u \in Uid
  BY <1>1 DEF FriendIDs, People, UsersSeen
<1>3. userCopyVC[d].myFriendList = FriendListSeen(d, Account[d]) /\ currentUser[d] = Account[d]
  BY <1>1, ViewerState DEF CopiesInv
<1>4. FriendListSeen(d, Account[d]) # Missing
  <2>1. userCopyVC[d].myFriendList \in Seq(Uid \cup {NoId})
    BY FriendFeedAssumption DEF CopiesInv, UserCopy
  <2> QED BY <1>3, <2>1, FirebaseAssumption
<1>5. FollowSeen(d, u)
  <2>1. Issue(d, <<[node |-> "friendList", uid |-> currentUser[d],
                    value |-> Append(FriendListSeen(d, currentUser[d]), u)]>>)
    BY <1>1, <1>3, Zenon
  <2> QED BY <1>1, <1>2, <1>3, <1>4, <2>1 DEF FollowSeen
<1>6. userCopyVC' = [userCopyVC EXCEPT ![d] =
                      [userCopyVC[d] EXCEPT !.myFriendList =
                         Append(FriendListSeen(d, Account[d]), u)]]
  <2>1. userCopyVC' = [userCopyVC EXCEPT ![d] =
                        [userCopyVC[d] EXCEPT !.myFriendList =
                           Append(userCopyVC[d].myFriendList, u)]]
    BY <1>1
  <2> QED BY <1>3, <2>1, Zenon
<1> QED BY <1>1, <1>2, <1>5, <1>6

LEMMA PatientAddItem ==
  ASSUME PagesInv, CopiesInv, Patient, NEW d \in Device \ Viewer, AddItem(d)
  PROVE  \E i : AddItemSeen(d, i)
<1>1. PICK i \in ItemId \ (items \cup UNION {UnsentItems(e) : e \in Device}) :
        /\ Patient => addEntryVC[d].loaded
        /\ Issue(d, <<[node |-> "items", id |-> i],
                      [node |-> "itemList", uid |-> currentUser[d],
                       value |-> Append(addEntryVC[d].itemIds, i)]>>)
        /\ UNCHANGED <<users, items, currentUser, up, feed, fresh>>
  BY DEF AddItem
<1>2. addEntryVC[d].itemIds = ItemListSeen(d, Account[d]) /\ currentUser[d] = Account[d]
  BY <1>1 DEF CopiesInv, PagesInv, DataOK
<1>3. ItemListSeen(d, Account[d]) # Missing
  <2>1. addEntryVC[d].itemIds \in Seq(ItemId)
    BY DEF CopiesInv, AddEntry
  <2> QED BY <1>2, <2>1, FirebaseAssumption
<1> QED BY <1>1, <1>2, <1>3 DEF AddItemSeen

\* A step of viewer d that leaves its copy so, or of another device.
LEMMA ViewerCopies ==
  ASSUME CopiesInv, NEW d \in Viewer, NEW c \in UserCopy,
         userCopyVC' = [userCopyVC EXCEPT ![d] = c], addEntryVC' = addEntryVC,
         c.loaded => c.myFriendList = FriendListSeen(d, Account[d])',
         UNCHANGED <<users, items>>, \A e \in Device : e # d => pending'[e] = pending[e]
  PROVE  CopiesInv'
<1> USE FriendFeedAssumption
<1>1. ASSUME NEW e \in Device, e # d
      PROVE  /\ FriendListSeen(e, Account[e])' = FriendListSeen(e, Account[e])
             /\ ItemListSeen(e, Account[e])' = ItemListSeen(e, Account[e])
             /\ userCopyVC'[e] = userCopyVC[e]
  BY <1>1, UntouchedView DEF CopiesInv
<1>2. userCopyVC'[d] = c /\ userCopyVC' \in [Device -> UserCopy]
  BY DEF CopiesInv
<1>3. ASSUME NEW e \in Viewer, userCopyVC'[e].loaded
      PROVE  userCopyVC'[e].myFriendList = FriendListSeen(e, Account[e])'
  <2>1. CASE e = d
    BY <1>2, <1>3, <2>1
  <2>2. CASE e # d
    BY <1>1, <1>3, <2>2 DEF CopiesInv
  <2> QED BY <2>1, <2>2
<1>4. ASSUME NEW e \in Device \ Viewer, addEntryVC'[e].loaded
      PROVE  addEntryVC'[e].itemIds = ItemListSeen(e, Account[e])'
  BY <1>1, <1>4 DEF CopiesInv
<1> QED BY <1>2, <1>3, <1>4 DEF CopiesInv

LEMMA AdderCopies ==
  ASSUME CopiesInv, NEW d \in Device \ Viewer, NEW c \in AddEntry,
         addEntryVC' = [addEntryVC EXCEPT ![d] = c], userCopyVC' = userCopyVC,
         c.loaded => c.itemIds = ItemListSeen(d, Account[d])',
         UNCHANGED <<users, items>>, \A e \in Device : e # d => pending'[e] = pending[e]
  PROVE  CopiesInv'
<1> USE FriendFeedAssumption
<1>1. ASSUME NEW e \in Device, e # d
      PROVE  /\ FriendListSeen(e, Account[e])' = FriendListSeen(e, Account[e])
             /\ ItemListSeen(e, Account[e])' = ItemListSeen(e, Account[e])
             /\ addEntryVC'[e] = addEntryVC[e]
  BY <1>1, UntouchedView DEF CopiesInv
<1>2. addEntryVC'[d] = c /\ addEntryVC' \in [Device -> AddEntry]
  BY DEF CopiesInv
<1>3. ASSUME NEW e \in Viewer, userCopyVC'[e].loaded
      PROVE  userCopyVC'[e].myFriendList = FriendListSeen(e, Account[e])'
  BY <1>1, <1>3 DEF CopiesInv
<1>4. ASSUME NEW e \in Device \ Viewer, addEntryVC'[e].loaded
      PROVE  addEntryVC'[e].itemIds = ItemListSeen(e, Account[e])'
  <2>1. CASE e = d
    BY <1>2, <1>4, <2>1
  <2>2. CASE e # d
    BY <1>1, <1>4, <2>2 DEF CopiesInv
  <2> QED BY <2>1, <2>2
<1> QED BY <1>2, <1>3, <1>4 DEF CopiesInv

\* A step that leaves the copies and the lists their devices see.
LEMMA CopiesSame ==
  ASSUME CopiesInv, UNCHANGED copies,
         \A e \in Viewer : FriendListSeen(e, Account[e])' = FriendListSeen(e, Account[e]),
         \A e \in Device \ Viewer : ItemListSeen(e, Account[e])' = ItemListSeen(e, Account[e])
  PROVE  CopiesInv'
  BY DEF CopiesInv, copies

LEMMA QuietCopies ==
  ASSUME CopiesInv, UNCHANGED <<users, items, pending, copies>>
  PROVE  CopiesInv'
<1>1. \A e \in Device : /\ FriendListSeen(e, Account[e])' = FriendListSeen(e, Account[e])
                        /\ ItemListSeen(e, Account[e])' = ItemListSeen(e, Account[e])
  BY UntouchedView
<1> QED BY <1>1, FriendFeedAssumption, CopiesSame

\* The copy of viewer d is closed.
LEMMA LeaveCopies ==
  ASSUME CopiesInv, NEW d \in Viewer,
         userCopyVC' = [userCopyVC EXCEPT ![d] = ClosedCopy], addEntryVC' = addEntryVC,
         UNCHANGED <<users, items>>, \A e \in Device : e # d => pending'[e] = pending[e]
  PROVE  CopiesInv'
<1>1. PICK c : c = ClosedCopy
  OBVIOUS
<1>2. c \in UserCopy /\ ~c.loaded
  BY <1>1 DEF ClosedCopy, UserCopy
<1>3. userCopyVC' = [userCopyVC EXCEPT ![d] = c]
  BY <1>1
<1> QED BY <1>2, <1>3, ViewerCopies

LEMMA CrashCopies ==
  ASSUME PagesInv, CopiesInv, NEW d \in Viewer, Crash(d)
  PROVE  CopiesInv'
<1>1. UNCHANGED <<users, items>> /\ \A e \in Device : e # d => pending'[e] = pending[e]
  BY FriendFeedAssumption DEF PagesInv, ScreensTypeOK, FirebaseTypeOK, Crash, ProcessDies
<1>2. userCopyVC' = [userCopyVC EXCEPT ![d] = ClosedCopy] /\ addEntryVC' = addEntryVC
  BY DEF Crash
<1> QED BY <1>1, <1>2, LeaveCopies

LEMMA ReappearCopies ==
  ASSUME CopiesInv, NEW d \in Viewer, Reappear(d)
  PROVE  CopiesInv'
  BY LeaveCopies DEF Reappear, firebaseVars

LEMMA OpenCopyCopies ==
  ASSUME CopiesInv, NEW d \in Viewer, OpenCopy(d)
  PROVE  CopiesInv'
<1>1. PICK c : c = [ClosedCopy EXCEPT !.screen = "open"]
  OBVIOUS
<1>2. c = [screen |-> "open", myFriendList |-> <<>>, loaded |-> FALSE]
  BY <1>1 DEF ClosedCopy
<1>3. c \in UserCopy /\ ~c.loaded
  BY <1>2 DEF UserCopy
<1>4. userCopyVC' = [userCopyVC EXCEPT ![d] = c] /\ addEntryVC' = addEntryVC
  BY <1>1 DEF OpenCopy
<1>5. UNCHANGED <<users, items, pending>>
  BY DEF OpenCopy, firebaseVars
<1> QED BY <1>3, <1>4, <1>5, ViewerCopies

LEMMA LoadMeCopies ==
  ASSUME PagesInv, CopiesInv, NEW d \in Viewer, LoadMe(d)
  PROVE  CopiesInv'
<1>1. PICK list : list = FriendListSeen(d, Account[d])
  OBVIOUS
<1>2. d \in Device /\ Account[d] \in Uid /\ currentUser[d] = Account[d]
  BY ViewerState
<1>3. list \in Seq(Uid \cup {NoId})
  BY <1>1, <1>2, FriendListSeenOK DEF LoadMe, PagesInv
<1>4. PICK c : c = [userCopyVC[d] EXCEPT !.myFriendList = list, !.loaded = TRUE]
  OBVIOUS
<1>5. c \in UserCopy /\ c.myFriendList = list
  BY <1>2, <1>3, <1>4 DEF CopiesInv, UserCopy
<1>6. UNCHANGED <<users, items, pending>> /\ addEntryVC' = addEntryVC
  BY DEF LoadMe, firebaseVars
<1>7. userCopyVC' = [userCopyVC EXCEPT ![d] = c]
  BY <1>1, <1>2, <1>4 DEF LoadMe
<1>8. FriendListSeen(d, Account[d])' = list
  BY <1>1, <1>2, <1>6, UntouchedView
<1> QED BY <1>5, <1>6, <1>7, <1>8, ViewerCopies

\* A step of a viewer that follows somebody.
LEMMA FollowSteps ==
  ASSUME PagesInv, CopiesInv, Patient, NEW d \in Viewer, Follow(d), UNCHANGED userVC
  PROVE  PagesInv' /\ CopiesInv'
<1>1. PICK list : list = FriendListSeen(d, Account[d])
  OBVIOUS
<1>2. PICK u \in Uid :
        /\ FollowSeen(d, u)
        /\ userCopyVC' = [userCopyVC EXCEPT ![d] =
                            [userCopyVC[d] EXCEPT !.myFriendList = Append(list, u)]]
        /\ addEntryVC' = addEntryVC
  BY <1>1, PatientFollow
<1>3. PagesInv'
  BY <1>2, FollowStep
<1>4. /\ d \in Device /\ UNCHANGED <<users, items>> /\ currentUser[d] = Account[d]
      /\ \A e \in Device : e # d => pending'[e] = pending[e]
  BY <1>2, FriendFeedAssumption
     DEF FollowSeen, Issue, PagesInv, ScreensTypeOK, FirebaseTypeOK, DataOK
<1>5. FriendListSeen(d, Account[d])' = Append(list, u)
  <2>1. SeesServer(d)'
    BY <1>3, <1>4, ViewerSeesNext DEF PagesInv, ScreensTypeOK, DataOK, ViewersSee
  <2> QED BY <1>1, <1>2, <2>1, FollowView DEF PagesInv
<1>6. list \in Seq(Uid \cup {NoId})
  BY <1>1, <1>2, <1>4, FriendFeedAssumption, FriendListSeenOK DEF FollowSeen, PagesInv
<1>7. Append(list, u) \in Seq(Uid \cup {NoId})
  BY <1>6
<1>8. PICK c : c = [userCopyVC[d] EXCEPT !.myFriendList = Append(list, u)]
  OBVIOUS
<1>9. c \in UserCopy /\ c.myFriendList = Append(list, u)
  BY <1>4, <1>7, <1>8 DEF CopiesInv, UserCopy
<1>10. userCopyVC' = [userCopyVC EXCEPT ![d] = c]
  BY <1>2, <1>8
<1>11. CopiesInv'
  BY <1>2, <1>4, <1>5, <1>9, <1>10, ViewerCopies
<1> QED BY <1>3, <1>11

\* A step of a device that adds items.
LEMMA AdderSteps ==
  ASSUME PagesInv, CopiesInv, Patient, NEW d \in Device \ Viewer,
         LoadEntry(d) \/ AddItem(d), UNCHANGED userVC
  PROVE  PagesInv' /\ CopiesInv'
<1>1. currentUser[d] = Account[d] /\ Account[d] \in Uid
  BY FriendFeedAssumption DEF PagesInv, DataOK
<1>2. CASE LoadEntry(d)
  <2>1. PagesInv'
    BY <1>2, StillStep DEF LoadEntry, firebaseVars
  <2>2. PICK list : list = ItemListSeen(d, Account[d])
    OBVIOUS
  <2>3. list \in Seq(ItemId)
    <3>1. OwnWrites(d) /\ FirebaseTypeOK /\ list # Missing
      BY <1>1, <1>2, <2>2 DEF LoadEntry, PagesInv, ScreensTypeOK, DataOK, AdderWrites
    <3> QED BY <1>1, <2>2, <3>1, AdderSees
  <2>4. PICK c : c = [itemIds |-> list, loaded |-> TRUE]
    OBVIOUS
  <2>5. c \in AddEntry /\ c.itemIds = list
    BY <2>3, <2>4 DEF AddEntry
  <2>6. /\ addEntryVC' = [addEntryVC EXCEPT ![d] = c] /\ userCopyVC' = userCopyVC
        /\ UNCHANGED <<users, items, pending>>
    BY <1>1, <1>2, <2>2, <2>4 DEF LoadEntry, firebaseVars
  <2>7. ItemListSeen(d, Account[d])' = list
    BY <2>2, <2>6, UntouchedView
  <2>8. CopiesInv'
    BY <2>5, <2>6, <2>7, AdderCopies
  <2> QED BY <2>1, <2>8
<1>3. CASE AddItem(d)
  <2>1. PICK i : AddItemSeen(d, i)
    BY <1>3, PatientAddItem
  <2>2. PagesInv'
    BY <2>1, AddItemStep
  <2>3. PICK c : c = NewEntry
    OBVIOUS
  <2>4. c \in AddEntry /\ ~c.loaded
    BY <2>3 DEF NewEntry, AddEntry
  <2>5. addEntryVC' = [addEntryVC EXCEPT ![d] = c] /\ userCopyVC' = userCopyVC
    BY <1>3, <2>3 DEF AddItem
  <2>6. UNCHANGED <<users, items>> /\ \A e \in Device : e # d => pending'[e] = pending[e]
    BY <2>1 DEF AddItemSeen, Issue, PagesInv, ScreensTypeOK, FirebaseTypeOK
  <2>7. CopiesInv'
    BY <2>4, <2>5, <2>6, AdderCopies
  <2> QED BY <2>2, <2>7
<1> QED BY <1>2, <1>3

LEMMA SendCopies ==
  ASSUME PagesInv, CopiesInv, AccountsExclusive, NEW d \in Device, Send(d)
  PROVE  CopiesInv'
<1>1. DataOK' /\ FirebaseTypeOK' /\ Commit(d) /\ UNCHANGED copies
  BY SendData, CommitType DEF PagesInv, ScreensTypeOK, Send
<1>2. ASSUME NEW e \in Viewer
      PROVE  FriendListSeen(e, Account[e])' = FriendListSeen(e, Account[e])
  <2>1. SeesServer(e)'
    BY <1>1, FriendFeedAssumption, ViewerSeesNext DEF DataOK, ViewersSee
  <2>2. CASE e = d
    BY <1>1, <2>1, <2>2, OwnSendView DEF PagesInv
  <2>3. CASE e # d
    BY <1>1, <2>1, <2>3, OtherSendView DEF PagesInv
  <2> QED BY <2>2, <2>3
<1>3. \A e \in Device \ Viewer : ItemListSeen(e, Account[e])' = ItemListSeen(e, Account[e])
  BY <1>1, AdderSendView DEF PagesInv
<1> QED BY <1>1, <1>2, <1>3, CopiesSame

-----------------------------------------------------------------------------
(* The invariant                                                           *)

LEMMA CopiesInit ==
  ASSUME PageInit
  PROVE  CopiesInv
<1>1. ClosedCopy \in UserCopy /\ ~ClosedCopy.loaded /\ NewEntry \in AddEntry /\ ~NewEntry.loaded
  BY DEF ClosedCopy, UserCopy, NewEntry, AddEntry
<1> QED BY <1>1, FriendFeedAssumption DEF PageInit, Init, CopiesInv

LEMMA PagesInit ==
  ASSUME FoundWell, PageInit
  PROVE  PagesInv
<1>1. FirebaseTypeOK /\ DataOK
  BY DataInit DEF PageInit
<1>2. Closed \in Feed /\ ClosedPage \in Page
  BY ClosedFeedOK, ClosedPageOK, Zenon
<1>3. ScreensTypeOK /\ PageTypeOK
  BY <1>1, <1>2 DEF PageInit, Init, ScreensTypeOK, PageTypeOK
<1>4. ASSUME NEW d \in Viewer
      PROVE  FeedInv(d) /\ PageInv(d)
  <2>1. feed[d] = Closed /\ userVC[d] = ClosedPage
    BY FriendFeedAssumption DEF PageInit, Init
  <2>2. FeedOK(Closed, Account[d], Friends(d), UsersSeen(d), items, Latest(d), fresh[d])
    BY ClosedFeedOK, Zenon
  <2>3. PageOK(ClosedPage, Friends(d), ListedOf(userVC[d].uid))
    BY ClosedPageOK, Zenon
  <2> QED BY <2>1, <2>2, <2>3 DEF FeedInv, PageInv
<1> QED BY <1>1, <1>3, <1>4 DEF PagesInv

LEMMA FeedStepsKeep ==
  ASSUME PagesInv, CopiesInv, Patient, NEW d \in Viewer, FeedSteps(d)
  PROVE  PagesInv' /\ CopiesInv'
<1>1. CASE Open(d) /\ UNCHANGED userVC
  BY <1>1, OpenStep, QuietCopies DEF Open, firebaseVars
<1>2. CASE Reappear(d) /\ UNCHANGED userVC
  BY <1>2, ReappearStep, ReappearCopies
<1>3. CASE OpenCopy(d) /\ UNCHANGED userVC
  <2>1. PagesInv'
    BY <1>3, StillStep DEF OpenCopy, firebaseVars
  <2> QED BY <1>3, <2>1, OpenCopyCopies
<1>4. CASE LoadMe(d) /\ UNCHANGED userVC
  <2>1. PagesInv'
    BY <1>4, StillStep DEF LoadMe, firebaseVars
  <2> QED BY <1>4, <2>1, LoadMeCopies
<1>5. CASE Follow(d) /\ UNCHANGED userVC
  BY <1>5, FollowSteps
<1>6. CASE LoadIDs(d) /\ UNCHANGED userVC
  BY <1>6, LoadIDsStep, QuietCopies DEF LoadIDs, firebaseVars
<1>7. CASE LoadNoIDs(d) /\ UNCHANGED userVC
  BY <1>7, LoadNoIDsStep, QuietCopies DEF LoadNoIDs, firebaseVars
<1>8. CASE LoadNames(d) /\ UNCHANGED userVC
  BY <1>8, LoadNamesStep, QuietCopies DEF LoadNames, firebaseVars
<1>9. CASE LoadItems(d) /\ UNCHANGED userVC
  BY <1>9, LoadItemsStep, QuietCopies DEF LoadItems, firebaseVars
<1>10. CASE LoadNoItems(d) /\ UNCHANGED userVC
  BY <1>10, LoadNoItemsStep, QuietCopies DEF LoadNoItems, firebaseVars
<1>11. CASE Reload(d) /\ UNCHANGED userVC
  BY <1>11, ReloadStep, QuietCopies DEF Reload, firebaseVars
<1>12. CASE Launch(d) /\ UNCHANGED userVC
  BY <1>12, LaunchStep, QuietCopies DEF Launch, ProcessStarts
<1>13. CASE (IDsTrap(d) \/ NamesTrap(d) \/ Kill(d)) /\ PageDies(d)
  BY <1>13, CrashStep, CrashCopies DEF IDsTrap, NamesTrap, Kill
<1> QED BY <1>1, <1>2, <1>3, <1>4, <1>5, <1>6, <1>7, <1>8, <1>9, <1>10, <1>11, <1>12, <1>13
        DEF FeedSteps

\* A step of the page alone leaves the copies.
LEMMA PageStepCopies ==
  ASSUME CopiesInv, UNCHANGED vars
  PROVE  CopiesInv'
  BY QuietCopies DEF vars, firebaseVars

LEMMA PagesNext ==
  ASSUME PagesInv, CopiesInv, Patient, AccountsExclusive, [PageNext]_pageVars
  PROVE  PagesInv' /\ CopiesInv'
<1>1. ASSUME NEW d \in Viewer, FeedSteps(d)
      PROVE  PagesInv' /\ CopiesInv'
  BY <1>1, FeedStepsKeep
<1>2. ASSUME NEW d \in Viewer, Select(d)
      PROVE  PagesInv' /\ CopiesInv'
  BY <1>2, SelectStep, PageStepCopies DEF Select
<1>3. ASSUME NEW d \in Viewer, ReappearPage(d)
      PROVE  PagesInv' /\ CopiesInv'
  BY <1>3, ReappearPageStep, PageStepCopies DEF ReappearPage
<1>4. ASSUME NEW d \in Viewer, BackToFeed(d)
      PROVE  PagesInv' /\ CopiesInv'
  BY <1>4, ReappearStep, ReappearCopies DEF BackToFeed
<1>5. ASSUME NEW d \in Viewer, LoadInfo(d)
      PROVE  PagesInv' /\ CopiesInv'
  BY <1>5, LoadInfoStep, PageStepCopies DEF LoadInfo
<1>6. ASSUME NEW d \in Viewer, InfoTraps(d)
      PROVE  PagesInv' /\ CopiesInv'
  BY <1>6, CrashStep, CrashCopies DEF InfoTraps
<1>7. ASSUME NEW d \in Viewer, LoadPageItems(d)
      PROVE  PagesInv' /\ CopiesInv'
  BY <1>7, LoadPageItemsStep, PageStepCopies DEF LoadPageItems
<1>8. ASSUME NEW d \in Viewer, PageReload(d)
      PROVE  PagesInv' /\ CopiesInv'
  BY <1>8, PageReloadStep, PageStepCopies DEF PageReload
<1>9. ASSUME NEW d \in Device, Others(d)
      PROVE  PagesInv' /\ CopiesInv'
  <2>1. CASE d \notin Viewer /\ (LoadEntry(d) \/ AddItem(d)) /\ UNCHANGED userVC
    BY <2>1, AdderSteps
  <2>2. CASE Send(d) /\ userVC' = [e \in Device |-> [userVC[e] EXCEPT !.unchanged = @ /\ e = d]]
    BY <2>2, SendStep, SendCopies
  <2> QED BY <1>9, <2>1, <2>2 DEF Others
<1>10. ASSUME UNCHANGED pageVars
       PROVE  PagesInv' /\ CopiesInv'
  <2>1. /\ UNCHANGED <<users, items, pending, currentUser, up, feed, fresh, userVC>>
        /\ UNCHANGED vars
    BY <1>10 DEF pageVars, vars, firebaseVars
  <2> QED BY <2>1, StillStep, PageStepCopies
<1> QED BY <1>1, <1>2, <1>3, <1>4, <1>5, <1>6, <1>7, <1>8, <1>9, <1>10 DEF PageNext

\* The inductive invariant holds of users who wait for a page to fill.
THEOREM PagesAlwaysInv ==
  ASSUME FoundWell, AccountsExclusive, Patient
  PROVE  PageSpec => [](PagesInv /\ CopiesInv)
<1>1. PageInit => PagesInv /\ CopiesInv
  BY PagesInit, CopiesInit
<1>2. PagesInv /\ CopiesInv /\ [PageNext]_pageVars => (PagesInv /\ CopiesInv)'
  BY PagesNext
<1> QED BY <1>1, <1>2, PTL DEF PageSpec

-----------------------------------------------------------------------------
(* What it says of the tables                                              *)

\* FriendFeedVC: if the users nodes the app may find are those sign-up writes,
\* no account is used on two devices and users wait for a page to fill before
\* they press its button, the feed's table never asks for a cell, a name or an
\* id that is not there, and once its answers are in, in order, and nothing
\* changed, it shows the latest item of every friend.
THEOREM FeedAlwaysLatest ==
  ASSUME FoundWell, AccountsExclusive, Patient
  PROVE  PageSpec => []FeedIsLatest
<1>1. ASSUME PagesInv, CopiesInv
      PROVE  FeedIsLatest
  <2>1. TypeOK
    BY <1>1 DEF PagesInv, ScreensTypeOK, CopiesInv, TypeOK
  <2>2. ASSUME NEW d \in Viewer
        PROVE  /\ feed[d].rows <= Cardinality(feed[d].recentItemNames)
               /\ feed[d].rows <= Cardinality(feed[d].friendNames)
               /\ feed[d].rows <= Len(feed[d].friendList)
               /\ Settled(d) /\ fresh[d] =>
                    feed[d].recentItemNames =
                      {Last(ItemListSeen(d, u)) :
                         u \in Ids(FriendListSeen(d, currentUser[d])) \cap UsersSeen(d)}
    <3>1. /\ feed[d] \in Feed /\ currentUser[d] = Account[d] /\ SeesServer(d)
          /\ FeedOK(feed[d], Account[d], Friends(d), UsersSeen(d), items, Latest(d), fresh[d])
      BY <1>1, ViewerState
    <3>2. /\ feed[d].rows <= Cardinality(feed[d].recentItemNames)
          /\ feed[d].rows <= Cardinality(feed[d].friendNames)
          /\ feed[d].rows <= Len(feed[d].friendList)
      BY <3>1, RowsInFriendList
    <3>3. ASSUME Settled(d), fresh[d]
          PROVE  feed[d].recentItemNames =
                   {Last(ItemListSeen(d, u)) :
                      u \in Ids(FriendListSeen(d, currentUser[d])) \cap UsersSeen(d)}
      <4>1. feed[d].recentItemNames = Latest(d)
        <5>1. NoneAsked(feed[d].asked, "items")
          BY <3>3 DEF Settled, NoneAsked
        <5> QED BY <3>1, <3>3, <5>1 DEF Settled, FeedOK, UpToDate
      <4>2. \A u \in UsersSeen(d) : ItemListSeen(d, u) = users[u].itemList
        BY <3>1 DEF UsersSeen, SeesServer
      <4> QED BY <3>1, <4>1, <4>2 DEF Latest, Friends
    <3> QED BY <3>2, <3>3
  <2> QED BY <2>1, <2>2 DEF FeedIsLatest
<1> QED BY <1>1, PagesAlwaysInv, PTL

\* UserVC: under the same assumptions the page over the feed is that of a
\* friend of the user, who is still one, and its button says so once the answers
\* are in.
THEOREM PageAlwaysFollowed ==
  ASSUME FoundWell, AccountsExclusive, Patient
  PROVE  PageSpec => []PersonIsFollowed
<1>1. ASSUME PagesInv
      PROVE  PersonIsFollowed
  <2>1. ASSUME NEW d \in Viewer, userVC[d].screen = "open"
        PROVE  /\ PageTypeOK
               /\ userVC[d].uid \in Ids(FriendListSeen(d, currentUser[d]))
               /\ PageSettled(d) => userVC[d].following
    <3>1. /\ currentUser[d] = Account[d] /\ PageTypeOK
          /\ PageOK(userVC[d], Friends(d), ListedOf(userVC[d].uid))
      BY <1>1, ViewerState DEF PagesInv
    <3>2. userVC[d].uid \in Ids(FriendListSeen(d, currentUser[d]))
      BY <2>1, <3>1 DEF PageOK, Friends
    <3>3. ASSUME PageSettled(d)
          PROVE  userVC[d].following
      <4>1. NoneAsked(userVC[d].asked, "info")
        BY <3>3 DEF PageSettled, NoneAsked
      <4> QED BY <2>1, <3>1, <3>3, <4>1 DEF PageSettled, PageOK
    <3> QED BY <3>1, <3>2, <3>3
  <2> QED BY <2>1 DEF PersonIsFollowed
<1> QED BY <1>1, PagesAlwaysInv, PTL

\* UserVC: under the same assumptions the page's table never asks for a cell
\* that is not there, and once its answers are in, in order, and nobody else
\* wrote, its rows are the items of the person.
THEOREM PageAlwaysShown ==
  ASSUME FoundWell, AccountsExclusive, Patient
  PROVE  PageSpec => []PersonIsShown
<1>1. ASSUME PagesInv
      PROVE  PersonIsShown
  <2>1. ASSUME NEW d \in Viewer
        PROVE  /\ userVC[d].rows <= Cardinality(userVC[d].items)
               /\ PageSettled(d) /\ userVC[d].unchanged =>
                    /\ userVC[d].items = Ids(ItemListSeen(d, userVC[d].uid))
                    /\ userVC[d].rows = Cardinality(userVC[d].items)
    <3>1. /\ PageOK(userVC[d], Friends(d), ListedOf(userVC[d].uid)) /\ SeesServer(d)
      BY <1>1, ViewerState
    <3>2. ASSUME PageSettled(d), userVC[d].unchanged
          PROVE  /\ userVC[d].items = Ids(ItemListSeen(d, userVC[d].uid))
                 /\ userVC[d].rows = Cardinality(userVC[d].items)
      <4>1. NoneAsked(userVC[d].asked, "info")
        BY <3>2 DEF PageSettled, NoneAsked
      <4>2. userVC[d].uid \in Uid
        BY <3>1, <3>2, <4>1 DEF PageSettled, PageOK
      <4>3. Ids(ItemListSeen(d, userVC[d].uid)) = ListedOf(userVC[d].uid)
        BY <3>1, <4>2 DEF SeesServer, ListedOf
      <4> QED BY <3>1, <3>2, <4>3 DEF PageSettled, PageOK
    <3> QED BY <3>1, <3>2 DEF PageOK
  <2> QED BY <2>1 DEF PersonIsShown
<1> QED BY <1>1, PagesAlwaysInv, PTL

=============================================================================
