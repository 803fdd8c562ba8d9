----------------------------- MODULE FriendFeed -----------------------------
(***************************************************************************)
(* FriendFeedVC: the first screen of a signed-in user, a table with a row  *)
(* for the latest item of each friend.  Every time it appears it makes     *)
(* three requests: its user's friends, the names and latest items of those *)
(* friends, the names of those items.  Each callback reads what the one    *)
(* before it left in the screen; the last one queues a reload of the table *)
(* on the main queue.  Between two reloads the table asks for cells of the *)
(* rows it counted at the last one.                                        *)
(*                                                                         *)
(* A snapshot is a dictionary, whose order is arbitrary: the names and the *)
(* items of the rows are kept here as sets, and nothing is said about which*)
(* name is shown beside which item.                                        *)
(*                                                                         *)
(* Meanwhile the user follows people (UserCopyVC, over the feed) and other *)
(* devices add items (AddEntryVC).  Both write their own copy of a list,   *)
(* which is empty until the list they asked for has come, over the list in *)
(* the database; UserCopy and AddEntry have the rest of those screens.     *)
(***************************************************************************)
EXTENDS Firebase, SequencesExt

CONSTANTS
  InitialUsers, \* the users nodes the app may find
  Account,      \* the user signed in on each device
  Viewer,       \* the devices whose feed is looked at; the others add items
  Patient,      \* whether users wait for a page to fill before they press
  MaxAsked      \* bound: requests and reloads outstanding when it reappears

ASSUME FriendFeedAssumption ==
  /\ InitialUsers \subseteq [Uid -> Record]
  /\ Account \in [Device -> Uid]
  /\ Viewer \subseteq Device
  /\ Patient \in BOOLEAN
  /\ MaxAsked \in Nat

VARIABLES
  feed,       \* for each viewer, its FriendFeedVC
  userCopyVC, \* for each viewer, the UserCopyVC over its feed
  addEntryVC, \* for each other device, its AddEntryVC
  fresh       \* history: the database a viewer sees is as when the feed appeared

copies == <<userCopyVC, addEntryVC>>

vars == <<firebaseVars, feed, copies, fresh>>

\* inOrder tells whether the answers come in the order of the requests while
\* the screen lives; rows is what the table counted at its last reload, reloads
\* the number of reloads on the main queue.
Feed ==
  [screen          : {"closed", "open"},
   friendList      : Seq(Uid \cup {NoId}),
   friendNames     : SUBSET Uid,
   recentItemList  : SUBSET ItemId,
   recentItemNames : SUBSET ItemId,
   uid             : Uid \cup {NoId},
   inOrder         : BOOLEAN,
   asked           : Seq({"ids", "names", "items"}),
   reloads         : Nat,
   rows            : Nat]

Closed ==
  [screen |-> "closed", friendList |-> <<>>, friendNames |-> {},
   recentItemList |-> {}, recentItemNames |-> {}, uid |-> NoId,
   inOrder |-> FALSE, asked |-> <<>>, reloads |-> 0, rows |-> 0]

\* loaded tells whether the answer with the user's own list has come.
UserCopy ==
  [screen       : {"closed", "open"},
   myFriendList : Seq(Uid \cup {NoId}),
   loaded       : BOOLEAN]

ClosedCopy == [screen |-> "closed", myFriendList |-> <<>>, loaded |-> FALSE]

AddEntry == [itemIds : Seq(ItemId), loaded : BOOLEAN]

NewEntry == [itemIds |-> <<>>, loaded |-> FALSE]

Requests == <<"ids", "names", "items">>

Asked(d, kind) == Turn(feed[d].asked, kind, feed[d].inOrder)

-----------------------------------------------------------------------------
(* Steps of the feed                                                       *)

\* viewDidLoad and the first viewWillAppear
Open(d) ==
  /\ up[d]
  /\ currentUser[d] \in Uid
  /\ feed[d].screen = "closed"
  /\ \E inOrder \in BOOLEAN :
       feed' = [feed EXCEPT ![d] =
                  [Closed EXCEPT !.screen = "open", !.uid = currentUser[d],
                                 !.inOrder = inOrder,
                                 !.asked = Requests \o Requests]]
  /\ fresh' = [fresh EXCEPT ![d] = TRUE]
  /\ UNCHANGED <<firebaseVars, copies>>

\* viewWillAppear, when another tab or a screen over the feed is left
Reappear(d) ==
  /\ up[d]
  /\ feed[d].screen = "open"
  /\ Len(feed[d].asked) + feed[d].reloads <= MaxAsked
  /\ feed' = [feed EXCEPT ![d] =
                [feed[d] EXCEPT !.asked = @ \o Requests, !.uid = currentUser[d]]]
  /\ userCopyVC' = [userCopyVC EXCEPT ![d] = ClosedCopy]
  /\ fresh' = [fresh EXCEPT ![d] = TRUE]
  /\ UNCHANGED <<firebaseVars, addEntryVC>>

\* getFriendIDs
LoadIDs(d) ==
  \E k \in Asked(d, "ids") :
    /\ up[d]
    /\ FriendListSeen(d, feed[d].uid) # Missing
    /\ feed' = [feed EXCEPT ![d] =
                  [feed[d] EXCEPT !.friendList = FriendListSeen(d, feed[d].uid),
                                  !.asked = RemoveAt(@, k)]]
    /\ UNCHANGED <<fresh, firebaseVars, copies>>

\* The same when there is no users node.
LoadNoIDs(d) ==
  \E k \in Asked(d, "ids") :
    /\ up[d]
    /\ UsersSeen(d) = {}
    /\ feed' = [feed EXCEPT ![d] = [feed[d] EXCEPT !.asked = RemoveAt(@, k)]]
    /\ UNCHANGED <<fresh, firebaseVars, copies>>

\* getFriendNamesAndRecentItemIDs (without a users node there are no friends)
KnownFriends(d) == UsersSeen(d) \cap Ids(feed[d].friendList)

NamesAreThere(d) ==
  \A u \in KnownFriends(d) :
    ProfileSeen(d, u) # Missing /\ ItemListSeen(d, u) # Missing

\* A mutant: the first item of a friend instead of the last.
LoadNamesFirst(d) ==
  \E k \in Asked(d, "names") :
    /\ up[d]
    /\ NamesAreThere(d)
    /\ feed' = [feed EXCEPT ![d] =
                  [feed[d] EXCEPT
                     !.friendNames = KnownFriends(d),
                     !.recentItemList =
                       {ItemListSeen(d, u)[1] : u \in KnownFriends(d)},
                     !.asked = RemoveAt(@, k)]]
    /\ UNCHANGED <<fresh, firebaseVars, copies>>

LoadNames(d) ==
  \E k \in Asked(d, "names") :
    /\ up[d]
    /\ NamesAreThere(d)
    /\ feed' = [feed EXCEPT ![d] =
                  [feed[d] EXCEPT
                     !.friendNames = KnownFriends(d),
                     !.recentItemList =
                       {Last(ItemListSeen(d, u)) : u \in KnownFriends(d)},
                     !.asked = RemoveAt(@, k)]]
    /\ UNCHANGED <<fresh, firebaseVars, copies>>

\* getRecentItemNames
LoadItems(d) ==
  \E k \in Asked(d, "items") :
    /\ up[d]
    /\ ItemsSeen(d) # {}
    /\ feed' = [feed EXCEPT ![d] =
                  [feed[d] EXCEPT
                     !.recentItemNames = ItemsSeen(d) \cap feed[d].recentItemList,
                     !.reloads = @ + 1,
                     !.asked = RemoveAt(@, k)]]
    /\ UNCHANGED <<fresh, firebaseVars, copies>>

LoadNoItems(d) ==
  \E k \in Asked(d, "items") :
    /\ up[d]
    /\ ItemsSeen(d) = {}
    /\ feed' = [feed EXCEPT ![d] = [feed[d] EXCEPT !.asked = RemoveAt(@, k)]]
    /\ UNCHANGED <<fresh, firebaseVars, copies>>

\* tableView.reloadData on the main queue
Reload(d) ==
  /\ up[d]
  /\ feed[d].reloads > 0
  /\ feed' = [feed EXCEPT ![d] =
                [feed[d] EXCEPT !.reloads = @ - 1,
                                !.rows = Cardinality(feed[d].recentItemNames)]]
  /\ UNCHANGED <<fresh, firebaseVars, copies>>

\* The process dies: a forced unwrap of nil, the user or the system.
Crash(d) ==
  /\ ProcessDies(d)
  /\ feed' = [feed EXCEPT ![d] = Closed]
  /\ userCopyVC' = [userCopyVC EXCEPT ![d] = ClosedCopy]
  /\ fresh' = [fresh EXCEPT ![d] = FALSE]
  /\ UNCHANGED addEntryVC

IDsTrap(d) ==
  /\ up[d]
  /\ Asked(d, "ids") # {}
  /\ UsersSeen(d) # {}
  /\ FriendListSeen(d, feed[d].uid) = Missing
  /\ Crash(d)

NamesTrap(d) ==
  /\ up[d]
  /\ Asked(d, "names") # {}
  /\ ~NamesAreThere(d)
  /\ Crash(d)

Kill(d) ==
  /\ up[d]
  /\ Crash(d)

Launch(d) ==
  /\ ProcessStarts(d)
  /\ UNCHANGED <<feed, copies, fresh>>

Answer(d) ==
  \/ LoadIDs(d) \/ LoadNoIDs(d) \/ IDsTrap(d)
  \/ LoadNames(d) \/ NamesTrap(d)
  \/ LoadItems(d) \/ LoadNoItems(d)

-----------------------------------------------------------------------------
(* Steps around the feed                                                   *)

\* UserCopyVC.viewDidLoad, of a page opened from the search over the feed or,
\* after the way back to its results, of another one.  What the feed has
\* outstanding is bounded as when it reappears.
OpenCopy(d) ==
  /\ up[d]
  /\ feed[d].screen = "open"
  /\ Len(feed[d].asked) + feed[d].reloads <= MaxAsked
  /\ userCopyVC' = [userCopyVC EXCEPT ![d] = [ClosedCopy EXCEPT !.screen = "open"]]
  /\ UNCHANGED <<firebaseVars, feed, addEntryVC, fresh>>

\* getCurrentUserInfo; where it unwraps a list that is not there, see Kill.
LoadMe(d) ==
  /\ up[d]
  /\ userCopyVC[d].screen = "open"
  /\ ~userCopyVC[d].loaded
  /\ FriendListSeen(d, currentUser[d]) # Missing
  /\ userCopyVC' = [userCopyVC EXCEPT ![d] =
       [userCopyVC[d] EXCEPT !.myFriendList = FriendListSeen(d, currentUser[d]),
                             !.loaded = TRUE]]
  /\ UNCHANGED <<firebaseVars, feed, addEntryVC, fresh>>

\* The ids friendID may have: whom getUserInfo finds without a trap, and the
\* empty one until it has.  Whose page it is is settled when the user presses.
People(d) ==
  {u \in UsersSeen(d) :
     /\ FriendListSeen(d, u) # Missing
     /\ ItemListSeen(d, u) # Missing
     /\ \A v \in UsersSeen(d) : ProfileSeen(d, v) # Missing}

FriendIDs(d) == People(d) \cup (IF Patient THEN {} ELSE {NoId})

\* addFriend, when the person is not on the page's list
Follow(d) ==
  \E u \in FriendIDs(d) \ Ids(userCopyVC[d].myFriendList) :
    /\ up[d]
    /\ userCopyVC[d].screen = "open"
    /\ Patient => userCopyVC[d].loaded
    /\ userCopyVC' = [userCopyVC EXCEPT ![d] =
                        [userCopyVC[d] EXCEPT !.myFriendList = Append(@, u)]]
    /\ Issue(d, <<[node |-> "friendList", uid |-> currentUser[d],
                   value |-> Append(userCopyVC[d].myFriendList, u)]>>)
    /\ fresh' = [fresh EXCEPT ![d] = FALSE]
    /\ UNCHANGED <<users, items, currentUser, up, feed, addEntryVC>>

\* AddEntryVC.viewDidLoad: its list comes.  The screen that waits for it is not
\* told from the one that is not there.
LoadEntry(d) ==
  /\ up[d]
  /\ ~addEntryVC[d].loaded
  /\ ItemListSeen(d, currentUser[d]) # Missing
  /\ addEntryVC' = [addEntryVC EXCEPT ![d] =
       [itemIds |-> ItemListSeen(d, currentUser[d]), loaded |-> TRUE]]
  /\ UNCHANGED <<firebaseVars, feed, userCopyVC, fresh>>

\* AddEntryVC.addItem, which leaves the screen; childByAutoId never gives out
\* the key of an item that was written.
AddItem(d) ==
  \E i \in ItemId \ (items \cup UNION {UnsentItems(e) : e \in Device}) :
    /\ up[d]
    /\ Patient => addEntryVC[d].loaded
    /\ addEntryVC' = [addEntryVC EXCEPT ![d] = NewEntry]
    /\ Issue(d, <<[node |-> "items", id |-> i],
                  [node |-> "itemList", uid |-> currentUser[d],
                   value |-> Append(addEntryVC[d].itemIds, i)]>>)
    /\ UNCHANGED <<users, items, currentUser, up, feed, userCopyVC, fresh>>

\* The server takes a write: the other devices see it.
Send(d) ==
  /\ Commit(d)
  /\ fresh' = [e \in Device |-> fresh[e] /\ e = d]
  /\ UNCHANGED <<feed, copies>>

-----------------------------------------------------------------------------

Init ==
  /\ users \in InitialUsers
  /\ items = UNION {Ids(users[u].itemList) : u \in Uid}
  /\ pending = [d \in Device |-> <<>>]
  /\ currentUser = Account
  /\ up = [d \in Device |-> TRUE]
  /\ feed = [d \in Device |-> Closed]
  /\ userCopyVC = [d \in Device |-> ClosedCopy]
  /\ addEntryVC = [d \in Device |-> NewEntry]
  /\ fresh = [d \in Device |-> FALSE]

Next ==
  \/ \E d \in Viewer :
       \/ Open(d) \/ Reappear(d) \/ Answer(d) \/ Reload(d)
       \/ OpenCopy(d) \/ LoadMe(d) \/ Follow(d) \/ Kill(d) \/ Launch(d)
  \/ \E d \in Device \ Viewer : LoadEntry(d) \/ AddItem(d)
  \/ \E d \in Device : Send(d)

Spec == Init /\ [][Next]_vars

-----------------------------------------------------------------------------
(* Properties                                                              *)

\* The types of the feed and of the database it reads.
TypeOK ==
  /\ FirebaseTypeOK
  /\ feed \in [Device -> Feed]
  /\ userCopyVC \in [Device -> UserCopy]
  /\ addEntryVC \in [Device -> AddEntry]
  /\ fresh \in [Device -> BOOLEAN]

Settled(d) ==
  /\ feed[d].screen = "open"
  /\ feed[d].inOrder
  /\ feed[d].asked = <<>>
  /\ feed[d].reloads = 0

\* The table never asks for a cell that is not there: at every moment the rows
\* it counted index the names of the items, the names of the friends and, when
\* one is selected, the ids of the friends, although the three arrays are
\* replaced by three callbacks, in any order, and the rows are counted later.
\* That takes users who are Patient: a button pressed before the page has its
\* list writes a list of one name over the friends, and the rows counted before
\* then index ids that are no longer there.
\* If nothing changed since the feed appeared, what it then shows is the latest
\* item of each of the user's friends.  All of the state has its type.
FeedIsLatest ==
  TypeOK /\ \A d \in Viewer :
    /\ feed[d].rows <= Cardinality(feed[d].recentItemNames)
    /\ feed[d].rows <= Cardinality(feed[d].friendNames)
    /\ feed[d].rows <= Len(feed[d].friendList)
    /\ Settled(d) /\ fresh[d] =>
         feed[d].recentItemNames =
           {Last(ItemListSeen(d, u)) :
              u \in Ids(FriendListSeen(d, currentUser[d])) \cap UsersSeen(d)}

=============================================================================
