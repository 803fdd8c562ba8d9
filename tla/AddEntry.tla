------------------------------ MODULE AddEntry ------------------------------
(***************************************************************************)
(* AddEntryVC: the screen on which the user of a device enters an item.    *)
(* When the screen loads it asks for the users node and keeps the user's   *)
(* item list; Save writes the item under a new key and then writes the     *)
(* kept list, with that key appended, over the list in the database.       *)
(*                                                                         *)
(* The answer to the request is a callback on the main queue, which keeps  *)
(* the screen alive: it runs whether or not the user is still there.       *)
(***************************************************************************)
EXTENDS Firebase

CONSTANTS
  InitialUsers, \* the users nodes the app may find
  Account,      \* the user signed in on each device
  Patient       \* whether users wait for the list before they press Save

ASSUME AddEntryAssumption ==
  /\ InitialUsers \subseteq [Uid -> Record]
  /\ Account \in [Device -> Uid]
  /\ Patient \in BOOLEAN

VARIABLES
  entry,  \* for each device, its AddEntryVC
  strays, \* for each device, the users of requests made by screens left since
  minted  \* the keys childByAutoId has returned

addEntryVars == <<entry, strays, minted>>
vars == <<firebaseVars, addEntryVars>>

\* The screen of a device: uid is the currentUserID its callback captures.
Entry ==
  [screen  : {"closed", "open"},
   itemIds : Seq(ItemId),
   load    : {"none", "waiting", "done"},
   uid     : Uid \cup {NoId}]

Closed ==
  [screen |-> "closed", itemIds |-> <<>>, load |-> "none", uid |-> NoId]

-----------------------------------------------------------------------------
(* Steps                                                                   *)

Waiting(d) ==
  /\ up[d]
  /\ entry[d].load = "waiting"

\* The screen of d goes away; a request it made is still answered later.
Leave(d) ==
  /\ entry' = [entry EXCEPT ![d] = Closed]
  /\ strays' = IF entry[d].load = "waiting"
               THEN [strays EXCEPT ![d] = @ \cup {entry[d].uid}]
               ELSE strays

\* viewDidLoad
Open(d) ==
  /\ up[d]
  /\ currentUser[d] \in Uid
  /\ entry[d].screen = "closed"
  /\ entry' = [entry EXCEPT ![d] =
                 [screen |-> "open", itemIds |-> <<>>,
                  load |-> "waiting", uid |-> currentUser[d]]]
  /\ UNCHANGED <<strays, minted, firebaseVars>>

\* The callback of viewDidLoad finds no users node.
LoadNothing(d) ==
  /\ Waiting(d)
  /\ UsersSeen(d) = {}
  /\ entry' = [entry EXCEPT ![d] = [@ EXCEPT !.load = "done"]]
  /\ UNCHANGED <<strays, minted, firebaseVars>>

\* A mutant: the list of whichever user comes first.
LoadAnyItemIds(d) ==
  \E u \in UsersSeen(d) :
    /\ Waiting(d)
    /\ ItemListSeen(d, u) # Missing
    /\ entry' = [entry EXCEPT ![d] =
                   [@ EXCEPT !.load = "done", !.itemIds = ItemListSeen(d, u)]]
    /\ UNCHANGED <<strays, minted, firebaseVars>>

\* The callback of viewDidLoad keeps the list of the user it captured.
LoadItemIds(d) ==
  LET list == ItemListSeen(d, entry[d].uid)
  IN  /\ Waiting(d)
      /\ UsersSeen(d) # {}
      /\ list # Missing
      /\ entry' = [entry EXCEPT ![d] =
                     [@ EXCEPT !.load = "done", !.itemIds = list]]
      /\ UNCHANGED <<strays, minted, firebaseVars>>

\* The process dies: a forced unwrap of nil, the user or the system.
Crash(d) ==
  /\ ProcessDies(d)
  /\ entry' = [entry EXCEPT ![d] = Closed]
  /\ strays' = [strays EXCEPT ![d] = {}]
  /\ UNCHANGED minted

\* The callback unwraps the list of a user who has none.
Trap(d, u) ==
  /\ UsersSeen(d) # {}
  /\ ItemListSeen(d, u) = Missing
  /\ Crash(d)

LoadTraps(d) ==
  /\ Waiting(d)
  /\ Trap(d, entry[d].uid)

\* The callback of a screen that was left: it can still trap.
StrayIsIdle(d, u) ==
  /\ up[d]
  /\ u \in strays[d]
  /\ UsersSeen(d) = {} \/ ItemListSeen(d, u) # Missing
  /\ strays' = [strays EXCEPT ![d] = @ \ {u}]
  /\ UNCHANGED <<entry, minted, firebaseVars>>

StrayTraps(d, u) ==
  /\ up[d]
  /\ u \in strays[d]
  /\ Trap(d, u)

\* A mutant: the list first.
AddItemListFirst(d, i) ==
  <<[node |-> "itemList", uid |-> currentUser[d],
     value |-> Append(entry[d].itemIds, i)],
    [node |-> "items", id |-> i]>>

\* The two writes addItem makes for the new key i, in order.
AddItem(d, i) ==
  <<[node |-> "items", id |-> i],
    [node |-> "itemList", uid |-> currentUser[d],
     value |-> Append(entry[d].itemIds, i)]>>

\* Save: addItem, and back to the profile.
Save(d) ==
  /\ up[d]
  /\ entry[d].screen = "open"
  /\ Patient => entry[d].load = "done"
  /\ \E i \in ItemId \ minted :
       /\ Issue(d, AddItem(d, i))
       /\ minted' = minted \cup {i}
  /\ Leave(d)
  /\ UNCHANGED <<users, items, currentUser, up>>

Back(d) ==
  /\ up[d]
  /\ entry[d].screen = "open"
  /\ Leave(d)
  /\ UNCHANGED <<minted, firebaseVars>>

Kill(d) ==
  /\ up[d]
  /\ Crash(d)

Launch(d) ==
  /\ ProcessStarts(d)
  /\ UNCHANGED addEntryVars

Send(d) ==
  /\ Commit(d)
  /\ UNCHANGED addEntryVars

Answer(d) ==
  \/ LoadNothing(d)
  \/ LoadItemIds(d)
  \/ LoadTraps(d)
  \/ \E u \in Uid : StrayIsIdle(d, u) \/ StrayTraps(d, u)

-----------------------------------------------------------------------------

\* The items a database names are in it, and every key in use was returned.
Init ==
  /\ users \in InitialUsers
  /\ items = UNION {Ids(users[u].itemList) : u \in Uid}
  /\ pending = [d \in Device |-> <<>>]
  /\ currentUser = Account
  /\ up = [d \in Device |-> TRUE]
  /\ entry = [d \in Device |-> Closed]
  /\ strays = [d \in Device |-> {}]
  /\ minted = items

Next ==
  \E d \in Device :
    \/ Open(d) \/ Save(d) \/ Back(d)
    \/ Answer(d) \/ Send(d)
    \/ Kill(d) \/ Launch(d)

Spec == Init /\ [][Next]_vars

-----------------------------------------------------------------------------
(* Properties                                                              *)

\* The types of all the state the screen and its database hold.
TypeOK ==
  /\ FirebaseTypeOK
  /\ entry \in [Device -> Entry]
  /\ strays \in [Device -> SUBSET Uid]
  /\ minted \in SUBSET ItemId

\* No list in the database names an item that is not there: addItem writes
\* the item before the list, and the client sends its writes in that order,
\* whatever is lost in between (ProfileVC and the feed look up the ids).
ListedItemsExist == \A u \in Uid : Ids(users[u].itemList) \subseteq items

\* No item is named twice, on one list or on two: a saved item is one wish of
\* one user, although the list it goes to is a copy that may be old.
WithList == {u \in Uid : users[u].itemList # Missing}

EachItemListedOnce ==
  \A u, v \in WithList :
    \A j \in DOMAIN users[u].itemList, k \in DOMAIN users[v].itemList :
      users[u].itemList[j] = users[v].itemList[k] => u = v /\ j = k

\* Saving an item never takes another one off a list ("Add the item id to the
\* itemList of current user", although the whole list is written over).
WishlistGrows ==
  [][\A u \in Uid : Ids(users[u].itemList) \subseteq Ids(users'[u].itemList)]_vars

\* Read as sets, the lists on the server are the wish lists of WishList.
wishes == [u \in Uid |-> Ids(users[u].itemList)]
Promised == INSTANCE WishList WITH wish <- wishes
ImplementsWishList == Promised!WishListSpec

=============================================================================
