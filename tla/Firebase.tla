------------------------------ MODULE Firebase ------------------------------
(***************************************************************************)
(* The Firebase services as the app uses them: the Realtime Database on    *)
(* the server, the client of one installation of the app ("device"), and   *)
(* the signed-in user Auth keeps for it.  Firebase is a binary framework,  *)
(* so everything here is external: it is read off the calls in the Swift   *)
(* sources and the promises in the framework's headers:                    *)
(*                                                                         *)
(*  - setValue and updateChildValues are used without a completion block:  *)
(*    the write is visible at once to the device that makes it and is sent *)
(*    to the server later, in order (FIRDatabaseReference.h:85);           *)
(*  - persistenceEnabled is never set, so the writes that have not been    *)
(*    sent are lost with the process (FIRDatabase.h:128);                  *)
(*  - setValue on a user replaces the whole record, children included      *)
(*    (FIRDatabaseReference.h:76); updateChildValues replaces one child.   *)
(*                                                                         *)
(* An array is written and read whole: the database knows no "append".     *)
(* An item's own attributes are never changed after the write that creates *)
(* it, so the items node is a set of ids.                                  *)
(***************************************************************************)
EXTENDS Naturals, Sequences, FiniteSets

CONSTANTS
  Device,   \* installations of the app
  Uid,      \* user ids Auth gives out
  ItemId,   \* the keys childByAutoId may return
  Text,     \* what a text field may hold
  NoId,     \* the empty string where an id is expected
  Missing   \* a child that is not in the database (nil in Swift)

ASSUME FirebaseAssumption ==
  /\ NoId \notin Uid
  /\ Missing \notin Uid \cup ItemId \cup Text \cup {NoId}
  /\ Missing \notin Seq(Uid \cup {NoId}) \cup Seq(ItemId)
  /\ Missing \notin [username : Text, email : Text]

VARIABLES
  users,       \* the users node on the server: the record of each user id
  items,       \* the items node on the server: the ids it holds
  pending,     \* for each device, the writes its client has not sent yet
  currentUser, \* for each device, the user signed in (Auth.auth().currentUser)
  up           \* for each device, whether the app's process is running

firebaseVars == <<users, items, pending, currentUser, up>>

-----------------------------------------------------------------------------
(* Data                                                                    *)

Profile == [username : Text, email : Text]

Record ==
  [profile    : Profile \cup {Missing},
   friendList : Seq(Uid \cup {NoId}) \cup {Missing},
   itemList   : Seq(ItemId) \cup {Missing}]

EmptyRecord ==
  [profile |-> Missing, friendList |-> Missing, itemList |-> Missing]

ItemWrite       == [node : {"items"}, id : ItemId]
ProfileWrite    == [node : {"profile"}, uid : Uid, value : Profile]
FriendListWrite == [node : {"friendList"}, uid : Uid,
                    value : Seq(Uid \cup {NoId})]
ItemListWrite   == [node : {"itemList"}, uid : Uid, value : Seq(ItemId)]

Write == ItemWrite \cup ProfileWrite \cup FriendListWrite \cup ItemListWrite

\* The ids a list holds; a list that is missing holds none.
Ids(list) == IF list = Missing THEN {} ELSE {list[k] : k \in DOMAIN list}

-----------------------------------------------------------------------------
(* What a write does to the record of user u.  The profile is written by   *)
(* setValue on the user's node, which removes the lists below it.          *)

Written(w, u, record) ==
  IF w.node = "items" \/ w.uid # u
  THEN record
  ELSE IF w.node = "profile"
       THEN [profile |-> w.value, friendList |-> Missing, itemList |-> Missing]
       ELSE IF w.node = "friendList"
            THEN [record EXCEPT !.friendList = w.value]
            ELSE [record EXCEPT !.itemList = w.value]

-----------------------------------------------------------------------------
(* What device d sees: the server's value under its own unsent writes, of  *)
(* which the latest one that touches the child decides.                    *)

Overwrites(w, u, child) ==
  /\ w.node # "items"
  /\ w.uid = u
  /\ w.node \in {"profile", child}

LatestWrite(d, u, child) ==
  {i \in DOMAIN pending[d] :
     /\ Overwrites(pending[d][i], u, child)
     /\ \A j \in DOMAIN pending[d] :
          j > i => ~Overwrites(pending[d][j], u, child)}

Seen(d, u, child, committed) ==
  IF LatestWrite(d, u, child) = {}
  THEN committed
  ELSE LET w == pending[d][CHOOSE i \in LatestWrite(d, u, child) : TRUE]
       IN  IF w.node = child THEN w.value ELSE Missing

ProfileSeen(d, u)    == Seen(d, u, "profile", users[u].profile)
FriendListSeen(d, u) == Seen(d, u, "friendList", users[u].friendList)
ItemListSeen(d, u)   == Seen(d, u, "itemList", users[u].itemList)

RecordSeen(d, u) ==
  [profile    |-> ProfileSeen(d, u),
   friendList |-> FriendListSeen(d, u),
   itemList   |-> ItemListSeen(d, u)]

\* The keys of the users node in a snapshot d takes; snapshot.exists() is
\* UsersSeen(d) # {}.
UsersSeen(d) == {u \in Uid : RecordSeen(d, u) # EmptyRecord}

\* The ids of the items d has written and not sent, and of those it sees.
UnsentItems(d) ==
  {pending[d][i].id : i \in {k \in DOMAIN pending[d] :
                                 pending[d][k].node = "items"}}

ItemsSeen(d) == items \cup UnsentItems(d)

-----------------------------------------------------------------------------
(* Requests: observeSingleEvent calls its callback once, on the main queue. *)
(* asked holds the requests of one screen that have not been answered.  A   *)
(* client has one connection, over which answers normally come in the order *)
(* of the requests; the framework's headers do not promise it.              *)

\* The place in asked of a request of this kind that may be answered now.
Turn(asked, kind, inOrder) ==
  {k \in DOMAIN asked :
     /\ asked[k] = kind
     /\ \A j \in DOMAIN asked : j < k => ~inOrder /\ asked[j] # kind}

-----------------------------------------------------------------------------
(* Steps                                                                   *)

\* Device d issues the writes of the sequence ws, in order.
Issue(d, ws) == pending' = [pending EXCEPT ![d] = @ \o ws]

\* The server takes the oldest unsent write of device d.
Commit(d) ==
  /\ up[d]
  /\ pending[d] # <<>>
  /\ users' = [u \in Uid |-> Written(Head(pending[d]), u, users[u])]
  /\ items' = IF Head(pending[d]).node = "items"
              THEN items \cup {Head(pending[d]).id} ELSE items
  /\ pending' = [pending EXCEPT ![d] = Tail(@)]
  /\ UNCHANGED <<currentUser, up>>

\* The process of the app dies on device d (killed, or trapped by a forced
\* unwrap of nil): what its client had not sent is gone; Auth keeps the user.
ProcessDies(d) ==
  /\ up' = [up EXCEPT ![d] = FALSE]
  /\ pending' = [pending EXCEPT ![d] = <<>>]
  /\ UNCHANGED <<users, items, currentUser>>

ProcessStarts(d) ==
  /\ ~up[d]
  /\ up' = [up EXCEPT ![d] = TRUE]
  /\ UNCHANGED <<users, items, pending, currentUser>>

-----------------------------------------------------------------------------

FirebaseTypeOK ==
  /\ users \in [Uid -> Record]
  /\ items \in SUBSET ItemId
  /\ pending \in [Device -> Seq(Write)]
  /\ currentUser \in [Device -> Uid \cup {NoId}]
  /\ up \in [Device -> BOOLEAN]

=============================================================================
