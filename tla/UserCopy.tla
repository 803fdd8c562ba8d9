------------------------------ MODULE UserCopy ------------------------------
(***************************************************************************)
(* UserCopyVC: the page of a person found by their email, with the button  *)
(* that follows them.  The page asks for the users node once to find the   *)
(* person (getUserInfo), once for the friends of the user of the device    *)
(* (getCurrentUserInfo), and to find the person again whenever it appears. *)
(* Pressing the button appends the person's id to the friends the page     *)
(* keeps and writes that list over the one in the database.                *)
(*                                                                         *)
(* The page is opened from a search result, so some record has its email   *)
(* and the users node exists.  A callback of a page that was left changes  *)
(* nothing but that page; where it would trap, the step is Kill.  The      *)
(* table of the person's items is not part of this module.                 *)
(***************************************************************************)
EXTENDS Firebase, SequencesExt

CONSTANTS
  InitialUsers, \* the users nodes the app may find
  Account,      \* the user signed in on each device
  WaitsFor,     \* the answers users wait for before they press the button
  InOrder,      \* whether requests are answered in the order they are made
  MaxUnsent,    \* bound: the writes a client holds when a button is pressed
  MaxAsked      \* bound: the requests a page that reappears has outstanding

ASSUME UserCopyAssumption ==
  /\ InitialUsers \subseteq [Uid -> Record]
  /\ Account \in [Device -> Uid]
  /\ WaitsFor \subseteq {"info", "me"}
  /\ InOrder \in BOOLEAN
  /\ MaxUnsent \in Nat
  /\ MaxAsked \in Nat

VARIABLE page \* for each device, its UserCopyVC

vars == <<firebaseVars, page>>

\* asked holds the requests for the users node that have not been answered;
\* answer the friends in an answer that waits for the main queue; loaded the
\* answers the page has had; uid the currentUserID its callback captures.
Page ==
  [screen       : {"closed", "open"},
   userEmail    : Text \cup {Missing},
   friendID     : Uid \cup {NoId},
   myFriendList : Seq(Uid \cup {NoId}),
   following    : BOOLEAN,
   uid          : Uid \cup {NoId},
   asked        : Seq({"info", "me"}),
   answer       : Seq(Uid \cup {NoId}) \cup {Missing},
   loaded       : SUBSET {"info", "me"}]

Closed ==
  [screen |-> "closed", userEmail |-> Missing, friendID |-> NoId,
   myFriendList |-> <<>>, following |-> FALSE, uid |-> NoId,
   asked |-> <<>>, answer |-> Missing, loaded |-> {}]

-----------------------------------------------------------------------------
(* Steps                                                                   *)

Asked(d, kind) == Turn(page[d].asked, kind, InOrder)

\* A mutant: the person is not asked for again when the page appears.
OpenOnceFor(d, email) ==
  /\ up[d]
  /\ currentUser[d] \in Uid
  /\ page[d].screen = "closed"
  /\ page' = [page EXCEPT ![d] =
                [Closed EXCEPT !.screen = "open", !.userEmail = email,
                               !.uid = currentUser[d],
                               !.asked = <<"info", "me">>]]
  /\ UNCHANGED firebaseVars

\* viewDidLoad and the first viewWillAppear
OpenFor(d, email) ==
  /\ up[d]
  /\ currentUser[d] \in Uid
  /\ page[d].screen = "closed"
  /\ page' = [page EXCEPT ![d] =
                [Closed EXCEPT !.screen = "open", !.userEmail = email,
                               !.uid = currentUser[d],
                               !.asked = <<"info", "me", "info">>]]
  /\ UNCHANGED firebaseVars

\* The page is opened for an email somebody has; PeopleSearch says which.
Open(d) ==
  \E u \in UsersSeen(d) :
    ProfileSeen(d, u) # Missing /\ OpenFor(d, ProfileSeen(d, u).email)

\* viewWillAppear, when the page of an item is closed
Reappear(d) ==
  /\ up[d]
  /\ page[d].screen = "open"
  /\ Len(page[d].asked) < MaxAsked
  /\ page' = [page EXCEPT ![d].asked = Append(@, "info")]
  /\ UNCHANGED firebaseVars

Back(d) ==
  /\ up[d]
  /\ page[d].screen = "open"
  /\ page' = [page EXCEPT ![d] = Closed]
  /\ UNCHANGED firebaseVars

\* The records getUserInfo stops at: it goes through all of them.
Matches(d) ==
  {u \in UsersSeen(d) : /\ ProfileSeen(d, u) # Missing
                        /\ ProfileSeen(d, u).email = page[d].userEmail}

\* What the callback of getUserInfo unwraps is there.
InfoIsThere(d) ==
  /\ \A u \in UsersSeen(d) : ProfileSeen(d, u) # Missing
  /\ \A u \in Matches(d) : /\ FriendListSeen(d, u) # Missing
                           /\ ItemListSeen(d, u) # Missing

\* The callback of getUserInfo.  Of several records with the email the last
\* in the dictionary's order stays; checkFollowing is called for each.
LoadInfo(d) ==
  \E k \in Asked(d, "info"), key \in Matches(d) :
    /\ up[d]
    /\ InfoIsThere(d)
    /\ page' = [page EXCEPT ![d] =
         [page[d] EXCEPT !.friendID = key,
                         !.following = @ \/ Matches(d) \cap Ids(page[d].myFriendList) # {},
                         !.asked = RemoveAt(@, k),
                         !.loaded = @ \cup {"info"}]]
    /\ UNCHANGED firebaseVars

\* getCurrentUserInfo: its callback is queued with the list the node holds ...
AnswerMe(d) ==
  /\ up[d]
  /\ Asked(d, "me") # {}
  /\ page[d].answer = Missing
  /\ FriendListSeen(d, page[d].uid) # Missing
  /\ page' = [page EXCEPT ![d].answer = FriendListSeen(d, page[d].uid)]
  /\ UNCHANGED firebaseVars

\* ... and runs.
LoadMe(d) ==
  \E k \in Asked(d, "me") :
    /\ up[d]
    /\ page[d].answer # Missing
    /\ page' = [page EXCEPT ![d] =
         [page[d] EXCEPT !.myFriendList = page[d].answer,
                         !.answer = Missing,
                         !.asked = RemoveAt(@, k),
                         !.loaded = @ \cup {"me"}]]
    /\ UNCHANGED firebaseVars

\* The process dies: a forced unwrap of nil, the user or the system.
Crash(d) ==
  /\ ProcessDies(d)
  /\ page' = [page EXCEPT ![d] = Closed]

InfoTraps(d) ==
  /\ up[d]
  /\ Asked(d, "info") # {}
  /\ ~InfoIsThere(d)
  /\ Crash(d)

MeTraps(d) ==
  /\ up[d]
  /\ Asked(d, "me") # {}
  /\ page[d].answer = Missing
  /\ FriendListSeen(d, page[d].uid) = Missing
  /\ Crash(d)

\* addFriend
IsFriend(d) == page[d].friendID \in Ids(page[d].myFriendList)

\* Mutants: without the check; without the write.
AddFriendAgain(d) ==
  LET list == Append(page[d].myFriendList, page[d].friendID)
  IN  /\ page' = [page EXCEPT ![d] = [@ EXCEPT !.following = TRUE,
                                              !.myFriendList = list]]
      /\ Issue(d, <<[node |-> "friendList", uid |-> currentUser[d],
                     value |-> list]>>)

AddFriendHere(d) ==
  /\ page' = [page EXCEPT ![d] =
       [@ EXCEPT !.following = TRUE,
                 !.myFriendList = Append(@, page[d].friendID)]]
  /\ UNCHANGED pending

AddFriend(d) ==
  LET list == Append(page[d].myFriendList, page[d].friendID)
  IN  IF IsFriend(d)
      THEN /\ page' = [page EXCEPT ![d].following = TRUE]
           /\ UNCHANGED pending
      ELSE /\ page' = [page EXCEPT ![d] = [@ EXCEPT !.following = TRUE,
                                                   !.myFriendList = list]]
           /\ Issue(d, <<[node |-> "friendList", uid |-> currentUser[d],
                          value |-> list]>>)

\* follow: the button
Follow(d) ==
  /\ up[d]
  /\ page[d].screen = "open"
  /\ WaitsFor \subseteq page[d].loaded
  /\ Len(pending[d]) < MaxUnsent
  /\ AddFriend(d)
  /\ UNCHANGED <<users, items, currentUser, up>>

Kill(d) ==
  /\ up[d]
  /\ Crash(d)

Launch(d) ==
  /\ ProcessStarts(d)
  /\ UNCHANGED page

Send(d) ==
  /\ Commit(d)
  /\ UNCHANGED page

Answer(d) ==
  \/ LoadInfo(d) \/ InfoTraps(d)
  \/ AnswerMe(d) \/ MeTraps(d) \/ LoadMe(d)

-----------------------------------------------------------------------------

Init ==
  /\ users \in InitialUsers
  /\ items = UNION {Ids(users[u].itemList) : u \in Uid}
  /\ pending = [d \in Device |-> <<>>]
  /\ currentUser = Account
  /\ up = [d \in Device |-> TRUE]
  /\ page = [d \in Device |-> Closed]

Next ==
  \E d \in Device :
    \/ Open(d) \/ Reappear(d) \/ Follow(d) \/ Back(d)
    \/ Answer(d) \/ Send(d)
    \/ Kill(d) \/ Launch(d)

Spec == Init /\ [][Next]_vars

-----------------------------------------------------------------------------
(* Properties                                                              *)

\* The types of the page and of the database it writes to.
TypeOK ==
  /\ FirebaseTypeOK
  /\ page \in [Device -> Page]

\* A friend list never names someone twice, whoever writes it from wherever:
\* addFriend checks the copy of the list the page keeps, which may be old.
FriendsAreNamedOnce ==
  \A u \in Uid :
    LET list == users[u].friendList
    IN  list # Missing => Cardinality(Ids(list)) = Len(list)

\* When the page has all its answers the button says "Following" exactly if
\* the person is a friend.  The title is set from two answers, of which either
\* may be late, and is never set back.  (Of several people with one email the
\* page takes any, again and again: then the title may be another's.)
Settled(d) ==
  page[d].screen = "open" /\ page[d].asked = <<>>

EmailsDiffer ==
  \A u, v \in Uid :
    u # v /\ users[u].profile # Missing /\ users[v].profile # Missing
      => users[u].profile.email # users[v].profile.email

TitleIsRight ==
  \A d \in Device :
    Settled(d) /\ EmailsDiffer => (page[d].following <=> IsFriend(d))

\* What the button said comes true on the server unless the process dies; of
\* several people with one email it may have said it of another.
FollowedIsStored ==
  \A d \in Device, u \in Uid :
    (page[d].following /\ page[d].friendID = u /\ EmailsDiffer)
      ~> (u \in Ids(users[Account[d]].friendList) \/ ~up[d])

=============================================================================
