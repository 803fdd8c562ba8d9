------------------------ MODULE PeopleSearchProofs ------------------------
(***************************************************************************)
(* Proofs about the search for people and the page it opens, for every set *)
(* of devices, users and texts: the types; that no friend list names       *)
(* anybody twice; that the rows are those of the search; and that the      *)
(* button has the right title.                                             *)
(***************************************************************************)
EXTENDS PeopleSearch, FirebaseProofs, FiniteSetTheorems

-----------------------------------------------------------------------------
(* Types                                                                   *)

\* The page is the only screen of the search that writes, and writes friends.
FriendWrites ==
  \A d \in Device : \A k \in DOMAIN pending[d] : pending[d][k].node = "friendList"

OwnPage ==
  \A d \in Device : page[d] = Closed \/ (page[d].screen = "open" /\ page[d].uid = Account[d])

SearchTypeOK ==
  /\ TypeOK
  /\ search \in [Device -> Search]
  /\ currentUser = Account
  /\ FriendWrites
  /\ OwnPage

LEMMA FriendWriteType ==
  ASSUME NEW w \in Write, w.node = "friendList"
  PROVE  w.uid \in Uid /\ w.value \in Seq(Uid \cup {NoId})
BY DEF Write, ItemWrite, ProfileWrite, FriendListWrite, ItemListWrite

LEMMA FriendListSeenIs ==
  ASSUME SearchTypeOK, NEW d \in Device, NEW u \in Uid, NEW list, list = FriendListSeen(d, u),
         list # Missing
  PROVE  /\ list \in Seq(Uid \cup {NoId})
         /\ \/ list = users[u].friendList
            \/ \E k \in DOMAIN pending[d] : list = pending[d][k].value
<1>1. CASE LatestWrite(d, u, "friendList") = {}
  BY <1>1 DEF FriendListSeen, Seen, SearchTypeOK, TypeOK, FirebaseTypeOK, Record
<1>2. CASE LatestWrite(d, u, "friendList") # {}
  <2> DEFINE k == CHOOSE i \in LatestWrite(d, u, "friendList") : TRUE
  <2>1. k \in DOMAIN pending[d]
    BY <1>2 DEF LatestWrite
  <2>2. pending[d][k] \in Write /\ pending[d][k].node = "friendList"
    BY <2>1 DEF SearchTypeOK, TypeOK, FirebaseTypeOK, FriendWrites
  <2>3. list = pending[d][k].value
    BY <1>2, <2>2 DEF FriendListSeen, Seen
  <2> QED BY <2>1, <2>2, <2>3, FriendWriteType
<1> QED BY <1>1, <1>2

\* Nothing the search writes hides or shows a profile.
LEMMA ProfileSeenIs ==
  ASSUME SearchTypeOK, NEW d \in Device, NEW u \in Uid
  PROVE  ProfileSeen(d, u) = users[u].profile
<1>1. LatestWrite(d, u, "profile") = {}
  BY DEF LatestWrite, Overwrites, SearchTypeOK, FriendWrites
<1> QED BY <1>1 DEF ProfileSeen, Seen

LEMMA ClosedIsPage == Closed \in Page /\ Closed.asked = <<>>
BY DEF Closed, Page

\* Only a page that is open has requests.
LEMMA AskedIsOpen ==
  ASSUME SearchTypeOK, NEW d \in Device, NEW kind, NEW k \in Asked(d, kind)
  PROVE  /\ k \in DOMAIN page[d].asked /\ page[d].asked[k] = kind
         /\ page[d].screen = "open" /\ page[d].uid = Account[d] /\ page[d].uid \in Uid
         /\ page[d] \in Page
<1>1. k \in DOMAIN page[d].asked /\ page[d].asked[k] = kind
  BY DEF Asked, Turn
<1>2. page[d] # Closed
  BY <1>1, ClosedIsPage
<1> QED BY <1>1, <1>2, UserCopyAssumption DEF SearchTypeOK, OwnPage, TypeOK

\* What a step does to the page of one device.
LEMMA PageStepType ==
  ASSUME SearchTypeOK, NEW d \in Device, NEW p \in Page,
         p = Closed \/ (p.screen = "open" /\ p.uid = Account[d]),
         page' = [page EXCEPT ![d] = p]
  PROVE  page' \in [Device -> Page] /\ OwnPage'
BY DEF SearchTypeOK, TypeOK, OwnPage

LEMMA SelectType ==
  ASSUME SearchTypeOK, NEW d \in Device, NEW email \in Text, OpenFor(d, email)
  PROVE  page' \in [Device -> Page] /\ OwnPage'
<1> DEFINE p == [Closed EXCEPT !.screen = "open", !.userEmail = email, !.uid = currentUser[d],
                              !.asked = <<"info", "me", "info">>]
<1>1. <<"info", "me", "info">> \in Seq({"info", "me"})
  OBVIOUS
<1>2. currentUser[d] = Account[d] /\ Account[d] \in Uid
  BY UserCopyAssumption DEF SearchTypeOK
<1>3. p \in Page /\ p.screen = "open" /\ p.uid = Account[d]
  BY <1>1, <1>2, ClosedIsPage DEF Page, Closed
<1> QED BY <1>3, PageStepType DEF OpenFor

LEMMA LoadInfoType ==
  ASSUME SearchTypeOK, NEW d \in Device, LoadInfo(d)
  PROVE  page' \in [Device -> Page] /\ OwnPage'
<1>1. PICK k \in Asked(d, "info"), key \in Matches(d) :
        page' = [page EXCEPT ![d] =
         [page[d] EXCEPT !.friendID = key,
                   !.following = @ \/ Matches(d) \cap Ids(page[d].myFriendList)
                                        # {},
                   !.asked = RemoveAt(@, k),
                   !.loaded = @ \cup {"info"}]]
  BY DEF LoadInfo
<1> DEFINE p == [page[d] EXCEPT !.friendID = key,
                   !.following = @ \/ Matches(d) \cap Ids(page[d].myFriendList)
                                        # {},
                   !.asked = RemoveAt(@, k),
                   !.loaded = @ \cup {"info"}]
<1>2. /\ page[d] \in Page /\ k \in DOMAIN page[d].asked /\ key \in Uid
      /\ page[d].screen = "open" /\ page[d].uid = Account[d]
  BY AskedIsOpen DEF Matches, UsersSeen
<1>3. RemoveAt(page[d].asked, k) \in Seq({"info", "me"})
  BY <1>2, RemoveAtType DEF Page
<1>4. p \in Page /\ p.screen = "open" /\ p.uid = Account[d]
  BY <1>2, <1>3 DEF Page
<1>5. page' = [page EXCEPT ![d] = p]
  BY <1>1
<1> HIDE DEF p
<1> QED BY <1>4, <1>5, PageStepType

LEMMA AnswerMeType ==
  ASSUME SearchTypeOK, NEW d \in Device, AnswerMe(d)
  PROVE  page' \in [Device -> Page] /\ OwnPage'
<1> DEFINE list == FriendListSeen(d, page[d].uid)
           p == [page[d] EXCEPT !.answer = list]
<1>1. PICK k \in Asked(d, "me") : TRUE
  BY DEF AnswerMe
<1>2. page[d] \in Page /\ page[d].screen = "open" /\ page[d].uid = Account[d] /\ page[d].uid \in Uid
  BY AskedIsOpen
<1>3. list \in Seq(Uid \cup {NoId})
  BY <1>2, FriendListSeenIs DEF AnswerMe
<1>4. p \in Page /\ p.screen = "open" /\ p.uid = Account[d]
  BY <1>2, <1>3 DEF Page
<1>5. page' = [page EXCEPT ![d] = p]
  BY DEF AnswerMe
<1> HIDE DEF p
<1> QED BY <1>4, <1>5, PageStepType

LEMMA LoadMeType ==
  ASSUME SearchTypeOK, NEW d \in Device, LoadMe(d)
  PROVE  page' \in [Device -> Page] /\ OwnPage'
<1>1. PICK k \in Asked(d, "me") :
        page' = [page EXCEPT ![d] =
         [page[d] EXCEPT !.myFriendList = page[d].answer,
                   !.answer = Missing,
                   !.asked = RemoveAt(@, k),
                   !.loaded = @ \cup {"me"}]]
  BY DEF LoadMe
<1> DEFINE p == [page[d] EXCEPT !.myFriendList = page[d].answer,
                   !.answer = Missing,
                   !.asked = RemoveAt(@, k),
                   !.loaded = @ \cup {"me"}]
<1>2. /\ page[d] \in Page /\ k \in DOMAIN page[d].asked /\ page[d].answer # Missing
      /\ page[d].screen = "open" /\ page[d].uid = Account[d]
  BY AskedIsOpen DEF LoadMe
<1>3. RemoveAt(page[d].asked, k) \in Seq({"info", "me"})
  BY <1>2, RemoveAtType DEF Page
<1>4. p \in Page /\ p.screen = "open" /\ p.uid = Account[d]
  BY <1>2, <1>3 DEF Page
<1>5. page' = [page EXCEPT ![d] = p]
  BY <1>1
<1> HIDE DEF p
<1> QED BY <1>4, <1>5, PageStepType

\* The button either only changes its title or adds to the list and writes it.
FriendWriteOf(d) ==
  [node |-> "friendList", uid |-> Account[d],
   value |-> Append(page[d].myFriendList, page[d].friendID)]

LEMMA FollowIs ==
  ASSUME SearchTypeOK, NEW d \in Device, Follow(d)
  PROVE  /\ UNCHANGED <<users, items, currentUser, up>>
         /\ page[d].screen = "open" /\ page[d].uid = Account[d] /\ page[d] \in Page
         /\ WaitsFor \subseteq page[d].loaded
         /\ \/ /\ IsFriend(d)
               /\ page' = [page EXCEPT ![d] = [page[d] EXCEPT !.following = TRUE]]
               /\ pending' = pending
            \/ /\ ~IsFriend(d)
               /\ page' = [page EXCEPT ![d] =
                     [page[d] EXCEPT !.following = TRUE, !.myFriendList = FriendWriteOf(d).value]]
               /\ pending' = [pending EXCEPT ![d] = Append(pending[d], FriendWriteOf(d))]
         /\ FriendWriteOf(d) \in Write
<1>1. /\ page[d].screen = "open" /\ page[d].uid = Account[d] /\ page[d] \in Page
      /\ currentUser[d] = Account[d] /\ Account[d] \in Uid
  BY ClosedIsPage, UserCopyAssumption DEF Follow, Closed, SearchTypeOK, OwnPage, TypeOK
<1>2. FriendWriteOf(d) \in Write /\ pending[d] \in Seq(Write)
  <2>1. Append(page[d].myFriendList, page[d].friendID) \in Seq(Uid \cup {NoId})
    BY <1>1 DEF Page
  <2> QED BY <1>1, <2>1 DEF FriendWriteOf, Write, FriendListWrite, SearchTypeOK, TypeOK, FirebaseTypeOK
<1>3. CASE IsFriend(d)
  BY <1>1, <1>2, <1>3 DEF Follow, AddFriend
<1>4. CASE ~IsFriend(d)
  <2>1. /\ page' = [page EXCEPT ![d] =
             [page[d] EXCEPT !.following = TRUE, !.myFriendList = FriendWriteOf(d).value]]
        /\ pending' = [pending EXCEPT ![d] = pending[d] \o <<FriendWriteOf(d)>>]
    BY <1>1, <1>4 DEF Follow, AddFriend, Issue, FriendWriteOf
  <2>2. pending[d] \o <<FriendWriteOf(d)>> = Append(pending[d], FriendWriteOf(d))
    BY <1>2, AppendIsConcat
  <2> QED BY <1>1, <1>2, <1>4, <2>1, <2>2 DEF Follow
<1> QED BY <1>3, <1>4

LEMMA SendIs ==
  ASSUME SearchTypeOK, NEW d \in Device, Send(d)
  PROVE  LET w == pending[d][1] IN
         /\ 1 \in DOMAIN pending[d] /\ w \in Write /\ w.node = "friendList"
         /\ users' = [u \in Uid |-> IF u = w.uid THEN [users[u] EXCEPT !.friendList = w.value]
                                              ELSE users[u]]
         /\ pending' = [pending EXCEPT ![d] = Tail(pending[d])]
         /\ UNCHANGED <<items, currentUser, up, page>>
<1>1. /\ pending[d] \in Seq(Write) /\ pending[d] # <<>>
  BY DEF Send, Commit, SearchTypeOK, TypeOK, FirebaseTypeOK
<1>2. /\ 1 \in DOMAIN pending[d] /\ Head(pending[d]) = pending[d][1] /\ pending[d][1] \in Write
  BY <1>1
<1>3. pending[d][1].node = "friendList"
  BY <1>2 DEF SearchTypeOK, FriendWrites
<1>4. users' = [u \in Uid |-> Written(pending[d][1], u, users[u])]
  BY <1>2 DEF Send, Commit
<1>5. \A u \in Uid : Written(pending[d][1], u, users[u]) =
        IF u = pending[d][1].uid THEN [users[u] EXCEPT !.friendList = pending[d][1].value]
                                 ELSE users[u]
  BY <1>3 DEF Written
<1>6. items' = items
  BY <1>2, <1>3 DEF Send, Commit
<1> QED BY <1>2, <1>3, <1>4, <1>5, <1>6 DEF Send, Commit

LEMMA FollowType ==
  ASSUME SearchTypeOK, NEW d \in Device, Follow(d)
  PROVE  TypeOK' /\ FriendWrites' /\ OwnPage' /\ currentUser' = Account
<1>1. /\ page[d] \in Page /\ page[d].screen = "open" /\ page[d].uid = Account[d]
      /\ UNCHANGED <<users, items, currentUser, up>>
  BY FollowIs
<1>2. ASSUME pending' = pending,
             page' = [page EXCEPT ![d] = [page[d] EXCEPT !.following = TRUE]]
      PROVE  TypeOK' /\ FriendWrites' /\ OwnPage' /\ currentUser' = Account
  <2> DEFINE p == [page[d] EXCEPT !.following = TRUE]
  <2>1. p \in Page /\ p.screen = "open" /\ p.uid = Account[d]
    BY <1>1 DEF Page
  <2>2. page' = [page EXCEPT ![d] = p]
    BY <1>2
  <2> HIDE DEF p
  <2>3. page' \in [Device -> Page] /\ OwnPage'
    BY <2>1, <2>2, PageStepType
  <2> QED BY <1>1, <1>2, <2>3 DEF SearchTypeOK, TypeOK, FirebaseTypeOK, FriendWrites
<1>3. ASSUME NEW w, w = FriendWriteOf(d),
             page' = [page EXCEPT ![d] =
               [page[d] EXCEPT !.following = TRUE, !.myFriendList = w.value]],
             pending' = [pending EXCEPT ![d] = Append(pending[d], w)]
      PROVE  TypeOK' /\ FriendWrites' /\ OwnPage' /\ currentUser' = Account
  <2> DEFINE p == [page[d] EXCEPT !.following = TRUE, !.myFriendList = w.value]
  <2>1. w \in Write /\ w.node = "friendList"
    BY <1>3, FollowIs DEF FriendWriteOf
  <2>2. w.value \in Seq(Uid \cup {NoId})
    BY <2>1, FriendWriteType
  <2>3. p \in Page /\ p.screen = "open" /\ p.uid = Account[d]
    BY <1>1, <2>2 DEF Page
  <2>4. page' = [page EXCEPT ![d] = p]
    BY <1>3
  <2> HIDE DEF p
  <2>5. page' \in [Device -> Page] /\ OwnPage'
    BY <2>3, <2>4, PageStepType
  <2>6. pending' \in [Device -> Seq(Write)] /\ FriendWrites'
    BY <1>3, <2>1 DEF SearchTypeOK, TypeOK, FirebaseTypeOK, FriendWrites
  <2> QED BY <1>1, <2>5, <2>6 DEF SearchTypeOK, TypeOK, FirebaseTypeOK
<1> QED BY <1>2, <1>3, FollowIs

LEMMA SendType ==
  ASSUME SearchTypeOK, NEW d \in Device, Send(d)
  PROVE  TypeOK' /\ FriendWrites' /\ OwnPage' /\ currentUser' = Account
<1> DEFINE w == pending[d][1]
<1>1. /\ w \in Write /\ w.value \in Seq(Uid \cup {NoId})
      /\ users' = [u \in Uid |-> IF u = w.uid THEN [users[u] EXCEPT !.friendList = w.value]
                                           ELSE users[u]]
      /\ pending' = [pending EXCEPT ![d] = Tail(pending[d])] /\ 1 \in DOMAIN pending[d]
      /\ UNCHANGED <<items, currentUser, up, page>>
  BY SendIs, FriendWriteType
<1>2. users' \in [Uid -> Record]
  <2> HIDE DEF w
  <2> QED BY <1>1, ZenonT(30) DEF SearchTypeOK, TypeOK, FirebaseTypeOK, Record
<1>3. pending' \in [Device -> Seq(Write)] /\ FriendWrites'
  <2>1. pending[d] \in Seq(Write) /\ pending[d] # <<>>
    BY <1>1 DEF SearchTypeOK, TypeOK, FirebaseTypeOK
  <2>2. /\ Tail(pending[d]) \in Seq(Write)
        /\ \A k \in DOMAIN Tail(pending[d]) :
             k + 1 \in DOMAIN pending[d] /\ Tail(pending[d])[k] = pending[d][k + 1]
    BY <2>1
  <2> QED BY <1>1, <2>2 DEF SearchTypeOK, TypeOK, FirebaseTypeOK, FriendWrites
<1> QED BY <1>1, <1>2, <1>3 DEF SearchTypeOK, TypeOK, FirebaseTypeOK, OwnPage

LEMMA CrashType ==
  ASSUME SearchTypeOK, NEW d \in Device, Crash(d)
  PROVE  TypeOK' /\ FriendWrites' /\ OwnPage' /\ currentUser' = Account
<1>1. page' \in [Device -> Page] /\ OwnPage'
  BY ClosedIsPage, PageStepType DEF Crash
<1> QED BY <1>1 DEF Crash, ProcessDies, SearchTypeOK, TypeOK, FirebaseTypeOK, FriendWrites

LEMMA SignsUpType ==
  ASSUME SearchTypeOK, NEW u \in Uid, SignsUp(u)
  PROVE  TypeOK' /\ FriendWrites' /\ OwnPage' /\ currentUser' = Account
<1>1. users[u] \in Record /\ NewRecord[u] \in Record
  BY PeopleSearchAssumption DEF SearchTypeOK, TypeOK, FirebaseTypeOK
<1>2. Arrived(u) \in Record
  BY <1>1 DEF Arrived, Record, EmptyRecord
<1> QED BY <1>2 DEF SignsUp, SearchTypeOK, TypeOK, FirebaseTypeOK, FriendWrites, OwnPage

\* The screen of the search.
LEMMA SearchScreenType ==
  ASSUME SearchTypeOK, NEW d \in Device,
         \/ OpenSearch(d) \/ LeaveSearch(d) \/ Type(d) \/ LoadResults(d) \/ SearchDies(d)
  PROVE  search' \in [Device -> Search]
<1>1. ClosedSearch \in Search
  BY DEF ClosedSearch, Search
<1>2. CASE OpenSearch(d)
  BY <1>1, <1>2 DEF OpenSearch, SearchTypeOK, Search
<1>3. CASE LeaveSearch(d) \/ SearchDies(d)
  BY <1>1, <1>3 DEF LeaveSearch, SearchDies, SearchTypeOK
<1>4. CASE Type(d)
  <2>1. PICK text \in Searches :
          search' = [search EXCEPT ![d] = [search[d] EXCEPT !.typed = text,
            !.early = search[d].asked, !.currentResults = search[d].results \cap text]]
    BY <1>4 DEF Type
  <2>2. text \subseteq Text
    BY PeopleSearchAssumption
  <2>3. [search[d] EXCEPT !.typed = text, !.early = search[d].asked,
            !.currentResults = search[d].results \cap text] \in Search
    BY <2>2 DEF SearchTypeOK, Search
  <2> QED BY <2>1, <2>3 DEF SearchTypeOK
<1>5. CASE LoadResults(d)
  <2>1. Emails(d) \subseteq Text
    BY ProfileSeenIs DEF Emails, SearchTypeOK, TypeOK, FirebaseTypeOK, Record, Profile
  <2>2. /\ [search[d] EXCEPT !.asked = FALSE] \in Search
        /\ [search[d] EXCEPT !.asked = FALSE, !.results = Emails(d),
                             !.currentResults = Emails(d)] \in Search
    BY <2>1 DEF SearchTypeOK, Search
  <2> QED BY <1>5, <2>2 DEF LoadResults, SearchTypeOK
<1> QED BY <1>2, <1>3, <1>4, <1>5

LEMMA SearchTypeStep ==
  ASSUME SearchTypeOK, [SearchNext]_searchVars
  PROVE  SearchTypeOK'
<1> DEFINE Other == TypeOK' /\ FriendWrites' /\ OwnPage' /\ currentUser' = Account
<1>1. ASSUME UNCHANGED vars PROVE Other
  BY <1>1 DEF vars, firebaseVars, SearchTypeOK, TypeOK, FirebaseTypeOK, FriendWrites, OwnPage
<1>2. ASSUME UNCHANGED firebaseVars, page' \in [Device -> Page], OwnPage' PROVE Other
  BY <1>2 DEF firebaseVars, SearchTypeOK, TypeOK, FirebaseTypeOK, FriendWrites
<1>3. ASSUME NEW d \in Device,
             OpenSearch(d) \/ LeaveSearch(d) \/ Type(d) \/ LoadResults(d)
      PROVE  SearchTypeOK'
  <2>1. UNCHANGED vars
    BY <1>3 DEF OpenSearch, LeaveSearch, Type, LoadResults
  <2> QED BY <1>1, <1>3, <2>1, SearchScreenType DEF SearchTypeOK
<1>4. ASSUME NEW d \in Device, Select(d)
      PROVE  SearchTypeOK'
  <2>1. PICK email \in search[d].currentResults : OpenFor(d, email)
    BY <1>4 DEF Select
  <2>2. email \in Text
    BY <1>4 DEF SearchTypeOK, Search
  <2>3. page' \in [Device -> Page] /\ OwnPage'
    BY <1>4, <2>1, <2>2, SelectType
  <2> QED BY <1>2, <1>4, <2>1, <2>3 DEF Select, OpenFor, SearchTypeOK
<1>5. ASSUME NEW d \in Device, Crash(d) /\ SearchDies(d)
      PROVE  SearchTypeOK'
  BY <1>5, CrashType, SearchScreenType DEF SearchTypeOK
<1>6. ASSUME NEW d \in Device, LoadInfo(d) \/ AnswerMe(d) \/ LoadMe(d)
      PROVE  Other
  <2>1. page' \in [Device -> Page] /\ OwnPage'
    BY <1>6, LoadInfoType, AnswerMeType, LoadMeType
  <2> QED BY <1>2, <1>6, <2>1 DEF LoadInfo, AnswerMe, LoadMe
<1>7. ASSUME NEW d \in Device, Reappear(d) \/ Back(d)
      PROVE  Other
  <2>1. CASE Reappear(d)
    <3> DEFINE p == [page[d] EXCEPT !.asked = Append(@, "info")]
    <3>1. page[d] \in Page /\ page[d].screen = "open" /\ page[d].uid = Account[d]
      BY <1>7, <2>1 DEF Reappear, SearchTypeOK, TypeOK, OwnPage, Closed
    <3>4. Append(page[d].asked, "info") \in Seq({"info", "me"})
      BY <3>1 DEF Page
    <3>2. p \in Page /\ p.screen = "open" /\ p.uid = Account[d]
      BY <3>1, <3>4 DEF Page
    <3>3. page' = [page EXCEPT ![d] = p]
      BY <1>7, <2>1 DEF Reappear, SearchTypeOK, TypeOK
    <3> HIDE DEF p
    <3> QED BY <1>2, <1>7, <2>1, <3>2, <3>3, PageStepType DEF Reappear
  <2>2. CASE Back(d)
    BY <1>2, <1>7, <2>2, PageStepType, ClosedIsPage DEF Back
  <2> QED BY <1>7, <2>1, <2>2
<1>8. ASSUME NEW d \in Device, Launch(d)
      PROVE  Other
  BY <1>8 DEF Launch, ProcessStarts, SearchTypeOK, TypeOK, FirebaseTypeOK, FriendWrites, OwnPage
<1>9. ASSUME NEW d \in Device, Follow(d) \/ Send(d)
      PROVE  Other
  BY <1>9, FollowType, SendType
<1>10. ASSUME NEW d \in Device, PageSteps(d) \/ PageAnswer(d) \/ PageSend(d) \/ ResultsTrap(d)
       PROVE  SearchTypeOK'
  <2>1. CASE UNCHANGED search
    BY <1>5, <1>6, <1>7, <1>8, <1>9, <1>10, <2>1
       DEF PageSteps, PageAnswer, PageSend, ResultsTrap, Kill, InfoTraps, MeTraps, SearchTypeOK
  <2>2. CASE ~UNCHANGED search
    BY <1>5, <1>10, <2>2
       DEF PageSteps, PageAnswer, PageSend, ResultsTrap, Kill, InfoTraps, MeTraps
  <2> QED BY <2>1, <2>2
<1>11. ASSUME NEW u \in Uid, SignsUp(u)
       PROVE  SearchTypeOK'
  BY <1>11, SignsUpType DEF SignsUp, SearchTypeOK
<1>12. CASE UNCHANGED searchVars
  BY <1>1, <1>12 DEF searchVars, SearchTypeOK
<1> QED BY <1>3, <1>4, <1>10, <1>11, <1>12 DEF SearchNext

LEMMA SearchTypeInit == SearchInit => SearchTypeOK
<1> SUFFICES ASSUME SearchInit PROVE SearchTypeOK
  OBVIOUS
<1>1. users \in [Uid -> Record]
  BY UserCopyAssumption DEF SearchInit, Init
<1>2. items \in SUBSET ItemId
  <2>1. \A u \in Uid : users[u].itemList \in Seq(ItemId) \cup {Missing}
    BY <1>1 DEF Record
  <2>2. \A u \in Uid : Ids(users[u].itemList) \subseteq ItemId
    BY <2>1 DEF Ids
  <2> QED BY <2>2 DEF SearchInit, Init
<1>3. /\ currentUser \in [Device -> Uid \cup {NoId}] /\ up \in [Device -> BOOLEAN]
      /\ pending \in [Device -> Seq(Write)] /\ page \in [Device -> Page]
  BY UserCopyAssumption, ClosedIsPage DEF SearchInit, Init
<1>4. search \in [Device -> Search]
  BY DEF SearchInit, ClosedSearch, Search
<1> QED BY <1>1, <1>2, <1>3, <1>4
     DEF SearchInit, Init, SearchTypeOK, TypeOK, FirebaseTypeOK, FriendWrites, OwnPage

THEOREM SearchTyped == SearchSpec => []SearchTypeOK
BY SearchTypeInit, SearchTypeStep, PTL DEF SearchSpec

-----------------------------------------------------------------------------
(* Friends are named once                                                  *)

\* Every list that is, or may become, a friend list on the server.
ListsNameOnce ==
  /\ \A u \in Uid : Once(users[u].friendList)
  /\ \A d \in Device : \A k \in DOMAIN pending[d] : Once(pending[d][k].value)
  /\ \A d \in Device : Once(page[d].myFriendList) /\ Once(page[d].answer)

\* The lists the app finds, and those a sign-up writes (it writes <<uid>>).
FoundNamedOnce ==
  /\ \A db \in InitialUsers, u \in Uid :
       db[u].friendList # Missing => Cardinality(Ids(db[u].friendList)) = Len(db[u].friendList)
  /\ \A u \in Uid : NewRecord[u].friendList # Missing =>
       Cardinality(Ids(NewRecord[u].friendList)) = Len(NewRecord[u].friendList)

\* A list names nobody twice if it has as many people as places.
LEMMA OnceIsCount ==
  ASSUME NEW S, NEW list \in Seq(S), list # Missing
  PROVE  Once(list) <=> Cardinality(Ids(list)) = Len(list)
<1> DEFINE n == Len(list)
<1>1. DOMAIN list = 1 .. n /\ n \in Nat
  OBVIOUS
<1>2. list \in Surjection(1 .. n, Ids(list))
  BY <1>1 DEF Surjection, Ids
<1>3. IsFiniteSet(1 .. n) /\ Cardinality(1 .. n) = n
  BY <1>1, FS_Interval, SMTT(20)
<1>4. Cardinality(Ids(list)) = n <=> list \in Injection(1 .. n, Ids(list))
  BY <1>2, <1>3, FS_Surjection
<1>5. list \in Injection(1 .. n, Ids(list)) <=> Once(list)
  BY <1>1, <1>2 DEF Injection, IsInjective, Surjection, Once
<1> QED BY <1>4, <1>5

LEMMA OnceAppended ==
  ASSUME NEW S, NEW list \in Seq(S), list # Missing, Once(list), NEW x \in S, x \notin Ids(list)
  PROVE  Once(Append(list, x))
<1> DEFINE n == Len(list)
<1>1. /\ DOMAIN list = 1 .. n /\ DOMAIN Append(list, x) = 1 .. n + 1 /\ n \in Nat
      /\ Append(list, x)[n + 1] = x
      /\ \A i \in 1 .. n : Append(list, x)[i] = list[i]
  OBVIOUS
<1>2. \A i \in 1 .. n : list[i] # x
  BY <1>1 DEF Ids
<1> HIDE DEF n
<1>3. \A i \in 1 .. n + 1 : i \in 1 .. n \/ i = n + 1
  BY <1>1
<1> QED BY <1>1, <1>2, <1>3 DEF Once

\* A step that leaves the lists of the page of d as they were, or empties them.
LEMMA QuietKeepsOnce ==
  ASSUME SearchTypeOK, ListsNameOnce, UNCHANGED <<users, pending>>, NEW d \in Device,
         \A e \in Device \ {d} : page'[e] = page[e],
         \/ page'[d] = Closed
         \/ /\ page'[d].myFriendList \in {<<>>, page[d].myFriendList, page[d].answer}
            /\ page'[d].answer \in {Missing, page[d].answer}
            /\ page[d].answer = Missing => page'[d].myFriendList # Missing
  PROVE  ListsNameOnce'
<1>1. Once(<<>>) /\ Once(Missing) /\ Once(Closed.myFriendList) /\ Once(Closed.answer)
  BY DEF Once, Closed
<1> QED BY <1>1 DEF ListsNameOnce

LEMMA OnceStep ==
  ASSUME SearchTypeOK, ListsNameOnce, FoundNamedOnce, [SearchNext]_searchVars
  PROVE  ListsNameOnce'
<1>1. ASSUME UNCHANGED vars PROVE ListsNameOnce'
  BY <1>1 DEF vars, firebaseVars, ListsNameOnce
<1>2. ASSUME NEW d \in Device, NEW email, OpenFor(d, email)
      PROVE  ListsNameOnce'
  <2>1. page'[d].myFriendList = <<>> /\ page'[d].answer = Missing
    BY <1>2 DEF OpenFor, Closed, SearchTypeOK, TypeOK
  <2>2. \A e \in Device \ {d} : page'[e] = page[e]
    BY <1>2 DEF OpenFor, SearchTypeOK, TypeOK
  <2>3. <<>> # Missing
    BY FirebaseAssumption, EmptySeq
  <2> QED BY <1>2, <2>1, <2>2, <2>3, QuietKeepsOnce DEF OpenFor, firebaseVars
<1>3. ASSUME NEW d \in Device, LoadInfo(d) \/ Reappear(d) \/ Back(d)
      PROVE  ListsNameOnce'
  <2>1. page[d].myFriendList # Missing
    BY FirebaseAssumption DEF SearchTypeOK, TypeOK, Page
  <2>3. CASE LoadInfo(d) \/ Reappear(d)
    <3>1. UNCHANGED <<page[d].myFriendList, page[d].answer>>
      <4>1. page[d] \in Page
        BY DEF SearchTypeOK, TypeOK
      <4>2. CASE LoadInfo(d)
        BY <4>1, <4>2 DEF LoadInfo, SearchTypeOK, TypeOK, Page
      <4>3. CASE Reappear(d)
        BY <4>1, <4>3 DEF Reappear, SearchTypeOK, TypeOK, Page
      <4> QED BY <2>3, <4>2, <4>3
    <3>2. \A e \in Device \ {d} : page'[e] = page[e]
      BY <2>3 DEF LoadInfo, Reappear, SearchTypeOK, TypeOK
    <3> QED BY <2>1, <2>3, <3>1, <3>2, QuietKeepsOnce DEF LoadInfo, Reappear, firebaseVars
  <2>4. CASE Back(d)
    BY <2>4, QuietKeepsOnce DEF Back, SearchTypeOK, TypeOK, firebaseVars
  <2> QED BY <1>3, <2>3, <2>4
<1>4. ASSUME NEW d \in Device, AnswerMe(d)
      PROVE  ListsNameOnce'
  <2> DEFINE list == FriendListSeen(d, page[d].uid)
  <2>1. PICK k \in Asked(d, "me") : TRUE
    BY <1>4 DEF AnswerMe
  <2>2. page[d].uid \in Uid /\ list # Missing
    BY <1>4, <2>1, AskedIsOpen DEF AnswerMe
  <2>3. Once(list)
    <3> HIDE DEF list
    <3> QED BY <2>2, FriendListSeenIs DEF ListsNameOnce, list
  <2>4. /\ page'[d].myFriendList = page[d].myFriendList /\ page'[d].answer = list
        /\ \A e \in Device \ {d} : page'[e] = page[e]
        /\ UNCHANGED <<users, pending>>
    BY <1>4 DEF AnswerMe, SearchTypeOK, TypeOK, Page, firebaseVars
  <2> QED BY <2>3, <2>4 DEF ListsNameOnce
<1>5. ASSUME NEW d \in Device, LoadMe(d)
      PROVE  ListsNameOnce'
  <2>1. /\ page'[d].myFriendList = page[d].answer /\ page'[d].answer = Missing
        /\ page[d].answer # Missing
        /\ \A e \in Device \ {d} : page'[e] = page[e]
        /\ UNCHANGED <<users, pending>>
    BY <1>5 DEF LoadMe, SearchTypeOK, TypeOK, Page, firebaseVars
  <2> QED BY <2>1, QuietKeepsOnce
<1>6. ASSUME NEW d \in Device, Crash(d)
      PROVE  ListsNameOnce'
  <2>1. /\ page'[d] = Closed /\ pending'[d] = <<>> /\ users' = users
        /\ \A e \in Device \ {d} : page'[e] = page[e] /\ pending'[e] = pending[e]
    BY <1>6 DEF Crash, ProcessDies, SearchTypeOK, TypeOK, FirebaseTypeOK
  <2>2. Once(Closed.myFriendList) /\ Once(Closed.answer)
    BY DEF Once, Closed
  <2> QED BY <2>1, <2>2 DEF ListsNameOnce
<1>7. ASSUME NEW d \in Device, Launch(d)
      PROVE  ListsNameOnce'
  BY <1>7 DEF Launch, ProcessStarts, ListsNameOnce
<1>8. ASSUME NEW d \in Device, Follow(d)
      PROVE  ListsNameOnce'
  <2>1. page[d] \in Page /\ users' = users
    BY <1>8, FollowIs
  <2>2. ASSUME NEW list, page'[d].myFriendList = list, page'[d].answer = page[d].answer,
               \A e \in Device \ {d} : page'[e] = page[e], Once(list)
        PROVE  \A e \in Device : Once(page'[e].myFriendList) /\ Once(page'[e].answer)
    BY <2>2 DEF ListsNameOnce
  <2>3. ASSUME page' = [page EXCEPT ![d] = [page[d] EXCEPT !.following = TRUE]],
               pending' = pending
        PROVE  ListsNameOnce'
    <3>1. /\ page'[d].myFriendList = page[d].myFriendList /\ page'[d].answer = page[d].answer
          /\ \A e \in Device \ {d} : page'[e] = page[e]
      BY <2>1, <2>3 DEF SearchTypeOK, TypeOK, Page
    <3> QED BY <2>1, <2>2, <2>3, <3>1 DEF ListsNameOnce
  <2>4. ASSUME NEW w, w = FriendWriteOf(d), ~IsFriend(d),
               page' = [page EXCEPT ![d] =
                 [page[d] EXCEPT !.following = TRUE, !.myFriendList = w.value]],
               pending' = [pending EXCEPT ![d] = Append(pending[d], w)]
        PROVE  ListsNameOnce'
    <3>1. /\ page'[d].myFriendList = w.value /\ page'[d].answer = page[d].answer
          /\ \A e \in Device \ {d} : page'[e] = page[e]
      BY <2>1, <2>4 DEF SearchTypeOK, TypeOK, Page
    <3>2. Once(w.value)
      <4>1. /\ page[d].myFriendList \in Seq(Uid \cup {NoId})
            /\ page[d].friendID \in Uid \cup {NoId}
            /\ Once(page[d].myFriendList)
            /\ page[d].friendID \notin Ids(page[d].myFriendList)
        BY <2>1, <2>4 DEF Page, ListsNameOnce, IsFriend
      <4>2. page[d].myFriendList # Missing
        BY <4>1, FirebaseAssumption
      <4> QED BY <2>4, <4>1, <4>2, OnceAppended DEF FriendWriteOf
    <3>3. w \in Write /\ pending[d] \in Seq(Write)
      BY <1>8, <2>4, FollowIs DEF SearchTypeOK, TypeOK, FirebaseTypeOK
    <3>4. \A e \in Device : \A k \in DOMAIN pending'[e] :
            \/ k \in DOMAIN pending[e] /\ pending'[e][k] = pending[e][k]
            \/ pending'[e][k] = w
      BY <2>4, <3>3 DEF SearchTypeOK, TypeOK, FirebaseTypeOK
    <3> QED BY <2>1, <2>2, <3>1, <3>2, <3>4 DEF ListsNameOnce
  <2> QED BY <1>8, <2>3, <2>4, FollowIs
<1>9. ASSUME NEW d \in Device, Send(d)
      PROVE  ListsNameOnce'
  <2>1. PICK w : w = pending[d][1]
    OBVIOUS
  <2>2. /\ 1 \in DOMAIN pending[d]
        /\ users' = [u \in Uid |-> IF u = w.uid THEN [users[u] EXCEPT !.friendList = w.value]
                                             ELSE users[u]]
        /\ pending' = [pending EXCEPT ![d] = Tail(pending[d])] /\ page' = page
    BY <1>9, <2>1, SendIs
  <2>3. pending[d] \in Seq(Write) /\ pending[d] # <<>>
    BY <2>2 DEF SearchTypeOK, TypeOK, FirebaseTypeOK
  <2>4. \A k \in DOMAIN Tail(pending[d]) :
          k + 1 \in DOMAIN pending[d] /\ Tail(pending[d])[k] = pending[d][k + 1]
    BY <2>3
  <2>5. \A e \in Device : \A k \in DOMAIN pending'[e] : Once(pending'[e][k].value)
    BY <2>2, <2>4 DEF ListsNameOnce, SearchTypeOK, TypeOK, FirebaseTypeOK
  <2>6. \A u \in Uid : users'[u].friendList \in {users[u].friendList, w.value}
    BY <2>2 DEF SearchTypeOK, TypeOK, FirebaseTypeOK, Record
  <2> QED BY <2>1, <2>2, <2>5, <2>6 DEF ListsNameOnce
<1>10. ASSUME NEW u \in Uid, SignsUp(u)
       PROVE  ListsNameOnce'
  <2>1. users[u] \in Record /\ NewRecord[u] \in Record
    BY PeopleSearchAssumption DEF SearchTypeOK, TypeOK, FirebaseTypeOK
  <2>2. Once(NewRecord[u].friendList)
    BY <2>1, OnceIsCount DEF FoundNamedOnce, Record, Once
  <2>3. Arrived(u).friendList \in {Missing, users[u].friendList, NewRecord[u].friendList}
    BY <2>1 DEF Arrived, Record, EmptyRecord
  <2>4. \A v \in Uid : users'[v].friendList \in
          {Missing, users[v].friendList, NewRecord[u].friendList}
    BY <1>10, <2>3 DEF SignsUp, SearchTypeOK, TypeOK, FirebaseTypeOK
  <2>5. \A v \in Uid : Once(users'[v].friendList)
    BY <2>2, <2>4 DEF ListsNameOnce, Once
  <2> QED BY <1>10, <2>5 DEF SignsUp, ListsNameOnce
<1>11. CASE UNCHANGED searchVars
  BY <1>1, <1>11 DEF searchVars
<1> QED BY <1>1, <1>2, <1>3, <1>4, <1>5, <1>6, <1>7, <1>8, <1>9, <1>10, <1>11
     DEF SearchNext, OpenSearch, LeaveSearch, Type, Select, LoadResults, ResultsTrap,
         PageSteps, PageAnswer, PageSend, Kill, InfoTraps, MeTraps

\* No friend list on the server names anyone twice, whatever is lost, pressed
\* early or answered late, if those the app finds and sign-ups write do not.
THEOREM NamedOnce ==
  ASSUME FoundNamedOnce
  PROVE  SearchSpec => []FriendsAreNamedOnce
<1>1. SearchInit => ListsNameOnce
  <2> SUFFICES ASSUME SearchInit PROVE ListsNameOnce
    OBVIOUS
  <2>1. users \in [Uid -> Record] /\ users \in InitialUsers
    BY UserCopyAssumption DEF SearchInit, Init
  <2>2. \A u \in Uid : Once(users[u].friendList)
    BY <2>1, OnceIsCount DEF FoundNamedOnce, Record, Once
  <2>3. \A d \in Device : pending[d] = <<>> /\ page[d] = Closed
    BY DEF SearchInit, Init
  <2>4. Once(Closed.myFriendList) /\ Once(Closed.answer)
    BY DEF Once, Closed
  <2> QED BY <2>2, <2>3, <2>4 DEF ListsNameOnce
<1>2. SearchTypeOK /\ ListsNameOnce /\ [SearchNext]_searchVars => ListsNameOnce'
  BY OnceStep
<1>3. SearchTypeOK /\ ListsNameOnce => FriendsAreNamedOnce
  BY OnceIsCount
     DEF SearchTypeOK, TypeOK, FirebaseTypeOK, Record, ListsNameOnce, FriendsAreNamedOnce
<1> QED BY <1>1, <1>2, <1>3, SearchTyped, PTL DEF SearchSpec

-----------------------------------------------------------------------------
(* The rows                                                                *)

Known == {users[u].profile.email : u \in {v \in Uid : users[v].profile # Missing}}

LEMMA EmailsAreKnown ==
  ASSUME SearchTypeOK, NEW d \in Device
  PROVE  Emails(d) = Known
BY ProfileSeenIs DEF Emails, Known

RowsInv ==
  \A d \in Device :
    LET s == search[d]
    IN  /\ s.results \cup s.currentResults \subseteq Known
        /\ s.asked => s.results = {} /\ s.currentResults = {}
        /\ s.asked /\ ~s.early => s.typed = Text
        /\ ~s.asked /\ ~s.early => s.currentResults = s.results \cap s.typed

\* A profile is written once: a person keeps the email.
ProfilesStay ==
  \A u \in Uid : users[u].profile # Missing => users'[u].profile = users[u].profile

LEMMA ProfileStep ==
  ASSUME SearchTypeOK, [SearchNext]_searchVars
  PROVE  ProfilesStay
<1> USE DEF ProfilesStay
<1>2. ASSUME UNCHANGED users
      PROVE  ProfilesStay
  BY <1>2
<1>3. ASSUME NEW d \in Device, Send(d)
      PROVE  ProfilesStay
  <2>1. PICK w : w = pending[d][1]
    OBVIOUS
  <2>2. users' = [u \in Uid |-> IF u = w.uid THEN [users[u] EXCEPT !.friendList = w.value]
                                            ELSE users[u]]
    BY <1>3, <2>1, SendIs
  <2> QED BY <2>2 DEF SearchTypeOK, TypeOK, FirebaseTypeOK, Record
<1>4. ASSUME NEW v \in Uid, SignsUp(v)
      PROVE  ProfilesStay
  <2>1. users[v] \in Record /\ NewRecord[v] \in Record
    BY PeopleSearchAssumption DEF SearchTypeOK, TypeOK, FirebaseTypeOK
  <2>2. users[v].profile # Missing => Arrived(v).profile = users[v].profile
    <3>1. /\ [users[v] EXCEPT !.friendList = NewRecord[v].friendList].profile = users[v].profile
          /\ [users[v] EXCEPT !.itemList = NewRecord[v].itemList].profile = users[v].profile
      BY <2>1 DEF Record
    <3> QED BY <3>1 DEF Arrived
  <2> QED BY <1>4, <2>2 DEF SignsUp, SearchTypeOK, TypeOK, FirebaseTypeOK
<1>5. CASE UNCHANGED searchVars
  BY <1>2, <1>5 DEF searchVars, vars, firebaseVars
<1> QED BY <1>2, <1>3, <1>4, <1>5
     DEF SearchNext, OpenSearch, LeaveSearch, Type, Select, OpenFor, LoadResults, ResultsTrap,
         PageSteps, PageAnswer, PageSend, Kill, InfoTraps, MeTraps, Crash, ProcessDies,
         Reappear, Follow, Back, Launch, ProcessStarts, LoadInfo, AnswerMe, LoadMe,
         vars, firebaseVars

LEMMA KnownStays ==
  ASSUME ProfilesStay
  PROVE  Known \subseteq Known'
<1> SUFFICES ASSUME NEW e \in Known PROVE e \in Known'
  OBVIOUS
<1>1. PICK u \in Uid : users[u].profile # Missing /\ e = users[u].profile.email
  BY DEF Known
<1>2. users'[u].profile # Missing /\ e = users'[u].profile.email
  BY <1>1 DEF ProfilesStay
<1> QED BY <1>2 DEF Known

\* What a step does to the screen of one device.
LEMMA OneScreen ==
  ASSUME RowsInv, Known \subseteq Known', NEW d \in Device, NEW s,
         \A e \in Device \ {d} : search'[e] = search[e], search'[d] = s,
         s.results \cup s.currentResults \subseteq Known',
         s.asked => s.results = {} /\ s.currentResults = {},
         s.asked /\ ~s.early => s.typed = Text,
         ~s.asked /\ ~s.early => s.currentResults = s.results \cap s.typed
  PROVE  RowsInv'
<1> SUFFICES ASSUME NEW e \in Device
             PROVE  LET r == search'[e]
                    IN  /\ r.results \cup r.currentResults \subseteq Known'
                        /\ r.asked => r.results = {} /\ r.currentResults = {}
                        /\ r.asked /\ ~r.early => r.typed = Text
                        /\ ~r.asked /\ ~r.early => r.currentResults = r.results \cap r.typed
  BY DEF RowsInv
<1>1. CASE e = d
  BY <1>1
<1>2. CASE e # d
  BY <1>2 DEF RowsInv
<1> QED BY <1>1, <1>2

LEMMA RowsStep ==
  ASSUME SearchTypeOK, RowsInv, [SearchNext]_searchVars
  PROVE  RowsInv'
<1>1. Known \subseteq Known'
  BY ProfileStep, KnownStays
<1>2. ASSUME UNCHANGED search PROVE RowsInv'
  BY <1>1, <1>2 DEF RowsInv
<1>3. ASSUME NEW d \in Device, NEW s, s \in {ClosedSearch, [ClosedSearch EXCEPT !.screen = "open", !.asked = TRUE]},
             search' = [search EXCEPT ![d] = s]
      PROVE  RowsInv'
  <2>1. /\ s.results = {} /\ s.currentResults = {} /\ s.typed = Text
    <3>1. CASE s = ClosedSearch
      BY <3>1 DEF ClosedSearch
    <3>2. CASE s = [ClosedSearch EXCEPT !.screen = "open", !.asked = TRUE]
      BY <3>2 DEF ClosedSearch
    <3> QED BY <1>3, <3>1, <3>2
  <2>2. search'[d] = s /\ \A e \in Device \ {d} : search'[e] = search[e]
    BY <1>3 DEF SearchTypeOK
  <2> QED BY <1>1, <2>1, <2>2, OneScreen
<1>4. ASSUME NEW d \in Device, Type(d)
      PROVE  RowsInv'
  <2>1. PICK text \in Searches :
          search' = [search EXCEPT ![d] = [search[d] EXCEPT !.typed = text,
            !.early = search[d].asked, !.currentResults = search[d].results \cap text]]
    BY <1>4 DEF Type
  <2> DEFINE s == [search[d] EXCEPT !.typed = text,
            !.early = search[d].asked, !.currentResults = search[d].results \cap text]
  <2>2. /\ s.typed = text /\ s.early = search[d].asked /\ s.asked = search[d].asked
        /\ s.results = search[d].results /\ s.currentResults = search[d].results \cap text
    BY DEF SearchTypeOK, Search
  <2>3. search'[d] = s /\ \A e \in Device \ {d} : search'[e] = search[e]
    BY <2>1 DEF SearchTypeOK
  <2> HIDE DEF s
  <2>4. /\ s.results \cup s.currentResults \subseteq Known'
        /\ s.asked => s.results = {} /\ s.currentResults = {}
    BY <1>1, <2>2 DEF RowsInv
  <2> QED BY <1>1, <2>2, <2>3, <2>4, OneScreen
<1>5. ASSUME NEW d \in Device, LoadResults(d)
      PROVE  RowsInv'
  <2>1. search[d] \in Search /\ search[d].asked
    BY <1>5 DEF LoadResults, SearchTypeOK
  <2>2. CASE UsersSeen(d) = {}
    <3> DEFINE s == [search[d] EXCEPT !.asked = FALSE]
    <3>1. /\ s.typed = search[d].typed /\ s.early = search[d].early /\ s.asked = FALSE
          /\ s.results = {} /\ s.currentResults = {}
      BY <2>1 DEF Search, RowsInv
    <3>2. search'[d] = s /\ \A e \in Device \ {d} : search'[e] = search[e]
      BY <1>5, <2>2 DEF LoadResults, SearchTypeOK
    <3> HIDE DEF s
    <3> QED BY <1>1, <3>1, <3>2, OneScreen
  <2>3. CASE UsersSeen(d) # {}
    <3> DEFINE s == [search[d] EXCEPT !.asked = FALSE, !.results = Emails(d),
                                     !.currentResults = Emails(d)]
    <3>1. /\ s.typed = search[d].typed /\ s.early = search[d].early /\ s.asked = FALSE
          /\ s.results = Known /\ s.currentResults = Known
      BY <2>1, EmailsAreKnown DEF Search
    <3>2. search'[d] = s /\ \A e \in Device \ {d} : search'[e] = search[e]
      BY <1>5, <2>3 DEF LoadResults, SearchTypeOK
    <3>3. ~search[d].early => search[d].typed = Text
      BY <2>1 DEF RowsInv
    <3>4. Known \subseteq Text
      BY DEF Known, SearchTypeOK, TypeOK, FirebaseTypeOK, Record, Profile
    <3> HIDE DEF s
    <3> QED BY <1>1, <3>1, <3>2, <3>3, <3>4, OneScreen
  <2> QED BY <2>2, <2>3
<1>6. ASSUME NEW d \in Device, OpenSearch(d) \/ LeaveSearch(d) \/ SearchDies(d)
      PROVE  RowsInv'
  BY <1>3, <1>6 DEF OpenSearch, LeaveSearch, SearchDies
<1>7. CASE UNCHANGED searchVars
  BY <1>2, <1>7 DEF searchVars
<1> QED BY <1>2, <1>4, <1>5, <1>6, <1>7
     DEF SearchNext, Select, ResultsTrap, PageSteps, PageAnswer, PageSend, SignsUp

\* In every state the rows are those of the search, of the people the one
\* answer brought, unless it came after the text; and all are somebody's email.
THEOREM RowsAlwaysMatch == SearchSpec => []RowsMatchSearch
<1>1. SearchInit => RowsInv
  BY DEF SearchInit, RowsInv, ClosedSearch
<1>2. SearchTypeOK /\ RowsInv /\ [SearchNext]_searchVars => RowsInv'
  BY RowsStep
<1>3. SearchTypeOK /\ RowsInv => RowsMatchSearch
  BY EmailsAreKnown DEF SearchTypeOK, RowsInv, RowsMatchSearch
<1> QED BY <1>1, <1>2, <1>3, SearchTyped, PTL DEF SearchSpec

-----------------------------------------------------------------------------
(* The title of the button                                                 *)

Differ(db) ==
  \A u, v \in Uid :
    u # v /\ db[u].profile # Missing /\ db[v].profile # Missing
      => db[u].profile.email # db[v].profile.email

Has(asked, kind) == \E k \in DOMAIN asked : asked[k] = kind

\* A request for the person comes after the only one for the friends; until
\* the friends are there the page knows none.
InTurn(p) ==
  /\ p.asked # <<>> => p.asked[Len(p.asked)] = "info"
  /\ \A j, k \in DOMAIN p.asked : p.asked[j] = "me" /\ p.asked[k] = "me" => j = k
  /\ Has(p.asked, "me") => "me" \notin p.loaded
  /\ "me" \notin p.loaded => p.myFriendList = <<>> /\ ~p.following

\* The person shown has the email the page was opened for.
Shown(p, db) ==
  /\ "info" \in p.loaded =>
       /\ p.friendID \in Uid /\ db[p.friendID].profile # Missing
       /\ db[p.friendID].profile.email = p.userEmail
  /\ p.following => "info" \in p.loaded

Titled(p, db) ==
  Differ(db) =>
    /\ p.following => p.friendID \in Ids(p.myFriendList)
    /\ p.screen = "open" /\ p.asked = <<>> /\ p.friendID \in Ids(p.myFriendList) => p.following

PageOK(p, db) == InTurn(p) /\ Shown(p, db) /\ Titled(p, db)

TitleInv == \A d \in Device : PageOK(page[d], users)

\* A step that leaves a page alone leaves it titled.
LEMMA PageStays ==
  ASSUME SearchTypeOK, ProfilesStay, NEW p, PageOK(p, users)
  PROVE  PageOK(p, users')
<1>1. Shown(p, users')
  BY DEF PageOK, Shown, ProfilesStay
<1>2. ASSUME Differ(users') PROVE Differ(users)
  <2> SUFFICES ASSUME NEW u \in Uid, NEW v \in Uid, u # v,
                      users[u].profile # Missing, users[v].profile # Missing
               PROVE  users[u].profile.email # users[v].profile.email
    BY DEF Differ
  <2>1. users'[u].profile = users[u].profile /\ users'[v].profile = users[v].profile
    BY DEF ProfilesStay
  <2> QED BY <1>2, <2>1 DEF Differ
<1> QED BY <1>1, <1>2 DEF PageOK, Titled

LEMMA OnePage ==
  ASSUME SearchTypeOK, TitleInv, ProfilesStay, NEW d \in Device,
         \A e \in Device \ {d} : page'[e] = page[e], PageOK(page'[d], users')
  PROVE  TitleInv'
BY PageStays DEF TitleInv

LEMMA ClosedPageOK == PageOK(Closed, users)
BY DEF PageOK, InTurn, Shown, Titled, Closed, Has, Ids

LEMMA FirstTurn ==
  ASSUME InOrder, SearchTypeOK, NEW d \in Device, NEW kind, NEW k \in Asked(d, kind)
  PROVE  k = 1
<1>1. page[d].asked \in Seq({"info", "me"}) /\ k \in DOMAIN page[d].asked
  BY AskedIsOpen DEF Page
<1>2. 1 \in DOMAIN page[d].asked
  BY <1>1
<1> QED BY <1>1, <1>2 DEF Asked, Turn

LEMMA AnsweredInTurn ==
  ASSUME NEW asked \in Seq({"info", "me"}), asked # <<>>,
         asked[Len(asked)] = "info",
         \A j, k \in DOMAIN asked : asked[j] = "me" /\ asked[k] = "me" => j = k,
         NEW rest, rest = RemoveAt(asked, 1)
  PROVE  /\ rest # <<>> => rest[Len(rest)] = "info"
         /\ \A j, k \in DOMAIN rest : rest[j] = "me" /\ rest[k] = "me" => j = k
         /\ Has(rest, "me") => Has(asked, "me") /\ asked[1] # "me"
         /\ rest = <<>> => asked[1] = "info"
<1>1. /\ rest \in Seq({"info", "me"}) /\ Len(rest) = Len(asked) - 1
      /\ \A k \in DOMAIN rest : k \in Nat \ {0} /\ k + 1 \in DOMAIN asked /\ rest[k] = asked[k + 1]
  BY AskedTail
<1>2. rest # <<>> => rest[Len(rest)] = "info"
  BY <1>1
<1>3. \A j, k \in DOMAIN rest : rest[j] = "me" /\ rest[k] = "me" => j = k
  <2> SUFFICES ASSUME NEW j \in DOMAIN rest, NEW k \in DOMAIN rest,
                      rest[j] = "me", rest[k] = "me"
               PROVE  j = k
    OBVIOUS
  <2>1. j + 1 = k + 1
    BY <1>1
  <2> QED BY <1>1, <2>1
<1>4. Has(rest, "me") => Has(asked, "me") /\ asked[1] # "me"
  <2> SUFFICES ASSUME NEW k \in DOMAIN rest, rest[k] = "me"
               PROVE  Has(asked, "me") /\ asked[1] # "me"
    BY DEF Has
  <2>1. k + 1 \in DOMAIN asked /\ asked[k + 1] = "me" /\ k + 1 # 1 /\ 1 \in DOMAIN asked
    BY <1>1
  <2> QED BY <2>1 DEF Has
<1>5. rest = <<>> => asked[1] = "info"
  BY <1>1
<1> QED BY <1>2, <1>3, <1>4, <1>5

LEMMA LoadInfoTitled ==
  ASSUME InOrder, SearchTypeOK, TitleInv, NEW d \in Device, LoadInfo(d)
  PROVE  PageOK(page'[d], users)
<1>1. PICK k \in Asked(d, "info"), key \in Matches(d) :
        page' = [page EXCEPT ![d] =
         [page[d] EXCEPT !.friendID = key,
                         !.following = @ \/ Matches(d) \cap Ids(page[d].myFriendList) # {},
                         !.asked = RemoveAt(@, k),
                         !.loaded = @ \cup {"info"}]]
  BY DEF LoadInfo
<1>2. /\ k = 1 /\ 1 \in DOMAIN page[d].asked /\ page[d].asked[1] = "info" /\ page[d] \in Page
      /\ page[d].asked \in Seq({"info", "me"}) /\ page[d].asked # <<>>
  BY AskedIsOpen, FirstTurn DEF Page
<1> DEFINE p == page[d]
           q == page'[d]
<1>3. /\ q.friendID = key /\ q.asked = RemoveAt(p.asked, 1) /\ q.loaded = p.loaded \cup {"info"}
      /\ q.myFriendList = p.myFriendList /\ q.userEmail = p.userEmail
      /\ q.following <=> p.following \/ Matches(d) \cap Ids(p.myFriendList) # {}
  BY <1>1, <1>2 DEF SearchTypeOK, TypeOK, Page
<1>4. PageOK(p, users)
  BY DEF TitleInv
<1>5. \A u \in Matches(d) : u \in Uid /\ users[u].profile # Missing
                             /\ users[u].profile.email = p.userEmail
  BY ProfileSeenIs DEF Matches, UsersSeen
<1> HIDE DEF p, q
<1>6. InTurn(q)
  <2>1. /\ q.asked # <<>> => q.asked[Len(q.asked)] = "info"
        /\ \A i, j \in DOMAIN q.asked : q.asked[i] = "me" /\ q.asked[j] = "me" => i = j
        /\ Has(q.asked, "me") => Has(p.asked, "me")
    BY <1>2, <1>3, <1>4, AnsweredInTurn DEF PageOK, InTurn, p
  <2>2. "me" \notin p.loaded => ~q.following
    BY <1>3, <1>4 DEF PageOK, InTurn, Ids
  <2> QED BY <1>3, <1>4, <2>1, <2>2 DEF PageOK, InTurn
<1>7. Shown(q, users)
  BY <1>3, <1>4, <1>5 DEF PageOK, Shown
<1>8. Titled(q, users)
  <2> SUFFICES ASSUME Differ(users)
               PROVE  q.following <=> key \in Ids(q.myFriendList)
    BY <1>3 DEF Titled
  <2>1. \A u \in Matches(d) : u = key
    BY <1>5 DEF Differ
  <2>2. p.following => p.friendID = key
    BY <1>4, <1>5 DEF Differ, PageOK, Shown
  <2> QED BY <1>3, <1>4, <2>1, <2>2 DEF PageOK, Titled
<1> QED BY <1>6, <1>7, <1>8 DEF PageOK, q

LEMMA LoadMeTitled ==
  ASSUME InOrder, SearchTypeOK, TitleInv, NEW d \in Device, LoadMe(d)
  PROVE  PageOK(page'[d], users)
<1>1. PICK k \in Asked(d, "me") :
        page' = [page EXCEPT ![d] =
         [page[d] EXCEPT !.myFriendList = page[d].answer,
                         !.answer = Missing,
                         !.asked = RemoveAt(@, k),
                         !.loaded = @ \cup {"me"}]]
  BY DEF LoadMe
<1>2. /\ k = 1 /\ 1 \in DOMAIN page[d].asked /\ page[d].asked[1] = "me" /\ page[d] \in Page
      /\ page[d].asked \in Seq({"info", "me"}) /\ page[d].asked # <<>>
  BY AskedIsOpen, FirstTurn DEF Page
<1> DEFINE p == page[d]
           q == page'[d]
<1>3. /\ q.asked = RemoveAt(p.asked, 1) /\ q.loaded = p.loaded \cup {"me"}
      /\ q.friendID = p.friendID /\ q.userEmail = p.userEmail /\ q.following = p.following
  BY <1>1, <1>2 DEF SearchTypeOK, TypeOK, Page
<1>4. PageOK(p, users)
  BY DEF TitleInv
<1> HIDE DEF q
<1>5. /\ q.asked # <<>> /\ q.asked[Len(q.asked)] = "info" /\ ~Has(q.asked, "me")
      /\ \A i, j \in DOMAIN q.asked : q.asked[i] = "me" /\ q.asked[j] = "me" => i = j
  BY <1>2, <1>3, <1>4, AnsweredInTurn DEF PageOK, InTurn
<1>6. ~p.following
  BY <1>2, <1>4 DEF PageOK, InTurn, Has
<1> HIDE DEF p
<1>7. InTurn(q)
  BY <1>3, <1>5 DEF InTurn
<1>8. Shown(q, users) /\ Titled(q, users)
  BY <1>3, <1>4, <1>5, <1>6 DEF PageOK, Shown, Titled
<1> QED BY <1>7, <1>8 DEF PageOK, q

LEMMA FollowTitled ==
  ASSUME {"info", "me"} \subseteq WaitsFor, SearchTypeOK, TitleInv, NEW d \in Device, Follow(d)
  PROVE  PageOK(page'[d], users)
<1> DEFINE p == page[d]
           q == page'[d]
<1>1. p \in Page /\ "info" \in p.loaded /\ "me" \in p.loaded
  BY FollowIs
<1>2. PageOK(p, users)
  BY DEF TitleInv
<1>3. /\ q.asked = p.asked /\ q.loaded = p.loaded /\ q.friendID = p.friendID
      /\ q.userEmail = p.userEmail /\ q.screen = p.screen
      /\ q.following
      /\ q.friendID \in Ids(q.myFriendList)
  <2>1. CASE IsFriend(d)
    <3>1. page' = [page EXCEPT ![d] = [page[d] EXCEPT !.following = TRUE]]
      BY <2>1, FollowIs
    <3> QED BY <1>1, <2>1, <3>1 DEF SearchTypeOK, TypeOK, Page, IsFriend
  <2>2. CASE ~IsFriend(d)
    <3>1. PICK list : list = Append(p.myFriendList, p.friendID)
      OBVIOUS
    <3>2. page' = [page EXCEPT ![d] = [page[d] EXCEPT !.following = TRUE, !.myFriendList = list]]
      BY <2>2, <3>1, FollowIs DEF FriendWriteOf
    <3>3. /\ q.asked = p.asked /\ q.loaded = p.loaded /\ q.friendID = p.friendID
          /\ q.userEmail = p.userEmail /\ q.screen = p.screen
          /\ q.following /\ q.myFriendList = list
      BY <1>1, <3>2 DEF SearchTypeOK, TypeOK, Page
    <3>4. /\ list \in Seq(Uid \cup {NoId}) /\ Len(list) \in DOMAIN list
          /\ list[Len(list)] = p.friendID
      BY <1>1, <3>1 DEF Page
    <3>5. list # Missing
      BY <3>4, FirebaseAssumption
    <3> QED BY <3>3, <3>4, <3>5 DEF Ids
  <2> QED BY <2>1, <2>2
<1> HIDE DEF p, q
<1>4. InTurn(q)
  BY <1>1, <1>2, <1>3 DEF PageOK, InTurn
<1>5. Shown(q, users) /\ Titled(q, users)
  BY <1>1, <1>2, <1>3 DEF PageOK, Shown, Titled
<1> QED BY <1>4, <1>5 DEF PageOK, q

LEMMA TitleStep ==
  ASSUME InOrder, {"info", "me"} \subseteq WaitsFor,
         SearchTypeOK, TitleInv, [SearchNext]_searchVars
  PROVE  TitleInv'
<1>1. ProfilesStay
  BY ProfileStep
<1>2. ASSUME UNCHANGED page PROVE TitleInv'
  BY <1>1, <1>2, PageStays DEF TitleInv
<1>3. ASSUME NEW d \in Device, \A e \in Device \ {d} : page'[e] = page[e], users' = users,
             PageOK(page'[d], users)
      PROVE  TitleInv'
  BY <1>1, <1>3, OnePage
<1>4. ASSUME NEW d \in Device, NEW email, OpenFor(d, email)
      PROVE  TitleInv'
  <2> DEFINE q == page'[d]
  <2>1. /\ q.asked = <<"info", "me", "info">> /\ q.loaded = {} /\ q.myFriendList = <<>>
        /\ q.following = FALSE
        /\ users' = users /\ \A e \in Device \ {d} : page'[e] = page[e]
    BY <1>4 DEF OpenFor, Closed, SearchTypeOK, TypeOK, firebaseVars
  <2> HIDE DEF q
  <2>2. /\ DOMAIN q.asked = 1 .. 3 /\ Len(q.asked) = 3 /\ q.asked # <<>>
        /\ q.asked[1] = "info" /\ q.asked[2] = "me" /\ q.asked[3] = "info"
    BY <2>1
  <2>3. InTurn(q)
    BY <2>1, <2>2 DEF InTurn
  <2>4. Shown(q, users) /\ Titled(q, users)
    BY <2>1, <2>2 DEF Shown, Titled
  <2> QED BY <1>3, <2>1, <2>3, <2>4 DEF PageOK, q
<1>5. ASSUME NEW d \in Device, Reappear(d)
      PROVE  TitleInv'
  <2> DEFINE p == page[d]
             q == page'[d]
  <2>1. /\ p \in Page /\ q = [p EXCEPT !.asked = Append(p.asked, "info")]
        /\ users' = users /\ \A e \in Device \ {d} : page'[e] = page[e]
    BY <1>5 DEF Reappear, SearchTypeOK, TypeOK, firebaseVars
  <2>2. /\ q.asked = Append(p.asked, "info") /\ q.loaded = p.loaded
        /\ q.myFriendList = p.myFriendList /\ q.following = p.following
        /\ q.friendID = p.friendID /\ q.userEmail = p.userEmail
        /\ p.asked \in Seq({"info", "me"})
    BY <2>1 DEF Page
  <2>3. PageOK(p, users)
    BY DEF TitleInv
  <2> HIDE DEF p, q
  <2>4. /\ q.asked # <<>> /\ q.asked[Len(q.asked)] = "info"
        /\ \A k \in DOMAIN q.asked :
             q.asked[k] = "me" => k \in DOMAIN p.asked /\ p.asked[k] = "me"
    <3>1. /\ q.asked \in Seq({"info", "me"}) /\ Len(q.asked) = Len(p.asked) + 1
          /\ q.asked[Len(p.asked) + 1] = "info"
          /\ \A k \in 1 .. Len(p.asked) : q.asked[k] = p.asked[k]
      BY <2>2, AppendProperties
    <3>2. \A k \in DOMAIN q.asked : k = Len(p.asked) + 1 \/ k \in DOMAIN p.asked
      BY <2>2, <3>1
    <3> QED BY <2>2, <3>1, <3>2
  <2>5. InTurn(q)
    BY <2>2, <2>3, <2>4 DEF PageOK, InTurn, Has
  <2>6. Shown(q, users) /\ Titled(q, users)
    BY <2>2, <2>3, <2>4 DEF PageOK, Shown, Titled
  <2> QED BY <1>3, <2>1, <2>5, <2>6 DEF PageOK, q
<1>6. ASSUME NEW d \in Device, AnswerMe(d)
      PROVE  TitleInv'
  <2>1. /\ page[d] \in Page
        /\ page'[d] = [page[d] EXCEPT !.answer = FriendListSeen(d, page[d].uid)]
        /\ users' = users /\ \A e \in Device \ {d} : page'[e] = page[e]
    BY <1>6 DEF AnswerMe, SearchTypeOK, TypeOK, firebaseVars
  <2>2. PICK p, q : p = page[d] /\ q = page'[d]
    OBVIOUS
  <2>3. /\ q.asked = p.asked /\ q.loaded = p.loaded /\ q.screen = p.screen
        /\ q.myFriendList = p.myFriendList /\ q.following = p.following
        /\ q.friendID = p.friendID /\ q.userEmail = p.userEmail
    BY <2>1, <2>2 DEF Page
  <2>4. PageOK(p, users)
    BY <2>2 DEF TitleInv
  <2>5. PageOK(q, users)
    BY <2>3, <2>4 DEF PageOK, InTurn, Shown, Titled
  <2> QED BY <1>3, <2>1, <2>2, <2>5
<1>7. ASSUME NEW d \in Device, LoadInfo(d) \/ LoadMe(d) \/ Follow(d)
      PROVE  TitleInv'
  <2>1. PageOK(page'[d], users)
    BY <1>7, LoadInfoTitled, LoadMeTitled, FollowTitled
  <2>2. users' = users /\ \A e \in Device \ {d} : page'[e] = page[e]
    <3>1. CASE Follow(d)
      BY <3>1, FollowIs DEF SearchTypeOK, TypeOK
    <3>2. CASE LoadInfo(d) \/ LoadMe(d)
      BY <3>2 DEF LoadInfo, LoadMe, SearchTypeOK, TypeOK, firebaseVars
    <3> QED BY <1>7, <3>1, <3>2
  <2> QED BY <1>3, <2>1, <2>2
<1>8. ASSUME NEW d \in Device, Crash(d) \/ Back(d)
      PROVE  TitleInv'
  <2>1. /\ page'[d] = Closed /\ users' = users
        /\ \A e \in Device \ {d} : page'[e] = page[e]
    BY <1>8 DEF Crash, ProcessDies, Back, SearchTypeOK, TypeOK, firebaseVars
  <2> QED BY <1>3, <2>1, ClosedPageOK
<1>9. CASE UNCHANGED searchVars
  BY <1>2, <1>9 DEF searchVars, vars
<1> QED BY <1>2, <1>4, <1>5, <1>6, <1>7, <1>8, <1>9
     DEF SearchNext, OpenSearch, LeaveSearch, Type, Select, LoadResults, ResultsTrap,
         PageSteps, PageAnswer, PageSend, Launch, Send, Kill, InfoTraps, MeTraps, SignsUp, vars

\* The button says "Following" exactly of a friend, once the page has its
\* answers, if these come in the order of the requests and the user waits for
\* the first two; TLC refutes it without either.
THEOREM TitleAlwaysRight ==
  ASSUME InOrder, {"info", "me"} \subseteq WaitsFor
  PROVE  SearchSpec => []TitleIsRight
<1>1. SearchInit => TitleInv
  BY ClosedPageOK DEF SearchInit, Init, TitleInv
<1>2. SearchTypeOK /\ TitleInv /\ [SearchNext]_searchVars => TitleInv'
  BY TitleStep
<1>3. SearchTypeOK /\ TitleInv => TitleIsRight
  BY DEF SearchTypeOK, TypeOK, Page, TitleInv, PageOK, Titled, TitleIsRight, Settled, IsFriend,
         EmailsDiffer, Differ
<1> QED BY <1>1, <1>2, <1>3, SearchTyped, PTL DEF SearchSpec
=============================================================================
