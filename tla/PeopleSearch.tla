---------------------------- MODULE PeopleSearch ----------------------------
(***************************************************************************)
(* PeopleSearchVC: the emails of all users in a table under a search bar,  *)
(* and the page (UserCopy) of the person whose row is selected, which      *)
(* covers the table until it is left.  The users node is asked for once,   *)
(* when the screen loads; its answer replaces the rows, whatever has been  *)
(* typed.  Emails are rows of a set: the order is that of a dictionary.    *)
(*                                                                         *)
(* A text in the bar is the set of the emails that contain it; the empty   *)
(* text is in all of them.  Meanwhile people sign up on other devices      *)
(* (SignUpVC): the three writes of each come one by one.                   *)
(***************************************************************************)
EXTENDS UserCopy

CONSTANTS
  Searches, \* what may be typed, each as the set of emails it is found in
  NewRecord \* the record a user who signs up gets

ASSUME PeopleSearchAssumption ==
  /\ Searches \subseteq SUBSET Text /\ Text \in Searches
  /\ NewRecord \in [Uid -> Record]

VARIABLE search \* for each device, its PeopleSearchVC

searchVars == <<vars, search>>

\* typed is the text in the bar; early, history: it was typed before the answer.
Search ==
  [screen         : {"closed", "open"},
   results        : SUBSET Text,
   currentResults : SUBSET Text,
   asked          : BOOLEAN,
   typed          : SUBSET Text,
   early          : BOOLEAN]

ClosedSearch ==
  [screen |-> "closed", results |-> {}, currentResults |-> {},
   asked |-> FALSE, typed |-> Text, early |-> FALSE]

-----------------------------------------------------------------------------
(* Steps                                                                   *)

OnSearch(d) ==
  up[d] /\ search[d].screen = "open" /\ page[d].screen = "closed"

\* viewDidLoad
OpenSearch(d) ==
  /\ up[d]
  /\ currentUser[d] \in Uid
  /\ search[d].screen = "closed"
  /\ search' = [search EXCEPT ![d] =
                  [ClosedSearch EXCEPT !.screen = "open", !.asked = TRUE]]
  /\ UNCHANGED vars

LeaveSearch(d) ==
  /\ OnSearch(d)
  /\ search' = [search EXCEPT ![d] = ClosedSearch]
  /\ UNCHANGED vars

Emails(d) ==
  {ProfileSeen(d, u).email : u \in {v \in Uid : ProfileSeen(d, v) # Missing}}

EmailsAreThere(d) == \A u \in UsersSeen(d) : ProfileSeen(d, u) # Missing

\* The callback of getUserEmails.
LoadResults(d) ==
  /\ up[d]
  /\ search[d].asked
  /\ EmailsAreThere(d)
  /\ search' = [search EXCEPT ![d] =
       IF UsersSeen(d) = {} THEN [@ EXCEPT !.asked = FALSE]
       ELSE [@ EXCEPT !.asked = FALSE, !.results = Emails(d),
                      !.currentResults = Emails(d)]]
  /\ UNCHANGED vars

\* A mutant: what is found is looked for among the rows on the screen.
NarrowRows(d) ==
  \E text \in Searches :
    /\ OnSearch(d)
    /\ search' = [search EXCEPT ![d] =
         [@ EXCEPT !.typed = text, !.early = search[d].asked,
                   !.currentResults = @ \cap text]]
    /\ UNCHANGED vars

\* searchBar(_:textDidChange:)
Type(d) ==
  \E text \in Searches :
    /\ OnSearch(d)
    /\ search' = [search EXCEPT ![d] =
         [@ EXCEPT !.typed = text, !.early = search[d].asked,
                   !.currentResults = search[d].results \cap text]]
    /\ UNCHANGED vars

\* tableView(_:didSelectRowAt:) and prepare(for:sender:)
Select(d) ==
  /\ OnSearch(d)
  /\ \E email \in search[d].currentResults : OpenFor(d, email)
  /\ UNCHANGED search

\* The process dies: a forced cast of nil in any of the callbacks, or a kill.
SearchDies(d) == search' = [search EXCEPT ![d] = ClosedSearch]

ResultsTrap(d) ==
  /\ up[d]
  /\ search[d].asked
  /\ ~EmailsAreThere(d)
  /\ Crash(d)
  /\ SearchDies(d)

PageAnswer(d) ==
  \/ /\ LoadInfo(d) \/ AnswerMe(d) \/ LoadMe(d)
     /\ UNCHANGED search
  \/ /\ InfoTraps(d) \/ MeTraps(d)
     /\ SearchDies(d)

PageSend(d) == Send(d) /\ UNCHANGED search

PageSteps(d) ==
  \/ /\ Reappear(d) \/ Follow(d) \/ Back(d) \/ Launch(d)
     /\ UNCHANGED search
  \/ Kill(d) /\ SearchDies(d)

\* The next write of a sign-up on another device arrives.
Arrived(u) ==
  LET r == users[u]
      new == NewRecord[u]
  IN  IF r.profile = Missing
      THEN [EmptyRecord EXCEPT !.profile = new.profile]
      ELSE IF r.friendList = Missing THEN [r EXCEPT !.friendList = new.friendList]
      ELSE [r EXCEPT !.itemList = new.itemList]

SignsUp(u) ==
  /\ users[u].profile = Missing => users[u] = EmptyRecord
  /\ Missing \in {users[u].profile, users[u].friendList, users[u].itemList}
  /\ u \notin {Account[d] : d \in Device}
  /\ users' = [users EXCEPT ![u] = Arrived(u)]
  /\ UNCHANGED <<items, pending, currentUser, up, page, search>>

-----------------------------------------------------------------------------

SearchInit ==
  /\ Init
  /\ search = [d \in Device |-> ClosedSearch]

SearchNext ==
  \/ \E d \in Device :
       \/ OpenSearch(d) \/ LeaveSearch(d) \/ Type(d) \/ Select(d)
       \/ LoadResults(d) \/ ResultsTrap(d)
       \/ PageSteps(d) \/ PageAnswer(d) \/ PageSend(d)
  \/ \E u \in Uid : SignsUp(u)

\* As in AddEntry: answers come and writes are sent while the process runs.
SearchFairness ==
  \A d \in Device :
    WF_searchVars(PageAnswer(d)) /\ WF_searchVars(PageSend(d))

SearchSpec == SearchInit /\ [][SearchNext]_searchVars /\ SearchFairness

-----------------------------------------------------------------------------
(* Properties                                                              *)

\* The rows are the emails the text in the bar is found in, of those the one
\* answer brought, unless that answer came after the text; and every row is
\* the email of somebody, so the page it opens has somebody to show.
RowsMatchSearch ==
  /\ TypeOK
  /\ search \in [Device -> Search]
  /\ \A d \in Device :
       LET s == search[d]
       IN  /\ ~s.asked /\ ~s.early => s.currentResults = s.results \cap s.typed
           /\ s.currentResults \subseteq Emails(d)

=============================================================================
