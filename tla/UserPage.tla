------------------------------ MODULE UserPage ------------------------------
(***************************************************************************)
(* UserVC: the page of a friend, opened over the feed by the row selected. *)
(* It asks for the users node and for the items whenever it appears, as the*)
(* profile does; its button says "Following" if the list it has just read  *)
(* names the friend, which is the friend's own list.  Left, it lets the    *)
(* feed appear again.  No segue leads from the page to follow(_:), so what *)
(* the button would write is left out: the title is all there is to it.  A *)
(* callback of a page that was left changes nothing but that page; where it*)
(* would trap, the step is Kill.                                           *)
(***************************************************************************)
EXTENDS FriendFeed

VARIABLE userVC \* for each viewer, the UserVC over its feed

pageVars == <<vars, userVC>>

\* uid is friendIDFromFriendFeed; unchanged, history: nothing was written by
\* another device since the page appeared.
Page ==
  [screen    : {"closed", "open"},
   uid       : Uid \cup {NoId},
   itemList  : SUBSET (ItemId \cup {NoId}),
   items     : SUBSET ItemId,
   following : BOOLEAN,
   inOrder   : BOOLEAN,
   asked     : Seq({"info", "items"}),
   reloads   : Nat,
   rows      : Nat,
   unchanged : BOOLEAN]

ClosedPage ==
  [screen |-> "closed", uid |-> NoId, itemList |-> {}, items |-> {},
   following |-> FALSE, inOrder |-> FALSE, asked |-> <<>>, reloads |-> 0,
   rows |-> 0, unchanged |-> FALSE]

PageAsked(d, kind) == Turn(userVC[d].asked, kind, userVC[d].inOrder)

\* A mutant: the items are asked for before the list that names them.
PageRequestsOutOfOrder == <<"items", "info">>

PageRequests == <<"info", "items">>

-----------------------------------------------------------------------------
(* Steps                                                                   *)

\* FriendFeedVC's didSelectRowAt and prepare; viewDidLoad, viewWillAppear.  The
\* bound on what the feed has outstanding is that of its own requests.
Select(d) ==
  /\ up[d]
  /\ Len(feed[d].asked) + feed[d].reloads <= MaxAsked
  /\ userVC[d].screen = "closed"
  /\ userCopyVC[d].screen = "closed"
  /\ \E row \in 1 .. feed[d].rows, inOrder \in BOOLEAN :
       userVC' = [userVC EXCEPT ![d] =
                    [ClosedPage EXCEPT !.screen = "open",
                                       !.uid = feed[d].friendList[row],
                                       !.inOrder = inOrder, !.unchanged = TRUE,
                                       !.asked = PageRequests \o PageRequests]]
  /\ UNCHANGED vars

\* viewWillAppear, when the page of an item is closed
ReappearPage(d) ==
  /\ up[d]
  /\ userVC[d].screen = "open"
  /\ Len(userVC[d].asked) + userVC[d].reloads <= MaxAsked
  /\ userVC' = [userVC EXCEPT ![d] =
                  [userVC[d] EXCEPT !.asked = @ \o PageRequests,
                                    !.unchanged = TRUE]]
  /\ UNCHANGED vars

\* viewWillAppear of the feed.
BackToFeed(d) ==
  /\ userVC[d].screen = "open"
  /\ Reappear(d)
  /\ userVC' = [userVC EXCEPT ![d] = ClosedPage]

\* What the callback of getUserInfo unwraps is there.
PersonIsThere(d, u) ==
  /\ u \in UsersSeen(d)
  /\ ProfileSeen(d, u) # Missing
  /\ FriendListSeen(d, u) # Missing
  /\ ItemListSeen(d, u) # Missing

\* A mutant: the title says whether the friend follows the user.
LoadInfoForViewer(d) ==
  LET u == userVC[d].uid
  IN  \E k \in PageAsked(d, "info") :
        /\ up[d]
        /\ PersonIsThere(d, u)
        /\ userVC' = [userVC EXCEPT ![d] =
             [userVC[d] EXCEPT
                       !.itemList = Ids(ItemListSeen(d, u)),
                       !.following = @ \/ currentUser[d] \in Ids(FriendListSeen(d, u)),
                       !.asked = RemoveAt(@, k)]]
        /\ UNCHANGED vars

LoadInfo(d) ==
  LET u == userVC[d].uid
  IN  \E k \in PageAsked(d, "info") :
        /\ up[d]
        /\ PersonIsThere(d, u)
        /\ userVC' = [userVC EXCEPT ![d] =
             [userVC[d] EXCEPT
                       !.itemList = Ids(ItemListSeen(d, u)),
                       !.following = @ \/ u \in Ids(FriendListSeen(d, u)),
                       !.asked = RemoveAt(@, k)]]
        /\ UNCHANGED vars

\* The page dies with the process.
PageDies(d) == userVC' = [userVC EXCEPT ![d] = ClosedPage]

InfoTraps(d) ==
  /\ up[d]
  /\ PageAsked(d, "info") # {}
  /\ UsersSeen(d) # {}
  /\ ~PersonIsThere(d, userVC[d].uid)
  /\ Crash(d)
  /\ PageDies(d)

\* getItems
LoadPageItems(d) ==
  \E k \in PageAsked(d, "items") :
    /\ up[d]
    /\ userVC' = [userVC EXCEPT ![d] =
         IF ItemsSeen(d) = {} THEN [userVC[d] EXCEPT !.asked = RemoveAt(@, k)]
         ELSE [userVC[d] EXCEPT !.items = ItemsSeen(d) \cap userVC[d].itemList,
                                !.reloads = @ + 1, !.asked = RemoveAt(@, k)]]
    /\ UNCHANGED vars

PageReload(d) ==
  /\ up[d]
  /\ userVC[d].reloads > 0
  /\ userVC' = [userVC EXCEPT ![d] =
                  [userVC[d] EXCEPT !.reloads = @ - 1,
                                    !.rows = Cardinality(userVC[d].items)]]
  /\ UNCHANGED vars

\* A step of the feed, which the page covers and which may lose its process.
FeedSteps(d) ==
  \/ /\ userVC[d].screen = "closed"
     /\ Open(d) \/ Reappear(d) \/ OpenCopy(d) \/ LoadMe(d) \/ Follow(d)
     /\ UNCHANGED userVC
  \/ /\ LoadIDs(d) \/ LoadNoIDs(d) \/ LoadNames(d) \/ LoadItems(d)
          \/ LoadNoItems(d) \/ Reload(d) \/ Launch(d)
     /\ UNCHANGED userVC
  \/ /\ IDsTrap(d) \/ NamesTrap(d) \/ Kill(d)
     /\ PageDies(d)

\* Others add items, and the server takes what was written: that changes what
\* the page should show.
Others(d) ==
  \/ /\ d \notin Viewer
     /\ LoadEntry(d) \/ AddItem(d)
     /\ UNCHANGED userVC
  \/ /\ Send(d)
     /\ userVC' = [e \in Device |-> [userVC[e] EXCEPT !.unchanged = @ /\ e = d]]

-----------------------------------------------------------------------------

PageInit ==
  /\ Init
  /\ userVC = [d \in Device |-> ClosedPage]

PageNext ==
  \/ \E d \in Viewer :
       \/ FeedSteps(d)
       \/ Select(d) \/ ReappearPage(d) \/ BackToFeed(d)
       \/ LoadInfo(d) \/ InfoTraps(d) \/ LoadPageItems(d) \/ PageReload(d)
  \/ \E d \in Device : Others(d)

PageSpec == PageInit /\ [][PageNext]_pageVars

-----------------------------------------------------------------------------
(* Properties                                                              *)

PageTypeOK == userVC \in [Device -> Page]

PageSettled(d) ==
  /\ userVC[d].screen = "open"
  /\ userVC[d].inOrder
  /\ userVC[d].asked = <<>>
  /\ userVC[d].reloads = 0

\* The page over the feed is that of somebody the user follows, and once its
\* answers are in the button says so, although checkFollowing looks in the
\* friend's own list: sign-up puts all users on their own list, and of users who
\* are Patient none of the lists that are written over loses anybody.  Of others
\* it does: a button pressed before the page over the feed has its list leaves
\* neither the user nor the friends on it.
PersonIsFollowed ==
  \A d \in Viewer :
    userVC[d].screen = "open" =>
      /\ PageTypeOK
      /\ userVC[d].uid \in Ids(FriendListSeen(d, currentUser[d]))
      /\ PageSettled(d) => userVC[d].following

\* The page's table never asks for a cell that is not there; when its answers
\* are in, in order, and nobody has written since it appeared, its rows are the
\* items of the person.
PersonIsShown ==
  \A d \in Viewer :
    /\ userVC[d].rows <= Cardinality(userVC[d].items)
    /\ PageSettled(d) /\ userVC[d].unchanged =>
         /\ userVC[d].items = Ids(ItemListSeen(d, userVC[d].uid))
         /\ userVC[d].rows = Cardinality(userVC[d].items)

=============================================================================
