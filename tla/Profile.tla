------------------------------- MODULE Profile -------------------------------
(***************************************************************************)
(* ProfileVC, the screen that lists the items of the user of a device,     *)
(* together with AddEntryVC, which it opens and which returns to it.       *)
(*                                                                         *)
(* Every time the profile appears it makes two requests: the user's item   *)
(* list, and the items; the answer to the second keeps the items the list  *)
(* names and queues a reload of the table on the main queue.  Between two  *)
(* reloads the table asks for cells of the rows it counted at the last one.*)
(* Save of AddEntryVC unwinds to the profile, which appears again: the     *)
(* write and the requests that are to show it are made in one step.        *)
(*                                                                         *)
(* The order of the rows is that of a dictionary; the items are a set.     *)
(***************************************************************************)
EXTENDS AddEntry, SequencesExt

CONSTANT MaxAsked \* bound: requests and reloads outstanding when it reappears

ASSUME ProfileAssumption == MaxAsked \in Nat

VARIABLE profile \* for each device, its ProfileVC

profileVars == <<vars, profile>>

\* inOrder tells whether the answers come in the order of the requests while
\* the screen lives; rows is what the table counted at its last reload, reloads
\* the number of reloads on the main queue.
Screen ==
  [screen   : {"closed", "open"},
   IDList   : Seq(ItemId),
   ItemList : SUBSET ItemId,
   uid      : Uid \cup {NoId},
   inOrder  : BOOLEAN,
   asked    : Seq({"ids", "items"}),
   reloads  : Nat,
   rows     : Nat]

ClosedProfile ==
  [screen |-> "closed", IDList |-> <<>>, ItemList |-> {}, uid |-> NoId,
   inOrder |-> FALSE, asked |-> <<>>, reloads |-> 0, rows |-> 0]

Requests == <<"ids", "items">>

Asked(d, kind) == Turn(profile[d].asked, kind, profile[d].inOrder)

-----------------------------------------------------------------------------
(* The profile appears                                                     *)

\* viewDidLoad and the first viewWillAppear
OpenProfile(d) ==
  /\ up[d]
  /\ currentUser[d] \in Uid
  /\ profile[d].screen = "closed"
  /\ \E inOrder \in BOOLEAN :
       profile' = [profile EXCEPT ![d] =
                     [ClosedProfile EXCEPT !.screen = "open", !.uid = currentUser[d],
                                           !.inOrder = inOrder,
                                           !.asked = Requests \o Requests]]
  /\ UNCHANGED vars

\* A mutant: nothing is asked.
AppearAsBefore(d) ==
  /\ Len(profile[d].asked) + profile[d].reloads <= MaxAsked
  /\ UNCHANGED profile

\* viewWillAppear
Appear(d) ==
  /\ Len(profile[d].asked) + profile[d].reloads <= MaxAsked
  /\ profile' = [profile EXCEPT ![d].asked = @ \o Requests]

\* ... when the page of an item or another tab is left
Reappear(d) ==
  /\ up[d]
  /\ profile[d].screen = "open"
  /\ entry[d].screen = "closed"
  /\ Appear(d)
  /\ UNCHANGED vars

\* ... when AddEntryVC is left, by Save or not
SaveAndAppear(d) ==
  /\ Save(d)
  /\ Appear(d)

BackAndAppear(d) ==
  /\ Back(d)
  /\ Appear(d)

\* Add: the button that opens AddEntryVC
Add(d) ==
  /\ profile[d].screen = "open"
  /\ Open(d)
  /\ UNCHANGED profile

-----------------------------------------------------------------------------
(* Its answers                                                             *)

\* getUserItemID
LoadIDs(d) ==
  \E k \in Asked(d, "ids") :
    /\ up[d]
    /\ ItemListSeen(d, profile[d].uid) # Missing
    /\ profile' = [profile EXCEPT ![d] =
                     [profile[d] EXCEPT !.IDList = ItemListSeen(d, profile[d].uid),
                                        !.asked = RemoveAt(@, k)]]
    /\ UNCHANGED vars

LoadNoIDs(d) ==
  \E k \in Asked(d, "ids") :
    /\ up[d]
    /\ UsersSeen(d) = {}
    /\ profile' = [profile EXCEPT ![d].asked = RemoveAt(@, k)]
    /\ UNCHANGED vars

\* A mutant: the first key of the list is passed over.
LoadItemsButFirst(d) ==
  \E k \in Asked(d, "items") :
    /\ up[d]
    /\ ItemsSeen(d) # {}
    /\ profile' = [profile EXCEPT ![d] =
         [profile[d] EXCEPT !.ItemList = ItemsSeen(d) \cap {profile[d].IDList[j] :
                                                     j \in DOMAIN profile[d].IDList \ {1}},
                            !.reloads = @ + 1,
                            !.asked = RemoveAt(@, k)]]
    /\ UNCHANGED vars

\* setItems
LoadItems(d) ==
  \E k \in Asked(d, "items") :
    /\ up[d]
    /\ ItemsSeen(d) # {}
    /\ profile' = [profile EXCEPT ![d] =
         [profile[d] EXCEPT !.ItemList = ItemsSeen(d) \cap Ids(profile[d].IDList),
                            !.reloads = @ + 1,
                            !.asked = RemoveAt(@, k)]]
    /\ UNCHANGED vars

LoadNoItems(d) ==
  \E k \in Asked(d, "items") :
    /\ up[d]
    /\ ItemsSeen(d) = {}
    /\ profile' = [profile EXCEPT ![d].asked = RemoveAt(@, k)]
    /\ UNCHANGED vars

\* tableView.reloadData on the main queue
Reload(d) ==
  /\ up[d]
  /\ profile[d].reloads > 0
  /\ profile' = [profile EXCEPT ![d] =
                   [profile[d] EXCEPT !.reloads = @ - 1,
                                      !.rows = Cardinality(profile[d].ItemList)]]
  /\ UNCHANGED vars

\* The callback of getUserItemID unwraps the list of a user who has none.
IDsTrap(d) ==
  /\ up[d]
  /\ Asked(d, "ids") # {}
  /\ UsersSeen(d) # {}
  /\ ItemListSeen(d, profile[d].uid) = Missing
  /\ Crash(d)

\* The process dies, in a callback of either screen or by other hands.
Dies(d) ==
  /\ \/ IDsTrap(d)
     \/ LoadTraps(d)
     \/ \E u \in Uid : StrayTraps(d, u)
     \/ Kill(d)
  /\ profile' = [profile EXCEPT ![d] = ClosedProfile]

\* The answers AddEntryVC gets, and the steps around both screens.
EntryAnswer(d) ==
  /\ \/ LoadNothing(d)
     \/ LoadItemIds(d)
     \/ \E u \in Uid : StrayIsIdle(d, u)
  /\ UNCHANGED profile

Around(d) ==
  /\ Launch(d) \/ Send(d)
  /\ UNCHANGED profile

ProfileAnswer(d) ==
  LoadIDs(d) \/ LoadNoIDs(d) \/ LoadItems(d) \/ LoadNoItems(d)

-----------------------------------------------------------------------------

ProfileInit ==
  /\ Init
  /\ profile = [d \in Device |-> ClosedProfile]

ProfileNext ==
  \E d \in Device :
    \/ OpenProfile(d) \/ Reappear(d) \/ Add(d) \/ SaveAndAppear(d) \/ BackAndAppear(d)
    \/ ProfileAnswer(d) \/ Reload(d) \/ EntryAnswer(d)
    \/ Dies(d) \/ Around(d)

\* A running client gets its answers; nothing is assumed of the user.
ProfileFairness == \A d \in Device : WF_profileVars(ProfileAnswer(d))

ProfileSpec == ProfileInit /\ [][ProfileNext]_profileVars /\ ProfileFairness

-----------------------------------------------------------------------------
(* Properties                                                              *)

\* The types of the profile; those of the rest are AddEntry's.
ProfileTypeOK ==
  /\ TypeOK
  /\ profile \in [Device -> Screen]

\* The table never asks for a cell that is not there: the rows it counted at
\* its last reload index the items, which a later answer replaces while the
\* reload for them waits.  When its answers are in, in order, the profile of a
\* user who adds items on this device alone shows just the items on the list,
\* the saved ones included.  All of the state has its type.
Settled(d) ==
  /\ profile[d].screen = "open"
  /\ profile[d].inOrder
  /\ profile[d].asked = <<>>
  /\ profile[d].reloads = 0

ProfileIsLatest ==
  ProfileTypeOK /\ \A d \in Device :
    /\ profile[d].rows <= Cardinality(profile[d].ItemList)
    /\ Settled(d) =>
         /\ profile[d].ItemList = Ids(ItemListSeen(d, currentUser[d]))
         /\ profile[d].rows = Cardinality(profile[d].ItemList)

\* A saved item is shown in the end, unless the process dies first.
SavedIsShown ==
  \A d \in Device, i \in ItemId :
    (profile[d].inOrder /\ i \in UnsentItems(d)) ~> (i \in profile[d].ItemList \/ ~up[d])

=============================================================================
