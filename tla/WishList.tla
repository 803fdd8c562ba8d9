------------------------------ MODULE WishList ------------------------------
(***************************************************************************)
(* What the app promises its users about their lists: a wish list is a set *)
(* of items; saving an entry puts one new item on the list of one user,    *)
(* and nothing the app offers takes an item off a list or copies it to     *)
(* another one.  AddEntry implements this specification when the server's  *)
(* item lists are read as sets.                                            *)
(***************************************************************************)
CONSTANTS Uid, ItemId

VARIABLE wish \* for each user, the items on the list

WishListInit == wish \in [Uid -> SUBSET ItemId]

OnSomeList == UNION {wish[u] : u \in Uid}

Add(u, i) ==
  /\ i \notin OnSomeList
  /\ wish' = [wish EXCEPT ![u] = @ \cup {i}]

WishListNext == \E u \in Uid, i \in ItemId : Add(u, i)

WishListSpec == WishListInit /\ [][WishListNext]_wish

=============================================================================
