----------------------------- MODULE MCUserPage -----------------------------
(* Instances of UserPage, with its feed, for TLC. *)
EXTENDS UserPage, TLC

CONSTANTS u1, u2, u3, i1, i2, i3, i4, d1, d2, t1

Signed(u, i) ==
  [profile    |-> [username |-> t1, email |-> t1],
   friendList |-> <<u>>,
   itemList   |-> <<i>>]

OfUser(r) ==
  [u \in Uid |-> CASE u = u1 -> r
                   [] u = u2 -> Signed(u2, i2)
                   [] u = u3 -> Signed(u3, i3)]

Complete == OfUser(Signed(u1, i1))

\* The sign-up of the viewer's user was cut after one or two of its writes.
CutShort ==
  {OfUser([Signed(u1, i1) EXCEPT !.itemList = Missing, !.friendList = l]) :
     l \in {Missing, <<u1>>}}

\* The first user of all, before and after the writes of the sign-up.
Nobody == [u \in Uid |-> EmptyRecord]
Alone  == [Nobody EXCEPT ![u1] = Signed(u1, i1)]

\* The same with the empty id a page stores when its button is pressed before
\* the person is found.
EmptyId == [Alone EXCEPT ![u1].friendList = <<NoId, u1>>]

AnyUsers == CutShort \cup {Complete, Alone, EmptyId, Nobody}

Accounts == (d1 :> u1) @@ (d2 :> u2)

=============================================================================
