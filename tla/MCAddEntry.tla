----------------------------- MODULE MCAddEntry -----------------------------
(* Instances of AddEntry for TLC: the databases the app may find.          *)
EXTENDS AddEntry, TLC

CONSTANTS u1, u2, i1, i2, d1, d2, t1

SignedUp(u, i) ==
  [profile    |-> [username |-> t1, email |-> t1],
   friendList |-> <<u>>,
   itemList   |-> <<i>>]

\* A sign-up that was cut short after the first of its three writes.
CutShort == [EmptyRecord EXCEPT !.profile = [username |-> t1, email |-> t1]]

BothSignedUp ==
  {[u \in Uid |-> IF u = u1 THEN SignedUp(u1, i1) ELSE SignedUp(u2, i2)]}

AnyUsers ==
  [Uid -> {EmptyRecord}]
    \cup {[u \in Uid |-> IF u = u1 THEN SignedUp(u1, i1) ELSE r] :
            r \in {CutShort, EmptyRecord}}
    \cup {[u \in Uid |-> IF u = u1 THEN r ELSE SignedUp(u2, i2)] :
            r \in {CutShort, SignedUp(u1, i1)}}

\* Devices of one account are alike.
Devices == Permutations(Device)

OwnAccounts == (d1 :> u1) @@ (d2 :> u2)
OneAccount  == [d \in Device |-> u1]

=============================================================================
