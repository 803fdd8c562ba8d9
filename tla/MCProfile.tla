------------------------------ MODULE MCProfile ------------------------------
(* An instance of Profile, and of the AddEntry it extends, for TLC.          *)
EXTENDS Profile, TLC

CONSTANTS u1, u2, i1, i2, d1, t1

SignedUp(u, i) ==
  [profile    |-> [username |-> t1, email |-> t1],
   friendList |-> <<u>>,
   itemList   |-> <<i>>]

\* A sign-up that was cut short after the first of its three writes.
CutShort == [EmptyRecord EXCEPT !.profile = [username |-> t1, email |-> t1]]

Nobody == [u \in Uid |-> EmptyRecord]

Complete == [u \in Uid |-> IF u = u1 THEN SignedUp(u1, i1) ELSE SignedUp(u2, i2)]

AnyUsers    == {Complete, [Complete EXCEPT ![u1] = CutShort], Nobody}

OneAccount == [d \in Device |-> u1]

=============================================================================
