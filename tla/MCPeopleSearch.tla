--------------------------- MODULE MCPeopleSearch ---------------------------
(* Instances of PeopleSearch for TLC. *)
EXTENDS PeopleSearch, TLC

CONSTANTS u1, u2, u3, i1, d1, t1, t2, t3

SignedUp(u, t) ==
  [profile    |-> [username |-> t, email |-> t],
   friendList |-> <<u>>,
   itemList   |-> <<i1>>]

OwnEmail(u) == IF u = u1 THEN t1 ELSE IF u = u2 THEN t2 ELSE t3

New == [u \in Uid |-> SignedUp(u, OwnEmail(u))]

\* A record without a profile: the sign-up lost all its writes, and the user
\* pressed the button of a page before the answers.
NoProfile == [EmptyRecord EXCEPT !.friendList = <<u1>>]

\* Everybody signed up; the third one is still to come, or has the email of
\* the second, or no profile.
SomeUsers ==
  {New, [New EXCEPT ![u3] = EmptyRecord],
   [New EXCEPT ![u3] = SignedUp(u3, t2)], [New EXCEPT ![u3] = NoProfile]}

\* The empty text, a text in two emails and one in none.
SomeSearches == {Text, {t1, t2}, {}}

OneAccount  == [d \in Device |-> u1]

=============================================================================
