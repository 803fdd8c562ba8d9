-------------------------- MODULE MCAuthentication --------------------------
(* Instances of Authentication for TLC. *)
EXTENDS Authentication

CONSTANTS u1, u2, i1, i2, d1, t1, t2

\* Careful users with the names and emails of two people, careless ones with
\* those of one.
Users ==
  {[careful |-> TRUE, texts |-> {Blank, t1, t2}, calls |-> 1],
   [careful |-> FALSE, texts |-> {Blank, t1}, calls |-> 2]}

=============================================================================
