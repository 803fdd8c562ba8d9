------------------------------ MODULE MCDBImpl ------------------------------
(* Instances of DBImpl for TLC: what happens in one behaviour is bounded.  *)
EXTENDS DBImpl

\* Each kind of fault happens once at most.
Some(writes, keys, sync, opens, gets, faults) ==
  [writes |-> writes, keys |-> keys, sync |-> sync, opens |-> opens,
   gets |-> gets, faults |-> [f \in FaultKinds |-> IF f \in faults THEN 1 ELSE 0]]

\* Enough writes to flush during a merge; every fault of a write or a job but a
\* torn record, then a crash and a recovery; a crash after a recovery from a loss
\* of power.
MCBudgets ==
  {Some(3, {1}, {FALSE}, 1, 2, {}),
   Some(4, {1}, {FALSE}, 1, 0, {}),
   Some(3, {1}, {FALSE}, 2, 0, {"kill"}),
   Some(2, {1, 2}, BOOLEAN, 2, 0, {"sync", "power"}),
   Some(2, {1}, {TRUE}, 3, 0, {"kill", "power"})}
  \cup {Some(2, {1, 2}, {FALSE}, 2, 0, {f, "kill"}) :
          f \in {"newfile", "append", "table", "manifest"}}

\* A record that reaches the file in part, and a crash. What is appended after it
\* is lost: TLC refutes AckedAreRecoverable and SeenIsRecoverable here, and only
\* these two of the invariants.
TornBudgets == {Some(2, {1, 2}, {FALSE}, 1, 0, {"torn", "kill"})}
=============================================================================
