----------------------------- MODULE MCPosixEnv -----------------------------
(* Instances of PosixEnv: two databases and two processes.                 *)
EXTENDS PosixEnv, TLC

CONSTANTS p1, p2, x, y, a, b, c, a2

\* The process p1 may open the database x twice.
Processes == (a :> p1) @@ (a2 :> p1) @@ (b :> p1) @@ (c :> p2)
Dirs      == (a :> x) @@ (a2 :> x) @@ (b :> y) @@ (c :> x)

=============================================================================
