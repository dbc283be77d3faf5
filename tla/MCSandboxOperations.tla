------------------------ MODULE MCSandboxOperations ------------------------
(***************************************************************************)
(* SandboxOperations as TLC checks it on small instances.                  *)
(***************************************************************************)
EXTENDS SandboxOperations
CONSTANTS p1, p2, b1, r1, j1
MCHome == [o \in {b1, r1, j1} |-> IF o = b1 THEN p1 ELSE p2]

=============================================================================
