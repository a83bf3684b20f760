------------------------------ MODULE MCRouter ------------------------------
(***************************************************************************)
(* Small nodes for TLC.  Each is given by its tasks with their addresses.  *)
(***************************************************************************)
EXTENDS Router

\* The first addresses; p1 and p2 are started at the address of w2.
MCPrimary ==
  [t \in Tasks |-> CASE t = "w1" -> "a" [] t = "w2" -> "b" [] t = "w3" -> "c"
                     [] t = "p1" -> "b" [] t = "p2" -> "b" [] t = "x1" -> "d"]

\* w1 has an alias.
MCAddressSet ==
  [t \in Tasks |-> IF t = "w1" THEN {"a", "d"} ELSE {MCPrimary[t]}]

MCKind ==
  [t \in Tasks |-> IF t \in {"p1", "p2"} THEN "processor"
                   ELSE IF t = "x1" THEN "detached" ELSE "worker"]

=============================================================================
