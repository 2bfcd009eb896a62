------------------------------ MODULE MCLinks ------------------------------
(***************************************************************************)
(* A broadcast to two processes, and calls to the one of them that may     *)
(* crash, for module Links.                                                *)
(***************************************************************************)
EXTENDS Links

CONSTANTS p1, p2, c1, c2

Destinations ==
  [c \in Caller |-> NewWithProcesses(IF c = c1 THEN {p1, p2} ELSE {p1})]
=============================================================================
