---------------------------- MODULE MCEntityPool ----------------------------
(* EntityPool with a ring of 3, a pool of 5 and copies at age 2: the       *)
(* smallest pool the assumption allows, so the bound is met with equality. *)
EXTENDS EntityPool

CONSTANTS e1, e2
States == {e1, e2}
=============================================================================
