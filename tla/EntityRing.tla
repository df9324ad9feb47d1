----------------------------- MODULE EntityRing -----------------------------
(***************************************************************************)
(* What the reader of a demo promises about entity states, and all that    *)
(* the rest of the tools rely on: entities are numbered in the order they  *)
(* were parsed, and the last RingSize of them can still be looked up and   *)
(* have the value they were parsed with.  This is the plain ring of values *)
(* (parseEntities) of the original client, before the pool of shared       *)
(* states was put behind it.                                               *)
(***************************************************************************)
EXTENDS Integers

CONSTANTS RingSize,      \* MAX_PARSE_ENTITIES
          EntityStates   \* the values an entity can have

VARIABLES num,           \* how many entities were parsed
          entities       \* the last RingSize of them, by parse index

vars == <<num, entities>>

(* The parse indices that n parsed entities leave within reach. *)
Window(n) == {t \in 0 .. n - 1 : t >= n - RingSize}

Init == /\ num = 0
        /\ entities = [t \in {} |-> 0]

(* One more entity with value e; everything still in reach keeps its value. *)
Push(e) == /\ num' = num + 1
           /\ entities' = [t \in Window(num + 1) |->
                             IF t = num THEN e ELSE entities[t]]

Next == \E e \in EntityStates : Push(e)

Spec == Init /\ [][Next]_vars
=============================================================================
