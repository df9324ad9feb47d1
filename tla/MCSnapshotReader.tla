-------------------------- MODULE MCSnapshotReader --------------------------
(* SnapshotReader with two entities and a handful of worlds: an entity     *)
(* appears, changes, disappears and is replaced by another one.            *)
EXTENDS SnapshotReader

CONSTANTS va, vb

Ent(n, v) == [number |-> n, value |-> v]
SmallWorlds == {{Ent(1, va)}, {Ent(1, vb), Ent(2, va)}, {Ent(2, va)},
                {Ent(1, va), Ent(2, va)}}

(* The hypotheses of the theorems about worlds hold here. *)
ASSUME HypothesesHold == FromAcked /\ MarginEnough
=============================================================================
