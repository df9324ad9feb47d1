----------------------------- MODULE WorldDelta -----------------------------
(***************************************************************************)
(* Worlds and the differences between them, as SV_EmitPacketEntities       *)
(* writes and CL_ParsePacketEntities reads them.  A world is a function    *)
(* from the numbers of its entities to their states; a difference lists    *)
(* the entities that are new or changed, with their state, and the numbers *)
(* of those that are gone.                                                 *)
(***************************************************************************)
NoWorld == [n \in {} |-> n]

IsWorld(w) == w = [n \in DOMAIN w |-> w[n]]

(* What is written for world w against world base. *)
Delta(base, w) ==
  [changed |-> [n \in {k \in DOMAIN w : k \in DOMAIN base => base[k] # w[k]} |-> w[n]],
   gone    |-> DOMAIN base \ DOMAIN w]

(* What is read from difference d against world base.  An entity that is   *)
(* to go need not be there.                                                *)
Apply(base, d) ==
  [n \in (DOMAIN base \ d.gone) \cup DOMAIN d.changed |->
     IF n \in DOMAIN d.changed THEN d.changed[n] ELSE base[n]]
=============================================================================
