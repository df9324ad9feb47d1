--------------------------- MODULE MCCommandMerge ---------------------------
(* CommandMerge with a few clients: who commands can be issued to.  The    *)
(* ring is as long as the commands of a frame can be many.                 *)
EXTENDS CommandMerge

ASSUME RingAssumption == FrameFits

Anyone == SUBSET Clients \ {{}}               \* any clients at all
=============================================================================
