----------------------------- MODULE MCTrimmer -----------------------------
(* Trimmer with a single entity that goes and comes back.                  *)
EXTENDS Trimmer

CONSTANT va

OneOrNone == {NoWorld, [n \in {1} |-> va]}

(* Of what the server sent only the worlds count that it can still code    *)
(* from, of the message that was read only what can be copied to the       *)
(* output, and that until it is written.  When the cut starts only matters *)
(* before it has.                                                          *)
CopiedFrom == IF msg.from > outCommandSequence THEN msg.from ELSE outCommandSequence + 1
View ==
  <<[n \in acked |-> sent[n]], serverMessageSequence, issued,
    IF loop = "write" /\ framesSaved > 0 THEN <<msg.span, msg.delta, CopiedFrom>>
                                         ELSE <<>>,
    in, serverCommandSequence, lastExecutedServerCommand,
    IF framesSaved > 0 THEN -1 ELSE startTime, endTime, framesSaved, loop, outVars>>
=============================================================================
