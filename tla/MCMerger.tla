------------------------------ MODULE MCMerger ------------------------------
(* Merger with two demos whose messages are numbered differently, and an   *)
(* entity that goes and comes back.                                        *)
EXTENDS Merger

CONSTANTS A, B, va

OneAfterTheOther == <<A, B>>
Numbers == [e \in {A, B} |-> IF e = A THEN 1 ELSE 4]
Gamestates == [e \in {A, B} |-> IF e = A THEN 0 ELSE 9]
Lengths == [e \in {A, B} |-> IF e = A THEN 2 ELSE 4]
OneOrTwoMaps == {<<0, 0>>, <<0, 1>>}
StringsOnly == {Cs(s) : s \in Strings}
InfosAndMaps == {TInfo(s) : s \in Strings} \cup {NewServerId}
OneOrNone == {NoWorld, [n \in {1} |-> va]}

(* Of a demo that no cut needs any more only its configstring and tinfo    *)
(* count, of a cut that is over only whether anything was written, and of  *)
(* the last of them where its commands stood.  Commands that were run      *)
(* through count until they are written, and nothing does at the end.      *)
Needed(e) == \E i \in idx .. Len(CutDemos) : CutDemos[i] = e
Wanted(e) == \/ lastExecutedServerCommand[e] <= serverCommandSequence[e]
             \/ e = d /\ loop \in {"header", "write"}
View ==
  IF loop \in {"done", "failed"} THEN <<loop>>
  ELSE
  <<[e \in {k \in Demos : Needed(k)} |->
       <<serverMessageSequence[e], in[e], serverCommandSequence[e],
         lastExecutedServerCommand[e], IF Wanted(e) THEN commands[e] ELSE <<>>,
         currentMap[e], levelStart[e]>>],
    configstring, lastTeamInfo, planVars, idx, loop, outVars, origin,
    [i \in Cuts |-> IF i < idx - 1 THEN 0 ELSE firstServerCommand[i]],
    [i \in Cuts |-> framesSaved[i] > 0]>>
=============================================================================
