---------------------------- MODULE MCLiveReader ----------------------------
(* Three messages, the second longer than a header.                        *)
EXTENDS LiveReader, SequencesExt

ThreeMessages == <<1, 3, 1>>

TheirCells ==
  FlattenSeq([i \in DOMAIN ThreeMessages |->
                [k \in 1 .. 2 + ThreeMessages[i] |-> <<i, k>>]]) \o <<<<0, 1>>, <<0, 2>>>>
TheirStarts == <<0, 3, 8, 11>>
=============================================================================
