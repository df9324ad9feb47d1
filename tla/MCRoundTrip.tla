---------------------------- MODULE MCRoundTrip ----------------------------
(* Two demos of a server with two configstrings.  Files end with -1 -1,    *)
(* with nothing, in the middle of a message, or go on after -1 -1.         *)
EXTENDS RoundTrip

Endings4 == {<<"stop">>, <<>>, <<"torn">>, <<"stop", "torn">>}

=============================================================================
