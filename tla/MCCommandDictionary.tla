------------------------ MODULE MCCommandDictionary ------------------------
(* Commands of one to four tokens that move, repeat, drop, add and change  *)
(* tokens of each other, with tokens that share more than MaxPrefix; the   *)
(* one of four is too long to be a reference or to have one.               *)
EXTENDS CommandDictionary

a == <<1>>
aa == <<1, 1>>
aab == <<1, 1, 2>>
aac == <<1, 1, 3>>
SomeCommands == {<<a, aab, aac>>, <<aac, a, aab, aa>>, <<a, a, aab>>, <<aa>>,
                 <<<<>>, aac, <<>>>>}
=============================================================================
