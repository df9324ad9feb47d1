---------------------------- MODULE MCBitBuffer ----------------------------
(* BitBuffer with bytes of two bits and a code of 1 to 3 bits: a symbol's  *)
(* code ends inside its byte, at its end, in the next byte and after it.   *)
EXTENDS BitBuffer

Code == <<<<0>>, <<1, 0>>, <<1, 1, 0>>, <<1, 1, 1>>>>
SymbolCodes == [s \in 0 .. 3 |-> Code[s + 1]]

V(bits, value) == [bits |-> bits, value |-> value]

(* A flag, raw bits before symbols, a byte, a signed short, and a value    *)
(* past its width.                                                         *)
SomeValues == {V(1, 0), V(1, 1), V(3, 5), V(2, 3), V(-4, -2), V(4, 21)}
SomeTexts == {<<>>, <<2, 3>>, <<1, 1, 1>>}
=============================================================================
