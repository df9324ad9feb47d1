---------------------------- MODULE CommandRelay ----------------------------
(***************************************************************************)
(* What combining demos and splitting them again promises of the server    *)
(* commands: every client is handed the commands its demo held, in the     *)
(* order it held them, none left out, doubled or taken from another        *)
(* client, and sooner or later all of them.                                *)
(***************************************************************************)
EXTENDS Naturals, Sequences

CONSTANT Clients

VARIABLES held,   \* client -> the commands its demo held so far
          handed  \* client -> the commands handed on so far

vars == <<held, handed>>

Init == /\ held = [c \in Clients |-> <<>>]
        /\ handed = held

(* The first n(c) commands of every client c. *)
Prefixes(n) == [c \in Clients |-> SubSeq(held[c], 1, n[c])]

Counts == [Clients -> UNION {0 .. Len(held[c]) : c \in Clients}]

(* Demos are read: commands come to their ends. *)
Read == /\ \A c \in Clients :
             Len(held[c]) <= Len(held'[c])
               /\ SubSeq(held'[c], 1, Len(held[c])) = held[c]
        /\ UNCHANGED handed

Hand == /\ \E n \in Counts :
             /\ \A c \in Clients : n[c] \in Len(handed[c]) .. Len(held[c])
             /\ handed' = Prefixes(n)
        /\ UNCHANGED held

Next == Read \/ Hand

AllHanded == handed = held

Spec == Init /\ [][Next]_vars /\ []<>AllHanded
=============================================================================
