---------------------------- MODULE MCFieldCodec ----------------------------
(* FieldCodec with tables that have a field of each kind: floats, flags,   *)
(* signed and unsigned integers, and for pilots a field the server leaves  *)
(* out.  Integers reach past the bits they are sent in.                    *)
EXTENDS FieldCodec

CONSTANT Other      \* a float that has to be sent in full

F(name, bits) == [name |-> name, bits |-> bits]

Entities == <<F("time", 2), F("origin", 0), F("solid", -2)>>
Players == <<F("origin", 0), F("eFlags", 1), F("m_iVehicleNum", 2), F("weapon", -2)>>
Pilots == <<F("m_iVehicleNum", 2), F("eFlags", 1), F("origin", 0), F("weapon", -2)>>
Vehicles == <<F("origin", 0), F("weapon", -2)>>
Stats == <<F("stats4", 2)>>

Objects ==
  [entity  |-> [time : {0, 4, 5, 8}, origin : {0, NegZero, Other}, solid : {0, -1}],
   player  |-> [origin : {0, NegZero}, eFlags : {0, 1}, m_iVehicleNum : {0, 1},
                weapon : {0, -1}, stats4 : {0}],
   vehicle |-> [origin : {0, NegZero, 1}, weapon : {-1, 4}, stats4 : {0, 5}]]
=============================================================================
