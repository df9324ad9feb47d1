---------------------------- MODULE FieldCodec ----------------------------
(***************************************************************************)
(* Delta coding of entity states and player states, field by field.  The   *)
(* server codes with src/msg.cpp; the tools read and write with            *)
(* src/DemoCombiner/enhanced_msg.cpp, which also keeps, for every state it *)
(* reads, the fields that were sent though nothing changed ("forced"):     *)
(* the server compares 32 bits where a message carries fewer, so that a    *)
(* change may be invisible.  The marks travel in the merged file and make  *)
(* the splitter send these fields again.                                   *)
(*                                                                         *)
(* The run takes one entity, player or vehicle from the server through the *)
(* combiner's reader, the merged file and the splitter's writer.           *)
(*                                                                         *)
(* A state is a function from field names to values.  A float is an        *)
(* integer, NegZero or another value; what it is coded to is not looked    *)
(* into.  A message is abstracted to the fields it carries; BitBuffer      *)
(* looks at the bits.                                                      *)
(***************************************************************************)
EXTENDS Integers, Sequences

CONSTANTS
  EntityFields,     \* entityStateFields: a sequence of [name, bits]; bits is
                    \* 0 for a float and negative for a signed integer
  PlayerFields,     \* playerStateFields
  PilotFields,      \* pilotPlayerStateFields
  VehicleFields,    \* vehPlayerStateFields
  ArrayFields,      \* the elements of stats, persistant, ammo and powerups
  ServerPilot,      \* how many of PilotFields the server sends
  FloatBias,        \* FLOAT_INT_BIAS
  NegZero,          \* the float -0.0
  NoDraw,           \* eFlags of players that are not drawn (with EF_NODRAW)
  Truths,           \* kind -> the states the server gives an object
  MaxSent         \* bound: frames the object is sent in

Kinds == {"entity", "player", "vehicle"}

Size(f) == 2 ^ (IF f.bits < 0 THEN -f.bits ELSE f.bits)

MarkBits == 30    \* for 32
EntityMarkFields == [i \in DOMAIN EntityFields |->
                       [EntityFields[i] EXCEPT !.bits = MarkBits]]

FieldsIn(table) == {table[i] : i \in DOMAIN table}
AllFields == UNION {FieldsIn(table) : table \in
               {EntityFields, EntityMarkFields, PlayerFields, PilotFields,
                VehicleFields, ArrayFields}}

(* No table has two fields of a name. *)
IsTable(table) ==
  /\ table \in Seq([name : STRING, bits : Int])
  /\ \A i, j \in DOMAIN table : table[i].name = table[j].name => i = j
Apart(s, t) == \A f \in FieldsIn(s), g \in FieldsIn(t) : f.name # g.name

(* Players' fields are pilots' fields; what the server sends of a pilot,   *)
(* it sends of other players too.                                          *)
ASSUME TableAssumption ==
  /\ \A table \in {EntityFields, PlayerFields, PilotFields, VehicleFields,
                    ArrayFields} : IsTable(table)
  /\ Apart(PilotFields, ArrayFields) /\ Apart(VehicleFields, ArrayFields)
  /\ FieldsIn(PlayerFields) \subseteq FieldsIn(PilotFields)
  /\ ServerPilot \in 0 .. Len(PilotFields)
  /\ \A i \in 1 .. ServerPilot : PilotFields[i] \in FieldsIn(PlayerFields)

(* Powers of two.                                                          *)
ASSUME SizeAssumption ==
  \A f \in AllFields : f.bits # 0 => Size(f) \in Nat /\ Size(f) > 1

(* The fields of an object. *)
KindFields(k) == CASE k = "entity"  -> FieldsIn(EntityFields)
                   [] k = "player"  -> FieldsIn(PilotFields) \cup FieldsIn(ArrayFields)
                   [] k = "vehicle" -> FieldsIn(VehicleFields) \cup FieldsIn(ArrayFields)

(* Integer fields hold integers, of any size.                              *)
ASSUME TruthAssumption ==
  /\ FloatBias \in Nat \ {0} /\ NegZero \notin Int /\ MaxSent \in Nat
  /\ DOMAIN Truths = Kinds
  /\ \A k \in Kinds :
       /\ Truths[k] # {}
       /\ \A t \in Truths[k] :
            /\ \A u \in Truths[k] : DOMAIN t = DOMAIN u
            /\ \A f \in KindFields(k) :
                 f.name \in DOMAIN t /\ (f.bits # 0 => t[f.name] \in Int)

(* What tells a pilot is sent of every player, in enough bits.             *)
ASSUME PilotAssumption ==
  \A n \in {"m_iVehicleNum", "eFlags"} : \E i \in 1 .. ServerPilot :
    /\ PilotFields[i].name = n /\ PilotFields[i].bits > 0
    /\ \A t \in Truths["player"] : t[n] \in 0 .. Size(PilotFields[i]) - 1

-----------------------------------------------------------------------------
(* One field.                                                              *)

NoChange == <<"same", 0>>
Zero == <<"zero", 0>>

IsZero(v) == v \in {0, NegZero}                    \* fullFloat == 0.0f
IsSmall(v) == v = NegZero \/ v \in -FloatBias .. FloatBias - 1
Trunc(v) == IF v = NegZero THEN 0 ELSE v

(* A changed field.  Entities spend a bit on "is zero", players do not.    *)
Code(f, v, zeroBit) ==
  IF zeroBit /\ IsZero(v) THEN Zero
  ELSE IF f.bits # 0 THEN <<"raw", v % Size(f)>>
  ELSE IF IsSmall(v) THEN <<"small", Trunc(v)>>
  ELSE <<"full", v>>

(* What the bits say, and what the reader makes of it: a value that is not *)
(* zero though none of its bits are becomes the smallest of that kind.     *)
Got(f, c) == IF c[1] = "raw" /\ f.bits < 0 /\ 2 * c[2] >= Size(f)
             THEN c[2] - Size(f)
             ELSE c[2]

(* A mistake: a value is kept as its bits say. *)
KeptPlain(f, c, zeroBit) == Got(f, c)

Kept(f, c, zeroBit) == IF zeroBit /\ c = <<"raw", 0>> THEN Size(f)
                       ELSE Got(f, c)

(* Does the reader see that the field did not have to be sent?             *)
Forced(f, c, old, zeroBit) ==
  /\ Got(f, c) = old
  /\ zeroBit /\ f.bits = 0 => c = Zero

-----------------------------------------------------------------------------
(* A table of fields: sent are those up to the last that changed or is     *)
(* marked.                                                                 *)

ChangedIn(fields, from, to, marks) ==
  {i \in DOMAIN fields : \/ from[fields[i].name] # to[fields[i].name]
                         \/ fields[i].name \in marks}

Item(fields, i, from, to, marks, zeroBit) ==
  IF i \in ChangedIn(fields, from, to, marks)
  THEN Code(fields[i], to[fields[i].name], zeroBit)
  ELSE NoChange

Items(fields, from, to, marks, zeroBit) ==
  LET changed == ChangedIn(fields, from, to, marks)
  IN  [i \in {j \in DOMAIN fields : \E c \in changed : j <= c} |->
         Item(fields, i, from, to, marks, zeroBit)]

Sent(fields, items) ==
  {i \in DOMAIN fields \cap DOMAIN items : items[i] # NoChange}

(* A field that occurs in items takes the value it has there.              *)
ReadItems(fields, from, items, zeroBit) ==
  [n \in DOMAIN from |->
     IF \E i \in Sent(fields, items) : fields[i].name = n
     THEN LET i == CHOOSE i \in Sent(fields, items) : fields[i].name = n
          IN  Kept(fields[i], items[i], zeroBit)
     ELSE from[n]]

ReadMarks(fields, from, items, zeroBit) ==
  {fields[i].name : i \in {j \in Sent(fields, items) :
      Forced(fields[j], items[j], from[fields[j].name], zeroBit)}}

-----------------------------------------------------------------------------
(* Messages.                                                               *)

Nothing == [op |-> "nothing"]

(* An entity's delta; force asks for a message even when nothing changed.  *)
WriteEntity(fields, from, to, marks, force) ==
  LET items == Items(fields, from, to, marks, TRUE)
  IN  CASE items # <<>>              -> [op |-> "delta", items |-> items]
        [] items = <<>> /\ force     -> [op |-> "same"]
        [] items = <<>> /\ ~ force   -> Nothing

(* The server codes it with MSG_WriteDeltaEntity and has no marks.         *)
ServerWriteEntity(from, to, force) == WriteEntity(EntityFields, from, to, {}, force)

ReadEntity(fields, from, m) ==
  IF m.op = "delta" THEN ReadItems(fields, from, m.items, TRUE) ELSE from

EntityMarks(from, m) ==
  IF m.op = "delta" THEN ReadMarks(EntityFields, from, m.items, TRUE) ELSE {}

(* A pilot inside a vehicle has a table of its own, of which the server    *)
(* sends a prefix.                                                         *)
IsPilot(to) == to["m_iVehicleNum"] # 0 /\ to["eFlags"] \in NoDraw

(* A mistake: no table for pilots. *)
NoPilotTable(vehicle, pilot) == IF vehicle THEN VehicleFields ELSE PlayerFields

Table(vehicle, pilot) == IF vehicle THEN VehicleFields
                         ELSE IF pilot THEN PilotFields ELSE PlayerFields
ServerTable(vehicle, pilot) ==
  IF pilot /\ ~ vehicle THEN SubSeq(PilotFields, 1, ServerPilot)
  ELSE Table(vehicle, pilot)

(* The arrays carry a bit for each element.                                *)
WriteArrays(from, to, marks) ==
  [i \in DOMAIN ArrayFields |-> Item(ArrayFields, i, from, to, marks, FALSE)]

WritePlayerstate(fields, pilot, from, to, marks) ==
  [pilot  |-> pilot,
   items  |-> Items(fields, from, to, marks, FALSE),
   arrays |-> WriteArrays(from, to, marks)]

ServerWritePlayerstate(vehicle, from, to) ==
  LET pilot == ~ vehicle /\ IsPilot(to)
  IN  WritePlayerstate(ServerTable(vehicle, pilot), pilot, from, to, {})

ToolWritePlayerstate(vehicle, from, to, marks) ==
  LET pilot == ~ vehicle /\ IsPilot(to)
  IN  WritePlayerstate(Table(vehicle, pilot), pilot, from, to, marks)

ReadPlayerstate(vehicle, from, m) ==
  ReadItems(ArrayFields,
            ReadItems(Table(vehicle, m.pilot), from, m.items, FALSE),
            m.arrays, FALSE)

PlayerMarks(vehicle, from, m) ==
  ReadMarks(Table(vehicle, m.pilot), from, m.items, FALSE)
    \cup ReadMarks(ArrayFields, from, m.arrays, FALSE)

(* Marks are states themselves, 0 or 1 in each field.  Those of an entity  *)
(* are coded as integers of 32 bits, those of a player like a player; if   *)
(* there are none before and after, nothing is coded.                      *)
Flags(names, marks) == [n \in names |-> IF n \in marks THEN 1 ELSE 0]
Flagged(s) == {n \in DOMAIN s : s[n] # 0}

(* A mistake: marks are coded against none, not against the last. *)
SendFreshMarks(names, old, marks) ==
  WriteEntity(EntityMarkFields, Flags(names, {}), Flags(names, marks), {}, TRUE)

SendEntityMarks(names, old, marks) ==
  WriteEntity(EntityMarkFields, Flags(names, old), Flags(names, marks), {}, TRUE)
GetEntityMarks(names, old, m) ==
  Flagged(ReadEntity(EntityMarkFields, Flags(names, old), m))

SendPlayerMarks(vehicle, names, old, marks) ==
  ToolWritePlayerstate(vehicle, Flags(names, old), Flags(names, marks), {})
GetPlayerMarks(vehicle, names, old, m) ==
  Flagged(ReadPlayerstate(vehicle, Flags(names, old), m))

-----------------------------------------------------------------------------
(* From the server through the merged file into a split demo.              *)

VARIABLES
  kind,        \* what the object is
  history,      \* frames so far: the server's state, the state the combiner
               \* read and the one the splitter read.  The first frame is
               \* the baseline, or no state at all
  marks,       \* the combiner's marks of the last frame
  splitMarks,  \* the splitter's
  against,     \* the frame the last message was coded against
  sent,        \* the last message of the server
  again        \* the last message in the split demo
codecVars == <<kind, history, marks, splitMarks, against, sent, again>>

Names == DOMAIN history[1].truth
Last == history[Len(history)]
IsVehicle == kind = "vehicle"

(* The server sends state t against frame b.  The combiner reads it and    *)
(* writes it against its last frame; the splitter reads that.  It writes   *)
(* the state against its frame b, with the marks.                          *)
SendEntity(t, b) ==
  LET m == ServerWriteEntity(history[b].truth, t, b = 1)
      in == ReadEntity(EntityFields, history[b].in, m)
      new == EntityMarks(history[b].in, m)
      merged == WriteEntity(EntityFields, Last.in, in, {}, new # marks)
      split == ReadEntity(EntityFields, Last.split, merged)
  IN  /\ kind = "entity" /\ UNCHANGED kind
      /\ history' = Append(history, [truth |-> t, in |-> in, split |-> split])
      /\ marks' = new /\ against' = b
      /\ splitMarks' =
           IF merged = Nothing THEN splitMarks
           ELSE GetEntityMarks(Names, splitMarks,
                               SendEntityMarks(Names, marks, new))
      /\ sent' = m
      /\ again' = WriteEntity(EntityFields, history[b].split, split,
                              splitMarks', b = 1)

SendPlayer(t, b) ==
  LET m == ServerWritePlayerstate(IsVehicle, history[b].truth, t)
      in == ReadPlayerstate(IsVehicle, history[b].in, m)
      new == PlayerMarks(IsVehicle, history[b].in, m)
      merged == ToolWritePlayerstate(IsVehicle, Last.in, in, {})
      split == ReadPlayerstate(IsVehicle, Last.split, merged)
  IN  /\ kind # "entity" /\ UNCHANGED kind
      /\ history' = Append(history, [truth |-> t, in |-> in, split |-> split])
      /\ marks' = new /\ against' = b
      /\ splitMarks' = GetPlayerMarks(IsVehicle, Names, splitMarks,
                         SendPlayerMarks(IsVehicle, Names, marks, new))
      /\ sent' = m
      /\ again' = ToolWritePlayerstate(IsVehicle, history[b].split, split, splitMarks')

CodecInit == /\ kind \in Kinds
        /\ LET none == [n \in DOMAIN (CHOOSE t \in Truths[kind] : TRUE) |-> 0]
           IN  history = <<[truth |-> none, in |-> none, split |-> none]>>
        /\ marks = {} /\ splitMarks = {} /\ against = 1
        /\ sent = Nothing /\ again = Nothing

CodecNext == /\ Len(history) <= MaxSent
        /\ \E t \in Truths[kind], b \in DOMAIN history :
             SendEntity(t, b) \/ SendPlayer(t, b)

CodecSpec == CodecInit /\ [][CodecNext]_codecVars

-----------------------------------------------------------------------------
(* Properties.                                                             *)

(* What the reader keeps of a state when it reads it in full.              *)
Seen(f, v) == LET c == Code(f, v, kind = "entity")
              IN  Kept(f, c, kind = "entity")

AlwaysSent ==
  IF kind = "entity" THEN FieldsIn(EntityFields)
  ELSE FieldsIn(ServerTable(IsVehicle, kind = "player")) \cup FieldsIn(ArrayFields)

(* MSG_ReadDeltaEntityWithFloats and MSG_ReadDeltaPlayerstate keep up with *)
(* the server whatever frames it codes against, field by field: a reader's *)
(* state depends on the server's alone, not on the way it got there.       *)
InStep == \A f \in AlwaysSent : Last.in[f.name] = Seen(f, Last.truth[f.name])

(* The merged file loses nothing: the splitter has the combiner's states   *)
(* and marks.                                                              *)
SplitExact == /\ Last.split = Last.in
              /\ splitMarks = marks

(* A field of an entity has gone from one value to another, and none of    *)
(* the bits of either is sent.  A reader keeps the same for both and does  *)
(* not mark the field: it compares before it puts that value in.           *)
Unseen ==
  /\ kind = "entity"
  /\ \E f \in FieldsIn(EntityFields) :
       LET was == history[against].truth[f.name]
           is == Last.truth[f.name]
       IN  /\ was # is
           /\ Code(f, was, TRUE) = <<"raw", 0>>
           /\ Code(f, is, TRUE) = <<"raw", 0>>

(* The split demo has the server's message again, though the tools compare *)
(* other values than the server does: this is what the marks are for.  The *)
(* one exception is an entity with such a field.                           *)
ReencodeExact == again = sent \/ Unseen
=============================================================================
