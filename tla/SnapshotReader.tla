--------------------------- MODULE SnapshotReader ---------------------------
(***************************************************************************)
(* Snapshot parsing of a demo reader: CL_ParseSnapshot and                 *)
(* CL_ParsePacketEntities of src/JKDemoMetadata/cl_parse.cpp over the      *)
(* entity store of EntityPool, one CL_DeltaEntity call a step.             *)
(*                                                                         *)
(* A snapshot lists the entities of the world as changes to an earlier     *)
(* snapshot, its base.  The reader keeps the last PacketBackup snapshots,  *)
(* each a range of parse indices, and may have lost messages: the server   *)
(* (external) sends every message, and the demo holds those that arrived.  *)
(*                                                                         *)
(* An entity is a number and one value.  A delta that mentions an entity   *)
(* carries its new value; an entity it does not mention is taken from the  *)
(* base.  The player state is delta coded against the same base and is     *)
(* left out.                                                               *)
(***************************************************************************)
EXTENDS Integers, FiniteSets

CONSTANTS
  PacketBackup,   \* PACKET_BACKUP (32): snapshots kept for delta coding
  RingSize,       \* MAX_PARSE_ENTITIES (2048)
  ParseMargin,    \* 128: how far a base must stay from the end of the ring
  PoolSize, RefreshAge,   \* see EntityPool
  Numbers,        \* entity numbers, natural numbers below NoNumber
  Values,         \* what is known of an entity besides its number
  Worlds,         \* sets of entities the server may send
  FromAcked,      \* TRUE: the server deltas from acknowledged messages only
  MaxMessages     \* bound: messages sent

NoNumber == 99999                        \* oldnum after the last old entity
Entities == [number : Numbers, value : Values]
RemovedEntity ==                         \* number MAX_GENTITIES - 1
  [number |-> NoNumber, value |-> CHOOSE v \in Values : TRUE]
EntityStates == Entities \cup {RemovedEntity}

ASSUME ReaderAssumption ==
  /\ PacketBackup \in Nat \ {0}
  /\ RingSize \in Nat \ {0} /\ ParseMargin \in 0 .. RingSize
  /\ PoolSize \in Nat /\ RefreshAge \in Nat \ {0} /\ RefreshAge + RingSize <= PoolSize
  /\ Numbers \subseteq 0 .. NoNumber - 1
  /\ FromAcked \in BOOLEAN /\ MaxMessages \in Nat
  /\ \A w \in Worlds : /\ w \subseteq Entities
                        /\ \A d, e \in w : d.number = e.number => d = e

VARIABLES
  \* The server and the network.
  sent,            \* message number -> world, for the last messages sent
  acked,           \* those whose snapshot was stored: the client acknowledges
                   \* no other
  serverMessageSequence,
  \* The entity store (see EntityPool).
  parseEntitiesNum, parseEntityPtr, parseEntityVersion,
  parseEntitiesFloatForced, entityPool, entityPoolSlotIdx, entityPoolSlotVer,
  entityPoolIdx, g_nextEntityVersion,
  \* The reader.
  snapshots,       \* cl.snapshots: ring slot -> snapshot
  snap,            \* cl.snap: the last valid snapshot
  newSnapshots,    \* cl.newSnapshots: was a valid snapshot stored?  Some callers
                   \* reset it, the reader never does
  parsing,         \* is a snapshot being parsed?
  newSnap,         \* the snapshot being parsed
  old,             \* the snapshot it is parsed against
  oldindex,        \* how many entities of the base were taken
  oldstate,        \* pool slot of the next entity of the base
  oldnum,          \* its number, NoNumber at the end
  items            \* the entity deltas of the message still to be read

Pool == INSTANCE EntityPool
          WITH ZeroState <- RemovedEntity,
               MaxParsed <- 2 * MaxMessages * Cardinality(Numbers)

poolVars == <<parseEntitiesNum, parseEntityPtr, parseEntityVersion,
              parseEntitiesFloatForced, entityPool, entityPoolSlotIdx,
              entityPoolSlotVer, entityPoolIdx, g_nextEntityVersion>>
serverVars == <<sent, acked, serverMessageSequence>>
storedVars == <<snapshots, snap>>
parseVars == <<newSnap, old, oldindex, oldstate, oldnum, items>>
vars == <<serverVars, poolVars, storedVars, newSnapshots, parsing, parseVars>>

Slots == 0 .. PacketBackup - 1
SlotOf(m) == m % PacketBackup

ZeroSnap == [valid |-> FALSE, messageNum |-> 0,
             parseEntitiesNum |-> 0, numEntities |-> 0]

(* The world a snapshot describes, as it can be looked up now. *)
Contents(s) == {Pool!EntityAt(s.parseEntitiesNum + i) :
                  i \in 0 .. s.numEntities - 1}

-----------------------------------------------------------------------------
(* The server. *)

NumbersOf(w) == {e.number : e \in w}

(* The reader's margin is a guess: a message may bring as many entities   *)
(* that its base has not.  What ValidExact and PoolUsed need of the       *)
(* server; the margin is 128 entities in the code.                        *)
MarginEnough ==
  \A b, w \in Worlds :
    b # {} => Cardinality(NumbersOf(w) \ NumbersOf(b)) <= ParseMargin

Window(m) == {k \in 1 .. m : k > m - PacketBackup}

(* What is written for world w against world base: changed and new       *)
(* entities with their value, and removed ones.  The message has them in *)
(* the order of their numbers.                                           *)
DeltaItems(base, w) ==
  LET items_  == {[number |-> e.number, gone |-> FALSE, value |-> e.value] :
                    e \in w \ base}
      removed == {[number |-> e.number, gone |-> TRUE, value |-> e.value] :
                    e \in {d \in base : d.number \notin NumbersOf(w)}}
  IN  items_ \cup removed

Send(w) ==
  LET m == serverMessageSequence + 1
  IN  /\ m <= MaxMessages
      /\ serverMessageSequence' = m
      /\ sent' = [k \in Window(m) |-> IF k = m THEN w ELSE sent[k]]
      /\ acked' = acked \cap Window(m)

(* A message that never reaches the demo. *)
Lose(w) == /\ ~ parsing
           /\ Send(w)
           /\ UNCHANGED <<poolVars, storedVars, newSnapshots, parsing, parseVars>>

-----------------------------------------------------------------------------
(* CL_ParseSnapshot, up to the entities. *)

(* The message to delta from when base d of message m is not valid: the   *)
(* first later one whose slot is valid or is the slot of m itself.        *)
FirstUsable(d, m) ==
  CHOOSE e \in d .. d + PacketBackup :
    /\ snapshots[SlotOf(e)].valid \/ SlotOf(e) = SlotOf(m)
    /\ \A k \in d .. e - 1 :
         ~ snapshots[SlotOf(k)].valid /\ SlotOf(k) # SlotOf(m)

(* Mistakes: how far back the base lies in the ring is not checked; the    *)
(* limit is one entity too small.                                          *)
UsableAnyAge(e) == snapshots[SlotOf(e)].valid /\ snapshots[SlotOf(e)].messageNum = e
UsableYounger(e) ==
  /\ UsableAnyAge(e)
  /\ parseEntitiesNum - snapshots[SlotOf(e)].parseEntitiesNum
       < RingSize - ParseMargin

(* Can message e be used as a base, given that it was chosen? *)
Usable(e) ==
  LET s == snapshots[SlotOf(e)]
  IN  /\ s.valid
      /\ s.messageNum = e
      /\ parseEntitiesNum - s.parseEntitiesNum <= RingSize - ParseMargin

(* The next entity of base b is its i-th, looked up in the ring as it is  *)
(* after this step.                                                       *)
Fetch(b, i) ==
  /\ oldindex' = i
  /\ oldstate' = IF i >= b.numEntities THEN Pool!NoSlot
                 ELSE parseEntityPtr'[Pool!RingSlot(b.parseEntitiesNum + i)]
  /\ oldnum' = IF i >= b.numEntities THEN NoNumber
               ELSE entityPool'[oldstate'].number

StartParse(m, valid, base) ==
  /\ newSnap' = [valid |-> valid, messageNum |-> m,
                 parseEntitiesNum |-> parseEntitiesNum, numEntities |-> 0]
  /\ old' = base
  /\ parsing' = TRUE
  /\ UNCHANGED <<poolVars, storedVars, newSnapshots>>
  /\ Fetch(base, 0)

Arrive(w) == ~ parsing /\ Send(w)

(* A snapshot that is not delta coded: deltaNum is 0. *)
ParseFull(w) ==
  /\ Arrive(w)
  /\ items' = DeltaItems({}, w)
  /\ StartParse(serverMessageSequence', TRUE, ZeroSnap)

(* A snapshot delta coded from message d. *)
ParseDelta(w, d) ==
  LET m == serverMessageSequence + 1
      e == IF snapshots[SlotOf(d)].valid THEN d ELSE FirstUsable(d, m)
  IN  /\ d \in Window(m) \ {m}
      /\ FromAcked => d \in acked
      /\ Arrive(w)
      /\ items' = DeltaItems(sent[d], w)
      /\ StartParse(m, Usable(e), snapshots[SlotOf(e)])

-----------------------------------------------------------------------------
(* CL_ParsePacketEntities: one entity of the base or of the message. *)

First == CHOOSE item \in items : \A other \in items : item.number <= other.number
NextNumber == IF items = {} THEN NoNumber ELSE First.number

Listed == newSnap' = [newSnap EXCEPT !.numEntities = @ + 1]

(* An entity of the base that the message does not mention. *)
TakeUnchanged ==
  /\ parsing
  /\ oldnum < NextNumber
  /\ Pool!Unchanged(oldstate)
  /\ Listed
  /\ Fetch(old, oldindex + 1)
  /\ UNCHANGED <<serverVars, storedVars, newSnapshots, parsing, old, items>>

(* The next entity of the message: its delta, or its removal. *)
ReadItem ==
  LET item == First
  IN  /\ items' = items \ {item}
      /\ IF item.gone
         THEN Pool!Removed(RemovedEntity) /\ UNCHANGED newSnap
         ELSE /\ Pool!Changed([number |-> item.number, value |-> item.value], FALSE)
              /\ Listed
      /\ UNCHANGED <<serverVars, storedVars, newSnapshots, parsing, old>>

(* ... from the entity of the base with the same number *)
TakeDelta ==
  /\ parsing
  /\ items # {}
  /\ oldnum = NextNumber
  /\ ReadItem
  /\ Fetch(old, oldindex + 1)

(* ... from the baseline, the base having no entity of that number *)
TakeBaseline ==
  /\ parsing
  /\ items # {}
  /\ oldnum > NextNumber
  /\ ReadItem
  /\ UNCHANGED <<oldindex, oldstate, oldnum>>

-----------------------------------------------------------------------------
(* CL_ParseSnapshot, after the entities. *)

AllRead == parsing /\ items = {} /\ oldnum = NoNumber

(* An invalid snapshot is dumped. *)
Dump ==
  /\ AllRead
  /\ ~ newSnap.valid
  /\ parsing' = FALSE
  /\ UNCHANGED <<serverVars, poolVars, storedVars, newSnapshots, parseVars>>

(* Mistakes: the slot of the last snapshot is cleared with those skipped;  *)
(* the clamp is one message short.                                         *)
SkippedAndLast(m) == snap.messageNum .. m - 1
SkippedShort(m) ==
  (IF m - snap.messageNum > PacketBackup THEN m - (PacketBackup - 2)
                                         ELSE snap.messageNum + 1) .. m - 1

(* The messages between the last snapshot and message m, as many as have  *)
(* a slot.                                                                *)
Skipped(m) ==
  LET next == snap.messageNum + 1
  IN  (IF m - next >= PacketBackup THEN m - (PacketBackup - 1) ELSE next) .. m - 1

(* A valid snapshot is stored; a dropped message must not look like       *)
(* something valid to delta from the next time around.                    *)
Store ==
  LET m == newSnap.messageNum
  IN  /\ AllRead
      /\ newSnap.valid
      /\ snap' = newSnap
      /\ snapshots' =
           [s \in Slots |->
              IF s = SlotOf(m) THEN newSnap
              ELSE IF s \in {SlotOf(k) : k \in Skipped(m)}
                   THEN [snapshots[s] EXCEPT !.valid = FALSE]
                   ELSE snapshots[s]]
      /\ newSnapshots' = TRUE
      /\ acked' = acked \cup {m}
      /\ parsing' = FALSE
      /\ UNCHANGED <<sent, serverMessageSequence, poolVars, parseVars>>

Init ==
  /\ sent = [k \in {} |-> {}]
  /\ acked = {}
  /\ serverMessageSequence = 0
  /\ Pool!Init
  /\ snapshots = [s \in Slots |-> ZeroSnap]
  /\ snap = ZeroSnap
  /\ newSnapshots = FALSE
  /\ parsing = FALSE
  /\ newSnap = ZeroSnap
  /\ old = ZeroSnap
  /\ oldindex = 0
  /\ oldstate = Pool!NoSlot
  /\ oldnum = NoNumber
  /\ items = {}

Next ==
  \/ \E w \in Worlds : Lose(w)
  \/ \E w \in Worlds : ParseFull(w)
  \/ \E w \in Worlds, d \in DOMAIN sent : ParseDelta(w, d)
  \/ TakeUnchanged
  \/ TakeDelta
  \/ TakeBaseline
  \/ Dump
  \/ Store

Spec == Init /\ [][Next]_vars

-----------------------------------------------------------------------------
Snapshots == [valid : BOOLEAN, messageNum : Nat,
              parseEntitiesNum : Nat, numEntities : Nat]

TypeOK ==
  /\ Pool!TypeOK
  /\ snapshots \in [Slots -> Snapshots]
  /\ snap \in Snapshots /\ newSnap \in Snapshots /\ old \in Snapshots
  /\ oldindex \in Nat
  /\ oldnum \in Numbers \cup {NoNumber}
  /\ oldstate \in Pool!PoolSlots \cup {Pool!NoSlot}
  /\ newSnapshots \in BOOLEAN /\ parsing \in BOOLEAN
  /\ acked \subseteq DOMAIN sent

(* A snapshot that would be accepted as a base describes the world the    *)
(* server sent: through the ring, the shared pool and any chain of deltas *)
(* ("valid delta parse" in CL_ParseSnapshot).                             *)
ValidExact ==
  \A s \in Slots :
    LET m == snapshots[s].messageNum
    IN  (Usable(m) /\ m \in DOMAIN sent)
          => Contents(snapshots[s]) = sent[m]

(* The last PacketBackup messages have a slot each, and no slot passes    *)
(* for a message that was skipped, however many were lost: the reason for *)
(* clearing valid flags in CL_ParseSnapshot.                              *)
SlotsFresh ==
  \A s \in Slots :
    snapshots[s].valid =>
      LET m == snapshots[s].messageNum
      IN  SlotOf(m) = s /\ m <= snap.messageNum
            /\ m > snap.messageNum - PacketBackup

(* If the server only deltas from what arrived, a snapshot is dropped for *)
(* no other reason than that its base is about to leave the ring.         *)
DroppedForAge ==
  parsing /\ ~ newSnap.valid =>
    newSnap.parseEntitiesNum - old.parseEntitiesNum > RingSize - ParseMargin

(* Parsing a valid snapshot uses the entity store as EntityPool does:     *)
(* every entity taken unchanged is one that is still listed, although it  *)
(* was looked up before other entities were listed.                       *)
PoolUsed == [][newSnap.valid => Pool!Operation]_poolVars
=============================================================================
