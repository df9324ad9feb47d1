------------------------ MODULE SnapshotReaderProofs ------------------------
(***************************************************************************)
(* The snapshot reader over the entity store, for any sizes of rings and   *)
(* pool, any worlds and any losses.                                        *)
(*                                                                         *)
(* Of the entity store only what EntityPoolProofs says is used: a step     *)
(* lists one entity or none and leaves those in the ring as they are.      *)
(***************************************************************************)
EXTENDS SnapshotReader, FiniteSetTheorems, TLAPS

PP == INSTANCE EntityPoolProofs
        WITH ZeroState <- RemovedEntity,
             MaxParsed <- 2 * MaxMessages * Cardinality(Numbers)

SP == INSTANCE SlotProofs

Held == PP!TypeOK /\ PP!PoolSlotHeld

Items == [number : Numbers, gone : BOOLEAN, value : Values]

(* The server and the network. *)
ServerInv ==
  /\ serverMessageSequence \in Nat
  /\ DOMAIN sent = Window(serverMessageSequence)
  /\ \A k \in DOMAIN sent : sent[k] \in Worlds
  /\ acked \subseteq DOMAIN sent

(* A snapshot's range of parse indices was parsed. *)
Parsed(s) == s \in Snapshots /\ s.parseEntitiesNum + s.numEntities <= parseEntitiesNum

(* The reader: the next entity of the base lies in a pool slot that holds  *)
(* its own allocation, whether the base is valid or not.                   *)
ReaderInv ==
  /\ snapshots \in [Slots -> Snapshots]
  /\ \A s \in Slots : Parsed(snapshots[s])
  /\ snap \in Snapshots /\ newSnap \in Snapshots /\ Parsed(old)
  /\ newSnapshots \in BOOLEAN /\ parsing \in BOOLEAN
  /\ parsing => /\ newSnap.parseEntitiesNum + newSnap.numEntities = parseEntitiesNum
                /\ newSnap.messageNum = serverMessageSequence
                /\ serverMessageSequence > 0
  /\ items \subseteq Items
  /\ oldindex \in Nat
  /\ oldnum \in Numbers \cup {NoNumber}
  /\ oldstate \in PP!PoolSlots \cup {PP!NoSlot}
  /\ oldnum # NoNumber => PP!Addressed(oldstate)

TypeInv == Held /\ ServerInv /\ ReaderInv

-----------------------------------------------------------------------------
(* The instance of EntityPool in the reader is the one the proofs are about. *)
LEMMA SamePool ==
  /\ Pool!TypeOK <=> PP!TypeOK
  /\ Pool!Init <=> PP!Init
  /\ \A p : Pool!Unchanged(p) <=> PP!Unchanged(p)
  /\ \A e, f : Pool!Changed(e, f) <=> PP!Changed(e, f)
  /\ \A e : Pool!Removed(e) <=> PP!Removed(e)
  /\ \A t : Pool!RingSlot(t) = PP!RingSlot(t)
  /\ \A t : Pool!EntityAt(t) = PP!EntityAt(t)
  /\ Pool!NoSlot = PP!NoSlot /\ Pool!PoolSlots = PP!PoolSlots
  /\ Pool!Operation <=> PP!Operation
<1> USE DEF Pool!RingSlots, PP!RingSlots, Pool!PoolSlots, PP!PoolSlots, Pool!NoSlot,
            PP!NoSlot, Pool!NoVersion, PP!NoVersion, Pool!PoolSlot, PP!PoolSlot,
            Pool!RingSlot, PP!RingSlot
<1>1. Pool!TypeOK <=> PP!TypeOK
  BY DEF Pool!TypeOK, PP!TypeOK
<1>2. Pool!Init <=> PP!Init
  BY DEF Pool!Init, PP!Init
<1>3. \A p : Pool!Unchanged(p) <=> PP!Unchanged(p)
  BY DEF Pool!Unchanged, PP!Unchanged, Pool!Share, PP!Share, Pool!Refresh, PP!Refresh,
         Pool!Stale, PP!Stale, Pool!List, PP!List, Pool!Allocate, PP!Allocate,
         Pool!poolVars, PP!poolVars
<1>4. \A e, f : Pool!Changed(e, f) <=> PP!Changed(e, f)
  BY DEF Pool!Changed, PP!Changed, Pool!List, PP!List, Pool!Allocate, PP!Allocate
<1>5. \A e : Pool!Removed(e) <=> PP!Removed(e)
  BY DEF Pool!Removed, PP!Removed
<1>6. \A t : Pool!EntityAt(t) = PP!EntityAt(t)
  BY DEF Pool!EntityAt, PP!EntityAt, Pool!SlotOf, PP!SlotOf
<1>7. Pool!Operation <=> PP!Operation
  <2>1. Pool!Live = PP!Live /\ \A t : Pool!SlotOf(t) = PP!SlotOf(t)
    BY DEF Pool!Live, PP!Live, Pool!SlotOf, PP!SlotOf
  <2> QED
    BY <1>3, <1>4, <1>5, <2>1 DEF Pool!Operation, PP!Operation
<1> QED
  BY <1>1, <1>2, <1>3, <1>4, <1>5, <1>6, <1>7

(* What the assumptions say of the constants. *)
LEMMA Constants ==
  /\ NoNumber \in Nat
  /\ \A k \in Numbers : k \in Nat /\ k < NoNumber
  /\ RemovedEntity \in EntityStates /\ Entities \subseteq EntityStates
  /\ \A e \in EntityStates : e.number \in Numbers \cup {NoNumber}
  /\ PacketBackup \in Nat \ {0} /\ RingSize \in Nat \ {0} /\ ParseMargin \in 0 .. RingSize
<1>1. NoNumber \in Nat
  BY DEF NoNumber
<1>2. Numbers \subseteq 0 .. NoNumber - 1
  BY ReaderAssumption
<1>3. \A k \in Numbers : k \in Nat /\ k < NoNumber
  BY <1>1, <1>2
<1>4. RemovedEntity \in EntityStates /\ Entities \subseteq EntityStates
  BY DEF EntityStates
<1>5. \A e \in EntityStates : e.number \in Numbers \cup {NoNumber}
  <2>1. RemovedEntity.number = NoNumber
    BY DEF RemovedEntity
  <2>2. \A e \in Entities : e.number \in Numbers
    BY DEF Entities
  <2> QED
    BY <2>1, <2>2 DEF EntityStates
<1>6. PacketBackup \in Nat \ {0} /\ RingSize \in Nat \ {0} /\ ParseMargin \in 0 .. RingSize
  BY ReaderAssumption, Zenon
<1> QED
  BY <1>1, <1>3, <1>4, <1>5, <1>6

(* There are finitely many entity numbers. *)
LEMMA NumbersFinite == IsFiniteSet(Numbers)
<1>1. Numbers \subseteq 0 .. NoNumber - 1
  BY ReaderAssumption
<1>2. NoNumber - 1 \in Int /\ 0 \in Int
  BY Constants
<1>3. IsFiniteSet(0 .. NoNumber - 1)
  BY <1>2, FS_Interval
<1> QED
  BY <1>1, <1>3, FS_Subset

(* The assumptions of the entity store hold of what the reader gives it. *)
LEMMA PoolAssumptions ==
  /\ RingSize \in Nat \ {0}
  /\ PoolSize \in Nat \ {0} /\ RefreshAge \in Nat \ {0} /\ RefreshAge + RingSize <= PoolSize
  /\ RemovedEntity \in EntityStates
  /\ 2 * MaxMessages * Cardinality(Numbers) \in Nat
<1>1. /\ RingSize \in Nat \ {0} /\ PoolSize \in Nat /\ RefreshAge \in Nat \ {0}
      /\ RefreshAge + RingSize <= PoolSize /\ MaxMessages \in Nat
  BY ReaderAssumption, Zenon
<1>2. Cardinality(Numbers) \in Nat
  BY NumbersFinite, FS_CardinalityType
<1>3. \A a, b \in Nat : 2 * a * b \in Nat
  OBVIOUS
<1> QED
  BY <1>1, <1>2, <1>3, Constants

-----------------------------------------------------------------------------
(* Looking up the next entity of the base. *)
RingFacts ==
  Held => \A t \in Nat : t < parseEntitiesNum =>
            PP!Addressed(parseEntityPtr[PP!RingSlot(t)])

(* The facts on ring numbers and slots. *)
LEMMA RingFactsNow == RingFacts
<1> SUFFICES ASSUME Held, NEW t \in Nat, t < parseEntitiesNum
             PROVE  PP!Addressed(parseEntityPtr[PP!RingSlot(t)])
  BY DEF RingFacts
<1> QED
  BY PoolAssumptions, PP!RingHasLive DEF Held

(* They hold after a step too, since they are of the constants. *)
LEMMA RingFactsNext == RingFacts'
BY RingFactsNow, PTL

(* The next entity of base b is its i-th. *)
FetchFacts(b, i) ==
  /\ oldindex' = i
  /\ oldnum' \in Numbers \cup {NoNumber}
  /\ oldstate' \in PP!PoolSlots \cup {PP!NoSlot}
  /\ oldnum' # NoNumber => PP!Addressed(oldstate)'
  /\ i >= b.numEntities => oldnum' = NoNumber
  /\ i < b.numEntities =>
       \A t \in Nat : t = b.parseEntitiesNum + i =>
         /\ oldstate' = (PP!SlotOf(t))'
         /\ oldnum' = (PP!EntityAt(t))'.number

(* The entity that is fetched from a base is one that it lists, or none is *)
(* left. *)
LEMMA FetchAt ==
  ASSUME Held', NEW b \in Snapshots, NEW i \in Nat,
         b.parseEntitiesNum + b.numEntities <= parseEntitiesNum', Fetch(b, i)
  PROVE  FetchFacts(b, i)
<1>1. b.parseEntitiesNum \in Nat /\ b.numEntities \in Nat
  BY DEF Snapshots
<1>2. CASE i >= b.numEntities
  BY <1>1, <1>2, SamePool DEF Fetch, FetchFacts
<1>3. CASE i < b.numEntities
  <2> DEFINE t == b.parseEntitiesNum + i
             p == parseEntityPtr'[PP!RingSlot(t)]
  <2>1. oldindex' = i /\ oldstate' = p /\ oldnum' = entityPool'[p].number
    BY <1>1, <1>3, SamePool DEF Fetch
  <2>2. t \in Nat /\ t < parseEntitiesNum'
    BY <1>1, <1>3 DEF Held, PP!TypeOK
  <2>3. /\ p \in PP!PoolSlots /\ p = PP!PoolSlot(entityPoolSlotIdx'[p])
        /\ entityPoolSlotIdx'[p] <= entityPoolIdx'
    BY <2>2, RingFactsNext DEF RingFacts, PP!Addressed
  <2>4. entityPool'[p] \in EntityStates
    BY <2>3 DEF Held, PP!TypeOK
  <2>5. entityPool'[p].number \in Numbers \cup {NoNumber}
    BY <2>4, Constants
  <2>6. PP!Addressed(oldstate)'
    BY <2>1, <2>3 DEF PP!Addressed
  <2>7. /\ oldstate' = (PP!SlotOf(t))'
        /\ oldnum' = (PP!EntityAt(t))'.number
    BY <2>1 DEF PP!SlotOf, PP!EntityAt
  <2> HIDE DEF p
  <2> QED
    BY <1>1, <1>3, <2>1, <2>3, <2>5, <2>6, <2>7 DEF FetchFacts
<1> QED
  BY <1>1, <1>2, <1>3

-----------------------------------------------------------------------------
(* What every step does to the entity store: whatever stays in the ring    *)
(* stays the same.                                                         *)
Grows ==
  /\ Held'
  /\ parseEntitiesNum <= parseEntitiesNum'
  /\ \A t \in Nat : t < parseEntitiesNum /\ t \in PP!Live' =>
       /\ t \in PP!Live
       /\ (PP!SlotOf(t))' = PP!SlotOf(t)
       /\ (PP!EntityAt(t))' = PP!EntityAt(t)
  /\ \A q : PP!Addressed(q) => PP!Addressed(q)'

(* Entity e is listed for the snapshot at hand, or none is. *)
Listing(e) ==
  /\ parseEntitiesNum' = parseEntitiesNum + 1
  /\ parseEntitiesNum \in PP!Live'
  /\ \A t \in Nat : t = parseEntitiesNum => (PP!EntityAt(t))' = e
  /\ newSnap' = [newSnap EXCEPT !.numEntities = @ + 1]

ListingNone == parseEntitiesNum' = parseEntitiesNum /\ newSnap' = newSnap

(* Listing an entity puts it behind the others, which stay. *)
LEMMA ListsGrows ==
  ASSUME Held, NEW e, PP!Lists(e)
  PROVE  /\ Grows
         /\ parseEntitiesNum' = parseEntitiesNum + 1
         /\ parseEntitiesNum \in PP!Live'
         /\ \A t \in Nat : t = parseEntitiesNum => (PP!EntityAt(t))' = e
<1>1. parseEntitiesNum \in Nat
  BY DEF Held, PP!TypeOK
<1>2. PICK n \in Nat : n = parseEntitiesNum
  BY <1>1
<1>3. /\ parseEntitiesNum' = n + 1 /\ n \in PP!Live'
      /\ \A t \in PP!Live' : /\ t = n => (PP!EntityAt(t))' = e
                             /\ t # n => t \in PP!Live /\ (PP!EntityAt(t))' = PP!EntityAt(t)
      /\ \A t \in PP!Live' : t # n => (PP!SlotOf(t))' = PP!SlotOf(t)
      /\ \A q : PP!Addressed(q) => PP!Addressed(q)'
      /\ Held'
  BY <1>2 DEF PP!Lists, PP!Pushes, Held
<1> QED
  BY <1>2, <1>3 DEF Grows

(* A removal lists nothing, and all stay. *)
LEMMA ListsNoneGrows ==
  ASSUME Held, PP!ListsNone
  PROVE  Grows /\ parseEntitiesNum' = parseEntitiesNum
<1>1. parseEntitiesNum \in Nat /\ PP!Live' = PP!Live
  BY DEF Held, PP!TypeOK, PP!ListsNone, PP!Live
<1> QED
  BY <1>1 DEF Grows, PP!ListsNone, Held

(* So they do if the store is left alone. *)
LEMMA SameGrows ==
  ASSUME Held, UNCHANGED poolVars
  PROVE  Grows /\ parseEntitiesNum' = parseEntitiesNum
<1> USE DEF poolVars
<1>1. parseEntitiesNum \in Nat /\ PP!Live' = PP!Live
  BY DEF Held, PP!TypeOK, PP!Live
<1>2. PP!TypeOK'
  BY DEF Held, PP!TypeOK
<1>3. PP!PoolSlotHeld'
  BY <1>1 DEF Held, PP!PoolSlotHeld, PP!SlotOf
<1>4. /\ \A t : (PP!SlotOf(t))' = PP!SlotOf(t) /\ (PP!EntityAt(t))' = PP!EntityAt(t)
      /\ \A q : PP!Addressed(q) => PP!Addressed(q)'
  BY DEF PP!SlotOf, PP!EntityAt, PP!Addressed
<1> QED
  BY <1>1, <1>2, <1>3, <1>4 DEF Grows, Held

-----------------------------------------------------------------------------
(* The next entity of the message. *)
LEMMA FirstAt ==
  ASSUME items \subseteq Items, items # {}
  PROVE  /\ First \in items /\ \A y \in items : First.number <= y.number
         /\ NextNumber = First.number /\ First.number \in Numbers
<1> DEFINE S == {y.number : y \in items}
<1>1. \A y \in items : y.number \in Numbers /\ y.number \in Nat
  BY Constants DEF Items
<1>2. S \in SUBSET Nat /\ S # {}
  BY <1>1
<1>3. PICK x \in S : \A y \in S : x <= y
  <2> HIDE DEF S
  <2> QED
    BY <1>2, Constants, SP!LeastOf
<1>4. \E z \in items : \A y \in items : z.number <= y.number
  BY <1>3
<1>5. First \in items /\ \A y \in items : First.number <= y.number
  BY <1>4 DEF First
<1> QED
  BY <1>1, <1>5 DEF NextNumber

(* The number of the next item is the smallest of those left. *)
LEMMA NextNumberIs ==
  ASSUME items \subseteq Items
  PROVE  /\ NextNumber \in Numbers \cup {NoNumber}
         /\ \A y \in items : NextNumber <= y.number
         /\ NextNumber \in Nat /\ NextNumber <= NoNumber
<1>1. CASE items = {}
  BY <1>1, Constants DEF NextNumber
<1>2. CASE items # {}
  BY <1>2, FirstAt, Constants
<1> QED
  BY <1>1, <1>2

Entity(item) == [number |-> item.number, value |-> item.value]

ReadFacts ==
  /\ First \in items /\ items' = items \ {First}
  /\ \A y \in items : First.number <= y.number
  /\ NextNumber = First.number /\ First.number \in Numbers /\ Entity(First) \in Entities
  /\ Grows
  /\ First.gone => ListingNone
  /\ ~ First.gone => Listing(Entity(First))
  /\ UNCHANGED <<serverVars, storedVars, newSnapshots, parsing, old>>

(* The next item is taken, and those left have larger numbers. *)
LEMMA ReadAt ==
  ASSUME TypeInv, items # {}, ReadItem
  PROVE  ReadFacts
<1> DEFINE x == First
<1>1. /\ x \in items /\ x \in Items /\ \A y \in items : x.number <= y.number
      /\ NextNumber = x.number /\ x.number \in Numbers
  BY FirstAt DEF TypeInv, ReaderInv
<1>2. Entity(x) \in Entities /\ Entity(x) \in EntityStates
  BY <1>1, Constants DEF Entity, Entities, Items
<1>3. /\ items' = items \ {x}
      /\ UNCHANGED <<serverVars, storedVars, newSnapshots, parsing, old>>
  BY DEF ReadItem
<1>4. CASE x.gone
  <2>1. PP!Removed(RemovedEntity) /\ newSnap' = newSnap
    BY <1>4, SamePool DEF ReadItem
  <2>2. PP!ListsNone
    BY <2>1, PoolAssumptions, PP!RemovedHeld DEF TypeInv, Held
  <2> QED
    BY <1>1, <1>2, <1>3, <1>4, <2>1, <2>2, ListsNoneGrows DEF ReadFacts, ListingNone, TypeInv
<1>5. CASE ~ x.gone
  <2>1. PP!Changed(Entity(x), FALSE) /\ newSnap' = [newSnap EXCEPT !.numEntities = @ + 1]
    BY <1>5, SamePool DEF ReadItem, Entity, Listed
  <2>2. PP!Lists(Entity(x))
    BY <1>2, <2>1, PoolAssumptions, PP!ChangedHeld DEF TypeInv, Held
  <2>3. /\ Grows /\ Listing(Entity(x))
    BY <2>1, <2>2, ListsGrows DEF TypeInv, Listing
  <2> QED
    BY <1>1, <1>2, <1>3, <1>5, <2>3 DEF ReadFacts
<1> QED
  BY <1>4, <1>5

(* An entity without an item is listed as the base has it. *)
LEMMA UnchangedAt ==
  ASSUME TypeInv, TakeUnchanged
  PROVE  /\ PP!Addressed(oldstate) /\ oldnum \in Numbers /\ oldnum < NextNumber
         /\ Grows /\ Listing(entityPool[oldstate])
         /\ PP!Unchanged(oldstate)
<1>1. /\ oldnum < NextNumber /\ PP!Unchanged(oldstate)
      /\ newSnap' = [newSnap EXCEPT !.numEntities = @ + 1]
  BY SamePool DEF TakeUnchanged, Listed
<1>2. oldnum # NoNumber /\ oldnum \in Numbers
  BY <1>1, NextNumberIs, Constants DEF TypeInv, ReaderInv
<1>3. PP!Addressed(oldstate)
  BY <1>2 DEF TypeInv, ReaderInv
<1>4. PP!Lists(entityPool[oldstate])
  BY <1>1, <1>3, PoolAssumptions, PP!UnchangedHeld DEF TypeInv, Held
<1>5. Grows /\ Listing(entityPool[oldstate])
  BY <1>1, <1>4, ListsGrows DEF TypeInv, Listing
<1> QED
  BY <1>1, <1>2, <1>3, <1>5

-----------------------------------------------------------------------------
(* Types. *)

(* A masked message number is a slot. *)
LEMMA SlotsAt == \A m \in Int : SlotOf(m) \in Slots
BY Constants, SP!SlotInRange DEF SlotOf, Slots, SP!SlotOf, SP!Slots

(* The types at the start. *)
LEMMA InitTypes == Init => TypeInv
<1> SUFFICES ASSUME Init PROVE TypeInv
  OBVIOUS
<1>1. Held /\ parseEntitiesNum = 0
  BY PoolAssumptions, SamePool, PP!InitHeld DEF Init, Held
<1>2. ServerInv
  <2>1. serverMessageSequence = 0 /\ DOMAIN sent = {} /\ acked = {}
    BY DEF Init
  <2>2. Window(0) = {}
    BY DEF Window
  <2> QED
    BY <2>1, <2>2 DEF ServerInv
<1>3. ZeroSnap \in Snapshots /\ Parsed(ZeroSnap)
  BY <1>1 DEF ZeroSnap, Snapshots, Parsed
<1>4. ReaderInv
  BY <1>1, <1>3, SamePool DEF Init, ReaderInv
<1> QED
  BY <1>1, <1>2, <1>4 DEF TypeInv

(* The server sends one more message. *)
LEMMA SendAt ==
  ASSUME ServerInv, NEW w \in Worlds, Send(w)
  PROVE  LET m == serverMessageSequence + 1
         IN  /\ ServerInv' /\ serverMessageSequence' = m
             /\ m \in DOMAIN sent' /\ sent'[m] = w
             /\ \A k \in DOMAIN sent' : k # m => k \in DOMAIN sent /\ sent'[k] = sent[k]
             /\ acked' = acked \cap Window(m) /\ DOMAIN sent' = Window(m)
<1> DEFINE m == serverMessageSequence + 1
<1>1. /\ serverMessageSequence' = m /\ m \in Nat /\ m > 0
      /\ sent' = [k \in Window(m) |-> IF k = m THEN w ELSE sent[k]]
      /\ acked' = acked \cap Window(m)
  BY DEF ServerInv, Send
<1> HIDE DEF m
<1>2. m \in Window(m) /\ \A k \in Window(m) : k # m => k \in DOMAIN sent
  <2>1. m = serverMessageSequence + 1 /\ serverMessageSequence \in Nat
    BY DEF m, ServerInv
  <2> QED
    BY <1>1, <2>1, Constants DEF ServerInv, Window
<1>3. /\ DOMAIN sent' = Window(m) /\ sent'[m] = w
      /\ \A k \in DOMAIN sent' : k # m => k \in DOMAIN sent /\ sent'[k] = sent[k]
  BY <1>1, <1>2
<1>4. ServerInv'
  <2>1. \A k \in DOMAIN sent' : sent'[k] \in Worlds
    BY <1>3 DEF ServerInv
  <2> QED
    BY <1>1, <1>3, <2>1 DEF ServerInv
<1> QED
  BY <1>1, <1>2, <1>3, <1>4 DEF m

(* A snapshot that was parsed keeps its entities while the ring grows. *)
LEMMA ParsedStays ==
  ASSUME Held, Grows, NEW s, Parsed(s)
  PROVE  s \in Snapshots /\ s.parseEntitiesNum + s.numEntities <= parseEntitiesNum'
BY DEF Parsed, Snapshots, Held, Grows, PP!TypeOK

(* A step within a snapshot. *)
LEMMA StepTypes ==
  ASSUME TypeInv, parsing, Grows, ListingNone \/ \E e : Listing(e),
         UNCHANGED <<serverVars, storedVars, newSnapshots, parsing, old>>,
         items' \subseteq items,
         \/ \E i \in Nat : Fetch(old, i)
         \/ UNCHANGED <<oldindex, oldstate, oldnum>>
  PROVE  TypeInv'
<1> USE DEF serverVars, storedVars
<1>1. Held' /\ ServerInv'
  BY DEF Grows, TypeInv, ServerInv
<1>2. \A s : Parsed(s) => s \in Snapshots /\ s.parseEntitiesNum + s.numEntities <= parseEntitiesNum'
  BY ParsedStays DEF TypeInv
<1>3. (\A s \in Slots : Parsed(snapshots[s]))' /\ Parsed(old)'
  BY <1>2 DEF TypeInv, ReaderInv, Parsed
<1>4. newSnap' \in Snapshots
      /\ newSnap'.parseEntitiesNum + newSnap'.numEntities = parseEntitiesNum'
      /\ newSnap'.messageNum = newSnap.messageNum
  <2>1. newSnap \in Snapshots /\ newSnap.parseEntitiesNum + newSnap.numEntities = parseEntitiesNum
    BY DEF TypeInv, ReaderInv
  <2>2. CASE ListingNone
    BY <2>1, <2>2 DEF ListingNone
  <2>3. CASE \E e : Listing(e)
    <3>1. /\ newSnap' = [newSnap EXCEPT !.numEntities = @ + 1]
          /\ parseEntitiesNum' = parseEntitiesNum + 1
      BY <2>3 DEF Listing
    <3> QED
      BY <2>1, <3>1 DEF Snapshots
  <2> QED
    BY <2>2, <2>3
<1>5. /\ oldindex' \in Nat /\ oldnum' \in Numbers \cup {NoNumber}
      /\ oldstate' \in PP!PoolSlots \cup {PP!NoSlot}
      /\ oldnum' # NoNumber => PP!Addressed(oldstate)'
  <2>1. CASE UNCHANGED <<oldindex, oldstate, oldnum>>
    <3>1. oldnum' # NoNumber => PP!Addressed(oldstate)
      BY <2>1 DEF TypeInv, ReaderInv
    <3>2. PICK q : q = oldstate
      OBVIOUS
    <3>3. oldnum' # NoNumber => PP!Addressed(q)'
      BY <3>1, <3>2 DEF Grows
    <3>4. oldnum' # NoNumber => PP!Addressed(oldstate)'
      BY <2>1, <3>2, <3>3 DEF PP!Addressed
    <3> QED
      BY <2>1, <3>4 DEF TypeInv, ReaderInv
  <2>2. CASE \E i \in Nat : Fetch(old, i)
    <3>1. PICK b \in Snapshots : b = old /\ b.parseEntitiesNum + b.numEntities <= parseEntitiesNum'
      BY <1>2 DEF TypeInv, ReaderInv
    <3>2. PICK i \in Nat : Fetch(b, i)
      BY <2>2, <3>1
    <3>3. FetchFacts(b, i)
      BY <1>1, <3>1, <3>2, FetchAt
    <3> QED
      BY <3>3 DEF FetchFacts
  <2> QED
    BY <2>1, <2>2
<1>6. ReaderInv'
  BY <1>3, <1>4, <1>5 DEF TypeInv, ReaderInv, Parsed
<1> QED
  BY <1>1, <1>6 DEF TypeInv

(* The difference of two worlds is a set of items. *)
LEMMA DeltaItemsAre ==
  ASSUME NEW base \in SUBSET Entities, NEW w \in SUBSET Entities
  PROVE  DeltaItems(base, w) \subseteq Items
<1>1. \A e \in Entities, f \in BOOLEAN :
        [number |-> e.number, gone |-> f, value |-> e.value] \in Items
  BY DEF Items, Entities
<1> QED
  BY <1>1 DEF DeltaItems

(* The header of a snapshot was read. *)
LEMMA StartTypes ==
  ASSUME TypeInv, NEW w \in Worlds, Arrive(w), NEW base, Parsed(base),
         NEW valid \in BOOLEAN, NEW m, m = serverMessageSequence + 1,
         StartParse(m, valid, base), items' \subseteq Items
  PROVE  /\ TypeInv' /\ Grows /\ UNCHANGED poolVars
         /\ FetchFacts(base, 0)
<1>1. /\ UNCHANGED <<poolVars, storedVars, newSnapshots>>
      /\ newSnap' = [valid |-> valid, messageNum |-> m,
                     parseEntitiesNum |-> parseEntitiesNum, numEntities |-> 0]
      /\ old' = base /\ parsing' = TRUE /\ Fetch(base, 0)
      /\ UNCHANGED <<snapshots, snap>>
  BY DEF StartParse, storedVars
<1>2. Grows /\ parseEntitiesNum' = parseEntitiesNum /\ parseEntitiesNum \in Nat
  BY <1>1, SameGrows DEF TypeInv, Held, PP!TypeOK
<1>3. /\ ServerInv' /\ serverMessageSequence' = m /\ m \in Nat /\ m > 0
  BY SendAt DEF TypeInv, Arrive, ServerInv
<1>4. FetchFacts(base, 0)
  BY <1>1, <1>2, FetchAt DEF Grows, Parsed
<1>5. newSnap' \in Snapshots
  BY <1>1, <1>2, <1>3 DEF Snapshots
<1>6. Parsed(old)' /\ (\A s \in Slots : Parsed(snapshots[s]))'
  BY <1>1, <1>2 DEF Parsed, TypeInv, ReaderInv
<1>7. ReaderInv'
  BY <1>1, <1>2, <1>3, <1>4, <1>5, <1>6 DEF ReaderInv, FetchFacts, TypeInv
<1> QED
  BY <1>1, <1>2, <1>3, <1>4, <1>7 DEF Grows, TypeInv

(* There is a message to delta from. *)
LEMMA FirstUsableAt ==
  ASSUME NEW m \in Nat, NEW d \in Nat, d <= m, d + PacketBackup >= m
  PROVE  FirstUsable(d, m) \in d .. d + PacketBackup
<1> DEFINE Ends(k) == snapshots[SlotOf(k)].valid \/ SlotOf(k) = SlotOf(m)
           S == {k \in d .. d + PacketBackup : Ends(k)}
<1>1. m \in S /\ S \in SUBSET Nat
  BY Constants
<1>2. PICK x \in S : \A y \in S : x <= y
  <2> HIDE DEF S
  <2> QED
    BY <1>1, Constants, SP!LeastOf
<1>3. \A k \in d .. x - 1 : ~ Ends(k)
  BY <1>2, Constants
<1> QED
  BY <1>2, <1>3 DEF FirstUsable

(* What a snapshot that is a delta to message d is parsed against. *)
Chosen(d, m) == IF snapshots[SlotOf(d)].valid THEN d ELSE FirstUsable(d, m)

(* The snapshot that a delta is read against was parsed. *)
LEMMA ChosenAt ==
  ASSUME TypeInv, NEW m, m = serverMessageSequence + 1, NEW d \in Window(m) \ {m}
  PROVE  /\ m \in Nat /\ d \in Nat \ {0} /\ d \in DOMAIN sent
         /\ Chosen(d, m) \in Nat /\ Parsed(snapshots[SlotOf(Chosen(d, m))])
         /\ Usable(Chosen(d, m)) \in BOOLEAN
<1>1. m \in Nat /\ d \in Nat \ {0} /\ d < m /\ d + PacketBackup > m /\ d \in DOMAIN sent
  BY Constants DEF Window, TypeInv, ServerInv
<1>2. Chosen(d, m) \in Nat
  BY <1>1, FirstUsableAt, Constants DEF Chosen
<1>3. Parsed(snapshots[SlotOf(Chosen(d, m))])
  BY <1>2, SlotsAt DEF TypeInv, ReaderInv
<1>4. Usable(Chosen(d, m)) \in BOOLEAN
  BY <1>3 DEF Usable, Parsed, Snapshots
<1> QED
  BY <1>1, <1>2, <1>3, <1>4

(* A full snapshot begins. *)
LEMMA FullTypes ==
  ASSUME TypeInv, NEW w \in Worlds, ParseFull(w)
  PROVE  TypeInv' /\ Grows /\ UNCHANGED poolVars /\ FetchFacts(ZeroSnap, 0)
<1> DEFINE m == serverMessageSequence + 1
<1>1. Arrive(w) /\ items' = DeltaItems({}, w) /\ StartParse(serverMessageSequence', TRUE, ZeroSnap)
  BY DEF ParseFull
<1>2. serverMessageSequence' = m
  BY <1>1, SendAt DEF Arrive, TypeInv
<1>3. StartParse(m, TRUE, ZeroSnap)
  BY <1>1, <1>2
<1>4. items' \subseteq Items
  BY <1>1, DeltaItemsAre, ReaderAssumption
<1>5. Parsed(ZeroSnap)
  BY DEF Parsed, ZeroSnap, Snapshots, TypeInv, Held, PP!TypeOK
<1> DEFINE t == TRUE
<1>6. t \in BOOLEAN /\ StartParse(m, t, ZeroSnap)
  BY <1>3
<1> HIDE DEF t, m
<1> QED
  BY <1>1, <1>4, <1>5, <1>6, StartTypes DEF m

(* A delta begins, at the first entity of its base. *)
LEMMA DeltaTypes ==
  ASSUME TypeInv, NEW w \in Worlds, NEW d \in DOMAIN sent, ParseDelta(w, d)
  PROVE  LET m == serverMessageSequence + 1
             e == Chosen(d, m)
         IN  /\ TypeInv' /\ Grows /\ UNCHANGED poolVars
             /\ FetchFacts(snapshots[SlotOf(e)], 0)
<1> DEFINE m == serverMessageSequence + 1
           e == Chosen(d, m)
<1>1. /\ d \in Window(m) \ {m} /\ Arrive(w) /\ items' = DeltaItems(sent[d], w)
      /\ StartParse(m, Usable(e), snapshots[SlotOf(e)])
  BY DEF ParseDelta, Chosen
<1>2. Parsed(snapshots[SlotOf(e)]) /\ Usable(e) \in BOOLEAN
  BY <1>1, ChosenAt
<1>3. items' \subseteq Items
  <2>1. sent[d] \in Worlds
    BY DEF TypeInv, ServerInv
  <2> QED
    BY <1>1, <2>1, DeltaItemsAre, ReaderAssumption
<1> HIDE DEF e
<1> QED
  BY <1>1, <1>2, <1>3, StartTypes DEF e

(* A snapshot is stored. *)
LEMMA StoreTypes ==
  ASSUME TypeInv, Store
  PROVE  TypeInv' /\ Grows
<1>1. /\ parsing /\ snap' = newSnap /\ newSnapshots' = TRUE /\ parsing' = FALSE
      /\ snapshots' = [s \in Slots |->
              IF s = SlotOf(newSnap.messageNum) THEN newSnap
              ELSE IF s \in {SlotOf(k) : k \in Skipped(newSnap.messageNum)}
                   THEN [snapshots[s] EXCEPT !.valid = FALSE]
                   ELSE snapshots[s]]
      /\ acked' = acked \cup {newSnap.messageNum}
      /\ UNCHANGED <<sent, serverMessageSequence, poolVars, newSnap, old, oldindex,
                     oldstate, oldnum, items>>
  BY DEF Store, AllRead, parseVars
<1>2. Grows /\ parseEntitiesNum' = parseEntitiesNum /\ parseEntitiesNum \in Nat
  BY <1>1, SameGrows DEF TypeInv, Held, PP!TypeOK
<1>3. newSnap.messageNum = serverMessageSequence /\ serverMessageSequence \in DOMAIN sent
  BY <1>1, Constants DEF TypeInv, ReaderInv, ServerInv, Window
<1>4. ServerInv'
  BY <1>1, <1>3 DEF TypeInv, ServerInv
<1>5. ASSUME NEW s \in Slots
      PROVE  Parsed(snapshots'[s])
  <2>1. Parsed(newSnap) /\ Parsed(snapshots[s])
    BY <1>1, <1>2 DEF TypeInv, ReaderInv, Parsed
  <2>2. Parsed([snapshots[s] EXCEPT !.valid = FALSE])
    BY <2>1 DEF Parsed, Snapshots
  <2> QED
    BY <1>1, <2>1, <2>2
<1>6. /\ snapshots' \in [Slots -> Snapshots]
      /\ (\A s \in Slots : Parsed(snapshots[s]))' /\ Parsed(old)'
  BY <1>1, <1>2, <1>5 DEF Parsed, TypeInv, ReaderInv
<1>7. oldnum' # NoNumber => PP!Addressed(oldstate)'
  BY <1>1 DEF TypeInv, ReaderInv, poolVars, PP!Addressed
<1>8. ReaderInv'
  BY <1>1, <1>6, <1>7 DEF TypeInv, ReaderInv
<1> QED
  BY <1>2, <1>4, <1>8 DEF TypeInv, Grows

(* A snapshot is dropped. *)
LEMMA DumpTypes ==
  ASSUME TypeInv, Dump
  PROVE  TypeInv' /\ Grows
<1>1. /\ parsing' = FALSE
      /\ UNCHANGED <<serverVars, poolVars, storedVars, newSnapshots, parseVars>>
  BY DEF Dump
<1>2. Grows /\ parseEntitiesNum' = parseEntitiesNum
  BY <1>1, SameGrows DEF TypeInv
<1>3. ServerInv'
  BY <1>1 DEF TypeInv, ServerInv, serverVars
<1>4. (\A s \in Slots : Parsed(snapshots[s]))' /\ Parsed(old)'
  BY <1>1, <1>2 DEF TypeInv, ReaderInv, Parsed, storedVars, parseVars
<1>5. oldnum' # NoNumber => PP!Addressed(oldstate)'
  BY <1>1 DEF TypeInv, ReaderInv, poolVars, parseVars, PP!Addressed
<1>6. ReaderInv'
  BY <1>1, <1>4, <1>5 DEF TypeInv, ReaderInv, storedVars, parseVars
<1> QED
  BY <1>2, <1>3, <1>6 DEF TypeInv, Grows

(* A message is lost. *)
LEMMA LoseTypes ==
  ASSUME TypeInv, NEW w \in Worlds, Lose(w)
  PROVE  TypeInv' /\ Grows
<1>1. /\ ~ parsing /\ Send(w)
      /\ UNCHANGED <<poolVars, storedVars, newSnapshots, parsing, parseVars>>
  BY DEF Lose
<1>2. Grows /\ parseEntitiesNum' = parseEntitiesNum
  BY <1>1, SameGrows DEF TypeInv
<1>3. ServerInv'
  BY <1>1, SendAt DEF TypeInv
<1>4. (\A s \in Slots : Parsed(snapshots[s]))' /\ Parsed(old)'
  BY <1>1, <1>2 DEF TypeInv, ReaderInv, Parsed, storedVars, parseVars
<1>5. oldnum' # NoNumber => PP!Addressed(oldstate)'
  BY <1>1 DEF TypeInv, ReaderInv, poolVars, parseVars, PP!Addressed
<1>6. ReaderInv'
  BY <1>1, <1>4, <1>5 DEF TypeInv, ReaderInv, storedVars, parseVars
<1> QED
  BY <1>2, <1>3, <1>6 DEF TypeInv, Grows

(* Every step keeps the types, and the ring only grows. *)
LEMMA TypeNext ==
  ASSUME TypeInv, [Next]_vars
  PROVE  TypeInv' /\ Grows
<1>1. CASE UNCHANGED vars
  <2>1. /\ UNCHANGED <<serverVars, poolVars, storedVars, newSnapshots, parsing, parseVars>>
    BY <1>1 DEF vars
  <2>2. Grows /\ parseEntitiesNum' = parseEntitiesNum
    BY <2>1, SameGrows DEF TypeInv
  <2>3. ServerInv'
    BY <2>1 DEF TypeInv, ServerInv, serverVars
  <2>4. (\A s \in Slots : Parsed(snapshots[s]))' /\ Parsed(old)'
    BY <2>1, <2>2 DEF TypeInv, ReaderInv, Parsed, storedVars, parseVars
  <2>5. oldnum' # NoNumber => PP!Addressed(oldstate)'
    BY <2>1 DEF TypeInv, ReaderInv, poolVars, parseVars, PP!Addressed
  <2>6. ReaderInv'
    BY <2>1, <2>2, <2>4, <2>5 DEF TypeInv, ReaderInv, storedVars, parseVars, serverVars
  <2> QED
    BY <2>2, <2>3, <2>6 DEF TypeInv, Grows
<1>2. CASE \E w \in Worlds : Lose(w)
  BY <1>2, LoseTypes
<1>3. CASE \E w \in Worlds : ParseFull(w)
  BY <1>3, FullTypes
<1>4. CASE \E w \in Worlds, d \in DOMAIN sent : ParseDelta(w, d)
  BY <1>4, DeltaTypes
<1>5. CASE TakeUnchanged
  <2>1. Grows /\ \E e : Listing(e)
    BY <1>5, UnchangedAt
  <2>2. /\ parsing /\ items' = items /\ Fetch(old, oldindex + 1)
        /\ UNCHANGED <<serverVars, storedVars, newSnapshots, parsing, old>>
    BY <1>5 DEF TakeUnchanged
  <2>3. oldindex + 1 \in Nat
    BY DEF TypeInv, ReaderInv
  <2> QED
    BY <2>1, <2>2, <2>3, StepTypes
<1>6. CASE TakeDelta \/ TakeBaseline
  <2>1. /\ parsing /\ items # {} /\ ReadItem
        /\ Fetch(old, oldindex + 1) \/ UNCHANGED <<oldindex, oldstate, oldnum>>
    BY <1>6 DEF TakeDelta, TakeBaseline
  <2>2. ReadFacts
    BY <2>1, ReadAt
  <2>3. oldindex + 1 \in Nat
    BY DEF TypeInv, ReaderInv
  <2>4. /\ Grows
        /\ ListingNone \/ \E e : Listing(e)
        /\ UNCHANGED <<serverVars, storedVars, newSnapshots, parsing, old>>
        /\ items' \subseteq items
    BY <2>2 DEF ReadFacts
  <2> QED
    BY <2>1, <2>3, <2>4, StepTypes
<1>7. CASE Dump
  BY <1>7, DumpTypes
<1>8. CASE Store
  BY <1>8, StoreTypes
<1> QED
  BY <1>1, <1>2, <1>3, <1>4, <1>5, <1>6, <1>7, <1>8 DEF Next

(* The types are an invariant. *)
LEMMA TypeAlways == Spec => []TypeInv
<1>1. Init => TypeInv
  BY InitTypes
<1>2. TypeInv /\ [Next]_vars => TypeInv'
  BY TypeNext
<1> QED
  BY <1>1, <1>2, PTL DEF Spec

(* Everything keeps its type: the ring indices and the pool slots that the *)
(* parser keeps while it parses stay within their arrays, through any      *)
(* losses and deltas to bases that are no longer there.                    *)
THEOREM TypeCorrect == Spec => []TypeOK
<1>1. TypeInv => TypeOK
  BY SamePool DEF TypeInv, Held, ServerInv, ReaderInv, TypeOK, Parsed
<1> QED
  BY <1>1, TypeAlways, PTL

-----------------------------------------------------------------------------
(* The slots: what passes for valid is among the last messages and where   *)
(* it belongs, and what the client acknowledged is there.                  *)
SlotInv ==
  /\ snap.messageNum <= serverMessageSequence
  /\ parsing => snap.messageNum < serverMessageSequence
  /\ SlotsFresh
  /\ \A s \in Slots : snapshots[s].messageNum = 0 \/ SlotOf(snapshots[s].messageNum) = s
  /\ \A d \in acked : snapshots[SlotOf(d)].valid /\ snapshots[SlotOf(d)].messageNum = d

(* Of PacketBackup messages in a row each has its own slot. *)
LEMMA SlotsOnce ==
  ASSUME NEW j \in Int, NEW k \in Int, SlotOf(j) = SlotOf(k),
         j - k < PacketBackup, k - j < PacketBackup
  PROVE  j = k
BY Constants, SP!SlotOnce DEF SlotOf, SP!SlotOf

(* The messages that are taken out of the slots are those that were *)
(* skipped. *)
LEMMA SkippedIs ==
  ASSUME NEW m \in Nat, NEW k \in Int, snap.messageNum \in Nat
  PROVE  k \in Skipped(m) <=>
           k > snap.messageNum /\ k < m /\ k >= m - (PacketBackup - 1)
BY Constants DEF Skipped

(* A snapshot that was stored keeps its slot, or it is too old. *)
LEMMA SlotCleared ==
  ASSUME NEW m \in Nat, snap.messageNum \in Nat, snap.messageNum < m,
         NEW k \in Nat, k > snap.messageNum - PacketBackup, k <= snap.messageNum,
         SlotOf(k) # SlotOf(m), SlotOf(k) \notin {SlotOf(j) : j \in Skipped(m)}
  PROVE  k > m - PacketBackup
<1> SUFFICES ASSUME k <= m - PacketBackup PROVE FALSE
  BY Constants
<1>1. PICK j \in m - (PacketBackup - 1) .. m : SlotOf(j) = SlotOf(k)
  <2>1. SlotOf(k) \in SP!Slots
    BY SlotsAt DEF Slots, SP!Slots
  <2>2. \E j \in m - (PacketBackup - 1) .. m : SP!SlotOf(j) = SlotOf(k)
    BY <2>1, Constants, SP!SlotTaken
  <2> QED
    BY <2>2 DEF SlotOf, SP!SlotOf
<1>2. j # m /\ j \in Int /\ j < m /\ j >= m - (PacketBackup - 1)
  BY <1>1, Constants
<1>3. j > snap.messageNum
  <2> SUFFICES ASSUME j <= snap.messageNum PROVE FALSE
    BY <1>2
  <2>1. j = k
    BY <1>1, <1>2, SlotsOnce, Constants
  <2> QED
    BY <1>2, <2>1, Constants
<1>4. j \in Skipped(m)
  BY <1>2, <1>3, SkippedIs
<1> QED
  BY <1>1, <1>4

(* What Store does to the slots. *)
StoreFacts ==
  /\ \A s \in Slots :
       snapshots'[s] =
         IF s = SlotOf(newSnap.messageNum) THEN newSnap
         ELSE IF s \in {SlotOf(k) : k \in Skipped(newSnap.messageNum)}
              THEN [snapshots[s] EXCEPT !.valid = FALSE]
              ELSE snapshots[s]
  /\ snap' = newSnap /\ newSnap.valid /\ parsing' = FALSE
  /\ acked' = acked \cup {newSnap.messageNum}
  /\ UNCHANGED <<sent, serverMessageSequence, poolVars, parseVars>>

(* What Store is given, and what it does to the slots. *)
LEMMA StoreAt ==
  ASSUME TypeInv, SlotInv, Store
  PROVE  /\ StoreFacts /\ parsing /\ items = {} /\ oldnum = NoNumber
         /\ newSnap.messageNum = serverMessageSequence
         /\ newSnap.messageNum \in Nat /\ newSnap.messageNum \in DOMAIN sent
         /\ SlotOf(newSnap.messageNum) \in Slots
         /\ snap.messageNum \in Nat /\ snap.messageNum < newSnap.messageNum
<1>1. /\ parsing /\ items = {} /\ oldnum = NoNumber /\ StoreFacts
  BY Zenon DEF Store, AllRead, StoreFacts
<1>2. newSnap.messageNum = serverMessageSequence /\ serverMessageSequence \in DOMAIN sent
  BY <1>1, Constants DEF TypeInv, ReaderInv, ServerInv, Window
<1>3. newSnap.messageNum \in Nat /\ SlotOf(newSnap.messageNum) \in Slots
  BY <1>2, SlotsAt DEF TypeInv, ServerInv
<1>4. snap.messageNum \in Nat /\ snap.messageNum < newSnap.messageNum
  BY <1>1, <1>2 DEF SlotInv, TypeInv, ReaderInv, Snapshots
<1> QED
  BY <1>1, <1>2, <1>3, <1>4

(* A stored snapshot is in the slot of its message, and no slot has a *)
(* message that was skipped. *)
LEMMA StoreSlots ==
  ASSUME TypeInv, SlotInv, Store
  PROVE  SlotInv'
<1> DEFINE m == newSnap.messageNum
           cleared == {SlotOf(k) : k \in Skipped(m)}
<1>1. /\ StoreFacts /\ parsing
      /\ m = serverMessageSequence /\ m \in Nat /\ m \in DOMAIN sent
      /\ SlotOf(m) \in Slots /\ snap.messageNum \in Nat /\ snap.messageNum < m
  BY StoreAt
<1>2. /\ snap'.messageNum = m /\ snap'.messageNum <= serverMessageSequence' /\ ~ parsing'
      /\ acked' = acked \cup {m}
      /\ \A s \in Slots : snapshots'[s] =
           IF s = SlotOf(m) THEN newSnap
           ELSE IF s \in cleared THEN [snapshots[s] EXCEPT !.valid = FALSE]
           ELSE snapshots[s]
  BY <1>1 DEF StoreFacts
<1>3. \A s \in Slots : snapshots[s] \in Snapshots
  BY DEF TypeInv, ReaderInv
<1> HIDE DEF m, cleared
<1>4. ASSUME NEW s \in Slots, snapshots'[s].valid
      PROVE  LET k == snapshots'[s].messageNum
             IN  SlotOf(k) = s /\ k <= m /\ k > m - PacketBackup
  <2>1. CASE s = SlotOf(m)
    <3>1. snapshots'[s].messageNum = m
      BY <1>2, <2>1 DEF m
    <3> QED
      BY <1>1, <2>1, <3>1, Constants
  <2>2. CASE s # SlotOf(m)
    <3>1. s \notin cleared /\ snapshots'[s] = snapshots[s]
      BY <1>2, <1>3, <1>4, <2>2 DEF Snapshots
    <3>2. PICK k \in Nat : k = snapshots[s].messageNum
      BY <1>3 DEF Snapshots
    <3>3. SlotOf(k) = s /\ k <= snap.messageNum /\ k > snap.messageNum - PacketBackup
      BY <1>4, <3>1, <3>2 DEF SlotInv, SlotsFresh
    <3>4. k > m - PacketBackup
      BY <1>1, <2>2, <3>1, <3>3, SlotCleared DEF cleared
    <3> QED
      BY <1>1, <3>1, <3>2, <3>3, <3>4
  <2> QED
    BY <2>1, <2>2
<1>5. SlotsFresh'
  BY <1>2, <1>4 DEF SlotsFresh
<1>6. ASSUME NEW s \in Slots
      PROVE  snapshots'[s].messageNum = 0 \/ SlotOf(snapshots'[s].messageNum) = s
  <2>1. s # SlotOf(m) => snapshots'[s].messageNum = snapshots[s].messageNum
    BY <1>2, <1>3 DEF Snapshots
  <2> QED
    BY <1>2, <2>1 DEF SlotInv, m
<1>7. ASSUME NEW d \in acked'
      PROVE  snapshots'[SlotOf(d)].valid /\ snapshots'[SlotOf(d)].messageNum = d
  <2>1. CASE d = m
    BY <1>1, <1>2, <2>1 DEF StoreFacts, m
  <2>2. CASE d # m
    <3>1. d \in acked /\ d \in Nat /\ d < m /\ d > m - PacketBackup
      <4>1. d \in acked /\ d \in Window(m)
        BY <1>1, <1>2, <2>2 DEF TypeInv, ServerInv
      <4> QED
        BY <1>1, <2>2, <4>1, Constants DEF Window
    <3>2. SlotOf(d) \in Slots /\ SlotOf(d) # SlotOf(m)
      BY <1>1, <3>1, SlotsAt, SlotsOnce, Constants
    <3>3. /\ snapshots[SlotOf(d)].valid /\ snapshots[SlotOf(d)].messageNum = d
          /\ d <= snap.messageNum
      BY <3>1, <3>2 DEF SlotInv, SlotsFresh
    <3>4. ASSUME NEW j \in Skipped(m) PROVE SlotOf(j) # SlotOf(d)
      <4>1. j \in Int /\ j > snap.messageNum /\ j < m
        BY <1>1, SkippedIs DEF Skipped
      <4> QED
        BY <1>1, <3>1, <3>3, <4>1, SlotsOnce, Constants
    <3> QED
      BY <1>2, <3>2, <3>3, <3>4 DEF cleared
  <2> QED
    BY <2>1, <2>2
<1> QED
  BY <1>2, <1>5, <1>6, <1>7 DEF SlotInv

(* The slots at the start. *)
LEMMA InitSlots == Init => SlotInv
<1> SUFFICES ASSUME Init PROVE SlotInv
  OBVIOUS
<1>1. /\ \A s \in Slots : snapshots[s] = ZeroSnap
      /\ snap = ZeroSnap /\ serverMessageSequence = 0 /\ ~ parsing /\ acked = {}
  BY DEF Init
<1> QED
  BY <1>1 DEF SlotInv, SlotsFresh, ZeroSnap

(* A step that stores nothing. *)
LEMMA KeepSlots ==
  ASSUME TypeInv, SlotInv, UNCHANGED <<snapshots, snap>>, acked' \subseteq acked,
         \/ serverMessageSequence' = serverMessageSequence + 1
         \/ serverMessageSequence' = serverMessageSequence /\ (parsing' => parsing)
  PROVE  SlotInv'
<1>1. serverMessageSequence \in Nat /\ snap.messageNum \in Nat
  BY DEF TypeInv, ServerInv, ReaderInv, Snapshots
<1>2. SlotsFresh'
  BY DEF SlotInv, SlotsFresh
<1> QED
  BY <1>1, <1>2 DEF SlotInv

(* Every step keeps the slots. *)
LEMMA SlotsNext ==
  ASSUME TypeInv, SlotInv, [Next]_vars
  PROVE  SlotInv'
<1>1. CASE UNCHANGED vars
  BY <1>1, KeepSlots DEF vars, serverVars, storedVars
<1>2. ASSUME NEW w \in Worlds, Send(w), UNCHANGED storedVars
      PROVE  SlotInv'
  <2>1. /\ serverMessageSequence' = serverMessageSequence + 1 /\ acked' \subseteq acked
    BY <1>2 DEF Send
  <2> QED
    BY <1>2, <2>1, KeepSlots DEF storedVars
<1>3. CASE \E w \in Worlds : Lose(w)
  BY <1>2, <1>3 DEF Lose
<1>4. CASE \E w \in Worlds : ParseFull(w)
  BY <1>2, <1>4 DEF ParseFull, Arrive, StartParse
<1>5. CASE \E w \in Worlds, d \in DOMAIN sent : ParseDelta(w, d)
  BY <1>2, <1>5 DEF ParseDelta, Arrive, StartParse
<1>6. CASE TakeUnchanged
  BY <1>6, KeepSlots DEF TakeUnchanged, serverVars, storedVars
<1>7. CASE TakeDelta \/ TakeBaseline
  BY <1>7, KeepSlots DEF TakeDelta, TakeBaseline, ReadItem, serverVars, storedVars
<1>8. CASE Dump
  BY <1>8, KeepSlots DEF Dump, serverVars, storedVars
<1>9. CASE Store
  BY <1>9, StoreSlots
<1> QED
  BY <1>1, <1>3, <1>4, <1>5, <1>6, <1>7, <1>8, <1>9 DEF Next

(* They are an invariant. *)
LEMMA SlotsAlways == Spec => [](TypeInv /\ SlotInv)
<1>1. Init => TypeInv /\ SlotInv
  BY InitTypes, InitSlots
<1>2. TypeInv /\ SlotInv /\ [Next]_vars => (TypeInv /\ SlotInv)'
  BY TypeNext, SlotsNext
<1> QED
  BY <1>1, <1>2, PTL DEF Spec

(* No slot passes for a message that was skipped: after any losses a valid *)
(* slot holds one of the last PacketBackup messages, where it belongs.     *)
THEOREM FreshSlots == Spec => []SlotsFresh
<1>1. TypeInv /\ SlotInv => SlotsFresh
  BY DEF SlotInv
<1> QED
  BY <1>1, SlotsAlways, PTL

-----------------------------------------------------------------------------
(* The server deltas from acknowledged messages only. *)

(* Then the base is the one the server took, and it was stored.           *)
DeltaFacts(w, d) ==
  LET m == serverMessageSequence + 1
  IN  /\ d \in Nat \ {0} /\ d < m /\ d \in DOMAIN sent /\ d \in Window(m) /\ SlotOf(d) \in Slots
      /\ snapshots[SlotOf(d)].valid /\ snapshots[SlotOf(d)].messageNum = d
      /\ old' = snapshots[SlotOf(d)]
      /\ newSnap'.valid <=> parseEntitiesNum - old'.parseEntitiesNum <= RingSize - ParseMargin
      /\ newSnap'.messageNum = m /\ newSnap'.parseEntitiesNum = parseEntitiesNum
      /\ newSnap'.numEntities = 0
      /\ items' = DeltaItems(sent[d], w)
      /\ ~ parsing /\ parsing' /\ Send(w)
      /\ UNCHANGED <<poolVars, storedVars>>

(* If the server takes acknowledged messages as bases, the base of a delta *)
(* is in its slot. *)
LEMMA DeltaAt ==
  ASSUME TypeInv, SlotInv, FromAcked, NEW w \in Worlds, NEW d \in DOMAIN sent, ParseDelta(w, d)
  PROVE  DeltaFacts(w, d)
<1> DEFINE m == serverMessageSequence + 1
           e == Chosen(d, m)
<1>1. /\ d \in Window(m) \ {m} /\ d \in acked /\ ~ parsing /\ Send(w)
      /\ items' = DeltaItems(sent[d], w)
      /\ StartParse(m, Usable(e), snapshots[SlotOf(e)])
  BY DEF ParseDelta, Arrive, Chosen
<1>2. d \in Nat \ {0} /\ d < m /\ SlotOf(d) \in Slots
  BY <1>1, Constants, SlotsAt DEF Window, TypeInv, ServerInv
<1>3. snapshots[SlotOf(d)].valid /\ snapshots[SlotOf(d)].messageNum = d
  BY <1>1 DEF SlotInv
<1>4. e = d
  BY <1>3 DEF Chosen
<1>5. /\ newSnap' = [valid |-> Usable(d), messageNum |-> m,
                     parseEntitiesNum |-> parseEntitiesNum, numEntities |-> 0]
      /\ old' = snapshots[SlotOf(d)] /\ parsing'
      /\ UNCHANGED <<poolVars, storedVars>>
  <2> HIDE DEF e
  <2> QED
    BY <1>1, <1>4 DEF StartParse
<1>6. Usable(d) <=>
        parseEntitiesNum - snapshots[SlotOf(d)].parseEntitiesNum <= RingSize - ParseMargin
  BY <1>3 DEF Usable
<1> HIDE DEF m, e
<1>7. /\ newSnap'.valid = Usable(d) /\ newSnap'.messageNum = m
      /\ newSnap'.parseEntitiesNum = parseEntitiesNum /\ newSnap'.numEntities = 0
  BY <1>5
<1> QED
  BY <1>1, <1>2, <1>3, <1>5, <1>6, <1>7 DEF DeltaFacts, m

(* A snapshot stays what it is while its entities are read. *)
SameSnapshot ==
  /\ newSnap'.valid = newSnap.valid /\ newSnap'.messageNum = newSnap.messageNum
  /\ newSnap'.parseEntitiesNum = newSnap.parseEntitiesNum
  /\ old' = old /\ parsing /\ parsing'
  /\ UNCHANGED <<serverVars, storedVars>>

(* Listing entities changes the snapshot that is parsed in its number of *)
(* entities only. *)
LEMMA StepSnapshot ==
  ASSUME TypeInv, TakeUnchanged \/ TakeDelta \/ TakeBaseline
  PROVE  SameSnapshot
<1>1. newSnap \in Snapshots
  BY DEF TypeInv, ReaderInv
<1>2. /\ parsing /\ UNCHANGED <<serverVars, storedVars, parsing, old>>
      /\ newSnap' = newSnap \/ newSnap' = [newSnap EXCEPT !.numEntities = @ + 1]
  BY DEF TakeUnchanged, TakeDelta, TakeBaseline, ReadItem, Listed
<1> QED
  BY <1>1, <1>2 DEF SameSnapshot, Snapshots

(* Nothing but the age of its base makes a snapshot be dropped. *)
THEOREM OnlyAgeDrops ==
  ASSUME FromAcked
  PROVE  Spec => []DroppedForAge
<1>1. Init => DroppedForAge
  BY DEF Init, DroppedForAge
<1>2. ASSUME TypeInv, SlotInv, DroppedForAge, [Next]_vars
      PROVE  DroppedForAge'
  <2>1. CASE UNCHANGED vars
    BY <1>2, <2>1 DEF vars, parseVars, DroppedForAge
  <2>2. CASE \E w \in Worlds : Lose(w)
    BY <2>2 DEF Lose, DroppedForAge
  <2>3. CASE \E w \in Worlds : ParseFull(w)
    <3>1. newSnap'.valid
      BY <2>3 DEF ParseFull, StartParse
    <3> QED
      BY <3>1 DEF DroppedForAge
  <2>4. CASE \E w \in Worlds, d \in DOMAIN sent : ParseDelta(w, d)
    <3>1. PICK w \in Worlds, d \in DOMAIN sent : DeltaFacts(w, d)
      BY <1>2, <2>4, DeltaAt
    <3>2. snapshots[SlotOf(d)] \in Snapshots /\ parseEntitiesNum \in Nat
      BY <1>2, <3>1 DEF DeltaFacts, TypeInv, ReaderInv, Held, PP!TypeOK
    <3> QED
      BY <3>1, <3>2, Constants DEF DeltaFacts, DroppedForAge, Snapshots
  <2>5. CASE TakeUnchanged \/ TakeDelta \/ TakeBaseline
    BY <1>2, <2>5, StepSnapshot DEF SameSnapshot, DroppedForAge
  <2>6. CASE Dump \/ Store
    BY <2>6 DEF Dump, Store, DroppedForAge
  <2> QED
    BY <1>2, <2>1, <2>2, <2>3, <2>4, <2>5, <2>6 DEF Next
<1>3. TypeInv /\ SlotInv /\ DroppedForAge /\ [Next]_vars => DroppedForAge'
  BY <1>2
<1> QED
  BY <1>1, <1>3, SlotsAlways, PTL DEF Spec

-----------------------------------------------------------------------------
(* Worlds and what is written for them. *)
LEMMA WorldsAre ==
  ASSUME NEW w \in Worlds \cup {{}}
  PROVE  /\ w \subseteq Entities
         /\ \A d, e \in w : d.number = e.number => d = e
         /\ \A e \in w : e.number \in Numbers /\ e.number \in Nat /\ e.number < NoNumber
         /\ NumbersOf(w) \subseteq Numbers /\ IsFiniteSet(NumbersOf(w))
<1>1. w \subseteq Entities /\ \A d, e \in w : d.number = e.number => d = e
  BY ReaderAssumption, Zenon
<1>2. \A e \in w : e.number \in Numbers
  BY <1>1 DEF Entities
<1>3. NumbersOf(w) \subseteq Numbers
  BY <1>2 DEF NumbersOf
<1> QED
  BY <1>1, <1>2, <1>3, NumbersFinite, FS_Subset, Constants

(* An item says what becomes of one number, and every change has one. *)
Says(B, W, x) ==
  /\ x \in Items /\ Entity(x).number = x.number
  /\ x.gone => Entity(x) \in B /\ x.number \notin NumbersOf(W)
  /\ ~ x.gone => Entity(x) \in W /\ Entity(x) \notin B

(* Each item of a difference says what the new world has of an entity, and *)
(* there is one for each that is new, changed or gone. *)
LEMMA ItemsSay ==
  ASSUME NEW B \in Worlds \cup {{}}, NEW W \in Worlds \cup {{}}
  PROVE  /\ \A x \in DeltaItems(B, W) : Says(B, W, x)
         /\ \A e \in W \ B : \E x \in DeltaItems(B, W) : x.number = e.number
         /\ \A e \in B : e.number \notin NumbersOf(W) =>
              \E x \in DeltaItems(B, W) : x.number = e.number
<1> DEFINE Put(e, g) == [number |-> e.number, gone |-> g, value |-> e.value]
           new == {Put(e, FALSE) : e \in W \ B}
           removed == {Put(e, TRUE) : e \in {d \in B : d.number \notin NumbersOf(W)}}
<1>1. DeltaItems(B, W) = new \cup removed
  BY DEF DeltaItems, NumbersOf
<1>2. B \subseteq Entities /\ W \subseteq Entities
  BY WorldsAre
<1>3. DeltaItems(B, W) \subseteq Items
  BY <1>2, DeltaItemsAre
<1>4. \A e \in Entities, g \in BOOLEAN :
        /\ Put(e, g).number = e.number /\ Put(e, g).gone = g /\ Entity(Put(e, g)) = e
  BY DEF Entities, Entity
<1>5. \A x : Entity(x).number = x.number
  BY DEF Entity
<1> HIDE DEF Put
<1>6. ASSUME NEW x \in new PROVE ~ x.gone /\ Entity(x) \in W /\ Entity(x) \notin B
  <2>1. PICK e \in W \ B : x = Put(e, FALSE)
    OBVIOUS
  <2> QED
    BY <1>2, <1>4, <2>1
<1>7. ASSUME NEW x \in removed
      PROVE  x.gone /\ Entity(x) \in B /\ x.number \notin NumbersOf(W)
  <2>1. PICK e \in B : e.number \notin NumbersOf(W) /\ x = Put(e, TRUE)
    OBVIOUS
  <2> QED
    BY <1>2, <1>4, <2>1
<1>8. ASSUME NEW e \in W \ B PROVE \E x \in DeltaItems(B, W) : x.number = e.number
  <2>1. Put(e, FALSE) \in new /\ Put(e, FALSE).number = e.number
    BY <1>2, <1>4
  <2> HIDE DEF new
  <2> QED
    BY <1>1, <2>1
<1>9. ASSUME NEW e \in B, e.number \notin NumbersOf(W)
      PROVE  \E x \in DeltaItems(B, W) : x.number = e.number
  <2>1. Put(e, TRUE) \in removed /\ Put(e, TRUE).number = e.number
    BY <1>2, <1>4, <1>9
  <2> HIDE DEF removed
  <2> QED
    BY <1>1, <2>1
<1> HIDE DEF new, removed
<1> QED
  BY <1>1, <1>3, <1>5, <1>6, <1>7, <1>8, <1>9 DEF Says

(* There is one item for an entity. *)
LEMMA ItemsOnce ==
  ASSUME NEW B \in Worlds \cup {{}}, NEW W \in Worlds \cup {{}},
         NEW x \in DeltaItems(B, W), NEW y \in DeltaItems(B, W), x.number = y.number
  PROVE  x = y
<1>1. /\ x \in Items /\ y \in Items
      /\ Entity(x).number = x.number /\ Entity(y).number = y.number
      /\ x.gone => Entity(x) \in B /\ x.number \notin NumbersOf(W)
      /\ ~ x.gone => Entity(x) \in W
      /\ y.gone => Entity(y) \in B /\ y.number \notin NumbersOf(W)
      /\ ~ y.gone => Entity(y) \in W
  <2>1. Says(B, W, x) /\ Says(B, W, y)
    BY ItemsSay
  <2> QED
    BY <2>1 DEF Says
<1>2. /\ Entity(x) \in B /\ Entity(y) \in B => Entity(x) = Entity(y)
      /\ Entity(x) \in W /\ Entity(y) \in W => Entity(x) = Entity(y)
  BY <1>1, WorldsAre
<1>3. x.gone = y.gone
  BY <1>1 DEF NumbersOf, Items
<1>4. Entity(x) = Entity(y)
  BY <1>1, <1>2, <1>3
<1>5. x.value = y.value
  BY <1>4 DEF Entity
<1> QED
  BY <1>1, <1>3, <1>5 DEF Items

(* Numbers that neither the base nor the message has are not in the world. *)
LEMMA NoneBetween ==
  ASSUME NEW B \in Worlds \cup {{}}, NEW W \in Worlds \cup {{}}, NEW q \in Int, NEW r \in Int,
         \A x \in DeltaItems(B, W) : x.number > q => x.number >= r,
         \A e \in B : e.number > q => e.number >= r
  PROVE  \A e \in W : e.number <= q \/ e.number >= r
<1> SUFFICES ASSUME NEW e \in W, e.number > q PROVE e.number >= r
  BY WorldsAre
<1>1. CASE e \in B
  BY <1>1
<1>2. CASE e \notin B
  <2>0. \A d \in W \ B : \E x \in DeltaItems(B, W) : x.number = d.number
    BY ItemsSay
  <2>1. PICK x \in DeltaItems(B, W) : x.number = e.number
    BY <1>2, <2>0
  <2> QED
    BY <2>1
<1> QED
  BY <1>1, <1>2

-----------------------------------------------------------------------------
(* The entities with parse indices from a up to b. *)
Look(a, b) == {PP!EntityAt(t) : t \in a .. b - 1}
Increasing(a, b) ==
  \A t, u \in a .. b - 1 : t < u => PP!EntityAt(t).number < PP!EntityAt(u).number

(* The entities of a snapshot are those of its part of the ring. *)
LEMMA ContentsAre ==
  ASSUME NEW s \in Snapshots
  PROVE  Contents(s) = Look(s.parseEntitiesNum, s.parseEntitiesNum + s.numEntities)
<1> DEFINE a == s.parseEntitiesNum
           n == s.numEntities
<1>1. a \in Nat /\ n \in Nat
  BY DEF Snapshots
<1> HIDE DEF a, n
<1>2. /\ \A i \in 0 .. n - 1 : a + i \in a .. (a + n) - 1
      /\ \A t \in a .. (a + n) - 1 : t - a \in 0 .. n - 1 /\ a + (t - a) = t
  BY <1>1
<1>3. Contents(s) = {PP!EntityAt(a + i) : i \in 0 .. n - 1}
  BY SamePool DEF Contents, a, n
<1>4. {PP!EntityAt(a + i) : i \in 0 .. n - 1} = {PP!EntityAt(t) : t \in a .. (a + n) - 1}
  BY <1>2
<1>5. Contents(s) = Look(a, a + n)
  BY <1>3, <1>4 DEF Look
<1> QED
  BY <1>5 DEF a, n

(* While no slot they are in is used again, they stay the same.            *)
LEMMA LookStays ==
  ASSUME Held, Grows, NEW a \in Nat, NEW b \in Nat,
         b <= parseEntitiesNum, a >= parseEntitiesNum' - RingSize
  PROVE  (Look(a, b))' = Look(a, b) /\ (Increasing(a, b) => (Increasing(a, b))')
<1>1. PICK n \in Nat, m \in Nat : n = parseEntitiesNum /\ m = parseEntitiesNum' /\ n <= m
  BY DEF Held, Grows, PP!TypeOK
<1>2. b <= n /\ n <= m /\ a >= m - RingSize
  BY <1>1
<1>3. ASSUME NEW t \in a .. b - 1
      PROVE  (PP!EntityAt(t))' = PP!EntityAt(t)
  <2>1. t \in Nat /\ t < n /\ t \in 0 .. m - 1
    BY <1>2
  <2>2. t >= m - RingSize
    BY <1>2, Constants
  <2>3. t \in PP!Live'
    BY <1>1, <2>1, <2>2 DEF PP!Live
  <2> QED
    BY <1>1, <2>1, <2>3 DEF Grows
<1> QED
  BY <1>3 DEF Look, Increasing

(* One more entity at the end, *)
LEMMA LookMore ==
  ASSUME Held, Grows, NEW a \in Nat, NEW b \in Nat, b = parseEntitiesNum, NEW e, Listing(e),
         a <= b, a >= parseEntitiesNum' - RingSize
  PROVE  /\ (Look(a, b + 1))' = Look(a, b) \cup {e}
         /\ Increasing(a, b) /\ (\A d \in Look(a, b) : d.number < e.number)
              => (Increasing(a, b + 1))'
<1>1. /\ parseEntitiesNum \in Nat /\ parseEntitiesNum' = b + 1
      /\ (PP!EntityAt(b))' = e
  BY DEF Listing
<1>2. ASSUME NEW t \in a .. b - 1
      PROVE  (PP!EntityAt(t))' = PP!EntityAt(t)
  <2>1. t \in Nat /\ t < parseEntitiesNum /\ t \in 0 .. parseEntitiesNum' - 1
    BY <1>1
  <2>2. t >= parseEntitiesNum' - RingSize
    BY <1>1, Constants
  <2>3. t \in PP!Live'
    BY <2>1, <2>2 DEF PP!Live
  <2> QED
    BY <2>1, <2>3 DEF Grows
<1>3. a .. (b + 1) - 1 = (a .. b - 1) \cup {b} /\ b \notin a .. b - 1
  OBVIOUS
<1>4. (Look(a, b + 1))' = Look(a, b) \cup {e}
  BY <1>1, <1>2, <1>3 DEF Look
<1>5. ASSUME Increasing(a, b), \A d \in Look(a, b) : d.number < e.number,
             NEW t \in a .. (b + 1) - 1, NEW u \in a .. (b + 1) - 1, t < u
      PROVE  (PP!EntityAt(t))'.number < (PP!EntityAt(u))'.number
  <2>1. t \in a .. b - 1
    BY <1>5
  <2>2. CASE u = b
    BY <1>1, <1>2, <1>5, <2>1, <2>2 DEF Look
  <2>3. CASE u # b
    BY <1>2, <1>3, <1>5, <2>1, <2>3 DEF Increasing
  <2> QED
    BY <2>2, <2>3
<1> QED
  BY <1>4, <1>5 DEF Increasing

(* ... or one fewer at the beginning. *)
LEMMA LookRest ==
  ASSUME NEW a \in Nat, NEW b \in Nat, a < b
  PROVE  /\ Look(a, b) = {PP!EntityAt(a)} \cup Look(a + 1, b)
         /\ Increasing(a, b) => /\ Increasing(a + 1, b)
                                /\ \A e \in Look(a + 1, b) : PP!EntityAt(a).number < e.number
<1>1. a .. b - 1 = {a} \cup (a + 1 .. b - 1) /\ \A t \in a + 1 .. b - 1 : a < t
  OBVIOUS
<1> QED
  BY <1>1 DEF Look, Increasing

-----------------------------------------------------------------------------
(* How far a snapshot has been read: up to number q. *)
After(S, q) == {e \in S : e.number > q}
UpTo(S, q) == {e \in S : e.number <= q}

(* How many entities that the base has not are still to come. *)
Coming(B, W, q) == {k \in NumbersOf(W) \ NumbersOf(B) : k > q}

(* The rest of the base, from parse index t up to u, is what the server    *)
(* has after q, and none of it leaves the ring before it is taken.         *)
RestAt(t, u, B, W, q) ==
  /\ Look(t, u) = After(B, q) /\ Increasing(t, u)
  /\ t < u => /\ oldstate = PP!SlotOf(t) /\ oldnum = PP!EntityAt(t).number
              /\ parseEntitiesNum - t + Cardinality(Coming(B, W, q)) <= RingSize
  /\ t >= u => oldnum = NoNumber

Rest(B, W, q) ==
  \A t, u \in Nat : /\ t = old.parseEntitiesNum + oldindex
                    /\ u = old.parseEntitiesNum + old.numEntities
                    => RestAt(t, u, B, W, q)

(* What was listed is the world up to q, as long as it is all in the ring. *)
ListedAt(a, n, W, q) == Look(a, n) = UpTo(W, q) /\ Increasing(a, n)

ListedTo(W, q) ==
  \A a, n \in Nat : /\ a = newSnap.parseEntitiesNum /\ n = parseEntitiesNum
                    /\ a >= n - RingSize
                    => ListedAt(a, n, W, q)

Handled(B, W, q) ==
  /\ items = After(DeltaItems(B, W), q)
  /\ Rest(B, W, q)
  /\ ListedTo(W, q)

Merging ==
  parsing /\ newSnap.valid =>
    \E B \in Worlds \cup {{}}, q \in Int : Handled(B, sent[newSnap.messageNum], q)

(* Fewer new entities are left the further the merge has come. *)
LEMMA ComingLess ==
  ASSUME NEW B \in Worlds \cup {{}}, NEW W \in Worlds \cup {{}},
         NEW q \in Int, NEW r \in Int, q < r
  PROVE  /\ Cardinality(Coming(B, W, q)) \in Nat /\ Cardinality(Coming(B, W, r)) \in Nat
         /\ Cardinality(Coming(B, W, r)) <= Cardinality(Coming(B, W, q))
         /\ r \in NumbersOf(W) \ NumbersOf(B) =>
              Cardinality(Coming(B, W, r)) + 1 <= Cardinality(Coming(B, W, q))
<1> DEFINE N == NumbersOf(W)
           X == Coming(B, W, q)
           Y == Coming(B, W, r)
<1>1. N \subseteq Numbers /\ IsFiniteSet(N)
  BY WorldsAre
<1>2. N \subseteq Nat
  BY <1>1, Constants
<1>3. X \subseteq N /\ Y \subseteq X
  BY <1>2 DEF Coming
<1>4. r \in N \ NumbersOf(B) => r \in X /\ Y \subseteq X \ {r}
  BY <1>2 DEF Coming
<1> HIDE DEF X, Y, N
<1>5. IsFiniteSet(X) /\ IsFiniteSet(Y) /\ Cardinality(Y) <= Cardinality(X)
  BY <1>1, <1>3, FS_Subset
<1>6. Cardinality(X) \in Nat /\ Cardinality(Y) \in Nat
  BY <1>5, FS_CardinalityType
<1>7. ASSUME r \in X, Y \subseteq X \ {r}
      PROVE  Cardinality(Y) + 1 <= Cardinality(X)
  <2>1. Cardinality(X \ {r}) = Cardinality(X) - 1 /\ IsFiniteSet(X \ {r})
    BY <1>5, <1>7, FS_RemoveElement
  <2>2. Cardinality(Y) <= Cardinality(X \ {r})
    BY <1>7, <2>1, FS_Subset
  <2> QED
    BY <1>6, <2>1, <2>2
<1> QED
  BY <1>4, <1>5, <1>6, <1>7 DEF X, Y, N

(* The next entity of the base is taken, and its successor looked up. *)
LEMMA RestTaken ==
  ASSUME TypeInv, Grows, old' = old, FetchFacts(old, oldindex + 1),
         parseEntitiesNum' <= parseEntitiesNum + 1,
         NEW B \in Worlds \cup {{}}, NEW W \in Worlds \cup {{}}, NEW q \in Int, NEW r \in Int,
         q < r, Rest(B, W, q), oldnum = r, r # NoNumber
  PROVE  (Rest(B, W, r))'
<1>1. old \in Snapshots /\ oldindex \in Nat
      /\ old.parseEntitiesNum + old.numEntities <= parseEntitiesNum
  BY DEF TypeInv, ReaderInv, Parsed
<1>2. PICK t \in Nat, u \in Nat, n \in Nat, m \in Nat :
        /\ t = old.parseEntitiesNum + oldindex /\ u = old.parseEntitiesNum + old.numEntities
        /\ n = parseEntitiesNum /\ m = parseEntitiesNum'
        /\ u <= n /\ n <= m /\ m <= n + 1
  BY <1>1 DEF Snapshots, Grows, TypeInv, Held, PP!TypeOK
<1>3. RestAt(t, u, B, W, q)
  BY <1>2 DEF Rest
<1>4. /\ t < u /\ PP!EntityAt(t).number = r
      /\ n - t + Cardinality(Coming(B, W, q)) <= RingSize
      /\ Look(t, u) = After(B, q) /\ Increasing(t, u)
  BY <1>2, <1>3 DEF RestAt
<1>5. /\ Look(t, u) = {PP!EntityAt(t)} \cup Look(t + 1, u) /\ Increasing(t + 1, u)
      /\ \A e \in Look(t + 1, u) : r < e.number
  BY <1>4, LookRest
<1>6. Look(t + 1, u) = After(B, r)
  <2>1. \A e \in B : e.number \in Nat
    BY WorldsAre
  <2> QED
    BY <1>4, <1>5, <2>1 DEF After
<1>7. /\ Cardinality(Coming(B, W, q)) \in Nat /\ Cardinality(Coming(B, W, r)) \in Nat
      /\ Cardinality(Coming(B, W, r)) <= Cardinality(Coming(B, W, q))
  BY ComingLess
<1>8. t + 1 \in Nat /\ m - (t + 1) + Cardinality(Coming(B, W, r)) <= RingSize
      /\ t + 1 >= m - RingSize
  BY <1>2, <1>4, <1>7, Constants
<1>9. (Look(t + 1, u))' = Look(t + 1, u) /\ (Increasing(t + 1, u))'
  BY <1>2, <1>5, <1>8, LookStays DEF TypeInv
<1>10. /\ t + 1 < u => oldstate' = (PP!SlotOf(t + 1))' /\ oldnum' = (PP!EntityAt(t + 1))'.number
       /\ t + 1 >= u => oldnum' = NoNumber
       /\ oldindex' = oldindex + 1
  <2>1. /\ t + 1 = old.parseEntitiesNum + (oldindex + 1)
        /\ t + 1 < u <=> oldindex + 1 < old.numEntities
        /\ t + 1 >= u <=> oldindex + 1 >= old.numEntities
    BY <1>1, <1>2 DEF Snapshots
  <2> QED
    BY <1>8, <2>1 DEF FetchFacts
<1>11. (RestAt(t + 1, u, B, W, r))'
  BY <1>2, <1>6, <1>8, <1>9, <1>10 DEF RestAt
<1>12. t + 1 = old'.parseEntitiesNum + oldindex' /\ u = old'.parseEntitiesNum + old'.numEntities
  BY <1>1, <1>2, <1>10 DEF Snapshots
<1> QED
  BY <1>11, <1>12 DEF Rest

(* An entity is listed that the base has not. *)
LEMMA RestKept ==
  ASSUME TypeInv, Grows, UNCHANGED <<old, oldindex, oldstate, oldnum>>,
         parseEntitiesNum' = parseEntitiesNum + 1,
         NEW B \in Worlds \cup {{}}, NEW W \in Worlds \cup {{}}, NEW q \in Int, NEW r \in Int,
         q < r, Rest(B, W, q), oldnum > r, r \in NumbersOf(W) \ NumbersOf(B)
  PROVE  (Rest(B, W, r))'
<1>1. old \in Snapshots /\ oldindex \in Nat
      /\ old.parseEntitiesNum + old.numEntities <= parseEntitiesNum
  BY DEF TypeInv, ReaderInv, Parsed
<1>2. PICK t \in Nat, u \in Nat, n \in Nat :
        /\ t = old.parseEntitiesNum + oldindex /\ u = old.parseEntitiesNum + old.numEntities
        /\ n = parseEntitiesNum /\ u <= n
  BY <1>1 DEF Snapshots, TypeInv, Held, PP!TypeOK
<1>3. RestAt(t, u, B, W, q) /\ parseEntitiesNum' = n + 1
  BY <1>2 DEF Rest
<1>4. Cardinality(Coming(B, W, r)) \in Nat
      /\ Cardinality(Coming(B, W, r)) + 1 <= Cardinality(Coming(B, W, q))
      /\ Cardinality(Coming(B, W, q)) \in Nat
  BY ComingLess
<1>5. \A e \in Look(t, u) : e.number > r
  <2>1. CASE t < u
    <3>1. PP!EntityAt(t).number = oldnum
      BY <1>3, <2>1 DEF RestAt
    <3>2. \A e \in Look(t, u) : e = PP!EntityAt(t) \/ PP!EntityAt(t).number < e.number
      BY <1>3, <2>1, LookRest DEF RestAt
    <3>3. oldnum \in Nat /\ \A e \in Look(t, u) : e.number \in Nat
      BY <1>3, Constants, WorldsAre DEF RestAt, After, TypeInv, ReaderInv
    <3> QED
      BY <3>1, <3>2, <3>3
  <2>2. CASE ~ (t < u)
    BY <2>2 DEF Look
  <2> QED
    BY <2>1, <2>2
<1>6. Look(t, u) = After(B, r)
  <2>1. Look(t, u) = After(B, q) /\ \A e \in B : e.number \in Nat
    BY <1>3, WorldsAre DEF RestAt
  <2> QED
    BY <1>5, <2>1 DEF After
<1>7. CASE t < u
  <2>1. /\ oldstate = PP!SlotOf(t) /\ oldnum = PP!EntityAt(t).number
        /\ n - t + Cardinality(Coming(B, W, q)) <= RingSize
        /\ Increasing(t, u)
    BY <1>2, <1>3, <1>7 DEF RestAt
  <2>2. (n + 1) - t + Cardinality(Coming(B, W, r)) <= RingSize /\ t >= (n + 1) - RingSize
    BY <1>4, <2>1, Constants
  <2>3. (Look(t, u))' = Look(t, u) /\ (Increasing(t, u))'
    BY <1>2, <1>3, <2>1, <2>2, LookStays DEF TypeInv
  <2>4. t < n /\ t \in 0 .. (n + 1) - 1
    BY <1>2, <1>7
  <2>5. t \in PP!Live'
    BY <1>3, <2>2, <2>4 DEF PP!Live
  <2>6. (PP!SlotOf(t))' = PP!SlotOf(t) /\ (PP!EntityAt(t))' = PP!EntityAt(t)
    BY <1>2, <2>4, <2>5 DEF Grows
  <2>7. (RestAt(t, u, B, W, r))'
    BY <1>3, <1>6, <1>7, <2>1, <2>2, <2>3, <2>6 DEF RestAt
  <2> QED
    BY <1>2, <2>7 DEF Rest
<1>8. CASE t >= u
  <2>1. Look(t, u) = {} /\ (Look(t, u))' = {} /\ (Increasing(t, u))'
    BY <1>8 DEF Look, Increasing
  <2>2. oldnum = NoNumber
    BY <1>3, <1>8 DEF RestAt
  <2>3. (RestAt(t, u, B, W, r))'
    BY <1>6, <1>8, <2>1, <2>2 DEF RestAt
  <2> QED
    BY <1>2, <2>3 DEF Rest
<1> QED
  BY <1>2, <1>7, <1>8

(* The snapshot grows with the world, *)
LEMMA ListedMore ==
  ASSUME TypeInv, parsing, Grows, newSnap'.parseEntitiesNum = newSnap.parseEntitiesNum,
         NEW e, Listing(e), NEW W \in Worlds \cup {{}}, NEW q \in Int, NEW r \in Int,
         q < r, ListedTo(W, q), e.number = r, UpTo(W, r) = UpTo(W, q) \cup {e}
  PROVE  (ListedTo(W, r))'
<1>1. newSnap \in Snapshots /\ newSnap.parseEntitiesNum + newSnap.numEntities = parseEntitiesNum
  BY DEF TypeInv, ReaderInv
<1>2. PICK a \in Nat, n \in Nat :
        a = newSnap.parseEntitiesNum /\ n = parseEntitiesNum /\ a <= n
  BY <1>1 DEF Snapshots
<1>3. parseEntitiesNum' = n + 1
  BY <1>2 DEF Listing
<1>4. ASSUME a >= (n + 1) - RingSize
      PROVE  (ListedAt(a, n + 1, W, r))'
  <2>1. a >= n - RingSize
    BY <1>4, Constants
  <2>2. Look(a, n) = UpTo(W, q) /\ Increasing(a, n)
    BY <1>2, <2>1 DEF ListedTo, ListedAt
  <2>3. /\ (Look(a, n + 1))' = Look(a, n) \cup {e}
        /\ Increasing(a, n) /\ (\A d \in Look(a, n) : d.number < e.number)
              => (Increasing(a, n + 1))'
    BY <1>2, <1>3, <1>4, LookMore DEF TypeInv
  <2>4. \A d \in W : d.number \in Nat
    BY WorldsAre
  <2>5. \A d \in Look(a, n) : d.number < e.number
    BY <2>2, <2>4 DEF UpTo
  <2> QED
    BY <2>2, <2>3, <2>5 DEF ListedAt
<1> QED
  BY <1>2, <1>3, <1>4 DEF ListedTo

(* ... and stays what it is when an entity is removed. *)
LEMMA ListedSame ==
  ASSUME TypeInv, parsing, Grows, newSnap'.parseEntitiesNum = newSnap.parseEntitiesNum,
         parseEntitiesNum' = parseEntitiesNum,
         NEW W \in Worlds \cup {{}}, NEW q \in Int, NEW r \in Int,
         ListedTo(W, q), UpTo(W, r) = UpTo(W, q)
  PROVE  (ListedTo(W, r))'
<1>1. newSnap \in Snapshots /\ newSnap.parseEntitiesNum + newSnap.numEntities = parseEntitiesNum
  BY DEF TypeInv, ReaderInv
<1>2. PICK a \in Nat, n \in Nat :
        a = newSnap.parseEntitiesNum /\ n = parseEntitiesNum /\ a <= n
  BY <1>1 DEF Snapshots
<1>3. ASSUME a >= n - RingSize
      PROVE  (ListedAt(a, n, W, r))'
  <2>1. Look(a, n) = UpTo(W, q) /\ Increasing(a, n)
    BY <1>2, <1>3 DEF ListedTo, ListedAt
  <2>2. (Look(a, n))' = Look(a, n) /\ (Increasing(a, n))'
    BY <1>2, <1>3, <2>1, LookStays DEF TypeInv
  <2> QED
    BY <2>1, <2>2 DEF ListedAt
<1> QED
  BY <1>2, <1>3 DEF ListedTo

(* What comes next: an entity of the base or of the message, and no other  *)
(* number lies between it and q.                                           *)
NextFacts(B, W, q) ==
  /\ oldnum \in Int /\ NextNumber \in Int
  /\ \A x \in DeltaItems(B, W) : x.number > q => x.number >= NextNumber
  /\ \A e \in B : e.number > q => e.number >= oldnum
  /\ oldnum # NoNumber =>
       /\ q < oldnum
       /\ \E t \in Nat : /\ t < parseEntitiesNum /\ t \in PP!Live
                         /\ PP!EntityAt(t) \in B /\ PP!EntityAt(t).number = oldnum
                         /\ oldstate = PP!SlotOf(t)
  /\ items # {} => q < NextNumber

(* What the merge has before it: the next item and the next of the base. *)
LEMMA NextAt ==
  ASSUME TypeInv, NEW B \in Worlds \cup {{}}, NEW W \in Worlds \cup {{}}, NEW q \in Int,
         Handled(B, W, q)
  PROVE  NextFacts(B, W, q)
<1>1. /\ old \in Snapshots /\ oldindex \in Nat
      /\ old.parseEntitiesNum + old.numEntities <= parseEntitiesNum
      /\ items \subseteq Items /\ oldnum \in Numbers \cup {NoNumber}
  BY DEF TypeInv, ReaderInv, Parsed
<1>2. PICK t \in Nat, u \in Nat, n \in Nat :
        /\ t = old.parseEntitiesNum + oldindex /\ u = old.parseEntitiesNum + old.numEntities
        /\ n = parseEntitiesNum /\ u <= n
  BY <1>1 DEF Snapshots, TypeInv, Held, PP!TypeOK
<1>3. RestAt(t, u, B, W, q) /\ items = After(DeltaItems(B, W), q)
  BY <1>2 DEF Rest, Handled
<1>4. oldnum \in Int /\ NextNumber \in Int /\ oldnum <= NoNumber
  BY <1>1, NextNumberIs, Constants
<1>5. /\ \A x \in DeltaItems(B, W) : x.number > q => x.number >= NextNumber
      /\ items # {} => q < NextNumber
  <2>1. \A x \in items : NextNumber <= x.number
    BY <1>1, NextNumberIs
  <2>2. \A x \in DeltaItems(B, W) : x.number \in Nat
    <3>1. \A x \in DeltaItems(B, W) : Says(B, W, x)
      BY ItemsSay
    <3> QED
      BY <3>1, Constants DEF Says, Items
  <2>3. items # {} => First \in items /\ NextNumber = First.number
    BY <1>1, FirstAt
  <2> QED
    BY <1>3, <1>4, <2>1, <2>2, <2>3 DEF After
<1>6. \A e \in B : e.number \in Nat /\ e.number < NoNumber
  BY WorldsAre
<1>7. CASE t >= u
  <2>1. oldnum = NoNumber /\ After(B, q) = {}
    BY <1>3, <1>7 DEF RestAt, Look
  <2> QED
    BY <1>4, <1>5, <1>6, <2>1 DEF NextFacts, After
<1>8. CASE t < u
  <2>1. /\ oldstate = PP!SlotOf(t) /\ oldnum = PP!EntityAt(t).number
        /\ n - t + Cardinality(Coming(B, W, q)) <= RingSize
        /\ Look(t, u) = After(B, q) /\ Increasing(t, u)
    BY <1>2, <1>3, <1>8 DEF RestAt
  <2>2. /\ PP!EntityAt(t) \in After(B, q)
        /\ \A e \in After(B, q) : e = PP!EntityAt(t) \/ PP!EntityAt(t).number < e.number
    BY <1>8, <2>1, LookRest
  <2>3. \A e \in B : e.number > q => e.number >= oldnum
    BY <1>4, <1>6, <2>1, <2>2 DEF After
  <2>4. PP!EntityAt(t) \in B /\ q < oldnum
    BY <1>4, <2>1, <2>2 DEF After
  <2>5. t < n /\ t \in 0 .. n - 1
    BY <1>2, <1>8
  <2>6. t >= n - RingSize
    <3>1. Cardinality(Coming(B, W, q)) \in Nat
      <4>1. q < q + 1 /\ q + 1 \in Int
        OBVIOUS
      <4> QED
        BY <4>1, ComingLess
    <3> QED
      BY <2>1, <3>1, Constants
  <2>7. t \in PP!Live
    BY <1>2, <2>5, <2>6 DEF PP!Live
  <2> QED
    BY <1>2, <1>4, <1>5, <2>1, <2>3, <2>4, <2>5, <2>7 DEF NextFacts
<1> QED
  BY <1>2, <1>7, <1>8

(* The world up to the next number r. *)
UpToFacts(W, q, r) ==
  /\ \A e \in W : e.number = r => UpTo(W, r) = UpTo(W, q) \cup {e}
  /\ r \notin NumbersOf(W) => UpTo(W, r) = UpTo(W, q)

(* Between two numbers nothing is listed that neither the items nor the *)
(* base have. *)
LEMMA UpToNext ==
  ASSUME NEW B \in Worlds \cup {{}}, NEW W \in Worlds \cup {{}}, NEW q \in Int, NEW r \in Int,
         q < r,
         \A x \in DeltaItems(B, W) : x.number > q => x.number >= r,
         \A e \in B : e.number > q => e.number >= r
  PROVE  UpToFacts(W, q, r)
<1>1. \A e \in W : e.number <= q \/ e.number >= r
  BY NoneBetween
<1>2. /\ \A e \in W : e.number \in Nat
      /\ \A d, e \in W : d.number = e.number => d = e
  BY WorldsAre
<1>3. \A e \in W : e.number <= r <=> e.number <= q \/ e.number = r
  BY <1>1, <1>2
<1>4. \A e \in W : e.number = r => UpTo(W, r) = UpTo(W, q) \cup {e}
  BY <1>2, <1>3 DEF UpTo
<1>5. r \notin NumbersOf(W) => \A e \in W : e.number # r
  BY DEF NumbersOf
<1> QED
  BY <1>3, <1>4, <1>5 DEF UpTo, UpToFacts

(* The next entity of the base is fetched while the ring grows. *)
LEMMA FetchNext ==
  ASSUME TypeInv, Grows, Fetch(old, oldindex + 1)
  PROVE  FetchFacts(old, oldindex + 1)
<1>1. Parsed(old) /\ oldindex \in Nat
  BY DEF TypeInv, ReaderInv
<1>2. old \in Snapshots /\ old.parseEntitiesNum + old.numEntities <= parseEntitiesNum'
  BY <1>1, ParsedStays DEF TypeInv
<1>3. PICK b \in Snapshots, i \in Nat : b = old /\ i = oldindex + 1
  BY <1>1, <1>2
<1>4. FetchFacts(b, i)
  BY <1>2, <1>3, FetchAt DEF Grows
<1> QED
  BY <1>3, <1>4 DEF FetchFacts

(* An entity the message does not mention is listed as it was. *)
LEMMA HandledUnchanged ==
  ASSUME TypeInv, TakeUnchanged,
         NEW B \in Worlds \cup {{}}, NEW W \in Worlds \cup {{}}, NEW q \in Int, Handled(B, W, q)
  PROVE  (\E r \in Int : (Handled(B, W, r))') /\ PP!Operation
<1>1. /\ oldnum \in Numbers /\ oldnum < NextNumber /\ Grows /\ Listing(entityPool[oldstate])
      /\ PP!Unchanged(oldstate) /\ SameSnapshot
  BY UnchangedAt, StepSnapshot
<1>2. NextFacts(B, W, q)
  BY NextAt
<1>3. PICK r \in Nat : r = oldnum /\ r # NoNumber
  BY <1>1, Constants
<1>4. PICK t \in Nat : /\ t \in PP!Live /\ PP!EntityAt(t) \in B /\ PP!EntityAt(t).number = r
                       /\ oldstate = PP!SlotOf(t)
  BY <1>2, <1>3 DEF NextFacts
<1>5. PP!Operation
  BY <1>1, <1>4 DEF PP!Operation
<1>6. PICK e : e = entityPool[oldstate] /\ e \in B /\ e.number = r
  BY <1>4 DEF PP!EntityAt
<1>7. /\ q < r
      /\ \A x \in DeltaItems(B, W) : x.number > q => x.number > r /\ x.number >= r
      /\ \A d \in B : d.number > q => d.number >= r
  <2>1. \A x \in DeltaItems(B, W) : x.number \in Nat
    <3>1. \A x \in DeltaItems(B, W) : Says(B, W, x)
      BY ItemsSay
    <3> QED
      BY <3>1, Constants DEF Says, Items
  <2> QED
    BY <1>1, <1>2, <1>3, <2>1 DEF NextFacts
<1>8. e \in W
  <2>1. e.number \in NumbersOf(W)
    <3> SUFFICES ASSUME e.number \notin NumbersOf(W) PROVE FALSE
      OBVIOUS
    <3>1. PICK x \in DeltaItems(B, W) : x.number = e.number
      BY <1>6, ItemsSay
    <3> QED
      BY <1>6, <1>7, <3>1
  <2>2. PICK d \in W : d.number = e.number
    BY <2>1 DEF NumbersOf
  <2>3. d \in B
    <3> SUFFICES ASSUME d \notin B PROVE FALSE
      OBVIOUS
    <3>1. \A c \in W \ B : \E x \in DeltaItems(B, W) : x.number = c.number
      BY ItemsSay
    <3>2. PICK x \in DeltaItems(B, W) : x.number = d.number
      BY <3>1
    <3> QED
      BY <1>6, <1>7, <2>2, <3>2
  <2> QED
    BY <1>6, <2>2, <2>3, WorldsAre
<1>9. UpTo(W, r) = UpTo(W, q) \cup {e}
  <2>1. \A x \in DeltaItems(B, W) : x.number > q => x.number >= r
    BY <1>7
  <2> QED
    BY <1>6, <1>7, <1>8, <2>1, UpToNext DEF UpToFacts
<1>10. items' = After(DeltaItems(B, W), r)
  <2>1. items' = items
    BY DEF TakeUnchanged
  <2>2. \A x \in DeltaItems(B, W) : x.number > q <=> x.number > r
    <3>1. \A x \in DeltaItems(B, W) : Says(B, W, x)
      BY ItemsSay
    <3>2. \A x \in DeltaItems(B, W) : x.number \in Nat
      BY <3>1, Constants DEF Says, Items
    <3> QED
      BY <1>7, <3>2
  <2> QED
    BY <2>1, <2>2 DEF Handled, After
<1>11. (Rest(B, W, r))'
  <2>1. FetchFacts(old, oldindex + 1) /\ old' = old
    BY <1>1, FetchNext DEF TakeUnchanged
  <2>2. parseEntitiesNum' <= parseEntitiesNum + 1
    BY <1>1 DEF Listing, TypeInv, Held, PP!TypeOK
  <2>3. Rest(B, W, q)
    BY DEF Handled
  <2>4. Grows /\ q < r /\ oldnum = r /\ r # NoNumber /\ r \in Int
    BY <1>1, <1>3, <1>7
  <2> QED
    BY <2>1, <2>2, <2>3, <2>4, RestTaken, Zenon
<1>12. (ListedTo(W, r))'
  <2>1. parsing /\ newSnap'.parseEntitiesNum = newSnap.parseEntitiesNum
    BY <1>1 DEF SameSnapshot
  <2>2. ListedTo(W, q) /\ Listing(e)
    BY <1>1, <1>6 DEF Handled
  <2> QED
    BY <1>1, <1>6, <1>7, <1>9, <2>1, <2>2, ListedMore
<1> QED
  BY <1>5, <1>10, <1>11, <1>12 DEF Handled

(* An item of the message is read. *)
LEMMA HandledItem ==
  ASSUME TypeInv, TakeDelta \/ TakeBaseline,
         NEW B \in Worlds \cup {{}}, NEW W \in Worlds \cup {{}}, NEW q \in Int, Handled(B, W, q),
         NEW r, r = NextNumber
  PROVE  /\ r \in Int /\ q < r /\ NextFacts(B, W, q) /\ Grows /\ r # NoNumber
         /\ (items = After(DeltaItems(B, W), r))' /\ (ListedTo(W, r))'
         /\ Says(B, W, First) /\ First.number = r
         /\ First.gone => parseEntitiesNum' = parseEntitiesNum
         /\ ~ First.gone => parseEntitiesNum' = parseEntitiesNum + 1
<1> DEFINE x == First
<1>1. ReadItem /\ items # {} /\ NextNumber <= oldnum /\ SameSnapshot
  <2>1. items # {} /\ ReadItem /\ (oldnum = NextNumber \/ oldnum > NextNumber)
    BY DEF TakeDelta, TakeBaseline
  <2>2. NextFacts(B, W, q)
    BY NextAt
  <2> QED
    BY <2>1, <2>2, StepSnapshot DEF NextFacts
<1>2. NextFacts(B, W, q) /\ items = After(DeltaItems(B, W), q)
  BY NextAt DEF Handled
<1>3. ReadFacts
  BY <1>1, ReadAt
<1>4. /\ x \in items /\ items' = items \ {x} /\ x.number = r /\ x.number \in Numbers
      /\ Grows /\ \A y \in items : r <= y.number
      /\ x.gone => ListingNone
      /\ ~ x.gone => Listing(Entity(x))
  BY <1>3 DEF ReadFacts
<1>5. r \in Nat /\ r # NoNumber /\ q < r
  BY <1>1, <1>2, <1>4, Constants DEF NextFacts
<1>6. x \in DeltaItems(B, W) /\ Says(B, W, x)
  BY <1>2, <1>4, ItemsSay DEF After
<1>7. /\ \A y \in DeltaItems(B, W) : y.number \in Nat
      /\ \A y \in DeltaItems(B, W) : y.number = r => y = x
  <2>1. \A y \in DeltaItems(B, W) : Says(B, W, y)
    BY ItemsSay
  <2> QED
    BY <1>4, <1>6, <2>1, ItemsOnce, Constants DEF Says, Items
<1> HIDE DEF x
<1>8. items' = After(DeltaItems(B, W), r)
  <2>1. \A y \in DeltaItems(B, W) : y.number > r <=> y \in items /\ y # x
    BY <1>2, <1>4, <1>5, <1>7 DEF After
  <2>2. items \subseteq DeltaItems(B, W)
    BY <1>2 DEF After
  <2> QED
    BY <1>4, <2>1, <2>2 DEF After
<1>9. /\ \A y \in DeltaItems(B, W) : y.number > q => y.number >= r
      /\ \A e \in B : e.number > q => e.number >= r
  <2>1. \A e \in B : e.number \in Nat
    BY WorldsAre
  <2> QED
    BY <1>1, <1>2, <1>5, <2>1 DEF NextFacts
<1>10. UpToFacts(W, q, r)
  <2>1. r \in Int /\ q < r
    BY <1>5
  <2>2. \A y \in DeltaItems(B, W) : y.number > q => y.number >= r
    BY <1>9
  <2>3. \A e \in B : e.number > q => e.number >= r
    BY <1>9
  <2> QED
    BY <2>1, <2>2, <2>3, UpToNext
<1>11. ListedTo(W, q) /\ parsing /\ newSnap'.parseEntitiesNum = newSnap.parseEntitiesNum
  BY <1>1 DEF Handled, SameSnapshot
<1>12. CASE x.gone
  <2>1. UpTo(W, r) = UpTo(W, q) /\ parseEntitiesNum' = parseEntitiesNum
    BY <1>4, <1>6, <1>10, <1>12 DEF Says, ListingNone, UpToFacts
  <2>2. r \in Int
    BY <1>5
  <2>3. (ListedTo(W, r))'
    BY <1>4, <1>11, <2>1, <2>2, ListedSame, Zenon
  <2> QED
    BY <1>2, <1>4, <1>5, <1>6, <1>8, <1>12, <2>1, <2>3 DEF x
<1>13. CASE ~ x.gone
  <2>1. PICK e : e = Entity(x) /\ e \in W /\ e.number = r /\ Listing(e)
    BY <1>4, <1>6, <1>13 DEF Says
  <2>2. UpTo(W, r) = UpTo(W, q) \cup {e} /\ parseEntitiesNum' = parseEntitiesNum + 1
    BY <1>10, <2>1 DEF Listing, UpToFacts
  <2>3. r \in Int
    BY <1>5
  <2>4. (ListedTo(W, r))'
    BY <1>4, <1>5, <1>11, <2>1, <2>2, <2>3, ListedMore, Zenon
  <2> QED
    BY <1>2, <1>4, <1>5, <1>6, <1>8, <1>13, <2>2, <2>4 DEF x
<1> QED
  BY <1>12, <1>13

(* ... against the entity of the base that has its number, *)
LEMMA HandledDelta ==
  ASSUME TypeInv, TakeDelta,
         NEW B \in Worlds \cup {{}}, NEW W \in Worlds \cup {{}}, NEW q \in Int, Handled(B, W, q)
  PROVE  \E r \in Int : (Handled(B, W, r))'
<1>1. PICK r : r = NextNumber
  OBVIOUS
<1>2. /\ r \in Int /\ q < r /\ Grows /\ r # NoNumber
      /\ (items = After(DeltaItems(B, W), r))' /\ (ListedTo(W, r))'
      /\ First.gone => parseEntitiesNum' = parseEntitiesNum
      /\ ~ First.gone => parseEntitiesNum' = parseEntitiesNum + 1
  BY <1>1, HandledItem
<1>3. oldnum = r /\ Fetch(old, oldindex + 1) /\ old' = old
  BY <1>1 DEF TakeDelta, ReadItem
<1>4. FetchFacts(old, oldindex + 1)
  BY <1>2, <1>3, FetchNext
<1>5. parseEntitiesNum' <= parseEntitiesNum + 1
  BY <1>2 DEF TypeInv, Held, PP!TypeOK
<1>6. Rest(B, W, q)
  BY DEF Handled
<1>7. (Rest(B, W, r))'
  BY <1>2, <1>3, <1>4, <1>5, <1>6, RestTaken, Zenon
<1> QED
  BY <1>2, <1>7 DEF Handled

(* ... or from the baseline, when the base has none. *)
LEMMA HandledBaseline ==
  ASSUME TypeInv, TakeBaseline,
         NEW B \in Worlds \cup {{}}, NEW W \in Worlds \cup {{}}, NEW q \in Int, Handled(B, W, q)
  PROVE  \E r \in Int : (Handled(B, W, r))'
<1>1. PICK r : r = NextNumber
  OBVIOUS
<1>2. /\ r \in Int /\ q < r /\ Grows /\ NextFacts(B, W, q)
      /\ (items = After(DeltaItems(B, W), r))' /\ (ListedTo(W, r))'
      /\ Says(B, W, First) /\ First.number = r
      /\ ~ First.gone => parseEntitiesNum' = parseEntitiesNum + 1
  BY <1>1, HandledItem
<1>3. oldnum > r /\ UNCHANGED <<old, oldindex, oldstate, oldnum>>
  BY <1>1 DEF TakeBaseline, ReadItem
<1>4. r \notin NumbersOf(B)
  <2> SUFFICES ASSUME NEW e \in B, e.number = r PROVE FALSE
    BY DEF NumbersOf
  <2> QED
    BY <1>2, <1>3 DEF NextFacts
<1>5. ~ First.gone
  BY <1>2, <1>4 DEF Says, NumbersOf
<1>6. r \in NumbersOf(W) \ NumbersOf(B)
  BY <1>2, <1>4, <1>5 DEF Says, NumbersOf
<1>7. Rest(B, W, q)
  BY DEF Handled
<1>8. (Rest(B, W, r))'
  BY <1>2, <1>3, <1>5, <1>6, <1>7, RestKept, Zenon
<1> QED
  BY <1>2, <1>8 DEF Handled

-----------------------------------------------------------------------------
(* Worlds are kept: the snapshots that are stored ... *)

(* Snapshot p describes world w, as long as it is all in the ring.         *)
Holds(p, w) ==
  p.parseEntitiesNum >= parseEntitiesNum - RingSize =>
    /\ Look(p.parseEntitiesNum, p.parseEntitiesNum + p.numEntities) = w
    /\ Increasing(p.parseEntitiesNum, p.parseEntitiesNum + p.numEntities)

Stored ==
  \A s \in Slots, p \in Snapshots :
    p = snapshots[s] /\ p.valid /\ p.messageNum \in DOMAIN sent =>
      Holds(p, sent[p.messageNum])

(* A snapshot that holds a world holds it while the ring grows. *)
LEMMA HoldsStays ==
  ASSUME Held, Grows, NEW p, Parsed(p), NEW w, Holds(p, w)
  PROVE  (Holds(p, w))'
<1>1. PICK a \in Nat, b \in Nat, n \in Nat, m \in Nat :
        /\ a = p.parseEntitiesNum /\ b = p.parseEntitiesNum + p.numEntities
        /\ n = parseEntitiesNum /\ m = parseEntitiesNum' /\ b <= n /\ n <= m
  BY DEF Parsed, Snapshots, Held, Grows, PP!TypeOK
<1>2. ASSUME a >= m - RingSize
      PROVE  (Look(a, b))' = w /\ (Increasing(a, b))'
  <2>1. a >= n - RingSize
    BY <1>1, <1>2, Constants
  <2>2. Look(a, b) = w /\ Increasing(a, b)
    BY <1>1, <2>1 DEF Holds
  <2> QED
    BY <1>1, <1>2, <2>2, LookStays
<1> QED
  BY <1>1, <1>2 DEF Holds

(* ... stay what they are while nothing is stored, *)
LEMMA StoredKept ==
  ASSUME TypeInv, SlotInv, Grows, Stored, UNCHANGED snapshots,
         UNCHANGED sent \/ \E w \in Worlds : Send(w)
  PROVE  Stored'
<1> SUFFICES ASSUME NEW s \in Slots, NEW p \in Snapshots,
                    p = snapshots[s], p.valid, p.messageNum \in DOMAIN sent'
             PROVE  (Holds(p, sent[p.messageNum]))'
  BY DEF Stored
<1>1. p.messageNum \in Nat /\ p.messageNum <= serverMessageSequence
      /\ serverMessageSequence \in Nat
  BY DEF SlotInv, SlotsFresh, TypeInv, ServerInv, ReaderInv, Snapshots
<1>2. p.messageNum \in DOMAIN sent /\ sent'[p.messageNum] = sent[p.messageNum]
  <2>1. CASE \E w \in Worlds : Send(w)
    <3>1. \A k \in DOMAIN sent' : k # serverMessageSequence + 1 =>
            k \in DOMAIN sent /\ sent'[k] = sent[k]
      BY <2>1, SendAt DEF TypeInv
    <3> QED
      BY <1>1, <3>1
  <2> QED
    BY <2>1
<1>3. PICK w : w = sent[p.messageNum] /\ Holds(p, w)
  BY <1>2 DEF Stored
<1>4. Parsed(p)
  BY DEF TypeInv, ReaderInv
<1>5. (Holds(p, w))'
  BY <1>3, <1>4, HoldsStays DEF TypeInv
<1> QED
  BY <1>2, <1>3, <1>5 DEF Holds

(* ... and the snapshot that is stored is the world it was sent for. *)
LEMMA StoredMore ==
  ASSUME TypeInv, SlotInv, Grows, Stored, Merging, Store
  PROVE  Stored'
<1> DEFINE m == newSnap.messageNum
<1>1. /\ StoreFacts /\ parsing /\ items = {} /\ oldnum = NoNumber
      /\ m \in DOMAIN sent /\ SlotOf(m) \in Slots /\ newSnap.valid
  BY StoreAt DEF StoreFacts
<1>2. sent' = sent
  BY <1>1 DEF StoreFacts
<1>3. PICK W \in Worlds : W = sent[m]
  BY <1>1 DEF TypeInv, ServerInv
<1>4. PICK B \in Worlds \cup {{}}, q \in Int : Handled(B, W, q)
  BY <1>1, <1>3 DEF Merging
<1>5. NextFacts(B, W, q) /\ NextNumber = NoNumber
  BY <1>1, <1>4, NextAt DEF NextNumber
<1>6. UpTo(W, q) = W
  <2>1. \A e \in W : e.number <= q \/ e.number >= NoNumber
    BY <1>1, <1>5, NoneBetween, Constants DEF NextFacts
  <2>2. \A e \in W : e.number \in Nat /\ e.number < NoNumber
    BY WorldsAre
  <2> QED
    BY <2>1, <2>2, Constants DEF UpTo
<1>7. PICK p \in Snapshots, a \in Nat, n \in Nat :
        /\ p = newSnap /\ a = p.parseEntitiesNum /\ n = p.parseEntitiesNum + p.numEntities
        /\ n = parseEntitiesNum
  BY <1>1 DEF TypeInv, ReaderInv, Snapshots
<1>8. a >= n - RingSize => Look(a, n) = W /\ Increasing(a, n)
  BY <1>4, <1>6, <1>7 DEF Handled, ListedTo, ListedAt
<1>9. Holds(p, W) /\ Parsed(p)
  BY <1>7, <1>8 DEF Holds, Parsed
<1>10. (Holds(p, W))'
  BY <1>9, HoldsStays DEF TypeInv
<1> HIDE DEF m
<1> SUFFICES ASSUME NEW s \in Slots, NEW r \in Snapshots,
                    r = snapshots'[s], r.valid, r.messageNum \in DOMAIN sent
             PROVE  (Holds(r, sent[r.messageNum]))'
  BY <1>2 DEF Stored
<1>11. CASE s = SlotOf(m)
  <2>1. r = p /\ sent[r.messageNum] = W
    BY <1>1, <1>3, <1>7, <1>11 DEF StoreFacts, m
  <2> QED
    BY <1>2, <1>10, <2>1 DEF Holds
<1>12. CASE s # SlotOf(m)
  <2>1. r = snapshots[s] /\ Parsed(r)
    <3>1. r = [snapshots[s] EXCEPT !.valid = FALSE] \/ r = snapshots[s]
      BY <1>1, <1>12 DEF StoreFacts, m
    <3> QED
      BY <3>1 DEF TypeInv, ReaderInv, Snapshots
  <2>2. PICK w : w = sent[r.messageNum] /\ Holds(r, w)
    BY <2>1 DEF Stored
  <2>3. (Holds(r, w))'
    BY <2>1, <2>2, HoldsStays DEF TypeInv
  <2> QED
    BY <1>2, <2>2, <2>3 DEF Holds
<1> QED
  BY <1>11, <1>12

(* Nothing is handled before the first entity. *)
LEMMA Untouched ==
  ASSUME NEW B \in Worlds \cup {{}}, NEW W \in Worlds \cup {{}}
  PROVE  /\ After(DeltaItems(B, W), -1) = DeltaItems(B, W)
         /\ After(B, -1) = B /\ UpTo(W, -1) = {}
         /\ Coming(B, W, -1) = NumbersOf(W) \ NumbersOf(B)
<1>1. \A x \in DeltaItems(B, W) : x.number \in Nat
  <2>1. \A x \in DeltaItems(B, W) : Says(B, W, x)
    BY ItemsSay
  <2> QED
    BY <2>1, Constants DEF Says, Items
<1>2. /\ \A e \in B : e.number \in Nat
      /\ \A e \in W : e.number \in Nat
      /\ \A k \in NumbersOf(W) : k \in Nat
  BY WorldsAre, Constants
<1> QED
  BY <1>1, <1>2 DEF After, UpTo, Coming

(* A snapshot is begun without a base, *)
LEMMA FullStarts ==
  ASSUME TypeInv, NEW w \in Worlds, ParseFull(w)
  PROVE  Merging'
<1> DEFINE m == serverMessageSequence + 1
<1>1. FetchFacts(ZeroSnap, 0) /\ UNCHANGED poolVars
  BY FullTypes
<1>2. Arrive(w) /\ items' = DeltaItems({}, w) /\ StartParse(serverMessageSequence', TRUE, ZeroSnap)
  BY DEF ParseFull
<1>3. /\ newSnap' = [valid |-> TRUE, messageNum |-> serverMessageSequence',
                     parseEntitiesNum |-> parseEntitiesNum, numEntities |-> 0]
      /\ old' = ZeroSnap
  BY <1>2 DEF StartParse
<1>4. serverMessageSequence' = m /\ sent'[m] = w
  BY <1>2, SendAt DEF Arrive, TypeInv
<1>5. /\ sent'[newSnap'.messageNum] = w /\ newSnap'.parseEntitiesNum = parseEntitiesNum
      /\ old'.parseEntitiesNum = 0 /\ old'.numEntities = 0
      /\ oldindex' = 0 /\ oldnum' = NoNumber
  BY <1>1, <1>3, <1>4 DEF FetchFacts, ZeroSnap
<1>6. PICK q \in Int : q = -1
  OBVIOUS
<1>7. PICK B \in Worlds \cup {{}} : B = {}
  OBVIOUS
<1>8. /\ items' = After(DeltaItems(B, w), q) /\ After(B, q) = {} /\ UpTo(w, q) = {}
  BY <1>2, <1>6, <1>7, Untouched
<1>9. (Rest(B, w, q))'
  <2>1. (RestAt(0, 0, B, w, q))'
    BY <1>5, <1>8 DEF RestAt, Look, Increasing
  <2> QED
    BY <1>5, <2>1 DEF Rest
<1>10. (ListedTo(w, q))'
  <2>1. parseEntitiesNum' = parseEntitiesNum /\ parseEntitiesNum \in Nat
    BY <1>1 DEF poolVars, TypeInv, Held, PP!TypeOK
  <2>2. ASSUME NEW n \in Nat PROVE (ListedAt(n, n, w, q))'
    BY <1>8 DEF ListedAt, Look, Increasing
  <2> QED
    BY <1>5, <2>1, <2>2 DEF ListedTo
<1>11. (Handled(B, w, q))'
  BY <1>8, <1>9, <1>10 DEF Handled
<1> QED
  BY <1>5, <1>11 DEF Merging

(* ... or against the one the server took, all of which is in the ring and *)
(* stays there long enough.                                                *)
LEMMA DeltaStarts ==
  ASSUME TypeInv, SlotInv, Stored, FromAcked, MarginEnough,
         NEW w \in Worlds, NEW d \in DOMAIN sent, ParseDelta(w, d)
  PROVE  Merging'
<1> DEFINE m == serverMessageSequence + 1
<1>1. DeltaFacts(w, d)
  BY DeltaAt
<1>2. PICK p \in Snapshots : p = snapshots[SlotOf(d)] /\ old' = p /\ Parsed(p)
  BY <1>1 DEF DeltaFacts, TypeInv, ReaderInv
<1>3. FetchFacts(p, 0) /\ Grows
  <2>1. Chosen(d, m) = d
    BY <1>1 DEF DeltaFacts, Chosen
  <2>2. FetchFacts(snapshots[SlotOf(Chosen(d, m))], 0) /\ Grows
    BY DeltaTypes
  <2> QED
    BY <1>2, <2>1, <2>2 DEF FetchFacts
<1>4. sent'[newSnap'.messageNum] = w
  BY <1>1, SendAt DEF DeltaFacts, TypeInv
<1>5. PICK B \in Worlds \cup {{}} : B = sent[d]
  BY DEF TypeInv, ServerInv
<1>6. PICK q \in Int : q = -1
  OBVIOUS
<1>7. /\ items' = After(DeltaItems(B, w), q) /\ After(B, q) = B /\ UpTo(w, q) = {}
      /\ Coming(B, w, q) = NumbersOf(w) \ NumbersOf(B)
  BY <1>1, <1>5, <1>6, Untouched DEF DeltaFacts
<1>8. PICK t \in Nat, u \in Nat, n \in Nat :
        /\ t = p.parseEntitiesNum /\ u = p.parseEntitiesNum + p.numEntities
        /\ n = parseEntitiesNum /\ n = parseEntitiesNum' /\ u <= n
  BY <1>1, <1>2 DEF Parsed, Snapshots, DeltaFacts, poolVars, TypeInv, Held, PP!TypeOK
<1>9. /\ newSnap'.parseEntitiesNum = n
      /\ newSnap'.valid => n - t <= RingSize - ParseMargin
  BY <1>1, <1>2, <1>8 DEF DeltaFacts
<1>10. (ListedTo(w, q))'
  <2>1. (ListedAt(n, n, w, q))'
    BY <1>7 DEF ListedAt, Look, Increasing
  <2> QED
    BY <1>8, <1>9, <2>1 DEF ListedTo
<1>11. ASSUME n - t <= RingSize - ParseMargin
       PROVE  (RestAt(t, u, B, w, q))'
  <2>1. t >= n - RingSize
    BY <1>11, Constants
  <2>2. Holds(p, B)
    BY <1>1, <1>2, <1>5 DEF DeltaFacts, Stored
  <2>3. Look(t, u) = B /\ Increasing(t, u)
    BY <1>8, <2>1, <2>2 DEF Holds
  <2>4. (Look(t, u))' = B /\ (Increasing(t, u))'
    BY <1>3, <1>8, <2>1, <2>3, LookStays DEF TypeInv
  <2>5. t < u <=> 0 < p.numEntities
    BY <1>8 DEF Snapshots
  <2>6. CASE t < u
    <3>1. oldstate' = (PP!SlotOf(t))' /\ oldnum' = (PP!EntityAt(t))'.number
      BY <1>3, <1>8, <2>5, <2>6 DEF FetchFacts
    <3>2. B # {}
      BY <2>3, <2>6, LookRest
    <3>3. Cardinality(Coming(B, w, q)) <= ParseMargin /\ Cardinality(Coming(B, w, q)) \in Nat
      <4>1. B \in Worlds
        BY <3>2
      <4>2. q < q + 1 /\ q + 1 \in Int
        OBVIOUS
      <4> QED
        BY <1>7, <3>2, <4>1, <4>2, ComingLess DEF MarginEnough
    <3>4. n - t + Cardinality(Coming(B, w, q)) <= RingSize
      BY <1>11, <3>3, Constants
    <3> QED
      BY <1>7, <1>8, <2>4, <2>6, <3>1, <3>4 DEF RestAt
  <2>7. CASE ~ (t < u)
    <3>1. oldnum' = NoNumber
      BY <1>3, <2>5, <2>7 DEF FetchFacts, Snapshots
    <3> QED
      BY <1>7, <2>4, <2>7, <3>1 DEF RestAt
  <2> QED
    BY <2>6, <2>7
<1>12. newSnap'.valid => (Rest(B, w, q))'
  <2>1. t = old'.parseEntitiesNum + oldindex' /\ u = old'.parseEntitiesNum + old'.numEntities
    BY <1>2, <1>3, <1>8 DEF FetchFacts, Snapshots
  <2> QED
    BY <1>9, <1>11, <2>1 DEF Rest
<1>13. newSnap'.valid => (Handled(B, w, q))'
  BY <1>7, <1>10, <1>12 DEF Handled
<1> QED
  BY <1>4, <1>13 DEF Merging

(* A step that changes nothing keeps the merge where it is. *)
LEMMA MergingSame ==
  ASSUME UNCHANGED vars, Merging
  PROVE  Merging'
<1> USE DEF vars, poolVars, serverVars, storedVars, parseVars
<1>1. ASSUME NEW B, NEW W, NEW q, Handled(B, W, q)
      PROVE  (Handled(B, W, q))'
  <2>1. /\ \A a, b : (Look(a, b))' = Look(a, b)
        /\ \A a, b : (Increasing(a, b))' <=> Increasing(a, b)
        /\ \A t : (PP!SlotOf(t))' = PP!SlotOf(t) /\ (PP!EntityAt(t))' = PP!EntityAt(t)
    BY DEF Look, Increasing, PP!EntityAt, PP!SlotOf
  <2>2. (Rest(B, W, q))'
    BY <1>1, <2>1 DEF Handled, Rest, RestAt
  <2>3. (ListedTo(W, q))'
    BY <1>1, <2>1 DEF Handled, ListedTo, ListedAt
  <2> QED
    BY <1>1, <2>2, <2>3 DEF Handled
<1> QED
  BY <1>1 DEF Merging

(* The entity of a snapshot that is being read. *)
LEMMA MergingStep ==
  ASSUME TypeInv, Merging, TakeUnchanged \/ TakeDelta \/ TakeBaseline
  PROVE  Merging'
<1>1. SameSnapshot
  BY StepSnapshot
<1>2. newSnap.messageNum \in DOMAIN sent
  BY <1>1, Constants DEF SameSnapshot, TypeInv, ReaderInv, ServerInv, Window
<1>3. PICK W \in Worlds : W = sent[newSnap.messageNum] /\ W = sent'[newSnap'.messageNum]
  BY <1>1, <1>2 DEF SameSnapshot, serverVars, TypeInv, ServerInv
<1> SUFFICES ASSUME newSnap.valid
             PROVE  \E B \in Worlds \cup {{}}, q \in Int : (Handled(B, W, q))'
  BY <1>1, <1>3 DEF Merging, SameSnapshot
<1>4. PICK B \in Worlds \cup {{}}, q \in Int : Handled(B, W, q)
  BY <1>1, <1>3 DEF Merging, SameSnapshot
<1>5. CASE TakeUnchanged
  BY <1>4, <1>5, HandledUnchanged
<1>6. CASE TakeDelta
  BY <1>4, <1>6, HandledDelta
<1>7. CASE TakeBaseline
  BY <1>4, <1>7, HandledBaseline
<1> QED
  BY <1>5, <1>6, <1>7

(* The inductive invariant. *)
WorldInv == TypeInv /\ SlotInv /\ Stored /\ Merging

(* What the snapshots hold, at the start. *)
LEMMA InitWorlds == Init => WorldInv
<1> SUFFICES ASSUME Init PROVE WorldInv
  OBVIOUS
<1>1. /\ \A s \in Slots : ~ snapshots[s].valid
      /\ ~ parsing
  BY DEF Init, ZeroSnap
<1> QED
  BY <1>1, InitTypes, InitSlots DEF WorldInv, Stored, Merging

(* Every step keeps WorldInv. *)
LEMMA WorldsNext ==
  ASSUME FromAcked, MarginEnough, WorldInv, [Next]_vars
  PROVE  WorldInv'
<1>1. TypeInv' /\ Grows /\ SlotInv'
  BY TypeNext, SlotsNext DEF WorldInv
<1>2. TypeInv /\ SlotInv /\ Stored /\ Merging
  BY DEF WorldInv
<1>3. CASE UNCHANGED vars
  BY <1>1, <1>2, <1>3, MergingSame, StoredKept DEF vars, serverVars, storedVars, WorldInv
<1>4. ASSUME NEW w \in Worlds, Send(w), UNCHANGED storedVars
      PROVE  Stored'
  BY <1>1, <1>2, <1>4, StoredKept DEF storedVars
<1>5. CASE \E w \in Worlds : Lose(w)
  <2>1. Stored' /\ ~ parsing'
    BY <1>4, <1>5 DEF Lose
  <2> QED
    BY <1>1, <2>1 DEF WorldInv, Merging
<1>6. CASE \E w \in Worlds : ParseFull(w)
  <2>1. Stored'
    BY <1>4, <1>6 DEF ParseFull, Arrive, StartParse
  <2> QED
    BY <1>1, <1>2, <1>6, <2>1, FullStarts DEF WorldInv
<1>7. CASE \E w \in Worlds, d \in DOMAIN sent : ParseDelta(w, d)
  <2>1. Stored'
    BY <1>4, <1>7 DEF ParseDelta, Arrive, StartParse
  <2> QED
    BY <1>1, <1>2, <1>7, <2>1, DeltaStarts DEF WorldInv
<1>8. CASE TakeUnchanged \/ TakeDelta \/ TakeBaseline
  <2>1. UNCHANGED <<serverVars, storedVars>>
    BY <1>2, <1>8, StepSnapshot DEF SameSnapshot
  <2>2. Stored'
    BY <1>1, <1>2, <2>1, StoredKept DEF serverVars, storedVars
  <2> QED
    BY <1>1, <1>2, <1>8, <2>2, MergingStep DEF WorldInv
<1>9. CASE Dump
  <2>1. ~ parsing' /\ UNCHANGED <<sent, snapshots>>
    BY <1>9 DEF Dump, serverVars, storedVars
  <2>2. Stored'
    BY <1>1, <1>2, <2>1, StoredKept
  <2> QED
    BY <1>1, <2>1, <2>2 DEF WorldInv, Merging
<1>10. CASE Store
  <2>1. Stored' /\ ~ parsing'
    BY <1>1, <1>2, <1>10, StoredMore DEF Store
  <2> QED
    BY <1>1, <2>1 DEF WorldInv, Merging
<1> QED
  BY <1>3, <1>5, <1>6, <1>7, <1>8, <1>9, <1>10 DEF Next

(* WorldInv is an invariant. *)
LEMMA WorldsAlways ==
  ASSUME FromAcked, MarginEnough
  PROVE  Spec => []WorldInv
<1>1. Init => WorldInv
  BY InitWorlds
<1>2. WorldInv /\ [Next]_vars => WorldInv'
  BY WorldsNext
<1> QED
  BY <1>1, <1>2, PTL DEF Spec

(* A snapshot that would be accepted as a base is the world the server     *)
(* sent: through any chain of deltas, any losses, the ring and the shared  *)
(* pool, if the server deltas from what arrived and no message outgrows    *)
(* the margin.                                                             *)
THEOREM ExactSnapshots ==
  ASSUME FromAcked, MarginEnough
  PROVE  Spec => []ValidExact
<1>1. ASSUME WorldInv PROVE ValidExact
  <2> SUFFICES ASSUME NEW s \in Slots, NEW p \in Snapshots, p = snapshots[s],
                      Usable(p.messageNum), p.messageNum \in DOMAIN sent
               PROVE  Contents(p) = sent[p.messageNum]
    BY <1>1 DEF ValidExact, WorldInv, TypeInv, ReaderInv
  <2>1. p.messageNum > 0 /\ p.messageNum \in Nat
    BY <1>1 DEF WorldInv, TypeInv, ServerInv, Window, Snapshots
  <2>2. SlotOf(p.messageNum) = s
    BY <1>1, <2>1 DEF WorldInv, SlotInv
  <2>3. p.valid /\ parseEntitiesNum - p.parseEntitiesNum <= RingSize - ParseMargin
    BY <2>2 DEF Usable
  <2>4. p.parseEntitiesNum >= parseEntitiesNum - RingSize
    BY <1>1, <2>3, Constants DEF Snapshots, WorldInv, TypeInv, Held, PP!TypeOK
  <2>5. Look(p.parseEntitiesNum, p.parseEntitiesNum + p.numEntities) = sent[p.messageNum]
    BY <1>1, <2>3, <2>4 DEF WorldInv, Stored, Holds
  <2> QED
    BY <2>5, ContentsAre
<1> QED
  BY <1>1, WorldsAlways, PTL

(* While a valid snapshot is parsed, the entity store is used as           *)
(* EntityPool says: an entity that is taken unchanged is still listed.     *)
THEOREM PoolUsedAsMeant ==
  ASSUME FromAcked, MarginEnough
  PROVE  Spec => PoolUsed
<1>1. ASSUME WorldInv, [Next]_vars
      PROVE  [newSnap.valid => Pool!Operation]_poolVars
  <2> SUFFICES ASSUME newSnap.valid, ~ UNCHANGED poolVars
               PROVE  PP!Operation
    BY SamePool
  <2>1. TypeInv /\ Merging
    BY <1>1 DEF WorldInv
  <2>2. CASE TakeUnchanged
    <3>1. PICK W \in Worlds : W = sent[newSnap.messageNum]
      BY <2>1, <2>2, Constants DEF TakeUnchanged, TypeInv, ReaderInv, ServerInv, Window
    <3>2. PICK B \in Worlds \cup {{}}, q \in Int : Handled(B, W, q)
      BY <2>1, <2>2, <3>1 DEF Merging, TakeUnchanged
    <3> QED
      BY <2>1, <2>2, <3>2, HandledUnchanged
  <2>3. CASE TakeDelta \/ TakeBaseline
    <3>1. ReadItem /\ items # {}
      BY <2>3 DEF TakeDelta, TakeBaseline
    <3>2. Entity(First) \in EntityStates /\ RemovedEntity \in EntityStates
      BY <2>1, <3>1, ReadAt, Constants DEF ReadFacts
    <3>3. PP!Removed(RemovedEntity) \/ PP!Changed(Entity(First), FALSE)
      BY <3>1, SamePool DEF ReadItem, Entity
    <3> QED
      BY <3>2, <3>3 DEF PP!Operation
  <2>4. CASE UNCHANGED vars
    BY <2>4 DEF vars
  <2>5. CASE \/ \E w \in Worlds : Lose(w) \/ ParseFull(w)
             \/ \E w \in Worlds, d \in DOMAIN sent : ParseDelta(w, d)
             \/ Dump \/ Store
    BY <2>5 DEF Lose, ParseFull, ParseDelta, StartParse, Dump, Store
  <2> QED
    BY <1>1, <2>2, <2>3, <2>4, <2>5 DEF Next
<1>2. WorldInv /\ [Next]_vars => [newSnap.valid => Pool!Operation]_poolVars
  BY <1>1
<1>3. Spec => [][newSnap.valid => Pool!Operation]_poolVars
  BY <1>2, WorldsAlways, PTL DEF Spec
<1> QED
  BY <1>3 DEF PoolUsed
=============================================================================
