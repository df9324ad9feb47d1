----------------------------- MODULE EntityPool -----------------------------
(***************************************************************************)
(* The entity store of a demo reader: CL_DeltaEntity of                    *)
(* src/JKDemoMetadata/cl_parse.cpp over the fields of demoContext_t in     *)
(* src/JKDemoMetadata/demo_common.h.                                       *)
(*                                                                         *)
(* The last RingSize parsed entities are reached through a ring of         *)
(* pointers into a larger circular pool of states.  An entity that did not *)
(* change shares the state of its predecessor (the pointer is copied)      *)
(* unless that state is RefreshAge allocations old, when it is copied      *)
(* forward to a fresh pool slot.  Every state has a version, and a state   *)
(* copied forward keeps its version.                                       *)
(*                                                                         *)
(* The counters are 32 bits wide in the code.  They are only used modulo   *)
(* a power of two or in differences, so they are unbounded here.           *)
(***************************************************************************)
EXTENDS Integers

CONSTANTS RingSize,      \* MAX_PARSE_ENTITIES (2048)
          PoolSize,      \* ENTITY_POOL_SIZE (65536)
          RefreshAge,    \* ENTITY_POOL_SIZE - 32768: the age that forces a copy
          EntityStates,  \* the values an entity can have
          ZeroState,     \* the value of zeroed memory
          MaxParsed      \* bound: entities parsed in a behaviour

ASSUME RingAssumption == RingSize \in Nat \ {0}
ASSUME PoolAssumption == /\ PoolSize \in Nat \ {0}
                         /\ RefreshAge \in Nat \ {0}
                         /\ RefreshAge + RingSize <= PoolSize
ASSUME StateAssumption == ZeroState \in EntityStates
ASSUME BoundAssumption == MaxParsed \in Nat

VARIABLES
  parseEntitiesNum,         \* cl.parseEntitiesNum
  parseEntityPtr,           \* ring slot -> pool slot (a pointer in the code)
  parseEntityVersion,       \* ring slot -> version
  parseEntitiesFloatForced, \* ring slot -> has the entity forced fields?
  entityPool,               \* pool slot -> state
  entityPoolSlotIdx,        \* pool slot -> the allocation it holds
  entityPoolSlotVer,        \* pool slot -> version
  entityPoolIdx,            \* the last allocation
  g_nextEntityVersion       \* the last version handed out

ringVars == <<parseEntityPtr, parseEntityVersion, parseEntitiesFloatForced>>
poolVars == <<entityPool, entityPoolSlotIdx, entityPoolSlotVer, entityPoolIdx>>
vars == <<parseEntitiesNum, ringVars, poolVars, g_nextEntityVersion>>

RingSlots == 0 .. RingSize - 1
PoolSlots == 0 .. PoolSize - 1
NoSlot    == -1              \* a NULL pointer
NoVersion == 0

RingSlot(t) == t % RingSize  \* where the entity with parse index t is listed
PoolSlot(i) == i % PoolSize  \* where allocation i is stored

(* Parse indices whose ring slot has not been taken by a later entity. *)
Live == {t \in 0 .. parseEntitiesNum - 1 : t >= parseEntitiesNum - RingSize}

SlotOf(t)    == parseEntityPtr[RingSlot(t)]
EntityAt(t)  == entityPool[SlotOf(t)]
VersionAt(t) == parseEntityVersion[RingSlot(t)]
ForcedAt(t)  == parseEntitiesFloatForced[RingSlot(t)]

-----------------------------------------------------------------------------
Init ==
  /\ parseEntitiesNum = 0
  /\ parseEntityPtr = [s \in RingSlots |-> NoSlot]
  /\ parseEntityVersion = [s \in RingSlots |-> NoVersion]
  /\ parseEntitiesFloatForced = [s \in RingSlots |-> FALSE]
  /\ entityPool = [p \in PoolSlots |-> ZeroState]
  /\ entityPoolSlotIdx = [p \in PoolSlots |-> 0]
  /\ entityPoolSlotVer = [p \in PoolSlots |-> NoVersion]
  /\ entityPoolIdx = 0
  /\ g_nextEntityVersion = 1

(* List pool slot p with version v as the next parsed entity. *)
List(p, v, forced) ==
  LET dst == RingSlot(parseEntitiesNum)
  IN  /\ parseEntityPtr' = [parseEntityPtr EXCEPT ![dst] = p]
      /\ parseEntityVersion' = [parseEntityVersion EXCEPT ![dst] = v]
      /\ parseEntitiesFloatForced' =
           [parseEntitiesFloatForced EXCEPT ![dst] = forced]
      /\ parseEntitiesNum' = parseEntitiesNum + 1

(* Store state e with version v as the next allocation. *)
Allocate(e, v) ==
  LET i == entityPoolIdx + 1
  IN  /\ entityPoolIdx' = i
      /\ entityPool' = [entityPool EXCEPT ![PoolSlot(i)] = e]
      /\ entityPoolSlotIdx' = [entityPoolSlotIdx EXCEPT ![PoolSlot(i)] = i]
      /\ entityPoolSlotVer' = [entityPoolSlotVer EXCEPT ![PoolSlot(i)] = v]

(* A mistake: states are never copied forward. *)
NeverStale(p) == FALSE

(* A mistake: the age is compared after the allocation it would cause. *)
StaleLate(p) == entityPoolIdx - entityPoolSlotIdx[p] > RefreshAge

(* Is the state behind pool slot p so old that it must be copied forward? *)
Stale(p) == entityPoolIdx - entityPoolSlotIdx[p] >= RefreshAge

(* A mistake: the forced fields of the slot's last entity are kept. *)
ShareForced(p) ==
  /\ ~ Stale(p)
  /\ List(p, entityPoolSlotVer[p],
          parseEntitiesFloatForced[RingSlot(parseEntitiesNum)])
  /\ UNCHANGED <<poolVars, g_nextEntityVersion>>

(* The entity behind pool slot p did not change, and its state is shared. *)
Share(p) ==
  /\ ~ Stale(p)
  /\ List(p, entityPoolSlotVer[p], FALSE)
  /\ UNCHANGED <<poolVars, g_nextEntityVersion>>

(* The entity behind pool slot p did not change; its state is copied to a *)
(* fresh slot.  The copy keeps the version.                               *)
Refresh(p) ==
  /\ Stale(p)
  /\ Allocate(entityPool[p], entityPoolSlotVer[p])
  /\ List(PoolSlot(entityPoolIdx + 1), entityPoolSlotVer[p], FALSE)
  /\ UNCHANGED g_nextEntityVersion

Unchanged(p) == Share(p) \/ Refresh(p)

(* A delta was read: the state it yields is e, whatever it was against.  *)
Changed(e, forced) ==
  LET v == g_nextEntityVersion + 1
  IN  /\ g_nextEntityVersion' = v
      /\ Allocate(e, v)
      /\ List(PoolSlot(entityPoolIdx + 1), v, forced)

(* A mistake: the allocation is taken back without having been made. *)
RemovedTwice(e) ==
  /\ entityPool' = [entityPool EXCEPT ![PoolSlot(entityPoolIdx + 1)] = e]
  /\ entityPoolIdx' = entityPoolIdx - 1
  /\ UNCHANGED <<parseEntitiesNum, ringVars, entityPoolSlotIdx,
                 entityPoolSlotVer, g_nextEntityVersion>>

(* A delta remove was read: the next pool slot has been scribbled on (it *)
(* holds a state numbered MAX_GENTITIES - 1, any state here), and the    *)
(* allocation is taken back.  Nothing is listed.                         *)
Removed(e) ==
  /\ entityPool' = [entityPool EXCEPT ![PoolSlot(entityPoolIdx + 1)] = e]
  /\ parseEntityVersion' =
       [parseEntityVersion EXCEPT ![RingSlot(parseEntitiesNum)] = NoVersion]
  /\ UNCHANGED <<parseEntitiesNum, parseEntityPtr, parseEntitiesFloatForced,
                 entityPoolSlotIdx, entityPoolSlotVer, entityPoolIdx,
                 g_nextEntityVersion>>

(* The old frame an entity is taken from lies within the ring: its first *)
(* index is compared with parseEntitiesNum before the frame is parsed.   *)
Operation ==
  \/ \E t \in Live : Unchanged(SlotOf(t))
  \/ \E e \in EntityStates, forced \in BOOLEAN : Changed(e, forced)
  \/ \E e \in EntityStates : Removed(e)

Next == Operation /\ parseEntitiesNum' <= MaxParsed

Spec == Init /\ [][Next]_vars

-----------------------------------------------------------------------------
TypeOK ==
  /\ parseEntitiesNum \in Nat
  /\ parseEntityPtr \in [RingSlots -> PoolSlots \cup {NoSlot}]
  /\ parseEntityVersion \in [RingSlots -> Nat]
  /\ parseEntitiesFloatForced \in [RingSlots -> BOOLEAN]
  /\ entityPool \in [PoolSlots -> EntityStates]
  /\ entityPoolSlotIdx \in [PoolSlots -> Nat]
  /\ entityPoolSlotVer \in [PoolSlots -> Nat]
  /\ entityPoolIdx \in Nat
  /\ g_nextEntityVersion \in Nat

(* Every live entity still has a pool slot that holds its own allocation,  *)
(* recent enough that neither the next allocation nor a scribble can hit   *)
(* it before the entity leaves the ring.  CL_DeltaEntity bounds the age    *)
(* only when the entity is parsed; every later entity can add one to it.   *)
PoolSlotHeld ==
  \A t \in Live :
    LET p == SlotOf(t)
    IN  /\ p \in PoolSlots
        /\ p = PoolSlot(entityPoolSlotIdx[p])
        /\ entityPoolSlotIdx[p] <= entityPoolIdx
        /\ entityPoolIdx - entityPoolSlotIdx[p] + 2
             <= RefreshAge + (parseEntitiesNum - t)

(* A version is given to one value only, and goes with it: copies share it *)
(* or carry it forward, and a copy forces no field.                        *)
VersionsTraced ==
  /\ \A p \in PoolSlots : entityPoolSlotVer[p] <= g_nextEntityVersion
  /\ \A t \in Live : VersionAt(t) \in {NoVersion, entityPoolSlotVer[SlotOf(t)]}
  /\ \A t, u \in Live :
       entityPoolSlotVer[SlotOf(t)] = entityPoolSlotVer[SlotOf(u)]
         => EntityAt(t) = EntityAt(u) /\ (t < u => ~ ForcedAt(u))

(* The inductive invariant. *)
IInv == TypeOK /\ PoolSlotHeld /\ VersionsTraced

(* SV_EmitPacketEntities writes nothing for an entity whose version equals *)
(* that of the entity it is a delta from.  That is right if equal versions *)
(* mean equal states, and the later of the two forces no field.            *)
VersionSound ==
  \A t, u \in Live :
    (t < u /\ VersionAt(t) # NoVersion /\ VersionAt(t) = VersionAt(u))
      => EntityAt(t) = EntityAt(u) /\ ~ ForcedAt(u)

(* An entity that has been parsed never changes while it can be reached,   *)
(* although others share its pool slot and the pool keeps being written.   *)
LiveStable ==
  [][\A t \in Live \cap Live' : EntityAt(t)' = EntityAt(t)]_vars

(* The pool and the pointers implement a plain ring of values. *)
Ring == INSTANCE EntityRing
          WITH num <- parseEntitiesNum,
               entities <- [t \in Live |-> EntityAt(t)]
RingSpec == Ring!Spec
=============================================================================
