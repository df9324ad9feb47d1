-------------------------- MODULE EntityPoolProofs --------------------------
(***************************************************************************)
(* For every ring size, pool size and refresh age with                     *)
(* RefreshAge + RingSize <= PoolSize: an entity that is still listed in    *)
(* the ring keeps its value, equal versions mean equal values, and the     *)
(* pool with its pointers implements a plain ring of values.               *)
(***************************************************************************)
EXTENDS EntityPool, TLAPS

-----------------------------------------------------------------------------
(* Residues. *)

(* A larger factor makes a product larger by N at least. *)
LEMMA MulMonotone ==
  \A N \in Nat \ {0}, p, q \in Int : p < q => N * q >= N * p + N
  BY SMT

(* Quotient and remainder make the number again. *)
LEMMA DivMod ==
  \A N \in Nat \ {0}, a \in Int :
    /\ a = N * (a \div N) + (a % N)
    /\ a % N \in 0 .. N - 1
    /\ a \div N \in Int
  BY SMT

(* Numbers closer than N have different residues modulo N. *)
LEMMA ModDistinct ==
  ASSUME NEW N \in Nat \ {0}, NEW a \in Nat, NEW b \in Nat, a < b, b - a < N
  PROVE  a % N # b % N
<1>1. SUFFICES ASSUME a % N = b % N PROVE FALSE
  OBVIOUS
<1> DEFINE p == a \div N
           q == b \div N
<1>2. /\ p \in Int /\ q \in Int
      /\ a = N * p + (a % N) /\ b = N * q + (b % N)
      /\ a % N \in Int
  BY DivMod
<1> HIDE DEF p, q
<1>3. N * q - N * p = b - a
  BY <1>1, <1>2, SMT
<1>4. p < q
  <2>1. SUFFICES ASSUME q <= p PROVE FALSE
    BY <1>2
  <2>2. N * p >= N * q
    BY <1>2, <2>1, MulMonotone, SMT
  <2> QED
    BY <1>2, <1>3, <2>2, SMT
<1>5. N * q >= N * p + N
  BY <1>2, <1>4, MulMonotone
<1> QED
  BY <1>2, <1>3, <1>5, SMT

(* Adding a multiple of N leaves the residue as it is. *)
LEMMA ModShift ==
  ASSUME NEW N \in Nat \ {0}, NEW t \in Int, NEW k \in Int
  PROVE  (t + N * k) % N = t % N
<1> DEFINE u == t + N * k
           a == t \div N
           c == u \div N
           r == u % N
           s == t % N
<1>1. N * k \in Int /\ u \in Int /\ u = t + N * k
  BY SMT
<1>2. /\ t = N * a + s /\ s \in 0 .. N - 1 /\ a \in Int
      /\ u = N * c + r /\ r \in 0 .. N - 1 /\ c \in Int
  <2> HIDE DEF u
  <2> QED
    BY <1>1, DivMod
<1> HIDE DEF a, c, r, s, u
<1>3. N * (a + k) = N * a + N * k /\ a + k \in Int
  BY <1>2, SMT
<1>4. r - s = N * (a + k) - N * c
  BY <1>1, <1>2, <1>3
<1>5. ~ (a + k < c)
  <2> SUFFICES ASSUME a + k < c PROVE FALSE
    OBVIOUS
  <2>1. N * c >= N * (a + k) + N
    BY <1>2, <1>3, MulMonotone
  <2> QED
    BY <1>2, <1>3, <1>4, <2>1
<1>6. ~ (c < a + k)
  <2> SUFFICES ASSUME c < a + k PROVE FALSE
    OBVIOUS
  <2>1. N * (a + k) >= N * c + N
    BY <1>2, <1>3, MulMonotone
  <2> QED
    BY <1>2, <1>3, <1>4, <2>1
<1>7. a + k = c
  BY <1>2, <1>3, <1>5, <1>6
<1>8. r = s
  BY <1>2, <1>3, <1>4, <1>7
<1> QED
  BY <1>8 DEF r, s, u

(* Masked numbers are slots. *)
LEMMA SlotTypes ==
  /\ \A t \in Nat : RingSlot(t) \in RingSlots
  /\ \A i \in Nat : PoolSlot(i) \in PoolSlots
  BY RingAssumption, PoolAssumption, DivMod
     DEF RingSlot, PoolSlot, RingSlots, PoolSlots

(* Listing a slot keeps the types of the ring. *)
LEMMA ListTypes ==
  ASSUME TypeOK, NEW p \in PoolSlots, NEW v \in Nat, NEW forced \in BOOLEAN,
         List(p, v, forced)
  PROVE  /\ parseEntitiesNum' \in Nat
         /\ parseEntityPtr' \in [RingSlots -> PoolSlots \cup {NoSlot}]
         /\ parseEntityVersion' \in [RingSlots -> Nat]
         /\ parseEntitiesFloatForced' \in [RingSlots -> BOOLEAN]
<1>1. parseEntitiesNum' \in Nat
  BY DEF TypeOK, List
<1>2. parseEntityPtr' \in [RingSlots -> PoolSlots \cup {NoSlot}]
  BY DEF TypeOK, List
<1>3. parseEntityVersion' \in [RingSlots -> Nat]
  BY DEF TypeOK, List
<1>4. parseEntitiesFloatForced' \in [RingSlots -> BOOLEAN]
  BY DEF TypeOK, List
<1> QED
  BY <1>1, <1>2, <1>3, <1>4

-----------------------------------------------------------------------------
(* What List and Allocate do to the entities that stay within the ring. *)

(* A listed entity leaves the ring slots of the others alone. *)
LEMMA ListEffect ==
  ASSUME TypeOK, NEW p \in PoolSlots, NEW v \in Nat, NEW forced,
         List(p, v, forced), NEW n, n = parseEntitiesNum
  PROVE  /\ n \in Live'
         /\ SlotOf(n)' = p
         /\ VersionAt(n)' = v
         /\ ForcedAt(n)' = forced
         /\ \A t \in Live' :
              t # n =>
                /\ t \in Live
                /\ t < n
                /\ SlotOf(t)' = SlotOf(t)
                /\ VersionAt(t)' = VersionAt(t)
                /\ ForcedAt(t)' = ForcedAt(t)
<1> DEFINE dst == RingSlot(n)
<1>1. n \in Nat /\ dst \in RingSlots
  BY SlotTypes DEF TypeOK
<1>2. parseEntitiesNum' = n + 1
  BY DEF List
<1>3. n \in Live'
  BY <1>1, <1>2, RingAssumption DEF Live
<1>4. SlotOf(n)' = p /\ VersionAt(n)' = v /\ ForcedAt(n)' = forced
  <2>1. /\ parseEntityPtr'[dst] = p
        /\ parseEntityVersion'[dst] = v
        /\ parseEntitiesFloatForced'[dst] = forced
    BY <1>1 DEF List, TypeOK
  <2> QED
    BY <2>1 DEF SlotOf, VersionAt, ForcedAt
<1>5. ASSUME NEW t \in Live', t # n
      PROVE  /\ t \in Live /\ t < n
             /\ SlotOf(t)' = SlotOf(t)
             /\ VersionAt(t)' = VersionAt(t)
             /\ ForcedAt(t)' = ForcedAt(t)
  <2>1. t \in Nat /\ t < n /\ n - t < RingSize /\ t \in Live
    BY <1>1, <1>2, <1>5, RingAssumption DEF Live
  <2>2. RingSlot(t) # dst
    BY <1>1, <2>1, RingAssumption, ModDistinct DEF RingSlot
  <2>3. /\ parseEntityPtr'[RingSlot(t)] = parseEntityPtr[RingSlot(t)]
        /\ parseEntityVersion'[RingSlot(t)] = parseEntityVersion[RingSlot(t)]
        /\ parseEntitiesFloatForced'[RingSlot(t)]
             = parseEntitiesFloatForced[RingSlot(t)]
    BY <2>1, <2>2, SlotTypes DEF List, TypeOK
  <2> QED
    BY <2>1, <2>3 DEF SlotOf, VersionAt, ForcedAt
<1> QED
  BY <1>3, <1>4, <1>5

(* The slot of the next allocation backs no live entity. *)
LEMMA NextSlotFree ==
  ASSUME TypeOK, PoolSlotHeld, NEW t \in Live
  PROVE  /\ SlotOf(t) \in PoolSlots
         /\ SlotOf(t) # PoolSlot(entityPoolIdx + 1)
<1> DEFINE p == SlotOf(t)
           a == entityPoolSlotIdx[p]
           b == entityPoolIdx + 1
<1>1. /\ p \in PoolSlots /\ p = PoolSlot(a)
      /\ a <= entityPoolIdx
      /\ entityPoolIdx - a + 2 <= RefreshAge + (parseEntitiesNum - t)
  BY DEF PoolSlotHeld
<1>2. a \in Nat /\ b \in Nat /\ entityPoolIdx \in Nat
  BY <1>1 DEF TypeOK
<1>3. t \in Nat /\ parseEntitiesNum \in Nat /\ parseEntitiesNum - t <= RingSize
  BY RingAssumption DEF Live, TypeOK
<1>4. a < b /\ b - a < PoolSize
  BY <1>1, <1>2, <1>3, RingAssumption, PoolAssumption
<1>5. PoolSlot(a) # PoolSlot(b)
  BY <1>2, <1>4, PoolAssumption, ModDistinct DEF PoolSlot
<1> QED
  BY <1>1, <1>5

(* So an allocation leaves the states of all live entities alone. *)
LEMMA AllocateEffect ==
  ASSUME TypeOK, PoolSlotHeld, NEW e, NEW v, Allocate(e, v)
  PROVE  LET new == PoolSlot(entityPoolIdx + 1)
         IN  /\ entityPoolIdx' = entityPoolIdx + 1
             /\ new \in PoolSlots
             /\ entityPool'[new] = e
             /\ entityPoolSlotIdx'[new] = entityPoolIdx + 1
             /\ entityPoolSlotVer'[new] = v
             /\ \A t \in Live :
                  /\ entityPool'[SlotOf(t)] = entityPool[SlotOf(t)]
                  /\ entityPoolSlotIdx'[SlotOf(t)] = entityPoolSlotIdx[SlotOf(t)]
                  /\ entityPoolSlotVer'[SlotOf(t)] = entityPoolSlotVer[SlotOf(t)]
<1>1. PoolSlot(entityPoolIdx + 1) \in PoolSlots
  BY SlotTypes DEF TypeOK
<1>2. \A t \in Live : /\ SlotOf(t) \in PoolSlots
                      /\ SlotOf(t) # PoolSlot(entityPoolIdx + 1)
  BY NextSlotFree
<1> QED
  BY <1>1, <1>2 DEF Allocate, TypeOK

-----------------------------------------------------------------------------
(* What a listing step must establish about the listed slot p for the      *)
(* invariant to survive.                                                   *)

(* The pool slots behind live entities are not written. *)
LiveSlotsKept ==
  \A t \in Live : /\ entityPool'[SlotOf(t)] = entityPool[SlotOf(t)]
                  /\ entityPoolSlotIdx'[SlotOf(t)] = entityPoolSlotIdx[SlotOf(t)]
                  /\ entityPoolSlotVer'[SlotOf(t)] = entityPoolSlotVer[SlotOf(t)]

(* The operation pushes e onto the ring: what EntityRing promises. *)
Pushes(e) == /\ parseEntitiesNum' = parseEntitiesNum + 1
             /\ parseEntitiesNum \in Live'
             /\ \A t \in Live' :
                  /\ t = parseEntitiesNum => EntityAt(t)' = e
                  /\ t # parseEntitiesNum => t \in Live /\ EntityAt(t)' = EntityAt(t)

(* Pool slot p holds its own allocation. *)
Addressed(p) == /\ p \in PoolSlots
                /\ p = PoolSlot(entityPoolSlotIdx[p])
                /\ entityPoolSlotIdx[p] <= entityPoolIdx

(* The listed allocation is younger than RefreshAge, so it is held. *)
LEMMA ListHeld ==
  ASSUME TypeOK, TypeOK', PoolSlotHeld, LiveSlotsKept,
         NEW p \in PoolSlots, NEW v \in Nat, NEW forced,
         List(p, v, forced),
         entityPoolIdx' <= entityPoolIdx + 1,
         p = PoolSlot(entityPoolSlotIdx'[p]),
         entityPoolSlotIdx'[p] <= entityPoolIdx',
         entityPoolIdx' - entityPoolSlotIdx'[p] < RefreshAge,
         entityPoolIdx <= entityPoolIdx'
  PROVE  PoolSlotHeld'
<1>1. PICK n \in Nat : n = parseEntitiesNum
  BY DEF TypeOK
<1>2. /\ SlotOf(n)' = p
      /\ \A t \in Live' : t # n => /\ t \in Live /\ t < n
                                 /\ SlotOf(t)' = SlotOf(t)
  BY <1>1, ListEffect
<1>3. parseEntitiesNum' = n + 1
  BY <1>1 DEF List
<1>4. SUFFICES ASSUME NEW t \in Live'
               PROVE  /\ SlotOf(t)' \in PoolSlots
                      /\ SlotOf(t)' = PoolSlot(entityPoolSlotIdx'[SlotOf(t)'])
                      /\ entityPoolSlotIdx'[SlotOf(t)'] <= entityPoolIdx'
                      /\ entityPoolIdx' - entityPoolSlotIdx'[SlotOf(t)'] + 2
                           <= RefreshAge + (parseEntitiesNum' - t)
  BY DEF PoolSlotHeld
<1>5. /\ t \in Nat /\ entityPoolIdx \in Nat /\ entityPoolIdx' \in Nat
      /\ \A q \in PoolSlots : entityPoolSlotIdx'[q] \in Nat
  BY DEF TypeOK, Live
<1>6. CASE t = n
  BY <1>2, <1>3, <1>5, <1>6, PoolAssumption
<1>7. CASE t # n
  <2>1. t \in Live /\ SlotOf(t)' = SlotOf(t)
    BY <1>2, <1>7
  <2>2. /\ SlotOf(t) \in PoolSlots
        /\ SlotOf(t) = PoolSlot(entityPoolSlotIdx[SlotOf(t)])
        /\ entityPoolSlotIdx[SlotOf(t)] <= entityPoolIdx
        /\ entityPoolIdx - entityPoolSlotIdx[SlotOf(t)] + 2
             <= RefreshAge + (parseEntitiesNum - t)
    BY <2>1 DEF PoolSlotHeld
  <2>3. entityPoolSlotIdx'[SlotOf(t)] = entityPoolSlotIdx[SlotOf(t)]
    BY <2>1 DEF LiveSlotsKept
  <2>4. entityPoolSlotIdx[SlotOf(t)] \in Nat
    BY <2>2 DEF TypeOK
  <2> QED
    BY <1>1, <1>3, <1>5, <2>1, <2>2, <2>3, <2>4, PoolAssumption
<1> QED
  BY <1>6, <1>7

(* A version that some live entity already has is listed only with the     *)
(* value of that entity, and with no forced field.                         *)
LEMMA ListTraced ==
  ASSUME TypeOK, VersionsTraced, LiveSlotsKept,
         NEW p \in PoolSlots, NEW v \in Nat, NEW forced,
         List(p, v, forced),
         entityPoolSlotVer'[p] = v,
         \A q \in PoolSlots : entityPoolSlotVer'[q] <= g_nextEntityVersion',
         \A t \in Live : entityPoolSlotVer[SlotOf(t)] = v
                          => entityPool[SlotOf(t)] = entityPool'[p] /\ ~ forced
  PROVE  VersionsTraced' /\ Pushes(entityPool'[p])
<1>1. PICK n \in Nat : n = parseEntitiesNum
  BY DEF TypeOK
<1>2. /\ n \in Live'
      /\ SlotOf(n)' = p /\ VersionAt(n)' = v /\ ForcedAt(n)' = forced
      /\ \A t \in Live' :
           t # n => /\ t \in Live /\ t < n
                    /\ SlotOf(t)' = SlotOf(t)
                    /\ VersionAt(t)' = VersionAt(t)
                    /\ ForcedAt(t)' = ForcedAt(t)
  BY <1>1, ListEffect
<1>3. \A t \in Live' : VersionAt(t)' \in {NoVersion, entityPoolSlotVer'[SlotOf(t)']}
  BY <1>2 DEF VersionsTraced, LiveSlotsKept
<1>4. ASSUME NEW t \in Live', NEW u \in Live',
             entityPoolSlotVer'[SlotOf(t)'] = entityPoolSlotVer'[SlotOf(u)']
      PROVE  /\ entityPool'[SlotOf(t)'] = entityPool'[SlotOf(u)']
             /\ t < u => ~ ForcedAt(u)'
  <2>1. CASE t = n /\ u = n
    BY <1>1, <2>1
  <2>2. CASE t # n /\ u = n
    BY <1>2, <1>4, <2>2 DEF LiveSlotsKept
  <2>3. CASE t = n /\ u # n
    <3>1. u \in Live /\ u < n /\ u \in Nat /\ SlotOf(u)' = SlotOf(u)
      BY <1>2, <2>3 DEF Live
    <3>2. ~ (t < u)
      BY <1>1, <2>3, <3>1
    <3> QED
      BY <1>2, <1>4, <2>3, <3>1, <3>2 DEF LiveSlotsKept
  <2>4. CASE t # n /\ u # n
    <3>1. /\ t \in Live /\ u \in Live
          /\ SlotOf(t)' = SlotOf(t) /\ SlotOf(u)' = SlotOf(u)
          /\ ForcedAt(u)' = ForcedAt(u)
      BY <1>2, <2>4
    <3>2. entityPoolSlotVer[SlotOf(t)] = entityPoolSlotVer[SlotOf(u)]
      BY <1>4, <3>1 DEF LiveSlotsKept
    <3>3. entityPool[SlotOf(t)] = entityPool[SlotOf(u)] /\ (t < u => ~ ForcedAt(u))
      BY <3>1, <3>2 DEF VersionsTraced, EntityAt
    <3> QED
      BY <3>1, <3>3 DEF LiveSlotsKept
  <2> QED
    BY <2>1, <2>2, <2>3, <2>4
<1>5. VersionsTraced'
  BY <1>3, <1>4 DEF VersionsTraced, EntityAt
<1>6. Pushes(entityPool'[p])
  BY <1>1, <1>2 DEF Pushes, EntityAt, List, LiveSlotsKept
<1> QED
  BY <1>5, <1>6

-----------------------------------------------------------------------------
(* The operations. *)

(* Sharing a slot that is listed or addressed keeps the types and every *)
(* listed entity, and lists the slot with the version it has. *)
LEMMA ShareHeld ==
  ASSUME TypeOK, PoolSlotHeld, NEW p, Addressed(p), Share(p)
  PROVE  /\ TypeOK' /\ PoolSlotHeld' /\ LiveSlotsKept
         /\ List(p, entityPoolSlotVer[p], FALSE)
         /\ UNCHANGED <<poolVars, g_nextEntityVersion>>
<1> DEFINE v == entityPoolSlotVer[p]
<1>1. /\ p \in PoolSlots /\ v \in Nat
      /\ p = PoolSlot(entityPoolSlotIdx[p])
      /\ entityPoolSlotIdx[p] <= entityPoolIdx
      /\ entityPoolSlotIdx[p] \in Nat /\ entityPoolIdx \in Nat
  BY DEF TypeOK, Addressed
<1>2. /\ ~ Stale(p)
      /\ List(p, v, FALSE)
      /\ UNCHANGED <<entityPool, entityPoolSlotIdx, entityPoolSlotVer,
                     entityPoolIdx, g_nextEntityVersion>>
  BY DEF Share, poolVars
<1>3. entityPoolIdx - entityPoolSlotIdx[p] < RefreshAge
  BY <1>1, <1>2, PoolAssumption DEF Stale
<1>4. TypeOK'
  BY <1>1, <1>2, ListTypes DEF TypeOK
<1>5. LiveSlotsKept
  BY <1>2 DEF LiveSlotsKept
<1>6. PoolSlotHeld'
  <2>1. /\ entityPoolIdx' <= entityPoolIdx + 1
        /\ entityPoolIdx <= entityPoolIdx'
        /\ p = PoolSlot(entityPoolSlotIdx'[p])
        /\ entityPoolSlotIdx'[p] <= entityPoolIdx'
        /\ entityPoolIdx' - entityPoolSlotIdx'[p] < RefreshAge
    BY <1>1, <1>2, <1>3
  <2> HIDE DEF v
  <2> QED
    BY <1>1, <1>2, <1>4, <1>5, <2>1, ListHeld
<1> QED
  BY <1>2, <1>4, <1>5, <1>6 DEF poolVars

(* Sharing the slot of a live entity keeps the invariant, and the ring has *)
(* that entity once more. *)
LEMMA ShareKeeps ==
  ASSUME IInv, NEW u \in Live, Share(SlotOf(u))
  PROVE  IInv' /\ Pushes(EntityAt(u))
<1> DEFINE p == SlotOf(u)
           v == entityPoolSlotVer[p]
<1>1. Addressed(p) /\ p \in PoolSlots /\ v \in Nat
  BY DEF IInv, TypeOK, PoolSlotHeld, Addressed
<1>2. /\ TypeOK' /\ PoolSlotHeld' /\ LiveSlotsKept
      /\ List(p, v, FALSE)
      /\ UNCHANGED <<entityPool, entityPoolSlotIdx, entityPoolSlotVer,
                     entityPoolIdx, g_nextEntityVersion>>
  BY <1>1, ShareHeld DEF IInv, poolVars
<1>7. \A q \in PoolSlots : entityPoolSlotVer'[q] <= g_nextEntityVersion'
  BY <1>2 DEF IInv, VersionsTraced
<1>8. \A t \in Live : entityPoolSlotVer[SlotOf(t)] = v
                        => entityPool[SlotOf(t)] = entityPool'[p]
  BY <1>2 DEF IInv, VersionsTraced, EntityAt
<1>9. VersionsTraced' /\ Pushes(entityPool'[p])
  BY <1>1, <1>2, <1>7, <1>8, ListTraced, ZenonT(30) DEF IInv
<1> QED
  BY <1>2, <1>9 DEF IInv, EntityAt

(* An allocation is listed right away, whatever it holds. *)
LEMMA AllocateHeld ==
  ASSUME TypeOK, PoolSlotHeld, NEW e \in EntityStates, NEW v \in Nat, NEW forced \in BOOLEAN,
         Allocate(e, v), List(PoolSlot(entityPoolIdx + 1), v, forced),
         g_nextEntityVersion' \in Nat
  PROVE  /\ TypeOK' /\ PoolSlotHeld' /\ LiveSlotsKept
         /\ PoolSlot(entityPoolIdx + 1) \in PoolSlots
         /\ entityPool'[PoolSlot(entityPoolIdx + 1)] = e
         /\ entityPoolSlotVer'[PoolSlot(entityPoolIdx + 1)] = v
<1> DEFINE new == PoolSlot(entityPoolIdx + 1)
<1>1. /\ entityPoolIdx \in Nat
      /\ entityPoolIdx' = entityPoolIdx + 1
      /\ new \in PoolSlots
      /\ entityPool'[new] = e
      /\ entityPoolSlotIdx'[new] = entityPoolIdx + 1
      /\ entityPoolSlotVer'[new] = v
  BY AllocateEffect DEF TypeOK
<1>2. LiveSlotsKept
  BY AllocateEffect DEF LiveSlotsKept
<1>3. TypeOK'
  <2>1. /\ entityPool' \in [PoolSlots -> EntityStates]
        /\ entityPoolSlotIdx' \in [PoolSlots -> Nat]
        /\ entityPoolSlotVer' \in [PoolSlots -> Nat]
    BY <1>1 DEF TypeOK, Allocate
  <2> QED
    BY <1>1, <2>1, ListTypes DEF TypeOK
<1>4. PoolSlotHeld'
  BY <1>1, <1>2, <1>3, ListHeld, PoolAssumption
<1> QED
  BY <1>1, <1>2, <1>3, <1>4

(* So does copying it forward. *)
LEMMA RefreshKeeps ==
  ASSUME IInv, NEW u \in Live, Refresh(SlotOf(u))
  PROVE  IInv' /\ Pushes(EntityAt(u))
<1> DEFINE p == SlotOf(u)
           v == entityPoolSlotVer[p]
           new == PoolSlot(entityPoolIdx + 1)
<1>1. /\ p \in PoolSlots /\ v \in Nat
      /\ entityPool[p] \in EntityStates
      /\ g_nextEntityVersion \in Nat
      /\ v <= g_nextEntityVersion
  BY DEF IInv, TypeOK, PoolSlotHeld, VersionsTraced
<1>2. /\ Allocate(entityPool[p], v)
      /\ List(new, v, FALSE)
      /\ g_nextEntityVersion' = g_nextEntityVersion
  BY DEF Refresh
<1>3. /\ TypeOK' /\ PoolSlotHeld' /\ LiveSlotsKept
      /\ new \in PoolSlots
      /\ entityPool'[new] = entityPool[p]
      /\ entityPoolSlotVer'[new] = v
  BY <1>1, <1>2, AllocateHeld DEF IInv
<1>4. \A q \in PoolSlots : entityPoolSlotVer'[q] <= g_nextEntityVersion'
  BY <1>1, <1>2 DEF Allocate, IInv, TypeOK, VersionsTraced
<1>5. \A t \in Live : entityPoolSlotVer[SlotOf(t)] = v
                        => entityPool[SlotOf(t)] = entityPool'[new]
  BY <1>3 DEF IInv, VersionsTraced, EntityAt
<1>6. VersionsTraced' /\ Pushes(entityPool'[new])
  BY <1>1, <1>2, <1>3, <1>4, <1>5, ListTraced DEF IInv
<1> QED
  BY <1>3, <1>6 DEF IInv, EntityAt

(* A delta keeps the invariant, and the ring has the new state. *)
LEMMA ChangedKeeps ==
  ASSUME IInv, NEW e \in EntityStates, NEW forced \in BOOLEAN,
         Changed(e, forced)
  PROVE  IInv' /\ Pushes(e)
<1> DEFINE v == g_nextEntityVersion + 1
           new == PoolSlot(entityPoolIdx + 1)
<1>1. /\ g_nextEntityVersion \in Nat
      /\ g_nextEntityVersion' = v
      /\ Allocate(e, v)
      /\ List(new, v, forced)
  BY DEF Changed, IInv, TypeOK
<1>2. /\ TypeOK' /\ PoolSlotHeld' /\ LiveSlotsKept
      /\ new \in PoolSlots
      /\ entityPool'[new] = e
      /\ entityPoolSlotVer'[new] = v
  BY <1>1, AllocateHeld DEF IInv
<1>3. \A q \in PoolSlots : /\ entityPoolSlotVer[q] \in Nat
                           /\ entityPoolSlotVer[q] < v
  BY <1>1 DEF IInv, TypeOK, VersionsTraced
<1>4. \A q \in PoolSlots : entityPoolSlotVer'[q] <= g_nextEntityVersion'
  BY <1>1, <1>3 DEF Allocate, IInv, TypeOK
<1>5. \A t \in Live : entityPoolSlotVer[SlotOf(t)] # v
  BY <1>1, <1>3 DEF IInv, PoolSlotHeld
<1>6. VersionsTraced' /\ Pushes(entityPool'[new])
  BY <1>1, <1>2, <1>4, <1>5, ListTraced DEF IInv
<1> QED
  BY <1>2, <1>6 DEF IInv

(* A delta remove writes the next slot, which backs no live entity. *)
LEMMA RemovedKeeps ==
  ASSUME IInv, NEW e \in EntityStates, Removed(e)
  PROVE  /\ IInv'
         /\ UNCHANGED parseEntitiesNum
         /\ \A t \in Live : EntityAt(t)' = EntityAt(t)
<1> DEFINE new == PoolSlot(entityPoolIdx + 1)
<1>1. /\ UNCHANGED <<parseEntitiesNum, parseEntityPtr, parseEntitiesFloatForced,
                     entityPoolSlotIdx, entityPoolSlotVer, entityPoolIdx,
                     g_nextEntityVersion>>
      /\ Live' = Live
  BY DEF Removed, Live
<1>2. \A t \in Live : /\ SlotOf(t) \in PoolSlots
                      /\ SlotOf(t)' = SlotOf(t)
                      /\ ForcedAt(t)' = ForcedAt(t)
                      /\ entityPool'[SlotOf(t)] = entityPool[SlotOf(t)]
  BY <1>1, NextSlotFree DEF IInv, TypeOK, Removed, SlotOf, ForcedAt
<1>3. TypeOK'
  BY <1>1 DEF IInv, TypeOK, Removed, NoVersion
<1>4. \A t \in Live : EntityAt(t)' = EntityAt(t)
  BY <1>2 DEF EntityAt
<1>5. PoolSlotHeld'
  BY <1>1, <1>2 DEF IInv, PoolSlotHeld
<1>6. \A t \in Live : VersionAt(t)' \in {NoVersion, VersionAt(t)}
  BY SlotTypes DEF Removed, VersionAt, IInv, TypeOK, Live
<1>7. VersionsTraced'
  BY <1>1, <1>2, <1>4, <1>6 DEF IInv, VersionsTraced
<1> QED
  BY <1>1, <1>3, <1>4, <1>5, <1>7 DEF IInv

-----------------------------------------------------------------------------
(* The same without versions, for a user that may list an entity which has *)
(* left the ring: its slot need only hold its own allocation.              *)

(* The operation lists a state, e, and leaves the listed ones alone. *)
Lists(e) ==
  /\ TypeOK' /\ PoolSlotHeld'
  /\ Pushes(e)
  /\ \A t \in Live' : t # parseEntitiesNum => SlotOf(t)' = SlotOf(t)
  /\ \A q : Addressed(q) => Addressed(q)'

(* When a slot is listed that has an entity, all that was live stays and *)
(* the entity comes behind it. *)
LEMMA ListEntity ==
  ASSUME TypeOK, LiveSlotsKept, TypeOK', PoolSlotHeld',
         NEW p \in PoolSlots, NEW v \in Nat, NEW forced, List(p, v, forced),
         NEW e, entityPool'[p] = e,
         \A q : Addressed(q) => Addressed(q)'
  PROVE  Lists(e)
<1>1. PICK n \in Nat : n = parseEntitiesNum
  BY DEF TypeOK
<1>2. /\ n \in Live' /\ SlotOf(n)' = p
      /\ \A t \in Live' : t # n => t \in Live /\ SlotOf(t)' = SlotOf(t)
  BY <1>1, ListEffect
<1>3. Pushes(e)
  BY <1>1, <1>2 DEF Pushes, EntityAt, List, LiveSlotsKept
<1> QED
  BY <1>1, <1>2, <1>3 DEF Lists

(* A slot that the ring or a baseline points to is still pointed to after *)
(* an allocation. *)
LEMMA AllocateAddressed ==
  ASSUME TypeOK, NEW e, NEW v, Allocate(e, v), NEW q, Addressed(q)
  PROVE  Addressed(q)'
<1>1. /\ entityPoolIdx \in Nat /\ entityPoolIdx' = entityPoolIdx + 1
      /\ q \in PoolSlots /\ entityPoolSlotIdx[q] \in Nat
      /\ entityPoolSlotIdx'[q] = IF q = PoolSlot(entityPoolIdx + 1)
                                 THEN entityPoolIdx + 1 ELSE entityPoolSlotIdx[q]
  BY DEF Allocate, TypeOK, Addressed
<1> QED
  BY <1>1 DEF Addressed

(* An entity without a delta is listed as it was. *)
LEMMA UnchangedHeld ==
  ASSUME TypeOK, PoolSlotHeld, NEW p, Addressed(p), Unchanged(p)
  PROVE  Lists(entityPool[p])
<1>1. p \in PoolSlots /\ entityPoolSlotVer[p] \in Nat /\ entityPool[p] \in EntityStates
  BY DEF Addressed, TypeOK
<1>2. CASE Share(p)
  <2>1. /\ TypeOK' /\ PoolSlotHeld' /\ LiveSlotsKept
        /\ List(p, entityPoolSlotVer[p], FALSE)
        /\ UNCHANGED <<entityPool, entityPoolSlotIdx, entityPoolIdx>>
    BY <1>2, ShareHeld DEF poolVars
  <2>2. \A q : Addressed(q) => Addressed(q)'
    BY <2>1 DEF Addressed
  <2> QED
    BY <1>1, <2>1, <2>2, ListEntity
<1>3. CASE Refresh(p)
  <2> DEFINE new == PoolSlot(entityPoolIdx + 1)
             v == entityPoolSlotVer[p]
             e == entityPool[p]
  <2>1. /\ Allocate(e, v) /\ List(new, v, FALSE)
        /\ g_nextEntityVersion' \in Nat
    BY <1>3 DEF Refresh, TypeOK
  <2>2. /\ TypeOK' /\ PoolSlotHeld' /\ LiveSlotsKept
        /\ new \in PoolSlots /\ entityPool'[new] = e
    BY <1>1, <2>1, AllocateHeld
  <2>3. \A q : Addressed(q) => Addressed(q)'
    BY <2>1, AllocateAddressed
  <2> QED
    BY <1>1, <2>1, <2>2, <2>3, ListEntity
<1> QED
  BY <1>2, <1>3 DEF Unchanged

(* An entity with a delta is listed with its new state. *)
LEMMA ChangedHeld ==
  ASSUME TypeOK, PoolSlotHeld, NEW e \in EntityStates, NEW forced \in BOOLEAN,
         Changed(e, forced)
  PROVE  Lists(e)
<1> DEFINE v == g_nextEntityVersion + 1
           new == PoolSlot(entityPoolIdx + 1)
<1>1. /\ v \in Nat /\ g_nextEntityVersion' \in Nat
      /\ Allocate(e, v) /\ List(new, v, forced)
  BY DEF Changed, TypeOK
<1>2. /\ TypeOK' /\ PoolSlotHeld' /\ LiveSlotsKept
      /\ new \in PoolSlots /\ entityPool'[new] = e
  BY <1>1, AllocateHeld
<1>3. \A q : Addressed(q) => Addressed(q)'
  BY <1>1, AllocateAddressed
<1> QED
  BY <1>1, <1>2, <1>3, ListEntity

(* The operation lists nothing. *)
ListsNone ==
  /\ TypeOK' /\ PoolSlotHeld'
  /\ UNCHANGED parseEntitiesNum
  /\ \A t \in Live : SlotOf(t)' = SlotOf(t) /\ EntityAt(t)' = EntityAt(t)
  /\ \A q : Addressed(q) => Addressed(q)'

(* A removed entity is not listed. *)
LEMMA RemovedHeld ==
  ASSUME TypeOK, PoolSlotHeld, NEW e \in EntityStates, Removed(e)
  PROVE  ListsNone
<1>1. /\ UNCHANGED <<parseEntitiesNum, parseEntityPtr, parseEntitiesFloatForced,
                     entityPoolSlotIdx, entityPoolSlotVer, entityPoolIdx,
                     g_nextEntityVersion>>
      /\ Live' = Live
  BY DEF Removed, Live
<1>2. \A t \in Live : /\ SlotOf(t) \in PoolSlots
                      /\ SlotOf(t)' = SlotOf(t)
                      /\ entityPool'[SlotOf(t)] = entityPool[SlotOf(t)]
  BY <1>1, NextSlotFree DEF TypeOK, Removed, SlotOf
<1>3. TypeOK'
  BY <1>1 DEF TypeOK, Removed, NoVersion
<1>4. PoolSlotHeld'
  BY <1>1, <1>2 DEF PoolSlotHeld
<1>5. \A q : Addressed(q) => Addressed(q)'
  BY <1>1 DEF Addressed
<1> QED
  BY <1>1, <1>2, <1>3, <1>4, <1>5 DEF ListsNone, EntityAt

(* Whatever is looked up in the ring is a live entity's slot, even at an   *)
(* index that has left the ring.                                           *)
LEMMA RingHasLive ==
  ASSUME TypeOK, PoolSlotHeld, NEW t \in Nat, t < parseEntitiesNum
  PROVE  Addressed(parseEntityPtr[RingSlot(t)])
<1> DEFINE N == RingSize
           n == parseEntitiesNum
           d == n - 1 - t
           u == t + N * (d \div N)
<1>1. /\ N \in Nat \ {0} /\ n \in Nat /\ d \in Nat
  BY RingAssumption DEF TypeOK
<1>2. /\ d = N * (d \div N) + (d % N)
      /\ d % N \in 0 .. N - 1 /\ d \div N \in Int
  BY <1>1, DivMod
<1>3. u = n - 1 - (d % N)
  BY <1>1, <1>2
<1>4. N * (d \div N) >= 0
  BY <1>1, <1>2
<1>5. u \in Live
  BY <1>1, <1>2, <1>3, <1>4 DEF Live
<1>6. RingSlot(u) = RingSlot(t)
  <2>1. t \in Int
    OBVIOUS
  <2>2. \A k \in Int : (t + RingSize * k) % RingSize = t % RingSize
    BY <1>1, <2>1, ModShift, Zenon
  <2> QED
    BY <1>2, <2>2, Zenon DEF RingSlot
<1> QED
  BY <1>5, <1>6 DEF PoolSlotHeld, SlotOf, Addressed

(* The invariant holds at the start. *)
LEMMA InitInvariant == Init => IInv
<1> SUFFICES ASSUME Init PROVE IInv
  OBVIOUS
<1>1. Live = {}
  BY RingAssumption DEF Init, Live
<1>2. TypeOK
  BY StateAssumption DEF Init, TypeOK, NoVersion
<1>3. PoolSlotHeld
  BY <1>1 DEF PoolSlotHeld
<1>4. VersionsTraced
  BY <1>1 DEF Init, VersionsTraced, NoVersion
<1> QED
  BY <1>2, <1>3, <1>4 DEF IInv

(* So do the facts that the reader needs, with an empty ring. *)
LEMMA InitHeld == Init => TypeOK /\ PoolSlotHeld /\ parseEntitiesNum = 0
BY InitInvariant DEF IInv, Init

-----------------------------------------------------------------------------
(* The theorems. *)

(* A step either pushes a value onto the ring or leaves the ring as it is. *)
LEMMA StepEffect ==
  ASSUME IInv, Next
  PROVE  /\ IInv'
         /\ \/ \E e \in EntityStates : Pushes(e)
            \/ /\ UNCHANGED parseEntitiesNum
               /\ \A t \in Live : EntityAt(t)' = EntityAt(t)
<1>1. CASE \E t \in Live : Unchanged(SlotOf(t))
  <2>1. PICK t \in Live : Unchanged(SlotOf(t))
    BY <1>1
  <2>2. IInv' /\ Pushes(EntityAt(t))
    BY <2>1, ShareKeeps, RefreshKeeps DEF Unchanged
  <2>3. EntityAt(t) \in EntityStates
    BY DEF IInv, TypeOK, PoolSlotHeld, EntityAt
  <2> QED
    BY <2>2, <2>3
<1>2. CASE \E e \in EntityStates, forced \in BOOLEAN : Changed(e, forced)
  BY <1>2, ChangedKeeps
<1>3. CASE \E e \in EntityStates : Removed(e)
  BY <1>3, RemovedKeeps
<1> QED
  BY <1>1, <1>2, <1>3 DEF Next, Operation

(* A step that changes nothing keeps the invariant and every entity. *)
LEMMA StutterEffect ==
  ASSUME IInv, UNCHANGED vars
  PROVE  /\ IInv'
         /\ UNCHANGED parseEntitiesNum
         /\ \A t \in Live : EntityAt(t)' = EntityAt(t)
<1> USE DEF vars, ringVars, poolVars
<1>1. Live' = Live
  BY DEF Live
<1>2. TypeOK'
  BY DEF IInv, TypeOK
<1>3. PoolSlotHeld'
  BY <1>1 DEF IInv, PoolSlotHeld, SlotOf
<1>4. VersionsTraced'
  BY <1>1 DEF IInv, VersionsTraced, SlotOf, VersionAt, EntityAt, ForcedAt
<1> QED
  BY <1>2, <1>3, <1>4 DEF IInv, SlotOf, EntityAt

(* The inductive invariant: types, the age bound that keeps live pool      *)
(* slots from being reused, and the tracing of versions.                   *)
THEOREM PoolInvariant == Spec => []IInv
<1>1. IInv /\ [Next]_vars => IInv'
  BY StepEffect, StutterEffect
<1> QED
  BY <1>1, InitInvariant, PTL DEF Spec

(* Every field of the store has its type. *)
THEOREM TypeCorrect == Spec => []TypeOK
<1>1. IInv => TypeOK
  BY DEF IInv
<1> QED
  BY <1>1, PoolInvariant, PTL

(* The writers may skip an entity whose version is that of its base: equal *)
(* versions of listed entities mean equal states.                          *)
THEOREM VersionsSound == Spec => []VersionSound
<1>1. IInv => VersionSound
  BY DEF IInv, VersionsTraced, VersionSound
<1> QED
  BY <1>1, PoolInvariant, PTL

(* A listed entity keeps its state although its pool slot is shared. *)
THEOREM LiveEntitiesStable == Spec => LiveStable
<1>1. IInv /\ [Next]_vars => [\A t \in Live \cap Live' : EntityAt(t)' = EntityAt(t)]_vars
  <2>1. ASSUME IInv, Next, NEW t \in Live \cap Live'
        PROVE  EntityAt(t)' = EntityAt(t)
    BY <2>1, StepEffect DEF Pushes, Live, IInv, TypeOK
  <2> QED
    BY <2>1
<1> QED
  BY <1>1, PoolInvariant, PTL DEF Spec, LiveStable

(* The pool of shared states implements a plain ring of values. *)
THEOREM PoolImplementsRing == Spec => RingSpec
<1>1. Init => Ring!Init
  <2>1. SUFFICES ASSUME Init PROVE Live = {} /\ parseEntitiesNum = 0
    BY DEF Ring!Init
  <2> QED
    BY <2>1, RingAssumption DEF Init, Live
<1>2. IInv /\ [Next]_vars => [Ring!Next]_(Ring!vars)
  <2>1. ASSUME IInv, NEW e \in EntityStates, Pushes(e)
        PROVE  Ring!Push(e)
    <3>1. Live' = Ring!Window(parseEntitiesNum + 1)
      BY <2>1 DEF Live, Ring!Window, Pushes
    <3>2. [t \in Live' |-> EntityAt(t)'] =
            [t \in Ring!Window(parseEntitiesNum + 1) |->
               IF t = parseEntitiesNum THEN e
                  ELSE [u \in Live |-> EntityAt(u)][t]]
      BY <2>1, <3>1 DEF Pushes
    <3> QED
      BY <2>1, <3>2 DEF Ring!Push, Pushes
  <2>2. ASSUME UNCHANGED parseEntitiesNum,
               \A t \in Live : EntityAt(t)' = EntityAt(t)
        PROVE  UNCHANGED Ring!vars
    <3>1. Live' = Live
      BY <2>2 DEF Live
    <3>2. [t \in Live' |-> EntityAt(t)'] = [t \in Live |-> EntityAt(t)]
      BY <2>2, <3>1
    <3> QED
      BY <2>2, <3>2 DEF Ring!vars
  <2> QED
    BY <2>1, <2>2, StepEffect, StutterEffect DEF Ring!Next
<1> QED
  BY <1>1, <1>2, PoolInvariant, PTL DEF Spec, RingSpec, Ring!Spec
=============================================================================
