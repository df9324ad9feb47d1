----------------------------- MODULE SlotProofs -----------------------------
(***************************************************************************)
(* Facts about WorldDelta and SnapshotSlots that the proofs about the      *)
(* trimmer and the merger share: a difference that is applied gives back   *)
(* the world, and what a reader has in its slots after a message.          *)
(***************************************************************************)
EXTENDS SnapshotSlots, FiniteSetTheorems, TLAPS

IsSnap(s) ==
  /\ s = [valid |-> s.valid, messageNum |-> s.messageNum, deltaNum |-> s.deltaNum,
          world |-> s.world]
  /\ s.valid \in BOOLEAN /\ s.messageNum \in Nat /\ s.deltaNum \in Int
  /\ IsWorld(s.world)

(* A reader: a valid slot holds a message that belongs there and is among  *)
(* the last PacketBackup ones, and the last snapshot lies in its slot.     *)
IsReader(r) ==
  /\ r = [snapshots |-> r.snapshots, snap |-> r.snap, newSnapshots |-> r.newSnapshots,
          baseInvalid |-> r.baseInvalid, anyInvalid |-> r.anyInvalid]
  /\ r.newSnapshots \in BOOLEAN /\ r.baseInvalid \in BOOLEAN /\ r.anyInvalid \in BOOLEAN
  /\ r.snapshots = [i \in Slots |-> r.snapshots[i]]
  /\ \A i \in Slots : IsSnap(r.snapshots[i])
  /\ IsSnap(r.snap)
  /\ r.newSnapshots <=> r.snap.messageNum > 0

InPlace(r) ==
  /\ \A i \in Slots : r.snapshots[i].valid =>
       /\ SlotOf(r.snapshots[i].messageNum) = i
       /\ r.snapshots[i].messageNum > 0
       /\ r.snapshots[i].messageNum <= r.snap.messageNum
       /\ r.snapshots[i].messageNum > r.snap.messageNum - PacketBackup
  /\ r.snap.messageNum > 0 =>
       r.snap.valid /\ r.snapshots[SlotOf(r.snap.messageNum)] = r.snap

Sound(r) == IsReader(r) /\ InPlace(r)

(* Reader r has the snapshot of message k. *)
Has(r, k) == /\ r.snapshots[SlotOf(k)].valid
             /\ r.snapshots[SlotOf(k)].messageNum = k

-----------------------------------------------------------------------------
(* Whatever is read is a world. *)
LEMMA ApplyWorld ==
  ASSUME NEW base, NEW diff
  PROVE  IsWorld(Apply(base, diff))
BY DEF IsWorld, Apply

(* A difference gives back the world: read against the world it was coded  *)
(* against, ...                                                            *)
LEMMA ApplyBack ==
  ASSUME NEW base, NEW w, IsWorld(w)
  PROVE  Apply(base, Delta(base, w)) = w
<1> DEFINE diff == Delta(base, w)
<1>1. /\ DOMAIN diff.changed = {k \in DOMAIN w : k \in DOMAIN base => base[k] # w[k]}
      /\ \A k \in DOMAIN diff.changed : diff.changed[k] = w[k]
      /\ diff.gone = DOMAIN base \ DOMAIN w
  BY DEF Delta
<1> HIDE DEF diff
<1>2. (DOMAIN base \ diff.gone) \cup DOMAIN diff.changed = DOMAIN w
  BY <1>1
<1>3. \A k \in DOMAIN w : (IF k \in DOMAIN diff.changed THEN diff.changed[k] ELSE base[k]) = w[k]
  BY <1>1
<1>4. Apply(base, diff) =
        [k \in DOMAIN w |-> IF k \in DOMAIN diff.changed THEN diff.changed[k] ELSE base[k]]
  BY <1>2 DEF Apply
<1>5. Apply(base, diff) = [k \in DOMAIN w |-> w[k]]
  BY <1>3, <1>4
<1> QED
  BY <1>5 DEF IsWorld, diff

(* ... and when it is read against the very world that was written. *)
LEMMA ApplyAgain ==
  ASSUME NEW base, NEW w, IsWorld(w)
  PROVE  Apply(w, Delta(base, w)) = w
<1> DEFINE diff == Delta(base, w)
<1>1. /\ DOMAIN diff.changed \subseteq DOMAIN w
      /\ \A k \in DOMAIN diff.changed : diff.changed[k] = w[k]
      /\ diff.gone = DOMAIN base \ DOMAIN w
  BY DEF Delta
<1> HIDE DEF diff
<1>2. (DOMAIN w \ diff.gone) \cup DOMAIN diff.changed = DOMAIN w
  BY <1>1
<1>3. \A k \in DOMAIN w : (IF k \in DOMAIN diff.changed THEN diff.changed[k] ELSE w[k]) = w[k]
  BY <1>1
<1>4. Apply(w, diff) =
        [k \in DOMAIN w |-> IF k \in DOMAIN diff.changed THEN diff.changed[k] ELSE w[k]]
  BY <1>2 DEF Apply
<1>5. Apply(w, diff) = [k \in DOMAIN w |-> w[k]]
  BY <1>3, <1>4
<1> QED
  BY <1>5 DEF IsWorld, diff

-----------------------------------------------------------------------------
(* Quotient and remainder make the number again. *)
LEMMA Division ==
  ASSUME NEW P \in Nat \ {0}, NEW j \in Int
  PROVE  /\ j = P * (j \div P) + (j % P)
         /\ j % P \in 0 .. P - 1 /\ j \div P \in Int
OBVIOUS

(* A masked message number is a slot. *)
LEMMA SlotInRange == \A m \in Int : SlotOf(m) \in Slots
BY SlotsAssumption, Division DEF SlotOf, Slots

(* Of PacketBackup consecutive messages no two share a slot. *)
LEMMA SlotOnce ==
  ASSUME NEW j \in Int, NEW k \in Int, SlotOf(j) = SlotOf(k),
         j - k < PacketBackup, k - j < PacketBackup
  PROVE  j = k
<1> DEFINE P == PacketBackup
           a == j \div P
           b == k \div P
<1>1. /\ a \in Int /\ b \in Int /\ P \in Nat \ {0}
      /\ j = P * a + (j % P) /\ k = P * b + (k % P) /\ j % P = k % P
  BY SlotsAssumption, Division DEF SlotOf
<1>2. (j % P) \in Int
  BY SlotsAssumption, Division
<1> HIDE DEF a, b, P
<1>3. j - k = P * a - P * b
  BY <1>1, <1>2
<1>4. P * a - P * b = (a - b) * P
  BY <1>1
<1>5. a - b >= 1 => (a - b) * P >= P
  BY <1>1
<1>6. a - b <= -1 => (a - b) * P <= -P
  BY <1>1
<1>7. a - b = 0
  BY <1>1, <1>3, <1>4, <1>5, <1>6 DEF P
<1> QED
  BY <1>1, <1>3, <1>4, <1>7

(* The remainder of a multiple and something small is the latter. *)
LEMMA Remainder ==
  ASSUME NEW P \in Nat \ {0}, NEW q \in Int, NEW x \in 0 .. P - 1
  PROVE  (P * q + x) % P = x
<1> DEFINE j == P * q + x
           a == j \div P
           y == j % P
<1>1. a \in Int /\ y \in 0 .. P - 1 /\ j = P * a + y
  BY Division
<1> HIDE DEF a, y
<1>2. P * q + x = P * a + y
  BY <1>1
<1>3. y - x = P * q - P * a
  BY <1>1, <1>2
<1>4. P * q - P * a = (q - a) * P
  BY <1>1
<1>5. q - a >= 1 => (q - a) * P >= P
  BY <1>1
<1>6. q - a <= -1 => (q - a) * P <= -P
  BY <1>1
<1>7. q - a = 0
  BY <1>1, <1>3, <1>4, <1>5, <1>6
<1>8. (q - a) * P = 0
  BY <1>7
<1> QED
  BY <1>1, <1>3, <1>4, <1>8 DEF y

(* The largest number up to m that has slot i. *)
LEMMA Congruent ==
  ASSUME NEW P \in Nat \ {0}, NEW m \in Int, NEW i \in 0 .. P - 1
  PROVE  (m - ((m - i) % P)) % P = i
<1> DEFINE a == (m - i) \div P
           x == (m - i) % P
<1>1. a \in Int /\ x \in 0 .. P - 1 /\ m - i = P * a + x
  BY Division
<1> HIDE DEF a, x
<1>2. m - x = P * a + i
  BY <1>1
<1>3. (P * a + i) % P = i
  BY <1>1, Remainder
<1> QED
  BY <1>2, <1>3 DEF x

(* Of PacketBackup consecutive messages one has the slot. *)
LEMMA SlotTaken ==
  ASSUME NEW m \in Int, NEW i \in Slots
  PROVE  \E k \in m - (PacketBackup - 1) .. m : SlotOf(k) = i
<1> DEFINE P == PacketBackup
           k == m - ((m - i) % P)
<1>1. P \in Nat \ {0} /\ i \in 0 .. P - 1
  BY SlotsAssumption DEF Slots
<1>2. (m - i) % P \in 0 .. P - 1
  BY <1>1, Division
<1>3. k % P = i
  BY <1>1, Congruent
<1>4. k \in m - (P - 1) .. m
  BY <1>1, <1>2
<1> QED
  BY <1>3, <1>4 DEF SlotOf

-----------------------------------------------------------------------------
(* Every nonempty set of numbers has a least member. *)
LEMMA LeastOf ==
  ASSUME NEW S \in SUBSET Nat, S # {}
  PROVE  \E x \in S : \A y \in S : x <= y
<1> DEFINE Below == {0 .. k : k \in S}
<1>1. \A k \in S : IsFiniteSet(0 .. k) /\ 0 .. k \subseteq Nat
  BY FS_Interval
<1>2. Below \subseteq FiniteSubsetsOf(Nat) /\ Below # {}
  BY <1>1 DEF FiniteSubsetsOf
<1>3. PICK b \in Below : \A a \in Below : ~ (<<a, b>> \in StrictSubsetOrdering(Nat))
  <2> HIDE DEF Below
  <2> QED
    BY <1>2, FS_StrictSubsetOrderingWellFounded, WFMin
<1>4. PICK x \in S : b = 0 .. x
  BY <1>3
<1>5. ASSUME NEW y \in S, y < x
      PROVE  FALSE
  <2>1. 0 .. y \in Below /\ 0 .. y \in SUBSET Nat /\ 0 .. x \in SUBSET Nat
    OBVIOUS
  <2>2. 0 .. y \subseteq 0 .. x /\ x \in 0 .. x /\ x \notin 0 .. y
    BY <1>5
  <2> QED
    BY <2>1, <2>2, <1>3, <1>4 DEF StrictSubsetOrdering
<1> QED
  BY <1>5

(* There is a message to read against, which lies no later than the first  *)
(* one in a valid slot.                                                    *)
LEMMA FirstValidAt ==
  ASSUME NEW r, NEW m \in Nat, NEW base \in Nat, base <= m, base + PacketBackup >= m
  PROVE  LET e == FirstValid(r, base, m)
         IN  /\ e \in base .. base + PacketBackup
             /\ r.snapshots[SlotOf(e)].valid \/ SlotOf(e) = SlotOf(m)
             /\ \A k \in base .. e - 1 : /\ ~ r.snapshots[SlotOf(k)].valid
                                         /\ SlotOf(k) # SlotOf(m)
<1> DEFINE Ends(k) == r.snapshots[SlotOf(k)].valid \/ SlotOf(k) = SlotOf(m)
           S == {k \in base .. base + PacketBackup : Ends(k)}
<1>1. PacketBackup \in Nat \ {0}
  BY SlotsAssumption
<1>2. m \in S /\ S \in SUBSET Nat
  BY <1>1
<1>3. PICK x \in S : \A y \in S : x <= y
  <2> HIDE DEF S
  <2> QED
    BY <1>2, LeastOf
<1>4. \A k \in base .. x - 1 : ~ Ends(k)
  BY <1>1, <1>3
<1> QED
  BY <1>3, <1>4 DEF FirstValid

-----------------------------------------------------------------------------
(* Reader p is reader r after snapshot t was stored. *)
StoreFacts(r, t, p) ==
  /\ IsReader(p) /\ p.newSnapshots
  /\ p.snap = t
  /\ p.baseInvalid = r.baseInvalid /\ p.anyInvalid = r.anyInvalid
  /\ \A i \in Slots :
       p.snapshots[i] =
         IF i = SlotOf(t.messageNum) THEN t
         ELSE [r.snapshots[i] EXCEPT
                 !.valid = @ /\ i \notin {SlotOf(k) : k \in Skipped(r, t.messageNum)}]

(* A snapshot is stored in the slot of its message, and the slots that were *)
(* skipped are not valid any more. *)
LEMMA StoreAt ==
  ASSUME NEW r, IsReader(r), NEW t, IsSnap(t), t.messageNum > 0
  PROVE  StoreFacts(r, t, StoreSnap(r, t))
<1> DEFINE cleared == {SlotOf(k) : k \in Skipped(r, t.messageNum)}
           new(i) == IF i = SlotOf(t.messageNum) THEN t
                     ELSE [r.snapshots[i] EXCEPT !.valid = @ /\ i \notin cleared]
           slots == [i \in Slots |-> new(i)]
           p == [snapshots |-> slots, snap |-> t, newSnapshots |-> TRUE,
                 baseInvalid |-> r.baseInvalid, anyInvalid |-> r.anyInvalid]
<1>1. StoreSnap(r, t) = p
  <2>1. StoreSnap(r, t) = [r EXCEPT !.snap = t, !.newSnapshots = TRUE, !.snapshots = slots]
    BY DEF StoreSnap
  <2> HIDE DEF slots
  <2> QED
    BY <2>1 DEF IsReader
<1>2. ASSUME NEW i \in Slots PROVE IsSnap(new(i))
  <2>1. CASE i = SlotOf(t.messageNum)
    BY <2>1
  <2>2. CASE i # SlotOf(t.messageNum)
    <3> DEFINE s == r.snapshots[i]
               v == s.valid /\ i \notin cleared
    <3>1. IsSnap(s)
      BY DEF IsReader
    <3>2. new(i) = [s EXCEPT !.valid = v]
      BY <2>2
    <3>3. v \in BOOLEAN
      OBVIOUS
    <3> HIDE DEF s, v, new
    <3>4. new(i) = [valid |-> v, messageNum |-> s.messageNum, deltaNum |-> s.deltaNum,
                    world |-> s.world]
      BY <3>1, <3>2 DEF IsSnap
    <3> QED
      BY <3>1, <3>3, <3>4 DEF IsSnap
  <2> QED
    BY <2>1, <2>2
<1>3. IsReader(p)
  <2>1. p.snapshots = [i \in Slots |-> p.snapshots[i]] /\ \A i \in Slots : p.snapshots[i] = new(i)
    OBVIOUS
  <2>2. \A i \in Slots : IsSnap(p.snapshots[i])
    <3> HIDE DEF new, p
    <3> QED
      BY <1>2, <2>1
  <2> HIDE DEF new, slots
  <2> QED
    BY <2>1, <2>2 DEF IsReader
<1>4. \A i \in Slots : p.snapshots[i] = new(i)
  OBVIOUS
<1> HIDE DEF slots
<1> QED
  BY <1>1, <1>3, <1>4 DEF StoreFacts

(* A later snapshot takes the place of what is too old. *)
LEMMA StoreSound ==
  ASSUME NEW r, Sound(r), NEW t, IsSnap(t), t.valid, t.messageNum > r.snap.messageNum,
         NEW p, StoreFacts(r, t, p)
  PROVE  /\ InPlace(p)
         /\ \A k \in Int : /\ k > t.messageNum - PacketBackup /\ k < t.messageNum
                           /\ Has(r, k)
                           => p.snapshots[SlotOf(k)] = r.snapshots[SlotOf(k)]
         /\ \A i \in Slots : p.snapshots[i].valid =>
              i = SlotOf(t.messageNum) \/ p.snapshots[i] = r.snapshots[i]
<1> DEFINE m == t.messageNum
           now == r.snap.messageNum
           cleared == {SlotOf(k) : k \in Skipped(r, m)}
<1>1. m \in Nat /\ now \in Nat /\ PacketBackup \in Nat \ {0} /\ m > now
  BY SlotsAssumption DEF Sound, IsReader, IsSnap
<1>2. SlotOf(m) \in Slots /\ p.snap = t /\ p.snapshots[SlotOf(m)] = t
  <2>1. SlotOf(m) \in Slots
    BY <1>1, SlotInRange
  <2> QED
    BY <2>1 DEF StoreFacts
<1>3. ASSUME NEW i \in Slots, i # SlotOf(m)
      PROVE  /\ p.snapshots[i].valid <=> r.snapshots[i].valid /\ i \notin cleared
             /\ r.snapshots[i].valid /\ i \notin cleared => p.snapshots[i] = r.snapshots[i]
             /\ IsSnap(r.snapshots[i])
  <2>1. IsSnap(r.snapshots[i])
    BY DEF Sound, IsReader
  <2>2. p.snapshots[i] = [r.snapshots[i] EXCEPT !.valid = @ /\ i \notin cleared]
    BY <1>3 DEF StoreFacts
  <2> HIDE DEF cleared
  <2> QED
    BY <2>1, <2>2 DEF IsSnap
<1>4. ASSUME NEW k \in Nat, k > now - PacketBackup, k <= now, SlotOf(k) # SlotOf(m),
             SlotOf(k) \notin cleared
      PROVE  k > m - PacketBackup
  <2> SUFFICES ASSUME k <= m - PacketBackup PROVE FALSE
    BY <1>1
  <2> DEFINE next == now + 1
  <2>1. PICK j \in m - (PacketBackup - 1) .. m : SlotOf(j) = SlotOf(k)
    BY <1>1, SlotInRange, SlotTaken
  <2>2. j # m /\ j \in Int
    BY <1>1, <1>4, <2>1
  <2>3. j > now
    <3> SUFFICES ASSUME j <= now PROVE FALSE
      BY <1>1, <2>2
    <3>1. j = k
      BY <1>1, <1>4, <2>1, <2>2, SlotOnce
    <3> QED
      BY <1>1, <2>1, <3>1
  <2>4. j \in Skipped(r, m)
    BY <1>1, <2>1, <2>2, <2>3 DEF Skipped
  <2> QED
    BY <1>4, <2>1, <2>4
<1>5. InPlace(p)
  <2>1. ASSUME NEW i \in Slots, p.snapshots[i].valid
        PROVE  /\ SlotOf(p.snapshots[i].messageNum) = i
               /\ p.snapshots[i].messageNum > 0
               /\ p.snapshots[i].messageNum <= m
               /\ p.snapshots[i].messageNum > m - PacketBackup
    <3>1. CASE i = SlotOf(m)
      BY <1>1, <1>2, <3>1
    <3>2. CASE i # SlotOf(m)
      <4>1. /\ r.snapshots[i].valid /\ i \notin cleared
            /\ p.snapshots[i] = r.snapshots[i]
            /\ r.snapshots[i].messageNum \in Nat
        BY <1>3, <2>1, <3>2 DEF IsSnap
      <4>2. /\ SlotOf(r.snapshots[i].messageNum) = i
            /\ r.snapshots[i].messageNum > 0
            /\ r.snapshots[i].messageNum <= now
            /\ r.snapshots[i].messageNum > now - PacketBackup
        BY <4>1 DEF Sound, InPlace
      <4> QED
        BY <1>1, <1>4, <3>2, <4>1, <4>2
    <3> QED
      BY <3>1, <3>2
  <2> QED
    BY <1>2, <2>1 DEF InPlace
<1>6. ASSUME NEW k \in Int, k > m - PacketBackup, k < m, Has(r, k)
      PROVE  p.snapshots[SlotOf(k)] = r.snapshots[SlotOf(k)]
  <2>1. SlotOf(k) \in Slots /\ SlotOf(k) # SlotOf(m)
    BY <1>1, <1>6, SlotInRange, SlotOnce
  <2>2. k <= now /\ r.snapshots[SlotOf(k)].valid
    BY <1>6, <2>1 DEF Sound, InPlace, Has
  <2>3. ASSUME NEW j \in Skipped(r, m) PROVE SlotOf(j) # SlotOf(k)
    <3>1. j \in Int /\ j > now /\ j < m
      BY <1>1, <2>3 DEF Skipped
    <3>2. k \in Int /\ j # k /\ j - k < PacketBackup /\ k - j < PacketBackup
      BY <1>1, <1>6, <2>2, <3>1
    <3> QED
      BY <3>1, <3>2, SlotOnce
  <2> QED
    BY <1>3, <2>1, <2>2, <2>3
<1>7. \A i \in Slots : p.snapshots[i].valid =>
        i = SlotOf(m) \/ p.snapshots[i] = r.snapshots[i]
  <2> HIDE DEF m, cleared
  <2> QED
    BY <1>3
<1> QED
  BY <1>5, <1>6, <1>7

-----------------------------------------------------------------------------
(* The message to read against: the named one if it is there, otherwise a  *)
(* later one, if there was a snapshot since.                               *)
LEMMA BaseFound ==
  ASSUME NEW r, Sound(r), NEW m \in Nat, m > r.snap.messageNum,
         NEW base \in Nat \ {0}, base < m, base > m - PacketBackup
  PROVE  LET e   == FirstValid(r, base, m)
             old == r.snapshots[SlotOf(e)]
         IN  /\ e \in Nat /\ IsSnap(old)
             /\ Has(r, base) => e = base
             /\ base <= r.snap.messageNum => old.valid /\ old.messageNum = e
             /\ r.snapshots[SlotOf(base)].valid /\ old.valid /\ old.messageNum = e
                  => Has(r, base)
<1> DEFINE e == FirstValid(r, base, m)
           now == r.snap.messageNum
<1>1. PacketBackup \in Nat \ {0} /\ now \in Nat
  BY SlotsAssumption DEF Sound, IsReader, IsSnap
<1>2. /\ e \in base .. base + PacketBackup
      /\ r.snapshots[SlotOf(e)].valid \/ SlotOf(e) = SlotOf(m)
      /\ \A k \in base .. e - 1 : /\ ~ r.snapshots[SlotOf(k)].valid
                                  /\ SlotOf(k) # SlotOf(m)
  <2>1. base \in Nat /\ base <= m /\ base + PacketBackup >= m
    BY <1>1
  <2> QED
    BY <2>1, FirstValidAt
<1> HIDE DEF e
<1>3. e \in Nat /\ base \in base .. e /\ SlotOf(e) \in Slots
  BY <1>1, <1>2, SlotInRange
<1>4. r.snapshots[SlotOf(base)].valid => e = base
  BY <1>2, <1>3
<1>5. ASSUME base <= now
      PROVE  r.snapshots[SlotOf(e)].valid /\ r.snapshots[SlotOf(e)].messageNum = e
  <2>1. now > 0 /\ SlotOf(now) \in Slots /\ r.snapshots[SlotOf(now)] = r.snap /\ r.snap.valid
    BY <1>1, <1>5, SlotInRange DEF Sound, InPlace
  <2>2. e <= now
    BY <1>1, <1>2, <1>3, <1>5, <2>1
  <2>3. SlotOf(e) # SlotOf(m)
    BY <1>1, <1>2, <1>3, <2>2, SlotOnce
  <2>4. /\ r.snapshots[SlotOf(e)].valid
        /\ r.snapshots[SlotOf(e)].messageNum \in Nat
        /\ SlotOf(r.snapshots[SlotOf(e)].messageNum) = SlotOf(e)
        /\ r.snapshots[SlotOf(e)].messageNum <= now
        /\ r.snapshots[SlotOf(e)].messageNum > now - PacketBackup
    BY <1>2, <1>3, <2>3 DEF Sound, IsReader, IsSnap, InPlace
  <2>5. r.snapshots[SlotOf(e)].messageNum = e
    BY <1>1, <1>2, <1>3, <2>2, <2>4, SlotOnce
  <2> QED
    BY <2>4, <2>5
<1>6. IsSnap(r.snapshots[SlotOf(e)])
  BY <1>3 DEF Sound, IsReader
<1> QED
  BY <1>3, <1>4, <1>5, <1>6 DEF Has, e

(* Reader p is reader r after message m with difference diff to the        *)
(* message span messages earlier: what is accepted, what stays and what is *)
(* read.                                                                   *)
ParseFacts(r, m, span, diff, p) ==
  LET base == m - span
      full == span = 0 \/ base <= 0
  IN  /\ Sound(p)
      /\ p.baseInvalid <=> ~ full /\ ~ r.snapshots[SlotOf(base)].valid
      /\ p.anyInvalid <=> r.anyInvalid \/ p.baseInvalid
      /\ \/ p.snap.messageNum = m
         \/ p.snap = r.snap /\ p.snapshots = r.snapshots
      /\ \A k \in Int : k > m - PacketBackup /\ k < m /\ Has(r, k) =>
           p.snapshots[SlotOf(k)] = r.snapshots[SlotOf(k)]
      /\ \A i \in Slots : p.snapshots[i].valid =>
           \/ p.snap.messageNum = m /\ i = SlotOf(m)
           \/ p.snapshots[i] = r.snapshots[i]
      /\ full =>
           p.snap = [valid |-> TRUE, messageNum |-> m,
                     deltaNum |-> IF span = 0 THEN -1 ELSE base,
                     world |-> Apply(NoWorld, diff)]
      /\ ~ full /\ Has(r, base) =>
           p.snap = [valid |-> TRUE, messageNum |-> m, deltaNum |-> base,
                     world |-> Apply(r.snapshots[SlotOf(base)].world, diff)]
      /\ ~ full /\ base <= r.snap.messageNum => p.snap.messageNum = m
      /\ ~ full /\ p.snap.messageNum = m /\ ~ p.baseInvalid => Has(r, base)

(* What a reader has after a message: a snapshot whose base it holds is *)
(* applied to that base and stored. *)
LEMMA ParseAt ==
  ASSUME NEW r, Sound(r), NEW m \in Nat, m > r.snap.messageNum,
         NEW span \in Nat, span < PacketBackup, NEW diff
  PROVE  ParseFacts(r, m, span, diff, ParseSnapshot(r, m, span, diff))
<1> DEFINE base == m - span
           full == span = 0 \/ base <= 0
           e == FirstValid(r, base, m)
           old == r.snapshots[SlotOf(e)]
           new == [valid      |-> full \/ (old.valid /\ old.messageNum = e),
                   messageNum |-> m,
                   deltaNum   |-> IF span = 0 THEN -1 ELSE IF full THEN base ELSE e,
                   world      |-> Apply(IF full THEN NoWorld ELSE old.world, diff)]
           bad == ~ full /\ ~ r.snapshots[SlotOf(base)].valid
           read == [r EXCEPT !.baseInvalid = bad, !.anyInvalid = @ \/ bad]
           p == ParseSnapshot(r, m, span, diff)
<1>1. p = IF new.valid THEN StoreSnap(read, new) ELSE read
  BY DEF ParseSnapshot
<1>2. r.snap.messageNum \in Nat /\ PacketBackup \in Nat \ {0} /\ base \in Int /\ m > 0
  BY SlotsAssumption DEF Sound, IsReader, IsSnap
<1>3. /\ read = [snapshots |-> r.snapshots, snap |-> r.snap, newSnapshots |-> r.newSnapshots,
                 baseInvalid |-> bad, anyInvalid |-> r.anyInvalid \/ bad]
      /\ bad \in BOOLEAN /\ r.anyInvalid \in BOOLEAN
  <2> HIDE DEF bad
  <2>1. bad \in BOOLEAN
    BY DEF bad
  <2>2. /\ r = [snapshots |-> r.snapshots, snap |-> r.snap, newSnapshots |-> r.newSnapshots,
                baseInvalid |-> r.baseInvalid, anyInvalid |-> r.anyInvalid]
        /\ r.anyInvalid \in BOOLEAN
    BY DEF Sound, IsReader
  <2> DEFINE any == r.anyInvalid \/ bad
  <2>3. read = [r EXCEPT !.baseInvalid = bad, !.anyInvalid = any]
    OBVIOUS
  <2> HIDE DEF any, read
  <2>4. read = [snapshots |-> r.snapshots, snap |-> r.snap, newSnapshots |-> r.newSnapshots,
                baseInvalid |-> bad, anyInvalid |-> any]
    BY <2>2, <2>3
  <2> QED
    BY <2>1, <2>2, <2>4 DEF any
<1> HIDE DEF bad
<1>4. /\ read.snapshots = r.snapshots /\ read.snap = r.snap
      /\ read.baseInvalid = bad /\ read.anyInvalid = (r.anyInvalid \/ bad)
      /\ IsReader(read)
  <2> HIDE DEF read
  <2>1. /\ read.snapshots = r.snapshots /\ read.snap = r.snap
        /\ read.baseInvalid = bad /\ read.anyInvalid = (r.anyInvalid \/ bad)
        /\ read.newSnapshots = r.newSnapshots
    BY <1>3
  <2> QED
    BY <1>3, <2>1 DEF Sound, IsReader
<1> HIDE DEF read
<1>5. Sound(read) /\ \A k \in Int : Has(read, k) <=> Has(r, k)
  BY <1>4 DEF Sound, InPlace, Has
<1>6. ~ full => /\ e \in Nat /\ IsSnap(old)
                /\ Has(r, base) => e = base
                /\ base <= r.snap.messageNum => old.valid /\ old.messageNum = e
                /\ r.snapshots[SlotOf(base)].valid /\ old.valid /\ old.messageNum = e
                     => Has(r, base)
  <2> SUFFICES ASSUME ~ full
      PROVE  /\ e \in Nat /\ IsSnap(old)
             /\ Has(r, base) => e = base
             /\ base <= r.snap.messageNum => old.valid /\ old.messageNum = e
             /\ r.snapshots[SlotOf(base)].valid /\ old.valid /\ old.messageNum = e
                  => Has(r, base)
    OBVIOUS
  <2>1. base \in Nat \ {0} /\ base < m /\ base > m - PacketBackup
    BY <1>2
  <2> HIDE DEF base, full
  <2> QED
    BY <2>1, BaseFound
<1> HIDE DEF e, old
<1>7. /\ IsWorld(new.world) /\ new.messageNum = m
      /\ new.valid \in BOOLEAN /\ new.deltaNum \in Int
  <2>1. IsWorld(Apply(IF full THEN NoWorld ELSE old.world, diff))
    BY ApplyWorld
  <2>2. new.deltaNum \in Int
    BY <1>2, <1>6
  <2> QED
    BY <1>6, <2>1, <2>2 DEF IsSnap
<1>8. IsSnap(new)
  BY <1>7 DEF IsSnap
<1>9. CASE ~ new.valid
  <2>1. p = read
    BY <1>1, <1>9
  <2>2. ~ full /\ ~ (old.valid /\ old.messageNum = e)
    BY <1>9
  <2>3. ~ Has(r, base) /\ ~ (base <= r.snap.messageNum)
    BY <1>6, <2>2 DEF Has, old
  <2>4. /\ p.baseInvalid <=> bad
        /\ p.anyInvalid <=> r.anyInvalid \/ p.baseInvalid
        /\ p.snap = r.snap /\ p.snapshots = r.snapshots /\ Sound(p)
    BY <1>3, <1>4, <1>5, <2>1
  <2>5. /\ p.baseInvalid <=> ~ full /\ ~ r.snapshots[SlotOf(base)].valid
        /\ p.snap.messageNum # m
    BY <1>2, <2>4 DEF bad
  <2> HIDE DEF p, new
  <2>6. ParseFacts(r, m, span, diff, p)
    BY <2>2, <2>3, <2>4, <2>5 DEF ParseFacts
  <2> QED
    BY <2>6 DEF p
<1>10. CASE new.valid
  <2>1. p = StoreSnap(read, new)
    BY <1>1, <1>10
  <2>2. StoreFacts(read, new, p)
    <3> HIDE DEF new, p
    <3> QED
      BY <1>2, <1>4, <1>7, <1>8, <2>1, StoreAt
  <2>3. /\ InPlace(p)
        /\ \A k \in Int : k > m - PacketBackup /\ k < m /\ Has(read, k) =>
             p.snapshots[SlotOf(k)] = read.snapshots[SlotOf(k)]
        /\ \A i \in Slots : p.snapshots[i].valid =>
             i = SlotOf(m) \/ p.snapshots[i] = read.snapshots[i]
    <3> HIDE DEF new, p
    <3> QED
      BY <1>4, <1>5, <1>7, <1>8, <1>10, <2>2, StoreSound
  <2>4. p.snap = new /\ p.baseInvalid = bad /\ p.anyInvalid = (r.anyInvalid \/ bad) /\ Sound(p)
    BY <1>4, <2>2, <2>3 DEF StoreFacts, Sound
  <2>5. ~ full /\ ~ bad => Has(r, base)
    BY <1>6, <1>10 DEF bad
  <2>6. full => new = [valid |-> TRUE, messageNum |-> m,
                       deltaNum |-> IF span = 0 THEN -1 ELSE base,
                       world |-> Apply(NoWorld, diff)]
    OBVIOUS
  <2>7. ~ full /\ Has(r, base) =>
          new = [valid |-> TRUE, messageNum |-> m, deltaNum |-> base,
                 world |-> Apply(r.snapshots[SlotOf(base)].world, diff)]
    <3> HIDE DEF base, full
    <3>1. ~ full /\ Has(r, base) => e = base /\ old.valid /\ old.messageNum = e
      BY <1>6 DEF old, Has
    <3>2. ~ full => span # 0
      BY DEF full
    <3> QED
      BY <3>1, <3>2 DEF old
  <2>8. /\ p.baseInvalid <=> ~ full /\ ~ r.snapshots[SlotOf(base)].valid
        /\ p.anyInvalid <=> r.anyInvalid \/ p.baseInvalid
        /\ p.snap.messageNum = m
    <3> HIDE DEF p, new
    <3> QED
      BY <1>3, <1>7, <2>4 DEF bad
  <2>9. ~ full /\ ~ p.baseInvalid => Has(r, base)
    BY <2>4, <2>5
  <2> HIDE DEF p, new
  <2>10. ParseFacts(r, m, span, diff, p)
    BY <1>4, <1>5, <2>3, <2>4, <2>6, <2>7, <2>8, <2>9 DEF ParseFacts
  <2> QED
    BY <2>10 DEF p
<1> QED
  BY <1>9, <1>10

-----------------------------------------------------------------------------
(* A reader at the start has nothing. *)
LEMMA ZeroSound == Sound(ZeroReader) /\ ~ ZeroReader.anyInvalid /\ IsWorld(NoWorld)
<1>1. IsWorld(NoWorld)
  BY DEF IsWorld, NoWorld
<1>2. IsSnap(ZeroSnap) /\ ~ ZeroSnap.valid /\ ZeroSnap.messageNum = 0
  BY <1>1 DEF IsSnap, ZeroSnap
<1> QED
  BY <1>1, <1>2 DEF ZeroReader, Sound, IsReader, InPlace

(* A snapshot that a reader has is among the last ones. *)
LEMMA HasBounds ==
  ASSUME NEW r, Sound(r), NEW k \in Int, Has(r, k)
  PROVE  k > 0 /\ k <= r.snap.messageNum /\ k > r.snap.messageNum - PacketBackup
BY SlotInRange DEF Sound, InPlace, Has

(* A reader still has the base of its last snapshot. *)
KeepsBase(r) ==
  r.snap.messageNum > 0 /\ r.snap.deltaNum # -1 =>
    /\ r.snap.deltaNum > 0 /\ r.snap.deltaNum < r.snap.messageNum
    /\ r.snap.deltaNum > r.snap.messageNum - PacketBackup
    /\ Has(r, r.snap.deltaNum)

(* How far back the writer takes the base to lie then. *)
LEMMA DistanceOf ==
  ASSUME NEW r, Sound(r), KeepsBase(r)
  PROVE  LET span == BaseDistance(r, FALSE)
         IN  /\ span \in Nat /\ span < PacketBackup
             /\ r.snap.messageNum > 0 =>
                  span = IF r.snap.deltaNum = -1 THEN 0
                         ELSE r.snap.messageNum - r.snap.deltaNum
             /\ span > 0 =>
                  /\ r.snap.messageNum > 0
                  /\ r.snap.messageNum - span > 0
                  /\ Has(r, r.snap.messageNum - span)
             /\ BaseDistance(r, TRUE) = 0
<1> DEFINE span == BaseDistance(r, FALSE)
           zero == BaseDistance(r, TRUE)
<1> SUFFICES /\ span \in Nat /\ span < PacketBackup
             /\ r.snap.messageNum > 0 =>
                  span = IF r.snap.deltaNum = -1 THEN 0
                         ELSE r.snap.messageNum - r.snap.deltaNum
             /\ span > 0 =>
                  /\ r.snap.messageNum > 0
                  /\ r.snap.messageNum - span > 0
                  /\ Has(r, r.snap.messageNum - span)
             /\ zero = 0
  OBVIOUS
<1>1. /\ r.snap.messageNum \in Nat /\ r.snap.deltaNum \in Int
      /\ PacketBackup \in Nat \ {0}
  BY SlotsAssumption DEF Sound, IsReader, IsSnap
<1>2. zero = 0
  BY DEF BaseDistance
<1>3. CASE r.snap.messageNum = 0 \/ r.snap.deltaNum = -1
  <2>1. span = 0
    BY <1>1, <1>3 DEF BaseDistance
  <2> HIDE DEF span, zero
  <2> QED
    BY <1>1, <1>2, <1>3, <2>1
<1>4. CASE r.snap.messageNum > 0 /\ r.snap.deltaNum # -1
  <2>1. /\ r.snap.deltaNum > 0 /\ r.snap.deltaNum < r.snap.messageNum
        /\ r.snap.deltaNum > r.snap.messageNum - PacketBackup
        /\ Has(r, r.snap.deltaNum)
    BY <1>4 DEF KeepsBase
  <2>2. r.snap.messageNum - (r.snap.messageNum - r.snap.deltaNum) = r.snap.deltaNum
    BY <1>1
  <2>3. span = r.snap.messageNum - r.snap.deltaNum
    BY <1>1, <1>4, <2>1, <2>2 DEF BaseDistance, Has
  <2> HIDE DEF span, zero
  <2> QED
    BY <1>1, <1>2, <1>4, <2>1, <2>2, <2>3
<1> HIDE DEF span, zero
<1> QED
  BY <1>1, <1>3, <1>4

(* The reader of a demo: a snapshot that is coded against one it has is    *)
(* read as it was sent.                                                    *)
LEMMA ReadExact ==
  ASSUME NEW r, Sound(r), NEW m \in Nat, m > r.snap.messageNum,
         NEW span \in Nat, span < PacketBackup, span > 0 => Has(r, m - span),
         NEW w, IsWorld(w),
         NEW diff, diff = Delta(IF span = 0 THEN NoWorld
                                ELSE r.snapshots[SlotOf(m - span)].world, w),
         NEW p, p = ParseSnapshot(r, m, span, diff)
  PROVE  /\ ParseFacts(r, m, span, diff, p)
         /\ p.snap = [valid |-> TRUE, messageNum |-> m,
                      deltaNum |-> IF span = 0 THEN -1 ELSE m - span, world |-> w]
         /\ ~ p.baseInvalid
         /\ KeepsBase(p)
<1>1. ParseFacts(r, m, span, diff, p)
  BY ParseAt
<1>2. m > 0 /\ m \in Nat /\ PacketBackup \in Nat \ {0}
  BY SlotsAssumption DEF Sound, IsReader, IsSnap
<1>3. CASE span = 0
  <2>1. Apply(NoWorld, diff) = w
    BY <1>3, ApplyBack
  <2>2. /\ p.snap = [valid |-> TRUE, messageNum |-> m, deltaNum |-> -1, world |-> w]
        /\ ~ p.baseInvalid
    BY <1>1, <1>3, <2>1 DEF ParseFacts
  <2> QED
    BY <1>1, <1>3, <2>2 DEF KeepsBase
<1>4. CASE span > 0
  <2> DEFINE base == m - span
  <2>1. Has(r, base) /\ base > 0 /\ base \in Int /\ base < m /\ base > m - PacketBackup
    BY <1>2, <1>4, HasBounds
  <2>2. Apply(r.snapshots[SlotOf(base)].world, diff) = w
    BY <1>4, ApplyBack
  <2>3. /\ p.snap = [valid |-> TRUE, messageNum |-> m, deltaNum |-> base, world |-> w]
        /\ ~ p.baseInvalid
        /\ p.snapshots[SlotOf(base)] = r.snapshots[SlotOf(base)]
    <3>1. p.snap = [valid |-> TRUE, messageNum |-> m, deltaNum |-> base,
                    world |-> Apply(r.snapshots[SlotOf(base)].world, diff)]
      <4> DEFINE s == [valid |-> TRUE, messageNum |-> m, deltaNum |-> base,
                       world |-> Apply(r.snapshots[SlotOf(base)].world, diff)]
      <4>1. ~ (span = 0 \/ base <= 0)
        BY <1>4, <2>1
      <4>2. ~ (span = 0 \/ base <= 0) /\ Has(r, base) => p.snap = s
        BY <1>1, Zenon DEF ParseFacts
      <4> HIDE DEF s, base
      <4>3. p.snap = s
        BY <2>1, <4>1, <4>2
      <4> QED
        BY <4>3 DEF s
    <3>2. ~ p.baseInvalid
      BY <1>1, <1>4, <2>1 DEF ParseFacts, Has
    <3>3. p.snapshots[SlotOf(base)] = r.snapshots[SlotOf(base)]
      <4> HIDE DEF base
      <4> QED
        BY <1>1, <2>1 DEF ParseFacts
    <3> QED
      BY <2>2, <3>1, <3>2, <3>3
  <2>4. KeepsBase(p)
    <3> HIDE DEF base
    <3> QED
      <4>1. p.snap.deltaNum = base /\ p.snap.messageNum = m
        BY <2>3
      <4>2. Has(p, base)
        BY <2>1, <2>3 DEF Has
      <4> QED
        BY <2>1, <4>1, <4>2 DEF KeepsBase
  <2>5. (IF span = 0 THEN -1 ELSE m - span) = base
    BY <1>4
  <2> HIDE DEF base
  <2> QED
    BY <1>1, <2>3, <2>4, <2>5
<1> QED
  BY <1>3, <1>4
=============================================================================
