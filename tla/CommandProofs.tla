---------------------------- MODULE CommandProofs ----------------------------
(***************************************************************************)
(* The two parts of the handling of server commands.  Combining and        *)
(* splitting them, for any clients, any commands issued to any of them and *)
(* any demos with any frames missing; and the dictionary of their texts,   *)
(* for any texts and sizes.                                                *)
(***************************************************************************)
EXTENDS CommandMerge, CommandDictionary, SequenceTheorems, FiniteSetTheorems,
        WellFoundedInduction, TLAPS

-----------------------------------------------------------------------------
(* Least numbers, which induction over data comes down to.                 *)

Less == {p \in Nat \X Nat : p[1] < p[2]}

(* Numbers do not go down for ever. *)
LEMMA LessWellFounded == IsWellFoundedOn(Less, Nat)
<1>1. Less = OpToRel(<, Nat)
  BY DEF Less, OpToRel
<1> QED
  BY <1>1, NatLessThanWellFounded

(* A set of numbers that is not empty has a least one. *)
LEMMA Least ==
  ASSUME NEW T \in SUBSET Nat, T # {}
  PROVE  \E n \in T : \A m \in T : n <= m
<1>1. \E x \in T : \A y \in T : ~ (<<y, x>> \in Less)
  BY LessWellFounded, WFMin, Zenon
<1>2. \A x, y \in Nat : y < x => <<y, x>> \in Less
  BY DEF Less
<1>3. PICK n \in T : \A m \in T : ~ (<<m, n>> \in Less)
  BY <1>1
<1>4. ASSUME NEW m \in T PROVE n <= m
  <2>1. n \in Nat /\ m \in Nat /\ ~ (<<m, n>> \in Less)
    BY <1>3
  <2>2. ~ (m < n)
    BY <2>1, <1>2, Zenon
  <2> QED
    BY <2>1, <2>2
<1> QED
  BY <1>4

(* Numbers closer than N have different residues modulo N. *)
LEMMA MulMonotone ==
  \A N \in Nat \ {0}, p, q \in Int : p < q => N * q >= N * p + N
  BY SMT

(* Quotient and remainder make the number again. *)
LEMMA DivMod ==
  \A N \in Nat \ {0}, a \in Int :
    /\ a = N * (a \div N) + (a % N)
    /\ a % N \in 0 .. N - 1
    /\ a \div N \in Int
  BY SMT

(* Numbers closer than N have different remainders. *)
LEMMA ResiduesDiffer ==
  ASSUME NEW N \in Nat \ {0}, NEW a \in Int, NEW b \in Int, a < b, b - a < N
  PROVE  a % N # b % N
<1>1. SUFFICES ASSUME a % N = b % N PROVE FALSE
  OBVIOUS
<1> DEFINE p == a \div N
           q == b \div N
<1>2. /\ p \in Int /\ q \in Int
      /\ a = N * p + (a % N) /\ b = N * q + (b % N)
      /\ a % N \in Int
  BY DivMod
<1> HIDE DEF p, q
<1>3. N * q - N * p = b - a
  BY <1>1, <1>2, SMT
<1>4. p < q
  <2>1. SUFFICES ASSUME q <= p PROVE FALSE
    BY <1>2
  <2>2. N * p >= N * q
    BY <1>2, <2>1, MulMonotone, SMT
  <2> QED
    BY <1>2, <1>3, <2>2, SMT
<1>5. N * q >= N * p + N
  BY <1>2, <1>4, MulMonotone
<1> QED
  BY <1>2, <1>3, <1>5, SMT

-----------------------------------------------------------------------------
(* The texts of a list that are for a client. *)

UpToAt(list, c, f, i) ==
  IF i = 0 THEN <<>>
  ELSE IF c \in list[i].mask THEN Append(f[i - 1], list[i].text)
  ELSE f[i - 1]

UpTo(list, c, n, f) == f = [i \in 0 .. n |-> UpToAt(list, c, f, i)]

(* The texts for c in the first n entries of a list, for every n. *)
LEMMA UpToExists ==
  ASSUME NEW list, NEW c, NEW n \in Nat
  PROVE  \E f : UpTo(list, c, n, f)
<1> DEFINE T == {m \in Nat : ~ \E f : UpTo(list, c, m, f)}
<1>1. SUFFICES ASSUME n \in T PROVE FALSE
  OBVIOUS
<1>2. PICK m \in T : \A k \in T : m <= k
  <2>1. T # {} /\ T \in SUBSET Nat
    BY <1>1
  <2> HIDE DEF T
  <2> QED
    BY <2>1, Least
<1>3. m # 0
  <2> SUFFICES ASSUME m = 0 PROVE FALSE
    OBVIOUS
  <2> DEFINE f == [i \in 0 .. 0 |-> <<>>]
  <2>1. UpTo(list, c, 0, f)
    BY DEF UpTo, UpToAt
  <2> QED
    BY <1>2, <2>1
<1>4. m \in Nat /\ m - 1 \in Nat /\ m - 1 \notin T
  BY <1>2, <1>3
<1>5. PICK f : UpTo(list, c, m - 1, f)
  BY <1>4
<1> DEFINE e == IF c \in list[m].mask THEN Append(f[m - 1], list[m].text) ELSE f[m - 1]
           g == [i \in 0 .. m |-> IF i = m THEN e ELSE f[i]]
<1>6. \A i \in 0 .. m : g[i] = UpToAt(list, c, g, i)
  <2>1. ASSUME NEW i \in 0 .. m PROVE g[i] = UpToAt(list, c, g, i)
    <3>1. i = 0 \/ g[i - 1] = f[i - 1]
      BY <1>4
    <3>2. i # m => f[i] = UpToAt(list, c, f, i)
      BY <1>4, <1>5 DEF UpTo
    <3> QED
      BY <1>3, <1>4, <3>1, <3>2 DEF UpToAt
  <2> QED
    BY <2>1
<1>7. UpTo(list, c, m, g)
  BY <1>6 DEF UpTo
<1> QED
  BY <1>2, <1>7

(* TextsFor is the last of these. *)
LEMMA TextsForAt ==
  ASSUME NEW list, Len(list) \in Nat, NEW c
  PROVE  \E f : UpTo(list, c, Len(list), f) /\ TextsFor(list, c) = f[Len(list)]
<1> DEFINE f == CHOOSE g : UpTo(list, c, Len(list), g)
<1>1. UpTo(list, c, Len(list), f)
  BY UpToExists
<1>2. TextsFor(list, c) = f[Len(list)]
  BY DEF TextsFor, UpTo, UpToAt
<1> QED
  BY <1>1, <1>2

(* Two commands are the same to client c. *)
Same(x, y, c) ==
  /\ c \in x.mask <=> c \in y.mask
  /\ c \in x.mask => x.text = y.text

SameUpTo(a, b, c, k) == \A i \in 1 .. k : Same(a[i], b[i], c)

(* Lists that agree up to k have the same texts up to k. *)
LEMMA UpToSame ==
  ASSUME NEW a, NEW b, NEW c, NEW m \in Nat, NEW n \in Nat,
         NEW k \in Nat, k <= m, k <= n,
         NEW f, UpTo(a, c, m, f), NEW g, UpTo(b, c, n, g),
         SameUpTo(a, b, c, k)
  PROVE  f[k] = g[k]
<1> DEFINE T == {i \in 0 .. k : f[i] # g[i]}
<1>1. SUFFICES ASSUME T # {} PROVE FALSE
  OBVIOUS
<1>2. PICK i \in T : \A j \in T : i <= j
  <2>1. T \in SUBSET Nat
    OBVIOUS
  <2> HIDE DEF T
  <2> QED
    BY <1>1, <2>1, Least
<1>3. i \in 0 .. k /\ f[i] # g[i] /\ i \in 0 .. m /\ i \in 0 .. n
  BY <1>2
<1>4. f[i] = UpToAt(a, c, f, i) /\ g[i] = UpToAt(b, c, g, i)
  BY <1>3 DEF UpTo
<1>5. i # 0
  BY <1>3, <1>4 DEF UpToAt
<1>6. i - 1 \in 0 .. k /\ i - 1 \notin T
  BY <1>2, <1>3, <1>5
<1>7. f[i - 1] = g[i - 1] /\ i \in 1 .. k
  BY <1>3, <1>5, <1>6
<1>8. Same(a[i], b[i], c)
  BY <1>7 DEF SameUpTo
<1> QED
  BY <1>3, <1>4, <1>7, <1>8 DEF UpToAt, Same

(* An empty list has no texts. *)
LEMMA TextsForEmpty ==
  ASSUME NEW list, Len(list) = 0, NEW c
  PROVE  TextsFor(list, c) = <<>>
  BY TextsForAt DEF UpTo, UpToAt

(* Lists that are alike for c have the same texts for c. *)
LEMMA TextsForSame ==
  ASSUME NEW a, NEW b, NEW c, Len(a) \in Nat, Len(b) = Len(a),
         SameUpTo(a, b, c, Len(a))
  PROVE  TextsFor(a, c) = TextsFor(b, c)
<1>1. PICK f : UpTo(a, c, Len(a), f) /\ TextsFor(a, c) = f[Len(a)]
  BY TextsForAt
<1>2. PICK g : UpTo(b, c, Len(b), g) /\ TextsFor(b, c) = g[Len(b)]
  BY TextsForAt
<1>3. Len(a) <= Len(a) /\ Len(a) <= Len(b)
  OBVIOUS
<1>4. f[Len(a)] = g[Len(a)]
  BY <1>1, <1>2, <1>3, UpToSame
<1> QED
  BY <1>1, <1>2, <1>4

(* One more command at the end. *)
LEMMA TextsForLast ==
  ASSUME NEW a, NEW b, NEW c, Len(a) \in Nat, Len(b) = Len(a) + 1,
         SameUpTo(a, b, c, Len(a))
  PROVE  TextsFor(b, c) =
           IF c \in b[Len(b)].mask THEN Append(TextsFor(a, c), b[Len(b)].text)
           ELSE TextsFor(a, c)
<1>1. PICK f : UpTo(a, c, Len(a), f) /\ TextsFor(a, c) = f[Len(a)]
  BY TextsForAt
<1>2. PICK g : UpTo(b, c, Len(b), g) /\ TextsFor(b, c) = g[Len(b)]
  BY TextsForAt
<1>3. Len(a) <= Len(a) /\ Len(a) <= Len(b) /\ Len(b) \in Nat
  OBVIOUS
<1>4. f[Len(a)] = g[Len(a)]
  BY <1>1, <1>2, <1>3, UpToSame
<1>5. g[Len(b)] = UpToAt(b, c, g, Len(b))
  BY <1>2, <1>3 DEF UpTo
<1>6. Len(b) # 0 /\ Len(b) - 1 = Len(a)
  OBVIOUS
<1> QED
  BY <1>1, <1>2, <1>4, <1>5, <1>6 DEF UpToAt

(* The texts are commands. *)
Speaks(list, c) ==
  \A i \in 1 .. Len(list) : c \in list[i].mask => list[i].text \in Texts

(* These are sequences of texts. *)
LEMMA UpToType ==
  ASSUME NEW list, NEW c, Len(list) \in Nat, Speaks(list, c),
         NEW f, UpTo(list, c, Len(list), f)
  PROVE  \A k \in 0 .. Len(list) : f[k] \in Seq(Texts)
<1> DEFINE T == {k \in 0 .. Len(list) : f[k] \notin Seq(Texts)}
<1>1. SUFFICES ASSUME T # {} PROVE FALSE
  OBVIOUS
<1>2. PICK k \in T : \A j \in T : k <= j
  <2>1. T \in SUBSET Nat
    OBVIOUS
  <2> HIDE DEF T
  <2> QED
    BY <1>1, <2>1, Least
<1>3. k \in 0 .. Len(list) /\ f[k] \notin Seq(Texts)
  BY <1>2
<1>4. f[k] = UpToAt(list, c, f, k)
  BY <1>3 DEF UpTo
<1>5. k # 0
  BY <1>3, <1>4 DEF UpToAt
<1>6. k - 1 \in 0 .. Len(list) /\ k - 1 \notin T /\ k \in 1 .. Len(list)
  BY <1>2, <1>3, <1>5
<1>7. f[k - 1] \in Seq(Texts)
  BY <1>6
<1>8. c \in list[k].mask => Append(f[k - 1], list[k].text) \in Seq(Texts)
  BY <1>6, <1>7 DEF Speaks
<1> QED
  BY <1>3, <1>4, <1>5, <1>7, <1>8 DEF UpToAt

(* So is TextsFor. *)
LEMMA TextsForType ==
  ASSUME NEW list, NEW c, Len(list) \in Nat, Speaks(list, c)
  PROVE  TextsFor(list, c) \in Seq(Texts)
<1>1. PICK f : UpTo(list, c, Len(list), f) /\ TextsFor(list, c) = f[Len(list)]
  BY TextsForAt
<1>2. Len(list) \in 0 .. Len(list)
  OBVIOUS
<1> QED
  BY <1>1, <1>2, UpToType

(* The list d is a, and b behind it. *)
Joined(a, b, d, c) ==
  /\ Len(a) \in Nat /\ Len(b) \in Nat /\ Len(d) = Len(a) + Len(b)
  /\ \A i \in 1 .. Len(a) : Same(a[i], d[i], c)
  /\ \A i \in 1 .. Len(b) : Same(b[i], d[Len(a) + i], c)

(* A list in two parts has the texts of the first, then those of the *)
(* second. *)
LEMMA TextsForJoin ==
  ASSUME NEW a, NEW b, NEW d, NEW c, Joined(a, b, d, c), Speaks(d, c)
  PROVE  TextsFor(d, c) = TextsFor(a, c) \o TextsFor(b, c)
<1>1. /\ Len(a) \in Nat /\ Len(b) \in Nat /\ Len(d) \in Nat
      /\ Len(d) = Len(a) + Len(b)
      /\ \A i \in 1 .. Len(a) : Same(a[i], d[i], c)
      /\ \A i \in 1 .. Len(b) : Same(b[i], d[Len(a) + i], c)
  BY DEF Joined
<1>2. PICK f : UpTo(a, c, Len(a), f) /\ TextsFor(a, c) = f[Len(a)]
  BY <1>1, TextsForAt
<1>3. PICK g : UpTo(b, c, Len(b), g) /\ TextsFor(b, c) = g[Len(b)]
  BY <1>1, TextsForAt
<1>4. PICK h : UpTo(d, c, Len(d), h) /\ TextsFor(d, c) = h[Len(d)]
  BY <1>1, TextsForAt
<1>5. f[Len(a)] = h[Len(a)]
  <2>1. Len(a) <= Len(a) /\ Len(a) <= Len(d)
    BY <1>1
  <2>2. SameUpTo(a, d, c, Len(a))
    BY <1>1 DEF SameUpTo
  <2> QED
    BY <1>1, <1>2, <1>4, <2>1, <2>2, UpToSame
<1>6. Speaks(b, c)
  <2>1. \A i \in 1 .. Len(b) : Len(a) + i \in 1 .. Len(d)
    BY <1>1
  <2> QED
    BY <1>1, <2>1 DEF Speaks, Same
<1>7. /\ \A k \in 0 .. Len(b) : g[k] \in Seq(Texts)
      /\ f[Len(a)] \in Seq(Texts)
  <2>1. \A k \in 0 .. Len(d) : h[k] \in Seq(Texts)
    BY <1>1, <1>4, UpToType
  <2>2. Len(a) \in 0 .. Len(d)
    BY <1>1
  <2> QED
    BY <1>1, <1>3, <1>5, <1>6, <2>1, <2>2, UpToType
<1> DEFINE s == f[Len(a)]
           m == Len(a)
           n == Len(b)
           joined(k) == h[m + k] = s \o g[k]
           T == {k \in 0 .. n : ~ joined(k)}
<1> HIDE DEF joined
<1>8. T = {}
  <2>1. SUFFICES ASSUME T # {} PROVE FALSE
    OBVIOUS
  <2>2. PICK k \in T : \A j \in T : k <= j
    <3>1. T \in SUBSET Nat
      OBVIOUS
    <3> HIDE DEF T
    <3> QED
      BY <2>1, <3>1, Least
  <2>3. k \in 0 .. Len(b) /\ ~ joined(k) /\ Len(a) + k \in 0 .. Len(d)
    BY <1>1, <2>2
  <2>4. /\ g[k] = UpToAt(b, c, g, k)
        /\ h[Len(a) + k] = UpToAt(d, c, h, Len(a) + k)
    BY <1>3, <1>4, <2>3 DEF UpTo
  <2>5. k # 0
    <3> SUFFICES ASSUME k = 0 PROVE FALSE
      OBVIOUS
    <3>1. g[k] = <<>> /\ h[Len(a) + k] = s
      BY <1>1, <1>5, <2>4 DEF UpToAt
    <3>2. s \o <<>> = s
      BY <1>7
    <3> QED
      BY <2>3, <3>1, <3>2 DEF joined
  <2>6. k - 1 \in 0 .. Len(b) /\ k - 1 \notin T /\ k \in 1 .. Len(b)
        /\ Len(a) + (k - 1) = (Len(a) + k) - 1 /\ Len(a) + k # 0
    BY <1>1, <2>2, <2>3, <2>5
  <2>7. h[(Len(a) + k) - 1] = s \o g[k - 1]
    <3>1. joined(k - 1)
      BY <2>6
    <3> QED
      BY <2>6, <3>1 DEF joined
  <2>8. Same(b[k], d[Len(a) + k], c)
    BY <1>1, <2>6
  <2> HIDE DEF T, s, m, n
  <2>9. g[k - 1] \in Seq(Texts) /\ s \in Seq(Texts)
    BY <1>7, <2>6 DEF s, n
  <2>10. CASE c \in b[k].mask
    <3>1. /\ g[k] = Append(g[k - 1], b[k].text)
          /\ h[Len(a) + k] = Append(s \o g[k - 1], b[k].text)
      BY <2>4, <2>5, <2>6, <2>7, <2>8, <2>10 DEF UpToAt, Same
    <3>2. b[k].text \in Texts
      BY <1>6, <2>6, <2>10 DEF Speaks
    <3>3. Append(s \o g[k - 1], b[k].text) = s \o Append(g[k - 1], b[k].text)
      BY <2>9, <3>2
    <3> QED
      BY <2>3, <3>1, <3>3 DEF joined, m
  <2>11. CASE c \notin b[k].mask
    BY <2>3, <2>4, <2>5, <2>6, <2>7, <2>8, <2>11 DEF UpToAt, Same, joined, m
  <2> QED
    BY <2>10, <2>11
<1>9. Len(b) \in 0 .. Len(b) /\ Len(b) \notin T
  BY <1>1, <1>8
<1>10. h[Len(a) + Len(b)] = s \o g[Len(b)]
  BY <1>9 DEF joined
<1> QED
  BY <1>1, <1>2, <1>3, <1>4, <1>10

(* A list without c has none for c. *)
LEMMA TextsForNone ==
  ASSUME NEW list, NEW c, Len(list) \in Nat,
         \A i \in 1 .. Len(list) : c \notin list[i].mask
  PROVE  TextsFor(list, c) = <<>>
<1>1. PICK f : UpTo(list, c, Len(list), f) /\ TextsFor(list, c) = f[Len(list)]
  BY TextsForAt
<1> DEFINE T == {k \in 0 .. Len(list) : f[k] # <<>>}
<1>2. T = {}
  <2>1. SUFFICES ASSUME T # {} PROVE FALSE
    OBVIOUS
  <2>2. PICK k \in T : \A j \in T : k <= j
    <3>1. T \in SUBSET Nat
      OBVIOUS
    <3> HIDE DEF T
    <3> QED
      BY <2>1, <3>1, Least
  <2>3. k \in 0 .. Len(list) /\ f[k] # <<>>
    BY <2>2
  <2>4. f[k] = UpToAt(list, c, f, k)
    BY <1>1, <2>3 DEF UpTo
  <2>5. k # 0
    BY <2>3, <2>4 DEF UpToAt
  <2>6. k - 1 \in 0 .. Len(list) /\ k - 1 \notin T /\ k \in 1 .. Len(list)
    BY <2>2, <2>3, <2>5
  <2>7. f[k - 1] = <<>>
    BY <2>6
  <2> QED
    BY <2>3, <2>4, <2>5, <2>6, <2>7 DEF UpToAt
<1>3. Len(list) \in 0 .. Len(list) /\ Len(list) \notin T
  BY <1>2
<1> QED
  BY <1>1, <1>3

(* The texts r of a list are those at the places p. *)
Enumerates(p, list, c, n, r) ==
  /\ p \in [1 .. Len(r) -> 1 .. n]
  /\ \A i, j \in 1 .. Len(r) : i < j => p[i] < p[j]
  /\ \A i \in 1 .. Len(r) : c \in list[p[i]].mask /\ list[p[i]].text = r[i]
  /\ \A k \in 1 .. n : c \in list[k].mask => \E i \in 1 .. Len(r) : p[i] = k

(* One more entry for c comes last. *)
LEMMA EnumeratesLast ==
  ASSUME NEW list, NEW c, NEW n \in Nat \ {0}, NEW r \in Seq(Texts),
         NEW p, Enumerates(p, list, c, n - 1, r),
         c \in list[n].mask, list[n].text \in Texts
  PROVE  \E q : Enumerates(q, list, c, n, Append(r, list[n].text))
<1> DEFINE m == Len(r) + 1
           rr == Append(r, list[n].text)
           q == [i \in 1 .. m |-> IF i = m THEN n ELSE p[i]]
<1>1. /\ Len(r) \in Nat /\ Len(rr) = m
      /\ \A i \in 1 .. Len(r) : rr[i] = r[i]
      /\ rr[m] = list[n].text
  OBVIOUS
<1>2. /\ p \in [1 .. Len(r) -> 1 .. n - 1]
      /\ \A i, j \in 1 .. Len(r) : i < j => p[i] < p[j]
      /\ \A i \in 1 .. Len(r) : c \in list[p[i]].mask /\ list[p[i]].text = r[i]
      /\ \A k \in 1 .. n - 1 : c \in list[k].mask => \E i \in 1 .. Len(r) : p[i] = k
  BY DEF Enumerates
<1>3. \A i \in 1 .. Len(r) : p[i] \in 1 .. n - 1 /\ p[i] \in 1 .. n /\ p[i] < n
  BY <1>2
<1>4. \A i \in 1 .. m : i = m \/ i \in 1 .. Len(r)
  BY <1>1
<1>5. q[m] = n /\ \A i \in 1 .. Len(r) : q[i] = p[i]
  BY <1>1
<1> HIDE DEF rr
<1>6. q \in [1 .. m -> 1 .. n]
  BY <1>1, <1>3, <1>4
<1> HIDE DEF q
<1>7. ASSUME NEW i \in 1 .. m, NEW j \in 1 .. m, i < j PROVE q[i] < q[j]
  <2>1. i \in 1 .. Len(r)
    BY <1>1, <1>7
  <2>2. CASE j = m
    BY <1>3, <1>5, <2>1, <2>2
  <2>3. CASE j \in 1 .. Len(r)
    BY <1>2, <1>5, <1>7, <2>1, <2>3
  <2> QED
    BY <1>4, <2>2, <2>3
<1>8. ASSUME NEW i \in 1 .. m PROVE c \in list[q[i]].mask /\ list[q[i]].text = rr[i]
  <2>1. CASE i = m
    BY <1>1, <1>5, <2>1
  <2>2. CASE i \in 1 .. Len(r)
    BY <1>1, <1>2, <1>5, <2>2
  <2> QED
    BY <1>4, <2>1, <2>2
<1>9. ASSUME NEW k \in 1 .. n, c \in list[k].mask PROVE \E i \in 1 .. m : q[i] = k
  <2>1. CASE k = n
    BY <1>1, <1>5, <2>1
  <2>2. CASE k # n
    <3>1. k \in 1 .. n - 1
      BY <2>2
    <3>2. PICK i \in 1 .. Len(r) : p[i] = k
      BY <1>2, <1>9, <3>1
    <3>3. i \in 1 .. m /\ q[i] = k
      BY <1>1, <1>5, <3>2
    <3> QED
      BY <3>3
  <2> QED
    BY <2>1, <2>2
<1>10. Enumerates(q, list, c, n, rr)
  BY <1>1, <1>6, <1>7, <1>8, <1>9 DEF Enumerates
<1> QED
  BY <1>10 DEF rr

(* One more entry that is not for c changes nothing. *)
LEMMA EnumeratesSkip ==
  ASSUME NEW list, NEW c, NEW n \in Nat \ {0}, NEW r \in Seq(Texts),
         NEW p, Enumerates(p, list, c, n - 1, r), c \notin list[n].mask
  PROVE  Enumerates(p, list, c, n, r)
<1>1. Len(r) \in Nat /\ 1 .. n - 1 \subseteq 1 .. n
  OBVIOUS
<1>2. \A k \in 1 .. n : k = n \/ k \in 1 .. n - 1
  OBVIOUS
<1>3. p \in [1 .. Len(r) -> 1 .. n]
  BY <1>1 DEF Enumerates
<1>4. \A k \in 1 .. n : c \in list[k].mask => \E i \in 1 .. Len(r) : p[i] = k
  BY <1>2 DEF Enumerates
<1> QED
  BY <1>3, <1>4 DEF Enumerates

(* The texts for c are at increasing places of the list. *)
LEMMA TextsEnumerated ==
  ASSUME NEW list, NEW c, Len(list) \in Nat, Speaks(list, c)
  PROVE  \E p : Enumerates(p, list, c, Len(list), TextsFor(list, c))
<1>1. PICK f : UpTo(list, c, Len(list), f) /\ TextsFor(list, c) = f[Len(list)]
  BY TextsForAt
<1> DEFINE listed(k) == \E p : Enumerates(p, list, c, k, f[k])
           T == {k \in 0 .. Len(list) : ~ listed(k)}
<1> HIDE DEF listed
<1>2. SUFFICES ASSUME T # {} PROVE FALSE
  <2>1. T = {} => listed(Len(list))
    OBVIOUS
  <2> QED
    BY <1>1, <2>1 DEF listed
<1>3. PICK k \in T : \A j \in T : k <= j
  <2>1. T \in SUBSET Nat
    OBVIOUS
  <2> HIDE DEF T
  <2> QED
    BY <1>2, <2>1, Least
<1>4. k \in 0 .. Len(list) /\ ~ listed(k)
  BY <1>3
<1>5. f[k] = UpToAt(list, c, f, k) /\ f[k] \in Seq(Texts)
  BY <1>1, <1>4, UpToType DEF UpTo
<1>6. k # 0
  <2> SUFFICES ASSUME k = 0 PROVE FALSE
    OBVIOUS
  <2>1. f[0] = <<>>
    BY <1>5 DEF UpToAt
  <2> DEFINE p == [i \in 1 .. 0 |-> i]
  <2>2. Enumerates(p, list, c, 0, <<>>)
    BY DEF Enumerates
  <2> QED
    BY <1>4, <2>1, <2>2 DEF listed
<1>7. k - 1 \in 0 .. Len(list) /\ k - 1 \notin T /\ k \in 1 .. Len(list)
      /\ k \in Nat \ {0}
  BY <1>3, <1>4, <1>6
<1>8. PICK p : Enumerates(p, list, c, k - 1, f[k - 1])
  <2>1. listed(k - 1)
    BY <1>7
  <2> QED
    BY <2>1 DEF listed
<1>9. f[k - 1] \in Seq(Texts)
  BY <1>1, <1>7, UpToType
<1>10. CASE c \in list[k].mask
  <2>1. list[k].text \in Texts
    BY <1>7, <1>10 DEF Speaks
  <2>2. f[k] = Append(f[k - 1], list[k].text)
    BY <1>5, <1>6, <1>10 DEF UpToAt
  <2>3. \E q : Enumerates(q, list, c, k, Append(f[k - 1], list[k].text))
    BY <1>7, <1>8, <1>9, <1>10, <2>1, EnumeratesLast
  <2> QED
    BY <1>4, <2>2, <2>3 DEF listed
<1>11. CASE c \notin list[k].mask
  <2>1. f[k] = f[k - 1]
    BY <1>5, <1>6, <1>11 DEF UpToAt
  <2>2. Enumerates(p, list, c, k, f[k - 1])
    BY <1>7, <1>8, <1>9, <1>11, EnumeratesSkip
  <2> QED
    BY <1>4, <2>1, <2>2 DEF listed
<1> QED
  BY <1>10, <1>11

-----------------------------------------------------------------------------
(* How many commands a list of clients has. *)

CountAt(list, new, f, i) ==
  IF i = 0 THEN 0 ELSE f[i - 1] + Len(new[list[i]])

Counts(list, new, n, f) == f = [i \in 0 .. n |-> CountAt(list, new, f, i)]

(* How much is new for the first n demos, for every n. *)
LEMMA CountsExist ==
  ASSUME NEW list, NEW new, NEW n \in Nat
  PROVE  \E f : Counts(list, new, n, f)
<1> DEFINE T == {m \in Nat : ~ \E f : Counts(list, new, m, f)}
<1>1. SUFFICES ASSUME n \in T PROVE FALSE
  OBVIOUS
<1>2. PICK m \in T : \A k \in T : m <= k
  <2>1. T # {} /\ T \in SUBSET Nat
    BY <1>1
  <2> HIDE DEF T
  <2> QED
    BY <2>1, Least
<1>3. m # 0
  <2> SUFFICES ASSUME m = 0 PROVE FALSE
    OBVIOUS
  <2> DEFINE f == [i \in 0 .. 0 |-> 0]
  <2>1. Counts(list, new, 0, f)
    BY DEF Counts, CountAt
  <2> QED
    BY <1>2, <2>1
<1>4. m \in Nat /\ m - 1 \in Nat /\ m - 1 \notin T
  BY <1>2, <1>3
<1>5. PICK f : Counts(list, new, m - 1, f)
  BY <1>4
<1> DEFINE e == f[m - 1] + Len(new[list[m]])
           g == [i \in 0 .. m |-> IF i = m THEN e ELSE f[i]]
<1>6. \A i \in 0 .. m : g[i] = CountAt(list, new, g, i)
  <2>1. ASSUME NEW i \in 0 .. m PROVE g[i] = CountAt(list, new, g, i)
    <3>1. i = 0 \/ g[i - 1] = f[i - 1]
      BY <1>4
    <3>2. i # m => f[i] = CountAt(list, new, f, i)
      BY <1>4, <1>5 DEF Counts
    <3> QED
      BY <1>3, <1>4, <3>1, <3>2 DEF CountAt
  <2> QED
    BY <2>1
<1>7. Counts(list, new, m, g)
  BY <1>6 DEF Counts
<1> QED
  BY <1>2, <1>7

(* HowMany is the last of these. *)
LEMMA HowManyAt ==
  ASSUME NEW list, Len(list) \in Nat, NEW new
  PROVE  \E f : Counts(list, new, Len(list), f) /\ HowMany(list, new) = f[Len(list)]
<1> DEFINE f == CHOOSE g : Counts(list, new, Len(list), g)
<1>1. Counts(list, new, Len(list), f)
  BY CountsExist
<1>2. HowMany(list, new) = f[Len(list)]
  BY DEF HowMany, Counts, CountAt
<1> QED
  BY <1>1, <1>2

(* Every client has a number of commands. *)
Measured(list, new) == \A i \in 1 .. Len(list) : Len(new[list[i]]) \in Nat

(* These are numbers. *)
LEMMA CountsType ==
  ASSUME NEW list, Len(list) \in Nat, NEW new, Measured(list, new),
         NEW f, Counts(list, new, Len(list), f)
  PROVE  \A k \in 0 .. Len(list) : f[k] \in Nat
<1> DEFINE T == {k \in 0 .. Len(list) : f[k] \notin Nat}
<1>1. SUFFICES ASSUME T # {} PROVE FALSE
  OBVIOUS
<1>2. PICK k \in T : \A j \in T : k <= j
  <2>1. T \in SUBSET Nat
    OBVIOUS
  <2> HIDE DEF T
  <2> QED
    BY <1>1, <2>1, Least
<1>3. k \in 0 .. Len(list) /\ f[k] \notin Nat
  BY <1>2
<1>4. f[k] = CountAt(list, new, f, k)
  BY <1>3 DEF Counts
<1>5. k # 0
  BY <1>3, <1>4 DEF CountAt
<1>6. k - 1 \in 0 .. Len(list) /\ k - 1 \notin T /\ k \in 1 .. Len(list)
  BY <1>2, <1>3, <1>5
<1>7. f[k - 1] \in Nat /\ Len(new[list[k]]) \in Nat
  BY <1>6 DEF Measured
<1> QED
  BY <1>3, <1>4, <1>5, <1>7 DEF CountAt

(* So is HowMany. *)
LEMMA HowManyType ==
  ASSUME NEW list, Len(list) \in Nat, NEW new, Measured(list, new)
  PROVE  HowMany(list, new) \in Nat
<1>1. PICK f : Counts(list, new, Len(list), f) /\ HowMany(list, new) = f[Len(list)]
  BY HowManyAt
<1>2. Len(list) \in 0 .. Len(list)
  OBVIOUS
<1> QED
  BY <1>1, <1>2, CountsType

(* The first client has its own, the others the rest. *)
LEMMA HowManyRest ==
  ASSUME NEW list, Len(list) \in Nat \ {0}, NEW new, Measured(list, new),
         NEW rest, Len(rest) = Len(list) - 1,
         \A i \in 1 .. Len(rest) : rest[i] = list[i + 1]
  PROVE  /\ HowMany(rest, new) \in Nat
         /\ HowMany(list, new) = Len(new[list[1]]) + HowMany(rest, new)
<1>1. Len(list) \in Nat /\ Len(rest) \in Nat /\ Len(list) = Len(rest) + 1
  OBVIOUS
<1>2. PICK f : Counts(list, new, Len(list), f) /\ HowMany(list, new) = f[Len(list)]
  BY <1>1, HowManyAt
<1>3. PICK g : Counts(rest, new, Len(rest), g) /\ HowMany(rest, new) = g[Len(rest)]
  BY <1>1, HowManyAt
<1>4. Measured(rest, new)
  <2>1. \A i \in 1 .. Len(rest) : i + 1 \in 1 .. Len(list)
    BY <1>1
  <2> QED
    BY <2>1 DEF Measured
<1>5. \A k \in 0 .. Len(rest) : g[k] \in Nat
  BY <1>1, <1>3, <1>4, CountsType
<1> DEFINE x == Len(new[list[1]])
           n == Len(rest)
           fits(k) == f[k + 1] = x + g[k]
           T == {k \in 0 .. n : ~ fits(k)}
<1> HIDE DEF fits
<1>6. x \in Nat
  BY <1>1 DEF Measured
<1>7. T = {}
  <2>1. SUFFICES ASSUME T # {} PROVE FALSE
    OBVIOUS
  <2>2. PICK k \in T : \A j \in T : k <= j
    <3>1. T \in SUBSET Nat
      OBVIOUS
    <3> HIDE DEF T
    <3> QED
      BY <2>1, <3>1, Least
  <2>3. k \in 0 .. Len(rest) /\ ~ fits(k) /\ k + 1 \in 0 .. Len(list)
    BY <1>1, <2>2
  <2>4. /\ g[k] = CountAt(rest, new, g, k)
        /\ f[k + 1] = CountAt(list, new, f, k + 1)
        /\ f[0] = CountAt(list, new, f, 0)
    <3> HIDE DEF T, x
    <3>1. f = [i \in 0 .. Len(list) |-> CountAt(list, new, f, i)]
      BY <1>2 DEF Counts
    <3>2. g = [i \in 0 .. Len(rest) |-> CountAt(rest, new, g, i)]
      BY <1>3 DEF Counts
    <3>3. 0 \in 0 .. Len(list)
      BY <1>1
    <3>4. g[k] = CountAt(rest, new, g, k)
      BY <2>3, <3>2
    <3> QED
      BY <2>3, <3>1, <3>3, <3>4
  <2>5. k + 1 # 0 /\ (k + 1) - 1 = k
    BY <2>3
  <2>6. f[k + 1] = f[k] + Len(new[list[k + 1]])
    BY <2>4, <2>5 DEF CountAt
  <2>7. f[0] = 0
    BY <2>4 DEF CountAt
  <2>8. k # 0
    <3> SUFFICES ASSUME k = 0 PROVE FALSE
      OBVIOUS
    <3>1. g[k] = 0
      BY <2>4 DEF CountAt
    <3>2. f[1] = f[0] + x
      BY <2>6
    <3> HIDE DEF x
    <3>3. f[k + 1] = x + g[k]
      BY <1>6, <2>7, <3>1, <3>2
    <3> QED
      BY <2>3, <3>3 DEF fits, x
  <2>9. k - 1 \in 0 .. Len(rest) /\ k - 1 \notin T /\ k \in 1 .. Len(rest)
        /\ (k - 1) + 1 = k
    BY <1>1, <2>2, <2>3, <2>8
  <2>10. f[k] = x + g[k - 1]
    <3>1. fits(k - 1)
      BY <2>9
    <3> QED
      BY <2>9, <3>1 DEF fits
  <2>11. g[k] = g[k - 1] + Len(new[rest[k]])
    BY <2>4, <2>8 DEF CountAt
  <2>12. rest[k] = list[k + 1] /\ Len(new[rest[k]]) \in Nat /\ g[k - 1] \in Nat
    BY <1>4, <1>5, <2>9 DEF Measured
  <2> HIDE DEF x, T
  <2>13. f[k + 1] = x + g[k]
    BY <1>6, <2>6, <2>10, <2>11, <2>12
  <2> QED
    BY <2>3, <2>13 DEF fits, x
<1>8. fits(Len(rest))
  BY <1>1, <1>7
<1>9. HowMany(list, new) = x + HowMany(rest, new)
  BY <1>1, <1>2, <1>3, <1>8 DEF fits
<1>10. HowMany(rest, new) \in Nat
  BY <1>1, <1>4, HowManyType
<1> QED
  BY <1>9, <1>10

-----------------------------------------------------------------------------
(* The ring. *)

(* A masked number is a slot. *)
LEMMA SlotType == \A k \in Int : Slot(k) \in Slots
  BY CommandAssumption DEF Slot, Slots

(* Numbers closer than the ring is long have different slots. *)
LEMMA SlotsDiffer ==
  ASSUME NEW a \in Int, NEW b \in Int, a # b,
         a - b < MaxReliable, b - a < MaxReliable
  PROVE  Slot(a) # Slot(b)
<1>1. MaxReliable \in Nat \ {0}
  BY CommandAssumption
<1>2. CASE a < b
  BY <1>1, <1>2, ResiduesDiffer DEF Slot
<1>3. CASE b < a
  BY <1>1, <1>3, ResiduesDiffer DEF Slot
<1> QED
  BY <1>2, <1>3

MovedAt(ring, n, f, i) ==
  IF i = 0 THEN ring
  ELSE [f[i - 1] EXCEPT ![Slot(n + 1 - i)] = f[i - 1][Slot(n - i)]]

Moved(ring, n, m, f) == f = [i \in 0 .. m |-> MovedAt(ring, n, f, i)]

(* The ring after moving its last m entries up, for every m. *)
LEMMA MovedExists ==
  ASSUME NEW ring, NEW n, NEW m \in Nat
  PROVE  \E f : Moved(ring, n, m, f)
<1> DEFINE T == {k \in Nat : ~ \E f : Moved(ring, n, k, f)}
<1>1. SUFFICES ASSUME m \in T PROVE FALSE
  OBVIOUS
<1>2. PICK k \in T : \A j \in T : k <= j
  <2>1. T # {} /\ T \in SUBSET Nat
    BY <1>1
  <2> HIDE DEF T
  <2> QED
    BY <2>1, Least
<1>3. k # 0
  <2> SUFFICES ASSUME k = 0 PROVE FALSE
    OBVIOUS
  <2> DEFINE f == [i \in 0 .. 0 |-> ring]
  <2>1. Moved(ring, n, 0, f)
    BY DEF Moved, MovedAt
  <2> QED
    BY <1>2, <2>1
<1>4. k \in Nat /\ k - 1 \in Nat /\ k - 1 \notin T
  BY <1>2, <1>3
<1>5. PICK f : Moved(ring, n, k - 1, f)
  BY <1>4
<1> DEFINE e == [f[k - 1] EXCEPT ![Slot(n + 1 - k)] = f[k - 1][Slot(n - k)]]
<1> HIDE DEF e
<1> DEFINE g == [i \in 0 .. k |-> IF i = k THEN e ELSE f[i]]
<1>6. \A i \in 0 .. k : g[i] = MovedAt(ring, n, g, i)
  <2>1. ASSUME NEW i \in 0 .. k PROVE g[i] = MovedAt(ring, n, g, i)
    <3>1. i = 0 \/ g[i - 1] = f[i - 1]
      BY <1>4
    <3>2. i # k => f[i] = MovedAt(ring, n, f, i) /\ g[i] = f[i]
      BY <1>4, <1>5 DEF Moved
    <3>3. i = k => g[i] = e
      OBVIOUS
    <3> HIDE DEF g
    <3> QED
      BY <1>3, <1>4, <3>1, <3>2, <3>3 DEF MovedAt, e
  <2> QED
    BY <2>1
<1>7. Moved(ring, n, k, g)
  BY <1>6 DEF Moved
<1> QED
  BY <1>2, <1>7

(* Entries from k on are one further up, and the rest is as it was. *)
ShiftedBy(ring, k, n, r) ==
  /\ DOMAIN r = Slots
  /\ \A i \in k + 1 .. n : r[Slot(i)] = ring[Slot(i - 1)]
  /\ \A s \in Slots : (\A i \in k + 1 .. n : s # Slot(i)) => r[s] = ring[s]

(* One more entry is moved up, which no later one needs any more. *)
LEMMA ShiftStep ==
  ASSUME NEW ring, NEW n \in Int, NEW k \in Int, NEW r,
         k < n, n - k < MaxReliable, ShiftedBy(ring, k + 1, n, r)
  PROVE  ShiftedBy(ring, k, n, [r EXCEPT ![Slot(k + 1)] = r[Slot(k)]])
<1> DEFINE e == [r EXCEPT ![Slot(k + 1)] = r[Slot(k)]]
<1>1. DOMAIN r = Slots
  BY DEF ShiftedBy
<1>2. Slot(k + 1) \in Slots /\ Slot(k) \in Slots
  BY SlotType
<1>3. /\ e[Slot(k + 1)] = r[Slot(k)]
      /\ \A s \in Slots : s # Slot(k + 1) => e[s] = r[s]
      /\ DOMAIN e = Slots
  BY <1>1, <1>2
<1> HIDE DEF e
<1>4. r[Slot(k)] = ring[Slot(k)]
  <2>1. MaxReliable \in Nat
    BY CommandAssumption
  <2>2. \A i \in (k + 1) + 1 .. n : Slot(k) # Slot(i)
    BY <2>1, SlotsDiffer
  <2> QED
    BY <1>2, <2>2 DEF ShiftedBy
<1>5. ASSUME NEW i \in k + 1 .. n
      PROVE  e[Slot(i)] = ring[Slot(i - 1)]
  <2>1. CASE i = k + 1
    BY <1>3, <1>4, <2>1
  <2>2. CASE i # k + 1
    <3>1. i \in (k + 1) + 1 .. n
      BY <2>2
    <3>2. MaxReliable \in Nat
      BY CommandAssumption
    <3>3. Slot(i) # Slot(k + 1) /\ Slot(i) \in Slots
      BY <3>1, <3>2, SlotsDiffer, SlotType
    <3> QED
      BY <1>3, <3>1, <3>3 DEF ShiftedBy
  <2> QED
    BY <2>1, <2>2
<1>6. ASSUME NEW s \in Slots, \A i \in k + 1 .. n : s # Slot(i)
      PROVE  e[s] = ring[s]
  <2>1. k + 1 \in k + 1 .. n /\ \A i \in (k + 1) + 1 .. n : i \in k + 1 .. n
    OBVIOUS
  <2>2. s # Slot(k + 1) /\ \A i \in (k + 1) + 1 .. n : s # Slot(i)
    BY <1>6, <2>1
  <2> QED
    BY <1>3, <2>2 DEF ShiftedBy
<1>7. ShiftedBy(ring, k, n, e)
  BY <1>3, <1>5, <1>6 DEF ShiftedBy
<1> QED
  BY <1>7 DEF e

(* ShiftUp moves each entry from k on by one and leaves the others. *)
LEMMA ShiftEffect ==
  ASSUME NEW ring, DOMAIN ring = Slots, serverCommandSequence \in Int,
         NEW k \in Int, k <= serverCommandSequence + 1,
         (serverCommandSequence + 1) - k < MaxReliable
  PROVE  ShiftedBy(ring, k, serverCommandSequence + 1, ShiftUp(ring, k))
<1> DEFINE n == serverCommandSequence + 1
           m == n - k
<1>1. n \in Int /\ m \in Nat /\ n - k < MaxReliable /\ MaxReliable \in Nat
  BY CommandAssumption
<1> DEFINE f == CHOOSE g : Moved(ring, n, m, g)
<1>2. Moved(ring, n, m, f)
  BY <1>1, MovedExists
<1>3. ShiftUp(ring, k) = f[m]
  BY DEF ShiftUp, Moved, MovedAt
<1> HIDE DEF f, n, m
<1> DEFINE moved(i) == ShiftedBy(ring, n - i, n, f[i])
           T == {i \in 0 .. m : ~ moved(i)}
<1> HIDE DEF moved
<1>4. T = {}
  <2>1. SUFFICES ASSUME T # {} PROVE FALSE
    OBVIOUS
  <2>2. PICK i \in T : \A j \in T : i <= j
    <3>1. T \in SUBSET Nat
      OBVIOUS
    <3> HIDE DEF T
    <3> QED
      BY <2>1, <3>1, Least
  <2>3. i \in 0 .. m /\ ~ moved(i)
    BY <2>2
  <2>4. f[i] = MovedAt(ring, n, f, i)
    BY <1>2, <2>3 DEF Moved
  <2>5. i # 0
    <3> SUFFICES ASSUME i = 0 PROVE FALSE
      OBVIOUS
    <3>1. f[i] = ring
      BY <2>4 DEF MovedAt
    <3>2. ShiftedBy(ring, n - 0, n, ring)
      BY <1>1 DEF ShiftedBy
    <3> QED
      BY <2>3, <3>1, <3>2 DEF moved
  <2>6. i - 1 \in 0 .. m /\ i - 1 \notin T
    BY <1>1, <2>2, <2>3, <2>5
  <2>7. moved(i - 1)
    BY <2>6
  <2> HIDE DEF T
  <2>8. n - i \in Int /\ n - i < n /\ n - (n - i) < MaxReliable
        /\ n - (i - 1) = (n - i) + 1 /\ n + 1 - i = (n - i) + 1
    BY <1>1, <2>3, <2>5 DEF m
  <2>9. ShiftedBy(ring, (n - i) + 1, n, f[i - 1])
    BY <2>7, <2>8 DEF moved
  <2>10. f[i] = [f[i - 1] EXCEPT ![Slot((n - i) + 1)] = f[i - 1][Slot(n - i)]]
    BY <2>4, <2>5, <2>8 DEF MovedAt
  <2>11. ShiftedBy(ring, n - i, n, f[i])
    BY <1>1, <2>8, <2>9, <2>10, ShiftStep
  <2> QED
    BY <2>3, <2>11 DEF moved
<1>5. m \in 0 .. m /\ m \notin T
  BY <1>1, <1>4
<1>6. moved(m)
  BY <1>5
<1>7. n - m = k
  BY <1>1 DEF m
<1> QED
  BY <1>3, <1>6, <1>7 DEF moved, n

-----------------------------------------------------------------------------
(* The commands of the ring from lo to hi. *)

Piece(texts, masks, lo, hi) ==
  [i \in 1 .. hi + 1 - lo |->
     LET k == lo + i - 1
     IN  [seq |-> k, text |-> texts[Slot(k)], mask |-> masks[Slot(k)]]]

(* The commands of a frame are a piece of the two rings. *)
LEMMA FrameIsPiece ==
  FrameCommands = Piece(serverCommands, serverCommandBitmask,
                        firstServerCommand, serverCommandSequence)
  BY DEF FrameCommands, Piece, TextAt, MaskAt

(* How long a piece is. *)
LEMMA PieceLength ==
  ASSUME NEW texts, NEW masks, NEW lo \in Int, NEW hi \in Int, lo <= hi + 1
  PROVE  /\ Len(Piece(texts, masks, lo, hi)) = (hi + 1) - lo
         /\ (hi + 1) - lo \in Nat
<1>1. (hi + 1) - lo \in Nat /\ hi + 1 - lo = (hi + 1) - lo
  OBVIOUS
<1> QED
  BY <1>1 DEF Piece

(* What its entries are. *)
LEMMA PieceEntry ==
  ASSUME NEW texts, NEW masks, NEW lo \in Int, NEW hi \in Int,
         NEW i \in 1 .. (hi + 1) - lo
  PROVE  /\ Piece(texts, masks, lo, hi)[i].text = texts[Slot((lo + i) - 1)]
         /\ Piece(texts, masks, lo, hi)[i].mask = masks[Slot((lo + i) - 1)]
         /\ Piece(texts, masks, lo, hi)[i].seq = (lo + i) - 1
         /\ (lo + i) - 1 \in lo .. hi
<1>1. hi + 1 - lo = (hi + 1) - lo /\ lo + i - 1 = (lo + i) - 1
  OBVIOUS
<1>2. (lo + i) - 1 \in lo .. hi
  OBVIOUS
<1> QED
  BY <1>1, <1>2 DEF Piece

(* The rings say the same to client c at k and at m. *)
SameSlot(t, b, k, tt, bb, m, c) ==
  /\ c \in b[Slot(k)] <=> c \in bb[Slot(m)]
  /\ c \in b[Slot(k)] => t[Slot(k)] = tt[Slot(m)]

(* Pieces of rings that are alike for c are alike for c. *)
LEMMA PiecesSame ==
  ASSUME NEW t, NEW b, NEW tt, NEW bb, NEW lo \in Int, NEW hi \in Int, NEW up \in Int,
         lo <= hi + 1, hi <= up, NEW c,
         \A k \in lo .. hi : SameSlot(t, b, k, tt, bb, k, c)
  PROVE  SameUpTo(Piece(t, b, lo, hi), Piece(tt, bb, lo, up), c,
                  (hi + 1) - lo)
<1>1. ASSUME NEW i \in 1 .. (hi + 1) - lo
      PROVE  Same(Piece(t, b, lo, hi)[i], Piece(tt, bb, lo, up)[i], c)
  <2>1. i \in 1 .. (up + 1) - lo
    OBVIOUS
  <2>2. (lo + i) - 1 \in lo .. hi
    OBVIOUS
  <2>3. SameSlot(t, b, (lo + i) - 1, tt, bb, (lo + i) - 1, c)
    BY <2>2
  <2>4. /\ Piece(t, b, lo, hi)[i].text = t[Slot((lo + i) - 1)]
        /\ Piece(t, b, lo, hi)[i].mask = b[Slot((lo + i) - 1)]
    BY PieceEntry
  <2>5. /\ Piece(tt, bb, lo, up)[i].text = tt[Slot((lo + i) - 1)]
        /\ Piece(tt, bb, lo, up)[i].mask = bb[Slot((lo + i) - 1)]
    BY <2>1, PieceEntry
  <2> QED
    BY <2>3, <2>4, <2>5 DEF Same, SameSlot
<1> QED
  BY <1>1 DEF SameUpTo

(* The texts for a client in a piece of the ring. *)
Told(t, b, lo, hi, c) == TextsFor(Piece(t, b, lo, hi), c)

(* Masked commands are texts. *)
SpokenIn(t, b, lo, hi) == \A k \in lo .. hi : b[Slot(k)] # {} => t[Slot(k)] \in Texts

(* A piece of commands consists of texts. *)
LEMMA PieceSpeaks ==
  ASSUME NEW t, NEW b, NEW lo \in Int, NEW hi \in Int, lo <= hi + 1, NEW c,
         SpokenIn(t, b, lo, hi)
  PROVE  Speaks(Piece(t, b, lo, hi), c)
<1>1. Len(Piece(t, b, lo, hi)) = (hi + 1) - lo
  BY PieceLength
<1>2. ASSUME NEW i \in 1 .. (hi + 1) - lo, c \in Piece(t, b, lo, hi)[i].mask
      PROVE  Piece(t, b, lo, hi)[i].text \in Texts
  <2>1. /\ Piece(t, b, lo, hi)[i].text = t[Slot((lo + i) - 1)]
        /\ Piece(t, b, lo, hi)[i].mask = b[Slot((lo + i) - 1)]
        /\ (lo + i) - 1 \in lo .. hi
    BY PieceEntry
  <2>2. b[Slot((lo + i) - 1)] # {} => t[Slot((lo + i) - 1)] \in Texts
    BY <2>1 DEF SpokenIn
  <2> QED
    BY <1>2, <2>1, <2>2
<1> QED
  BY <1>1, <1>2 DEF Speaks

(* Rings that say the same to a client from lo to hi. *)
LEMMA ToldSame ==
  ASSUME NEW t, NEW b, NEW tt, NEW bb, NEW lo \in Int, NEW hi \in Int,
         lo <= hi + 1, NEW c,
         \A k \in lo .. hi : SameSlot(t, b, k, tt, bb, k, c)
  PROVE  Told(t, b, lo, hi, c) = Told(tt, bb, lo, hi, c)
<1> DEFINE x == Piece(t, b, lo, hi)
           y == Piece(tt, bb, lo, hi)
<1>1. Len(x) \in Nat /\ Len(y) = Len(x) /\ Len(x) = (hi + 1) - lo
  BY PieceLength
<1>2. hi <= hi
  OBVIOUS
<1>3. SameUpTo(x, y, c, (hi + 1) - lo)
  BY <1>2, PiecesSame
<1> HIDE DEF x, y
<1>4. SameUpTo(x, y, c, Len(x))
  BY <1>1, <1>3
<1>5. TextsFor(x, c) = TextsFor(y, c)
  BY <1>1, <1>4, TextsForSame
<1> QED
  BY <1>5 DEF Told, x, y

(* One command more, or none, behind a piece. *)
LEMMA ToldLast ==
  ASSUME NEW t, NEW b, NEW tt, NEW bb, NEW lo \in Int, NEW hi \in Int,
         lo <= hi + 1, NEW c,
         \A k \in lo .. hi : SameSlot(t, b, k, tt, bb, k, c)
  PROVE  Told(tt, bb, lo, hi + 1, c) =
           IF c \in bb[Slot(hi + 1)]
           THEN Append(Told(t, b, lo, hi, c), tt[Slot(hi + 1)])
           ELSE Told(t, b, lo, hi, c)
<1> DEFINE up == hi + 1
           x == Piece(t, b, lo, hi)
           y == Piece(tt, bb, lo, up)
<1>1. up \in Int /\ lo <= up + 1 /\ hi <= up
  OBVIOUS
<1>2. Len(x) = (hi + 1) - lo /\ Len(x) \in Nat
  BY PieceLength
<1>3. Len(y) = (up + 1) - lo
  <2> HIDE DEF up
  <2> QED
    BY <1>1, PieceLength
<1>4. SameUpTo(x, y, c, (hi + 1) - lo)
  <2> HIDE DEF up
  <2> QED
    BY <1>1, PiecesSame
<1>5. (up + 1) - lo \in 1 .. (up + 1) - lo /\ (lo + ((up + 1) - lo)) - 1 = up
  OBVIOUS
<1>6. /\ y[(up + 1) - lo].text = tt[Slot(up)]
      /\ y[(up + 1) - lo].mask = bb[Slot(up)]
  <2> HIDE DEF up
  <2>1. /\ y[(up + 1) - lo].text = tt[Slot((lo + ((up + 1) - lo)) - 1)]
        /\ y[(up + 1) - lo].mask = bb[Slot((lo + ((up + 1) - lo)) - 1)]
    BY <1>1, <1>5, PieceEntry
  <2> QED
    BY <1>5, <2>1
<1> HIDE DEF x, y
<1>7. SameUpTo(x, y, c, Len(x)) /\ Len(y) = Len(x) + 1
  BY <1>2, <1>3, <1>4
<1>8. TextsFor(y, c) = IF c \in y[Len(y)].mask THEN Append(TextsFor(x, c), y[Len(y)].text)
                       ELSE TextsFor(x, c)
  BY <1>2, <1>7, TextsForLast
<1>9. y[Len(y)].text = tt[Slot(up)] /\ y[Len(y)].mask = bb[Slot(up)]
  BY <1>3, <1>6
<1> QED
  BY <1>8, <1>9 DEF Told, x, y, up

(* What a client is told are texts. *)
LEMMA ToldType ==
  ASSUME NEW t, NEW b, NEW lo \in Int, NEW hi \in Int, lo <= hi + 1, NEW c,
         SpokenIn(t, b, lo, hi)
  PROVE  Told(t, b, lo, hi, c) \in Seq(Texts)
<1>1. Len(Piece(t, b, lo, hi)) \in Nat
  BY PieceLength
<1>2. Speaks(Piece(t, b, lo, hi), c)
  BY PieceSpeaks
<1> QED
  BY <1>1, <1>2, TextsForType DEF Told

(* A piece without its bit tells it nothing. *)
LEMMA ToldNone ==
  ASSUME NEW t, NEW b, NEW lo \in Int, NEW hi \in Int, lo <= hi + 1, NEW c,
         \A k \in lo .. hi : c \notin b[Slot(k)]
  PROVE  Told(t, b, lo, hi, c) = <<>>
<1> DEFINE x == Piece(t, b, lo, hi)
<1>1. Len(x) \in Nat /\ Len(x) = (hi + 1) - lo
  BY PieceLength
<1>2. ASSUME NEW i \in 1 .. (hi + 1) - lo PROVE c \notin x[i].mask
  <2>1. x[i].mask = b[Slot((lo + i) - 1)] /\ (lo + i) - 1 \in lo .. hi
    BY PieceEntry
  <2> QED
    BY <2>1
<1> HIDE DEF x
<1>3. \A i \in 1 .. Len(x) : c \notin x[i].mask
  BY <1>1, <1>2
<1>4. TextsFor(x, c) = <<>>
  BY <1>1, <1>3, TextsForNone
<1> QED
  BY <1>4 DEF Told, x

(* The part of a piece from m on, which may be another one's. *)
LEMMA ToldJoin ==
  ASSUME NEW t, NEW b, NEW lo \in Int, NEW hi \in Int, NEW m \in Int,
         lo <= m, m <= hi + 1, NEW c, SpokenIn(t, b, lo, hi)
  PROVE  Told(t, b, lo, hi, c) = Told(t, b, lo, m - 1, c) \o Told(t, b, m, hi, c)
<1> DEFINE up == m - 1
           x == Piece(t, b, lo, up)
           y == Piece(t, b, m, hi)
           z == Piece(t, b, lo, hi)
<1>1. up \in Int /\ lo <= up + 1 /\ lo <= hi + 1 /\ up <= hi /\ (up + 1) - lo = m - lo
  OBVIOUS
<1> HIDE DEF up
<1>2. Len(x) \in Nat /\ Len(x) = m - lo
  BY <1>1, PieceLength
<1>3. Len(y) \in Nat /\ Len(y) = (hi + 1) - m
  BY PieceLength
<1>4. Len(z) \in Nat /\ Len(z) = (hi + 1) - lo
  BY <1>1, PieceLength
<1>5. ASSUME NEW i \in 1 .. m - lo PROVE Same(x[i], z[i], c)
  <2>1. i \in 1 .. (up + 1) - lo /\ i \in 1 .. (hi + 1) - lo
    BY <1>1
  <2>2. x[i].text = t[Slot((lo + i) - 1)] /\ x[i].mask = b[Slot((lo + i) - 1)]
    BY <1>1, <2>1, PieceEntry
  <2>3. z[i].text = t[Slot((lo + i) - 1)] /\ z[i].mask = b[Slot((lo + i) - 1)]
    BY <1>1, <2>1, PieceEntry
  <2> QED
    BY <2>2, <2>3 DEF Same
<1>6. ASSUME NEW i \in 1 .. (hi + 1) - m PROVE Same(y[i], z[(m - lo) + i], c)
  <2>1. /\ (m - lo) + i \in 1 .. (hi + 1) - lo
        /\ (lo + ((m - lo) + i)) - 1 = (m + i) - 1
    OBVIOUS
  <2>2. y[i].text = t[Slot((m + i) - 1)] /\ y[i].mask = b[Slot((m + i) - 1)]
    <3>1. /\ Piece(t, b, m, hi)[i].text = t[Slot((m + i) - 1)]
          /\ Piece(t, b, m, hi)[i].mask = b[Slot((m + i) - 1)]
      BY ONLY PieceEntry
    <3> QED
      BY <3>1
  <2> DEFINE j == (m - lo) + i
  <2>3. z[j].text = t[Slot((lo + j) - 1)] /\ z[j].mask = b[Slot((lo + j) - 1)]
    BY <1>1, <2>1, PieceEntry
  <2> QED
    BY <2>1, <2>2, <2>3 DEF Same
<1>7. Speaks(z, c)
  BY <1>1, PieceSpeaks
<1> HIDE DEF x, y, z
<1>8. Joined(x, y, z, c)
  <2>1. Len(z) = Len(x) + Len(y)
    BY <1>2, <1>3, <1>4
  <2>2. \A i \in 1 .. Len(x) : Same(x[i], z[i], c)
    BY <1>2, <1>5
  <2>3. \A i \in 1 .. Len(y) : Same(y[i], z[Len(x) + i], c)
    BY <1>2, <1>3, <1>6
  <2> QED
    BY <1>2, <1>3, <2>1, <2>2, <2>3 DEF Joined
<1>9. TextsFor(z, c) = TextsFor(x, c) \o TextsFor(y, c)
  BY <1>7, <1>8, TextsForJoin
<1> QED
  BY <1>9 DEF Told, x, y, z, up

(* A piece that moves up by one. *)
LEMMA ToldMoved ==
  ASSUME NEW t, NEW b, NEW tt, NEW bb, NEW lo \in Int, NEW hi \in Int,
         lo <= hi + 1, NEW c,
         \A k \in lo .. hi : SameSlot(t, b, k, tt, bb, k + 1, c)
  PROVE  Told(t, b, lo, hi, c) = Told(tt, bb, lo + 1, hi + 1, c)
<1> DEFINE l == lo + 1
           h == hi + 1
           x == Piece(t, b, lo, hi)
           y == Piece(tt, bb, l, h)
<1>1. Len(x) \in Nat /\ Len(x) = (hi + 1) - lo
  BY PieceLength
<1>2. l \in Int /\ h \in Int /\ l <= h + 1 /\ (h + 1) - l = (hi + 1) - lo
  OBVIOUS
<1>3. Len(y) = (hi + 1) - lo
  <2> HIDE DEF l, h
  <2> QED
    BY <1>2, PieceLength
<1>4. ASSUME NEW i \in 1 .. (hi + 1) - lo PROVE Same(x[i], y[i], c)
  <2>1. /\ x[i].text = t[Slot((lo + i) - 1)] /\ x[i].mask = b[Slot((lo + i) - 1)]
        /\ (lo + i) - 1 \in lo .. hi
    <3>1. lo \in Int /\ hi \in Int /\ i \in 1 .. (hi + 1) - lo
      OBVIOUS
    <3> QED
      BY ONLY <3>1, PieceEntry
  <2>2. i \in 1 .. (h + 1) - l /\ (l + i) - 1 = ((lo + i) - 1) + 1
    OBVIOUS
  <2>3. y[i].text = tt[Slot((l + i) - 1)] /\ y[i].mask = bb[Slot((l + i) - 1)]
    <3> HIDE DEF l, h
    <3> QED
      BY <1>2, <2>2, PieceEntry
  <2>4. SameSlot(t, b, (lo + i) - 1, tt, bb, ((lo + i) - 1) + 1, c)
    BY <2>1
  <2>5. y[i].text = tt[Slot(((lo + i) - 1) + 1)] /\ y[i].mask = bb[Slot(((lo + i) - 1) + 1)]
    BY <2>2, <2>3
  <2> QED
    BY <2>1, <2>4, <2>5 DEF Same, SameSlot
<1> HIDE DEF x, y
<1>5. SameUpTo(x, y, c, Len(x))
  BY <1>1, <1>4 DEF SameUpTo
<1>6. TextsFor(x, c) = TextsFor(y, c)
  BY <1>1, <1>3, <1>5, TextsForSame
<1> QED
  BY <1>6 DEF Told, x, y, l, h

-----------------------------------------------------------------------------
(* The state of the combiner. *)

Issuable == [text : Texts, mask : Recipients]

ServerTypes ==
  /\ issued \in Seq(Issuable)
  /\ seen \in [Clients -> Nat]
  /\ \A c \in Clients : seen[c] <= Len(issued)

RingTypes ==
  /\ serverCommands \in [Slots -> Texts \cup {NoText}]
  /\ serverCommandBitmask \in [Slots -> SUBSET Clients]
  /\ \A s \in Slots : serverCommandBitmask[s] # {} => serverCommands[s] \in Texts
  /\ serverCommandSequence \in Int /\ serverCommandSequence >= -1
  /\ lastExecutedServerCommand = serverCommandSequence + 1
  /\ serverCommandSyncIdx \in [Clients -> Nat]
  /\ \A c \in Clients : serverCommandSyncIdx[c] <= serverCommandSequence + 1

FrameTypes ==
  /\ matchedClients \in SUBSET Clients
  /\ matches \in Seq(matchedClients)
  /\ fresh \in [Clients -> Seq(Texts)]
  /\ commandNum \in Nat /\ curCommand \in Nat /\ firstServerCommand \in Nat
  /\ firstServerCommand <= curCommand
  /\ curCommand <= serverCommandSequence + 1

(* The demos are merged one after the other. *)
Turns ==
  /\ \A i, j \in DOMAIN matches : matches[i] = matches[j] => i = j
  /\ Merging => commandNum <= Len(fresh[Client])

(* The frame has room for what is still to be merged. *)
Room ==
  Merging => ((serverCommandSequence + 1) - firstServerCommand)
               + HowMany(matches, fresh) <= MaxPerFrame + commandNum

(* The search for a place starts where the last command of the demo is. *)
Synced ==
  Merging =>
    /\ \/ serverCommandSyncIdx[Client] = curCommand
       \/ curCommand = firstServerCommand
            /\ serverCommandSyncIdx[Client] <= firstServerCommand
    /\ \A i \in DOMAIN Tail(matches) :
         serverCommandSyncIdx[Tail(matches)[i]] <= firstServerCommand

(* No command from there on is the demo's yet, and none at all of those to *)
(* come.                                                                   *)
Ahead ==
  Merging =>
    /\ \A k \in curCommand .. serverCommandSequence : Client \notin MaskAt(k)
    /\ \A i \in DOMAIN Tail(matches) :
         \A k \in firstServerCommand .. serverCommandSequence :
           Tail(matches)[i] \notin MaskAt(k)

CombinerInv ==
  /\ ServerTypes /\ RingTypes /\ FrameTypes
  /\ Turns /\ Room /\ Synced /\ Ahead /\ MergedInOrder

(* The larger of two. *)
LEMMA MaxTwo == ASSUME NEW a \in Int, NEW b \in Int, a <= b
                PROVE  Max({a, b}) = b /\ Max({b, a}) = b
<1>1. \A x \in {a, b} : b >= x
  OBVIOUS
<1>2. \A y \in {a, b} : (\A x \in {a, b} : y >= x) => y = b
  OBVIOUS
<1>3. {b, a} = {a, b}
  OBVIOUS
<1> QED
  BY <1>1, <1>2, <1>3 DEF Max

(* While demos are merged the current one is the first of those left. *)
LEMMA MergingFacts ==
  ASSUME CombinerInv, Merging
  PROVE  /\ Len(matches) \in Nat \ {0} /\ matches # <<>>
         /\ Client = matches[1] /\ Client \in matchedClients /\ Client \in Clients
         /\ Tail(matches) \in Seq(matchedClients)
         /\ Len(Tail(matches)) = Len(matches) - 1
         /\ DOMAIN Tail(matches) = 1 .. Len(matches) - 1
         /\ \A i \in DOMAIN Tail(matches) :
              /\ Tail(matches)[i] = matches[i + 1]
              /\ Tail(matches)[i] # Client
              /\ Tail(matches)[i] \in matchedClients
<1>1. /\ matches \in Seq(matchedClients) /\ matches # <<>>
      /\ matchedClients \subseteq Clients
      /\ \A i, j \in DOMAIN matches : matches[i] = matches[j] => i = j
  BY DEF CombinerInv, FrameTypes, Turns, Merging
<1>2. /\ Len(matches) \in Nat \ {0} /\ Client = matches[1]
      /\ DOMAIN matches = 1 .. Len(matches)
  BY <1>1 DEF Client
<1>3. Client \in matchedClients
  BY <1>1, <1>2
<1>4. /\ Tail(matches) \in Seq(matchedClients)
      /\ Len(Tail(matches)) = Len(matches) - 1
      /\ \A i \in 1 .. Len(Tail(matches)) : Tail(matches)[i] = matches[i + 1]
  BY <1>1, HeadTailProperties
<1>5. DOMAIN Tail(matches) = 1 .. Len(matches) - 1
  BY <1>2, <1>4
<1>6. ASSUME NEW i \in 1 .. Len(matches) - 1
      PROVE  /\ Tail(matches)[i] = matches[i + 1]
             /\ Tail(matches)[i] # Client
             /\ Tail(matches)[i] \in matchedClients
  <2>1. i + 1 \in DOMAIN matches /\ 1 \in DOMAIN matches /\ i + 1 # 1
    BY <1>2
  <2> QED
    BY <1>1, <1>2, <1>4, <2>1
<1> QED
  BY <1>1, <1>2, <1>3, <1>4, <1>5, <1>6

(* What is new for each demo has a length. *)
LEMMA FreshMeasured ==
  ASSUME FrameTypes
  PROVE  Measured(matches, fresh)
<1>1. \A i \in 1 .. Len(matches) : matches[i] \in Clients
  BY DEF FrameTypes
<1> QED
  BY <1>1 DEF FrameTypes, Measured

(* How much is still to be merged, and where the search starts. *)
LEMMA MergingCounts ==
  ASSUME CombinerInv, Merging
  PROVE  /\ Len(fresh[Client]) \in Nat
         /\ HowMany(Tail(matches), fresh) \in Nat
         /\ HowMany(matches, fresh) = Len(fresh[Client]) + HowMany(Tail(matches), fresh)
         /\ SearchStart = curCommand
<1>1. FrameTypes /\ RingTypes /\ Synced
  BY DEF CombinerInv
<1>2. Measured(matches, fresh)
  BY <1>1, FreshMeasured
<1>3. /\ Len(matches) \in Nat \ {0} /\ Client = matches[1] /\ Client \in Clients
      /\ Len(Tail(matches)) = Len(matches) - 1
      /\ \A i \in 1 .. Len(Tail(matches)) : Tail(matches)[i] = matches[i + 1]
  BY MergingFacts
<1>4. Len(fresh[Client]) \in Nat
  BY <1>1, <1>3 DEF FrameTypes
<1>5. /\ HowMany(Tail(matches), fresh) \in Nat
      /\ HowMany(matches, fresh) = Len(fresh[matches[1]]) + HowMany(Tail(matches), fresh)
  BY <1>2, <1>3, HowManyRest
<1>6. SearchStart = curCommand
  <2>1. /\ firstServerCommand \in Int /\ serverCommandSyncIdx[Client] \in Int
        /\ curCommand \in Int /\ firstServerCommand <= curCommand
    BY <1>1, <1>3 DEF FrameTypes, RingTypes
  <2> QED
    BY <1>1, <2>1, MaxTwo DEF Synced, SearchStart
<1> QED
  BY <1>3, <1>4, <1>5, <1>6

(* While commands are merged the ring has room for one more. *)
LEMMA FrameSize ==
  ASSUME CombinerInv, FrameFits, Merging
  PROVE  /\ (serverCommandSequence + 1) - firstServerCommand <= MaxReliable
         /\ MoreCommands => (serverCommandSequence + 1) - firstServerCommand < MaxReliable
<1>1. /\ ((serverCommandSequence + 1) - firstServerCommand)
            + HowMany(matches, fresh) <= MaxPerFrame + commandNum
      /\ commandNum <= Len(fresh[Client])
      /\ commandNum \in Nat /\ firstServerCommand \in Nat
      /\ serverCommandSequence \in Int
  BY DEF CombinerInv, Room, Turns, FrameTypes, RingTypes
<1>2. /\ Len(fresh[Client]) \in Nat
      /\ HowMany(Tail(matches), fresh) \in Nat
      /\ HowMany(matches, fresh) = Len(fresh[Client]) + HowMany(Tail(matches), fresh)
  BY MergingCounts
<1>3. MaxPerFrame \in Nat /\ MaxReliable \in Nat /\ MaxPerFrame <= MaxReliable
  BY CommandAssumption DEF FrameFits
<1>4. MoreCommands => commandNum < Len(fresh[Client])
  BY DEF MoreCommands
<1> QED
  BY <1>1, <1>2, <1>3, <1>4

(* The command at hand is one of the current demo's. *)
LEMMA CommandType ==
  ASSUME CombinerInv, MoreCommands
  PROVE  Command \in Texts /\ commandNum + 1 \in 1 .. Len(fresh[Client])
<1>1. Merging /\ commandNum < Len(fresh[Client])
  BY DEF MoreCommands
<1>2. Client \in Clients /\ fresh \in [Clients -> Seq(Texts)] /\ commandNum \in Nat
  BY <1>1, MergingFacts DEF CombinerInv, FrameTypes
<1>3. commandNum + 1 \in 1 .. Len(fresh[Client])
  BY <1>1, <1>2
<1> QED
  BY <1>2, <1>3 DEF Command

(* What sharing a command does. *)
LEMMA ShareEffect ==
  ASSUME CombinerInv, Share
  PROVE  \E k \in curCommand .. serverCommandSequence :
           /\ TextAt(k) = Command
           /\ serverCommandBitmask' =
                [serverCommandBitmask EXCEPT ![Slot(k)] = @ \cup {Client}]
           /\ PlacedAt(k)
           /\ UNCHANGED <<serverCommands, serverCommandSequence,
                          lastExecutedServerCommand>>
<1>1. MoreCommands /\ Merging
  BY DEF Share, MoreCommands
<1>2. SearchStart = curCommand
  BY <1>1, MergingCounts
<1>3. curCommand \in Nat /\ serverCommandSequence \in Int
  BY DEF CombinerInv, FrameTypes, RingTypes
<1>4. Places \in SUBSET Nat /\ Places # {}
  BY <1>2, <1>3 DEF Places, Share
<1>5. PICK k \in Places : \A j \in Places : k <= j
  BY <1>4, Least
<1>6. Min(Places) = k
  <2>1. \A j \in Places : (\A i \in Places : j <= i) => j = k
    BY <1>4, <1>5
  <2> QED
    BY <1>5, <2>1 DEF Min
<1>7. k \in curCommand .. serverCommandSequence /\ TextAt(k) = Command
  BY <1>2, <1>5 DEF Places
<1> QED
  BY <1>6, <1>7 DEF Share

(* What inserting one does to the rings. *)
Inserted(k) ==
  /\ DOMAIN serverCommands' = Slots /\ DOMAIN serverCommandBitmask' = Slots
  /\ serverCommands'[Slot(k)] = Command
  /\ serverCommandBitmask'[Slot(k)] = {Client}
  /\ \A i \in firstServerCommand .. k - 1 :
       /\ serverCommands'[Slot(i)] = serverCommands[Slot(i)]
       /\ serverCommandBitmask'[Slot(i)] = serverCommandBitmask[Slot(i)]
  /\ \A i \in k .. serverCommandSequence :
       /\ serverCommands'[Slot(i + 1)] = serverCommands[Slot(i)]
       /\ serverCommandBitmask'[Slot(i + 1)] = serverCommandBitmask[Slot(i)]
  /\ \A s \in Slots :
       \/ s = Slot(k)
       \/ \E r \in Slots :
            /\ serverCommands'[s] = serverCommands[r]
            /\ serverCommandBitmask'[s] = serverCommandBitmask[r]

(* An insertion puts the command at curCommand and moves the rest up. *)
LEMMA InsertEffect ==
  ASSUME CombinerInv, FrameFits, Insert
  PROVE  /\ Inserted(curCommand)
         /\ PlacedAt(curCommand)
         /\ serverCommandSequence' = serverCommandSequence + 1
         /\ lastExecutedServerCommand' = lastExecutedServerCommand + 1
         /\ Places = {}
<1> DEFINE n == serverCommandSequence + 1
           p == curCommand
           t == ShiftUp(serverCommands, p)
           b == ShiftUp(serverCommandBitmask, p)
<1>1. MoreCommands /\ Merging
  BY DEF Insert, InsertWith, MoreCommands
<1>2. /\ p \in Nat /\ serverCommandSequence \in Int /\ firstServerCommand \in Nat
      /\ firstServerCommand <= p /\ p <= n /\ n - firstServerCommand < MaxReliable
      /\ MaxReliable \in Nat /\ n - p < MaxReliable
  BY <1>1, FrameSize, CommandAssumption DEF CombinerInv, FrameTypes, RingTypes
<1>3. DOMAIN serverCommands = Slots /\ DOMAIN serverCommandBitmask = Slots
  BY DEF CombinerInv, RingTypes
<1>4. ShiftedBy(serverCommands, p, n, t)
  BY <1>2, <1>3, ShiftEffect
<1>5. ShiftedBy(serverCommandBitmask, p, n, b)
  BY <1>2, <1>3, ShiftEffect
<1>6. /\ serverCommands' = [t EXCEPT ![Slot(p)] = Command]
      /\ serverCommandBitmask' = [b EXCEPT ![Slot(p)] = {Client}]
  BY DEF Insert, InsertWith
<1> HIDE DEF n, p, t, b
<1>7. Slot(p) \in Slots /\ DOMAIN t = Slots /\ DOMAIN b = Slots
  BY <1>2, <1>4, <1>5, SlotType DEF ShiftedBy
<1>8. /\ DOMAIN serverCommands' = Slots /\ DOMAIN serverCommandBitmask' = Slots
      /\ serverCommands'[Slot(p)] = Command
      /\ serverCommandBitmask'[Slot(p)] = {Client}
      /\ \A s \in Slots : s # Slot(p) => /\ serverCommands'[s] = t[s]
                                          /\ serverCommandBitmask'[s] = b[s]
  BY <1>6, <1>7
<1>9. \A i \in firstServerCommand .. n : i # p => Slot(i) \in Slots /\ Slot(i) # Slot(p)
  <2>1. n \in Int /\ p \in Int
    BY <1>2 DEF n
  <2>2. ASSUME NEW i \in firstServerCommand .. n, i # p PROVE Slot(i) # Slot(p)
    <3>1. i \in Int /\ i - p < MaxReliable /\ p - i < MaxReliable
      BY <1>2, <2>1
    <3> QED
      BY <2>1, <2>2, <3>1, SlotsDiffer
  <2> QED
    BY <1>2, <2>1, <2>2, SlotType
<1>10. ASSUME NEW i \in firstServerCommand .. p - 1
       PROVE  /\ serverCommands'[Slot(i)] = serverCommands[Slot(i)]
              /\ serverCommandBitmask'[Slot(i)] = serverCommandBitmask[Slot(i)]
  <2>1. n \in Int /\ i \in Int /\ i # p /\ i \in firstServerCommand .. n
    BY <1>2 DEF n
  <2>2. \A j \in p + 1 .. n : Slot(i) # Slot(j)
    <3> SUFFICES ASSUME NEW j \in p + 1 .. n PROVE Slot(i) # Slot(j)
      OBVIOUS
    <3>1. j \in Int /\ i # j /\ i - j < MaxReliable /\ j - i < MaxReliable
      BY <1>2, <2>1
    <3> QED
      BY <2>1, <3>1, SlotsDiffer
  <2>3. Slot(i) \in Slots /\ Slot(i) # Slot(p)
    BY <1>9, <2>1
  <2>4. t[Slot(i)] = serverCommands[Slot(i)] /\ b[Slot(i)] = serverCommandBitmask[Slot(i)]
    BY <1>4, <1>5, <2>2, <2>3 DEF ShiftedBy
  <2> QED
    BY <1>8, <2>3, <2>4
<1>11. ASSUME NEW i \in p .. serverCommandSequence
       PROVE  /\ serverCommands'[Slot(i + 1)] = serverCommands[Slot(i)]
              /\ serverCommandBitmask'[Slot(i + 1)] = serverCommandBitmask[Slot(i)]
  <2>1. i + 1 \in p + 1 .. n /\ (i + 1) - 1 = i /\ i + 1 # p /\ i + 1 \in firstServerCommand .. n
    BY <1>2 DEF n
  <2>2. Slot(i + 1) \in Slots /\ Slot(i + 1) # Slot(p)
    BY <1>9, <2>1
  <2>3. t[Slot(i + 1)] = serverCommands[Slot((i + 1) - 1)]
    BY <1>4, <2>1 DEF ShiftedBy
  <2>4. b[Slot(i + 1)] = serverCommandBitmask[Slot((i + 1) - 1)]
    BY <1>5, <2>1 DEF ShiftedBy
  <2> QED
    BY <1>8, <2>1, <2>2, <2>3, <2>4
<1>12. ASSUME NEW s \in Slots, s # Slot(p)
       PROVE  \E r \in Slots :
                /\ serverCommands'[s] = serverCommands[r]
                /\ serverCommandBitmask'[s] = serverCommandBitmask[r]
  <2>1. CASE \E i \in p + 1 .. n : s = Slot(i)
    <3>1. PICK i \in p + 1 .. n : s = Slot(i)
      BY <2>1
    <3>2. i - 1 \in Int
      BY <1>2 DEF n
    <3>3. Slot(i - 1) \in Slots
      BY <3>2, SlotType
    <3>4. t[s] = serverCommands[Slot(i - 1)] /\ b[s] = serverCommandBitmask[Slot(i - 1)]
      BY <1>4, <1>5, <3>1 DEF ShiftedBy
    <3> QED
      BY <1>8, <1>12, <3>3, <3>4
  <2>2. CASE \A i \in p + 1 .. n : s # Slot(i)
    <3>1. t[s] = serverCommands[s] /\ b[s] = serverCommandBitmask[s]
      BY <1>4, <1>5, <2>2 DEF ShiftedBy
    <3> QED
      BY <1>8, <1>12, <3>1
  <2> QED
    BY <2>1, <2>2
<1>13. Inserted(p)
  BY <1>8, <1>10, <1>11, <1>12 DEF Inserted
<1> QED
  BY <1>13 DEF p, Insert, InsertWith

(* What a client is handed by the frame is what its piece tells it. *)
LEMMA HandedIsTold ==
  ASSUME NEW c
  PROVE  /\ Handed(c) = Told(serverCommands, serverCommandBitmask,
                             firstServerCommand, serverCommandSequence, c)
         /\ Handed(c)' = Told(serverCommands', serverCommandBitmask',
                              firstServerCommand', serverCommandSequence', c)
<1>1. FrameCommands = Piece(serverCommands, serverCommandBitmask,
                            firstServerCommand, serverCommandSequence)
  BY FrameIsPiece
<1>2. FrameCommands' = Piece(serverCommands', serverCommandBitmask',
                             firstServerCommand', serverCommandSequence')
  BY DEF FrameCommands, Piece, TextAt, MaskAt, Slot
<1> QED
  BY <1>1, <1>2 DEF Handed, Told

(* The commands of the frame that have a client are texts. *)
LEMMA FrameSpoken ==
  ASSUME RingTypes, NEW lo \in Int, NEW hi \in Int
  PROVE  SpokenIn(serverCommands, serverCommandBitmask, lo, hi)
<1>1. \A k \in lo .. hi : Slot(k) \in Slots
  BY SlotType
<1> QED
  BY <1>1 DEF RingTypes, SpokenIn

Shared(b, k, who, bb) == bb = [b EXCEPT ![Slot(k)] = @ \cup {who}]

NoBit(b, lo, hi, who) == \A k \in lo .. hi : who \notin b[Slot(k)]

(* A client that has none from m on gets the bit of the command at k. *)
Sharing(t, b, bb, lo, hi, m, k, who) ==
  /\ lo \in Int /\ hi \in Int /\ (hi + 1) - lo <= MaxReliable
  /\ k \in lo .. hi /\ m \in lo .. k
  /\ DOMAIN b = Slots /\ Shared(b, k, who, bb)
  /\ NoBit(b, m, hi, who)
  /\ t[Slot(k)] \in Texts /\ SpokenIn(t, b, lo, hi)

(* Setting one more bit tells that client one more text, if it has none *)
(* behind it. *)
LEMMA ShareTold ==
  ASSUME NEW t, NEW b, NEW bb, NEW lo, NEW hi, NEW m, NEW k, NEW who,
         Sharing(t, b, bb, lo, hi, m, k, who), NEW c
  PROVE  Told(t, bb, lo, hi, c) =
           IF c = who THEN Append(Told(t, b, lo, hi, c), t[Slot(k)])
           ELSE Told(t, b, lo, hi, c)
<1>a. /\ lo \in Int /\ hi \in Int /\ (hi + 1) - lo <= MaxReliable
      /\ k \in lo .. hi /\ m \in lo .. k
      /\ DOMAIN b = Slots /\ Shared(b, k, who, bb)
      /\ NoBit(b, m, hi, who)
      /\ t[Slot(k)] \in Texts /\ SpokenIn(t, b, lo, hi)
  BY DEF Sharing
<1> USE <1>a
<1> DEFINE up == k - 1
<1>0. MaxReliable \in Nat \ {0}
  BY CommandAssumption
<1>1. Slot(k) \in Slots /\ bb[Slot(k)] = b[Slot(k)] \cup {who}
  BY SlotType DEF Shared
<1>2. \A j \in lo .. hi : j # k => Slot(j) \in Slots /\ bb[Slot(j)] = b[Slot(j)]
  <2> SUFFICES ASSUME NEW j \in lo .. hi, j # k
               PROVE  Slot(j) \in Slots /\ bb[Slot(j)] = b[Slot(j)]
    OBVIOUS
  <2>1. j - k < MaxReliable /\ k - j < MaxReliable
    BY <1>0
  <2>2. Slot(j) # Slot(k) /\ Slot(j) \in Slots
    BY <2>1, SlotsDiffer, SlotType
  <2> QED
    BY <2>2 DEF Shared
<1>3. lo <= hi + 1 /\ hi \in Int /\ lo \in Int /\ lo <= up + 1 /\ up \in Int
      /\ k <= hi + 1 /\ k \in Int /\ lo <= k /\ up + 1 = k /\ k + 1 \in Int
      /\ lo <= k + 1 /\ k + 1 <= hi + 1 /\ (k + 1) - 1 = k
  OBVIOUS
<1>4. SpokenIn(t, bb, lo, hi) /\ SpokenIn(t, b, lo, up)
  <2>1. ASSUME NEW j \in lo .. hi, bb[Slot(j)] # {} PROVE t[Slot(j)] \in Texts
    BY <1>2, <2>1 DEF SpokenIn
  <2>2. \A j \in lo .. up : j \in lo .. hi
    BY <1>3
  <2> QED
    BY <2>1, <2>2 DEF SpokenIn
<1>5. CASE c = who
  <2> HIDE DEF up
  <2>1. Told(t, b, lo, hi, c) = Told(t, b, lo, up, c)
    <3>1. Told(t, b, lo, hi, c) = Told(t, b, lo, k - 1, c) \o Told(t, b, k, hi, c)
      BY <1>3, ToldJoin
    <3>2. Told(t, b, k, hi, c) = <<>>
      <4>1. \A j \in k .. hi : c \notin b[Slot(j)]
        BY <1>5 DEF NoBit
      <4> QED
        BY <1>3, <4>1, ToldNone
    <3>3. Told(t, b, lo, up, c) \in Seq(Texts)
      BY <1>3, <1>4, ToldType
    <3> QED
      BY <3>1, <3>2, <3>3 DEF up
  <2>2. Told(t, bb, lo, hi, c) = Told(t, bb, lo, k, c)
    <3> DEFINE n == k + 1
    <3>1. n \in Int /\ lo <= n /\ n <= hi + 1 /\ n - 1 = k
      BY <1>3
    <3> HIDE DEF n
    <3>2. Told(t, bb, lo, hi, c) = Told(t, bb, lo, n - 1, c) \o Told(t, bb, n, hi, c)
      BY <1>3, <1>4, <3>1, ToldJoin
    <3>3. Told(t, bb, n, hi, c) = <<>>
      <4>1. \A j \in n .. hi : c \notin bb[Slot(j)]
        <5> SUFFICES ASSUME NEW j \in n .. hi PROVE c \notin bb[Slot(j)]
          OBVIOUS
        <5>1. j \in lo .. hi /\ j # k /\ j \in m .. hi
          BY <1>3, <3>1 DEF n
        <5> QED
          BY <1>2, <1>5, <5>1 DEF NoBit
      <4> QED
        BY <1>3, <3>1, <4>1, ToldNone
    <3>4. Told(t, bb, lo, k, c) \in Seq(Texts)
      <4>1. \A j \in lo .. k : j \in lo .. hi
        OBVIOUS
      <4>2. SpokenIn(t, bb, lo, k)
        BY <1>4, <4>1 DEF SpokenIn
      <4> QED
        BY <1>3, <4>2, ToldType
    <3> QED
      BY <3>1, <3>2, <3>3, <3>4
  <2>3. Told(t, bb, lo, up + 1, c) = Append(Told(t, b, lo, up, c), t[Slot(up + 1)])
    <3>1. \A j \in lo .. up : SameSlot(t, b, j, t, bb, j, c)
      <4> SUFFICES ASSUME NEW j \in lo .. up PROVE SameSlot(t, b, j, t, bb, j, c)
        OBVIOUS
      <4>1. j \in lo .. hi /\ j # k
        BY <1>3 DEF up
      <4> QED
        BY <1>2, <4>1 DEF SameSlot
    <3>2. c \in bb[Slot(up + 1)]
      BY <1>1, <1>3, <1>5
    <3>3. lo \in Int /\ up \in Int /\ lo <= up + 1
      BY <1>3
    <3>4. Told(t, bb, lo, up + 1, c) =
            IF c \in bb[Slot(up + 1)]
            THEN Append(Told(t, b, lo, up, c), t[Slot(up + 1)])
            ELSE Told(t, b, lo, up, c)
      BY ONLY <3>1, <3>3, ToldLast
    <3> QED
      BY <3>2, <3>4
  <2> QED
    BY <1>3, <1>5, <2>1, <2>2, <2>3
<1>6. CASE c # who
  <2>1. \A j \in lo .. hi : SameSlot(t, b, j, t, bb, j, c)
    <3> SUFFICES ASSUME NEW j \in lo .. hi PROVE SameSlot(t, b, j, t, bb, j, c)
      OBVIOUS
    <3>1. CASE j = k
      BY <1>1, <1>6, <3>1 DEF SameSlot
    <3>2. CASE j # k
      BY <1>2, <3>2 DEF SameSlot
    <3> QED
      BY <3>1, <3>2
  <2>2. Told(t, b, lo, hi, c) = Told(t, bb, lo, hi, c)
    BY <1>3, <2>1, ToldSame
  <2> QED
    BY <1>6, <2>2
<1> QED
  BY <1>5, <1>6

(* A client that has none from p on gets the command that is put there.    *)
Inserting(t, b, tt, bb, lo, hi, p, who, text) ==
  /\ lo \in Int /\ hi \in Int /\ p \in lo .. hi + 1
  /\ text \in Texts /\ tt[Slot(p)] = text /\ bb[Slot(p)] = {who}
  /\ \A i \in lo .. p - 1 :
       tt[Slot(i)] = t[Slot(i)] /\ bb[Slot(i)] = b[Slot(i)]
  /\ \A i \in p .. hi :
       tt[Slot(i + 1)] = t[Slot(i)] /\ bb[Slot(i + 1)] = b[Slot(i)]
  /\ NoBit(b, p, hi, who)
  /\ SpokenIn(t, b, lo, hi)

(* So does an insertion, and no one else hears of it. *)
LEMMA InsertTold ==
  ASSUME NEW t, NEW b, NEW tt, NEW bb, NEW lo, NEW hi, NEW p, NEW who, NEW text,
         Inserting(t, b, tt, bb, lo, hi, p, who, text), NEW c
  PROVE  Told(tt, bb, lo, hi + 1, c) =
           IF c = who THEN Append(Told(t, b, lo, hi, c), text)
           ELSE Told(t, b, lo, hi, c)
<1>a. /\ lo \in Int /\ hi \in Int /\ p \in lo .. hi + 1
      /\ text \in Texts /\ tt[Slot(p)] = text /\ bb[Slot(p)] = {who}
      /\ \A i \in lo .. p - 1 :
           tt[Slot(i)] = t[Slot(i)] /\ bb[Slot(i)] = b[Slot(i)]
      /\ \A i \in p .. hi :
           tt[Slot(i + 1)] = t[Slot(i)] /\ bb[Slot(i + 1)] = b[Slot(i)]
      /\ \A i \in p .. hi : who \notin b[Slot(i)]
      /\ SpokenIn(t, b, lo, hi)
  BY DEF Inserting, NoBit
<1> USE <1>a
<1> DEFINE up == p - 1
           n == p + 1
           top == hi + 1
<1>1. /\ lo \in Int /\ hi \in Int /\ p \in Int /\ up \in Int /\ n \in Int /\ top \in Int
      /\ lo <= p /\ p <= hi + 1 /\ lo <= up + 1 /\ up + 1 = p /\ lo <= n /\ n <= top + 1
      /\ n - 1 = p /\ lo <= hi + 1 /\ lo <= top + 1 /\ n = p + 1 /\ top = hi + 1 /\ up = p - 1
  OBVIOUS
<1> HIDE DEF up, n, top
<1>2. SpokenIn(tt, bb, lo, top)
  <2>1. ASSUME NEW k \in lo .. top PROVE bb[Slot(k)] # {} => tt[Slot(k)] \in Texts
    <3>1. CASE k \in lo .. p - 1
      <4>1. k \in lo .. hi
        BY <1>1, <3>1
      <4> QED
        BY <3>1, <4>1 DEF SpokenIn
    <3>2. CASE k = p
      BY <3>2
    <3>3. CASE k - 1 \in p .. hi
      <4>1. k - 1 \in lo .. hi /\ (k - 1) + 1 = k
        BY <1>1, <3>3
      <4>2. tt[Slot((k - 1) + 1)] = t[Slot(k - 1)] /\ bb[Slot((k - 1) + 1)] = b[Slot(k - 1)]
        BY <3>3
      <4> QED
        BY <4>1, <4>2 DEF SpokenIn
    <3> QED
      BY <1>1, <3>1, <3>2, <3>3
  <2> QED
    BY <2>1 DEF SpokenIn
<1>3. Told(t, b, lo, hi, c) = Told(t, b, lo, up, c) \o Told(t, b, p, hi, c)
  BY <1>1, ToldJoin DEF up
<1>4. Told(tt, bb, lo, top, c) = Told(tt, bb, lo, p, c) \o Told(tt, bb, n, top, c)
  <2>1. /\ lo \in Int /\ top \in Int /\ n \in Int
        /\ lo <= n /\ n <= top + 1
    BY <1>1
  <2>2. Told(tt, bb, lo, top, c) = Told(tt, bb, lo, n - 1, c) \o Told(tt, bb, n, top, c)
    BY ONLY <1>2, <2>1, ToldJoin
  <2> QED
    BY <1>1, <2>2
<1>5. Told(tt, bb, n, top, c) = Told(t, b, p, hi, c)
  <2>1. \A k \in p .. hi : SameSlot(t, b, k, tt, bb, k + 1, c)
    BY DEF SameSlot
  <2>2. Told(t, b, p, hi, c) = Told(tt, bb, p + 1, hi + 1, c)
    BY <1>1, <2>1, ToldMoved
  <2> QED
    BY <1>1, <2>2
<1>6. Told(tt, bb, lo, p, c) =
        IF c = who THEN Append(Told(t, b, lo, up, c), text)
        ELSE Told(t, b, lo, up, c)
  <2>1. \A k \in lo .. up : SameSlot(t, b, k, tt, bb, k, c)
    BY DEF SameSlot, up
  <2>2. lo \in Int /\ up \in Int /\ lo <= up + 1
    BY <1>1
  <2>3. Told(tt, bb, lo, up + 1, c) =
          IF c \in bb[Slot(up + 1)]
          THEN Append(Told(t, b, lo, up, c), tt[Slot(up + 1)])
          ELSE Told(t, b, lo, up, c)
    BY ONLY <2>1, <2>2, ToldLast
  <2> QED
    BY <1>1, <2>3
<1>7. Told(t, b, lo, up, c) \in Seq(Texts)
  <2>1. \A k \in lo .. up : k \in lo .. hi
    BY <1>1
  <2>2. SpokenIn(t, b, lo, up)
    BY <2>1 DEF SpokenIn
  <2> QED
    BY <1>1, <2>2, ToldType
<1>8. CASE c = who
  <2>1. Told(t, b, p, hi, c) = <<>>
    BY <1>1, <1>8, ToldNone
  <2>2. \A s \in Seq(Texts) : s \o <<>> = s
    OBVIOUS
  <2>3. Append(Told(t, b, lo, up, c), text) \in Seq(Texts)
    BY <1>7
  <2>4. Told(tt, bb, lo, top, c) = Append(Told(t, b, lo, up, c), text)
    BY <1>4, <1>5, <1>6, <1>8, <2>1, <2>2, <2>3
  <2>5. Told(t, b, lo, hi, c) = Told(t, b, lo, up, c)
    BY <1>3, <1>7, <2>1, <2>2
  <2> QED
    BY <1>1, <1>8, <2>4, <2>5
<1>9. CASE c # who
  BY <1>1, <1>3, <1>4, <1>5, <1>6, <1>9
<1> QED
  BY <1>8, <1>9

MergedOf(number, c) ==
  IF c = Client THEN number
  ELSE IF c \in Range(Tail(matches)) THEN 0 ELSE Len(fresh[c])

(* What a client's part of the frame should be is a function of how far the *)
(* current demo is. *)
LEMMA MergedIsOf ==
  ASSUME CombinerInv, Merging, NEW c
  PROVE  /\ Merged(c) = MergedOf(commandNum, c)
         /\ UNCHANGED <<matches, fresh>> => Merged(c)' = MergedOf(commandNum', c)
<1>1. Client \notin Range(Tail(matches))
  BY MergingFacts DEF Range
<1>2. Merged(c) = MergedOf(commandNum, c)
  BY <1>1 DEF Merged, MergedOf
<1>3. ASSUME UNCHANGED <<matches, fresh>>
      PROVE  Merged(c)' = MergedOf(commandNum', c)
  <2>1. Client' = Client /\ Tail(matches)' = Tail(matches) /\ fresh' = fresh
    BY <1>3 DEF Client
  <2>2. /\ c = Client' => Merged(c)' = commandNum'
        /\ c \in Range(Tail(matches)') => Merged(c)' = 0
        /\ c # Client' /\ c \notin Range(Tail(matches)') => Merged(c)' = Len(fresh'[c])
    <3>1. c = Client' => c \notin Range(Tail(matches)')
      BY <1>1, <2>1
    <3> QED
      BY <1>3, <3>1 DEF Merged
  <2> QED
    BY <2>1, <2>2 DEF MergedOf
<1> QED
  BY <1>2, <1>3

(* One more of a sequence. *)
LEMMA SubSeqNext ==
  ASSUME NEW s \in Seq(Texts), NEW n \in Nat, n + 1 \in 1 .. Len(s)
  PROVE  SubSeq(s, 1, n + 1) = Append(SubSeq(s, 1, n), s[n + 1])
<1> DEFINE m == n + 1
<1>1. 1 \in 1 .. Len(s) /\ m \in 1 .. Len(s) /\ m - 1 = n
  OBVIOUS
<1> HIDE DEF m
<1>2. SubSeq(s, 1, m) = SubSeq(s, 1, m - 1) \o <<s[m]>>
  BY <1>1, SubSeqRecursiveSecond
<1>3. SubSeq(s, 1, n) \in Seq(Texts) /\ s[m] \in Texts
  BY <1>1
<1>4. SubSeq(s, 1, n) \o <<s[m]>> = Append(SubSeq(s, 1, n), s[m])
  BY <1>3
<1> QED
  BY <1>1, <1>2, <1>4 DEF m

(* A command more for the client that is being merged. *)
LEMMA OrderKept ==
  ASSUME CombinerInv, MoreCommands,
         UNCHANGED <<matches, fresh, matchedClients>>, commandNum' = commandNum + 1,
         \A c : Handed(c)' = IF c = Client THEN Append(Handed(c), Command)
                             ELSE Handed(c)
  PROVE  MergedInOrder'
<1>1. Merging /\ fresh \in [Clients -> Seq(Texts)] /\ commandNum \in Nat
      /\ matchedClients \subseteq Clients
  BY DEF MoreCommands, CombinerInv, FrameTypes
<1>2. ASSUME NEW c \in matchedClients
      PROVE  Handed(c)' = SubSeq(fresh[c], 1, Merged(c)')
  <2>1. Handed(c) = SubSeq(fresh[c], 1, Merged(c))
    BY <1>1 DEF CombinerInv, MergedInOrder
  <2>2. Merged(c) = MergedOf(commandNum, c) /\ Merged(c)' = MergedOf(commandNum + 1, c)
    BY <1>1, MergedIsOf
  <2>3. CASE c = Client
    <3>1. fresh[c] \in Seq(Texts) /\ commandNum + 1 \in 1 .. Len(fresh[c])
      BY <1>1, <2>3, CommandType
    <3>2. SubSeq(fresh[c], 1, commandNum + 1)
            = Append(SubSeq(fresh[c], 1, commandNum), fresh[c][commandNum + 1])
      BY <1>1, <3>1, SubSeqNext
    <3>3. Command = fresh[c][commandNum + 1]
      BY <2>3 DEF Command
    <3>4. Handed(c)' = Append(Handed(c), Command)
      BY <2>3
    <3> QED
      BY <2>1, <2>2, <2>3, <3>2, <3>3, <3>4 DEF MergedOf
  <2>4. CASE c # Client
    <3>1. Handed(c)' = Handed(c)
      BY <2>4
    <3> QED
      BY <2>1, <2>2, <2>4, <3>1 DEF MergedOf
  <2> QED
    BY <2>3, <2>4
<1> QED
  BY <1>2 DEF MergedInOrder

(* A command that is there is shared. *)
LEMMA ShareStep ==
  ASSUME CombinerInv, FrameFits, Share
  PROVE  CombinerInv'
<1>1. PICK k \in curCommand .. serverCommandSequence :
           /\ TextAt(k) = Command
           /\ serverCommandBitmask' =
                [serverCommandBitmask EXCEPT ![Slot(k)] = @ \cup {Client}]
           /\ PlacedAt(k)
           /\ UNCHANGED <<serverCommands, serverCommandSequence,
                          lastExecutedServerCommand>>
  BY ShareEffect
<1>2. MoreCommands /\ Merging
  BY DEF Share, MoreCommands
<1>3. /\ curCommand' = k + 1
      /\ serverCommandSyncIdx' = [serverCommandSyncIdx EXCEPT ![Client] = k + 1]
      /\ commandNum' = commandNum + 1
      /\ UNCHANGED <<issued, seen, matchedClients, matches, fresh, firstServerCommand>>
      /\ UNCHANGED <<serverCommands, serverCommandSequence, lastExecutedServerCommand>>
  BY <1>1 DEF PlacedAt, serverVars
<1>4. Client \in Clients /\ Client \in matchedClients /\ Client' = Client
      /\ Tail(matches)' = Tail(matches)
  BY <1>2, <1>3, MergingFacts DEF Client
<1>5. Command \in Texts /\ commandNum + 1 \in 1 .. Len(fresh[Client])
  BY <1>2, CommandType
<1>6. /\ curCommand \in Nat /\ commandNum \in Nat /\ firstServerCommand \in Nat
      /\ serverCommandSequence \in Int
      /\ firstServerCommand <= curCommand /\ curCommand <= serverCommandSequence + 1
      /\ k \in Int /\ k \in firstServerCommand .. serverCommandSequence
  BY DEF CombinerInv, FrameTypes, RingTypes
<1>7. Slot(k) \in Slots
  BY <1>6, SlotType
<1>8. /\ (serverCommandSequence + 1) - firstServerCommand < MaxReliable
      /\ MaxReliable \in Nat
  BY <1>2, FrameSize, CommandAssumption
<1>9. ServerTypes'
  BY <1>3 DEF CombinerInv, ServerTypes
<1>10. RingTypes'
  <2>1. RingTypes
    BY DEF CombinerInv
  <2>2. serverCommandBitmask' \in [Slots -> SUBSET Clients]
    BY <1>1, <1>4, <2>1 DEF RingTypes
  <2>3. ASSUME NEW s \in Slots, serverCommandBitmask'[s] # {}
        PROVE  serverCommands'[s] \in Texts
    <3>1. CASE s = Slot(k)
      BY <1>1, <1>3, <1>5, <3>1 DEF TextAt
    <3>2. CASE s # Slot(k)
      BY <1>1, <1>3, <2>1, <2>3, <3>2 DEF RingTypes
    <3> QED
      BY <3>1, <3>2
  <2>4. /\ serverCommandSyncIdx' \in [Clients -> Nat]
        /\ \A c \in Clients : serverCommandSyncIdx'[c] <= serverCommandSequence + 1
    BY <1>3, <1>4, <1>6, <2>1 DEF RingTypes
  <2> QED
    BY <1>3, <2>1, <2>2, <2>3, <2>4 DEF RingTypes
<1>11. FrameTypes'
  BY <1>3, <1>6 DEF CombinerInv, FrameTypes
<1>12. Turns'
  BY <1>3, <1>4, <1>5 DEF CombinerInv, Turns, Merging
<1>13. Room'
  <2>1. HowMany(matches, fresh)' = HowMany(matches, fresh)
    BY <1>3
  <2>2. HowMany(matches, fresh) \in Nat /\ MaxPerFrame \in Nat
    BY <1>2, MergingCounts, CommandAssumption
  <2>3. ((serverCommandSequence + 1) - firstServerCommand)
          + HowMany(matches, fresh) <= MaxPerFrame + commandNum
    BY <1>2 DEF CombinerInv, Room
  <2>4. ((serverCommandSequence + 1) - firstServerCommand)
          + HowMany(matches, fresh) <= MaxPerFrame + (commandNum + 1)
    BY <1>6, <2>2, <2>3
  <2> QED
    BY <1>3, <2>1, <2>4 DEF Room
<1>14. Synced'
  <2>1. serverCommandSyncIdx'[Client] = k + 1
    BY <1>3, <1>4 DEF CombinerInv, RingTypes
  <2>2. \A i \in DOMAIN Tail(matches) :
          serverCommandSyncIdx'[Tail(matches)[i]] = serverCommandSyncIdx[Tail(matches)[i]]
    BY <1>2, <1>3, MergingFacts DEF CombinerInv, RingTypes
  <2>3. \A i \in DOMAIN Tail(matches) :
          serverCommandSyncIdx[Tail(matches)[i]] <= firstServerCommand
    BY <1>2 DEF CombinerInv, Synced
  <2> QED
    BY <1>3, <1>4, <2>1, <2>2, <2>3 DEF Synced
<1>15. Ahead'
  <2>1. DOMAIN serverCommandBitmask = Slots
    BY DEF CombinerInv, RingTypes
  <2>2. ASSUME NEW j \in firstServerCommand .. serverCommandSequence
        PROVE  /\ Slot(j) \in Slots
               /\ serverCommandBitmask'[Slot(j)] =
                    IF j = k THEN serverCommandBitmask[Slot(j)] \cup {Client}
                    ELSE serverCommandBitmask[Slot(j)]
    <3>1. Slot(j) \in Slots
      BY SlotType
    <3>2. ASSUME j # k PROVE Slot(j) # Slot(k)
      <4>1. j \in Int /\ j - k < MaxReliable /\ k - j < MaxReliable
        BY <1>6, <1>8
      <4> QED
        BY <1>6, <3>2, <4>1, SlotsDiffer
    <3> QED
      BY <1>1, <2>1, <3>1, <3>2
  <2>3. ASSUME NEW j \in k + 1 .. serverCommandSequence
        PROVE  Client \notin serverCommandBitmask'[Slot(j)]
    <3>1. j \in curCommand .. serverCommandSequence
          /\ j \in firstServerCommand .. serverCommandSequence /\ j # k
      BY <1>6
    <3>2. Client \notin serverCommandBitmask[Slot(j)]
      BY <1>2, <3>1 DEF CombinerInv, Ahead, MaskAt
    <3> QED
      BY <2>2, <3>1, <3>2
  <2>4. ASSUME NEW i \in DOMAIN Tail(matches),
               NEW j \in firstServerCommand .. serverCommandSequence
        PROVE  Tail(matches)[i] \notin serverCommandBitmask'[Slot(j)]
    <3>1. Tail(matches)[i] # Client
      BY <1>2, MergingFacts
    <3>2. Tail(matches)[i] \notin serverCommandBitmask[Slot(j)]
      BY <1>2 DEF CombinerInv, Ahead, MaskAt
    <3> QED
      BY <2>2, <3>1, <3>2
  <2> QED
    BY <1>3, <1>4, <2>3, <2>4 DEF Ahead, MaskAt, Slot
<1>16. MergedInOrder'
  <2>1. ASSUME NEW c
        PROVE  Handed(c)' = IF c = Client THEN Append(Handed(c), Command) ELSE Handed(c)
    <3> DEFINE t == serverCommands
               b == serverCommandBitmask
               lo == firstServerCommand
               hi == serverCommandSequence
               bb == serverCommandBitmask'
    <3>1. DOMAIN b = Slots /\ RingTypes
      BY DEF CombinerInv, RingTypes
    <3>2. NoBit(b, curCommand, hi, Client)
      BY <1>2 DEF CombinerInv, Ahead, MaskAt, NoBit
    <3>3. SpokenIn(t, b, lo, hi)
      BY <1>6, <3>1, FrameSpoken
    <3>4. t[Slot(k)] = Command /\ t[Slot(k)] \in Texts
      BY <1>1, <1>5 DEF TextAt
    <3>5. lo \in Int /\ hi \in Int /\ (hi + 1) - lo <= MaxReliable
          /\ k \in lo .. hi /\ curCommand \in lo .. k
      BY <1>6, <1>8
    <3>0. Shared(b, k, Client, bb)
      BY <1>1 DEF Shared
    <3> HIDE DEF t, b, lo, hi, bb
    <3>9. Sharing(t, b, bb, lo, hi, curCommand, k, Client)
      BY <3>0, <3>1, <3>2, <3>3, <3>4, <3>5 DEF Sharing
    <3>6. Told(t, bb, lo, hi, c) =
            IF c = Client THEN Append(Told(t, b, lo, hi, c), t[Slot(k)])
            ELSE Told(t, b, lo, hi, c)
      BY <3>9, ShareTold
    <3>7. Handed(c) = Told(t, b, lo, hi, c)
      BY HandedIsTold DEF t, b, lo, hi
    <3>8. Handed(c)' = Told(t, bb, lo, hi, c)
      BY <1>3, HandedIsTold DEF t, bb, lo, hi
    <3> QED
      BY <3>4, <3>6, <3>7, <3>8
  <2> QED
    BY <1>2, <1>3, <2>1, OrderKept
<1> QED
  BY <1>9, <1>10, <1>11, <1>12, <1>13, <1>14, <1>15, <1>16 DEF CombinerInv

(* One that is not is inserted. *)
LEMMA InsertStep ==
  ASSUME CombinerInv, FrameFits, Insert
  PROVE  CombinerInv'
<1> DEFINE p == curCommand
           s == serverCommandSequence
<1>1. /\ Inserted(p) /\ PlacedAt(p)
      /\ serverCommandSequence' = s + 1
      /\ lastExecutedServerCommand' = lastExecutedServerCommand + 1
  BY InsertEffect
<1>2. MoreCommands /\ Merging
  BY DEF Insert, InsertWith, MoreCommands
<1>3. /\ curCommand' = p + 1
      /\ serverCommandSyncIdx' = [serverCommandSyncIdx EXCEPT ![Client] = p + 1]
      /\ commandNum' = commandNum + 1
      /\ UNCHANGED <<issued, seen, matchedClients, matches, fresh, firstServerCommand>>
  BY <1>1 DEF PlacedAt, serverVars
<1>4. Client \in Clients /\ Client \in matchedClients /\ Client' = Client
      /\ Tail(matches)' = Tail(matches)
  BY <1>2, <1>3, MergingFacts DEF Client
<1>5. Command \in Texts /\ commandNum + 1 \in 1 .. Len(fresh[Client])
  BY <1>2, CommandType
<1>6. /\ p \in Nat /\ commandNum \in Nat /\ firstServerCommand \in Nat
      /\ s \in Int /\ s >= -1
      /\ firstServerCommand <= p /\ p <= s + 1
  BY DEF CombinerInv, FrameTypes, RingTypes
<1>7. Slot(p) \in Slots
  BY <1>6, SlotType
<1>8. ServerTypes'
  BY <1>3 DEF CombinerInv, ServerTypes
<1>9. RingTypes'
  <2>1. RingTypes
    BY DEF CombinerInv
  <2>2. ASSUME NEW i \in Slots
        PROVE  /\ serverCommands'[i] \in Texts \cup {NoText}
               /\ serverCommandBitmask'[i] \in SUBSET Clients
               /\ serverCommandBitmask'[i] # {} => serverCommands'[i] \in Texts
    <3>1. CASE i = Slot(p)
      BY <1>1, <1>4, <1>5, <3>1 DEF Inserted
    <3>2. CASE i # Slot(p)
      <4>1. PICK r \in Slots :
              /\ serverCommands'[i] = serverCommands[r]
              /\ serverCommandBitmask'[i] = serverCommandBitmask[r]
        BY <1>1, <3>2 DEF Inserted
      <4> QED
        BY <2>1, <4>1 DEF RingTypes
    <3> QED
      BY <3>1, <3>2
  <2>3. DOMAIN serverCommands' = Slots /\ DOMAIN serverCommandBitmask' = Slots
    BY <1>1 DEF Inserted
  <2>4. /\ serverCommandSyncIdx' \in [Clients -> Nat]
        /\ \A c \in Clients : serverCommandSyncIdx'[c] <= s + 2
    BY <1>3, <1>4, <1>6, <2>1 DEF RingTypes
  <2>5. /\ serverCommands' \in [Slots -> Texts \cup {NoText}]
        /\ serverCommandBitmask' \in [Slots -> SUBSET Clients]
    <3>1. serverCommands' = [i \in Slots |-> serverCommands'[i]]
      BY <1>1, <2>3 DEF Insert, InsertWith
    <3>2. serverCommandBitmask' = [i \in Slots |-> serverCommandBitmask'[i]]
      BY <1>1, <2>3 DEF Insert, InsertWith
    <3> QED
      BY <2>2, <3>1, <3>2
  <2>6. lastExecutedServerCommand' = serverCommandSequence' + 1 /\ s + 1 \in Int
        /\ s + 1 >= -1 /\ s + 2 = (s + 1) + 1
    BY <1>1, <1>6, <2>1 DEF RingTypes
  <2> HIDE DEF s, p
  <2> QED
    BY <1>1, <2>2, <2>4, <2>5, <2>6 DEF RingTypes
<1>10. FrameTypes'
  BY <1>1, <1>3, <1>6 DEF CombinerInv, FrameTypes
<1>11. Turns'
  BY <1>3, <1>4, <1>5 DEF CombinerInv, Turns, Merging
<1>12. Room'
  <2>1. HowMany(matches, fresh)' = HowMany(matches, fresh)
    BY <1>3
  <2>2. HowMany(matches, fresh) \in Nat /\ MaxPerFrame \in Nat
    BY <1>2, MergingCounts, CommandAssumption
  <2>3. ((s + 1) - firstServerCommand)
          + HowMany(matches, fresh) <= MaxPerFrame + commandNum
    BY <1>2 DEF CombinerInv, Room
  <2>4. (((s + 1) + 1) - firstServerCommand)
          + HowMany(matches, fresh) <= MaxPerFrame + (commandNum + 1)
    <3> HIDE DEF s
    <3> QED
      BY <1>6, <2>2, <2>3
  <2> QED
    BY <1>1, <1>3, <2>1, <2>4 DEF Room
<1>13. Synced'
  <2>1. serverCommandSyncIdx'[Client] = p + 1
    BY <1>3, <1>4 DEF CombinerInv, RingTypes
  <2>2. \A i \in DOMAIN Tail(matches) :
          serverCommandSyncIdx'[Tail(matches)[i]] = serverCommandSyncIdx[Tail(matches)[i]]
    BY <1>2, <1>3, MergingFacts DEF CombinerInv, RingTypes
  <2>3. \A i \in DOMAIN Tail(matches) :
          serverCommandSyncIdx[Tail(matches)[i]] <= firstServerCommand
    BY <1>2 DEF CombinerInv, Synced
  <2> QED
    BY <1>3, <1>4, <2>1, <2>2, <2>3 DEF Synced
<1>14. Ahead'
  <2>1. ASSUME NEW j \in p + 1 .. s + 1
        PROVE  Client \notin serverCommandBitmask'[Slot(j)]
    <3>1. j - 1 \in p .. s /\ (j - 1) + 1 = j
      BY <1>6
    <3>2. serverCommandBitmask'[Slot((j - 1) + 1)] = serverCommandBitmask[Slot(j - 1)]
      BY <1>1, <3>1 DEF Inserted
    <3>3. Client \notin serverCommandBitmask[Slot(j - 1)]
      BY <1>2, <3>1 DEF CombinerInv, Ahead, MaskAt
    <3> QED
      BY <3>1, <3>2, <3>3
  <2>2. ASSUME NEW i \in DOMAIN Tail(matches), NEW j \in firstServerCommand .. s + 1
        PROVE  Tail(matches)[i] \notin serverCommandBitmask'[Slot(j)]
    <3>1. Tail(matches)[i] # Client
      BY <1>2, MergingFacts
    <3>2. \A k \in firstServerCommand .. s :
            Tail(matches)[i] \notin serverCommandBitmask[Slot(k)]
      BY <1>2 DEF CombinerInv, Ahead, MaskAt
    <3>3. CASE j \in firstServerCommand .. p - 1
      <4>1. j \in firstServerCommand .. s
        BY <1>6, <3>3
      <4>2. serverCommandBitmask'[Slot(j)] = serverCommandBitmask[Slot(j)]
        BY <1>1, <3>3 DEF Inserted
      <4> QED
        BY <3>2, <4>1, <4>2
    <3>4. CASE j = p
      BY <1>1, <3>1, <3>4 DEF Inserted
    <3>5. CASE j \in p + 1 .. s + 1
      <4>1. j - 1 \in p .. s /\ (j - 1) + 1 = j /\ j - 1 \in firstServerCommand .. s
        BY <1>6, <3>5
      <4>2. serverCommandBitmask'[Slot((j - 1) + 1)] = serverCommandBitmask[Slot(j - 1)]
        BY <1>1, <4>1 DEF Inserted
      <4> QED
        BY <3>2, <4>1, <4>2
    <3> QED
      BY <1>6, <3>3, <3>4, <3>5
  <2> HIDE DEF s, p
  <2> QED
    BY <1>1, <1>3, <1>4, <2>1, <2>2 DEF Ahead, MaskAt, Slot
<1>15. MergedInOrder'
  <2>1. ASSUME NEW c
        PROVE  Handed(c)' = IF c = Client THEN Append(Handed(c), Command) ELSE Handed(c)
    <3> DEFINE t == serverCommands
               b == serverCommandBitmask
               tt == serverCommands'
               bb == serverCommandBitmask'
               lo == firstServerCommand
    <3>1. lo \in Int /\ s \in Int /\ p \in lo .. s + 1
      BY <1>6
    <3>2. NoBit(b, p, s, Client)
      BY <1>2 DEF CombinerInv, Ahead, MaskAt, NoBit
    <3>3. SpokenIn(t, b, lo, s)
      BY <1>6, FrameSpoken DEF CombinerInv
    <3>4. /\ tt[Slot(p)] = Command /\ bb[Slot(p)] = {Client}
          /\ \A i \in lo .. p - 1 :
               tt[Slot(i)] = t[Slot(i)] /\ bb[Slot(i)] = b[Slot(i)]
          /\ \A i \in p .. s :
               tt[Slot(i + 1)] = t[Slot(i)] /\ bb[Slot(i + 1)] = b[Slot(i)]
      BY <1>1 DEF Inserted
    <3> HIDE DEF t, b, tt, bb, lo, s, p
    <3>5. Inserting(t, b, tt, bb, lo, s, p, Client, Command)
      BY <1>5, <3>1, <3>2, <3>3, <3>4 DEF Inserting
    <3>6. Told(tt, bb, lo, s + 1, c) =
            IF c = Client THEN Append(Told(t, b, lo, s, c), Command)
            ELSE Told(t, b, lo, s, c)
      BY <3>5, InsertTold
    <3>7. Handed(c) = Told(t, b, lo, s, c)
      BY HandedIsTold DEF t, b, lo, s
    <3>8. Handed(c)' = Told(tt, bb, lo, s + 1, c)
      BY <1>1, <1>3, HandedIsTold DEF tt, bb, lo
    <3> QED
      BY <3>6, <3>7, <3>8
  <2> QED
    BY <1>2, <1>3, <2>1, OrderKept
<1> QED
  BY <1>8, <1>9, <1>10, <1>11, <1>12, <1>13, <1>14, <1>15 DEF CombinerInv

(* The next demo's turn begins. *)
LEMMA NextMatchStep ==
  ASSUME CombinerInv, NextMatch
  PROVE  CombinerInv'
<1> DEFINE rest == Tail(matches)
<1>1. /\ Len(matches) > 1 /\ ~ MoreCommands
      /\ matches' = rest /\ commandNum' = 0 /\ curCommand' = firstServerCommand
      /\ UNCHANGED <<issued, seen, matchedClients, fresh, firstServerCommand>>
      /\ UNCHANGED <<serverCommands, serverCommandBitmask, serverCommandSequence,
                     lastExecutedServerCommand, serverCommandSyncIdx>>
  BY DEF NextMatch, serverVars, ringVars
<1>2. Merging
  <2>1. matches # <<>>
    BY <1>1
  <2> QED
    BY <2>1 DEF Merging
<1>3. /\ Len(matches) \in Nat /\ Client = matches[1]
      /\ Client \in matchedClients /\ Client \in Clients
      /\ rest \in Seq(matchedClients) /\ Len(rest) = Len(matches) - 1
      /\ DOMAIN rest = 1 .. Len(matches) - 1
      /\ \A i \in DOMAIN rest : rest[i] = matches[i + 1] /\ rest[i] # Client
           /\ rest[i] \in matchedClients
  BY <1>2, MergingFacts
<1>4. rest # <<>> /\ Merging' /\ Client' = rest[1] /\ 1 \in DOMAIN rest
  BY <1>1, <1>3 DEF Merging, Client
<1>5. /\ Tail(rest) \in Seq(matchedClients) /\ Len(Tail(rest)) = Len(rest) - 1
      /\ \A i \in 1 .. Len(Tail(rest)) : Tail(rest)[i] = rest[i + 1]
  BY <1>3, <1>4, HeadTailProperties
<1>6. /\ DOMAIN Tail(rest) = 1 .. Len(rest) - 1
      /\ \A i \in DOMAIN Tail(rest) : i + 1 \in DOMAIN rest /\ Tail(rest)[i] = rest[i + 1]
  BY <1>3, <1>5
<1>7. \A i, j \in DOMAIN rest : rest[i] = rest[j] => i = j
  <2>1. \A i \in DOMAIN rest : i \in Int /\ i + 1 \in DOMAIN matches
    BY <1>3 DEF CombinerInv, FrameTypes
  <2>2. \A i, j \in DOMAIN matches : matches[i] = matches[j] => i = j
    BY DEF CombinerInv, Turns
  <2> QED
    BY <1>3, <2>1, <2>2
<1>8. commandNum = Len(fresh[Client]) /\ Len(fresh[Client]) \in Nat
      /\ HowMany(rest, fresh) \in Nat
      /\ HowMany(matches, fresh) = Len(fresh[Client]) + HowMany(rest, fresh)
  BY <1>1, <1>2, MergingCounts DEF MoreCommands, CombinerInv, Turns, FrameTypes
<1>9. ServerTypes' /\ RingTypes'
  BY <1>1 DEF CombinerInv, ServerTypes, RingTypes
<1>10. FrameTypes'
  <2>1. /\ firstServerCommand \in Nat /\ firstServerCommand <= curCommand
        /\ curCommand \in Nat /\ curCommand <= serverCommandSequence + 1
        /\ serverCommandSequence \in Int
        /\ matchedClients \in SUBSET Clients /\ fresh \in [Clients -> Seq(Texts)]
    BY DEF CombinerInv, FrameTypes, RingTypes
  <2>2. firstServerCommand <= firstServerCommand
        /\ firstServerCommand <= serverCommandSequence + 1 /\ 0 \in Nat
    BY <2>1
  <2> HIDE DEF rest
  <2> QED
    BY <1>1, <1>3, <2>1, <2>2 DEF FrameTypes
<1>11. Turns'
  <2>1. rest[1] \in Clients
    BY <1>3, <1>4 DEF CombinerInv, FrameTypes
  <2>2. Len(fresh[rest[1]]) \in Nat
    BY <2>1 DEF CombinerInv, FrameTypes
  <2> QED
    BY <1>1, <1>4, <1>7, <2>2 DEF Turns
<1>12. Room'
  <2>1. ((serverCommandSequence + 1) - firstServerCommand)
          + HowMany(matches, fresh) <= MaxPerFrame + commandNum
    BY <1>2 DEF CombinerInv, Room
  <2>2. /\ serverCommandSequence \in Int /\ firstServerCommand \in Int
        /\ MaxPerFrame \in Nat
    BY CommandAssumption DEF CombinerInv, RingTypes, FrameTypes
  <2>3. ((serverCommandSequence + 1) - firstServerCommand)
          + HowMany(rest, fresh) <= MaxPerFrame + 0
    <3> HIDE DEF rest
    <3> QED
      BY <1>8, <2>1, <2>2
  <2> QED
    BY <1>1, <2>3 DEF Room
<1>13. Synced'
  <2>1. \A i \in DOMAIN rest : serverCommandSyncIdx[rest[i]] <= firstServerCommand
    BY <1>2 DEF CombinerInv, Synced
  <2> QED
    BY <1>1, <1>4, <1>6, <2>1 DEF Synced
<1>14. Ahead'
  <2>1. \A i \in DOMAIN rest : \A k \in firstServerCommand .. serverCommandSequence :
          rest[i] \notin MaskAt(k)
    BY <1>2 DEF CombinerInv, Ahead
  <2>2. \A k \in Int : MaskAt(k)' = MaskAt(k)
    BY <1>1 DEF MaskAt, Slot
  <2>3. \A k \in firstServerCommand .. serverCommandSequence : k \in Int
    BY DEF CombinerInv, FrameTypes, RingTypes
  <2>4. \A k \in curCommand' .. serverCommandSequence' : Client' \notin MaskAt(k)'
    BY <1>1, <1>4, <2>1, <2>2, <2>3
  <2>5. \A i \in DOMAIN Tail(matches') :
          \A k \in firstServerCommand' .. serverCommandSequence' :
            Tail(matches')[i] \notin MaskAt(k)'
    BY <1>1, <1>6, <2>1, <2>2, <2>3
  <2> QED
    BY <2>4, <2>5 DEF Ahead
<1>15. MergedInOrder'
  <2>1. ASSUME NEW c \in matchedClients
        PROVE  Handed(c)' = SubSeq(fresh[c], 1, Merged(c)')
    <3>1. Handed(c)' = Handed(c)
      BY <1>1, HandedIsTold
    <3>2. Handed(c) = SubSeq(fresh[c], 1, MergedOf(commandNum, c))
      BY <1>2, MergedIsOf DEF CombinerInv, MergedInOrder
    <3>3. /\ c = rest[1] => Merged(c)' = 0
          /\ c \in Range(Tail(rest)) => Merged(c)' = 0
          /\ c # rest[1] /\ c \notin Range(Tail(rest)) => Merged(c)' = Len(fresh[c])
      BY <1>1, <1>4 DEF Merged
    <3>4. c \in Range(rest) => c = rest[1] \/ c \in Range(Tail(rest))
      <4> SUFFICES ASSUME NEW i \in DOMAIN rest, c = rest[i], i # 1
                   PROVE  c \in Range(Tail(rest))
        BY DEF Range
      <4>1. i - 1 \in DOMAIN Tail(rest) /\ (i - 1) + 1 = i
        BY <1>3, <1>6
      <4>2. Tail(rest)[i - 1] = c
        BY <1>6, <4>1
      <4> QED
        BY <4>1, <4>2 DEF Range
    <3>5. Range(Tail(rest)) \subseteq Range(rest) /\ rest[1] \in Range(rest)
      BY <1>4, <1>6 DEF Range
    <3>6. Client \notin Range(rest)
      BY <1>3 DEF Range
    <3> HIDE DEF rest
    <3>7. CASE c \in Range(rest)
      BY <3>1, <3>2, <3>3, <3>4, <3>6, <3>7 DEF MergedOf, rest
    <3>8. CASE c \notin Range(rest)
      BY <1>8, <3>1, <3>2, <3>3, <3>5, <3>8 DEF MergedOf, rest
    <3> QED
      BY <3>7, <3>8
  <2> QED
    BY <1>1, <2>1 DEF MergedInOrder
<1> QED
  BY <1>9, <1>10, <1>11, <1>12, <1>13, <1>14, <1>15 DEF CombinerInv

(* Between two frames there is little to be said. *)
LEMMA IdleStep ==
  ASSUME ServerTypes', RingTypes', FrameTypes', ~ Merging'
  PROVE  CombinerInv'
<1>1. matches' = <<>>
  BY DEF Merging
<1>2. Turns'
  BY <1>1 DEF Turns, Merging
<1> QED
  BY <1>2 DEF CombinerInv, Room, Synced, Ahead, MergedInOrder

(* The frame is written, and everyone has its commands. *)
LEMMA WriteFrameStep ==
  ASSUME CombinerInv, WriteFrame
  PROVE  CombinerInv'
<1>1. /\ matches' = <<>> /\ commandNum' = 0 /\ fresh' = [c \in Clients |-> <<>>]
      /\ UNCHANGED <<issued, seen, matchedClients, curCommand, firstServerCommand>>
      /\ UNCHANGED <<serverCommands, serverCommandBitmask, serverCommandSequence,
                     lastExecutedServerCommand, serverCommandSyncIdx>>
  BY DEF WriteFrame, serverVars, ringVars
<1>2. ServerTypes' /\ RingTypes'
  BY <1>1 DEF CombinerInv, ServerTypes, RingTypes
<1>3. FrameTypes'
  <2>1. fresh' \in [Clients -> Seq(Texts)] /\ matches' \in Seq(matchedClients)
    BY <1>1
  <2> QED
    BY <1>1, <2>1 DEF CombinerInv, FrameTypes
<1> QED
  BY <1>1, <1>2, <1>3, IdleStep DEF Merging

(* The server issues a command. *)
LEMMA IssueStep ==
  ASSUME CombinerInv, NEW text \in Texts, NEW to \in Recipients, Issue(text, to)
  PROVE  CombinerInv'
<1>1. /\ issued' = Append(issued, [text |-> text, mask |-> to])
      /\ UNCHANGED <<seen, ringVars, frameVars>> /\ ~ Merging
  BY DEF Issue
<1>2. ServerTypes'
  <2>1. [text |-> text, mask |-> to] \in Issuable /\ issued \in Seq(Issuable)
    BY DEF Issuable, CombinerInv, ServerTypes
  <2> HIDE DEF Issuable
  <2>2. issued' \in Seq(Issuable) /\ Len(issued') = Len(issued) + 1 /\ Len(issued) \in Nat
    BY <1>1, <2>1, AppendProperties
  <2>3. \A c \in Clients : seen[c] \in Nat /\ seen[c] <= Len(issued) /\ seen[c] <= Len(issued')
    BY <2>2 DEF CombinerInv, ServerTypes
  <2> QED
    BY <1>1, <2>2, <2>3 DEF CombinerInv, ServerTypes
<1>3. RingTypes' /\ FrameTypes' /\ ~ Merging'
  BY <1>1 DEF CombinerInv, RingTypes, FrameTypes, ringVars, frameVars, Merging
<1> QED
  BY <1>2, <1>3, IdleStep

(* What leaves the combiner alone keeps its invariant. *)
LEMMA CombinerKept ==
  ASSUME CombinerInv, UNCHANGED <<serverVars, ringVars, frameVars>>
  PROVE  CombinerInv'
<1>1. /\ UNCHANGED <<issued, seen>>
      /\ UNCHANGED <<serverCommands, serverCommandBitmask, serverCommandSequence,
                     lastExecutedServerCommand, serverCommandSyncIdx>>
      /\ UNCHANGED <<matchedClients, matches, fresh, commandNum, curCommand,
                     firstServerCommand>>
  BY DEF serverVars, ringVars, frameVars
<1>2. ServerTypes' /\ RingTypes' /\ FrameTypes' /\ Merging' = Merging
  BY <1>1 DEF CombinerInv, ServerTypes, RingTypes, FrameTypes, Merging
<1>3. CASE ~ Merging
  BY <1>2, <1>3, IdleStep
<1>4. CASE Merging
  <2>1. Client' = Client /\ Tail(matches)' = Tail(matches) /\ \A k : MaskAt(k)' = MaskAt(k)
    BY <1>1 DEF Client, MaskAt, Slot
  <2>2. Turns' /\ Room' /\ Synced' /\ Ahead'
    BY <1>1, <1>2, <2>1 DEF CombinerInv, Turns, Room, Synced, Ahead
  <2>3. MergedInOrder'
    <3>1. \A c : Handed(c)' = Handed(c)
      BY <1>1, HandedIsTold
    <3>2. \A c : Merged(c)' = Merged(c)
      BY <1>1, <1>4, MergedIsOf
    <3> QED
      BY <1>1, <1>2, <3>1, <3>2 DEF CombinerInv, MergedInOrder
  <2> QED
    BY <1>2, <2>2, <2>3 DEF CombinerInv
<1> QED
  BY <1>3, <1>4

(* A part of what was issued. *)
LEMMA IssuedPart ==
  ASSUME ServerTypes, NEW m \in Nat, NEW n \in Nat, m <= n, n <= Len(issued)
  PROVE  /\ SubSeq(issued, m + 1, n) \in Seq(Issuable)
         /\ Len(SubSeq(issued, m + 1, n)) = n - m
         /\ \A i \in 1 .. n - m : /\ SubSeq(issued, m + 1, n)[i] = issued[m + i]
                                  /\ m + i \in DOMAIN issued
<1> DEFINE l == m + 1
<1>1. issued \in Seq(Issuable) /\ Len(issued) \in Nat /\ l \in Int /\ n \in Int
      /\ \A i \in DOMAIN issued : issued[i] \in Issuable
      /\ DOMAIN issued = 1 .. Len(issued)
  BY DEF ServerTypes
<1>2. \A i \in l .. n : issued[i] \in Issuable
  BY <1>1
<1> HIDE DEF l
<1>3. /\ SubSeq(issued, l, n) \in Seq(Issuable)
      /\ Len(SubSeq(issued, l, n)) = IF l <= n THEN n - l + 1 ELSE 0
      /\ \A i \in 1 .. n - l + 1 : SubSeq(issued, l, n)[i] = issued[l + i - 1]
  BY ONLY <1>1, <1>2, SubSeqProperties
<1>4. (IF l <= n THEN n - l + 1 ELSE 0) = n - m /\ n - l + 1 = n - m
  BY DEF l
<1>5. \A i \in 1 .. n - m : l + i - 1 = m + i /\ m + i \in DOMAIN issued
  BY <1>1 DEF l
<1> QED
  BY <1>3, <1>4, <1>5 DEF l

(* It consists of texts. *)
LEMMA IssuedSpeaks ==
  ASSUME ServerTypes, NEW m \in Nat, NEW n \in Nat, m <= n, n <= Len(issued), NEW c
  PROVE  Speaks(SubSeq(issued, m + 1, n), c)
<1>1. /\ Len(SubSeq(issued, m + 1, n)) = n - m
      /\ SubSeq(issued, m + 1, n) \in Seq(Issuable)
  BY IssuedPart
<1>2. \A i \in 1 .. Len(SubSeq(issued, m + 1, n)) :
        SubSeq(issued, m + 1, n)[i] \in Issuable
  BY <1>1
<1> QED
  BY <1>2 DEF Speaks, Issuable

(* What it says to one client are texts. *)
LEMMA IssuedType ==
  ASSUME ServerTypes, NEW m \in Nat, NEW n \in Nat, m <= n, n <= Len(issued), NEW c
  PROVE  IssuedTo(c, m, n) \in Seq(Texts)
<1> DEFINE list == SubSeq(issued, m + 1, n)
<1>1. Speaks(list, c) /\ Len(list) \in Nat
  BY IssuedSpeaks, IssuedPart
<1> HIDE DEF list
<1>2. TextsFor(list, c) \in Seq(Texts)
  BY <1>1, TextsForType
<1> QED
  BY <1>2 DEF list, IssuedTo

(* An order of the demos has each once. *)
LEMMA OrderType ==
  ASSUME NEW clients \in SUBSET Clients, NEW order \in Orders(clients)
  PROVE  /\ order \in Seq(clients) /\ Range(order) = clients
         /\ \A i, j \in DOMAIN order : order[i] = order[j] => i = j
<1>1. Cardinality(clients) \in Nat
  BY CommandAssumption, FS_Subset, FS_CardinalityType
<1>2. /\ order \in [1 .. Cardinality(clients) -> clients] /\ Range(order) = clients
      /\ \A i, j \in DOMAIN order : i < j => order[i] < order[j]
  BY DEF Orders
<1>3. order \in Seq(clients) /\ DOMAIN order = 1 .. Cardinality(clients)
  BY <1>1, <1>2
<1>4. ASSUME NEW i \in DOMAIN order, NEW j \in DOMAIN order, order[i] = order[j], i # j
      PROVE  FALSE
  <2>1. i \in Nat /\ j \in Nat /\ order[i] \in Nat
    <3>1. order[i] \in clients /\ clients \subseteq Nat
      BY <1>2, CommandAssumption
    <3>2. i \in 1 .. Cardinality(clients) /\ j \in 1 .. Cardinality(clients)
      BY <1>3, Zenon
    <3>3. \A n \in Nat : \A k \in 1 .. n : k \in Nat
      OBVIOUS
    <3>4. i \in Nat /\ j \in Nat
      BY ONLY <1>1, <3>2, <3>3, Zenon
    <3>5. order[i] \in Nat
      BY ONLY <3>1
    <3> QED
      BY <3>4, <3>5
  <2>2. i < j \/ j < i
    BY <1>4, <2>1
  <2>3. order[i] < order[j] \/ order[j] < order[i]
    BY <1>2, <2>2
  <2> QED
    BY <1>4, <2>1, <2>3
<1> QED
  BY <1>2, <1>3, <1>4

(* A frame begins with what is new for its demos. *)
LEMMA StartFrameStep ==
  ASSUME CombinerInv, NEW matched \in (SUBSET Clients) \ {{}}, StartFrame(matched)
  PROVE  CombinerInv'
<1>1. /\ ~ Merging /\ matchedClients' = matched /\ matches' \in Orders(matched)
      /\ fresh' = [c \in Clients |-> IF c \in matched THEN Pending(c) ELSE <<>>]
      /\ HowMany(matches', fresh') <= MaxPerFrame
      /\ seen' = [c \in Clients |->
                IF c \in matched THEN Len(issued) ELSE seen[c]]
      /\ firstServerCommand' = lastExecutedServerCommand
      /\ curCommand' = lastExecutedServerCommand
      /\ commandNum' = 0 /\ issued' = issued
      /\ UNCHANGED <<serverCommands, serverCommandBitmask, serverCommandSequence,
                     lastExecutedServerCommand, serverCommandSyncIdx>>
  BY DEF StartFrame, ringVars
<1>2. ServerTypes /\ RingTypes /\ FrameTypes
  BY DEF CombinerInv
<1>3. /\ matches' \in Seq(matched) /\ Range(matches') = matched
      /\ \A i, j \in DOMAIN matches' : matches'[i] = matches'[j] => i = j
  BY <1>1, OrderType
<1>4. /\ lastExecutedServerCommand = serverCommandSequence + 1
      /\ serverCommandSequence \in Int /\ lastExecutedServerCommand \in Nat
  BY <1>2 DEF RingTypes
<1>5. fresh' \in [Clients -> Seq(Texts)]
  <2>1. ASSUME NEW c \in Clients PROVE Pending(c) \in Seq(Texts)
    <3>1. seen[c] \in Nat /\ seen[c] <= Len(issued) /\ Len(issued) \in Nat
          /\ Len(issued) <= Len(issued)
      BY <1>2 DEF ServerTypes
    <3> QED
      BY <1>2, <3>1, IssuedType DEF Pending
  <2>2. <<>> \in Seq(Texts)
    OBVIOUS
  <2> QED
    BY <1>1, <2>1, <2>2
<1>6. ServerTypes'
  <2>1. Len(issued) \in Nat /\ issued \in Seq(Issuable)
    BY <1>2 DEF ServerTypes
  <2>2. seen' \in [Clients -> Nat] /\ \A c \in Clients : seen'[c] <= Len(issued)
    BY <1>1, <1>2, <2>1 DEF ServerTypes
  <2> QED
    BY <1>1, <2>1, <2>2 DEF ServerTypes
<1>7. RingTypes'
  BY <1>1, <1>2 DEF RingTypes
<1>8. FrameTypes'
  BY <1>1, <1>3, <1>4, <1>5 DEF FrameTypes
<1>9. matches' # <<>> /\ Merging'
  <2>1. PICK c \in matched : TRUE
    <3>1. matched # {}
      OBVIOUS
    <3> QED
      BY <3>1
  <2>2. PICK i \in DOMAIN matches' : matches'[i] = c
    BY <1>3, <2>1 DEF Range
  <2>3. matches' # <<>>
    BY <2>2
  <2> QED
    BY <2>3 DEF Merging
<1>10. /\ Client' = matches'[1] /\ Len(matches') \in Nat \ {0}
       /\ DOMAIN matches' = 1 .. Len(matches')
       /\ Len(Tail(matches')) = Len(matches') - 1
       /\ Tail(matches') \in Seq(matched)
       /\ \A i \in 1 .. Len(Tail(matches')) : Tail(matches')[i] = matches'[i + 1]
  BY <1>3, <1>9, HeadTailProperties DEF Client
<1>11. /\ DOMAIN Tail(matches') = 1 .. Len(matches') - 1
       /\ \A i \in DOMAIN Tail(matches') :
            /\ Tail(matches')[i] = matches'[i + 1] /\ i + 1 \in DOMAIN matches'
            /\ i + 1 # 1 /\ Tail(matches')[i] \in matched
  BY <1>10
<1>12. Client' \in matched /\ 1 \in DOMAIN matches'
  BY <1>3, <1>10
<1>13. Turns'
  <2>1. Len(fresh'[Client']) \in Nat
    BY <1>5, <1>12
  <2> QED
    BY <1>1, <1>3, <2>1 DEF Turns
<1>14. Room'
  <2>1. Measured(matches', fresh')
    BY <1>3, <1>5 DEF Measured
  <2>2. HowMany(matches', fresh') \in Nat
    BY <1>10, <2>1, HowManyType
  <2>3. ((serverCommandSequence + 1) - lastExecutedServerCommand)
               + HowMany(matches', fresh') <= MaxPerFrame + 0
    BY <1>1, <1>4, <2>2, CommandAssumption
  <2> QED
    BY <1>1, <2>3 DEF Room
<1>15. \A k \in firstServerCommand' .. serverCommandSequence' : FALSE
  BY <1>1, <1>4
<1>16. Synced'
  <2>1. \A c \in Clients : serverCommandSyncIdx[c] <= lastExecutedServerCommand
    BY <1>2, <1>4 DEF RingTypes
  <2> QED
    BY <1>1, <1>11, <1>12, <2>1 DEF Synced
<1>17. Ahead'
  BY <1>1, <1>15 DEF Ahead
<1>18. MergedInOrder'
  <2>1. ASSUME NEW c \in matched PROVE Handed(c)' = SubSeq(fresh'[c], 1, Merged(c)')
    <3>1. Handed(c)' = <<>>
      <4> DEFINE lo == firstServerCommand'
                 hi == serverCommandSequence'
                 t == serverCommands'
                 b == serverCommandBitmask'
      <4>1. lo \in Int /\ hi \in Int /\ lo <= hi + 1
        BY <1>1, <1>4
      <4>2. \A k \in lo .. hi : c \notin b[Slot(k)]
        BY <1>15
      <4> HIDE DEF lo, hi, t, b
      <4>3. Told(t, b, lo, hi, c) = <<>>
        BY <4>1, <4>2, ToldNone
      <4> QED
        BY <4>3, HandedIsTold DEF t, b, lo, hi
    <3>2. Merged(c)' = 0
      <4>1. c = Client' \/ c \in Range(Tail(matches'))
        <5>1. PICK i \in DOMAIN matches' : matches'[i] = c
          BY <1>3 DEF Range
        <5>2. CASE i = 1
          BY <1>10, <5>1, <5>2
        <5>3. CASE i # 1
          <6>1. i - 1 \in DOMAIN Tail(matches') /\ (i - 1) + 1 = i
            BY <1>10, <1>11, <5>3
          <6>2. Tail(matches')[i - 1] = c
            BY <1>11, <5>1, <6>1
          <6> QED
            BY <6>1, <6>2 DEF Range
        <5> QED
          BY <5>2, <5>3
      <4> QED
        BY <1>1, <4>1 DEF Merged
    <3>3. SubSeq(fresh'[c], 1, 0) = <<>>
      BY SubSeqEmpty
    <3> QED
      BY <3>1, <3>2, <3>3
  <2> QED
    BY <1>1, <2>1 DEF MergedInOrder
<1> QED
  BY <1>6, <1>7, <1>8, <1>13, <1>14, <1>16, <1>17, <1>18 DEF CombinerInv

(* The invariant at the start. *)
LEMMA CombinerStarts == Init => CombinerInv
<1> SUFFICES ASSUME Init PROVE CombinerInv
  OBVIOUS
<1>1. MaxReliable \in Nat \ {0}
  BY CommandAssumption
<1>2. ServerTypes /\ RingTypes /\ FrameTypes
  BY DEF Init, ServerTypes, RingTypes, FrameTypes
<1>3. ~ Merging /\ matches = <<>>
  BY DEF Init, Merging
<1>4. Turns
  BY <1>3 DEF Turns, Merging
<1> QED
  BY <1>2, <1>3, <1>4 DEF CombinerInv, Room, Synced, Ahead, MergedInOrder

(* Every step keeps it, if the frame fits into the ring. *)
LEMMA CombinerSteps ==
  ASSUME CombinerInv, FrameFits, [Next]_vars
  PROVE  CombinerInv'
<1>1. ASSUME NEW text \in Texts, NEW to \in Recipients, Issue(text, to)
      PROVE  CombinerInv'
  BY <1>1, IssueStep
<1>2. ASSUME NEW matched \in (SUBSET Clients) \ {{}}, StartFrame(matched)
      PROVE  CombinerInv'
  BY <1>2, StartFrameStep
<1>3. CASE Share
  BY <1>3, ShareStep
<1>4. CASE Insert
  BY <1>4, InsertStep
<1>5. CASE NextMatch
  BY <1>5, NextMatchStep
<1>6. CASE WriteFrame
  BY <1>6, WriteFrameStep
<1>7. CASE SplitFrame
  <2>1. UNCHANGED <<serverVars, ringVars, frameVars>>
    BY <1>7 DEF SplitFrame
  <2> QED
    BY <2>1, CombinerKept
<1>8. CASE UNCHANGED vars
  BY <1>8, CombinerKept DEF vars
<1> QED
  BY <1>1, <1>2, <1>3, <1>4, <1>5, <1>6, <1>7, <1>8 DEF Next, Combine

(* The loop over new commands in RunMerge keeps, besides the order of the   *)
(* demos' commands, what it takes that they are kept: where the search and *)
(* the insertion are in the frame and that its commands are the ring's.    *)
THEOREM CombinerAlways == FrameFits => (Spec => []CombinerInv)
<1> SUFFICES ASSUME FrameFits PROVE Spec => []CombinerInv
  OBVIOUS
<1>1. CombinerInv /\ [Next]_vars => CombinerInv'
  BY CombinerSteps
<1> QED
  BY <1>1, CombinerStarts, PTL DEF Spec

-----------------------------------------------------------------------------
(* The frames of the merged demo, and the splitter. *)

Entries ==
  {x \in [seq : Nat, text : Texts \cup {NoText}, mask : SUBSET Clients] :
     x.mask # {} => x.text \in Texts}

Frames == [matched : SUBSET Clients, commands : Seq(Entries)]

SplitTypes ==
  /\ file \in Seq(Frames) /\ framesRead \in 0 .. Len(file)
  /\ splitRing \in [Slots -> Entries]
  /\ splitSequence \in Int /\ splitLastExecuted = splitSequence + 1

(* Frame k of a file f starts with command b[k], and the ring has room for *)
(* all of them.                                                            *)
Starts(b, f) ==
  /\ b \in [1 .. Len(f) + 1 -> Nat]
  /\ b[1] = 0
  /\ \A k \in 1 .. Len(f) :
       /\ b[k + 1] = b[k] + Len(f[k].commands)
       /\ Len(f[k].commands) <= MaxReliable
       /\ \A i \in 1 .. Len(f[k].commands) : f[k].commands[i].seq = (b[k] + i) - 1

(* Before frame k of a file f client c has been handed h[k][c]. *)
Hands(h, f) ==
  /\ h \in [1 .. Len(f) + 1 -> [Clients -> Seq(Texts)]]
  /\ \A c \in Clients : h[1][c] = <<>>
  /\ \A k \in 1 .. Len(f) : \A c \in Clients :
       h[k + 1][c] = IF c \in f[k].matched
                     THEN h[k][c] \o TextsFor(f[k].commands, c) ELSE h[k][c]

(* Where the next frame to be written starts. *)
NextStart == IF Merging THEN firstServerCommand ELSE serverCommandSequence + 1

(* The combiner is at the end of the file, the splitter at framesRead. *)
At(b, h, f) ==
  /\ Starts(b, f) /\ Hands(h, f)
  /\ b[Len(f) + 1] = NextStart
  /\ splitLastExecuted = b[framesRead + 1]
  /\ split = h[framesRead + 1]
  /\ \A c \in Clients : IssuedTo(c, 0, seen[c]) = h[Len(f) + 1][c] \o fresh[c]

SplitInv ==
  /\ SplitTypes
  /\ \A c \in Clients : ~ Merging \/ c \notin matchedClients => fresh[c] = <<>>
  /\ \E b, h : At(b, h, file)

(* The commands that are written are numbered in a row. *)
LEMMA FrameType ==
  ASSUME CombinerInv, firstServerCommand <= serverCommandSequence + 1
  PROVE  /\ FrameCommands \in Seq(Entries)
         /\ Len(FrameCommands) = (serverCommandSequence + 1) - firstServerCommand
         /\ \A i \in 1 .. Len(FrameCommands) :
              FrameCommands[i].seq = (firstServerCommand + i) - 1
<1> DEFINE lo == firstServerCommand
           hi == serverCommandSequence
           n == (hi + 1) - lo
           t == serverCommands
           b == serverCommandBitmask
           x == Piece(t, b, lo, hi)
<1>1. lo \in Nat /\ hi \in Int /\ lo <= hi + 1 /\ RingTypes
  BY DEF CombinerInv, FrameTypes, RingTypes
<1>2. Len(x) = n /\ n \in Nat
  BY <1>1, PieceLength
<1>3. \A i \in 1 .. n : Slot((lo + i) - 1) \in Slots /\ (lo + i) - 1 \in Nat
  BY <1>1, SlotType
<1>4. x = [i \in 1 .. n |-> [seq |-> (lo + i) - 1, text |-> t[Slot((lo + i) - 1)],
                             mask |-> b[Slot((lo + i) - 1)]]]
  <2>1. hi + 1 - lo = n /\ \A i \in 1 .. n : lo + i - 1 = (lo + i) - 1
    BY <1>1
  <2> HIDE DEF n, lo, hi, t, b
  <2> QED
    BY <2>1 DEF Piece
<1>5. ASSUME NEW i \in 1 .. n
      PROVE  [seq |-> (lo + i) - 1, text |-> t[Slot((lo + i) - 1)],
              mask |-> b[Slot((lo + i) - 1)]] \in Entries
  BY <1>1, <1>3 DEF RingTypes, Entries
<1> HIDE DEF x, n, lo, hi, t, b
<1>6. x \in [1 .. n -> Entries] /\ \A i \in 1 .. n : x[i].seq = (lo + i) - 1
  BY <1>4, <1>5
<1>7. x \in Seq(Entries)
  BY <1>2, <1>6
<1>8. FrameCommands = x
  BY FrameIsPiece DEF x, t, b, lo, hi
<1> QED
  BY <1>2, <1>6, <1>7, <1>8 DEF n, lo, hi

(* The ring hands back a frame that has just been stored in it. *)
LEMMA StoredFrame ==
  ASSUME NEW ring, NEW commands \in Seq(Entries), NEW start \in Nat,
         Len(commands) <= MaxReliable,
         \A i \in 1 .. Len(commands) : commands[i].seq = (start + i) - 1
  PROVE  \A i \in 1 .. Len(commands) :
           Stored(ring, commands)[Slot((start + i) - 1)] = commands[i]
<1> SUFFICES ASSUME NEW i \in 1 .. Len(commands)
             PROVE  Stored(ring, commands)[Slot((start + i) - 1)] = commands[i]
  OBVIOUS
<1> DEFINE k == (start + i) - 1
           here == {x \in Range(commands) : Slot(x.seq) = Slot(k)}
<1>1. k \in Int /\ MaxReliable \in Nat /\ Len(commands) \in Nat
      /\ DOMAIN commands = 1 .. Len(commands)
  BY CommandAssumption
<1>2. Slot(k) \in Slots
  BY <1>1, SlotType
<1>3. ASSUME NEW j \in 1 .. Len(commands), Slot(commands[j].seq) = Slot(k)
      PROVE  j = i
  <2>1. SUFFICES ASSUME j # i PROVE FALSE
    OBVIOUS
  <2>2. commands[j].seq = (start + j) - 1 /\ commands[j].seq \in Int
    OBVIOUS
  <2>3. commands[j].seq # k /\ commands[j].seq - k < MaxReliable
        /\ k - commands[j].seq < MaxReliable
    BY <1>1, <2>1, <2>2, SMTT(30)
  <2> HIDE DEF k
  <2>4. Slot(commands[j].seq) # Slot(k)
    BY <1>1, <2>2, <2>3, SlotsDiffer
  <2> QED
    BY <1>3, <2>4
<1>4. here = {commands[i]}
  <2>1. commands[i] \in here
    BY <1>1 DEF Range
  <2>2. \A x \in here : x = commands[i]
    BY <1>1, <1>3 DEF Range
  <2> HIDE DEF here
  <2> QED
    BY <2>1, <2>2
<1>5. commands[i].seq \in Int
  BY <1>1
<1>6. Stored(ring, commands)[Slot(k)] =
        IF here = {} THEN ring[Slot(k)]
        ELSE CHOOSE x \in here : \A y \in here : y.seq <= x.seq
  BY <1>2 DEF Stored
<1> HIDE DEF here, k
<1>7. (CHOOSE x \in here : \A y \in here : y.seq <= x.seq) = commands[i]
  <2>1. commands[i].seq <= commands[i].seq
    BY <1>5
  <2>2. \E x \in here : \A y \in here : y.seq <= x.seq
    BY <1>4, <2>1
  <2>3. (CHOOSE x \in here : \A y \in here : y.seq <= x.seq) \in here
    BY <2>2
  <2> QED
    BY <1>4, <2>3
<1>8. Stored(ring, commands)[Slot(k)] = commands[i]
  BY <1>4, <1>6, <1>7
<1> QED
  BY <1>8 DEF k

(* The splitter's ring after a frame was stored. *)
LEMMA StoredType ==
  ASSUME NEW ring \in [Slots -> Entries], NEW commands \in Seq(Entries),
         NEW start \in Nat, Len(commands) <= MaxReliable,
         \A i \in 1 .. Len(commands) : commands[i].seq = (start + i) - 1
  PROVE  Stored(ring, commands) \in [Slots -> Entries]
<1> DEFINE new == Stored(ring, commands)
           here(s) == {x \in Range(commands) : Slot(x.seq) = s}
<1>1. new = [s \in Slots |->
               IF here(s) = {} THEN ring[s]
               ELSE CHOOSE x \in here(s) : \A y \in here(s) : y.seq <= x.seq]
  BY DEF Stored
<1>2. \A i \in 1 .. Len(commands) : new[Slot((start + i) - 1)] = commands[i]
  BY StoredFrame
<1> HIDE DEF new
<1>3. ASSUME NEW s \in Slots PROVE new[s] \in Entries
  <2>1. CASE here(s) = {}
    BY <1>1, <2>1
  <2>2. CASE here(s) # {}
    <3>1. PICK x \in Range(commands) : Slot(x.seq) = s
      BY <2>2
    <3>2. PICK i \in 1 .. Len(commands) : x = commands[i]
      BY <3>1 DEF Range
    <3>3. s = Slot((start + i) - 1) /\ commands[i] \in Entries
      BY <3>1, <3>2
    <3> QED
      BY <1>2, <3>3
  <2> QED
    BY <2>1, <2>2
<1>4. new = [s \in Slots |-> new[s]]
  BY <1>1
<1>5. new \in [Slots -> Entries]
  BY <1>3, <1>4
<1> QED
  BY <1>5 DEF new

(* What a frame says to a client are texts. *)
LEMMA EntriesTexts ==
  ASSUME NEW commands \in Seq(Entries), NEW c
  PROVE  TextsFor(commands, c) \in Seq(Texts)
<1>1. Len(commands) \in Nat /\ \A i \in 1 .. Len(commands) : commands[i] \in Entries
  OBVIOUS
<1>2. Speaks(commands, c)
  BY <1>1 DEF Speaks, Entries
<1> QED
  BY <1>1, <1>2, TextsForType

(* A frame more is a step more of the history. *)
NextHands(before, x) ==
  [c \in Clients |-> IF c \in x.matched THEN before[c] \o TextsFor(x.commands, c)
                     ELSE before[c]]

(* The history of starts and of what was handed on goes on with one more *)
(* frame. *)
LEMMA HistoryExtends ==
  ASSUME NEW f \in Seq(Frames), NEW x \in Frames,
         NEW b, NEW h, Starts(b, f), Hands(h, f),
         Len(x.commands) <= MaxReliable,
         \A i \in 1 .. Len(x.commands) : x.commands[i].seq = (b[Len(f) + 1] + i) - 1
  PROVE  \E bb, hh :
           /\ Starts(bb, Append(f, x)) /\ Hands(hh, Append(f, x))
           /\ \A k \in 1 .. Len(f) + 1 : bb[k] = b[k] /\ hh[k] = h[k]
           /\ bb[Len(f) + 2] = b[Len(f) + 1] + Len(x.commands)
           /\ hh[Len(f) + 2] = NextHands(h[Len(f) + 1], x)
<1> DEFINE n == Len(f) + 1
           m == Len(f) + 2
           g == Append(f, x)
<1>1. /\ Len(f) \in Nat /\ n \in Nat /\ m = n + 1 /\ Len(g) = n /\ Len(g) + 1 = m
      /\ g[n] = x /\ \A k \in 1 .. Len(f) : g[k] = f[k]
      /\ \A k \in 1 .. m : k = m \/ k \in 1 .. n
      /\ \A k \in 1 .. n : k \in 1 .. m /\ k + 1 \in 1 .. m /\ k # m
      /\ \A k \in 1 .. n : k = n \/ k \in 1 .. Len(f)
      /\ \A k \in 1 .. Len(f) : k \in 1 .. n /\ k + 1 \in 1 .. n /\ k + 1 # m
      /\ 1 \in 1 .. n /\ n \in 1 .. n /\ m \in 1 .. m
  OBVIOUS
<1>2. x.matched \in SUBSET Clients /\ x.commands \in Seq(Entries)
      /\ Len(x.commands) \in Nat
  BY DEF Frames
<1> HIDE DEF n, m, g
<1>3. /\ b \in [1 .. n -> Nat] /\ b[1] = 0
      /\ \A k \in 1 .. Len(f) :
           /\ b[k + 1] = b[k] + Len(f[k].commands)
           /\ Len(f[k].commands) <= MaxReliable
           /\ \A i \in 1 .. Len(f[k].commands) : f[k].commands[i].seq = (b[k] + i) - 1
  BY DEF Starts, n
<1>4. /\ h \in [1 .. n -> [Clients -> Seq(Texts)]]
      /\ \A c \in Clients : h[1][c] = <<>>
      /\ \A k \in 1 .. Len(f) : \A c \in Clients :
           h[k + 1][c] = IF c \in f[k].matched
                         THEN h[k][c] \o TextsFor(f[k].commands, c) ELSE h[k][c]
  BY DEF Hands, n
<1> DEFINE e == b[n] + Len(x.commands)
           bb == [k \in 1 .. m |-> IF k = m THEN e ELSE b[k]]
           next == NextHands(h[n], x)
           hh == [k \in 1 .. m |-> IF k = m THEN next ELSE h[k]]
<1>5. e \in Nat /\ h[n] \in [Clients -> Seq(Texts)]
  BY <1>1, <1>2, <1>3, <1>4
<1>6. /\ next \in [Clients -> Seq(Texts)]
      /\ \A c \in Clients : next[c] = IF c \in x.matched
                                      THEN h[n][c] \o TextsFor(x.commands, c) ELSE h[n][c]
  <2>1. ASSUME NEW c \in Clients
        PROVE  h[n][c] \in Seq(Texts) /\ h[n][c] \o TextsFor(x.commands, c) \in Seq(Texts)
    <3>1. h[n][c] \in Seq(Texts)
      BY <1>5
    <3>2. TextsFor(x.commands, c) \in Seq(Texts)
      BY <1>2, EntriesTexts
    <3> HIDE DEF e
    <3> QED
      BY <3>1, <3>2
  <2> QED
    BY <2>1 DEF NextHands
<1> HIDE DEF e, next
<1>7. /\ bb \in [1 .. m -> Nat] /\ bb[m] = e /\ \A k \in 1 .. n : bb[k] = b[k]
  BY <1>1, <1>3, <1>5
<1>8. /\ hh \in [1 .. m -> [Clients -> Seq(Texts)]] /\ hh[m] = next
      /\ \A k \in 1 .. n : hh[k] = h[k]
  BY <1>1, <1>4, <1>6
<1> HIDE DEF bb, hh
<1>9. Starts(bb, g)
  <2>1. ASSUME NEW k \in 1 .. n
        PROVE  /\ bb[k + 1] = bb[k] + Len(g[k].commands)
               /\ Len(g[k].commands) <= MaxReliable
               /\ \A i \in 1 .. Len(g[k].commands) : g[k].commands[i].seq = (bb[k] + i) - 1
    <3>1. CASE k = n
      <4>1. bb[k + 1] = e /\ bb[k] = b[n] /\ g[k] = x
        BY <1>1, <1>7, <3>1
      <4> QED
        BY <4>1 DEF e, n
    <3>2. CASE k \in 1 .. Len(f)
      <4>1. g[k] = f[k] /\ bb[k + 1] = b[k + 1] /\ bb[k] = b[k]
        BY <1>1, <1>7, <3>2
      <4> QED
        BY <1>3, <3>2, <4>1
    <3> QED
      BY <1>1, <3>1, <3>2
  <2> QED
    BY <1>1, <1>3, <1>7, <2>1 DEF Starts
<1>10. Hands(hh, g)
  <2>1. ASSUME NEW k \in 1 .. n, NEW c \in Clients
        PROVE  hh[k + 1][c] = IF c \in g[k].matched
                              THEN hh[k][c] \o TextsFor(g[k].commands, c) ELSE hh[k][c]
    <3>1. CASE k = n
      <4>1. hh[k + 1] = next /\ hh[k] = h[n] /\ g[k] = x
        BY <1>1, <1>8, <3>1
      <4> QED
        BY <1>6, <4>1
    <3>2. CASE k \in 1 .. Len(f)
      <4>1. g[k] = f[k] /\ hh[k + 1] = h[k + 1] /\ hh[k] = h[k]
        BY <1>1, <1>8, <3>2
      <4> QED
        BY <1>4, <3>2, <4>1
    <3> QED
      BY <1>1, <3>1, <3>2
  <2> QED
    BY <1>1, <1>4, <1>8, <2>1 DEF Hands
<1> QED
  BY <1>7, <1>8, <1>9, <1>10 DEF n, m, g, e, next

(* The texts issued to a client before a place do not change. *)
LEMMA IssuedKept ==
  ASSUME ServerTypes, NEW x \in Issuable, issued' = Append(issued, x),
         NEW m \in Nat, NEW n \in Nat, m <= n, n <= Len(issued), NEW c
  PROVE  IssuedTo(c, m, n)' = IssuedTo(c, m, n)
<1>1. issued \in Seq(Issuable) /\ Len(issued) \in Nat
  BY DEF ServerTypes
<1>2. /\ issued' \in Seq(Issuable) /\ Len(issued') = Len(issued) + 1
      /\ \A i \in 1 .. Len(issued) : issued'[i] = issued[i]
  BY <1>1, AppendProperties
<1> DEFINE l == m + 1
           y == SubSeq(issued, l, n)
           z == SubSeq(issued', l, n)
<1>3. l \in Int /\ n \in Int /\ \A i \in l .. n : i \in 1 .. Len(issued) /\ i \in 1 .. Len(issued')
  BY <1>1, <1>2
<1>4. /\ \A i \in l .. n : issued[i] \in Issuable
      /\ \A i \in l .. n : issued'[i] \in Issuable /\ issued'[i] = issued[i]
  BY <1>1, <1>2, <1>3
<1> HIDE DEF l
<1>5. y = z
  <2>1. /\ y \in Seq(Issuable) /\ Len(y) = IF l <= n THEN n - l + 1 ELSE 0
        /\ \A i \in 1 .. n - l + 1 : y[i] = issued[l + i - 1]
    BY ONLY <1>3, <1>4, SubSeqProperties
  <2>2. /\ z \in Seq(Issuable) /\ Len(z) = IF l <= n THEN n - l + 1 ELSE 0
        /\ \A i \in 1 .. n - l + 1 : z[i] = issued'[l + i - 1]
    BY ONLY <1>3, <1>4, SubSeqProperties
  <2> HIDE DEF y, z
  <2>3. \A i \in 1 .. Len(y) : y[i] = z[i]
    <3>1. \A i \in 1 .. Len(y) : i \in 1 .. n - l + 1 /\ l + i - 1 \in l .. n
      BY <1>3, <2>1
    <3> QED
      BY <1>4, <2>1, <2>2, <3>1
  <2>4. Len(y) = Len(z)
    BY <2>1, <2>2
  <2> QED
    BY <2>1, <2>2, <2>3, <2>4
<1> HIDE DEF y, z
<1> QED
  BY <1>5 DEF IssuedTo, y, z, l

(* What was issued to a client before a place, and from there on. *)
LEMMA IssuedJoin ==
  ASSUME ServerTypes, NEW m \in Nat, NEW n \in Nat, m <= n, n <= Len(issued), NEW c
  PROVE  IssuedTo(c, 0, n) = IssuedTo(c, 0, m) \o IssuedTo(c, m, n)
<1> DEFINE z == 0
           x == SubSeq(issued, z + 1, m)
           y == SubSeq(issued, m + 1, n)
           w == SubSeq(issued, z + 1, n)
<1>1. z \in Nat /\ z <= m /\ z <= n /\ m <= Len(issued) /\ Len(issued) \in Nat
      /\ n - z = n /\ m - z = m
  BY DEF ServerTypes
<1>a. \A i \in Int : z + i = i
  OBVIOUS
<1> HIDE DEF z
<1>2. Len(x) = m /\ \A i \in 1 .. m : x[i] = issued[z + i]
  BY <1>1, IssuedPart
<1>3. Len(y) = n - m /\ \A i \in 1 .. n - m : y[i] = issued[m + i]
  BY <1>1, IssuedPart
<1>4. Len(w) = n /\ \A i \in 1 .. n : w[i] = issued[z + i]
  BY <1>1, IssuedPart
<1>5. Speaks(w, c)
  BY <1>1, IssuedSpeaks
<1> HIDE DEF x, y, w
<1>6. Joined(x, y, w, c)
  <2>1. Len(x) \in Nat /\ Len(y) \in Nat /\ Len(w) = Len(x) + Len(y)
    BY <1>2, <1>3, <1>4
  <2>2. \A i \in 1 .. Len(x) : x[i] = w[i]
    BY <1>2, <1>4
  <2>3. \A i \in 1 .. Len(y) : y[i] = w[Len(x) + i]
    <3>1. \A i \in 1 .. n - m : m + i \in 1 .. n /\ z + (m + i) = m + i
      BY <1>1, <1>a
    <3> QED
      <4>1. ASSUME NEW i \in 1 .. Len(y) PROVE y[i] = w[Len(x) + i]
        <5>1. i \in 1 .. n - m /\ m + i \in 1 .. n /\ z + (m + i) = m + i
          BY ONLY <1>3, <3>1, <4>1
        <5>2. y[i] = issued[m + i] /\ w[m + i] = issued[m + i]
          BY ONLY <1>3, <1>4, <5>1
        <5> QED
          BY ONLY <1>2, <5>2
      <4> QED
        BY <4>1
  <2> QED
    BY <2>1, <2>2, <2>3 DEF Joined, Same
<1>7. TextsFor(w, c) = TextsFor(x, c) \o TextsFor(y, c)
  BY <1>5, <1>6, TextsForJoin
<1> QED
  BY <1>7 DEF IssuedTo, x, y, w, z

(* Reading a frame hands its commands to those who have it. *)
LEMMA SplitEffect ==
  ASSUME SplitTypes, SplitFrame, NEW b, NEW h, At(b, h, file)
  PROVE  /\ splitRing' \in [Slots -> Entries]
         /\ splitSequence' \in Int /\ splitLastExecuted' = splitSequence' + 1
         /\ splitLastExecuted' = b[framesRead' + 1]
         /\ split' = h[framesRead' + 1]
         /\ framesRead' \in 0 .. Len(file)
<1> DEFINE k == framesRead + 1
           frame == file[k]
           n == Len(frame.commands)
           ring == Stored(splitRing, frame.commands)
           last == IF frame.commands = <<>> THEN splitSequence
                   ELSE Last(frame.commands).seq
           first == IF last - splitLastExecuted > MaxReliable
                    THEN last - MaxReliable + Fudge ELSE splitLastExecuted
           executed == [i \in 1 .. last + 1 - first |-> ring[Slot(first + i - 1)]]
<1>1. /\ framesRead < Len(file)
      /\ framesRead' = k /\ splitRing' = ring /\ splitSequence' = last
      /\ splitLastExecuted' = last + 1
      /\ split' = [c \in Clients |->
                     IF c \in frame.matched THEN split[c] \o TextsFor(executed, c)
                     ELSE split[c]]
  BY DEF SplitFrame
<1>2. /\ file \in Seq(Frames) /\ framesRead \in 0 .. Len(file) /\ Len(file) \in Nat
      /\ k \in 1 .. Len(file) /\ k \in Int
  <2>1. file \in Seq(Frames) /\ framesRead \in 0 .. Len(file) /\ framesRead < Len(file)
    BY <1>1 DEF SplitTypes
  <2>2. Len(file) \in Nat
    BY ONLY <2>1
  <2> QED
    BY ONLY <2>1, <2>2
<1>3. frame \in Frames /\ frame.commands \in Seq(Entries) /\ n \in Nat
      /\ frame.matched \in SUBSET Clients
  <2>1. frame \in Frames
    BY <1>2
  <2> HIDE DEF frame
  <2> QED
    BY <2>1 DEF Frames
<1>4. /\ b \in [1 .. Len(file) + 1 -> Nat]
      /\ b[k + 1] = b[k] + n /\ n <= MaxReliable
      /\ \A i \in 1 .. n : frame.commands[i].seq = (b[k] + i) - 1
  BY <1>2 DEF At, Starts
<1>5. /\ h \in [1 .. Len(file) + 1 -> [Clients -> Seq(Texts)]]
      /\ \A c \in Clients :
           h[k + 1][c] = IF c \in frame.matched
                         THEN h[k][c] \o TextsFor(frame.commands, c) ELSE h[k][c]
  BY <1>2 DEF At, Hands
<1>6. splitLastExecuted = b[k] /\ split = h[k]
  BY DEF At
<1>7. b[k] \in Nat /\ k + 1 \in 1 .. Len(file) + 1 /\ h[k + 1] \in [Clients -> Seq(Texts)]
  BY <1>2, <1>4, <1>5
<1>8. splitRing \in [Slots -> Entries] /\ splitSequence \in Int
      /\ splitLastExecuted = splitSequence + 1
  BY DEF SplitTypes
<1>9. ring \in [Slots -> Entries]
  <2> HIDE DEF frame, n
  <2> QED
    BY <1>3, <1>4, <1>7, <1>8, StoredType DEF n
<1>10. \A i \in 1 .. n : ring[Slot((b[k] + i) - 1)] = frame.commands[i]
  <2> HIDE DEF frame
  <2> QED
    BY <1>3, <1>4, <1>7, StoredFrame, ZenonT(30)
<1> HIDE DEF frame, ring, k
<1>11. last = (b[k] + n) - 1
  <2>1. CASE frame.commands = <<>>
    <3>1. n = 0
      BY <2>1
    <3> HIDE DEF n
    <3> QED
      BY <1>6, <1>7, <1>8, <2>1, <3>1
  <2>2. CASE frame.commands # <<>>
    <3>1. n \in 1 .. n /\ Last(frame.commands) = frame.commands[n]
      BY <1>3, <2>2 DEF Last
    <3> HIDE DEF n
    <3> QED
      BY <1>4, <2>2, <3>1
  <2> QED
    BY <2>1, <2>2
<1> HIDE DEF last, n
<1>12. first = b[k]
  <2>1. last - splitLastExecuted = n - 1 /\ ~ (n - 1 > MaxReliable)
    <3>1. n \in Nat /\ n <= MaxReliable /\ MaxReliable \in Nat
      BY <1>3, <1>4, CommandAssumption
    <3>2. ~ (n - 1 > MaxReliable)
      BY ONLY <3>1
    <3>3. last - splitLastExecuted = n - 1
      BY ONLY <1>6, <1>7, <1>11, <3>1
    <3> QED
      BY <3>2, <3>3
  <2> QED
    BY <1>6, <2>1
<1> HIDE DEF first
<1>13. executed = [i \in 1 .. n |-> frame.commands[i]]
  <2>1. last + 1 - first = n /\ \A i \in 1 .. n : first + i - 1 = (b[k] + i) - 1
    BY <1>3, <1>7, <1>11, <1>12
  <2> QED
    BY <1>10, <2>1
<1>14. executed = frame.commands
  <2>1. frame.commands = [i \in 1 .. n |-> frame.commands[i]]
    BY <1>3 DEF n
  <2> QED
    BY <1>13, <2>1
<1> HIDE DEF executed
<1>15. split' = h[k + 1]
  <2>1. split' = [c \in Clients |-> h[k + 1][c]]
    BY <1>1, <1>5, <1>6, <1>14
  <2> QED
    BY <1>7, <2>1
<1>16. splitLastExecuted' = b[k + 1] /\ splitSequence' \in Int
       /\ splitLastExecuted' = splitSequence' + 1
  BY <1>1, <1>3, <1>4, <1>7, <1>11
<1>17. framesRead' \in 0 .. Len(file)
  BY <1>1, <1>2
<1> QED
  BY <1>1, <1>9, <1>15, <1>16, <1>17

(* The splitter hands on a frame. *)
LEMMA SplitFrameStep ==
  ASSUME SplitInv, SplitFrame
  PROVE  SplitInv'
<1>1. PICK b, h : At(b, h, file)
  BY DEF SplitInv
<1>2. UNCHANGED <<issued, seen, matches, matchedClients, fresh, firstServerCommand,
                  serverCommandSequence, file>>
  BY DEF SplitFrame, serverVars, ringVars, frameVars
<1>3. /\ splitRing' \in [Slots -> Entries]
      /\ splitSequence' \in Int /\ splitLastExecuted' = splitSequence' + 1
      /\ splitLastExecuted' = b[framesRead' + 1]
      /\ split' = h[framesRead' + 1]
      /\ framesRead' \in 0 .. Len(file)
  BY <1>1, SplitEffect DEF SplitInv
<1>4. Merging' = Merging /\ NextStart' = NextStart
  BY <1>2 DEF Merging, NextStart
<1>5. \A c \in Clients : IssuedTo(c, 0, seen[c])' = IssuedTo(c, 0, seen[c])
  BY <1>2 DEF IssuedTo
<1>6. At(b, h, file)'
  BY <1>1, <1>2, <1>3, <1>4, <1>5 DEF At
<1>7. SplitTypes'
  BY <1>2, <1>3 DEF SplitInv, SplitTypes
<1> QED
  BY <1>2, <1>4, <1>6, <1>7 DEF SplitInv

(* Nothing happens while commands are merged. *)
LEMMA SplitKept ==
  ASSUME SplitInv, Merging' = Merging, NextStart' = NextStart,
         UNCHANGED <<issued, seen, matchedClients, fresh, file, splitVars>>
  PROVE  SplitInv'
<1>1. PICK b, h : At(b, h, file)
  BY DEF SplitInv
<1>2. UNCHANGED <<framesRead, splitRing, splitSequence, splitLastExecuted, split>>
  BY DEF splitVars
<1>3. \A c \in Clients : IssuedTo(c, 0, seen[c])' = IssuedTo(c, 0, seen[c])
  BY DEF IssuedTo
<1>4. At(b, h, file)'
  BY <1>1, <1>2, <1>3 DEF At
<1>5. SplitTypes'
  BY <1>2 DEF SplitInv, SplitTypes
<1> QED
  BY <1>4, <1>5 DEF SplitInv

(* The server issues a command: the splitter is not concerned. *)
LEMMA SplitIssueStep ==
  ASSUME CombinerInv, SplitInv, NEW text \in Texts, NEW to \in Recipients,
         Issue(text, to)
  PROVE  SplitInv'
<1>1. PICK b, h : At(b, h, file)
  BY DEF SplitInv
<1>2. /\ issued' = Append(issued, [text |-> text, mask |-> to])
      /\ UNCHANGED <<seen, matches, matchedClients, fresh, firstServerCommand,
                     serverCommandSequence, file>>
      /\ UNCHANGED <<framesRead, splitRing, splitSequence, splitLastExecuted, split>>
  BY DEF Issue, ringVars, frameVars, splitVars
<1>3. [text |-> text, mask |-> to] \in Issuable
  BY DEF Issuable
<1>4. Merging' = Merging /\ NextStart' = NextStart
  BY <1>2 DEF Merging, NextStart
<1>5. ASSUME NEW c \in Clients
      PROVE  IssuedTo(c, 0, seen[c])' = IssuedTo(c, 0, seen[c])
  <2> DEFINE n == seen[c]
             z == 0
             x == [text |-> text, mask |-> to]
  <2>1. z \in Nat /\ n \in Nat /\ z <= n /\ n <= Len(issued) /\ seen' = seen /\ ServerTypes
    BY <1>2 DEF CombinerInv, ServerTypes
  <2>2. PICK m : m = n
    OBVIOUS
  <2> HIDE DEF z, n, x
  <2>3. x \in Issuable /\ issued' = Append(issued, x)
    BY <1>2, <1>3 DEF x
  <2>4. IssuedTo(c, z, m)' = IssuedTo(c, z, m)
    BY <2>1, <2>2, <2>3, IssuedKept
  <2> QED
    BY <2>1, <2>2, <2>4 DEF n, z, IssuedTo
<1>6. At(b, h, file)'
  BY <1>1, <1>2, <1>4, <1>5 DEF At
<1>7. SplitTypes'
  BY <1>2 DEF SplitInv, SplitTypes
<1> QED
  BY <1>2, <1>4, <1>6, <1>7 DEF SplitInv

(* Nor by the start of a frame. *)
LEMMA SplitStartStep ==
  ASSUME CombinerInv, SplitInv, NEW matched \in (SUBSET Clients) \ {{}},
         StartFrame(matched), CombinerInv'
  PROVE  SplitInv'
<1>1. PICK b, h : At(b, h, file)
  BY DEF SplitInv
<1>2. /\ ~ Merging /\ matchedClients' = matched
      /\ fresh' = [c \in Clients |-> IF c \in matched THEN Pending(c) ELSE <<>>]
      /\ seen' = [c \in Clients |->
                IF c \in matched THEN Len(issued) ELSE seen[c]]
      /\ firstServerCommand' = lastExecutedServerCommand
      /\ UNCHANGED <<issued, file, serverCommandSequence>>
      /\ UNCHANGED <<framesRead, splitRing, splitSequence, splitLastExecuted, split>>
  BY DEF StartFrame, ringVars, splitVars
<1>3. NextStart' = NextStart
  <2>1. lastExecutedServerCommand = serverCommandSequence + 1
    BY DEF CombinerInv, RingTypes
  <2> QED
    BY <1>2, <2>1 DEF NextStart
<1>4. ServerTypes /\ Hands(h, file) /\ file \in Seq(Frames)
  BY <1>1 DEF CombinerInv, SplitInv, SplitTypes, At
<1>5. Len(file) + 1 \in 1 .. Len(file) + 1
  BY <1>4
<1>6. ASSUME NEW c \in Clients
      PROVE  IssuedTo(c, 0, seen[c])' = h[Len(file) + 1][c] \o fresh'[c]
  <2> DEFINE r == h[Len(file) + 1][c]
  <2>1. r \in Seq(Texts)
    BY <1>4, <1>5 DEF Hands
  <2>2. fresh[c] = <<>> /\ IssuedTo(c, 0, seen[c]) = r \o fresh[c]
    BY <1>1, <1>2 DEF SplitInv, At
  <2> HIDE DEF r
  <2>3. IssuedTo(c, 0, seen[c]) = r
    BY <2>1, <2>2
  <2>4. CASE c \in matched
    <3> DEFINE m == seen[c]
               n == Len(issued)
    <3>1. m \in Nat /\ n \in Nat /\ m <= n /\ n <= Len(issued)
      BY <1>4 DEF ServerTypes
    <3> HIDE DEF m, n
    <3>2. IssuedTo(c, 0, n) = IssuedTo(c, 0, m) \o IssuedTo(c, m, n)
      BY <1>4, <3>1, IssuedJoin
    <3>3. fresh'[c] = IssuedTo(c, m, n) /\ seen'[c] = n
      BY <1>2, <2>4 DEF Pending, m, n
    <3>4. IssuedTo(c, 0, seen[c])' = IssuedTo(c, 0, n)
      BY <1>2, <3>3 DEF IssuedTo
    <3> QED
      BY <2>3, <3>2, <3>3, <3>4 DEF m, r
  <2>5. CASE c \notin matched
    <3>1. fresh'[c] = <<>> /\ seen'[c] = seen[c]
      BY <1>2, <2>5
    <3>2. IssuedTo(c, 0, seen[c])' = IssuedTo(c, 0, seen[c])
      BY <1>2, <3>1 DEF IssuedTo
    <3> QED
      BY <2>2, <3>1, <3>2 DEF r
  <2> QED
    BY <2>4, <2>5
<1>7. At(b, h, file)'
  BY <1>1, <1>2, <1>3, <1>6 DEF At
<1>8. SplitTypes'
  BY <1>2 DEF SplitInv, SplitTypes
<1>9. matches' # <<>>
  <2>1. PICK c \in matched : TRUE
    <3>1. matched # {}
      OBVIOUS
    <3> QED
      BY <3>1
  <2>2. matches' \in Orders(matched)
    BY DEF StartFrame
  <2>3. Range(matches') = matched
    BY <2>2, OrderType
  <2>4. PICK i \in DOMAIN matches' : matches'[i] = c
    BY <2>1, <2>3 DEF Range
  <2> QED
    BY <2>4
<1>10. \A c \in Clients : ~ Merging' \/ c \notin matchedClients' => fresh'[c] = <<>>
  BY <1>2, <1>9 DEF Merging
<1> QED
  BY <1>7, <1>8, <1>10 DEF SplitInv

(* When the frame is written, each of its demos has all that was new for *)
(* it. *)
LEMMA AllMerged ==
  ASSUME CombinerInv, WriteFrame, NEW c \in matchedClients
  PROVE  TextsFor(FrameCommands, c) = fresh[c]
<1>1. Len(matches) = 1 /\ ~ MoreCommands
  BY DEF WriteFrame
<1>2. Merging
  <2>1. matches # <<>>
    BY <1>1
  <2> QED
    BY <2>1 DEF Merging
<1>3. Handed(c) = SubSeq(fresh[c], 1, MergedOf(commandNum, c))
  BY <1>2, MergedIsOf DEF CombinerInv, MergedInOrder
<1>4. MergedOf(commandNum, c) = Len(fresh[c])
  <2>1. Range(Tail(matches)) = {}
    <3>1. DOMAIN Tail(matches) = 1 .. Len(matches) - 1
      BY <1>2, MergingFacts
    <3>2. DOMAIN Tail(matches) = {}
      BY <1>1, <3>1
    <3> QED
      BY <3>2 DEF Range
  <2>2. commandNum = Len(fresh[Client])
    BY <1>1, <1>2, MergingCounts DEF MoreCommands, CombinerInv, Turns, FrameTypes
  <2> QED
    BY <2>1, <2>2 DEF MergedOf
<1>5. fresh[c] \in Seq(Texts)
  BY DEF CombinerInv, FrameTypes
<1>6. SubSeq(fresh[c], 1, Len(fresh[c])) = fresh[c]
  BY <1>5, SubSeqFull
<1> QED
  BY <1>3, <1>4, <1>6 DEF Handed

(* A frame is written: the history has one more point. *)
LEMMA SplitWriteStep ==
  ASSUME CombinerInv, FrameFits, SplitInv, WriteFrame
  PROVE  SplitInv'
<1> DEFINE x == [matched |-> matchedClients, commands |-> FrameCommands]
           n == Len(file) + 1
<1>1. PICK b, h : At(b, h, file)
  BY DEF SplitInv
<1>2. /\ matches' = <<>> /\ file' = Append(file, x)
      /\ fresh' = [c \in Clients |-> <<>>]
      /\ UNCHANGED <<issued, seen, firstServerCommand, serverCommandSequence>>
      /\ UNCHANGED <<framesRead, splitRing, splitSequence, splitLastExecuted, split>>
  BY DEF WriteFrame, serverVars, ringVars, splitVars
<1>3. Merging /\ ~ Merging'
  <2>1. matches # <<>>
    BY DEF WriteFrame
  <2> QED
    BY <1>2, <2>1 DEF Merging
<1>4. /\ firstServerCommand \in Nat /\ serverCommandSequence \in Int
      /\ firstServerCommand <= serverCommandSequence + 1
      /\ (serverCommandSequence + 1) - firstServerCommand <= MaxReliable
      /\ matchedClients \in SUBSET Clients
  BY <1>3, FrameSize DEF CombinerInv, FrameTypes, RingTypes
<1>5. /\ FrameCommands \in Seq(Entries)
      /\ Len(FrameCommands) = (serverCommandSequence + 1) - firstServerCommand
      /\ \A i \in 1 .. Len(FrameCommands) :
              FrameCommands[i].seq = (firstServerCommand + i) - 1
  BY <1>4, FrameType
<1>6. x \in Frames /\ x.commands = FrameCommands /\ x.matched = matchedClients
  BY <1>4, <1>5 DEF Frames
<1>7. file \in Seq(Frames) /\ Len(file) \in Nat /\ framesRead \in 0 .. Len(file)
      /\ n \in 1 .. n
  BY DEF SplitInv, SplitTypes
<1>8. /\ Starts(b, file) /\ Hands(h, file) /\ b[n] = firstServerCommand
      /\ splitLastExecuted = b[framesRead + 1] /\ split = h[framesRead + 1]
      /\ \A c \in Clients : IssuedTo(c, 0, seen[c]) = h[n][c] \o fresh[c]
  BY <1>1, <1>3 DEF At, NextStart
<1>9. \A i \in 1 .. Len(x.commands) : x.commands[i].seq = (b[n] + i) - 1
  BY <1>5, <1>6, <1>8
<1>10. Len(x.commands) <= MaxReliable
  BY <1>4, <1>5, <1>6
<1> HIDE DEF x
<1>11. PICK bb, hh :
           /\ Starts(bb, Append(file, x)) /\ Hands(hh, Append(file, x))
           /\ \A k \in 1 .. Len(file) + 1 : bb[k] = b[k] /\ hh[k] = h[k]
           /\ bb[Len(file) + 2] = b[Len(file) + 1] + Len(x.commands)
           /\ hh[Len(file) + 2] = NextHands(h[Len(file) + 1], x)
  BY <1>6, <1>7, <1>8, <1>9, <1>10, HistoryExtends, SMTT(30)
<1>12. Len(file') + 1 = Len(file) + 2 /\ framesRead + 1 \in 1 .. Len(file) + 1
       /\ file' \in Seq(Frames) /\ Len(file') = Len(file) + 1
  BY <1>2, <1>6, <1>7
<1>13. bb[Len(file') + 1] = NextStart'
  <2>1. b[n] + Len(x.commands) = serverCommandSequence + 1
    BY <1>4, <1>5, <1>6, <1>8
  <2> QED
    BY <1>2, <1>3, <1>11, <1>12, <2>1 DEF NextStart
<1>14. ASSUME NEW c \in Clients
       PROVE  IssuedTo(c, 0, seen[c])' = hh[Len(file') + 1][c] \o fresh'[c]
  <2>1. h[n][c] \in Seq(Texts)
    BY <1>7, <1>8 DEF Hands
  <2>2. hh[Len(file') + 1][c] = IF c \in matchedClients
                              THEN h[n][c] \o TextsFor(FrameCommands, c) ELSE h[n][c]
    <3>1. hh[Len(file') + 1] = NextHands(h[n], x)
      BY <1>11, <1>12
    <3> HIDE DEF n
    <3> QED
      BY <1>6, <3>1 DEF NextHands
  <2>3. c \in matchedClients => TextsFor(FrameCommands, c) = fresh[c]
    BY AllMerged
  <2>4. c \notin matchedClients => fresh[c] = <<>>
    BY DEF SplitInv
  <2>5. fresh[c] \in Seq(Texts)
    BY DEF CombinerInv, FrameTypes
  <2> HIDE DEF n
  <2>6. hh[Len(file') + 1][c] = h[n][c] \o fresh[c]
    <3>1. h[n][c] \o <<>> = h[n][c]
      BY <2>1
    <3> QED
      BY <2>2, <2>3, <2>4, <3>1
  <2>7. hh[Len(file') + 1][c] \in Seq(Texts)
    BY <2>1, <2>5, <2>6
  <2>8. fresh'[c] = <<>> /\ hh[Len(file') + 1][c] \o <<>> = hh[Len(file') + 1][c]
    BY <1>2, <2>7
  <2>9. IssuedTo(c, 0, seen[c])' = IssuedTo(c, 0, seen[c])
    BY <1>2 DEF IssuedTo
  <2> QED
    BY <1>8, <2>6, <2>8, <2>9
<1>15. At(bb, hh, file)'
  BY <1>2, <1>8, <1>11, <1>12, <1>13, <1>14 DEF At
<1>16. SplitTypes'
  <2>1. framesRead \in 0 .. Len(file')
    BY <1>7, <1>12
  <2> QED
    BY <1>2, <1>12, <2>1 DEF SplitInv, SplitTypes
<1>17. \A c \in Clients : fresh'[c] = <<>>
  BY <1>2
<1> QED
  BY <1>15, <1>16, <1>17 DEF SplitInv

(* The history at the start. *)
LEMMA SplitStarts == Init => SplitInv
<1> SUFFICES ASSUME Init PROVE SplitInv
  OBVIOUS
<1>1. /\ issued = <<>> /\ seen = [c \in Clients |-> 0] /\ matches = <<>>
      /\ fresh = [c \in Clients |-> <<>>] /\ file = <<>> /\ framesRead = 0
      /\ splitRing = [s \in Slots |-> [seq |-> 0, text |-> NoText, mask |-> {}]]
      /\ splitSequence = -1 /\ splitLastExecuted = 0
      /\ split = [c \in Clients |-> <<>>] /\ serverCommandSequence = -1
  BY DEF Init
<1>2. SplitTypes
  <2>1. [seq |-> 0, text |-> NoText, mask |-> {}] \in Entries
    BY DEF Entries
  <2>2. splitRing \in [Slots -> Entries]
    BY <1>1, <2>1
  <2>3. file \in Seq(Frames) /\ Len(file) = 0
    BY <1>1
  <2>4. framesRead \in 0 .. Len(file)
    BY <1>1, <2>3
  <2>5. splitSequence \in Int /\ splitLastExecuted = splitSequence + 1
    BY <1>1
  <2> QED
    BY <2>2, <2>3, <2>4, <2>5 DEF SplitTypes
<1> DEFINE b == [k \in 1 .. 1 |-> 0]
           h == [k \in 1 .. 1 |-> [c \in Clients |-> <<>>]]
<1>3. Len(file) = 0 /\ Len(file) + 1 = 1 /\ framesRead + 1 = 1
  BY <1>1
<1>4. Starts(b, file)
  BY <1>3 DEF Starts
<1>5. Hands(h, file)
  <2>1. [c \in Clients |-> <<>>] \in [Clients -> Seq(Texts)]
    OBVIOUS
  <2>2. h[1] = [c \in Clients |-> <<>>] /\ h \in [1 .. 1 -> [Clients -> Seq(Texts)]]
    BY <2>1
  <2> QED
    BY <1>3, <2>2 DEF Hands
<1>6. NextStart = 0
  BY <1>1 DEF NextStart, Merging
<1>7. ASSUME NEW c \in Clients
      PROVE  IssuedTo(c, 0, seen[c]) = h[Len(file) + 1][c] \o fresh[c]
  <2>1. SubSeq(issued, 0 + 1, 0) = <<>>
    BY SubSeqEmpty
  <2>2. Len(SubSeq(issued, 0 + 1, 0)) = 0
    BY <2>1
  <2> DEFINE list == SubSeq(issued, 0 + 1, 0)
  <2> HIDE DEF list
  <2>3. TextsFor(list, c) = <<>>
    BY <2>2, TextsForEmpty DEF list
  <2>4. IssuedTo(c, 0, seen[c]) = <<>>
    BY <1>1, <2>3 DEF IssuedTo, list
  <2>5. h[Len(file) + 1][c] = <<>> /\ fresh[c] = <<>>
    BY <1>1, <1>3
  <2> HIDE DEF h
  <2> QED
    BY <2>4, <2>5
<1>8. At(b, h, file)
  BY <1>1, <1>3, <1>4, <1>5, <1>6, <1>7 DEF At
<1>9. \A c \in Clients : fresh[c] = <<>>
  BY <1>1
<1> HIDE DEF b, h
<1> QED
  BY <1>2, <1>8, <1>9 DEF SplitInv

(* Every step keeps it. *)
LEMMA SplitSteps ==
  ASSUME CombinerInv, CombinerInv', FrameFits, SplitInv, [Next]_vars
  PROVE  SplitInv'
<1>1. ASSUME NEW text \in Texts, NEW to \in Recipients, Issue(text, to)
      PROVE  SplitInv'
  BY <1>1, SplitIssueStep
<1>2. ASSUME NEW matched \in (SUBSET Clients) \ {{}}, StartFrame(matched)
      PROVE  SplitInv'
  BY <1>2, SplitStartStep
<1>3. CASE Share \/ Insert
  <2>1. MoreCommands /\ Merging
    BY <1>3 DEF Share, Insert, InsertWith, MoreCommands
  <2>2. /\ UNCHANGED <<issued, seen, matches, matchedClients, fresh, file, splitVars>>
        /\ firstServerCommand' = firstServerCommand
    <3>1. \E k : PlacedAt(k)
      BY <1>3 DEF Share, Insert, InsertWith
    <3> QED
      BY <3>1 DEF PlacedAt, serverVars
  <2>3. Merging' = Merging /\ NextStart' = NextStart
    BY <2>1, <2>2 DEF Merging, NextStart
  <2> QED
    BY <2>2, <2>3, SplitKept
<1>4. CASE NextMatch
  <2>1. /\ matches' = Tail(matches) /\ Len(matches) > 1
        /\ UNCHANGED <<issued, seen, matchedClients, fresh, file, splitVars>>
        /\ firstServerCommand' = firstServerCommand
    BY <1>4 DEF NextMatch, serverVars
  <2>2. matches \in Seq(matchedClients)
    BY DEF CombinerInv, FrameTypes
  <2>3. matches # <<>> /\ Tail(matches) # <<>>
    <3>1. matches # <<>>
      BY <2>1
    <3>2. Len(Tail(matches)) = Len(matches) - 1
      BY <2>2, <3>1
    <3>3. Len(matches) \in Nat
      BY <2>2
    <3>4. Len(<<>>) = 0
      OBVIOUS
    <3>5. Len(Tail(matches)) # 0
      BY <2>1, <3>2, <3>3
    <3> QED
      BY <3>1, <3>4, <3>5
  <2>4. Merging' = Merging /\ NextStart' = NextStart
    BY <2>1, <2>3 DEF Merging, NextStart
  <2> QED
    BY <2>1, <2>4, SplitKept
<1>5. CASE WriteFrame
  BY <1>5, SplitWriteStep
<1>6. CASE SplitFrame
  BY <1>6, SplitFrameStep
<1>7. CASE UNCHANGED vars
  <2>1. /\ UNCHANGED <<issued, seen, matches, matchedClients, fresh, file, splitVars>>
        /\ UNCHANGED <<firstServerCommand, serverCommandSequence>>
    BY <1>7 DEF vars, serverVars, ringVars, frameVars
  <2>2. Merging' = Merging /\ NextStart' = NextStart
    BY <2>1 DEF Merging, NextStart
  <2> QED
    BY <2>1, <2>2, SplitKept
<1> QED
  BY <1>1, <1>2, <1>3, <1>4, <1>5, <1>6, <1>7 DEF Next, Combine

(* TypeOK: the rings of the combiner and of the splitter hold commands of  *)
(* the server and sets of clients, and the sequence numbers that the two   *)
(* programs keep fit together.                                             *)
THEOREM TypesAlways == FrameFits => (Spec => []TypeOK)
<1> SUFFICES ASSUME FrameFits PROVE Spec => []TypeOK
  OBVIOUS
<1>1. Init => CombinerInv /\ SplitInv
  BY CombinerStarts, SplitStarts
<1>2. CombinerInv /\ SplitInv /\ [Next]_vars => CombinerInv' /\ SplitInv'
  BY CombinerSteps, SplitSteps
<1>3. ASSUME CombinerInv, SplitInv PROVE TypeOK
  <2>1. PICK b, h : At(b, h, file)
    BY <1>3 DEF SplitInv
  <2>2. framesRead + 1 \in 1 .. Len(file) + 1
    BY <1>3 DEF SplitInv, SplitTypes
  <2>3. split \in [Clients -> Seq(Texts)]
    BY <2>1, <2>2 DEF At, Hands
  <2>4. \A i \in DOMAIN matches : matches[i] \in matchedClients
    BY <1>3 DEF CombinerInv, FrameTypes
  <2>5. \A c \in Clients : serverCommandSyncIdx[c] \in 0 .. serverCommandSequence + 1
    BY <1>3 DEF CombinerInv, RingTypes
  <2>6. \A c \in Clients : fresh[c] \in TextLists /\ split[c] \in TextLists
    BY <1>3, <2>3 DEF CombinerInv, FrameTypes, TextLists
  <2> QED
    BY <1>3, <2>4, <2>5, <2>6
       DEF TypeOK, CombinerInv, RingTypes, FrameTypes, SplitInv, SplitTypes
<1> QED
  BY <1>1, <1>2, <1>3, PTL DEF Spec

(* MergedInOrder: whatever the demos merged later share, insert or move,   *)
(* every demo merged so far finds exactly its own commands behind its bit, *)
(* in its own order.                                                       *)
THEOREM MergedInOrderAlways == FrameFits => (Spec => []MergedInOrder)
<1> SUFFICES ASSUME FrameFits PROVE Spec => []MergedInOrder
  OBVIOUS
<1>1. CombinerInv => MergedInOrder
  BY DEF CombinerInv
<1> QED
  BY <1>1, CombinerAlways, PTL

-----------------------------------------------------------------------------
(* The relay. *)

(* One sequence is a prefix of another. *)
Begins(s, t) == \E u \in Seq(Texts) : t = s \o u

(* The beginning of a beginning is one. *)
LEMMA BeginsTransitive ==
  ASSUME NEW r \in Seq(Texts), NEW s, NEW t, Begins(r, s), Begins(s, t)
  PROVE  Begins(r, t)
<1>1. PICK u \in Seq(Texts) : s = r \o u
  BY DEF Begins
<1>2. PICK v \in Seq(Texts) : t = s \o v
  BY DEF Begins
<1>3. u \o v \in Seq(Texts) /\ (r \o u) \o v = r \o (u \o v)
  OBVIOUS
<1>4. t = r \o (u \o v)
  BY <1>1, <1>2, <1>3
<1> QED
  BY <1>3, <1>4 DEF Begins

(* A sequence is its own beginning. *)
LEMMA BeginsSelf == ASSUME NEW s \in Seq(Texts) PROVE Begins(s, s)
<1>1. <<>> \in Seq(Texts) /\ s = s \o <<>>
  OBVIOUS
<1> QED
  BY <1>1 DEF Begins

(* What a beginning is. *)
LEMMA BeginsPart ==
  ASSUME NEW s \in Seq(Texts), NEW t, Begins(s, t)
  PROVE  /\ t \in Seq(Texts) /\ Len(s) \in Nat /\ Len(t) \in Nat
         /\ Len(s) <= Len(t) /\ SubSeq(t, 1, Len(s)) = s
<1>1. PICK u \in Seq(Texts) : t = s \o u
  BY DEF Begins
<1>2. t \in Seq(Texts) /\ Len(t) = Len(s) + Len(u) /\ Len(s) \in Nat /\ Len(u) \in Nat
      /\ \A i \in 1 .. Len(s) : t[i] = s[i]
  BY <1>1
<1>3. Len(s) <= Len(t) /\ Len(t) \in Nat
  BY <1>2
<1> DEFINE n == Len(s)
           r == SubSeq(t, 1, n)
<1>4. r \in Seq(Texts) /\ Len(r) = n /\ \A i \in 1 .. n : r[i] = t[i]
  BY <1>2, <1>3
<1> HIDE DEF r
<1>5. r = s
  <2>1. \A i \in 1 .. Len(r) : r[i] = s[i]
    BY <1>2, <1>4
  <2> QED
    BY <1>4, <2>1
<1> QED
  BY <1>2, <1>3, <1>5 DEF r

(* What a client was handed is never taken back. *)
LEMMA HandsGrow ==
  ASSUME NEW f, Len(f) \in Nat, NEW h, Hands(h, f), NEW c \in Clients,
         \A k \in 1 .. Len(f) : f[k].commands \in Seq(Entries),
         NEW i \in 1 .. Len(f) + 1, NEW j \in 1 .. Len(f) + 1, i <= j
  PROVE  Begins(h[i][c], h[j][c])
<1> DEFINE T == {k \in i .. j : ~ Begins(h[i][c], h[k][c])}
<1>1. SUFFICES ASSUME T # {} PROVE FALSE
  <2>1. j \in i .. j
    OBVIOUS
  <2> QED
    BY <2>1
<1>2. PICK k \in T : \A m \in T : k <= m
  <2>1. T \in SUBSET Nat
    OBVIOUS
  <2> HIDE DEF T
  <2> QED
    BY <1>1, <2>1, Least
<1>3. k \in i .. j /\ k \in 1 .. Len(f) + 1 /\ ~ Begins(h[i][c], h[k][c])
  BY <1>2
<1>4. \A m \in 1 .. Len(f) + 1 : h[m][c] \in Seq(Texts)
  BY DEF Hands
<1>5. k # i
  BY <1>3, <1>4, BeginsSelf
<1> DEFINE p == k - 1
<1>6. p \in i .. j /\ p \in 1 .. Len(f) /\ p \in 1 .. Len(f) + 1 /\ p + 1 = k /\ p \notin T
  BY <1>2, <1>3, <1>5
<1>7. Begins(h[i][c], h[p][c])
  BY <1>6
<1> HIDE DEF T, p
<1>8. h[k][c] = IF c \in f[p].matched THEN h[p][c] \o TextsFor(f[p].commands, c)
                ELSE h[p][c]
  BY <1>6 DEF Hands
<1>9. TextsFor(f[p].commands, c) \in Seq(Texts)
  BY <1>6, EntriesTexts
<1>10. Begins(h[p][c], h[k][c])
  <2>1. CASE c \in f[p].matched
    BY <1>8, <1>9, <2>1 DEF Begins
  <2>2. CASE c \notin f[p].matched
    BY <1>4, <1>6, <1>8, <2>2, BeginsSelf
  <2> QED
    BY <2>1, <2>2
<1>11. Begins(h[i][c], h[k][c])
  BY <1>4, <1>7, <1>10, BeginsTransitive
<1> QED
  BY <1>3, <1>11

Held(c) == IssuedTo(c, 0, seen[c])

(* What a client's demo holds are texts. *)
LEMMA HeldType ==
  ASSUME CombinerInv, NEW c \in Clients
  PROVE  Held(c) \in Seq(Texts)
<1> DEFINE z == 0
<1>1. z \in Nat /\ seen[c] \in Nat /\ z <= seen[c] /\ seen[c] <= Len(issued) /\ ServerTypes
  BY DEF CombinerInv, ServerTypes
<1> HIDE DEF z
<1>2. IssuedTo(c, z, seen[c]) \in Seq(Texts)
  BY <1>1, IssuedType
<1> QED
  BY <1>2 DEF Held, z

(* A client has been handed the first of the commands its demo held. *)
LEMMA HandedBegins ==
  ASSUME CombinerInv, SplitInv, NEW c \in Clients
  PROVE  split[c] \in Seq(Texts) /\ Begins(split[c], Held(c))
<1>1. PICK b, h : At(b, h, file)
  BY DEF SplitInv
<1>2. /\ Hands(h, file) /\ split = h[framesRead + 1]
      /\ Held(c) = h[Len(file) + 1][c] \o fresh[c]
  BY <1>1 DEF At, Held
<1>3. /\ file \in Seq(Frames) /\ Len(file) \in Nat
      /\ framesRead + 1 \in 1 .. Len(file) + 1 /\ Len(file) + 1 \in 1 .. Len(file) + 1
      /\ framesRead + 1 <= Len(file) + 1
      /\ \A k \in 1 .. Len(file) : file[k] \in Frames
  BY DEF SplitInv, SplitTypes
<1>4. \A k \in 1 .. Len(file) : file[k].commands \in Seq(Entries)
  BY <1>3 DEF Frames
<1>5. Begins(h[framesRead + 1][c], h[Len(file) + 1][c])
  BY <1>2, <1>3, <1>4, HandsGrow
<1>6. h[framesRead + 1][c] \in Seq(Texts) /\ fresh[c] \in Seq(Texts)
  BY <1>2, <1>3 DEF Hands, CombinerInv, FrameTypes
<1>7. Begins(h[Len(file) + 1][c], Held(c))
  BY <1>2, <1>6 DEF Begins
<1>8. Begins(h[framesRead + 1][c], Held(c))
  BY <1>5, <1>6, <1>7, BeginsTransitive
<1> QED
  BY <1>2, <1>6, <1>8

(* "write bitmask of who should get this command" (the merged writer): a   *)
(* client is handed commands of its demo and no others, none left out and  *)
(* in the same order.                                                      *)
THEOREM SplitExactAlways == FrameFits => (Spec => []SplitExact)
<1> SUFFICES ASSUME FrameFits PROVE Spec => []SplitExact
  OBVIOUS
<1>1. Init => CombinerInv /\ SplitInv
  BY CombinerStarts, SplitStarts
<1>2. CombinerInv /\ SplitInv /\ [Next]_vars => CombinerInv' /\ SplitInv'
  BY CombinerSteps, SplitSteps
<1>3. ASSUME CombinerInv, SplitInv PROVE SplitExact
  <2>1. ASSUME NEW c \in Clients PROVE IsPrefix(split[c], Held(c))
    <3>1. split[c] \in Seq(Texts) /\ Begins(split[c], Held(c))
      BY <1>3, HandedBegins
    <3>2. /\ Len(split[c]) <= Len(Held(c))
          /\ SubSeq(Held(c), 1, Len(split[c])) = split[c]
      BY <3>1, BeginsPart
    <3>3. SubSeq(split[c], 1, Len(split[c])) = split[c]
      BY <3>1, SubSeqFull
    <3> QED
      BY <3>2, <3>3 DEF IsPrefix
  <2> QED
    BY <2>1 DEF SplitExact, Held
<1> QED
  BY <1>1, <1>2, <1>3, PTL DEF Spec

(* Only the start of a frame tells what the demos hold. *)
LEMMA HeldKept ==
  ASSUME CombinerInv, NEW text \in Texts, NEW to \in Recipients, Issue(text, to),
         NEW c \in Clients
  PROVE  Held(c)' = Held(c)
<1> DEFINE n == seen[c]
           z == 0
           x == [text |-> text, mask |-> to]
<1>1. z \in Nat /\ n \in Nat /\ z <= n /\ n <= Len(issued) /\ seen' = seen /\ ServerTypes
  BY DEF CombinerInv, ServerTypes, Issue
<1>2. PICK m : m = n
  OBVIOUS
<1>3. x \in Issuable /\ issued' = Append(issued, x)
  BY DEF Issuable, Issue
<1> HIDE DEF z, n, x
<1>4. IssuedTo(c, z, m)' = IssuedTo(c, z, m)
  BY <1>1, <1>2, <1>3, IssuedKept
<1> QED
  BY <1>1, <1>2, <1>4 DEF n, z, IssuedTo, Held

(* A demo only grows. *)
LEMMA HeldGrows ==
  ASSUME CombinerInv, NEW matched \in (SUBSET Clients) \ {{}}, StartFrame(matched),
         NEW c \in Clients
  PROVE  Begins(Held(c), Held(c)')
<1>1. /\ seen' = [k \in Clients |-> IF k \in matched THEN Len(issued) ELSE seen[k]]
      /\ issued' = issued
  BY DEF StartFrame
<1> DEFINE m == seen[c]
           n == Len(issued)
<1>2. m \in Nat /\ n \in Nat /\ m <= n /\ n <= Len(issued) /\ ServerTypes
  BY DEF CombinerInv, ServerTypes
<1>3. Held(c) \in Seq(Texts)
  BY HeldType
<1>4. CASE c \in matched
  <2>1. Held(c)' = IssuedTo(c, 0, n)
    BY <1>1, <1>4 DEF Held, IssuedTo
  <2>2. Held(c) = IssuedTo(c, 0, m)
    BY DEF Held
  <2> HIDE DEF m, n
  <2>3. IssuedTo(c, 0, n) = IssuedTo(c, 0, m) \o IssuedTo(c, m, n)
    BY <1>2, IssuedJoin
  <2>4. IssuedTo(c, m, n) \in Seq(Texts)
    BY <1>2, IssuedType
  <2> QED
    BY <2>1, <2>2, <2>3, <2>4 DEF Begins
<1>5. CASE c \notin matched
  <2>1. Held(c)' = Held(c)
    BY <1>1, <1>5 DEF Held, IssuedTo
  <2> QED
    BY <1>3, <2>1, BeginsSelf
<1> QED
  BY <1>4, <1>5

(* Reading a frame hands on more of what the demos held. *)
LEMMA HandStep ==
  ASSUME CombinerInv, SplitInv, SplitFrame
  PROVE  /\ split \in [Clients -> Seq(Texts)] /\ split' \in [Clients -> Seq(Texts)]
         /\ \A c \in Clients : Begins(split[c], split'[c]) /\ Begins(split'[c], Held(c))
<1>1. PICK b, h : At(b, h, file)
  BY DEF SplitInv
<1>2. /\ split' = h[framesRead' + 1] /\ framesRead' \in 0 .. Len(file)
  BY <1>1, SplitEffect DEF SplitInv
<1>3. framesRead' = framesRead + 1
  BY DEF SplitFrame
<1>4. /\ Hands(h, file) /\ split = h[framesRead + 1]
      /\ \A c \in Clients : Held(c) = h[Len(file) + 1][c] \o fresh[c]
  BY <1>1 DEF At, Held
<1>5. /\ file \in Seq(Frames) /\ Len(file) \in Nat /\ framesRead \in Nat
      /\ framesRead + 1 \in 1 .. Len(file) + 1 /\ Len(file) + 1 \in 1 .. Len(file) + 1
      /\ framesRead' + 1 \in 1 .. Len(file) + 1
      /\ framesRead + 1 <= framesRead' + 1 /\ framesRead' + 1 <= Len(file) + 1
      /\ \A k \in 1 .. Len(file) : file[k] \in Frames
  BY <1>2, <1>3 DEF SplitInv, SplitTypes
<1>6. \A k \in 1 .. Len(file) : file[k].commands \in Seq(Entries)
  BY <1>5 DEF Frames
<1>7. h \in [1 .. Len(file) + 1 -> [Clients -> Seq(Texts)]]
  BY <1>4 DEF Hands
<1>8. ASSUME NEW c \in Clients
      PROVE  Begins(split[c], split'[c]) /\ Begins(split'[c], Held(c))
  <2>1. Begins(split[c], split'[c])
    <3>1. Begins(h[framesRead + 1][c], h[framesRead' + 1][c])
      BY <1>4, <1>5, <1>6, HandsGrow
    <3> QED
      BY <1>2, <1>4, <3>1
  <2>2. Begins(h[framesRead' + 1][c], h[Len(file) + 1][c])
    BY <1>4, <1>5, <1>6, HandsGrow
  <2>3. h[framesRead' + 1][c] \in Seq(Texts) /\ fresh[c] \in Seq(Texts)
    BY <1>5, <1>7 DEF CombinerInv, FrameTypes
  <2>4. Begins(h[Len(file) + 1][c], Held(c))
    BY <1>4, <2>3 DEF Begins
  <2>5. Begins(h[framesRead' + 1][c], Held(c))
    BY <2>2, <2>3, <2>4, BeginsTransitive
  <2> QED
    BY <1>2, <2>1, <2>5
<1> QED
  BY <1>2, <1>4, <1>5, <1>7, <1>8

HeldNow == [c \in Clients |-> IssuedTo(c, 0, seen[c])]

(* Every step is one of the relay or changes nothing there. *)
LEMMA RelayStep ==
  ASSUME CombinerInv, SplitInv, [Next]_vars
  PROVE  [Relay!Next]_(Relay!vars)
<1>1. ASSUME \A c \in Clients : Held(c)' = Held(c), split' = split
      PROVE  [Relay!Next]_(Relay!vars)
  <2>1. HeldNow' = HeldNow
    BY <1>1 DEF HeldNow, Held
  <2> QED
    BY <1>1, <2>1 DEF Relay!vars, HeldNow
<1>2. UNCHANGED <<issued, seen>> => \A c \in Clients : Held(c)' = Held(c)
  BY DEF Held, IssuedTo
<1>3. ASSUME NEW text \in Texts, NEW to \in Recipients, Issue(text, to)
      PROVE  [Relay!Next]_(Relay!vars)
  <2>1. split' = split
    BY <1>3 DEF Issue, splitVars
  <2> QED
    BY <1>1, <1>3, <2>1, HeldKept
<1>4. ASSUME NEW matched \in (SUBSET Clients) \ {{}}, StartFrame(matched)
      PROVE  [Relay!Next]_(Relay!vars)
  <2>1. split' = split
    BY <1>4 DEF StartFrame, splitVars
  <2>2. ASSUME NEW c \in Clients
        PROVE  /\ Len(Held(c)) <= Len(Held(c)')
               /\ SubSeq(Held(c)', 1, Len(Held(c))) = Held(c)
    <3>1. Held(c) \in Seq(Texts) /\ Begins(Held(c), Held(c)')
      BY <1>4, HeldType, HeldGrows
    <3> QED
      BY <3>1, BeginsPart
  <2>3. \A c \in Clients : HeldNow[c] = Held(c) /\ HeldNow'[c] = Held(c)'
    BY DEF HeldNow, Held
  <2>4. \A c \in Clients : /\ Len(HeldNow[c]) <= Len(HeldNow'[c])
                           /\ SubSeq(HeldNow'[c], 1, Len(HeldNow[c])) = HeldNow[c]
    BY <2>2, <2>3
  <2>5. Relay!Read
    BY <2>1, <2>4 DEF Relay!Read, HeldNow
  <2> QED
    BY <2>5 DEF Relay!Next
<1>5. CASE Combine
  <2>1. UNCHANGED <<issued, seen>> /\ split' = split
    <3>1. CASE Share \/ Insert
      <4>1. \E k : PlacedAt(k)
        BY <3>1 DEF Share, Insert, InsertWith
      <4> QED
        BY <4>1 DEF PlacedAt, serverVars, splitVars
    <3>2. CASE NextMatch \/ WriteFrame
      BY <3>2 DEF NextMatch, WriteFrame, serverVars, splitVars
    <3> QED
      BY <1>5, <3>1, <3>2 DEF Combine
  <2> QED
    BY <1>1, <1>2, <2>1
<1>6. CASE UNCHANGED vars
  <2>1. UNCHANGED <<issued, seen>> /\ split' = split
    BY <1>6 DEF vars, serverVars, splitVars
  <2> QED
    BY <1>1, <1>2, <2>1
<1>7. CASE SplitFrame
  <2>1. UNCHANGED <<issued, seen>>
    BY <1>7 DEF SplitFrame, serverVars
  <2>2. HeldNow' = HeldNow
    BY <1>2, <2>1 DEF HeldNow, Held
  <2>3. /\ split \in [Clients -> Seq(Texts)] /\ split' \in [Clients -> Seq(Texts)]
        /\ \A c \in Clients : Begins(split[c], split'[c]) /\ Begins(split'[c], Held(c))
    BY <1>7, HandStep
  <2> DEFINE n == [c \in Clients |-> Len(split'[c])]
  <2>4. ASSUME NEW c \in Clients
        PROVE  /\ n[c] \in Len(split[c]) .. Len(HeldNow[c])
               /\ n[c] \in 0 .. Len(HeldNow[c])
               /\ split'[c] = SubSeq(HeldNow[c], 1, n[c])
    <3>1. HeldNow[c] = Held(c) /\ n[c] = Len(split'[c])
      BY DEF HeldNow, Held
    <3>2. split[c] \in Seq(Texts) /\ split'[c] \in Seq(Texts)
      BY <2>3
    <3>3. Len(split[c]) <= Len(split'[c]) /\ Len(split[c]) \in Nat
          /\ Len(split'[c]) \in Nat
      BY <2>3, <3>2, BeginsPart
    <3>4. Len(split'[c]) <= Len(Held(c)) /\ Len(Held(c)) \in Nat
          /\ SubSeq(Held(c), 1, Len(split'[c])) = split'[c]
      BY <2>3, <3>2, BeginsPart
    <3> HIDE DEF n
    <3> QED
      BY <3>1, <3>3, <3>4
  <2>5. n \in [Clients -> UNION {0 .. Len(HeldNow[c]) : c \in Clients}]
    BY <2>4
  <2>6. split' = [c \in Clients |-> SubSeq(HeldNow[c], 1, n[c])]
    BY <2>3, <2>4
  <2> HIDE DEF n
  <2>7. Relay!Hand
    BY <2>2, <2>4, <2>5, <2>6 DEF Relay!Hand, Relay!Counts, Relay!Prefixes, HeldNow
  <2> QED
    BY <2>7 DEF Relay!Next
<1> QED
  BY <1>3, <1>4, <1>5, <1>6, <1>7 DEF Next

(* The start is one of the relay. *)
LEMMA RelayStarts == Init => Relay!Init
<1> SUFFICES ASSUME Init PROVE Relay!Init
  OBVIOUS
<1>1. issued = <<>> /\ seen = [c \in Clients |-> 0] /\ split = [c \in Clients |-> <<>>]
  BY DEF Init
<1>2. ASSUME NEW c \in Clients PROVE IssuedTo(c, 0, seen[c]) = <<>>
  <2> DEFINE list == SubSeq(issued, 0 + 1, 0)
  <2>1. list = <<>>
    BY SubSeqEmpty
  <2>2. Len(list) = 0
    BY <2>1
  <2> HIDE DEF list
  <2>3. TextsFor(list, c) = <<>>
    BY <2>2, TextsForEmpty
  <2> QED
    BY <1>1, <2>3 DEF IssuedTo, list
<1>3. HeldNow = [c \in Clients |-> <<>>]
  BY <1>2 DEF HeldNow
<1> QED
  BY <1>1, <1>3 DEF Relay!Init, HeldNow

(* Combining demos and splitting the merged one again is a relay of their  *)
(* commands: every step reads more of them or hands a client the next ones *)
(* of its own.                                                             *)
THEOREM RelaySteps == FrameFits => (Spec => Relay!Init /\ [][Relay!Next]_(Relay!vars))
<1> SUFFICES ASSUME FrameFits PROVE Spec => Relay!Init /\ [][Relay!Next]_(Relay!vars)
  OBVIOUS
<1>1. Init => CombinerInv /\ SplitInv
  BY CombinerStarts, SplitStarts
<1>2. CombinerInv /\ SplitInv /\ [Next]_vars => CombinerInv' /\ SplitInv'
  BY CombinerSteps, SplitSteps
<1>3. CombinerInv /\ SplitInv /\ [Next]_vars => [Relay!Next]_(Relay!vars)
  BY RelayStep
<1> QED
  BY <1>1, <1>2, <1>3, RelayStarts, PTL DEF Spec

-----------------------------------------------------------------------------
(* Broadcasts, of which a frame has each once.                             *)

(* What was issued as the q-th command, to everybody, has the text s.      *)
Everyones(list, q, s) ==
  q \in DOMAIN list /\ list[q].text = s /\ list[q].mask = Clients

(* The list tells its commands apart, and each is for one client or all.   *)
Plain(list) ==
  /\ \A j, k \in DOMAIN list : list[j].text = list[k].text => j = k
  /\ \A k \in DOMAIN list : list[k].mask \in {Clients} \cup {{c} : c \in Clients}

(* What a client has new are the last of its commands, in their order.     *)
Newest(list, part, c) ==
  /\ \A m \in 1 .. Len(part) :
       \E q \in DOMAIN list : c \in list[q].mask /\ list[q].text = part[m]
  /\ \A m, n \in 1 .. Len(part) : \A p, q \in DOMAIN list :
       m < n /\ list[p].text = part[m] /\ list[q].text = part[n] => p < q
  /\ \A m \in 1 .. Len(part) : \A p, q \in DOMAIN list :
       list[p].text = part[m] /\ p < q /\ c \in list[q].mask =>
         \E n \in 1 .. Len(part) : part[n] = list[q].text

(* A frame with the texts x for the clients y from lo to hi has the        *)
(* broadcasts of a list in order.                                          *)
Ordered(list, x, lo, hi) ==
  \A i, j \in lo .. hi : \A p, q :
    i < j /\ Everyones(list, p, x[i]) /\ Everyones(list, q, x[j]) => p < q

(* Those before a place are older than those of a part behind a number.    *)
Behind(list, x, lo, place, part, number) ==
  \A i \in lo .. place - 1 : \A m \in number + 1 .. Len(part) : \A p, q :
    Everyones(list, p, x[i]) /\ Everyones(list, q, part[m]) => p < q

(* A broadcast that a demo brought that is merged is there with all later  *)
(* ones: that demo had them too.                                           *)
Finished(list, x, y, lo, hi, who) ==
  \A i \in lo .. hi : \A p, q, c :
    Everyones(list, p, x[i]) /\ c \in y[i] /\ c # who
      /\ q \in DOMAIN list /\ list[q].mask = Clients /\ p < q =>
        \E j \in lo .. hi : x[j] = list[q].text

(* Every command of the frame is a new one of all that it is for.          *)
Owned(x, y, lo, hi, new, clients) ==
  \A i \in lo .. hi :
    /\ y[i] # {}
    /\ \A c \in y[i] : c \in clients /\ \E m \in 1 .. Len(new[c]) : new[c][m] = x[i]

(* A frame while who's commands are merged, the next one at a place.       *)
Orderly(list, new, clients, x, y, lo, hi, place, who, number) ==
  /\ Ordered(list, x, lo, hi)
  /\ Behind(list, x, lo, place, new[who], number)
  /\ Finished(list, x, y, lo, hi, who)
  /\ Owned(x, y, lo, hi, new, clients)

Merges(list, new, clients, x, y, lo, hi, place, who, number) ==
  /\ Plain(list)
  /\ lo \in Int /\ hi \in Int /\ place \in Int /\ lo <= place /\ place <= hi + 1
  /\ who \in clients /\ clients \subseteq Clients
  /\ \A c \in clients : Newest(list, new[c], c) /\ Len(new[c]) \in Nat
  /\ DOMAIN list \in SUBSET Nat
  /\ number + 1 \in 1 .. Len(new[who]) /\ number \in Nat
  /\ \A i \in place .. hi : who \notin y[i]
  /\ Orderly(list, new, clients, x, y, lo, hi, place, who, number)

(* What a demo still has to come lies behind the command at hand and behind *)
(* all that is in front of the place. *)
LEMMA BehindMoves ==
  ASSUME NEW list, NEW new, NEW clients, NEW x, NEW y, NEW lo, NEW hi, NEW place,
         NEW who, NEW number,
         Merges(list, new, clients, x, y, lo, hi, place, who, number),
         NEW m \in number + 2 .. Len(new[who]), NEW p, NEW q,
         Everyones(list, q, new[who][m])
  PROVE  /\ p \in DOMAIN list /\ list[p].text = new[who][number + 1] => p < q
         /\ \A i \in lo .. place - 1 : Everyones(list, p, x[i]) => p < q
<1>1. /\ Newest(list, new[who], who) /\ number \in Nat /\ Len(new[who]) \in Nat
      /\ number + 1 \in 1 .. Len(new[who])
      /\ Behind(list, x, lo, place, new[who], number)
  BY DEF Merges, Orderly
<1>2. m \in 1 .. Len(new[who]) /\ m \in number + 1 .. Len(new[who]) /\ number + 1 < m
  BY <1>1
<1>3. q \in DOMAIN list /\ list[q].text = new[who][m]
  BY DEF Everyones
<1>4. p \in DOMAIN list /\ list[p].text = new[who][number + 1] => p < q
  BY <1>1, <1>2, <1>3 DEF Newest
<1>5. \A i \in lo .. place - 1 : Everyones(list, p, x[i]) => p < q
  BY <1>1, <1>2 DEF Behind
<1> QED
  BY <1>4, <1>5

(* A command that two clients have new is a broadcast.                     *)
LEMMA SharedByAll ==
  ASSUME NEW list, NEW s, NEW a, NEW b, NEW c, NEW d, c # d, Plain(list),
         Newest(list, a, c), Newest(list, b, d),
         NEW m \in 1 .. Len(a), a[m] = s, NEW n \in 1 .. Len(b), b[n] = s
  PROVE  \E q \in DOMAIN list : Everyones(list, q, s)
<1>1. PICK p \in DOMAIN list : c \in list[p].mask /\ list[p].text = s
  BY DEF Newest
<1>2. PICK q \in DOMAIN list : d \in list[q].mask /\ list[q].text = s
  BY DEF Newest
<1>3. p = q
  BY <1>1, <1>2 DEF Plain
<1>4. list[q].mask = Clients
  BY <1>1, <1>2, <1>3 DEF Plain
<1> QED
  BY <1>2, <1>4 DEF Everyones

(* Sharing keeps the frame in order. *)
LEMMA ShareOrderly ==
  ASSUME NEW list, NEW new, NEW clients, NEW x, NEW y, NEW lo, NEW hi, NEW place,
         NEW who, NEW number, NEW yy, NEW k \in place .. hi,
         Merges(list, new, clients, x, y, lo, hi, place, who, number),
         x[k] = new[who][number + 1],
         \A i \in lo .. hi : yy[i] = IF i = k THEN y[i] \cup {who} ELSE y[i]
  PROVE  Orderly(list, new, clients, x, yy, lo, hi, k + 1, who, number + 1)
<1>1. /\ Ordered(list, x, lo, hi) /\ Finished(list, x, y, lo, hi, who)
      /\ Owned(x, y, lo, hi, new, clients)
      /\ Plain(list) /\ lo \in Int /\ hi \in Int /\ place \in Int /\ lo <= place
      /\ who \in clients /\ number \in Nat /\ number + 1 \in 1 .. Len(new[who])
      /\ \A i \in place .. hi : who \notin y[i]
      /\ \A c \in clients : Newest(list, new[c], c)
  BY DEF Merges, Orderly
<1>2. k \in lo .. hi /\ (k + 1) - 1 = k /\ (number + 1) + 1 = number + 2
  BY <1>1
<1>3. \E r \in DOMAIN list : Everyones(list, r, x[k])
  <2>1. PICK c \in y[k] : TRUE
    BY <1>1, <1>2 DEF Owned
  <2>2. c # who /\ c \in clients
    BY <1>1, <1>2, <2>1 DEF Owned
  <2>3. PICK m \in 1 .. Len(new[c]) : new[c][m] = x[k]
    BY <1>1, <1>2, <2>1 DEF Owned
  <2>4. Newest(list, new[c], c) /\ Newest(list, new[who], who)
    BY <1>1, <2>2
  <2> QED
    BY <1>1, <2>2, <2>3, <2>4, SharedByAll
<1>4. PICK r \in DOMAIN list : Everyones(list, r, x[k])
  BY <1>3
<1>5. Behind(list, x, lo, k + 1, new[who], number + 1)
  <2>1. SUFFICES ASSUME NEW i \in lo .. k, NEW m \in number + 2 .. Len(new[who]),
                        NEW p, NEW q, Everyones(list, p, x[i]),
                        Everyones(list, q, new[who][m])
                 PROVE  p < q
    BY <1>2 DEF Behind
  <2>2. r < q
    BY <1>4, <2>1, BehindMoves DEF Everyones
  <2>3. CASE i < place
    <3>1. i \in lo .. place - 1
      BY <1>1, <2>3
    <3> QED
      BY <2>1, <3>1, BehindMoves
  <2>4. CASE i = k
    <3>1. p \in DOMAIN list /\ list[p].text = new[who][number + 1]
      BY <2>1, <2>4 DEF Everyones
    <3> QED
      BY <2>1, <3>1, BehindMoves
  <2>5. CASE i >= place /\ i # k
    <3>1. i \in lo .. hi /\ i < k
      BY <1>1, <1>2, <2>5
    <3>2. p < r
      BY <1>1, <1>2, <1>4, <2>1, <3>1 DEF Ordered
    <3>3. p \in Nat /\ q \in Nat /\ r \in Nat
      BY <1>4, <2>1 DEF Everyones, Merges
    <3> QED
      BY <2>2, <3>2, <3>3
  <2> QED
    BY <1>1, <2>3, <2>4, <2>5
<1>6. Finished(list, x, yy, lo, hi, who)
  <2>1. SUFFICES ASSUME NEW i \in lo .. hi, NEW p, NEW q, NEW c,
                        Everyones(list, p, x[i]), c \in yy[i], c # who,
                        q \in DOMAIN list, list[q].mask = Clients, p < q
                 PROVE  \E j \in lo .. hi : x[j] = list[q].text
    BY DEF Finished
  <2>2. c \in y[i]
    BY <2>1
  <2> QED
    BY <1>1, <2>1, <2>2 DEF Finished
<1>7. Owned(x, yy, lo, hi, new, clients)
  <2>1. ASSUME NEW i \in lo .. hi
        PROVE  /\ yy[i] # {}
               /\ \A c \in yy[i] : /\ c \in clients
                                   /\ \E m \in 1 .. Len(new[c]) : new[c][m] = x[i]
    <3>1. /\ y[i] # {}
          /\ \A c \in y[i] : /\ c \in clients
                             /\ \E m \in 1 .. Len(new[c]) : new[c][m] = x[i]
      BY <1>1 DEF Owned
    <3>2. i = k => \E m \in 1 .. Len(new[who]) : new[who][m] = x[i]
      BY <1>1
    <3> QED
      BY <1>1, <3>1, <3>2
  <2> QED
    BY <2>1 DEF Owned
<1> QED
  BY <1>1, <1>5, <1>6, <1>7 DEF Orderly

(* The texts and clients xx and yy are x and y with s for who put in.      *)
PutIn(x, y, xx, yy, lo, hi, place, s, who) ==
  /\ lo \in Int /\ hi \in Int /\ place \in Int /\ lo <= place /\ place <= hi + 1
  /\ xx[place] = s /\ yy[place] = {who}
  /\ \A i \in lo .. place - 1 : xx[i] = x[i] /\ yy[i] = y[i]
  /\ \A i \in place .. hi : xx[i + 1] = x[i] /\ yy[i + 1] = y[i]

(* Where an entry was before. *)
LEMMA PutInBack ==
  ASSUME NEW x, NEW y, NEW xx, NEW yy, NEW lo, NEW hi, NEW place, NEW s, NEW who,
         PutIn(x, y, xx, yy, lo, hi, place, s, who),
         NEW i \in lo .. hi + 1, i # place
  PROVE  \E k \in lo .. hi : /\ xx[i] = x[k] /\ yy[i] = y[k]
                             /\ i < place => k = i
                             /\ i > place => k = i - 1 /\ k \in place .. hi
<1>a. lo \in Int /\ hi \in Int /\ place \in Int /\ lo <= place /\ place <= hi + 1
  BY DEF PutIn
<1>1. CASE i < place
  <2>1. i \in lo .. place - 1 /\ i \in lo .. hi
    BY <1>a, <1>1
  <2> QED
    BY <1>1, <2>1 DEF PutIn
<1>2. CASE i > place
  <2>1. i - 1 \in place .. hi /\ i - 1 \in lo .. hi /\ (i - 1) + 1 = i
    BY <1>a, <1>2
  <2>2. xx[i] = x[i - 1] /\ yy[i] = y[i - 1]
    BY <2>1 DEF PutIn
  <2> QED
    BY <1>a, <1>2, <2>1, <2>2
<1> QED
  BY <1>a, <1>1, <1>2

(* And where it is afterwards. *)
LEMMA PutInThere ==
  ASSUME NEW x, NEW y, NEW xx, NEW yy, NEW lo, NEW hi, NEW place, NEW s, NEW who,
         PutIn(x, y, xx, yy, lo, hi, place, s, who), NEW k \in lo .. hi
  PROVE  \E i \in lo .. hi + 1 : xx[i] = x[k]
<1>a. lo \in Int /\ hi \in Int /\ place \in Int /\ lo <= place /\ place <= hi + 1
  BY DEF PutIn
<1>1. CASE k < place
  <2>1. k \in lo .. place - 1 /\ k \in lo .. hi + 1
    BY <1>a, <1>1
  <2> QED
    BY <2>1 DEF PutIn
<1>2. CASE k >= place
  <2>1. k \in place .. hi /\ k + 1 \in lo .. hi + 1
    BY <1>a, <1>2
  <2> QED
    BY <2>1 DEF PutIn
<1> QED
  BY <1>a, <1>1, <1>2

(* So does an insertion of something that is not there. *)
LEMMA InsertOrderly ==
  ASSUME NEW list, NEW new, NEW clients, NEW x, NEW y, NEW lo, NEW hi, NEW place,
         NEW who, NEW number, NEW xx, NEW yy,
         Merges(list, new, clients, x, y, lo, hi, place, who, number),
         PutIn(x, y, xx, yy, lo, hi, place, new[who][number + 1], who),
         \A i \in place .. hi : x[i] # new[who][number + 1]
  PROVE  Orderly(list, new, clients, xx, yy, lo, hi + 1, place + 1, who, number + 1)
<1> DEFINE s == new[who][number + 1]
           up == hi + 1
<1>1. /\ Ordered(list, x, lo, hi) /\ Finished(list, x, y, lo, hi, who)
      /\ Owned(x, y, lo, hi, new, clients)
      /\ Behind(list, x, lo, place, new[who], number)
      /\ Plain(list) /\ lo \in Int /\ hi \in Int /\ place \in Int /\ lo <= place
      /\ place <= hi + 1
      /\ who \in clients /\ number \in Nat /\ number + 1 \in 1 .. Len(new[who])
      /\ \A i \in place .. hi : who \notin y[i]
      /\ Len(new[who]) \in Nat /\ DOMAIN list \in SUBSET Nat
  BY DEF Merges, Orderly
<1>2. /\ number + 1 \in number + 1 .. Len(new[who]) /\ place \in lo .. up /\ up \in Int
      /\ (place + 1) - 1 = place /\ (number + 1) + 1 = number + 2
  BY <1>1
<1>3. xx[place] = s /\ yy[place] = {who}
  BY DEF PutIn
<1>4. \A i \in place .. hi : x[i] # s
  OBVIOUS
<1>5. ASSUME NEW i \in lo .. up, i # place
      PROVE  \E k \in lo .. hi : /\ xx[i] = x[k] /\ yy[i] = y[k]
                                 /\ i < place => k = i
                                 /\ i > place => k = i - 1 /\ k \in place .. hi
  <2>1. PutIn(x, y, xx, yy, lo, hi, place, s, who)
    OBVIOUS
  <2>2. i \in lo .. hi + 1 /\ i # place
    BY <1>5
  <2> HIDE DEF s
  <2> QED
    BY ONLY <2>1, <2>2, PutInBack
<1>6. \A k \in lo .. hi : \E i \in lo .. up : xx[i] = x[k]
  <2>1. PutIn(x, y, xx, yy, lo, hi, place, s, who)
    OBVIOUS
  <2> HIDE DEF s
  <2>2. \A k \in lo .. hi : \E i \in lo .. hi + 1 : xx[i] = x[k]
    BY ONLY <2>1, PutInThere
  <2> QED
    BY <2>2
(* A broadcast behind the place is younger than the one put in. *)
<1>7. ASSUME NEW k \in place .. hi, NEW p, NEW q,
             Everyones(list, p, s), Everyones(list, q, x[k])
      PROVE  p < q
  <2>1. k \in lo .. hi /\ x[k] # s /\ who \notin y[k] /\ p \in Nat /\ q \in Nat
    BY <1>1, <1>4, <1>7 DEF Everyones
  <2>2. p # q
    BY <1>7, <2>1 DEF Everyones
  <2>3. ~ (q < p)
    <3>1. SUFFICES ASSUME q < p PROVE FALSE
      OBVIOUS
    <3>2. PICK c \in y[k] : c # who
      BY <1>1, <2>1 DEF Owned
    <3>3. PICK j \in lo .. hi : x[j] = list[p].text
      BY <1>1, <1>7, <2>1, <3>1, <3>2 DEF Finished, Everyones
    <3>4. x[j] = s /\ j < place
      BY <1>1, <1>4, <1>7, <3>3 DEF Everyones
    <3>5. j \in lo .. place - 1
      BY <1>1, <3>4
    <3>6. p < p
      BY <1>1, <1>2, <1>7, <3>4, <3>5 DEF Behind
    <3> QED
      BY <2>1, <3>6
  <2> QED
    BY <2>1, <2>2, <2>3
<1>8. Ordered(list, xx, lo, up)
  <2>1. SUFFICES ASSUME NEW i \in lo .. up, NEW j \in lo .. up, NEW p, NEW q, i < j,
                        Everyones(list, p, xx[i]), Everyones(list, q, xx[j])
                 PROVE  p < q
    BY DEF Ordered
  <2>2. CASE i = place
    <3>1. j # place /\ j > place
      BY <1>1, <1>2, <2>1, <2>2
    <3>2. PICK k \in place .. hi : xx[j] = x[k]
      BY <1>5, <3>1
    <3> QED
      BY <1>3, <1>7, <2>1, <2>2, <3>2
  <2>3. CASE j = place
    <3>1. i \in lo .. place - 1 /\ i # place /\ i < place
      BY <1>1, <1>2, <2>1, <2>3
    <3>2. xx[i] = x[i]
      BY <1>5, <3>1
    <3> QED
      BY <1>1, <1>2, <1>3, <2>1, <2>3, <3>1, <3>2 DEF Behind
  <2>4. CASE i # place /\ j # place
    <3>1. PICK k \in lo .. hi : /\ xx[i] = x[k]
                                /\ i < place => k = i
                                /\ i > place => k = i - 1
      BY <1>5, <2>4
    <3>2. PICK l \in lo .. hi : /\ xx[j] = x[l]
                                /\ j < place => l = j
                                /\ j > place => l = j - 1
      BY <1>5, <2>4
    <3>3. k < l
      BY <1>1, <1>2, <2>1, <2>4, <3>1, <3>2
    <3> QED
      BY <1>1, <2>1, <3>1, <3>2, <3>3 DEF Ordered
  <2> QED
    BY <2>2, <2>3, <2>4
<1>9. Behind(list, xx, lo, place + 1, new[who], number + 1)
  <2>1. SUFFICES ASSUME NEW i \in lo .. place, NEW m \in number + 2 .. Len(new[who]),
                        NEW p, NEW q, Everyones(list, p, xx[i]),
                        Everyones(list, q, new[who][m])
                 PROVE  p < q
    BY <1>2 DEF Behind
  <2>2. CASE i = place
    <3>1. p \in DOMAIN list /\ list[p].text = new[who][number + 1]
      BY <1>3, <2>1, <2>2 DEF Everyones
    <3> QED
      BY <2>1, <3>1, BehindMoves
  <2>3. CASE i # place
    <3>1. i \in lo .. place - 1 /\ i \in lo .. up /\ i < place
      BY <1>1, <1>2, <2>3
    <3>2. xx[i] = x[i]
      BY <1>5, <3>1
    <3> QED
      BY <2>1, <3>1, <3>2, BehindMoves
  <2> QED
    BY <2>2, <2>3
<1>10. Finished(list, xx, yy, lo, up, who)
  <2>1. SUFFICES ASSUME NEW i \in lo .. up, NEW p, NEW q, NEW c,
                        Everyones(list, p, xx[i]), c \in yy[i], c # who,
                        q \in DOMAIN list, list[q].mask = Clients, p < q
                 PROVE  \E j \in lo .. up : xx[j] = list[q].text
    BY DEF Finished
  <2>2. i # place
    BY <1>3, <2>1
  <2>3. PICK k \in lo .. hi : xx[i] = x[k] /\ yy[i] = y[k]
    BY <1>5, <2>2
  <2>4. PICK l \in lo .. hi : x[l] = list[q].text
    BY <1>1, <2>1, <2>3 DEF Finished
  <2> QED
    BY <1>6, <2>4
<1>11. Owned(xx, yy, lo, up, new, clients)
  <2>1. ASSUME NEW i \in lo .. up
        PROVE  /\ yy[i] # {}
               /\ \A c \in yy[i] : /\ c \in clients
                                   /\ \E m \in 1 .. Len(new[c]) : new[c][m] = xx[i]
    <3>1. CASE i = place
      BY <1>1, <1>3, <3>1
    <3>2. CASE i # place
      <4>1. PICK k \in lo .. hi : xx[i] = x[k] /\ yy[i] = y[k]
        BY <1>5, <3>2
      <4> QED
        BY <1>1, <4>1 DEF Owned
    <3> QED
      BY <3>1, <3>2
  <2> QED
    BY <2>1 DEF Owned
<1> QED
  BY <1>8, <1>9, <1>10, <1>11 DEF Orderly

(* The next client starts over, when all commands of the last are there.   *)
LEMMA NextOrderly ==
  ASSUME NEW list, NEW new, NEW clients, NEW x, NEW y, NEW lo \in Int, NEW hi,
         NEW place, NEW who, NEW number, NEW other,
         Plain(list), who \in clients, clients \subseteq Clients,
         Newest(list, new[who], who),
         Orderly(list, new, clients, x, y, lo, hi, place, who, number),
         \A m \in 1 .. Len(new[who]) : \E j \in lo .. hi : x[j] = new[who][m]
  PROVE  Orderly(list, new, clients, x, y, lo, hi, lo, other, 0)
<1>1. /\ Ordered(list, x, lo, hi) /\ Finished(list, x, y, lo, hi, who)
      /\ Owned(x, y, lo, hi, new, clients)
  BY DEF Orderly
<1>2. Behind(list, x, lo, lo, new[other], 0)
  BY DEF Behind
<1>3. Finished(list, x, y, lo, hi, other)
  <2>1. SUFFICES ASSUME NEW i \in lo .. hi, NEW p, NEW q, NEW c,
                        Everyones(list, p, x[i]), c \in y[i], c # other,
                        q \in DOMAIN list, list[q].mask = Clients, p < q
                 PROVE  \E j \in lo .. hi : x[j] = list[q].text
    BY DEF Finished
  <2>2. CASE c # who
    BY <1>1, <2>1, <2>2 DEF Finished
  <2>3. CASE c = who
    <3>1. PICK m \in 1 .. Len(new[who]) : new[who][m] = x[i]
      BY <1>1, <2>1, <2>3 DEF Owned
    <3>2. p \in DOMAIN list /\ list[p].text = new[who][m] /\ who \in list[q].mask
      BY <2>1, <3>1 DEF Everyones
    <3>3. PICK n \in 1 .. Len(new[who]) : new[who][n] = list[q].text
      BY <2>1, <3>2 DEF Newest
    <3> QED
      BY <3>3
  <2> QED
    BY <2>2, <2>3
<1> QED
  BY <1>1, <1>2, <1>3 DEF Orderly

(* The frame that is being merged. *)
FrameTexts ==
  [k \in firstServerCommand .. serverCommandSequence |-> TextAt(k)]
FrameMasks ==
  [k \in firstServerCommand .. serverCommandSequence |-> MaskAt(k)]

OnceInv ==
  Merging /\ Plain(issued) =>
    /\ \A c \in matchedClients : Newest(issued, fresh[c], c)
    /\ Orderly(issued, fresh, matchedClients, FrameTexts, FrameMasks,
               firstServerCommand, serverCommandSequence, curCommand,
               Client, commandNum)

(* The frame as a list, with what the invariant says of it. *)
LEMMA MergesNow ==
  ASSUME CombinerInv, OnceInv, MoreCommands, Plain(issued)
  PROVE  Merges(issued, fresh, matchedClients, FrameTexts, FrameMasks,
                firstServerCommand, serverCommandSequence, curCommand,
                Client, commandNum)
<1>1. Merging
  BY DEF MoreCommands
<1>2. /\ \A c \in matchedClients : Newest(issued, fresh[c], c)
      /\ Orderly(issued, fresh, matchedClients, FrameTexts, FrameMasks,
                 firstServerCommand, serverCommandSequence, curCommand,
                 Client, commandNum)
  BY <1>1 DEF OnceInv
<1>3. /\ firstServerCommand \in Int /\ serverCommandSequence \in Int
      /\ curCommand \in Int /\ firstServerCommand <= curCommand
      /\ curCommand <= serverCommandSequence + 1
      /\ matchedClients \subseteq Clients /\ commandNum \in Nat
  BY DEF CombinerInv, FrameTypes, RingTypes
<1>4. Client \in matchedClients
  BY <1>1, MergingFacts
<1>5. commandNum + 1 \in 1 .. Len(fresh[Client])
  BY CommandType
<1>6. \A c \in matchedClients : Len(fresh[c]) \in Nat
  BY <1>3 DEF CombinerInv, FrameTypes
<1>7. DOMAIN issued \in SUBSET Nat
  BY DEF CombinerInv, ServerTypes
<1>8. \A i \in curCommand .. serverCommandSequence : Client \notin FrameMasks[i]
  <2>1. ASSUME NEW i \in curCommand .. serverCommandSequence
        PROVE  i \in firstServerCommand .. serverCommandSequence
    BY <1>3
  <2> QED
    BY <1>1, <2>1 DEF CombinerInv, Ahead, FrameMasks
<1> HIDE DEF FrameTexts, FrameMasks
<1> QED
  BY <1>2, <1>3, <1>4, <1>5, <1>6, <1>7, <1>8 DEF Merges

(* Sharing keeps OnceInv. *)
LEMMA ShareOnce ==
  ASSUME CombinerInv, FrameFits, OnceInv, Share
  PROVE  OnceInv'
<1>1. PICK k \in curCommand .. serverCommandSequence :
           /\ TextAt(k) = Command
           /\ serverCommandBitmask' =
                [serverCommandBitmask EXCEPT ![Slot(k)] = @ \cup {Client}]
           /\ PlacedAt(k)
           /\ UNCHANGED <<serverCommands, serverCommandSequence,
                          lastExecutedServerCommand>>
  BY ShareEffect
<1>2. MoreCommands /\ Merging
  BY DEF Share, MoreCommands
<1>3. /\ curCommand' = k + 1 /\ commandNum' = commandNum + 1
      /\ UNCHANGED <<issued, matchedClients, matches, fresh, firstServerCommand>>
      /\ UNCHANGED <<serverCommands, serverCommandSequence>>
  BY <1>1 DEF PlacedAt, serverVars
<1>4. Client' = Client
  BY <1>3 DEF Client
<1> SUFFICES ASSUME Plain(issued)
             PROVE  /\ \A c \in matchedClients : Newest(issued, fresh[c], c)
                    /\ Orderly(issued, fresh, matchedClients, FrameTexts', FrameMasks',
                               firstServerCommand, serverCommandSequence, k + 1,
                               Client, commandNum + 1)
  BY <1>3, <1>4 DEF OnceInv
<1>5. Merges(issued, fresh, matchedClients, FrameTexts, FrameMasks,
             firstServerCommand, serverCommandSequence, curCommand,
             Client, commandNum)
  BY <1>2, MergesNow
<1>6. /\ firstServerCommand \in Int /\ serverCommandSequence \in Int
      /\ firstServerCommand <= curCommand /\ curCommand \in Int
      /\ (serverCommandSequence + 1) - firstServerCommand <= MaxReliable
      /\ MaxReliable \in Nat
      /\ serverCommandBitmask \in [Slots -> SUBSET Clients]
  BY <1>2, FrameSize, CommandAssumption DEF CombinerInv, FrameTypes, RingTypes
<1>7. k \in firstServerCommand .. serverCommandSequence /\ k \in Int
  BY <1>6
<1>8. FrameTexts' = FrameTexts
  BY <1>3 DEF FrameTexts, TextAt, Slot
<1>9. FrameTexts[k] = fresh[Client][commandNum + 1]
  BY <1>1, <1>7 DEF FrameTexts, Command
<1>10. ASSUME NEW i \in firstServerCommand .. serverCommandSequence
       PROVE  FrameMasks'[i] = IF i = k THEN FrameMasks[i] \cup {Client} ELSE FrameMasks[i]
  <2>1. i \in Int /\ Slot(i) \in Slots
    BY <1>6, SlotType
  <2>2. FrameMasks[i] = serverCommandBitmask[Slot(i)]
    BY DEF FrameMasks, MaskAt
  <2>3. FrameMasks'[i] = serverCommandBitmask'[Slot(i)]
    BY <1>3 DEF FrameMasks, MaskAt, Slot
  <2>4. CASE i = k
    BY <1>1, <1>6, <2>1, <2>2, <2>3, <2>4
  <2>5. CASE i # k
    <3>1. i - k < MaxReliable /\ k - i < MaxReliable
      BY <1>6, <1>7, <2>1
    <3>2. Slot(i) # Slot(k)
      BY <1>7, <2>1, <2>5, <3>1, SlotsDiffer
    <3> QED
      BY <1>1, <1>6, <2>1, <2>2, <2>3, <2>5, <3>2
  <2> QED
    BY <2>4, <2>5
<1>11. \A c \in matchedClients : Newest(issued, fresh[c], c)
  BY <1>2 DEF OnceInv
<1> HIDE DEF FrameTexts, FrameMasks
<1> DEFINE yy == FrameMasks'
<1>12. \A i \in firstServerCommand .. serverCommandSequence :
         yy[i] = IF i = k THEN FrameMasks[i] \cup {Client} ELSE FrameMasks[i]
  BY <1>10
<1> HIDE DEF yy
<1>13. Orderly(issued, fresh, matchedClients, FrameTexts, yy, firstServerCommand,
               serverCommandSequence, k + 1, Client, commandNum + 1)
  BY <1>5, <1>9, <1>12, ShareOrderly
<1> QED
  BY <1>8, <1>11, <1>13 DEF yy

(* So does an insertion. *)
LEMMA InsertOnce ==
  ASSUME CombinerInv, FrameFits, OnceInv, Insert
  PROVE  OnceInv'
<1> DEFINE lo == firstServerCommand
           hi == serverCommandSequence
           p == curCommand
<1>1. /\ Inserted(p) /\ PlacedAt(p) /\ hi' = hi + 1 /\ Places = {}
  BY InsertEffect
<1>2. MoreCommands /\ Merging
  BY DEF Insert, InsertWith, MoreCommands
<1>3. /\ curCommand' = p + 1 /\ commandNum' = commandNum + 1
      /\ UNCHANGED <<issued, matchedClients, matches, fresh, firstServerCommand>>
  BY <1>1 DEF PlacedAt, serverVars
<1>4. Client' = Client
  BY <1>3 DEF Client
<1> SUFFICES ASSUME Plain(issued)
             PROVE  /\ \A c \in matchedClients : Newest(issued, fresh[c], c)
                    /\ Orderly(issued, fresh, matchedClients, FrameTexts', FrameMasks',
                               lo, hi + 1, p + 1, Client, commandNum + 1)
  BY <1>1, <1>3, <1>4 DEF OnceInv
<1>5. Merges(issued, fresh, matchedClients, FrameTexts, FrameMasks, lo, hi, p,
             Client, commandNum)
  BY <1>2, MergesNow
<1>6. lo \in Int /\ hi \in Int /\ p \in Int /\ lo <= p /\ p <= hi + 1
  BY DEF CombinerInv, FrameTypes, RingTypes
<1>7. /\ \A k \in lo .. hi : /\ FrameTexts[k] = serverCommands[Slot(k)]
                             /\ FrameMasks[k] = serverCommandBitmask[Slot(k)]
      /\ \A k \in lo .. hi + 1 : /\ FrameTexts'[k] = serverCommands'[Slot(k)]
                                 /\ FrameMasks'[k] = serverCommandBitmask'[Slot(k)]
  BY <1>1, <1>3 DEF FrameTexts, FrameMasks, TextAt, MaskAt, Slot
<1>8. \A i \in p .. hi : FrameTexts[i] # fresh[Client][commandNum + 1]
  <2>1. SearchStart = p
    BY <1>2, MergingCounts
  <2>2. ASSUME NEW i \in p .. hi PROVE i \in lo .. hi
    BY <1>6
  <2> QED
    BY <1>1, <2>1, <2>2 DEF Places, FrameTexts, Command
<1>9. \A c \in matchedClients : Newest(issued, fresh[c], c)
  BY <1>2 DEF OnceInv
<1> HIDE DEF FrameTexts, FrameMasks
<1> DEFINE xx == FrameTexts'
           yy == FrameMasks'
<1>10. PutIn(FrameTexts, FrameMasks, xx, yy, lo, hi, p, fresh[Client][commandNum + 1], Client)
  <2>1. p \in lo .. hi + 1
    BY <1>6
  <2>2. xx[p] = fresh[Client][commandNum + 1] /\ yy[p] = {Client}
    BY <1>1, <1>7, <2>1 DEF Inserted, Command
  <2>3. ASSUME NEW i \in lo .. p - 1 PROVE xx[i] = FrameTexts[i] /\ yy[i] = FrameMasks[i]
    <3>1. i \in lo .. hi /\ i \in lo .. hi + 1
      BY <1>6
    <3> QED
      BY <1>1, <1>7, <2>3, <3>1 DEF Inserted
  <2>4. ASSUME NEW i \in p .. hi
        PROVE  xx[i + 1] = FrameTexts[i] /\ yy[i + 1] = FrameMasks[i]
    <3>1. i \in lo .. hi /\ i + 1 \in lo .. hi + 1
      BY <1>6
    <3> QED
      BY <1>1, <1>7, <2>4, <3>1 DEF Inserted
  <2> HIDE DEF xx, yy
  <2> QED
    BY <1>6, <2>2, <2>3, <2>4 DEF PutIn
<1> HIDE DEF xx, yy, lo, hi, p
<1>11. Orderly(issued, fresh, matchedClients, xx, yy, lo, hi + 1, p + 1, Client,
               commandNum + 1)
  BY <1>5, <1>8, <1>10, InsertOrderly
<1> QED
  BY <1>9, <1>11 DEF xx, yy

(* When the demos turn, all commands of the last one are in the frame.     *)
LEMMA AllInFrame ==
  ASSUME CombinerInv, Merging, ~ MoreCommands, NEW m \in 1 .. Len(fresh[Client])
  PROVE  \E k \in firstServerCommand .. serverCommandSequence :
           FrameTexts[k] = fresh[Client][m]
<1> DEFINE lo == firstServerCommand
           hi == serverCommandSequence
           piece == Piece(serverCommands, serverCommandBitmask, lo, hi)
           new == fresh[Client]
<1>1. /\ lo \in Int /\ hi \in Int /\ lo <= hi + 1
      /\ Client \in matchedClients /\ new \in Seq(Texts)
      /\ Len(new) \in Nat
  BY MergingFacts DEF CombinerInv, FrameTypes, RingTypes
<1>2. TextsFor(piece, Client) = new
  <2>1. Handed(Client) = SubSeq(new, 1, MergedOf(commandNum, Client))
    BY <1>1, MergedIsOf DEF CombinerInv, MergedInOrder
  <2>2. commandNum = Len(new)
    BY MergingCounts DEF MoreCommands, CombinerInv, Turns, FrameTypes
  <2>3. MergedOf(commandNum, Client) = Len(new)
    BY <2>2 DEF MergedOf
  <2>4. SubSeq(new, 1, Len(new)) = new
    BY <1>1, SubSeqFull
  <2> QED
    BY <2>1, <2>3, <2>4, HandedIsTold DEF Told
<1>3. /\ Len(piece) = (hi + 1) - lo /\ Len(piece) \in Nat
      /\ Speaks(piece, Client)
  BY <1>1, PieceLength, PieceSpeaks, FrameSpoken DEF CombinerInv
<1> HIDE DEF piece
<1>4. PICK e : Enumerates(e, piece, Client, Len(piece), new)
  BY <1>2, <1>3, TextsEnumerated
<1>5. e[m] \in 1 .. (hi + 1) - lo /\ piece[e[m]].text = new[m]
  BY <1>3, <1>4 DEF Enumerates
<1>6. piece[e[m]].text = serverCommands[Slot((lo + e[m]) - 1)]
  BY <1>1, <1>5, PieceEntry DEF piece
<1>7. (lo + e[m]) - 1 \in lo .. hi
  BY <1>1, <1>5
<1> QED
  BY <1>5, <1>6, <1>7 DEF FrameTexts, TextAt

(* And the turn of the next demo. *)
LEMMA NextMatchOnce ==
  ASSUME CombinerInv, OnceInv, NextMatch
  PROVE  OnceInv'
<1>1. /\ ~ MoreCommands /\ commandNum' = 0 /\ curCommand' = firstServerCommand
      /\ UNCHANGED <<issued, matchedClients, fresh, firstServerCommand>>
      /\ UNCHANGED <<serverCommands, serverCommandBitmask, serverCommandSequence>>
  BY DEF NextMatch, serverVars, ringVars
<1>2. Merging
  <2>1. matches # <<>>
    BY DEF NextMatch
  <2> QED
    BY <2>1 DEF Merging
<1>3. FrameTexts' = FrameTexts /\ FrameMasks' = FrameMasks
  BY <1>1 DEF FrameTexts, FrameMasks, TextAt, MaskAt, Slot
<1> DEFINE other == Client'
<1> SUFFICES ASSUME Plain(issued)
             PROVE  /\ \A c \in matchedClients : Newest(issued, fresh[c], c)
                    /\ Orderly(issued, fresh, matchedClients, FrameTexts, FrameMasks,
                               firstServerCommand, serverCommandSequence,
                               firstServerCommand, other, 0)
  BY <1>1, <1>3 DEF OnceInv
<1>4. /\ \A c \in matchedClients : Newest(issued, fresh[c], c)
      /\ Orderly(issued, fresh, matchedClients, FrameTexts, FrameMasks,
                 firstServerCommand, serverCommandSequence, curCommand,
                 Client, commandNum)
  BY <1>2 DEF OnceInv
<1>5. /\ Client \in matchedClients /\ matchedClients \subseteq Clients
      /\ firstServerCommand \in Int
  BY <1>2, MergingFacts DEF CombinerInv, FrameTypes
<1>6. \A m \in 1 .. Len(fresh[Client]) :
        \E k \in firstServerCommand .. serverCommandSequence :
          FrameTexts[k] = fresh[Client][m]
  BY <1>1, <1>2, AllInFrame
<1> HIDE DEF other, FrameTexts, FrameMasks
<1> QED
  BY <1>4, <1>5, <1>6, NextOrderly

(* A client's part of what was issued. *)
LEMMA IssuedNewest ==
  ASSUME ServerTypes, Plain(issued), NEW c, NEW m \in Nat, m <= Len(issued)
  PROVE  Newest(issued, IssuedTo(c, m, Len(issued)), c)
<1> DEFINE n == Len(issued)
           list == SubSeq(issued, m + 1, n)
           part == TextsFor(list, c)
<1>1. /\ n \in Nat /\ m \in Nat /\ m <= n /\ n <= n /\ DOMAIN issued = 1 .. n
      /\ \A j, k \in DOMAIN issued : issued[j].text = issued[k].text => j = k
  BY DEF ServerTypes, Plain
<1>2. /\ Len(list) = n - m /\ Len(list) \in Nat
      /\ \A i \in 1 .. n - m : list[i] = issued[m + i] /\ m + i \in DOMAIN issued
  <2>1. n - m \in Nat
    BY <1>1
  <2>2. /\ Len(list) = n - m
        /\ \A i \in 1 .. n - m : list[i] = issued[m + i] /\ m + i \in DOMAIN issued
    <3> HIDE DEF n
    <3> QED
      BY <1>1, IssuedPart DEF n
  <2> QED
    BY <2>1, <2>2
<1>3. Speaks(list, c)
  BY <1>1, IssuedSpeaks
<1> HIDE DEF list
<1>4. PICK e : Enumerates(e, list, c, n - m, part)
  BY <1>2, <1>3, TextsEnumerated
<1> HIDE DEF part, n
<1>5. ASSUME NEW i \in 1 .. Len(part)
      PROVE  /\ e[i] \in 1 .. n - m /\ m + e[i] \in DOMAIN issued
             /\ c \in issued[m + e[i]].mask /\ issued[m + e[i]].text = part[i]
  <2>1. e[i] \in 1 .. n - m /\ c \in list[e[i]].mask /\ list[e[i]].text = part[i]
    BY <1>4 DEF Enumerates
  <2> QED
    BY <1>2, <2>1
<1>6. \A i \in 1 .. Len(part) :
        \E q \in DOMAIN issued : c \in issued[q].mask /\ issued[q].text = part[i]
  BY <1>5
<1>7. ASSUME NEW i \in 1 .. Len(part), NEW j \in 1 .. Len(part),
             NEW p \in DOMAIN issued, NEW q \in DOMAIN issued,
             i < j, issued[p].text = part[i], issued[q].text = part[j]
      PROVE  p < q
  <2>1. p = m + e[i] /\ q = m + e[j]
    BY <1>1, <1>5, <1>7
  <2>2. e[i] < e[j]
    BY <1>4, <1>7 DEF Enumerates
  <2>3. e[i] \in Int /\ e[j] \in Int
    BY <1>5
  <2> QED
    BY <1>1, <2>1, <2>2, <2>3
<1>8. ASSUME NEW i \in 1 .. Len(part), NEW p \in DOMAIN issued, NEW q \in DOMAIN issued,
             issued[p].text = part[i], p < q, c \in issued[q].mask
      PROVE  \E j \in 1 .. Len(part) : part[j] = issued[q].text
  <2>1. p = m + e[i] /\ e[i] \in 1 .. n - m
    BY <1>1, <1>5, <1>8
  <2>2. q - m \in 1 .. n - m /\ m + (q - m) = q
    BY <1>1, <1>8, <2>1
  <2>3. list[q - m] = issued[q]
    BY <1>2, <2>2
  <2>4. PICK j \in 1 .. Len(part) : e[j] = q - m
    BY <1>4, <1>8, <2>2, <2>3 DEF Enumerates
  <2>5. list[e[j]].text = part[j]
    BY <1>4 DEF Enumerates
  <2> QED
    BY <2>3, <2>4, <2>5
<1> QED
  BY <1>6, <1>7, <1>8 DEF Newest, IssuedTo, part, list, n

(* A frame that begins is empty. *)
LEMMA StartFrameOnce ==
  ASSUME CombinerInv, NEW matched \in (SUBSET Clients) \ {{}}, StartFrame(matched)
  PROVE  OnceInv'
<1>1. /\ matchedClients' = matched
      /\ fresh' = [c \in Clients |-> IF c \in matched THEN Pending(c) ELSE <<>>]
      /\ firstServerCommand' = lastExecutedServerCommand
      /\ curCommand' = lastExecutedServerCommand
      /\ commandNum' = 0 /\ issued' = issued
      /\ serverCommandSequence' = serverCommandSequence
  BY DEF StartFrame, ringVars
<1>2. /\ ServerTypes /\ serverCommandSequence \in Int
      /\ lastExecutedServerCommand = serverCommandSequence + 1
  BY DEF CombinerInv, RingTypes
<1> DEFINE lo == lastExecutedServerCommand
           hi == serverCommandSequence
           who == Client'
           x == FrameTexts'
           y == FrameMasks'
           new == fresh'
<1> SUFFICES ASSUME Plain(issued)
             PROVE  /\ \A c \in matched : Newest(issued, new[c], c)
                    /\ Orderly(issued, new, matched, x, y, lo, hi, lo, who, 0)
  BY <1>1 DEF OnceInv
<1>3. \A c \in matched : Newest(issued, new[c], c)
  <2>1. ASSUME NEW c \in matched PROVE Newest(issued, new[c], c)
    <3>1. c \in Clients /\ new[c] = IssuedTo(c, seen[c], Len(issued))
      BY <1>1 DEF Pending
    <3>2. seen[c] \in Nat /\ seen[c] <= Len(issued)
      BY <1>2, <3>1 DEF ServerTypes
    <3> QED
      BY <1>2, <3>1, <3>2, IssuedNewest
  <2> QED
    BY <2>1
<1>4. lo .. hi = {} /\ lo .. lo - 1 = {}
  BY <1>2
<1> HIDE DEF x, y, new, who
<1>5. Orderly(issued, new, matched, x, y, lo, hi, lo, who, 0)
  BY <1>4 DEF Orderly, Ordered, Behind, Finished, Owned
<1> QED
  BY <1>3, <1>5

(* Between frames there is nothing to say. *)
LEMMA IdleOnce == ASSUME ~ Merging' PROVE OnceInv'
  BY DEF OnceInv

(* What leaves the combiner alone keeps it. *)
LEMMA OnceKept ==
  ASSUME OnceInv, UNCHANGED <<serverVars, ringVars, frameVars>>
  PROVE  OnceInv'
<1>1. /\ issued' = issued
      /\ UNCHANGED <<serverCommands, serverCommandBitmask, serverCommandSequence>>
      /\ UNCHANGED <<matchedClients, matches, fresh, commandNum, curCommand,
                     firstServerCommand>>
  BY DEF serverVars, ringVars, frameVars
<1>2. /\ FrameTexts' = FrameTexts /\ FrameMasks' = FrameMasks
      /\ Client' = Client /\ Merging' = Merging
  BY <1>1 DEF FrameTexts, FrameMasks, TextAt, MaskAt, Slot, Client, Merging
<1> HIDE DEF FrameTexts, FrameMasks
<1> QED
  BY <1>1, <1>2 DEF OnceInv

(* Every step keeps OnceInv. *)
LEMMA OnceSteps ==
  ASSUME CombinerInv, OnceInv, FrameFits, [Next]_vars
  PROVE  OnceInv'
<1>1. ASSUME NEW text \in Texts, NEW to \in Recipients, Issue(text, to)
      PROVE  OnceInv'
  BY <1>1, IdleOnce DEF Issue, Merging, frameVars
<1>2. ASSUME NEW matched \in (SUBSET Clients) \ {{}}, StartFrame(matched)
      PROVE  OnceInv'
  BY <1>2, StartFrameOnce
<1>3. CASE Share
  BY <1>3, ShareOnce
<1>4. CASE Insert
  BY <1>4, InsertOnce
<1>5. CASE NextMatch
  BY <1>5, NextMatchOnce
<1>6. CASE WriteFrame
  BY <1>6, IdleOnce DEF WriteFrame, Merging
<1>7. CASE SplitFrame
  <2>1. UNCHANGED <<serverVars, ringVars, frameVars>>
    BY <1>7 DEF SplitFrame
  <2> QED
    BY <2>1, OnceKept
<1>8. CASE UNCHANGED vars
  BY <1>8, OnceKept DEF vars
<1> QED
  BY <1>1, <1>2, <1>3, <1>4, <1>5, <1>6, <1>7, <1>8 DEF Next, Combine

(* BroadcastOnce: where the search in RunMerge starts and where it inserts *)
(* a command keeps the broadcasts of a frame in the order they were issued *)
(* in, and each of them once.                                              *)
THEOREM BroadcastOnceAlways == FrameFits => (Spec => []BroadcastOnce)
<1> SUFFICES ASSUME FrameFits PROVE Spec => []BroadcastOnce
  OBVIOUS
<1>1. Init => CombinerInv /\ OnceInv
  BY CombinerStarts DEF Init, OnceInv, Merging
<1>2. CombinerInv /\ OnceInv /\ [Next]_vars => CombinerInv' /\ OnceInv'
  BY CombinerSteps, OnceSteps
<1>3. CombinerInv /\ OnceInv => BroadcastOnce
  <2> SUFFICES ASSUME CombinerInv, OnceInv, Merging, TextsDiffer, OneOrAll,
                      NEW i \in firstServerCommand .. serverCommandSequence,
                      NEW j \in firstServerCommand .. serverCommandSequence,
                      TextAt(i) = TextAt(j), NEW k \in DOMAIN issued,
                      issued[k].text = TextAt(i), issued[k].mask = Clients,
                      i # j
               PROVE  FALSE
    BY DEF BroadcastOnce
  <2>1. Plain(issued)
    BY DEF Plain, TextsDiffer, OneOrAll
  <2>2. Ordered(issued, FrameTexts, firstServerCommand, serverCommandSequence)
    BY <2>1 DEF OnceInv, Orderly
  <2>3. /\ Everyones(issued, k, FrameTexts[i])
        /\ Everyones(issued, k, FrameTexts[j])
    BY DEF Everyones, FrameTexts
  <2>4. i < j \/ j < i
    BY DEF CombinerInv, FrameTypes, RingTypes
  <2>5. k < k
    BY <2>2, <2>3, <2>4 DEF Ordered
  <2>6. k \in Nat
    BY DEF CombinerInv, ServerTypes
  <2> QED
    BY <2>5, <2>6
<1> QED
  BY <1>1, <1>2, <1>3, PTL DEF Spec

-----------------------------------------------------------------------------
(* The dictionary: greatest numbers first. *)

(* The least of a set. *)
LEMMA MinIn ==
  ASSUME NEW T \in SUBSET Nat, T # {}
  PROVE  Min(T) \in T /\ \A m \in T : Min(T) <= m
  BY Least DEF Min

(* The largest of a bounded set. *)
LEMMA MaxIn ==
  ASSUME NEW n \in Nat, NEW T \in SUBSET (0 .. n), T # {}
  PROVE  Max(T) \in T /\ \A m \in T : m <= Max(T)
<1> DEFINE U == {n - t : t \in T}
<1>1. U \in SUBSET Nat /\ U # {}
  <2>1. \A t \in T : n - t \in Nat
    OBVIOUS
  <2> QED
    BY <2>1
<1>2. PICK u \in U : \A v \in U : u <= v
  BY <1>1, Least
<1>3. PICK t \in T : u = n - t
  BY <1>2
<1>4. \A m \in T : t >= m
  BY <1>2, <1>3
<1>5. \E x \in T : \A y \in T : x >= y
  BY <1>4
<1>6. Max(T) \in T /\ \A y \in T : Max(T) >= y
  BY <1>5, Zenon DEF Max
<1> QED
  BY <1>6

-----------------------------------------------------------------------------
(* A text against a reference. *)

Tokens == Seq(Letters)
TokenLists == Seq(Tokens)

(* The two parts of a token make it again. *)
LEMMA CutJoin ==
  ASSUME NEW t \in Tokens, NEW n \in 0 .. Len(t)
  PROVE  SubSeq(t, 1, n) \o SubSeq(t, n + 1, Len(t)) = t
<1>1. t \in Seq(Letters) /\ 1 \in 1 .. Len(t) + 1
       /\ n \in 1 - 1 .. Len(t) /\ Len(t) \in n .. Len(t)
  BY DEF Tokens
<1>2. SubSeq(t, 1, n) \o SubSeq(t, n + 1, Len(t)) = SubSeq(t, 1, Len(t))
  BY <1>1, ConcatAdjacentSubSeq
<1> QED
  BY <1>1, <1>2, SubSeqFull

(* A run of tokens is not longer than the command. *)
LEMMA RunBounded ==
  ASSUME NEW c \in TokenLists, NEW i, NEW ref, NEW j
  PROVE  TokenRunLen(c, i, ref, j) \in 0 .. Len(c)
<1> DEFINE T == {k \in 0 .. Len(c) :
                   /\ k = 0 \/ (i + k - 1 <= Len(c) /\ j + k - 1 <= Len(ref))
                   /\ \A m \in 0 .. k - 1 : c[i + m] = ref[j + m]}
<1>1. Len(c) \in Nat
  BY DEF TokenLists
<1>2. 0 \in T
  BY <1>1
<1>3. T \in SUBSET (0 .. Len(c)) /\ T # {}
  BY <1>2
<1>4. Max(T) \in T
  <2> HIDE DEF T
  <2> QED
    BY <1>1, <1>3, MaxIn
<1> QED
  BY <1>4 DEF TokenRunLen

(* A jump goes to a token of the reference that is the one to be written. *)
LEMMA JumpFits ==
  ASSUME NEW c \in TokenLists, NEW i \in 1 .. Len(c), NEW ref \in TokenLists,
         \E j \in DOMAIN ref : ref[j] = c[i]
  PROVE  BestJump(c, i, ref) \in DOMAIN ref /\ ref[BestJump(c, i, ref)] = c[i]
<1> DEFINE same == {j \in DOMAIN ref : ref[j] = c[i]}
           run(j) == TokenRunLen(c, i + 1, ref, j + 1)
           runs == {run(j) : j \in same}
           best == {j \in same : \A k \in same : run(k) <= run(j)}
<1>1. Len(c) \in Nat /\ \A j : run(j) \in 0 .. Len(c)
  BY RunBounded DEF TokenLists
<1>2. same # {} /\ same \subseteq Nat
  BY DEF TokenLists
<1>3. runs \in SUBSET (0 .. Len(c)) /\ runs # {}
  BY <1>1, <1>2, Zenon
<1>4. Max(runs) \in runs /\ \A m \in runs : m <= Max(runs)
  <2> HIDE DEF runs
  <2> QED
    BY <1>1, <1>3, MaxIn
<1>5. best \in SUBSET Nat /\ best # {}
  <2>1. PICK j \in same : run(j) = Max(runs)
    BY <1>4
  <2>2. \A k \in same : run(k) <= run(j)
    BY <1>4, <2>1
  <2>3. j \in best
    BY <2>2
  <2> QED
    BY <1>2, <2>3
<1>6. Min(best) \in best
  <2> HIDE DEF best
  <2> QED
    BY <1>5, MinIn
<1> QED
  BY <1>6 DEF BestJump

(* What two tokens have in common begins both. *)
LEMMA CommonFits ==
  ASSUME NEW t \in Tokens, NEW o \in Tokens
  PROVE  /\ Common(t, o) \in 0 .. Len(t)
         /\ SubSeq(o, 1, Common(t, o)) = SubSeq(t, 1, Common(t, o))
<1> DEFINE T == {k \in 0 .. Len(t) :
                   k <= Len(o) /\ k <= MaxPrefix /\ SubSeq(t, 1, k) = SubSeq(o, 1, k)}
<1>1. Len(t) \in Nat /\ Len(o) \in Nat /\ MaxPrefix \in Nat
  BY DictionaryAssumption DEF Tokens
<1>2. SubSeq(t, 1, 0) = SubSeq(o, 1, 0)
  BY DEF Tokens
<1>3. T \in SUBSET (0 .. Len(t)) /\ T # {}
  <2>1. 0 \in T
    BY <1>1, <1>2
  <2> QED
    BY <2>1
<1>4. Max(T) \in T
  <2> HIDE DEF T
  <2> QED
    BY <1>1, <1>3, MaxIn
<1> QED
  BY <1>4 DEF Common

(* Whatever token of the reference is next, an item makes the token that   *)
(* it was made of.                                                         *)
LEMMA TokenExact ==
  ASSUME NEW c \in TokenLists, NEW i \in 1 .. Len(c), NEW ref \in TokenLists,
         NEW r \in Nat \ {0}
  PROVE  Token(Item(c, i, ref, r), ref, r) = c[i]
<1>1. c[i] \in Tokens /\ Len(c[i]) \in Nat
  BY DEF TokenLists, Tokens
<1>2. CASE r <= Len(ref) /\ c[i] = ref[r]
  BY <1>2 DEF Token, Item
<1>3. CASE ~ (r <= Len(ref) /\ c[i] = ref[r]) /\ JumpPays(c, i, ref, r)
  <2>1. ref[BestJump(c, i, ref)] = c[i]
    BY <1>3, JumpFits DEF JumpPays
  <2>2. Item(c, i, ref, r) = [how |-> "jump", to |-> BestJump(c, i, ref)]
    BY <1>3 DEF Item
  <2> QED
    BY <2>1, <2>2 DEF Token
<1>4. CASE ~ (r <= Len(ref) /\ c[i] = ref[r]) /\ ~ JumpPays(c, i, ref, r)
  <2> DEFINE n == IF r <= Len(ref) THEN Common(c[i], ref[r]) ELSE 0
             rest == SubSeq(c[i], n + 1, Len(c[i]))
  <2>1. Item(c, i, ref, r) = [how |-> "changed", prefix |-> n, rest |-> rest]
    BY <1>4 DEF Item
  <2>2. Token(Item(c, i, ref, r), ref, r) =
          (IF r <= Len(ref) THEN SubSeq(ref[r], 1, n) ELSE <<>>) \o rest
    <3> DEFINE x == Item(c, i, ref, r)
    <3>1. x = [how |-> "changed", prefix |-> n, rest |-> rest]
      BY <2>1
    <3> HIDE DEF n, rest, x
    <3>3. x.how = "changed" /\ x.prefix = n /\ x.rest = rest
      BY <3>1
    <3>2. Token(x, ref, r) =
            (IF r <= Len(ref) THEN SubSeq(ref[r], 1, n) ELSE <<>>) \o rest
      BY <3>3 DEF Token
    <3> QED
      BY <3>2 DEF x
  <2>3. CASE r <= Len(ref)
    <3>1. ref[r] \in Tokens
      BY <2>3 DEF TokenLists
    <3>2. n \in 0 .. Len(c[i]) /\ SubSeq(ref[r], 1, n) = SubSeq(c[i], 1, n)
      BY <1>1, <2>3, <3>1, CommonFits
    <3> HIDE DEF n
    <3> QED
      BY <1>1, <2>2, <2>3, <3>2, CutJoin
  <2>4. CASE ~ (r <= Len(ref))
    <3>1. n = 0
      BY <2>4
    <3>2. rest = SubSeq(c[i], 1, Len(c[i]))
      BY <3>1
    <3>3. <<>> \o SubSeq(c[i], 1, Len(c[i])) = c[i]
      BY <1>1 DEF Tokens
    <3> QED
      BY <2>2, <2>4, <3>2, <3>3
  <2> QED
    BY <2>3, <2>4
<1> QED
  BY <1>2, <1>3, <1>4

(* The next token of the reference before token i is written. *)
PositionAt(c, ref, at, i) ==
  IF i = 1 THEN 1 ELSE NextRef(Item(c, i - 1, ref, at[i - 1]), at[i - 1])

(* The places in the reference where the writer's loop is. *)
LEMMA PositionsExist ==
  ASSUME NEW c, NEW ref, NEW n \in Nat
  PROVE  \E at : at = [i \in 1 .. n |-> PositionAt(c, ref, at, i)]
<1> DEFINE T == {m \in Nat : ~ \E at : at = [i \in 1 .. m |-> PositionAt(c, ref, at, i)]}
<1>1. SUFFICES ASSUME n \in T PROVE FALSE
  OBVIOUS
<1>2. PICK m \in T : \A k \in T : m <= k
  <2> HIDE DEF T
  <2>1. T # {}
    BY <1>1
  <2>2. T \in SUBSET Nat
    BY DEF T
  <2> QED
    BY <2>1, <2>2, Least
<1>3. m # 0
  <2>1. ASSUME m = 0 PROVE FALSE
    <3> DEFINE f == [i \in 1 .. 0 |-> 1]
    <3>1. f = [i \in 1 .. 0 |-> PositionAt(c, ref, f, i)]
      OBVIOUS
    <3> QED
      BY <2>1, <3>1
  <2> QED
    BY <2>1
<1>4. m \in Nat /\ m - 1 \in Nat /\ m - 1 \notin T
  BY <1>2, <1>3
<1>5. PICK f : f = [i \in 1 .. m - 1 |-> PositionAt(c, ref, f, i)]
  BY <1>4
<1> DEFINE e == IF m = 1 THEN 1 ELSE NextRef(Item(c, m - 1, ref, f[m - 1]), f[m - 1])
           g == [i \in 1 .. m |-> IF i = m THEN e ELSE f[i]]
<1>6. \A i \in 1 .. m : g[i] = PositionAt(c, ref, g, i)
  <2>1. ASSUME NEW i \in 1 .. m PROVE g[i] = PositionAt(c, ref, g, i)
    <3>1. i = 1 \/ g[i - 1] = f[i - 1]
      BY <1>4
    <3> QED
      BY <1>4, <1>5, <3>1 DEF PositionAt
  <2> QED
    BY <2>1
<1>7. g = [i \in 1 .. m |-> PositionAt(c, ref, g, i)]
  BY <1>6
<1> QED
  BY <1>2, <1>7

Positions(c, ref, at) == at = [i \in 1 .. Len(c) + 1 |-> PositionAt(c, ref, at, i)]

(* Delta has an item for each token, made at its place. *)
LEMMA DeltaItems ==
  ASSUME NEW c \in TokenLists, NEW ref
  PROVE  \E at : /\ Positions(c, ref, at)
                 /\ Delta(c, ref) = [i \in 1 .. Len(c) |-> Item(c, i, ref, at[i])]
<1> DEFINE at == CHOOSE f : Positions(c, ref, f)
<1>1. Len(c) + 1 \in Nat
  BY DEF TokenLists
<1>2. Positions(c, ref, at)
  BY <1>1, PositionsExist DEF Positions
<1>3. Delta(c, ref) = [i \in 1 .. Len(c) |-> Item(c, i, ref, at[i])]
  BY DEF Delta, Positions, PositionAt
<1> QED
  BY <1>2, <1>3

(* A place is never before the first token. *)
LEMMA NextPositive ==
  ASSUME NEW c \in TokenLists, NEW i \in 1 .. Len(c), NEW ref \in TokenLists,
         NEW r \in Nat \ {0}
  PROVE  NextRef(Item(c, i, ref, r), r) \in Nat \ {0}
<1> DEFINE x == Item(c, i, ref, r)
<1>1. CASE x.how = "jump"
  <2>1. JumpPays(c, i, ref, r) /\ x = [how |-> "jump", to |-> BestJump(c, i, ref)]
    BY <1>1 DEF Item
  <2>2. BestJump(c, i, ref) \in DOMAIN ref
    BY <2>1, JumpFits DEF JumpPays
  <2>3. x.to \in Nat
    BY <2>1, <2>2 DEF TokenLists
  <2> HIDE DEF x
  <2>4. NextRef(x, r) \in Nat \ {0}
    BY <1>1, <2>3 DEF NextRef
  <2> QED
    BY <2>4 DEF x
<1>2. CASE x.how # "jump"
  BY <1>2 DEF NextRef
<1> QED
  BY <1>1, <1>2

(* None of them is. *)
LEMMA PositionsPositive ==
  ASSUME NEW c \in TokenLists, NEW ref \in TokenLists, NEW at, Positions(c, ref, at)
  PROVE  \A i \in 1 .. Len(c) + 1 : at[i] \in Nat \ {0}
<1> DEFINE T == {i \in 1 .. Len(c) + 1 : at[i] \notin Nat \ {0}}
<1>1. SUFFICES ASSUME T # {} PROVE FALSE
  OBVIOUS
<1>2. Len(c) \in Nat /\ T \in SUBSET Nat
  BY DEF TokenLists
<1>3. PICK i \in T : \A j \in T : i <= j
  <2> HIDE DEF T
  <2> QED
    BY <1>1, <1>2, Least
<1>4. at[i] = PositionAt(c, ref, at, i)
  BY <1>3 DEF Positions
<1>5. i # 1
  BY <1>4 DEF PositionAt
<1>6. i - 1 \in 1 .. Len(c) /\ i - 1 \notin T
  BY <1>2, <1>3, <1>5
<1>7. at[i - 1] \in Nat \ {0}
  BY <1>2, <1>6
<1>8. at[i] = NextRef(Item(c, i - 1, ref, at[i - 1]), at[i - 1])
  BY <1>4, <1>5 DEF PositionAt
<1>9. at[i] \in Nat \ {0}
  BY <1>6, <1>7, <1>8, NextPositive
<1> QED
  BY <1>3, <1>9

NextAt(items, at, i) ==
  IF i = 1 THEN 1 ELSE NextRef(items[i - 1], at[i - 1])

(* The reader is at the same token of the reference as the writer was. *)
LEMMA SamePositions ==
  ASSUME NEW n \in Nat, NEW items, NEW f, NEW g,
         f = [i \in 1 .. n |-> NextAt(items, f, i)],
         g = [i \in 1 .. n |-> NextAt(items, g, i)]
  PROVE  \A i \in 1 .. n : f[i] = g[i]
<1> DEFINE T == {i \in 1 .. n : f[i] # g[i]}
<1>1. SUFFICES ASSUME T # {} PROVE FALSE
  OBVIOUS
<1>2. PICK i \in T : \A j \in T : i <= j
  <2>1. T \in SUBSET Nat
    OBVIOUS
  <2> HIDE DEF T
  <2> QED
    BY <1>1, <2>1, Least
<1>3. f[i] = NextAt(items, f, i) /\ g[i] = NextAt(items, g, i)
  <2>1. i \in 1 .. n
    BY <1>2
  <2> HIDE DEF T
  <2> QED
    BY <2>1
<1>4. i # 1
  BY <1>2, <1>3 DEF NextAt
<1>5. i - 1 \in 1 .. n /\ i - 1 \notin T
  BY <1>2, <1>4
<1>6. f[i - 1] = g[i - 1]
  BY <1>5
<1> QED
  BY <1>2, <1>3, <1>6 DEF NextAt

(* Every text comes out of its changes as it went in, whatever it was      *)
(* written against: the two loops over tokens of                           *)
(* WriteDeltaOrRawServerCommand and CL_ParseMergedCommandString.           *)
THEOREM RebuildExact ==
  ASSUME NEW c \in TokenLists, NEW ref \in TokenLists
  PROVE  Rebuild(Delta(c, ref), ref) = c
<1>1. PICK at : /\ Positions(c, ref, at)
                /\ Delta(c, ref) = [i \in 1 .. Len(c) |-> Item(c, i, ref, at[i])]
  BY DeltaItems
<1> DEFINE items == Delta(c, ref)
           n == Len(c) + 1
           back == CHOOSE f : f = [i \in 1 .. n |-> NextAt(items, f, i)]
<1>2. Len(c) \in Nat /\ n \in Nat
  BY DEF TokenLists
<1>3. Len(items) = Len(c)
  BY <1>1, <1>2
<1>4. at = [i \in 1 .. n |-> NextAt(items, at, i)]
  <2>1. at = [i \in 1 .. n |-> PositionAt(c, ref, at, i)]
    BY <1>1 DEF Positions
  <2>2. \A i \in 1 .. n : PositionAt(c, ref, at, i) = NextAt(items, at, i)
    BY <1>1, <1>2 DEF PositionAt, NextAt
  <2> HIDE DEF items, n
  <2>3. [i \in 1 .. n |-> PositionAt(c, ref, at, i)] = [i \in 1 .. n |-> NextAt(items, at, i)]
    BY <2>2
  <2> QED
    BY <2>1, <2>3
<1>5. back = [i \in 1 .. n |-> NextAt(items, back, i)]
  BY <1>4
<1>6. Rebuild(items, ref) = [i \in 1 .. Len(items) |-> Token(items[i], ref, back[i])]
  BY <1>3 DEF Rebuild, NextAt
<1> HIDE DEF back
<1>7. \A i \in 1 .. n : back[i] = at[i]
  <2> HIDE DEF items, n
  <2> QED
    BY <1>2, <1>4, <1>5, SamePositions
<1>8. \A i \in 1 .. Len(c) : at[i] \in Nat \ {0}
  BY <1>1, <1>2, PositionsPositive
<1>9. ASSUME NEW i \in 1 .. Len(c)
      PROVE  Token(items[i], ref, back[i]) = c[i]
  <2>1. items[i] = Item(c, i, ref, at[i]) /\ back[i] = at[i]
    BY <1>1, <1>2, <1>7
  <2> HIDE DEF items
  <2> QED
    BY <1>8, <2>1, TokenExact
<1>10. c = [i \in 1 .. Len(c) |-> c[i]]
  BY DEF TokenLists
<1>11. Rebuild(items, ref) = [i \in 1 .. Len(c) |-> c[i]]
  <2> HIDE DEF items
  <2> QED
    BY <1>3, <1>6, <1>9
<1> QED
  BY <1>10, <1>11

-----------------------------------------------------------------------------
(* The dictionaries. *)

Dictionaries == [buffer : [DictSlots -> TokenLists], count : Nat]

Items == [how : {"buffered"}, distance : Nat \ {0}]
           \cup [how : {"raw"}, text : Commands]
           \cup [how : {"delta"}, distance : Nat \ {0},
                 items : {Delta(c, ref) : c \in Commands, ref \in TokenLists}]

(* What the reader makes of an item with dictionary d. *)
TextOf(x, d) ==
  CASE x.how = "buffered" -> TextBack(d, x.distance)
    [] x.how = "raw" -> x.text
    [] OTHER -> Rebuild(x.items, TextBack(d, x.distance))

KeptIn(x, text, d) == IF x.how = "buffered" THEN d ELSE Add(d, text)

(* The dictionaries h[0], h[1], ... of a writer that wrote the texts w as  *)
(* the file f.                                                             *)
History(h, f, w) ==
  /\ h \in [0 .. Len(f) -> Dictionaries]
  /\ h[0] = NoDictionary
  /\ \A k \in 1 .. Len(f) :
       /\ TextOf(f[k], h[k - 1]) = w[k]
       /\ h[k] = KeptIn(f[k], w[k], h[k - 1])

(* The two programs are at two places of one history. *)
HistoryInv ==
  /\ written \in Seq(Commands) /\ got \in Seq(Commands) /\ stream \in Seq(Items)
  /\ Len(written) = Len(stream) /\ Len(got) <= Len(stream)
  /\ \A k \in 1 .. Len(got) : got[k] = written[k]
  /\ writer \in Dictionaries
  /\ \E h : /\ History(h, stream, written)
            /\ h[Len(stream)] = writer
            /\ h[Len(got)] = reader

(* The history of dictionaries at the start. *)
LEMMA HistoryInit == DictionaryInit => HistoryInv
<1> SUFFICES ASSUME DictionaryInit PROVE HistoryInv
  OBVIOUS
<1>1. written = <<>> /\ stream = <<>> /\ got = <<>>
      /\ writer = NoDictionary /\ reader = NoDictionary
  BY DEF DictionaryInit
<1>2. NoDictionary \in Dictionaries
  <2>1. <<<<>>>> \in TokenLists
    BY DEF TokenLists, Tokens
  <2> QED
    BY <2>1 DEF NoDictionary, Dictionaries, EmptyText
<1> DEFINE h == [k \in 0 .. 0 |-> NoDictionary]
<1>3. History(h, stream, written) /\ h[0] = NoDictionary
  BY <1>1, <1>2 DEF History
<1> HIDE DEF h
<1> QED
  BY <1>1, <1>2, <1>3 DEF HistoryInv

(* A masked number is a slot of the dictionary. *)
LEMMA SlotOf ==
  ASSUME NEW a \in Int
  PROVE  a % DictSize \in DictSlots
  BY DictionaryAssumption DEF DictSlots

(* What a dictionary has is a text. *)
LEMMA AtType ==
  ASSUME NEW d \in Dictionaries, NEW n \in Nat
  PROVE  TextBack(d, n) \in TokenLists
<1>1. d.count - n \in Int
  BY DEF Dictionaries
<1>2. (d.count - n) % DictSize \in DictSlots
  BY <1>1, SlotOf
<1> QED
  BY <1>2 DEF TextBack, Dictionaries

(* A text more makes a dictionary. *)
LEMMA AddType ==
  ASSUME NEW d \in Dictionaries, NEW text \in TokenLists
  PROVE  Add(d, text) \in Dictionaries
<1>1. d.buffer \in [DictSlots -> TokenLists] /\ d.count \in Nat
  BY DEF Dictionaries
<1>2. [d.buffer EXCEPT ![d.count % DictSize] = text] \in [DictSlots -> TokenLists]
  BY <1>1
<1> QED
  BY <1>1, <1>2 DEF Add, Dictionaries

(* Commands are texts. *)
LEMMA CommandTexts == Commands \subseteq TokenLists
  BY DictionaryAssumption DEF TokenLists, Tokens

(* A history goes on with what the writer writes next. *)
LEMMA HistoryGoesOn ==
  ASSUME NEW f \in Seq(Items), NEW w \in Seq(Commands), Len(w) = Len(f),
         NEW h, History(h, f, w), NEW x \in Items, NEW text \in Commands,
         NEW d \in Dictionaries,
         TextOf(x, h[Len(f)]) = text, d = KeptIn(x, text, h[Len(f)])
  PROVE  \E g : /\ History(g, Append(f, x), Append(w, text))
                /\ \A k \in 0 .. Len(f) : g[k] = h[k]
                /\ g[Len(f) + 1] = d
<1> DEFINE n == Len(f)
           g == [k \in 0 .. n + 1 |-> IF k = n + 1 THEN d ELSE h[k]]
           ff == Append(f, x)
           ww == Append(w, text)
<1>1. n \in Nat /\ Len(ff) = n + 1 /\ Len(ww) = n + 1
  OBVIOUS
<1>2. /\ \A k \in 1 .. n : ff[k] = f[k] /\ ww[k] = w[k]
      /\ ff[n + 1] = x /\ ww[n + 1] = text
  OBVIOUS
<1>3. /\ h \in [0 .. n -> Dictionaries] /\ h[0] = NoDictionary
      /\ \A k \in 1 .. n : /\ TextOf(f[k], h[k - 1]) = w[k]
                           /\ h[k] = KeptIn(f[k], w[k], h[k - 1])
  BY DEF History
<1>4. TextOf(x, h[n]) = text /\ d = KeptIn(x, text, h[n])
  OBVIOUS
<1> HIDE DEF n, ff, ww
<1>5. \A k \in 0 .. n : g[k] = h[k]
  BY <1>1
<1>6. g[n + 1] = d /\ g \in [0 .. n + 1 -> Dictionaries]
  BY <1>1, <1>3
<1> HIDE DEF g
<1>7. ASSUME NEW k \in 1 .. n + 1
      PROVE  /\ TextOf(ff[k], g[k - 1]) = ww[k]
             /\ g[k] = KeptIn(ff[k], ww[k], g[k - 1])
  <2>1. CASE k = n + 1
    <3>1. k - 1 = n /\ n \in 0 .. n
      BY <1>1, <2>1
    <3> QED
      BY <1>2, <1>4, <1>5, <1>6, <2>1, <3>1, Zenon
  <2>2. CASE k # n + 1
    <3>1. k \in 1 .. n /\ k \in 0 .. n /\ k - 1 \in 0 .. n
      BY <1>1, <2>2
    <3> QED
      BY <1>2, <1>3, <1>5, <3>1, Zenon
  <2> QED
    BY <2>1, <2>2
<1>8. g[0] = NoDictionary
  BY <1>1, <1>3, <1>5
<1>9. History(g, ff, ww)
  BY <1>1, <1>6, <1>7, <1>8 DEF History
<1> QED
  BY <1>5, <1>6, <1>9 DEF n, ff, ww

(* A command that is written adds its dictionary to the history. *)
LEMMA PutKeepsHistory ==
  ASSUME HistoryInv, NEW text \in Commands, NEW x \in Items,
         NEW d \in Dictionaries, Put(text, x, d),
         TextOf(x, writer) = text, d = KeptIn(x, text, writer)
  PROVE  HistoryInv'
<1>1. /\ stream \in Seq(Items) /\ written \in Seq(Commands) /\ got \in Seq(Commands)
      /\ Len(written) = Len(stream) /\ Len(got) <= Len(stream)
      /\ \A k \in 1 .. Len(got) : got[k] = written[k]
  BY DEF HistoryInv
<1>2. PICK h : /\ History(h, stream, written)
               /\ h[Len(stream)] = writer
               /\ h[Len(got)] = reader
  BY DEF HistoryInv
<1>3. /\ stream' = Append(stream, x) /\ written' = Append(written, text)
      /\ writer' = d /\ reader' = reader /\ got' = got
  BY DEF Put
<1>4. PICK g : /\ History(g, stream', written')
               /\ \A k \in 0 .. Len(stream) : g[k] = h[k]
               /\ g[Len(stream) + 1] = d
  <2>1. TextOf(x, h[Len(stream)]) = text /\ d = KeptIn(x, text, h[Len(stream)])
    BY <1>2
  <2>2. \E g : /\ History(g, Append(stream, x), Append(written, text))
               /\ \A k \in 0 .. Len(stream) : g[k] = h[k]
               /\ g[Len(stream) + 1] = d
    BY ONLY <1>1, <1>2, <2>1, HistoryGoesOn
  <2> QED
    BY <1>3, <2>2
<1>5. /\ stream' \in Seq(Items) /\ written' \in Seq(Commands)
      /\ Len(stream') = Len(stream) + 1 /\ Len(written') = Len(stream')
      /\ Len(got) \in 0 .. Len(stream)
      /\ \A k \in 1 .. Len(got) : written'[k] = written[k]
  BY <1>1, <1>3
<1>6. g[Len(stream')] = writer' /\ g[Len(got')] = reader'
  BY <1>2, <1>3, <1>4, <1>5
<1>7. \E e : History(e, stream', written') /\ e[Len(stream')] = writer' /\ e[Len(got')] = reader'
  BY <1>4, <1>6
<1>8. /\ got' \in Seq(Commands) /\ Len(got') <= Len(stream')
      /\ \A k \in 1 .. Len(got') : got'[k] = written'[k]
  BY <1>1, <1>3, <1>5
<1> QED
  BY <1>3, <1>5, <1>7, <1>8 DEF HistoryInv

(* A command that is read gives the reader the next dictionary of it. *)
LEMMA ReadKeepsHistory ==
  ASSUME HistoryInv, Read
  PROVE  HistoryInv'
<1>1. /\ stream \in Seq(Items) /\ written \in Seq(Commands) /\ got \in Seq(Commands)
      /\ Len(written) = Len(stream) /\ Len(got) <= Len(stream)
      /\ \A k \in 1 .. Len(got) : got[k] = written[k]
  BY DEF HistoryInv
<1>2. PICK h : /\ History(h, stream, written)
               /\ h[Len(stream)] = writer
               /\ h[Len(got)] = reader
  BY DEF HistoryInv
<1> DEFINE n == Len(got) + 1
           x == stream[n]
           text == TextOf(x, reader)
<1>3. /\ Len(got) < Len(stream)
      /\ got' = Append(got, text) /\ reader' = KeptIn(x, text, reader)
      /\ writer' = writer /\ written' = written /\ stream' = stream
  BY DEF Read, TextOf, Kept, KeptIn
<1>4. n \in 1 .. Len(stream) /\ n - 1 = Len(got)
  BY <1>1, <1>3
<1> HIDE DEF n
<1>5. TextOf(x, h[n - 1]) = written[n] /\ h[n] = KeptIn(x, written[n], h[n - 1])
  BY <1>2, <1>4 DEF History
<1>6. text = written[n] /\ h[n] = reader'
  BY <1>2, <1>3, <1>4, <1>5
<1> HIDE DEF text
<1>7. /\ Len(got') = n /\ got' \in Seq(Commands)
      /\ \A k \in 1 .. n : got'[k] = written[k]
  <2>1. written[n] \in Commands
    BY <1>1, <1>4
  <2>2. n = Len(got) + 1
    BY DEF n
  <2> QED
    BY <1>1, <1>3, <1>6, <2>1, <2>2
<1>8. \E e : History(e, stream', written') /\ e[Len(stream')] = writer' /\ e[Len(got')] = reader'
  BY <1>2, <1>3, <1>6, <1>7
<1> QED
  BY <1>1, <1>3, <1>4, <1>7, <1>8 DEF HistoryInv

(* What distances can be used. *)
LEMMA DistanceBounds ==
  ASSUME NEW d \in Dictionaries, NEW far \in Nat, NEW n
  PROVE  n \in Distances(d, far) <=> n \in Nat \ {0} /\ n <= far /\ n <= d.count
<1> DEFINE m == Min({far, d.count})
<1>1. d.count \in Nat
  BY DEF Dictionaries
<1>2. m \in {far, d.count} /\ m <= far /\ m <= d.count
  <2>1. {far, d.count} \in SUBSET Nat /\ {far, d.count} # {}
    BY <1>1
  <2> QED
    BY <2>1, MinIn
<1>3. Distances(d, far) = 1 .. m
  BY DEF Distances
<1> HIDE DEF m
<1> QED
  BY <1>1, <1>2, <1>3

Once(d) ==
  \A m, n \in Distances(d, DictSize) : TextBack(d, m) = TextBack(d, n) => m = n

(* What a text that is added does to the places. *)
LEMMA AddShifts ==
  ASSUME NEW d \in Dictionaries, NEW text \in TokenLists
  PROVE  /\ TextBack(Add(d, text), 1) = text
         /\ \A n \in 2 .. DictSize : TextBack(Add(d, text), n) = TextBack(d, n - 1)
<1>1. /\ d.buffer \in [DictSlots -> TokenLists] /\ d.count \in Nat
      /\ DictSize \in Nat \ {0}
  BY DictionaryAssumption DEF Dictionaries
<1> DEFINE s == d.count % DictSize
           e == Add(d, text)
<1>2. e.buffer = [d.buffer EXCEPT ![s] = text] /\ e.count = d.count + 1
  BY DEF Add
<1>3. s \in DictSlots
  BY <1>1, SlotOf
<1> HIDE DEF e
<1>4. TextBack(e, 1) = text
  <2>1. e.count - 1 = d.count
    BY <1>1, <1>2
  <2> HIDE DEF s
  <2>2. e.buffer[s] = text
    BY <1>1, <1>2, <1>3
  <2> QED
    BY <2>1, <2>2 DEF TextBack, s
<1>5. ASSUME NEW n \in 2 .. DictSize
      PROVE  TextBack(e, n) = TextBack(d, n - 1)
  <2> DEFINE t == (d.count - (n - 1)) % DictSize
  <2>1. e.count - n = d.count - (n - 1) /\ d.count - (n - 1) \in Int
    BY <1>1, <1>2
  <2>2. t # s
    <3>1. d.count - (n - 1) < d.count /\ d.count - (d.count - (n - 1)) < DictSize
      BY <1>1
    <3> QED
      BY <1>1, <2>1, <3>1, ResiduesDiffer
  <2>3. t \in DictSlots
    BY <2>1, SlotOf
  <2> HIDE DEF s, t
  <2>4. e.buffer[t] = d.buffer[t]
    BY <1>1, <1>2, <2>2, <2>3
  <2> QED
    BY <2>1, <2>4 DEF TextBack, t
<1> QED
  BY <1>4, <1>5 DEF e

(* A text that is not in the dictionary is there once after it was added. *)
LEMMA AddOnce ==
  ASSUME NEW d \in Dictionaries, NEW text \in TokenLists, Once(d),
         \A n \in Distances(d, DictSize) : TextBack(d, n) # text
  PROVE  Once(Add(d, text))
<1> DEFINE e == Add(d, text)
<1>1. e \in Dictionaries /\ d.count \in Nat /\ e.count = d.count + 1
      /\ DictSize \in Nat \ {0}
  BY AddType, DictionaryAssumption DEF Dictionaries, Add
<1>2. TextBack(e, 1) = text /\ \A n \in 2 .. DictSize : TextBack(e, n) = TextBack(d, n - 1)
  BY AddShifts
<1> HIDE DEF e
<1>3. ASSUME NEW n \in Distances(e, DictSize), n # 1
      PROVE  /\ n \in Nat /\ n - 1 \in Distances(d, DictSize)
             /\ TextBack(e, n) = TextBack(d, n - 1)
  <2>1. n \in Nat \ {0} /\ n <= DictSize /\ n <= e.count
    BY <1>1, DistanceBounds
  <2>2. n \in 2 .. DictSize /\ n - 1 \in Nat \ {0} /\ n - 1 <= DictSize /\ n - 1 <= d.count
    BY <1>1, <1>3, <2>1
  <2> QED
    BY <1>1, <1>2, <2>2, DistanceBounds
<1>4. ASSUME NEW m \in Distances(e, DictSize), NEW n \in Distances(e, DictSize),
             TextBack(e, m) = TextBack(e, n)
      PROVE  m = n
  <2>1. CASE m = 1 /\ n # 1
    BY <1>2, <1>3, <1>4, <2>1
  <2>2. CASE m # 1 /\ n = 1
    BY <1>2, <1>3, <1>4, <2>2
  <2>3. CASE m # 1 /\ n # 1
    <3>1. m - 1 = n - 1 /\ m \in Nat /\ n \in Nat
      BY <1>3, <1>4, <2>3 DEF Once
    <3> QED
      BY <3>1
  <2> QED
    BY <2>1, <2>2, <2>3
<1>5. Once(e)
  BY <1>4 DEF Once
<1> QED
  BY <1>5 DEF e

-----------------------------------------------------------------------------
(* The steps. *)

DictionaryInv == HistoryInv /\ Once(writer)

(* The search of the writer finds texts that are there. *)
LEMMA PlacesReached ==
  ASSUME NEW d \in Dictionaries, NEW text, d = writer
  PROVE  /\ Occurrences(text) \in SUBSET (0 .. DictSize)
         /\ \A n \in Occurrences(text) : n \in Nat \ {0} /\ TextBack(d, n) = text
<1>1. DictSize \in Nat
  BY DictionaryAssumption
<1> QED
  BY <1>1, DistanceBounds DEF Occurrences

(* A command that is known is written as its distance. *)
LEMMA BufferedStep ==
  ASSUME DictionaryInv, NEW text \in Commands, WriteBuffered(text)
  PROVE  DictionaryInv'
<1>1. writer \in Dictionaries /\ HistoryInv /\ Once(writer) /\ DictSize \in Nat
  BY DictionaryAssumption DEF DictionaryInv, HistoryInv
<1> DEFINE n == Max(Occurrences(text))
           x == [how |-> "buffered", distance |-> n]
<1>2. Occurrences(text) # {} /\ Put(text, x, writer)
  BY DEF WriteBuffered
<1>3. n \in Occurrences(text)
  BY <1>1, <1>2, PlacesReached, MaxIn
<1>4. n \in Nat \ {0} /\ TextBack(writer, n) = text
  BY <1>1, <1>3, PlacesReached
<1> HIDE DEF n
<1>5. x.how = "buffered" /\ x.distance = n /\ x \in Items
  BY <1>4 DEF Items
<1> HIDE DEF x
<1>6. TextOf(x, writer) = text /\ writer = KeptIn(x, text, writer)
  BY <1>4, <1>5 DEF TextOf, KeptIn
<1>7. HistoryInv'
  BY <1>1, <1>2, <1>5, <1>6, PutKeepsHistory
<1>8. writer' = writer
  BY <1>2 DEF Put
<1>9. Once(writer)'
  BY <1>1, <1>8 DEF Once, Distances, TextBack
<1> QED
  BY <1>7, <1>9 DEF DictionaryInv

(* A text that is not buffered is one that is nowhere in the dictionary.   *)
LEMMA KeptStep ==
  ASSUME DictionaryInv, NEW text \in Commands, NEW x \in Items,
         Occurrences(text) = {}, x.how # "buffered", TextOf(x, writer) = text,
         Put(text, x, Add(writer, text))
  PROVE  DictionaryInv'
<1>1. writer \in Dictionaries /\ HistoryInv /\ Once(writer) /\ text \in TokenLists
  BY CommandTexts DEF DictionaryInv, HistoryInv
<1>2. Add(writer, text) \in Dictionaries
  BY <1>1, AddType
<1>3. Add(writer, text) = KeptIn(x, text, writer)
  BY DEF KeptIn
<1>4. HistoryInv'
  BY <1>1, <1>2, <1>3, PutKeepsHistory
<1>5. \A n \in Distances(writer, DictSize) : TextBack(writer, n) # text
  BY DEF Occurrences
<1>6. Once(Add(writer, text))
  BY <1>1, <1>5, AddOnce
<1>7. writer' = Add(writer, text)
  BY DEF Put
<1>8. Once(writer)'
  BY <1>6, <1>7 DEF Once, Distances, TextBack
<1> QED
  BY <1>4, <1>8 DEF DictionaryInv

(* A command is written as it is. *)
LEMMA RawStep ==
  ASSUME DictionaryInv, NEW text \in Commands, WriteRaw(text)
  PROVE  DictionaryInv'
<1> DEFINE x == [how |-> "raw", text |-> text]
<1>1. Occurrences(text) = {} /\ Put(text, x, Add(writer, text))
  BY DEF WriteRaw
<1>2. x.how = "raw" /\ x.text = text /\ x \in Items
  BY DEF Items
<1> HIDE DEF x
<1>3. x.how # "buffered" /\ TextOf(x, writer) = text
  BY <1>2 DEF TextOf
<1> QED
  BY <1>1, <1>2, <1>3, KeptStep

(* A command is written as a difference to a known one. *)
LEMMA DeltaStep ==
  ASSUME DictionaryInv, NEW text \in Commands,
         NEW n \in Distances(writer, MaxDistance), WriteDelta(text, n)
  PROVE  DictionaryInv'
<1>1. writer \in Dictionaries /\ text \in TokenLists /\ MaxDistance \in Nat
  BY CommandTexts, DictionaryAssumption DEF DictionaryInv, HistoryInv
<1>2. n \in Nat \ {0}
  BY <1>1, DistanceBounds
<1> DEFINE ref == TextBack(writer, n)
           items == Delta(text, ref)
           x == [how |-> "delta", distance |-> n, items |-> items]
<1>3. ref \in TokenLists
  BY <1>1, <1>2, AtType
<1>4. Occurrences(text) = {} /\ Put(text, x, Add(writer, text))
  BY DEF WriteDelta
<1>5. items \in {Delta(c, r) : c \in Commands, r \in TokenLists}
  BY <1>3
<1>6. Rebuild(items, ref) = text
  BY <1>1, <1>3, RebuildExact
<1> HIDE DEF items
<1>7. x.how = "delta" /\ x.distance = n /\ x.items = items /\ x \in Items
  BY <1>2, <1>5 DEF Items
<1> HIDE DEF x
<1>8. x.how # "buffered" /\ TextOf(x, writer) = text
  BY <1>6, <1>7 DEF TextOf
<1> QED
  BY <1>4, <1>7, <1>8, KeptStep

(* The invariant at the start. *)
LEMMA DictionaryInvInit == DictionaryInit => DictionaryInv
<1> SUFFICES ASSUME DictionaryInit PROVE DictionaryInv
  OBVIOUS
<1>1. HistoryInv
  BY HistoryInit
<1>2. writer \in Dictionaries /\ writer.count = 0 /\ DictSize \in Nat
  BY <1>1, DictionaryAssumption DEF HistoryInv, DictionaryInit, NoDictionary
<1>3. \A n : n \notin Distances(writer, DictSize)
  BY <1>2, DistanceBounds
<1>4. Once(writer)
  BY <1>3 DEF Once
<1> QED
  BY <1>1, <1>4 DEF DictionaryInv

(* Every step keeps it. *)
LEMMA DictionaryInvNext == DictionaryInv /\ [DictionaryNext]_dictionaryVars => DictionaryInv'
<1> SUFFICES ASSUME DictionaryInv, [DictionaryNext]_dictionaryVars PROVE DictionaryInv'
  OBVIOUS
<1>1. ASSUME NEW text \in Commands, WriteBuffered(text) PROVE DictionaryInv'
  BY <1>1, BufferedStep
<1>2. ASSUME NEW text \in Commands, WriteRaw(text) PROVE DictionaryInv'
  BY <1>2, RawStep
<1>3. ASSUME NEW text \in Commands, NEW n \in Distances(writer, MaxDistance),
             WriteDelta(text, n)
      PROVE  DictionaryInv'
  BY <1>3, DeltaStep
<1>4. CASE Read
  <2>1. HistoryInv'
    BY <1>4, ReadKeepsHistory DEF DictionaryInv
  <2>2. writer' = writer
    BY <1>4 DEF Read
  <2>3. Once(writer)'
    BY <2>2 DEF DictionaryInv, Once, Distances, TextBack
  <2> QED
    BY <2>1, <2>3 DEF DictionaryInv
<1>5. CASE UNCHANGED dictionaryVars
  <2>1. UNCHANGED <<writer, reader, written, stream, got>>
    BY <1>5 DEF dictionaryVars
  <2> QED
    BY <2>1 DEF DictionaryInv, HistoryInv, Once, Distances, TextBack
<1> QED
  BY <1>1, <1>2, <1>3, <1>4, <1>5 DEF DictionaryNext

(* It is an invariant. *)
LEMMA DictionaryInvariant == DictionarySpec => []DictionaryInv
  BY DictionaryInvInit, DictionaryInvNext, PTL DEF DictionarySpec

(* A text is in the dictionary of writeMergedDeltaSnapshot once, whatever  *)
(* was written and however often it went round.                            *)
THEOREM KeptOnceAlways == DictionarySpec => []KeptOnce
<1>1. DictionaryInv => KeptOnce
  BY DEF DictionaryInv, Once, KeptOnce
<1> QED
  BY <1>1, DictionaryInvariant, PTL

(* A reader that has read all that is written has the writer's dictionary: *)
(* serverCommandBuffer of both programs.                                   *)
THEOREM DictionariesAgreeAlways == DictionarySpec => []DictionariesAgree
<1>1. DictionaryInv => DictionariesAgree
  BY DEF DictionaryInv, HistoryInv, DictionariesAgree
<1> QED
  BY <1>1, DictionaryInvariant, PTL

(* CL_ParseMergedCommandString reads the commands that                     *)
(* writeMergedDeltaSnapshot wrote, in order.                               *)
THEOREM ReadExactAlways == DictionarySpec => []ReadExact
<1>1. DictionaryInv => ReadExact
  <2> SUFFICES ASSUME DictionaryInv PROVE ReadExact
    OBVIOUS
  <2>1. /\ got \in Seq(Commands) /\ written \in Seq(Commands)
        /\ Len(got) <= Len(written)
        /\ \A k \in 1 .. Len(got) : got[k] = written[k]
    BY DEF DictionaryInv, HistoryInv
  <2>2. SubSeq(got, 1, Len(got)) = SubSeq(written, 1, Len(got))
    BY <2>1
  <2> QED
    BY <2>1, <2>2 DEF ReadExact, IsPrefix
<1> QED
  BY <1>1, DictionaryInvariant, PTL
=============================================================================
