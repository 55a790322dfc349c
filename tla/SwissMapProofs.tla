--------------------------- MODULE SwissMapProofs ---------------------------
(***************************************************************************)
(* Proofs about CSwissMap for any keys, values and hash functions, any     *)
(* width of a group of at least 4, and any capacity.                       *)
(*                                                                         *)
(* Findable is not inductive: that a key is found in its slot depends on   *)
(* the groups that are probed before.  The invariant says instead that no  *)
(* group before the one with the key's slot has an empty byte, which       *)
(* insertions and erasures keep because they never write one.              *)
(***************************************************************************)
EXTENDS SwissMap, FiniteSetTheorems, NaturalsInduction, WellFoundedInduction, TLAPS

Entry == [k : Key, v : Val]

-----------------------------------------------------------------------------
(***************************************************************************)
(* The invariant.                                                          *)
(***************************************************************************)

\* The slots with a key.
Full == {i \in 0..(cap - 1) : slot[i] # None}

\* A load at g sees the byte of slot i, in its place or behind the sentinel.
InGroup(g, i) ==
  i \in g..(g + kWidth - 1) \/ i + cap + 1 \in g..(g + kWidth - 1)

\* Probing for k comes to slot i, and meets no empty byte in an earlier group.
Reach(k, i) ==
  \E t \in 0..(ProbeCount - 1) :
    /\ InGroup(Group(k, t), i)
    /\ \A u \in 0..(t - 1) : MatchEmpty(Group(k, u)) = {}

Unique == \A i, j \in Full : slot[i].k = slot[j].k => i = j
Reached == \A i \in Full : Reach(slot[i].k, i)

\* The capacities: 2^k - 1, as far as the counters depend on it.
CapOK(c) == c \in {0, 1, 3} \/ (c + 1) % 24 \in {8, 16}

Counted == num = Cardinality(Full) /\ num + growth = Limit(cap)

\* What rehash has not moved yet.
Left == {i \in 0..(old.cap - 1) : old.slot[i] # None}

OldShape ==
  /\ old = [cap |-> old.cap, ctrl |-> old.ctrl, slot |-> old.slot]
  /\ old.cap \in Nat /\ old.slot \in [0..(old.cap - 1) -> Entry \cup {None}]

\* While rehash runs, no byte of the new table is deleted; the slots behind pos
\* are as they were, those before it are empty; no key is in both tables.
Rehashing ==
  /\ todo # None /\ cap = 2 * old.cap + 1 /\ CapOK(old.cap)
  /\ \A i \in 0..(cap - 1) : slot[i] = None => ctrl[i] = kEmpty
  /\ \A i \in 0..(old.cap - 1) :
       IF i < pos THEN old.slot[i] = None ELSE IsFull(old.ctrl[i]) <=> old.slot[i] # None
  /\ num + Cardinality(Left) <= Limit(old.cap)
  /\ \A i, j \in Left : old.slot[i].k = old.slot[j].k => i = j
  /\ \A i \in Full, j \in Left : slot[i].k # old.slot[j].k

IndInv ==
  /\ TypeOK /\ CapOK(cap) /\ Mirror /\ Unique /\ Reached /\ Counted /\ OldShape
  /\ pc = "rehash" => Rehashing
  /\ pc # "nested"

-----------------------------------------------------------------------------
(***************************************************************************)
(* Numbers.                                                                *)
(***************************************************************************)

\* First is what it is meant to be.
LEMMA FirstIs ==
  ASSUME NEW S, S \subseteq Nat, S # {}
  PROVE /\ First(S) \in S /\ First(S) \in Nat
        /\ \A i \in S : First(S) <= i
<1> DEFINE R == OpToRel(<, Nat)
<1>1. PICK m \in S : \A i \in S : ~(<<i, m>> \in R)
  BY WFMin, NatLessThanWellFounded, Zenon
<1>2. \A i \in S : ~(i < m)
  BY <1>1 DEF OpToRel
<1>3. \A i \in S : m <= i
  BY <1>2
<1>4. \E j \in S : \A i \in S : j <= i
  BY <1>3
<1>5. First(S) \in S /\ \A i \in S : First(S) <= i
  BY <1>4 DEF First
<1> QED BY <1>5

\* The range of a remainder.
LEMMA ModRange ==
  ASSUME NEW m \in Nat \ {0}, NEW n \in Nat
  PROVE n % m \in 0..(m - 1)
OBVIOUS

\* A remainder below the modulus.
LEMMA ModSmall ==
  ASSUME NEW m \in Nat \ {0}, NEW n \in 0..(m - 1)
  PROVE n % m = n
OBVIOUS

\* A remainder after one turn.
LEMMA ModOnce ==
  ASSUME NEW m \in Nat \ {0}, NEW n \in m..(2 * m - 1)
  PROVE n % m = n - m
OBVIOUS

\* The limits of a table and of the next larger one.
LEMMA LimitStep ==
  ASSUME NEW c \in Nat, CapOK(c)
  PROVE /\ CapOK(2 * c + 1)
        /\ Limit(2 * c + 1) = (2 * c + 1 - (2 * c + 1) \div 8) - Limit(c)
        /\ Limit(c) \in Nat /\ Limit(c) <= c /\ Limit(c) <= Limit(2 * c + 1)
<1>1. CASE c = 0
  BY <1>1 DEF CapOK, Limit
<1>2. CASE c \in {1, 3}
  BY <1>2 DEF CapOK, Limit
<1>3. CASE (c + 1) % 24 \in {8, 16}
  <2>1. PICK q \in Nat : c + 1 = 24 * q + 8 \/ c + 1 = 24 * q + 16
    BY <1>3
  <2>2. CASE c + 1 = 24 * q + 8
    <3>1. c = 24 * q + 7 /\ 2 * c + 2 = 48 * q + 16
      BY <2>2
    <3>2. Limit(c) = 14 * q + 5
      BY <3>1 DEF Limit
    <3>3. Limit(2 * c + 1) = 28 * q + 9
      BY <3>1 DEF Limit
    <3>4. (2 * c + 1) \div 8 = 6 * q + 1
      BY <3>1
    <3>5. (2 * c + 2) % 24 = 16
      BY <3>1
    <3> QED BY <3>1, <3>2, <3>3, <3>4, <3>5 DEF CapOK
  <2>3. CASE c + 1 = 24 * q + 16
    <3>1. c = 24 * q + 15 /\ 2 * c + 2 = 48 * q + 32
      BY <2>3
    <3>2. Limit(c) = 14 * q + 9
      BY <3>1 DEF Limit
    <3>3. Limit(2 * c + 1) = 28 * q + 19
      BY <3>1 DEF Limit
    <3>4. (2 * c + 1) \div 8 = 6 * q + 3
      BY <3>1
    <3>5. (2 * c + 2) % 24 = 8
      BY <3>1
    <3> QED BY <3>1, <3>2, <3>3, <3>4, <3>5 DEF CapOK
  <2> QED BY <2>1, <2>2, <2>3
<1> QED BY <1>1, <1>2, <1>3 DEF CapOK

\* Products are monotonic.
LEMMA Products ==
  ASSUME NEW m \in Nat \ {0}, NEW a \in Int, NEW b \in Int, a < b
  PROVE m * a + m <= m * b
<1>1. m * (b - a) >= m
  OBVIOUS
<1>2. m * (b - a) = m * b - m * a
  OBVIOUS
<1>3. m * a \in Int /\ m * b \in Int /\ m * (b - a) \in Int
  OBVIOUS
<1> QED BY <1>1, <1>2, <1>3

\* What division leaves.
LEMMA DivMod ==
  ASSUME NEW m \in Nat \ {0}, NEW n \in Nat
  PROVE n \div m \in Nat /\ n % m \in 0..(m - 1) /\ n = m * (n \div m) + (n % m)
OBVIOUS

\* m \div w + 1 loads of w bytes, one behind the other in a circle of m, see
\* every byte of it.
LEMMA Covered ==
  ASSUME NEW m \in Nat \ {0}, NEW w \in Nat \ {0}, NEW h \in Nat, NEW s \in 0..(m - 1)
  PROVE \E t \in 0..(m \div w), j \in 0..(w - 1) :
          ((h + t * w) % m) + j \in {s, s + m}
<1>1. PICK q \in Nat, h0 \in 0..(m - 1) : h = m * q + h0
  <2>1. h \div m \in Nat /\ h % m \in 0..(m - 1) /\ h = m * (h \div m) + (h % m)
    BY DivMod
  <2> QED BY <2>1
<1>2. PICK e \in {0, 1}, d \in 0..(m - 1) : h0 + d = s + m * e
  <2>1. CASE s >= h0
    <3>1. s - h0 \in 0..(m - 1) /\ h0 + (s - h0) = s + m * 0
      BY <2>1
    <3> QED BY <3>1
  <2>2. CASE s < h0
    <3>1. s - h0 + m \in 0..(m - 1) /\ h0 + (s - h0 + m) = s + m * 1
      BY <2>2
    <3> QED BY <3>1
  <2> QED BY <2>1, <2>2
<1>3. PICK t \in Nat, j \in 0..(w - 1) : d = w * t + j
  <2>1. d \in Nat
    OBVIOUS
  <2>2. d \div w \in Nat /\ d % w \in 0..(w - 1) /\ d = w * (d \div w) + (d % w)
    BY <2>1, DivMod
  <2> QED BY <2>2
<1>4. t \in 0..(m \div w)
  <2>1. m \div w \in Nat /\ m % w \in 0..(w - 1) /\ m = w * (m \div w) + (m % w)
    BY DivMod
  <2>2. ASSUME t > m \div w PROVE FALSE
    <3>1. w * (m \div w) + w <= w * t
      BY <2>1, <2>2, Products
    <3>2. w * t \in Int /\ w * (m \div w) \in Int
      BY <2>1
    <3> QED BY <3>1, <3>2, <2>1, <1>3
  <2> QED BY <2>1, <2>2
<1>5. h + t * w \in Nat
  OBVIOUS
<1>6. PICK Q \in Nat, g \in 0..(m - 1) : g = (h + t * w) % m /\ h + t * w = m * Q + g
  <2>1. /\ (h + t * w) \div m \in Nat /\ (h + t * w) % m \in 0..(m - 1)
        /\ h + t * w = m * ((h + t * w) \div m) + ((h + t * w) % m)
    BY <1>5, DivMod
  <2> QED BY <2>1
<1>7. PICK c \in Int : g + j = s + m * c
  <2>1. /\ m * e \in Int /\ m * q \in Int /\ m * Q \in Int /\ w * t \in Int
        /\ e + q - Q \in Int
    OBVIOUS
  <2>2. w * t = t * w /\ m * (e + q - Q) = m * e + m * q - m * Q
    OBVIOUS
  <2>3. g = m * q + h0 + w * t - m * Q
    BY <1>1, <1>6, <2>1, <2>2
  <2>4. g + j = m * q + h0 + d - m * Q
    BY <1>3, <2>1, <2>3
  <2>5. g + j = m * q + s + m * e - m * Q
    BY <1>2, <2>1, <2>4
  <2>6. g + j = s + m * (e + q - Q)
    BY <2>1, <2>2, <2>5
  <2> QED BY <2>1, <2>6
<1>8. j <= d
  <2>1. w * t \in Nat
    OBVIOUS
  <2> QED BY <1>3, <2>1
<1>9. c \in {0, 1}
  <2>1. m * c \in Int
    OBVIOUS
  <2>2. ASSUME c < 0 PROVE FALSE
    <3>1. m * c + m <= m * 0
      BY <2>2, Products
    <3> QED BY <2>1, <3>1, <1>7
  <2>3. ASSUME c > 1 PROVE FALSE
    <3>1. m * 1 + m <= m * c
      BY <2>3, Products
    <3> QED BY <2>1, <3>1, <1>7, <1>8
  <2> QED BY <2>2, <2>3
<1>10. g + j \in {s, s + m}
  BY <1>7, <1>9
<1> QED BY <1>4, <1>6, <1>10

-----------------------------------------------------------------------------
(***************************************************************************)
(* Reading the table.                                                      *)
(***************************************************************************)

\* The bytes behind the sentinel, and what `& m_cap' makes of their indices.
LEMMA Bytes ==
  ASSUME TypeOK, Mirror, NEW p \in 0..(cap + kWidth - 1)
  PROVE /\ p <= cap => Mask(p) = p
        /\ p \in (cap + 1)..(2 * cap) =>
             Mask(p) = p - cap - 1 /\ Mask(p) \in 0..(cap - 1) /\ ctrl[p] = ctrl[Mask(p)]
        /\ p > 2 * cap => p = cap \/ ctrl[p] = kEmpty
        /\ Mask(p) \in 0..cap
<1>1. cap \in Nat /\ kWidth \in Nat /\ cap + 1 \in Nat \ {0} /\ p \in Nat
  BY WidthAssumption DEF TypeOK
<1>2. p <= cap => Mask(p) = p
  BY <1>1, ModSmall DEF Mask
<1>3. Mask(p) \in 0..cap
  BY <1>1, ModRange DEF Mask
<1>4. ASSUME p \in (cap + 1)..(2 * cap)
      PROVE Mask(p) = p - cap - 1 /\ Mask(p) \in 0..(cap - 1) /\ ctrl[p] = ctrl[Mask(p)]
  <2>1. Mask(p) = p - cap - 1
    BY <1>1, <1>4, ModOnce DEF Mask
  <2>2. ctrl[p] = ctrl[p - cap - 1]
    BY <1>1, <1>4 DEF Mirror
  <2> QED BY <1>1, <1>4, <2>1, <2>2
<1>5. p > 2 * cap => p = cap \/ ctrl[p] = kEmpty
  BY <1>1 DEF Mirror
<1> QED BY <1>2, <1>3, <1>4, <1>5

\* A byte that is neither empty nor the sentinel belongs to a slot.
LEMMA SlotByte ==
  ASSUME TypeOK, Mirror, NEW p \in 0..(cap + kWidth - 1),
         p <= 2 * cap \/ ctrl[p] # kEmpty, ctrl[p] # kSentinel
  PROVE /\ Mask(p) \in 0..(cap - 1) /\ ctrl[p] = ctrl[Mask(p)]
        /\ p = Mask(p) \/ p = Mask(p) + cap + 1
<1>1. cap \in Nat /\ kWidth \in Nat /\ p \in Nat
  BY WidthAssumption DEF TypeOK
<1>2. p # cap
  BY DEF Mirror
<1>3. CASE p < cap
  BY <1>1, <1>3, Bytes
<1>4. CASE p > cap
  <2>1. p \in (cap + 1)..(2 * cap)
    BY <1>1, <1>4, <1>2, Bytes
  <2>2. Mask(p) = p - cap - 1 /\ Mask(p) \in 0..(cap - 1) /\ ctrl[p] = ctrl[Mask(p)]
    BY <2>1, Bytes
  <2> QED BY <1>1, <2>2
<1> QED BY <1>1, <1>2, <1>3, <1>4

\* A slot's byte as a load sees it.
LEMMA SlotSeen ==
  ASSUME TypeOK, Mirror, NEW g \in 0..cap, NEW i \in 0..(cap - 1), InGroup(g, i)
  PROVE \E j \in 0..(kWidth - 1) : Mask(g + j) = i /\ ctrl[g + j] = ctrl[i]
<1>1. cap \in Nat /\ kWidth \in Nat
  BY WidthAssumption DEF TypeOK
<1>2. CASE i \in g..(g + kWidth - 1)
  <2>1. i - g \in 0..(kWidth - 1) /\ g + (i - g) = i
    BY <1>1, <1>2
  <2>2. Mask(i) = i
    BY <1>1, Bytes
  <2> QED BY <2>1, <2>2
<1>3. CASE i + cap + 1 \in g..(g + kWidth - 1)
  <2>1. i + cap + 1 - g \in 0..(kWidth - 1) /\ g + (i + cap + 1 - g) = i + cap + 1
    BY <1>1, <1>3
  <2>2. i + cap + 1 \in 0..(cap + kWidth - 1) /\ i + cap + 1 \in (cap + 1)..(2 * cap)
    BY <1>1, <1>3
  <2>3. PICK p \in 0..(cap + kWidth - 1) : p = i + cap + 1
    BY <2>2
  <2>4. p \in (cap + 1)..(2 * cap)
    BY <2>2, <2>3
  <2>5. Mask(p) = p - cap - 1 /\ ctrl[p] = ctrl[Mask(p)]
    BY <2>4, Bytes
  <2>6. p - cap - 1 = i
    BY <1>1, <2>3
  <2> QED BY <2>1, <2>3, <2>5, <2>6
<1> QED BY <1>2, <1>3 DEF InGroup

\* The groups start inside the table.
LEMMA GroupRange ==
  ASSUME TypeOK, NEW k \in Key, NEW t \in Nat
  PROVE Group(k, t) \in 0..cap
<1>1. cap + 1 \in Nat \ {0} /\ cap \in Nat
  BY DEF TypeOK
<1>2. HashXor(H1[k], addr) \in Nat
  BY HashAssumption DEF TypeOK
<1>3. t * kWidth \in Nat
  BY WidthAssumption
<1>4. PICK n \in Nat : n = HashXor(H1[k], addr) + t * kWidth
  BY <1>2, <1>3
<1>5. n % (cap + 1) \in 0..(cap + 1 - 1) /\ cap + 1 - 1 = cap
  BY <1>1, ModRange
<1> QED BY <1>4, <1>5 DEF Group, Mask

\* A match is the key's slot.
LEMMA MatchIsKey ==
  ASSUME TypeOK, Mirror, NEW k \in Key, NEW g \in 0..cap, NEW j \in MatchKey(k, g)
  PROVE Mask(g + j) \in Full /\ slot[Mask(g + j)].k = k
<1>1. cap \in Nat /\ kWidth \in Nat /\ j \in 0..(kWidth - 1)
  BY WidthAssumption DEF TypeOK, MatchKey
<1>2. g + j \in 0..(cap + kWidth - 1)
  BY <1>1
<1>3. ctrl[g + j] = H2[k] /\ slot[Mask(g + j)] # None /\ slot[Mask(g + j)].k = k
  BY DEF MatchKey
<1>4. ctrl[g + j] # kEmpty /\ ctrl[g + j] # kSentinel
  <2>1. H2[k] \in 0..127
    BY HashAssumption
  <2> QED BY <1>3, <2>1 DEF kEmpty, kSentinel
<1>5. Mask(g + j) \in 0..(cap - 1)
  BY <1>2, <1>4, SlotByte
<1> QED BY <1>3, <1>5 DEF Full

\* A load that sees the key's slot matches it.
LEMMA KeyMatches ==
  ASSUME TypeOK, Mirror, NEW i \in Full, NEW g \in 0..cap, InGroup(g, i)
  PROVE MatchKey(slot[i].k, g) # {}
<1>1. i \in 0..(cap - 1) /\ slot[i] # None
  BY DEF Full
<1>2. PICK j \in 0..(kWidth - 1) : Mask(g + j) = i /\ ctrl[g + j] = ctrl[i]
  BY <1>1, SlotSeen
<1>3. ctrl[i] = H2[slot[i].k]
  BY <1>1 DEF Mirror
<1> QED BY <1>1, <1>2, <1>3 DEF MatchKey

\* Where findIndex stops.
LEMMA StopIs ==
  ASSUME TypeOK, NEW k \in Key, ~Diverges(k)
  PROVE /\ First(Stops(k)) \in Stops(k) /\ First(Stops(k)) \in Nat
        /\ \A t \in Stops(k) : First(Stops(k)) <= t
        /\ LastGroup(k) \in 0..cap
<1>1. Stops(k) \subseteq Nat
  BY DEF Stops
<1>2. Stops(k) # {}
  BY DEF Diverges
<1>3. /\ First(Stops(k)) \in Stops(k) /\ First(Stops(k)) \in Nat
      /\ \A t \in Stops(k) : First(Stops(k)) <= t
  BY <1>1, <1>2, FirstIs
<1> QED BY <1>3, GroupRange DEF LastGroup

\* What findIndex finds is the key's slot.
LEMMA FoundIsKey ==
  ASSUME TypeOK, Mirror, NEW k \in Key, ~Diverges(k), Found(k)
  PROVE RetIndex(k) \in Full /\ slot[RetIndex(k)].k = k
<1> DEFINE g == LastGroup(k)
<1>1. g \in 0..cap
  BY StopIs
<1>2. MatchKey(k, g) \subseteq Nat /\ MatchKey(k, g) # {}
  BY WidthAssumption DEF MatchKey, Found
<1>3. First(MatchKey(k, g)) \in MatchKey(k, g)
  BY <1>2, FirstIs
<1>4. RetIndex(k) = Mask(g + First(MatchKey(k, g)))
  BY DEF RetIndex
<1> HIDE DEF g
<1> QED BY <1>1, <1>3, <1>4, MatchIsKey

\* Every key is found in its slot.
LEMMA FullIsFound ==
  ASSUME TypeOK, Mirror, Unique, Reached, NEW i \in Full
  PROVE ~Diverges(slot[i].k) /\ Found(slot[i].k) /\ RetIndex(slot[i].k) = i
<1>1. slot[i] \in Entry /\ i \in 0..(cap - 1)
  BY DEF Full, TypeOK, Entry
<1> DEFINE k == slot[i].k
<1>2. k \in Key
  BY <1>1 DEF Entry
<1>3. PICK t \in 0..(ProbeCount - 1) :
        /\ InGroup(Group(k, t), i)
        /\ \A u \in 0..(t - 1) : MatchEmpty(Group(k, u)) = {}
  BY DEF Reached, Reach
<1>4. t \in Nat
  OBVIOUS
<1>5. Group(k, t) \in 0..cap
  BY <1>2, <1>4, GroupRange
<1>6. MatchKey(k, Group(k, t)) # {}
  BY <1>3, <1>5, KeyMatches
<1>7. t \in Stops(k)
  BY <1>6 DEF Stops, StopsAt
<1>8. ~Diverges(k)
  BY <1>7 DEF Diverges
<1> DEFINE f == First(Stops(k))
<1>9. f \in Stops(k) /\ f \in Nat /\ f <= t
  BY <1>2, <1>7, <1>8, StopIs
<1>10. Found(k)
  <2>1. CASE f = t
    BY <2>1, <1>6 DEF Found, LastGroup
  <2>2. CASE f < t
    <3>1. MatchEmpty(Group(k, f)) = {}
      BY <2>2, <1>3, <1>4, <1>9
    <3>2. StopsAt(k, f)
      BY <1>9 DEF Stops
    <3> QED BY <3>1, <3>2 DEF StopsAt, Found, LastGroup
  <2> QED BY <1>4, <1>9, <2>1, <2>2
<1>11. RetIndex(k) \in Full /\ slot[RetIndex(k)].k = k
  BY <1>2, <1>8, <1>10, FoundIsKey
<1>12. RetIndex(k) = i
  BY <1>11 DEF Unique
<1> QED BY <1>8, <1>10, <1>12

\* What it does not find is not there.
LEMMA NotFound ==
  ASSUME TypeOK, Mirror, Unique, Reached, NEW k \in Key, ~Found(k)
  PROVE \A i \in Full : slot[i].k # k
BY FullIsFound

-----------------------------------------------------------------------------
(***************************************************************************)
(* The slot of an insertion.                                               *)
(***************************************************************************)

\* The slots are counted.
LEMMA FullFinite ==
  ASSUME TypeOK
  PROVE /\ IsFiniteSet(Full) /\ Cardinality(Full) \in Nat /\ Cardinality(Full) <= cap
        /\ Cardinality(Full) < cap => \E i \in 0..(cap - 1) : slot[i] = None
<1>1. 0 \in Int /\ cap - 1 \in Int /\ cap \in Nat
  BY DEF TypeOK
<1>2. /\ IsFiniteSet(0..(cap - 1))
      /\ Cardinality(0..(cap - 1)) = IF 0 > cap - 1 THEN 0 ELSE (cap - 1) - 0 + 1
  BY <1>1, FS_Interval
<1>3. Cardinality(0..(cap - 1)) = cap
  BY <1>1, <1>2
<1>4. Full \subseteq 0..(cap - 1)
  BY DEF Full
<1>5. IsFiniteSet(Full) /\ Cardinality(Full) <= Cardinality(0..(cap - 1))
  BY <1>2, <1>4, FS_Subset
<1>6. Cardinality(Full) \in Nat
  BY <1>5, FS_CardinalityType
<1>7. ASSUME ~\E i \in 0..(cap - 1) : slot[i] = None PROVE Full = 0..(cap - 1)
  BY <1>7 DEF Full
<1> QED BY <1>1, <1>3, <1>5, <1>6, <1>7

\* When findIndex stops at an empty byte, no group before has one.
LEMMA EmptyStop ==
  ASSUME TypeOK, NEW k \in Key, ~Diverges(k), ~Found(k)
  PROVE /\ \E j \in 0..(kWidth - 1) :
             /\ ctrl[LastGroup(k) + j] = kEmpty
             /\ RetIndex(k) = Mask(LastGroup(k) + j)
        /\ \A i : InGroup(LastGroup(k), i) => Reach(k, i)
<1> DEFINE t == First(Stops(k))
           g == LastGroup(k)
<1>1. t \in Stops(k) /\ t \in Nat /\ \A u \in Stops(k) : t <= u
  BY StopIs
<1>2. t \in 0..(ProbeCount - 1) /\ StopsAt(k, t)
  BY <1>1 DEF Stops
<1>3. MatchEmpty(g) # {}
  BY <1>2 DEF StopsAt, Found, LastGroup
<1>4. MatchEmpty(g) \subseteq Nat
  BY WidthAssumption DEF MatchEmpty
<1>5. First(MatchEmpty(g)) \in MatchEmpty(g)
  BY <1>3, <1>4, FirstIs
<1>6. RetIndex(k) = Mask(g + First(MatchEmpty(g)))
  BY DEF RetIndex
<1>7. \A u \in 0..(t - 1) : MatchEmpty(Group(k, u)) = {}
  <2>1. SUFFICES ASSUME NEW u \in 0..(t - 1) PROVE MatchEmpty(Group(k, u)) = {}
    OBVIOUS
  <2>2. ProbeCount \in Int
    BY WidthAssumption DEF ProbeCount, TypeOK
  <2>3. u \in 0..(ProbeCount - 1)
    BY <1>1, <1>2, <2>2
  <2>4. u \notin Stops(k)
    BY <1>1
  <2> QED BY <2>3, <2>4 DEF Stops, StopsAt
<1>8. ASSUME NEW i, InGroup(g, i) PROVE Reach(k, i)
  BY <1>2, <1>7, <1>8 DEF Reach, LastGroup
<1>9. \E j \in 0..(kWidth - 1) : ctrl[g + j] = kEmpty /\ RetIndex(k) = Mask(g + j)
  BY <1>5, <1>6 DEF MatchEmpty
<1> QED BY <1>8, <1>9

\* The byte that find takes for a new key belongs to a free slot, and probing
\* for the key comes to it.
LEMMA FreeSlot ==
  ASSUME TypeOK, CapOK(cap), Mirror, Counted, NEW k \in Key, ~Diverges(k), ~Found(k), growth > 0
  PROVE FreeIndex(k) \in 0..(cap - 1) /\ slot[FreeIndex(k)] = None /\ Reach(k, FreeIndex(k))
<1>1. /\ cap \in Nat /\ kWidth \in Nat /\ kWidth >= 4 /\ LastGroup(k) \in 0..cap
      /\ num \in Nat /\ growth \in Nat
  BY WidthAssumption, StopIs DEF TypeOK
<1>2. PICK g \in 0..cap : g = LastGroup(k)
  BY <1>1
<1>3. PICK j \in 0..(kWidth - 1) : ctrl[g + j] = kEmpty /\ RetIndex(k) = Mask(g + j)
  BY <1>2, EmptyStop
<1>4. PICK p \in 0..(cap + kWidth - 1) : p = g + j
  BY <1>1
<1>5. PICK r \in 0..cap : r = RetIndex(k) /\ r = Mask(p)
  BY <1>3, <1>4, Bytes
<1> DEFINE S == {n \in 0..(kWidth - 1) : ctrl[r + n] < kSentinel}
<1>6. FreeIndex(k) = Mask(r + First(S))
  BY <1>5 DEF FreeIndex
<1>7. S \subseteq Nat
  BY <1>1
<1>8. PICK q \in 0..(cap + kWidth - 1) :
        /\ q = r + First(S) /\ ctrl[q] < kSentinel /\ q <= 2 * cap
        /\ InGroup(g, Mask(q))
  <2>1. CASE p <= 2 * cap
    <3>1. /\ r \in 0..(cap - 1) /\ ctrl[p] = ctrl[r]
          /\ p = r \/ p = r + cap + 1
      BY <1>3, <1>4, <1>5, <2>1, SlotByte DEF kEmpty, kSentinel
    <3>2. 0 \in S
      BY <1>1, <1>3, <1>4, <3>1 DEF kEmpty, kSentinel
    <3>3. First(S) \in Nat /\ First(S) <= 0
      BY <1>7, <3>2, FirstIs
    <3>4. First(S) = 0
      BY <3>3
    <3>5. InGroup(g, r)
      BY <1>1, <1>4, <3>1 DEF InGroup
    <3>6. r + First(S) = r /\ r <= 2 * cap /\ r \in 0..(cap + kWidth - 1)
      BY <1>1, <3>1, <3>4
    <3>7. Mask(r) = r
      BY <3>6, <3>1, <1>1, Bytes
    <3>8. ctrl[r] < kSentinel
      BY <1>3, <1>4, <3>1 DEF kEmpty, kSentinel
    <3> HIDE DEF S
    <3> QED BY <3>5, <3>6, <3>7, <3>8
  <2>2. CASE p > 2 * cap
    <3>1. cap + 2 <= kWidth
      BY <1>1, <1>4, <2>2
    <3>2. cap \in Nat /\ Limit(cap) <= cap
      BY <1>1, LimitStep
    <3>3. Limit(cap) \in Int
      BY <1>1, LimitStep
    <3>4. Cardinality(Full) < cap
      BY <1>1, <3>2, <3>3 DEF Counted
    <3>5. PICK i \in 0..(cap - 1) : slot[i] = None
      BY <3>4, FullFinite
    <3>6. ctrl[i] < kSentinel
      BY <3>5 DEF Mirror, kEmpty, kDeleted, kSentinel
    <3>7. InGroup(r, i)
      BY <1>1, <3>1 DEF InGroup
    <3>8. PICK n \in S : r + n <= 2 * cap
      <4>1. CASE i \in r..(r + kWidth - 1)
        <5>1. i - r \in 0..(kWidth - 1) /\ r + (i - r) = i /\ i <= 2 * cap
          BY <1>1, <4>1
        <5> QED BY <3>6, <5>1
      <4>2. CASE i + cap + 1 \in r..(r + kWidth - 1)
        <5>1. /\ i + cap + 1 - r \in 0..(kWidth - 1) /\ r + (i + cap + 1 - r) = i + cap + 1
              /\ i + cap + 1 <= 2 * cap
          BY <1>1, <4>2
        <5>2. PICK x \in (cap + 1)..(cap + kWidth - 1) : x = i + cap + 1
          BY <1>1, <4>2
        <5>3. x - cap - 1 = i /\ i < cap
          BY <1>1, <5>2
        <5>4. ctrl[x] = ctrl[i]
          BY <5>3 DEF Mirror
        <5> QED BY <3>6, <5>1, <5>2, <5>4
      <4> QED BY <3>7, <4>1, <4>2 DEF InGroup
    <3>9. First(S) \in S /\ First(S) \in Nat /\ First(S) <= n
      BY <1>7, <3>8, FirstIs
    <3>10. ctrl[r + First(S)] < kSentinel /\ First(S) \in 0..(kWidth - 1)
      BY <3>9
    <3> HIDE DEF S
    <3>11. n \in Nat
      BY <1>7
    <3>12. PICK q \in 0..(cap + kWidth - 1) : q = r + First(S)
      BY <1>1, <3>10
    <3>13. ctrl[q] < kSentinel /\ q <= 2 * cap
      BY <1>1, <3>8, <3>9, <3>10, <3>11, <3>12
    <3>14. ctrl[q] # kSentinel
      BY <3>13 DEF kSentinel
    <3>15. Mask(q) \in 0..(cap - 1)
      BY <3>13, <3>14, SlotByte
    <3>16. InGroup(g, Mask(q))
      BY <1>1, <3>1, <3>15 DEF InGroup
    <3> QED BY <3>12, <3>13, <3>16
  <2> QED BY <1>1, <1>4, <2>1, <2>2
<1> HIDE DEF S
<1>9. ctrl[q] # kSentinel
  BY <1>8 DEF kSentinel
<1>10. Mask(q) \in 0..(cap - 1) /\ ctrl[q] = ctrl[Mask(q)]
  BY <1>8, <1>9, SlotByte
<1>11. slot[Mask(q)] = None
  <2>1. ASSUME slot[Mask(q)] # None PROVE FALSE
    <3>1. slot[Mask(q)] \in Entry
      BY <1>10, <2>1 DEF TypeOK, Entry
    <3>2. H2[slot[Mask(q)].k] \in 0..127
      BY <3>1, HashAssumption DEF Entry
    <3>3. ctrl[Mask(q)] = H2[slot[Mask(q)].k]
      BY <1>10, <2>1 DEF Mirror
    <3>4. ctrl[q] = H2[slot[Mask(q)].k] /\ ctrl[q] < -1
      BY <3>3, <1>8, <1>10 DEF kSentinel
    <3> QED BY <3>2, <3>4
  <2> QED BY <2>1
<1>12. Reach(k, Mask(q))
  BY <1>2, <1>8, EmptyStop
<1> QED BY <1>6, <1>8, <1>10, <1>11, <1>12

-----------------------------------------------------------------------------
(***************************************************************************)
(* Writing the table.                                                      *)
(***************************************************************************)

Byte == {kEmpty, kDeleted, kSentinel} \cup {H2[k] : k \in Key}

\* What TypeOK says of the table.
TableType ==
  /\ cap \in 0..MaxCap /\ num \in 0..cap /\ growth \in 0..cap /\ addr \in Addr
  /\ ctrl \in [0..(cap + kWidth - 1) -> Byte]
  /\ slot \in [0..(cap - 1) -> Entry \cup {None}]

\* What IndInv says of the table.
TableInv == CapOK(cap) /\ Mirror /\ Unique /\ Reached /\ Counted

\* Slot i holds s now.
SlotSet(i, s) ==
  slot' = [n \in 0..(cap - 1) |-> IF n = i THEN s ELSE slot[n]] /\ UNCHANGED <<cap, addr>>

\* A record of a key and a value is not the mark of an unconstructed slot.
LEMMA NoneNotEntry == None \notin Entry
BY NoneAssumption DEF Entry

\* TypeOK's part.
LEMMA TypeOfTable == TypeOK => TableType
BY DEF TypeOK, TableType, Byte, Entry

\* SetCtrl writes a slot's byte and its copy.
LEMMA SetCtrlIs ==
  ASSUME TypeOK, NEW i \in 0..(cap - 1), NEW c \in Byte
  PROVE /\ SetCtrl(i, c) \in [0..(cap + kWidth - 1) -> Byte]
        /\ \A p \in 0..(cap + kWidth - 1) :
             SetCtrl(i, c)[p] = IF p = i \/ p = i + cap + 1 THEN c ELSE ctrl[p]
<1>1. cap \in Nat /\ kWidth \in Nat /\ kWidth >= 4
  BY WidthAssumption DEF TypeOK
<1>2. ctrl \in [0..(cap + kWidth - 1) -> Byte]
  BY DEF TypeOK, Byte
<1>3. CASE i < kWidth - 1
  <2>1. SetCtrl(i, c) = [ctrl EXCEPT ![i] = c, ![i + cap + 1] = c]
    BY <1>3 DEF SetCtrl
  <2>2. i \in 0..(cap + kWidth - 1) /\ i + cap + 1 \in 0..(cap + kWidth - 1)
    BY <1>1, <1>3
  <2> QED BY <1>2, <2>1, <2>2
<1>4. CASE ~(i < kWidth - 1)
  <2>1. SetCtrl(i, c) = [ctrl EXCEPT ![i] = c, ![i] = c]
    BY <1>4 DEF SetCtrl
  <2>2. i \in 0..(cap + kWidth - 1)
    BY <1>1
  <2>3. \A p \in 0..(cap + kWidth - 1) : p # i + cap + 1
    BY <1>1, <1>4
  <2> QED BY <1>2, <2>1, <2>2, <2>3
<1> QED BY <1>3, <1>4

\* A write that leaves no new empty byte leaves every slot within reach.
LEMMA ReachKept ==
  ASSUME TypeOK, UNCHANGED <<cap, addr>>, NEW k \in Key, NEW i, Reach(k, i),
         \A p \in 0..(cap + kWidth - 1) : ctrl'[p] = kEmpty => ctrl[p] = kEmpty
  PROVE Reach(k, i)'
<1>1. cap \in Nat /\ kWidth \in Nat
  BY WidthAssumption DEF TypeOK
<1>2. PICK t \in 0..(ProbeCount - 1) :
        /\ InGroup(Group(k, t), i)
        /\ \A u \in 0..(t - 1) : MatchEmpty(Group(k, u)) = {}
  BY DEF Reach
<1>3. \A u : Group(k, u)' = Group(k, u)
  BY DEF Group, Mask
<1>4. ASSUME NEW u \in 0..(t - 1) PROVE MatchEmpty(Group(k, u))' = {}
  <2>1. Group(k, u) \in 0..cap
    BY GroupRange
  <2>2. MatchEmpty(Group(k, u)) = {}
    BY <1>2
  <2>3. ASSUME NEW j \in 0..(kWidth - 1), ctrl'[Group(k, u) + j] = kEmpty PROVE FALSE
    <3>1. Group(k, u) + j \in 0..(cap + kWidth - 1)
      BY <1>1, <2>1
    <3>2. ctrl[Group(k, u) + j] = kEmpty
      BY <3>1, <2>3
    <3> QED BY <2>2, <3>2 DEF MatchEmpty
  <2> QED BY <1>3, <2>3 DEF MatchEmpty
<1>5. InGroup(Group(k, t), i)'
  BY <1>2, <1>3 DEF InGroup
<1>6. ProbeCount' = ProbeCount
  BY DEF ProbeCount
<1> QED BY <1>4, <1>5, <1>6 DEF Reach

\* A slot and its byte written together keep Mirror, and what is reached.
LEMMA Written ==
  ASSUME TypeOK, Mirror, NEW i \in 0..(cap - 1), NEW c \in Byte \ {kEmpty},
         NEW s \in Entry \cup {None},
         IF s = None THEN c = kDeleted ELSE c = H2[s.k],
         ctrl' = SetCtrl(i, c), SlotSet(i, s)
  PROVE /\ Mirror'
        /\ (ctrl \in [0..(cap + kWidth - 1) -> Byte])'
        /\ (slot \in [0..(cap - 1) -> Entry \cup {None}])'
        /\ \A k \in Key : \A n : Reach(k, n) => Reach(k, n)'
<1>1. cap \in Nat /\ kWidth \in Nat /\ cap' = cap /\ addr' = addr
  BY WidthAssumption DEF TypeOK, SlotSet
<1>2. /\ ctrl' \in [0..(cap + kWidth - 1) -> Byte]
      /\ \A p \in 0..(cap + kWidth - 1) :
           ctrl'[p] = IF p = i \/ p = i + cap + 1 THEN c ELSE ctrl[p]
  BY SetCtrlIs
<1>3. slot' \in [0..(cap - 1) -> Entry \cup {None}]
  BY DEF SlotSet, TypeOK, Entry
<1>4. \A n \in 0..(cap - 1) : slot'[n] = IF n = i THEN s ELSE slot[n]
  BY DEF SlotSet
<1>5. Mirror'
  <2>1. ctrl'[cap] = kSentinel
    <3>1. cap \in 0..(cap + kWidth - 1) /\ cap # i /\ cap # i + cap + 1
      BY <1>1, WidthAssumption
    <3> QED BY <1>2, <3>1 DEF Mirror
  <2>2. ASSUME NEW p \in (cap + 1)..(cap + kWidth - 1)
        PROVE ctrl'[p] = IF p - cap - 1 < cap THEN ctrl'[p - cap - 1] ELSE kEmpty
    <3>1. p \in 0..(cap + kWidth - 1) /\ p # i
      BY <1>1
    <3>2. ctrl[p] = IF p - cap - 1 < cap THEN ctrl[p - cap - 1] ELSE kEmpty
      BY DEF Mirror
    <3>3. CASE p - cap - 1 < cap
      <4>1. PICK x \in 0..(cap - 1) : x = p - cap - 1
        BY <1>1, <3>3
      <4>2. x \in 0..(cap + kWidth - 1) /\ x # i + cap + 1 /\ (x = i <=> p = i + cap + 1)
        BY <1>1, <4>1
      <4>3. ctrl'[x] = IF x = i THEN c ELSE ctrl[x]
        BY <1>2, <4>2
      <4>4. ctrl'[p] = IF p = i + cap + 1 THEN c ELSE ctrl[p]
        BY <1>2, <3>1
      <4> QED BY <3>2, <3>3, <4>1, <4>2, <4>3, <4>4
    <3>4. CASE ~(p - cap - 1 < cap)
      <4>1. p # i + cap + 1
        BY <1>1, <3>4
      <4> QED BY <1>2, <3>1, <3>2, <3>4, <4>1
    <3> QED BY <3>3, <3>4
  <2>3. ASSUME NEW n \in 0..(cap - 1)
        PROVE IF slot'[n] = None THEN ctrl'[n] \in {kEmpty, kDeleted}
              ELSE ctrl'[n] = H2[slot'[n].k]
    <3>1. n \in 0..(cap + kWidth - 1) /\ n # i + cap + 1
      BY <1>1
    <3>2. ctrl'[n] = IF n = i THEN c ELSE ctrl[n]
      BY <1>2, <3>1
    <3>3. slot'[n] = IF n = i THEN s ELSE slot[n]
      BY <1>4
    <3>4. IF slot[n] = None THEN ctrl[n] \in {kEmpty, kDeleted} ELSE ctrl[n] = H2[slot[n].k]
      BY DEF Mirror
    <3> QED BY <3>2, <3>3, <3>4
  <2> QED BY <1>1, <2>1, <2>2, <2>3 DEF Mirror
<1>6. \A p \in 0..(cap + kWidth - 1) : ctrl'[p] = kEmpty => ctrl[p] = kEmpty
  BY <1>2
<1>7. \A k \in Key : \A n : Reach(k, n) => Reach(k, n)'
  BY <1>1, <1>6, ReachKept
<1> QED BY <1>1, <1>2, <1>3, <1>5, <1>7

\* A key's tag is a byte that marks a slot full.
LEMMA Tag ==
  ASSUME NEW k \in Key
  PROVE H2[k] \in Byte \ {kEmpty} /\ H2[k] \in Int /\ H2[k] >= 0
<1>1. H2[k] \in 0..127
  BY HashAssumption
<1> QED BY <1>1 DEF Byte, kEmpty

\* The slots' keys, when slot i gets a new one.
LEMMA Added ==
  ASSUME TypeOK, Unique, NEW i \in 0..(cap - 1), NEW s \in Entry,
         \A n \in Full \ {i} : slot[n].k # s.k, SlotSet(i, s)
  PROVE Unique' /\ Full' = Full \cup {i} /\ slot'[i] = s
        /\ \A n \in Full \ {i} : slot'[n] = slot[n]
<1>1. cap' = cap /\ \A n \in 0..(cap - 1) : slot'[n] = IF n = i THEN s ELSE slot[n]
  BY DEF SlotSet
<1>2. s # None
  BY NoneNotEntry
<1>3. Full' = Full \cup {i}
  BY <1>1, <1>2 DEF Full
<1>4. slot'[i] = s /\ \A n \in Full \ {i} : slot'[n] = slot[n]
  BY <1>1 DEF Full
<1>5. Unique'
  BY <1>3, <1>4 DEF Unique
<1> QED BY <1>3, <1>4, <1>5

\* find with a new key, where there is room.
LEMMA StoreKeeps ==
  ASSUME TypeOK, TableInv, NEW k \in Key, NEW v \in Val, ~Diverges(k), ~Found(k), Store(k, v)
  PROVE /\ TableType' /\ TableInv'
        /\ FreeIndex(k) \in 0..(cap - 1) /\ slot[FreeIndex(k)] = None
        /\ SlotSet(FreeIndex(k), [k |-> k, v |-> v])
        /\ num' = num + 1
        /\ \A n \in 0..(cap - 1) : n # FreeIndex(k) => ctrl'[n] = ctrl[n]
        /\ Full' = Full \cup {FreeIndex(k)}
<1> USE DEF TableInv
<1>1. growth > 0 /\ cap' = cap /\ addr' = addr /\ num' = num + 1 /\ growth' = growth - 1
  BY DEF Store
<1>2. PICK f \in 0..(cap - 1) : f = FreeIndex(k) /\ slot[f] = None /\ Reach(k, f)
  BY <1>1, FreeSlot
<1>3. PICK s \in Entry : s = [k |-> k, v |-> v]
  BY DEF Entry
<1>4. s.k = k
  BY <1>3
<1>5. ctrl' = SetCtrl(f, H2[k])
  BY <1>2 DEF Store
<1>6. SlotSet(f, s)
  BY <1>1, <1>2, <1>3 DEF Store, SlotSet, TypeOK
<1>7. s # None
  BY NoneNotEntry
<1>8. /\ Mirror' /\ (ctrl \in [0..(cap + kWidth - 1) -> Byte])'
      /\ (slot \in [0..(cap - 1) -> Entry \cup {None}])'
      /\ \A x \in Key : \A n : Reach(x, n) => Reach(x, n)'
  <2>1. H2[k] \in Byte \ {kEmpty}
    BY Tag
  <2>2. IF s = None THEN H2[k] = kDeleted ELSE H2[k] = H2[s.k]
    BY <1>4, <1>7
  <2> QED BY <1>5, <1>6, <2>1, <2>2, Written
<1>9. \A n \in Full : slot[n].k # k
  BY NotFound
<1>10. /\ Unique' /\ Full' = Full \cup {f} /\ slot'[f] = s
       /\ \A n \in Full \ {f} : slot'[n] = slot[n]
  BY <1>4, <1>6, <1>9, Added
<1>11. f \notin Full
  BY <1>2 DEF Full
<1>12. Reached'
  <2>1. SUFFICES ASSUME NEW n \in Full' PROVE Reach(slot[n].k, n)'
    BY DEF Reached
  <2>2. CASE n = f
    BY <2>2, <1>2, <1>4, <1>8, <1>10
  <2>3. CASE n # f
    <3>1. n \in Full /\ slot'[n] = slot[n] /\ slot[n].k \in Key
      BY <2>3, <1>10 DEF Full, TypeOK
    <3>2. Reach(slot[n].k, n)
      BY <3>1 DEF Reached
    <3> QED BY <3>1, <3>2, <1>8
  <2> QED BY <2>2, <2>3
<1>13. Cardinality(Full') = Cardinality(Full) + 1
  BY <1>10, <1>11, FullFinite, FS_AddElement
<1>14. cap \in Nat /\ num \in Nat /\ growth \in Nat /\ num \in 0..cap /\ growth \in 0..cap
  BY DEF TypeOK
<1>15. Counted'
  <2>1. Limit(cap)' = Limit(cap)
    BY <1>1 DEF Limit
  <2> QED BY <1>1, <1>13, <1>14, <2>1 DEF Counted
<1>16. num' \in 0..cap /\ growth' \in 0..cap
  <2>1. Limit(cap) <= cap /\ Limit(cap) \in Int
    BY <1>14, LimitStep
  <2> QED BY <1>1, <1>14, <2>1 DEF Counted
<1>17. TableType'
  BY <1>1, <1>8, <1>16 DEF TableType, TypeOK
<1>18. CapOK(cap)'
  BY <1>1
<1>19. \A n \in 0..(cap - 1) : n # f => ctrl'[n] = ctrl[n]
  <2>1. SUFFICES ASSUME NEW n \in 0..(cap - 1), n # f PROVE ctrl'[n] = ctrl[n]
    OBVIOUS
  <2>2. n \in 0..(cap + kWidth - 1) /\ n # f + cap + 1
    BY <1>14, WidthAssumption
  <2>3. H2[k] \in Byte
    BY Tag
  <2> QED BY <1>5, <2>1, <2>2, <2>3, SetCtrlIs
<1> QED BY <1>1, <1>2, <1>3, <1>6, <1>8, <1>10, <1>12, <1>15, <1>17, <1>18, <1>19

\* find with a key that is there, and its value constructed anew.
LEMMA OverwriteKeeps ==
  ASSUME TypeOK, TableInv, NEW k \in Key, NEW v \in Val, ~Diverges(k), Found(k), Overwrite(k, v)
  PROVE /\ TableType' /\ TableInv'
        /\ RetIndex(k) \in Full /\ slot[RetIndex(k)].k = k
        /\ SlotSet(RetIndex(k), [k |-> k, v |-> v])
        /\ Full' = Full
<1> USE DEF TableInv
<1>1. UNCHANGED <<cap, ctrl, num, growth, addr>>
  BY DEF Overwrite
<1>2. PICK r \in Full : r = RetIndex(k) /\ slot[r].k = k
  BY FoundIsKey
<1>3. PICK s \in Entry : s = [k |-> k, v |-> v]
  BY DEF Entry
<1>4. r \in 0..(cap - 1) /\ slot[r] \in Entry
  BY DEF Full, TypeOK, Entry
<1>5. [slot[r] EXCEPT !.v = v] = s
  BY <1>2, <1>3, <1>4 DEF Entry
<1>6. SlotSet(r, s)
  <2>1. slot' = [slot EXCEPT ![r] = [slot[r] EXCEPT !.v = v]]
    BY <1>2 DEF Overwrite
  <2>2. slot' = [slot EXCEPT ![r] = s]
    BY <1>5, <2>1
  <2> QED BY <1>1, <1>4, <2>2 DEF SlotSet, TypeOK
<1>7. s.k = k
  BY <1>3
<1>8. /\ Unique' /\ Full' = Full \cup {r} /\ slot'[r] = s
      /\ \A n \in Full \ {r} : slot'[n] = slot[n]
  <2>1. \A n \in Full \ {r} : slot[n].k # s.k
    BY <1>2, <1>7 DEF Unique
  <2> QED BY <1>4, <1>6, <2>1, Added
<1>9. Full' = Full
  BY <1>8
<1>10. \A n \in Full : slot'[n].k = slot[n].k
  BY <1>2, <1>7, <1>8
<1>11. \A n \in 0..(cap - 1) : slot'[n] = None <=> slot[n] = None
  BY <1>1, <1>9 DEF Full
<1>12. Mirror'
  <2>1. \A n \in 0..(cap - 1) : IF slot'[n] = None THEN ctrl[n] \in {kEmpty, kDeleted}
                                ELSE ctrl[n] = H2[slot'[n].k]
    BY <1>10, <1>11 DEF Mirror, Full
  <2> QED BY <1>1, <2>1 DEF Mirror
<1>13. Reached'
  <2>1. SUFFICES ASSUME NEW n \in Full' PROVE Reach(slot[n].k, n)'
    BY DEF Reached
  <2>2. n \in Full /\ slot'[n].k = slot[n].k /\ slot[n].k \in Key
    BY <1>9, <1>10 DEF Full, TypeOK
  <2>3. Reach(slot[n].k, n)
    BY <2>2 DEF Reached
  <2>4. PICK x \in Key : x = slot[n].k
    BY <2>2
  <2>5. Reach(x, n)'
    BY <1>1, <2>3, <2>4, ReachKept
  <2> QED BY <2>2, <2>4, <2>5
<1>14. Counted' /\ CapOK(cap)'
  BY <1>1, <1>9 DEF Counted, Limit, CapOK
<1>15. slot' \in [0..(cap - 1) -> Entry \cup {None}]
  BY <1>6 DEF SlotSet, TypeOK, Entry
<1>16. TableType'
  BY <1>1, <1>15, TypeOfTable DEF TableType
<1> QED BY <1>2, <1>3, <1>6, <1>8, <1>9, <1>12, <1>13, <1>14, <1>16

\* The table's part of erase, for a key that is there.
EraseTable(k) ==
  /\ ctrl' = SetCtrl(RetIndex(k), kDeleted)
  /\ slot' = [slot EXCEPT ![RetIndex(k)] = None]
  /\ num' = num - 1 /\ growth' = growth + 1
  /\ UNCHANGED <<cap, addr>>

\* erase of a key that is there.
LEMMA EraseKeeps ==
  ASSUME TypeOK, TableInv, NEW k \in Key, ~Diverges(k), Found(k), EraseTable(k)
  PROVE /\ TableType' /\ TableInv'
        /\ RetIndex(k) \in Full /\ slot[RetIndex(k)].k = k
        /\ SlotSet(RetIndex(k), None)
        /\ Full' = Full \ {RetIndex(k)}
<1> USE DEF TableInv
<1>1. cap' = cap /\ addr' = addr /\ num' = num - 1 /\ growth' = growth + 1
  BY DEF EraseTable
<1>2. PICK r \in Full : r = RetIndex(k) /\ slot[r].k = k
  BY FoundIsKey
<1>3. r \in 0..(cap - 1)
  BY DEF Full
<1>4. ctrl' = SetCtrl(r, kDeleted)
  BY <1>2 DEF EraseTable
<1>5. SlotSet(r, None)
  BY <1>1, <1>2, <1>3 DEF EraseTable, SlotSet, TypeOK
<1>6. /\ Mirror' /\ (ctrl \in [0..(cap + kWidth - 1) -> Byte])'
      /\ (slot \in [0..(cap - 1) -> Entry \cup {None}])'
      /\ \A x \in Key : \A n : Reach(x, n) => Reach(x, n)'
  <2>1. kDeleted \in Byte \ {kEmpty}
    BY DEF Byte, kDeleted, kEmpty
  <2>2. \A s : s = None => IF s = None THEN kDeleted = kDeleted ELSE kDeleted = H2[s.k]
    OBVIOUS
  <2>3. None \in Entry \cup {None}
    OBVIOUS
  <2> QED BY <1>3, <1>4, <1>5, <2>1, <2>2, <2>3, Written
<1>7. \A n \in 0..(cap - 1) : slot'[n] = IF n = r THEN None ELSE slot[n]
  BY <1>5 DEF SlotSet
<1>8. Full' = Full \ {r} /\ \A n \in Full' : slot'[n] = slot[n]
  BY <1>1, <1>7 DEF Full
<1>9. Unique'
  BY <1>8 DEF Unique
<1>10. Reached'
  <2>1. SUFFICES ASSUME NEW n \in Full' PROVE Reach(slot[n].k, n)'
    BY DEF Reached
  <2>2. n \in Full /\ slot'[n] = slot[n] /\ slot[n].k \in Key
    BY <1>8 DEF Full, TypeOK
  <2>3. Reach(slot[n].k, n)
    BY <2>2 DEF Reached
  <2> QED BY <2>2, <2>3, <1>6
<1>11. Cardinality(Full') = Cardinality(Full) - 1 /\ Cardinality(Full) \in Nat
  <2>1. IsFiniteSet(Full) /\ Cardinality(Full) \in Nat
    BY FullFinite
  <2> QED BY <1>8, <2>1, FS_RemoveElement
<1>12. IsFiniteSet(Full') /\ Cardinality(Full') \in Nat
  <2>1. IsFiniteSet(Full) /\ Full' \subseteq Full
    BY <1>8, FullFinite
  <2>2. IsFiniteSet(Full')
    BY <2>1, FS_Subset
  <2> QED BY <2>2, FS_CardinalityType
<1>13. cap \in Nat /\ num \in Nat /\ growth \in Nat /\ num \in 0..cap /\ growth \in 0..cap
  BY DEF TypeOK
<1>14. Counted'
  <2>1. Limit(cap)' = Limit(cap)
    BY <1>1 DEF Limit
  <2> QED BY <1>1, <1>11, <1>13, <2>1 DEF Counted
<1>15. num' \in 0..cap /\ growth' \in 0..cap
  <2>1. Limit(cap) <= cap /\ Limit(cap) \in Int
    BY <1>13, LimitStep
  <2>2. num' = Cardinality(Full')
    BY <1>14 DEF Counted
  <2> QED BY <1>1, <1>12, <1>13, <2>1, <2>2 DEF Counted
<1>16. TableType'
  BY <1>1, <1>6, <1>15 DEF TableType, TypeOK
<1>17. CapOK(cap)'
  BY <1>1
<1> QED BY <1>2, <1>5, <1>6, <1>8, <1>9, <1>10, <1>14, <1>16, <1>17

-----------------------------------------------------------------------------
(***************************************************************************)
(* rehash.                                                                 *)
(***************************************************************************)

Result == ({"get", "put"} \X Key \X (Val \cup {None}))
          \cup ({"erase"} \X Key \X BOOLEAN) \cup {None}

\* A call's end.
LEMMA Finished ==
  ASSUME TableType', TableInv', NEW r \in Result, Finish(r)
  PROVE IndInv'
<1>1. /\ pc' = "idle" /\ ret' = r /\ todo' = None /\ pos' = 0
      /\ old' = [cap |-> 0, ctrl |-> EmptyCtrl(0), slot |-> EmptySlots(0)]
  BY DEF Finish, NoOld
<1>2. old'.cap = 0 /\ old'.slot = EmptySlots(0) /\ old'.ctrl = EmptyCtrl(0)
  BY <1>1
<1>3. OldShape'
  <2>1. EmptySlots(0) \in [0..(0 - 1) -> Entry \cup {None}]
    BY DEF EmptySlots
  <2> QED BY <1>1, <1>2, <2>1 DEF OldShape
<1>4. pos' \in 0..old'.cap /\ todo' \in Entry \cup {None} /\ ret' \in Result
  BY <1>1, <1>2
<1>5. pc' \in {"idle", "rehash", "hung", "nested"} /\ pc' # "rehash" /\ pc' # "nested"
  BY <1>1
<1>6. TypeOK'
  BY <1>4, <1>5 DEF TypeOK, TableType, Byte, Entry, Result
<1> QED BY <1>3, <1>5, <1>6 DEF IndInv, TableInv

\* init, with room for what the old table held.
LEMMA StartKeeps ==
  ASSUME IndInv, NEW k \in Key, NEW v \in Val, StartRehash(k, v)
  PROVE IndInv'
<1>1. TypeOK /\ CapOK(cap) /\ Mirror /\ Unique /\ Counted
  BY DEF IndInv
<1>2. PICK n \in Nat : n = NextCap
  BY <1>1 DEF TypeOK, NextCap
<1>3. /\ cap \in Nat /\ num \in Nat /\ growth = 0 /\ n <= MaxCap /\ n = 2 * cap + 1
      /\ kWidth \in Nat /\ kWidth >= 4
  BY <1>1, <1>2, WidthAssumption DEF TypeOK, NextCap, StartRehash
<1>4. /\ old' = [cap |-> cap, ctrl |-> ctrl, slot |-> slot]
      /\ cap' = n /\ ctrl' = EmptyCtrl(n) /\ slot' = EmptySlots(n)
      /\ growth' = GrowthInfo(n) /\ num' = 0 /\ addr' \in Addr
      /\ pos' = 0 /\ todo' = [k |-> k, v |-> v] /\ pc' = "rehash" /\ ret' = ret
  BY <1>2 DEF StartRehash
<1>5. old'.cap = cap /\ old'.ctrl = ctrl /\ old'.slot = slot
  BY <1>4
<1>6. \A i \in 0..(n - 1) : slot'[i] = None
  BY <1>4 DEF EmptySlots
<1>7. \A i \in 0..(n + kWidth - 1) : ctrl'[i] = IF i = n THEN kSentinel ELSE kEmpty
  BY <1>4 DEF EmptyCtrl
<1>8. Full' = {}
  BY <1>4, <1>6 DEF Full
<1>9. Mirror'
  <2>1. ctrl'[n] = kSentinel
    BY <1>3, <1>7
  <2>2. ASSUME NEW i \in (n + 1)..(n + kWidth - 1)
        PROVE ctrl'[i] = IF i - n - 1 < n THEN ctrl'[i - n - 1] ELSE kEmpty
    <3>1. i \in 0..(n + kWidth - 1) /\ i # n
      BY <1>3
    <3>2. CASE i - n - 1 < n
      <4>1. PICK x \in 0..(n + kWidth - 1) : x = i - n - 1 /\ x # n
        BY <1>3, <3>2
      <4> QED BY <1>7, <3>1, <3>2, <4>1
    <3> QED BY <1>7, <3>1, <3>2
  <2>3. ASSUME NEW i \in 0..(n - 1)
        PROVE slot'[i] = None /\ ctrl'[i] = kEmpty
    <3>1. i \in 0..(n + kWidth - 1) /\ i # n
      BY <1>3
    <3> QED BY <1>6, <1>7, <3>1
  <2> QED BY <1>4, <2>1, <2>2, <2>3 DEF Mirror
<1>10. Unique' /\ Reached'
  BY <1>8 DEF Unique, Reached
<1>11. /\ CapOK(n) /\ Limit(n) = (n - n \div 8) - Limit(cap)
       /\ Limit(cap) \in Nat /\ Limit(cap) <= Limit(n) /\ Limit(n) \in Nat /\ Limit(n) <= n
  <2>1. CapOK(n) /\ Limit(n) = (n - n \div 8) - Limit(cap)
        /\ Limit(cap) \in Nat /\ Limit(cap) <= Limit(n)
    BY <1>1, <1>3, LimitStep
  <2> QED BY <2>1, LimitStep
<1>12. num = Limit(cap)
  BY <1>1, <1>3 DEF Counted
<1>13. growth' = Limit(n)
  BY <1>4, <1>11, <1>12 DEF GrowthInfo
<1>14. Counted' /\ CapOK(cap)'
  <2>1. Cardinality(Full') = 0
    BY <1>8, FS_EmptySet
  <2>2. Limit(cap)' = Limit(n)
    BY <1>4 DEF Limit
  <2>3. num' = Cardinality(Full')
    BY <1>4, <2>1
  <2>4. num' + growth' = Limit(n)
    BY <1>4, <1>11, <1>13
  <2> QED BY <1>4, <1>11, <2>2, <2>3, <2>4 DEF Counted
<1>15. TypeOK'
  <2>1. cap' \in 0..MaxCap /\ num' \in 0..cap' /\ growth' \in 0..cap' /\ addr' \in Addr
    BY <1>3, <1>4, <1>11, <1>13, MaxCapAssumption
  <2>2. ctrl' \in [0..(cap' + kWidth - 1) -> Byte]
    BY <1>4 DEF EmptyCtrl, Byte
  <2>3. slot' \in [0..(cap' - 1) -> Entry \cup {None}]
    BY <1>4 DEF EmptySlots
  <2>4. pos' \in 0..old'.cap /\ todo' \in Entry /\ pc' = "rehash" /\ ret' = ret
    BY <1>3, <1>4, <1>5 DEF Entry
  <2> QED BY <1>1, <2>1, <2>2, <2>3, <2>4 DEF TypeOK, Byte, Entry
<1>16. OldShape'
  <2>1. slot \in [0..(cap - 1) -> Entry \cup {None}]
    BY <1>1 DEF TypeOK, Entry
  <2> QED BY <1>3, <1>4, <1>5, <2>1 DEF OldShape
<1>17. Rehashing'
  <2>1. todo' # None /\ cap' = 2 * old'.cap + 1 /\ CapOK(old'.cap)
    <3>1. todo' \in Entry
      BY <1>4 DEF Entry
    <3> QED BY <1>1, <1>3, <1>4, <1>5, <3>1, NoneNotEntry
  <2>2. \A i \in 0..(cap' - 1) : slot'[i] = None => ctrl'[i] = kEmpty
    <3>1. SUFFICES ASSUME NEW i \in 0..(cap' - 1) PROVE ctrl'[i] = kEmpty
      OBVIOUS
    <3>2. i \in 0..(n + kWidth - 1) /\ i # n
      BY <1>3, <1>4
    <3> QED BY <1>7, <3>2
  <2>3. \A i \in 0..(old'.cap - 1) :
          IF i < pos' THEN old'.slot[i] = None
          ELSE IsFull(old'.ctrl[i]) <=> old'.slot[i] # None
    <3>1. SUFFICES ASSUME NEW i \in 0..(cap - 1)
                   PROVE ~(i < 0) /\ (ctrl[i] >= 0 <=> slot[i] # None)
      BY <1>4, <1>5 DEF IsFull
    <3>2. CASE slot[i] = None
      BY <1>1, <3>2 DEF Mirror, kEmpty, kDeleted
    <3>3. CASE slot[i] # None
      <4>1. slot[i].k \in Key
        BY <1>1, <3>3 DEF TypeOK
      <4> QED BY <1>1, <3>3, <4>1, Tag DEF Mirror
    <3> QED BY <3>2, <3>3
  <2>4. Left' = Full
    BY <1>5 DEF Left, Full
  <2>5. num' + Cardinality(Left') <= Limit(old'.cap)
    <3>1. Cardinality(Left') = Limit(cap)
      BY <1>1, <1>12, <2>4 DEF Counted
    <3>2. num' + Cardinality(Left') <= Limit(cap)
      BY <1>4, <1>11, <3>1
    <3> QED BY <1>5, <3>2
  <2>6. \A i, j \in Left' : old'.slot[i].k = old'.slot[j].k => i = j
    BY <1>1, <1>5, <2>4 DEF Unique
  <2> QED BY <1>8, <2>1, <2>2, <2>3, <2>5, <2>6 DEF Rehashing
<1> QED BY <1>4, <1>9, <1>10, <1>14, <1>15, <1>16, <1>17 DEF IndInv

\* An empty byte among those of the slots lets findIndex return, wherever it starts.
LEMMA EmptySeen ==
  ASSUME TypeOK, Mirror, NEW k \in Key, NEW i \in 0..(cap - 1), ctrl[i] = kEmpty
  PROVE ~Diverges(k)
<1>1. cap \in Nat /\ kWidth \in Nat \ {0} /\ cap + 1 \in Nat \ {0}
  BY WidthAssumption DEF TypeOK
<1>2. PICK h \in Nat : h = HashXor(H1[k], addr)
  BY HashAssumption DEF TypeOK
<1>3. PICK t \in 0..((cap + 1) \div kWidth), j \in 0..(kWidth - 1) :
        ((h + t * kWidth) % (cap + 1)) + j \in {i, i + (cap + 1)}
  <2>1. i \in 0..((cap + 1) - 1)
    BY <1>1
  <2> QED BY <1>1, <2>1, Covered
<1>4. Group(k, t) = (h + t * kWidth) % (cap + 1)
  BY <1>2 DEF Group, Mask
<1>5. t \in Nat /\ Group(k, t) \in 0..cap
  BY GroupRange
<1>6. PICK p \in 0..(cap + kWidth - 1) : p = Group(k, t) + j
  BY <1>1, <1>5
<1>7. p = i \/ p = i + cap + 1
  BY <1>1, <1>3, <1>4, <1>6
<1>8. ctrl[p] = kEmpty
  <2>1. CASE p = i
    BY <2>1
  <2>2. CASE p = i + cap + 1
    <3>1. p \in (cap + 1)..(cap + kWidth - 1) /\ p - cap - 1 = i /\ i < cap
      BY <1>1, <2>2
    <3> QED BY <3>1 DEF Mirror
  <2> QED BY <1>7, <2>1, <2>2
<1>9. MatchEmpty(Group(k, t)) # {}
  BY <1>6, <1>8 DEF MatchEmpty
<1>10. (cap + 1) \div kWidth \in Int /\ ProbeCount - 1 = (cap + 1) \div kWidth
  BY <1>1 DEF ProbeCount
<1>11. t \in Stops(k)
  BY <1>9, <1>10 DEF Stops, StopsAt
<1> QED BY <1>11 DEF Diverges

\* While no byte is deleted, findIndex comes to an empty byte at the latest.
LEMMA NoDivergence ==
  ASSUME TypeOK, Mirror, Counted, num < cap, NEW k \in Key,
         \A i \in 0..(cap - 1) : slot[i] = None => ctrl[i] = kEmpty
  PROVE ~Diverges(k)
<1>1. PICK i \in 0..(cap - 1) : ctrl[i] = kEmpty
  BY FullFinite DEF Counted
<1> QED BY <1>1, EmptySeen

\* What is left is counted.
LEMMA LeftFinite ==
  ASSUME OldShape
  PROVE IsFiniteSet(Left) /\ Cardinality(Left) \in Nat
<1>1. 0 \in Int /\ old.cap - 1 \in Int
  BY DEF OldShape
<1>2. IsFiniteSet(0..(old.cap - 1))
  BY <1>1, FS_Interval
<1>3. Left \subseteq 0..(old.cap - 1)
  BY DEF Left
<1>4. IsFiniteSet(Left)
  BY <1>2, <1>3, FS_Subset
<1> QED BY <1>4, FS_CardinalityType

\* Every key of the old table fits: rehash never runs inside rehash.
LEMMA MoveFits ==
  ASSUME IndInv, pc = "rehash", pos < old.cap, IsFull(old.ctrl[pos])
  PROVE /\ pos \in Left /\ old.slot[pos] \in Entry
        /\ ~Diverges(old.slot[pos].k) /\ ~Found(old.slot[pos].k) /\ growth > 0
<1>1. TypeOK /\ Rehashing /\ OldShape /\ Mirror /\ Counted /\ CapOK(cap)
  BY DEF IndInv
<1>2. pos \in 0..(old.cap - 1) /\ old.cap \in Nat
  BY <1>1 DEF TypeOK, OldShape
<1>3. old.slot[pos] # None
  BY <1>1, <1>2 DEF Rehashing
<1>4. pos \in Left /\ old.slot[pos] \in Entry
  BY <1>1, <1>2, <1>3 DEF Left, OldShape
<1>5. PICK k \in Key : k = old.slot[pos].k
  BY <1>4 DEF Entry
<1>6. num < Limit(old.cap)
  <2>1. Cardinality(Left) \in Nat /\ IsFiniteSet(Left)
    BY <1>1, LeftFinite
  <2>2. Cardinality(Left) # 0
    BY <1>4, <2>1, FS_EmptySet
  <2>3. num \in Nat /\ Limit(old.cap) \in Nat
    BY <1>1, <1>2, LimitStep DEF TypeOK, Rehashing
  <2>4. num + Cardinality(Left) <= Limit(old.cap)
    BY <1>1 DEF Rehashing
  <2> QED BY <2>1, <2>2, <2>3, <2>4
<1>7. /\ Limit(old.cap) <= Limit(cap) /\ Limit(old.cap) \in Nat
      /\ Limit(cap) \in Nat /\ Limit(cap) <= cap
  <2>1. cap = 2 * old.cap + 1 /\ CapOK(old.cap) /\ cap \in Nat
    BY <1>1 DEF Rehashing, TypeOK
  <2>2. Limit(old.cap) <= Limit(cap) /\ Limit(old.cap) \in Nat
    BY <1>2, <2>1, LimitStep
  <2>3. Limit(cap) \in Nat /\ Limit(cap) <= cap
    BY <1>1, <2>1, LimitStep
  <2> QED BY <2>2, <2>3
<1>8. num \in Nat /\ growth \in Nat /\ cap \in Nat /\ num + growth = Limit(cap)
  BY <1>1 DEF TypeOK, Counted
<1>9. growth > 0 /\ num < cap
  BY <1>6, <1>7, <1>8
<1>10. ~Diverges(k)
  <2>1. \A i \in 0..(cap - 1) : slot[i] = None => ctrl[i] = kEmpty
    BY <1>1 DEF Rehashing
  <2> QED BY <1>1, <1>9, <2>1, NoDivergence
<1>11. ~Found(k)
  <2>1. ASSUME Found(k) PROVE FALSE
    <3>1. RetIndex(k) \in Full /\ slot[RetIndex(k)].k = k
      BY <1>1, <1>10, <2>1, FoundIsKey
    <3> QED BY <1>1, <1>4, <1>5, <3>1 DEF Rehashing
  <2> QED BY <2>1
<1> QED BY <1>4, <1>5, <1>9, <1>10, <1>11

\* What RehashMove does: it takes the key out of the old table and stores it in
\* the new one.
LEMMA MoveIs ==
  ASSUME IndInv, RehashMove
  PROVE LET s == old.slot[pos] IN
        /\ pos \in Left /\ s \in Entry /\ ~Diverges(s.k) /\ ~Found(s.k)
        /\ Store(s.k, s.v)
        /\ old' = [cap |-> old.cap, ctrl |-> old.ctrl,
                   slot |-> [old.slot EXCEPT ![pos] = None]]
        /\ pos' = pos + 1 /\ UNCHANGED <<pc, todo, ret>> /\ pc = "rehash"
<1>1. pc = "rehash" /\ pos < old.cap /\ IsFull(old.ctrl[pos]) /\ UNCHANGED <<todo, ret>>
  BY DEF RehashMove
<1>2. /\ pos \in Left /\ old.slot[pos] \in Entry
      /\ ~Diverges(old.slot[pos].k) /\ ~Found(old.slot[pos].k) /\ growth > 0
  BY <1>1, MoveFits
<1>3. /\ Store(old.slot[pos].k, old.slot[pos].v)
      /\ old' = [old EXCEPT !.slot[pos] = None] /\ pos' = pos + 1 /\ UNCHANGED pc
  BY <1>2 DEF RehashMove
<1>4. old = [cap |-> old.cap, ctrl |-> old.ctrl, slot |-> old.slot]
  BY DEF IndInv, OldShape
<1>5. old' = [cap |-> old.cap, ctrl |-> old.ctrl, slot |-> [old.slot EXCEPT ![pos] = None]]
  BY <1>3, <1>4
<1> QED BY <1>1, <1>2, <1>3, <1>5

\* The step of rehash for a full slot.
LEMMA MoveKeeps ==
  ASSUME IndInv, RehashMove
  PROVE IndInv'
<1>1. TypeOK /\ TableInv /\ Rehashing /\ OldShape
  BY DEF IndInv, TableInv, RehashMove
<1>2. PICK s \in Entry : s = old.slot[pos]
  BY MoveIs
<1>3. /\ pos \in Left /\ ~Diverges(s.k) /\ ~Found(s.k) /\ Store(s.k, s.v)
      /\ old' = [cap |-> old.cap, ctrl |-> old.ctrl,
                 slot |-> [old.slot EXCEPT ![pos] = None]]
      /\ pos' = pos + 1 /\ pc' = pc /\ todo' = todo /\ ret' = ret /\ pc = "rehash"
  BY <1>2, MoveIs
<1>4. s.k \in Key /\ s.v \in Val /\ s = [k |-> s.k, v |-> s.v]
  BY DEF Entry
<1>5. PICK f \in 0..(cap - 1) : f = FreeIndex(s.k)
  BY <1>1, <1>3, <1>4, StoreKeeps
<1>6. /\ TableType' /\ TableInv' /\ slot[f] = None /\ SlotSet(f, s) /\ num' = num + 1
      /\ \A n \in 0..(cap - 1) : n # f => ctrl'[n] = ctrl[n]
      /\ Full' = Full \cup {f}
  BY <1>1, <1>3, <1>4, <1>5, StoreKeeps
<1>7. /\ old'.cap = old.cap /\ old'.ctrl = old.ctrl
      /\ old'.slot = [old.slot EXCEPT ![pos] = None]
  BY <1>3
<1>8. old.cap \in Nat /\ pos \in 0..(old.cap - 1)
      /\ old.slot \in [0..(old.cap - 1) -> Entry \cup {None}]
  BY <1>1, <1>3 DEF OldShape, Left
<1>9. \A i \in 0..(old.cap - 1) : old'.slot[i] = IF i = pos THEN None ELSE old.slot[i]
  BY <1>7, <1>8
<1>10. Left' = Left \ {pos}
  BY <1>7, <1>8, <1>9 DEF Left
<1>11. OldShape'
  <2>1. old'.slot \in [0..(old.cap - 1) -> Entry \cup {None}]
    BY <1>7, <1>8
  <2> QED BY <1>3, <1>7, <1>8, <2>1 DEF OldShape
<1>12. cap' = cap /\ \A n \in 0..(cap - 1) : slot'[n] = IF n = f THEN s ELSE slot[n]
  BY <1>6 DEF SlotSet
<1>13. TypeOK'
  <2>1. pos' \in 0..old'.cap
    BY <1>3, <1>7, <1>8
  <2> QED BY <1>1, <1>3, <1>6, <2>1 DEF TypeOK, TableType, Byte, Entry
<1>14. Rehashing'
  <2>1. todo' # None /\ cap' = 2 * old'.cap + 1 /\ CapOK(old'.cap)
    BY <1>1, <1>3, <1>7, <1>12 DEF Rehashing
  <2>2. \A i \in 0..(cap' - 1) : slot'[i] = None => ctrl'[i] = kEmpty
    BY <1>1, <1>6, <1>12, NoneNotEntry DEF Rehashing
  <2>3. \A i \in 0..(old'.cap - 1) :
          IF i < pos' THEN old'.slot[i] = None
          ELSE IsFull(old'.ctrl[i]) <=> old'.slot[i] # None
    <3>1. SUFFICES ASSUME NEW i \in 0..(old.cap - 1)
                   PROVE IF i < pos + 1 THEN old'.slot[i] = None
                         ELSE IsFull(old.ctrl[i]) <=> old'.slot[i] # None
      BY <1>3, <1>7
    <3>2. IF i < pos THEN old.slot[i] = None ELSE IsFull(old.ctrl[i]) <=> old.slot[i] # None
      BY <1>1 DEF Rehashing
    <3>3. i < pos + 1 <=> i < pos \/ i = pos
      BY <1>8
    <3> QED BY <1>9, <3>2, <3>3
  <2>4. num' + Cardinality(Left') <= Limit(old'.cap)
    <3>1. IsFiniteSet(Left) /\ Cardinality(Left) \in Nat
      BY <1>1, LeftFinite
    <3>2. Cardinality(Left') = Cardinality(Left) - 1
      BY <1>3, <1>10, <3>1, FS_RemoveElement
    <3>3. num \in Nat /\ num + Cardinality(Left) <= Limit(old.cap)
      BY <1>1 DEF TypeOK, Rehashing
    <3>4. Limit(old.cap) \in Nat
      BY <1>1, <1>8, LimitStep DEF Rehashing
    <3>5. num' + Cardinality(Left') <= Limit(old.cap)
      BY <1>6, <3>1, <3>2, <3>3, <3>4
    <3> QED BY <1>7, <3>5
  <2>5. \A i \in Left' : i \in Left /\ i # pos /\ old'.slot[i] = old.slot[i]
    BY <1>9, <1>10 DEF Left
  <2>6. \A i, j \in Left' : old'.slot[i].k = old'.slot[j].k => i = j
    BY <1>1, <2>5 DEF Rehashing
  <2>7. \A i \in Full', j \in Left' : slot'[i].k # old'.slot[j].k
    <3>1. SUFFICES ASSUME NEW i \in Full', NEW j \in Left' PROVE slot'[i].k # old.slot[j].k
      BY <2>5
    <3>2. CASE i = f
      <4>1. slot'[i] = old.slot[pos]
        BY <1>2, <1>12, <3>2
      <4> QED BY <1>1, <1>3, <2>5, <4>1 DEF Rehashing
    <3>3. CASE i # f
      <4>1. i \in Full /\ slot'[i] = slot[i]
        BY <1>6, <1>12, <3>3 DEF Full
      <4> QED BY <1>1, <2>5, <4>1 DEF Rehashing
    <3> QED BY <3>2, <3>3
  <2> QED BY <2>1, <2>2, <2>3, <2>4, <2>6, <2>7 DEF Rehashing
<1> QED BY <1>3, <1>6, <1>11, <1>13, <1>14 DEF IndInv, TableInv

\* The invariant's part about the table does not depend on the rest.
LEMMA TableKept ==
  ASSUME TypeOK, TableInv, UNCHANGED table
  PROVE TableType' /\ TableInv'
<1>1. UNCHANGED <<cap, ctrl, slot, num, growth, addr>>
  BY DEF table
<1>2. Full' = Full
  BY <1>1 DEF Full
<1>3. Reached'
  BY <1>1 DEF TableInv, Reached, Reach, InGroup, Group, MatchEmpty, ProbeCount, Mask, Full
<1>4. CapOK(cap)' /\ Mirror' /\ Unique' /\ Counted'
  BY <1>1, <1>2 DEF TableInv, Mirror, Unique, Counted, Limit
<1>5. TableType'
  BY <1>1, TypeOfTable DEF TableType
<1> QED BY <1>3, <1>4, <1>5 DEF TableInv

\* The step of rehash for a free slot.
LEMMA SkipKeeps ==
  ASSUME IndInv, RehashSkip
  PROVE IndInv'
<1>1. /\ pc = "rehash" /\ pos < old.cap /\ ~IsFull(old.ctrl[pos]) /\ pos' = pos + 1
      /\ UNCHANGED <<cap, ctrl, slot, num, growth, addr, old, todo, pc, ret>>
  BY DEF RehashSkip, table
<1>2. TypeOK /\ Rehashing /\ OldShape /\ TableInv
  BY <1>1 DEF IndInv, TableInv
<1>3. old.cap \in Nat /\ pos \in 0..(old.cap - 1)
  BY <1>1, <1>2 DEF TypeOK, OldShape
<1>4. TypeOK'
  <2>1. pos' \in 0..old.cap
    BY <1>1, <1>3
  <2> QED BY <1>1, <1>2, <2>1 DEF TypeOK
<1>5. TableInv'
  BY <1>1, <1>2, TableKept DEF table
<1>6. OldShape' /\ Full' = Full /\ Left' = Left
  BY <1>1, <1>2 DEF OldShape, Full, Left
<1>7. \A i \in 0..(old.cap - 1) :
        IF i < pos' THEN old.slot[i] = None ELSE IsFull(old.ctrl[i]) <=> old.slot[i] # None
  <2>1. SUFFICES ASSUME NEW i \in 0..(old.cap - 1)
                 PROVE IF i < pos + 1 THEN old.slot[i] = None
                       ELSE IsFull(old.ctrl[i]) <=> old.slot[i] # None
    BY <1>1
  <2>2. IF i < pos THEN old.slot[i] = None ELSE IsFull(old.ctrl[i]) <=> old.slot[i] # None
    BY <1>2 DEF Rehashing
  <2>3. i < pos + 1 <=> i < pos \/ i = pos
    BY <1>3
  <2> QED BY <1>1, <1>3, <2>2, <2>3
<1>8. Rehashing'
  BY <1>1, <1>2, <1>6, <1>7 DEF Rehashing, IsFull, Limit
<1> QED BY <1>1, <1>4, <1>5, <1>6, <1>8 DEF IndInv, TableInv

-----------------------------------------------------------------------------
(***************************************************************************)
(* The operations.                                                         *)
(***************************************************************************)

\* insert, at once or after rehash.
LEMMA InsertKeeps ==
  ASSUME IndInv, NEW k \in Key, NEW v \in Val, InsertKey(k, v)
  PROVE IndInv'
<1>1. TypeOK /\ TableInv /\ ~Diverges(k)
  BY DEF IndInv, TableInv, InsertKey
<1>2. <<"put", k, v>> \in Result
  BY DEF Result
<1>3. CASE Found(k) /\ Overwrite(k, v) /\ Finish(<<"put", k, v>>)
  <2>1. TableType' /\ TableInv'
    BY <1>1, <1>3, OverwriteKeeps
  <2> QED BY <1>2, <1>3, <2>1, Finished
<1>4. CASE ~Found(k) /\ Store(k, v) /\ Finish(<<"put", k, v>>)
  <2>1. TableType' /\ TableInv'
    BY <1>1, <1>4, StoreKeeps
  <2> QED BY <1>2, <1>4, <2>1, Finished
<1>5. CASE StartRehash(k, v)
  BY <1>5, StartKeeps
<1> QED BY <1>3, <1>4, <1>5 DEF InsertKey

\* operator[] on a constant map.
LEMMA LookupKeeps ==
  ASSUME IndInv, NEW k \in Key, Lookup(k)
  PROVE IndInv'
<1>1. TypeOK /\ TableInv /\ ~Diverges(k) /\ UNCHANGED table
  BY DEF IndInv, TableInv, Lookup
<1>2. TableType' /\ TableInv'
  BY <1>1, TableKept
<1>3. PICK x \in Val \cup {None} : x = IF Found(k) THEN slot[RetIndex(k)].v ELSE None
  <2>1. ASSUME Found(k) PROVE slot[RetIndex(k)].v \in Val
    <3>1. RetIndex(k) \in Full
      BY <1>1, <2>1, FoundIsKey DEF TableInv
    <3> QED BY <1>1, <3>1 DEF Full, TypeOK
  <2> QED BY <2>1
<1>4. <<"get", k, x>> \in Result /\ Finish(<<"get", k, x>>)
  BY <1>3 DEF Result, Lookup
<1> QED BY <1>2, <1>4, Finished

\* erase of a key, there or not.
LEMMA EraseStepKeeps ==
  ASSUME IndInv, NEW k \in Key, EraseFound(k) \/ EraseAbsent(k)
  PROVE IndInv'
<1>1. TypeOK /\ TableInv
  BY DEF IndInv, TableInv
<1>2. <<"erase", k, TRUE>> \in Result /\ <<"erase", k, FALSE>> \in Result
  BY DEF Result
<1>3. CASE EraseFound(k)
  <2>1. EraseTable(k) /\ ~Diverges(k) /\ Found(k) /\ Finish(<<"erase", k, TRUE>>)
    BY <1>3 DEF EraseFound, EraseTable
  <2>2. TableType' /\ TableInv'
    BY <1>1, <2>1, EraseKeeps
  <2> QED BY <1>2, <2>1, <2>2, Finished
<1>4. CASE EraseAbsent(k)
  <2>1. Finish(<<"erase", k, FALSE>>) /\ UNCHANGED table
    BY <1>4 DEF EraseAbsent
  <2>2. TableType' /\ TableInv'
    BY <1>1, <2>1, TableKept
  <2> QED BY <1>2, <2>1, <2>2, Finished
<1> QED BY <1>3, <1>4

\* A call that does not return, and steps that change nothing.
LEMMA HangKeeps ==
  ASSUME IndInv, UNCHANGED <<table, old, pos, todo, ret>>, pc' = "hung" \/ pc' = pc
  PROVE IndInv'
<1>1. UNCHANGED <<cap, ctrl, slot, num, growth, addr, old, pos, todo, ret>>
  BY DEF table
<1>2. TypeOK /\ TableInv /\ OldShape /\ (pc = "rehash" => Rehashing) /\ pc # "nested"
  BY DEF IndInv, TableInv
<1>3. TableInv'
  BY <1>1, <1>2, TableKept DEF table
<1>4. TypeOK'
  BY <1>1, <1>2 DEF TypeOK
<1>5. OldShape' /\ Full' = Full /\ Left' = Left
  BY <1>1, <1>2 DEF OldShape, Full, Left
<1>6. Rehashing => Rehashing'
  BY <1>1, <1>5 DEF Rehashing, IsFull, Limit
<1>7. pc' = "rehash" => Rehashing'
  BY <1>2, <1>6
<1> QED BY <1>2, <1>3, <1>4, <1>5, <1>7 DEF IndInv, TableInv

\* The invariant holds in the table that the constructor leaves.
LEMMA InitHolds == Init => IndInv
<1> SUFFICES ASSUME Init PROVE IndInv
  OBVIOUS
<1>1. /\ cap = 0 /\ ctrl = EmptyCtrl(0) /\ slot = EmptySlots(0)
      /\ num = 0 /\ growth = 0 /\ addr \in Addr
      /\ old = [cap |-> 0, ctrl |-> EmptyCtrl(0), slot |-> EmptySlots(0)]
      /\ pos = 0 /\ todo = None /\ pc = "idle" /\ ret = None
  BY DEF Init, NoOld
<1>2. kWidth \in Nat /\ kWidth >= 4
  BY WidthAssumption
<1>3. ctrl \in [0..(kWidth - 1) -> Byte] /\ ctrl[0] = kSentinel
      /\ \A i \in 1..(kWidth - 1) : ctrl[i] = kEmpty
  BY <1>1, <1>2 DEF EmptyCtrl, Byte
<1>4. EmptySlots(0) \in [0..(0 - 1) -> Entry \cup {None}]
  BY DEF EmptySlots
<1>5. old.cap = 0 /\ old.slot = EmptySlots(0) /\ old.ctrl = EmptyCtrl(0)
  BY <1>1
<1>6. OldShape
  BY <1>1, <1>4, <1>5 DEF OldShape
<1>7. TypeOK
  <2>1. cap + kWidth - 1 = kWidth - 1
    BY <1>1, <1>2
  <2>2. ctrl \in [0..(cap + kWidth - 1) -> Byte] /\ slot \in [0..(cap - 1) -> Entry \cup {None}]
    BY <1>1, <1>3, <1>4, <2>1
  <2>3. cap \in 0..MaxCap /\ num \in 0..cap /\ growth \in 0..cap /\ pos \in 0..old.cap
    BY <1>1, <1>5, MaxCapAssumption
  <2> QED BY <1>1, <2>2, <2>3 DEF TypeOK, Byte, Entry
<1>8. Full = {}
  BY <1>1 DEF Full
<1>9. Mirror
  BY <1>1, <1>2, <1>3 DEF Mirror
<1>10. Unique /\ Reached
  BY <1>8 DEF Unique, Reached
<1>11. Counted /\ CapOK(cap)
  BY <1>1, <1>8, FS_EmptySet DEF Counted, Limit, CapOK
<1> QED BY <1>1, <1>6, <1>7, <1>9, <1>10, <1>11 DEF IndInv

\* Every step keeps the invariant.
LEMMA NextKeeps == IndInv /\ [Next]_vars => IndInv'
<1> SUFFICES ASSUME IndInv, [Next]_vars PROVE IndInv'
  OBVIOUS
<1>1. ASSUME NEW k \in Key, Lookup(k) PROVE IndInv'
  BY <1>1, LookupKeeps
<1>2. ASSUME NEW k \in Key, EraseFound(k) \/ EraseAbsent(k) PROVE IndInv'
  BY <1>2, EraseStepKeeps
<1>3. ASSUME NEW k \in Key, Hang(k) PROVE IndInv'
  BY <1>3, HangKeeps DEF Hang
<1>4. ASSUME NEW k \in Key, NEW v \in Vals[k], Insert(k, v) PROVE IndInv'
  <2>1. v \in Val
    BY ValsAssumption
  <2> QED BY <1>4, <2>1, InsertKeeps DEF Insert
<1>5. CASE RehashSkip
  BY <1>5, SkipKeeps
<1>6. CASE RehashMove
  BY <1>6, MoveKeeps
<1>7. CASE InsertAgain
  <2>1. todo \in Entry
    BY <1>7 DEF InsertAgain, IndInv, Rehashing, TypeOK, Entry
  <2>2. todo.k \in Key /\ todo.v \in Val
    BY <2>1 DEF Entry
  <2> QED BY <1>7, <2>2, InsertKeeps DEF InsertAgain
<1>8. CASE Stuck \/ UNCHANGED vars
  BY <1>8, HangKeeps DEF Stuck, vars, table
<1> QED BY <1>1, <1>2, <1>3, <1>4, <1>5, <1>6, <1>7, <1>8 DEF Next

-----------------------------------------------------------------------------
(***************************************************************************)
(* The theorems.                                                           *)
(***************************************************************************)

\* The invariant is one.
THEOREM Inductive == Spec => []IndInv
BY InitHolds, NextKeeps, PTL DEF Spec

\* The bytes that findIndex loads are those of a circular table, whatever the
\* width, the capacity and the order of insertions and erasures.
THEOREM BytesMirror == Spec => []Mirror
<1>1. IndInv => Mirror
  BY DEF IndInv
<1> QED BY <1>1, Inductive, PTL

\* operator[] and erase find every key that was inserted, in the only slot that
\* holds it.
THEOREM KeysAreFound == Spec => []Findable
<1>1. IndInv => Findable
  <2>1. SUFFICES ASSUME IndInv, NEW i \in 0..(cap - 1), slot[i] # None
                 PROVE ~Diverges(slot[i].k) /\ Found(slot[i].k) /\ RetIndex(slot[i].k) = i
    BY DEF Findable
  <2>2. i \in Full
    BY <2>1 DEF Full
  <2> QED BY <2>1, <2>2, FullIsFound DEF IndInv
<1> QED BY <1>1, Inductive, PTL

\* m_num and m_growthInfo count the keys and the room, and rehash never has to
\* grow the table it is filling.
THEOREM CountersAccount == Spec => []Accounted
<1>1. IndInv => Accounted
  <2>1. Full = {i \in 0..(cap - 1) : slot[i] # None}
    BY DEF Full
  <2> QED BY <2>1 DEF IndInv, Accounted, Counted
<1> QED BY <1>1, Inductive, PTL

-----------------------------------------------------------------------------
(***************************************************************************)
(* When findIndex does not return.                                         *)
(***************************************************************************)

\* A table of less than half a group has an empty byte in every load.
LEMMA SmallReturns ==
  ASSUME TypeOK, Mirror, NEW k \in Key, 2 * (cap + 1) <= kWidth
  PROVE ~Diverges(k)
<1>1. cap \in Nat /\ kWidth \in Nat \ {0}
  BY WidthAssumption DEF TypeOK
<1>2. PICK g \in 0..cap : g = Group(k, 0)
  BY GroupRange
<1>3. PICK j \in 0..(kWidth - 1) : j = 2 * cap + 1 - g
  BY <1>1
<1>4. PICK p \in 0..(cap + kWidth - 1) : p = g + j /\ p > 2 * cap /\ p # cap
  BY <1>1, <1>3
<1>5. ctrl[p] = kEmpty
  BY <1>4, Bytes
<1>6. MatchEmpty(Group(k, 0)) # {}
  BY <1>2, <1>4, <1>5 DEF MatchEmpty
<1>7. (cap + 1) \div kWidth \in Nat
  <2>1. cap + 1 \in Nat
    BY <1>1
  <2> QED BY <1>1, <2>1, DivMod
<1>8. 0 \in Stops(k)
  BY <1>6, <1>7 DEF Stops, StopsAt, ProbeCount
<1> QED BY <1>8 DEF Diverges

\* The table that makes findIndex run for ever: at least half a group, no byte of a
\* slot is empty, and some are deleted.
HungBy ==
  pc = "hung" =>
    /\ kWidth < 2 * (cap + 1)
    /\ \A i \in 0..(cap - 1) : ctrl[i] # kEmpty
    /\ \E i \in 0..(cap - 1) : ctrl[i] = kDeleted

\* A call of operator[], insert or erase that does not return has found such a table.
LEMMA HangFinds ==
  ASSUME IndInv, NEW k \in Key, Hang(k)
  PROVE HungBy'
<1>1. TypeOK /\ CapOK(cap) /\ Mirror /\ Counted
  BY DEF IndInv
<1>2. UNCHANGED <<cap, ctrl>> /\ Diverges(k)
  BY DEF Hang, table
<1>3. cap \in Nat /\ kWidth \in Nat /\ kWidth >= 4 /\ num \in Nat /\ growth \in Nat
  BY <1>1, WidthAssumption DEF TypeOK
<1>4. kWidth < 2 * (cap + 1)
  BY <1>1, <1>2, <1>3, SmallReturns
<1>5. \A i \in 0..(cap - 1) : ctrl[i] # kEmpty
  BY <1>1, <1>2, EmptySeen
<1>6. num < cap
  <2>1. cap >= 3
    BY <1>1, <1>3, <1>4 DEF CapOK
  <2>2. Limit(cap) = (7 * (cap + 1) + 6) \div 12
    BY <2>1 DEF Limit
  <2>3. (7 * (cap + 1) + 6) \div 12 < cap
    BY <1>3, <2>1
  <2> QED BY <1>1, <1>3, <2>2, <2>3 DEF Counted
<1>7. PICK i \in 0..(cap - 1) : slot[i] = None
  BY <1>1, <1>6, FullFinite DEF Counted
<1>8. ctrl[i] = kDeleted
  BY <1>1, <1>5, <1>7 DEF Mirror
<1> QED BY <1>2, <1>4, <1>5, <1>8 DEF HungBy

\* No other step hangs, and none leaves that state.
LEMMA HungKept == IndInv /\ HungBy /\ [Next]_vars => HungBy'
<1> SUFFICES ASSUME IndInv, HungBy, [Next]_vars PROVE HungBy'
  OBVIOUS
<1>1. ASSUME NEW k \in Key, Hang(k) PROVE HungBy'
  BY <1>1, HangFinds
<1>2. CASE Stuck \/ UNCHANGED vars
  BY <1>2 DEF Stuck, vars, HungBy
<1>3. ASSUME NEW k, NEW v, InsertKey(k, v) PROVE pc' # "hung"
  BY <1>3 DEF InsertKey, Finish, StartRehash
<1>4. CASE \E k \in Key : Lookup(k) \/ EraseFound(k) \/ EraseAbsent(k)
  BY <1>4 DEF Lookup, EraseFound, EraseAbsent, Finish, HungBy
<1>5. CASE (\E k \in Key : \E v \in Vals[k] : Insert(k, v)) \/ InsertAgain
  BY <1>3, <1>5 DEF Insert, InsertAgain, HungBy
<1>6. CASE RehashSkip \/ RehashMove
  BY <1>6 DEF RehashSkip, RehashMove, HungBy
<1> QED BY <1>1, <1>2, <1>4, <1>5, <1>6 DEF Next

\* findIndex returns unless every slot of a table of half a group or more holds a
\* key or a deleted byte, some of them one: so every call on a small table returns,
\* and every call on a table whose keys were never erased.
THEOREM HangsOnlyOnDeleted == Spec => []HungBy
<1>1. Init => HungBy
  BY DEF Init, HungBy
<1> QED BY <1>1, HungKept, Inductive, PTL DEF Spec

-----------------------------------------------------------------------------
(***************************************************************************)
(* The map.                                                                *)
(***************************************************************************)

\* The map is what the slots hold.
AbsFacts ==
  /\ AbsMap \in [Key -> Val \cup {None}]
  /\ \A i \in Full : slot[i].k \in Key /\ AbsMap[slot[i].k] = slot[i].v
  /\ pc = "rehash" =>
       \A j \in Left : old.slot[j].k \in Key /\ AbsMap[old.slot[j].k] = old.slot[j].v
  /\ \A k \in Key : /\ \A i \in Full : slot[i].k # k
                    /\ pc = "rehash" => \A j \in Left : old.slot[j].k # k
                    => AbsMap[k] = None

\* The map of a table that satisfies the invariant.
LEMMA AbsIs == IndInv => AbsFacts
<1> SUFFICES ASSUME IndInv PROVE AbsFacts
  OBVIOUS
<1>1. TypeOK /\ Unique /\ OldShape /\ pc # "nested" /\ (pc = "rehash" => Rehashing)
  BY DEF IndInv
<1> DEFINE here(k) == {i \in 0..(cap - 1) : slot[i] # None /\ slot[i].k = k}
           there(k) == {i \in 0..(old.cap - 1) : /\ pc \in {"rehash", "nested"}
                                                 /\ old.slot[i] # None
                                                 /\ old.slot[i].k = k}
           val(k) == CASE here(k) # {} -> slot[CHOOSE i \in here(k) : TRUE].v
                       [] here(k) = {} /\ there(k) # {} ->
                            old.slot[CHOOSE i \in there(k) : TRUE].v
                       [] OTHER -> None
<1>2. AbsMap = [k \in Key |-> val(k)]
  BY DEF AbsMap
<1>3. \A i \in Full : slot[i] \in Entry /\ slot[i].k \in Key
  BY <1>1 DEF Full, TypeOK, Entry
<1>4. \A j \in Left : old.slot[j] \in Entry /\ old.slot[j].k \in Key
  BY <1>1 DEF Left, OldShape, Entry
<1>5. \A k : \A i : i \in here(k) <=> i \in Full /\ slot[i].k = k
  BY DEF Full
<1>6. \A k : \A j : j \in there(k) <=> j \in Left /\ pc = "rehash" /\ old.slot[j].k = k
  <2>1. pc \in {"rehash", "nested"} <=> pc = "rehash"
    BY <1>1
  <2> QED BY <2>1 DEF Left
<1> HIDE DEF here, there
<1>7. ASSUME NEW k, NEW i \in Full, slot[i].k = k PROVE val(k) = slot[i].v
  <2>1. \A x : x \in here(k) <=> x = i
    BY <1>1, <1>5, <1>7 DEF Unique
  <2>2. here(k) # {} /\ (CHOOSE x \in here(k) : TRUE) = i
    BY <2>1
  <2> QED BY <2>2
<1>8. ASSUME pc = "rehash", NEW k, NEW j \in Left, old.slot[j].k = k
      PROVE val(k) = old.slot[j].v
  <2>1. Rehashing
    BY <1>1, <1>8
  <2>2. \A x : x \in there(k) <=> x = j
    BY <1>6, <1>8, <2>1 DEF Rehashing
  <2>3. here(k) = {}
    BY <1>5, <1>8, <2>1 DEF Rehashing
  <2>4. there(k) # {} /\ (CHOOSE x \in there(k) : TRUE) = j
    BY <2>2
  <2> QED BY <2>3, <2>4
<1>9. ASSUME NEW k \in Key, here(k) = {}, there(k) = {} PROVE val(k) = None
  BY <1>9
<1> HIDE DEF val
<1>10. ASSUME NEW k \in Key PROVE val(k) \in Val \cup {None}
  <2>1. ASSUME NEW i \in here(k) PROVE val(k) \in Val
    <3>1. i \in Full /\ slot[i].k = k
      BY <1>5, <2>1
    <3>2. slot[i].v \in Val
      BY <1>3, <3>1 DEF Entry
    <3> QED BY <1>7, <3>1, <3>2
  <2>2. ASSUME NEW j \in there(k) PROVE val(k) \in Val
    <3>1. j \in Left /\ old.slot[j].k = k /\ pc = "rehash"
      BY <1>6, <2>2
    <3>2. old.slot[j].v \in Val
      BY <1>4, <3>1 DEF Entry
    <3> QED BY <1>8, <3>1, <3>2
  <2> QED BY <1>9, <2>1, <2>2
<1>11. AbsMap \in [Key -> Val \cup {None}]
  BY <1>2, <1>10
<1>12. \A i \in Full : slot[i].k \in Key /\ AbsMap[slot[i].k] = slot[i].v
  BY <1>2, <1>3, <1>7
<1>13. pc = "rehash" =>
         \A j \in Left : old.slot[j].k \in Key /\ AbsMap[old.slot[j].k] = old.slot[j].v
  BY <1>2, <1>4, <1>8
<1>14. ASSUME NEW k \in Key, \A i \in Full : slot[i].k # k,
              pc = "rehash" => \A j \in Left : old.slot[j].k # k
       PROVE AbsMap[k] = None
  <2>1. here(k) = {} /\ there(k) = {}
    BY <1>5, <1>6, <1>14
  <2> QED BY <1>2, <1>9, <2>1
<1> QED BY <1>11, <1>12, <1>13, <1>14 DEF AbsFacts

\* The same in the next state.
LEMMA AbsIsNext == IndInv' => AbsFacts'
BY AbsIs, PTL

\* A slot written outside rehash, or after its loop, changes its key's value.
LEMMA PutMap ==
  ASSUME AbsFacts, AbsFacts', NEW i \in 0..(cap - 1), NEW s \in Entry, SlotSet(i, s),
         i \notin Full \/ slot[i].k = s.k, Full' = Full \cup {i},
         pc = "rehash" => Left = {}, pc' # "rehash"
  PROVE AbsMap' = [AbsMap EXCEPT ![s.k] = s.v]
<1>1. \A n \in 0..(cap - 1) : slot'[n] = IF n = i THEN s ELSE slot[n]
  BY DEF SlotSet
<1>2. \A n \in Full : n \in 0..(cap - 1)
  BY DEF Full
<1>3. AbsMap \in [Key -> Val \cup {None}] /\ AbsMap' \in [Key -> Val \cup {None}]
  BY DEF AbsFacts
<1>4. AbsMap'[s.k] = s.v /\ s.k \in Key
  BY <1>1 DEF AbsFacts
<1>5. ASSUME NEW x \in Key, x # s.k PROVE AbsMap'[x] = AbsMap[x]
  <2>1. ASSUME NEW n \in Full, slot[n].k = x PROVE AbsMap'[x] = AbsMap[x]
    <3>1. n # i /\ slot'[n] = slot[n] /\ n \in Full'
      BY <1>1, <1>2, <1>5, <2>1
    <3>2. AbsMap[x] = slot[n].v
      BY <2>1 DEF AbsFacts
    <3>3. AbsMap'[x] = slot[n].v
      BY <2>1, <3>1 DEF AbsFacts
    <3> QED BY <3>2, <3>3
  <2>2. ASSUME \A n \in Full : slot[n].k # x PROVE AbsMap'[x] = AbsMap[x]
    <3>1. AbsMap[x] = None
      BY <2>2 DEF AbsFacts
    <3>2. \A n \in Full' : slot'[n].k # x
      BY <1>1, <1>2, <1>5, <2>2
    <3>3. AbsMap'[x] = None
      BY <3>2 DEF AbsFacts
    <3> QED BY <3>1, <3>3
  <2> QED BY <2>1, <2>2
<1> QED BY <1>3, <1>4, <1>5

\* A slot cleared removes its key.
LEMMA RemoveMap ==
  ASSUME AbsFacts, AbsFacts', Unique, NEW i \in Full, SlotSet(i, None),
         Full' = Full \ {i}, pc = "idle", pc' = "idle"
  PROVE AbsMap' = [AbsMap EXCEPT ![slot[i].k] = None]
<1>1. \A n \in Full' : slot'[n] = slot[n]
  BY DEF SlotSet, Full
<1>2. AbsMap \in [Key -> Val \cup {None}] /\ AbsMap' \in [Key -> Val \cup {None}]
  BY DEF AbsFacts
<1>3. ASSUME NEW x \in Key, x # slot[i].k PROVE AbsMap'[x] = AbsMap[x]
  <2>1. ASSUME NEW n \in Full, slot[n].k = x PROVE AbsMap'[x] = AbsMap[x]
    <3>1. n \in Full' /\ slot'[n] = slot[n]
      BY <1>1, <1>3, <2>1
    <3> QED BY <2>1, <3>1 DEF AbsFacts
  <2>2. ASSUME \A n \in Full : slot[n].k # x PROVE AbsMap'[x] = AbsMap[x]
    <3>1. AbsMap[x] = None
      BY <2>2 DEF AbsFacts
    <3>2. \A n \in Full' : slot'[n].k # x
      BY <1>1, <2>2
    <3>3. AbsMap'[x] = None
      BY <3>2 DEF AbsFacts
    <3> QED BY <3>1, <3>3
  <2> QED BY <2>1, <2>2
<1>4. slot[i].k \in Key
  BY DEF AbsFacts
<1>5. AbsMap'[slot[i].k] = None
  <2>1. \A n \in Full' : slot'[n].k # slot[i].k
    BY <1>1 DEF Unique
  <2>2. PICK x \in Key : x = slot[i].k
    BY <1>4
  <2>3. AbsMap'[x] = None
    BY <2>1, <2>2 DEF AbsFacts
  <2> QED BY <2>2, <2>3
<1> QED BY <1>2, <1>3, <1>4, <1>5

\* The same slots hold the same map.
LEMMA SameMap ==
  ASSUME AbsFacts, AbsFacts', Full' = Full, slot' = slot,
         IF pc = "rehash" /\ Left # {}
         THEN pc' = "rehash" /\ Left' = Left /\ old' = old
         ELSE pc' # "rehash" \/ Left' = {}
  PROVE AbsMap' = AbsMap
<1>1. AbsMap \in [Key -> Val \cup {None}] /\ AbsMap' \in [Key -> Val \cup {None}]
  BY DEF AbsFacts
<1>2. ASSUME NEW x \in Key PROVE AbsMap'[x] = AbsMap[x]
  <2>1. ASSUME NEW n \in Full, slot[n].k = x PROVE AbsMap'[x] = AbsMap[x]
    BY <2>1 DEF AbsFacts
  <2>2. ASSUME pc = "rehash", NEW n \in Left, old.slot[n].k = x PROVE AbsMap'[x] = AbsMap[x]
    <3>1. pc' = "rehash" /\ n \in Left' /\ old' = old
      BY <2>2
    <3>2. AbsMap[x] = old.slot[n].v
      BY <2>2 DEF AbsFacts
    <3>3. AbsMap'[x] = old.slot[n].v
      BY <2>2, <3>1 DEF AbsFacts
    <3> QED BY <3>2, <3>3
  <2>3. ASSUME \A n \in Full : slot[n].k # x, pc = "rehash" => \A n \in Left : old.slot[n].k # x
        PROVE AbsMap'[x] = AbsMap[x]
    <3>1. AbsMap[x] = None
      BY <2>3 DEF AbsFacts
    <3>2. \A n \in Full' : slot'[n].k # x
      BY <2>3
    <3>3. pc' = "rehash" => \A n \in Left' : old'.slot[n].k # x
      BY <2>3
    <3>4. AbsMap'[x] = None
      BY <3>2, <3>3 DEF AbsFacts
    <3> QED BY <3>1, <3>4
  <2> QED BY <2>1, <2>2, <2>3
<1> QED BY <1>1, <1>2

\* All slots become old ones.
LEMMA StartMap ==
  ASSUME AbsFacts, AbsFacts', pc = "rehash" => Left = {}, pc' = "rehash",
         Full' = {}, Left' = Full, old'.slot = slot
  PROVE AbsMap' = AbsMap
<1>1. AbsMap \in [Key -> Val \cup {None}] /\ AbsMap' \in [Key -> Val \cup {None}]
  BY DEF AbsFacts
<1>2. ASSUME NEW x \in Key PROVE AbsMap'[x] = AbsMap[x]
  <2>1. ASSUME NEW n \in Full, slot[n].k = x PROVE AbsMap'[x] = AbsMap[x]
    <3>1. n \in Left' /\ old'.slot[n] = slot[n]
      BY <2>1
    <3>2. AbsMap[x] = slot[n].v
      BY <2>1 DEF AbsFacts
    <3>3. AbsMap'[x] = slot[n].v
      BY <2>1, <3>1 DEF AbsFacts
    <3> QED BY <3>2, <3>3
  <2>2. ASSUME \A n \in Full : slot[n].k # x PROVE AbsMap'[x] = AbsMap[x]
    <3>1. AbsMap[x] = None
      BY <2>2 DEF AbsFacts
    <3>2. \A n \in Left' : old'.slot[n].k # x
      BY <2>2
    <3>3. AbsMap'[x] = None
      BY <3>2 DEF AbsFacts
    <3> QED BY <3>1, <3>3
  <2> QED BY <2>1, <2>2
<1> QED BY <1>1, <1>2

\* A key goes from the old table to the new one.
LEMMA MoveMap ==
  ASSUME AbsFacts, AbsFacts', NEW i \in 0..(cap - 1), NEW p \in Left, SlotSet(i, old.slot[p]),
         i \notin Full, Full' = Full \cup {i}, Left' = Left \ {p},
         \A j \in Left' : old'.slot[j] = old.slot[j], pc = "rehash", pc' = "rehash"
  PROVE AbsMap' = AbsMap
<1>1. slot'[i] = old.slot[p] /\ \A n \in Full : slot'[n] = slot[n]
  BY DEF SlotSet, Full
<1>2. AbsMap \in [Key -> Val \cup {None}] /\ AbsMap' \in [Key -> Val \cup {None}]
  BY DEF AbsFacts
<1>3. ASSUME NEW x \in Key PROVE AbsMap'[x] = AbsMap[x]
  <2>1. ASSUME NEW n \in Full, slot[n].k = x PROVE AbsMap'[x] = AbsMap[x]
    <3>1. n \in Full' /\ slot'[n] = slot[n]
      BY <1>1
    <3>2. AbsMap[x] = slot[n].v
      BY <2>1 DEF AbsFacts
    <3>3. AbsMap'[x] = slot[n].v
      BY <2>1, <3>1 DEF AbsFacts
    <3> QED BY <3>2, <3>3
  <2>2. ASSUME old.slot[p].k = x PROVE AbsMap'[x] = AbsMap[x]
    <3>1. AbsMap[x] = old.slot[p].v
      BY <2>2 DEF AbsFacts
    <3>2. AbsMap'[x] = old.slot[p].v
      BY <1>1, <2>2 DEF AbsFacts
    <3> QED BY <3>1, <3>2
  <2>3. ASSUME NEW n \in Left \ {p}, old.slot[n].k = x PROVE AbsMap'[x] = AbsMap[x]
    <3>1. n \in Left' /\ old'.slot[n] = old.slot[n]
      OBVIOUS
    <3>2. AbsMap[x] = old.slot[n].v
      BY <2>3 DEF AbsFacts
    <3>3. AbsMap'[x] = old.slot[n].v
      BY <2>3, <3>1 DEF AbsFacts
    <3> QED BY <3>2, <3>3
  <2>4. ASSUME \A n \in Full : slot[n].k # x, \A n \in Left : old.slot[n].k # x
        PROVE AbsMap'[x] = AbsMap[x]
    <3>1. AbsMap[x] = None
      BY <2>4 DEF AbsFacts
    <3>2. \A n \in Full' : slot'[n].k # x
      BY <1>1, <2>4
    <3>3. \A n \in Left' : old'.slot[n].k # x
      BY <2>4
    <3>4. AbsMap'[x] = None
      BY <3>2, <3>3 DEF AbsFacts
    <3> QED BY <3>1, <3>4
  <2> QED BY <2>1, <2>2, <2>3, <2>4
<1> QED BY <1>2, <1>3

\* insert puts the value, or starts a rehash that does not show.
LEMMA InsertMaps ==
  ASSUME IndInv, AbsFacts, AbsFacts', pc = "rehash" => Left = {},
         NEW k \in Key, NEW v \in Val, InsertKey(k, v)
  PROVE \/ AbsMap' = [AbsMap EXCEPT ![k] = v] /\ ret' = <<"put", k, v>>
        \/ AbsMap' = AbsMap /\ ret' = ret
<1>1. TypeOK /\ TableInv /\ ~Diverges(k)
  BY DEF IndInv, TableInv, InsertKey
<1>2. PICK s \in Entry : s = [k |-> k, v |-> v] /\ s.k = k /\ s.v = v
  <2>1. [k |-> k, v |-> v] \in Entry
    BY DEF Entry
  <2> QED BY <2>1
<1>3. CASE Found(k) /\ Overwrite(k, v) /\ Finish(<<"put", k, v>>)
  <2>1. PICK r \in Full : /\ r = RetIndex(k) /\ slot[r].k = k /\ SlotSet(r, s)
                          /\ Full' = Full
    BY <1>1, <1>2, <1>3, OverwriteKeeps
  <2>2. pc' # "rehash" /\ ret' = <<"put", k, v>>
    BY <1>3 DEF Finish
  <2>3. Full' = Full \cup {r} /\ r \in 0..(cap - 1)
    BY <2>1 DEF Full
  <2>4. r \notin Full \/ slot[r].k = s.k
    BY <1>2, <2>1
  <2>5. AbsMap' = [AbsMap EXCEPT ![s.k] = s.v]
    BY <2>1, <2>2, <2>3, <2>4, PutMap
  <2> QED BY <1>2, <2>2, <2>5
<1>4. CASE ~Found(k) /\ Store(k, v) /\ Finish(<<"put", k, v>>)
  <2>1. PICK f \in 0..(cap - 1) : /\ f = FreeIndex(k) /\ slot[f] = None /\ SlotSet(f, s)
                                  /\ Full' = Full \cup {f}
    BY <1>1, <1>2, <1>4, StoreKeeps
  <2>2. pc' # "rehash" /\ ret' = <<"put", k, v>>
    BY <1>4 DEF Finish
  <2>3. f \notin Full \/ slot[f].k = s.k
    BY <2>1 DEF Full
  <2>4. AbsMap' = [AbsMap EXCEPT ![s.k] = s.v]
    BY <2>1, <2>2, <2>3, PutMap
  <2> QED BY <1>2, <2>2, <2>4
<1>5. CASE StartRehash(k, v)
  <2>1. /\ old' = [cap |-> cap, ctrl |-> ctrl, slot |-> slot] /\ pc' = "rehash"
        /\ cap' = NextCap /\ slot' = EmptySlots(NextCap) /\ ret' = ret
    BY <1>5 DEF StartRehash
  <2>2. Full' = {}
    BY <2>1 DEF Full, EmptySlots
  <2>3. old'.slot = slot /\ old'.cap = cap
    BY <2>1
  <2>4. Left' = Full
    BY <2>3 DEF Left, Full
  <2>5. AbsMap' = AbsMap
    BY <2>1, <2>2, <2>3, <2>4, StartMap
  <2> QED BY <2>1, <2>5
<1> QED BY <1>3, <1>4, <1>5 DEF InsertKey

\* After the loop of rehash nothing is left.
LEMMA NothingLeft ==
  ASSUME IndInv, pc = "rehash", pos >= old.cap
  PROVE Left = {}
<1>1. Rehashing /\ OldShape /\ TypeOK
  BY DEF IndInv
<1>2. \A i \in 0..(old.cap - 1) : i < pos
  BY <1>1 DEF OldShape, TypeOK
<1> QED BY <1>1, <1>2 DEF Rehashing, Left

\* Every step of the table is one of the map, or does not show.
LEMMA MapStep ==
  ASSUME IndInv, AbsFacts, AbsFacts', Next
  PROVE Map!Next \/ UNCHANGED <<AbsMap, ret>>
<1>1. TypeOK /\ TableInv
  BY DEF IndInv, TableInv
<1>2. ASSUME NEW k \in Key, Lookup(k) PROVE Map!Get(k)
  <2>1. /\ pc = "idle" /\ ~Diverges(k) /\ pc' = "idle" /\ slot' = slot /\ cap' = cap
        /\ ret' = <<"get", k, IF Found(k) THEN slot[RetIndex(k)].v ELSE None>>
    BY <1>2 DEF Lookup, Finish, table
  <2>2. Full' = Full
    BY <2>1 DEF Full
  <2>3. AbsMap' = AbsMap
    BY <2>1, <2>2, SameMap
  <2>4. AbsMap[k] = IF Found(k) THEN slot[RetIndex(k)].v ELSE None
    <3>1. CASE Found(k)
      <4>1. RetIndex(k) \in Full /\ slot[RetIndex(k)].k = k
        BY <1>1, <2>1, <3>1, FoundIsKey DEF TableInv
      <4> QED BY <3>1, <4>1 DEF AbsFacts
    <3>2. CASE ~Found(k)
      <4>1. \A i \in Full : slot[i].k # k
        BY <1>1, <3>2, NotFound DEF TableInv
      <4> QED BY <2>1, <3>2, <4>1 DEF AbsFacts
    <3> QED BY <3>1, <3>2
  <2> QED BY <2>1, <2>3, <2>4 DEF Map!Get
<1>3. ASSUME NEW k \in Key, EraseFound(k) PROVE Map!Remove(k)
  <2>1. /\ EraseTable(k) /\ pc = "idle" /\ ~Diverges(k) /\ Found(k)
        /\ pc' = "idle" /\ ret' = <<"erase", k, TRUE>>
    BY <1>3 DEF EraseFound, EraseTable, Finish
  <2>2. PICK r \in Full : /\ r = RetIndex(k) /\ slot[r].k = k /\ SlotSet(r, None)
                          /\ Full' = Full \ {r}
    BY <1>1, <2>1, EraseKeeps
  <2>3. AbsMap' = [AbsMap EXCEPT ![slot[r].k] = None]
    BY <1>1, <2>1, <2>2, RemoveMap DEF TableInv
  <2>4. AbsMap[k] # None
    <3>1. slot[r] \in Entry
      BY <1>1 DEF Full, TypeOK, Entry
    <3>2. AbsMap[k] \in Val
      BY <2>2, <3>1 DEF AbsFacts, Entry
    <3> QED BY <3>2, NoneAssumption
  <2> QED BY <2>1, <2>2, <2>3, <2>4 DEF Map!Remove
<1>4. ASSUME NEW k \in Key, EraseAbsent(k) PROVE Map!Remove(k)
  <2>1. /\ pc = "idle" /\ ~Found(k) /\ pc' = "idle" /\ slot' = slot /\ cap' = cap
        /\ ret' = <<"erase", k, FALSE>>
    BY <1>4 DEF EraseAbsent, Finish, table
  <2>2. Full' = Full
    BY <2>1 DEF Full
  <2>3. AbsMap' = AbsMap
    BY <2>1, <2>2, SameMap
  <2>4. AbsMap[k] = None
    <3>1. \A i \in Full : slot[i].k # k
      BY <1>1, <2>1, NotFound DEF TableInv
    <3> QED BY <2>1, <3>1 DEF AbsFacts
  <2>5. AbsMap = [AbsMap EXCEPT ![k] = None]
    BY <2>4 DEF AbsFacts
  <2> QED BY <2>1, <2>3, <2>4, <2>5 DEF Map!Remove
<1>5. ASSUME NEW k \in Key, Hang(k) PROVE UNCHANGED <<AbsMap, ret>>
  <2>1. /\ slot' = slot /\ cap' = cap /\ ret' = ret /\ pc' = "hung"
        /\ pc = "idle" \/ (pc = "rehash" /\ pos >= old.cap)
    BY <1>5 DEF Hang, table
  <2>2. pc = "rehash" => Left = {}
    BY <2>1, NothingLeft
  <2>3. Full' = Full
    BY <2>1 DEF Full
  <2> QED BY <2>1, <2>2, <2>3, SameMap
<1>6. ASSUME NEW k \in Key, NEW v \in Vals[k], Insert(k, v)
      PROVE Map!Next \/ UNCHANGED <<AbsMap, ret>>
  <2>1. v \in Val
    BY ValsAssumption
  <2>2. \/ AbsMap' = [AbsMap EXCEPT ![k] = v] /\ ret' = <<"put", k, v>>
        \/ AbsMap' = AbsMap /\ ret' = ret
    BY <1>6, <2>1, InsertMaps DEF Insert
  <2> QED BY <2>1, <2>2 DEF Map!Next, Map!Put
<1>7. CASE RehashSkip
  <2>1. UNCHANGED <<slot, cap, old, pc, ret>> /\ pc = "rehash"
    BY <1>7 DEF RehashSkip, table
  <2>2. Full' = Full /\ Left' = Left
    BY <2>1 DEF Full, Left
  <2> QED BY <2>1, <2>2, SameMap
<1>8. CASE RehashMove
  <2>1. PICK s \in Entry : s = old.slot[pos]
    BY <1>8, MoveIs
  <2>2. /\ pos \in Left /\ ~Diverges(s.k) /\ ~Found(s.k) /\ Store(s.k, s.v)
        /\ old' = [cap |-> old.cap, ctrl |-> old.ctrl,
                   slot |-> [old.slot EXCEPT ![pos] = None]]
        /\ pc = "rehash" /\ pc' = "rehash" /\ ret' = ret
    BY <1>8, <2>1, MoveIs
  <2>3. s.k \in Key /\ s.v \in Val /\ s = [k |-> s.k, v |-> s.v]
    BY DEF Entry
  <2>4. PICK f \in 0..(cap - 1) : /\ f = FreeIndex(s.k) /\ slot[f] = None
                                  /\ SlotSet(f, s) /\ Full' = Full \cup {f}
    BY <1>1, <2>2, <2>3, StoreKeeps
  <2>5. f \notin Full
    BY <2>4 DEF Full
  <2>6. old'.cap = old.cap /\ old'.slot = [old.slot EXCEPT ![pos] = None]
    BY <2>2
  <2>7. old.slot \in [0..(old.cap - 1) -> Entry \cup {None}]
    BY DEF IndInv, OldShape
  <2>8. \A j \in 0..(old.cap - 1) : old'.slot[j] = IF j = pos THEN None ELSE old.slot[j]
    BY <2>6, <2>7
  <2>9. Left' = Left \ {pos} /\ \A j \in Left' : old'.slot[j] = old.slot[j]
    BY <2>6, <2>8 DEF Left
  <2>10. PICK p \in Left : p = pos
    BY <2>2
  <2>11. AbsMap' = AbsMap
    BY <2>1, <2>2, <2>4, <2>5, <2>9, <2>10, MoveMap
  <2> QED BY <2>2, <2>11
<1>9. CASE InsertAgain
  <2>1. todo \in Entry
    BY <1>9 DEF InsertAgain, IndInv, Rehashing, TypeOK, Entry
  <2>2. todo.k \in Key /\ todo.v \in Val
    BY <2>1 DEF Entry
  <2>3. pc = "rehash" => Left = {}
    BY <1>9, NothingLeft DEF InsertAgain
  <2>4. PICK k \in Key, v \in Val : k = todo.k /\ v = todo.v
    BY <2>2
  <2>5. \/ AbsMap' = [AbsMap EXCEPT ![k] = v] /\ ret' = <<"put", k, v>>
        \/ AbsMap' = AbsMap /\ ret' = ret
    BY <1>9, <2>3, <2>4, InsertMaps DEF InsertAgain
  <2> QED BY <2>5 DEF Map!Next, Map!Put
<1>10. CASE Stuck
  <2>1. UNCHANGED <<slot, cap, old, pc, ret>> /\ pc # "rehash"
    BY <1>10 DEF Stuck, vars
  <2>2. Full' = Full
    BY <2>1 DEF Full
  <2> QED BY <2>1, <2>2, SameMap
<1> QED BY <1>2, <1>3, <1>4, <1>5, <1>6, <1>7, <1>8, <1>9, <1>10 DEF Next, Map!Next

\* The table implements a map: every call has the effect and the result of the
\* map's operation, and rehash is invisible.
THEOREM ImplementsMap == Spec => MapSpec
<1>1. Init => Map!Init
  <2>1. SUFFICES ASSUME Init PROVE Map!Init
    OBVIOUS
  <2>2. IndInv /\ AbsFacts
    BY <2>1, InitHolds, AbsIs
  <2>3. Full = {} /\ pc = "idle" /\ ret = None
    BY <2>1 DEF Init, Full
  <2>4. \A k \in Key : AbsMap[k] = None
    BY <2>2, <2>3 DEF AbsFacts
  <2>5. AbsMap = [k \in Key |-> None]
    BY <2>2, <2>4 DEF AbsFacts
  <2> QED BY <2>3, <2>5 DEF Map!Init
<1>2. IndInv /\ IndInv' /\ [Next]_vars => [Map!Next]_<<AbsMap, ret>>
  <2>1. SUFFICES ASSUME IndInv, IndInv', [Next]_vars PROVE [Map!Next]_<<AbsMap, ret>>
    OBVIOUS
  <2>2. AbsFacts /\ AbsFacts'
    BY <2>1, AbsIs, AbsIsNext
  <2>3. CASE Next
    BY <2>1, <2>2, <2>3, MapStep
  <2>4. CASE UNCHANGED vars
    <3>1. UNCHANGED <<cap, slot, old, pc, ret>>
      BY <2>4 DEF vars
    <3>2. AbsMap' = AbsMap
      BY <3>1 DEF AbsMap
    <3> QED BY <3>1, <3>2
  <2> QED BY <2>1, <2>3, <2>4
<1> QED BY <1>1, <1>2, Inductive, PTL DEF Spec, MapSpec, Map!Spec
=============================================================================
