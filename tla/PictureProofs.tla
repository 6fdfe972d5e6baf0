---------------------------- MODULE PictureProofs ----------------------------
(***************************************************************************)
(* From the map to the display, for every map, every size of the grid, of  *)
(* the strips and of the scroller's buffer, and any number of frames.      *)
(* Counting orders the cells; the list main loads is given as a function   *)
(* of the rows taken; looking a pixel up in it inverts the order.          *)
(***************************************************************************)
EXTENDS PictureProps, FiniteSetTheorems, SequenceTheorems, WellFoundedInduction, TLAPS

(* The least of some numbers.                                              *)
LEMMA SmallestNat ==
  ASSUME NEW S \in SUBSET Nat, S # {}
  PROVE  \E m \in S : \A k \in S : m <= k
<1>1. PICK m \in S : \A k \in S : << k, m >> \notin OpToRel(<, Nat)
  BY WFMin, NatLessThanWellFounded, Zenon
<1>2. \A k \in S : ~ (k < m)
  BY <1>1, Zenon DEF OpToRel
<1>3. m \in Nat /\ \A k \in S : k \in Nat
  BY <1>1
<1>4. \A k \in S : m <= k
  BY <1>2, <1>3
<1> QED
  BY <1>4

-----------------------------------------------------------------------------
(* Counting the members of a set before each.                              *)
Ranks(S, R, c) == Cardinality({d \in S : << d, c >> \in R})
TotalOrder(S, R) ==
  /\ \A c \in S : << c, c >> \notin R
  /\ \A c, d \in S : c # d => << c, d >> \in R \/ << d, c >> \in R
  /\ \A c, d, e \in S : << c, d >> \in R /\ << d, e >> \in R => << c, e >> \in R

LEMMA RankRange ==
  ASSUME NEW S, IsFiniteSet(S), NEW R, TotalOrder(S, R), NEW c \in S
  PROVE  Ranks(S, R, c) \in 0 .. Cardinality(S) - 1
<1> DEFINE T == {d \in S : << d, c >> \in R}
<1>1. IsFiniteSet(T) /\ Cardinality(T) <= Cardinality(S) /\ (Cardinality(S) = Cardinality(T) => S = T)
  BY FS_Subset
<1>2. c \notin T
  BY DEF TotalOrder
<1>3. Cardinality(S) \in Nat /\ Cardinality(T) \in Nat
  BY <1>1, FS_CardinalityType
<1>4. Cardinality(T) # Cardinality(S)
  BY <1>1, <1>2
<1> QED
  BY <1>1, <1>3, <1>4 DEF Ranks

LEMMA RankLess ==
  ASSUME NEW S, IsFiniteSet(S), NEW R, TotalOrder(S, R), NEW c \in S, NEW d \in S,
         << c, d >> \in R
  PROVE  Ranks(S, R, c) < Ranks(S, R, d)
<1> DEFINE T == {e \in S : << e, c >> \in R}
           U == {e \in S : << e, d >> \in R}
<1>1. T \subseteq U /\ c \in U /\ c \notin T
  BY DEF TotalOrder
<1>2. IsFiniteSet(U)
  BY FS_Subset
<1>3. IsFiniteSet(T) /\ Cardinality(T) <= Cardinality(U) /\ (Cardinality(U) = Cardinality(T) => U = T)
  BY <1>1, <1>2, FS_Subset
<1>4. Cardinality(U) \in Nat /\ Cardinality(T) \in Nat
  BY <1>2, <1>3, FS_CardinalityType
<1>5. Cardinality(U) # Cardinality(T)
  BY <1>1, <1>3
<1> QED
  BY <1>3, <1>4, <1>5 DEF Ranks

LEMMA RankedOnce ==
  ASSUME NEW S, IsFiniteSet(S), NEW R, TotalOrder(S, R),
         NEW c \in S, NEW d \in S, Ranks(S, R, c) = Ranks(S, R, d)
  PROVE  c = d
<1> SUFFICES ASSUME c # d PROVE FALSE
  OBVIOUS
<1>1. Ranks(S, R, c) < Ranks(S, R, d) \/ Ranks(S, R, d) < Ranks(S, R, c)
  BY RankLess DEF TotalOrder
<1>2. Ranks(S, R, c) \in Int /\ Ranks(S, R, d) \in Int
  BY RankRange
<1> QED
  BY <1>1, <1>2

(* A map of a finite set that is one to one into as many numbers takes     *)
(* each of them.                                                           *)
LEMMA OntoNumbers ==
  ASSUME NEW S, IsFiniteSet(S), NEW n, n = Cardinality(S),
         NEW f \in [S -> 0 .. n - 1], \A c, d \in S : f[c] = f[d] => c = d,
         NEW i \in 0 .. n - 1
  PROVE  \E c \in S : f[c] = i
<1>1. n \in Nat
  BY FS_CardinalityType
<1>2. IsFiniteSet(0 .. n - 1) /\ Cardinality(0 .. n - 1) = n
  BY <1>1, FS_Interval
<1>3. f \in Injection(S, 0 .. n - 1)
  BY DEF Injection, IsInjective
<1>4. f \in Surjection(S, 0 .. n - 1)
  BY <1>2, <1>3, FS_Injection
<1> QED
  BY <1>4 DEF Surjection

LEMMA RankTaken ==
  ASSUME NEW S, IsFiniteSet(S), NEW R, TotalOrder(S, R), NEW i \in 0 .. Cardinality(S) - 1
  PROVE  \E c \in S : Ranks(S, R, c) = i
<1> DEFINE f == [c \in S |-> Ranks(S, R, c)]
           n == Cardinality(S)
<1>1. f \in [S -> 0 .. n - 1]
  BY RankRange
<1>2. \A c, d \in S : f[c] = f[d] => c = d
  BY RankedOnce
<1> HIDE DEF n
<1>3. \E c \in S : f[c] = i
  <2> HIDE DEF f
  <2> QED
    BY <1>1, <1>2, OntoNumbers DEF n
<1> QED
  BY <1>3

-----------------------------------------------------------------------------
(* The strips behind each other.                                           *)
Sums(n, f) == f = [c \in 0 .. n |-> IF c = 0 THEN 0 ELSE f[c - 1] + strip_size[c - 1]]
SumsTo(n, f) == f \in [0 .. n -> Int] /\ Sums(n, f)

LEMMA SumsExist ==
  ASSUME NEW n \in 0 .. NUM_STRIPS PROVE \E f : SumsTo(n, f)
<1> DEFINE bad == {k \in 0 .. NUM_STRIPS : ~ \E f : SumsTo(k, f)}
<1> SUFFICES ASSUME bad # {} PROVE FALSE
  OBVIOUS
<1>0. NUM_STRIPS \in Nat /\ \A k \in 0 .. NUM_STRIPS - 1 : strip_size[k] \in Nat
  BY LayoutAssumption DEF Strips
<1>1. bad \in SUBSET Nat
  OBVIOUS
<1>2. PICK m \in bad : \A k \in bad : m <= k
  <2> HIDE DEF bad
  <2> QED
    BY <1>1, SmallestNat
<1>3. m \in 0 .. NUM_STRIPS /\ ~ \E f : SumsTo(m, f)
  OBVIOUS
<1>4. CASE m = 0
  <2> DEFINE f == [i \in 0 .. 0 |-> 0]
  <2>1. SumsTo(0, f)
    BY DEF SumsTo, Sums
  <2> QED
    BY <1>3, <1>4, <2>1
<1>5. CASE m # 0
  <2>1. m - 1 \in 0 .. NUM_STRIPS /\ m - 1 \in 0 .. NUM_STRIPS - 1 /\ ~ (m <= m - 1)
    BY <1>0, <1>3, <1>5
  <2>2. m - 1 \notin bad
    <3> HIDE DEF bad
    <3> QED
      BY <1>2, <2>1
  <2>3. PICK g : SumsTo(m - 1, g)
    BY <2>1, <2>2
  <2> DEFINE f == [i \in 0 .. m |-> IF i = m THEN g[m - 1] + strip_size[m - 1] ELSE g[i]]
  <2>4. \A i \in 0 .. m - 1 : g[i] \in Int /\ g[i] = IF i = 0 THEN 0 ELSE g[i - 1] + strip_size[i - 1]
    BY <2>3 DEF SumsTo, Sums
  <2>5. ASSUME NEW i \in 0 .. m
        PROVE  f[i] \in Int /\ f[i] = IF i = 0 THEN 0 ELSE f[i - 1] + strip_size[i - 1]
    <3>1. CASE i = m
      <4>1. f[m - 1] = g[m - 1] /\ f[m] = g[m - 1] + strip_size[m - 1]
        BY <1>3, <2>1
      <4>2. g[m - 1] \in Int /\ strip_size[m - 1] \in Int
        BY <1>0, <1>3, <1>5, <2>1, <2>4
      <4> QED
        BY <1>5, <3>1, <4>1, <4>2
    <3>2. CASE i = 0
      BY <1>3, <1>5, <2>1, <2>4, <3>2
    <3>3. CASE i # m /\ i # 0
      <4>1. i \in 0 .. m - 1 /\ i - 1 \in 0 .. m /\ i - 1 # m
        BY <1>3, <3>3
      <4>2. f[i] = g[i] /\ f[i - 1] = g[i - 1]
        BY <3>3, <4>1
      <4> QED
        BY <2>4, <3>3, <4>1, <4>2
    <3> QED
      BY <3>1, <3>2, <3>3
  <2>6. f = [i \in 0 .. m |-> f[i]]
    OBVIOUS
  <2> HIDE DEF f
  <2>7. SumsTo(m, f)
    BY <2>5, <2>6 DEF SumsTo, Sums
  <2> QED
    BY <1>3, <2>7
<1> QED
  BY <1>4, <1>5

LEMMA OffsetStep ==
  /\ Offset \in [0 .. NUM_STRIPS -> Int] /\ Offset[0] = 0
  /\ \A k \in Strips : Offset[k + 1] = Offset[k] + strip_size[k]
<1>0. NUM_STRIPS \in Nat
  BY LayoutAssumption
<1>1. PICK f : SumsTo(NUM_STRIPS, f)
  BY <1>0, SumsExist
<1>2. Offset = CHOOSE g : Sums(NUM_STRIPS, g)
  BY Zenon DEF Offset, Sums
<1>3. Sums(NUM_STRIPS, Offset)
  BY <1>1, <1>2, Zenon DEF SumsTo
<1>4. \A c \in 0 .. NUM_STRIPS : Offset[c] = IF c = 0 THEN 0 ELSE Offset[c - 1] + strip_size[c - 1]
  BY <1>3 DEF Sums
<1>5. \A k \in Strips : k + 1 \in 0 .. NUM_STRIPS /\ k + 1 # 0 /\ k + 1 - 1 = k
  BY <1>0 DEF Strips
<1>6. ASSUME NEW k \in Strips PROVE Offset[k + 1] = Offset[k] + strip_size[k]
  <2>1. PICK c \in 0 .. NUM_STRIPS : c = k + 1
    BY <1>5
  <2>3. c # 0 /\ c - 1 = k
    BY <1>0, <2>1 DEF Strips
  <2>2. Offset[c] = Offset[k] + strip_size[k]
    BY <1>4, <2>3
  <2> QED
    BY <2>1, <2>2
<1>7. Offset[0] = 0
  BY <1>0, <1>4
<1>8. \A c \in 0 .. NUM_STRIPS : Offset[c] \in Int
  <2> DEFINE bad == {c \in 0 .. NUM_STRIPS : Offset[c] \notin Int}
  <2> SUFFICES ASSUME bad # {} PROVE FALSE
    OBVIOUS
  <2>1. bad \in SUBSET Nat
    OBVIOUS
  <2>2. PICK m \in bad : \A k \in bad : m <= k
    <3> HIDE DEF bad
    <3> QED
      BY <2>1, SmallestNat
  <2>3. m \in 0 .. NUM_STRIPS /\ Offset[m] \notin Int /\ m # 0
    BY <1>7
  <2>4. m - 1 \in Strips /\ m - 1 \in 0 .. NUM_STRIPS /\ ~ (m <= m - 1) /\ m - 1 + 1 = m
    BY <1>0, <2>3 DEF Strips
  <2>5. m - 1 \notin bad
    <3> HIDE DEF bad
    <3> QED
      BY <2>2, <2>4
  <2>6. Offset[m - 1] \in Int
    BY <2>4, <2>5
  <2>7. strip_size[m - 1] \in Int
    BY <2>4, LayoutAssumption
  <2>8. Offset[m] = Offset[m - 1] + strip_size[m - 1]
    BY <1>4, <2>3
  <2> QED
    BY <2>3, <2>6, <2>7, <2>8
<1>9. Offset = [c \in 0 .. NUM_STRIPS |-> Offset[c]]
  <2>1. \E g : Offset = [c \in 0 .. NUM_STRIPS |-> g[c]]
    <3> DEFINE h == [c \in 0 .. NUM_STRIPS |-> IF c = 0 THEN 0 ELSE Offset[c - 1] + strip_size[c - 1]]
    <3>1. Offset = h
      BY <1>3 DEF Sums
    <3>2. h = [c \in 0 .. NUM_STRIPS |-> h[c]]
      OBVIOUS
    <3> HIDE DEF h
    <3> QED
      BY <3>1, <3>2, Zenon
  <2> QED
    BY <2>1
<1> QED
  BY <1>6, <1>7, <1>8, <1>9

LEMMA OffsetGrows ==
  ASSUME NEW k \in 0 .. NUM_STRIPS, NEW l \in 0 .. NUM_STRIPS, k <= l
  PROVE  Offset[k] <= Offset[l]
<1> DEFINE bad == {j \in k .. NUM_STRIPS : ~ (Offset[k] <= Offset[j])}
<1> SUFFICES ASSUME bad # {} PROVE FALSE
  BY LayoutAssumption
<1>0. NUM_STRIPS \in Nat /\ \A j \in 0 .. NUM_STRIPS : Offset[j] \in Int
  BY LayoutAssumption, OffsetStep
<1>1. bad \in SUBSET Nat
  OBVIOUS
<1>2. PICK m \in bad : \A j \in bad : m <= j
  <2> HIDE DEF bad
  <2> QED
    BY <1>1, SmallestNat
<1>3. m \in k .. NUM_STRIPS /\ ~ (Offset[k] <= Offset[m]) /\ m # k
  BY <1>0
<1>4. m - 1 \in Strips /\ m - 1 \in k .. NUM_STRIPS /\ ~ (m <= m - 1) /\ m - 1 + 1 = m
  BY <1>0, <1>3 DEF Strips
<1>5. m - 1 \notin bad
  <2> HIDE DEF bad
  <2> QED
    BY <1>2, <1>4
<1>6. Offset[k] <= Offset[m - 1]
  BY <1>4, <1>5
<1>7. Offset[m] = Offset[m - 1] + strip_size[m - 1]
  BY <1>4, OffsetStep
<1>8. strip_size[m - 1] \in Nat
  BY <1>4, LayoutAssumption
<1> QED
  BY <1>0, <1>3, <1>4, <1>6, <1>7, <1>8

-----------------------------------------------------------------------------
(* Where a slot is on the display, and which slot is at a place of it.     *)
Slots == [channel : Strips, num : 0 .. NUM_PIXELS - 1]
PlaceOf(slot) == Offset[slot.channel] + slot.num
OnStrip(slot) == slot \in Slots /\ slot.num < strip_size[slot.channel]

LEMMA PlaceRange ==
  ASSUME NEW slot, OnStrip(slot)
  PROVE  /\ PlaceOf(slot) \in 0 .. NUM_PIXELS - 1
         /\ Offset[slot.channel] <= PlaceOf(slot) /\ PlaceOf(slot) < Offset[slot.channel + 1]
<1> DEFINE k == slot.channel
           j == slot.num
<1>1. k \in Strips /\ j \in Nat /\ j < strip_size[k] /\ strip_size[k] \in Nat /\ NUM_STRIPS \in Nat
  BY LayoutAssumption DEF OnStrip, Slots
<1>2. PlaceOf(slot) = Offset[k] + j
  BY DEF PlaceOf
<1> HIDE DEF k, j
<1>3. k \in 0 .. NUM_STRIPS /\ k + 1 \in 0 .. NUM_STRIPS /\ 0 <= k /\ k + 1 <= NUM_STRIPS /\ 0 \in 0 .. NUM_STRIPS
      /\ NUM_STRIPS \in 0 .. NUM_STRIPS
  BY <1>1 DEF Strips
<1>4. Offset[k + 1] = Offset[k] + strip_size[k] /\ Offset[0] = 0 /\ Offset[k] \in Int
  BY <1>1, <1>3, OffsetStep
<1>5. Offset[0] <= Offset[k] /\ Offset[k + 1] <= Offset[NUM_STRIPS]
  BY <1>3, OffsetGrows
<1>6. Offset[NUM_STRIPS] = NUM_PIXELS /\ Offset[NUM_STRIPS] \in Int
  BY <1>3, OffsetStep, LayoutAssumption
<1> QED
  BY <1>1, <1>2, <1>4, <1>5, <1>6 DEF k

LEMMA StripIsOne ==
  ASSUME NEW k \in Strips, NEW l \in Strips, NEW i \in Int,
         Offset[k] <= i, i < Offset[k + 1], Offset[l] <= i, i < Offset[l + 1]
  PROVE  k = l
<1> SUFFICES ASSUME NEW a \in Strips, NEW b \in Strips, a < b,
                    Offset[b] <= i, i < Offset[a + 1]
             PROVE  FALSE
  BY LayoutAssumption DEF Strips
<1>1. NUM_STRIPS \in Nat /\ a + 1 \in 0 .. NUM_STRIPS /\ b \in 0 .. NUM_STRIPS /\ a + 1 <= b
  BY LayoutAssumption DEF Strips
<1>2. Offset[a + 1] <= Offset[b]
  BY <1>1, OffsetGrows
<1>3. Offset[a + 1] \in Int /\ Offset[b] \in Int
  BY <1>1, OffsetStep
<1> QED
  BY <1>2, <1>3

LEMMA PlacedOnce ==
  ASSUME NEW s, OnStrip(s), NEW t, OnStrip(t), PlaceOf(s) = PlaceOf(t)
  PROVE  s = t
<1>1. s.channel \in Strips /\ t.channel \in Strips /\ PlaceOf(s) \in Int
  BY PlaceRange DEF OnStrip, Slots
<1>2. s.channel = t.channel
  BY <1>1, PlaceRange, StripIsOne
<1>3. s.num = t.num
  <2>1. Offset[s.channel] \in Int /\ s.num \in Int /\ t.num \in Int
    BY <1>1, OffsetStep, LayoutAssumption DEF OnStrip, Slots, Strips
  <2>2. Offset[s.channel] + s.num = Offset[s.channel] + t.num
    BY <1>2 DEF PlaceOf
  <2> DEFINE o == Offset[s.channel]
             a == s.num
             b == t.num
  <2>3. o \in Int /\ a \in Int /\ b \in Int /\ o + a = o + b
    BY <2>1, <2>2
  <2> HIDE DEF o, a, b
  <2>4. a = b
    BY <2>3
  <2> QED
    BY <2>4 DEF a, b
<1> QED
  BY <1>2, <1>3 DEF OnStrip, Slots

LEMMA SlotFound ==
  ASSUME NEW i \in 0 .. NUM_PIXELS - 1
  PROVE  OnStrip(SlotOf(i)) /\ PlaceOf(SlotOf(i)) = i
<1> DEFINE above == {k \in 0 .. NUM_STRIPS : i < Offset[k]}
<1>0. NUM_STRIPS \in Nat /\ \A k \in 0 .. NUM_STRIPS : Offset[k] \in Int
  BY LayoutAssumption, OffsetStep
<1>1. above \in SUBSET Nat /\ NUM_STRIPS \in above
  BY <1>0, LayoutAssumption
<1>2. PICK m \in above : \A k \in above : m <= k
  <2> HIDE DEF above
  <2> QED
    BY <1>1, SmallestNat
<1>3. m \in 0 .. NUM_STRIPS /\ i < Offset[m] /\ m # 0
  BY OffsetStep
<1>4. m - 1 \in Strips /\ m - 1 \in 0 .. NUM_STRIPS /\ ~ (m <= m - 1) /\ m - 1 + 1 = m
  BY <1>0, <1>3 DEF Strips
<1>5. m - 1 \notin above
  <2> HIDE DEF above
  <2> QED
    BY <1>2, <1>4
<1>6. Offset[m - 1] <= i /\ i < Offset[m - 1 + 1]
  BY <1>0, <1>3, <1>4, <1>5
<1> DEFINE c == CHOOSE k \in Strips : Offset[k] <= i /\ i < Offset[k + 1]
<1>7. c \in Strips /\ Offset[c] <= i /\ i < Offset[c + 1]
  BY <1>4, <1>6
<1>8. SlotOf(i) = [channel |-> c, num |-> i - Offset[c]]
  BY DEF SlotOf
<1> HIDE DEF c
<1>9. c \in 0 .. NUM_STRIPS /\ 0 \in 0 .. NUM_STRIPS /\ 0 <= c
  BY <1>0, <1>7 DEF Strips
<1>10. Offset[c] \in Int /\ 0 <= Offset[c] /\ Offset[c + 1] = Offset[c] + strip_size[c]
  BY <1>7, <1>9, OffsetGrows, OffsetStep
<1>11. strip_size[c] \in Nat
  BY <1>7, LayoutAssumption
<1>12. i - Offset[c] \in 0 .. NUM_PIXELS - 1 /\ i - Offset[c] < strip_size[c]
       /\ Offset[c] + (i - Offset[c]) = i
  <2>1. NUM_PIXELS \in Int
    BY <1>0, LayoutAssumption
  <2> QED
    BY <1>7, <1>10, <1>11, <2>1
<1> QED
  BY <1>7, <1>8, <1>12 DEF OnStrip, Slots, PlaceOf

-----------------------------------------------------------------------------
(* A map drawn: its cells, one pixel each, fill the strips.                *)
LEMMA MapFacts ==
  ASSUME NEW m \in Maps
  PROVE  /\ DOMAIN m \subseteq GridCells /\ IsFiniteSet(DOMAIN m)
         /\ \A c \in DOMAIN m : OnStrip(m[c])
         /\ \A c, d \in DOMAIN m : m[c] = m[d] => c = d
         /\ \A s : OnStrip(s) => \E c \in DOMAIN m : m[c] = s
<1> DEFINE D == DOMAIN m
           Nums(k) == {m[c].num : c \in {d \in D : m[d].channel = k}}
<1>1. D \subseteq GridCells /\ m \in [D -> Slots]
  BY LayoutAssumption DEF Slots
<1>2. \A c, d \in D : m[c] = m[d] => c = d
  BY LayoutAssumption
<1>3. \A k \in Strips : Nums(k) = 0 .. strip_size[k] - 1
  BY LayoutAssumption
<1>4. IsFiniteSet(GridCells)
  <2>1. GRID_WIDTH - 1 \in Int /\ GRID_HEIGHT - 1 \in Int
    BY GridAssumption
  <2>2. IsFiniteSet(Columns) /\ IsFiniteSet(Rows)
    BY <2>1, FS_Interval DEF Columns, Rows
  <2> QED
    BY <2>2, FS_Product DEF GridCells
<1>5. IsFiniteSet(D)
  BY <1>1, <1>4, FS_Subset
<1>6. ASSUME NEW c \in D PROVE OnStrip(m[c])
  <2>1. m[c] \in Slots /\ m[c].channel \in Strips
    BY <1>1 DEF Slots
  <2>2. m[c].num \in Nums(m[c].channel)
    OBVIOUS
  <2>3. strip_size[m[c].channel] \in Nat
    BY <2>1, LayoutAssumption
  <2>4. m[c].num \in 0 .. strip_size[m[c].channel] - 1
    BY <1>3, <2>1, <2>2
  <2> QED
    BY <2>1, <2>3, <2>4 DEF OnStrip
<1>7. ASSUME NEW s, OnStrip(s) PROVE \E c \in D : m[c] = s
  <2>1. s \in Slots /\ s.channel \in Strips /\ s.num \in Nat /\ s.num < strip_size[s.channel]
    BY <1>7, LayoutAssumption DEF OnStrip, Slots
  <2>5. strip_size[s.channel] \in Nat
    BY <2>1, LayoutAssumption
  <2>2. s.num \in Nums(s.channel)
    BY <1>3, <2>1, <2>5
  <2>3. PICK c \in D : m[c].channel = s.channel /\ m[c].num = s.num
    BY <2>2
  <2>4. m[c] \in Slots
    BY <1>1
  <2> QED
    BY <2>1, <2>3, <2>4 DEF Slots
<1> QED
  BY <1>1, <1>2, <1>5, <1>6, <1>7

(* Where the display has the pixel of a cell: each place once.             *)
PlaceIn(m, c) == PlaceOf(m[c])

LEMMA CellsPlaced ==
  ASSUME NEW m \in Maps
  PROVE  /\ \A c \in DOMAIN m : PlaceIn(m, c) \in 0 .. NUM_PIXELS - 1
         /\ \A c, d \in DOMAIN m : PlaceIn(m, c) = PlaceIn(m, d) => c = d
         /\ \A i \in 0 .. NUM_PIXELS - 1 : \E c \in DOMAIN m : m[c] = SlotOf(i) /\ PlaceIn(m, c) = i
         /\ Cardinality(DOMAIN m) = NUM_PIXELS
<1>1. \A c \in DOMAIN m : PlaceIn(m, c) \in 0 .. NUM_PIXELS - 1
  BY MapFacts, PlaceRange DEF PlaceIn
<1>2. \A c, d \in DOMAIN m : PlaceIn(m, c) = PlaceIn(m, d) => c = d
  BY MapFacts, PlacedOnce DEF PlaceIn
<1>3. \A i \in 0 .. NUM_PIXELS - 1 : \E c \in DOMAIN m : m[c] = SlotOf(i) /\ PlaceIn(m, c) = i
  BY MapFacts, SlotFound DEF PlaceIn
<1>4. Cardinality(DOMAIN m) = NUM_PIXELS
  <2> DEFINE f == [c \in DOMAIN m |-> PlaceIn(m, c)]
             N == 0 .. NUM_PIXELS - 1
  <2>1. f \in [DOMAIN m -> N]
    BY <1>1
  <2>2. \A i \in N : \E c \in DOMAIN m : f[c] = i
    BY <1>3
  <2>3. \A c, d \in DOMAIN m : f[c] = f[d] => c = d
    BY <1>2
  <2>4. NUM_PIXELS \in Nat
    <3>1. NUM_STRIPS \in Nat /\ 0 \in 0 .. NUM_STRIPS /\ NUM_STRIPS \in 0 .. NUM_STRIPS /\ 0 <= NUM_STRIPS
      BY LayoutAssumption
    <3>2. Offset[0] = 0 /\ Offset[NUM_STRIPS] \in Int /\ Offset[0] <= Offset[NUM_STRIPS]
      BY <3>1, OffsetGrows, OffsetStep
    <3> QED
      BY <3>2, LayoutAssumption
  <2>5. Cardinality(N) = NUM_PIXELS
    BY <2>4, FS_Interval
  <2> HIDE DEF f, N
  <2>6. f \in Bijection(DOMAIN m, N)
    BY <2>1, <2>2, <2>3 DEF Bijection, Injection, Surjection, IsInjective
  <2>7. ExistsBijection(DOMAIN m, N)
    BY <2>6 DEF ExistsBijection
  <2>8. IsFiniteSet(DOMAIN m)
    BY MapFacts
  <2> QED
    BY <2>5, <2>7, <2>8, FS_Bijection
<1> QED
  BY <1>1, <1>2, <1>3, <1>4

-----------------------------------------------------------------------------
(* The order of the files.                                                 *)
LEMMA PixelsNat == NUM_PIXELS \in Nat
<1>1. NUM_STRIPS \in Nat /\ 0 \in 0 .. NUM_STRIPS /\ NUM_STRIPS \in 0 .. NUM_STRIPS /\ 0 <= NUM_STRIPS
  BY LayoutAssumption
<1>2. Offset[0] = 0 /\ Offset[NUM_STRIPS] \in Int /\ Offset[0] <= Offset[NUM_STRIPS]
  BY <1>1, OffsetGrows, OffsetStep
<1> QED
  BY <1>2, LayoutAssumption

RowByRow(D) == {p \in D \X D : Before(p[1], p[2])}

LEMMA RowsOrdered == ASSUME NEW D, D \subseteq GridCells PROVE TotalOrder(D, RowByRow(D))
<1>1. \A c \in D : c = << c[1], c[2] >> /\ c[1] \in Int /\ c[2] \in Int
  BY DEF GridCells, Columns, Rows
<1>2. \A c, d \in D : << c, d >> \in RowByRow(D) <=> Before(c, d)
  BY DEF RowByRow
<1>3. \A c \in D : ~ Before(c, c)
  BY <1>1 DEF Before
<1>4. \A c, d \in D : c # d => Before(c, d) \/ Before(d, c)
  BY <1>1 DEF Before
<1>5. \A c, d, e \in D : Before(c, d) /\ Before(d, e) => Before(c, e)
  BY <1>1 DEF Before
<1> QED
  BY <1>2, <1>3, <1>4, <1>5 DEF TotalOrder

LEMMA ScanFacts ==
  ASSUME NEW m \in Maps
  PROVE  /\ Scan(m) \in [1 .. NUM_PIXELS -> DOMAIN m]
         /\ \A i, j \in 1 .. NUM_PIXELS : Scan(m)[i] = Scan(m)[j] => i = j
         /\ \A c \in DOMAIN m : \E i \in 1 .. NUM_PIXELS : Scan(m)[i] = c
<1> DEFINE D == DOMAIN m
           R == RowByRow(D)
           n == Cardinality(D)
           s == Scan(m)
<1>1. D \subseteq GridCells /\ IsFiniteSet(D) /\ n = NUM_PIXELS /\ n \in Nat
  BY MapFacts, CellsPlaced, PixelsNat
<1>2. TotalOrder(D, R)
  BY <1>1, RowsOrdered
<1>3. s = [i \in 1 .. n |-> CHOOSE c \in D : Ranks(D, R, c) = i - 1]
  <2>1. ASSUME NEW c \in D PROVE {d \in D : Before(d, c)} = {d \in D : << d, c >> \in R}
    BY DEF RowByRow
  <2>2. ASSUME NEW c \in D PROVE Cardinality({d \in D : Before(d, c)}) = Ranks(D, R, c)
    BY <2>1, Zenon DEF Ranks
  <2> DEFINE V(i) == CHOOSE c \in D : Cardinality({d \in D : Before(d, c)}) = i - 1
             W(i) == CHOOSE c \in D : Ranks(D, R, c) = i - 1
  <2>3. ASSUME NEW i \in 1 .. n PROVE V(i) = W(i)
    BY <2>2, Zenon
  <2>4. s = [i \in 1 .. n |-> V(i)]
    BY Zenon DEF Scan, Counted
  <2>5. s = [i \in 1 .. n |-> W(i)]
    <3> HIDE DEF s, n, V, W
    <3> QED
      BY <2>3, <2>4
  <2> QED
    BY <2>5, Zenon
<1> HIDE DEF s, R, D
<1>4. ASSUME NEW i \in 1 .. n PROVE s[i] \in D /\ Ranks(D, R, s[i]) = i - 1
  <2>1. i - 1 \in 0 .. n - 1
    BY <1>1
  <2>2. \E c \in D : Ranks(D, R, c) = i - 1
    BY <1>1, <1>2, <2>1, RankTaken
  <2>3. s[i] = CHOOSE c \in D : Ranks(D, R, c) = i - 1
    BY <1>3
  <2> QED
    BY <2>2, <2>3, Zenon
<1>5. s \in [1 .. n -> D]
  BY <1>3, <1>4
<1>6. ASSUME NEW i \in 1 .. n, NEW j \in 1 .. n, s[i] = s[j] PROVE i = j
  <2>1. i - 1 = j - 1
    BY <1>4, <1>6
  <2> QED
    BY <2>1
<1>7. ASSUME NEW c \in D PROVE \E i \in 1 .. n : s[i] = c
  <2>1. PICK r \in 0 .. n - 1 : r = Ranks(D, R, c)
    BY <1>1, <1>2, RankRange
  <2>2. r + 1 \in 1 .. n /\ r + 1 - 1 = r
    BY <1>1, <2>1
  <2>3. s[r + 1] \in D /\ Ranks(D, R, s[r + 1]) = Ranks(D, R, c)
    BY <1>4, <2>1, <2>2
  <2>4. s[r + 1] = c
    BY <1>1, <1>2, <2>3, RankedOnce
  <2> QED
    BY <2>2, <2>4
<1> QED
  BY <1>1, <1>5, <1>6, <1>7 DEF s, D

(* The point of the display at a place is the cell whose pixel is there:   *)
(* as many cells are before it in strip order as there are places.         *)
LEMMA PointAt ==
  ASSUME map \in Maps, NEW i \in 0 .. NUM_PIXELS - 1, NEW c \in DOMAIN map, PlaceIn(map, c) = i
  PROVE  Points[i + 1] = c
<1> DEFINE D == DOMAIN map
           Less(d) == {e \in D : InStripOrder(e, d)}
           P(d) == PlaceIn(map, d)
<1>1. /\ IsFiniteSet(D) /\ \A d \in D : P(d) \in 0 .. NUM_PIXELS - 1
      /\ \A d, e \in D : P(d) = P(e) => d = e
      /\ \A j \in 0 .. NUM_PIXELS - 1 : \E d \in D : P(d) = j
      /\ Cardinality(D) = NUM_PIXELS /\ NUM_PIXELS \in Nat
  BY MapFacts, CellsPlaced, PixelsNat, Zenon
<1>2. ASSUME NEW d \in D, NEW e \in D PROVE InStripOrder(e, d) <=> P(e) < P(d)
  <2> DEFINE k == map[e].channel
             l == map[d].channel
             a == map[e].num
             b == map[d].num
             p == P(e)
             q == P(d)
  <2>1. OnStrip(map[e]) /\ OnStrip(map[d])
    BY MapFacts
  <2>2. /\ Offset[k] <= p /\ p < Offset[k + 1] /\ p = Offset[k] + a
        /\ Offset[l] <= q /\ q < Offset[l + 1] /\ q = Offset[l] + b
        /\ p \in Int /\ q \in Int
    BY <2>1, PlaceRange DEF PlaceIn, PlaceOf
  <2>3. k \in Strips /\ l \in Strips /\ a \in Int /\ b \in Int
    BY <2>1 DEF OnStrip, Slots
  <2>4. InStripOrder(e, d) <=> k < l \/ (k = l /\ a < b)
    BY DEF InStripOrder
  <2> HIDE DEF k, l, a, b, p, q
  <2>5. /\ k \in 0 .. NUM_STRIPS /\ l \in 0 .. NUM_STRIPS /\ k + 1 \in 0 .. NUM_STRIPS
        /\ l + 1 \in 0 .. NUM_STRIPS /\ NUM_STRIPS \in Nat
    <3>1. NUM_STRIPS \in Nat
      BY LayoutAssumption
    <3> QED
      BY <2>3, <3>1 DEF Strips
  <2>6. Offset[k] \in Int /\ Offset[l] \in Int /\ Offset[k + 1] \in Int /\ Offset[l + 1] \in Int
    BY <2>5, OffsetStep
  <2>7. CASE k < l
    <3>1. k + 1 <= l
      BY <2>5, <2>7
    <3>2. Offset[k + 1] <= Offset[l]
      BY <2>5, <3>1, OffsetGrows
    <3>3. p < q
      BY <2>2, <2>6, <3>2
    <3> QED
      BY <2>4, <2>7, <3>3 DEF p, q
  <2>8. CASE l < k
    <3>1. l + 1 <= k
      BY <2>5, <2>8
    <3>2. Offset[l + 1] <= Offset[k]
      BY <2>5, <3>1, OffsetGrows
    <3>3. ~ (p < q) /\ ~ (k < l) /\ k # l
      BY <2>2, <2>5, <2>6, <2>8, <3>2
    <3> QED
      BY <2>4, <3>3 DEF p, q
  <2>9. CASE k = l
    <3>1. p < q <=> a < b
      BY <2>2, <2>3, <2>6, <2>9
    <3>2. ~ (k < l)
      BY <2>5, <2>9
    <3> QED
      BY <2>4, <2>9, <3>1, <3>2 DEF p, q
  <2> QED
    BY <2>5, <2>7, <2>8, <2>9
<1>3. ASSUME NEW d \in D PROVE Cardinality(Less(d)) = P(d)
  <2> DEFINE L == Less(d)
             N == 0 .. P(d) - 1
             f == [e \in L |-> P(e)]
  <2>1. P(d) \in Nat /\ P(d) - 1 < NUM_PIXELS - 1 + 1
    BY <1>1
  <2>2. \A e \in L : e \in D /\ P(e) \in N
    BY <1>1, <1>2
  <2>3. f \in [L -> N] /\ \A x, y \in L : f[x] = f[y] => x = y
    BY <1>1, <2>2
  <2>4. ASSUME NEW j \in N PROVE \E e \in L : f[e] = j
    <3>1. j \in 0 .. NUM_PIXELS - 1 /\ j < P(d)
      BY <1>1, <2>1
    <3>2. PICK e \in D : P(e) = j
      BY <1>1, <3>1
    <3>3. e \in L
      BY <1>2, <3>1, <3>2
    <3> QED
      BY <3>2, <3>3
  <2>5. IsFiniteSet(L)
    BY <1>1, FS_Subset
  <2>6. Cardinality(N) = P(d)
    BY <2>1, FS_Interval
  <2> HIDE DEF f, L, N
  <2>7. f \in Bijection(L, N)
    BY <2>3, <2>4 DEF Bijection, Injection, Surjection, IsInjective
  <2>8. ExistsBijection(L, N)
    BY <2>7 DEF ExistsBijection
  <2>9. Cardinality(L) = P(d)
    BY <2>5, <2>6, <2>8, FS_Bijection
  <2> QED
    BY <2>9 DEF L
<1>4. Points = [j \in 1 .. Cardinality(D) |-> CHOOSE d \in D : Cardinality(Less(d)) = j - 1]
  BY Zenon DEF Points, Counted
<1>5. i + 1 \in 1 .. Cardinality(D) /\ i + 1 - 1 = i
  BY <1>1
<1> HIDE DEF Less, P
<1>6. Points[i + 1] = CHOOSE d \in D : Cardinality(Less(d)) = i
  BY <1>4, <1>5
<1>7. \A d \in D : Cardinality(Less(d)) = i <=> d = c
  BY <1>1, <1>3 DEF P
<1> QED
  BY <1>6, <1>7

-----------------------------------------------------------------------------
(* The list while main loads it: n pixels, g of them with a place on earth *)
(* and s of them with one on a strip.                                      *)
Entry(m, j, g, s) ==
  [grid  |-> Scan(m)[j],
   geo   |-> IF j <= g THEN << "latitude", j - 1 >> ELSE Unknown,
   strip |-> IF j <= s THEN m[Scan(m)[j]] ELSE Unknown]
ListOf(m, n, g, s) == [j \in 1 .. n |-> Entry(m, j, g, s)]

LEMMA FunctionIsSeq ==
  ASSUME NEW n \in Nat, NEW S, NEW s \in [1 .. n -> S] PROVE s \in Seq(S) /\ Len(s) = n
  OBVIOUS

LEMMA EntryType ==
  ASSUME NEW m \in Maps, NEW j \in 1 .. NUM_PIXELS, NEW g \in 0 .. MaxGeoRows, NEW s \in Int
  PROVE  /\ Entry(m, j, g, s) \in PixelInfo
         /\ Scan(m)[j] \in DOMAIN m /\ Scan(m)[j] \in GridCells /\ m[Scan(m)[j]] \in Slots
<1>1. Scan(m)[j] \in DOMAIN m
  BY ScanFacts
<1>2. Scan(m)[j] \in GridCells /\ m[Scan(m)[j]] \in Slots
  BY <1>1, MapFacts DEF OnStrip
<1>3. j <= g => << "latitude", j - 1 >> \in Place
  <2>1. MaxGeoRows \in Nat /\ NUM_PIXELS \in Nat
    BY LayoutAssumption, PixelsNat
  <2>2. j <= g => j - 1 \in 0 .. MaxGeoRows
    BY <2>1
  <2> QED
    BY <2>2 DEF Place
<1> DEFINE c == Scan(m)[j]
           b == m[c]
           e == IF j <= g THEN << "latitude", j - 1 >> ELSE Unknown
           t == IF j <= s THEN b ELSE Unknown
<1>4. e \in Place \cup {Unknown} /\ t \in Slots \cup {Unknown} /\ c \in GridCells
  BY <1>2, <1>3
<1>5. Entry(m, j, g, s) = [grid |-> c, geo |-> e, strip |-> t]
  BY DEF Entry
<1> HIDE DEF c, b, e, t
<1>6. Entry(m, j, g, s) \in PixelInfo
  BY <1>4, <1>5 DEF PixelInfo, Slots
<1> QED
  BY <1>1, <1>2, <1>6

LEMMA ListFacts ==
  ASSUME NEW m \in Maps, NEW n \in 0 .. NUM_PIXELS, NEW g \in 0 .. MaxGeoRows, NEW s \in Int
  PROVE  /\ ListOf(m, n, g, s) \in [1 .. n -> PixelInfo]
         /\ ListOf(m, n, g, s) \in Seq(PixelInfo) /\ Len(ListOf(m, n, g, s)) = n
         /\ \A j \in 1 .. n : ListOf(m, n, g, s)[j] = Entry(m, j, g, s)
<1>0. n \in Nat /\ \A j \in 1 .. n : j \in 1 .. NUM_PIXELS
  BY PixelsNat
<1>1. \A j \in 1 .. n : Entry(m, j, g, s) \in PixelInfo
  BY <1>0, EntryType
<1>2. ListOf(m, n, g, s) \in [1 .. n -> PixelInfo]
  BY <1>1 DEF ListOf
<1>3. \A j \in 1 .. n : ListOf(m, n, g, s)[j] = Entry(m, j, g, s)
  BY DEF ListOf
<1> QED
  BY <1>0, <1>2, <1>3, FunctionIsSeq

LEMMA GridRow ==
  ASSUME NEW m \in Maps, NEW n \in 0 .. NUM_PIXELS - 1
  PROVE  Append(ListOf(m, n, 0, 0), [grid |-> Scan(m)[n + 1], geo |-> Unknown, strip |-> Unknown])
           = ListOf(m, n + 1, 0, 0)
<1> DEFINE a == ListOf(m, n, 0, 0)
           b == ListOf(m, n + 1, 0, 0)
           e == [grid |-> Scan(m)[n + 1], geo |-> Unknown, strip |-> Unknown]
<1>1. /\ NUM_PIXELS \in Nat /\ n \in Nat /\ n + 1 \in 0 .. NUM_PIXELS /\ n \in 0 .. NUM_PIXELS
      /\ n + 1 \in 1 .. NUM_PIXELS /\ 0 \in 0 .. MaxGeoRows
  BY PixelsNat, LayoutAssumption
<1>2. e = Entry(m, n + 1, 0, 0)
  BY <1>1 DEF Entry
<1>3. e \in PixelInfo
  BY <1>1, <1>2, EntryType
<1>4. /\ a \in Seq(PixelInfo) /\ Len(a) = n /\ \A j \in 1 .. n : a[j] = Entry(m, j, 0, 0)
  BY <1>1, ListFacts
<1>5. /\ b \in Seq(PixelInfo) /\ Len(b) = n + 1 /\ \A j \in 1 .. n + 1 : b[j] = Entry(m, j, 0, 0)
  BY <1>1, ListFacts
<1> DEFINE c == Append(a, e)
<1> HIDE DEF a, b, e
<1>6. c \in Seq(PixelInfo) /\ Len(c) = n + 1 /\ c[n + 1] = e /\ \A j \in 1 .. n : c[j] = a[j]
  BY <1>3, <1>4, AppendProperties
<1> HIDE DEF c
<1>7. ASSUME NEW j \in 1 .. n + 1 PROVE c[j] = b[j]
  <2>1. j \in 1 .. n \/ j = n + 1
    BY <1>1
  <2> QED
    BY <1>2, <1>4, <1>5, <1>6, <2>1
<1>8. c = b
  BY <1>5, <1>6, <1>7, SeqEqual
<1> QED
  BY <1>8 DEF a, b, c, e

LEMMA GeoRow ==
  ASSUME NEW m \in Maps, NEW g \in 0 .. MaxGeoRows - 1, g < NUM_PIXELS
  PROVE  [ListOf(m, NUM_PIXELS, g, 0) EXCEPT ![g + 1].geo = << "latitude", g >>]
           = ListOf(m, NUM_PIXELS, g + 1, 0)
<1> DEFINE n == NUM_PIXELS
           a == ListOf(m, n, g, 0)
           b == ListOf(m, n, g + 1, 0)
           v == << "latitude", g >>
<1>1. /\ n \in Nat /\ g \in Nat /\ g + 1 \in 1 .. n /\ g \in 0 .. MaxGeoRows /\ g + 1 \in 0 .. MaxGeoRows
      /\ n \in 0 .. n /\ g + 1 - 1 = g
  BY PixelsNat, LayoutAssumption
<1>2. a \in [1 .. n -> PixelInfo] /\ \A j \in 1 .. n : a[j] = Entry(m, j, g, 0)
  BY <1>1, ListFacts
<1>3. b \in [1 .. n -> PixelInfo] /\ \A j \in 1 .. n : b[j] = Entry(m, j, g + 1, 0)
  <2>1. \A h \in 0 .. MaxGeoRows :
          /\ ListOf(m, n, h, 0) \in [1 .. n -> PixelInfo]
          /\ \A j \in 1 .. n : ListOf(m, n, h, 0)[j] = Entry(m, j, h, 0)
    BY <1>1, ListFacts
  <2> QED
    BY <1>1, <2>1, Zenon
<1>4. ASSUME NEW j \in 1 .. n, j # g + 1 PROVE Entry(m, j, g, 0) = Entry(m, j, g + 1, 0)
  <2>1. (j <= g) <=> (j <= g + 1)
    BY <1>1, <1>4
  <2> QED
    BY <2>1 DEF Entry
<1>5. [Entry(m, g + 1, g, 0) EXCEPT !.geo = v] = Entry(m, g + 1, g + 1, 0)
  BY <1>1 DEF Entry
<1> HIDE DEF n, a, b, v
<1>6. [a EXCEPT ![g + 1].geo = v] = b
  BY <1>1, <1>2, <1>3, <1>4, <1>5
<1> QED
  BY <1>6 DEF n, a, b, v

LEMMA StripRow ==
  ASSUME NEW m \in Maps, NEW g \in 0 .. MaxGeoRows, NEW s \in 0 .. NUM_PIXELS - 1
  PROVE  [ListOf(m, NUM_PIXELS, g, s) EXCEPT ![s + 1].strip = m[Scan(m)[s + 1]]]
           = ListOf(m, NUM_PIXELS, g, s + 1)
<1> DEFINE n == NUM_PIXELS
           a == ListOf(m, n, g, s)
           b == ListOf(m, n, g, s + 1)
           v == m[Scan(m)[s + 1]]
<1>1. n \in Nat /\ s \in Nat /\ s + 1 \in 1 .. n /\ n \in 0 .. n
  BY PixelsNat
<1>2. a \in [1 .. n -> PixelInfo] /\ \A j \in 1 .. n : a[j] = Entry(m, j, g, s)
  BY <1>1, ListFacts
<1>3. b \in [1 .. n -> PixelInfo] /\ \A j \in 1 .. n : b[j] = Entry(m, j, g, s + 1)
  BY <1>1, ListFacts
<1>4. ASSUME NEW j \in 1 .. n, j # s + 1 PROVE Entry(m, j, g, s) = Entry(m, j, g, s + 1)
  <2>1. (j <= s) <=> (j <= s + 1)
    BY <1>1, <1>4
  <2> QED
    BY <2>1 DEF Entry
<1>5. [Entry(m, s + 1, g, s) EXCEPT !.strip = v] = Entry(m, s + 1, g, s + 1)
  BY <1>1 DEF Entry
<1> HIDE DEF n, a, b, v
<1>6. [a EXCEPT ![s + 1].strip = v] = b
  BY <1>1, <1>2, <1>3, <1>4, <1>5
<1> QED
  BY <1>6 DEF n, a, b, v

-----------------------------------------------------------------------------
(* The rows of the files.                                                  *)
GeoRead == IF geoRows < NUM_PIXELS THEN geoRows ELSE NUM_PIXELS

LoadInv ==
  /\ map \in Maps /\ geoRows \in 0 .. MaxGeoRows /\ at \in Nat
  /\ \/ loading = "grid" /\ at <= NUM_PIXELS /\ pixel_info = ListOf(map, at, 0, 0)
     \/ loading = "geo" /\ at <= GeoRead /\ pixel_info = ListOf(map, NUM_PIXELS, at, 0)
     \/ loading = "strip" /\ at <= NUM_PIXELS /\ pixel_info = ListOf(map, NUM_PIXELS, GeoRead, at)
     \/ loading = "done" /\ at = 0 /\ pixel_info = ListOf(map, NUM_PIXELS, GeoRead, NUM_PIXELS)

LEMMA RowsOfFiles ==
  ASSUME map \in Maps, geoRows \in 0 .. MaxGeoRows
  PROVE  /\ Len(coordinates) = NUM_PIXELS /\ Len(strip_config) = NUM_PIXELS
         /\ Len(geolocation) = geoRows
         /\ \A i \in 1 .. NUM_PIXELS :
              /\ coordinates[i] = Row(Scan(map)[i][1], Scan(map)[i][2], i - 1)
              /\ strip_config[i] = Row(map[Scan(map)[i]].channel, map[Scan(map)[i]].num, i - 1)
         /\ \A i \in 1 .. geoRows : geolocation[i] = Row("latitude", i - 1, i - 1)
         /\ GeoRead \in 0 .. MaxGeoRows /\ GeoRead \in 0 .. NUM_PIXELS
<1>1. DOMAIN Scan(map) = 1 .. NUM_PIXELS /\ NUM_PIXELS \in Nat /\ geoRows \in Nat
  BY ScanFacts, PixelsNat
<1> DEFINE A == [i \in 1 .. NUM_PIXELS |-> Row(Scan(map)[i][1], Scan(map)[i][2], i - 1)]
           B == [i \in 1 .. NUM_PIXELS |-> Row(map[Scan(map)[i]].channel, map[Scan(map)[i]].num, i - 1)]
           C == [i \in 1 .. geoRows |-> Row("latitude", i - 1, i - 1)]
<1>2. coordinates = A /\ strip_config = B /\ geolocation = C
  BY <1>1 DEF coordinates, strip_config, geolocation
<1>3. Len(A) = NUM_PIXELS
  <2>1. A \in [1 .. NUM_PIXELS -> {A[i] : i \in 1 .. NUM_PIXELS}]
    OBVIOUS
  <2> HIDE DEF A
  <2> QED
    BY <1>1, <2>1, FunctionIsSeq
<1>4. Len(B) = NUM_PIXELS
  <2>1. B \in [1 .. NUM_PIXELS -> {B[i] : i \in 1 .. NUM_PIXELS}]
    OBVIOUS
  <2> HIDE DEF B
  <2> QED
    BY <1>1, <2>1, FunctionIsSeq
<1>5. Len(C) = geoRows
  <2>1. C \in [1 .. geoRows -> {C[i] : i \in 1 .. geoRows}]
    OBVIOUS
  <2> HIDE DEF C
  <2> QED
    BY <1>1, <2>1, FunctionIsSeq
<1>6. GeoRead \in 0 .. MaxGeoRows /\ GeoRead \in 0 .. NUM_PIXELS
  BY <1>1, LayoutAssumption DEF GeoRead
<1>7. /\ \A i \in 1 .. NUM_PIXELS :
           /\ A[i] = Row(Scan(map)[i][1], Scan(map)[i][2], i - 1)
           /\ B[i] = Row(map[Scan(map)[i]].channel, map[Scan(map)[i]].num, i - 1)
      /\ \A i \in 1 .. geoRows : C[i] = Row("latitude", i - 1, i - 1)
  OBVIOUS
<1> HIDE DEF A, B, C
<1> QED
  BY <1>2, <1>3, <1>4, <1>5, <1>6, <1>7

LEMMA InfoKnown == \A e \in PixelInfo : e # Unknown
  BY UnknownAssumption

LEMMA GeoRowsNat == MaxGeoRows \in Nat
  BY LayoutAssumption

LEMMA GridLoads == ASSUME LoadInv, init_grid PROVE LoadInv'
<1>1. /\ loading = "grid" /\ at < Len(coordinates) /\ at' = at + 1
      /\ UNCHANGED << map, geoRows, loading >>
  BY DEF init_grid
<1>2. map \in Maps /\ geoRows \in 0 .. MaxGeoRows /\ at \in Nat /\ pixel_info = ListOf(map, at, 0, 0)
  BY <1>1 DEF LoadInv
<1>3. Len(coordinates) = NUM_PIXELS /\ NUM_PIXELS \in Nat
  BY <1>2, RowsOfFiles, PixelsNat
<1>4. /\ at \in 0 .. NUM_PIXELS - 1 /\ at \in 0 .. NUM_PIXELS /\ at + 1 \in 1 .. NUM_PIXELS /\ at + 1 - 1 = at
      /\ 0 \in 0 .. MaxGeoRows /\ ~ (at < at)
  BY <1>1, <1>2, <1>3, GeoRowsNat
<1> DEFINE c == Scan(map)[at + 1]
<1>5. c \in GridCells /\ c = << c[1], c[2] >>
  <2>1. c \in GridCells
    BY <1>2, <1>4, EntryType
  <2> HIDE DEF c
  <2> QED
    BY <2>1 DEF GridCells
<1>6. coordinates[at + 1] = Row(c[1], c[2], at)
  BY <1>2, <1>4, RowsOfFiles
<1>7. list_get(at) = Unknown
  <2>1. Len(pixel_info) = at
    BY <1>2, <1>4, ListFacts
  <2> QED
    BY <1>4, <2>1 DEF list_get
<1>8. pixel_info' = Append(pixel_info, [grid |-> c, geo |-> Unknown, strip |-> Unknown])
  <2> DEFINE row == coordinates[at + 1]
  <2>1. row.first = c[1] /\ row.second = c[2] /\ row.pos = at
    BY <1>6 DEF Row
  <2>2. pixel_info' = IF list_get(row.pos) = Unknown
                        THEN Append(pixel_info, [grid |-> << row.first, row.second >>,
                                                 geo |-> Unknown, strip |-> Unknown])
                        ELSE [pixel_info EXCEPT ![row.pos + 1].grid = << row.first, row.second >>]
    BY DEF init_grid
  <2> HIDE DEF row, c
  <2> QED
    BY <1>5, <1>7, <2>1, <2>2
<1>9. pixel_info' = ListOf(map, at + 1, 0, 0)
  BY <1>2, <1>4, <1>8, GridRow
<1> QED
  BY <1>1, <1>2, <1>3, <1>4, <1>9 DEF LoadInv

LEMMA GeoLoads == ASSUME LoadInv, init_geo PROVE LoadInv'
<1>1. /\ loading = "geo" /\ at < Len(geolocation) /\ at' = at + 1
      /\ UNCHANGED << map, geoRows, loading >>
  BY DEF init_geo
<1>2. /\ map \in Maps /\ geoRows \in 0 .. MaxGeoRows /\ at \in Nat /\ at <= GeoRead
      /\ pixel_info = ListOf(map, NUM_PIXELS, at, 0)
  BY <1>1 DEF LoadInv
<1>3. Len(geolocation) = geoRows /\ NUM_PIXELS \in Nat /\ GeoRead \in 0 .. MaxGeoRows
      /\ GeoRead \in 0 .. NUM_PIXELS
  BY <1>2, RowsOfFiles, PixelsNat
<1>4. at + 1 \in 1 .. geoRows /\ at + 1 - 1 = at /\ at \in 0 .. MaxGeoRows - 1 /\ at \in 0 .. MaxGeoRows
  BY <1>1, <1>2, <1>3, LayoutAssumption
<1>5. geolocation[at + 1] = Row("latitude", at, at)
  BY <1>2, <1>4, RowsOfFiles
<1> DEFINE row == geolocation[at + 1]
<1>6. row.first = "latitude" /\ row.second = at /\ row.pos = at
  BY <1>5 DEF Row
<1>7. /\ list_get(row.pos) # Unknown
      /\ pixel_info' = [pixel_info EXCEPT ![row.pos + 1].geo = << row.first, row.second >>]
  BY DEF init_geo
<1>8. Len(pixel_info) = NUM_PIXELS
  BY <1>2, <1>3, <1>4, ListFacts
<1>9. at < NUM_PIXELS
  <2>1. at < Len(pixel_info) \/ list_get(at) = Unknown
    BY DEF list_get
  <2> HIDE DEF row
  <2> QED
    BY <1>6, <1>7, <1>8, <2>1
<1>10. pixel_info' = [pixel_info EXCEPT ![at + 1].geo = << "latitude", at >>]
  <2> HIDE DEF row
  <2> QED
    BY <1>6, <1>7
<1>11. pixel_info' = ListOf(map, NUM_PIXELS, at + 1, 0)
  BY <1>2, <1>4, <1>9, <1>10, GeoRow
<1>12. at + 1 <= GeoRead
  BY <1>2, <1>3, <1>4, <1>9 DEF GeoRead
<1>13. GeoRead' = GeoRead
  BY <1>1 DEF GeoRead
<1> QED
  BY <1>1, <1>2, <1>11, <1>12, <1>13 DEF LoadInv

LEMMA StripLoads == ASSUME LoadInv, init_strip PROVE LoadInv'
<1>1. /\ loading = "strip" /\ at < Len(strip_config) /\ at' = at + 1
      /\ UNCHANGED << map, geoRows, loading >>
  BY DEF init_strip
<1>2. /\ map \in Maps /\ geoRows \in 0 .. MaxGeoRows /\ at \in Nat
      /\ pixel_info = ListOf(map, NUM_PIXELS, GeoRead, at)
  BY <1>1 DEF LoadInv
<1>3. Len(strip_config) = NUM_PIXELS /\ NUM_PIXELS \in Nat /\ GeoRead \in 0 .. MaxGeoRows
  BY <1>2, RowsOfFiles, PixelsNat
<1>4. at + 1 \in 1 .. NUM_PIXELS /\ at + 1 - 1 = at /\ at \in 0 .. NUM_PIXELS - 1
  BY <1>1, <1>2, <1>3
<1> DEFINE slot == map[Scan(map)[at + 1]]
           row  == strip_config[at + 1]
<1>5. row = Row(slot.channel, slot.num, at)
  BY <1>2, <1>4, RowsOfFiles
<1>6. row.first = slot.channel /\ row.second = slot.num /\ row.pos = at
  BY <1>5 DEF Row
<1>7. slot = [channel |-> slot.channel, num |-> slot.num]
  <2>1. slot \in Slots
    BY <1>2, <1>3, <1>4, EntryType
  <2> HIDE DEF slot
  <2> QED
    BY <2>1 DEF Slots
<1>8. pixel_info' = [pixel_info EXCEPT ![row.pos + 1].strip = [channel |-> row.first, num |-> row.second]]
  BY DEF init_strip, StripTarget
<1>9. pixel_info' = [pixel_info EXCEPT ![at + 1].strip = slot]
  <2> HIDE DEF row, slot
  <2> QED
    BY <1>6, <1>7, <1>8
<1>10. pixel_info' = ListOf(map, NUM_PIXELS, GeoRead, at + 1)
  <2>1. [ListOf(map, NUM_PIXELS, GeoRead, at) EXCEPT ![at + 1].strip = slot]
          = ListOf(map, NUM_PIXELS, GeoRead, at + 1)
    BY <1>2, <1>3, <1>4, StripRow
  <2> HIDE DEF slot
  <2> QED
    BY <1>2, <1>9, <2>1
<1>11. GeoRead' = GeoRead
  BY <1>1 DEF GeoRead
<1> QED
  BY <1>1, <1>2, <1>3, <1>4, <1>10, <1>11 DEF LoadInv

LEMMA FileEnds == ASSUME LoadInv, NextFile PROVE LoadInv'
<1>1. /\ loading # "done" /\ Ends /\ loading' = Following(loading) /\ at' = 0
      /\ UNCHANGED << map, geoRows, pixel_info >>
  BY DEF NextFile
<1>2. map \in Maps /\ geoRows \in 0 .. MaxGeoRows /\ at \in Nat
  BY DEF LoadInv
<1>3. /\ NUM_PIXELS \in Nat /\ GeoRead \in 0 .. MaxGeoRows /\ GeoRead \in 0 .. NUM_PIXELS
      /\ Len(coordinates) = NUM_PIXELS /\ Len(strip_config) = NUM_PIXELS /\ Len(geolocation) = geoRows
  BY <1>2, RowsOfFiles, PixelsNat
<1>4. GeoRead' = GeoRead
  BY <1>1 DEF GeoRead
<1>5. CASE loading = "grid"
  <2>1. at <= NUM_PIXELS /\ pixel_info = ListOf(map, at, 0, 0)
    BY <1>5 DEF LoadInv
  <2>2. ~ (at < NUM_PIXELS)
    BY <1>1, <1>3, <1>5 DEF Ends, FileRows
  <2>3. at = NUM_PIXELS
    BY <1>2, <1>3, <2>1, <2>2
  <2>4. pixel_info' = ListOf(map, NUM_PIXELS, 0, 0)
    BY <1>1, <2>1, <2>3
  <2>5. loading' = "geo"
    BY <1>1, <1>5 DEF Following
  <2> QED
    BY <1>1, <1>2, <1>3, <1>4, <2>4, <2>5 DEF LoadInv
<1>6. CASE loading = "geo"
  <2>1. at <= GeoRead /\ pixel_info = ListOf(map, NUM_PIXELS, at, 0)
    BY <1>6 DEF LoadInv
  <2>2. at < geoRows => list_get(geolocation[at + 1].pos) = Unknown
    BY <1>1, <1>3, <1>6 DEF Ends, FileRows
  <2>3. ASSUME at < geoRows PROVE at >= NUM_PIXELS
    <3>1. at + 1 \in 1 .. geoRows /\ at + 1 - 1 = at
      BY <1>2, <2>3
    <3>2. geolocation[at + 1] = Row("latitude", at, at)
      BY <1>2, <3>1, RowsOfFiles
    <3>3. list_get(at) = Unknown
      BY <2>2, <2>3, <3>2 DEF Row
    <3>4. at \in 0 .. MaxGeoRows
      BY <1>2, <1>3, <2>1, GeoRowsNat
    <3>5. SUFFICES ASSUME at < NUM_PIXELS PROVE FALSE
      BY <1>2, <1>3
    <3>6. at + 1 \in 1 .. NUM_PIXELS
      BY <1>2, <1>3, <3>5
    <3>7. Len(pixel_info) = NUM_PIXELS /\ pixel_info[at + 1] = Entry(map, at + 1, at, 0)
      <4>1. NUM_PIXELS \in 0 .. NUM_PIXELS /\ 0 \in Int
        BY <1>3
      <4>2. /\ Len(ListOf(map, NUM_PIXELS, at, 0)) = NUM_PIXELS
            /\ \A j \in 1 .. NUM_PIXELS : ListOf(map, NUM_PIXELS, at, 0)[j] = Entry(map, j, at, 0)
        BY <1>2, <3>4, <4>1, ListFacts
      <4> QED
        BY <2>1, <3>6, <4>2, Zenon
    <3>8. pixel_info[at + 1] \in PixelInfo
      BY <1>2, <3>4, <3>6, <3>7, EntryType
    <3>9. list_get(at) = pixel_info[at + 1]
      BY <3>5, <3>7 DEF list_get
    <3> QED
      BY <3>3, <3>8, <3>9, InfoKnown
  <2>4. at = GeoRead
    BY <1>2, <1>3, <2>1, <2>3 DEF GeoRead
  <2>5. pixel_info' = ListOf(map, NUM_PIXELS, GeoRead, 0)
    BY <1>1, <2>1, <2>4
  <2>6. loading' = "strip"
    BY <1>1, <1>6 DEF Following
  <2> QED
    BY <1>1, <1>2, <1>3, <1>4, <2>5, <2>6 DEF LoadInv
<1>7. CASE loading = "strip"
  <2>1. at <= NUM_PIXELS /\ pixel_info = ListOf(map, NUM_PIXELS, GeoRead, at)
    BY <1>7 DEF LoadInv
  <2>2. at < NUM_PIXELS => list_get(strip_config[at + 1].pos) = Unknown
    BY <1>1, <1>3, <1>7 DEF Ends, FileRows
  <2>3. ASSUME at < NUM_PIXELS PROVE FALSE
    <3>1. at + 1 \in 1 .. NUM_PIXELS /\ at + 1 - 1 = at
      BY <1>2, <1>3, <2>3
    <3>2. strip_config[at + 1].pos = at
      BY <1>2, <3>1, RowsOfFiles DEF Row
    <3>3. list_get(at) = Unknown
      BY <2>2, <2>3, <3>2
    <3>4. Len(pixel_info) = NUM_PIXELS /\ pixel_info[at + 1] = Entry(map, at + 1, GeoRead, at)
      BY <1>2, <1>3, <2>1, <3>1, ListFacts
    <3>5. pixel_info[at + 1] \in PixelInfo
      BY <1>2, <1>3, <3>1, <3>4, EntryType
    <3>6. list_get(at) = pixel_info[at + 1]
      BY <2>3, <3>4 DEF list_get
    <3> QED
      BY <3>3, <3>5, <3>6, InfoKnown
  <2>4. at = NUM_PIXELS
    BY <1>2, <1>3, <2>1, <2>3
  <2>5. pixel_info' = ListOf(map, NUM_PIXELS, GeoRead, NUM_PIXELS)
    BY <1>1, <2>1, <2>4
  <2>6. loading' = "done"
    BY <1>1, <1>7 DEF Following
  <2> QED
    BY <1>1, <1>2, <1>4, <2>5, <2>6 DEF LoadInv
<1> QED
  BY <1>1, <1>5, <1>6, <1>7 DEF LoadInv

LEMMA ListCases ==
  ASSUME LoadInv
  PROVE  \E n \in 0 .. NUM_PIXELS, g \in 0 .. MaxGeoRows, s \in Nat :
           /\ pixel_info = ListOf(map, n, g, s)
           /\ loading = "done" => n = NUM_PIXELS /\ g = GeoRead /\ s = NUM_PIXELS
<1>1. /\ map \in Maps /\ geoRows \in 0 .. MaxGeoRows /\ at \in Nat
      /\ NUM_PIXELS \in Nat /\ MaxGeoRows \in Nat
      /\ GeoRead \in 0 .. MaxGeoRows /\ GeoRead \in 0 .. NUM_PIXELS
  BY RowsOfFiles, PixelsNat, GeoRowsNat DEF LoadInv
<1>2. NUM_PIXELS \in 0 .. NUM_PIXELS /\ 0 \in 0 .. MaxGeoRows
  BY <1>1
<1>3. CASE loading = "grid" /\ at <= NUM_PIXELS /\ pixel_info = ListOf(map, at, 0, 0)
  BY <1>1, <1>2, <1>3
<1>4. CASE loading = "geo" /\ at <= GeoRead /\ pixel_info = ListOf(map, NUM_PIXELS, at, 0)
  <2>1. at \in 0 .. MaxGeoRows
    BY <1>1, <1>4
  <2> QED
    BY <1>2, <1>4, <2>1
<1>5. CASE loading = "strip" /\ at <= NUM_PIXELS /\ pixel_info = ListOf(map, NUM_PIXELS, GeoRead, at)
  BY <1>1, <1>2, <1>5
<1>6. CASE loading = "done" /\ at = 0 /\ pixel_info = ListOf(map, NUM_PIXELS, GeoRead, NUM_PIXELS)
  BY <1>1, <1>2, <1>6
<1> QED
  BY <1>3, <1>4, <1>5, <1>6 DEF LoadInv

LEMMA InPlace == LoadInv => LoadedInPlace
<1> SUFFICES ASSUME LoadInv PROVE LoadedInPlace
  OBVIOUS
<1>1. PICK n \in 0 .. NUM_PIXELS, g \in 0 .. MaxGeoRows, s \in Nat :
        /\ pixel_info = ListOf(map, n, g, s)
        /\ loading = "done" => n = NUM_PIXELS /\ g = GeoRead /\ s = NUM_PIXELS
  BY ListCases
<1>2. map \in Maps /\ NUM_PIXELS \in Nat /\ geoRows \in Nat /\ MaxGeoRows \in Nat
  BY PixelsNat, GeoRowsNat DEF LoadInv
<1>3. Len(ListOf(map, n, g, s)) = n /\ \A j \in 1 .. n : ListOf(map, n, g, s)[j] = Entry(map, j, g, s)
  BY <1>2, ListFacts
<1>4. Len(pixel_info) = n /\ \A j \in 1 .. n : pixel_info[j] = Entry(map, j, g, s)
  BY <1>1, <1>3
<1> SUFFICES ASSUME NEW p \in 0 .. Len(pixel_info) - 1
             PROVE  LET pi == pixel_info[p + 1]
                        c  == Scan(map)[p + 1]
                    IN /\ pi.grid = c
                       /\ pi.strip \in {Unknown, map[c]}
                       /\ pi.geo \in {Unknown, << "latitude", p >>}
                       /\ loading = "done" => pi.strip = map[c] /\ (pi.geo # Unknown <=> p < geoRows)
  BY Zenon DEF LoadedInPlace
<1> DEFINE c == Scan(map)[p + 1]
           b == map[c]
           e == pixel_info[p + 1]
           v == << "latitude", p >>
<1>5. p + 1 \in 1 .. n /\ p + 1 - 1 = p /\ p \in Nat /\ p < n
  BY <1>2, <1>4
<1>6. e = [grid |-> c, geo |-> IF p + 1 <= g THEN v ELSE Unknown, strip |-> IF p + 1 <= s THEN b ELSE Unknown]
  BY <1>4, <1>5 DEF Entry
<1>7. p + 1 <= g => v # Unknown
  <2>1. p + 1 <= g => p \in 0 .. MaxGeoRows
    BY <1>2, <1>5
  <2>2. p + 1 <= g => v \in Place
    BY <2>1 DEF Place
  <2> QED
    BY <2>2, UnknownAssumption
<1> HIDE DEF c, b, e, v
<1>8. e.grid = c /\ e.strip \in {Unknown, b} /\ e.geo \in {Unknown, v}
  BY <1>6
<1>9. ASSUME loading = "done" PROVE e.strip = b /\ (e.geo # Unknown <=> p < geoRows)
  <2>1. n = NUM_PIXELS /\ g = GeoRead /\ s = NUM_PIXELS
    BY <1>1, <1>9
  <2>2. p + 1 <= s /\ (p + 1 <= g <=> p < geoRows)
    BY <1>2, <1>5, <2>1 DEF GeoRead
  <2> QED
    BY <1>6, <1>7, <2>2
<1> QED
  BY <1>8, <1>9 DEF c, b, e, v

-----------------------------------------------------------------------------
(* Looking a pixel up in the list.                                         *)
LEMMA MaxOfOne == ASSUME NEW j \in Int PROVE Max({j}) = j
  BY DEF Max

LEMMA ListDone ==
  ASSUME LoadInv, loading = "done"
  PROVE  /\ map \in Maps /\ Len(pixel_info) = NUM_PIXELS /\ NUM_PIXELS \in Nat
         /\ \A j \in 1 .. NUM_PIXELS : /\ pixel_info[j].grid = Scan(map)[j]
                                       /\ pixel_info[j].strip = map[Scan(map)[j]]
<1>1. PICK g \in 0 .. MaxGeoRows : pixel_info = ListOf(map, NUM_PIXELS, g, NUM_PIXELS)
  BY ListCases
<1>2. map \in Maps /\ NUM_PIXELS \in Nat /\ NUM_PIXELS \in 0 .. NUM_PIXELS /\ NUM_PIXELS \in Int
  BY PixelsNat DEF LoadInv
<1>3. /\ Len(ListOf(map, NUM_PIXELS, g, NUM_PIXELS)) = NUM_PIXELS
      /\ \A j \in 1 .. NUM_PIXELS : ListOf(map, NUM_PIXELS, g, NUM_PIXELS)[j] = Entry(map, j, g, NUM_PIXELS)
  BY <1>2, ListFacts
<1>4. ASSUME NEW j \in 1 .. NUM_PIXELS
      PROVE  pixel_info[j].grid = Scan(map)[j] /\ pixel_info[j].strip = map[Scan(map)[j]]
  <2>1. pixel_info[j] = Entry(map, j, g, NUM_PIXELS) /\ j <= NUM_PIXELS
    BY <1>1, <1>2, <1>3
  <2> QED
    BY <2>1 DEF Entry
<1> QED
  BY <1>1, <1>2, <1>3, <1>4

LEMMA PosFound ==
  ASSUME LoadInv, loading = "done", NEW c, NEW p \in 0 .. NUM_PIXELS - 1
  PROVE  get_pos(c) = p <=> c = Scan(map)[p + 1]
<1> DEFINE I == {i \in 1 .. Len(pixel_info) : pixel_info[i].grid = c}
<1>1. /\ map \in Maps /\ Len(pixel_info) = NUM_PIXELS /\ NUM_PIXELS \in Nat
      /\ \A j \in 1 .. NUM_PIXELS : pixel_info[j].grid = Scan(map)[j]
  BY ListDone
<1>2. get_pos(c) = (IF I # {} THEN Max(I) ELSE 0) - 1
  BY Zenon DEF get_pos, SelectLastInSeq
<1>3. \A j \in 1 .. NUM_PIXELS : c = Scan(map)[j] => I = {j}
  <2>1. \A j \in 1 .. NUM_PIXELS : j \in I <=> c = Scan(map)[j]
    BY <1>1
  <2>2. I \subseteq 1 .. NUM_PIXELS
    BY <1>1
  <2>3. \A i, j \in 1 .. NUM_PIXELS : Scan(map)[i] = Scan(map)[j] => i = j
    BY <1>1, ScanFacts
  <2> HIDE DEF I
  <2> QED
    BY <2>1, <2>2, <2>3
<1>4. (\A j \in 1 .. NUM_PIXELS : c # Scan(map)[j]) => I = {}
  BY <1>1
<1> HIDE DEF I
<1>5. CASE \E j \in 1 .. NUM_PIXELS : c = Scan(map)[j]
  <2>1. PICK j \in 1 .. NUM_PIXELS : c = Scan(map)[j]
    BY <1>5
  <2>2. Max(I) = j /\ I # {}
    BY <1>3, <2>1, MaxOfOne
  <2>3. get_pos(c) = j - 1
    BY <1>2, <2>2
  <2>4. c = Scan(map)[p + 1] <=> j = p + 1
    <3>1. p + 1 \in 1 .. NUM_PIXELS
      BY <1>1
    <3> QED
      BY <1>1, <2>1, <3>1, ScanFacts
  <2> QED
    BY <1>1, <2>3, <2>4
<1>6. CASE \A j \in 1 .. NUM_PIXELS : c # Scan(map)[j]
  <2>1. get_pos(c) = -1
    BY <1>2, <1>4, <1>6
  <2>2. p + 1 \in 1 .. NUM_PIXELS
    BY <1>1
  <2> QED
    BY <1>6, <2>1, <2>2
<1> QED
  BY <1>5, <1>6

(* What read_grid_to_list gives a pixel is the colour of its cell.         *)
LEMMA GridRead ==
  ASSUME LoadInv, loading = "done", NEW f, NEW grid, NEW p \in 0 .. NUM_PIXELS - 1
  PROVE  read_grid_to_list(f, grid)[p] = grid[Scan(map)[p + 1][1]][Scan(map)[p + 1][2]]
<1> DEFINE here == {c \in GridCells : get_pos(c) = p}
           s == Scan(map)[p + 1]
<1>1. s \in GridCells
  <2>1. p + 1 \in 1 .. NUM_PIXELS /\ map \in Maps
    BY PixelsNat DEF LoadInv
  <2>2. s \in DOMAIN map
    BY <2>1, ScanFacts
  <2> HIDE DEF s
  <2> QED
    BY <2>1, <2>2, MapFacts
<1>2. here = {s}
  BY <1>1, PosFound
<1>3. read_grid_to_list(f, grid)[p] = IF here = {} THEN f[p]
                                      ELSE LET c == CHOOSE d \in here : TRUE IN grid[c[1]][c[2]]
  BY Zenon DEF read_grid_to_list
<1> HIDE DEF here, s
<1>4. (CHOOSE d \in here : TRUE) = s /\ here # {}
  BY <1>2
<1> QED
  BY <1>3, <1>4, Zenon DEF s

(* What opc_put_pixel_list puts where the pixel of a cell is.              *)
LEMMA Organised ==
  ASSUME LoadInv, loading = "done", NEW f, NEW p \in 0 .. NUM_PIXELS - 1
  PROVE  pixel_list_organised(f)[PlaceIn(map, Scan(map)[p + 1])] = f[p]
<1> DEFINE c == Scan(map)[p + 1]
           i == PlaceIn(map, c)
           slot == SlotOf(i)
           I == {j \in 1 .. Len(pixel_info) : pixel_info[j].strip = slot}
<1>1. /\ map \in Maps /\ Len(pixel_info) = NUM_PIXELS /\ NUM_PIXELS \in Nat
      /\ \A j \in 1 .. NUM_PIXELS : pixel_info[j].strip = map[Scan(map)[j]]
      /\ p + 1 \in 1 .. NUM_PIXELS /\ p + 1 - 1 = p
  BY ListDone
<1>2. c \in DOMAIN map
  BY <1>1, ScanFacts
<1>3. i \in 0 .. NUM_PIXELS - 1
  BY <1>1, <1>2, CellsPlaced
<1>4. map[c] = slot
  <2>1. PICK d \in DOMAIN map : map[d] = SlotOf(i) /\ PlaceIn(map, d) = i
    BY <1>1, <1>3, CellsPlaced
  <2>2. d = c
    BY <1>1, <1>2, <2>1, CellsPlaced
  <2> QED
    BY <2>1, <2>2
<1>5. I = {p + 1}
  <2>1. \A j \in 1 .. NUM_PIXELS : Scan(map)[j] \in DOMAIN map
    BY <1>1, ScanFacts
  <2>2. \A j \in 1 .. NUM_PIXELS : map[Scan(map)[j]] = slot => Scan(map)[j] = c
    BY <1>1, <1>2, <1>4, <2>1, MapFacts
  <2>3. \A j \in 1 .. NUM_PIXELS : Scan(map)[j] = c => j = p + 1
    BY <1>1, ScanFacts
  <2> HIDE DEF slot
  <2>4. \A j \in 1 .. NUM_PIXELS : pixel_info[j].strip = slot <=> j = p + 1
    BY <1>1, <1>4, <2>2, <2>3
  <2> QED
    BY <1>1, <2>4
<1>6. InList(slot) = (IF I # {} THEN Max(I) ELSE 0) - 1
  BY Zenon DEF InList, SelectLastInSeq
<1>7. pixel_list_organised(f)[i] = IF InList(slot) < 0 THEN Garbage ELSE f[InList(slot)]
  <2> HIDE DEF i
  <2> QED
    BY <1>3, Zenon DEF pixel_list_organised
<1> HIDE DEF c, i, slot, I
<1>8. InList(slot) = p /\ ~ (p < 0)
  BY <1>1, <1>5, <1>6, MaxOfOne
<1> QED
  BY <1>7, <1>8 DEF i, c

-----------------------------------------------------------------------------
(* Counting on by one modulo b.                                            *)
LEMMA ModuloNext ==
  ASSUME NEW s \in Nat, NEW b \in Nat \ {0}
  PROVE  /\ s % b \in 0 .. b - 1
         /\ (s + 1) % b = IF (s % b) + 1 = b THEN 0 ELSE (s % b) + 1
<1> DEFINE q == s \div b
           m == s % b
           r == (s + 1) \div b
           k == (s + 1) % b
<1>1. s = b * q + m /\ m \in 0 .. b - 1 /\ q \in Int
  BY Z3
<1>2. s + 1 = b * r + k /\ k \in 0 .. b - 1 /\ r \in Int
  BY Z3
<1> HIDE DEF q, m, r, k
<1> SUFFICES k = IF m + 1 = b THEN 0 ELSE m + 1
  BY <1>1 DEF m, k
<1>3. PICK d \in Int : d = r - q
  BY <1>1, <1>2
<1>4. b * d = m + 1 - k
  BY <1>1, <1>2, <1>3, Z3
<1>5. d = 0 \/ d = 1
  BY <1>1, <1>2, <1>4, Z3
<1> QED
  BY <1>1, <1>2, <1>4, <1>5, Z3

(* The position in the buffer goes round it, one column a shift.           *)
LEMMA NextPosModulo ==
  ASSUME NEW s \in Nat PROVE NextPos(s % BuffWidth) = (s + 1) % BuffWidth
<1>1. BuffWidth \in Nat \ {0} /\ BuffWidth > GRID_WIDTH
  BY ScrollerAssumption, GridAssumption
<1>2. /\ s % BuffWidth \in 0 .. BuffWidth - 1
      /\ (s + 1) % BuffWidth = IF (s % BuffWidth) + 1 = BuffWidth THEN 0 ELSE (s % BuffWidth) + 1
  BY <1>1, ModuloNext
<1> DEFINE p == s % BuffWidth
           t == (s + 1) % BuffWidth
<1> HIDE DEF p, t
<1>3. p \in Int /\ t = IF p + 1 = BuffWidth THEN 0 ELSE p + 1
  BY <1>1, <1>2 DEF p, t
<1>4. NextPos(p) = t
  BY <1>1, <1>3, GridAssumption DEF NextPos
<1> QED
  BY <1>4 DEF p, t

-----------------------------------------------------------------------------
(* A picture that has just been made is the purple beginning of the tape.  *)
LEMMA WindowAtStart == pixel_grid = AllOf(Purple) /\ pos = 0 /\ shifts = 0 => WindowOnTape
<1> SUFFICES ASSUME pixel_grid = AllOf(Purple), pos = 0, shifts = 0 PROVE WindowOnTape
  OBVIOUS
<1>1. 0 % BuffWidth = 0
  BY ModuloNext, ScrollerAssumption, GridAssumption, Z3
<1>2. \A x \in Columns : 0 + x = x /\ x < GRID_WIDTH
  BY GridAssumption DEF Columns
<1> QED
  BY <1>1, <1>2 DEF WindowOnTape, AllOf, Tape

(* A shift moves every column one place, and lets the next one of the tape *)
(* in: the buffer's at pos, as the picture is GRID_WIDTH columns behind.   *)
LEMMA WindowMoves ==
  ASSUME shifts \in Nat, WindowOnTape, shift_columns PROVE WindowOnTape'
<1>1. shifts' = shifts + 1 /\ pos' = shifts' % BuffWidth
  BY NextPosModulo DEF shift_columns, WindowOnTape
<1>2. pos < BuffWidth /\ pos = shifts % BuffWidth
  BY ModuloNext, ScrollerAssumption, GridAssumption DEF WindowOnTape
<1>3. ASSUME NEW x \in Columns PROVE pixel_grid'[x] = Tape(shifts' + x)
  <2>1. CASE x = GRID_WIDTH - 1
    <3>1. pixel_grid'[x] = BuffGrid[shifts % BuffWidth]
      BY <1>2, <2>1 DEF shift_columns, RightColumn
    <3>2. shifts + 1 + x >= GRID_WIDTH /\ shifts + 1 + x - GRID_WIDTH = shifts
      BY <2>1, GridAssumption
    <3>3. Tape(shifts + 1 + x) = BuffGrid[shifts % BuffWidth]
      BY <3>2, GridAssumption, <2>1 DEF Tape
    <3> QED
      BY <1>1, <3>1, <3>3
  <2>2. CASE x # GRID_WIDTH - 1
    <3>1. x + 1 \in Columns /\ shifts + (x + 1) = shifts + 1 + x
      BY <2>2, GridAssumption DEF Columns
    <3>2. pixel_grid'[x] = pixel_grid[x + 1]
      BY <2>2 DEF shift_columns
    <3> QED
      BY <1>1, <3>1, <3>2 DEF WindowOnTape
  <2> QED
    BY <2>1, <2>2
<1>4. \A x \in Columns : pixel_grid'[x] = Tape(shifts' + x)
  BY <1>3
<1> QED
  BY <1>1, <1>4 DEF WindowOnTape, Tape

-----------------------------------------------------------------------------
(* The number of shifts is a number.                                       *)
ScrollInv == shifts \in Nat /\ ScrollerOnTape

(* The other effects leave the scroller's picture alone or make their own. *)
LEMMA ScrollInvStep == ScrollInv /\ [Next]_pictureVars => ScrollInv'
<1> SUFFICES ASSUME ScrollInv, [Next]_pictureVars PROVE ScrollInv'
  OBVIOUS
<1>0. UNCHANGED scrollVars => (WindowOnTape <=> WindowOnTape') /\ shifts' = shifts
  BY DEF scrollVars, WindowOnTape, Tape
<1>1. CASE UNCHANGED pictureVars \/ LoadLayout
  BY <1>0, <1>1 DEF pictureVars, LoadLayout, scrollVars, runVars, ScrollInv, ScrollerOnTape
<1>2. CASE scroller_run
  BY <1>2, WindowMoves DEF scroller_run, Running, Sends, shift_columns, ScrollInv, ScrollerOnTape
<1>3. CASE image_run \/ test1_run \/ alltest_run
  BY <1>0, <1>3 DEF image_run, test1_run, alltest_run, Running, Sends, ScrollInv, ScrollerOnTape
<1>4. ASSUME NEW e \in DrawnBy, Start(e) PROVE ScrollInv'
  <2>1. shifts' = 0 /\ effect' = e
    BY <1>4 DEF Start
  <2>2. CASE e = "scroll"
    <3>1. (pixel_grid = AllOf(Purple) /\ pos = 0 /\ shifts = 0 => WindowOnTape)'
      BY WindowAtStart, PTL
    <3>2. pixel_grid' = AllOf(Purple) /\ pos' = 0
      BY <1>4, <2>2 DEF Start
    <3> QED
      BY <2>1, <3>1, <3>2 DEF ScrollInv, ScrollerOnTape, AllOf
  <2> QED
    BY <2>1, <2>2 DEF ScrollInv, ScrollerOnTape
<1> QED
  BY <1>1, <1>2, <1>3, <1>4 DEF Next


-----------------------------------------------------------------------------
(* The frames.                                                             *)
MeantAt(by, k, p, c) ==
  CASE by = "scroll"  -> Tape(k + c[1])[c[2]]
    [] by = "image"   -> White
    [] by = "1test"   -> IF p = 0 THEN White ELSE Grey
    [] by = "alltest" -> IF p = k THEN White ELSE Grey

ShownAs(m, d, by, k) ==
  \A p \in 0 .. NUM_PIXELS - 1 : d[PlaceIn(m, Scan(m)[p + 1])] = MeantAt(by, k, p, Scan(m)[p + 1])

ShownInv == sentBy # Nobody => ShownAs(map, display, sentBy.by, sentBy.frame)

Frames == [0 .. NUM_PIXELS - 1 -> Colours]
RunInv ==
  /\ effect \in DrawnBy \cup {"none"} /\ frame_no \in 0 .. MaxFrames
  /\ effect # "none" \/ sentBy # Nobody => loading = "done"
  /\ pixels \in Frames /\ (sentBy # Nobody => display \in Frames)
  /\ pixel_grid \in [Columns -> [Rows -> Colours]]
  /\ pos \in 0 .. BuffWidth - 1
  /\ effect = "scroll" => shifts = frame_no
  /\ effect = "image" => pixel_grid = AllOf(White)

IInv == LoadInv /\ ScrollInv /\ RunInv /\ ShownInv

LEMMA Uint8 == \A i \in Int : i % 256 \in 0 .. 255
  BY Z3

LEMMA NamedColours == White \in Colours /\ Grey \in Colours /\ Purple \in Colours
  BY DEF White, Grey, Purple, Shades, Colour, Colours

LEMMA BuffColours == ASSUME NEW x \in 0 .. BuffWidth - 1 PROVE BuffGrid[x] \in [Rows -> Colours]
<1>1. BuffColour(x) \in Colours
  <2> DEFINE d == BuffWidth - ShadeFrom
  <2>1. d \in Int /\ d > 0 /\ x \in Int
    BY ScrollerAssumption, GridAssumption
  <2> HIDE DEF d
  <2>2. 255 \div d \in Int
    BY <2>1, Z3
  <2>3. x * (255 \div d) \in Int
    BY <2>1, <2>2, Z3
  <2>4. Shade(x) \in 0 .. 255
    BY <2>3, Uint8 DEF Shade, d
  <2> QED
    BY <2>4, NamedColours DEF BuffColour, Colour, Colours
<1>2. BuffGrid[x] = [y \in Rows |-> BuffColour(x)]
  BY DEF BuffGrid
<1> QED
  BY <1>1, <1>2

LEMMA AllColours == ASSUME NEW c \in Colours PROVE AllOf(c) \in [Columns -> [Rows -> Colours]]
  BY DEF AllOf

LEMMA OrganisedColours ==
  ASSUME LoadInv, loading = "done", NEW f \in Frames PROVE pixel_list_organised(f) \in Frames
<1> DEFINE o == pixel_list_organised(f)
<1>1. o = [i \in 0 .. NUM_PIXELS - 1 |-> o[i]]
  BY DEF pixel_list_organised
<1>2. ASSUME NEW i \in 0 .. NUM_PIXELS - 1 PROVE o[i] \in Colours
  <2>1. map \in Maps /\ NUM_PIXELS \in Nat
    BY PixelsNat DEF LoadInv
  <2>2. PICK c \in DOMAIN map : PlaceIn(map, c) = i
    BY <2>1, CellsPlaced
  <2>3. PICK j \in 1 .. NUM_PIXELS : Scan(map)[j] = c
    BY <2>1, ScanFacts
  <2>4. PICK p \in 0 .. NUM_PIXELS - 1 : p + 1 = j
    <3>1. j - 1 \in 0 .. NUM_PIXELS - 1 /\ j - 1 + 1 = j
      BY <2>1
    <3> QED
      BY <3>1
  <2>5. o[PlaceIn(map, Scan(map)[p + 1])] = f[p]
    BY Organised
  <2>6. o[i] = f[p]
    BY <2>2, <2>3, <2>4, <2>5
  <2> QED
    BY <2>6 DEF Frames
<1> HIDE DEF o
<1>3. o \in Frames
  BY <1>1, <1>2 DEF Frames
<1> QED
  BY <1>3 DEF o

LEMMA GridColours ==
  ASSUME LoadInv, loading = "done", NEW f, NEW grid \in [Columns -> [Rows -> Colours]]
  PROVE  read_grid_to_list(f, grid) \in Frames
<1> DEFINE o == read_grid_to_list(f, grid)
<1>1. o = [i \in 0 .. NUM_PIXELS - 1 |-> o[i]]
  BY DEF read_grid_to_list
<1>2. ASSUME NEW p \in 0 .. NUM_PIXELS - 1 PROVE o[p] \in Colours
  <2>1. p + 1 \in 1 .. NUM_PIXELS /\ map \in Maps
    BY PixelsNat DEF LoadInv
  <2> DEFINE s == Scan(map)[p + 1]
  <2>2. s \in DOMAIN map
    BY <2>1, ScanFacts
  <2>3. o[p] = grid[s[1]][s[2]]
    BY GridRead
  <2> HIDE DEF s, o
  <2>4. s \in GridCells
    BY <2>1, <2>2, MapFacts
  <2> QED
    BY <2>3, <2>4 DEF GridCells
<1> HIDE DEF o
<1>3. o \in Frames
  BY <1>1, <1>2 DEF Frames
<1> QED
  BY <1>3 DEF o

(* A frame that says of each pixel what is meant reaches the points.       *)
LEMMA FrameShown ==
  ASSUME LoadInv, loading = "done", NEW f, NEW by, NEW k,
         \A p \in 0 .. NUM_PIXELS - 1 : f[p] = MeantAt(by, k, p, Scan(map)[p + 1])
  PROVE  ShownAs(map, pixel_list_organised(f), by, k)
  BY Organised DEF ShownAs

-----------------------------------------------------------------------------
(* The steps.                                                              *)
LEMMA FramesCounted == MaxFrames \in Nat /\ BuffWidth \in Nat /\ BuffWidth > 0 /\ GRID_WIDTH \in Nat \ {0}
  BY PictureAssumption, ScrollerAssumption, GridAssumption

LEMMA FrameOf == \A c \in Colours : Frame(c) \in Frames /\ \A p \in 0 .. NUM_PIXELS - 1 : Frame(c)[p] = c
  BY DEF Frame, Frames

LEMMA LoadKept == LoadInv /\ UNCHANGED layoutVars => LoadInv'
  BY DEF LoadInv, layoutVars, GeoRead

LEMMA LoadStep == ASSUME IInv, LoadLayout PROVE LoadInv' /\ RunInv' /\ ShownInv'
<1>1. LoadInv /\ RunInv /\ ShownInv /\ Load
  BY DEF IInv, LoadLayout
<1>2. LoadInv'
  BY <1>1, GridLoads, GeoLoads, StripLoads, FileEnds DEF Load
<1>3. map' = map
  BY <1>1 DEF Load, init_grid, init_geo, init_strip, NextFile
<1>4. loading # "done"
  <2>1. SUFFICES ASSUME loading = "done" PROVE FALSE
    OBVIOUS
  <2> QED
    BY <1>1, <2>1 DEF Load, init_grid, init_geo, init_strip, NextFile
<1>5. UNCHANGED << pixel_grid, pos, shifts, effect, frame_no, pixels, display, sentBy >>
  BY DEF LoadLayout, scrollVars, runVars
<1>6. RunInv'
  BY <1>1, <1>4, <1>5 DEF RunInv, Frames, AllOf
<1>7. ShownInv'
  BY <1>1, <1>3, <1>5 DEF ShownInv
<1> QED
  BY <1>2, <1>6, <1>7

LEMMA StartStep == ASSUME IInv, NEW e \in DrawnBy, Start(e) PROVE LoadInv' /\ RunInv' /\ ShownInv'
<1>1. /\ LoadInv /\ RunInv /\ ShownInv /\ loading = "done"
      /\ effect' = e /\ frame_no' = 0 /\ pixels' = Frame(White)
      /\ pixel_grid' = AllOf(IF e = "scroll" THEN Purple ELSE White)
      /\ pos' = 0 /\ shifts' = 0
      /\ UNCHANGED << layoutVars, display, sentBy >>
  BY DEF IInv, Start
<1>2. LoadInv' /\ loading' = "done" /\ map' = map /\ display' = display /\ sentBy' = sentBy
  BY <1>1, LoadKept DEF layoutVars
<1>3. pixels' \in Frames
  BY <1>1, FrameOf, NamedColours
<1>4. pixel_grid' \in [Columns -> [Rows -> Colours]]
  BY <1>1, AllColours, NamedColours
<1>5. effect' = "image" => pixel_grid' = AllOf(White)
  BY <1>1
<1>6. RunInv'
  BY <1>1, <1>2, <1>3, <1>4, <1>5, FramesCounted DEF RunInv, Frames, AllOf
<1>7. ShownInv'
  BY <1>1, <1>2 DEF ShownInv
<1> QED
  BY <1>2, <1>6, <1>7

(* What every run of an effect leaves true, given that its frame is right. *)
LEMMA RunsOn ==
  ASSUME IInv, NEW e, e # "none", Running(e),
         pixels' \in Frames, display' \in Frames,
         ShownAs(map, display', effect, frame_no),
         sentBy' = [by |-> effect, frame |-> frame_no], frame_no' = frame_no + 1,
         UNCHANGED << layoutVars, effect >>,
         \/ UNCHANGED scrollVars /\ e # "scroll"
         \/ shift_columns /\ e = "scroll"
  PROVE  LoadInv' /\ RunInv' /\ ShownInv'
<1>1. LoadInv /\ RunInv /\ ScrollInv /\ effect = e /\ frame_no < MaxFrames
  BY DEF IInv, Running
<1>2. LoadInv' /\ loading' = loading /\ map' = map /\ effect' = e
  BY <1>1, LoadKept DEF layoutVars
<1>3. effect # "none"
  BY <1>1
<1>4. loading' = "done"
  BY <1>1, <1>2, <1>3 DEF RunInv
<1>5. frame_no' \in 0 .. MaxFrames
  BY <1>1, FramesCounted DEF RunInv
<1>6. /\ pixel_grid' \in [Columns -> [Rows -> Colours]] /\ pos' \in 0 .. BuffWidth - 1
      /\ effect' = "scroll" => shifts' = frame_no'
      /\ effect' = "image" => pixel_grid' = AllOf(White)
  <2>1. CASE UNCHANGED scrollVars /\ e # "scroll"
    BY <1>1, <1>2, <2>1 DEF RunInv, scrollVars
  <2>2. CASE shift_columns /\ e = "scroll"
    <3>1. pos \in 0 .. BuffWidth - 1 /\ pixel_grid \in [Columns -> [Rows -> Colours]] /\ shifts = frame_no
      BY <1>1, <2>2 DEF RunInv
    <3>2. pos' \in 0 .. BuffWidth - 1
      BY <2>2, <3>1, FramesCounted, ScrollerAssumption DEF shift_columns, NextPos
    <3>3. RightColumn \in [Rows -> Colours]
      BY <3>1, FramesCounted, BuffColours DEF RightColumn
    <3>4. pixel_grid' \in [Columns -> [Rows -> Colours]]
      <4>1. pixel_grid' = [x \in Columns |-> IF x = GRID_WIDTH - 1 THEN RightColumn ELSE pixel_grid[x + 1]]
        BY <2>2 DEF shift_columns
      <4>2. \A x \in Columns : x # GRID_WIDTH - 1 => x + 1 \in Columns
        BY FramesCounted DEF Columns
      <4> QED
        BY <3>1, <3>3, <4>1, <4>2
    <3>5. shifts' = shifts + 1
      BY <2>2 DEF shift_columns
    <3> QED
      BY <1>1, <1>2, <2>2, <3>1, <3>2, <3>4, <3>5
  <2> QED
    BY <2>1, <2>2
<1>7. RunInv'
  <2>1. effect' \in DrawnBy \cup {"none"}
    BY <1>1, <1>2 DEF RunInv
  <2>2. pixels' \in Frames /\ (sentBy' # Nobody => display' \in Frames)
    OBVIOUS
  <2> QED
    BY <1>4, <1>5, <1>6, <2>1, <2>2 DEF RunInv, Frames, AllOf
<1>8. sentBy'.by = effect /\ sentBy'.frame = frame_no
  OBVIOUS
<1>9. ShownInv'
  BY <1>2, <1>8 DEF ShownInv
<1> QED
  BY <1>2, <1>7, <1>9

LEMMA EffectOn ==
  ASSUME IInv, NEW e, e # "none", Running(e)
  PROVE  /\ LoadInv /\ loading = "done" /\ effect = e /\ frame_no \in Nat /\ NUM_PIXELS \in Nat
         /\ pixels \in Frames /\ pixel_grid \in [Columns -> [Rows -> Colours]]
         /\ map \in Maps
<1>1. LoadInv /\ RunInv /\ effect = e
  BY DEF IInv, Running
<1>2. loading = "done"
  BY <1>1 DEF RunInv
<1> QED
  BY <1>1, <1>2, PixelsNat, FramesCounted DEF RunInv, LoadInv

LEMMA ScrollStep == ASSUME IInv, scroller_run PROVE LoadInv' /\ RunInv' /\ ShownInv'
<1>1. Running("scroll") /\ shift_columns
  BY DEF scroller_run
<1>2. /\ LoadInv /\ loading = "done" /\ effect = "scroll" /\ frame_no \in Nat /\ map \in Maps
      /\ pixel_grid \in [Columns -> [Rows -> Colours]]
  BY <1>1, EffectOn
<1>3. PICK f : f = read_grid_to_list(pixels, pixel_grid)
  OBVIOUS
<1>4. f \in Frames
  BY <1>2, <1>3, GridColours
<1>5. /\ pixels' = f /\ display' = pixel_list_organised(f)
      /\ sentBy' = [by |-> effect, frame |-> frame_no] /\ frame_no' = frame_no + 1
      /\ UNCHANGED << layoutVars, effect >>
  BY <1>3 DEF scroller_run, Sends
<1>6. display' \in Frames
  BY <1>2, <1>4, <1>5, OrganisedColours
<1>7. WindowOnTape /\ shifts = frame_no
  BY <1>2 DEF IInv, ScrollInv, ScrollerOnTape, RunInv
<1>8. ASSUME NEW p \in 0 .. NUM_PIXELS - 1 PROVE f[p] = MeantAt(effect, frame_no, p, Scan(map)[p + 1])
  <2>1. f[p] = pixel_grid[Scan(map)[p + 1][1]][Scan(map)[p + 1][2]]
    BY <1>2, <1>3, GridRead
  <2>2. p + 1 \in 1 .. NUM_PIXELS
    BY PixelsNat
  <2>3. Scan(map)[p + 1] \in DOMAIN map
    BY <1>2, <2>2, ScanFacts
  <2> DEFINE s == Scan(map)[p + 1]
  <2> HIDE DEF s
  <2>4. s \in GridCells
    BY <1>2, <2>3, MapFacts DEF s
  <2>5. s[1] \in Columns
    BY <2>4 DEF GridCells
  <2>6. pixel_grid[s[1]] = Tape(frame_no + s[1])
    BY <1>7, <2>5 DEF WindowOnTape
  <2>7. f[p] = Tape(frame_no + s[1])[s[2]]
    BY <2>1, <2>6 DEF s
  <2>8. MeantAt("scroll", frame_no, p, s) = Tape(frame_no + s[1])[s[2]]
    BY DEF MeantAt
  <2> QED
    BY <1>2, <2>7, <2>8 DEF s
<1>9. ShownAs(map, display', effect, frame_no)
  BY <1>2, <1>5, <1>8, FrameShown
<1> QED
  BY <1>1, <1>4, <1>5, <1>6, <1>9, RunsOn

LEMMA ImageStep == ASSUME IInv, image_run PROVE LoadInv' /\ RunInv' /\ ShownInv'
<1>1. Running("image")
  BY DEF image_run
<1>2. /\ LoadInv /\ loading = "done" /\ effect = "image" /\ frame_no \in Nat /\ map \in Maps
      /\ pixel_grid \in [Columns -> [Rows -> Colours]]
  BY <1>1, EffectOn
<1>3. PICK f : f = read_grid_to_list(pixels, pixel_grid)
  OBVIOUS
<1>4. f \in Frames
  BY <1>2, <1>3, GridColours
<1>5. /\ pixels' = f /\ display' = f
      /\ sentBy' = [by |-> effect, frame |-> frame_no] /\ frame_no' = frame_no + 1
      /\ UNCHANGED << layoutVars, effect >> /\ UNCHANGED scrollVars
  BY <1>3 DEF image_run
<1>6. pixel_grid = AllOf(White)
  BY <1>2 DEF IInv, RunInv
<1>7. ASSUME NEW q \in 0 .. NUM_PIXELS - 1 PROVE f[q] = White /\ Scan(map)[q + 1] \in DOMAIN map
  <2>1. f[q] = pixel_grid[Scan(map)[q + 1][1]][Scan(map)[q + 1][2]]
    BY <1>2, <1>3, GridRead
  <2>2. q + 1 \in 1 .. NUM_PIXELS
    BY PixelsNat
  <2>3. Scan(map)[q + 1] \in DOMAIN map
    BY <1>2, <2>2, ScanFacts
  <2> DEFINE s == Scan(map)[q + 1]
  <2> HIDE DEF s
  <2>4. s \in GridCells
    BY <1>2, <2>3, MapFacts DEF s
  <2>5. s[1] \in Columns /\ s[2] \in Rows
    BY <2>4 DEF GridCells
  <2>6. AllOf(White)[s[1]][s[2]] = White
    BY <2>5 DEF AllOf
  <2> QED
    BY <1>6, <2>1, <2>3, <2>6 DEF s
<1>8. ShownAs(map, display', effect, frame_no)
  <2> SUFFICES ASSUME NEW p \in 0 .. NUM_PIXELS - 1
               PROVE  display'[PlaceIn(map, Scan(map)[p + 1])] = MeantAt(effect, frame_no, p, Scan(map)[p + 1])
    BY DEF ShownAs
  <2>1. PlaceIn(map, Scan(map)[p + 1]) \in 0 .. NUM_PIXELS - 1
    BY <1>2, <1>7, CellsPlaced
  <2>2. display'[PlaceIn(map, Scan(map)[p + 1])] = White
    BY <1>5, <1>7, <2>1
  <2> QED
    BY <1>2, <2>2 DEF MeantAt
<1>9. display' \in Frames /\ pixels' \in Frames
  BY <1>4, <1>5
<1> QED
  BY <1>1, <1>5, <1>8, <1>9, RunsOn

LEMMA TestFrame ==
  ASSUME NEW k \in Nat, NEW f, f = [Frame(Grey) EXCEPT ![k] = White]
  PROVE  f \in Frames /\ \A p \in 0 .. NUM_PIXELS - 1 : f[p] = IF p = k THEN White ELSE Grey
<1>1. Grey \in Colours /\ White \in Colours
  BY NamedColours
<1>2. Frame(Grey) \in Frames /\ \A p \in 0 .. NUM_PIXELS - 1 : Frame(Grey)[p] = Grey
  BY <1>1, FrameOf
<1> DEFINE g == Frame(Grey)
<1> HIDE DEF g
<1>3. g \in [0 .. NUM_PIXELS - 1 -> Colours] /\ \A p \in 0 .. NUM_PIXELS - 1 : g[p] = Grey
  BY <1>2 DEF g, Frames
<1>4. f = [g EXCEPT ![k] = White]
  BY DEF g
<1> QED
  BY <1>1, <1>3, <1>4 DEF Frames

LEMMA TestStep ==
  ASSUME IInv, NEW e \in {"1test", "alltest"}, NEW k \in Nat, Running(e),
         Sends([Frame(Grey) EXCEPT ![k] = White]), UNCHANGED scrollVars,
         k = IF e = "1test" THEN 0 ELSE frame_no
  PROVE  LoadInv' /\ RunInv' /\ ShownInv'
<1>1. e # "none" /\ e # "scroll"
  OBVIOUS
<1>2. LoadInv /\ loading = "done" /\ effect = e
  BY <1>1, EffectOn
<1>3. PICK f : f = [Frame(Grey) EXCEPT ![k] = White]
  OBVIOUS
<1>4. f \in Frames /\ \A p \in 0 .. NUM_PIXELS - 1 : f[p] = IF p = k THEN White ELSE Grey
  BY <1>3, TestFrame
<1>5. /\ pixels' = f /\ display' = pixel_list_organised(f)
      /\ sentBy' = [by |-> effect, frame |-> frame_no] /\ frame_no' = frame_no + 1
      /\ UNCHANGED << layoutVars, effect >>
  BY <1>3 DEF Sends
<1>6. display' \in Frames
  BY <1>2, <1>4, <1>5, OrganisedColours
<1>7. ASSUME NEW p \in 0 .. NUM_PIXELS - 1 PROVE f[p] = MeantAt(effect, frame_no, p, Scan(map)[p + 1])
  <2>1. CASE e = "1test"
    BY <1>2, <1>4, <2>1 DEF MeantAt
  <2>2. CASE e = "alltest"
    BY <1>2, <1>4, <2>2 DEF MeantAt
  <2> QED
    BY <2>1, <2>2
<1>8. ShownAs(map, display', effect, frame_no)
  BY <1>2, <1>5, <1>7, FrameShown
<1> QED
  BY <1>1, <1>4, <1>5, <1>6, <1>8, RunsOn

LEMMA IInvInit == Init => IInv
<1> SUFFICES ASSUME Init PROVE IInv
  OBVIOUS
<1>1. /\ LayoutInit /\ ScrollInit /\ effect = "none" /\ frame_no = 0 /\ pixels = Frame(White)
      /\ sentBy = Nobody
  BY DEF Init
<1>2. LoadInv
  <2>1. /\ map \in Maps /\ geoRows \in 0 .. MaxGeoRows /\ loading = "grid" /\ at = 0
        /\ pixel_info = << >>
    BY <1>1 DEF LayoutInit
  <2>2. NUM_PIXELS \in Nat /\ 0 \in 0 .. NUM_PIXELS /\ 0 \in 0 .. MaxGeoRows
    BY PixelsNat, GeoRowsNat
  <2>3. ListOf(map, 0, 0, 0) \in Seq(PixelInfo) /\ Len(ListOf(map, 0, 0, 0)) = 0
    BY <2>1, <2>2, ListFacts
  <2>4. ListOf(map, 0, 0, 0) = << >>
    BY <2>3, EmptySeq
  <2> QED
    BY <2>1, <2>2, <2>4 DEF LoadInv
<1>3. ScrollInv
  BY <1>1 DEF ScrollInv, ScrollerOnTape, ScrollInit
<1>4. RunInv
  <2>1. pixels \in Frames
    BY <1>1, FrameOf, NamedColours
  <2>2. pixel_grid \in [Columns -> [Rows -> Colours]] /\ pos = 0
    BY <1>1, AllColours, NamedColours DEF ScrollInit
  <2> QED
    BY <1>1, <2>1, <2>2, FramesCounted DEF RunInv
<1>5. ShownInv
  BY <1>1 DEF ShownInv
<1> QED
  BY <1>2, <1>3, <1>4, <1>5 DEF IInv

LEMMA IInvStep == IInv /\ [Next]_pictureVars => IInv'
<1> SUFFICES ASSUME IInv, [Next]_pictureVars PROVE IInv'
  OBVIOUS
<1>1. ScrollInv'
  BY ScrollInvStep DEF IInv
<1> SUFFICES LoadInv' /\ RunInv' /\ ShownInv'
  BY <1>1 DEF IInv
<1>2. CASE UNCHANGED pictureVars
  <2>1. LoadInv /\ RunInv /\ ShownInv
    BY DEF IInv
  <2>2. UNCHANGED layoutVars
    BY <1>2 DEF pictureVars
  <2>3. /\ loading' = loading /\ map' = map
        /\ UNCHANGED << pixel_grid, pos, shifts, effect, frame_no, pixels, display, sentBy >>
    BY <1>2 DEF pictureVars, layoutVars, scrollVars, runVars
  <2>4. LoadInv'
    BY <2>1, <2>2, LoadKept
  <2>5. RunInv'
    BY <2>1, <2>3 DEF RunInv, Frames, AllOf
  <2>6. ShownInv'
    BY <2>1, <2>3 DEF ShownInv
  <2> QED
    BY <2>4, <2>5, <2>6
<1>3. CASE LoadLayout
  BY <1>3, LoadStep
<1>4. CASE scroller_run
  BY <1>4, ScrollStep
<1>5. CASE image_run
  BY <1>5, ImageStep
<1>6. CASE test1_run
  <2>1. Running("1test") /\ Sends([Frame(Grey) EXCEPT ![0] = White]) /\ UNCHANGED scrollVars
    BY <1>6 DEF test1_run
  <2> QED
    BY <2>1, TestStep
<1>7. CASE alltest_run
  <2>1. Running("alltest") /\ Sends([Frame(Grey) EXCEPT ![frame_no] = White]) /\ UNCHANGED scrollVars
    BY <1>7 DEF alltest_run
  <2>2. PICK k \in Nat : k = frame_no
    BY <2>1, EffectOn
  <2>3. Sends([Frame(Grey) EXCEPT ![k] = White])
    BY <2>1, <2>2
  <2> QED
    BY <2>1, <2>2, <2>3, TestStep
<1>8. ASSUME NEW e \in DrawnBy, Start(e) PROVE LoadInv' /\ RunInv' /\ ShownInv'
  BY <1>8, StartStep
<1> QED
  BY <1>2, <1>3, <1>4, <1>5, <1>6, <1>7, <1>8 DEF Next

-----------------------------------------------------------------------------
(* main never mixes the grid cell, the place on a strip or the place on    *)
(* earth of two pixels, for every map, every number of strips and however  *)
(* many lines the file of the places has.                                  *)
THEOREM AlwaysInPlace == Spec => []LoadedInPlace
<1>1. IInv => LoadedInPlace
  BY InPlace DEF IInv
<1> QED
  BY <1>1, IInvInit, IInvStep, PTL DEF Spec

(* Every point of the display has the colour the effect means for the cell *)
(* the point was drawn in: no pixel is swapped, shifted or left unwritten, *)
(* for every map, whatever the lengths of its strips.                      *)
THEOREM AlwaysShown == Spec => []PictureShown
<1>1. IInv => PictureShown
  <2> SUFFICES ASSUME IInv, sentBy # Nobody, NEW i \in 0 .. NUM_PIXELS - 1
               PROVE  display[i] = Meant(sentBy.by, sentBy.frame, Points[i + 1])
    BY DEF PictureShown
  <2>1. LoadInv /\ RunInv /\ ShownAs(map, display, sentBy.by, sentBy.frame)
    BY DEF IInv, ShownInv
  <2>2. map \in Maps /\ NUM_PIXELS \in Nat
    BY <2>1, PixelsNat DEF LoadInv
  <2>3. PICK c \in DOMAIN map : PlaceIn(map, c) = i
    BY <2>2, CellsPlaced
  <2>4. Points[i + 1] = c
    BY <2>2, <2>3, PointAt
  <2>5. PICK j \in 1 .. NUM_PIXELS : Scan(map)[j] = c
    BY <2>2, ScanFacts
  <2>6. PICK p \in 0 .. NUM_PIXELS - 1 : p + 1 = j
    <3>1. j - 1 \in 0 .. NUM_PIXELS - 1 /\ j - 1 + 1 = j
      BY <2>2
    <3> QED
      BY <3>1
  <2>7. display[PlaceIn(map, Scan(map)[p + 1])] = MeantAt(sentBy.by, sentBy.frame, p, Scan(map)[p + 1])
    BY <2>1 DEF ShownAs
  <2>8. display[i] = MeantAt(sentBy.by, sentBy.frame, p, c)
    BY <2>3, <2>5, <2>6, <2>7
  <2>9. Scanned(c) = p
    <3>1. \A q \in 0 .. NUM_PIXELS - 1 : Scan(map)[q + 1] = c <=> q = p
      <4> SUFFICES ASSUME NEW q \in 0 .. NUM_PIXELS - 1 PROVE Scan(map)[q + 1] = c <=> q = p
        OBVIOUS
      <4>1. q + 1 \in 1 .. NUM_PIXELS /\ p + 1 \in 1 .. NUM_PIXELS
        BY <2>2
      <4>2. Scan(map)[q + 1] = Scan(map)[p + 1] => q + 1 = p + 1
        BY <2>2, <4>1, ScanFacts
      <4> QED
        BY <2>5, <2>6, <4>2
    <3> QED
      BY <3>1 DEF Scanned
  <2>10. Meant(sentBy.by, sentBy.frame, c) = MeantAt(sentBy.by, sentBy.frame, p, c)
    BY <2>9, Zenon DEF Meant, MeantAt
  <2> QED
    BY <2>4, <2>8, <2>10
<1> QED
  BY <1>1, IInvInit, IInvStep, PTL DEF Spec

(* Frames hold colours only: no effect sends what it did not draw, and the *)
(* display never gets memory that was not written.                         *)
THEOREM TypeCorrect == Spec => []TypeOK
<1>1. IInv => TypeOK
  <2> SUFFICES ASSUME IInv PROVE TypeOK
    OBVIOUS
  <2>1. LoadInv /\ RunInv
    BY DEF IInv
  <2>2. PICK n \in 0 .. NUM_PIXELS, g \in 0 .. MaxGeoRows, s \in Nat : pixel_info = ListOf(map, n, g, s)
    BY <2>1, ListCases
  <2>3. map \in Maps /\ NUM_PIXELS \in Nat /\ MaxGeoRows \in Nat /\ at \in Nat
    BY <2>1, PixelsNat, GeoRowsNat DEF LoadInv
  <2>4. Len(pixel_info) <= NUM_PIXELS
    <3>1. Len(ListOf(map, n, g, s)) = n
      BY <2>3, ListFacts
    <3> QED
      BY <2>2, <2>3, <3>1
  <2>5. GeoRead \in 0 .. NUM_PIXELS
    BY <2>1, RowsOfFiles DEF LoadInv
  <2>6. loading \in {"grid", "geo", "strip", "done"} /\ at <= NUM_PIXELS
    BY <2>1, <2>3, <2>5 DEF LoadInv
  <2>7. at \in 0 .. NUM_PIXELS + MaxGeoRows
    BY <2>3, <2>6
  <2> QED
    BY <2>1, <2>4, <2>6, <2>7 DEF TypeOK, RunInv, Frames
<1> QED
  BY <1>1, IInvInit, IInvStep, PTL DEF Spec

(* The scroller never loses, repeats or misreads a column, at the seam of  *)
(* two laps of the buffer in particular, for a buffer of any width that is *)
(* wider than the picture.                                                 *)
THEOREM ScrollsTheTape == Spec => []ScrollerOnTape
<1>1. Init => ScrollInv
  BY DEF Init, ScrollInv, ScrollerOnTape, ScrollInit
<1>2. ScrollInv => ScrollerOnTape
  BY DEF ScrollInv
<1> QED
  BY <1>1, <1>2, ScrollInvStep, PTL DEF Spec
=============================================================================
