-------------------------- MODULE BasicServerProofs --------------------------
(***************************************************************************)
(* basic_server for any clients, lines and buffer: types and the count of  *)
(* lines whatever is typed, and, when each line fits, that what the server *)
(* takes for a line is one.  The invariant speaks of the stream of bytes   *)
(* between a client and the server, those that have arrived before those   *)
(* under way: each line of which no byte is missing says what was sent.    *)
(***************************************************************************)
EXTENDS BasicServerProps, FiniteSetTheorems, SequenceTheorems, WellFoundedInduction, TLAPS

LEMMA SmallestNat ==
  ASSUME NEW S \in SUBSET Nat, S # {}
  PROVE  \E m \in S : \A k \in S : m <= k
<1>1. PICK m \in S : \A k \in S : << k, m >> \notin OpToRel(<, Nat)
  BY WFMin, NatLessThanWellFounded, Zenon
<1>2. \A k \in S : ~ (k < m)
  BY <1>1, Zenon DEF OpToRel
<1>3. m \in Nat /\ \A k \in S : k \in Nat
  BY <1>1
<1>4. \A k \in S : m <= k
  BY <1>2, <1>3
<1> QED
  BY <1>4

-----------------------------------------------------------------------------
(* Counting the ends of lines.                                             *)
EndsIn(s) == {i \in 1 .. Len(s) : s[i] = NL}

LEMMA EndsFinite == ASSUME NEW s \in Seq(Bytes) PROVE IsFiniteSet(EndsIn(s)) /\ LinesIn(s) \in Nat
<1>1. Len(s) \in Int
  OBVIOUS
<1>2. IsFiniteSet(1 .. Len(s))
  BY <1>1, FS_Interval
<1>3. IsFiniteSet(EndsIn(s))
  BY <1>2, FS_Subset DEF EndsIn
<1> QED
  BY <1>3, FS_CardinalityType DEF LinesIn, EndsIn

LEMMA LinesOfBoth ==
  ASSUME NEW a \in Seq(Bytes), NEW b \in Seq(Bytes)
  PROVE  LinesIn(a \o b) = LinesIn(a) + LinesIn(b)
<1> DEFINE c == a \o b
           n == Len(a)
           T == {i \in n + 1 .. n + Len(b) : c[i] = NL}
           B == EndsIn(b)
           f == [i \in B |-> n + i]
<1>1. /\ c \in Seq(Bytes) /\ Len(c) = n + Len(b) /\ n \in Nat /\ Len(b) \in Nat
      /\ \A i \in 1 .. n + Len(b) : c[i] = IF i <= n THEN a[i] ELSE b[i - n]
  BY ConcatProperties
<1> HIDE DEF c, n
<1>2. EndsIn(c) = EndsIn(a) \cup T /\ EndsIn(a) \cap T = {}
  BY <1>1 DEF EndsIn, n
<1>3. f \in [B -> T] /\ \A i, j \in B : f[i] = f[j] => i = j
  <2>1. ASSUME NEW i \in B PROVE n + i \in T
    <3>1. i \in 1 .. Len(b) /\ b[i] = NL
      BY DEF EndsIn
    <3>2. PICK k \in 1 .. n + Len(b) : k = n + i
      BY <1>1, <3>1
    <3>3. k \in n + 1 .. n + Len(b) /\ ~ (k <= n) /\ k - n = i
      BY <1>1, <3>1, <3>2
    <3>4. c[k] = b[i]
      BY <1>1, <3>3
    <3> QED
      BY <3>1, <3>2, <3>3, <3>4
  <2>2. B \subseteq Int
    BY DEF EndsIn
  <2> HIDE DEF B, T
  <2> QED
    BY <1>1, <2>1, <2>2
<1>4. ASSUME NEW t \in T PROVE \E i \in B : f[i] = t
  <2>1. t \in 1 .. n + Len(b) /\ t - n \in 1 .. Len(b) /\ ~ (t <= n) /\ n + (t - n) = t
    BY <1>1
  <2>2. b[t - n] = NL
    BY <1>1, <2>1
  <2>3. t - n \in B
    BY <2>1, <2>2 DEF EndsIn
  <2> QED
    BY <2>1, <2>3
<1>5. ExistsBijection(B, T)
  <2> HIDE DEF f, B, T
  <2>1. f \in Bijection(B, T)
    BY <1>3, <1>4 DEF Bijection, Injection, Surjection, IsInjective
  <2> QED
    BY <2>1 DEF ExistsBijection
<1>6. IsFiniteSet(B) /\ IsFiniteSet(EndsIn(a))
  BY EndsFinite
<1> HIDE DEF f, B, T
<1>7. IsFiniteSet(T) /\ Cardinality(T) = Cardinality(B)
  BY <1>5, <1>6, FS_Bijection
<1>8. Cardinality(EndsIn(c)) = Cardinality(EndsIn(a)) + Cardinality(T) - Cardinality(EndsIn(a) \cap T)
  BY <1>2, <1>6, <1>7, FS_Union
<1>9. Cardinality(EndsIn(a) \cap T) = 0
  BY <1>2, FS_EmptySet
<1>10. Cardinality(EndsIn(a)) \in Nat /\ Cardinality(T) \in Nat
  BY <1>6, <1>7, FS_CardinalityType
<1>11. LinesIn(c) = Cardinality(EndsIn(c)) /\ LinesIn(a) = Cardinality(EndsIn(a)) /\ LinesIn(b) = Cardinality(B)
  BY DEF LinesIn, EndsIn, B
<1>12. LinesIn(c) = LinesIn(a) + LinesIn(b)
  BY <1>7, <1>8, <1>9, <1>10, <1>11
<1> QED
  BY <1>12 DEF c

(* The bytes of one line, with its end.                                    *)
OneLine(s) ==
  s \in Seq(Bytes) /\ s # << >> /\ s[Len(s)] = NL /\ \A i \in 1 .. Len(s) - 1 : s[i] # NL

LEMMA OneEnd == ASSUME NEW s, OneLine(s) PROVE LinesIn(s) = 1
<1>1. Len(s) \in Nat \ {0}
  BY EmptySeq DEF OneLine
<1>2. EndsIn(s) = {Len(s)}
  BY <1>1 DEF EndsIn, OneLine
<1> QED
  BY <1>2, FS_Singleton DEF LinesIn, EndsIn

LEMMA LastOfOne ==
  ASSUME NEW s \in Seq(Bytes), s # << >>, s[Len(s)] = NL, LinesIn(s) = 1
  PROVE  OneLine(s)
<1>1. Len(s) \in Nat \ {0}
  BY EmptySeq
<1>2. PICK x : EndsIn(s) = {x}
  <2>1. IsFiniteSet(EndsIn(s)) /\ Cardinality(EndsIn(s)) = 1
    BY EndsFinite DEF LinesIn, EndsIn
  <2> QED
    BY <2>1, FS_Singleton
<1>3. Len(s) \in EndsIn(s)
  BY <1>1 DEF EndsIn
<1>4. \A i \in 1 .. Len(s) - 1 : i \notin EndsIn(s)
  BY <1>1, <1>2, <1>3
<1>5. \A i \in 1 .. Len(s) - 1 : s[i] # NL
  BY <1>1, <1>4 DEF EndsIn
<1> QED
  BY <1>5 DEF OneLine

LEMMA Typed ==
  ASSUME NEW c \in Clients, NEW line \in Lines[c]
  PROVE  /\ line \in Seq(Bytes) /\ Len(line) \in Nat \ {0} /\ \A i \in 1 .. Len(line) : line[i] # NL
         /\ OneLine(Append(line, NL)) /\ Len(Append(line, NL)) = Len(line) + 1
         /\ \A i \in 1 .. Len(line) : Append(line, NL)[i] = line[i]
<1>1. line \in Seq(Bytes) /\ line # << >> /\ NL \notin ToSet(line)
  BY LinesAssumption
<1>2. Len(line) \in Nat \ {0} /\ DOMAIN line = 1 .. Len(line)
  BY <1>1, EmptySeq
<1>3. \A i \in 1 .. Len(line) : line[i] # NL
  BY <1>1, <1>2 DEF ToSet
<1>4. NL \in Bytes
  BY DEF NL, Bytes
<1> DEFINE t == Append(line, NL)
<1>5. t \in Seq(Bytes) /\ t # << >> /\ Len(t) = Len(line) + 1 /\ t[Len(line) + 1] = NL
      /\ \A i \in 1 .. Len(line) : t[i] = line[i]
  BY <1>1, <1>4, AppendProperties
<1> HIDE DEF t
<1>6. OneLine(t)
  BY <1>2, <1>3, <1>5 DEF OneLine
<1> QED
  BY <1>1, <1>2, <1>3, <1>5, <1>6 DEF t

-----------------------------------------------------------------------------
(* What a text says.                                                       *)
Base(b) == IF b # << >> /\ b[1] = 48 THEN 8 ELSE 10
Values(b, n, f) == f = [i \in 0 .. n |-> IF i = 0 THEN 0 ELSE f[i - 1] * Base(b) + b[i] - 48]
IntValues(b, n, f) == f \in [0 .. n -> Int] /\ Values(b, n, f)
Value(b) ==
  LET value[i \in 0 .. Len(b)] == IF i = 0 THEN 0 ELSE value[i - 1] * Base(b) + b[i] - 48
  IN  IF b # << >> /\ ToSet(b) \subseteq Digit(Base(b)) THEN {value[Len(b)]} ELSE {}

LEMMA BytesInt ==
  ASSUME NEW b \in Seq(Bytes)
  PROVE  Len(b) \in Nat /\ Base(b) \in Int /\ \A k \in 1 .. Len(b) : b[k] \in Int
<1>1. Base(b) \in Int
  BY DEF Base
<1>2. \A k \in 1 .. Len(b) : b[k] \in Bytes
  OBVIOUS
<1>3. \A x \in Bytes : x \in Int
  BY DEF Bytes
<1> QED
  BY <1>1, <1>2, <1>3

LEMMA ValuesExist ==
  ASSUME NEW b \in Seq(Bytes), NEW n \in 0 .. Len(b) PROVE \E f : IntValues(b, n, f)
<1> DEFINE bad == {k \in 0 .. Len(b) : ~ \E f : IntValues(b, k, f)}
<1> SUFFICES ASSUME bad # {} PROVE FALSE
  OBVIOUS
<1>0. /\ Len(b) \in Nat /\ Base(b) \in Int /\ \A k \in 1 .. Len(b) : b[k] \in Int
  BY BytesInt
<1>1. bad \in SUBSET Nat
  OBVIOUS
<1>2. PICK m \in bad : \A k \in bad : m <= k
  <2> HIDE DEF bad
  <2> QED
    BY <1>1, SmallestNat
<1>3. m \in 0 .. Len(b) /\ ~ \E f : IntValues(b, m, f)
  OBVIOUS
<1>4. CASE m = 0
  <2> DEFINE f == [i \in 0 .. 0 |-> 0]
  <2>1. IntValues(b, 0, f)
    BY DEF IntValues, Values
  <2> QED
    BY <1>3, <1>4, <2>1
<1>5. CASE m # 0
  <2>1. m - 1 \in 0 .. Len(b) /\ m \in 1 .. Len(b) /\ ~ (m <= m - 1) /\ m \in Nat /\ m - 1 \in 0 .. m - 1
    BY <1>0, <1>3, <1>5
  <2>2. m - 1 \notin bad
    <3> HIDE DEF bad
    <3> QED
      BY <1>2, <2>1
  <2>3. PICK g : IntValues(b, m - 1, g)
    BY <2>1, <2>2
  <2> DEFINE x == g[m - 1] * Base(b) + b[m] - 48
             f == [i \in 0 .. m |-> IF i = m THEN x ELSE g[i]]
  <2>4. \A i \in 0 .. m - 1 : g[i] \in Int /\ g[i] = IF i = 0 THEN 0 ELSE g[i - 1] * Base(b) + b[i] - 48
    BY <2>3 DEF IntValues, Values
  <2>5. x \in Int
    <3>1. \A p, q, r \in Int : p * q + r - 48 \in Int
      OBVIOUS
    <3>2. g[m - 1] \in Int /\ Base(b) \in Int /\ b[m] \in Int
      BY <1>0, <2>1, <2>4
    <3> QED
      BY <3>1, <3>2
  <2>6. ASSUME NEW i \in 0 .. m
        PROVE  f[i] \in Int /\ f[i] = IF i = 0 THEN 0 ELSE f[i - 1] * Base(b) + b[i] - 48
    <3>1. CASE i = m
      <4>1. f[m - 1] = g[m - 1] /\ f[m] = x
        BY <2>1
      <4> QED
        BY <1>5, <2>5, <3>1, <4>1
    <3>2. CASE i = 0
      <4>1. f[0] = g[0] /\ 0 \in 0 .. m - 1
        BY <1>5, <2>1
      <4> QED
        BY <2>4, <3>2, <4>1
    <3>3. CASE i # m /\ i # 0
      <4>1. i \in 0 .. m - 1 /\ i - 1 \in 0 .. m /\ i - 1 # m
        BY <2>1, <3>3
      <4>2. f[i] = g[i] /\ f[i - 1] = g[i - 1]
        BY <3>3, <4>1
      <4> QED
        BY <2>4, <3>3, <4>1, <4>2
    <3> QED
      BY <3>1, <3>2, <3>3
  <2>7. f = [i \in 0 .. m |-> f[i]]
    OBVIOUS
  <2> HIDE DEF f, x
  <2>8. IntValues(b, m, f)
    <3>1. f \in [0 .. m -> Int]
      BY <2>6, <2>7
    <3>2. f = [i \in 0 .. m |-> IF i = 0 THEN 0 ELSE f[i - 1] * Base(b) + b[i] - 48]
      BY <2>6, <2>7
    <3> QED
      BY <3>1, <3>2 DEF IntValues, Values
  <2> QED
    BY <1>3, <2>8
<1> QED
  BY <1>4, <1>5

LEMMA ValueInt == ASSUME NEW b \in Seq(Bytes) PROVE Value(b) \subseteq Int
<1> DEFINE v == CHOOSE f : Values(b, Len(b), f)
<1>1. Len(b) \in Nat /\ Len(b) \in 0 .. Len(b) /\ Base(b) \in Int /\ \A k \in 1 .. Len(b) : b[k] \in Int
  BY BytesInt
<1>2. PICK g : IntValues(b, Len(b), g)
  BY <1>1, ValuesExist
<1>3. Values(b, Len(b), v)
  BY <1>2, Zenon DEF IntValues
<1>4. Value(b) = IF b # << >> /\ ToSet(b) \subseteq Digit(Base(b)) THEN {v[Len(b)]} ELSE {}
  BY Zenon DEF Value, Values
<1> HIDE DEF v
<1>5. \A i \in 0 .. Len(b) : v[i] = IF i = 0 THEN 0 ELSE v[i - 1] * Base(b) + b[i] - 48
  BY <1>3 DEF Values
<1>6. v[Len(b)] \in Int
  <2>1. CASE Len(b) = 0
    BY <1>1, <1>5, <2>1
  <2>2. CASE Len(b) # 0
    <3> DEFINE bad == {k \in 0 .. Len(b) : v[k] \notin Int}
    <3> SUFFICES ASSUME bad # {} PROVE FALSE
      BY <1>1
    <3>1. bad \in SUBSET Nat
      OBVIOUS
    <3>2. PICK m \in bad : \A k \in bad : m <= k
      <4> HIDE DEF bad
      <4> QED
        BY <3>1, SmallestNat
    <3>3. m \in 0 .. Len(b) /\ v[m] \notin Int /\ m # 0
      BY <1>5
    <3>4. m - 1 \in 0 .. Len(b) /\ ~ (m <= m - 1) /\ m \in 1 .. Len(b)
      BY <1>1, <3>3
    <3>5. m - 1 \notin bad
      <4> HIDE DEF bad
      <4> QED
        BY <3>2, <3>4
    <3>6. v[m - 1] \in Int /\ b[m] \in Int
      BY <1>1, <3>4, <3>5
    <3>7. v[m] = v[m - 1] * Base(b) + b[m] - 48
      BY <1>5, <3>3
    <3>8. \A p, q, r \in Int : p * q + r - 48 \in Int
      OBVIOUS
    <3> QED
      BY <1>1, <3>3, <3>6, <3>7, <3>8
  <2> QED
    BY <2>1, <2>2
<1> QED
  BY <1>4, <1>6

(* White space before a number is skipped.                                 *)
IsFirst(t, i) ==
  /\ i \in 1 .. Len(t) + 1 /\ (i <= Len(t) => t[i] # NL)
  /\ \A j \in 1 .. i - 1 : t[j] = NL

LEMMA FirstUnique ==
  ASSUME NEW t \in Seq(Bytes), NEW i, NEW j, IsFirst(t, i), IsFirst(t, j) PROVE i = j
<1>1. Len(t) \in Nat /\ i \in Int /\ j \in Int
  BY DEF IsFirst
<1>2. ~ (i < j)
  BY <1>1 DEF IsFirst
<1>3. ~ (j < i)
  BY <1>1 DEF IsFirst
<1> QED
  BY <1>1, <1>2, <1>3

LEMMA FirstExists == ASSUME NEW t \in Seq(Bytes) PROVE \E i : IsFirst(t, i)
<1> DEFINE S == {i \in 1 .. Len(t) + 1 : i <= Len(t) => t[i] # NL}
<1>1. Len(t) \in Nat /\ S \in SUBSET Nat /\ Len(t) + 1 \in S
  OBVIOUS
<1>2. PICK m \in S : \A k \in S : m <= k
  <2> HIDE DEF S
  <2> QED
    BY <1>1, SmallestNat
<1>3. m \in 1 .. Len(t) + 1 /\ (m <= Len(t) => t[m] # NL)
  OBVIOUS
<1>4. ASSUME NEW j \in 1 .. m - 1 PROVE t[j] = NL
  <2>1. j \in 1 .. Len(t) + 1 /\ j <= Len(t) /\ ~ (m <= j)
    BY <1>1, <1>3
  <2>2. j \notin S
    <3> HIDE DEF S
    <3> QED
      BY <1>2, <2>1
  <2> QED
    BY <2>1, <2>2
<1>5. IsFirst(t, m)
  BY <1>3, <1>4 DEF IsFirst
<1> QED
  BY <1>5

LEMMA ParseIs ==
  ASSUME NEW t \in Seq(Bytes), NEW f, IsFirst(t, f) PROVE Parse(t) = Value(SubSeq(t, f, Len(t)))
<1> DEFINE g == CHOOSE i \in 1 .. Len(t) + 1 :
                  /\ i <= Len(t) => t[i] # NL
                  /\ \A j \in 1 .. i - 1 : t[j] = NL
<1>1. IsFirst(t, g)
  BY DEF IsFirst
<1>2. g = f
  <2> HIDE DEF g
  <2> QED
    BY <1>1, FirstUnique
<1>3. Parse(t) = Value(SubSeq(t, g, Len(t)))
  BY Zenon DEF Parse, Value, Base
<1> HIDE DEF g
<1> QED
  BY <1>2, <1>3

LEMMA ParseInt == ASSUME NEW t \in Seq(Bytes) PROVE Parse(t) \subseteq Int
<1>1. PICK f : IsFirst(t, f)
  BY FirstExists
<1>2. f \in 1 .. Len(t) + 1 /\ Len(t) \in Int
  BY <1>1 DEF IsFirst
<1>3. SubSeq(t, f, Len(t)) \in Seq(Bytes)
  BY <1>2, SubSeqProperties
<1> QED
  BY <1>1, <1>3, ParseIs, ValueInt

(* A text that says something is, after white space, what says it.         *)
LEMMA ParseBody ==
  ASSUME NEW t \in Seq(Bytes), Parse(t) # {}
  PROVE  \E f \in 1 .. Len(t) : /\ \A j \in 1 .. f - 1 : t[j] = NL
                                /\ \A k \in f .. Len(t) : t[k] # NL
                                /\ Parse(t) = Parse(SubSeq(t, f, Len(t)))
<1>1. PICK f : IsFirst(t, f)
  BY FirstExists
<1> DEFINE b == SubSeq(t, f, Len(t))
<1>2. f \in 1 .. Len(t) + 1 /\ Len(t) \in Nat /\ \A j \in 1 .. f - 1 : t[j] = NL
  BY <1>1 DEF IsFirst
<1>3. /\ b \in Seq(Bytes) /\ Len(b) = Len(t) - f + 1
      /\ \A i \in 1 .. Len(t) - f + 1 : b[i] = t[f + i - 1]
  BY <1>2, SubSeqProperties
<1> HIDE DEF b
<1>4. Parse(t) = Value(b)
  BY <1>1, ParseIs DEF b
<1>5. b # << >> /\ ToSet(b) \subseteq Digit(Base(b))
  <2> SUFFICES ASSUME ~ (b # << >> /\ ToSet(b) \subseteq Digit(Base(b))) PROVE Value(b) = {}
    BY <1>4
  <2> QED
    BY Zenon DEF Value
<1>6. Len(b) \in Nat \ {0} /\ DOMAIN b = 1 .. Len(b)
  BY <1>3, <1>5, EmptySeq
<1>7. f \in 1 .. Len(t)
  BY <1>2, <1>3, <1>6
<1>8. ASSUME NEW i \in 1 .. Len(b) PROVE b[i] # NL
  <2>1. b[i] \in ToSet(b)
    BY <1>6 DEF ToSet
  <2>2. NL \notin Digit(Base(b))
    BY DEF NL, Digit, Base
  <2> QED
    BY <1>5, <2>1, <2>2
<1>9. ASSUME NEW k \in f .. Len(t) PROVE t[k] # NL
  <2>1. PICK i \in 1 .. Len(b) : i = k - f + 1
    BY <1>2, <1>3
  <2>2. f + i - 1 = k
    BY <1>2, <2>1
  <2>3. b[i] = t[k]
    BY <1>3, <2>2
  <2> QED
    BY <1>8, <2>3
<1>10. Parse(b) = Value(b)
  <2>1. IsFirst(b, 1)
    BY <1>6, <1>8 DEF IsFirst
  <2>2. SubSeq(b, 1, Len(b)) = b
    BY <1>3, SubSeqFull
  <2> QED
    BY <1>3, <2>1, <2>2, ParseIs
<1> QED
  BY <1>2, <1>4, <1>7, <1>9, <1>10 DEF b

-----------------------------------------------------------------------------
(* The bytes between a client and the server.  A run is a line of which no *)
(* byte is missing, without its end; it is as many lines before the last   *)
(* one sent as ends follow it, and says what that one said.                *)
Run(s, i, j) ==
  /\ i <= j /\ (i = 1 \/ s[i - 1] = NL)
  /\ \A k \in i .. j : s[k] # NL
  /\ j + 1 <= Len(s) /\ s[j + 1] = NL

Rest(s, i) == SubSeq(s, i, Len(s))

Says(s, q) ==
  \A i, j \in 1 .. Len(s) :
    Run(s, i, j) => Parse(SubSeq(s, i, j)) = q[Len(q) + 1 - LinesIn(Rest(s, i))]

Ended(s) == s = << >> \/ s[Len(s)] = NL
Apart(s) == \A i \in 1 .. Len(s) - 1 : s[i] = NL \/ s[i + 1] = NL
Short(s) ==
  \A i \in 1 .. Len(s) : i + BASIC_TCP_BUFFER - 1 <= Len(s) =>
    \E k \in i .. i + BASIC_TCP_BUFFER - 1 : s[k] = NL

LEMMA RestOf ==
  ASSUME NEW s \in Seq(Bytes), NEW i \in 1 .. Len(s) + 1
  PROVE  /\ Rest(s, i) \in Seq(Bytes) /\ Len(Rest(s, i)) = Len(s) - i + 1
         /\ \A k \in 1 .. Len(s) - i + 1 : Rest(s, i)[k] = s[i + k - 1]
  BY SubSeqProperties DEF Rest

LEMMA Cutting ==
  ASSUME NEW s \in Seq(Bytes), NEW n \in 0 .. Len(s)
  PROVE  /\ SubSeq(s, 1, n) \in Seq(Bytes) /\ Len(SubSeq(s, 1, n)) = n
         /\ \A k \in 1 .. n : SubSeq(s, 1, n)[k] = s[k]
         /\ SubSeq(s, 1, n) \o Rest(s, n + 1) = s
         /\ LinesIn(s) = LinesIn(SubSeq(s, 1, n)) + LinesIn(Rest(s, n + 1))
<1> DEFINE a == SubSeq(s, 1, n)
<1>1. a \in Seq(Bytes) /\ Len(a) = n /\ \A k \in 1 .. n : a[k] = s[k]
  BY SubSeqProperties
<1>2. Len(s) \in Nat /\ 1 \in 1 .. Len(s) + 1 /\ n \in 1 - 1 .. Len(s) /\ Len(s) \in n .. Len(s)
  OBVIOUS
<1>3. a \o Rest(s, n + 1) = s
  <2>1. a \o Rest(s, n + 1) = SubSeq(s, 1, Len(s))
    BY <1>2, ConcatAdjacentSubSeq DEF Rest
  <2>2. SubSeq(s, 1, Len(s)) = s
    BY SubSeqFull
  <2> QED
    BY <2>1, <2>2, Zenon
<1>4. Rest(s, n + 1) \in Seq(Bytes)
  BY <1>2, RestOf
<1> HIDE DEF a
<1>5. LinesIn(a \o Rest(s, n + 1)) = LinesIn(a) + LinesIn(Rest(s, n + 1))
  BY <1>1, <1>4, LinesOfBoth
<1> QED
  BY <1>1, <1>3, <1>5, Zenon DEF a

(* The rest after the first n bytes and from i on.                         *)
LEMMA RestOfRest ==
  ASSUME NEW s \in Seq(Bytes), NEW n \in 0 .. Len(s), NEW i \in 1 .. Len(s) - n + 1
  PROVE  Rest(Rest(s, n + 1), i) = Rest(s, n + i)
<1> DEFINE r == Rest(s, n + 1)
<1>1. Len(s) \in Nat /\ n + 1 \in 1 .. Len(s) + 1 /\ n + i \in 1 .. Len(s) + 1
  OBVIOUS
<1>2. r \in Seq(Bytes) /\ Len(r) = Len(s) - n /\ \A k \in 1 .. Len(s) - n : r[k] = s[n + k]
  <2>1. /\ r \in Seq(Bytes) /\ Len(r) = Len(s) - (n + 1) + 1
        /\ \A k \in 1 .. Len(s) - (n + 1) + 1 : r[k] = s[(n + 1) + k - 1]
    BY <1>1, RestOf
  <2> HIDE DEF r
  <2> QED
    BY <1>1, <2>1
<1> HIDE DEF r
<1> DEFINE u == Rest(r, i)
           v == Rest(s, n + i)
<1>3. i \in 1 .. Len(r) + 1
  BY <1>1, <1>2
<1>4. /\ u \in Seq(Bytes) /\ Len(u) = Len(r) - i + 1
      /\ \A k \in 1 .. Len(r) - i + 1 : u[k] = r[i + k - 1]
  BY <1>2, <1>3, RestOf
<1>5. /\ v \in Seq(Bytes) /\ Len(v) = Len(s) - (n + i) + 1
      /\ \A k \in 1 .. Len(s) - (n + i) + 1 : v[k] = s[(n + i) + k - 1]
  BY <1>1, RestOf
<1> HIDE DEF u, v
<1>6. Len(u) = Len(v) /\ Len(u) = Len(s) - n - i + 1
  BY <1>1, <1>2, <1>4, <1>5
<1>7. ASSUME NEW k \in 1 .. Len(u) PROVE u[k] = v[k]
  <2>1. PICK l \in 1 .. Len(s) - n : l = i + k - 1
    BY <1>1, <1>6
  <2>2. u[k] = r[l] /\ r[l] = s[n + l]
    BY <1>2, <1>4, <1>6, <2>1
  <2>3. n + l = (n + i) + k - 1
    BY <1>1, <1>6, <2>1
  <2> QED
    BY <1>5, <1>6, <2>2, <2>3
<1>8. u = v
  BY <1>4, <1>5, <1>6, <1>7, SeqEqual
<1> QED
  BY <1>8 DEF u, v, r

(* What is left when bytes have gone, that end at a line or leave none of  *)
(* its bytes but its end.                                                  *)
LEMMA LessSaid ==
  ASSUME NEW s \in Seq(Bytes), NEW q, Says(s, q), NEW n \in 0 .. Len(s),
         n = 0 \/ n = Len(s) \/ s[n] = NL \/ s[n + 1] = NL
  PROVE  Says(Rest(s, n + 1), q)
<1> DEFINE r == Rest(s, n + 1)
<1>1. Len(s) \in Nat /\ n + 1 \in 1 .. Len(s) + 1
  OBVIOUS
<1>2. r \in Seq(Bytes) /\ Len(r) = Len(s) - n /\ \A k \in 1 .. Len(s) - n : r[k] = s[n + k]
  <2>1. /\ r \in Seq(Bytes) /\ Len(r) = Len(s) - (n + 1) + 1
        /\ \A k \in 1 .. Len(s) - (n + 1) + 1 : r[k] = s[(n + 1) + k - 1]
    BY <1>1, RestOf
  <2> HIDE DEF r
  <2> QED
    BY <1>1, <2>1
<1>3. \A i \in 1 .. Len(s) - n : Rest(r, i) = Rest(s, n + i)
  BY RestOfRest
<1> HIDE DEF r
<1> SUFFICES ASSUME NEW i \in 1 .. Len(r), NEW j \in 1 .. Len(r), Run(r, i, j)
             PROVE  Parse(SubSeq(r, i, j)) = q[Len(q) + 1 - LinesIn(Rest(r, i))]
  BY DEF Says, r
<1>4. /\ i <= j /\ (i = 1 \/ r[i - 1] = NL) /\ \A k \in i .. j : r[k] # NL
      /\ j + 1 <= Len(r) /\ r[j + 1] = NL
  BY DEF Run
<1>5. PICK x \in 1 .. Len(s) : x = n + i
  BY <1>1, <1>2
<1>6. PICK y \in 1 .. Len(s) : y = n + j
  BY <1>1, <1>2
<1>7. Run(s, x, y)
  <2>1. x <= y /\ y + 1 <= Len(s)
    BY <1>1, <1>2, <1>4, <1>5, <1>6
  <2>2. \A k \in x .. y : s[k] # NL
    <3> SUFFICES ASSUME NEW k \in x .. y PROVE s[k] # NL
      OBVIOUS
    <3>1. PICK l \in i .. j : l = k - n
      BY <1>5, <1>6
    <3>2. l \in 1 .. Len(s) - n /\ n + l = k
      BY <1>1, <1>2, <1>4, <3>1
    <3> QED
      BY <1>2, <1>4, <3>1, <3>2
  <2>3. s[y + 1] = NL
    <3>1. PICK l \in 1 .. Len(s) - n : l = j + 1
      BY <1>1, <1>2, <1>4
    <3>2. n + l = y + 1
      BY <1>6, <3>1
    <3> QED
      BY <1>2, <1>4, <3>1, <3>2
  <2>4. x = 1 \/ s[x - 1] = NL
    <3>1. CASE i = 1
      <4>1. x = n + 1 /\ s[n + 1] # NL
        BY <1>5, <2>1, <2>2, <3>1
      <4>2. n = 0 \/ s[n] = NL
        BY <1>1, <1>2, <4>1
      <4> QED
        BY <4>1, <4>2
    <3>2. CASE i # 1
      <4>1. PICK l \in 1 .. Len(s) - n : l = i - 1
        BY <1>1, <1>2, <3>2
      <4>2. n + l = x - 1
        BY <1>5, <4>1
      <4> QED
        BY <1>2, <1>4, <3>2, <4>1, <4>2
    <3> QED
      BY <3>1, <3>2
  <2> QED
    BY <2>1, <2>2, <2>3, <2>4 DEF Run
<1>8. Parse(SubSeq(s, x, y)) = q[Len(q) + 1 - LinesIn(Rest(s, x))]
  BY <1>7 DEF Says
<1>9. SubSeq(r, i, j) = SubSeq(s, x, y)
  <2> DEFINE u == SubSeq(r, i, j)
             v == SubSeq(s, x, y)
  <2>1. \A k \in i .. j : r[k] \in Bytes
    BY <1>2
  <2>2. \A k \in x .. y : s[k] \in Bytes
    OBVIOUS
  <2>3. u \in Seq(Bytes) /\ Len(u) = j - i + 1 /\ \A k \in 1 .. j - i + 1 : u[k] = r[i + k - 1]
    BY <1>4, <2>1, SubSeqProperties
  <2>4. v \in Seq(Bytes) /\ Len(v) = y - x + 1 /\ \A k \in 1 .. y - x + 1 : v[k] = s[x + k - 1]
    <3>1. x <= y
      BY <1>7 DEF Run
    <3> QED
      BY <2>2, <3>1, SubSeqProperties
  <2> HIDE DEF u, v
  <2>5. Len(u) = Len(v) /\ y - x + 1 = j - i + 1
    BY <1>5, <1>6, <2>3, <2>4
  <2>6. ASSUME NEW k \in 1 .. Len(u) PROVE u[k] = v[k]
    <3>1. PICK l \in 1 .. Len(s) - n : l = i + k - 1
      BY <1>1, <1>2, <2>3
    <3>2. n + l = x + k - 1
      BY <1>5, <2>3, <3>1
    <3>3. u[k] = r[l] /\ v[k] = s[n + l]
      BY <2>3, <2>4, <2>5, <3>1, <3>2
    <3> QED
      BY <1>2, <3>1, <3>3
  <2>7. u = v
    BY <2>3, <2>4, <2>5, <2>6, SeqEqual
  <2> QED
    BY <2>7 DEF u, v
<1>10. Rest(r, i) = Rest(s, x)
  BY <1>2, <1>3, <1>5
<1> QED
  BY <1>8, <1>9, <1>10, Zenon

(* What is sent comes after all that was.                                  *)
LEMMA MoreSaid ==
  ASSUME NEW s \in Seq(Bytes), NEW q, NEW T, q \in Seq(T), Says(s, q), Ended(s), LinesIn(s) <= Len(q),
         NEW c \in Clients, NEW line \in Lines[c], Parse(line) \in T
  PROVE  Says(s \o Append(line, NL), Append(q, Parse(line)))
<1> DEFINE a == Append(line, NL)
           r == s \o a
           m == Len(s)
           p == Append(q, Parse(line))
<1>1. /\ line \in Seq(Bytes) /\ Len(line) \in Nat \ {0} /\ \A k \in 1 .. Len(line) : line[k] # NL
      /\ OneLine(a) /\ Len(a) = Len(line) + 1 /\ \A k \in 1 .. Len(line) : a[k] = line[k]
  BY Typed
<1>2. a \in Seq(Bytes) /\ a[Len(line) + 1] = NL /\ LinesIn(a) = 1
  BY <1>1, OneEnd DEF OneLine
<1> HIDE DEF a
<1>3. /\ r \in Seq(Bytes) /\ Len(r) = m + Len(a) /\ m \in Nat
      /\ \A k \in 1 .. m + Len(a) : r[k] = IF k <= m THEN s[k] ELSE a[k - m]
  BY <1>2, ConcatProperties
<1>4. /\ Len(p) = Len(q) + 1 /\ \A k \in 1 .. Len(q) : p[k] = q[k]
      /\ p[Len(q) + 1] = Parse(line) /\ Len(q) \in Nat
  BY AppendProperties
<1>5. ASSUME NEW i \in 1 .. m + 1
      PROVE  /\ LinesIn(Rest(r, i)) = LinesIn(Rest(s, i)) + 1 /\ LinesIn(Rest(s, i)) \in Nat
             /\ LinesIn(Rest(s, i)) <= Len(q)
  <2> DEFINE u == Rest(r, i)
             t == Rest(s, i)
             v == t \o a
  <2>1. t \in Seq(Bytes) /\ Len(t) = m - i + 1 /\ \A k \in 1 .. m - i + 1 : t[k] = s[i + k - 1]
    BY RestOf
  <2>2. i \in 1 .. Len(r) + 1
    BY <1>1, <1>3
  <2> HIDE DEF r
  <2>3. u \in Seq(Bytes) /\ Len(u) = Len(r) - i + 1 /\ \A k \in 1 .. Len(r) - i + 1 : u[k] = r[i + k - 1]
    BY <1>3, <2>2, RestOf
  <2> HIDE DEF u, t
  <2>4. /\ v \in Seq(Bytes) /\ Len(v) = Len(t) + Len(a)
        /\ \A k \in 1 .. Len(t) + Len(a) : v[k] = IF k <= Len(t) THEN t[k] ELSE a[k - Len(t)]
    BY <1>2, <2>1, ConcatProperties
  <2> HIDE DEF v
  <2>5. Len(u) = Len(v) /\ Len(a) \in Nat
    BY <1>1, <1>3, <2>1, <2>3, <2>4
  <2>6. ASSUME NEW k \in 1 .. Len(u) PROVE u[k] = v[k]
    <3>1. PICK l \in 1 .. m + Len(a) : l = i + k - 1
      BY <1>1, <1>3, <2>1, <2>3
    <3>2. u[k] = IF l <= m THEN s[l] ELSE a[l - m]
      BY <1>3, <2>3, <3>1
    <3>3. v[k] = IF k <= m - i + 1 THEN t[k] ELSE a[k - (m - i + 1)]
      BY <2>1, <2>4, <2>5
    <3>4. CASE l <= m
      <4>1. k \in 1 .. m - i + 1 /\ k <= m - i + 1
        BY <1>3, <3>1, <3>4
      <4>2. t[k] = s[l]
        BY <2>1, <3>1, <4>1
      <4> QED
        BY <3>2, <3>3, <3>4, <4>1, <4>2
    <3>5. CASE ~ (l <= m)
      <4>1. ~ (k <= m - i + 1) /\ k - (m - i + 1) = l - m
        BY <1>3, <3>1, <3>5
      <4> QED
        BY <3>2, <3>3, <3>5, <4>1
    <3> QED
      BY <3>4, <3>5
  <2>7. u = v
    BY <2>3, <2>4, <2>5, <2>6, SeqEqual
  <2>8. LinesIn(v) = LinesIn(t) + 1
    BY <1>2, <2>1, LinesOfBoth DEF v
  <2>9. LinesIn(t) \in Nat
    BY <2>1, EndsFinite
  <2>10. LinesIn(t) <= LinesIn(s)
    <3>1. PICK n \in 0 .. Len(s) : n = i - 1
      BY <1>3
    <3>2. i = n + 1
      BY <3>1
    <3>3. SubSeq(s, 1, n) \in Seq(Bytes) /\ LinesIn(s) = LinesIn(SubSeq(s, 1, n)) + LinesIn(Rest(s, n + 1))
      BY Cutting
    <3>4. LinesIn(SubSeq(s, 1, n)) \in Nat
      BY <3>3, EndsFinite
    <3> QED
      BY <2>9, <3>2, <3>3, <3>4 DEF t
  <2>11. LinesIn(s) \in Nat
    BY EndsFinite
  <2>12. LinesIn(u) = LinesIn(t) + 1
    BY <2>7, <2>8
  <2> QED
    BY <1>4, <2>9, <2>10, <2>11, <2>12 DEF u, t
<1> HIDE DEF r, m, p
<1> SUFFICES ASSUME NEW i \in 1 .. Len(r), NEW j \in 1 .. Len(r), Run(r, i, j)
             PROVE  Parse(SubSeq(r, i, j)) = p[Len(p) + 1 - LinesIn(Rest(r, i))]
  BY DEF Says, r, p, a
<1>6. /\ i <= j /\ (i = 1 \/ r[i - 1] = NL) /\ \A k \in i .. j : r[k] # NL
      /\ j + 1 <= Len(r) /\ r[j + 1] = NL
  BY DEF Run
<1>7. m # 0 => r[m] = NL
  BY <1>1, <1>3, EmptySeq DEF Ended, m
<1>8. CASE j + 1 <= m
  <2>1. i \in 1 .. m /\ j \in 1 .. m /\ i \in 1 .. m + 1 /\ i \in 1 .. Len(s) /\ j \in 1 .. Len(s)
    BY <1>1, <1>3, <1>6, <1>8 DEF m
  <2>2. \A k \in 1 .. m : r[k] = s[k]
    BY <1>1, <1>3
  <2>3. Run(s, i, j)
    <3>1. \A k \in i .. j : s[k] # NL
      BY <1>3, <1>6, <1>8, <2>1, <2>2
    <3>2. s[j + 1] = NL
      BY <1>3, <1>6, <1>8, <2>1, <2>2
    <3>3. i = 1 \/ s[i - 1] = NL
      BY <1>3, <1>6, <2>1, <2>2
    <3> QED
      BY <1>6, <1>8, <3>1, <3>2, <3>3 DEF Run, m
  <2>4. Parse(SubSeq(s, i, j)) = q[Len(q) + 1 - LinesIn(Rest(s, i))]
    BY <2>1, <2>3 DEF Says
  <2>5. SubSeq(r, i, j) = SubSeq(s, i, j)
    BY <1>2, <2>1, SubSeqOfConcat1 DEF r
  <2>6. LinesIn(Rest(s, i)) # 0
    <3> DEFINE t == Rest(s, i)
    <3>1. t \in Seq(Bytes) /\ Len(t) = m - i + 1 /\ \A k \in 1 .. m - i + 1 : t[k] = s[i + k - 1]
      BY <2>1, RestOf DEF m
    <3> HIDE DEF t
    <3>2. PICK k \in 1 .. m - i + 1 : k = j + 1 - i + 1
      BY <1>3, <1>6, <1>8, <2>1
    <3>3. i + k - 1 = j + 1
      BY <2>1, <3>2
    <3>4. s[j + 1] = NL
      BY <2>3 DEF Run
    <3>5. k \in EndsIn(t)
      BY <3>1, <3>2, <3>3, <3>4 DEF EndsIn
    <3>6. IsFiniteSet(EndsIn(t))
      BY <3>1, EndsFinite
    <3>7. Cardinality(EndsIn(t)) # 0
      BY <3>5, <3>6, FS_EmptySet
    <3> QED
      BY <3>7 DEF LinesIn, EndsIn, t
  <2> DEFINE x == LinesIn(Rest(s, i))
             y == LinesIn(Rest(r, i))
  <2>7. y = x + 1 /\ x \in Nat /\ x <= Len(q) /\ x # 0
    BY <1>5, <2>1, <2>6
  <2> HIDE DEF x, y
  <2>8. Len(p) + 1 - y = Len(q) + 1 - x /\ Len(q) + 1 - x \in 1 .. Len(q)
    BY <1>4, <2>7
  <2>9. p[Len(p) + 1 - y] = q[Len(q) + 1 - x]
    BY <1>4, <2>8
  <2> QED
    BY <2>4, <2>5, <2>9, Zenon DEF x, y
<1>9. CASE ~ (j + 1 <= m)
  <2>1. i = m + 1
    <3>1. ~ (i <= m)
      BY <1>1, <1>3, <1>6, <1>7, <1>9
    <3>2. SUFFICES ASSUME i > m + 1 PROVE FALSE
      BY <1>3, <3>1
    <3>3. i # 1 /\ r[i - 1] = NL
      BY <1>3, <1>6, <3>2
    <3>4. PICK k \in 1 .. Len(line) : k = i - 1 - m
      BY <1>1, <1>3, <1>6, <3>2
    <3>5. PICK l \in 1 .. m + Len(a) : l = i - 1
      BY <1>1, <1>3, <3>2
    <3>6. ~ (l <= m) /\ l - m = k
      BY <1>1, <1>3, <3>2, <3>4, <3>5
    <3>7. r[l] = a[k]
      BY <1>3, <3>6
    <3> QED
      BY <1>1, <3>3, <3>4, <3>5, <3>7
  <2>2. j = m + Len(line)
    <3>0. i \in Int /\ j \in Int /\ i <= j
      BY <1>6
    <3>1. j + 1 <= m + Len(line) + 1
      BY <1>1, <1>3, <1>6
    <3>8. m \in Int /\ Len(line) \in Int
      BY <1>1, <1>3
    <3>2. SUFFICES ASSUME j < m + Len(line) PROVE FALSE
      BY <3>0, <3>1, <3>8
    <3>3. PICK k \in 1 .. Len(line) : k = j + 1 - m
      BY <1>1, <1>3, <2>1, <3>2, <3>0
    <3>4. PICK l \in 1 .. m + Len(a) : l = j + 1
      BY <1>1, <1>3, <3>2
    <3>5. ~ (l <= m) /\ l - m = k
      BY <1>1, <1>3, <2>1, <1>6, <3>3, <3>4
    <3>6. r[l] = a[k]
      BY <1>3, <3>5
    <3> QED
      BY <1>1, <1>6, <3>3, <3>4, <3>6
  <2>3. SubSeq(r, i, j) = line
    <3> DEFINE u == SubSeq(r, i, j)
    <3>1. \A k \in i .. j : r[k] \in Bytes
      BY <1>3
    <3>2. u \in Seq(Bytes) /\ Len(u) = j - i + 1 /\ \A k \in 1 .. j - i + 1 : u[k] = r[i + k - 1]
      BY <1>6, <3>1, SubSeqProperties
    <3> HIDE DEF u
    <3>3. Len(u) = Len(line)
      BY <1>1, <1>3, <2>1, <2>2, <3>2
    <3>4. ASSUME NEW k \in 1 .. Len(line) PROVE u[k] = line[k]
      <4>1. PICK l \in 1 .. m + Len(a) : l = i + k - 1
        BY <1>1, <1>3, <2>1
      <4>2. ~ (l <= m) /\ l - m = k
        BY <1>3, <2>1, <4>1
      <4>3. k \in 1 .. j - i + 1
        BY <1>1, <1>3, <2>1, <2>2
      <4>4. u[k] = r[l] /\ r[l] = a[k]
        BY <1>3, <3>2, <4>1, <4>2, <4>3
      <4> QED
        BY <1>1, <4>4
    <3>5. u = line
      BY <1>1, <3>2, <3>3, <3>4, SeqEqual
    <3> QED
      BY <3>5 DEF u
  <2>4. LinesIn(Rest(s, m + 1)) = 0
    <3>1. m + 1 \in 1 .. Len(s) + 1
      BY <1>3 DEF m
    <3> DEFINE t == Rest(s, m + 1)
    <3>2. t \in Seq(Bytes) /\ Len(t) = Len(s) - (m + 1) + 1
      BY <3>1, RestOf
    <3> HIDE DEF t
    <3>3. Len(t) = 0
      BY <1>3, <3>2 DEF m
    <3>4. EndsIn(t) = {}
      BY <3>3 DEF EndsIn
    <3>5. LinesIn(t) = 0
      BY <3>4, FS_EmptySet DEF LinesIn, EndsIn
    <3> QED
      BY <3>5 DEF t
  <2>5. m + 1 \in 1 .. m + 1
    BY <1>3
  <2>6. LinesIn(Rest(r, m + 1)) = 1
    BY <1>5, <2>4, <2>5
  <2>7. Len(p) + 1 - LinesIn(Rest(r, i)) = Len(q) + 1
    BY <1>4, <2>1, <2>6
  <2> QED
    BY <1>4, <2>3, <2>7
<1>10. j + 1 \in Int /\ m \in Int
  BY <1>3
<1> QED
  BY <1>8, <1>9

(* The other shapes of the stream.                                         *)
LEMMA ShapeSent ==
  ASSUME NEW s \in Seq(Bytes), Ended(s), NEW c \in Clients, NEW line \in Lines[c]
  PROVE  /\ s \o Append(line, NL) \in Seq(Bytes) /\ Ended(s \o Append(line, NL))
         /\ LinesIn(s \o Append(line, NL)) = LinesIn(s) + 1
         /\ Apart(s) /\ Len(line) = 1 => Apart(s \o Append(line, NL))
         /\ Short(s) /\ Len(line) < BASIC_TCP_BUFFER => Short(s \o Append(line, NL))
<1> DEFINE a == Append(line, NL)
           r == s \o a
           m == Len(s)
           l == Len(line)
           b == BASIC_TCP_BUFFER
<1>1. /\ l \in Nat \ {0} /\ OneLine(a) /\ Len(a) = l + 1
  BY Typed
<1>2. a \in Seq(Bytes) /\ a[l + 1] = NL /\ LinesIn(a) = 1
  BY <1>1, OneEnd DEF OneLine
<1>3. m \in Nat /\ (m # 0 => s[m] = NL) /\ b \in Nat \ {0}
  BY EmptySeq, BasicAssumption DEF Ended
<1> HIDE DEF a, l
<1>4. /\ r \in Seq(Bytes) /\ Len(r) = m + l + 1
      /\ \A k \in 1 .. m + l + 1 : r[k] = IF k <= m THEN s[k] ELSE a[k - m]
  <2>1. /\ r \in Seq(Bytes) /\ Len(r) = m + Len(a)
        /\ \A k \in 1 .. m + Len(a) : r[k] = IF k <= m THEN s[k] ELSE a[k - m]
    BY <1>2, ConcatProperties
  <2>2. m + Len(a) = m + l + 1
    BY <1>1, <1>3
  <2> HIDE DEF r, m
  <2> QED
    BY <2>1, <2>2
<1>5. LinesIn(r) = LinesIn(s) + 1
  BY <1>2, LinesOfBoth
<1> HIDE DEF r, m, b
<1>6. r[m + l + 1] = NL
  <2>1. PICK k \in 1 .. m + l + 1 : k = m + l + 1
    BY <1>1, <1>3
  <2>2. ~ (k <= m) /\ k - m = l + 1
    BY <1>1, <1>3, <2>1
  <2>3. r[k] = a[l + 1]
    BY <1>4, <2>2
  <2> QED
    BY <1>2, <2>1, <2>3
<1>7. m # 0 => r[m] = NL
  BY <1>1, <1>3, <1>4
<1>8. Ended(r)
  BY <1>4, <1>6 DEF Ended
<1>9. ASSUME Apart(s), l = 1 PROVE Apart(r)
  <2> SUFFICES ASSUME NEW i \in 1 .. m + 1 PROVE r[i] = NL \/ r[i + 1] = NL
    BY <1>3, <1>4, <1>9 DEF Apart
  <2>1. CASE i = m + 1
    BY <1>3, <1>6, <1>9, <2>1
  <2>2. CASE i = m
    BY <1>3, <1>7, <2>2
  <2>3. CASE i \in 1 .. m - 1
    <3>1. r[i] = s[i] /\ r[i + 1] = s[i + 1]
      BY <1>1, <1>3, <1>4, <2>3
    <3> QED
      BY <1>9, <2>3, <3>1 DEF Apart, m
  <2> QED
    BY <1>3, <2>1, <2>2, <2>3
<1>10. ASSUME Short(s), l < b PROVE Short(r)
  <2> SUFFICES ASSUME NEW i \in 1 .. m + l + 1, i + b - 1 <= m + l + 1
               PROVE  \E k \in i .. i + b - 1 : r[k] = NL
    BY <1>4 DEF Short, b
  <2>1. CASE i + b - 1 = m + l + 1
    BY <1>1, <1>3, <1>6, <2>1
  <2>2. CASE i + b - 1 < m + l + 1 /\ i + b - 1 > m
    <3>1. m \in i .. i + b - 1 /\ m # 0
      BY <1>1, <1>3, <1>10, <2>2
    <3> QED
      BY <1>7, <3>1
  <2>3. CASE i + b - 1 <= m
    <3>1. i \in 1 .. m
      BY <1>3, <2>3
    <3>2. PICK k \in i .. i + b - 1 : s[k] = NL
      BY <1>10, <2>3, <3>1 DEF Short, m, b
    <3>3. r[k] = s[k]
      BY <1>1, <1>3, <1>4, <2>3, <3>1
    <3> QED
      BY <3>2, <3>3
  <2> QED
    BY <1>1, <1>3, <2>1, <2>2, <2>3
<1> QED
  BY <1>4, <1>5, <1>8, <1>9, <1>10 DEF r, a, l, b

LEMMA ShapeLeft ==
  ASSUME NEW s \in Seq(Bytes), NEW n \in 0 .. Len(s)
  PROVE  /\ Rest(s, n + 1) \in Seq(Bytes) /\ (Ended(s) => Ended(Rest(s, n + 1)))
         /\ Apart(s) => Apart(Rest(s, n + 1))
         /\ Short(s) => Short(Rest(s, n + 1))
<1> DEFINE r == Rest(s, n + 1)
           b == BASIC_TCP_BUFFER
<1>1. Len(s) \in Nat /\ n + 1 \in 1 .. Len(s) + 1 /\ b \in Nat \ {0}
  BY BasicAssumption
<1>2. r \in Seq(Bytes) /\ Len(r) = Len(s) - n /\ \A k \in 1 .. Len(s) - n : r[k] = s[n + k]
  <2>1. /\ r \in Seq(Bytes) /\ Len(r) = Len(s) - (n + 1) + 1
        /\ \A k \in 1 .. Len(s) - (n + 1) + 1 : r[k] = s[(n + 1) + k - 1]
    BY <1>1, RestOf
  <2> HIDE DEF r
  <2> QED
    BY <1>1, <2>1
<1> HIDE DEF r, b
<1>3. ASSUME Ended(s) PROVE Ended(r)
  <2>1. CASE n = Len(s)
    BY <1>1, <1>2, <2>1, EmptySeq DEF Ended
  <2>2. CASE n # Len(s)
    <3>1. PICK k \in 1 .. Len(s) - n : k = Len(s) - n
      BY <1>1, <2>2
    <3>2. n + k = Len(s)
      BY <1>1, <3>1
    <3>3. r[Len(r)] = s[Len(s)] /\ s # << >>
      BY <1>1, <1>2, <3>1, <3>2
    <3> QED
      BY <1>3, <3>3 DEF Ended
  <2> QED
    BY <2>1, <2>2
<1>4. ASSUME Apart(s) PROVE Apart(r)
  <2> SUFFICES ASSUME NEW i \in 1 .. Len(r) - 1 PROVE r[i] = NL \/ r[i + 1] = NL
    BY DEF Apart
  <2>1. PICK k \in 1 .. Len(s) - n : k = i + 1
    BY <1>1, <1>2
  <2>2. PICK j \in 1 .. Len(s) - 1 : j = n + i
    BY <1>1, <1>2
  <2>3. i \in 1 .. Len(s) - n /\ n + k = j + 1
    BY <1>1, <1>2, <2>1, <2>2
  <2>4. r[i] = s[j] /\ r[k] = s[j + 1]
    BY <1>2, <2>1, <2>2, <2>3
  <2> QED
    BY <1>4, <2>1, <2>4 DEF Apart
<1>5. ASSUME Short(s) PROVE Short(r)
  <2> SUFFICES ASSUME NEW i \in 1 .. Len(r), i + b - 1 <= Len(r)
               PROVE  \E k \in i .. i + b - 1 : r[k] = NL
    BY DEF Short, b
  <2>1. PICK j \in 1 .. Len(s) : j = n + i
    BY <1>1, <1>2
  <2>2. j + b - 1 <= Len(s)
    BY <1>1, <1>2, <2>1
  <2>3. PICK k \in j .. j + b - 1 : s[k] = NL
    BY <1>5, <2>2 DEF Short, b
  <2>4. PICK l \in 1 .. Len(s) - n : l = k - n
    BY <1>1, <1>2, <2>1, <2>2, <2>3
  <2>5. l \in i .. i + b - 1 /\ n + l = k
    BY <1>1, <2>1, <2>3, <2>4
  <2> QED
    BY <1>2, <2>3, <2>4, <2>5
<1> QED
  BY <1>2, <1>3, <1>4, <1>5 DEF r

-----------------------------------------------------------------------------
(* What has arrived of a client (r) and what is under way (w): each line   *)
(* sent is handled or one of those that end there.                         *)
Counts(r, w, q, h, max) ==
  /\ r \in Seq(Bytes) /\ w \in Seq(Bytes)
  /\ q \in Seq(Texts) /\ Len(q) <= max /\ h \in Nat
  /\ h + LinesIn(r \o w) = Len(q)

(* And how they lie there: a whole line at a time, or byte and end.        *)
Shaped(r, w, q, c) ==
  /\ Says(r \o w, q) /\ Ended(r \o w)
  /\ c \in Cut => Apart(r \o w)
  /\ c \notin Cut => /\ Short(r \o w)
                     /\ r = << >> \/ (OneLine(r) /\ Len(r) <= BASIC_TCP_BUFFER)

LEMMA TextIs == ASSUME NEW c \in Clients, NEW line \in Lines[c] PROVE Parse(line) \in Texts
  BY DEF Texts

LEMMA Regrouped ==
  ASSUME NEW x \in Seq(Bytes), NEW y \in Seq(Bytes), NEW z \in Seq(Bytes)
  PROVE  (x \o y) \o z = x \o (y \o z)
  BY ConcatAssociative

LEMMA StreamSent ==
  ASSUME NEW r, NEW w, NEW q, NEW h, NEW max, Counts(r, w, q, h, max),
         NEW c \in Clients, NEW line \in Lines[c]
  PROVE  /\ w \o Append(line, NL) \in Seq(Bytes)
         /\ r \o (w \o Append(line, NL)) = (r \o w) \o Append(line, NL)
         /\ Append(line, NL) \in Seq(Bytes) /\ LinesIn(Append(line, NL)) = 1
<1>1. OneLine(Append(line, NL)) /\ Append(line, NL) \in Seq(Bytes)
  BY Typed DEF OneLine
<1>2. r \in Seq(Bytes) /\ w \in Seq(Bytes)
  BY DEF Counts
<1> DEFINE a == Append(line, NL)
<1>3. LinesIn(a) = 1
  BY <1>1, OneEnd
<1>4. a \in Seq(Bytes)
  BY <1>1
<1> HIDE DEF a
<1>5. r \o (w \o a) = (r \o w) \o a
  BY <1>2, <1>4, Regrouped
<1>6. w \o a \in Seq(Bytes)
  BY <1>2, <1>4, ConcatProperties
<1> QED
  BY <1>3, <1>4, <1>5, <1>6 DEF a

LEMMA SentCounts ==
  ASSUME NEW r, NEW w, NEW q, NEW h, NEW max, Counts(r, w, q, h, max), Len(q) < max, max \in Nat,
         NEW c \in Clients, NEW line \in Lines[c]
  PROVE  Counts(r, w \o Append(line, NL), Append(q, Parse(line)), h, max)
<1> DEFINE a == Append(line, NL)
           p == Append(q, Parse(line))
           s == r \o w
<1>1. /\ w \o a \in Seq(Bytes) /\ r \o (w \o a) = s \o a /\ a \in Seq(Bytes) /\ LinesIn(a) = 1
  BY StreamSent
<1>2. r \in Seq(Bytes) /\ q \in Seq(Texts) /\ h \in Nat /\ h + LinesIn(s) = Len(q) /\ s \in Seq(Bytes)
  BY ConcatProperties DEF Counts
<1>3. p \in Seq(Texts) /\ Len(p) = Len(q) + 1
  BY <1>2, TextIs, AppendProperties
<1>4. LinesIn(s \o a) = LinesIn(s) + 1 /\ LinesIn(s) \in Nat
  BY <1>1, <1>2, LinesOfBoth, EndsFinite
<1> HIDE DEF a, p, s
<1>5. h + LinesIn(r \o (w \o a)) = Len(p) /\ Len(p) <= max
  BY <1>1, <1>2, <1>3, <1>4
<1>6. Counts(r, w \o a, p, h, max)
  BY <1>1, <1>2, <1>3, <1>5 DEF Counts
<1> QED
  BY <1>6 DEF a, p

LEMMA SentShaped ==
  ASSUME NEW r, NEW w, NEW q, NEW h, NEW max, Counts(r, w, q, h, max), NEW c \in Clients, Shaped(r, w, q, c),
         NEW line \in Lines[c], Fitting(line, c)
  PROVE  Shaped(r, w \o Append(line, NL), Append(q, Parse(line)), c)
<1> DEFINE a == Append(line, NL)
           s == r \o w
<1>1. r \o (w \o a) = s \o a
  BY StreamSent
<1>2. r \in Seq(Bytes) /\ q \in Seq(Texts) /\ LinesIn(s) <= Len(q) /\ s \in Seq(Bytes)
  <2>1. r \in Seq(Bytes) /\ q \in Seq(Texts) /\ h \in Nat /\ h + LinesIn(s) = Len(q) /\ s \in Seq(Bytes)
    BY ConcatProperties DEF Counts
  <2>2. LinesIn(s) \in Nat
    BY <2>1, EndsFinite
  <2> HIDE DEF s
  <2> QED
    BY <2>1, <2>2
<1>3. Says(s, q) /\ Ended(s) /\ (c \in Cut => Apart(s)) /\ (c \notin Cut => Short(s))
  BY DEF Shaped
<1> HIDE DEF s
<1>4. Says(s \o a, Append(q, Parse(line)))
  BY <1>2, <1>3, TextIs, MoreSaid
<1>5. Ended(s \o a) /\ (c \in Cut => Apart(s \o a)) /\ (c \notin Cut => Short(s \o a))
  BY <1>2, <1>3, ShapeSent DEF Fitting
<1> HIDE DEF a
<1>6. Shaped(r, w \o a, Append(q, Parse(line)), c)
  BY <1>1, <1>4, <1>5 DEF Shaped
<1> QED
  BY <1>6 DEF a

(* A delivery moves bytes of the stream, and no byte of it.                *)
LEMMA StreamDelivered ==
  ASSUME NEW r \in Seq(Bytes), NEW w \in Seq(Bytes), NEW n \in 1 .. Len(w)
  PROVE  /\ SubSeq(w, 1, n) \in Seq(Bytes) /\ SubSeq(w, n + 1, Len(w)) \in Seq(Bytes)
         /\ r \o SubSeq(w, 1, n) \in Seq(Bytes)
         /\ (r \o SubSeq(w, 1, n)) \o SubSeq(w, n + 1, Len(w)) = r \o w
<1> DEFINE a == SubSeq(w, 1, n)
           b == SubSeq(w, n + 1, Len(w))
<1>1. a \in Seq(Bytes) /\ a \o b = w
  BY Cutting DEF Rest
<1>2. b \in Seq(Bytes)
  <2>1. n + 1 \in 1 .. Len(w) + 1
    OBVIOUS
  <2> QED
    BY <2>1, RestOf DEF Rest
<1> HIDE DEF a, b
<1>5. r \in Seq(Bytes) /\ a \in Seq(Bytes) /\ b \in Seq(Bytes)
  BY <1>1, <1>2
<1>3. (r \o a) \o b = r \o (a \o b)
  BY <1>5, Regrouped, Zenon
<1>4. r \o a \in Seq(Bytes)
  BY <1>1, ConcatProperties
<1> QED
  BY <1>1, <1>2, <1>3, <1>4 DEF a, b

LEMMA DeliveredCounts ==
  ASSUME NEW r, NEW w, NEW q, NEW h, NEW max, Counts(r, w, q, h, max), NEW n \in 1 .. Len(w)
  PROVE  Counts(r \o SubSeq(w, 1, n), SubSeq(w, n + 1, Len(w)), q, h, max)
  BY StreamDelivered, Zenon DEF Counts

LEMMA DeliveredShaped ==
  ASSUME NEW r \in Seq(Bytes), NEW w \in Seq(Bytes), NEW q, NEW c, Shaped(r, w, q, c),
         NEW n \in 1 .. Len(w), NEW a, a = SubSeq(w, 1, n),
         c \in Cut \/ (r = << >> /\ Last(a) = NL /\ LinesIn(a) = 1)
  PROVE  Shaped(r \o a, SubSeq(w, n + 1, Len(w)), q, c)
<1> DEFINE b == SubSeq(w, n + 1, Len(w))
           s == r \o w
<1>1. (r \o a) \o b = s
  BY StreamDelivered
<1>2. /\ Says(s, q) /\ Ended(s) /\ (c \in Cut => Apart(s)) /\ (c \notin Cut => Short(s))
  BY DEF Shaped
<1>3. ASSUME c \notin Cut PROVE OneLine(r \o a) /\ Len(r \o a) <= BASIC_TCP_BUFFER
  <2>1. r = << >> /\ a \in Seq(Bytes) /\ Len(a) = n /\ a[Len(a)] = NL /\ LinesIn(a) = 1
    BY <1>3, Cutting DEF Last
  <2>2. r \o a = a /\ s = w
    BY <2>1, ConcatEmptySeq
  <2>3. a # << >>
    BY <2>1
  <2>4. OneLine(a)
    BY <2>1, <2>3, LastOfOne
  <2>5. Len(a) <= BASIC_TCP_BUFFER
    <3>1. BASIC_TCP_BUFFER \in Nat \ {0}
      BY BasicAssumption
    <3> SUFFICES ASSUME BASIC_TCP_BUFFER < n PROVE FALSE
      BY <2>1, <3>1
    <3>5. Short(w)
      BY <1>2, <1>3, <2>2
    <3>6. 1 \in 1 .. Len(w) /\ 1 + BASIC_TCP_BUFFER - 1 = BASIC_TCP_BUFFER /\ BASIC_TCP_BUFFER <= Len(w)
      BY <3>1
    <3>2. PICK k \in 1 .. BASIC_TCP_BUFFER : w[k] = NL
      BY <3>5, <3>6, Zenon DEF Short
    <3>3. k \in 1 .. n /\ k \in 1 .. Len(a) - 1
      BY <2>1, <3>1, <3>2
    <3>4. a[k] = w[k]
      BY <3>3, SubSeqProperties
    <3> QED
      BY <2>4, <3>2, <3>3, <3>4 DEF OneLine
  <2> QED
    BY <2>2, <2>4, <2>5
<1> HIDE DEF s, b
<1>4. Shaped(r \o a, b, q, c)
  BY <1>1, <1>2, <1>3 DEF Shaped
<1> QED
  BY <1>4 DEF b

(* A poll takes the first bytes of the stream.                             *)
Polled(r) == Min({BASIC_TCP_BUFFER, Len(r)})

LEMMA PolledIs ==
  ASSUME NEW r \in Seq(Bytes), r # << >>
  PROVE  /\ Polled(r) \in 1 .. Len(r) /\ (Len(r) <= BASIC_TCP_BUFFER => Polled(r) = Len(r))
<1> DEFINE b == BASIC_TCP_BUFFER
<1>1. b \in Nat \ {0} /\ Len(r) \in Nat \ {0}
  BY BasicAssumption, EmptySeq
<1>2. \E x \in {b, Len(r)} : \A y \in {b, Len(r)} : x =< y
  BY <1>1
<1>3. Polled(r) \in {b, Len(r)} /\ \A y \in {b, Len(r)} : Polled(r) =< y
  BY <1>2, Zenon DEF Polled, Min
<1> QED
  BY <1>1, <1>3

LEMMA StreamRead ==
  ASSUME NEW r \in Seq(Bytes), NEW w \in Seq(Bytes), NEW n \in 1 .. Len(r)
  PROVE  /\ r \o w \in Seq(Bytes) /\ n \in 1 .. Len(r \o w)
         /\ SubSeq(r, n + 1, Len(r)) \in Seq(Bytes)
         /\ SubSeq(r, n + 1, Len(r)) \o w = Rest(r \o w, n + 1)
         /\ SubSeq(r, 1, n) = SubSeq(r \o w, 1, n)
         /\ SubSeq(r, 1, n) \in Seq(Bytes) /\ Len(SubSeq(r, 1, n)) = n
<1> DEFINE s == r \o w
           a == SubSeq(r, 1, n)
           b == Rest(r, n + 1)
<1>1. s \in Seq(Bytes) /\ Len(s) = Len(r) + Len(w) /\ Len(r) \in Nat /\ Len(w) \in Nat
  BY ConcatProperties
<1>2. n + 1 \in 1 .. Len(r) + 1 /\ n \in 0 .. Len(r) /\ 1 \in 1 .. Len(r)
  OBVIOUS
<1>3. b \in Seq(Bytes) /\ Len(b) = Len(r) - n
  BY <1>2, RestOf
<1>4. a \in Seq(Bytes) /\ Len(a) = n /\ a \o b = r
  BY <1>2, Cutting
<1>5. a = SubSeq(s, 1, n)
  BY <1>2, SubSeqOfConcat1
<1>6. n \in 1 .. Len(s) /\ n \in 0 .. Len(s)
  BY <1>1
<1>7. SubSeq(s, 1, n) \o Rest(s, n + 1) = s /\ Rest(s, n + 1) \in Seq(Bytes)
  <2>1. n + 1 \in 1 .. Len(s) + 1
    BY <1>1
  <2> QED
    BY <1>1, <1>6, <2>1, Cutting, RestOf
<1>8. a \o (b \o w) = s
  <2>1. a \in Seq(Bytes) /\ b \in Seq(Bytes) /\ a \o b = r
    BY <1>3, <1>4
  <2>3. a \in Seq(Bytes) /\ b \in Seq(Bytes)
    BY <1>3, <1>4
  <2> HIDE DEF a, b
  <2>2. (a \o b) \o w = a \o (b \o w)
    BY <2>3, Regrouped
  <2> QED
    BY <2>1, <2>2
<1>9. b \o w \in Seq(Bytes)
  BY <1>3, ConcatProperties
<1>10. b \o w = Rest(s, n + 1)
  <2> DEFINE u == b \o w
             v == Rest(s, n + 1)
  <2>1. a \in Seq(Bytes) /\ u \in Seq(Bytes) /\ v \in Seq(Bytes) /\ a \o u = a \o v
    BY <1>4, <1>5, <1>7, <1>8, <1>9
  <2> HIDE DEF u, v, a
  <2>2. u = v
    BY <2>1, ConcatSimplifications
  <2> QED
    BY <2>2 DEF u, v
<1> QED
  BY <1>1, <1>3, <1>4, <1>5, <1>6, <1>10 DEF Rest

LEMMA ReadCounts ==
  ASSUME NEW r, NEW w, NEW q, NEW h, NEW max, Counts(r, w, q, h, max), NEW n \in 1 .. Len(r)
  PROVE  /\ Counts(SubSeq(r, n + 1, Len(r)), w, q, h + LinesIn(SubSeq(r, 1, n)), max)
         /\ h + LinesIn(SubSeq(r, 1, n)) = Len(q) - LinesIn(Rest(r \o w, n + 1))
         /\ LinesIn(Rest(r \o w, n + 1)) \in Nat /\ LinesIn(SubSeq(r, 1, n)) \in Nat
         /\ h + LinesIn(SubSeq(r, 1, n)) <= Len(q)
<1> DEFINE s == r \o w
           a == SubSeq(r, 1, n)
           b == SubSeq(r, n + 1, Len(r))
<1>0. r \in Seq(Bytes) /\ w \in Seq(Bytes) /\ q \in Seq(Texts) /\ Len(q) <= max /\ h \in Nat
      /\ h + LinesIn(s) = Len(q)
  BY DEF Counts
<1>1. /\ s \in Seq(Bytes) /\ n \in 1 .. Len(s) /\ b \in Seq(Bytes) /\ b \o w = Rest(s, n + 1)
      /\ a = SubSeq(s, 1, n) /\ a \in Seq(Bytes)
  BY <1>0, StreamRead
<1>2. n \in 0 .. Len(s)
  BY <1>1
<1>3. LinesIn(s) = LinesIn(SubSeq(s, 1, n)) + LinesIn(Rest(s, n + 1))
  BY <1>1, <1>2, Cutting
<1>4. b \o w \in Seq(Bytes)
  BY <1>0, <1>1, ConcatProperties
<1>5. LinesIn(a) \in Nat /\ LinesIn(b \o w) \in Nat
  BY <1>1, <1>4, EndsFinite
<1> HIDE DEF s, a, b
<1>6. LinesIn(s) = LinesIn(a) + LinesIn(b \o w)
  BY <1>1, <1>3
<1>7. h + LinesIn(a) \in Nat /\ (h + LinesIn(a)) + LinesIn(b \o w) = Len(q) /\ Len(q) \in Nat
  BY <1>0, <1>5, <1>6
<1>8. Counts(b, w, q, h + LinesIn(a), max)
  BY <1>0, <1>1, <1>7 DEF Counts
<1>9. h + LinesIn(a) = Len(q) - LinesIn(b \o w) /\ h + LinesIn(a) <= Len(q)
  BY <1>0, <1>5, <1>7
<1> QED
  BY <1>1, <1>5, <1>8, <1>9 DEF s, a, b

(* What a poll leaves lies as before: it takes a line, or ends before or   *)
(* after the end of one.                                                   *)
LEMMA ReadShaped ==
  ASSUME NEW r \in Seq(Bytes), NEW w \in Seq(Bytes), NEW q, NEW c, Shaped(r, w, q, c),
         r # << >>, NEW n, n = Polled(r)
  PROVE  Shaped(SubSeq(r, n + 1, Len(r)), w, q, c)
<1> DEFINE s == r \o w
           b == SubSeq(r, n + 1, Len(r))
<1>1. n \in 1 .. Len(r) /\ (Len(r) <= BASIC_TCP_BUFFER => n = Len(r))
  BY PolledIs
<1>2. s \in Seq(Bytes) /\ n \in 1 .. Len(s) /\ b \in Seq(Bytes) /\ b \o w = Rest(s, n + 1)
  BY <1>1, StreamRead
<1>3. /\ Says(s, q) /\ Ended(s) /\ (c \in Cut => Apart(s))
      /\ c \notin Cut => Short(s) /\ OneLine(r) /\ Len(r) <= BASIC_TCP_BUFFER
  BY DEF Shaped
<1>4. n \in 0 .. Len(s) /\ Len(s) \in Int
  BY <1>2
<1>5. ASSUME c \notin Cut PROVE s[n] = NL /\ b = << >>
  <2>1. n = Len(r) /\ r[n] = NL
    BY <1>1, <1>3, <1>5 DEF OneLine
  <2>2. s[n] = r[n]
    BY <1>1, ConcatProperties
  <2>3. b = << >>
    <3>1. n + 1 \in 1 .. Len(r) + 1
      BY <1>1
    <3>2. Len(b) = Len(r) - (n + 1) + 1
      BY <3>1, RestOf DEF Rest
    <3>3. Len(b) = 0
      BY <1>1, <2>1, <3>2
    <3> HIDE DEF b
    <3> QED
      BY <1>2, <3>3, EmptySeq
  <2> QED
    BY <2>1, <2>2, <2>3
<1> HIDE DEF s, b
<1>6. n = Len(s) \/ s[n] = NL \/ s[n + 1] = NL
  <2>1. CASE c \in Cut /\ n # Len(s)
    <3>1. n \in 1 .. Len(s) - 1
      BY <1>2, <1>4, <2>1
    <3> QED
      BY <1>3, <2>1, <3>1 DEF Apart
  <2> QED
    BY <1>5, <2>1
<1>7. Says(Rest(s, n + 1), q)
  BY <1>2, <1>3, <1>4, <1>6, LessSaid
<1>8. Ended(Rest(s, n + 1)) /\ (c \in Cut => Apart(Rest(s, n + 1))) /\ (c \notin Cut => Short(Rest(s, n + 1)))
  BY <1>2, <1>3, <1>4, ShapeLeft
<1>9. Shaped(b, w, q, c)
  BY <1>2, <1>5, <1>7, <1>8 DEF Shaped
<1> QED
  BY <1>9 DEF b

(* And when it takes a number, that is what the line it ends says.         *)
LEMMA ReadSays ==
  ASSUME NEW r, NEW w, NEW q, NEW h, NEW max, Counts(r, w, q, h, max), NEW c,
         Shaped(r, w, q, c), r # << >>, NEW n, n = Polled(r),
         NEW d, d = h + LinesIn(SubSeq(r, 1, n)), Parse(Strip(SubSeq(r, 1, n))) # {}
  PROVE  d \in h + 1 .. Len(q) /\ Parse(Strip(SubSeq(r, 1, n))) = q[d]
<1> DEFINE s == r \o w
           a == SubSeq(r, 1, n)
           t == Strip(a)
<1>1. r \in Seq(Bytes) /\ w \in Seq(Bytes) /\ q \in Seq(Texts) /\ h \in Nat
  BY DEF Counts
<1>2. n \in 1 .. Len(r) /\ (Len(r) <= BASIC_TCP_BUFFER => n = Len(r))
  BY <1>1, PolledIs
<1>3. s \in Seq(Bytes) /\ n \in 1 .. Len(s) /\ a = SubSeq(s, 1, n) /\ a \in Seq(Bytes) /\ Len(a) = n
  BY <1>1, <1>2, StreamRead
<1>4. /\ d = Len(q) - LinesIn(Rest(s, n + 1)) /\ d <= Len(q)
      /\ LinesIn(Rest(s, n + 1)) \in Nat /\ LinesIn(a) \in Nat
  BY <1>2, ReadCounts
<1>5. Says(s, q) /\ (c \in Cut => Apart(s)) /\ (c \notin Cut => OneLine(r) /\ Len(r) <= BASIC_TCP_BUFFER)
  BY DEF Shaped
<1>6. n \in 0 .. Len(s) /\ n - 1 \in 0 .. Len(s) /\ Len(s) \in Nat /\ n \in Nat \ {0}
  BY <1>3
<1>7. \A k \in 1 .. n : a[k] = s[k]
  BY <1>3, <1>6, Cutting
<1>8. t = SubSeq(a, 1, n - 1) /\ n - 1 \in 0 .. Len(a)
  BY <1>3 DEF Strip, Front
<1>9. t \in Seq(Bytes) /\ Len(t) = n - 1 /\ \A k \in 1 .. n - 1 : t[k] = a[k]
  <2> DEFINE m == n - 1
  <2>1. a \in Seq(Bytes) /\ m \in 0 .. Len(a) /\ t = SubSeq(a, 1, m)
    BY <1>3, <1>8
  <2> HIDE DEF a, m, t
  <2>2. t \in Seq(Bytes) /\ Len(t) = m /\ \A k \in 1 .. m : t[k] = a[k]
    BY <2>1, Cutting
  <2> QED
    BY <2>2 DEF m
<1>10. c \notin Cut => s[n] = NL
  <2>1. s[n] = r[n]
    BY <1>1, <1>2, ConcatProperties
  <2> QED
    BY <1>2, <1>5, <2>1 DEF OneLine
<1> HIDE DEF s, t
<1>11. PICK f \in 1 .. n - 1 : /\ \A j \in 1 .. f - 1 : t[j] = NL
                               /\ \A k \in f .. n - 1 : t[k] # NL
                               /\ Parse(t) = Parse(SubSeq(t, f, n - 1))
  <2>1. Parse(t) # {}
    BY DEF t
  <2> QED
    BY <1>9, <2>1, ParseBody
<1> HIDE DEF a
<1>12. \A k \in 1 .. n - 1 : t[k] = s[k]
  BY <1>6, <1>7, <1>9
<1>13. s[n] = NL
  <2>1. CASE c \in Cut
    <3>1. PICK k \in 1 .. Len(s) - 1 : k = n - 1
      BY <1>3, <1>11
    <3>2. k + 1 = n /\ k \in f .. n - 1 /\ k \in 1 .. n - 1
      BY <1>3, <1>11, <3>1
    <3>3. s[k] # NL
      BY <1>11, <1>12, <3>2
    <3> QED
      BY <1>5, <2>1, <3>1, <3>2, <3>3 DEF Apart
  <2> QED
    BY <1>10, <2>1
<1>14. PICK e \in 1 .. Len(s) : e = n - 1
  BY <1>3, <1>11
<1>15. f \in 1 .. Len(s) /\ e + 1 = n /\ f <= e
  BY <1>3, <1>6, <1>11, <1>14
<1>16. Run(s, f, e)
  <2>1. f = 1 \/ s[f - 1] = NL
    <3>1. CASE f # 1
      <4>1. f - 1 \in 1 .. f - 1 /\ f - 1 \in 1 .. n - 1
        BY <1>6, <1>11, <3>1
      <4> QED
        BY <1>11, <1>12, <4>1
    <3> QED
      BY <3>1
  <2>2. \A k \in f .. e : s[k] # NL
    <3> SUFFICES ASSUME NEW k \in f .. e PROVE s[k] # NL
      OBVIOUS
    <3>1. k \in f .. n - 1 /\ k \in 1 .. n - 1
      BY <1>6, <1>11, <1>14
    <3> QED
      BY <1>11, <1>12, <3>1
  <2>3. e + 1 <= Len(s)
    BY <1>3, <1>15
  <2> QED
    BY <1>13, <1>15, <2>1, <2>2, <2>3 DEF Run
<1>17. Parse(SubSeq(s, f, e)) = q[Len(q) + 1 - LinesIn(Rest(s, f))]
  BY <1>5, <1>15, <1>16 DEF Says
<1>18. SubSeq(t, f, n - 1) = SubSeq(s, f, e)
  <2> DEFINE z == Rest(s, n)
  <2>1. t = SubSeq(s, 1, n - 1)
    <3>1. SubSeq(s, 1, n - 1) \in Seq(Bytes) /\ Len(SubSeq(s, 1, n - 1)) = n - 1
          /\ \A k \in 1 .. n - 1 : SubSeq(s, 1, n - 1)[k] = s[k]
      BY <1>3, <1>6, Cutting
    <3> HIDE DEF a
    <3> DEFINE v == SubSeq(s, 1, n - 1)
    <3> HIDE DEF v
    <3>2. v \in Seq(Bytes) /\ Len(v) = n - 1 /\ \A k \in 1 .. n - 1 : v[k] = s[k]
      BY <3>1 DEF v
    <3>3. t = v
      BY <1>6, <1>9, <1>12, <3>2, SeqEqual
    <3> QED
      BY <3>3 DEF v
  <2>2. z \in Seq(Bytes)
    <3>1. n \in 1 .. Len(s) + 1
      BY <1>6
    <3> QED
      BY <1>3, <3>1, RestOf
  <2>3. t \o z = s
    <3>1. SubSeq(s, 1, n - 1) \o Rest(s, (n - 1) + 1) = s
      BY <1>3, <1>6, Cutting
    <3>2. (n - 1) + 1 = n
      BY <1>6
    <3> QED
      BY <2>1, <3>1, <3>2
  <2>4. f \in 1 .. Len(t) /\ n - 1 \in 1 .. Len(t)
    BY <1>6, <1>9, <1>11
  <2> HIDE DEF z
  <2>5. SubSeq(t \o z, f, n - 1) = SubSeq(t, f, n - 1)
    BY <1>9, <2>2, <2>4, SubSeqOfConcat1
  <2> QED
    BY <1>14, <2>3, <2>5
<1>19. LinesIn(Rest(s, f)) = 1 + LinesIn(Rest(s, n + 1))
  <2> DEFINE u == Rest(s, f)
             m == n - f + 1
             v == SubSeq(u, 1, m)
  <2>1. f \in 1 .. Len(s) + 1
    BY <1>15
  <2>2. u \in Seq(Bytes) /\ Len(u) = Len(s) - f + 1 /\ \A k \in 1 .. Len(s) - f + 1 : u[k] = s[f + k - 1]
    <3>1. s \in Seq(Bytes)
      BY <1>3
    <3> QED
      BY <2>1, <3>1, RestOf
  <2>3. m \in 0 .. Len(u) /\ m \in Nat \ {0, 1}
    <3>1. Len(u) = Len(s) - f + 1 /\ n \in 1 .. Len(s) /\ Len(s) \in Nat
      BY <1>3, <1>6, <2>2
    <3>2. f \in 1 .. n - 1
      BY <1>11, <1>15, <1>14, <3>1
    <3> HIDE DEF u
    <3> QED
      BY <3>1, <3>2
  <2>4. /\ v \in Seq(Bytes) /\ Len(v) = m /\ \A k \in 1 .. m : v[k] = u[k]
        /\ LinesIn(u) = LinesIn(v) + LinesIn(Rest(u, m + 1))
    BY <2>2, <2>3, Cutting
  <2>5. Rest(u, m + 1) = Rest(s, n + 1)
    <3>1. PICK g \in 0 .. Len(s) : g = f - 1
      BY <1>15
    <3>2. g + 1 = f /\ m + 1 \in 1 .. Len(s) - g + 1 /\ g + (m + 1) = n + 1
      BY <1>3, <1>6, <1>11, <3>1
    <3> HIDE DEF m
    <3>3. Rest(Rest(s, g + 1), m + 1) = Rest(s, g + (m + 1))
      BY <1>3, <3>2, RestOfRest
    <3> QED
      BY <3>2, <3>3
  <2> HIDE DEF u, v
  <2>6. ASSUME NEW k \in 1 .. m PROVE v[k] = s[f + k - 1]
    <3>1. k \in 1 .. Len(s) - f + 1
      BY <2>2, <2>3
    <3> QED
      BY <2>2, <2>4, <3>1
  <2>7. v[m] = NL
    <3>1. m \in 1 .. m /\ f + m - 1 = n
      BY <1>6, <2>3
    <3> HIDE DEF m
    <3> QED
      BY <1>13, <2>6, <3>1
  <2>8. \A k \in 1 .. m - 1 : v[k] # NL
    <3> SUFFICES ASSUME NEW k \in 1 .. m - 1 PROVE v[k] # NL
      OBVIOUS
    <3>1. k \in 1 .. m
      BY <2>3
    <3>2. PICK j \in f .. e : j = f + k - 1
      BY <1>6, <1>14, <2>3
    <3>3. v[k] = s[j]
      BY <2>6, <3>1, <3>2
    <3> QED
      BY <1>16, <3>3 DEF Run
  <2>9. v # << >>
    BY <2>3, <2>4
  <2> HIDE DEF m
  <2>10. OneLine(v)
    BY <2>4, <2>7, <2>8, <2>9 DEF OneLine
  <2>11. LinesIn(v) = 1
    BY <2>10, OneEnd
  <2> QED
    BY <2>4, <2>5, <2>11 DEF u
<1>20. LinesIn(a) # 0
  <2>1. n \in EndsIn(a)
    <3>1. n \in 1 .. n
      BY <1>6
    <3> QED
      BY <1>3, <1>7, <1>13, <3>1 DEF EndsIn
  <2>2. IsFiniteSet(EndsIn(a))
    BY <1>3, EndsFinite
  <2>3. Cardinality(EndsIn(a)) # 0
    BY <2>1, <2>2, FS_EmptySet
  <2> QED
    BY <2>3 DEF LinesIn, EndsIn
<1>21. d \in h + 1 .. Len(q)
  <2>1. d = h + LinesIn(a)
    BY DEF a
  <2> QED
    BY <1>1, <1>4, <1>20, <2>1
<1>22. Len(q) + 1 - LinesIn(Rest(s, f)) = d
  BY <1>1, <1>4, <1>19
<1>23. Parse(t) = q[d]
  BY <1>11, <1>17, <1>18, <1>22
<1> QED
  BY <1>21, <1>23 DEF t, a

-----------------------------------------------------------------------------
(* The inductive invariant: its first two parts hold whatever the clients  *)
(* type, the third when each line fits.                                    *)
TypeInv ==
  /\ state \in [Clients -> {"none", "waiting", "accepted", "closed"}]
  /\ hungUp \in [Clients -> BOOLEAN]
  /\ net \in [Clients -> Seq(Bytes)] /\ rcv \in [Clients -> Seq(Bytes)]
  /\ client_fd \in Clients \cup {NoClient}
  /\ proc \in {"up", "failed"}
  /\ sent \in [Clients -> Seq(Texts)] /\ handled \in [Clients -> Nat]
  /\ stored # << >> => /\ stored[1] \in Clients /\ stored[3] \in Int8
                       /\ stored[2] \in 0 .. MaxLines[stored[1]]

CountInv == \A c \in Clients : Counts(rcv[c], net[c], sent[c], handled[c], MaxLines[c])
ShapeInv == \A c \in Clients : Shaped(rcv[c], net[c], sent[c], c)

LEMMA InitInv == Init => TypeInv /\ CountInv /\ ShapeInv
<1> SUFFICES ASSUME Init PROVE TypeInv /\ CountInv /\ ShapeInv
  OBVIOUS
<1> DEFINE e == << >>
<1>1. /\ e \in Seq(Bytes) /\ e \in Seq(Texts) /\ e \o e = e /\ Len(e) = 0
  BY ConcatEmptySeq, EmptySeq
<1> HIDE DEF e
<1>2. LinesIn(e) = 0
  <2>1. EndsIn(e) = {}
    BY <1>1 DEF EndsIn
  <2> QED
    BY <2>1, FS_EmptySet DEF LinesIn, EndsIn
<1>3. Says(e, e) /\ Apart(e) /\ Short(e)
  BY <1>1 DEF Says, Apart, Short
<1>4. e = << >>
  BY DEF e
<1>5. TypeInv
  BY DEF Init, TypeInv
<1>6. ASSUME NEW c \in Clients
      PROVE  Counts(rcv[c], net[c], sent[c], handled[c], MaxLines[c]) /\ Shaped(rcv[c], net[c], sent[c], c)
  <2>1. rcv[c] = e /\ net[c] = e /\ sent[c] = e /\ handled[c] = 0
    BY <1>4 DEF Init
  <2>2. MaxLines[c] \in Nat
    BY BasicAssumption
  <2>3. Counts(e, e, e, 0, MaxLines[c])
    BY <1>1, <1>2, <2>2 DEF Counts
  <2>4. Shaped(e, e, e, c)
    BY <1>1, <1>3, <1>4 DEF Shaped, Ended
  <2> QED
    BY <2>1, <2>3, <2>4
<1> QED
  BY <1>5, <1>6 DEF CountInv, ShapeInv

LEMMA CastInt8 == ASSUME NEW n \in Int PROVE ToInt8(n) \in Int8
<1>1. (n + 128) % 256 \in 0 .. 255
  BY Z3
<1> DEFINE m == (n + 128) % 256
<1> HIDE DEF m
<1>2. m \in 0 .. 255
  BY <1>1 DEF m
<1>3. m - 128 \in -128 .. 127
  BY <1>2
<1> QED
  BY <1>3 DEF m, ToInt8, Int8

(* What a poll that finds text does, with its operators named.             *)
LEMMA PollIs ==
  ASSUME TypeInv, CountInv, PollText
  PROVE  \E c \in Clients, n \in Nat, d \in Nat :
           /\ c = client_fd /\ rcv[c] # << >> /\ n = Polled(rcv[c]) /\ n \in 1 .. Len(rcv[c])
           /\ d = handled[c] + LinesIn(SubSeq(rcv[c], 1, n))
           /\ rcv' = [rcv EXCEPT ![c] = SubSeq(rcv[c], n + 1, Len(rcv[c]))]
           /\ handled' = [handled EXCEPT ![c] = d]
           /\ IF Parse(Strip(SubSeq(rcv[c], 1, n))) = {}
                THEN UNCHANGED stored
                ELSE \E x \in Parse(Strip(SubSeq(rcv[c], 1, n))) : stored' = << c, d, ToInt8(x) >>
           /\ UNCHANGED << state, hungUp, net, client_fd, proc, sent >>
<1>1. client_fd \in Clients /\ rcv[client_fd] # << >>
  BY DEF PollText, TypeInv
<1> DEFINE c == client_fd
           n == Polled(rcv[c])
           a == SubSeq(rcv[c], 1, n)
           d == handled[c] + LinesIn(a)
<1>2. rcv[c] \in Seq(Bytes) /\ handled[c] \in Nat
  BY <1>1 DEF TypeInv
<1>3. n \in 1 .. Len(rcv[c])
  BY <1>1, <1>2, PolledIs
<1>4. a \in Seq(Bytes) /\ Len(a) = n
  BY <1>2, <1>3, SubSeqProperties
<1>5. LinesIn(a) \in Nat /\ d \in Nat /\ n \in Nat
  <2>1. LinesIn(a) \in Nat
    BY <1>4, EndsFinite
  <2> QED
    BY <1>2, <1>3, <2>1
<1>6. /\ rcv' = [rcv EXCEPT ![c] = SubSeq(@, Len(a) + 1, Len(@))]
      /\ handled' = [handled EXCEPT ![c] = d]
      /\ IF Parse(Strip(a)) = {} THEN UNCHANGED stored
           ELSE \E x \in Parse(Strip(a)) : stored' = << c, d, ToInt8(x) >>
      /\ UNCHANGED << state, hungUp, net, client_fd, proc, sent >>
  BY DEF PollText, Polled
<1>7. rcv' = [rcv EXCEPT ![c] = SubSeq(rcv[c], n + 1, Len(rcv[c]))]
  <2>1. rcv' = [rcv EXCEPT ![c] = SubSeq(@, n + 1, Len(@))]
    BY <1>4, <1>6
  <2> HIDE DEF n
  <2> QED
    BY <2>1
<1> HIDE DEF n, a, d
<1> QED
  BY <1>1, <1>3, <1>5, <1>6, <1>7, Zenon DEF a, n, d

(* A step changes what is counted and how bytes lie for one client.        *)
LEMMA SendStep ==
  ASSUME TypeInv, CountInv, NEW c \in Clients, Send(c)
  PROVE  TypeInv' /\ CountInv' /\ (LinesFit /\ ShapeInv => ShapeInv')
<1>1. PICK line \in Lines[c] :
        /\ Len(sent[c]) < MaxLines[c]
        /\ net' = [net EXCEPT ![c] = net[c] \o Append(line, NL)]
        /\ sent' = [sent EXCEPT ![c] = Append(sent[c], Parse(line))]
        /\ UNCHANGED << state, hungUp, rcv, client_fd, proc, handled, stored >>
  BY DEF Send
<1> DEFINE w == net[c] \o Append(line, NL)
           q == Append(sent[c], Parse(line))
<1>2. Counts(rcv[c], net[c], sent[c], handled[c], MaxLines[c]) /\ MaxLines[c] \in Nat
  BY BasicAssumption DEF CountInv
<1>3. Counts(rcv[c], w, q, handled[c], MaxLines[c])
  BY <1>1, <1>2, SentCounts
<1>4. w \in Seq(Bytes) /\ q \in Seq(Texts)
  BY <1>3 DEF Counts
<1>5. ASSUME LinesFit, ShapeInv PROVE Shaped(rcv[c], w, q, c)
  BY <1>2, <1>5, SentShaped DEF LinesFit, ShapeInv
<1> HIDE DEF w, q
<1>6. net' = [net EXCEPT ![c] = w] /\ sent' = [sent EXCEPT ![c] = q]
  BY <1>1 DEF w, q
<1>7. TypeInv'
  BY <1>1, <1>4, <1>6 DEF TypeInv
<1>8. /\ net'[c] = w /\ sent'[c] = q /\ rcv'[c] = rcv[c] /\ handled'[c] = handled[c]
      /\ \A d \in Clients \ {c} : UNCHANGED << net[d], sent[d], rcv[d], handled[d] >>
  BY <1>1, <1>6 DEF TypeInv
<1>9. CountInv'
  BY <1>3, <1>8 DEF CountInv
<1>10. ASSUME LinesFit, ShapeInv PROVE ShapeInv'
  BY <1>5, <1>8, <1>10 DEF ShapeInv
<1> QED
  BY <1>7, <1>9, <1>10

LEMMA DeliverStep ==
  ASSUME TypeInv, CountInv, NEW c \in Clients, Deliver(c)
  PROVE  TypeInv' /\ CountInv' /\ (ShapeInv => ShapeInv')
<1>1. PICK n \in 1 .. Len(net[c]) :
        /\ c \in Cut \/ (rcv[c] = << >> /\ Last(SubSeq(net[c], 1, n)) = NL /\ LinesIn(SubSeq(net[c], 1, n)) = 1)
        /\ rcv' = [rcv EXCEPT ![c] = rcv[c] \o SubSeq(net[c], 1, n)]
        /\ net' = [net EXCEPT ![c] = SubSeq(net[c], n + 1, Len(net[c]))]
        /\ UNCHANGED << state, hungUp, client_fd, proc, feed >>
  BY DEF Deliver
<1> DEFINE r == rcv[c] \o SubSeq(net[c], 1, n)
           w == SubSeq(net[c], n + 1, Len(net[c]))
<1>2. Counts(rcv[c], net[c], sent[c], handled[c], MaxLines[c])
  BY DEF CountInv
<1>3. Counts(r, w, sent[c], handled[c], MaxLines[c])
  BY <1>2, DeliveredCounts
<1>4. r \in Seq(Bytes) /\ w \in Seq(Bytes)
  BY <1>3 DEF Counts
<1>5. ASSUME ShapeInv PROVE Shaped(r, w, sent[c], c)
  <2>1. rcv[c] \in Seq(Bytes) /\ net[c] \in Seq(Bytes) /\ Shaped(rcv[c], net[c], sent[c], c)
    BY <1>5 DEF TypeInv, ShapeInv
  <2> QED
    BY <1>1, <2>1, DeliveredShaped
<1> HIDE DEF r, w
<1>6. net' = [net EXCEPT ![c] = w] /\ rcv' = [rcv EXCEPT ![c] = r] /\ UNCHANGED << sent, handled, stored >>
  BY <1>1 DEF w, r, feed
<1>7. TypeInv'
  BY <1>1, <1>4, <1>6 DEF TypeInv
<1>8. /\ net'[c] = w /\ sent'[c] = sent[c] /\ rcv'[c] = r /\ handled'[c] = handled[c]
      /\ \A d \in Clients \ {c} : UNCHANGED << net[d], sent[d], rcv[d], handled[d] >>
  BY <1>1, <1>6 DEF TypeInv
<1>9. CountInv'
  BY <1>3, <1>8 DEF CountInv
<1>10. ASSUME ShapeInv PROVE ShapeInv'
  BY <1>5, <1>8, <1>10 DEF ShapeInv
<1> QED
  BY <1>7, <1>9, <1>10

LEMMA PollStep ==
  ASSUME TypeInv, CountInv, PollText
  PROVE  TypeInv' /\ CountInv' /\ (ShapeInv => ShapeInv')
<1>1. PICK c \in Clients, n \in Nat, d \in Nat :
           /\ c = client_fd /\ rcv[c] # << >> /\ n = Polled(rcv[c]) /\ n \in 1 .. Len(rcv[c])
           /\ d = handled[c] + LinesIn(SubSeq(rcv[c], 1, n))
           /\ rcv' = [rcv EXCEPT ![c] = SubSeq(rcv[c], n + 1, Len(rcv[c]))]
           /\ handled' = [handled EXCEPT ![c] = d]
           /\ IF Parse(Strip(SubSeq(rcv[c], 1, n))) = {}
                THEN UNCHANGED stored
                ELSE \E x \in Parse(Strip(SubSeq(rcv[c], 1, n))) : stored' = << c, d, ToInt8(x) >>
           /\ UNCHANGED << state, hungUp, net, client_fd, proc, sent >>
  BY PollIs
<1> DEFINE a == SubSeq(rcv[c], 1, n)
           r == SubSeq(rcv[c], n + 1, Len(rcv[c]))
<1>2. Counts(rcv[c], net[c], sent[c], handled[c], MaxLines[c]) /\ MaxLines[c] \in Nat
  BY BasicAssumption DEF CountInv
<1>3. Counts(r, net[c], sent[c], d, MaxLines[c]) /\ d <= Len(sent[c])
  BY <1>1, <1>2, ReadCounts
<1>4. r \in Seq(Bytes) /\ d \in 0 .. MaxLines[c]
  <2>1. r \in Seq(Bytes) /\ d \in Nat /\ sent[c] \in Seq(Texts) /\ Len(sent[c]) <= MaxLines[c]
    BY <1>3 DEF Counts
  <2>2. Len(sent[c]) \in Nat
    BY <2>1
  <2> QED
    BY <1>2, <1>3, <2>1, <2>2
<1>5. ASSUME ShapeInv PROVE Shaped(r, net[c], sent[c], c)
  <2>1. rcv[c] \in Seq(Bytes) /\ net[c] \in Seq(Bytes) /\ Shaped(rcv[c], net[c], sent[c], c)
    BY <1>5 DEF TypeInv, ShapeInv
  <2> QED
    BY <1>1, <2>1, ReadShaped
<1>6. stored' = stored \/ \E x \in Int : stored' = << c, d, ToInt8(x) >>
  <2>1. SubSeq(rcv[c], 1, n) \in Seq(Bytes)
    BY <1>1, SubSeqProperties DEF TypeInv
  <2>2. CASE Parse(Strip(a)) = {}
    BY <1>1, <2>2
  <2>3. CASE Parse(Strip(a)) # {}
    <3>1. Strip(a) \in Seq(Bytes)
      <4>1. rcv[c] \in Seq(Bytes) /\ Len(a) = n
        BY <1>1, SubSeqProperties DEF TypeInv
      <4>2. Len(a) - 1 \in 0 .. Len(a)
        BY <1>1, <4>1
      <4> HIDE DEF a
      <4>3. a \in Seq(Bytes)
        BY <2>1 DEF a
      <4> QED
        BY <4>2, <4>3, Cutting DEF Strip, Front
    <3>2. Parse(Strip(a)) \subseteq Int
      BY <3>1, ParseInt
    <3> QED
      BY <1>1, <2>3, <3>2
  <2> QED
    BY <2>2, <2>3
<1> HIDE DEF r, a
<1>7. rcv' = [rcv EXCEPT ![c] = r]
  BY <1>1 DEF r
<1>8. stored' # << >> => /\ stored'[1] \in Clients /\ stored'[3] \in Int8
                         /\ stored'[2] \in 0 .. MaxLines[stored'[1]]
  <2>1. CASE stored' = stored
    BY <2>1 DEF TypeInv
  <2>2. ASSUME NEW x \in Int, stored' = << c, d, ToInt8(x) >>
        PROVE  /\ stored'[1] \in Clients /\ stored'[3] \in Int8
               /\ stored'[2] \in 0 .. MaxLines[stored'[1]]
    BY <1>4, <2>2, CastInt8
  <2> QED
    BY <1>6, <2>1, <2>2
<1>9. TypeInv'
  <2>1. UNCHANGED << state, hungUp, net, client_fd, proc, sent >> /\ handled' = [handled EXCEPT ![c] = d]
    BY <1>1
  <2>2. rcv' \in [Clients -> Seq(Bytes)] /\ handled' \in [Clients -> Nat]
    BY <1>4, <1>7, <2>1 DEF TypeInv
  <2> QED
    BY <1>8, <2>1, <2>2 DEF TypeInv
<1>10. /\ net'[c] = net[c] /\ sent'[c] = sent[c] /\ rcv'[c] = r /\ handled'[c] = d
       /\ \A e \in Clients \ {c} : UNCHANGED << net[e], sent[e], rcv[e], handled[e] >>
  BY <1>1, <1>7 DEF TypeInv
<1>11. CountInv'
  BY <1>3, <1>10 DEF CountInv, r
<1>12. ASSUME ShapeInv PROVE ShapeInv'
  BY <1>5, <1>10, <1>12 DEF ShapeInv, r
<1> QED
  BY <1>9, <1>11, <1>12

(* The steps that move no byte.                                            *)
LEMMA OtherStep ==
  ASSUME TypeInv, UNCHANGED << net, rcv, feed >>,
         \/ \E c \in Clients : Connect(c) \/ HangUp(c) \/ AcceptClient(c)
         \/ PollHangUp \/ PollError \/ UNCHANGED vars
  PROVE  TypeInv' /\ (CountInv => CountInv') /\ (ShapeInv => ShapeInv')
<1>1. TypeInv'
  BY DEF TypeInv, Connect, HangUp, AcceptClient, PollHangUp, PollError, feed, conns, vars
<1>2. CountInv => CountInv'
  BY DEF CountInv, feed
<1>3. ShapeInv => ShapeInv'
  BY DEF ShapeInv, feed
<1> QED
  BY <1>1, <1>2, <1>3

LEMMA InvStep ==
  ASSUME TypeInv, CountInv, [Next]_vars
  PROVE  TypeInv' /\ CountInv' /\ (LinesFit /\ ShapeInv => ShapeInv')
<1>1. CASE \E c \in Clients : Send(c)
  BY <1>1, SendStep
<1>2. CASE \E c \in Clients : Deliver(c)
  BY <1>2, DeliverStep
<1>3. CASE PollText
  BY <1>3, PollStep
<1>4. CASE \/ \E c \in Clients : Connect(c) \/ HangUp(c) \/ AcceptClient(c)
           \/ PollHangUp \/ PollError \/ UNCHANGED vars
  <2>1. UNCHANGED << net, rcv, feed >>
    BY <1>4 DEF Connect, HangUp, AcceptClient, PollHangUp, PollError, feed, conns, vars
  <2> QED
    BY <1>4, <2>1, OtherStep
<1>5. PollNothing \/ Quiet => UNCHANGED vars
  BY DEF PollNothing, Quiet
<1> QED
  BY <1>1, <1>2, <1>3, <1>4, <1>5, Zenon DEF Next, ServerStep, ClientStep

-----------------------------------------------------------------------------
(* Values keep their types whatever the clients type and however TCP cuts  *)
(* it: the stored number fits an int8_t, and no more lines are handled     *)
(* than were sent, each end of a line being counted once.                  *)
THEOREM TypeCorrect == Spec => []TypeOK
<1>1. TypeInv /\ CountInv => TypeOK
  <2> SUFFICES ASSUME TypeInv, CountInv PROVE TypeOK
    OBVIOUS
  <2>1. ASSUME NEW c \in Clients PROVE Len(sent[c]) <= MaxLines[c] /\ handled[c] \in 0 .. Len(sent[c])
    <3> DEFINE s == rcv[c] \o net[c]
    <3>1. /\ rcv[c] \in Seq(Bytes) /\ net[c] \in Seq(Bytes) /\ handled[c] \in Nat /\ sent[c] \in Seq(Texts)
          /\ Len(sent[c]) <= MaxLines[c] /\ handled[c] + LinesIn(s) = Len(sent[c])
      BY DEF CountInv, Counts
    <3>2. s \in Seq(Bytes)
      BY <3>1, ConcatProperties
    <3> HIDE DEF s
    <3>3. LinesIn(s) \in Nat
      BY <3>2, EndsFinite
    <3> QED
      BY <3>1, <3>3
  <2> QED
    BY <2>1 DEF TypeInv, TypeOK
<1>2. Init => TypeInv /\ CountInv
  BY InitInv
<1>3. TypeInv /\ CountInv /\ [Next]_vars => (TypeInv /\ CountInv)'
  BY InvStep
<1> QED
  BY <1>1, <1>2, <1>3, PTL DEF Spec

(* A step of the server is one of CommandFeed or leaves the feed alone.    *)
LEMMA FeedSteps ==
  ASSUME TypeInv, CountInv, ShapeInv, [Next]_vars
  PROVE  [Feed!FeedNext]_(Feed!feedVars)
<1>1. UNCHANGED feed => UNCHANGED Feed!feedVars
  BY DEF feed, Feed!feedVars
<1>2. ASSUME NEW c \in Clients, Send(c) PROVE Feed!FeedNext
  <2>1. Feed!Send(c)
    BY <1>2, TextIs DEF Send, Feed!Send
  <2> QED
    BY <2>1 DEF Feed!FeedNext
<1>3. CASE PollText
  <2>1. PICK c \in Clients, n \in Nat, d \in Nat :
           /\ c = client_fd /\ rcv[c] # << >> /\ n = Polled(rcv[c]) /\ n \in 1 .. Len(rcv[c])
           /\ d = handled[c] + LinesIn(SubSeq(rcv[c], 1, n))
           /\ rcv' = [rcv EXCEPT ![c] = SubSeq(rcv[c], n + 1, Len(rcv[c]))]
           /\ handled' = [handled EXCEPT ![c] = d]
           /\ IF Parse(Strip(SubSeq(rcv[c], 1, n))) = {}
                THEN UNCHANGED stored
                ELSE \E x \in Parse(Strip(SubSeq(rcv[c], 1, n))) : stored' = << c, d, ToInt8(x) >>
           /\ UNCHANGED << state, hungUp, net, client_fd, proc, sent >>
    BY <1>3, PollIs
  <2> DEFINE a == SubSeq(rcv[c], 1, n)
  <2>2. /\ Counts(rcv[c], net[c], sent[c], handled[c], MaxLines[c])
        /\ Shaped(rcv[c], net[c], sent[c], c) /\ handled[c] \in Nat /\ sent[c] \in Seq(Texts)
    BY DEF CountInv, ShapeInv, Counts
  <2>3. d <= Len(sent[c]) /\ LinesIn(a) \in Nat
    BY <2>1, <2>2, ReadCounts
  <2>4. CASE Parse(Strip(a)) # {}
    <3>1. d \in handled[c] + 1 .. Len(sent[c]) /\ Parse(Strip(a)) = sent[c][d]
      BY <2>1, <2>2, <2>4, ReadSays
    <3>2. PICK x \in Parse(Strip(a)) : stored' = << c, d, ToInt8(x) >>
      BY <2>1, <2>4
    <3>3. Feed!Advance(c, d)
      BY <2>1, <3>1 DEF Feed!Advance
    <3>4. d \in 1 .. Len(sent[c])
      BY <2>2, <3>1
    <3>5. x \in sent[c][d]
      BY <3>1, <3>2
    <3>6. Feed!Store(c)
      BY <3>2, <3>3, <3>4, <3>5 DEF Feed!Store, Feed!ToInt8, ToInt8
    <3> QED
      BY <3>6 DEF Feed!FeedNext
  <2>5. CASE Parse(Strip(a)) = {} /\ LinesIn(a) = 0
    <3>1. d = handled[c]
      BY <2>1, <2>2, <2>5
    <3>2. UNCHANGED feed
      BY <2>1, <2>5, <3>1 DEF TypeInv, feed
    <3> QED
      BY <1>1, <3>2
  <2>6. CASE Parse(Strip(a)) = {} /\ LinesIn(a) # 0
    <3>1. d \in handled[c] + 1 .. Len(sent[c]) /\ d \in 1 .. Len(sent[c])
      BY <2>1, <2>2, <2>3, <2>6
    <3>2. Feed!Advance(c, d)
      BY <2>1, <3>1 DEF Feed!Advance
    <3>3. Feed!Skip(c)
      BY <2>1, <2>6, <3>1, <3>2 DEF Feed!Skip
    <3> QED
      BY <3>3 DEF Feed!FeedNext
  <2> QED
    BY <2>4, <2>5, <2>6
<1>4. CASE \/ \E c \in Clients : Connect(c) \/ HangUp(c) \/ AcceptClient(c) \/ Deliver(c)
           \/ PollHangUp \/ PollError \/ PollNothing \/ Quiet \/ UNCHANGED vars
  <2>1. UNCHANGED feed
    BY <1>4 DEF Connect, HangUp, AcceptClient, Deliver, PollHangUp, PollError, PollNothing, Quiet, feed, vars
  <2> QED
    BY <1>1, <2>1
<1> QED
  BY <1>2, <1>3, <1>4, Zenon DEF Next, ServerStep, ClientStep

(* When each line fits, the server implements CommandFeed: each number     *)
(* that reaches shared_cmd is what one line of one client says, cast to 8  *)
(* bits; lines are taken in order and none twice.                          *)
THEOREM LinesImplementFeed ==
  ASSUME LinesFit PROVE Spec => ImplementsFeed
<1> DEFINE IInv == TypeInv /\ CountInv /\ ShapeInv
<1>1. Init => Feed!FeedInit
  BY DEF Init, Feed!FeedInit
<1>2. Init => IInv
  BY InitInv
<1>3. IInv /\ [Next]_vars => IInv' /\ [Feed!FeedNext]_(Feed!feedVars)
  BY InvStep, FeedSteps
<1> HIDE DEF IInv
<1> QED
  BY <1>1, <1>2, <1>3, PTL DEF Spec, ImplementsFeed, Feed!FeedSpec

=============================================================================
