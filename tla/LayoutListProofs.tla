-------------------------- MODULE LayoutListProofs --------------------------
(***************************************************************************)
(* The linked list under any calls, for any number of cells and rows: its  *)
(* shape, and that its callers see a sequence.  The invariant gives the    *)
(* elements of the heap as a sequence of cells without repetition; what    *)
(* the model computes by walking along links is shown to be that sequence. *)
(***************************************************************************)
EXTENDS LayoutFileProofs

-----------------------------------------------------------------------------
(* The elements as a sequence of cells, and how the fields of the heap say *)
(* it.                                                                     *)
Distinct(s) == \A i, j \in 1 .. Len(s) : s[i] = s[j] => i = j
Elements(s) == {s[i] : i \in 1 .. Len(s)}
FirstOf(s) == IF s = << >> THEN Null ELSE s[1]
EndOf(s) == IF s = << >> THEN Null ELSE s[Len(s)]
NextLinks(s, nx) == \A i \in 1 .. Len(s) : nx[s[i]] = IF i = Len(s) THEN Null ELSE s[i + 1]
PrevLinks(s, pv) == \A i \in 1 .. Len(s) : pv[s[i]] = IF i = 1 THEN Null ELSE s[i - 1]
Chain(s, used, nx, c) ==
  Distinct(s) /\ Elements(s) = used /\ NextLinks(s, nx) /\ c = FirstOf(s)

(* A walk along the links of a chain meets the cells of the chain: the     *)
(* function of the walk has such a value (existence), and where two        *)
(* functions with its equation first differ, they would have to agree      *)
(* (uniqueness).                                                           *)
LEMMA AlongChain ==
  ASSUME NEW s \in Seq(Cells), NEW nx, NextLinks(s, nx), NEW c, c = FirstOf(s),
         NEW n \in Nat, n <= Len(s)
  PROVE  \A i \in 0 .. n - 1 : Along(nx, c, n)[i] = s[i + 1]
<1> DEFINE Eq(f) == f = [i \in 0 .. n - 1 |-> IF i = 0 THEN c ELSE nx[f[i - 1]]]
           w == [i \in 0 .. n - 1 |-> s[i + 1]]
           f == CHOOSE g : Eq(g)
<1>1. Eq(w)
  <2>1. ASSUME NEW i \in 0 .. n - 1 PROVE w[i] = IF i = 0 THEN c ELSE nx[w[i - 1]]
    <3>1. CASE i = 0
      BY <3>1 DEF FirstOf
    <3>2. CASE i # 0
      <4>1. i \in 1 .. Len(s) /\ i # Len(s) /\ i - 1 \in 0 .. n - 1 /\ i - 1 + 1 = i
        BY <3>2
      <4>2. nx[s[i]] = s[i + 1]
        BY <4>1 DEF NextLinks
      <4> QED
        BY <3>2, <4>1, <4>2
    <3> QED
      BY <3>1, <3>2
  <2> QED
    BY <2>1
<1>2. Eq(f)
  <2> HIDE DEF Eq
  <2> QED
    BY <1>1, Zenon
<1>3. Along(nx, c, n) = f
  BY Zenon DEF Along
<1> HIDE DEF f
<1> DEFINE bad == {i \in 0 .. n - 1 : f[i] # s[i + 1]}
<1>4. bad = {}
  <2> SUFFICES ASSUME bad # {} PROVE FALSE
    OBVIOUS
  <2>1. bad \in SUBSET Nat
    OBVIOUS
  <2>2. PICK m \in bad : \A k \in bad : m <= k
    <3> HIDE DEF bad
    <3> QED
      BY <2>1, SmallestNat
  <2>3. m \in 0 .. n - 1 /\ f[m] # s[m + 1]
    OBVIOUS
  <2>4. f[m] = IF m = 0 THEN c ELSE nx[f[m - 1]]
    BY <1>2, <2>3
  <2>5. w[m] = IF m = 0 THEN c ELSE nx[w[m - 1]]
    BY <1>1, <2>3
  <2>6. m # 0
    BY <2>3, <2>4, <2>5
  <2>7. m - 1 \in 0 .. n - 1 /\ ~ (m <= m - 1)
    BY <2>3, <2>6
  <2>8. m - 1 \notin bad
    <3> HIDE DEF bad
    <3> QED
      BY <2>2, <2>7
  <2>9. f[m - 1] = w[m - 1]
    BY <2>7, <2>8
  <2> QED
    BY <2>3, <2>4, <2>5, <2>6, <2>9
<1> QED
  BY <1>3, <1>4

(* The whole walk is the chain.                                            *)
LEMMA WalkOfChain ==
  ASSUME NEW s \in Seq(Cells), NEW nx, NextLinks(s, nx), NEW c, c = FirstOf(s)
  PROVE  Walk(nx, c, Len(s)) = s
<1>1. \A i \in 0 .. Len(s) - 1 : Along(nx, c, Len(s))[i] = s[i + 1]
  BY AlongChain
<1>2. \A i \in 1 .. Len(s) : Along(nx, c, Len(s))[i - 1] = s[i]
  <2> TAKE i \in 1 .. Len(s)
  <2>1. i - 1 \in 0 .. Len(s) - 1 /\ i - 1 + 1 = i
    OBVIOUS
  <2> QED
    BY <1>1, <2>1
<1>3. Walk(nx, c, Len(s)) = [i \in 1 .. Len(s) |-> s[i]]
  BY <1>2 DEF Walk
<1> QED
  BY <1>3

-----------------------------------------------------------------------------
(* The chain without its element at i.                                     *)
Without(s, i) == [j \in 1 .. Len(s) - 1 |-> IF j < i THEN s[j] ELSE s[j + 1]]
LEMMA WithoutFacts ==
  ASSUME NEW S, NEW s \in Seq(S), NEW i \in 1 .. Len(s)
  PROVE  /\ Without(s, i) \in Seq(S) /\ Len(Without(s, i)) = Len(s) - 1
         /\ \A j \in 1 .. Len(s) - 1 : Without(s, i)[j] = IF j < i THEN s[j] ELSE s[j + 1]
<1> DEFINE n == Len(s) - 1
           t == Without(s, i)
<1>1. n \in Nat
  OBVIOUS
<1>2. t \in [1 .. n -> S]
  BY DEF Without
<1>3. \A j \in 1 .. Len(s) - 1 : t[j] = IF j < i THEN s[j] ELSE s[j + 1]
  BY DEF Without
<1>4. t \in Seq(S) /\ Len(t) = n
  <2> HIDE DEF n, t
  <2> QED
    BY <1>1, <1>2, FunctionIsSeq
<1> QED
  BY <1>3, <1>4

(* A new cell behind the end.                                              *)
Linked(s, nx, pv, h, t) ==
  NextLinks(s, nx) /\ PrevLinks(s, pv) /\ h = FirstOf(s) /\ t = EndOf(s)
Fields == [Cells -> Cells \cup {Null}]
LEMMA AddToChain ==
  ASSUME NEW s \in Seq(Cells), Distinct(s), NEW nx \in Fields, NEW pv \in Fields, NEW h, NEW t,
         Linked(s, nx, pv, h, t), NEW c \in Cells \ Elements(s)
  PROVE  LET new == Append(s, c)
             nx2 == IF s = << >> THEN [nx EXCEPT ![c] = Null]
                    ELSE [nx EXCEPT ![c] = Null, ![t] = c]
             pv2 == [pv EXCEPT ![c] = IF s = << >> THEN Null ELSE t]
         IN  /\ new \in Seq(Cells) /\ Distinct(new) /\ Elements(new) = Elements(s) \cup {c}
             /\ Linked(new, nx2, pv2, IF s = << >> THEN c ELSE h, c)
             /\ nx2 \in Fields /\ pv2 \in Fields
<1> DEFINE n == Len(s)
           new == Append(s, c)
           nx2 == IF s = << >> THEN [nx EXCEPT ![c] = Null]
                  ELSE [nx EXCEPT ![c] = Null, ![t] = c]
           pv2 == [pv EXCEPT ![c] = IF s = << >> THEN Null ELSE t]
<1>1. /\ n \in Nat /\ new \in Seq(Cells) /\ Len(new) = n + 1 /\ new[n + 1] = c
      /\ \A i \in 1 .. n : new[i] = s[i] /\ s[i] \in Cells /\ s[i] # c
  BY DEF Elements
<1>2. s = << >> <=> n = 0
  OBVIOUS
<1>3. n # 0 => t = s[n] /\ t \in Cells /\ t # c
  BY <1>1, <1>2 DEF Linked, EndOf
<1> HIDE DEF new
<1>4. Distinct(new)
  BY <1>1 DEF Distinct
<1>5. Elements(new) = Elements(s) \cup {c}
  BY <1>1 DEF Elements
<1>6. nx2 \in Fields /\ pv2 \in Fields
  BY <1>2, <1>3 DEF Fields
<1>7. nx2[c] = Null /\ pv2[c] = IF n = 0 THEN Null ELSE s[n]
  BY <1>2, <1>3 DEF Fields
<1>8. \A i \in 1 .. n : nx2[s[i]] = (IF i = n THEN c ELSE nx[s[i]]) /\ pv2[s[i]] = pv[s[i]]
  <2> TAKE i \in 1 .. n
  <2>1. n # 0 /\ s[i] \in Cells /\ s[i] # c
    BY <1>1
  <2>2. s[i] = t <=> i = n
    BY <1>1, <1>3, <2>1 DEF Distinct
  <2> QED
    BY <1>2, <1>3, <2>1, <2>2 DEF Fields
<1>9. NextLinks(new, nx2)
  <2> HIDE DEF nx2
  <2> SUFFICES ASSUME NEW i \in 1 .. n + 1
               PROVE  nx2[new[i]] = IF i = n + 1 THEN Null ELSE new[i + 1]
    BY <1>1 DEF NextLinks
  <2>1. CASE i = n + 1
    BY <1>1, <1>7, <2>1
  <2>2. CASE i = n
    BY <1>1, <1>8, <2>2
  <2>3. CASE i \in 1 .. n - 1
    <3>1. i \in 1 .. n /\ i # n /\ i + 1 \in 1 .. n
      BY <1>1, <2>3
    <3> QED
      BY <1>1, <1>8, <3>1 DEF Linked, NextLinks
  <2> QED
    BY <1>1, <2>1, <2>2, <2>3
<1>10. PrevLinks(new, pv2)
  <2> HIDE DEF pv2
  <2> SUFFICES ASSUME NEW i \in 1 .. n + 1
               PROVE  pv2[new[i]] = IF i = 1 THEN Null ELSE new[i - 1]
    BY <1>1 DEF PrevLinks
  <2>1. CASE i = n + 1
    BY <1>1, <1>7, <2>1
  <2>2. CASE i \in 1 .. n
    <3>1. i # 1 => i - 1 \in 1 .. n
      BY <1>1, <2>2
    <3>2. pv[s[i]] = IF i = 1 THEN Null ELSE s[i - 1]
      BY <2>2 DEF Linked, PrevLinks
    <3>3. pv2[s[i]] = pv[s[i]]
      BY <1>8, <2>2
    <3>4. new[i] = s[i] /\ (i # 1 => new[i - 1] = s[i - 1])
      BY <1>1, <2>2, <3>1
    <3> QED
      BY <3>2, <3>3, <3>4
  <2> QED
    BY <1>1, <2>1, <2>2
<1>11. EndOf(new) = c /\ FirstOf(new) = IF s = << >> THEN c ELSE h
  BY <1>1, <1>2 DEF EndOf, FirstOf, Linked
<1> QED
  <2> HIDE DEF nx2, pv2
  <2>1. Linked(new, nx2, pv2, IF s = << >> THEN c ELSE h, c)
    BY <1>9, <1>10, <1>11 DEF Linked
  <2> QED
    BY <1>1, <1>4, <1>5, <1>6, <2>1 DEF new, nx2, pv2

(* An element taken out: its neighbours are linked to each other, or to    *)
(* head and tail.                                                          *)
LEMMA RemoveFromChain ==
  ASSUME NEW s \in Seq(Cells), Distinct(s), NEW nx \in Fields, NEW pv \in Fields, NEW h, NEW t,
         Linked(s, nx, pv, h, t), NEW i \in 1 .. Len(s)
  PROVE  LET new == Without(s, i)
             e == s[i]
             nx2 == IF pv[e] = Null THEN nx ELSE [nx EXCEPT ![pv[e]] = nx[e]]
             pv2 == IF nx[e] = Null THEN pv ELSE [pv EXCEPT ![nx[e]] = pv[e]]
         IN  /\ Distinct(new) /\ Elements(new) = Elements(s) \ {e}
             /\ Linked(new, nx2, pv2, IF pv[e] = Null THEN nx[e] ELSE h,
                       IF nx[e] = Null THEN pv[e] ELSE t)
             /\ nx2 \in Fields /\ pv2 \in Fields
<1> DEFINE n == Len(s)
           new == Without(s, i)
           e == s[i]
           nx2 == IF pv[e] = Null THEN nx ELSE [nx EXCEPT ![pv[e]] = nx[e]]
           pv2 == IF nx[e] = Null THEN pv ELSE [pv EXCEPT ![nx[e]] = pv[e]]
<1>1. /\ new \in Seq(Cells) /\ Len(new) = n - 1
      /\ \A j \in 1 .. n - 1 : new[j] = IF j < i THEN s[j] ELSE s[j + 1]
  BY WithoutFacts
<1>2. n \in Nat /\ i \in 1 .. n /\ \A j \in 1 .. n : s[j] \in Cells /\ s[j] # Null
  BY ListAssumption
<1>3. /\ nx[e] = IF i = n THEN Null ELSE s[i + 1]
      /\ pv[e] = IF i = 1 THEN Null ELSE s[i - 1]
  BY DEF Linked, NextLinks, PrevLinks
<1>4. (pv[e] = Null <=> i = 1) /\ (nx[e] = Null <=> i = n)
  <2>1. i # 1 => i - 1 \in 1 .. n
    BY <1>2
  <2>2. i # n => i + 1 \in 1 .. n
    BY <1>2
  <2> QED
    BY <1>2, <1>3, <2>1, <2>2
<1> HIDE DEF new
<1>5. Distinct(new)
  <2> SUFFICES ASSUME NEW j \in 1 .. n - 1, NEW k \in 1 .. n - 1, new[j] = new[k] PROVE j = k
    BY <1>1 DEF Distinct
  <2> DEFINE up(j_) == IF j_ < i THEN j_ ELSE j_ + 1
  <2>1. up(j) \in 1 .. n /\ up(k) \in 1 .. n
    BY <1>2
  <2>2. s[up(j)] = s[up(k)]
    BY <1>1
  <2>3. up(j) = up(k)
    <3> HIDE DEF up
    <3> QED
      BY <2>1, <2>2 DEF Distinct
  <2> QED
    BY <1>2, <2>3
<1>6. Elements(new) = Elements(s) \ {e}
  <2>1. ASSUME NEW x \in Elements(new) PROVE x \in Elements(s) \ {e}
    <3>1. PICK j \in 1 .. n - 1 : x = new[j]
      BY <1>1, <2>1 DEF Elements
    <3> DEFINE k == IF j < i THEN j ELSE j + 1
    <3>2. k \in 1 .. n /\ k # i
      BY <1>2
    <3>3. x = s[k]
      BY <1>1, <3>1
    <3> HIDE DEF k
    <3> QED
      BY <1>2, <3>2, <3>3 DEF Elements, Distinct
  <2>2. ASSUME NEW x \in Elements(s) \ {e} PROVE x \in Elements(new)
    <3>1. PICK j \in 1 .. n : x = s[j]
      BY <2>2 DEF Elements
    <3>2. j # i
      BY <2>2, <3>1
    <3> DEFINE k == IF j < i THEN j ELSE j - 1
    <3>3. k \in 1 .. n - 1 /\ (IF k < i THEN k ELSE k + 1) = j
      BY <1>2, <3>2
    <3>4. new[k] = IF k < i THEN s[k] ELSE s[k + 1]
      <4> HIDE DEF k
      <4> QED
        BY <1>1, <3>3
    <3>5. new[k] = s[j]
      <4> HIDE DEF k
      <4> QED
        BY <3>3, <3>4
    <3> HIDE DEF k
    <3> QED
      BY <1>1, <3>1, <3>3, <3>5 DEF Elements
  <2> QED
    BY <2>1, <2>2
<1>7. nx2 \in Fields /\ pv2 \in Fields
  BY <1>2 DEF Fields
<1>8. \A j \in 1 .. n : /\ nx2[s[j]] = IF j + 1 = i THEN nx[e] ELSE nx[s[j]]
                        /\ pv2[s[j]] = IF j = i + 1 THEN pv[e] ELSE pv[s[j]]
  <2> TAKE j \in 1 .. n
  <2>1. i # 1 => (s[j] = s[i - 1] <=> j + 1 = i)
    BY <1>2 DEF Distinct
  <2>2. i # n => (s[j] = s[i + 1] <=> j = i + 1)
    BY <1>2 DEF Distinct
  <2>3. nx2[s[j]] = IF j + 1 = i THEN nx[e] ELSE nx[s[j]]
    <3>1. CASE i = 1
      BY <1>2, <1>4, <3>1
    <3>2. CASE i # 1
      BY <1>2, <1>3, <1>4, <2>1, <3>2 DEF Fields
    <3> QED
      BY <3>1, <3>2
  <2>4. pv2[s[j]] = IF j = i + 1 THEN pv[e] ELSE pv[s[j]]
    <3>1. CASE i = n
      BY <1>2, <1>4, <3>1
    <3>2. CASE i # n
      BY <1>2, <1>3, <1>4, <2>2, <3>2 DEF Fields
    <3> QED
      BY <3>1, <3>2
  <2> QED
    BY <2>3, <2>4
<1>9. NextLinks(new, nx2)
  <2> SUFFICES ASSUME NEW j \in 1 .. n - 1
               PROVE  nx2[new[j]] = IF j = n - 1 THEN Null ELSE new[j + 1]
    BY <1>1 DEF NextLinks
  <2> DEFINE k == IF j < i THEN j ELSE j + 1
             k2 == IF j + 1 < i THEN j + 1 ELSE j + 2
  <2>1. k \in 1 .. n /\ new[j] = s[k]
    BY <1>1, <1>2
  <2>2. j # n - 1 => k2 \in 1 .. n /\ new[j + 1] = s[k2]
    <3> SUFFICES ASSUME j # n - 1 PROVE k2 \in 1 .. n /\ new[j + 1] = s[k2]
      OBVIOUS
    <3>1. j + 1 \in 1 .. n - 1 /\ j + 1 + 1 = j + 2
      BY <1>2
    <3> QED
      BY <1>1, <1>2, <3>1
  <2>3. nx[s[k]] = IF k = n THEN Null ELSE s[k + 1]
    <3> HIDE DEF k
    <3> QED
      BY <2>1 DEF Linked, NextLinks
  <2>4. nx2[s[k]] = IF k + 1 = i THEN nx[e] ELSE nx[s[k]]
    <3> HIDE DEF k, nx2
    <3> QED
      BY <1>8, <2>1
  <2> HIDE DEF nx2, e
  <2>5. CASE j < i - 1
    <3>1. k = j /\ k2 = j + 1 /\ j # n - 1 /\ k + 1 # i /\ k # n
      BY <1>2, <2>5
    <3> QED
      BY <2>1, <2>2, <2>3, <2>4, <3>1
  <2>6. CASE j = i - 1
    <3>1. k = j /\ k2 = i + 1 /\ k + 1 = i /\ (j = n - 1 <=> i = n)
      BY <1>2, <2>6
    <3> QED
      BY <1>3, <2>1, <2>2, <2>4, <3>1
  <2>7. CASE j >= i
    <3>1. k = j + 1 /\ k2 = k + 1 /\ k + 1 # i /\ (j = n - 1 <=> k = n)
      BY <1>2, <2>7
    <3> QED
      BY <2>1, <2>2, <2>3, <2>4, <3>1
  <2> QED
    BY <1>2, <2>5, <2>6, <2>7
<1>10. PrevLinks(new, pv2)
  <2> SUFFICES ASSUME NEW j \in 1 .. n - 1
               PROVE  pv2[new[j]] = IF j = 1 THEN Null ELSE new[j - 1]
    BY <1>1 DEF PrevLinks
  <2> DEFINE k == IF j < i THEN j ELSE j + 1
             k0 == IF j - 1 < i THEN j - 1 ELSE j
  <2>1. k \in 1 .. n /\ new[j] = s[k]
    BY <1>1, <1>2
  <2>2. j # 1 => k0 \in 1 .. n /\ new[j - 1] = s[k0]
    <3> SUFFICES ASSUME j # 1 PROVE k0 \in 1 .. n /\ new[j - 1] = s[k0]
      OBVIOUS
    <3>1. j - 1 \in 1 .. n - 1 /\ j - 1 + 1 = j
      BY <1>2
    <3> QED
      BY <1>1, <1>2, <3>1
  <2>3. pv[s[k]] = IF k = 1 THEN Null ELSE s[k - 1]
    <3> HIDE DEF k
    <3> QED
      BY <2>1 DEF Linked, PrevLinks
  <2>4. pv2[s[k]] = IF k = i + 1 THEN pv[e] ELSE pv[s[k]]
    <3> HIDE DEF k, pv2
    <3> QED
      BY <1>8, <2>1
  <2> HIDE DEF pv2, e
  <2>5. CASE j < i
    <3>1. k = j /\ k0 = j - 1 /\ k # i + 1
      BY <1>2, <2>5
    <3> QED
      BY <2>1, <2>2, <2>3, <2>4, <3>1
  <2>6. CASE j = i
    <3>1. k = i + 1 /\ k0 = i - 1 /\ (j = 1 <=> i = 1)
      BY <1>2, <2>6
    <3> QED
      BY <1>3, <2>1, <2>2, <2>4, <3>1
  <2>7. CASE j > i
    <3>1. k = j + 1 /\ k0 = k - 1 /\ k # i + 1 /\ k # 1 /\ j # 1
      BY <1>2, <2>7
    <3> QED
      BY <2>1, <2>2, <2>3, <2>4, <3>1
  <2> QED
    BY <1>2, <2>5, <2>6, <2>7
<1>11. FirstOf(new) = IF pv[e] = Null THEN nx[e] ELSE h
  <2>1. new = << >> <=> n = 1
    BY <1>1, <1>2
  <2>2. h = s[1]
    BY <1>2 DEF Linked, FirstOf
  <2>3. n # 1 => new[1] = IF i = 1 THEN s[2] ELSE s[1]
    BY <1>1, <1>2
  <2>4. FirstOf(new) = IF n = 1 THEN Null ELSE new[1]
    BY <2>1 DEF FirstOf
  <2> HIDE DEF e
  <2>5. CASE i = 1
    BY <1>3, <1>4, <2>3, <2>4, <2>5
  <2>6. CASE i # 1
    <3>1. n # 1
      BY <1>2, <2>6
    <3> QED
      BY <1>4, <2>2, <2>3, <2>4, <2>6, <3>1
  <2> QED
    BY <2>5, <2>6
<1>12. EndOf(new) = IF nx[e] = Null THEN pv[e] ELSE t
  <2>1. new = << >> <=> n = 1
    BY <1>1, <1>2
  <2>2. t = s[n]
    BY <1>2 DEF Linked, EndOf
  <2>3. n # 1 => new[n - 1] = IF i = n THEN s[n - 1] ELSE s[n]
    BY <1>1, <1>2
  <2> QED
    BY <1>1, <1>2, <1>3, <1>4, <2>1, <2>2, <2>3 DEF EndOf
<1> QED
  <2> HIDE DEF nx2, pv2
  <2>1. Linked(new, nx2, pv2, IF pv[e] = Null THEN nx[e] ELSE h, IF nx[e] = Null THEN pv[e] ELSE t)
    BY <1>9, <1>10, <1>11, <1>12 DEF Linked
  <2> QED
    BY <1>5, <1>6, <1>7, <2>1 DEF new, nx2, pv2

(* list_delete moves on to the next element.                               *)
LEMMA RestOfChain ==
  ASSUME NEW s \in Seq(Cells), Distinct(s), NEW nx, NextLinks(s, nx), s # << >>
  PROVE  /\ Tail(s) \in Seq(Cells) /\ Len(Tail(s)) = Len(s) - 1 /\ Distinct(Tail(s))
         /\ Elements(Tail(s)) = Elements(s) \ {s[1]}
         /\ NextLinks(Tail(s), nx) /\ nx[s[1]] = FirstOf(Tail(s))
<1> DEFINE n == Len(s)
           t == Tail(s)
<1>1. n \in Nat \ {0} /\ t \in Seq(Cells) /\ Len(t) = n - 1 /\ \A i \in 1 .. n - 1 : t[i] = s[i + 1]
  OBVIOUS
<1> HIDE DEF t
<1>2. Distinct(t)
  <2> SUFFICES ASSUME NEW i \in 1 .. n - 1, NEW j \in 1 .. n - 1, t[i] = t[j] PROVE i = j
    BY <1>1 DEF Distinct
  <2>1. i + 1 \in 1 .. n /\ j + 1 \in 1 .. n /\ s[i + 1] = s[j + 1]
    BY <1>1
  <2>2. i + 1 = j + 1
    BY <2>1 DEF Distinct
  <2> QED
    BY <2>2
<1>3. Elements(t) = Elements(s) \ {s[1]}
  <2>1. ASSUME NEW x \in Elements(t) PROVE x \in Elements(s) \ {s[1]}
    <3>1. PICK i \in 1 .. n - 1 : x = s[i + 1]
      BY <1>1, <2>1 DEF Elements
    <3>2. i + 1 \in 1 .. n /\ 1 \in 1 .. n /\ i + 1 # 1
      BY <1>1
    <3> QED
      BY <3>1, <3>2 DEF Elements, Distinct
  <2>2. ASSUME NEW x \in Elements(s) \ {s[1]} PROVE x \in Elements(t)
    <3>1. PICK i \in 1 .. n : x = s[i]
      BY <2>2 DEF Elements
    <3>2. i - 1 \in 1 .. n - 1 /\ i - 1 + 1 = i
      BY <2>2, <3>1
    <3> QED
      BY <1>1, <3>1, <3>2 DEF Elements
  <2> QED
    BY <2>1, <2>2
<1>4. NextLinks(t, nx)
  <2> SUFFICES ASSUME NEW i \in 1 .. n - 1
               PROVE  nx[t[i]] = IF i = n - 1 THEN Null ELSE t[i + 1]
    BY <1>1 DEF NextLinks
  <2>1. i + 1 \in 1 .. n /\ (i + 1 = n <=> i = n - 1)
    BY <1>1
  <2>2. nx[s[i + 1]] = IF i + 1 = n THEN Null ELSE s[i + 1 + 1]
    BY <2>1 DEF NextLinks
  <2>3. i # n - 1 => i + 1 \in 1 .. n - 1
    BY <1>1
  <2> QED
    BY <1>1, <2>1, <2>2, <2>3
<1>5. nx[s[1]] = FirstOf(t)
  <2>1. t = << >> <=> n = 1
    BY <1>1
  <2>2. nx[s[1]] = IF 1 = n THEN Null ELSE s[1 + 1]
    BY <1>1 DEF NextLinks
  <2>3. n # 1 => t[1] = s[2]
    BY <1>1
  <2> QED
    BY <2>1, <2>2, <2>3 DEF FirstOf
<1> QED
  BY <1>1, <1>2, <1>3, <1>4, <1>5 DEF t

-----------------------------------------------------------------------------
(* Elements of a chain are as many as it is long.                          *)
LEMMA ElementsCount ==
  ASSUME NEW s \in Seq(Cells), Distinct(s)
  PROVE  /\ Cardinality(Elements(s)) = Len(s)
         /\ Elements(s) \subseteq Cells /\ Len(s) <= Cardinality(Cells)
<1>1. s \in Bijection(1 .. Len(s), Elements(s))
  BY DEF Bijection, Injection, Surjection, IsInjective, Distinct, Elements
<1>2. Len(s) \in Nat /\ ExistsBijection(1 .. Len(s), Elements(s))
  BY <1>1 DEF ExistsBijection
<1>3. Cardinality(Elements(s)) = Len(s)
  BY <1>2, FS_CountingElements
<1>4. Elements(s) \in SUBSET Cells
  BY DEF Elements
<1> QED
  BY <1>3, <1>4, FS_Subset, ListAssumption

(* The values of a chain of cells, and what a call does to them.           *)
Held(s, val) == [i \in 1 .. Len(s) |-> val[s[i]]]
Holders == [Cells -> Values \cup {Null}]
LEMMA HeldType ==
  ASSUME NEW s \in Seq(Cells), NEW val \in Holders
  PROVE  Held(s, val) \in Seq(Values \cup {Null}) /\ Len(Held(s, val)) = Len(s)
<1>1. Held(s, val) \in [1 .. Len(s) -> Values \cup {Null}]
  BY DEF Held, Holders
<1> DEFINE h == Held(s, val)
           n == Len(s)
<1>2. n \in Nat
  OBVIOUS
<1> HIDE DEF h, n
<1> QED
  BY <1>1, <1>2, FunctionIsSeq DEF h, n

LEMMA HeldAppend ==
  ASSUME NEW s \in Seq(Cells), NEW val \in Holders, NEW v \in Values,
         NEW c \in Cells \ Elements(s)
  PROVE  Held(Append(s, c), [val EXCEPT ![c] = v]) = Append(Held(s, val), v)
<1> DEFINE n == Len(s)
           a == Held(Append(s, c), [val EXCEPT ![c] = v])
           h == Held(s, val)
           b == Append(h, v)
           val2 == [val EXCEPT ![c] = v]
<1>1. h \in Seq(Values \cup {Null}) /\ Len(h) = n /\ n \in Nat
  BY HeldType
<1>2. Len(Append(s, c)) = n + 1 /\ Append(s, c)[n + 1] = c
      /\ \A i \in 1 .. n : Append(s, c)[i] = s[i] /\ s[i] # c /\ s[i] \in Cells
  BY DEF Elements
<1>3. /\ b \in Seq(Values \cup {Null}) /\ Len(b) = n + 1
      /\ \A i \in 1 .. n + 1 : b[i] = IF i = n + 1 THEN v ELSE h[i]
  <2> HIDE DEF h, n
  <2>1. v \in Values \cup {Null}
    OBVIOUS
  <2>2. /\ b \in Seq(Values \cup {Null}) /\ Len(b) = n + 1
        /\ \A i \in 1 .. n : b[i] = h[i]
        /\ b[n + 1] = v
    BY <1>1, <2>1, AppendProperties
  <2> HIDE DEF b
  <2> QED
    BY <1>1, <2>2
<1>4. val2[c] = v /\ \A i \in 1 .. n : val2[s[i]] = val[s[i]]
  BY <1>2 DEF Holders
<1>5. \A i \in 1 .. n + 1 : val2[Append(s, c)[i]] = IF i = n + 1 THEN v ELSE val[s[i]]
  <2> HIDE DEF val2
  <2> TAKE i \in 1 .. n + 1
  <2>1. CASE i = n + 1
    BY <1>2, <1>4, <2>1
  <2>2. CASE i \in 1 .. n
    BY <1>1, <1>2, <1>4, <2>2
  <2> QED
    BY <1>1, <2>1, <2>2
<1>6. \A i \in 1 .. n + 1 : i # n + 1 => h[i] = val[s[i]]
  <2> TAKE i \in 1 .. n + 1
  <2>1. i # n + 1 => i \in 1 .. n
    BY <1>1
  <2> QED
    BY <2>1 DEF Held
<1>7. a \in Seq(Values \cup {Null}) /\ Len(a) = n + 1
      /\ \A i \in 1 .. n + 1 : a[i] = val2[Append(s, c)[i]]
  <2>1. Append(s, c) \in Seq(Cells) /\ val2 \in Holders
    BY DEF Holders
  <2>2. a \in Seq(Values \cup {Null}) /\ Len(a) = Len(Append(s, c))
    BY <2>1, HeldType
  <2>3. \A i \in 1 .. Len(Append(s, c)) : a[i] = val2[Append(s, c)[i]]
    BY DEF Held
  <2> QED
    BY <1>2, <2>2, <2>3
<1> QED
  <2> HIDE DEF a, b, val2, h, n
  <2>1. \A i \in 1 .. n + 1 : a[i] = b[i]
    BY <1>3, <1>5, <1>6, <1>7
  <2>2. a = b
    BY <1>3, <1>7, <2>1, SeqEqual
  <2> QED
    BY <2>2 DEF a, b, h, val2

LEMMA HeldWithout ==
  ASSUME NEW s \in Seq(Cells), NEW val \in Holders, NEW k \in 1 .. Len(s)
  PROVE  Held(Without(s, k), val) = Pointers!RemoveAt(Held(s, val), k)
<1> DEFINE n == Len(s)
           h == Held(s, val)
           t == Without(s, k)
           l == SubSeq(h, 1, k - 1)
           r == SubSeq(h, k + 1, n)
<1>1. h \in Seq(Values \cup {Null}) /\ Len(h) = n /\ n \in Nat /\ k \in 1 .. n
  BY HeldType
<1>2. Len(t) = n - 1 /\ \A j \in 1 .. n - 1 : t[j] = IF j < k THEN s[j] ELSE s[j + 1]
  BY WithoutFacts
<1>3. \A j \in 1 .. n : h[j] = val[s[j]]
  BY DEF Held
<1>4. Pointers!RemoveAt(h, k) = l \o r
  BY <1>1 DEF Pointers!RemoveAt
<1> HIDE DEF h, n, t
<1>5. /\ Len(l) = k - 1 /\ \A j \in 1 .. k - 1 : l[j] = h[j]
      /\ Len(r) = n - k /\ \A j \in 1 .. n - k : r[j] = h[k + j]
      /\ l \in Seq(Values \cup {Null}) /\ r \in Seq(Values \cup {Null})
  BY <1>1
<1> HIDE DEF l, r
<1>6. /\ l \o r \in Seq(Values \cup {Null}) /\ Len(l \o r) = n - 1
      /\ \A j \in 1 .. n - 1 : (l \o r)[j] = IF j < k THEN h[j] ELSE h[j + 1]
  <2>1. /\ Len(l \o r) = Len(l) + Len(r) /\ l \o r \in Seq(Values \cup {Null})
        /\ \A j \in 1 .. Len(l) + Len(r) : (l \o r)[j] = IF j <= Len(l) THEN l[j] ELSE r[j - Len(l)]
    BY <1>5, ConcatProperties
  <2>2. Len(l) + Len(r) = n - 1
    BY <1>1, <1>5
  <2>3. \A j \in 1 .. n - 1 : (IF j <= Len(l) THEN l[j] ELSE r[j - Len(l)])
                              = IF j < k THEN h[j] ELSE h[j + 1]
    <3> TAKE j \in 1 .. n - 1
    <3>1. CASE j < k
      <4>1. j \in 1 .. k - 1 /\ j <= k - 1
        BY <1>1, <3>1
      <4> QED
        BY <1>5, <3>1, <4>1
    <3>2. CASE ~ (j < k)
      <4>1. j - (k - 1) \in 1 .. n - k /\ k + (j - (k - 1)) = j + 1 /\ ~ (j <= k - 1)
        BY <1>1, <3>2
      <4> QED
        BY <1>5, <3>2, <4>1
    <3> QED
      BY <3>1, <3>2
  <2> QED
    BY <2>1, <2>2, <2>3
<1>7. /\ Held(t, val) \in Seq(Values \cup {Null}) /\ Len(Held(t, val)) = n - 1
      /\ \A j \in 1 .. n - 1 : Held(t, val)[j] = val[t[j]]
  <2>1. t \in Seq(Cells)
    BY WithoutFacts DEF t
  <2>2. Held(t, val) \in Seq(Values \cup {Null}) /\ Len(Held(t, val)) = Len(t)
    BY <2>1, HeldType
  <2>3. \A j \in 1 .. Len(t) : Held(t, val)[j] = val[t[j]]
    BY DEF Held
  <2> QED
    BY <1>2, <2>2, <2>3
<1>8. \A j \in 1 .. n - 1 : val[t[j]] = IF j < k THEN h[j] ELSE h[j + 1]
  <2> TAKE j \in 1 .. n - 1
  <2>1. j \in 1 .. n /\ j + 1 \in 1 .. n
    BY <1>1
  <2> QED
    BY <1>2, <1>3, <2>1
<1> QED
  <2> DEFINE a == Held(t, val)
             b == l \o r
  <2> HIDE DEF a, b
  <2>1. /\ a \in Seq(Values \cup {Null}) /\ b \in Seq(Values \cup {Null})
        /\ Len(a) = Len(b) /\ Len(a) = n - 1
    BY <1>6, <1>7 DEF a, b
  <2>2. \A j \in 1 .. n - 1 : a[j] = b[j]
    BY <1>6, <1>7, <1>8 DEF a, b
  <2>3. a = b
    BY <2>1, <2>2, SeqEqual
  <2> QED
    BY <1>4, <2>3 DEF a, b, h, t

LEMMA HeldTail ==
  ASSUME NEW s \in Seq(Cells), NEW val \in Holders, s # << >>
  PROVE  /\ Held(s, val) # << >> /\ Head(Held(s, val)) = val[s[1]]
         /\ Held(Tail(s), val) = Tail(Held(s, val))
<1> DEFINE n == Len(s)
           h == Held(s, val)
           t == Tail(s)
<1>1. h \in Seq(Values \cup {Null}) /\ Len(h) = n /\ n \in Nat \ {0}
  BY HeldType
<1>2. Len(t) = n - 1 /\ \A j \in 1 .. n - 1 : t[j] = s[j + 1]
  OBVIOUS
<1>3. \A j \in 1 .. n : h[j] = val[s[j]]
  BY DEF Held
<1>4. /\ Held(t, val) \in Seq(Values \cup {Null}) /\ Len(Held(t, val)) = n - 1
      /\ \A j \in 1 .. n - 1 : Held(t, val)[j] = val[t[j]]
  <2>1. t \in Seq(Cells)
    OBVIOUS
  <2>2. Held(t, val) \in Seq(Values \cup {Null}) /\ Len(Held(t, val)) = Len(t)
    BY <2>1, HeldType
  <2>3. \A j \in 1 .. Len(t) : Held(t, val)[j] = val[t[j]]
    BY DEF Held
  <2> QED
    BY <1>2, <2>2, <2>3
<1>5. /\ h # << >> /\ Head(h) = h[1] /\ Tail(h) \in Seq(Values \cup {Null}) /\ Len(Tail(h)) = n - 1
      /\ \A j \in 1 .. n - 1 : Tail(h)[j] = h[j + 1]
  <2> HIDE DEF h, n
  <2>1. h # << >>
    BY <1>1
  <2> QED
    BY <1>1, <2>1, HeadTailProperties
<1>6. \A j \in 1 .. n - 1 : val[t[j]] = h[j + 1]
  <2> TAKE j \in 1 .. n - 1
  <2>1. j + 1 \in 1 .. n
    BY <1>1
  <2> QED
    BY <1>2, <1>3, <2>1
<1>7. 1 \in 1 .. n
  BY <1>1
<1> QED
  <2> DEFINE a == Held(t, val)
             b == Tail(h)
  <2> HIDE DEF h, n, t, a, b
  <2>1. /\ a \in Seq(Values \cup {Null}) /\ b \in Seq(Values \cup {Null})
        /\ Len(a) = Len(b) /\ Len(a) = n - 1
    BY <1>4, <1>5 DEF a, b
  <2>2. \A j \in 1 .. n - 1 : a[j] = b[j]
    BY <1>4, <1>5, <1>6 DEF a, b
  <2>3. a = b
    BY <2>1, <2>2, SeqEqual
  <2>4. h # << >> /\ Head(h) = val[s[1]]
    BY <1>3, <1>5, <1>7
  <2> QED
    BY <2>3, <2>4 DEF a, b, h, t

-----------------------------------------------------------------------------
(* The invariant: the fields have their types, the loop is at most one row *)
(* ahead of the list, and the elements are a chain: the whole list until   *)
(* list_delete is called, what is left of it from then on.                 *)
ListTypes ==
  /\ prev \in Fields /\ next \in Fields /\ value \in Holders
  /\ phase \in {"live", "deleting", "deleted"}
LoopInv ==
  /\ rows \in Seq(Seq(Seq(Chars)))
  /\ call # "destroyed" => phase = "live" /\ Len(rows) \in {len, len + 1}
Shape(s) ==
  /\ Distinct(s) /\ Elements(s) = allocated
  /\ phase = "live" => Linked(s, next, prev, head, tail) /\ len = Len(s)
  /\ phase # "live" => NextLinks(s, next) /\ curr = FirstOf(s) /\ left = Len(s)
ListInv == ListTypes /\ LoopInv /\ \E s \in Seq(Cells) : Shape(s)

(* A new list is empty.                                                    *)
LEMMA ListInvInit == Init => ListInv
<1> SUFFICES ASSUME Init PROVE ListInv
  OBVIOUS
<1>1. << >> \in Seq(Cells) /\ Len(<< >>) = 0
  OBVIOUS
<1>2. Shape(<< >>)
  BY <1>1 DEF Init, ListInit, Shape, Distinct, Elements, Linked, NextLinks, PrevLinks, FirstOf, EndOf
<1>3. ListTypes
  BY DEF Init, ListInit, ListTypes, Fields, Holders
<1>4. LoopInv
  BY DEF Init, ListInit, CsvInit, LoopInv
<1> QED
  BY <1>1, <1>2, <1>3, <1>4 DEF ListInv

(* What the model computes, in terms of the chain.                         *)
LEMMA ReachedIsChain ==
  ASSUME NEW s \in Seq(Cells), Shape(s)
  PROVE  Reached = s /\ Items = Held(s, value)
<1>1. Reached = s
  BY WalkOfChain DEF Reached, Shape, Linked
<1>2. DOMAIN Reached = 1 .. Len(s)
  BY <1>1
<1> QED
  BY <1>1, <1>2 DEF Items, Held
LEMMA ReachedIsChainNext ==
  ASSUME NEW s \in Seq(Cells), Shape(s)'
  PROVE  Items' = Held(s, value')
<1>1. Reached' = s
  BY WalkOfChain DEF Reached, Shape, Linked
<1>2. DOMAIN Reached' = 1 .. Len(s)
  BY <1>1
<1> QED
  BY <1>1, <1>2 DEF Items, Held
LEMMA ElemOfChain ==
  ASSUME NEW s \in Seq(Cells), Shape(s), phase = "live", NEW i \in Nat, i < Len(s)
  PROVE  Elem(i) = s[i + 1]
<1>1. i \in 0 .. (i + 1) - 1 /\ i + 1 \in Nat /\ i + 1 <= Len(s)
  OBVIOUS
<1>2. NextLinks(s, next) /\ head = FirstOf(s)
  BY DEF Shape, Linked
<1> QED
  BY <1>1, <1>2, AlongChain DEF Elem

-----------------------------------------------------------------------------
(* What each operation does to the chain and to the sequence that callers  *)
(* see.                                                                    *)
LEMMA AddShape ==
  ASSUME NEW s \in Seq(Cells), Shape(s), ListTypes, NEW v \in Values, ListAdd(v)
  PROVE  /\ ListTypes' /\ \E t \in Seq(Cells) : Shape(t)' /\ Len(t) = Len(s) + 1
         /\ Items' = Append(Items, v)
<1>1. phase = "live" /\ Distinct(s) /\ Elements(s) = allocated /\ len = Len(s)
      /\ Linked(s, next, prev, head, tail)
  BY DEF ListAdd, Shape
<1>2. PICK c \in Cells \ allocated :
        /\ allocated' = allocated \cup {c}
        /\ value' = [value EXCEPT ![c] = v]
        /\ prev' = [prev EXCEPT ![c] = IF len = 0 THEN Null ELSE tail]
        /\ next' = IF len = 0 THEN [next EXCEPT ![c] = Null]
                   ELSE [next EXCEPT ![c] = Null, ![tail] = c]
        /\ head' = IF len = 0 THEN c ELSE head
        /\ tail' = c
  BY DEF ListAdd
<1>3. c \in Cells \ Elements(s) /\ (len = 0 <=> s = << >>)
  BY <1>1
<1> DEFINE t == Append(s, c)
<1>4. /\ t \in Seq(Cells) /\ Distinct(t) /\ Elements(t) = Elements(s) \cup {c}
      /\ Linked(t, next', prev', head', tail') /\ next' \in Fields /\ prev' \in Fields
  <2>1. prev \in Fields /\ next \in Fields
    BY DEF ListTypes
  <2>2. /\ prev' = [prev EXCEPT ![c] = IF s = << >> THEN Null ELSE tail]
        /\ next' = IF s = << >> THEN [next EXCEPT ![c] = Null]
                   ELSE [next EXCEPT ![c] = Null, ![tail] = c]
        /\ head' = (IF s = << >> THEN c ELSE head) /\ tail' = c
    BY <1>2, <1>3
  <2> QED
    BY <1>1, <1>3, <2>1, <2>2, AddToChain
<1>5. Len(t) = Len(s) + 1
  OBVIOUS
<1> HIDE DEF t
<1>6. Shape(t)'
  BY <1>1, <1>2, <1>4, <1>5 DEF Shape, ListAdd
<1>7. ListTypes'
  BY <1>1, <1>2, <1>4 DEF ListTypes, ListAdd, Holders
<1>8. Items' = Append(Items, v)
  <2>1. Items = Held(s, value) /\ Items' = Held(t, value')
    BY <1>4, <1>6, ReachedIsChain, ReachedIsChainNext
  <2>2. Held(t, value') = Append(Held(s, value), v)
    BY <1>2, <1>3, HeldAppend DEF t, ListTypes
  <2> QED
    BY <2>1, <2>2
<1> QED
  BY <1>4, <1>5, <1>6, <1>7, <1>8

LEMMA RemoveShape ==
  ASSUME NEW s \in Seq(Cells), Shape(s), ListTypes, NEW i \in Nat, ListRemove(i)
  PROVE  /\ ListTypes' /\ \E t \in Seq(Cells) : Shape(t)'
         /\ i + 1 \in 1 .. Len(Items) /\ Items' = Pointers!RemoveAt(Items, i + 1)
         /\ released' = Append(released, Items[i + 1])
<1>1. /\ phase = "live" /\ Distinct(s) /\ Elements(s) = allocated /\ len = Len(s)
      /\ Linked(s, next, prev, head, tail) /\ i < len
  BY DEF ListRemove, Shape
<1>2. i + 1 \in 1 .. Len(s)
  BY <1>1
<1> DEFINE k == i + 1
           e == s[k]
           t == Without(s, k)
<1>3. Elem(i) = e
  BY <1>1, ElemOfChain
<1>4. Items = Held(s, value) /\ Len(Items) = Len(s) /\ Items[k] = value[e]
  <2>1. Items = Held(s, value) /\ Len(Items) = Len(s)
    BY ReachedIsChain, HeldType DEF ListTypes
  <2> QED
    BY <1>2, <2>1 DEF Held
<1>5. /\ t \in Seq(Cells) /\ Len(t) = Len(s) - 1
  BY <1>2, WithoutFacts
<1>6. /\ Distinct(t) /\ Elements(t) = Elements(s) \ {e}
      /\ Linked(t, next', prev', head', tail') /\ next' \in Fields /\ prev' \in Fields
  <2>1. prev \in Fields /\ next \in Fields /\ k \in 1 .. Len(s)
    BY <1>2 DEF ListTypes
  <2> HIDE DEF k
  <2>2. Unlink(e)
    BY <1>3 DEF ListRemove
  <2>3. /\ next' = IF prev[e] = Null THEN next ELSE [next EXCEPT ![prev[e]] = next[e]]
        /\ prev' = IF next[e] = Null THEN prev ELSE [prev EXCEPT ![next[e]] = prev[e]]
        /\ head' = (IF prev[e] = Null THEN next[e] ELSE head)
        /\ tail' = (IF next[e] = Null THEN prev[e] ELSE tail)
    <3> HIDE DEF e
    <3> QED
      BY <2>2 DEF Unlink
  <2> DEFINE nx2 == IF prev[s[k]] = Null THEN next ELSE [next EXCEPT ![prev[s[k]]] = next[s[k]]]
             pv2 == IF next[s[k]] = Null THEN prev ELSE [prev EXCEPT ![next[s[k]]] = prev[s[k]]]
             h2 == IF prev[s[k]] = Null THEN next[s[k]] ELSE head
             t2 == IF next[s[k]] = Null THEN prev[s[k]] ELSE tail
  <2>4. next' = nx2 /\ prev' = pv2 /\ head' = h2 /\ tail' = t2
    BY <2>3
  <2>5. /\ Distinct(Without(s, k)) /\ Elements(Without(s, k)) = Elements(s) \ {s[k]}
        /\ Linked(Without(s, k), nx2, pv2, h2, t2) /\ nx2 \in Fields /\ pv2 \in Fields
    BY <1>1, <2>1, RemoveFromChain
  <2> HIDE DEF nx2, pv2, h2, t2
  <2> QED
    BY <1>5, <2>4, <2>5
<1> HIDE DEF t, e, k
<1>7. /\ released' = Append(released, value[e]) /\ allocated' = allocated \ {e}
      /\ len' = len - 1 /\ UNCHANGED << value, phase, curr, left >>
  BY <1>3 DEF ListRemove
<1>8. Shape(t)'
  BY <1>1, <1>5, <1>6, <1>7 DEF Shape
<1>9. ListTypes'
  BY <1>6, <1>7 DEF ListTypes
<1>10. Items' = Pointers!RemoveAt(Items, k)
  <2>1. Items' = Held(t, value')
    BY <1>5, <1>8, ReachedIsChainNext
  <2>2. value \in Holders /\ k \in 1 .. Len(s) /\ value' = value
    BY <1>2, <1>7 DEF k, ListTypes
  <2>3. Held(t, value) = Pointers!RemoveAt(Held(s, value), k)
    BY <2>2, HeldWithout DEF t
  <2> QED
    BY <1>4, <2>1, <2>2, <2>3
<1> QED
  BY <1>2, <1>4, <1>5, <1>7, <1>8, <1>9, <1>10 DEF k

LEMMA DeleteShape ==
  ASSUME NEW s \in Seq(Cells), Shape(s), ListTypes, ListDelete
  PROVE  ListTypes' /\ Shape(s)' /\ Items' = Items
<1>1. ListTypes' /\ Shape(s)'
  BY DEF ListDelete, ListTypes, Shape, Linked, heap, list
<1> QED
  BY <1>1, ReachedIsChain, ReachedIsChainNext DEF ListDelete, heap

LEMMA DeleteElemShape ==
  ASSUME NEW s \in Seq(Cells), Shape(s), ListTypes, DeleteElem
  PROVE  /\ ListTypes' /\ \E t \in Seq(Cells) : Shape(t)'
         /\ Items # << >> /\ Items' = Tail(Items) /\ released' = Append(released, Head(Items))
<1>1. /\ phase = "deleting" /\ Distinct(s) /\ Elements(s) = allocated /\ left = Len(s)
      /\ NextLinks(s, next) /\ curr = FirstOf(s) /\ left > 0
  BY DEF DeleteElem, Shape
<1>2. s # << >> /\ curr = s[1]
  BY <1>1 DEF FirstOf
<1> DEFINE t == Tail(s)
<1>3. /\ t \in Seq(Cells) /\ Len(t) = Len(s) - 1 /\ Distinct(t)
      /\ Elements(t) = Elements(s) \ {s[1]}
      /\ NextLinks(t, next) /\ next[s[1]] = FirstOf(t)
  BY <1>1, <1>2, RestOfChain
<1> HIDE DEF t
<1>4. Shape(t)'
  BY <1>1, <1>2, <1>3 DEF Shape, DeleteElem
<1>5. ListTypes'
  BY DEF DeleteElem, ListTypes
<1>6. Items = Held(s, value) /\ Items' = Held(t, value')
  BY <1>3, <1>4, ReachedIsChain, ReachedIsChainNext
<1>7. /\ Held(s, value) # << >> /\ Head(Held(s, value)) = value[s[1]]
      /\ Held(t, value) = Tail(Held(s, value))
  BY <1>2, HeldTail DEF ListTypes, t
<1>8. released' = Append(released, value[s[1]]) /\ value' = value
  BY <1>2 DEF DeleteElem
<1> QED
  BY <1>3, <1>4, <1>5, <1>6, <1>7, <1>8

(* Everything else leaves heap and list alone.                             *)
LEMMA SameShape ==
  ASSUME NEW s \in Seq(Cells), Shape(s), ListTypes, UNCHANGED << heap, list, curr, left >>,
         phase' \in {"live", "deleting", "deleted"}, phase' = "live" <=> phase = "live"
  PROVE  ListTypes' /\ Shape(s)' /\ Items' = Items
<1>1. ListTypes' /\ Shape(s)'
  BY DEF heap, list, ListTypes, Shape
<1> QED
  BY <1>1, ReachedIsChain, ReachedIsChainNext DEF heap

-----------------------------------------------------------------------------
(* The parser returns one row at a time.                                   *)
LEMMA RowsGrow ==
  ASSUME BufferInv, ParserStep, rows \in Seq(Seq(Seq(Chars)))
  PROVE  /\ rows' \in Seq(Seq(Seq(Chars)))
         /\ Len(rows') \in {Len(rows), Len(rows) + 1}
         /\ call # "destroyed" /\ call' # "destroyed"
<1>1. CASE EndRow
  <2>1. call = "row" /\ CharsFit /\ FieldsFit
    BY <1>1 DEF EndRow, Another, Parsing, BufferInv
  <2>2. fields' \in Seq(Seq(Chars))
    BY <1>1, <2>1, ValueIsText DEF EndRow, FieldsFit
  <2>3. call' # "destroyed" /\ rows' = Append(rows, fields')
    BY <1>1 DEF EndRow
  <2> QED
    BY <2>1, <2>2, <2>3
<1>2. CASE GetRow \/ OpenFails \/ ReachedEof \/ SkipReturn \/ OpeningQuote \/ EndField \/ Store
  <2>1. rows' = rows /\ call # "destroyed" /\ call' # "destroyed"
    BY <1>2 DEF GetRow, OpenFails, ReachedEof, SkipReturn, OpeningQuote, EndField, Store,
                Another, Parsing
  <2> QED
    BY <2>1
<1> QED
  BY <1>1, <1>2 DEF ParserStep

(* A row is there for each element of the list and for no more than one    *)
(* that it does not have yet, so its number is a value.                    *)
LEMMA RowIsValue ==
  ASSUME NEW s \in Seq(Cells), Shape(s), LoopInv, AddRow
  PROVE  phase = "live" /\ Len(rows) = len + 1 /\ (ListTypes => Len(rows) \in Values)
<1>1. phase = "live" /\ Len(rows) = len + 1 /\ len = Len(s) /\ Distinct(s)
  BY DEF AddRow, RowTaken, LoopInv, Shape
<1>2. PICK c \in Cells \ allocated : TRUE
  BY DEF AddRow, ListAdd
<1>3. Elements(s) = allocated
  BY DEF Shape
<1> DEFINE t == Append(s, c)
<1>4. t \in Seq(Cells) /\ Len(t) = len + 1
  BY <1>1
<1>5. Distinct(t)
  <2>1. \A i \in 1 .. Len(s) : t[i] = s[i] /\ s[i] # c
    BY <1>2, <1>3 DEF Elements
  <2>2. t[Len(s) + 1] = c
    OBVIOUS
  <2> HIDE DEF t
  <2> QED
    BY <1>1, <1>4, <2>1, <2>2 DEF Distinct
<1>6. len + 1 <= Cardinality(Cells)
  <2> HIDE DEF t
  <2> QED
    BY <1>4, <1>5, ElementsCount
<1>7. Cardinality(Cells) \in Nat /\ len \in Nat
  BY <1>1, ListAssumption, FS_CardinalityType
<1>8. Len(rows) \in 1 .. Cardinality(Cells)
  BY <1>1, <1>6, <1>7
<1> QED
  BY <1>1, <1>8, RowAssumption

(* Every step keeps the invariant, and is a call of the sequence, a step   *)
(* of its deletion, or a stutter.                                          *)
ListStep == [Pointers!Call \/ Pointers!Release \/ Pointers!Gone]_(Pointers!listView)
LEMMA ListInvStep ==
  ASSUME BufferInv, ListInv, [Next]_fileVars
  PROVE  ListInv' /\ ListStep
<1>1. PICK s \in Seq(Cells) : Shape(s)
  BY DEF ListInv
<1>2. ListTypes /\ LoopInv
  BY DEF ListInv
<1>3. phase = "live" => len = Len(s) /\ len \in Nat
  BY <1>1 DEF Shape
<1>4. ASSUME UNCHANGED listVars PROVE ListTypes' /\ (\E t \in Seq(Cells) : Shape(t)') /\ ListStep
  <2>1. Items' = Items /\ ListTypes' /\ Shape(s)'
    BY <1>1, <1>2, <1>4, SameShape DEF listVars, ListTypes
  <2> QED
    BY <1>4, <2>1 DEF ListStep, Pointers!listView, listVars
<1>5. CASE UNCHANGED fileVars
  <2>1. LoopInv'
    BY <1>2, <1>5 DEF fileVars, csvVars, listVars, list, LoopInv
  <2> QED
    BY <1>4, <1>5, <2>1 DEF fileVars, ListInv
<1>6. CASE NextRow
  <2>1. LoopInv'
    BY <1>2, <1>3, <1>6, RowsGrow DEF NextRow, RowTaken, LoopInv, listVars, list
  <2> QED
    BY <1>4, <1>6, <2>1 DEF NextRow, ListInv
<1>7. CASE EndLoop
  <2>1. LoopInv'
    BY <1>2, <1>7 DEF EndLoop, Destroy, LoopInv
  <2> QED
    BY <1>4, <1>7, <2>1 DEF EndLoop, ListInv
<1>8. CASE Done
  <2>1. LoopInv'
    BY <1>2, <1>8 DEF Done, fileVars, csvVars, listVars, list, LoopInv
  <2> QED
    BY <1>4, <1>8, <2>1 DEF Done, fileVars, ListInv
<1>9. CASE AddRow
  <2> DEFINE v == Len(rows)
  <2>1. phase = "live" /\ v = len + 1 /\ v \in Values /\ call = "returned"
    BY <1>1, <1>2, <1>9, RowIsValue DEF AddRow
  <2>2. ListAdd(v)
    BY <1>9 DEF AddRow
  <2>3. ListTypes' /\ (\E t \in Seq(Cells) : Shape(t)') /\ Items' = Append(Items, v)
    <3> HIDE DEF v
    <3> QED
      BY <1>1, <1>2, <2>1, <2>2, AddShape
  <2>4. LoopInv'
    BY <1>2, <1>9, <2>1, <2>2 DEF AddRow, ListAdd, LoopInv, csvVars
  <2>5. Pointers!Add(v)
    BY <2>2, <2>3 DEF ListAdd, Pointers!Add
  <2>6. Pointers!Call
    <3> HIDE DEF v
    <3> QED
      BY <2>1, <2>5 DEF Pointers!Call
  <2> QED
    BY <2>3, <2>4, <2>6 DEF ListStep, ListInv
<1>10. CASE UseList
  <2>1. call = "destroyed" /\ UNCHANGED csvVars
    BY <1>10 DEF UseList
  <2>2. LoopInv'
    BY <1>2, <2>1 DEF LoopInv, csvVars
  <2>3. SUFFICES ListTypes' /\ (\E t \in Seq(Cells) : Shape(t)') /\ ListStep
    BY <2>2 DEF ListInv
  <2>4. Items = Held(s, value) /\ Items \in Seq(Values \cup {Null}) /\ Len(Items) = Len(s)
    BY <1>1, <1>2, ReachedIsChain, HeldType DEF ListTypes
  <2>5. ASSUME NEW i \in 0 .. len, ListGet(i) PROVE ListTypes' /\ (\E t \in Seq(Cells) : Shape(t)') /\ ListStep
    <3>1. phase = "live" /\ i \in Nat /\ i \in 0 .. Len(Items)
      BY <1>3, <2>4, <2>5 DEF ListGet
    <3>2. ListTypes' /\ Shape(s)' /\ Items' = Items
      BY <1>1, <1>2, <2>5, SameShape DEF ListGet, ListTypes
    <3>3. i < len => value[Elem(i)] = Items[i + 1]
      <4> SUFFICES ASSUME i < len PROVE value[Elem(i)] = Items[i + 1]
        OBVIOUS
      <4>1. Elem(i) = s[i + 1]
        BY <1>1, <1>3, <3>1, ElemOfChain
      <4>2. i + 1 \in 1 .. Len(s)
        BY <1>3, <3>1
      <4> QED
        BY <2>4, <4>1, <4>2 DEF Held
    <3>4. Pointers!Get(i)
      BY <1>3, <2>4, <2>5, <3>1, <3>2, <3>3 DEF ListGet, Pointers!Get
    <3>5. Pointers!Call
      BY <3>1, <3>4 DEF Pointers!Call
    <3> QED
      BY <3>2, <3>5 DEF ListStep
  <2>6. ASSUME NEW i \in 0 .. len, ListRemove(i) PROVE ListTypes' /\ (\E t \in Seq(Cells) : Shape(t)') /\ ListStep
    <3>1. phase = "live" /\ i \in Nat
      BY <1>3, <2>6 DEF ListRemove
    <3>2. /\ ListTypes' /\ \E t \in Seq(Cells) : Shape(t)'
          /\ i + 1 \in 1 .. Len(Items) /\ Items' = Pointers!RemoveAt(Items, i + 1)
          /\ released' = Append(released, Items[i + 1])
      BY <1>1, <1>2, <2>6, <3>1, RemoveShape
    <3>3. i < Len(Items) /\ i \in 0 .. Len(Items)
      BY <2>4, <3>1, <3>2
    <3>4. result' = << >> /\ UNCHANGED phase
      BY <2>6 DEF ListRemove
    <3>5. Pointers!Remove1(i)
      BY <3>2, <3>3, <3>4 DEF Pointers!Remove1
    <3>6. Pointers!Call
      BY <3>1, <3>3, <3>5 DEF Pointers!Call
    <3> QED
      BY <3>2, <3>6 DEF ListStep
  <2>7. CASE ListEnum
    <3>1. phase = "live"
      BY <2>7 DEF ListEnum
    <3>2. ListTypes' /\ Shape(s)' /\ Items' = Items
      BY <1>1, <1>2, <2>7, SameShape DEF ListEnum, ListTypes
    <3>3. \A i \in 1 .. len : value[Elem(i - 1)] = value[s[i]]
      <4> TAKE i \in 1 .. len
      <4>1. i - 1 \in Nat /\ i - 1 < Len(s) /\ i - 1 + 1 = i
        BY <1>3, <3>1
      <4> QED
        BY <1>1, <3>1, <4>1, ElemOfChain
    <3>4. result' = Items
      BY <1>3, <2>4, <2>7, <3>1, <3>3 DEF ListEnum, Held
    <3>5. Pointers!Enum
      BY <2>7, <3>2, <3>4 DEF ListEnum, Pointers!Enum
    <3>6. Pointers!Call
      BY <3>1, <3>5 DEF Pointers!Call
    <3> QED
      BY <3>2, <3>6 DEF ListStep
  <2>8. CASE ListDelete
    <3>1. ListTypes' /\ Shape(s)' /\ Items' = Items
      BY <1>1, <1>2, <2>8, DeleteShape
    <3>2. Pointers!Delete
      BY <2>8, <3>1 DEF ListDelete, Pointers!Delete
    <3>3. Pointers!Call
      BY <2>8, <3>2 DEF ListDelete, Pointers!Call
    <3> QED
      BY <3>1, <3>3 DEF ListStep
  <2>9. CASE DeleteElem
    <3>1. /\ ListTypes' /\ \E t \in Seq(Cells) : Shape(t)'
          /\ Items # << >> /\ Items' = Tail(Items) /\ released' = Append(released, Head(Items))
      BY <1>1, <1>2, <2>9, DeleteElemShape
    <3>2. Pointers!Release
      BY <2>9, <3>1 DEF DeleteElem, Pointers!Release
    <3> QED
      BY <3>1, <3>2 DEF ListStep
  <2>10. CASE FreeList
    <3>1. phase = "deleting" /\ left = 0 /\ phase' = "deleted"
      BY <2>10 DEF FreeList
    <3>2. ListTypes' /\ Shape(s)' /\ Items' = Items
      BY <1>1, <1>2, <2>10, <3>1, SameShape DEF FreeList, ListTypes
    <3>3. Items = << >>
      BY <1>1, <2>4, <3>1 DEF Shape
    <3>4. Pointers!Gone
      BY <2>10, <3>1, <3>2, <3>3 DEF FreeList, Pointers!Gone
    <3> QED
      BY <3>2, <3>4 DEF ListStep
  <2> QED
    BY <1>10, <2>5, <2>6, <2>7, <2>8, <2>9, <2>10 DEF UseList
<1> QED
  BY <1>5, <1>6, <1>7, <1>8, <1>9, <1>10 DEF Next

-----------------------------------------------------------------------------
(* The chain says what WellLinked checks on it.                            *)
LEMMA ChainIsWellLinked == ASSUME ListInv PROVE WellLinked
<1>1. PICK s \in Seq(Cells) : Shape(s)
  BY DEF ListInv
<1>2. Reached = s
  BY <1>1, ReachedIsChain
<1>3. DOMAIN Reached = 1 .. Len(s) /\ {Reached[i] : i \in DOMAIN Reached} = allocated
  BY <1>1, <1>2 DEF Shape, Elements
<1>4. Cardinality(allocated) = Len(Reached)
  BY <1>1, <1>2, ElementsCount DEF Shape
<1>5. ASSUME phase = "live", len > 0
      PROVE  /\ Reached[len] = tail /\ next[tail] = Null /\ prev[head] = Null
             /\ \A i \in 1 .. len - 1 : prev[Reached[i + 1]] = Reached[i]
  <2>1. len = Len(s) /\ len \in Nat /\ s # << >> /\ head = s[1] /\ tail = s[len]
    BY <1>1, <1>5 DEF Shape, Linked, FirstOf, EndOf
  <2>2. NextLinks(s, next) /\ PrevLinks(s, prev)
    BY <1>1, <1>5 DEF Shape, Linked
  <2>3. len \in 1 .. Len(s) /\ 1 \in 1 .. Len(s)
    BY <1>5, <2>1
  <2>4. next[tail] = Null /\ prev[head] = Null
    BY <2>1, <2>2, <2>3 DEF NextLinks, PrevLinks
  <2>5. ASSUME NEW i \in 1 .. len - 1 PROVE prev[s[i + 1]] = s[i]
    <3>1. i + 1 \in 1 .. Len(s) /\ i + 1 # 1 /\ i + 1 - 1 = i
      BY <2>1
    <3> QED
      BY <2>2, <3>1 DEF PrevLinks
  <2> QED
    BY <1>2, <2>1, <2>4, <2>5
<1> QED
  BY <1>3, <1>4, <1>5 DEF WellLinked

(* The walk from the head meets every element once and ends at the tail,   *)
(* prev is the inverse of next, and list_delete walks no freed element,    *)
(* after any calls on a list of any length.                                *)
THEOREM ListWellLinked == Spec => []WellLinked
<1>1. ListInv => WellLinked
  BY ChainIsWellLinked
<1>2. BufferInv /\ ListInv /\ [Next]_fileVars => ListInv'
  BY ListInvStep
<1> QED
  BY <1>1, <1>2, ListInvInit, BufferInvInit, BufferInvStep, PTL DEF Spec

(* utils/list.c implements PointerList: callers see a sequence that grows  *)
(* at its end, and every pointer is given to v_free once.                  *)
THEOREM ListImplemented == Spec => ImplementsList
<1>1. Init => Pointers!Init
  <2> SUFFICES ASSUME Init PROVE Pointers!Init
    OBVIOUS
  <2>1. PICK s \in Seq(Cells) : Shape(s)
    BY ListInvInit DEF ListInv
  <2>2. Items = Held(s, value) /\ Len(Items) = Len(s) /\ Items \in Seq(Values \cup {Null})
    BY <2>1, ListInvInit, ReachedIsChain, HeldType DEF ListInv, ListTypes
  <2>3. Len(s) = 0
    BY <2>1 DEF Shape, Init, ListInit
  <2>4. Items = << >>
    BY <2>2, <2>3
  <2> QED
    BY <2>4 DEF Init, ListInit, Pointers!Init
<1>2. BufferInv /\ ListInv /\ [Next]_fileVars => ListInv' /\ ListStep
  BY ListInvStep
<1> QED
  BY <1>1, <1>2, ListInvInit, BufferInvInit, BufferInvStep, PTL
     DEF Spec, ImplementsList, Pointers!ListSpec, ListStep
=============================================================================
