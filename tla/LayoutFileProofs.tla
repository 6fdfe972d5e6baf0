-------------------------- MODULE LayoutFileProofs --------------------------
(***************************************************************************)
(* csv_parser_getRow, for files, fields and rows of any length and any     *)
(* initial room of the buffers: it stays in its buffers, and it reads back *)
(* what was written.                                                       *)
(***************************************************************************)
EXTENDS LayoutFileProps, FiniteSetTheorems, SequenceTheorems, TLAPS

(* Every character of the file is one of Chars.                            *)
LEMMA CharRead ==
  ASSUME file \in Texts, at \in 0 .. Len(file.text), ~ Eof
  PROVE  currChar \in Chars /\ at + 1 \in 0 .. Len(file.text)
  BY CsvAssumption DEF Eof, currChar

(* A field that has just grown has room for a character and the NUL; so    *)
(* has a row for the pointer to its next field, as the room is a multiple  *)
(* of AcceptedFields and grows whenever a multiple is reached.             *)
CharsFit  == field \in Seq(Chars) /\ charsRoom \in Nat /\ Len(field) + 2 <= charsRoom
FieldsFit ==
  /\ fields \in Seq(Seq(Chars)) /\ numRowRealloc \in Nat
  /\ fieldsRoom = (numRowRealloc + 1) * AcceptedFields
  /\ Len(fields) < fieldsRoom
BufferInv ==
  /\ file \in Texts /\ at \in 0 .. Len(file.text)
  /\ call = "row" => CharsFit /\ FieldsFit

(* The first call has new buffers still to come.                           *)
LEMMA BufferInvInit == Init => BufferInv
  BY CsvAssumption DEF Init, CsvInit, BufferInv

(* A multiple of AcceptedFields leaves no remainder.                       *)
LEMMA Multiples ==
  ASSUME NEW r \in Nat, NEW a \in Nat \ {0}
  PROVE  ((r + 1) * a) % a = 0 /\ (r + 2) * a = (r + 1) * a + a
<1> DEFINE s == (r + 1) * a
           q == s \div a
           m == s % a
<1>1. s \in Nat /\ s = a * (r + 1)
  BY Z3
<1> HIDE DEF s
<1>2. s = a * q + m /\ m \in 0 .. a - 1 /\ q \in Int
  BY <1>1, Z3
<1> HIDE DEF q, m
<1>3. PICK d \in Int : d = r + 1 - q
  BY <1>2
<1>4. a * d = m
  BY <1>1, <1>2, <1>3, Z3
<1>5. d = 0
  BY <1>2, <1>4, Z3
<1>6. m = 0
  BY <1>4, <1>5, Z3
<1>7. (r + 2) * a = (r + 1) * a + a
  BY Z3
<1> QED
  BY <1>6, <1>7 DEF s, m

(* The room for the fields grows in time.                                  *)
LEMMA FieldsGrow ==
  ASSUME FieldsFit, GrowFields(Len(fields) + 1), NEW v \in Seq(Chars),
         fields' = Append(fields, v)
  PROVE  FieldsFit'
<1> DEFINE n == Len(fields)
           r == numRowRealloc
<1>1. n \in Nat /\ r \in Nat /\ fieldsRoom \in Nat /\ n < fieldsRoom
  BY CsvAssumption, Z3 DEF FieldsFit
<1>2. ((r + 1) * AcceptedFields) % AcceptedFields = 0
      /\ (r + 2) * AcceptedFields = (r + 1) * AcceptedFields + AcceptedFields
  BY <1>1, Multiples, CsvAssumption
<1>3. fields' \in Seq(Seq(Chars)) /\ Len(fields') = n + 1
  BY DEF FieldsFit
<1>4. CASE (n + 1) % AcceptedFields = 0
  <2>1. fieldsRoom' = (r + 2) * AcceptedFields /\ numRowRealloc' = r + 1
    BY <1>4 DEF GrowFields
  <2>2. r + 1 + 1 = r + 2
    BY <1>1
  <2>3. n + 1 < (r + 1) * AcceptedFields + AcceptedFields
    BY <1>1, CsvAssumption DEF FieldsFit
  <2> QED
    BY <1>1, <1>2, <1>3, <2>1, <2>2, <2>3 DEF FieldsFit
<1>5. CASE (n + 1) % AcceptedFields # 0
  <2>1. UNCHANGED << fieldsRoom, numRowRealloc >>
    BY <1>5 DEF GrowFields
  <2>2. n + 1 # fieldsRoom
    BY <1>2, <1>5 DEF FieldsFit
  <2> QED
    BY <1>1, <1>3, <2>1, <2>2 DEF FieldsFit
<1> QED
  BY <1>4, <1>5

(* The value of a field is a part of its characters.                       *)
LEMMA ValueIsText == ASSUME CharsFit PROVE Value \in Seq(Chars)
  BY DEF CharsFit, Value

(* A new field is empty and has at least two characters of room.           *)
LEMMA NewFieldFits == ASSUME StartField PROVE CharsFit'
  BY CsvAssumption DEF StartField, CharsFit

(* A function on 1 .. n is a sequence of length n.                         *)
LEMMA FunctionIsSeq ==
  ASSUME NEW n \in Nat, NEW S, NEW s \in [1 .. n -> S] PROVE s \in Seq(S) /\ Len(s) = n
  OBVIOUS

(* Only Store writes a character, and it grows the room for the next one.  *)
LEMMA StoreFits ==
  ASSUME BufferInv, Store PROVE BufferInv'
<1>1. call = "row" /\ ~ Eof
  BY DEF Store, Another, Parsing, FieldEnds
<1>2. CharsFit /\ FieldsFit /\ currChar \in Chars /\ at' \in 0 .. Len(file.text)
  BY <1>1, CharRead DEF BufferInv, Store, Advance
<1>3. field' \in Seq(Chars) /\ (Len(field') = Len(field) \/ Len(field') = Len(field) + 1)
  <2>1. CASE Doubled
    <3>1. field' = [field EXCEPT ![Len(field)] = Quote] /\ Quote \in Chars
      BY <2>1 DEF Store, Chars
    <3>2. Len(field) \in Nat /\ field \in [1 .. Len(field) -> Chars]
      BY <1>2 DEF CharsFit
    <3> DEFINE n == Len(field)
    <3>3. field' \in [1 .. n -> Chars]
      BY <3>1, <3>2
    <3>4. n \in Nat
      BY <3>2
    <3> HIDE DEF n
    <3>5. field' \in Seq(Chars) /\ Len(field') = n
      BY <3>3, <3>4, FunctionIsSeq
    <3> QED
      BY <3>5 DEF n
  <2>2. CASE ~ Doubled
    BY <1>2, <2>2 DEF Store, CharsFit
  <2> QED
    BY <2>1, <2>2
<1>4. CharsFit'
  <2>1. charsRoom' = IF Len(field') = charsRoom - 1 THEN 2 * charsRoom ELSE charsRoom
    BY DEF Store, GrowChars
  <2>2. charsRoom \in Nat /\ Len(field) \in Nat /\ Len(field) + 2 <= charsRoom
    BY <1>2 DEF CharsFit
  <2> QED
    BY <1>3, <2>1, <2>2 DEF CharsFit
<1> QED
  BY <1>1, <1>2, <1>4 DEF BufferInv, FieldsFit, Store

(* The other steps leave the buffers alone or begin new ones.              *)
LEMMA BufferInvStep == BufferInv /\ [Next]_fileVars => BufferInv'
<1> SUFFICES ASSUME BufferInv, [Next]_fileVars PROVE BufferInv'
  OBVIOUS
<1>1. Advance => at' \in 0 .. Len(file.text)
  BY CsvAssumption DEF Advance, Eof, BufferInv
<1>2. CASE UNCHANGED csvVars
  BY <1>2 DEF csvVars, locals, BufferInv, CharsFit, FieldsFit
<1>3. CASE OpenFails \/ ReachedEof \/ Destroy
  BY <1>3 DEF OpenFails, ReachedEof, Destroy, BufferInv
<1>4. CASE GetRow
  <2>1. FieldsFit'
    BY <1>4, CsvAssumption DEF GetRow, FieldsFit
  <2> QED
    BY <1>4, <2>1, NewFieldFits DEF GetRow, BufferInv
<1>5. CASE SkipReturn \/ OpeningQuote
  BY <1>1, <1>5 DEF SkipReturn, OpeningQuote, Parsing, locals, BufferInv, CharsFit, FieldsFit
<1>6. CASE EndField
  <2>1. call = "row" /\ CharsFit /\ FieldsFit
    BY <1>6 DEF EndField, Another, Parsing, BufferInv
  <2>2. FieldsFit'
    BY <1>6, <2>1, FieldsGrow, ValueIsText DEF EndField
  <2> QED
    BY <1>1, <1>6, <2>2, NewFieldFits DEF EndField, BufferInv
<1>7. CASE EndRow
  BY <1>1, <1>7 DEF EndRow, BufferInv
<1>8. CASE Store
  BY <1>8, StoreFits
<1> QED
  BY <1>2, <1>3, <1>4, <1>5, <1>6, <1>7, <1>8
     DEF Next, NextRow, ParserStep, AddRow, EndLoop, UseList, Done, fileVars

(* No write of csv_parser_getRow is past the end of what it allocated.     *)
THEOREM ParserStaysInBuffers == Spec => []BuffersInBounds
<1>1. BufferInv => BuffersInBounds
  BY DEF BufferInv, CharsFit, FieldsFit, BuffersInBounds
<1> QED
  BY <1>1, BufferInvInit, BufferInvStep, PTL DEF Spec

-----------------------------------------------------------------------------
(* What was written is read.  A text is taken apart from the front: Joined *)
(* unfolds piece by piece, so do the lines of a table, the fields of a line*)
(* and the characters of a field.  The invariant, Reading, says where in   *)
(* the table the parser is and what of the text is unread; each step reads *)
(* the character that the unfolding puts in front.                         *)

(* The least of some numbers.                                              *)
LEMMA SmallestNat ==
  ASSUME NEW S \in SUBSET Nat, S # {}
  PROVE  \E m \in S : \A k \in S : m <= k
<1>1. PICK m \in S : \A k \in S : << k, m >> \notin OpToRel(<, Nat)
  BY WFMin, NatLessThanWellFounded, Zenon
<1>2. \A k \in S : ~ (k < m)
  BY <1>1, Zenon DEF OpToRel
<1>3. m \in Nat /\ \A k \in S : k \in Nat
  BY <1>1
<1>4. \A k \in S : m <= k
  BY <1>2, <1>3
<1> QED
  BY <1>4

-----------------------------------------------------------------------------
(* A function that joins the last m of some pieces exists for any m, by    *)
(* adding one piece in front.                                              *)
Joins(p, a, f) ==
  f = [k \in a .. Len(p) + 1 |-> IF k > Len(p) THEN << >> ELSE p[k] \o f[k + 1]]
JoinsTo(S, p, a, f) == f \in [a .. Len(p) + 1 -> Seq(S)] /\ Joins(p, a, f)

(* Where adding a piece first fails, it would not.                         *)
LEMMA JoinsExist ==
  ASSUME NEW S, NEW p \in Seq(Seq(S)), NEW a \in 1 .. Len(p) + 1
  PROVE  \E f : JoinsTo(S, p, a, f)
<1> DEFINE n == Len(p)
           bad == {m \in 0 .. n : ~ \E f : JoinsTo(S, p, n + 1 - m, f)}
<1>0. n \in Nat /\ << >> \in Seq(S) /\ \A k \in 1 .. n : p[k] \in Seq(S)
  OBVIOUS
<1> HIDE DEF n
<1>1. bad = {}
  <2> SUFFICES ASSUME bad # {} PROVE FALSE
    OBVIOUS
  <2>1. bad \in SUBSET Nat
    BY <1>0
  <2>2. PICK m \in bad : \A k \in bad : m <= k
    <3> HIDE DEF bad
    <3> QED
      BY <2>1, SmallestNat
  <2>3. m \in 0 .. n /\ ~ \E f : JoinsTo(S, p, n + 1 - m, f)
    OBVIOUS
  <2>4. CASE m = 0
    <3> DEFINE f == [k \in n + 1 .. n + 1 |-> << >>]
    <3>0. \A k \in n + 1 .. n + 1 : k > n
      BY <1>0
    <3>1. f \in [n + 1 .. n + 1 -> Seq(S)]
      BY <1>0
    <3>2. f = [k \in n + 1 .. n + 1 |-> IF k > n THEN << >> ELSE p[k] \o f[k + 1]]
      BY <3>0
    <3>3. n + 1 - m = n + 1
      BY <1>0, <2>4
    <3> HIDE DEF f
    <3>4. JoinsTo(S, p, n + 1 - m, f)
      BY <3>1, <3>2, <3>3 DEF JoinsTo, Joins, n
    <3> QED
      BY <2>3, <3>4
  <2>5. CASE m # 0
    <3> DEFINE b == n + 1 - m
    <3>1. m - 1 \in 0 .. n /\ ~ (m <= m - 1) /\ b \in 1 .. n /\ n + 1 - (m - 1) = b + 1
      BY <1>0, <2>3, <2>5
    <3> HIDE DEF b
    <3>2. m - 1 \notin bad
      <4> HIDE DEF bad
      <4> QED
        BY <2>2, <3>1
    <3>3. PICK g : JoinsTo(S, p, b + 1, g)
      BY <3>1, <3>2
    <3>4. g \in [b + 1 .. n + 1 -> Seq(S)]
          /\ \A k \in b + 1 .. n + 1 : g[k] = IF k > n THEN << >> ELSE p[k] \o g[k + 1]
      BY <3>3 DEF JoinsTo, Joins, n
    <3> DEFINE f == [k \in b .. n + 1 |-> IF k = b THEN p[b] \o g[b + 1] ELSE g[k]]
    <3>5. p[b] \o g[b + 1] \in Seq(S)
      BY <1>0, <3>1, <3>4
    <3>6. f \in [b .. n + 1 -> Seq(S)]
      BY <1>0, <3>1, <3>4, <3>5
    <3>7. ASSUME NEW k \in b .. n + 1
          PROVE  f[k] = IF k > n THEN << >> ELSE p[k] \o f[k + 1]
      <4>1. CASE k = b
        <5>1. b + 1 \in b .. n + 1 /\ b + 1 # b /\ ~ (b > n) /\ b \in b .. n + 1
          BY <1>0, <3>1
        <5>2. f[b + 1] = g[b + 1] /\ f[b] = p[b] \o g[b + 1]
          BY <5>1
        <5> QED
          BY <4>1, <5>1, <5>2
      <4>2. CASE k # b
        <5>1. k \in b + 1 .. n + 1 /\ (~ (k > n) => k + 1 \in b .. n + 1 /\ k + 1 # b)
          BY <1>0, <3>1, <4>2
        <5> QED
          BY <3>4, <4>2, <5>1
      <4> QED
        BY <4>1, <4>2
    <3>8. f = [k \in b .. n + 1 |-> f[k]]
      OBVIOUS
    <3> HIDE DEF f
    <3>9. JoinsTo(S, p, b, f)
      BY <3>6, <3>7, <3>8 DEF JoinsTo, Joins, n
    <3> QED
      BY <2>3, <3>9 DEF b
  <2> QED
    BY <2>4, <2>5
<1>2. n + 1 - a \in 0 .. n /\ n + 1 - (n + 1 - a) = a
  BY <1>0 DEF n
<1>3. n + 1 - a \notin bad
  BY <1>1
<1> QED
  BY <1>2, <1>3

(* The pieces from the k-th on are the k-th and those behind it.           *)
LEMMA JoinedUnfolds ==
  ASSUME NEW S, NEW p \in Seq(Seq(S)), NEW k \in 1 .. Len(p) + 1
  PROVE  /\ Joined(p)[k] \in Seq(S)
         /\ Joined(p)[k] = IF k > Len(p) THEN << >> ELSE p[k] \o Joined(p)[k + 1]
<1> DEFINE f == CHOOSE g : Joins(p, 1, g)
<1>1. Joined(p) = f
  BY Zenon DEF Joined, Joins
<1>2. PICK w : JoinsTo(S, p, 1, w)
  BY JoinsExist
<1>3. Joins(p, 1, f)
  BY <1>2, Zenon DEF JoinsTo
<1> HIDE DEF f
<1>4. \A j \in 1 .. Len(p) + 1 : f[j] = IF j > Len(p) THEN << >> ELSE p[j] \o f[j + 1]
  BY <1>3 DEF Joins
<1>5. \A j \in 1 .. Len(p) + 1 : w[j] \in Seq(S) /\ w[j] = IF j > Len(p) THEN << >> ELSE p[j] \o w[j + 1]
  BY <1>2 DEF JoinsTo, Joins
<1> DEFINE n == Len(p)
           bad == {m \in 0 .. n : f[n + 1 - m] # w[n + 1 - m]}
<1>6. bad = {}
  <2> SUFFICES ASSUME bad # {} PROVE FALSE
    OBVIOUS
  <2>1. bad \in SUBSET Nat /\ n \in Nat
    OBVIOUS
  <2>2. PICK m \in bad : \A j \in bad : m <= j
    <3> HIDE DEF bad
    <3> QED
      BY <2>1, SmallestNat
  <2>3. m \in 0 .. n /\ f[n + 1 - m] # w[n + 1 - m]
    OBVIOUS
  <2> DEFINE b == n + 1 - m
  <2>4. b \in 1 .. n + 1
    BY <2>1, <2>3
  <2>5. f[b] = (IF b > n THEN << >> ELSE p[b] \o f[b + 1]) /\ w[b] = IF b > n THEN << >> ELSE p[b] \o w[b + 1]
    BY <1>4, <1>5, <2>4
  <2>6. b <= n
    BY <2>1, <2>3, <2>4, <2>5
  <2>7. m - 1 \in 0 .. n /\ ~ (m <= m - 1) /\ n + 1 - (m - 1) = b + 1
    BY <2>1, <2>3, <2>6
  <2>8. m - 1 \notin bad
    <3> HIDE DEF bad
    <3> QED
      BY <2>2, <2>7
  <2>9. f[b + 1] = w[b + 1]
    BY <2>7, <2>8
  <2> QED
    BY <2>3, <2>4, <2>5, <2>6, <2>9
<1>7. n + 1 - k \in 0 .. n /\ n + 1 - (n + 1 - k) = k
  OBVIOUS
<1>8. f[k] = w[k]
  BY <1>6, <1>7
<1> QED
  BY <1>1, <1>4, <1>5, <1>8

(* The order of concatenations.                                            *)
LEMMA Regroup ==
  ASSUME NEW x \in Seq(Chars), NEW y \in Seq(Chars), NEW z \in Seq(Chars)
  PROVE  (x \o y) \o z = x \o (y \o z)
  BY ConcatAssociative

(* A character in front of a sequence.                                     *)
LEMMA InFront ==
  ASSUME NEW S, NEW c \in S, NEW s \in Seq(S)
  PROVE  /\ << c >> \o s \in Seq(S) /\ Len(<< c >> \o s) = Len(s) + 1
         /\ (<< c >> \o s)[1] = c /\ \A i \in 1 .. Len(s) : (<< c >> \o s)[i + 1] = s[i]
<1>1. << c >> \in Seq(S) /\ Len(<< c >>) = 1
  OBVIOUS
<1> QED
  BY <1>1, ConcatProperties

(* The empty sequence adds nothing.                                        *)
LEMMA EmptyIsNoPart ==
  ASSUME NEW S, NEW s \in Seq(S) PROVE << >> \in Seq(S) /\ << >> \o s = s /\ s \o << >> = s
  OBVIOUS

Unread == SubSeq(file.text, at + 1, Len(file.text))

(* What the next character is, and what is unread behind it.               *)
LEMMA NextChar ==
  ASSUME file \in Texts, at \in 0 .. Len(file.text), NEW c \in Chars, NEW s \in Seq(Chars),
         Unread = << c >> \o s
  PROVE  /\ ~ Eof /\ currChar = c
         /\ Advance /\ file' = file => Unread' = s
<1> DEFINE t == file.text
<1>1. t \in Seq(Chars) /\ Len(t) \in Nat /\ at \in Nat /\ Len(s) \in Nat
  BY CsvAssumption
<1>2. /\ Len(Unread) = Len(s) + 1 /\ Unread[1] = c
      /\ \A i \in 1 .. Len(s) : Unread[i + 1] = s[i]
  BY InFront
<1>3. /\ Len(Unread) = IF at + 1 <= Len(t) THEN Len(t) - at ELSE 0
      /\ \A i \in 1 .. Len(t) - at : Unread[i] = t[at + i]
  <2>1. at + 1 \in 1 .. Len(t) + 1 /\ Len(t) \in at .. Len(t)
    BY <1>1
  <2>2. \A i \in 1 .. Len(t) - at : at + 1 + i - 1 = at + i
    BY <1>1
  <2> QED
    BY <1>1, <2>1, <2>2, SubSeqProperties DEF Unread
<1>4. at < Len(t) /\ Len(s) = Len(t) - at - 1
  <2>1. Len(s) + 1 = IF at + 1 <= Len(t) THEN Len(t) - at ELSE 0
    <3>1. Len(Unread) = Len(s) + 1
      BY <1>2
    <3>2. Len(Unread) = IF at + 1 <= Len(t) THEN Len(t) - at ELSE 0
      BY <1>3
    <3> QED
      BY <3>1, <3>2
  <2> HIDE DEF t
  <2> QED
    BY <1>1, <2>1
<1>5. ~ Eof /\ currChar = c
  BY <1>1, <1>2, <1>3, <1>4 DEF Eof, currChar
<1>6. ASSUME Advance, file' = file PROVE Unread' = s
  <2>1. at' = at + 1
    BY <1>5, <1>6 DEF Advance
  <2>2. Unread' = SubSeq(t, at + 2, Len(t))
    BY <1>1, <1>6, <2>1 DEF Unread
  <2> DEFINE u == SubSeq(t, at + 2, Len(t))
  <2>3. at + 2 \in 1 .. Len(t) + 1 /\ Len(t) \in at + 1 .. Len(t)
    BY <1>1, <1>4
  <2>4. \A i \in 1 .. Len(t) - at - 1 : at + 2 + i - 1 = at + (i + 1) /\ i + 1 \in 1 .. Len(t) - at
    BY <1>1
  <2>5. /\ u \in Seq(Chars) /\ Len(u) = Len(t) - at - 1
        /\ \A i \in 1 .. Len(t) - at - 1 : u[i] = t[at + (i + 1)]
    BY <1>1, <1>4, <2>3, <2>4, SubSeqProperties
  <2>6. \A i \in 1 .. Len(s) : u[i] = s[i]
    BY <1>2, <1>3, <1>4, <2>4, <2>5
  <2> HIDE DEF u
  <2>7. u = s
    BY <1>4, <2>5, <2>6, SeqEqual
  <2> QED
    BY <2>2, <2>7 DEF u
<1> QED
  BY <1>5, <1>6

(* At the end of the text the parser sees the end of a line.               *)
LEMMA NothingUnread ==
  ASSUME file \in Texts, at \in 0 .. Len(file.text), Unread = << >>
  PROVE  Eof /\ currChar = Newline /\ (Advance /\ file' = file => Unread' = << >>)
<1> DEFINE t == file.text
<1>1. t \in Seq(Chars) /\ Len(t) \in Nat /\ at \in Nat
  BY CsvAssumption
<1>2. Len(Unread) = 0
  OBVIOUS
<1>3. at < Len(t) => Len(Unread) = Len(t) - at
  <2>1. at < Len(t) => at + 1 \in 1 .. Len(t) + 1 /\ Len(t) \in at .. Len(t)
    BY <1>1
  <2> QED
    BY <1>1, <2>1, SubSeqProperties DEF Unread
<1>4. Eof
  BY <1>1, <1>2, <1>3 DEF Eof
<1> QED
  BY <1>4 DEF Eof, currChar, Advance, Unread

(* The rest of the text: from a character of a field, quoted or not, from  *)
(* a field of a row, and what comes behind a field, whose carriage return  *)
(* may have been read.                                                     *)
QuotedFrom(f, k, rest) == InQuotes(f)[k] \o (<< Quote >> \o rest)
PlainFrom(f, k, rest) == SubSeq(f, k, Len(f)) \o rest
LineFrom(r, style, i, j) ==
  Line(r[i], style)[j] \o (LineEnd(r, i, style) \o Lines(r, style)[i + 1])
Behind(r, style, i, j) ==
  IF j < Len(r[i]) THEN {<< Delimiter >> \o LineFrom(r, style, i, j + 1)}
  ELSE {<< Newline >> \o Lines(r, style)[i + 1],
        << Return >> \o (<< Newline >> \o Lines(r, style)[i + 1])}
         \cup {g \in {<< >>} : i = Len(r) /\ ~ style.ended}

(* The characters with a meaning are no letters.                           *)
LEMMA CharTypes ==
  /\ Quote \in Chars /\ Delimiter \in Chars /\ Newline \in Chars /\ Return \in Chars
  /\ \A c \in Letters : c \in Chars /\ c \notin {Quote, Delimiter, Newline, Return}
  BY CsvAssumption DEF Chars

(* The text inside the quotes, one character of the field at a time.       *)
LEMMA QuotedType ==
  ASSUME NEW f \in Seq(Chars), NEW k \in 1 .. Len(f) + 1
  PROVE  /\ InQuotes(f)[k] \in Seq(Chars)
         /\ InQuotes(f)[k] = IF k > Len(f) THEN << >> ELSE Twice(f[k]) \o InQuotes(f)[k + 1]
         /\ k <= Len(f) => Twice(f[k]) \in Seq(Chars)
<1> DEFINE p == [j \in 1 .. Len(f) |-> Twice(f[j])]
<1>1. \A j \in 1 .. Len(f) : Twice(f[j]) \in Seq(Chars)
  BY CharTypes DEF Twice
<1>2. p \in Seq(Seq(Chars)) /\ Len(p) = Len(f) /\ \A j \in 1 .. Len(f) : p[j] = Twice(f[j])
  BY <1>1
<1>3. InQuotes(f) = Joined(p)
  BY DEF InQuotes
<1> HIDE DEF p
<1>4. /\ Joined(p)[k] \in Seq(Chars)
      /\ Joined(p)[k] = IF k > Len(p) THEN << >> ELSE p[k] \o Joined(p)[k + 1]
  BY <1>2, JoinedUnfolds
<1> QED
  BY <1>1, <1>2, <1>3, <1>4

(* What follows inside the quotes: the closing quote, a doubled quote, or  *)
(* the next character.                                                     *)
LEMMA QuotedUnfolds ==
  ASSUME NEW f \in Seq(Chars), NEW k \in 1 .. Len(f) + 1, NEW rest \in Seq(Chars)
  PROVE  /\ QuotedFrom(f, k, rest) \in Seq(Chars)
         /\ k > Len(f) => QuotedFrom(f, k, rest) = << Quote >> \o rest
         /\ k <= Len(f) /\ f[k] = Quote =>
              QuotedFrom(f, k, rest) = << Quote >> \o (<< Quote >> \o QuotedFrom(f, k + 1, rest))
         /\ k <= Len(f) /\ f[k] # Quote =>
              QuotedFrom(f, k, rest) = << f[k] >> \o QuotedFrom(f, k + 1, rest)
<1> DEFINE q == << Quote >> \o rest
<1>1. q \in Seq(Chars) /\ << Quote >> \in Seq(Chars)
  BY CharTypes, InFront
<1> HIDE DEF q
<1>2. \A x, y \in Seq(Chars) : x \o y \in Seq(Chars) /\ (x \o y) \o q = x \o (y \o q)
  <2> TAKE x, y \in Seq(Chars)
  <2>1. x \o y \in Seq(Chars)
    BY ConcatProperties
  <2>2. (x \o y) \o q = x \o (y \o q)
    BY <1>1, Regroup, Zenon
  <2> QED
    BY <2>1, <2>2
<1>3. \A j \in 1 .. Len(f) + 1 : QuotedFrom(f, j, rest) = InQuotes(f)[j] \o q
  BY DEF QuotedFrom, q
<1>4. QuotedFrom(f, k, rest) \in Seq(Chars)
  <2>1. InQuotes(f)[k] \in Seq(Chars) /\ QuotedFrom(f, k, rest) = InQuotes(f)[k] \o q
    BY <1>3, QuotedType
  <2> QED
    BY <1>2, <1>1, <2>1, ConcatProperties
<1>5. CASE k > Len(f)
  <2>1. InQuotes(f)[k] = << >>
    BY <1>5, QuotedType
  <2>2. QuotedFrom(f, k, rest) = << >> \o q /\ << >> \o q = q
    BY <1>1, <1>3, <2>1, EmptyIsNoPart
  <2> QED
    BY <1>4, <1>5, <2>2 DEF q
<1>6. CASE k <= Len(f)
  <2>1. k + 1 \in 1 .. Len(f) + 1 /\ ~ (k > Len(f)) /\ k \in 1 .. Len(f)
    BY <1>6
  <2> DEFINE x == Twice(f[k])
             y == InQuotes(f)[k + 1]
  <2>2. x \in Seq(Chars) /\ y \in Seq(Chars) /\ InQuotes(f)[k] = x \o y
    BY <1>6, <2>1, QuotedType
  <2> HIDE DEF x, y
  <2>3. QuotedFrom(f, k, rest) = x \o (y \o q) /\ y \o q \in Seq(Chars)
    <3>1. QuotedFrom(f, k, rest) = (x \o y) \o q
      BY <1>3, <2>2
    <3>2. (x \o y) \o q = x \o (y \o q)
      BY <1>2, <2>2
    <3>3. y \o q \in Seq(Chars)
      BY <1>1, <2>2, ConcatProperties
    <3> QED
      BY <3>1, <3>2, <3>3
  <2>4. y \o q = QuotedFrom(f, k + 1, rest)
    BY <1>3, <2>1 DEF y
  <2> DEFINE z == y \o q
  <2> HIDE DEF z
  <2>5. QuotedFrom(f, k, rest) = x \o z /\ z \in Seq(Chars) /\ z = QuotedFrom(f, k + 1, rest)
    BY <2>3, <2>4 DEF z
  <2>6. CASE f[k] = Quote
    <3>1. x = << Quote, Quote >>
      BY <2>6 DEF x, Twice
    <3>2. << Quote, Quote >> = << Quote >> \o << Quote >>
      OBVIOUS
    <3>3. (<< Quote >> \o << Quote >>) \o z = << Quote >> \o (<< Quote >> \o z)
      BY <1>1, <2>5, Regroup, Zenon
    <3> QED
      BY <1>4, <1>6, <2>1, <2>5, <2>6, <3>1, <3>2, <3>3
  <2>7. CASE f[k] # Quote
    BY <1>4, <1>6, <2>1, <2>5, <2>7 DEF x, Twice
  <2> QED
    BY <2>6, <2>7
<1> QED
  BY <1>5, <1>6

(* What follows in a field that is not quoted.                             *)
LEMMA PlainUnfolds ==
  ASSUME NEW f \in Seq(Chars), NEW k \in 1 .. Len(f) + 1, NEW rest \in Seq(Chars)
  PROVE  /\ PlainFrom(f, k, rest) \in Seq(Chars)
         /\ k > Len(f) => PlainFrom(f, k, rest) = rest
         /\ k <= Len(f) => PlainFrom(f, k, rest) = << f[k] >> \o PlainFrom(f, k + 1, rest)
         /\ PlainFrom(f, 1, rest) = f \o rest
<1> DEFINE n == Len(f)
<1>1. n \in Nat /\ SubSeq(f, k, n) \in Seq(Chars) /\ SubSeq(f, 1, n) = f
  OBVIOUS
<1>2. PlainFrom(f, k, rest) \in Seq(Chars) /\ PlainFrom(f, 1, rest) = f \o rest
  <2>1. PlainFrom(f, k, rest) = SubSeq(f, k, n) \o rest /\ PlainFrom(f, 1, rest) = f \o rest
    BY <1>1 DEF PlainFrom
  <2> QED
    BY <1>1, <2>1, ConcatProperties
<1>3. CASE k > n
  <2>1. SubSeq(f, k, n) = << >>
    BY <1>3
  <2>2. PlainFrom(f, k, rest) = << >> \o rest
    BY <2>1 DEF PlainFrom
  <2> QED
    BY <1>2, <1>3, <2>2, EmptyIsNoPart
<1>4. CASE k <= n
  <2>1. SubSeq(f, k + 1, n) \in Seq(Chars) /\ f[k] \in Chars /\ << f[k] >> \in Seq(Chars)
    BY <1>1, <1>4
  <2> DEFINE u == SubSeq(f, k, n)
             v == SubSeq(f, k + 1, n)
  <2>2. Len(u) = n - k + 1 /\ \A i \in 1 .. n - k + 1 : u[i] = f[k + i - 1]
    <3>1. k \in 1 .. n + 1 /\ n \in k - 1 .. n
      BY <1>1, <1>4
    <3> QED
      BY <1>4, <3>1, SubSeqProperties
  <2>3. Len(v) = n - k /\ \A i \in 1 .. n - k : v[i] = f[k + 1 + i - 1]
    <3>1. k + 1 \in 1 .. n + 1 /\ n \in k .. n
      BY <1>1, <1>4
    <3> QED
      BY <1>4, <3>1, SubSeqProperties
  <2> DEFINE w == << f[k] >> \o v
  <2>4. w \in Seq(Chars) /\ Len(w) = Len(v) + 1 /\ w[1] = f[k] /\ \A i \in 1 .. Len(v) : w[i + 1] = v[i]
    <3>1. v \in Seq(Chars) /\ f[k] \in Chars
      BY <2>1
    <3> HIDE DEF v
    <3> QED
      BY <3>1, InFront
  <2>5. ASSUME NEW i \in 1 .. Len(u) PROVE u[i] = w[i]
    <3>1. CASE i = 1
      <4>1. 1 \in 1 .. n - k + 1 /\ k + 1 - 1 = k
        BY <1>1, <1>4
      <4> QED
        BY <2>2, <2>4, <3>1, <4>1
    <3>2. CASE i # 1
      <4>1. i \in 1 .. n - k + 1 /\ i - 1 \in 1 .. n - k /\ k + 1 + (i - 1) - 1 = k + i - 1 /\ i - 1 + 1 = i
        BY <1>1, <1>4, <2>2, <3>2
      <4>2. v[i - 1] = f[k + i - 1]
        BY <2>3, <4>1
      <4>3. w[i - 1 + 1] = v[i - 1]
        BY <2>3, <2>4, <4>1
      <4> QED
        BY <2>2, <4>1, <4>2, <4>3
    <3> QED
      BY <3>1, <3>2
  <2>6. u \in Seq(Chars) /\ Len(u) = Len(w) /\ v \in Seq(Chars)
    BY <1>1, <1>4, <2>1, <2>2, <2>3, <2>4
  <2> HIDE DEF u, v, w
  <2>7. u = w
    BY <2>4, <2>5, <2>6, SeqEqual
  <2>8. (<< f[k] >> \o v) \o rest = << f[k] >> \o (v \o rest)
    BY <2>1, <2>6, Regroup
  <2>9. PlainFrom(f, k, rest) = u \o rest /\ PlainFrom(f, k + 1, rest) = v \o rest
    BY DEF PlainFrom, u, v
  <2>10. PlainFrom(f, k, rest) = << f[k] >> \o PlainFrom(f, k + 1, rest)
    BY <2>7, <2>8, <2>9 DEF w
  <2> QED
    BY <1>2, <1>4, <2>10
<1> QED
  BY <1>3, <1>4

(* Its next character.                                                     *)
LEMMA PlainNext ==
  ASSUME NEW f \in Seq(Chars), NEW k \in 1 .. Len(f), NEW rest \in Seq(Chars)
  PROVE  PlainFrom(f, k, rest) = << f[k] >> \o PlainFrom(f, k + 1, rest)
<1>1. k \in 1 .. Len(f) + 1 /\ k <= Len(f)
  OBVIOUS
<1> QED
  BY <1>1, PlainUnfolds

(* A table has rows, its rows have fields, and no field a carriage return. *)
LEMMA TableTypes ==
  ASSUME NEW r, Table(r)
  PROVE  /\ Len(r) \in Nat /\ Len(r) # 0
         /\ \A i \in 1 .. Len(r) :
              /\ r[i] \in Seq(Seq(Chars)) /\ Len(r[i]) \in Nat /\ Len(r[i]) # 0
              /\ \A j \in 1 .. Len(r[i]) :
                   /\ r[i][j] \in Seq(Chars)
                   /\ \A k \in 1 .. Len(r[i][j]) : r[i][j][k] # Return
<1> DEFINE Plain == Chars \ {Return}
<1>1. ASSUME NEW f \in Seq(Plain) PROVE f \in Seq(Chars) /\ \A k \in 1 .. Len(f) : f[k] # Return
  <2>1. \A k \in 1 .. Len(f) : f[k] \in Chars /\ f[k] # Return
    OBVIOUS
  <2>2. f = [k \in 1 .. Len(f) |-> f[k]] /\ Len(f) \in Nat
    OBVIOUS
  <2> QED
    BY <2>1, <2>2
<1>2. r \in Seq(Seq(Seq(Plain))) /\ r # << >> /\ \A i \in DOMAIN r : r[i] # << >>
  BY DEF Table
<1> DEFINE T == Seq(Plain)
<1>3. \A f \in T : f \in Seq(Chars) /\ \A k \in 1 .. Len(f) : f[k] # Return
  BY <1>1
<1> HIDE DEF T
<1>4. r \in Seq(Seq(T))
  BY <1>2 DEF T
<1>5. Len(r) \in Nat /\ Len(r) # 0 /\ DOMAIN r = 1 .. Len(r)
  BY <1>2, <1>4
<1>6. ASSUME NEW i \in 1 .. Len(r)
      PROVE  /\ r[i] \in Seq(Seq(Chars)) /\ Len(r[i]) \in Nat /\ Len(r[i]) # 0
             /\ \A j \in 1 .. Len(r[i]) :
                  /\ r[i][j] \in Seq(Chars)
                  /\ \A k \in 1 .. Len(r[i][j]) : r[i][j][k] # Return
  <2> DEFINE row == r[i]
  <2>1. row \in Seq(T) /\ row # << >>
    <3>1. row \in Seq(T)
      BY <1>4
    <3>2. row # << >>
      BY <1>2, <1>5, Zenon
    <3> QED
      BY <3>1, <3>2
  <2> HIDE DEF row
  <2>2. Len(row) \in Nat /\ Len(row) # 0 /\ \A j \in 1 .. Len(row) : row[j] \in T
    BY <2>1
  <2>3. row = [j \in 1 .. Len(row) |-> row[j]]
    BY <2>1
  <2>4. \A j \in 1 .. Len(row) : row[j] \in Seq(Chars) /\ \A k \in 1 .. Len(row[j]) : row[j][k] # Return
    BY <1>3, <2>2
  <2> DEFINE S == Seq(Chars)
  <2>5. \A j \in 1 .. Len(row) : row[j] \in S
    BY <2>4
  <2> HIDE DEF S
  <2>6. row \in Seq(S)
    BY <2>2, <2>3, <2>5
  <2> QED
    BY <2>2, <2>4, <2>6 DEF row, S
<1> QED
  BY <1>5, <1>6

(* Either the field is quoted, and its text begins with a quote, or its    *)
(* text is the field.                                                      *)
LEMMA WrittenUnfolds ==
  ASSUME NEW f \in Seq(Chars), NEW style \in Styles, NEW rest \in Seq(Chars)
  PROVE  /\ Written(f, style) \in Seq(Chars)
         /\ IsQuoted(f, style) =>
              Written(f, style) \o rest = << Quote >> \o QuotedFrom(f, 1, rest)
         /\ ~ IsQuoted(f, style) => Written(f, style) \o rest = PlainFrom(f, 1, rest)
<1>0. 1 \in 1 .. Len(f) + 1 /\ Quote \in Chars
  BY CharTypes
<1> DEFINE q == InQuotes(f)[1]
           o == << Quote >>
<1>1. q \in Seq(Chars) /\ o \in Seq(Chars)
  BY <1>0, QuotedType
<1>2. QuotedFrom(f, 1, rest) = q \o (o \o rest)
  BY DEF QuotedFrom
<1>3. Written(f, style) = IF IsQuoted(f, style) THEN o \o (q \o o) ELSE f
  BY DEF Written
<1> HIDE DEF q, o
<1>4. q \o o \in Seq(Chars) /\ o \o (q \o o) \in Seq(Chars)
  BY <1>1, ConcatProperties
<1>5. (o \o (q \o o)) \o rest = o \o ((q \o o) \o rest)
  <2> DEFINE m == q \o o
  <2>1. m \in Seq(Chars)
    BY <1>4
  <2> HIDE DEF m
  <2>2. (o \o m) \o rest = o \o (m \o rest)
    BY <1>1, <2>1, Regroup, Zenon
  <2> QED
    BY <2>2 DEF m
<1>6. (q \o o) \o rest = q \o (o \o rest)
  BY <1>1, Regroup, Zenon
<1>7. IsQuoted(f, style) => Written(f, style) \o rest = o \o QuotedFrom(f, 1, rest)
  BY <1>2, <1>3, <1>5, <1>6
<1>8. ~ IsQuoted(f, style) => Written(f, style) \o rest = PlainFrom(f, 1, rest)
  <2>1. f \o rest = PlainFrom(f, 1, rest)
    BY <1>0, PlainUnfolds, Zenon
  <2> QED
    BY <1>3, <2>1, Zenon
<1>9. Written(f, style) \in Seq(Chars)
  BY <1>3, <1>4
<1> QED
  BY <1>7, <1>8, <1>9 DEF o

(* A line is its fields, separated by delimiters.                          *)
LEMMA LineType ==
  ASSUME NEW row \in Seq(Seq(Chars)), NEW style \in Styles, NEW j \in 1 .. Len(row) + 1
  PROVE  /\ Line(row, style)[j] \in Seq(Chars)
         /\ j > Len(row) => Line(row, style)[j] = << >>
         /\ j <= Len(row) =>
              LET sep == IF j = Len(row) THEN << >> ELSE << Delimiter >>
              IN  Line(row, style)[j] = (Written(row[j], style) \o sep) \o Line(row, style)[j + 1]
<1> DEFINE piece(i) == Written(row[i], style) \o (IF i = Len(row) THEN << >> ELSE << Delimiter >>)
           p == [i \in 1 .. Len(row) |-> piece(i)]
<1>1. ASSUME NEW i \in 1 .. Len(row) PROVE piece(i) \in Seq(Chars)
  <2>1. row[i] \in Seq(Chars)
    OBVIOUS
  <2>2. Written(row[i], style) \in Seq(Chars)
    BY <2>1, WrittenUnfolds, EmptyIsNoPart
  <2>3. (IF i = Len(row) THEN << >> ELSE << Delimiter >>) \in Seq(Chars)
    BY CharTypes
  <2> QED
    BY <2>2, <2>3, ConcatProperties
<1>2. Line(row, style) = Joined(p)
  BY DEF Line
<1>3. \A i \in 1 .. Len(row) : p[i] = piece(i)
  OBVIOUS
<1>4. p \in Seq(Seq(Chars)) /\ Len(p) = Len(row)
  BY <1>1
<1> HIDE DEF p
<1>5. /\ Joined(p)[j] \in Seq(Chars)
      /\ Joined(p)[j] = IF j > Len(p) THEN << >> ELSE p[j] \o Joined(p)[j + 1]
  BY <1>4, JoinedUnfolds
<1>6. j <= Len(row) => ~ (j > Len(p)) /\ j \in 1 .. Len(row)
  BY <1>4
<1> QED
  BY <1>2, <1>3, <1>4, <1>5, <1>6

(* A line ends with one of two sequences, and the last one may not end.    *)
LEMMA EndType ==
  ASSUME NEW r, NEW i, NEW style \in Styles
  PROVE  /\ LineEnd(r, i, style) \in Seq(Chars)
         /\ LineEnd(r, i, style) \in {<< Newline >>, << Return >> \o << Newline >>, << >>}
         /\ LineEnd(r, i, style) = << >> => i = Len(r) /\ ~ style.ended
<1>1. style.eol \in {<< Newline >>, << Return, Newline >>}
  BY DEF Styles
<1>2. << Return, Newline >> = << Return >> \o << Newline >> /\ << Return, Newline >> # << >> /\ << Newline >> # << >>
  OBVIOUS
<1>3. << Newline >> \in Seq(Chars) /\ << Return, Newline >> \in Seq(Chars) /\ << >> \in Seq(Chars)
  BY CharTypes
<1>4. CASE i = Len(r) /\ ~ style.ended
  BY <1>3, <1>4 DEF LineEnd
<1>5. CASE ~ (i = Len(r) /\ ~ style.ended)
  <2>1. LineEnd(r, i, style) = style.eol
    BY <1>5 DEF LineEnd
  <2> QED
    BY <1>1, <1>2, <1>3, <2>1
<1> QED
  BY <1>4, <1>5

(* A text is its lines.                                                    *)
LEMMA LinesUnfold ==
  ASSUME NEW r, Table(r), NEW style \in Styles, NEW i \in 1 .. Len(r) + 1
  PROVE  /\ Lines(r, style)[i] \in Seq(Chars)
         /\ i > Len(r) => Lines(r, style)[i] = << >>
         /\ i <= Len(r) => Lines(r, style)[i] = LineFrom(r, style, i, 1)
<1> DEFINE piece(k) == Line(r[k], style)[1] \o LineEnd(r, k, style)
           p == [k \in 1 .. Len(r) |-> piece(k)]
<1>0. \A k \in 1 .. Len(r) : r[k] \in Seq(Seq(Chars)) /\ Len(r[k]) \in Nat
  BY TableTypes
<1>1. ASSUME NEW k \in 1 .. Len(r)
      PROVE  piece(k) \in Seq(Chars) /\ Line(r[k], style)[1] \in Seq(Chars) /\ LineEnd(r, k, style) \in Seq(Chars)
  <2>1. r[k] \in Seq(Seq(Chars)) /\ 1 \in 1 .. Len(r[k]) + 1
    BY <1>0
  <2>2. Line(r[k], style)[1] \in Seq(Chars)
    BY <2>1, LineType
  <2>3. LineEnd(r, k, style) \in Seq(Chars)
    BY EndType
  <2> QED
    BY <2>2, <2>3, ConcatProperties
<1>2. Lines(r, style) = Joined(p)
  BY DEF Lines
<1>3. \A k \in 1 .. Len(r) : p[k] = piece(k)
  OBVIOUS
<1>4. Len(r) \in Nat
  BY TableTypes
<1>5. p \in Seq(Seq(Chars)) /\ Len(p) = Len(r)
  BY <1>1, <1>4
<1> HIDE DEF p
<1>6. \A k \in 1 .. Len(r) + 1 :
        /\ Joined(p)[k] \in Seq(Chars)
        /\ Joined(p)[k] = IF k > Len(p) THEN << >> ELSE p[k] \o Joined(p)[k + 1]
  BY <1>5, JoinedUnfolds
<1>7. CASE i > Len(r)
  BY <1>2, <1>5, <1>6, <1>7
<1>8. CASE i <= Len(r)
  <2>1. i \in 1 .. Len(r) /\ i + 1 \in 1 .. Len(r) + 1 /\ ~ (i > Len(p))
    BY <1>4, <1>5, <1>8
  <2> DEFINE a == Line(r[i], style)[1]
             b == LineEnd(r, i, style)
             c == Lines(r, style)[i + 1]
  <2>2. Lines(r, style)[i] = piece(i) \o c
    BY <1>2, <1>3, <1>6, <2>1
  <2>3. a \in Seq(Chars) /\ b \in Seq(Chars)
    BY <1>1, <2>1
  <2>4. c \in Seq(Chars)
    BY <1>2, <1>6, <2>1
  <2>5. piece(i) = a \o b /\ LineFrom(r, style, i, 1) = a \o (b \o c)
    BY DEF LineFrom
  <2> HIDE DEF a, b, c, piece
  <2>6. (a \o b) \o c = a \o (b \o c)
    BY <2>3, <2>4, Regroup, Zenon
  <2>7. Lines(r, style)[i] \in Seq(Chars)
    BY <1>2, <1>6
  <2> QED
    BY <1>8, <2>1, <2>2, <2>5, <2>6, <2>7
<1> QED
  BY <1>4, <1>7, <1>8

(* The rest of a line is its next field and something behind it.           *)
LEMMA LineUnfolds ==
  ASSUME NEW r, Table(r), NEW style \in Styles, NEW i \in 1 .. Len(r), NEW j \in 1 .. Len(r[i])
  PROVE  \E rest \in Behind(r, style, i, j) : LineFrom(r, style, i, j) = Written(r[i][j], style) \o rest
<1> DEFINE w == Written(r[i][j], style)
           sep == IF j = Len(r[i]) THEN << >> ELSE << Delimiter >>
           l == Line(r[i], style)[j + 1]
           e == LineEnd(r, i, style)
           t == Lines(r, style)[i + 1]
<1>1. /\ r[i] \in Seq(Seq(Chars)) /\ Len(r[i]) \in Nat /\ r[i][j] \in Seq(Chars)
      /\ Len(r) \in Nat
  BY TableTypes
<1>2. j + 1 \in 1 .. Len(r[i]) + 1 /\ i + 1 \in 1 .. Len(r) + 1 /\ j <= Len(r[i]) /\ j \in 1 .. Len(r[i]) + 1
  BY <1>1
<1>3. w \in Seq(Chars)
  BY <1>1, WrittenUnfolds, EmptyIsNoPart
<1>4. l \in Seq(Chars) /\ sep \in Seq(Chars)
  <2>1. l \in Seq(Chars)
    BY <1>1, <1>2, LineType
  <2>2. << Delimiter >> \in Seq(Chars) /\ << >> \in Seq(Chars)
    BY CharTypes
  <2> QED
    BY <2>1, <2>2
<1>5. e \in Seq(Chars) /\ t \in Seq(Chars)
  BY <1>2, EndType, LinesUnfold
<1>6. Line(r[i], style)[j] = (w \o sep) \o l
  BY <1>1, <1>2, LineType
<1>7. LineFrom(r, style, i, j) = ((w \o sep) \o l) \o (e \o t)
  BY <1>6 DEF LineFrom
<1> DEFINE u == e \o t
<1>8. LineFrom(r, style, i, j + 1) = l \o u
  BY DEF LineFrom
<1>9. u \in Seq(Chars)
  BY <1>5, ConcatProperties
<1> DEFINE rest == sep \o (l \o u)
<1>10. LineFrom(r, style, i, j) = w \o rest
  <2> DEFINE v == l \o u
             x == w \o sep
  <2> HIDE DEF w, sep, l, u
  <2>1. x \in Seq(Chars) /\ v \in Seq(Chars)
    BY <1>3, <1>4, <1>9, ConcatProperties
  <2>2. x \o v = w \o (sep \o v)
    <3> HIDE DEF v
    <3> QED
      <4>1. (w \o sep) \o v = w \o (sep \o v)
        BY <1>3, <1>4, <2>1, Regroup, Zenon
      <4> QED
        BY <4>1 DEF x
  <2>3. (x \o l) \o u = x \o (l \o u)
    <3> HIDE DEF x
    <3> QED
      BY <1>4, <1>9, <2>1, Regroup, Zenon
  <2> QED
    BY <1>7, <2>2, <2>3 DEF u
<1>11. CASE j # Len(r[i])
  <2>1. j < Len(r[i]) /\ sep = << Delimiter >>
    BY <1>1, <1>11
  <2>2. rest = << Delimiter >> \o LineFrom(r, style, i, j + 1)
    BY <1>8, <2>1
  <2> QED
    BY <1>10, <2>1, <2>2 DEF Behind
<1>12. CASE j = Len(r[i])
  <2>1. sep = << >> /\ l = << >> /\ ~ (j < Len(r[i]))
    <3>1. j + 1 > Len(r[i]) /\ ~ (j < Len(r[i]))
      BY <1>1, <1>12
    <3>2. l = << >>
      BY <1>1, <1>2, <3>1, LineType
    <3> QED
      BY <1>12, <3>1, <3>2
  <2>2. rest = u
    <3> HIDE DEF u
    <3> QED
      BY <1>9, <2>1, EmptyIsNoPart
  <2>3. u \in Behind(r, style, i, j)
    <3>1. CASE e = << Newline >>
      BY <2>1, <3>1 DEF Behind
    <3>2. CASE e = << Return >> \o << Newline >>
      <4>1. << Return >> \in Seq(Chars) /\ << Newline >> \in Seq(Chars)
        BY CharTypes
      <4>2. (<< Return >> \o << Newline >>) \o t = << Return >> \o (<< Newline >> \o t)
        BY <1>5, <4>1, Regroup, Zenon
      <4> QED
        BY <2>1, <3>2, <4>2 DEF Behind
    <3>3. CASE e = << >>
      <4>1. i = Len(r) /\ ~ style.ended
        BY <3>3, EndType
      <4>2. t = << >>
        BY <1>1, <1>2, <4>1, LinesUnfold
      <4> QED
        BY <2>1, <3>3, <4>1, <4>2, EmptyIsNoPart DEF Behind
    <3> QED
      BY <3>1, <3>2, <3>3, EndType
  <2> QED
    BY <1>10, <2>2, <2>3
<1> QED
  BY <1>11, <1>12

(* What may stand behind a field.                                          *)
LEMMA BehindType ==
  ASSUME NEW r, Table(r), NEW style \in Styles, NEW i \in 1 .. Len(r), NEW j \in 1 .. Len(r[i]),
         NEW rest \in Behind(r, style, i, j)
  PROVE  rest \in Seq(Chars) /\ Lines(r, style)[i + 1] \in Seq(Chars)
<1>1. Len(r) \in Nat /\ r[i] \in Seq(Seq(Chars)) /\ Len(r[i]) \in Nat
  BY TableTypes
<1>2. i + 1 \in 1 .. Len(r) + 1
  BY <1>1
<1> DEFINE t == Lines(r, style)[i + 1]
<1>3. t \in Seq(Chars)
  BY <1>2, LinesUnfold
<1>4. j < Len(r[i]) => LineFrom(r, style, i, j + 1) \in Seq(Chars)
  <2>1. j < Len(r[i]) => j + 1 \in 1 .. Len(r[i]) + 1
    BY <1>1
  <2>2. j < Len(r[i]) => Line(r[i], style)[j + 1] \in Seq(Chars)
    BY <1>1, <2>1, LineType
  <2>3. LineEnd(r, i, style) \o t \in Seq(Chars)
    BY <1>3, EndType, ConcatProperties
  <2> QED
    BY <2>2, <2>3, ConcatProperties DEF LineFrom
<1> HIDE DEF t
<1>5. << Newline >> \o t \in Seq(Chars) /\ << Return >> \o (<< Newline >> \o t) \in Seq(Chars)
  BY <1>3, CharTypes, InFront
<1>6. j < Len(r[i]) => << Delimiter >> \o LineFrom(r, style, i, j + 1) \in Seq(Chars)
  BY <1>4, CharTypes, InFront
<1>7. Behind(r, style, i, j) =
        IF j < Len(r[i]) THEN {<< Delimiter >> \o LineFrom(r, style, i, j + 1)}
        ELSE {<< Newline >> \o t, << Return >> \o (<< Newline >> \o t)}
               \cup {g \in {<< >>} : i = Len(r) /\ ~ style.ended}
  BY DEF Behind, t
<1> QED
  BY <1>3, <1>5, <1>6, <1>7, EmptyIsNoPart DEF t

(* What stands behind a field is read as its end.                          *)
LEMMA BehindRead ==
  ASSUME file \in Texts, at \in 0 .. Len(file.text),
         NEW r, Table(r), NEW style \in Styles, NEW i \in 1 .. Len(r), NEW j \in 1 .. Len(r[i]),
         NEW rest \in Behind(r, style, i, j), Unread = rest
  PROVE  /\ currChar \in {Delimiter, Newline, Return}
         /\ currChar = Delimiter =>
              j < Len(r[i]) /\ (Advance /\ file' = file => Unread' = LineFrom(r, style, i, j + 1))
         /\ currChar = Newline =>
              j = Len(r[i]) /\ (Advance /\ file' = file => Unread' = Lines(r, style)[i + 1])
         /\ currChar = Return =>
              ~ Eof /\ (Advance /\ file' = file => Unread' \in Behind(r, style, i, j))
         /\ Eof => i = Len(r) /\ j = Len(r[i]) /\ ~ style.ended
<1>0. /\ Newline # Delimiter /\ Newline # Return /\ Delimiter # Return
      /\ Newline \in Chars /\ Delimiter \in Chars /\ Return \in Chars
  BY CharTypes DEF Newline, Delimiter, Return
<1>1. Len(r) \in Nat /\ Len(r[i]) \in Nat
  BY TableTypes
<1> DEFINE t == Lines(r, style)[i + 1]
<1>2. t \in Seq(Chars) /\ << Newline >> \o t \in Seq(Chars)
  <2>1. t \in Seq(Chars)
    BY BehindType
  <2> HIDE DEF t
  <2> QED
    BY <1>0, <2>1, InFront
<1>3. Behind(r, style, i, j) =
        IF j < Len(r[i]) THEN {<< Delimiter >> \o LineFrom(r, style, i, j + 1)}
        ELSE {<< Newline >> \o t, << Return >> \o (<< Newline >> \o t)}
               \cup {g \in {<< >>} : i = Len(r) /\ ~ style.ended}
  BY DEF Behind
<1>4. CASE j < Len(r[i])
  <2> DEFINE l == LineFrom(r, style, i, j + 1)
  <2>1. Unread = << Delimiter >> \o l
    BY <1>3, <1>4
  <2>2. l \in Seq(Chars)
    <3>1. j + 1 \in 1 .. Len(r[i])
      BY <1>1, <1>4
    <3>2. PICK k \in 1 .. Len(r[i]) : k = j + 1
      BY <3>1
    <3>3. PICK g \in Behind(r, style, i, k) : LineFrom(r, style, i, k) = Written(r[i][k], style) \o g
      BY LineUnfolds
    <3>4. g \in Seq(Chars)
      BY BehindType
    <3>5. r[i][k] \in Seq(Chars)
      BY TableTypes
    <3>6. Written(r[i][k], style) \in Seq(Chars)
      BY <3>4, <3>5, WrittenUnfolds
    <3> QED
      BY <3>2, <3>3, <3>4, <3>6, ConcatProperties
  <2> HIDE DEF l
  <2>3. ~ Eof /\ currChar = Delimiter /\ (Advance /\ file' = file => Unread' = l)
    BY <1>0, <2>1, <2>2, NextChar
  <2> QED
    BY <1>0, <1>4, <2>3 DEF l
<1>5. CASE ~ (j < Len(r[i]))
  <2>0. j = Len(r[i])
    BY <1>1, <1>5
  <2>1. CASE Unread = << Newline >> \o t
    <3>1. ~ Eof /\ currChar = Newline /\ (Advance /\ file' = file => Unread' = t)
      <4> HIDE DEF t
      <4> QED
        BY <1>0, <1>2, <2>1, NextChar
    <3> QED
      BY <1>0, <2>0, <3>1
  <2>2. CASE Unread = << Return >> \o (<< Newline >> \o t)
    <3> DEFINE n == << Newline >> \o t
    <3>1. ~ Eof /\ currChar = Return /\ (Advance /\ file' = file => Unread' = n)
      <4>1. n \in Seq(Chars) /\ Unread = << Return >> \o n
        BY <1>2, <2>2
      <4> HIDE DEF n
      <4> QED
        BY <1>0, <4>1, NextChar
    <3>2. n \in Behind(r, style, i, j)
      BY <1>3, <1>5
    <3> HIDE DEF n
    <3> QED
      BY <1>0, <3>1, <3>2
  <2>3. CASE Unread = << >> /\ i = Len(r) /\ ~ style.ended
    <3>1. Eof /\ currChar = Newline /\ (Advance /\ file' = file => Unread' = << >>)
      BY <2>3, NothingUnread
    <3>2. t = << >>
      <4>1. i + 1 \in 1 .. Len(r) + 1 /\ i + 1 > Len(r)
        BY <1>1, <2>3
      <4> QED
        BY <4>1, LinesUnfold
    <3> QED
      BY <1>0, <2>0, <2>3, <3>1, <3>2
  <2> QED
    BY <1>3, <1>5, <2>1, <2>2, <2>3
<1> QED
  BY <1>4, <1>5

(* From a field on: its opening quote or itself, and something behind it.  *)
Opens(r, style, i, j, rest) ==
  LineFrom(r, style, i, j) =
    IF IsQuoted(r[i][j], style) THEN << Quote >> \o QuotedFrom(r[i][j], 1, rest)
    ELSE PlainFrom(r[i][j], 1, rest)

(* Every field of a table opens this way.                                  *)
LEMMA FieldUnfolds ==
  ASSUME NEW r, Table(r), NEW style \in Styles, NEW i \in 1 .. Len(r), NEW j \in 1 .. Len(r[i])
  PROVE  \E rest \in Behind(r, style, i, j) : Opens(r, style, i, j, rest)
<1>1. PICK rest \in Behind(r, style, i, j) : LineFrom(r, style, i, j) = Written(r[i][j], style) \o rest
  BY LineUnfolds
<1>2. rest \in Seq(Chars) /\ r[i][j] \in Seq(Chars)
  BY BehindType, TableTypes
<1>3. Opens(r, style, i, j, rest)
  BY <1>1, <1>2, WrittenUnfolds DEF Opens
<1> QED
  BY <1>3

-----------------------------------------------------------------------------
(* In a field f: before it, among its characters, inside its quotes,       *)
(* between the two quotes that stand for one, behind its closing quote.    *)
InPlain(f, rest) ==
  /\ IsBegin(field, f)
  /\ ~ lastCharIsQuote /\ ~ inside_complex_field /\ (field = << >> => seriesOfQuotesLength = 0)
  /\ Unread = PlainFrom(f, Len(field) + 1, rest)
AtQuote(f, rest) ==
  /\ field = << >> /\ ~ lastCharIsQuote /\ seriesOfQuotesLength = 0
  /\ Unread = << Quote >> \o QuotedFrom(f, 1, rest)
Inside(f, rest) ==
  /\ IsBegin(field, f) /\ (field = << >> => lastCharIsQuote)
  /\ inside_complex_field /\ seriesOfQuotesLength % 2 = 0
  /\ Unread = QuotedFrom(f, Len(field) + 1, rest)
Halfway(f, rest) ==
  /\ IsBegin(field, f) /\ field # << >> /\ field[Len(field)] = Quote
  /\ lastCharIsQuote /\ ~ inside_complex_field /\ seriesOfQuotesLength % 2 = 1
  /\ Unread = << Quote >> \o QuotedFrom(f, Len(field) + 1, rest)
Closed(f, rest) ==
  /\ field = Append(f, Quote) /\ lastCharIsQuote /\ ~ inside_complex_field
  /\ Unread = rest

InField(f, style, rest) ==
  IF IsQuoted(f, style)
    THEN AtQuote(f, rest) \/ Inside(f, rest) \/ Halfway(f, rest) \/ Closed(f, rest)
    ELSE InPlain(f, rest)

(* The beginnings of a sequence.                                           *)
LEMMA BeginGrows ==
  ASSUME NEW S, NEW s \in Seq(S), NEW t \in Seq(S), IsBegin(s, t), Len(s) < Len(t)
  PROVE  /\ Len(s) + 1 \in 1 .. Len(t)
         /\ Append(s, t[Len(s) + 1]) \in Seq(S) /\ IsBegin(Append(s, t[Len(s) + 1]), t)
         /\ Len(Append(s, t[Len(s) + 1])) = Len(s) + 1
         /\ Append(s, t[Len(s) + 1]) # << >>
         /\ Append(s, t[Len(s) + 1])[Len(s) + 1] = t[Len(s) + 1]
  BY DEF IsBegin

(* A beginning that is not shorter is the whole.                           *)
LEMMA BeginIsAll ==
  ASSUME NEW S, NEW s \in Seq(S), NEW t \in Seq(S), IsBegin(s, t), ~ (Len(s) < Len(t))
  PROVE  s = t
<1>1. Len(s) = Len(t) /\ \A i \in 1 .. Len(s) : s[i] = t[i]
  BY DEF IsBegin
<1> QED
  BY <1>1, SeqEqual

(* The field is over, whatever it is: its value is f, and it may end.      *)
Over(f, rest) ==
  /\ Unread = rest /\ Value = f /\ ~ inside_complex_field
  /\ FieldStart => seriesOfQuotesLength = 0 /\ f = << >>

(* Behind its closing quote a field is over; Value cuts the quote off.     *)
LEMMA ClosedIsOver ==
  ASSUME NEW f \in Seq(Chars), NEW rest, Closed(f, rest)
  PROVE  Over(f, rest)
<1>1. field = Append(f, Quote) /\ lastCharIsQuote
  BY DEF Closed
<1>2. Len(field) = Len(f) + 1 /\ Len(f) \in Nat /\ field \in Seq(Chars) /\ \A i \in 1 .. Len(f) : field[i] = f[i]
  BY <1>1, CharTypes, AppendProperties
<1> DEFINE v == SubSeq(field, 1, Len(f))
<1>3. v \in Seq(Chars) /\ Len(v) = Len(f) /\ \A i \in 1 .. Len(f) : v[i] = field[1 + i - 1]
  <2>1. 1 \in 1 .. Len(field) + 1 /\ Len(f) \in 1 - 1 .. Len(field)
    BY <1>2
  <2> QED
    BY <1>2, <2>1, SubSeqProperties
<1>4. \A i \in 1 .. Len(f) : v[i] = f[i]
  BY <1>2, <1>3
<1> HIDE DEF v
<1>5. v = f
  BY <1>3, <1>4, SeqEqual
<1>6. Len(field) - 1 = Len(f)
  BY <1>2
<1>7. Value = f
  BY <1>1, <1>5, <1>6 DEF Value, v
<1> QED
  BY <1>1, <1>7 DEF Over, Closed, FieldStart

(* So is a field that is not quoted once all of it is stored.              *)
LEMMA PlainIsOver ==
  ASSUME NEW f \in Seq(Chars), NEW rest \in Seq(Chars), InPlain(f, rest), field \in Seq(Chars),
         ~ (Len(field) < Len(f))
  PROVE  Over(f, rest)
<1>1. field = f
  BY BeginIsAll DEF InPlain
<1>2. Len(f) + 1 \in 1 .. Len(f) + 1 /\ Len(f) + 1 > Len(f)
  OBVIOUS
<1>3. Unread = rest
  BY <1>1, <1>2, PlainUnfolds DEF InPlain
<1> QED
  BY <1>1, <1>3 DEF Over, InPlain, Value, FieldStart

(* The next character, in each part of a field.                            *)
LEMMA PlainChar ==
  ASSUME file \in Texts, at \in 0 .. Len(file.text), field \in Seq(Chars),
         NEW f \in Seq(Chars), NEW rest \in Seq(Chars), NEW style \in Styles,
         ~ IsQuoted(f, style), InPlain(f, rest), Len(field) < Len(f)
  PROVE  /\ ~ Eof /\ currChar = f[Len(field) + 1] /\ currChar \in Letters
         /\ Advance /\ file' = file => Unread' = PlainFrom(f, Len(field) + 1 + 1, rest)
<1>1. Len(field) + 1 \in 1 .. Len(f) /\ Len(field) + 1 <= Len(f) /\ Len(field) + 1 \in 1 .. Len(f) + 1
  OBVIOUS
<1> DEFINE k == Len(field) + 1
           c == f[k]
           s == PlainFrom(f, k + 1, rest)
<1>2. c \in Chars /\ c \in Letters
  BY <1>1 DEF IsQuoted
<1>3. Unread = << c >> \o s
  <2>1. PlainFrom(f, k, rest) = << c >> \o s
    <3>1. k \in 1 .. Len(f)
      BY <1>1
    <3> HIDE DEF k
    <3> QED
      BY <3>1, PlainNext
  <2> QED
    BY <2>1, Zenon DEF InPlain
<1>4. s \in Seq(Chars)
  <2>1. k + 1 \in 1 .. Len(f) + 1
    BY <1>1
  <2> QED
    BY <2>1, PlainUnfolds
<1> HIDE DEF c, s
<1>5. ~ Eof /\ currChar = c /\ (Advance /\ file' = file => Unread' = s)
  BY <1>2, <1>3, <1>4, NextChar
<1> QED
  BY <1>2, <1>5 DEF c, s

(* A quote is unread.                                                      *)
LEMMA QuoteChar ==
  ASSUME file \in Texts, at \in 0 .. Len(file.text), NEW s \in Seq(Chars),
         Unread = << Quote >> \o s
  PROVE  ~ Eof /\ currChar = Quote /\ (Advance /\ file' = file => Unread' = s)
  BY CharTypes, NextChar

(* Inside the quotes: the closing quote, the first of two quotes, or a     *)
(* character of the field.                                                 *)
LEMMA InsideChar ==
  ASSUME file \in Texts, at \in 0 .. Len(file.text), field \in Seq(Chars),
         NEW f \in Seq(Chars), NEW rest \in Seq(Chars), Inside(f, rest)
  PROVE  /\ ~ Eof
         /\ ~ (Len(field) < Len(f)) =>
              /\ currChar = Quote /\ field = f
              /\ Advance /\ file' = file => Unread' = rest
         /\ Len(field) < Len(f) /\ f[Len(field) + 1] = Quote =>
              /\ currChar = Quote
              /\ Advance /\ file' = file =>
                   Unread' = << Quote >> \o QuotedFrom(f, Len(field) + 1 + 1, rest)
         /\ Len(field) < Len(f) /\ f[Len(field) + 1] # Quote =>
              /\ currChar = f[Len(field) + 1]
              /\ Advance /\ file' = file => Unread' = QuotedFrom(f, Len(field) + 1 + 1, rest)
<1> DEFINE k == Len(field) + 1
           s == QuotedFrom(f, k + 1, rest)
<1>1. CASE ~ (Len(field) < Len(f))
  <2>1. field = f
    BY <1>1, BeginIsAll DEF Inside
  <2>2. Len(f) + 1 \in 1 .. Len(f) + 1 /\ Len(f) + 1 > Len(f)
    OBVIOUS
  <2>3. Unread = << Quote >> \o rest
    BY <2>1, <2>2, QuotedUnfolds DEF Inside
  <2> QED
    BY <1>1, <2>1, <2>3, QuoteChar
<1>2. CASE Len(field) < Len(f)
  <2>1. k \in 1 .. Len(f) /\ k <= Len(f) /\ k \in 1 .. Len(f) + 1 /\ k + 1 \in 1 .. Len(f) + 1
    BY <1>2
  <2>2. s \in Seq(Chars) /\ f[k] \in Chars
    <3>1. s \in Seq(Chars)
      BY <2>1, QuotedUnfolds
    <3>2. f[k] \in Chars
      BY <2>1
    <3> QED
      BY <3>1, <3>2
  <2>3. Unread = QuotedFrom(f, k, rest)
    BY DEF Inside
  <2>4. CASE f[k] = Quote
    <3> DEFINE u == << Quote >> \o s
    <3>1. Unread = << Quote >> \o u
      BY <2>1, <2>3, <2>4, QuotedUnfolds
    <3>2. u \in Seq(Chars)
      <4> HIDE DEF s
      <4> QED
        BY <2>2, CharTypes, InFront
    <3> HIDE DEF u
    <3>3. ~ Eof /\ currChar = Quote /\ (Advance /\ file' = file => Unread' = u)
      BY <3>1, <3>2, QuoteChar
    <3> QED
      BY <1>2, <2>4, <3>3 DEF u
  <2>5. CASE f[k] # Quote
    <3> DEFINE c == f[k]
    <3>1. Unread = << c >> \o s /\ c \in Chars
      BY <2>1, <2>2, <2>3, <2>5, QuotedUnfolds
    <3> HIDE DEF c, s
    <3>2. ~ Eof /\ currChar = c /\ (Advance /\ file' = file => Unread' = s)
      BY <2>2, <3>1, NextChar
    <3> QED
      BY <1>2, <2>5, <3>2 DEF c, s
  <2> QED
    BY <2>4, <2>5
<1> QED
  BY <1>1, <1>2

(* After the first of two quotes comes the second.                         *)
LEMMA HalfwayChar ==
  ASSUME file \in Texts, at \in 0 .. Len(file.text), field \in Seq(Chars),
         NEW f \in Seq(Chars), NEW rest \in Seq(Chars), Halfway(f, rest)
  PROVE  /\ ~ Eof /\ currChar = Quote
         /\ Advance /\ file' = file => Unread' = QuotedFrom(f, Len(field) + 1, rest)
<1> DEFINE s == QuotedFrom(f, Len(field) + 1, rest)
<1>1. Len(field) + 1 \in 1 .. Len(f) + 1
  BY DEF Halfway, IsBegin
<1>2. s \in Seq(Chars) /\ Unread = << Quote >> \o s
  BY <1>1, QuotedUnfolds DEF Halfway
<1> HIDE DEF s
<1> QED
  BY <1>2, QuoteChar DEF s

(* Before a quoted field comes its opening quote.                          *)
LEMMA AtQuoteChar ==
  ASSUME file \in Texts, at \in 0 .. Len(file.text),
         NEW f \in Seq(Chars), NEW rest \in Seq(Chars), AtQuote(f, rest)
  PROVE  /\ ~ Eof /\ currChar = Quote
         /\ Advance /\ file' = file => Unread' = QuotedFrom(f, 1, rest)
<1> DEFINE s == QuotedFrom(f, 1, rest)
<1>1. 1 \in 1 .. Len(f) + 1
  OBVIOUS
<1>2. s \in Seq(Chars) /\ Unread = << Quote >> \o s
  BY <1>1, QuotedUnfolds DEF AtQuote
<1> HIDE DEF s
<1> QED
  BY <1>2, QuoteChar DEF s

(* A field that is not over goes on: no carriage return, no end.           *)
LEMMA FieldGoesOn ==
  ASSUME file \in Texts, at \in 0 .. Len(file.text), field \in Seq(Chars),
         NEW f \in Seq(Chars), NEW rest \in Seq(Chars), NEW style \in Styles,
         \A k \in 1 .. Len(f) : f[k] # Return,
         InField(f, style, rest), ~ Over(f, rest)
  PROVE  ~ FieldEnds /\ currChar # Return
<1>0. Quote \notin {Delimiter, Newline, Return}
  BY DEF Quote, Delimiter, Newline, Return
<1>1. CASE ~ IsQuoted(f, style)
  <2>1. InPlain(f, rest) /\ Len(field) < Len(f)
    BY <1>1, PlainIsOver DEF InField
  <2>2. ~ Eof /\ currChar \in Letters
    BY <1>1, <2>1, PlainChar
  <2> QED
    BY <2>2, CharTypes DEF FieldEnds
<1>2. CASE IsQuoted(f, style)
  <2>1. CASE AtQuote(f, rest) \/ Halfway(f, rest)
    BY <1>0, <2>1, AtQuoteChar, HalfwayChar DEF FieldEnds
  <2>2. CASE Inside(f, rest)
    <3>1. ~ Eof /\ (currChar = Quote \/ (Len(field) < Len(f) /\ currChar = f[Len(field) + 1]))
      BY <2>2, InsideChar
    <3>2. currChar # Return
      BY <1>0, <3>1
    <3>3. CASE currChar = Quote
      BY <1>0, <3>1, <3>3 DEF FieldEnds
    <3>4. CASE currChar # Quote
      <4>1. InsideNow
        BY <2>2, <3>4 DEF InsideNow, Inside
      <4> QED
        BY <3>1, <3>2, <4>1 DEF FieldEnds
    <3> QED
      BY <3>3, <3>4, <3>2
  <2>3. CASE Closed(f, rest)
    BY <2>3, ClosedIsOver
  <2> QED
    BY <1>2, <2>1, <2>2, <2>3 DEF InField
<1> QED
  BY <1>1, <1>2

-----------------------------------------------------------------------------
(* What Store does in each part of a field.                                *)
LEMMA StorePlain ==
  ASSUME file \in Texts, at \in 0 .. Len(file.text), field \in Seq(Chars),
         NEW f \in Seq(Chars), NEW rest \in Seq(Chars), NEW style \in Styles,
         ~ IsQuoted(f, style), InPlain(f, rest), Len(field) < Len(f), Store
  PROVE  InPlain(f, rest)'
<1>1. /\ currChar = f[Len(field) + 1] /\ currChar # Quote
      /\ Unread' = PlainFrom(f, Len(field) + 1 + 1, rest)
  BY PlainChar, CharTypes DEF Store
<1>2. field' = Append(field, f[Len(field) + 1]) /\ ~ lastCharIsQuote'
  BY <1>1 DEF Store, Doubled
<1>3. IsBegin(field', f) /\ Len(field') = Len(field) + 1 /\ field' # << >>
  BY <1>2, BeginGrows DEF InPlain
<1>4. ~ inside_complex_field'
  BY <1>1 DEF Store, InsideNow, InPlain
<1> QED
  BY <1>1, <1>2, <1>3, <1>4 DEF InPlain

(* One more quote turns an even series into an odd one, and back.          *)
LEMMA Parity ==
  ASSUME NEW n \in Nat PROVE /\ n % 2 = 0 => (n + 1) % 2 = 1
                             /\ n % 2 = 1 => (n + 1) % 2 = 0
  OBVIOUS

(* Inside the quotes, a quote is stored and may turn out to be the first   *)
(* of two or the closing one; any other character is one of the field.     *)
LEMMA StoreInside ==
  ASSUME file \in Texts, at \in 0 .. Len(file.text), field \in Seq(Chars),
         seriesOfQuotesLength \in Nat,
         NEW f \in Seq(Chars), NEW rest \in Seq(Chars), Inside(f, rest), Store
  PROVE  Inside(f, rest)' \/ Halfway(f, rest)' \/ Closed(f, rest)'
<1>1. ~ FieldStart /\ inside_complex_field /\ seriesOfQuotesLength % 2 = 0
  BY DEF FieldStart, Inside
<1>2. Advance /\ file' = file
  BY DEF Store
<1>3. CASE currChar = Quote
  <2>1. SeriesNow = seriesOfQuotesLength + 1 /\ SeriesNow % 2 = 1
    BY <1>1, <1>3, Parity DEF SeriesNow
  <2>2. ~ InsideNow /\ ~ Doubled
    BY <1>1, <1>3, <2>1 DEF InsideNow, Doubled
  <2>3. /\ field' = Append(field, Quote) /\ ~ inside_complex_field' /\ lastCharIsQuote'
        /\ seriesOfQuotesLength' % 2 = 1
    BY <1>3, <2>1, <2>2 DEF Store
  <2>4. CASE ~ (Len(field) < Len(f))
    BY <1>2, <2>3, <2>4, InsideChar DEF Closed
  <2>5. CASE Len(field) < Len(f)
    <3>1. f[Len(field) + 1] = Quote
      BY <1>3, <2>5, InsideChar
    <3>2. Unread' = << Quote >> \o QuotedFrom(f, Len(field) + 1 + 1, rest)
      BY <1>2, <2>5, <3>1, InsideChar
    <3>3. /\ IsBegin(field', f) /\ Len(field') = Len(field) + 1 /\ field' # << >>
          /\ field'[Len(field) + 1] = Quote
      BY <2>3, <2>5, <3>1, BeginGrows DEF Inside
    <3> QED
      BY <2>3, <3>2, <3>3 DEF Halfway
  <2> QED
    BY <2>4, <2>5
<1>4. CASE currChar # Quote
  <2>1. Len(field) < Len(f) /\ currChar = f[Len(field) + 1]
        /\ Unread' = QuotedFrom(f, Len(field) + 1 + 1, rest)
    BY <1>2, <1>4, InsideChar
  <2>2. SeriesNow = 0 /\ InsideNow /\ ~ Doubled
    BY <1>1, <1>4 DEF SeriesNow, InsideNow, Doubled
  <2>3. /\ field' = Append(field, f[Len(field) + 1])
        /\ inside_complex_field' /\ seriesOfQuotesLength' = 0
    BY <2>1, <2>2 DEF Store
  <2>4. IsBegin(field', f) /\ Len(field') = Len(field) + 1 /\ field' # << >>
    BY <2>1, <2>3, BeginGrows DEF Inside
  <2> QED
    BY <2>1, <2>3, <2>4 DEF Inside
<1> QED
  BY <1>3, <1>4

(* The second of two quotes is stored over the first.                      *)
LEMMA StoreHalfway ==
  ASSUME file \in Texts, at \in 0 .. Len(file.text), field \in Seq(Chars),
         seriesOfQuotesLength \in Nat,
         NEW f \in Seq(Chars), NEW rest \in Seq(Chars), Halfway(f, rest), Store
  PROVE  Inside(f, rest)'
<1>1. ~ FieldStart /\ seriesOfQuotesLength % 2 = 1
  BY DEF FieldStart, Halfway
<1>2. currChar = Quote /\ Unread' = QuotedFrom(f, Len(field) + 1, rest)
  BY HalfwayChar DEF Store
<1>3. SeriesNow = seriesOfQuotesLength + 1 /\ SeriesNow % 2 = 0
  BY <1>1, <1>2, Parity DEF SeriesNow
<1>4. InsideNow /\ Doubled
  BY <1>1, <1>2, <1>3 DEF InsideNow, Doubled
<1>5. field' = [field EXCEPT ![Len(field)] = Quote]
  BY <1>4 DEF Store
<1>6. field[Len(field)] = Quote
  BY DEF Halfway
<1>7. field' = field
  <2>1. field = [k \in 1 .. Len(field) |-> field[k]]
    OBVIOUS
  <2> QED
    BY <1>5, <1>6, <2>1
<1> QED
  BY <1>2, <1>3, <1>4, <1>7 DEF Inside, Halfway, Store

(* In a field that is over there is nothing to store; the opening quote is *)
(* not stored.                                                             *)
LEMMA StoreInField ==
  ASSUME file \in Texts, at \in 0 .. Len(file.text), field \in Seq(Chars),
         seriesOfQuotesLength \in Nat, Store,
         NEW f \in Seq(Chars), NEW rest \in Seq(Chars), NEW style \in Styles,
         InField(f, style, rest), Over(f, rest) => currChar \in {Delimiter, Newline, Return}
  PROVE  InField(f, style, rest)'
<1>1. ~ Over(f, rest)
  <2> SUFFICES ASSUME Over(f, rest) PROVE FALSE
    OBVIOUS
  <2>1. currChar \in {Delimiter, Newline} /\ currChar # Quote /\ ~ inside_complex_field
    BY DEF Over, Store, Another, Quote, Delimiter, Newline
  <2>2. ~ InsideNow
    BY <2>1 DEF InsideNow
  <2> QED
    BY <2>1, <2>2 DEF Store, FieldEnds
<1>2. CASE ~ IsQuoted(f, style)
  <2>1. InPlain(f, rest) /\ Len(field) < Len(f)
    BY <1>1, <1>2, PlainIsOver DEF InField
  <2> QED
    BY <1>2, <2>1, StorePlain DEF InField
<1>3. CASE IsQuoted(f, style)
  <2>1. ~ AtQuote(f, rest)
    <3> SUFFICES ASSUME AtQuote(f, rest) PROVE FALSE
      OBVIOUS
    <3>1. currChar = Quote /\ FieldStart
      BY AtQuoteChar DEF FieldStart, AtQuote
    <3> QED
      BY <3>1 DEF Store, Another
  <2>2. Inside(f, rest) \/ Halfway(f, rest)
    BY <1>1, <1>3, <2>1, ClosedIsOver DEF InField
  <2>3. Inside(f, rest)' \/ Halfway(f, rest)' \/ Closed(f, rest)'
    BY <2>2, StoreInside, StoreHalfway
  <2> QED
    BY <1>3, <2>3 DEF InField
<1> QED
  BY <1>2, <1>3

(* The opening quote.                                                      *)
LEMMA QuoteInField ==
  ASSUME file \in Texts, at \in 0 .. Len(file.text), field \in Seq(Chars), OpeningQuote,
         NEW f \in Seq(Chars), NEW rest \in Seq(Chars), NEW style \in Styles,
         InField(f, style, rest), Over(f, rest) => currChar \in {Delimiter, Newline, Return}
  PROVE  InField(f, style, rest)'
<1>1. currChar = Quote /\ field = << >> /\ ~ lastCharIsQuote
  BY DEF OpeningQuote, FieldStart
<1>2. IsQuoted(f, style)
  <2> SUFFICES ASSUME ~ IsQuoted(f, style) PROVE FALSE
    OBVIOUS
  <2>1. InPlain(f, rest)
    BY DEF InField
  <2>2. CASE Len(field) < Len(f)
    BY <1>1, <2>1, <2>2, PlainChar, CharTypes
  <2>3. CASE ~ (Len(field) < Len(f))
    <3>1. currChar \in {Delimiter, Newline, Return}
      BY <2>1, <2>3, PlainIsOver
    <3> QED
      BY <1>1, <3>1 DEF Quote, Delimiter, Newline, Return
  <2> QED
    BY <2>2, <2>3
<1>3. AtQuote(f, rest)
  BY <1>1, <1>2 DEF InField, Inside, Halfway, Closed
<1>4. /\ field' = << >> /\ lastCharIsQuote' /\ inside_complex_field'
      /\ seriesOfQuotesLength' = 0 /\ Unread' = QuotedFrom(f, 1, rest)
  BY <1>1, <1>3, AtQuoteChar DEF OpeningQuote, AtQuote
<1>5. IsBegin(<< >>, f) /\ Len(<< >>) + 1 = 1 /\ 0 % 2 = 0
  BY DEF IsBegin
<1>6. Inside(f, rest)'
  BY <1>4, <1>5 DEF Inside
<1> QED
  BY <1>2, <1>6 DEF InField

(* The reader has returned the first rows and taken the first fields of    *)
(* the next; what it has not read is the rest of the text.                 *)
InRow(r, style, i, j) ==
  /\ i = Len(rows) + 1 /\ j = Len(fields) + 1 /\ IsBegin(fields, r[i])
  /\ \E rest \in Behind(r, style, i, j) : InField(r[i][j], style, rest)
AllRead(r) == rows = r /\ Unread = << >> /\ field = << >> /\ fields = << >>

Reading(r, style) ==
  /\ Table(r) /\ ~ Silent(r, style)
  /\ rows \in Seq(Seq(Seq(Chars))) /\ IsBegin(rows, r) /\ seriesOfQuotesLength \in Nat
  /\ call = "new" => at = 0
  /\ call \in {"new", "returned"} => Unread = Lines(r, style)[Len(rows) + 1]
  /\ call = "row" =>
       AllRead(r) \/ \E i \in 1 .. Len(r) : \E j \in 1 .. Len(r[i]) : InRow(r, style, i, j)
  /\ call \in {"null", "destroyed"} => rows = r \/ at = 0
RowsInv == file.rows # AnyRows => \E style \in Styles : Reading(file.rows, style)

(* A table is a sequence of rows of fields.                                *)
LEMMA TableIsSeq ==
  ASSUME NEW r, Table(r)
  PROVE  r \in Seq(Seq(Seq(Chars)))
<1> DEFINE S == Seq(Seq(Chars))
<1>1. Len(r) \in Nat /\ \A i \in 1 .. Len(r) : r[i] \in S
  BY TableTypes
<1>2. r = [i \in 1 .. Len(r) |-> r[i]]
  <2> DEFINE T == Seq(Seq(Chars \ {Return}))
  <2>1. r \in Seq(T)
    BY DEF Table
  <2> HIDE DEF T
  <2> QED
    BY <2>1
<1> HIDE DEF S
<1>3. r \in Seq(S)
  BY <1>1, <1>2
<1> QED
  BY <1>3 DEF S

(* At first the whole text is unread.                                      *)
LEMMA RowsInvInit == Init => RowsInv
<1> SUFFICES ASSUME Init, file.rows # AnyRows PROVE \E style \in Styles : Reading(file.rows, style)
  BY DEF RowsInv
<1>1. file \in Texts /\ at = 0 /\ call = "new" /\ rows = << >> /\ seriesOfQuotesLength = 0
  BY DEF Init, CsvInit
<1>2. PICK style \in Styles : /\ Table(file.rows) /\ ~ Silent(file.rows, style)
                              /\ file.text = AsText(file.rows, style)
  BY <1>1, WrittenAssumption
<1>3. Unread = file.text
  <2> DEFINE t == file.text
  <2>1. t \in Seq(Chars)
    BY <1>1, CsvAssumption
  <2> HIDE DEF t
  <2>2. SubSeq(t, 1, Len(t)) = t
    BY <2>1
  <2> QED
    BY <1>1, <2>2 DEF Unread, t
<1>4. << >> \in Seq(Seq(Seq(Chars))) /\ IsBegin(<< >>, file.rows) /\ Len(<< >>) + 1 = 1
  BY <1>2, TableTypes DEF IsBegin
<1>5. Unread = Lines(file.rows, style)[Len(rows) + 1]
  BY <1>1, <1>2, <1>3, <1>4 DEF AsText
<1> QED
  BY <1>1, <1>2, <1>4, <1>5 DEF Reading

-----------------------------------------------------------------------------
(* A new row begins with its first field.                                  *)
LEMMA ReadGetRow ==
  ASSUME BufferInv, NEW r, NEW style \in Styles, Reading(r, style), GetRow
  PROVE  Reading(r, style)'
<1>1. /\ Table(r) /\ ~ Silent(r, style) /\ rows \in Seq(Seq(Seq(Chars))) /\ IsBegin(rows, r)
      /\ Unread = Lines(r, style)[Len(rows) + 1]
  BY DEF Reading, GetRow
<1>2. /\ field' = << >> /\ fields' = << >> /\ rows' = rows /\ call' = "row"
      /\ ~ lastCharIsQuote' /\ ~ inside_complex_field' /\ seriesOfQuotesLength' = 0
  BY DEF GetRow, StartField
<1>3. Unread' = Unread
  BY DEF GetRow, Unread
<1>4. Len(r) \in Nat /\ r \in Seq(Seq(Seq(Chars))) /\ Len(rows) \in Nat /\ Len(rows) <= Len(r)
  BY <1>1, TableTypes, TableIsSeq DEF IsBegin
<1>5. AllRead(r)' \/ \E i \in 1 .. Len(r) : \E j \in 1 .. Len(r[i]) : InRow(r, style, i, j)'
  <2>1. CASE ~ (Len(rows) < Len(r))
    <3>1. rows = r
      BY <1>1, <1>4, <2>1, BeginIsAll
    <3>2. Len(r) + 1 \in 1 .. Len(r) + 1 /\ Len(r) + 1 > Len(r)
      BY <1>4
    <3>3. Unread = << >>
      BY <1>1, <3>1, <3>2, LinesUnfold
    <3> QED
      BY <1>2, <1>3, <3>1, <3>3 DEF AllRead
  <2>2. CASE Len(rows) < Len(r)
    <3>1. PICK i \in 1 .. Len(r) : i = Len(rows) + 1
      BY <1>4, <2>2
    <3>2. r[i] \in Seq(Seq(Chars)) /\ 1 \in 1 .. Len(r[i])
      BY <1>1, TableTypes
    <3>3. Unread = LineFrom(r, style, i, 1)
      <4>1. i \in 1 .. Len(r) + 1 /\ i <= Len(r)
        BY <1>4
      <4> QED
        BY <1>1, <3>1, <4>1, LinesUnfold
    <3>4. PICK rest \in Behind(r, style, i, 1) : Opens(r, style, i, 1, rest)
      BY <1>1, <3>2, FieldUnfolds
    <3>5. Len(<< >>) + 1 = 1 /\ IsBegin(<< >>, r[i]) /\ IsBegin(<< >>, r[i][1])
      BY <1>1, <3>2, TableTypes DEF IsBegin
    <3>6. InField(r[i][1], style, rest)'
      BY <1>2, <1>3, <3>3, <3>4, <3>5 DEF Opens, InField, AtQuote, InPlain
    <3>7. InRow(r, style, i, 1)'
      BY <1>2, <3>1, <3>5, <3>6 DEF InRow
    <3> QED
      BY <3>2, <3>7
  <2> QED
    BY <2>1, <2>2
<1> QED
  BY <1>1, <1>2, <1>5 DEF Reading

(* What the parser sees in a row.                                          *)
LEMMA SeenInRow ==
  ASSUME BufferInv, call = "row",
         NEW r, Table(r), NEW style \in Styles, NEW i \in 1 .. Len(r), NEW j \in 1 .. Len(r[i]),
         NEW rest \in Behind(r, style, i, j), InField(r[i][j], style, rest)
  PROVE  /\ file \in Texts /\ at \in 0 .. Len(file.text) /\ field \in Seq(Chars)
         /\ r[i][j] \in Seq(Chars) /\ rest \in Seq(Chars)
         /\ Over(r[i][j], rest) => Unread = rest /\ currChar \in {Delimiter, Newline, Return}
         /\ ~ Over(r[i][j], rest) => ~ FieldEnds /\ ~ Eof /\ currChar # Return
<1>1. file \in Texts /\ at \in 0 .. Len(file.text) /\ field \in Seq(Chars)
  BY DEF BufferInv, CharsFit
<1>2. r[i][j] \in Seq(Chars) /\ \A k \in 1 .. Len(r[i][j]) : r[i][j][k] # Return
  BY TableTypes
<1>3. rest \in Seq(Chars)
  BY BehindType
<1>4. Over(r[i][j], rest) => Unread = rest
  BY DEF Over
<1>5. Unread = rest => currChar \in {Delimiter, Newline, Return}
  BY <1>1, BehindRead
<1>6. ~ Over(r[i][j], rest) => ~ FieldEnds /\ currChar # Return
  BY <1>1, <1>2, <1>3, FieldGoesOn
<1> QED
  BY <1>1, <1>2, <1>3, <1>4, <1>5, <1>6 DEF FieldEnds

(* Store and OpeningQuote stay in the field; SkipReturn, behind it.        *)
LEMMA ReadField ==
  ASSUME BufferInv, NEW r, NEW style \in Styles, Reading(r, style),
         Store \/ OpeningQuote \/ SkipReturn
  PROVE  Reading(r, style)'
<1>1. /\ Table(r) /\ ~ Silent(r, style) /\ rows \in Seq(Seq(Seq(Chars))) /\ IsBegin(rows, r)
      /\ seriesOfQuotesLength \in Nat
  BY DEF Reading
<1>2. Parsing /\ call = "row" /\ Advance /\ UNCHANGED << file, call, fields, rows >>
  BY DEF Store, Another, OpeningQuote, SkipReturn, Parsing, locals
<1>3. ~ AllRead(r)
  <2> SUFFICES ASSUME AllRead(r) PROVE FALSE
    OBVIOUS
  <2>1. Eof
    BY NothingUnread DEF AllRead, BufferInv
  <2> QED
    BY <1>2, <2>1 DEF AllRead, Parsing
<1>4. PICK i \in 1 .. Len(r) : \E j \in 1 .. Len(r[i]) : InRow(r, style, i, j)
  BY <1>2, <1>3 DEF Reading
<1>5. PICK j \in 1 .. Len(r[i]) : InRow(r, style, i, j)
  BY <1>4
<1>6. PICK rest \in Behind(r, style, i, j) : InField(r[i][j], style, rest)
  BY <1>5 DEF InRow
<1> DEFINE f == r[i][j]
<1>7. /\ file \in Texts /\ at \in 0 .. Len(file.text) /\ field \in Seq(Chars)
      /\ f \in Seq(Chars) /\ rest \in Seq(Chars)
      /\ Over(f, rest) => Unread = rest /\ currChar \in {Delimiter, Newline, Return}
      /\ ~ Over(f, rest) => ~ FieldEnds /\ ~ Eof /\ currChar # Return
  BY <1>1, <1>2, <1>6, SeenInRow
<1>8. \E g \in Behind(r, style, i, j) : InField(f, style, g)'
  <2>1. CASE Store
    <3>1. InField(f, style, rest)'
      <4> HIDE DEF f
      <4> QED
        BY <1>1, <1>6, <1>7, <2>1, StoreInField DEF f
    <3> QED
      BY <3>1
  <2>2. CASE OpeningQuote
    <3>1. InField(f, style, rest)'
      BY <1>6, <1>7, <2>2, QuoteInField
    <3> QED
      BY <3>1
  <2>3. CASE SkipReturn
    <3>1. currChar = Return /\ UNCHANGED locals
      BY <2>3 DEF SkipReturn
    <3>2. Over(f, rest) /\ Unread = rest
      BY <1>7, <3>1
    <3>3. Unread' \in Behind(r, style, i, j)
      BY <1>1, <1>2, <1>7, <3>1, <3>2, BehindRead
    <3>4. PICK g \in Behind(r, style, i, j) : g = Unread'
      BY <3>3
    <3>5. g \in Seq(Chars)
      BY <1>1, BehindType
    <3>6. CASE IsQuoted(f, style)
      <4>1. Closed(f, rest)
        <5>1. ~ AtQuote(f, rest) /\ ~ Halfway(f, rest)
          <6>1. currChar # Quote
            BY <3>1 DEF Quote, Return
          <6> HIDE DEF f
          <6> QED
            BY <1>7, <6>1, AtQuoteChar, HalfwayChar
        <5>2. ~ Inside(f, rest)
          BY <3>2 DEF Over, Inside
        <5> QED
          BY <1>6, <3>6, <5>1, <5>2 DEF InField
      <4>2. Closed(f, g)'
        BY <3>1, <3>4, <4>1 DEF Closed, locals
      <4> QED
        BY <3>6, <4>2 DEF InField
    <3>7. CASE ~ IsQuoted(f, style)
      <4>1. InPlain(f, rest)
        BY <1>6, <3>7 DEF InField
      <4>2. ~ (Len(field) < Len(f))
        <5>1. currChar \notin Letters
          BY <3>1, CharTypes
        <5> HIDE DEF f
        <5> QED
          BY <1>7, <3>7, <4>1, <5>1, PlainChar
      <4>3. field = f
        BY <1>7, <4>1, <4>2, BeginIsAll DEF InPlain
      <4>4. PlainFrom(f, Len(f) + 1, g) = g
        <5>1. Len(f) + 1 \in 1 .. Len(f) + 1 /\ Len(f) + 1 > Len(f)
          BY <1>7
        <5> QED
          BY <1>7, <3>5, <5>1, PlainUnfolds
      <4>5. InPlain(f, g)'
        BY <3>1, <3>4, <4>1, <4>3, <4>4 DEF InPlain, locals
      <4> QED
        BY <3>7, <4>5 DEF InField
    <3> QED
      BY <3>6, <3>7
  <2> QED
    BY <2>1, <2>2, <2>3
<1>9. InRow(r, style, i, j)'
  BY <1>2, <1>5, <1>8 DEF InRow
<1>10. seriesOfQuotesLength' \in Nat
  <2>1. SeriesNow \in Nat
    BY <1>1 DEF SeriesNow
  <2> QED
    BY <1>1, <2>1 DEF Store, OpeningQuote, SkipReturn, locals
<1> QED
  BY <1>1, <1>2, <1>9, <1>10 DEF Reading

(* The field that ends is the one that was written; the next one begins,   *)
(* or the row is returned.                                                 *)
LEMMA ReadEnd ==
  ASSUME BufferInv, NEW r, NEW style \in Styles, Reading(r, style), EndField \/ EndRow
  PROVE  Reading(r, style)'
<1>0. Newline # Delimiter /\ Newline # Quote /\ Delimiter # Quote
  BY DEF Newline, Delimiter, Quote
<1>1. /\ Table(r) /\ ~ Silent(r, style) /\ rows \in Seq(Seq(Seq(Chars))) /\ IsBegin(rows, r)
      /\ seriesOfQuotesLength \in Nat
  BY DEF Reading
<1>2. /\ Parsing /\ call = "row" /\ Advance /\ FieldEnds /\ currChar # Return
      /\ file' = file /\ fields' = Append(fields, Value)
  BY DEF EndField, EndRow, Another, Parsing
<1>3. ~ AllRead(r)
  <2> SUFFICES ASSUME AllRead(r) PROVE FALSE
    OBVIOUS
  <2>1. Eof
    BY NothingUnread DEF AllRead, BufferInv
  <2> QED
    BY <1>2, <2>1 DEF AllRead, Parsing
<1>4. PICK i \in 1 .. Len(r) : \E j \in 1 .. Len(r[i]) : InRow(r, style, i, j)
  BY <1>2, <1>3 DEF Reading
<1>5. PICK j \in 1 .. Len(r[i]) : InRow(r, style, i, j)
  BY <1>4
<1>6. PICK rest \in Behind(r, style, i, j) : InField(r[i][j], style, rest)
  BY <1>5 DEF InRow
<1> DEFINE f == r[i][j]
<1>7. /\ file \in Texts /\ at \in 0 .. Len(file.text) /\ field \in Seq(Chars)
      /\ Over(f, rest) /\ Unread = rest /\ currChar \in {Delimiter, Newline}
  BY <1>1, <1>2, <1>6, SeenInRow
<1>8. /\ r[i] \in Seq(Seq(Chars)) /\ f \in Seq(Chars) /\ Len(r) \in Nat /\ Len(r[i]) \in Nat
      /\ r \in Seq(Seq(Seq(Chars)))
  BY <1>1, TableTypes, TableIsSeq
<1>9. i = Len(rows) + 1 /\ j = Len(fields) + 1 /\ IsBegin(fields, r[i])
  BY <1>5 DEF InRow
<1>10. fields \in Seq(Seq(Chars)) /\ Len(fields) < Len(r[i]) /\ fields' = Append(fields, r[i][Len(fields) + 1])
  <2>1. Value = f
    BY <1>7 DEF Over
  <2>2. fields \in Seq(Seq(Chars))
    BY <1>2 DEF BufferInv, FieldsFit
  <2> QED
    BY <1>2, <1>8, <1>9, <2>1, <2>2
<1>11. IsBegin(fields', r[i]) /\ Len(fields') = j /\ fields' \in Seq(Seq(Chars))
  <2> DEFINE S == Seq(Chars)
  <2>1. fields \in Seq(S) /\ r[i] \in Seq(S)
    BY <1>8, <1>10
  <2>2. Append(fields, r[i][Len(fields) + 1]) \in Seq(S)
        /\ IsBegin(Append(fields, r[i][Len(fields) + 1]), r[i])
        /\ Len(Append(fields, r[i][Len(fields) + 1])) = Len(fields) + 1
    <3> HIDE DEF S
    <3> QED
      BY <1>9, <1>10, <2>1, BeginGrows
  <2> QED
    BY <1>9, <1>10, <2>2
<1>12. CASE EndField
  <2>1. currChar = Delimiter
    BY <1>12 DEF EndField
  <2>2. j < Len(r[i]) /\ Unread' = LineFrom(r, style, i, j + 1)
    BY <1>1, <1>2, <1>7, <2>1, BehindRead
  <2>3. PICK k \in 1 .. Len(r[i]) : k = j + 1
    BY <1>8, <2>2
  <2>4. SeriesNow = 0
    BY <1>0, <1>7, <2>1 DEF SeriesNow, Over
  <2>5. /\ field' = << >> /\ ~ lastCharIsQuote' /\ ~ inside_complex_field' /\ seriesOfQuotesLength' = 0
        /\ call' = "row" /\ rows' = rows
    BY <1>2, <1>12, <2>4 DEF EndField, StartField
  <2>6. PICK g \in Behind(r, style, i, k) : Opens(r, style, i, k, g)
    BY <1>1, FieldUnfolds
  <2>7. Len(<< >>) + 1 = 1 /\ IsBegin(<< >>, r[i][k])
    BY <1>1, TableTypes DEF IsBegin
  <2>8. InField(r[i][k], style, g)'
    BY <2>2, <2>3, <2>5, <2>6, <2>7 DEF Opens, InField, AtQuote, InPlain
  <2>9. InRow(r, style, i, k)'
    BY <1>9, <1>11, <2>3, <2>5, <2>8 DEF InRow
  <2> QED
    BY <1>1, <2>5, <2>9 DEF Reading
<1>13. CASE EndRow
  <2>1. currChar = Newline /\ call' = "returned" /\ rows' = Append(rows, fields')
        /\ seriesOfQuotesLength' = seriesOfQuotesLength
    BY <1>7, <1>13 DEF EndRow
  <2>2. j = Len(r[i]) /\ Unread' = Lines(r, style)[i + 1]
    BY <1>0, <1>1, <1>2, <1>7, <2>1, BehindRead
  <2>3. fields' = r[i]
    <3> DEFINE S == Seq(Chars)
               s == fields'
    <3>1. s \in Seq(S) /\ r[i] \in Seq(S) /\ IsBegin(s, r[i]) /\ ~ (Len(s) < Len(r[i]))
      BY <1>8, <1>11, <2>2
    <3> HIDE DEF S, s
    <3>2. s = r[i]
      BY <3>1, BeginIsAll
    <3> QED
      BY <3>2 DEF s
  <2>4. rows' \in Seq(Seq(Seq(Chars))) /\ IsBegin(rows', r) /\ Len(rows') = i
    <3> DEFINE S == Seq(Seq(Chars))
    <3>1. rows \in Seq(S) /\ r \in Seq(S) /\ Len(rows) < Len(r)
      BY <1>1, <1>8, <1>9
    <3>2. Append(rows, r[Len(rows) + 1]) \in Seq(S)
          /\ IsBegin(Append(rows, r[Len(rows) + 1]), r)
          /\ Len(Append(rows, r[Len(rows) + 1])) = Len(rows) + 1
      <4> HIDE DEF S
      <4> QED
        BY <1>1, <3>1, BeginGrows
    <3> QED
      BY <1>9, <2>1, <2>3, <3>2
  <2> QED
    BY <1>1, <2>1, <2>2, <2>4 DEF Reading
<1> QED
  BY <1>12, <1>13

(* NULL is returned for the end of the text only when all rows are read.   *)
LEMMA ReadEof ==
  ASSUME BufferInv, NEW r, NEW style \in Styles, Reading(r, style), ReachedEof
  PROVE  Reading(r, style)'
<1>1. /\ Table(r) /\ ~ Silent(r, style) /\ rows \in Seq(Seq(Seq(Chars))) /\ IsBegin(rows, r)
      /\ seriesOfQuotesLength \in Nat
  BY DEF Reading
<1>2. call = "row" /\ Eof /\ field = << >> /\ fields = << >> /\ call' = "null"
      /\ UNCHANGED << rows, locals >>
  BY DEF ReachedEof
<1>3. AllRead(r)
  <2> SUFFICES ASSUME ~ AllRead(r) PROVE FALSE
    OBVIOUS
  <2>1. PICK i \in 1 .. Len(r) : \E j \in 1 .. Len(r[i]) : InRow(r, style, i, j)
    BY <1>2 DEF Reading
  <2>2. PICK j \in 1 .. Len(r[i]) : InRow(r, style, i, j)
    BY <2>1
  <2>3. PICK rest \in Behind(r, style, i, j) : InField(r[i][j], style, rest)
    BY <2>2 DEF InRow
  <2> DEFINE f == r[i][j]
  <2>4. /\ file \in Texts /\ at \in 0 .. Len(file.text) /\ field \in Seq(Chars)
        /\ f \in Seq(Chars) /\ rest \in Seq(Chars) /\ Over(f, rest) /\ Unread = rest
    BY <1>1, <1>2, <2>3, SeenInRow
  <2>5. i = Len(r) /\ j = Len(r[i]) /\ ~ style.ended
    BY <1>1, <1>2, <2>4, BehindRead
  <2>6. j = 1
    BY <1>2, <2>2 DEF InRow
  <2>7. ~ Closed(f, rest) /\ ~ AtQuote(f, rest) /\ ~ Inside(f, rest) /\ ~ Halfway(f, rest)
    <3>1. ~ Closed(f, rest)
      <4>0. f \in Seq(Chars)
        BY <2>4
      <4> HIDE DEF f
      <4>1. Append(f, Quote) # << >>
        BY <4>0, CharTypes, AppendProperties
      <4> QED
        BY <1>2, <4>1 DEF Closed
    <3>2. ~ Inside(f, rest)
      BY <2>4 DEF Over, Inside
    <3> HIDE DEF f
    <3> QED
      BY <1>2, <2>4, <3>1, <3>2, AtQuoteChar, HalfwayChar
  <2>8. ~ IsQuoted(f, style) /\ InPlain(f, rest)
    BY <2>3, <2>7 DEF InField
  <2>9. f = << >>
    <3>1. ~ (Len(field) < Len(f))
      <4> HIDE DEF f
      <4> QED
        BY <1>2, <2>4, <2>8, PlainChar
    <3> HIDE DEF f
    <3> QED
      BY <1>2, <2>4, <2>8, <3>1, BeginIsAll DEF InPlain
  <2>10. r[Len(r)] = << << >> >>
    <3> DEFINE row == r[Len(r)]
    <3>1. row \in Seq(Seq(Chars)) /\ Len(row) = 1 /\ row[1] = << >>
      BY <1>1, <2>5, <2>6, <2>9, TableTypes
    <3> HIDE DEF row
    <3>2. row = << << >> >>
      BY <3>1
    <3> QED
      BY <3>2 DEF row
  <2>11. ~ style.always
    BY <2>8 DEF IsQuoted
  <2> QED
    BY <1>1, <2>5, <2>10, <2>11 DEF Silent
<1> QED
  BY <1>1, <1>2, <1>3 DEF Reading, AllRead, locals

(* Every step keeps what is unread the rest of the text that was written.  *)
LEMMA RowsInvStep == BufferInv /\ RowsInv /\ [Next]_fileVars => RowsInv'
<1> SUFFICES ASSUME BufferInv, RowsInv, [Next]_fileVars, file'.rows # AnyRows PROVE RowsInv'
  BY DEF RowsInv
<1>1. file' = file
  BY DEF Next, NextRow, AddRow, EndLoop, UseList, Done, fileVars, csvVars, ParserStep, GetRow,
         OpenFails, ReachedEof, SkipReturn, OpeningQuote, EndField, EndRow, Store, Destroy
<1>2. PICK style \in Styles : Reading(file.rows, style)
  BY <1>1 DEF RowsInv
<1>3. PICK r : r = file.rows
  OBVIOUS
<1>4. Reading(r, style)
  BY <1>2, <1>3
<1>5. Reading(r, style)'
  <2>1. CASE UNCHANGED csvVars
    <3>1. UNCHANGED << file, at, call, rows, fields, field, inside_complex_field, lastCharIsQuote,
                       seriesOfQuotesLength, Unread >>
      BY <2>1 DEF csvVars, locals, Unread
    <3>2. AllRead(r) => AllRead(r)'
      BY <3>1 DEF AllRead
    <3>3. \A f, rest : InField(f, style, rest) => InField(f, style, rest)'
      BY <3>1 DEF InField, InPlain, AtQuote, Inside, Halfway, Closed
    <3>4. \A i, j : InRow(r, style, i, j) => InRow(r, style, i, j)'
      BY <3>1, <3>3 DEF InRow
    <3> QED
      BY <1>4, <3>1, <3>2, <3>4 DEF Reading
  <2>2. CASE OpenFails
    BY <1>4, <2>2 DEF OpenFails, Reading, locals
  <2>3. CASE Destroy
    BY <1>4, <2>3 DEF Destroy, Reading, locals
  <2>4. CASE GetRow
    BY <1>4, <2>4, ReadGetRow
  <2>5. CASE Store \/ OpeningQuote \/ SkipReturn
    BY <1>4, <2>5, ReadField
  <2>6. CASE EndField \/ EndRow
    BY <1>4, <2>6, ReadEnd
  <2>7. CASE ReachedEof
    BY <1>4, <2>7, ReadEof
  <2> QED
    BY <2>1, <2>2, <2>3, <2>4, <2>5, <2>6, <2>7
       DEF Next, NextRow, ParserStep, AddRow, EndLoop, UseList, Done, fileVars
<1>6. Reading(file.rows, style)'
  BY <1>1, <1>3, <1>5
<1> QED
  BY <1>6 DEF RowsInv

(* A table that was written as comma-separated text, of any size and with  *)
(* any quotes in its fields, is what the parser reads: a part of it in any *)
(* call, and all of it when NULL ends the loop, unless the file could not  *)
(* be opened.                                                              *)
THEOREM WhatIsWrittenIsRead == Spec => []RowsRead
<1>1. RowsInv => RowsRead
  BY DEF RowsInv, Reading, RowsRead
<1>2. BufferInv /\ RowsInv /\ [Next]_fileVars => (BufferInv /\ RowsInv)'
  BY BufferInvStep, RowsInvStep
<1> QED
  BY <1>1, <1>2, BufferInvInit, RowsInvInit, PTL DEF Spec
=============================================================================
