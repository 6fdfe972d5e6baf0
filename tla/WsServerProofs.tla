---------------------------- MODULE WsServerProofs ----------------------------
(***************************************************************************)
(* The websocket server for any clients, frames and lengths of the key:    *)
(* types whatever TCP does, and, when frames arrive whole, that the parser *)
(* keeps to the frames' boundaries.  The invariant says where in a frame   *)
(* each byte is that was sent and not read, so that what follows a byte is *)
(* known, and that the first of them is the one the parser is due to read. *)
(***************************************************************************)
EXTENDS WsServerProps, SequenceTheorems, TLAPS

(* The place of a byte in its frame, from 0 on, and the byte at a place.   *)
Size(f) == 2 + KeyLen + f.len
Place(t) ==
  IF Kind(t) = "op" THEN 0 ELSE IF Kind(t) = "len" THEN 1
  ELSE IF Kind(t) = "key" THEN 1 + t[4] ELSE 1 + KeyLen + t[4]
ByteAt(f, k, p) ==
  IF p = 0 THEN Token("op", f, k, 1) ELSE IF p = 1 THEN Token("len", f, k, 1)
  ELSE IF p <= KeyLen + 1 THEN Token("key", f, k, p - 1) ELSE Token("data", f, k, p - 1 - KeyLen)
EndsFrame(t) == Place(t) = Size(Of(t)) - 1

(* Every byte is a byte of a request or of a numbered frame.               *)
RequestTokens == {Token("http", NoFrame, 0, i) : i \in {1, 2}}
FrameTokens == UNION {{ByteAt(f, k, p) : k \in Nat \ {0}, p \in 0 .. Size(f) - 1} : f \in Frames}
Tokens == RequestTokens \cup FrameTokens

TypeInv ==
  /\ state \in [Clients -> {"none", "waiting", "accepted", "upgraded", "closed"}]
  /\ hungUp \in [Clients -> BOOLEAN]
  /\ net \in [Clients -> Seq(Tokens)] /\ rcv \in [Clients -> Seq(Tokens)]
  /\ client_fd \in Clients \cup {NoClient}
  /\ pc \in {"loop", "upgrade", "len", "key", "data"} /\ tries \in 0 .. MaxTries - 1
  /\ opcode \in Opcodes /\ payload_len \in 0 .. MaxPayload
  /\ key \in Seq(Tokens) /\ Len(key) <= KeyLen
  /\ pc \in {"loop", "upgrade"} => opcode = "text" /\ payload_len = 0 /\ key = << >>
  /\ pc # "loop" => client_fd \in Clients
  /\ pc = "data" => payload_len # 0
  /\ proc \in {"up", "malformed", "failed"}
  /\ sent \in [Clients -> Seq(Texts)] /\ handled \in [Clients -> Nat]
  /\ \A c \in Clients : Len(sent[c]) <= MaxFrames[c] /\ handled[c] <= Len(sent[c])
  /\ stored # << >> => stored \in Clients \X Nat \X Int8

(* Only the accepted client is upgraded, and only it is read from.         *)
ServingInv ==
  /\ \A c \in Clients : state[c] \in {"accepted", "upgraded"} <=> c = client_fd
  /\ client_fd # NoClient => (pc = "upgrade" <=> state[client_fd] = "accepted")

(* A stream of frames: bytes of a frame behind each other, frames in the   *)
(* order of their numbers.                                                 *)
InOrder(s) ==
  /\ \A i, j \in 1 .. Len(s) : 
       i < j /\ Place(s[i]) + (j - i) < Size(Of(s[i])) =>
         s[j] = ByteAt(Of(s[i]), Number(s[i]), Place(s[i]) + (j - i))
  /\ \A i \in 1 .. Len(s) - 1 :
       EndsFrame(s[i]) => Place(s[i + 1]) = 0 /\ Number(s[i + 1]) = Number(s[i]) + 1

(* What a client has sent and the server has not read: texts is what its   *)
(* frames say.  Only a client that is gone leaves a frame cut, and then in *)
(* its header.                                                             *)
LastOf(s) == s[Len(s)]
GoodStream(s, texts, gone) ==
  /\ InOrder(s)
  /\ \A i \in 1 .. Len(s) : Number(s[i]) \in 1 .. Len(texts) /\ texts[Number(s[i])] = Says(Of(s[i]))
  /\ s # << >> => \/ EndsFrame(LastOf(s)) /\ (~ gone => Number(LastOf(s)) = Len(texts))
                  \/ gone /\ Kind(LastOf(s)) \in {"op", "len", "key"}

HalfRequest == << Token("http", NoFrame, 0, 1) >>
Requests(gone) == {<< >>, Request} \cup {q \in {HalfRequest} : gone}
Stages(gone) == {<< q, << >> >> : q \in Requests(gone)} \cup {<< << >>, q >> : q \in Requests(gone)}

(* A connection in state st, with the bytes r received and n under way,    *)
(* done of whose frames are handled.                                       *)
ConnOK(st, gone, r, n, texts, done) ==
  /\ st = "none" => r = << >> /\ n = << >>
  /\ st \in {"waiting", "accepted"} => << r, n >> \in Stages(gone)
  /\ st # "upgraded" => done = Len(texts)
  /\ st = "upgraded" => /\ r \in Seq(FrameTokens) /\ n \in Seq(FrameTokens)
                        /\ GoodStream(r \o n, texts, gone)
                        /\ n # << >> => Place(n[1]) = 0

StreamInv == \A c \in Clients : ConnOK(state[c], hungUp[c], rcv[c], net[c], sent[c], handled[c])

(* Where read_ws_frame is in the frame it is reading: s is what waits.     *)
Due(label) ==
  IF label = "loop" THEN 0 ELSE IF label = "len" THEN 1 ELSE IF label = "key" THEN 2 ELSE 2 + KeyLen
InFrame(f, label, s, texts, done, op, len, ky) ==
  /\ op = f.op /\ texts[done + 1] = Says(f)
  /\ s # << >> => Of(s[1]) = f
  /\ label \in {"key", "data"} => len = f.len
  /\ label = "data" => ky = Key(f, done + 1) \/ s = << >>
ParserOK(label, s, gone, texts, done, op, len, ky) ==
  /\ s # << >> => Place(s[1]) = Due(label) /\ Number(s[1]) = done + 1
  /\ label = "loop" /\ s = << >> /\ ~ gone => done = Len(texts)
  /\ label # "loop" => /\ ~ gone => s # << >>
                       /\ done + 1 <= Len(texts)
                       /\ \E f \in Frames : InFrame(f, label, s, texts, done, op, len, ky)

Unread(c) == rcv[c] \o net[c]
ParserInv ==
  client_fd # NoClient /\ pc # "upgrade" =>
    ParserOK(pc, Unread(client_fd), hungUp[client_fd], sent[client_fd], handled[client_fd],
             opcode, payload_len, key)

IInv == TypeInv /\ ServingInv /\ StreamInv /\ ParserInv /\ WellFormedSurvives

-----------------------------------------------------------------------------
LEMMA MinOf == ASSUME NEW a \in Nat, NEW b \in Nat PROVE Min({a, b}) = IF a <= b THEN a ELSE b
<1> DEFINE m == IF a <= b THEN a ELSE b
<1>1. m \in {a, b} /\ \A y \in {a, b} : m =< y
  OBVIOUS
<1>2. \A x \in {a, b} : (\A y \in {a, b} : x =< y) => x = m
  OBVIOUS
<1> HIDE DEF m
<1>3. Min({a, b}) = m
  BY <1>1, <1>2 DEF Min
<1> QED
  BY <1>3 DEF m

LEMMA SizeFacts ==
  ASSUME NEW f \in Frames
  PROVE  Size(f) \in Nat /\ Size(f) = 2 + KeyLen + f.len /\ KeyLen \in Nat \ {0} /\ f.len \in Nat
  BY WsAssumption DEF Size

LEMMA ByteFacts ==
  ASSUME NEW f \in Frames, NEW k \in Nat \ {0}, NEW p \in 0 .. Size(f) - 1
  PROVE  /\ ByteAt(f, k, p) \in FrameTokens
         /\ Of(ByteAt(f, k, p)) = f /\ Number(ByteAt(f, k, p)) = k /\ Place(ByteAt(f, k, p)) = p
         /\ Kind(ByteAt(f, k, p)) = "op" <=> p = 0
         /\ Kind(ByteAt(f, k, p)) = "len" <=> p = 1
         /\ Kind(ByteAt(f, k, p)) = "key" <=> p \in 2 .. KeyLen + 1
         /\ Kind(ByteAt(f, k, p)) \in {"op", "len", "key", "data"}
<1> USE SizeFacts
<1>1. ByteAt(f, k, p) \in FrameTokens
  BY DEF FrameTokens
<1>2. CASE p = 0
  BY <1>1, <1>2 DEF ByteAt, Token, Kind, Of, Number, Place
<1>3. CASE p = 1
  BY <1>1, <1>3 DEF ByteAt, Token, Kind, Of, Number, Place
<1>4. CASE p # 0 /\ p # 1 /\ p <= KeyLen + 1
  BY <1>1, <1>4 DEF ByteAt, Token, Kind, Of, Number, Place
<1>5. CASE p # 0 /\ p # 1 /\ ~ (p <= KeyLen + 1)
  BY <1>1, <1>5 DEF ByteAt, Token, Kind, Of, Number, Place
<1> QED
  BY <1>2, <1>3, <1>4, <1>5

LEMMA TokenFacts ==
  ASSUME NEW t \in FrameTokens
  PROVE  /\ Of(t) \in Frames /\ Number(t) \in Nat \ {0}
         /\ Place(t) \in 0 .. Size(Of(t)) - 1
         /\ t = ByteAt(Of(t), Number(t), Place(t))
<1>1. PICK f \in Frames : \E k \in Nat \ {0}, p \in 0 .. Size(f) - 1 : t = ByteAt(f, k, p)
  BY DEF FrameTokens
<1>2. PICK k \in Nat \ {0}, p \in 0 .. Size(f) - 1 : t = ByteAt(f, k, p)
  BY <1>1
<1> QED
  BY <1>1, <1>2, ByteFacts

LEMMA RequestFacts ==
  /\ Request \in Seq(RequestTokens) /\ Request \in Seq(Tokens)
  /\ Len(Request) = 2 /\ Request # << >>
  /\ HalfRequest \in Seq(Tokens) /\ Len(HalfRequest) = 1 /\ SubSeq(Request, 1, 1) = HalfRequest
  /\ \A t \in Tokens : Kind(t) \in {"op", "len"} => Of(t) \in Frames
<1>1. Request \in Seq(RequestTokens) /\ Len(Request) = 2 /\ Request # << >>
  BY DEF Request, RequestTokens
<1>2. Request \in Seq(Tokens)
  BY DEF Request, Tokens, RequestTokens
<1>3. \A t \in RequestTokens : Kind(t) = "http"
  BY DEF RequestTokens, Token, Kind
<1>4. \A t \in Tokens : Kind(t) \in {"op", "len"} => Of(t) \in Frames
  BY <1>3, TokenFacts DEF Tokens
<1>5. HalfRequest \in Seq(Tokens) /\ Len(HalfRequest) = 1
  BY DEF HalfRequest, Tokens, RequestTokens
<1>6. SubSeq(Request, 1, 1) = HalfRequest
  <2>1. /\ SubSeq(Request, 1, 1) \in Seq(Tokens) /\ Len(SubSeq(Request, 1, 1)) = 1
        /\ SubSeq(Request, 1, 1)[1] = Request[1]
    BY <1>1, <1>2, SubSeqProperties
  <2>2. Request[1] = HalfRequest[1]
    BY DEF Request, HalfRequest
  <2> QED
    BY <1>5, <2>1, <2>2, SeqEqual
<1> QED
  BY <1>1, <1>2, <1>4, <1>5, <1>6

(* The bytes of a frame, by their places.                                  *)
LEMMA BytesFacts ==
  ASSUME NEW f \in Frames, NEW k \in Nat \ {0}
  PROVE  /\ Bytes(f, k) \in Seq(FrameTokens) /\ Len(Bytes(f, k)) = Size(f)
         /\ \A p \in 0 .. Size(f) - 1 : Bytes(f, k)[p + 1] = ByteAt(f, k, p)
         /\ Key(f, k) \in Seq(FrameTokens) /\ Len(Key(f, k)) = KeyLen
         /\ \A i \in 1 .. KeyLen : Key(f, k)[i] = ByteAt(f, k, i + 1)
         /\ Data(f, k) \in Seq(FrameTokens) /\ Len(Data(f, k)) = f.len
         /\ \A i \in 1 .. f.len : Data(f, k)[i] = ByteAt(f, k, i + 1 + KeyLen)
<1> DEFINE h == << Token("op", f, k, 1), Token("len", f, k, 1) >>
           y == Key(f, k)
           d == Data(f, k)
<1>1. KeyLen \in Nat \ {0} /\ f.len \in Nat /\ Size(f) = 2 + KeyLen + f.len /\ Size(f) \in Nat
  BY SizeFacts
<1>2. h \in Seq(FrameTokens) /\ Len(h) = 2 /\ h[1] = ByteAt(f, k, 0) /\ h[2] = ByteAt(f, k, 1)
  <2>1. Token("op", f, k, 1) = ByteAt(f, k, 0) /\ Token("len", f, k, 1) = ByteAt(f, k, 1)
    BY DEF ByteAt
  <2>2. ByteAt(f, k, 0) \in FrameTokens /\ ByteAt(f, k, 1) \in FrameTokens
    BY <1>1, ByteFacts
  <2> QED
    BY <2>1, <2>2
<1>3. y \in Seq(FrameTokens) /\ Len(y) = KeyLen /\ \A i \in 1 .. KeyLen : y[i] = ByteAt(f, k, i + 1)
  <2>1. \A i \in 1 .. KeyLen : Token("key", f, k, i) = ByteAt(f, k, i + 1)
    BY <1>1 DEF ByteAt
  <2>2. \A i \in 1 .. KeyLen : ByteAt(f, k, i + 1) \in FrameTokens
    BY <1>1, ByteFacts
  <2>3. \A i \in 1 .. KeyLen : Token("key", f, k, i) \in FrameTokens
    BY <2>1, <2>2
  <2> QED
    BY <1>1, <2>1, <2>3 DEF Key
<1>4. d \in Seq(FrameTokens) /\ Len(d) = f.len /\ \A i \in 1 .. f.len : d[i] = ByteAt(f, k, i + 1 + KeyLen)
  <2>1. ASSUME NEW i \in 1 .. f.len PROVE Token("data", f, k, i) = ByteAt(f, k, i + 1 + KeyLen)
    <3>1. i + 1 + KeyLen # 0 /\ i + 1 + KeyLen # 1 /\ ~ (i + 1 + KeyLen <= KeyLen + 1)
          /\ (i + 1 + KeyLen) - 1 - KeyLen = i
      BY <1>1
    <3> QED
      BY <3>1 DEF ByteAt
  <2>2. \A i \in 1 .. f.len : ByteAt(f, k, i + 1 + KeyLen) \in FrameTokens
    BY <1>1, ByteFacts
  <2>3. \A i \in 1 .. f.len : Token("data", f, k, i) \in FrameTokens
    BY <2>1, <2>2
  <2> QED
    BY <1>1, <2>1, <2>3 DEF Data
<1>5. Bytes(f, k) = (h \o y) \o d
  BY DEF Bytes
<1> HIDE DEF h, y, d
<1>6. /\ h \o y \in Seq(FrameTokens) /\ Len(h \o y) = 2 + KeyLen
      /\ \A i \in 1 .. 2 + KeyLen : (h \o y)[i] = IF i <= 2 THEN h[i] ELSE y[i - 2]
  <2>1. /\ h \o y \in Seq(FrameTokens) /\ Len(h \o y) = Len(h) + Len(y)
        /\ \A i \in 1 .. Len(h) + Len(y) : (h \o y)[i] = IF i <= Len(h) THEN h[i] ELSE y[i - Len(h)]
    BY <1>2, <1>3, ConcatProperties
  <2> QED
    BY <1>1, <1>2, <1>3, <2>1
<1> DEFINE hy == h \o y
<1> HIDE DEF hy
<1> DEFINE b == hy \o d
<1>7. /\ b \in Seq(FrameTokens) /\ Len(b) = Size(f)
      /\ \A i \in 1 .. Size(f) : b[i] = IF i <= 2 + KeyLen THEN hy[i] ELSE d[i - (2 + KeyLen)]
  <2>1. hy \in Seq(FrameTokens) /\ Len(hy) = 2 + KeyLen
    BY <1>6 DEF hy
  <2>2. /\ b \in Seq(FrameTokens) /\ Len(b) = Len(hy) + Len(d)
        /\ \A i \in 1 .. Len(hy) + Len(d) : b[i] = IF i <= Len(hy) THEN hy[i] ELSE d[i - Len(hy)]
    BY <1>4, <2>1, ConcatProperties
  <2> QED
    BY <1>1, <1>4, <2>1, <2>2
<1>7a. \A i \in 1 .. 2 + KeyLen : hy[i] = IF i <= 2 THEN h[i] ELSE y[i - 2]
  BY <1>6 DEF hy
<1> HIDE DEF b
<1>8. ASSUME NEW p \in 0 .. Size(f) - 1 PROVE b[p + 1] = ByteAt(f, k, p)
  <2>1. p \in Nat /\ p + 1 \in 1 .. Size(f) /\ (p \in {0, 1} \/ p \in 2 .. KeyLen + 1 \/ p > KeyLen + 1)
    BY <1>1
  <2>2. CASE p \in {0, 1}
    <3>1. p + 1 <= 2 + KeyLen /\ p + 1 <= 2 /\ p + 1 \in 1 .. 2 + KeyLen
      BY <1>1, <2>2
    <3>2. b[p + 1] = h[p + 1]
      BY <1>7, <1>7a, <2>1, <3>1
    <3> QED
      BY <1>2, <2>2, <3>2
  <2>3. CASE p \in 2 .. KeyLen + 1
    <3>1. /\ p + 1 <= 2 + KeyLen /\ ~ (p + 1 <= 2) /\ p + 1 \in 1 .. 2 + KeyLen
          /\ (p + 1) - 2 = p - 1 /\ p - 1 \in 1 .. KeyLen /\ (p - 1) + 1 = p
      BY <1>1, <2>3
    <3>2. b[p + 1] = y[p - 1]
      BY <1>7, <1>7a, <2>1, <3>1
    <3> QED
      BY <1>3, <3>1, <3>2
  <2>4. CASE p > KeyLen + 1
    <3> DEFINE i == p - 1 - KeyLen
    <3>1. /\ ~ (p + 1 <= 2 + KeyLen) /\ (p + 1) - (2 + KeyLen) = i
          /\ i \in 1 .. f.len /\ i + 1 + KeyLen = p
      BY <1>1, <2>1, <2>4
    <3> HIDE DEF i
    <3>2. b[p + 1] = d[i]
      BY <1>7, <2>1, <3>1
    <3> QED
      BY <1>4, <3>1, <3>2
  <2> QED
    BY <2>1, <2>2, <2>3, <2>4
<1> QED
  BY <1>3, <1>4, <1>5, <1>7, <1>8 DEF hy, y, d, b

-----------------------------------------------------------------------------
(* Cutting, joining and sending streams.                                   *)
LEMMA CutFacts ==
  ASSUME NEW S, NEW s \in Seq(S), NEW n \in 0 .. Len(s)
  PROVE  /\ SubSeq(s, 1, n) \in Seq(S) /\ Len(SubSeq(s, 1, n)) = n
         /\ \A i \in 1 .. n : SubSeq(s, 1, n)[i] = s[i]
         /\ SubSeq(s, n + 1, Len(s)) \in Seq(S) /\ Len(SubSeq(s, n + 1, Len(s))) = Len(s) - n
         /\ \A i \in 1 .. Len(s) - n : SubSeq(s, n + 1, Len(s))[i] = s[n + i]
         /\ SubSeq(s, 1, n) \o SubSeq(s, n + 1, Len(s)) = s
<1>1. Len(s) \in Nat /\ n \in Nat /\ n <= Len(s) /\ \A i \in 1 .. Len(s) : s[i] \in S
  OBVIOUS
<1>2. /\ SubSeq(s, 1, n) \in Seq(S) /\ Len(SubSeq(s, 1, n)) = IF 1 <= n THEN n - 1 + 1 ELSE 0
      /\ \A i \in 1 .. n - 1 + 1 : SubSeq(s, 1, n)[i] = s[1 + i - 1]
  BY <1>1, SubSeqProperties
<1>3. /\ SubSeq(s, n + 1, Len(s)) \in Seq(S)
      /\ Len(SubSeq(s, n + 1, Len(s))) = IF n + 1 <= Len(s) THEN Len(s) - (n + 1) + 1 ELSE 0
      /\ \A i \in 1 .. Len(s) - (n + 1) + 1 : SubSeq(s, n + 1, Len(s))[i] = s[(n + 1) + i - 1]
  <2>1. n + 1 \in Int /\ Len(s) \in Int /\ \A i \in n + 1 .. Len(s) : s[i] \in S
    BY <1>1
  <2> DEFINE m == n + 1
  <2> HIDE DEF m
  <2>2. m \in Int /\ \A i \in m .. Len(s) : s[i] \in S
    BY <2>1 DEF m
  <2>3. /\ SubSeq(s, m, Len(s)) \in Seq(S)
        /\ Len(SubSeq(s, m, Len(s))) = IF m <= Len(s) THEN Len(s) - m + 1 ELSE 0
        /\ \A i \in 1 .. Len(s) - m + 1 : SubSeq(s, m, Len(s))[i] = s[m + i - 1]
    BY <2>1, <2>2, SubSeqProperties
  <2> QED
    BY <2>3 DEF m
<1>4. SubSeq(s, 1, n) \o SubSeq(s, n + 1, Len(s)) = SubSeq(s, 1, Len(s))
  <2>1. 1 \in 1 .. Len(s) + 1 /\ n \in 1 - 1 .. Len(s) /\ Len(s) \in n .. Len(s)
    BY <1>1
  <2> QED
    BY <2>1, ConcatAdjacentSubSeq
<1>5. SubSeq(s, 1, Len(s)) = s
  BY SubSeqFull
<1>6. Len(SubSeq(s, 1, n)) = n /\ \A i \in 1 .. n : SubSeq(s, 1, n)[i] = s[i]
  BY <1>1, <1>2
<1>7. \A i \in 1 .. Len(s) - n : SubSeq(s, n + 1, Len(s))[i] = s[n + i]
  <2>1. \A i \in 1 .. Len(s) - n : i \in 1 .. Len(s) - (n + 1) + 1 /\ (n + 1) + i - 1 = n + i
    BY <1>1
  <2> QED
    BY <1>3, <2>1
<1>8. Len(SubSeq(s, n + 1, Len(s))) = Len(s) - n
  <2>1. (IF n + 1 <= Len(s) THEN Len(s) - (n + 1) + 1 ELSE 0) = Len(s) - n
    BY <1>1
  <2> QED
    BY <1>3, <2>1
<1> QED
  BY <1>2, <1>3, <1>4, <1>5, <1>6, <1>7, <1>8

(* What follows a byte of a stream.                                        *)
LEMMA FollowsInOrder ==
  ASSUME NEW s \in Seq(FrameTokens), InOrder(s), NEW i \in 1 .. Len(s), NEW j \in 1 .. Len(s),
         i < j, Place(s[i]) + (j - i) < Size(Of(s[i]))
  PROVE  /\ s[j] = ByteAt(Of(s[i]), Number(s[i]), Place(s[i]) + (j - i))
         /\ Of(s[j]) = Of(s[i]) /\ Number(s[j]) = Number(s[i]) /\ Place(s[j]) = Place(s[i]) + (j - i)
<1>1. s[i] \in FrameTokens /\ i \in Nat /\ j \in Nat
  OBVIOUS
<1>2. Of(s[i]) \in Frames /\ Number(s[i]) \in Nat \ {0} /\ Place(s[i]) \in Nat /\ Size(Of(s[i])) \in Nat
  <2>1. Of(s[i]) \in Frames /\ Number(s[i]) \in Nat \ {0} /\ Place(s[i]) \in 0 .. Size(Of(s[i])) - 1
    BY <1>1, TokenFacts
  <2>2. Size(Of(s[i])) \in Nat
    BY <2>1, SizeFacts
  <2> QED
    BY <2>1, <2>2
<1>3. Place(s[i]) + (j - i) \in 0 .. Size(Of(s[i])) - 1
  BY <1>1, <1>2
<1>4. s[j] = ByteAt(Of(s[i]), Number(s[i]), Place(s[i]) + (j - i))
  BY DEF InOrder
<1> QED
  BY <1>2, <1>3, <1>4, ByteFacts

LEMMA SuffixInOrder ==
  ASSUME NEW s \in Seq(FrameTokens), InOrder(s), NEW n \in 0 .. Len(s)
  PROVE  InOrder(SubSeq(s, n + 1, Len(s)))
<1> DEFINE t == SubSeq(s, n + 1, Len(s))
<1>1. Len(t) = Len(s) - n /\ Len(s) \in Nat /\ n \in Nat /\ \A i \in 1 .. Len(t) : t[i] = s[n + i]
  BY CutFacts
<1> HIDE DEF t
<1>2. ASSUME NEW i \in 1 .. Len(t), NEW j \in 1 .. Len(t), i < j, Place(t[i]) + (j - i) < Size(Of(t[i]))
      PROVE  t[j] = ByteAt(Of(t[i]), Number(t[i]), Place(t[i]) + (j - i))
  <2> DEFINE a == n + i
             b == n + j
  <2>1. a \in 1 .. Len(s) /\ b \in 1 .. Len(s) /\ a < b /\ b - a = j - i
    BY <1>1, <1>2
  <2>2. t[i] = s[a] /\ t[j] = s[b]
    BY <1>1
  <2> HIDE DEF a, b
  <2>3. Place(s[a]) + (b - a) < Size(Of(s[a]))
    BY <1>2, <2>1, <2>2
  <2>4. s[b] = ByteAt(Of(s[a]), Number(s[a]), Place(s[a]) + (b - a))
    BY <2>1, <2>3, FollowsInOrder
  <2> QED
    BY <2>1, <2>2, <2>4
<1>3. ASSUME NEW i \in 1 .. Len(t) - 1, EndsFrame(t[i])
      PROVE  Place(t[i + 1]) = 0 /\ Number(t[i + 1]) = Number(t[i]) + 1
  <2> DEFINE a == n + i
  <2>1. a \in 1 .. Len(s) - 1 /\ i \in 1 .. Len(t) /\ i + 1 \in 1 .. Len(t) /\ n + (i + 1) = a + 1
    BY <1>1
  <2>2. t[i] = s[a]
    BY <1>1, <2>1
  <2>3. t[i + 1] = s[n + (i + 1)]
    BY <1>1, <2>1
  <2> HIDE DEF a
  <2>4. EndsFrame(s[a]) => Place(s[a + 1]) = 0 /\ Number(s[a + 1]) = Number(s[a]) + 1
    BY <2>1 DEF InOrder
  <2> QED
    BY <1>3, <2>1, <2>2, <2>3, <2>4
<1> QED
  BY <1>2, <1>3 DEF InOrder, t

LEMMA PrefixInOrder ==
  ASSUME NEW s \in Seq(FrameTokens), InOrder(s), NEW n \in 0 .. Len(s)
  PROVE  InOrder(SubSeq(s, 1, n))
<1> DEFINE t == SubSeq(s, 1, n)
<1>1. Len(t) = n /\ Len(s) \in Nat /\ n \in Nat /\ n <= Len(s) /\ \A i \in 1 .. n : t[i] = s[i]
  BY CutFacts
<1> HIDE DEF t
<1>2. ASSUME NEW i \in 1 .. n, NEW j \in 1 .. n, i < j, Place(t[i]) + (j - i) < Size(Of(t[i]))
      PROVE  t[j] = ByteAt(Of(t[i]), Number(t[i]), Place(t[i]) + (j - i))
  <2>1. i \in 1 .. Len(s) /\ j \in 1 .. Len(s) /\ t[i] = s[i] /\ t[j] = s[j]
    BY <1>1
  <2> QED
    BY <1>2, <2>1, FollowsInOrder
<1>3. ASSUME NEW i \in 1 .. n - 1, EndsFrame(t[i])
      PROVE  Place(t[i + 1]) = 0 /\ Number(t[i + 1]) = Number(t[i]) + 1
  <2>1. i \in 1 .. Len(s) - 1 /\ i \in 1 .. n /\ i + 1 \in 1 .. n
    BY <1>1
  <2>2. t[i] = s[i] /\ t[i + 1] = s[i + 1]
    BY <1>1, <2>1
  <2> QED
    BY <1>3, <2>1, <2>2 DEF InOrder
<1> QED
  BY <1>1, <1>2, <1>3 DEF InOrder, t

LEMMA JoinInOrder ==
  ASSUME NEW s \in Seq(FrameTokens), NEW t \in Seq(FrameTokens), InOrder(s), InOrder(t),
         s # << >> /\ t # << >> =>
           EndsFrame(LastOf(s)) /\ Place(t[1]) = 0 /\ Number(t[1]) = Number(LastOf(s)) + 1
  PROVE  InOrder(s \o t)
<1> DEFINE u == s \o t
           m == Len(s)
<1>1. /\ Len(u) = m + Len(t) /\ m \in Nat /\ Len(t) \in Nat
      /\ \A i \in 1 .. m + Len(t) : u[i] = IF i <= m THEN s[i] ELSE t[i - m]
  BY ConcatProperties
<1>2. m # 0 => s # << >>
  OBVIOUS
<1>3. Len(t) # 0 => t # << >>
  OBVIOUS
<1>4. m # 0 => LastOf(s) = s[m]
  BY DEF LastOf
<1> HIDE DEF u
<1>5. ASSUME NEW i \in 1 .. Len(u), NEW j \in 1 .. Len(u), i < j, Place(u[i]) + (j - i) < Size(Of(u[i]))
      PROVE  u[j] = ByteAt(Of(u[i]), Number(u[i]), Place(u[i]) + (j - i))
  <2>1. CASE j <= m
    <3>1. u[i] = s[i] /\ u[j] = s[j] /\ i \in 1 .. m /\ j \in 1 .. m
      BY <1>1, <1>5, <2>1
    <3> QED
      BY <1>5, <3>1, FollowsInOrder
  <2>2. CASE i > m
    <3> DEFINE a == i - m
               b == j - m
    <3>1. a \in 1 .. Len(t) /\ b \in 1 .. Len(t) /\ a < b /\ b - a = j - i
      BY <1>1, <1>5, <2>2
    <3>2. u[i] = t[a] /\ u[j] = t[b]
      BY <1>1, <1>5, <2>2
    <3> HIDE DEF a, b
    <3> QED
      BY <1>5, <3>1, <3>2, FollowsInOrder
  <2>3. CASE i <= m /\ j > m
    <3>1. u[i] = s[i] /\ i \in 1 .. m /\ m \in 1 .. m /\ m # 0 /\ Len(t) # 0 /\ i \in Nat /\ j \in Nat
      BY <1>1, <1>5, <2>3
    <3>2. EndsFrame(s[m])
      BY <1>2, <1>3, <1>4, <3>1
    <3>3. s[i] \in FrameTokens
      BY <3>1
    <3>4. Of(s[i]) \in Frames /\ Place(s[i]) \in 0 .. Size(Of(s[i])) - 1
      BY <3>3, TokenFacts
    <3>5. Size(Of(s[i])) \in Nat /\ Place(s[i]) \in Nat
      BY <3>4, SizeFacts
    <3>6. CASE i = m
      <4>1. Place(s[i]) = Size(Of(s[i])) - 1
        BY <3>2, <3>6 DEF EndsFrame
      <4> QED
        BY <1>1, <1>5, <2>3, <3>1, <3>5, <3>6, <4>1
    <3>7. CASE i < m
      <4>1. Place(s[i]) + (m - i) < Size(Of(s[i]))
        BY <1>1, <1>5, <2>3, <3>1, <3>5
      <4>2. Of(s[m]) = Of(s[i]) /\ Place(s[m]) = Place(s[i]) + (m - i)
        BY <3>1, <3>7, <4>1, FollowsInOrder
      <4>3. Place(s[m]) = Size(Of(s[m])) - 1
        BY <3>2 DEF EndsFrame
      <4> QED
        BY <1>1, <1>5, <2>3, <3>1, <3>5, <4>2, <4>3
    <3> QED
      BY <1>1, <2>3, <3>1, <3>6, <3>7
  <2> QED
    BY <1>1, <2>1, <2>2, <2>3
<1>6. ASSUME NEW i \in 1 .. Len(u) - 1, EndsFrame(u[i])
      PROVE  Place(u[i + 1]) = 0 /\ Number(u[i + 1]) = Number(u[i]) + 1
  <2>1. CASE i < m
    <3>1. u[i] = s[i] /\ u[i + 1] = s[i + 1] /\ i \in 1 .. m - 1
      BY <1>1, <2>1
    <3> QED
      BY <1>6, <3>1 DEF InOrder
  <2>2. CASE i = m
    <3>1. u[i] = s[m] /\ u[i + 1] = t[1] /\ m # 0 /\ Len(t) # 0
      BY <1>1, <2>2
    <3> QED
      BY <1>2, <1>3, <1>4, <3>1
  <2>3. CASE i > m
    <3> DEFINE a == i - m
    <3>1. a \in 1 .. Len(t) - 1 /\ (i + 1) - m = a + 1 /\ i \in 1 .. m + Len(t) /\ i + 1 \in 1 .. m + Len(t)
          /\ ~ (i <= m) /\ ~ (i + 1 <= m)
      BY <1>1, <2>3
    <3>2. u[i] = t[a] /\ u[i + 1] = t[a + 1]
      BY <1>1, <3>1
    <3> HIDE DEF a
    <3> QED
      BY <1>6, <3>1, <3>2 DEF InOrder
  <2> QED
    BY <1>1, <2>1, <2>2, <2>3
<1> QED
  BY <1>5, <1>6 DEF InOrder, u

LEMMA BytesInOrder ==
  ASSUME NEW f \in Frames, NEW k \in Nat \ {0}
  PROVE  /\ InOrder(Bytes(f, k)) /\ Bytes(f, k) # << >>
         /\ Place(Bytes(f, k)[1]) = 0 /\ EndsFrame(LastOf(Bytes(f, k)))
         /\ \A i \in 1 .. Len(Bytes(f, k)) : Of(Bytes(f, k)[i]) = f /\ Number(Bytes(f, k)[i]) = k
<1> DEFINE b == Bytes(f, k)
           n == Size(f)
<1>1. Len(b) = n /\ n \in Nat /\ n >= 3 /\ b \in Seq(FrameTokens) /\ \A p \in 0 .. n - 1 : b[p + 1] = ByteAt(f, k, p)
  <2>1. n \in Nat /\ n >= 3
    BY SizeFacts
  <2> QED
    BY <2>1, BytesFacts
<1> HIDE DEF b
<1>2. ASSUME NEW i \in 1 .. n
      PROVE  b[i] = ByteAt(f, k, i - 1) /\ Of(b[i]) = f /\ Number(b[i]) = k /\ Place(b[i]) = i - 1
  <2> DEFINE p == i - 1
  <2>1. p \in 0 .. n - 1 /\ p + 1 = i
    BY <1>1
  <2> HIDE DEF p
  <2>2. b[i] = ByteAt(f, k, p)
    BY <1>1, <2>1
  <2>3. Of(b[i]) = f /\ Number(b[i]) = k /\ Place(b[i]) = p
    BY <2>1, <2>2, ByteFacts
  <2> QED
    BY <2>2, <2>3 DEF p
<1> HIDE DEF n
<1>3. ASSUME NEW i \in 1 .. n, NEW j \in 1 .. n, i < j, Place(b[i]) + (j - i) < Size(Of(b[i]))
      PROVE  b[j] = ByteAt(Of(b[i]), Number(b[i]), Place(b[i]) + (j - i))
  <2>1. Place(b[i]) + (j - i) = j - 1
    BY <1>1, <1>2
  <2> QED
    BY <1>2, <2>1
<1>4. ASSUME NEW i \in 1 .. n - 1 PROVE ~ EndsFrame(b[i])
  <2>1. i \in 1 .. n /\ i - 1 # n - 1
    BY <1>1
  <2>2. Place(b[i]) = i - 1 /\ Of(b[i]) = f
    BY <1>2, <2>1
  <2> QED
    BY <2>1, <2>2 DEF EndsFrame, n
<1>5. InOrder(b)
  BY <1>1, <1>3, <1>4 DEF InOrder
<1>6. b # << >> /\ Place(b[1]) = 0
  <2>1. 1 \in 1 .. n /\ 1 - 1 = 0
    BY <1>1
  <2>2. Place(b[1]) = 0
    BY <1>2, <2>1
  <2>3. b # << >>
    BY <1>1
  <2> QED
    BY <2>2, <2>3
<1>7. EndsFrame(LastOf(b))
  <2>1. n \in 1 .. n
    BY <1>1
  <2>2. Place(b[n]) = n - 1 /\ Of(b[n]) = f
    BY <1>2, <2>1
  <2> QED
    BY <1>1, <2>2 DEF EndsFrame, LastOf, n
<1> QED
  BY <1>1, <1>2, <1>5, <1>6, <1>7 DEF b

-----------------------------------------------------------------------------
(* Types.                                                                  *)
LEMMA TypeInvInit == Init => TypeInv
  BY WsAssumption DEF Init, TypeInv, Opcodes, Texts

LEMMA SendType ==
  ASSUME TypeInv, NEW c \in Clients, Send(c) PROVE TypeInv'
<1> USE DEF TypeInv
<1>1. PICK f \in Frames : /\ net' = [net EXCEPT ![c] = @ \o Bytes(f, Len(sent[c]) + 1)]
                          /\ sent' = [sent EXCEPT ![c] = Append(@, Says(f))]
  BY DEF Send
<1>2. /\ net[c] \in Seq(Tokens) /\ sent[c] \in Seq(Texts) /\ Says(f) \in Texts
      /\ Len(sent[c]) \in Nat /\ Len(sent[c]) + 1 \in Nat \ {0} /\ MaxFrames[c] \in Nat
  <2>1. net[c] \in Seq(Tokens) /\ sent[c] \in Seq(Texts)
    OBVIOUS
  <2>2. Len(sent[c]) \in Nat /\ Len(sent[c]) + 1 \in Nat \ {0}
    BY <2>1
  <2>3. Says(f) \in Texts
    BY DEF Texts
  <2>4. MaxFrames[c] \in Nat
    BY WsAssumption
  <2> QED
    BY <2>1, <2>2, <2>3, <2>4
<1>3. Bytes(f, Len(sent[c]) + 1) \in Seq(Tokens)
  BY <1>2, BytesFacts, SeqMonotonic DEF Tokens
<1>4. net' \in [Clients -> Seq(Tokens)]
  BY <1>1, <1>2, <1>3, ConcatProperties
<1>5. Append(sent[c], Says(f)) \in Seq(Texts) /\ Len(Append(sent[c], Says(f))) = Len(sent[c]) + 1
  BY <1>2, AppendProperties
<1>6. sent' \in [Clients -> Seq(Texts)]
  BY <1>1, <1>5
<1>7. ASSUME NEW d \in Clients PROVE Len(sent'[d]) <= MaxFrames[d] /\ handled[d] <= Len(sent'[d])
  <2>1. sent'[d] = IF d = c THEN Append(sent[c], Says(f)) ELSE sent[d]
    BY <1>1
  <2>2. Len(sent[c]) < MaxFrames[c]
    BY DEF Send
  <2>3. CASE d = c
    BY <1>2, <1>5, <2>1, <2>2, <2>3
  <2>4. CASE d # c
    BY <2>1, <2>4
  <2> QED
    BY <2>3, <2>4
<1> QED
  BY <1>4, <1>6, <1>7 DEF Send, feed, parser

LEMMA CloseClientType ==
  ASSUME TypeInv, client_fd \in Clients, CloseClient,
         UNCHANGED << hungUp, proc, sent, stored >>
  PROVE  TypeInv'
<1> USE DEF TypeInv
<1>1. rcv' \in [Clients -> Seq(Tokens)] /\ net' \in [Clients -> Seq(Tokens)]
  BY DEF CloseClient
<1>2. handled' \in [Clients -> Nat] /\ \A c \in Clients : handled'[c] <= Len(sent[c])
  BY DEF CloseClient
<1>3. state' \in [Clients -> {"none", "waiting", "accepted", "upgraded", "closed"}]
  BY DEF CloseClient
<1>4. tries' \in 0 .. MaxTries - 1 /\ opcode' \in Opcodes /\ payload_len' \in 0 .. MaxPayload
      /\ key' \in Seq(Tokens) /\ Len(key') <= KeyLen
  BY WsAssumption DEF CloseClient, Opcodes
<1> QED
  BY <1>1, <1>2, <1>3, <1>4 DEF CloseClient

(* A read takes a prefix of what waits.                                    *)
LEMMA TakeFacts ==
  ASSUME TypeInv, client_fd \in Clients, NEW n \in Nat
  PROVE  /\ Waiting \in Seq(Tokens)
         /\ Len(ReadUpTo(n)) \in 0 .. Len(Waiting) /\ Len(ReadUpTo(n)) <= n
         /\ Len(ReadUpTo(n)) = (IF n <= Len(Waiting) THEN n ELSE Len(Waiting))
         /\ ReadUpTo(n) = SubSeq(Waiting, 1, Len(ReadUpTo(n)))
         /\ ReadUpTo(n) \in Seq(Tokens)
         /\ Take(n) => rcv' \in [Clients -> Seq(Tokens)]
<1>1. Waiting \in Seq(Tokens) /\ Len(Waiting) \in Nat
  BY DEF TypeInv, Waiting
<1> DEFINE m == IF n <= Len(Waiting) THEN n ELSE Len(Waiting)
<1>2. m \in 0 .. Len(Waiting) /\ m <= n
  BY <1>1
<1>3. ReadUpTo(n) = SubSeq(Waiting, 1, m)
  BY <1>1, MinOf DEF ReadUpTo
<1>4. Len(ReadUpTo(n)) = m /\ ReadUpTo(n) \in Seq(Tokens)
  <2> HIDE DEF m
  <2> QED
    BY <1>1, <1>2, <1>3, CutFacts
<1>5. SubSeq(Waiting, m + 1, Len(Waiting)) \in Seq(Tokens)
  <2> HIDE DEF m
  <2> QED
    BY <1>1, <1>2, CutFacts
<1>6. Take(n) => rcv' = [rcv EXCEPT ![client_fd] = SubSeq(Waiting, m + 1, Len(Waiting))]
  BY <1>4 DEF Take, Waiting, TypeInv
<1>7. Take(n) => rcv' \in [Clients -> Seq(Tokens)]
  <2> HIDE DEF m
  <2> QED
    BY <1>5, <1>6 DEF TypeInv
<1> QED
  BY <1>1, <1>2, <1>3, <1>4, <1>7

LEMMA ToInt8Type == \A n \in Int : ToInt8(n) \in Int8
  BY SMTT(30) DEF ToInt8, Int8

LEMMA NumbersAreInt ==
  /\ \A t \in Tokens : Of(t).num \in Int
  /\ {g.num : g \in Frames} \cup {WsInvalid} \subseteq Int
<1>1. {g.num : g \in Frames} \cup {WsInvalid} \subseteq Int
  BY WsAssumption DEF WsInvalid
<1>2. ASSUME NEW t \in RequestTokens PROVE Of(t).num \in Int
  BY DEF RequestTokens, Token, Of, NoFrame, WsInvalid
<1>3. ASSUME NEW t \in FrameTokens PROVE Of(t).num \in Int
  BY WsAssumption, TokenFacts
<1> QED
  BY <1>1, <1>2, <1>3 DEF Tokens

LEMMA ReadDataType == ASSUME TypeInv, ReadData PROVE TypeInv'
<1>1. client_fd \in Clients /\ payload_len \in Nat \ {0}
  BY WsAssumption DEF ReadData, At, TypeInv
<1> DEFINE payload == ReadUpTo(payload_len)
           last == Last(payload)
           c == client_fd
<1>2. payload \in Seq(Tokens) /\ Len(payload) \in Nat \ {0}
  <2>1. Waiting # << >> /\ Waiting \in Seq(Tokens) /\ Len(Waiting) \in Nat
    BY <1>1, TakeFacts DEF ReadData
  <2>2. Len(Waiting) # 0
    BY <2>1
  <2>3. payload \in Seq(Tokens) /\ Len(payload) = IF payload_len <= Len(Waiting) THEN payload_len ELSE Len(Waiting)
    BY <1>1, TakeFacts
  <2> QED
    BY <1>1, <2>1, <2>2, <2>3
<1>3. last \in Tokens
  BY <1>2 DEF Last
<1>4. PICK n \in Decoded(Of(last), Number(last), payload) :
        LET read == Returned(n) IN
        IF read = WsGone
          THEN CloseClient /\ UNCHANGED stored
          ELSE /\ Take(payload_len) /\ pc' = "loop"
               /\ opcode' = "text" /\ payload_len' = 0 /\ key' = << >>
               /\ handled' = [handled EXCEPT ![c] = Min({handled[c] + 1, Len(sent[c])})]
               /\ stored' = IF read > 0 THEN << c, handled[c] + 1, read >> ELSE stored
               /\ UNCHANGED << state, net, client_fd, tries >>
  BY DEF ReadData
<1>5. n \in Int
  BY <1>3, NumbersAreInt DEF Decoded
<1>6. Returned(n) \in Int8
  BY <1>5, ToInt8Type DEF Returned, Int8
<1>7. UNCHANGED << hungUp, proc, sent >>
  BY DEF ReadData
<1> HIDE DEF payload, last
<1>8. CASE Returned(n) = WsGone
  BY <1>1, <1>4, <1>7, <1>8, CloseClientType
<1>9. CASE Returned(n) # WsGone
  <2>1. /\ rcv' \in [Clients -> Seq(Tokens)] /\ pc' = "loop"
        /\ opcode' = "text" /\ payload_len' = 0 /\ key' = << >>
        /\ UNCHANGED << state, net, client_fd, tries, hungUp, proc, sent >>
    BY <1>1, <1>4, <1>7, <1>9, TakeFacts
  <2>2. handled[c] \in Nat /\ Len(sent[c]) \in Nat
    BY <1>1 DEF TypeInv
  <2>3. Min({handled[c] + 1, Len(sent[c])}) \in 0 .. Len(sent[c])
    BY <2>2, MinOf
  <2>4. handled' = [handled EXCEPT ![c] = Min({handled[c] + 1, Len(sent[c])})]
    BY <1>4, <1>9
  <2>5. handled' \in [Clients -> Nat] /\ \A d \in Clients : handled'[d] <= Len(sent[d])
    <3> DEFINE m == Min({handled[c] + 1, Len(sent[c])})
    <3> HIDE DEF m
    <3>1. m \in Nat /\ m <= Len(sent[c])
      BY <2>2, <2>3 DEF m
    <3>2. handled' = [handled EXCEPT ![c] = m]
      BY <2>4 DEF m
    <3> QED
      BY <3>1, <3>2 DEF TypeInv
  <2>6. stored' = IF Returned(n) > 0 THEN << c, handled[c] + 1, Returned(n) >> ELSE stored
    BY <1>4, <1>9
  <2>7. stored' # << >> => stored' \in Clients \X Nat \X Int8
    BY <1>1, <1>6, <2>2, <2>6 DEF TypeInv
  <2>8. \A d \in Clients : Len(sent'[d]) <= MaxFrames[d] /\ handled'[d] <= Len(sent'[d])
    BY <2>1, <2>5 DEF TypeInv
  <2>9. opcode' \in Opcodes /\ payload_len' \in 0 .. MaxPayload /\ key' \in Seq(Tokens) /\ Len(key') <= KeyLen
    BY <2>1, WsAssumption DEF Opcodes
  <2> HIDE DEF c
  <2> QED
    BY <2>1, <2>5, <2>7, <2>8, <2>9 DEF TypeInv
<1> QED
  BY <1>8, <1>9

LEMMA TypeInvStep == TypeInv /\ [Next]_vars => TypeInv'
<1> SUFFICES ASSUME TypeInv, [Next]_vars PROVE TypeInv'
  OBVIOUS
<1> USE DEF TypeInv
<1>1. ASSUME NEW c \in Clients, Connect(c) PROVE TypeInv'
  BY <1>1, RequestFacts DEF Connect, parser, feed
<1>2. ASSUME NEW c \in Clients, HangUp(c) PROVE TypeInv'
  <2>1. PICK n \in Cuts(net[c]) : net' = [net EXCEPT ![c] = SubSeq(@, 1, n)]
    BY <1>2 DEF HangUp
  <2>2. n \in 0 .. Len(net[c])
    BY DEF Cuts
  <2>3. SubSeq(net[c], 1, n) \in Seq(Tokens)
    BY <2>2, CutFacts
  <2>4. net' \in [Clients -> Seq(Tokens)]
    BY <2>1, <2>3
  <2> QED
    BY <1>2, <2>4 DEF HangUp, parser, feed
<1>3. ASSUME NEW c \in Clients, Deliver(c) PROVE TypeInv'
  <2>1. PICK n \in 1 .. Len(net[c]) :
          /\ rcv' = [rcv EXCEPT ![c] = @ \o SubSeq(net[c], 1, n)]
          /\ net' = [net EXCEPT ![c] = SubSeq(@, n + 1, Len(@))]
    BY <1>3 DEF Deliver
  <2>2. SubSeq(net[c], 1, n) \in Seq(Tokens) /\ SubSeq(net[c], n + 1, Len(net[c])) \in Seq(Tokens)
    BY CutFacts
  <2>3. rcv' \in [Clients -> Seq(Tokens)]
    BY <2>1, <2>2, ConcatProperties
  <2>4. net' \in [Clients -> Seq(Tokens)]
    BY <2>1, <2>2
  <2> QED
    BY <1>3, <2>3, <2>4 DEF Deliver, parser, feed
<1>4. ASSUME NEW c \in Clients, AcceptClient(c) PROVE TypeInv'
  BY <1>4 DEF AcceptClient, At, parser, feed
<1>5. CASE UpgradeNothing
  <2>1. CASE tries + 1 = MaxTries \/ (hungUp[client_fd] /\ net[client_fd] = << >>)
    BY <1>5, <2>1, CloseClientType DEF UpgradeNothing, At
  <2>2. CASE ~ (tries + 1 = MaxTries \/ (hungUp[client_fd] /\ net[client_fd] = << >>))
    <3>1. tries' = tries + 1 /\ tries + 1 # MaxTries
          /\ UNCHANGED << state, net, rcv, client_fd, pc, parser, handled, hungUp, proc, sent, stored >>
      BY <1>5, <2>2 DEF UpgradeNothing
    <3>2. tries' \in 0 .. MaxTries - 1
      BY <3>1, WsAssumption
    <3> QED
      BY <3>1, <3>2 DEF parser
  <2> QED
    BY <2>1, <2>2
<1>6. CASE Upgrade
  BY <1>6, WsAssumption DEF Upgrade, At, parser, feed
<1>7. CASE UpgradeFails
  BY <1>7, CloseClientType DEF UpgradeFails, At
<1>8. CASE UpgradeMalformed \/ UpgradeSigpipe
  BY <1>8 DEF UpgradeMalformed, UpgradeSigpipe, Exit, conns, parser, feed
<1>9. CASE ReadNothing
  BY <1>9, CloseClientType DEF ReadNothing, ReadingFrame
<1>10. CASE ReadOp
  <2>1. CASE Exit("malformed")
    BY <2>1 DEF Exit, conns, parser, feed
  <2>2. CASE ~ Exit("malformed")
    <3>1. /\ client_fd \in Clients
          /\ opcode' \in (IF Kind(Waiting[1]) = "op" THEN {Of(Waiting[1]).op} ELSE Opcodes)
          /\ Take(1) /\ pc' = "len" /\ Waiting # << >>
          /\ UNCHANGED << state, hungUp, net, client_fd, tries, payload_len, key, proc, feed >>
      BY <1>10, <2>2 DEF ReadOp
    <3>2. Waiting \in Seq(Tokens) /\ rcv' \in [Clients -> Seq(Tokens)]
      BY <3>1, TakeFacts
    <3>3. Waiting[1] \in Tokens
      BY <3>1, <3>2
    <3>4. opcode' \in Opcodes
      BY <3>1, <3>3, RequestFacts, WsAssumption
    <3> QED
      BY <3>1, <3>2, <3>4 DEF feed
  <2> QED
    BY <2>1, <2>2
<1>11. CASE ReadLen
  <2>1. CASE Exit("malformed")
    BY <2>1 DEF Exit, conns, parser, feed
  <2>2. CASE ~ Exit("malformed")
    <3>1. /\ client_fd \in Clients
          /\ payload_len' \in 0 .. MaxPayload
          /\ Take(1) /\ pc' = "key" /\ Waiting # << >>
          /\ UNCHANGED << state, hungUp, net, client_fd, tries, opcode, key, proc, feed >>
      BY <1>11, <2>2 DEF ReadLen, At
    <3>2. Waiting \in Seq(Tokens) /\ rcv' \in [Clients -> Seq(Tokens)]
      BY <3>1, TakeFacts
    <3> QED
      BY <3>1, <3>2 DEF feed
  <2> QED
    BY <2>1, <2>2
<1>12. CASE ReadKey
  <2>1. client_fd \in Clients
    BY <1>12 DEF ReadKey, At
  <2>2. CASE payload_len = 0
    BY <1>12, <2>1, <2>2, CloseClientType DEF ReadKey
  <2>3. CASE payload_len # 0
    <3>1. /\ Take(KeyLen) /\ key' = ReadUpTo(KeyLen) /\ pc' = "data"
          /\ UNCHANGED << state, net, client_fd, tries, opcode, payload_len, handled, hungUp, proc, sent, stored >>
      BY <1>12, <2>3 DEF ReadKey
    <3>2. KeyLen \in Nat
      BY WsAssumption
    <3>3. rcv' \in [Clients -> Seq(Tokens)] /\ key' \in Seq(Tokens) /\ Len(key') <= KeyLen
      BY <2>1, <3>1, <3>2, TakeFacts
    <3> QED
      BY <2>1, <2>3, <3>1, <3>3
  <2> QED
    BY <2>2, <2>3
<1>13. CASE ReadData
  BY <1>13, ReadDataType
<1>14. CASE RecvError
  BY <1>14 DEF RecvError, Exit, conns, parser, feed
<1>15. CASE UNCHANGED vars
  BY <1>15 DEF vars, conns, parser, feed
<1> QED
  BY <1>1, <1>2, <1>3, <1>4, <1>5, <1>6, <1>7, <1>8, <1>9, <1>10, <1>11, <1>12, <1>13, <1>14, <1>15, SendType
     DEF Next, ServerStep, ClientStep, Quiet

(* Whatever TCP does to the frames: the locals of read_ws_frame are clear  *)
(* between its calls, no payload, length or command is out of range, and   *)
(* no client is ahead of what it has sent.                                 *)
THEOREM TypeCorrect == Spec => []TypeOK
<1>1. TypeInv => TypeOK
  BY DEF TypeInv, TypeOK
<1> QED
  BY <1>1, TypeInvInit, TypeInvStep, PTL DEF Spec

-----------------------------------------------------------------------------
(* Streams of what is unread, and the place of the server in them.         *)
LEMMA DropGood ==
  ASSUME NEW s \in Seq(FrameTokens), NEW texts, NEW gone, GoodStream(s, texts, gone), NEW n \in 0 .. Len(s)
  PROVE  GoodStream(SubSeq(s, n + 1, Len(s)), texts, gone)
<1> DEFINE t == SubSeq(s, n + 1, Len(s))
<1>1. /\ t \in Seq(FrameTokens) /\ Len(t) = Len(s) - n /\ Len(s) \in Nat /\ n \in Nat /\ n <= Len(s)
      /\ \A i \in 1 .. Len(s) - n : t[i] = s[n + i]
  BY CutFacts
<1>2. InOrder(t)
  BY SuffixInOrder DEF GoodStream
<1> HIDE DEF t
<1>3. ASSUME NEW i \in 1 .. Len(t)
      PROVE  Number(t[i]) \in 1 .. Len(texts) /\ texts[Number(t[i])] = Says(Of(t[i]))
  <2>1. t[i] = s[n + i] /\ n + i \in 1 .. Len(s)
    BY <1>1
  <2> QED
    BY <2>1 DEF GoodStream
<1>4. ASSUME t # << >> PROVE s # << >> /\ LastOf(t) = LastOf(s)
  <2>1. Len(t) # 0
    BY <1>1, <1>4
  <2>2. Len(t) \in 1 .. Len(s) - n /\ n + Len(t) = Len(s)
    BY <1>1, <2>1
  <2>3. t[Len(t)] = s[Len(s)]
    BY <1>1, <2>2
  <2>4. s # << >>
    BY <1>1, <2>1
  <2> QED
    BY <2>3, <2>4 DEF LastOf
<1> QED
  BY <1>2, <1>3, <1>4 DEF GoodStream, t

LEMMA CutGood ==
  ASSUME NEW s \in Seq(FrameTokens), NEW texts, NEW gone, GoodStream(s, texts, gone), NEW n \in 0 .. Len(s),
         n = 0 \/ n = Len(s) \/ Kind(s[n]) \in {"op", "len", "key"} \/ EndsFrame(s[n])
  PROVE  GoodStream(SubSeq(s, 1, n), texts, TRUE)
<1> DEFINE t == SubSeq(s, 1, n)
<1>1. /\ t \in Seq(FrameTokens) /\ Len(t) = n /\ Len(s) \in Nat /\ n \in Nat /\ n <= Len(s)
      /\ \A i \in 1 .. n : t[i] = s[i]
  BY CutFacts
<1>2. InOrder(t)
  BY PrefixInOrder DEF GoodStream
<1> HIDE DEF t
<1>3. ASSUME NEW i \in 1 .. Len(t)
      PROVE  Number(t[i]) \in 1 .. Len(texts) /\ texts[Number(t[i])] = Says(Of(t[i]))
  <2>1. t[i] = s[i] /\ i \in 1 .. Len(s)
    BY <1>1
  <2> QED
    BY <2>1 DEF GoodStream
<1>4. ASSUME t # << >> PROVE EndsFrame(LastOf(t)) \/ Kind(LastOf(t)) \in {"op", "len", "key"}
  <2>1. n # 0
    BY <1>1, <1>4
  <2>2. t[n] = s[n] /\ LastOf(t) = s[n]
    BY <1>1, <2>1 DEF LastOf
  <2>3. n = Len(s) => EndsFrame(s[n]) \/ Kind(s[n]) \in {"op", "len", "key"}
    <3>1. n = Len(s) => s # << >> /\ s[n] = LastOf(s)
      BY <1>1, <2>1 DEF LastOf
    <3> QED
      BY <3>1 DEF GoodStream
  <2> QED
    BY <2>1, <2>2, <2>3
<1> QED
  BY <1>2, <1>3, <1>4 DEF GoodStream, t

LEMMA SendGood ==
  ASSUME NEW s \in Seq(FrameTokens), NEW texts \in Seq(Texts), GoodStream(s, texts, FALSE), NEW f \in Frames
  PROVE  GoodStream(s \o Bytes(f, Len(texts) + 1), Append(texts, Says(f)), FALSE)
<1> DEFINE k == Len(texts) + 1
           b == Bytes(f, k)
           u == s \o b
           new == Append(texts, Says(f))
<1>1. k \in Nat \ {0} /\ Len(texts) \in Nat
  OBVIOUS
<1>2. /\ Len(new) = k /\ new[k] = Says(f)
      /\ \A i \in 1 .. Len(texts) : new[i] = texts[i]
  BY <1>1, AppendProperties DEF Texts
<1> HIDE DEF new
<1>3. b \in Seq(FrameTokens) /\ b # << >> /\ Len(b) \in Nat /\ Len(b) # 0
  BY <1>1, BytesFacts, BytesInOrder
<1>4. /\ InOrder(b) /\ Place(b[1]) = 0 /\ EndsFrame(LastOf(b))
      /\ \A i \in 1 .. Len(b) : Of(b[i]) = f /\ Number(b[i]) = k
  BY <1>1, BytesInOrder
<1> HIDE DEF b
<1>5. 1 \in 1 .. Len(b) /\ Number(b[1]) = k /\ Number(LastOf(b)) = k
  BY <1>3, <1>4 DEF LastOf
<1>6. s # << >> => EndsFrame(LastOf(s)) /\ Number(LastOf(s)) = Len(texts)
  BY DEF GoodStream
<1>7. InOrder(u)
  <2>1. InOrder(s)
    BY DEF GoodStream
  <2>2. s # << >> /\ b # << >> =>
          EndsFrame(LastOf(s)) /\ Place(b[1]) = 0 /\ Number(b[1]) = Number(LastOf(s)) + 1
    BY <1>4, <1>5, <1>6
  <2> QED
    BY <1>3, <1>4, <2>1, <2>2, JoinInOrder
<1>8. /\ Len(u) = Len(s) + Len(b) /\ Len(s) \in Nat
      /\ \A i \in 1 .. Len(s) + Len(b) : u[i] = IF i <= Len(s) THEN s[i] ELSE b[i - Len(s)]
  BY <1>3, ConcatProperties
<1> HIDE DEF u
<1>9. ASSUME NEW i \in 1 .. Len(u)
      PROVE  Number(u[i]) \in 1 .. Len(new) /\ new[Number(u[i])] = Says(Of(u[i]))
  <2>1. CASE i <= Len(s)
    <3>1. u[i] = s[i] /\ i \in 1 .. Len(s)
      BY <1>3, <1>8, <2>1
    <3>2. Number(s[i]) \in 1 .. Len(texts) /\ texts[Number(s[i])] = Says(Of(s[i]))
      BY <3>1 DEF GoodStream
    <3>3. Number(s[i]) \in 1 .. k /\ new[Number(s[i])] = texts[Number(s[i])]
      BY <1>1, <1>2, <3>2
    <3> QED
      BY <1>2, <3>1, <3>2, <3>3
  <2>2. CASE i > Len(s)
    <3>1. u[i] = b[i - Len(s)] /\ i - Len(s) \in 1 .. Len(b)
      BY <1>3, <1>8, <2>2
    <3>2. Of(u[i]) = f /\ Number(u[i]) = k
      BY <1>4, <3>1
    <3>3. k \in 1 .. k
      BY <1>1
    <3> HIDE DEF k
    <3> QED
      BY <1>2, <3>2, <3>3
  <2> QED
    BY <1>3, <1>8, <2>1, <2>2
<1>10. LastOf(u) = LastOf(b)
  <2>1. Len(u) \in 1 .. Len(s) + Len(b) /\ ~ (Len(u) <= Len(s)) /\ Len(u) - Len(s) = Len(b)
    BY <1>3, <1>8
  <2> QED
    BY <1>8, <2>1 DEF LastOf
<1> HIDE DEF k
<1>11. GoodStream(u, new, FALSE)
  <2>1. EndsFrame(LastOf(u)) /\ Number(LastOf(u)) = Len(new)
    BY <1>2, <1>4, <1>5, <1>10
  <2> QED
    BY <1>7, <1>9, <2>1 DEF GoodStream
<1> QED
  BY <1>11 DEF u, b, new, k

(* Where a stream is cut into what has arrived and what is under way.      *)
LEMMA BoundaryEnds ==
  ASSUME NEW s \in Seq(FrameTokens), InOrder(s), NEW n \in 1 .. Len(s) - 1, Place(s[n + 1]) = 0
  PROVE  EndsFrame(s[n])
<1> SUFFICES ASSUME ~ EndsFrame(s[n]) PROVE FALSE
  OBVIOUS
<1>1. n \in 1 .. Len(s) /\ n + 1 \in 1 .. Len(s) /\ n < n + 1 /\ (n + 1) - n = 1
  OBVIOUS
<1>2. s[n] \in FrameTokens
  BY <1>1
<1>3. Of(s[n]) \in Frames /\ Place(s[n]) \in 0 .. Size(Of(s[n])) - 1 /\ Size(Of(s[n])) \in Nat
  BY <1>2, TokenFacts, SizeFacts
<1>4. Place(s[n]) # Size(Of(s[n])) - 1
  BY DEF EndsFrame
<1> DEFINE m == n + 1
<1> HIDE DEF m
<1>5. m \in 1 .. Len(s) /\ n < m /\ m - n = 1
  BY <1>1 DEF m
<1>6. Place(s[n]) + (m - n) < Size(Of(s[n]))
  BY <1>3, <1>4, <1>5
<1>7. Place(s[m]) = Place(s[n]) + (m - n)
  BY <1>1, <1>5, <1>6, FollowsInOrder
<1> QED
  BY <1>3, <1>5, <1>7 DEF m

LEMMA JoinFacts ==
  ASSUME NEW S, NEW r \in Seq(S), NEW n \in Seq(S)
  PROVE  /\ r \o n \in Seq(S) /\ Len(r \o n) = Len(r) + Len(n) /\ Len(r) \in Nat /\ Len(n) \in Nat
         /\ \A i \in 1 .. Len(r) : (r \o n)[i] = r[i]
         /\ \A i \in 1 .. Len(n) : (r \o n)[Len(r) + i] = n[i]
<1> DEFINE s == r \o n
<1>1. /\ s \in Seq(S) /\ Len(s) = Len(r) + Len(n) /\ Len(r) \in Nat /\ Len(n) \in Nat
      /\ \A i \in 1 .. Len(r) + Len(n) : s[i] = IF i <= Len(r) THEN r[i] ELSE n[i - Len(r)]
  BY ConcatProperties
<1> HIDE DEF s
<1>2. \A i \in 1 .. Len(r) : s[i] = r[i]
  BY <1>1
<1>3. \A i \in 1 .. Len(n) : s[Len(r) + i] = n[i]
  BY <1>1
<1> QED
  BY <1>1, <1>2, <1>3 DEF s

LEMMA DropOfJoin ==
  ASSUME NEW S, NEW r \in Seq(S), NEW n \in Seq(S), NEW m \in 0 .. Len(r)
  PROVE  SubSeq(r, m + 1, Len(r)) \o n = SubSeq(r \o n, m + 1, Len(r \o n))
<1> DEFINE s == r \o n
           q == SubSeq(r, m + 1, Len(r))
<1>1. /\ s \in Seq(S) /\ Len(s) = Len(r) + Len(n) /\ Len(r) \in Nat /\ Len(n) \in Nat
      /\ \A i \in 1 .. Len(r) + Len(n) : s[i] = IF i <= Len(r) THEN r[i] ELSE n[i - Len(r)]
  BY ConcatProperties
<1>2. q \in Seq(S) /\ Len(q) = Len(r) - m /\ \A i \in 1 .. Len(r) - m : q[i] = r[m + i]
  BY CutFacts
<1> HIDE DEF s, q
<1> DEFINE a == q \o n
           b == SubSeq(s, m + 1, Len(s))
<1>3. /\ a \in Seq(S) /\ Len(a) = Len(q) + Len(n)
      /\ \A i \in 1 .. Len(q) + Len(n) : a[i] = IF i <= Len(q) THEN q[i] ELSE n[i - Len(q)]
  BY <1>2, ConcatProperties
<1>4. b \in Seq(S) /\ Len(b) = Len(s) - m /\ \A i \in 1 .. Len(s) - m : b[i] = s[m + i]
  <2>1. m \in 0 .. Len(s)
    BY <1>1
  <2> QED
    BY <1>1, <2>1, CutFacts
<1> HIDE DEF a, b
<1>5. Len(a) = Len(b)
  BY <1>1, <1>2, <1>3, <1>4
<1>6. ASSUME NEW i \in 1 .. Len(a) PROVE a[i] = b[i]
  <2>1. /\ i \in 1 .. Len(q) + Len(n) /\ i \in 1 .. Len(s) - m /\ m + i \in 1 .. Len(r) + Len(n)
        /\ (m + i) - Len(r) = i - Len(q)
        /\ i <= Len(q) <=> m + i <= Len(r)
        /\ i <= Len(q) => i \in 1 .. Len(r) - m
    BY <1>1, <1>2, <1>3
  <2>2. b[i] = s[m + i]
    BY <1>4, <2>1
  <2>3. CASE i <= Len(q)
    BY <1>1, <1>2, <1>3, <2>1, <2>2, <2>3
  <2>4. CASE ~ (i <= Len(q))
    BY <1>1, <1>3, <2>1, <2>2, <2>4
  <2> QED
    BY <2>3, <2>4
<1>7. a = b
  BY <1>3, <1>4, <1>5, <1>6, SeqEqual
<1> QED
  BY <1>7 DEF s, q, a, b

LEMMA CutOfJoin ==
  ASSUME NEW S, NEW r \in Seq(S), NEW n \in Seq(S), NEW m \in 0 .. Len(n)
  PROVE  r \o SubSeq(n, 1, m) = SubSeq(r \o n, 1, Len(r) + m)
<1> DEFINE s == r \o n
           q == SubSeq(n, 1, m)
           e == Len(r) + m
<1>1. /\ s \in Seq(S) /\ Len(s) = Len(r) + Len(n) /\ Len(r) \in Nat /\ Len(n) \in Nat
      /\ \A i \in 1 .. Len(r) + Len(n) : s[i] = IF i <= Len(r) THEN r[i] ELSE n[i - Len(r)]
  BY ConcatProperties
<1>2. q \in Seq(S) /\ Len(q) = m /\ \A i \in 1 .. m : q[i] = n[i]
  BY CutFacts
<1>3. e \in 0 .. Len(s)
  BY <1>1
<1> HIDE DEF s, q, e
<1> DEFINE a == r \o q
           b == SubSeq(s, 1, e)
<1>4. /\ a \in Seq(S) /\ Len(a) = Len(r) + Len(q)
      /\ \A i \in 1 .. Len(r) + Len(q) : a[i] = IF i <= Len(r) THEN r[i] ELSE q[i - Len(r)]
  BY <1>2, ConcatProperties
<1>5. b \in Seq(S) /\ Len(b) = e /\ \A i \in 1 .. e : b[i] = s[i]
  BY <1>1, <1>3, CutFacts
<1> HIDE DEF a, b
<1>6. Len(a) = Len(b)
  BY <1>2, <1>4, <1>5 DEF e
<1>7. ASSUME NEW i \in 1 .. Len(a) PROVE a[i] = b[i]
  <2>1. /\ i \in 1 .. Len(r) + Len(q) /\ i \in 1 .. e /\ i \in 1 .. Len(r) + Len(n)
        /\ i <= Len(r) \/ i - Len(r) \in 1 .. m
    BY <1>1, <1>2, <1>3, <1>4 DEF e
  <2> QED
    BY <1>1, <1>2, <1>4, <1>5, <2>1
<1>8. a = b
  BY <1>4, <1>5, <1>6, <1>7, SeqEqual
<1> QED
  BY <1>8 DEF s, q, e, a, b

-----------------------------------------------------------------------------
(* What each step does to a connection.                                    *)
LEMMA SendConn ==
  ASSUME NEW r, NEW n, NEW texts \in Seq(Texts), NEW done, NEW f \in Frames,
         ConnOK("upgraded", FALSE, r, n, texts, done)
  PROVE  /\ ConnOK("upgraded", FALSE, r, n \o Bytes(f, Len(texts) + 1), Append(texts, Says(f)), done)
         /\ r \o (n \o Bytes(f, Len(texts) + 1)) = (r \o n) \o Bytes(f, Len(texts) + 1)
<1> DEFINE b == Bytes(f, Len(texts) + 1)
<1>1. r \in Seq(FrameTokens) /\ n \in Seq(FrameTokens) /\ GoodStream(r \o n, texts, FALSE)
      /\ (n # << >> => Place(n[1]) = 0)
  BY DEF ConnOK
<1>2. Len(texts) + 1 \in Nat \ {0}
  OBVIOUS
<1>3. b \in Seq(FrameTokens) /\ b # << >> /\ Place(b[1]) = 0
  BY <1>2, BytesFacts, BytesInOrder
<1>4. r \o n \in Seq(FrameTokens)
  BY <1>1, ConcatProperties
<1>5. GoodStream((r \o n) \o b, Append(texts, Says(f)), FALSE)
  BY <1>1, <1>4, SendGood
<1> HIDE DEF b
<1>6. r \o (n \o b) = (r \o n) \o b /\ n \o b \in Seq(FrameTokens)
  <2>1. (r \o n) \o b = r \o (n \o b)
    BY <1>1, <1>3, ConcatAssociative
  <2>2. n \o b \in Seq(FrameTokens)
    BY <1>1, <1>3, ConcatProperties
  <2> QED
    BY <2>1, <2>2
<1>7. Place((n \o b)[1]) = 0
  <2>1. CASE n = << >>
    <3>1. n \o b = b
      BY <1>3, <2>1, ConcatEmptySeq
    <3> QED
      BY <1>3, <3>1
  <2>2. CASE n # << >>
    <3>1. Len(n) # 0 /\ Len(n) \in Nat /\ Len(b) \in Nat
      BY <1>1, <1>3, <2>2
    <3>2. \A i \in 1 .. Len(n) + Len(b) : (n \o b)[i] = IF i <= Len(n) THEN n[i] ELSE b[i - Len(n)]
      BY <1>1, <1>3, ConcatProperties
    <3>3. (n \o b)[1] = n[1]
      BY <3>1, <3>2
    <3> QED
      BY <1>1, <2>2, <3>3
  <2> QED
    BY <2>1, <2>2
<1>8. GoodStream(r \o (n \o b), Append(texts, Says(f)), FALSE)
  BY <1>5, <1>6
<1>9. ConnOK("upgraded", FALSE, r, n \o b, Append(texts, Says(f)), done)
  BY <1>1, <1>6, <1>7, <1>8 DEF ConnOK
<1> QED
  BY <1>6, <1>9 DEF b

(* The boundary between what has arrived and what has not ends a frame.    *)
LEMMA ArrivedEnds ==
  ASSUME NEW r \in Seq(FrameTokens), NEW n \in Seq(FrameTokens), InOrder(r \o n), r # << >>, n # << >>,
         Place(n[1]) = 0
  PROVE  EndsFrame(r[Len(r)]) /\ EndsFrame((r \o n)[Len(r)])
<1> DEFINE s == r \o n
           m == Len(r)
<1>1. /\ s \in Seq(FrameTokens) /\ Len(s) = m + Len(n) /\ m \in Nat /\ Len(n) \in Nat
      /\ \A i \in 1 .. m : s[i] = r[i]
      /\ \A i \in 1 .. Len(n) : s[m + i] = n[i]
  BY JoinFacts
<1>2. m # 0 /\ Len(n) # 0
  OBVIOUS
<1> HIDE DEF s, m
<1>3. m \in 1 .. m /\ m \in 1 .. Len(s) - 1 /\ 1 \in 1 .. Len(n)
  BY <1>1, <1>2
<1>4. s[m] = r[m] /\ s[m + 1] = n[1]
  BY <1>1, <1>3
<1>5. EndsFrame(s[m])
  <2>1. InOrder(s)
    BY DEF s
  <2> QED
    BY <1>1, <1>3, <1>4, <2>1, BoundaryEnds
<1> QED
  BY <1>4, <1>5 DEF s, m

LEMMA HangUpConn ==
  ASSUME NEW st \in {"waiting", "accepted", "upgraded"}, NEW r, NEW n, NEW texts, NEW done,
         ConnOK(st, FALSE, r, n, texts, done), NEW m \in Cuts(n)
  PROVE  /\ ConnOK(st, TRUE, r, SubSeq(n, 1, m), texts, done)
         /\ st = "upgraded" => m \in 0 .. Len(n)
<1>1. CASE st # "upgraded"
  <2>1. << r, n >> \in Stages(FALSE) /\ done = Len(texts)
    BY <1>1 DEF ConnOK
  <2>2. CASE n = << >>
    <3>1. SubSeq(n, 1, m) = << >>
      <4>1. m = 0
        BY <2>2 DEF Cuts
      <4> QED
        BY <4>1, SubSeqEmpty
    <3> QED
      <4>1. << r, << >> >> \in Stages(TRUE)
        BY <2>1, <2>2 DEF Stages, Requests
      <4> QED
        BY <1>1, <2>1, <3>1, <4>1 DEF ConnOK
  <2>3. CASE n # << >>
    <3>1. r = << >> /\ n = Request
      BY <2>1, <2>3 DEF Stages, Requests
    <3>2. m \in 0 .. 2
      BY <3>1, RequestFacts DEF Cuts
    <3>3. SubSeq(n, 1, m) \in Requests(TRUE)
      <4>1. CASE m = 0
        BY <3>1, <4>1, SubSeqEmpty DEF Requests
      <4>2. CASE m = 1
        BY <3>1, <4>2, RequestFacts DEF Requests
      <4>3. CASE m = 2
        BY <3>1, <4>3, RequestFacts, SubSeqFull DEF Requests
      <4>4. m = 0 \/ m = 1 \/ m = 2
        BY <3>2
      <4> QED
        BY <4>1, <4>2, <4>3, <4>4
    <3>4. << r, SubSeq(n, 1, m) >> \in Stages(TRUE)
      BY <3>1, <3>3 DEF Stages
    <3> QED
      BY <1>1, <2>1, <3>4 DEF ConnOK
  <2> QED
    BY <2>2, <2>3
<1>2. CASE st = "upgraded"
  <2>1. r \in Seq(FrameTokens) /\ n \in Seq(FrameTokens) /\ GoodStream(r \o n, texts, FALSE)
        /\ (n # << >> => Place(n[1]) = 0)
    BY <1>2 DEF ConnOK
  <2> DEFINE s == r \o n
             e == Len(r) + m
             q == SubSeq(n, 1, m)
  <2>2. m \in 0 .. Len(n) /\ Len(n) \in Nat /\ Len(r) \in Nat
    BY <2>1 DEF Cuts
  <2>3. /\ s \in Seq(FrameTokens) /\ Len(s) = Len(r) + Len(n)
        /\ \A i \in 1 .. Len(r) : s[i] = r[i]
        /\ \A i \in 1 .. Len(n) : s[Len(r) + i] = n[i]
    BY <2>1, JoinFacts
  <2>4. r \o q = SubSeq(s, 1, e)
    BY <2>1, <2>2, CutOfJoin
  <2>5. q \in Seq(FrameTokens) /\ Len(q) = m /\ \A i \in 1 .. m : q[i] = n[i]
    BY <2>1, <2>2, CutFacts
  <2>6. ASSUME q # << >> PROVE Place(q[1]) = 0
    <3>1. m # 0 /\ n # << >>
      BY <2>1, <2>2, <2>5, <2>6
    <3>2. q[1] = n[1]
      BY <2>2, <2>5, <3>1
    <3> QED
      BY <2>1, <3>1, <3>2
  <2>7. InOrder(s)
    BY <2>1 DEF GoodStream
  <2> HIDE DEF s, q
  <2>8. e \in 0 .. Len(s) /\ (e = 0 \/ e = Len(s) \/ Kind(s[e]) \in {"op", "len", "key"} \/ EndsFrame(s[e]))
    <3>1. e \in 0 .. Len(s)
      BY <2>2, <2>3
    <3>2. CASE m = Len(n)
      BY <2>3, <3>1, <3>2
    <3>3. CASE m = 0 /\ m # Len(n)
      <4>1. n # << >> /\ e = Len(r)
        BY <2>2, <3>3
      <4>2. CASE r = << >>
        BY <2>2, <3>1, <4>1, <4>2
      <4>3. CASE r # << >>
        <5>1. EndsFrame(s[Len(r)])
          BY <2>1, <2>7, <4>1, <4>3, ArrivedEnds DEF s
        <5> QED
          BY <3>1, <4>1, <5>1
      <4> QED
        BY <4>2, <4>3
    <3>4. CASE m # 0 /\ m # Len(n)
      <4>0. Kind(n[m]) # "data" /\ m \in 1 .. Len(n) /\ n[m] \in FrameTokens
        BY <2>1, <2>2, <3>4 DEF Cuts
      <4>1. Kind(n[m]) \in {"op", "len", "key"}
        BY <4>0, TokenFacts, ByteFacts
      <4>2. s[e] = n[m]
        BY <2>3, <4>0
      <4> QED
        BY <3>1, <4>1, <4>2
    <3> QED
      BY <3>2, <3>3, <3>4
  <2>9. GoodStream(SubSeq(s, 1, e), texts, TRUE)
    <3>1. GoodStream(s, texts, FALSE)
      BY <2>1 DEF s
    <3> HIDE DEF e
    <3> QED
      BY <2>3, <2>8, <3>1, CutGood
  <2>10. GoodStream(r \o q, texts, TRUE)
    BY <2>4, <2>9
  <2>11. ConnOK(st, TRUE, r, q, texts, done)
    BY <1>2, <2>1, <2>5, <2>6, <2>10 DEF ConnOK
  <2> QED
    BY <2>2, <2>11 DEF q
<1> QED
  BY <1>1, <1>2

LEMMA NoFrameBytes == Bytes(NoFrame, 0) # << >> /\ Kind(Bytes(NoFrame, 0)[1]) = "op"
<1> DEFINE S == {Token(kind, NoFrame, 0, i) : kind \in {"op", "len", "key", "data"}, i \in Nat}
           h == << Token("op", NoFrame, 0, 1), Token("len", NoFrame, 0, 1) >>
           y == Key(NoFrame, 0)
           d == Data(NoFrame, 0)
<1>1. h \in Seq(S) /\ Len(h) = 2 /\ h[1] = Token("op", NoFrame, 0, 1)
  OBVIOUS
<1>2. y \in Seq(S) /\ d \in Seq(S)
  <2>1. \A i \in Nat : Token("key", NoFrame, 0, i) \in S /\ Token("data", NoFrame, 0, i) \in S
    OBVIOUS
  <2>2. NoFrame.len \in Nat /\ KeyLen \in Nat
    BY WsAssumption DEF NoFrame
  <2> HIDE DEF S
  <2> QED
    BY <2>1, <2>2 DEF Key, Data
<1>3. Bytes(NoFrame, 0) = (h \o y) \o d
  BY DEF Bytes
<1> HIDE DEF S, h, y, d
<1>4. /\ h \o y \in Seq(S) /\ Len(h \o y) = Len(h) + Len(y) /\ Len(y) \in Nat
      /\ \A i \in 1 .. Len(h) : (h \o y)[i] = h[i]
  BY <1>1, <1>2, JoinFacts
<1> DEFINE hy == h \o y
<1> HIDE DEF hy
<1>5. hy \in Seq(S) /\ Len(hy) \in Nat /\ Len(hy) # 0 /\ hy[1] = h[1]
  BY <1>1, <1>4 DEF hy
<1>6. /\ hy \o d \in Seq(S) /\ Len(hy \o d) = Len(hy) + Len(d) /\ Len(d) \in Nat
      /\ \A i \in 1 .. Len(hy) : (hy \o d)[i] = hy[i]
  BY <1>2, <1>5, JoinFacts
<1>7. (hy \o d)[1] = Token("op", NoFrame, 0, 1) /\ Len(hy \o d) # 0
  BY <1>1, <1>5, <1>6
<1>8. Bytes(NoFrame, 0)[1] = Token("op", NoFrame, 0, 1) /\ Bytes(NoFrame, 0) # << >>
  <2>1. hy \o d # << >>
    BY <1>6, <1>7
  <2> QED
    BY <1>3, <1>7, <2>1 DEF hy
<1> QED
  BY <1>8 DEF Token, Kind

LEMMA DeliverConn ==
  ASSUME NEW st \in {"none", "waiting", "accepted", "upgraded"}, NEW gone, NEW r, NEW n, NEW texts, NEW done,
         n \in Seq(Tokens), ConnOK(st, gone, r, n, texts, done), NEW m \in 1 .. Len(n),
         Whole(SubSeq(n, 1, m)) \/ SubSeq(n, 1, m) = n
  PROVE  ConnOK(st, gone, r \o SubSeq(n, 1, m), SubSeq(n, m + 1, Len(n)), texts, done)
<1> DEFINE part == SubSeq(n, 1, m)
           rest == SubSeq(n, m + 1, Len(n))
<1>1. /\ Len(n) \in Nat /\ n # << >>
      /\ part \in Seq(Tokens) /\ Len(part) = m /\ \A i \in 1 .. m : part[i] = n[i]
      /\ rest \in Seq(Tokens) /\ Len(rest) = Len(n) - m /\ \A i \in 1 .. Len(n) - m : rest[i] = n[m + i]
      /\ part \o rest = n
  BY CutFacts
<1> HIDE DEF part, rest
<1>2. part[1] = n[1]
  BY <1>1
<1>3. Whole(part) \/ part = n
  BY DEF part
<1>4. CASE st # "upgraded"
  <2>1. r = << >> /\ n \in {Request, HalfRequest} /\ n \in Requests(gone) /\ st \in {"waiting", "accepted"}
    BY <1>1, <1>4 DEF ConnOK, Stages, Requests
  <2>2. n[1] = Token("http", NoFrame, 0, 1) /\ Of(n[1]) = NoFrame /\ Number(n[1]) = 0 /\ Kind(n[1]) = "http"
    BY <2>1 DEF Request, HalfRequest, Token, Of, Number, Kind
  <2>3. part # Bytes(NoFrame, 0)
    BY <1>2, <2>2, NoFrameBytes
  <2>3a. n = HalfRequest => m = 1
    <3>1. n = HalfRequest => Len(n) = 1
      BY RequestFacts
    <3>2. Len(n) = 1 => m = 1
      OBVIOUS
    <3> QED
      BY <3>1, <3>2
  <2>3b. n = HalfRequest => part = n
    BY <1>1, <2>3a, RequestFacts, SubSeqFull DEF part
  <2>4. part = n
    BY <1>2, <1>3, <2>1, <2>2, <2>3, <2>3b DEF Whole
  <2>5. rest = << >>
    <3>1. Len(rest) = 0
      BY <1>1, <2>4
    <3> QED
      BY <1>1, <3>1
  <2>6. r \o part = n
    BY <1>1, <2>1, <2>4, ConcatEmptySeq
  <2>7. << r \o part, rest >> \in Stages(gone)
    BY <2>1, <2>5, <2>6 DEF Stages
  <2> QED
    BY <1>4, <2>1, <2>7 DEF ConnOK, part, rest
<1>5. CASE st = "upgraded"
  <2>1. r \in Seq(FrameTokens) /\ n \in Seq(FrameTokens) /\ GoodStream(r \o n, texts, gone)
    BY <1>5 DEF ConnOK
  <2>2. part \in Seq(FrameTokens) /\ rest \in Seq(FrameTokens)
    BY <2>1, CutFacts DEF part, rest
  <2>3. (r \o part) \o rest = r \o n
    <3>1. (r \o part) \o rest = r \o (part \o rest)
      <4>1. r \in Seq(FrameTokens) /\ part \in Seq(FrameTokens) /\ rest \in Seq(FrameTokens)
        BY <2>1, <2>2
      <4> QED
        BY <4>1, ConcatAssociative
    <3> QED
      BY <1>1, <3>1
  <2>4. r \o part \in Seq(FrameTokens)
    BY <2>1, <2>2, ConcatProperties
  <2>5. ASSUME rest # << >> PROVE Place(rest[1]) = 0
    <3>1. Len(n) - m # 0 /\ part # n
      BY <1>1, <2>5
    <3>2. rest[1] = n[m + 1] /\ m \in 1 .. Len(n) - 1
      BY <1>1, <3>1
    <3> DEFINE f == Of(n[1])
               k == Number(n[1])
    <3>3. n[1] \in FrameTokens
      BY <1>1, <2>1
    <3>4. f \in Frames /\ k \in Nat \ {0}
      BY <3>3, TokenFacts
    <3>5. part # Request
      <4>1. Kind(Request[1]) = "http"
        BY DEF Request, Token, Kind
      <4>2. Kind(n[1]) # "http"
        BY <3>3, <3>4, TokenFacts, ByteFacts
      <4> QED
        BY <1>2, <4>1, <4>2
    <3>6. part = Bytes(f, k)
      BY <1>2, <1>3, <3>1, <3>5 DEF Whole
    <3>7. EndsFrame(part[m])
      <4>1. EndsFrame(LastOf(Bytes(f, k)))
        BY <3>4, BytesInOrder
      <4> QED
        BY <1>1, <3>6, <4>1 DEF LastOf
    <3>8. EndsFrame(n[m])
      BY <1>1, <3>7
    <3> DEFINE s == r \o n
               e == Len(r) + m
    <3>9. /\ Len(s) = Len(r) + Len(n) /\ Len(r) \in Nat
          /\ \A i \in 1 .. Len(n) : s[Len(r) + i] = n[i]
      BY <2>1, JoinFacts
    <3>10. InOrder(s)
      BY <2>1 DEF GoodStream
    <3> HIDE DEF s
    <3>11. e \in 1 .. Len(s) - 1 /\ s[e] = n[m] /\ s[Len(r) + (m + 1)] = n[m + 1] /\ Len(r) + (m + 1) = e + 1
      BY <1>1, <3>2, <3>9
    <3> HIDE DEF e
    <3>12. Place(s[e + 1]) = 0
      BY <3>8, <3>10, <3>11 DEF InOrder
    <3> QED
      BY <3>2, <3>11, <3>12
  <2>6. ConnOK(st, gone, r \o part, rest, texts, done)
    BY <1>5, <2>1, <2>2, <2>3, <2>4, <2>5 DEF ConnOK
  <2> QED
    BY <2>6 DEF part, rest
<1> QED
  BY <1>4, <1>5

LEMMA TakeConn ==
  ASSUME NEW gone, NEW r, NEW n, NEW texts, NEW done, NEW later,
         ConnOK("upgraded", gone, r, n, texts, done), NEW m \in 0 .. Len(r)
  PROVE  /\ ConnOK("upgraded", gone, SubSeq(r, m + 1, Len(r)), n, texts, later)
         /\ SubSeq(r, m + 1, Len(r)) \o n = SubSeq(r \o n, m + 1, Len(r \o n))
         /\ r \o n \in Seq(FrameTokens) /\ GoodStream(r \o n, texts, gone) /\ InOrder(r \o n)
         /\ Len(r \o n) = Len(r) + Len(n) /\ Len(r) \in Nat /\ Len(n) \in Nat
         /\ \A i \in 1 .. Len(r) : (r \o n)[i] = r[i]
<1>1. r \in Seq(FrameTokens) /\ n \in Seq(FrameTokens) /\ GoodStream(r \o n, texts, gone)
      /\ (n # << >> => Place(n[1]) = 0)
  BY DEF ConnOK
<1>2. /\ r \o n \in Seq(FrameTokens) /\ Len(r \o n) = Len(r) + Len(n) /\ Len(r) \in Nat /\ Len(n) \in Nat
      /\ \A i \in 1 .. Len(r) : (r \o n)[i] = r[i]
  BY <1>1, JoinFacts
<1>2a. SubSeq(r, m + 1, Len(r)) \o n = SubSeq(r \o n, m + 1, Len(r \o n))
  BY <1>1, DropOfJoin
<1>3. SubSeq(r, m + 1, Len(r)) \in Seq(FrameTokens)
  BY <1>1, CutFacts
<1> DEFINE s == r \o n
           q == SubSeq(r, m + 1, Len(r))
<1>4. m \in 0 .. Len(s)
  BY <1>2
<1> HIDE DEF s
<1>5. GoodStream(SubSeq(s, m + 1, Len(s)), texts, gone)
  BY <1>1, <1>2, <1>4, DropGood DEF s
<1> HIDE DEF q
<1>6. GoodStream(q \o n, texts, gone)
  BY <1>2a, <1>5 DEF s, q
<1>7. ConnOK("upgraded", gone, q, n, texts, later)
  BY <1>1, <1>3, <1>6 DEF ConnOK, q
<1> QED
  BY <1>1, <1>2, <1>2a, <1>7 DEF q, GoodStream

-----------------------------------------------------------------------------
(* What each read does to the place of the server in the stream.           *)
LEMMA HeadOfRest ==
  ASSUME NEW S, NEW r \in Seq(S), NEW n \in Seq(S), NEW m \in 0 .. Len(r)
  PROVE  LET q == SubSeq(r, m + 1, Len(r)) \o n IN
         /\ m < Len(r) => q # << >> /\ q[1] = r[m + 1]
         /\ m = Len(r) => q = n
<1> DEFINE t == SubSeq(r, m + 1, Len(r))
<1>1. /\ t \in Seq(S) /\ Len(t) = Len(r) - m /\ Len(r) \in Nat /\ m \in Nat
      /\ \A i \in 1 .. Len(r) - m : t[i] = r[m + i]
  BY CutFacts
<1> HIDE DEF t
<1>2. /\ t \o n \in Seq(S) /\ Len(t \o n) = Len(t) + Len(n) /\ Len(n) \in Nat
      /\ \A i \in 1 .. Len(t) : (t \o n)[i] = t[i]
  BY <1>1, JoinFacts
<1>3. ASSUME m < Len(r) PROVE t \o n # << >> /\ (t \o n)[1] = r[m + 1]
  <2>1. Len(t \o n) # 0 /\ 1 \in 1 .. Len(t) /\ 1 \in 1 .. Len(r) - m
    BY <1>1, <1>2, <1>3
  <2>2. (t \o n)[1] = t[1] /\ t[1] = r[m + 1]
    BY <1>1, <1>2, <2>1
  <2>3. t \o n # << >>
    BY <1>2, <2>1
  <2> QED
    BY <2>2, <2>3
<1>4. ASSUME m = Len(r) PROVE t \o n = n
  <2>1. t = << >>
    <3>1. Len(t) = 0
      BY <1>1, <1>4
    <3> QED
      BY <1>1, <3>1
  <2> QED
    BY <2>1, ConcatEmptySeq
<1> QED
  BY <1>3, <1>4 DEF t

LEMMA RunInOrder ==
  ASSUME NEW s \in Seq(FrameTokens), InOrder(s), s # << >>, NEW i \in 1 .. Len(s),
         Place(s[1]) + (i - 1) < Size(Of(s[1]))
  PROVE  /\ s[i] = ByteAt(Of(s[1]), Number(s[1]), Place(s[1]) + (i - 1))
         /\ Of(s[i]) = Of(s[1]) /\ Number(s[i]) = Number(s[1]) /\ Place(s[i]) = Place(s[1]) + (i - 1)
<1>1. 1 \in 1 .. Len(s) /\ i \in Nat
  OBVIOUS
<1>2. s[1] \in FrameTokens
  BY <1>1
<1>3. s[1] = ByteAt(Of(s[1]), Number(s[1]), Place(s[1])) /\ Of(s[1]) \in Frames
      /\ Place(s[1]) \in 0 .. Size(Of(s[1])) - 1
  BY <1>2, TokenFacts
<1>4. CASE i = 1
  <2>1. Place(s[1]) \in Int
    BY <1>3
  <2>2. Place(s[1]) + (i - 1) = Place(s[1])
    BY <1>4, <2>1
  <2> QED
    BY <1>3, <1>4, <2>2
<1>5. CASE i # 1
  <2>1. 1 < i
    BY <1>1, <1>5
  <2> QED
    BY <1>1, <2>1, FollowsInOrder
<1> QED
  BY <1>4, <1>5

(* A stream that stops within a frame is a client's that is gone.          *)
LEMMA ShortGone ==
  ASSUME NEW gone, NEW r, NEW n, NEW texts, NEW done, ConnOK("upgraded", gone, r, n, texts, done),
         r # << >>, ~ EndsFrame(r[Len(r)])
  PROVE  n = << >> /\ gone /\ Kind(r[Len(r)]) \in {"op", "len", "key"}
<1>1. r \in Seq(FrameTokens) /\ n \in Seq(FrameTokens) /\ GoodStream(r \o n, texts, gone)
      /\ (n # << >> => Place(n[1]) = 0)
  BY DEF ConnOK
<1>2. n = << >>
  <2>1. InOrder(r \o n)
    BY <1>1 DEF GoodStream
  <2> QED
    BY <1>1, <2>1, ArrivedEnds
<1>3. r \o n = r
  BY <1>1, <1>2, ConcatEmptySeq
<1>4. GoodStream(r, texts, gone)
  BY <1>1, <1>3
<1> QED
  BY <1>2, <1>4 DEF GoodStream, LastOf

(* The first byte that waits, and the one after the next m of its frame.   *)
LEMMA FirstWaiting ==
  ASSUME NEW gone, NEW r, NEW n, NEW texts, NEW done, ConnOK("upgraded", gone, r, n, texts, done),
         r # << >>
  PROVE  /\ r \in Seq(FrameTokens) /\ n \in Seq(FrameTokens) /\ Len(r) \in Nat \ {0}
         /\ r \o n # << >> /\ (r \o n)[1] = r[1]
         /\ Of(r[1]) \in Frames /\ Number(r[1]) \in 1 .. Len(texts)
         /\ texts[Number(r[1])] = Says(Of(r[1]))
         /\ \A i \in 1 .. Len(r) :
              Place(r[1]) + (i - 1) < Size(Of(r[1])) =>
                /\ r[i] = ByteAt(Of(r[1]), Number(r[1]), Place(r[1]) + (i - 1))
                /\ Of(r[i]) = Of(r[1]) /\ Number(r[i]) = Number(r[1])
                /\ Place(r[i]) = Place(r[1]) + (i - 1)
<1>1. r \in Seq(FrameTokens) /\ n \in Seq(FrameTokens) /\ GoodStream(r \o n, texts, gone)
  BY DEF ConnOK
<1>2. Len(r) \in Nat \ {0} /\ 1 \in 1 .. Len(r)
  BY <1>1
<1> DEFINE s == r \o n
<1>3. /\ s \in Seq(FrameTokens) /\ Len(s) = Len(r) + Len(n) /\ Len(n) \in Nat
      /\ \A i \in 1 .. Len(r) : s[i] = r[i]
  BY <1>1, JoinFacts
<1>4. GoodStream(s, texts, gone) /\ InOrder(s)
  BY <1>1 DEF GoodStream
<1> HIDE DEF s
<1>5. s[1] = r[1] /\ 1 \in 1 .. Len(s) /\ Len(s) # 0
  BY <1>2, <1>3
<1>6. s # << >>
  BY <1>3, <1>5
<1>7. Number(s[1]) \in 1 .. Len(texts) /\ texts[Number(s[1])] = Says(Of(s[1]))
  BY <1>4, <1>5 DEF GoodStream
<1>8. r[1] \in FrameTokens
  BY <1>1, <1>2
<1>9. ASSUME NEW i \in 1 .. Len(r), Place(r[1]) + (i - 1) < Size(Of(r[1]))
      PROVE  /\ r[i] = ByteAt(Of(r[1]), Number(r[1]), Place(r[1]) + (i - 1))
             /\ Of(r[i]) = Of(r[1]) /\ Number(r[i]) = Number(r[1])
             /\ Place(r[i]) = Place(r[1]) + (i - 1)
  <2>1. i \in 1 .. Len(s) /\ s[i] = r[i]
    BY <1>2, <1>3
  <2>2. Place(s[1]) + (i - 1) < Size(Of(s[1]))
    BY <1>5, <1>9
  <2> QED
    BY <1>3, <1>4, <1>5, <1>6, <2>1, <2>2, RunInOrder
<1>10. Of(r[1]) \in Frames
  BY <1>8, TokenFacts
<1>11. Number(r[1]) \in 1 .. Len(texts) /\ texts[Number(r[1])] = Says(Of(r[1]))
  BY <1>5, <1>7
<1>12. s # << >> /\ s[1] = r[1]
  BY <1>5, <1>6
<1> QED
  BY <1>1, <1>2, <1>9, <1>10, <1>11, <1>12 DEF s

LEMMA OpParser ==
  ASSUME NEW gone, NEW r, NEW n, NEW texts \in Seq(Texts), NEW done \in Nat,
         ConnOK("upgraded", gone, r, n, texts, done), r # << >>,
         NEW op, NEW len, NEW ky, NEW op2,
         ParserOK("loop", r \o n, gone, texts, done, op, len, ky)
  PROVE  /\ Kind(r[1]) = "op"
         /\ op2 = Of(r[1]).op => ParserOK("len", SubSeq(r, 1 + 1, Len(r)) \o n, gone, texts, done, op2, len, ky)
<1> DEFINE f == Of(r[1])
           q == SubSeq(r, 1 + 1, Len(r)) \o n
<1>1. /\ r \in Seq(FrameTokens) /\ n \in Seq(FrameTokens) /\ Len(r) \in Nat \ {0}
      /\ f \in Frames /\ Number(r[1]) = done + 1 /\ done + 1 \in 1 .. Len(texts)
      /\ texts[done + 1] = Says(f) /\ Place(r[1]) = 0
  BY FirstWaiting DEF ParserOK, Due
<1>2. Size(f) \in Nat /\ Size(f) >= 3
  BY <1>1, SizeFacts
<1>3. Kind(r[1]) = "op" /\ ~ EndsFrame(r[1])
  <2>1. r[1] \in FrameTokens
    BY <1>1
  <2>2. r[1] = ByteAt(f, done + 1, 0) /\ 0 \in 0 .. Size(f) - 1
    BY <1>1, <1>2, <2>1, TokenFacts
  <2>3. Kind(r[1]) = "op"
    BY <1>1, <2>2, ByteFacts
  <2>4. ~ EndsFrame(r[1])
    BY <1>1, <1>2 DEF EndsFrame
  <2> QED
    BY <2>3, <2>4
<1>4. 1 \in 0 .. Len(r)
  BY <1>1
<1>5. CASE Len(r) = 1
  <2>1. n = << >> /\ gone
    BY <1>3, <1>5, ShortGone
  <2>2. q = << >>
    BY <1>1, <1>4, <1>5, <2>1, HeadOfRest
  <2> HIDE DEF q
  <2>3. op2 = f.op => InFrame(f, "len", q, texts, done, op2, len, ky)
    BY <1>1, <2>2 DEF InFrame
  <2>4. done + 1 <= Len(texts)
    BY <1>1
  <2> HIDE DEF f
  <2>5. op2 = f.op => ParserOK("len", q, gone, texts, done, op2, len, ky)
    BY <1>1, <2>1, <2>2, <2>3, <2>4 DEF ParserOK
  <2> QED
    BY <1>3, <2>5 DEF f, q
<1>6. CASE Len(r) # 1
  <2> HIDE DEF q
  <2>0. Len(r) \in Nat \ {0}
    BY <1>1
  <2>1. 1 < Len(r) /\ 1 + 1 \in 1 .. Len(r) /\ Len(r) \in Nat
    <3> DEFINE z == Len(r)
    <3> HIDE DEF z
    <3>1. z \in Nat \ {0} /\ z # 1
      BY <2>0, <1>6 DEF z
    <3>2. 1 < z /\ 1 + 1 \in 1 .. z /\ z \in Nat
      BY <3>1
    <3> QED
      BY <3>2 DEF z
  <2>2. q # << >> /\ q[1] = r[1 + 1]
    BY <1>1, <1>4, <2>1, HeadOfRest DEF q
  <2>3. Of(r[1 + 1]) = f /\ Number(r[1 + 1]) = done + 1 /\ Place(r[1 + 1]) = 1
    <3>1. Place(r[1]) + ((1 + 1) - 1) = 1 /\ 1 < Size(f)
      BY <1>1, <1>2
    <3> QED
      BY <1>1, <2>1, <3>1, FirstWaiting
  <2>4. op2 = f.op => InFrame(f, "len", q, texts, done, op2, len, ky)
    BY <1>1, <2>2, <2>3 DEF InFrame
  <2>5. done + 1 <= Len(texts)
    BY <1>1
  <2> HIDE DEF f
  <2>6. op2 = f.op => ParserOK("len", q, gone, texts, done, op2, len, ky)
    BY <1>1, <2>2, <2>3, <2>4, <2>5 DEF ParserOK, Due
  <2> QED
    BY <1>3, <2>6 DEF f, q
<1> QED
  BY <1>5, <1>6

LEMMA LenParser ==
  ASSUME NEW gone, NEW r, NEW n, NEW texts \in Seq(Texts), NEW done \in Nat,
         ConnOK("upgraded", gone, r, n, texts, done), r # << >>,
         NEW op, NEW len, NEW ky, NEW len2,
         ParserOK("len", r \o n, gone, texts, done, op, len, ky)
  PROVE  /\ Kind(r[1]) = "len"
         /\ len2 = Of(r[1]).len => ParserOK("key", SubSeq(r, 1 + 1, Len(r)) \o n, gone, texts, done, op, len2, ky)
<1> DEFINE f == Of(r[1])
           q == SubSeq(r, 1 + 1, Len(r)) \o n
<1>1. /\ r \in Seq(FrameTokens) /\ n \in Seq(FrameTokens) /\ Len(r) \in Nat \ {0}
      /\ f \in Frames /\ Number(r[1]) = done + 1 /\ done + 1 \in 1 .. Len(texts)
      /\ texts[done + 1] = Says(f) /\ Place(r[1]) = 1 /\ op = f.op
  BY FirstWaiting DEF ParserOK, Due, InFrame
<1>2. Size(f) \in Nat /\ Size(f) >= 3
  BY <1>1, SizeFacts
<1>3. Kind(r[1]) = "len" /\ ~ EndsFrame(r[1])
  <2>1. r[1] \in FrameTokens
    BY <1>1
  <2>2. r[1] = ByteAt(f, done + 1, 1) /\ 1 \in 0 .. Size(f) - 1
    BY <1>1, <1>2, <2>1, TokenFacts
  <2>3. Kind(r[1]) = "len"
    BY <1>1, <2>2, ByteFacts
  <2>4. ~ EndsFrame(r[1])
    BY <1>1, <1>2 DEF EndsFrame
  <2> QED
    BY <2>3, <2>4
<1>4. 1 \in 0 .. Len(r)
  BY <1>1
<1>5. CASE Len(r) = 1
  <2>1. n = << >> /\ gone
    BY <1>3, <1>5, ShortGone
  <2>2. q = << >>
    BY <1>1, <1>4, <1>5, <2>1, HeadOfRest
  <2> HIDE DEF q
  <2>3. len2 = f.len => InFrame(f, "key", q, texts, done, op, len2, ky)
    BY <1>1, <2>2 DEF InFrame
  <2>4. done + 1 <= Len(texts)
    BY <1>1
  <2> HIDE DEF f
  <2>5. len2 = f.len => ParserOK("key", q, gone, texts, done, op, len2, ky)
    BY <1>1, <2>1, <2>2, <2>3, <2>4 DEF ParserOK
  <2> QED
    BY <1>3, <2>5 DEF f, q
<1>6. CASE Len(r) # 1
  <2> HIDE DEF q
  <2>0. Len(r) \in Nat \ {0}
    BY <1>1
  <2>1. 1 < Len(r) /\ 1 + 1 \in 1 .. Len(r) /\ Len(r) \in Nat
    <3> DEFINE z == Len(r)
    <3> HIDE DEF z
    <3>1. z \in Nat \ {0} /\ z # 1
      BY <2>0, <1>6 DEF z
    <3>2. 1 < z /\ 1 + 1 \in 1 .. z /\ z \in Nat
      BY <3>1
    <3> QED
      BY <3>2 DEF z
  <2>2. q # << >> /\ q[1] = r[1 + 1]
    BY <1>1, <1>4, <2>1, HeadOfRest DEF q
  <2>3. Of(r[1 + 1]) = f /\ Number(r[1 + 1]) = done + 1 /\ Place(r[1 + 1]) = 2
    <3>1. Place(r[1]) + ((1 + 1) - 1) = 2 /\ 2 < Size(f)
      BY <1>1, <1>2
    <3> QED
      BY <1>1, <2>1, <3>1, FirstWaiting
  <2>4. len2 = f.len => InFrame(f, "key", q, texts, done, op, len2, ky)
    BY <1>1, <2>2, <2>3 DEF InFrame
  <2>5. done + 1 <= Len(texts)
    BY <1>1
  <2> HIDE DEF f
  <2>6. len2 = f.len => ParserOK("key", q, gone, texts, done, op, len2, ky)
    BY <1>1, <2>2, <2>3, <2>4, <2>5 DEF ParserOK, Due
  <2> QED
    BY <1>3, <2>6 DEF f, q
<1> QED
  BY <1>5, <1>6

LEMMA KeyParser ==
  ASSUME NEW gone, NEW r, NEW n, NEW texts \in Seq(Texts), NEW done \in Nat,
         ConnOK("upgraded", gone, r, n, texts, done), r # << >>,
         NEW op, NEW len, len # 0, NEW ky, NEW m \in Nat,
         m = IF KeyLen <= Len(r) THEN KeyLen ELSE Len(r),
         ParserOK("key", r \o n, gone, texts, done, op, len, ky)
  PROVE  ParserOK("data", SubSeq(r, m + 1, Len(r)) \o n, gone, texts, done, op, len, SubSeq(r, 1, m))
<1> DEFINE f == Of(r[1])
           k == done + 1
           q == SubSeq(r, m + 1, Len(r)) \o n
           ky2 == SubSeq(r, 1, m)
<1>1. /\ r \in Seq(FrameTokens) /\ n \in Seq(FrameTokens) /\ Len(r) \in Nat \ {0}
      /\ f \in Frames /\ Number(r[1]) = k /\ k \in 1 .. Len(texts)
      /\ texts[k] = Says(f) /\ Place(r[1]) = 2 /\ op = f.op /\ len = f.len
  BY FirstWaiting DEF ParserOK, Due, InFrame
<1>2. /\ Size(f) \in Nat /\ Size(f) = 2 + KeyLen + f.len /\ f.len \in Nat \ {0} /\ KeyLen \in Nat \ {0}
      /\ m \in 1 .. Len(r) /\ m <= KeyLen /\ m \in 0 .. Len(r)
  BY <1>1, SizeFacts
<1>3. \A i \in 1 .. Len(r) : i <= KeyLen + 1 =>
        /\ r[i] = ByteAt(f, k, i + 1) /\ Of(r[i]) = f /\ Number(r[i]) = k /\ Place(r[i]) = i + 1
  <2> SUFFICES ASSUME NEW i \in 1 .. Len(r), i <= KeyLen + 1
               PROVE  /\ r[i] = ByteAt(f, k, i + 1) /\ Of(r[i]) = f /\ Number(r[i]) = k /\ Place(r[i]) = i + 1
    OBVIOUS
  <2>1. 2 + (i - 1) = i + 1 /\ i + 1 < Size(f)
    BY <1>1, <1>2
  <2>2. Place(r[1]) + (i - 1) < Size(f) /\ Place(r[1]) + (i - 1) = i + 1
    BY <1>1, <2>1
  <2> QED
    BY <1>1, <2>2, FirstWaiting
<1>4. k <= Len(texts)
  BY <1>1
<1> HIDE DEF f, k
<1>5. CASE m < Len(r)
  <2>1. m = KeyLen /\ m + 1 \in 1 .. Len(r) /\ m + 1 <= KeyLen + 1 /\ (m + 1) + 1 = 2 + KeyLen
    BY <1>1, <1>2, <1>5
  <2>2. q # << >> /\ q[1] = r[m + 1]
    BY <1>1, <1>2, <1>5, HeadOfRest
  <2> HIDE DEF q
  <2>3. Of(r[m + 1]) = f /\ Number(r[m + 1]) = k /\ Place(r[m + 1]) = 2 + KeyLen
    BY <1>3, <2>1
  <2>4. ky2 = Key(f, k)
    <3>1. ky2 \in Seq(FrameTokens) /\ Len(ky2) = m /\ \A i \in 1 .. m : ky2[i] = r[i]
      BY <1>1, <1>2, CutFacts
    <3> HIDE DEF ky2
    <3>2. k \in Nat \ {0}
      BY <1>1
    <3>3. /\ Key(f, k) \in Seq(FrameTokens) /\ Len(Key(f, k)) = KeyLen
          /\ \A i \in 1 .. KeyLen : Key(f, k)[i] = ByteAt(f, k, i + 1)
      BY <1>1, <3>2, BytesFacts
    <3>4. ASSUME NEW i \in 1 .. Len(ky2) PROVE ky2[i] = Key(f, k)[i]
      <4>1. i \in 1 .. m /\ i \in 1 .. KeyLen /\ i \in 1 .. Len(r) /\ i <= KeyLen + 1
        BY <1>1, <1>2, <2>1, <3>1
      <4> QED
        BY <1>3, <3>1, <3>3, <4>1
    <3> QED
      BY <2>1, <3>1, <3>3, <3>4, SeqEqual
  <2> HIDE DEF ky2
  <2>5. InFrame(f, "data", q, texts, done, op, len, ky2)
    BY <1>1, <2>2, <2>3, <2>4 DEF InFrame, k
  <2>6. ParserOK("data", q, gone, texts, done, op, len, ky2)
    BY <1>1, <1>4, <2>2, <2>3, <2>5 DEF ParserOK, Due, k
  <2> QED
    BY <2>6 DEF q, ky2
<1>6. CASE m = Len(r)
  <2>1. ~ EndsFrame(r[Len(r)])
    <3>1. Len(r) \in 1 .. Len(r) /\ Len(r) <= KeyLen + 1 /\ Len(r) + 1 # Size(f) - 1
      BY <1>1, <1>2, <1>6
    <3>2. Of(r[Len(r)]) = f /\ Place(r[Len(r)]) = Len(r) + 1
      BY <1>3, <3>1
    <3> QED
      BY <3>1, <3>2 DEF EndsFrame
  <2>2. n = << >> /\ gone
    BY <2>1, ShortGone
  <2>3. q = << >>
    BY <1>1, <1>2, <1>6, <2>2, HeadOfRest
  <2> HIDE DEF q, ky2
  <2>4. InFrame(f, "data", q, texts, done, op, len, ky2)
    BY <1>1, <2>3 DEF InFrame, k
  <2>5. ParserOK("data", q, gone, texts, done, op, len, ky2)
    BY <1>1, <1>4, <2>2, <2>3, <2>4 DEF ParserOK, k
  <2> QED
    BY <2>5 DEF q, ky2
<1> QED
  BY <1>2, <1>5, <1>6

(* What a read of len bytes of data finds: the payload of frame k.         *)
DataIs(f, k, r, texts, op, len, ky) ==
  /\ Of(r[len]) = f /\ Number(r[len]) = k
  /\ op = f.op /\ len = f.len /\ texts[k] = Says(f)
  /\ SubSeq(r, 1, len) = Data(f, k) /\ ky = Key(f, k)

LEMMA DataParser ==
  ASSUME NEW gone, NEW r, NEW n, NEW texts \in Seq(Texts), NEW done \in Nat,
         ConnOK("upgraded", gone, r, n, texts, done), r # << >>,
         NEW op, NEW len, len # 0, NEW ky,
         ParserOK("data", r \o n, gone, texts, done, op, len, ky)
  PROVE  /\ len \in Nat /\ len <= Len(r) /\ done + 1 \in 1 .. Len(texts)
         /\ \E f \in Frames : DataIs(f, done + 1, r, texts, op, len, ky)
         /\ \A ky2 : ParserOK("loop", SubSeq(r, len + 1, Len(r)) \o n, gone, texts, done + 1, "text", 0, ky2)
<1> DEFINE f == Of(r[1])
           k == done + 1
           q == SubSeq(r, len + 1, Len(r)) \o n
           d == SubSeq(r, 1, len)
<1>1. /\ r \in Seq(FrameTokens) /\ n \in Seq(FrameTokens) /\ Len(r) \in Nat \ {0}
      /\ f \in Frames /\ Number(r[1]) = k /\ k \in 1 .. Len(texts)
      /\ texts[k] = Says(f) /\ Place(r[1]) = 2 + KeyLen /\ op = f.op /\ len = f.len /\ ky = Key(f, k)
  BY FirstWaiting DEF ParserOK, Due, InFrame
<1>2. /\ Size(f) \in Nat /\ Size(f) = 2 + KeyLen + len /\ len \in Nat \ {0} /\ KeyLen \in Nat \ {0}
      /\ k \in Nat \ {0} /\ k + 1 \in Nat
  BY <1>1, SizeFacts
<1>3. \A i \in 1 .. Len(r) : i <= len =>
        /\ r[i] = ByteAt(f, k, i + 1 + KeyLen) /\ Of(r[i]) = f /\ Number(r[i]) = k
        /\ Place(r[i]) = i + 1 + KeyLen
  <2> SUFFICES ASSUME NEW i \in 1 .. Len(r), i <= len
               PROVE  /\ r[i] = ByteAt(f, k, i + 1 + KeyLen) /\ Of(r[i]) = f /\ Number(r[i]) = k
                      /\ Place(r[i]) = i + 1 + KeyLen
    OBVIOUS
  <2>1. (2 + KeyLen) + (i - 1) = i + 1 + KeyLen /\ i + 1 + KeyLen < Size(f)
    BY <1>1, <1>2
  <2>2. Place(r[1]) + (i - 1) < Size(f) /\ Place(r[1]) + (i - 1) = i + 1 + KeyLen
    BY <1>1, <2>1
  <2> QED
    BY <1>1, <2>2, FirstWaiting
<1> HIDE DEF f, k
<1>4. len <= Len(r)
  <2> SUFFICES ASSUME Len(r) < len PROVE FALSE
    BY <1>1, <1>2
  <2>1. Len(r) \in 1 .. Len(r) /\ Len(r) <= len /\ Len(r) + 1 + KeyLen # Size(f) - 1
        /\ Len(r) + 1 + KeyLen \in 0 .. Size(f) - 1 /\ ~ (Len(r) + 1 + KeyLen <= KeyLen + 1)
    BY <1>1, <1>2
  <2>2. Of(r[Len(r)]) = f /\ Place(r[Len(r)]) = Len(r) + 1 + KeyLen /\ r[Len(r)] = ByteAt(f, k, Len(r) + 1 + KeyLen)
    BY <1>3, <2>1
  <2>3. ~ EndsFrame(r[Len(r)])
    BY <2>1, <2>2 DEF EndsFrame
  <2>4. Kind(r[Len(r)]) \in {"op", "len", "key"}
    BY <2>3, ShortGone
  <2> DEFINE p == Len(r) + 1 + KeyLen
  <2>5. p \in 0 .. Size(f) - 1 /\ p # 0 /\ p # 1 /\ p \notin 2 .. KeyLen + 1
    BY <1>1, <1>2, <2>1
  <2> HIDE DEF p
  <2>6. Kind(ByteAt(f, k, p)) \notin {"op", "len", "key"}
    BY <1>1, <1>2, <2>5, ByteFacts
  <2> QED
    BY <2>2, <2>4, <2>6 DEF p
<1>5. len \in 1 .. Len(r) /\ len \in 0 .. Len(r) /\ len <= len
  BY <1>1, <1>2, <1>4
<1>6. Of(r[len]) = f /\ Number(r[len]) = k /\ Place(r[len]) = len + 1 + KeyLen
  BY <1>3, <1>5
<1>7. d = Data(f, k)
  <2>1. d \in Seq(FrameTokens) /\ Len(d) = len /\ \A i \in 1 .. len : d[i] = r[i]
    BY <1>1, <1>5, CutFacts
  <2> HIDE DEF d
  <2>2. /\ Data(f, k) \in Seq(FrameTokens) /\ Len(Data(f, k)) = len
        /\ \A i \in 1 .. len : Data(f, k)[i] = ByteAt(f, k, i + 1 + KeyLen)
    BY <1>1, <1>2, BytesFacts
  <2>3. ASSUME NEW i \in 1 .. Len(d) PROVE d[i] = Data(f, k)[i]
    <3>1. i \in 1 .. len /\ i \in 1 .. Len(r) /\ i <= len
      BY <1>1, <1>5, <2>1
    <3> QED
      BY <1>3, <2>1, <2>2, <3>1
  <2> QED
    BY <2>1, <2>2, <2>3, SeqEqual
<1>8. EndsFrame(r[len])
  <2>1. len + 1 + KeyLen = Size(f) - 1
    BY <1>2
  <2> QED
    BY <1>6, <2>1 DEF EndsFrame
<1> DEFINE s == r \o n
<1>9. /\ s \in Seq(FrameTokens) /\ Len(s) = Len(r) + Len(n) /\ Len(n) \in Nat
      /\ \A i \in 1 .. Len(r) : s[i] = r[i]
      /\ \A i \in 1 .. Len(n) : s[Len(r) + i] = n[i]
  BY <1>1, JoinFacts
<1>10. GoodStream(s, texts, gone) /\ InOrder(s)
  BY DEF ConnOK, GoodStream
<1> HIDE DEF s
<1>11. s[len] = r[len]
  BY <1>5, <1>9
<1>12. ASSUME q # << >> PROVE Place(q[1]) = 0 /\ Number(q[1]) = k + 1
  <2>1. len < Len(s) /\ q[1] = s[len + 1]
    <3>1. CASE len < Len(r)
      <4>1. q[1] = r[len + 1]
        BY <1>1, <1>5, <3>1, HeadOfRest
      <4>2. len + 1 \in 1 .. Len(r) /\ len < Len(s)
        BY <1>1, <1>5, <1>9, <3>1
      <4> QED
        BY <1>9, <4>1, <4>2
    <3>2. CASE len = Len(r)
      <4>1. q = n
        BY <1>1, <1>5, <3>2, HeadOfRest
      <4>2. Len(n) # 0
        <5>1. n # << >> /\ n \in Seq(FrameTokens)
          BY <1>1, <1>12, <4>1
        <5> QED
          BY <5>1
      <4>3. 1 \in 1 .. Len(n) /\ len < Len(s)
        BY <1>1, <1>9, <3>2, <4>2
      <4> QED
        BY <1>9, <3>2, <4>1, <4>3
    <3>3. len < Len(r) \/ len = Len(r)
      BY <1>1, <1>5
    <3> QED
      BY <3>1, <3>2, <3>3
  <2>2. len \in 1 .. Len(s) - 1
    BY <1>1, <1>5, <1>9, <2>1
  <2> QED
    BY <1>6, <1>8, <1>10, <1>11, <2>1, <2>2 DEF InOrder
<1>13. ASSUME q = << >>, ~ gone PROVE k = Len(texts)
  <2>1. len = Len(r) /\ n = << >>
    <3>1. ~ (len < Len(r))
      BY <1>1, <1>5, <1>13, HeadOfRest
    <3>2. len = Len(r)
      BY <1>1, <1>5, <3>1
    <3> QED
      BY <1>1, <1>5, <1>13, <3>2, HeadOfRest
  <2>2. Len(s) = len /\ s # << >>
    <3>1. Len(n) = 0
      BY <2>1
    <3>2. Len(s) = len /\ len # 0
      BY <1>1, <1>2, <1>9, <2>1, <3>1
    <3> QED
      BY <1>9, <3>2
  <2>3. Number(LastOf(s)) = Len(texts)
    <3>1. EndsFrame(LastOf(s)) /\ LastOf(s) = r[len]
      BY <1>8, <1>11, <2>2 DEF LastOf
    <3>2. \/ EndsFrame(LastOf(s)) /\ (~ gone => Number(LastOf(s)) = Len(texts))
          \/ gone /\ Kind(LastOf(s)) \in {"op", "len", "key"}
      BY <1>10, <2>2 DEF GoodStream
    <3> QED
      BY <1>13, <3>2
  <2> QED
    BY <1>6, <1>11, <2>2, <2>3 DEF LastOf
<1> HIDE DEF q
<1>14. \A ky2 : ParserOK("loop", q, gone, texts, k, "text", 0, ky2)
  BY <1>12, <1>13 DEF ParserOK, Due
<1>15. DataIs(f, k, r, texts, op, len, ky)
  BY <1>1, <1>6, <1>7 DEF DataIs
<1> HIDE DEF d
<1> QED
  BY <1>1, <1>2, <1>4, <1>14, <1>15 DEF q, k

-----------------------------------------------------------------------------
(* The invariant of the server: one step at a time.                        *)
LEMMA IInvInit == Init => IInv
<1> SUFFICES ASSUME Init PROVE IInv
  OBVIOUS
<1>1. TypeInv
  BY TypeInvInit
<1>2. ServingInv
  BY WsAssumption DEF Init, ServingInv
<1>3. StreamInv
  <2>1. ASSUME NEW c \in Clients PROVE ConnOK(state[c], hungUp[c], rcv[c], net[c], sent[c], handled[c])
    BY DEF Init, ConnOK
  <2> QED
    BY <2>1 DEF StreamInv
<1>4. ParserInv
  BY DEF Init, ParserInv
<1>5. WellFormedSurvives
  BY DEF Init, WellFormedSurvives
<1> QED
  BY <1>1, <1>2, <1>3, <1>4, <1>5 DEF IInv

LEMMA ServingStep == TypeInv /\ ServingInv /\ [Next]_vars => ServingInv'
<1> SUFFICES ASSUME TypeInv, ServingInv, [Next]_vars PROVE ServingInv'
  OBVIOUS
<1> USE WsAssumption DEF TypeInv, ServingInv
<1>1. ASSUME NEW c \in Clients, Connect(c) PROVE ServingInv'
  BY <1>1 DEF Connect, parser, feed
<1>2. ASSUME NEW c \in Clients, Send(c) PROVE ServingInv'
  BY <1>2 DEF Send
<1>3. ASSUME NEW c \in Clients, HangUp(c) PROVE ServingInv'
  BY <1>3 DEF HangUp
<1>4. ASSUME NEW c \in Clients, Deliver(c) PROVE ServingInv'
  BY <1>4 DEF Deliver
<1>5. ASSUME NEW c \in Clients, AcceptClient(c) PROVE ServingInv'
  BY <1>5 DEF AcceptClient, At
<1>6. ASSUME client_fd \in Clients, CloseClient PROVE ServingInv'
  BY <1>6 DEF CloseClient
<1>7. ASSUME client_fd \in Clients, UNCHANGED << state, client_fd >>, pc # "upgrade", pc' # "upgrade" PROVE ServingInv'
  BY <1>7
<1>8. CASE UpgradeNothing
  BY <1>6, <1>8 DEF UpgradeNothing, At
<1>9. CASE Upgrade
  BY <1>9 DEF Upgrade, At
<1>10. CASE UpgradeFails
  BY <1>6, <1>10 DEF UpgradeFails, At
<1>11. CASE Exit("malformed") \/ Exit("failed")
  BY <1>11 DEF Exit, conns
<1>12. CASE UpgradeMalformed \/ UpgradeSigpipe \/ RecvError
  BY <1>11, <1>12 DEF UpgradeMalformed, UpgradeSigpipe, RecvError
<1>13. CASE ReadNothing
  BY <1>6, <1>13 DEF ReadNothing, ReadingFrame
<1>14. CASE ReadOp
  BY <1>7, <1>11, <1>14 DEF ReadOp, At
<1>15. CASE ReadLen
  BY <1>7, <1>11, <1>15 DEF ReadLen, At
<1>16. CASE ReadKey
  BY <1>6, <1>7, <1>16 DEF ReadKey, At
<1>17. CASE ReadData
  BY <1>6, <1>7, <1>17 DEF ReadData, At
<1>18. CASE UNCHANGED vars
  BY <1>18 DEF vars, conns
<1> QED
  BY <1>1, <1>2, <1>3, <1>4, <1>5, <1>8, <1>9, <1>10, <1>12, <1>13, <1>14, <1>15, <1>16, <1>17, <1>18
     DEF Next, ServerStep, ClientStep, Quiet

LEMMA Served ==
  ASSUME TypeInv, ServingInv, StreamInv, client_fd # NoClient, pc # "upgrade"
  PROVE  LET c == client_fd IN
         /\ c \in Clients /\ state[c] = "upgraded" /\ sent[c] \in Seq(Texts) /\ handled[c] \in Nat
         /\ ConnOK("upgraded", hungUp[c], rcv[c], net[c], sent[c], handled[c])
<1>1. client_fd \in Clients
  BY DEF TypeInv
<1>2. state[client_fd] = "upgraded"
  BY <1>1 DEF TypeInv, ServingInv
<1>3. ConnOK(state[client_fd], hungUp[client_fd], rcv[client_fd], net[client_fd], sent[client_fd], handled[client_fd])
  BY <1>1 DEF StreamInv
<1> QED
  BY <1>1, <1>2, <1>3 DEF TypeInv

LEMMA CloseKeeps ==
  ASSUME TypeInv, ServingInv, StreamInv, client_fd \in Clients, CloseClient, UNCHANGED << hungUp, sent >>
  PROVE  StreamInv' /\ ParserInv'
<1>1. ASSUME NEW c \in Clients
      PROVE  ConnOK(state[c], hungUp[c], rcv[c], net[c], sent[c], handled[c])'
  <2>1. CASE c = client_fd
    <3>1. state'[c] = "closed" /\ handled'[c] = Len(sent'[c])
      BY <2>1 DEF CloseClient, TypeInv
    <3> QED
      BY <3>1 DEF ConnOK
  <2>2. CASE c # client_fd
    <3>1. /\ state'[c] = state[c] /\ hungUp'[c] = hungUp[c] /\ rcv'[c] = rcv[c] /\ net'[c] = net[c]
          /\ sent'[c] = sent[c] /\ handled'[c] = handled[c]
      BY <2>2 DEF CloseClient, TypeInv
    <3>2. ConnOK(state[c], hungUp[c], rcv[c], net[c], sent[c], handled[c])
      BY DEF StreamInv
    <3> QED
      BY <3>1, <3>2
  <2> QED
    BY <2>1, <2>2
<1>2. client_fd' = NoClient
  BY DEF CloseClient
<1> QED
  BY <1>1, <1>2 DEF StreamInv, ParserInv

(* A read of the next bytes, done the number of frames handled after it.   *)
LEMMA TakeKeeps ==
  ASSUME TypeInv, ServingInv, StreamInv, client_fd # NoClient, pc # "upgrade", NEW n \in Nat, Take(n),
         NEW done \in Nat, handled' = [handled EXCEPT ![client_fd] = done],
         UNCHANGED << state, hungUp, net, client_fd, sent >>
  PROVE  LET c == client_fd
             m == IF n <= Len(rcv[c]) THEN n ELSE Len(rcv[c])
         IN /\ StreamInv'
            /\ m \in Nat /\ ReadUpTo(n) = SubSeq(rcv[c], 1, m)
            /\ ParserOK(pc', SubSeq(rcv[c], m + 1, Len(rcv[c])) \o net[c], hungUp[c], sent[c], done,
                        opcode', payload_len', key') => ParserInv'
<1> DEFINE c == client_fd
           m == IF n <= Len(rcv[c]) THEN n ELSE Len(rcv[c])
           q == SubSeq(rcv[c], m + 1, Len(rcv[c]))
<1>1. /\ c \in Clients /\ state[c] = "upgraded"
      /\ ConnOK("upgraded", hungUp[c], rcv[c], net[c], sent[c], handled[c])
  BY Served
<1>2. Len(rcv[c]) \in Nat /\ m \in 0 .. Len(rcv[c]) /\ m \in Nat
  BY <1>1 DEF TypeInv
<1>3. ReadUpTo(n) = SubSeq(rcv[c], 1, m) /\ Len(ReadUpTo(n)) = m
  BY <1>1, TakeFacts DEF Waiting
<1>4. rcv' = [rcv EXCEPT ![c] = q]
  BY <1>1, <1>3 DEF Take
<1> HIDE DEF m
<1>5. ConnOK("upgraded", hungUp[c], q, net[c], sent[c], done)
  BY <1>1, <1>2, TakeConn
<1>6. rcv'[c] = q /\ handled'[c] = done /\ \A d \in Clients : d # c => rcv'[d] = rcv[d] /\ handled'[d] = handled[d]
  BY <1>1, <1>4 DEF TypeInv
<1> HIDE DEF q
<1>7. ASSUME NEW d \in Clients
      PROVE  ConnOK(state[d], hungUp[d], rcv[d], net[d], sent[d], handled[d])'
  <2>1. CASE d = c
    BY <1>1, <1>5, <1>6, <2>1
  <2>2. CASE d # c
    <3>1. ConnOK(state[d], hungUp[d], rcv[d], net[d], sent[d], handled[d])
      BY DEF StreamInv
    <3> QED
      BY <1>6, <2>2, <3>1
  <2> QED
    BY <2>1, <2>2
<1>8. StreamInv'
  BY <1>7 DEF StreamInv
<1>9. ParserOK(pc', q \o net[c], hungUp[c], sent[c], done, opcode', payload_len', key') => ParserInv'
  <2>1. Unread(client_fd)' = q \o net[c]
    BY <1>1, <1>6 DEF Unread
  <2> QED
    BY <1>6, <2>1 DEF ParserInv
<1> QED
  BY <1>2, <1>3, <1>8, <1>9 DEF m, q

(* A step in which no other client's connection changes.                   *)
LEMMA OneConn ==
  ASSUME TypeInv, StreamInv, NEW c \in Clients,
         \A d \in Clients \ {c} :
            /\ state'[d] = state[d] /\ hungUp'[d] = hungUp[d] /\ rcv'[d] = rcv[d] /\ net'[d] = net[d]
            /\ sent'[d] = sent[d] /\ handled'[d] = handled[d],
         ConnOK(state'[c], hungUp'[c], rcv'[c], net'[c], sent'[c], handled'[c])
  PROVE  StreamInv'
<1>1. ASSUME NEW d \in Clients
      PROVE  ConnOK(state[d], hungUp[d], rcv[d], net[d], sent[d], handled[d])'
  <2>1. CASE d = c
    BY <2>1
  <2>2. CASE d # c
    <3>1. ConnOK(state[d], hungUp[d], rcv[d], net[d], sent[d], handled[d])
      BY DEF StreamInv
    <3> QED
      BY <2>2, <3>1
  <2> QED
    BY <2>1, <2>2
<1> QED
  BY <1>1 DEF StreamInv

LEMMA ConnectKeeps ==
  ASSUME IInv, NEW c \in Clients, Connect(c) PROVE StreamInv' /\ ParserInv'
<1> USE DEF IInv
<1>1. /\ state[c] = "none" /\ state' = [state EXCEPT ![c] = "waiting"] /\ net' = [net EXCEPT ![c] = Request]
      /\ UNCHANGED << hungUp, rcv, client_fd, pc, tries, parser, proc, feed >>
  BY DEF Connect
<1>2. ConnOK(state[c], hungUp[c], rcv[c], net[c], sent[c], handled[c])
  BY DEF StreamInv
<1>3. state'[c] = "waiting" /\ net'[c] = Request /\ rcv'[c] = << >> /\ handled'[c] = Len(sent'[c])
  BY <1>1, <1>2 DEF ConnOK, feed, TypeInv
<1>4. ConnOK(state'[c], hungUp'[c], rcv'[c], net'[c], sent'[c], handled'[c])
  BY <1>3 DEF ConnOK, Stages, Requests
<1>5. \A d \in Clients \ {c} :
        /\ state'[d] = state[d] /\ hungUp'[d] = hungUp[d] /\ rcv'[d] = rcv[d] /\ net'[d] = net[d]
        /\ sent'[d] = sent[d] /\ handled'[d] = handled[d]
  BY <1>1 DEF feed, TypeInv
<1>6. StreamInv'
  BY <1>4, <1>5, OneConn
<1>7. client_fd # c
  BY <1>1 DEF ServingInv, TypeInv
<1>8. ParserInv'
  <2>1. client_fd # NoClient => client_fd \in Clients \ {c}
    BY <1>7 DEF TypeInv
  <2>2. client_fd # NoClient => Unread(client_fd)' = Unread(client_fd)
    BY <1>1, <1>5, <2>1 DEF Unread
  <2> QED
    BY <1>1, <1>5, <2>1, <2>2 DEF ParserInv, parser, feed
<1> QED
  BY <1>6, <1>8

LEMMA SendParser ==
  ASSUME NEW texts \in Seq(Texts), NEW done \in Nat, NEW s \in Seq(FrameTokens), NEW f \in Frames,
         NEW label, NEW op, NEW len, NEW ky,
         ParserOK(label, s, FALSE, texts, done, op, len, ky)
  PROVE  ParserOK(label, s \o Bytes(f, Len(texts) + 1), FALSE, Append(texts, Says(f)), done, op, len, ky)
<1> DEFINE k == Len(texts) + 1
           b == Bytes(f, k)
           u == s \o b
           new == Append(texts, Says(f))
<1>1. Len(texts) \in Nat /\ k \in Nat \ {0}
  OBVIOUS
<1>2. Len(new) = k /\ \A i \in 1 .. Len(texts) : new[i] = texts[i]
  BY <1>1, AppendProperties DEF Texts
<1> HIDE DEF new
<1>3. /\ b \in Seq(FrameTokens) /\ Len(b) \in Nat /\ Len(b) # 0 /\ Place(b[1]) = 0 /\ Number(b[1]) = k
  <2>1. b \in Seq(FrameTokens) /\ b # << >> /\ Place(b[1]) = 0
    BY <1>1, BytesFacts, BytesInOrder
  <2>2. 1 \in 1 .. Len(b)
    BY <2>1
  <2>3. Number(b[1]) = k
    BY <1>1, <2>2, BytesInOrder
  <2> QED
    BY <2>1, <2>3
<1> HIDE DEF b
<1>4. /\ u \in Seq(FrameTokens) /\ Len(u) = Len(s) + Len(b) /\ Len(s) \in Nat
      /\ \A i \in 1 .. Len(s) : u[i] = s[i]
      /\ \A i \in 1 .. Len(b) : u[Len(s) + i] = b[i]
  BY <1>3, JoinFacts
<1> HIDE DEF u
<1>5. u # << >>
  <2>1. Len(u) # 0
    BY <1>3, <1>4
  <2> QED
    BY <1>4, <2>1
<1>6. CASE s = << >>
  <2>1. label = "loop" /\ done = Len(texts)
    BY <1>6 DEF ParserOK
  <2>2. u[1] = b[1]
    <3>1. Len(s) = 0 /\ 1 \in 1 .. Len(b)
      BY <1>3, <1>6
    <3> QED
      BY <1>4, <3>1
  <2>3. ParserOK(label, u, FALSE, new, done, op, len, ky)
    BY <1>3, <1>5, <2>1, <2>2 DEF ParserOK, Due, k
  <2> QED
    BY <2>3 DEF u, new, b
<1>7. CASE s # << >>
  <2>1. u[1] = s[1]
    <3>1. 1 \in 1 .. Len(s)
      BY <1>4, <1>7
    <3> QED
      BY <1>4, <3>1
  <2>2. ASSUME label # "loop"
        PROVE  done + 1 <= Len(new) /\ \E g \in Frames : InFrame(g, label, u, new, done, op, len, ky)
    <3>1. done + 1 <= Len(texts) /\ \E g \in Frames : InFrame(g, label, s, texts, done, op, len, ky)
      BY <2>2 DEF ParserOK
    <3>2. done + 1 \in 1 .. Len(texts) /\ done + 1 <= k
      BY <1>1, <3>1
    <3>3. new[done + 1] = texts[done + 1]
      BY <1>2, <3>2
    <3>4. PICK g \in Frames : InFrame(g, label, s, texts, done, op, len, ky)
      BY <3>1
    <3>5. InFrame(g, label, u, new, done, op, len, ky)
      BY <1>5, <1>7, <2>1, <3>3, <3>4 DEF InFrame
    <3> QED
      BY <1>2, <3>2, <3>5
  <2>3. ParserOK(label, u, FALSE, new, done, op, len, ky)
    BY <1>5, <1>7, <2>1, <2>2 DEF ParserOK
  <2> QED
    BY <2>3 DEF u, new, b
<1> QED
  BY <1>6, <1>7

LEMMA CutParser ==
  ASSUME NEW s \in Seq(FrameTokens), NEW e \in 0 .. Len(s),
         NEW label, NEW texts, NEW done, NEW op, NEW len, NEW ky,
         ParserOK(label, s, FALSE, texts, done, op, len, ky)
  PROVE  ParserOK(label, SubSeq(s, 1, e), TRUE, texts, done, op, len, ky)
<1> DEFINE t == SubSeq(s, 1, e)
<1>1. t \in Seq(FrameTokens) /\ Len(t) = e /\ e \in Nat /\ Len(s) \in Nat /\ e <= Len(s) /\ \A i \in 1 .. e : t[i] = s[i]
  BY CutFacts
<1> HIDE DEF t
<1>2. ASSUME t # << >> PROVE s # << >> /\ t[1] = s[1]
  <2>1. e # 0
    BY <1>1, <1>2
  <2>2. 1 \in 1 .. e /\ Len(s) # 0
    BY <1>1, <2>1
  <2> QED
    BY <1>1, <2>2
<1>3. ASSUME NEW f \in Frames, InFrame(f, label, s, texts, done, op, len, ky)
      PROVE  InFrame(f, label, t, texts, done, op, len, ky)
  BY <1>2, <1>3 DEF InFrame
<1>4. ParserOK(label, t, TRUE, texts, done, op, len, ky)
  BY <1>2, <1>3 DEF ParserOK
<1> QED
  BY <1>4 DEF t

LEMMA SendKeeps ==
  ASSUME IInv, NEW c \in Clients, Send(c) PROVE StreamInv' /\ ParserInv'
<1> USE DEF IInv
<1>1. PICK f \in Frames : /\ net' = [net EXCEPT ![c] = @ \o Bytes(f, Len(sent[c]) + 1)]
                          /\ sent' = [sent EXCEPT ![c] = Append(@, Says(f))]
  BY DEF Send
<1>2. /\ state[c] = "upgraded" /\ ~ hungUp[c]
      /\ UNCHANGED << state, hungUp, rcv, client_fd, pc, tries, parser, proc, handled, stored >>
  BY DEF Send
<1> DEFINE b == Bytes(f, Len(sent[c]) + 1)
<1> HIDE DEF b
<1>3. net'[c] = net[c] \o b /\ sent'[c] = Append(sent[c], Says(f))
  BY <1>1 DEF TypeInv, b
<1>4. \A d \in Clients \ {c} :
        /\ state'[d] = state[d] /\ hungUp'[d] = hungUp[d] /\ rcv'[d] = rcv[d] /\ net'[d] = net[d]
        /\ sent'[d] = sent[d] /\ handled'[d] = handled[d]
  BY <1>1, <1>2 DEF TypeInv
<1>5. hungUp[c] = FALSE /\ sent[c] \in Seq(Texts) /\ handled[c] \in Nat
  BY <1>2 DEF TypeInv
<1>6. ConnOK("upgraded", FALSE, rcv[c], net[c], sent[c], handled[c])
  BY <1>2, <1>5 DEF StreamInv
<1>7. /\ ConnOK("upgraded", FALSE, rcv[c], net[c] \o b, Append(sent[c], Says(f)), handled[c])
      /\ rcv[c] \o (net[c] \o b) = (rcv[c] \o net[c]) \o b
  <2>1. ConnOK("upgraded", FALSE, rcv[c], net[c] \o b, Append(sent[c], Says(f)), handled[c])
    BY <1>5, <1>6, SendConn DEF b
  <2>2. rcv[c] \o (net[c] \o b) = (rcv[c] \o net[c]) \o b
    <3> DEFINE rc == rcv[c]
               nc == net[c]
               tc == sent[c]
               hc == handled[c]
    <3>1. ConnOK("upgraded", FALSE, rc, nc, tc, hc) /\ tc \in Seq(Texts)
      BY <1>5, <1>6
    <3> HIDE DEF rc, nc, tc, hc
    <3>2. rc \o (nc \o Bytes(f, Len(tc) + 1)) = (rc \o nc) \o Bytes(f, Len(tc) + 1)
      BY <3>1, SendConn
    <3> QED
      BY <3>2 DEF rc, nc, tc, b
  <2> QED
    BY <2>1, <2>2
<1>8. StreamInv'
  BY <1>2, <1>3, <1>4, <1>5, <1>7, OneConn
<1>9. ParserInv'
  <2> SUFFICES ASSUME client_fd # NoClient, pc # "upgrade"
               PROVE  ParserOK(pc, Unread(client_fd)', hungUp[client_fd], sent'[client_fd], handled[client_fd],
                               opcode, payload_len, key)
    BY <1>2 DEF ParserInv, parser
  <2>1. client_fd \in Clients
    BY DEF TypeInv
  <2>2. ParserOK(pc, Unread(client_fd), hungUp[client_fd], sent[client_fd], handled[client_fd], opcode, payload_len, key)
    BY DEF ParserInv
  <2>3. CASE client_fd = c
    <3>1. Unread(c)' = Unread(c) \o b
      BY <1>2, <1>3, <1>7 DEF Unread
    <3>2. Unread(c) \in Seq(FrameTokens)
      BY <1>6, ConcatProperties DEF ConnOK, Unread
    <3>3. ParserOK(pc, Unread(c), FALSE, sent[c], handled[c], opcode, payload_len, key)
      BY <1>5, <2>2, <2>3
    <3>4. ParserOK(pc, Unread(c) \o b, FALSE, Append(sent[c], Says(f)), handled[c], opcode, payload_len, key)
      BY <1>5, <3>2, <3>3, SendParser DEF b
    <3> QED
      BY <1>2, <1>3, <1>5, <2>3, <3>1, <3>4
  <2>4. CASE client_fd # c
    <3>1. Unread(client_fd)' = Unread(client_fd) /\ sent'[client_fd] = sent[client_fd]
      BY <1>2, <1>4, <2>1, <2>4 DEF Unread
    <3> QED
      BY <2>2, <3>1
  <2> QED
    BY <2>3, <2>4
<1> QED
  BY <1>8, <1>9

LEMMA HangUpKeeps ==
  ASSUME IInv, NEW c \in Clients, HangUp(c) PROVE StreamInv' /\ ParserInv'
<1> USE DEF IInv
<1>1. PICK m \in Cuts(net[c]) : net' = [net EXCEPT ![c] = SubSeq(@, 1, m)]
  BY DEF HangUp
<1>2. /\ state[c] \in {"waiting", "accepted", "upgraded"} /\ ~ hungUp[c] /\ hungUp' = [hungUp EXCEPT ![c] = TRUE]
      /\ UNCHANGED << state, rcv, client_fd, pc, tries, parser, proc, feed >>
  BY DEF HangUp
<1> DEFINE q == SubSeq(net[c], 1, m)
<1>3. net'[c] = q /\ hungUp'[c] = TRUE /\ hungUp[c] = FALSE
  BY <1>1, <1>2 DEF TypeInv
<1>4. \A d \in Clients \ {c} :
        /\ state'[d] = state[d] /\ hungUp'[d] = hungUp[d] /\ rcv'[d] = rcv[d] /\ net'[d] = net[d]
        /\ sent'[d] = sent[d] /\ handled'[d] = handled[d]
  BY <1>1, <1>2 DEF TypeInv, feed
<1>5. ConnOK(state[c], FALSE, rcv[c], net[c], sent[c], handled[c])
  BY <1>3 DEF StreamInv
<1>6. /\ ConnOK(state[c], TRUE, rcv[c], q, sent[c], handled[c])
      /\ state[c] = "upgraded" => /\ m \in 0 .. Len(net[c])
                                  /\ rcv[c] \o q = SubSeq(rcv[c] \o net[c], 1, Len(rcv[c]) + m)
  <2>1. ConnOK(state[c], TRUE, rcv[c], q, sent[c], handled[c])
    BY <1>2, <1>5, HangUpConn
  <2>2. state[c] = "upgraded" => m \in 0 .. Len(net[c])
    BY <1>2, <1>5, HangUpConn
  <2>3. ASSUME state[c] = "upgraded" PROVE rcv[c] \o q = SubSeq(rcv[c] \o net[c], 1, Len(rcv[c]) + m)
    <3> DEFINE rc == rcv[c]
               nc == net[c]
               tc == sent[c]
               hc == handled[c]
    <3>1. ConnOK("upgraded", FALSE, rc, nc, tc, hc) /\ m \in Cuts(nc)
      BY <1>5, <2>3
    <3> HIDE DEF rc, nc, tc, hc
    <3>2. rc \o SubSeq(nc, 1, m) = SubSeq(rc \o nc, 1, Len(rc) + m)
      <4>1. rc \in Seq(FrameTokens) /\ nc \in Seq(FrameTokens)
        BY <3>1 DEF ConnOK
      <4>2. m \in 0 .. Len(nc)
        BY <4>1, <3>1 DEF Cuts
      <4> QED
        BY <4>1, <4>2, CutOfJoin
    <3> QED
      BY <3>2 DEF rc, nc
  <2> QED
    BY <2>1, <2>2, <2>3
<1> HIDE DEF q
<1>7. StreamInv'
  BY <1>2, <1>3, <1>4, <1>6, OneConn DEF feed
<1>8. ParserInv'
  <2> SUFFICES ASSUME client_fd # NoClient, pc # "upgrade"
               PROVE  ParserOK(pc, Unread(client_fd)', hungUp'[client_fd], sent[client_fd], handled[client_fd],
                               opcode, payload_len, key)
    BY <1>2 DEF ParserInv, parser, feed
  <2>1. client_fd \in Clients
    BY DEF TypeInv
  <2>2. ParserOK(pc, Unread(client_fd), hungUp[client_fd], sent[client_fd], handled[client_fd], opcode, payload_len, key)
    BY DEF ParserInv
  <2>3. CASE client_fd = c
    <3>1. state[c] = "upgraded"
      BY <2>3, Served
    <3> DEFINE s == Unread(c)
               e == Len(rcv[c]) + m
    <3>2. Unread(c)' = SubSeq(s, 1, e)
      BY <1>2, <1>3, <1>6, <3>1 DEF Unread
    <3>3. s \in Seq(FrameTokens) /\ e \in 0 .. Len(s)
      <4>1. rcv[c] \in Seq(FrameTokens) /\ net[c] \in Seq(FrameTokens)
        BY <1>5, <3>1 DEF ConnOK
      <4>2. s \in Seq(FrameTokens) /\ Len(s) = Len(rcv[c]) + Len(net[c])
            /\ Len(rcv[c]) \in Nat /\ Len(net[c]) \in Nat
        BY <4>1, JoinFacts DEF Unread
      <4> HIDE DEF s
      <4>3. m \in 0 .. Len(net[c])
        BY <1>6, <3>1
      <4>4. e \in 0 .. Len(s)
        <5> DEFINE x == Len(rcv[c])
                   y == Len(net[c])
                   z == Len(s)
        <5> HIDE DEF x, y, z
        <5>1. x \in Nat /\ y \in Nat /\ z = x + y /\ m \in 0 .. y
          BY <4>2, <4>3 DEF x, y, z
        <5>2. x + m \in 0 .. z
          BY <5>1
        <5> QED
          BY <5>2 DEF x, z
      <4> QED
        BY <4>2, <4>4
    <3>4. ParserOK(pc, s, FALSE, sent[c], handled[c], opcode, payload_len, key)
      BY <1>3, <2>2, <2>3
    <3> HIDE DEF s, e
    <3>5. ParserOK(pc, SubSeq(s, 1, e), TRUE, sent[c], handled[c], opcode, payload_len, key)
      BY <3>3, <3>4, CutParser
    <3> QED
      BY <1>2, <1>3, <2>3, <3>2, <3>5
  <2>4. CASE client_fd # c
    <3>1. Unread(client_fd)' = Unread(client_fd) /\ hungUp'[client_fd] = hungUp[client_fd]
      BY <1>2, <1>4, <2>1, <2>4 DEF Unread
    <3> QED
      BY <2>2, <3>1
  <2> QED
    BY <2>3, <2>4
<1> QED
  BY <1>7, <1>8

LEMMA DeliverKeeps ==
  ASSUME IInv, ~ Segmented, NEW c \in Clients, Deliver(c) PROVE StreamInv' /\ ParserInv'
<1> USE DEF IInv
<1>1. PICK m \in 1 .. Len(net[c]) :
        /\ Whole(SubSeq(net[c], 1, m)) \/ SubSeq(net[c], 1, m) = net[c]
        /\ rcv' = [rcv EXCEPT ![c] = @ \o SubSeq(net[c], 1, m)]
        /\ net' = [net EXCEPT ![c] = SubSeq(@, m + 1, Len(@))]
  BY DEF Deliver
<1>2. /\ state[c] \in {"none", "waiting", "accepted", "upgraded"}
      /\ UNCHANGED << state, hungUp, client_fd, pc, tries, parser, proc, feed >>
  BY DEF Deliver, TypeInv
<1> DEFINE part == SubSeq(net[c], 1, m)
           rest == SubSeq(net[c], m + 1, Len(net[c]))
<1>3. rcv'[c] = rcv[c] \o part /\ net'[c] = rest
  BY <1>1 DEF TypeInv
<1>4. \A d \in Clients \ {c} :
        /\ state'[d] = state[d] /\ hungUp'[d] = hungUp[d] /\ rcv'[d] = rcv[d] /\ net'[d] = net[d]
        /\ sent'[d] = sent[d] /\ handled'[d] = handled[d]
  BY <1>1, <1>2 DEF TypeInv, feed
<1>5. ConnOK(state[c], hungUp[c], rcv[c], net[c], sent[c], handled[c]) /\ net[c] \in Seq(Tokens)
  BY DEF StreamInv, TypeInv
<1>6. /\ ConnOK(state[c], hungUp[c], rcv[c] \o part, rest, sent[c], handled[c])
      /\ state[c] = "upgraded" => (rcv[c] \o part) \o rest = rcv[c] \o net[c]
  <2>1. ConnOK(state[c], hungUp[c], rcv[c] \o part, rest, sent[c], handled[c])
    BY <1>1, <1>2, <1>5, DeliverConn
  <2>2. ASSUME state[c] = "upgraded" PROVE (rcv[c] \o part) \o rest = rcv[c] \o net[c]
    <3> DEFINE rc == rcv[c]
               nc == net[c]
               tc == sent[c]
               hc == handled[c]
               gc == hungUp[c]
    <3>1. /\ ConnOK("upgraded", gc, rc, nc, tc, hc) /\ m \in 1 .. Len(nc) /\ nc \in Seq(Tokens)
          /\ Whole(SubSeq(nc, 1, m)) \/ SubSeq(nc, 1, m) = nc
      BY <1>1, <1>5, <2>2
    <3> HIDE DEF rc, nc, tc, hc, gc
    <3>2. (rc \o SubSeq(nc, 1, m)) \o SubSeq(nc, m + 1, Len(nc)) = rc \o nc
      <4>1. rc \in Seq(FrameTokens) /\ nc \in Seq(FrameTokens) /\ m \in 0 .. Len(nc)
        BY <3>1 DEF ConnOK
      <4> DEFINE front == SubSeq(nc, 1, m)
                 back == SubSeq(nc, m + 1, Len(nc))
      <4>2. front \in Seq(FrameTokens) /\ back \in Seq(FrameTokens) /\ front \o back = nc
        BY <4>1, CutFacts
      <4> HIDE DEF front, back
      <4>3. (rc \o front) \o back = rc \o (front \o back)
        <5>1. rc \in Seq(FrameTokens) /\ front \in Seq(FrameTokens) /\ back \in Seq(FrameTokens)
          BY <4>1, <4>2
        <5> QED
          BY <5>1, ConcatAssociative
      <4> QED
        BY <4>2, <4>3 DEF front, back
    <3> QED
      BY <3>2 DEF rc, nc
  <2> QED
    BY <2>1, <2>2
<1> HIDE DEF part, rest
<1>7. StreamInv'
  BY <1>2, <1>3, <1>4, <1>6, OneConn DEF feed
<1>8. ParserInv'
  <2> SUFFICES ASSUME client_fd # NoClient, pc # "upgrade"
               PROVE  Unread(client_fd)' = Unread(client_fd)
    BY <1>2 DEF ParserInv, parser, feed
  <2>1. CASE client_fd = c
    <3>1. state[c] = "upgraded"
      BY <2>1, Served
    <3> QED
      BY <1>2, <1>3, <1>6, <2>1, <3>1 DEF Unread
  <2>2. CASE client_fd # c
    BY <1>2, <1>4, <2>2 DEF Unread, TypeInv
  <2> QED
    BY <2>1, <2>2
<1> QED
  BY <1>7, <1>8

(* What a data read finds, when frames arrive whole: the payload of the    *)
(* frame whose turn it is, all of it.                                      *)
LEMMA DataFound ==
  ASSUME IInv, ReadData
  PROVE  LET c == client_fd
             k == handled[c] + 1
         IN /\ c \in Clients /\ client_fd # NoClient /\ pc = "data"
            /\ handled[c] \in Nat /\ k \in 1 .. Len(sent[c]) /\ Len(sent[c]) \in Nat
            /\ \E f \in Frames :
                 /\ opcode = f.op /\ payload_len = f.len /\ f.len \in Nat \ {0} /\ sent[c][k] = Says(f)
                 /\ f.len <= Len(rcv[c])
                 /\ Returned(f.num) = WsGone => CloseClient /\ UNCHANGED stored
                 /\ Returned(f.num) # WsGone =>
                      /\ Take(f.len) /\ pc' = "loop"
                      /\ opcode' = "text" /\ payload_len' = 0 /\ key' = << >>
                      /\ handled' = [handled EXCEPT ![c] = k]
                      /\ stored' = IF Returned(f.num) > 0 THEN << c, k, Returned(f.num) >> ELSE stored
                      /\ UNCHANGED << state, net, client_fd, tries >>
                 /\ ParserOK("loop", SubSeq(rcv[c], f.len + 1, Len(rcv[c])) \o net[c], hungUp[c], sent[c], k,
                             "text", 0, << >>)
            /\ UNCHANGED << hungUp, proc, sent >>
<1> USE DEF IInv
<1> DEFINE c == client_fd
           k == handled[c] + 1
           r == rcv[c]
           len == payload_len
<1>1. pc = "data" /\ client_fd # NoClient /\ r # << >> /\ len # 0 /\ UNCHANGED << hungUp, proc, sent >>
  BY WsAssumption DEF ReadData, At, Waiting, TypeInv
<1>2. /\ c \in Clients /\ sent[c] \in Seq(Texts) /\ handled[c] \in Nat
      /\ ConnOK("upgraded", hungUp[c], r, net[c], sent[c], handled[c])
  BY <1>1, Served
<1>3. ParserOK("data", r \o net[c], hungUp[c], sent[c], handled[c], opcode, len, key)
  BY <1>1 DEF ParserInv, Unread
<1>4. /\ len \in Nat /\ len <= Len(r) /\ k \in 1 .. Len(sent[c])
      /\ \E f \in Frames : DataIs(f, k, r, sent[c], opcode, len, key)
  <2> DEFINE nc == net[c]
             tc == sent[c]
             hc == handled[c]
             gc == hungUp[c]
  <2>1. /\ ConnOK("upgraded", gc, r, nc, tc, hc) /\ tc \in Seq(Texts) /\ hc \in Nat /\ r # << >>
        /\ len # 0 /\ ParserOK("data", r \o nc, gc, tc, hc, opcode, len, key)
    BY <1>1, <1>2, <1>3
  <2> HIDE DEF r, nc, tc, hc, gc, len
  <2>2. /\ len \in Nat /\ len <= Len(r) /\ hc + 1 \in 1 .. Len(tc)
    BY <2>1, DataParser
  <2>3. \E f \in Frames : DataIs(f, hc + 1, r, tc, opcode, len, key)
    BY <2>1, DataParser
  <2> QED
    BY <2>2, <2>3 DEF hc, tc
<1>4a. PICK f \in Frames : DataIs(f, k, r, sent[c], opcode, len, key)
  BY <1>4
<1>5. ParserOK("loop", SubSeq(r, len + 1, Len(r)) \o net[c], hungUp[c], sent[c], k, "text", 0, << >>)
  <2> DEFINE nc == net[c]
             tc == sent[c]
             hc == handled[c]
             gc == hungUp[c]
  <2>1. /\ ConnOK("upgraded", gc, r, nc, tc, hc) /\ tc \in Seq(Texts) /\ hc \in Nat /\ r # << >>
        /\ len # 0 /\ ParserOK("data", r \o nc, gc, tc, hc, opcode, len, key)
    BY <1>1, <1>2, <1>3
  <2> HIDE DEF r, nc, tc, hc, gc, len
  <2>2. ParserOK("loop", SubSeq(r, len + 1, Len(r)) \o nc, gc, tc, hc + 1, "text", 0, << >>)
    BY <2>1, DataParser
  <2> QED
    BY <2>2 DEF hc, tc, nc, gc
<1> DEFINE payload == ReadUpTo(len)
<1>6. payload = SubSeq(r, 1, len) /\ Len(payload) = len
  BY <1>2, <1>4, TakeFacts DEF Waiting
<1>7. Last(payload) = r[len]
  <2>1. r \in Seq(Tokens) /\ len \in 0 .. Len(r) /\ len \in 1 .. len
    BY <1>1, <1>2, <1>4 DEF TypeInv
  <2> HIDE DEF r, len, payload
  <2>2. SubSeq(r, 1, len)[len] = r[len]
    BY <2>1, CutFacts
  <2> QED
    BY <1>6, <2>2 DEF Last
<1>8. Decoded(Of(Last(payload)), Number(Last(payload)), payload) = {f.num}
  <2> HIDE DEF r, len, payload
  <2> QED
    BY <1>4a, <1>6, <1>7 DEF Decoded, DataIs
<1>9. LET read == Returned(f.num) IN
      IF read = WsGone
        THEN CloseClient /\ UNCHANGED stored
        ELSE /\ Take(payload_len) /\ pc' = "loop"
             /\ opcode' = "text" /\ payload_len' = 0 /\ key' = << >>
             /\ handled' = [handled EXCEPT ![c] = Min({handled[c] + 1, Len(sent[c])})]
             /\ stored' = IF read > 0 THEN << c, handled[c] + 1, read >> ELSE stored
             /\ UNCHANGED << state, net, client_fd, tries >>
  BY <1>8 DEF ReadData
<1>10. Min({handled[c] + 1, Len(sent[c])}) = k /\ Len(sent[c]) \in Nat
  <2>1. Len(sent[c]) \in Nat /\ k \in Nat /\ k <= Len(sent[c])
    BY <1>2, <1>4
  <2> QED
    BY <2>1, MinOf
<1> HIDE DEF payload, r
<1>11. len = f.len /\ f \in Frames /\ opcode = f.op /\ sent[c][k] = Says(f) /\ f.len <= Len(r)
  BY <1>4, <1>4a DEF DataIs
<1>12. f.len \in Nat \ {0}
  BY <1>1, <1>4, <1>11
<1>13. /\ Returned(f.num) = WsGone => CloseClient /\ UNCHANGED stored
       /\ Returned(f.num) # WsGone =>
            /\ Take(f.len) /\ pc' = "loop"
            /\ opcode' = "text" /\ payload_len' = 0 /\ key' = << >>
            /\ handled' = [handled EXCEPT ![c] = k]
            /\ stored' = IF Returned(f.num) > 0 THEN << c, k, Returned(f.num) >> ELSE stored
            /\ UNCHANGED << state, net, client_fd, tries >>
  BY <1>9, <1>10, <1>11
<1>14. ParserOK("loop", SubSeq(rcv[c], f.len + 1, Len(rcv[c])) \o net[c], hungUp[c], sent[c], k, "text", 0, << >>)
  BY <1>5, <1>11 DEF r
<1> QED
  BY <1>1, <1>2, <1>4, <1>10, <1>11, <1>12, <1>13, <1>14 DEF r

(* What waits, and where read_ws_frame is in it.                           *)
LEMMA Reading ==
  ASSUME IInv, client_fd # NoClient, pc # "upgrade"
  PROVE  LET c == client_fd IN
         /\ c \in Clients /\ state[c] = "upgraded" /\ sent[c] \in Seq(Texts) /\ handled[c] \in Nat
         /\ ConnOK("upgraded", hungUp[c], rcv[c], net[c], sent[c], handled[c])
         /\ ParserOK(pc, rcv[c] \o net[c], hungUp[c], sent[c], handled[c], opcode, payload_len, key)
<1> USE DEF IInv
<1>1. /\ client_fd \in Clients /\ state[client_fd] = "upgraded"
      /\ sent[client_fd] \in Seq(Texts) /\ handled[client_fd] \in Nat
      /\ ConnOK("upgraded", hungUp[client_fd], rcv[client_fd], net[client_fd], sent[client_fd], handled[client_fd])
  BY Served
<1>2. ParserOK(pc, Unread(client_fd), hungUp[client_fd], sent[client_fd], handled[client_fd],
               opcode, payload_len, key)
  BY DEF ParserInv
<1> QED
  BY <1>1, <1>2 DEF Unread

LEMMA OneByte == ASSUME IInv, client_fd \in Clients, Waiting # << >>
                 PROVE  Len(rcv[client_fd]) \in Nat \ {0} /\ rcv[client_fd] # << >>
                        /\ (IF 1 <= Len(rcv[client_fd]) THEN 1 ELSE Len(rcv[client_fd])) = 1
<1>1. rcv[client_fd] \in Seq(Tokens) /\ rcv[client_fd] # << >>
  BY DEF IInv, TypeInv, Waiting
<1>2. Len(rcv[client_fd]) \in Nat \ {0}
  BY <1>1
<1> QED
  BY <1>1, <1>2

LEMMA SameKeeps ==
  ASSUME IInv, UNCHANGED << conns, client_fd, pc, parser, sent, handled >> PROVE StreamInv' /\ ParserInv'
<1>1. StreamInv'
  BY DEF IInv, StreamInv, conns
<1>2. ParserInv'
  BY DEF IInv, ParserInv, Unread, conns, parser
<1> QED
  BY <1>1, <1>2

LEMMA ReadOpKeeps == IInv /\ ReadOp => StreamInv' /\ ParserInv' /\ WellFormedSurvives'
<1> SUFFICES ASSUME IInv, ReadOp PROVE StreamInv' /\ ParserInv' /\ WellFormedSurvives'
  OBVIOUS
<1> DEFINE c == client_fd
           r == rcv[c]
           q == SubSeq(r, 1 + 1, Len(r))
<1>1. client_fd # NoClient /\ pc = "loop" /\ proc = "up" /\ Waiting # << >>
  BY DEF ReadOp, At
<1>2. /\ c \in Clients /\ sent[c] \in Seq(Texts) /\ handled[c] \in Nat
      /\ ConnOK("upgraded", hungUp[c], r, net[c], sent[c], handled[c])
      /\ ParserOK("loop", r \o net[c], hungUp[c], sent[c], handled[c], opcode, payload_len, key)
  BY <1>1, Reading
<1>3. r # << >> /\ (IF 1 <= Len(r) THEN 1 ELSE Len(r)) = 1
  BY <1>1, <1>2, OneByte
<1>4. /\ Kind(r[1]) = "op"
      /\ opcode' = Of(r[1]).op =>
           ParserOK("len", q \o net[c], hungUp[c], sent[c], handled[c], opcode', payload_len, key)
  <2> DEFINE nc == net[c]
             tc == sent[c]
             hc == handled[c]
             gc == hungUp[c]
             o2 == opcode'
  <2>1. /\ ConnOK("upgraded", gc, r, nc, tc, hc) /\ tc \in Seq(Texts) /\ hc \in Nat /\ r # << >>
        /\ ParserOK("loop", r \o nc, gc, tc, hc, opcode, payload_len, key)
    BY <1>2, <1>3
  <2> HIDE DEF r, nc, tc, hc, gc, o2
  <2>2. Kind(r[1]) = "op"
    BY <2>1, OpParser
  <2>3. o2 = Of(r[1]).op => ParserOK("len", q \o nc, gc, tc, hc, o2, payload_len, key)
    BY <2>1, OpParser
  <2> QED
    BY <2>2, <2>3 DEF nc, tc, hc, gc, o2
<1>5. /\ opcode' = Of(r[1]).op /\ Take(1) /\ pc' = "len"
      /\ UNCHANGED << state, hungUp, net, client_fd, tries, payload_len, key, proc, feed >>
  BY <1>4 DEF ReadOp, Waiting
<1>6. handled' = [handled EXCEPT ![c] = handled[c]]
  BY <1>2, <1>5 DEF IInv, TypeInv, feed
<1>7. ParserOK(pc', q \o net[c], hungUp[c], sent[c], handled[c], opcode', payload_len', key')
  BY <1>4, <1>5
<1>8. StreamInv' /\ ParserInv'
  <2> HIDE DEF c
  <2>1. LET m == IF 1 <= Len(rcv[client_fd]) THEN 1 ELSE Len(rcv[client_fd]) IN
        /\ StreamInv'
        /\ ParserOK(pc', SubSeq(rcv[client_fd], m + 1, Len(rcv[client_fd])) \o net[client_fd], hungUp[client_fd],
                    sent[client_fd], handled[client_fd], opcode', payload_len', key') => ParserInv'
    BY <1>1, <1>2, <1>5, <1>6, TakeKeeps DEF IInv, feed, c
  <2> QED
    BY <1>3, <1>7, <2>1 DEF c
<1>9. WellFormedSurvives'
  BY <1>1, <1>5 DEF WellFormedSurvives
<1> QED
  BY <1>8, <1>9

LEMMA ReadLenKeeps == IInv /\ ReadLen => StreamInv' /\ ParserInv' /\ WellFormedSurvives'
<1> SUFFICES ASSUME IInv, ReadLen PROVE StreamInv' /\ ParserInv' /\ WellFormedSurvives'
  OBVIOUS
<1> DEFINE c == client_fd
           r == rcv[c]
           q == SubSeq(r, 1 + 1, Len(r))
<1>1. client_fd # NoClient /\ pc = "len" /\ proc = "up" /\ Waiting # << >>
  BY WsAssumption DEF ReadLen, At, IInv, TypeInv
<1>2. /\ c \in Clients /\ sent[c] \in Seq(Texts) /\ handled[c] \in Nat
      /\ ConnOK("upgraded", hungUp[c], r, net[c], sent[c], handled[c])
      /\ ParserOK("len", r \o net[c], hungUp[c], sent[c], handled[c], opcode, payload_len, key)
  BY <1>1, Reading
<1>3. r # << >> /\ (IF 1 <= Len(r) THEN 1 ELSE Len(r)) = 1
  BY <1>1, <1>2, OneByte
<1>4. /\ Kind(r[1]) = "len"
      /\ payload_len' = Of(r[1]).len =>
           ParserOK("key", q \o net[c], hungUp[c], sent[c], handled[c], opcode, payload_len', key)
  <2> DEFINE nc == net[c]
             tc == sent[c]
             hc == handled[c]
             gc == hungUp[c]
             l2 == payload_len'
  <2>1. /\ ConnOK("upgraded", gc, r, nc, tc, hc) /\ tc \in Seq(Texts) /\ hc \in Nat /\ r # << >>
        /\ ParserOK("len", r \o nc, gc, tc, hc, opcode, payload_len, key)
    BY <1>2, <1>3
  <2> HIDE DEF r, nc, tc, hc, gc, l2
  <2>2. Kind(r[1]) = "len"
    BY <2>1, LenParser
  <2>3. l2 = Of(r[1]).len => ParserOK("key", q \o nc, gc, tc, hc, opcode, l2, key)
    BY <2>1, LenParser
  <2> QED
    BY <2>2, <2>3 DEF nc, tc, hc, gc, l2
<1>4a. \/ /\ payload_len' = Of(r[1]).len /\ Take(1) /\ pc' = "key"
          /\ UNCHANGED << state, hungUp, net, client_fd, tries, opcode, key, proc, feed >>
       \/ TooLong(Of(r[1])) /\ Exit("malformed")
  BY <1>4 DEF ReadLen, Waiting
<1>4b. CASE TooLong(Of(r[1])) /\ Exit("malformed")
  <2>1. StreamInv' /\ ParserInv'
    BY <1>4b, SameKeeps DEF Exit, feed
  <2>2. Waiting' = r /\ pc' = "len" /\ proc' = "malformed"
    BY <1>1, <1>4b DEF Exit, conns, Waiting
  <2>3. WellFormedSurvives'
    BY <1>3, <1>4, <1>4b, <2>2 DEF WellFormedSurvives
  <2> QED
    BY <2>1, <2>3
<1>4c. CASE /\ payload_len' = Of(r[1]).len /\ Take(1) /\ pc' = "key"
            /\ UNCHANGED << state, hungUp, net, client_fd, tries, opcode, key, proc, feed >>
  <2>6. handled' = [handled EXCEPT ![c] = handled[c]]
    BY <1>2, <1>4c DEF IInv, TypeInv, feed
  <2>7. ParserOK(pc', q \o net[c], hungUp[c], sent[c], handled[c], opcode', payload_len', key')
    BY <1>4, <1>4c
  <2>8. StreamInv' /\ ParserInv'
    <3> HIDE DEF c
    <3>1. LET m == IF 1 <= Len(rcv[client_fd]) THEN 1 ELSE Len(rcv[client_fd]) IN
          /\ StreamInv'
          /\ ParserOK(pc', SubSeq(rcv[client_fd], m + 1, Len(rcv[client_fd])) \o net[client_fd], hungUp[client_fd],
                      sent[client_fd], handled[client_fd], opcode', payload_len', key') => ParserInv'
      BY <1>1, <1>2, <1>4c, <2>6, TakeKeeps DEF IInv, feed, c
    <3> QED
      BY <1>3, <2>7, <3>1 DEF c
  <2>9. WellFormedSurvives'
    BY <1>1, <1>4c DEF WellFormedSurvives
  <2> QED
    BY <2>8, <2>9
<1> QED
  BY <1>4a, <1>4b, <1>4c

LEMMA ReadKeyKeeps == IInv /\ ReadKey => StreamInv' /\ ParserInv'
<1> SUFFICES ASSUME IInv, ReadKey PROVE StreamInv' /\ ParserInv'
  OBVIOUS
<1> DEFINE c == client_fd
           r == rcv[c]
           m == IF KeyLen <= Len(r) THEN KeyLen ELSE Len(r)
<1>1. client_fd # NoClient /\ pc = "key" /\ r # << >> /\ KeyLen \in Nat
  BY WsAssumption DEF ReadKey, At, IInv, TypeInv, Waiting
<1>2. /\ c \in Clients /\ sent[c] \in Seq(Texts) /\ handled[c] \in Nat
      /\ ConnOK("upgraded", hungUp[c], r, net[c], sent[c], handled[c])
      /\ ParserOK("key", r \o net[c], hungUp[c], sent[c], handled[c], opcode, payload_len, key)
  BY <1>1, Reading
<1>3. CASE payload_len = 0
  BY <1>2, <1>3, CloseKeeps DEF ReadKey, IInv
<1>4. CASE payload_len # 0
  <2>1. /\ Take(KeyLen) /\ key' = ReadUpTo(KeyLen) /\ pc' = "data"
        /\ UNCHANGED << state, net, client_fd, tries, opcode, payload_len, handled, hungUp, proc, sent, stored >>
    BY <1>4 DEF ReadKey
  <2>2. handled' = [handled EXCEPT ![c] = handled[c]]
    BY <1>2, <2>1 DEF IInv, TypeInv
  <2>3. /\ StreamInv' /\ m \in Nat /\ ReadUpTo(KeyLen) = SubSeq(r, 1, m)
        /\ ParserOK(pc', SubSeq(r, m + 1, Len(r)) \o net[c], hungUp[c], sent[c], handled[c],
                    opcode', payload_len', key') => ParserInv'
    BY <1>1, <1>2, <2>1, <2>2, TakeKeeps DEF IInv
  <2>4. ParserOK("data", SubSeq(r, m + 1, Len(r)) \o net[c], hungUp[c], sent[c], handled[c],
                 opcode, payload_len, SubSeq(r, 1, m))
    <3> DEFINE nc == net[c]
               tc == sent[c]
               hc == handled[c]
               gc == hungUp[c]
    <3>1. /\ ConnOK("upgraded", gc, r, nc, tc, hc) /\ tc \in Seq(Texts) /\ hc \in Nat /\ r # << >>
          /\ ParserOK("key", r \o nc, gc, tc, hc, opcode, payload_len, key) /\ payload_len # 0
          /\ m \in Nat /\ m = IF KeyLen <= Len(r) THEN KeyLen ELSE Len(r)
      BY <1>1, <1>2, <1>4, <2>3
    <3> HIDE DEF r, nc, tc, hc, gc, m
    <3>2. ParserOK("data", SubSeq(r, m + 1, Len(r)) \o nc, gc, tc, hc, opcode, payload_len, SubSeq(r, 1, m))
      BY <3>1, KeyParser
    <3> QED
      BY <3>2 DEF nc, tc, hc, gc
  <2> HIDE DEF c, r, m
  <2> QED
    BY <2>1, <2>3, <2>4
<1> QED
  BY <1>3, <1>4

LEMMA ReadDataKeeps == IInv /\ ReadData => StreamInv' /\ ParserInv'
<1> SUFFICES ASSUME IInv, ReadData PROVE StreamInv' /\ ParserInv'
  OBVIOUS
<1> DEFINE c == client_fd
           k == handled[c] + 1
<1>1. /\ c \in Clients /\ client_fd # NoClient /\ pc = "data"
      /\ handled[c] \in Nat /\ UNCHANGED << hungUp, proc, sent >>
  BY DataFound
<1>2. PICK f \in Frames :
        /\ f.len \in Nat \ {0} /\ f.len <= Len(rcv[c])
        /\ Returned(f.num) = WsGone => CloseClient /\ UNCHANGED stored
        /\ Returned(f.num) # WsGone =>
             /\ Take(f.len) /\ pc' = "loop"
             /\ opcode' = "text" /\ payload_len' = 0 /\ key' = << >>
             /\ handled' = [handled EXCEPT ![c] = k]
             /\ UNCHANGED << state, net, client_fd, tries >>
        /\ ParserOK("loop", SubSeq(rcv[c], f.len + 1, Len(rcv[c])) \o net[c], hungUp[c], sent[c], k,
                    "text", 0, << >>)
  BY DataFound
<1>3. CASE Returned(f.num) = WsGone
  BY <1>1, <1>2, <1>3, CloseKeeps DEF IInv
<1>4. CASE Returned(f.num) # WsGone
  <2> DEFINE m == IF f.len <= Len(rcv[c]) THEN f.len ELSE Len(rcv[c])
  <2>1. m = f.len /\ k \in Nat
    BY <1>1, <1>2
  <2>2. /\ StreamInv'
        /\ ParserOK(pc', SubSeq(rcv[c], m + 1, Len(rcv[c])) \o net[c], hungUp[c], sent[c], k,
                    opcode', payload_len', key') => ParserInv'
    <3> HIDE DEF k
    <3> QED
      BY <1>1, <1>2, <1>4, <2>1, TakeKeeps DEF IInv
  <2> HIDE DEF m, k, c
  <2> QED
    BY <1>2, <1>4, <2>1, <2>2
<1> QED
  BY <1>3, <1>4

LEMMA UpgradeKeeps == IInv /\ Upgrade => StreamInv' /\ ParserInv'
<1> SUFFICES ASSUME IInv, Upgrade PROVE StreamInv' /\ ParserInv'
  OBVIOUS
<1> USE DEF IInv
<1> DEFINE c == client_fd
<1>1. /\ c \in Clients /\ pc = "upgrade" /\ rcv[c] # << >>
      /\ state' = [state EXCEPT ![c] = "upgraded"] /\ rcv' = [rcv EXCEPT ![c] = << >>] /\ pc' = "loop"
      /\ UNCHANGED << hungUp, net, client_fd, parser, proc, feed >>
  BY DEF Upgrade, At, TypeInv, Waiting
<1>2. state[c] = "accepted"
  BY <1>1, WsAssumption DEF ServingInv
<1>3. net[c] = << >> /\ handled[c] = Len(sent[c])
  <2>1. ConnOK(state[c], hungUp[c], rcv[c], net[c], sent[c], handled[c])
    BY <1>1 DEF StreamInv
  <2>2. << rcv[c], net[c] >> \in Stages(hungUp[c]) /\ handled[c] = Len(sent[c])
    BY <1>2, <2>1 DEF ConnOK
  <2> QED
    BY <1>1, <2>2 DEF Stages
<1>4. state'[c] = "upgraded" /\ rcv'[c] = << >> /\ net'[c] = << >> /\ sent'[c] = sent[c] /\ handled'[c] = handled[c]
  BY <1>1, <1>3 DEF TypeInv, feed
<1>5. << >> \o << >> = << >> /\ << >> \in Seq(FrameTokens) /\ Len(<< >>) = 0
  <2>1. << >> \in Seq(FrameTokens) /\ Len(<< >>) = 0
    OBVIOUS
  <2> QED
    BY <2>1, ConcatEmptySeq
<1>6. GoodStream(<< >>, sent[c], hungUp[c])
  BY <1>5 DEF GoodStream, InOrder
<1>7. ConnOK("upgraded", hungUp[c], << >>, << >>, sent[c], handled[c])
  BY <1>5, <1>6 DEF ConnOK
<1>8. hungUp'[c] = hungUp[c]
  BY <1>1
<1>9. \A d \in Clients \ {c} :
        /\ state'[d] = state[d] /\ hungUp'[d] = hungUp[d] /\ rcv'[d] = rcv[d] /\ net'[d] = net[d]
        /\ sent'[d] = sent[d] /\ handled'[d] = handled[d]
  BY <1>1 DEF TypeInv, feed
<1>10. StreamInv'
  BY <1>1, <1>4, <1>7, <1>8, <1>9, OneConn
<1>11. Unread(client_fd)' = << >>
  BY <1>1, <1>4, <1>5 DEF Unread
<1>12. ParserInv'
  BY <1>1, <1>3, <1>4, <1>11 DEF ParserInv, ParserOK
<1> QED
  BY <1>10, <1>12

LEMMA AcceptKeeps == ASSUME IInv, NEW c \in Clients, AcceptClient(c) PROVE StreamInv' /\ ParserInv'
<1> USE DEF IInv
<1>1. /\ state[c] = "waiting" /\ state' = [state EXCEPT ![c] = "accepted"] /\ pc' = "upgrade"
      /\ UNCHANGED << hungUp, net, rcv, tries, parser, proc, feed >>
  BY DEF AcceptClient
<1>2. ConnOK(state[c], hungUp[c], rcv[c], net[c], sent[c], handled[c])
  BY DEF StreamInv
<1>3. state'[c] = "accepted"
  BY <1>1 DEF TypeInv
<1>4. ConnOK(state'[c], hungUp'[c], rcv'[c], net'[c], sent'[c], handled'[c])
  BY <1>1, <1>2, <1>3 DEF ConnOK, feed
<1>5. \A d \in Clients \ {c} :
        /\ state'[d] = state[d] /\ hungUp'[d] = hungUp[d] /\ rcv'[d] = rcv[d] /\ net'[d] = net[d]
        /\ sent'[d] = sent[d] /\ handled'[d] = handled[d]
  BY <1>1 DEF TypeInv, feed
<1> QED
  BY <1>1, <1>4, <1>5, OneConn DEF ParserInv

LEMMA JoinFirst ==
  ASSUME NEW s \in Seq(Tokens), NEW t \in Seq(Tokens), s # << >>
  PROVE  s \o t # << >> /\ (s \o t)[1] = s[1]
<1>1. Len(s) \in Nat \ {0} /\ Len(t) \in Nat
  OBVIOUS
<1>2. /\ s \o t \in Seq(Tokens) /\ Len(s \o t) = Len(s) + Len(t)
      /\ \A i \in 1 .. Len(s) : (s \o t)[i] = s[i]
  BY JoinFacts
<1>3. Len(s \o t) # 0 /\ 1 \in 1 .. Len(s)
  BY <1>1, <1>2
<1> QED
  BY <1>2, <1>3

(* The process ends in a frame's header only at a length that is too long, *)
(* and otherwise only if the client it serves has hung up.                 *)
LEMMA EndStep == IInv /\ [Next]_vars => WellFormedSurvives'
<1> SUFFICES ASSUME IInv, [Next]_vars PROVE WellFormedSurvives'
  OBVIOUS
<1> USE DEF IInv
<1> DEFINE r == rcv[client_fd]
<1>0. client_fd # NoClient => client_fd \in Clients /\ r \in Seq(Tokens)
  BY DEF TypeInv
<1>1. CASE proc' = "up"
  BY <1>1 DEF WellFormedSurvives
<1>2. ASSUME UNCHANGED << client_fd, pc, proc >>,
             client_fd # NoClient => /\ hungUp[client_fd] => hungUp'[client_fd]
                                     /\ r # << >> => rcv'[client_fd] # << >> /\ rcv'[client_fd][1] = r[1]
      PROVE  WellFormedSurvives'
  <2>1. proc = "malformed" => client_fd # NoClient
    BY WsAssumption DEF WellFormedSurvives, TypeInv
  <2> QED
    BY <1>2, <2>1 DEF WellFormedSurvives, Waiting
<1>3. CASE proc' = "failed" /\ client_fd # NoClient /\ hungUp[client_fd] /\ UNCHANGED << client_fd, hungUp >>
  BY <1>3 DEF WellFormedSurvives
<1>4. ASSUME NEW c \in Clients, ClientStep(c) \/ Deliver(c) PROVE WellFormedSurvives'
  <2>1. CASE Connect(c)
    BY <1>1, <2>1 DEF Connect
  <2>2. CASE Send(c)
    BY <1>2, <2>2 DEF Send
  <2>3. CASE HangUp(c)
    <3>1. client_fd # NoClient /\ hungUp[client_fd] => hungUp'[client_fd]
      BY <1>0, <2>3 DEF HangUp, TypeInv
    <3> QED
      BY <1>2, <2>3, <3>1 DEF HangUp
  <2>4. CASE Deliver(c)
    <3>1. PICK n \in 1 .. Len(net[c]) : rcv' = [rcv EXCEPT ![c] = @ \o SubSeq(net[c], 1, n)]
      BY <2>4 DEF Deliver
    <3> DEFINE part == SubSeq(net[c], 1, n)
    <3>2. net[c] \in Seq(Tokens) /\ rcv[c] \in Seq(Tokens)
      BY DEF TypeInv
    <3>3. part \in Seq(Tokens)
      BY <3>2, CutFacts
    <3> HIDE DEF part
    <3>4. rcv[c] # << >> => rcv[c] \o part # << >> /\ (rcv[c] \o part)[1] = rcv[c][1]
      BY <3>2, <3>3, JoinFirst
    <3>5. rcv' = [rcv EXCEPT ![c] = rcv[c] \o part]
      BY <3>1 DEF part
    <3>6. client_fd # NoClient => (r # << >> => rcv'[client_fd] # << >> /\ rcv'[client_fd][1] = r[1])
      BY <1>0, <3>4, <3>5 DEF TypeInv
    <3> QED
      BY <1>2, <2>4, <3>6 DEF Deliver
  <2> QED
    BY <1>4, <2>1, <2>2, <2>3, <2>4 DEF ClientStep
<1>5. ASSUME NEW c \in Clients, AcceptClient(c) PROVE WellFormedSurvives'
  BY <1>1, <1>5 DEF AcceptClient, At
<1>6. CASE UpgradeNothing \/ Upgrade \/ UpgradeFails \/ ReadNothing \/ ReadKey \/ ReadData
  BY <1>1, <1>6 DEF UpgradeNothing, Upgrade, UpgradeFails, ReadNothing, ReadKey, ReadData, At
<1>7. CASE UpgradeMalformed
  <2>1. /\ pc = "upgrade" /\ r # << >> /\ r # Request
        /\ proc' = "failed" /\ UNCHANGED << client_fd, hungUp >>
    BY <1>7 DEF UpgradeMalformed, At, Waiting, Exit, conns
  <2>2. client_fd \in Clients /\ client_fd # NoClient
    BY <2>1, WsAssumption DEF TypeInv
  <2>3. << r, net[client_fd] >> \in Stages(hungUp[client_fd])
    <3>1. state[client_fd] = "accepted"
      BY <2>1, <2>2 DEF ServingInv
    <3>2. ConnOK(state[client_fd], hungUp[client_fd], r, net[client_fd], sent[client_fd], handled[client_fd])
      BY <2>2 DEF StreamInv
    <3> QED
      BY <3>1, <3>2 DEF ConnOK
  <2>4. hungUp[client_fd]
    BY <2>1, <2>3 DEF Stages, Requests
  <2> QED
    BY <1>3, <2>1, <2>2, <2>4
<1>8. CASE UpgradeSigpipe
  <2>1. client_fd # NoClient
    BY <1>8, WsAssumption DEF UpgradeSigpipe, At, TypeInv
  <2> QED
    BY <1>3, <1>8, <2>1 DEF UpgradeSigpipe, Exit, conns
<1>9. CASE RecvError
  BY <1>3, <1>9 DEF RecvError, Exit, conns
<1>10. CASE ReadOp
  BY <1>10, ReadOpKeeps
<1>11. CASE ReadLen
  BY <1>11, ReadLenKeeps
<1>12. CASE UNCHANGED vars
  BY <1>2, <1>12 DEF vars, conns
<1> QED
  BY <1>4, <1>5, <1>6, <1>7, <1>8, <1>9, <1>10, <1>11, <1>12 DEF Next, ServerStep, Quiet

LEMMA StreamStep == ~ Segmented /\ IInv /\ [Next]_vars => StreamInv' /\ ParserInv'
<1> SUFFICES ASSUME ~ Segmented, IInv, [Next]_vars PROVE StreamInv' /\ ParserInv'
  OBVIOUS
<1>1. ASSUME NEW c \in Clients, ClientStep(c) \/ Deliver(c) \/ AcceptClient(c) PROVE StreamInv' /\ ParserInv'
  BY <1>1, ConnectKeeps, SendKeeps, HangUpKeeps, DeliverKeeps, AcceptKeeps DEF ClientStep
<1>2. CASE UpgradeNothing
  <2>1. client_fd \in Clients /\ UNCHANGED << hungUp, sent >>
    BY <1>2 DEF UpgradeNothing, At, IInv, TypeInv
  <2>2. CASE CloseClient
    BY <2>1, <2>2, CloseKeeps DEF IInv
  <2>3. CASE ~ CloseClient
    BY <1>2, <2>3, SameKeeps DEF UpgradeNothing, conns, parser
  <2> QED
    BY <2>2, <2>3
<1>3. CASE Upgrade
  BY <1>3, UpgradeKeeps
<1>4. CASE UpgradeFails
  BY <1>4, CloseKeeps DEF UpgradeFails, At, IInv, TypeInv
<1>5. CASE ReadNothing
  BY <1>5, CloseKeeps DEF ReadNothing, ReadingFrame, IInv, TypeInv
<1>6. CASE UpgradeMalformed \/ UpgradeSigpipe \/ RecvError
  BY <1>6, SameKeeps DEF UpgradeMalformed, UpgradeSigpipe, RecvError, Exit, feed
<1>7. CASE ReadOp
  BY <1>7, ReadOpKeeps
<1>8. CASE ReadLen
  BY <1>8, ReadLenKeeps
<1>9. CASE ReadKey
  BY <1>9, ReadKeyKeeps
<1>10. CASE ReadData
  BY <1>10, ReadDataKeeps
<1>11. CASE UNCHANGED vars
  BY <1>11, SameKeeps DEF vars, feed
<1> QED
  BY <1>1, <1>2, <1>3, <1>4, <1>5, <1>6, <1>7, <1>8, <1>9, <1>10, <1>11 DEF Next, ServerStep, Quiet

LEMMA IInvStep == ~ Segmented /\ IInv /\ [Next]_vars => IInv'
  BY TypeInvStep, ServingStep, StreamStep, EndStep DEF IInv

-----------------------------------------------------------------------------
(* As long as frames arrive whole, however many and of whatever kind, the  *)
(* parser never loses the frame boundary, also when a hang-up cuts one:    *)
(* the process ends at the length of a payload it does not take, or if the *)
(* client it serves has hung up, and for no other reason.                  *)
THEOREM WellFormedAlwaysSurvives ==
  ASSUME ~ Segmented PROVE Spec => []WellFormedSurvives
<1>1. IInv => WellFormedSurvives
  BY DEF IInv
<1>2. IInv /\ [Next]_vars => IInv'
  BY IInvStep
<1> QED
  BY <1>1, <1>2, IInvInit, PTL DEF Spec

(* Each step is one of CommandFeed, or changes nothing it knows of.        *)
LEMMA FeedSteps == IInv /\ [Next]_vars => [Feed!FeedNext]_(Feed!feedVars)
<1> SUFFICES ASSUME IInv, [Next]_vars
             PROVE  [Feed!FeedNext]_(Feed!feedVars)
  OBVIOUS
<1> USE DEF IInv
<1>1. CASE UNCHANGED feed
  BY <1>1 DEF feed, Feed!feedVars
<1>2. ASSUME NEW c \in Clients, Send(c) PROVE Feed!FeedNext
  <2>1. PICK f \in Frames : sent' = [sent EXCEPT ![c] = Append(@, Says(f))]
    BY <1>2 DEF Send
  <2>2. Says(f) \in Texts /\ UNCHANGED << handled, stored >>
    BY <1>2 DEF Send, Texts
  <2>3. Feed!Send(c)
    BY <2>1, <2>2 DEF Feed!Send
  <2> QED
    BY <2>3 DEF Feed!FeedNext
<1>3. ASSUME client_fd \in Clients, CloseClient, UNCHANGED << sent, stored >>
      PROVE  [Feed!FeedNext]_(Feed!feedVars)
  <2> DEFINE c == client_fd
             i == Len(sent[c])
  <2>1. handled' = [handled EXCEPT ![c] = i] /\ i \in Nat /\ handled[c] \in Nat /\ handled[c] <= i
    BY <1>3 DEF CloseClient, TypeInv
  <2>2. CASE handled[c] = i
    <3>1. handled' = handled
      BY <2>1, <2>2 DEF TypeInv
    <3> QED
      BY <1>3, <3>1 DEF Feed!feedVars
  <2>3. CASE handled[c] # i
    <3>1. i \in handled[c] + 1 .. Len(sent[c]) /\ i \in 1 .. Len(sent[c])
      BY <2>1, <2>3
    <3>2. Feed!Advance(c, i)
      BY <1>3, <2>1, <3>1 DEF Feed!Advance
    <3>3. Feed!Skip(c)
      BY <1>3, <3>1, <3>2 DEF Feed!Skip
    <3> QED
      BY <1>3, <3>3 DEF Feed!FeedNext
  <2> QED
    BY <2>2, <2>3
<1>4. CASE ReadData
  <2> DEFINE c == client_fd
             k == handled[c] + 1
  <2>1. /\ c \in Clients /\ handled[c] \in Nat /\ k \in 1 .. Len(sent[c]) /\ Len(sent[c]) \in Nat
        /\ UNCHANGED sent
    BY <1>4, DataFound
  <2>2. PICK f \in Frames :
          /\ opcode = f.op /\ f.len \in Nat \ {0} /\ sent[c][k] = Says(f)
          /\ Returned(f.num) = WsGone => CloseClient /\ UNCHANGED stored
          /\ Returned(f.num) # WsGone =>
               /\ handled' = [handled EXCEPT ![c] = k]
               /\ stored' = IF Returned(f.num) > 0 THEN << c, k, Returned(f.num) >> ELSE stored
    BY <1>4, DataFound
  <2>3. CASE Returned(f.num) = WsGone
    BY <1>3, <2>1, <2>2, <2>3
  <2>4. CASE Returned(f.num) # WsGone
    <3>1. k \in handled[c] + 1 .. Len(sent[c])
      BY <2>1
    <3>2. Feed!Advance(c, k)
      BY <2>1, <2>2, <2>4, <3>1 DEF Feed!Advance
    <3>3. CASE Returned(f.num) > 0
      <4>1. opcode = "text" /\ Returned(f.num) = ToInt8(f.num)
        BY <3>3 DEF Returned
      <4>2. f.num \in sent[c][k]
        BY <2>2, <4>1 DEF Says
      <4>3. stored' = << c, k, ToInt8(f.num) >>
        BY <2>2, <2>4, <3>3, <4>1
      <4>4. Feed!Store(c)
        BY <2>1, <3>2, <4>2, <4>3 DEF Feed!Store, Feed!ToInt8, ToInt8
      <4> QED
        BY <2>1, <4>4 DEF Feed!FeedNext
    <3>4. CASE ~ (Returned(f.num) > 0)
      <4>1. Feed!Skip(c)
        BY <2>1, <2>2, <2>4, <3>2, <3>4 DEF Feed!Skip
      <4> QED
        BY <2>1, <4>1 DEF Feed!FeedNext
    <3> QED
      BY <3>3, <3>4
  <2> QED
    BY <2>3, <2>4
<1>5. CASE UpgradeNothing
  <2>1. client_fd \in Clients /\ UNCHANGED << sent, stored >>
    BY <1>5 DEF UpgradeNothing, At, TypeInv
  <2>2. CASE CloseClient
    BY <1>3, <2>1, <2>2
  <2>3. CASE ~ CloseClient
    BY <1>1, <1>5, <2>3 DEF UpgradeNothing, feed
  <2> QED
    BY <2>2, <2>3
<1>6. CASE UpgradeFails
  BY <1>3, <1>6 DEF UpgradeFails, At, TypeInv
<1>7. CASE ReadNothing
  BY <1>3, <1>7 DEF ReadNothing, ReadingFrame, TypeInv
<1>8. CASE ReadKey
  <2>1. client_fd \in Clients /\ UNCHANGED << sent, stored >>
    BY <1>8 DEF ReadKey, At, TypeInv
  <2>2. CASE CloseClient
    BY <1>3, <2>1, <2>2
  <2>3. CASE ~ CloseClient
    BY <1>1, <1>8, <2>3 DEF ReadKey, feed
  <2> QED
    BY <2>2, <2>3
<1>9. CASE Upgrade \/ UpgradeMalformed \/ UpgradeSigpipe \/ RecvError \/ ReadOp \/ ReadLen \/ UNCHANGED vars
  BY <1>1, <1>9 DEF Upgrade, UpgradeMalformed, UpgradeSigpipe, RecvError, ReadOp, ReadLen, Exit, feed, vars
<1>10. ASSUME NEW c \in Clients, Connect(c) \/ HangUp(c) \/ Deliver(c) \/ AcceptClient(c) PROVE UNCHANGED feed
  BY <1>10 DEF Connect, HangUp, Deliver, AcceptClient, feed
<1> QED
  BY <1>1, <1>2, <1>4, <1>5, <1>6, <1>7, <1>8, <1>9, <1>10 DEF Next, ServerStep, ClientStep, Quiet

(* As long as frames arrive whole, the server implements CommandFeed: what *)
(* reaches the register is what one text frame of one client says, cast to *)
(* 8 bits; frames are taken in order, and none twice.                      *)
THEOREM FramesImplementFeed ==
  ASSUME ~ Segmented PROVE Spec => ImplementsFeed
<1>1. Init => Feed!FeedInit
  BY DEF Init, Feed!FeedInit
<1>2. IInv /\ [Next]_vars => IInv' /\ [Feed!FeedNext]_(Feed!feedVars)
  BY IInvStep, FeedSteps
<1> QED
  BY <1>1, <1>2, IInvInit, PTL DEF Spec, ImplementsFeed, Feed!FeedSpec

=============================================================================
