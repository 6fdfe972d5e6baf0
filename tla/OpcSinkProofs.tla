---------------------------- MODULE OpcSinkProofs ----------------------------
(***************************************************************************)
(* The sink for every number of frames and sockets and every length of     *)
(* header and body.                                                        *)
(***************************************************************************)
EXTENDS OpcSinkProps, SequenceTheorems, TLAPS

-----------------------------------------------------------------------------
(* Where opc_put_pixels is.  A body is only sent when its header was, on   *)
(* the socket that is still the sink's.                                    *)
ClientInv ==
  /\ sockid \in 1 .. Sockets \cup {NoSock} /\ sock \in 1 .. Sockets \cup {NoSock}
  /\ open \subseteq 1 .. Sockets /\ {sockid, sock} \subseteq open \cup {NoSock}
  /\ status \in [1 .. Sockets -> {"unused", "connecting", "connected", "refused"}]
  /\ pc \in {"idle", "connect", "select", "send"} /\ part \in {"header", "body"}
  /\ msg \in 0 .. MaxPuts /\ result \in {0, 1}
  /\ total_sent \in 0 .. PartLen - 1
  /\ pc = "connect" => total_sent = 0
  /\ pc = "select" => sockid = NoSock /\ sock # NoSock /\ part = "header" /\ total_sent = 0
  /\ pc # "select" => sock = NoSock
  /\ pc # "idle" => msg > 0
  /\ pc = "send" \/ (pc = "connect" /\ part = "body") => sockid # NoSock

(* Bytes of the frame being put that are written: a part of it is the end  *)
(* of what the sink's socket has carried.                                  *)
SoFar == IF pc = "idle" THEN 0 ELSE PartStart + total_sent
EndsWith(s, n) ==
  /\ n <= Len(stream[s])
  /\ \A i \in 1 .. n : stream[s][Len(stream[s]) - n + i] = Byte(msg, i)
WrittenInv ==
  /\ stream \in [1 .. Sockets -> Seq((1 .. msg) \X (1 .. MessageLen))]
  /\ SoFar > 0 => EndsWith(sockid, SoFar)
  /\ pc = "idle" /\ result = 1 => sockid # NoSock /\ EndsWith(sockid, MessageLen)

(* What a connection carries: frame after frame, a higher number each, and *)
(* a part of a frame only at its end.                                      *)
Num(s, i) == stream[s][i][1]
Idx(s, i) == stream[s][i][2]
Carries(s) ==
  /\ \A i \in 1 .. Len(stream[s]) :
       /\ i = 1 => Idx(s, i) = 1
       /\ i < Len(stream[s]) /\ Idx(s, i) = MessageLen => Idx(s, i + 1) = 1
       /\ i < Len(stream[s]) /\ Idx(s, i) # MessageLen =>
            stream[s][i + 1] = Byte(Num(s, i), Idx(s, i) + 1)
  /\ \A i, j \in 1 .. Len(stream[s]) : i < j =>
       Num(s, i) <= Num(s, j) /\ (Idx(s, i) = MessageLen => Num(s, i) < Num(s, j))
Whole(s) == stream[s] = << >> \/ Idx(s, Len(stream[s])) = MessageLen
StreamInv ==
  /\ \A s \in 1 .. Sockets : Carries(s)
  /\ \A s \in 1 .. Sockets : status[s] # "connected" \/ s = sock => stream[s] = << >>
  /\ sockid # NoSock /\ SoFar = 0 => Whole(sockid)
  /\ pc # "idle" => \A s \in 1 .. Sockets : \A i \in 1 .. Len(stream[s]) :
       Num(s, i) = msg => s = sockid /\ Idx(s, i) <= SoFar

(* The connections the display has: a later one carries later frames, and  *)
(* none behind the sink's own carries any.                                 *)
QueueInv ==
  /\ queue \in Seq(1 .. Sockets)
  /\ \A a \in 1 .. Len(queue) : status[queue[a]] = "connected"
  /\ \A a, b \in 1 .. Len(queue) : a < b =>
       /\ queue[a] # queue[b]
       /\ queue[a] \in {sockid, sock} => stream[queue[b]] = << >>
       /\ \A i \in 1 .. Len(stream[queue[a]]), j \in 1 .. Len(stream[queue[b]]) :
            Num(queue[a], i) < Num(queue[b], j)

(* What the display has read: an unfinished message is the beginning of a  *)
(* frame, and the message shown is of an earlier one than any to come.     *)
DisplayInv ==
  /\ got \in [1 .. Sockets -> Nat] /\ \A s \in 1 .. Sockets : got[s] <= Len(stream[s])
  /\ partial \in Seq(Nat \X Nat) /\ Len(partial) < MessageLen
  /\ queue = << >> => partial = << >>
  /\ queue # << >> =>
       LET h == queue[1]
           k == Len(partial)
       IN /\ k <= got[h]
          /\ k = 0 => got[h] = 0 \/ Idx(h, got[h]) = MessageLen
          /\ k > 0 => Idx(h, got[h]) = k /\ \A i \in 1 .. k : partial[i] = Byte(Num(h, got[h]), i)
  /\ \A a \in 1 .. Len(queue) : a > 1 => got[queue[a]] = 0
ShowsFrame(n) == IF n = 0 THEN onDisplay = << >> ELSE onDisplay = Message(n)
Ahead(n) ==
  \A a \in 1 .. Len(queue) : \A j \in 1 .. Len(stream[queue[a]]) :
    a > 1 \/ j > got[queue[a]] - Len(partial) => n < Num(queue[a], j)
ShownInv ==
  \E n \in 0 .. msg : ShowsFrame(n) /\ Ahead(n) /\ (pc # "idle" => n < msg)

SinkInv == ClientInv /\ WrittenInv /\ StreamInv /\ QueueInv /\ DisplayInv /\ ShownInv

(* Inside a call less than a whole frame is written.                       *)
LEMMA SoFarSmall ==
  ASSUME ClientInv
  PROVE  /\ PartLen \in Nat /\ PartStart \in Nat /\ PartStart + PartLen <= MessageLen
         /\ SoFar \in 0 .. MessageLen - 1 /\ MessageLen \in Nat /\ MessageLen >= 2
  BY OpcAssumption DEF ClientInv, SoFar, PartLen, PartStart, MessageLen

-----------------------------------------------------------------------------
(* A body is only sent behind its header, on the sink's socket.            *)
LEMMA ClientInvStep == ClientInv /\ [Next]_vars => ClientInv'
<1> SUFFICES ASSUME ClientInv, [Next]_vars PROVE ClientInv'
  OBVIOUS
<1> USE OpcAssumption DEF ClientInv, client, display, PartLen, NoSock, Return
<1>1. CASE PutPixels
  BY <1>1 DEF PutPixels
<1>2. CASE HasSocket
  BY <1>2 DEF HasSocket
<1>3. CASE StartConnect
  BY <1>3 DEF StartConnect
<1>4. CASE ConnectFails
  BY <1>4 DEF ConnectFails
<1>5. CASE SelectConnected
  BY <1>5 DEF SelectConnected
<1>6. CASE SelectRefused
  BY <1>6 DEF SelectRefused
<1>7. CASE SelectTimeout
  BY <1>7 DEF SelectTimeout
<1>8. CASE SendSome
  BY <1>8 DEF SendSome
<1>9. CASE SendFails
  BY <1>9 DEF SendFails, Close
<1>10. CASE DisplayStep \/ Done \/ UNCHANGED vars
  BY <1>10 DEF DisplayStep, Receive, NextConnection, DisplayDrops, Done, vars
<1>11. ASSUME NEW s \in 1 .. Sockets, Establish(s) \/ Refuse(s) PROVE ClientInv'
  BY <1>11 DEF Establish, Refuse
<1> QED
  BY <1>1, <1>2, <1>3, <1>4, <1>5, <1>6, <1>7, <1>8, <1>9, <1>10, <1>11 DEF Next, SinkStep

(* send() took the next n bytes of the frame.                              *)
Adds(n) ==
  /\ n \in Nat /\ n > 0 /\ SoFar + n <= MessageLen
  /\ stream' \in [1 .. Sockets -> Seq((1 .. msg) \X (1 .. MessageLen))]
  /\ Len(stream'[sockid]) = Len(stream[sockid]) + n
  /\ \A i \in 1 .. Len(stream[sockid]) : stream'[sockid][i] = stream[sockid][i]
  /\ \A i \in 1 .. n : stream'[sockid][Len(stream[sockid]) + i] = Byte(msg, SoFar + i)
  /\ \A s \in 1 .. Sockets : s # sockid => stream'[s] = stream[s]
  /\ SoFar + n < MessageLen => pc' # "idle" /\ SoFar' = SoFar + n
  /\ SoFar + n = MessageLen => pc' = "idle" /\ SoFar' = 0

(* Each send() is of that kind.                                            *)
LEMMA SendAdds ==
  ASSUME ClientInv, WrittenInv, SendSome
  PROVE  \E n \in Nat : Adds(n)
<1>1. PICK n \in 1 .. PartLen - total_sent :
        LET bytes == [i \in 1 .. n |-> Byte(msg, PartStart + total_sent + i)]
            sent  == total_sent + n
        IN /\ stream' = [stream EXCEPT ![sockid] = @ \o bytes]
           /\ \/ sent < PartLen /\ total_sent' = sent /\ UNCHANGED << pc, part, result >>
              \/ /\ sent = PartLen /\ part = "header"
                 /\ part' = "body" /\ total_sent' = 0 /\ pc' = "connect" /\ UNCHANGED result
              \/ /\ sent = PartLen /\ part = "body"
                 /\ Return(1) /\ UNCHANGED << part, total_sent >>
  BY DEF SendSome
<1> DEFINE bytes == [i \in 1 .. n |-> Byte(msg, SoFar + i)]
           t == stream[sockid]
<1>2. /\ pc = "send" /\ sockid \in 1 .. Sockets /\ SoFar = PartStart + total_sent
      /\ msg \in Nat /\ msg > 0 /\ total_sent \in Nat
  BY OpcAssumption DEF SendSome, ClientInv, SoFar, PartLen, NoSock
<1>3. n \in Nat /\ n > 0 /\ SoFar + n <= MessageLen /\ SoFar \in Nat /\ MessageLen \in Nat
  BY <1>2, SoFarSmall
<1>4. stream' = [stream EXCEPT ![sockid] = t \o bytes]
  BY <1>1, <1>2
<1>5. bytes \in Seq((1 .. msg) \X (1 .. MessageLen)) /\ Len(bytes) = n
  <2>1. \A i \in 1 .. n : << msg, SoFar + i >> \in (1 .. msg) \X (1 .. MessageLen)
    BY <1>2, <1>3
  <2> QED
    BY <1>3, <2>1 DEF Byte
<1>6. t \in Seq((1 .. msg) \X (1 .. MessageLen)) /\ Len(t) \in Nat
  BY <1>2 DEF WrittenInv
<1>7. t \o bytes \in Seq((1 .. msg) \X (1 .. MessageLen)) /\ Len(t \o bytes) = Len(t) + n
  BY <1>5, <1>6
<1>8. \A i \in 1 .. Len(t) : (t \o bytes)[i] = t[i]
  BY <1>5, <1>6, <1>7
<1>9. \A i \in 1 .. n : (t \o bytes)[Len(t) + i] = Byte(msg, SoFar + i)
  BY <1>3, <1>5, <1>6
<1>10. /\ stream' \in [1 .. Sockets -> Seq((1 .. msg) \X (1 .. MessageLen))]
       /\ stream'[sockid] = t \o bytes
       /\ \A s \in 1 .. Sockets : s # sockid => stream'[s] = stream[s]
  BY <1>2, <1>4, <1>7 DEF WrittenInv
<1>11. /\ SoFar + n < MessageLen => pc' # "idle" /\ SoFar' = SoFar + n
       /\ SoFar + n = MessageLen => pc' = "idle" /\ SoFar' = 0
  BY <1>1, <1>2, OpcAssumption DEF ClientInv, SoFar, PartStart, PartLen, MessageLen, Return
<1> HIDE DEF bytes, t
<1> QED
  BY <1>3, <1>7, <1>8, <1>9, <1>10, <1>11 DEF Adds, t

-----------------------------------------------------------------------------
(* No step but SendSome writes or moves SoFar to anything but 0; while a   *)
(* frame is put no other changes the sink's socket, but for a new one; and *)
(* a connected socket stays one.                                           *)
LEMMA OthersWriteNothing ==
  ASSUME ClientInv, [Next]_vars, ~ SendSome
  PROVE  /\ stream' = stream
         /\ SoFar' # 0 => SoFar' = SoFar /\ msg' = msg /\ sockid' = sockid
         /\ pc' = "idle" /\ result' = 1 => pc = "idle" /\ result = 1 /\ sockid' = sockid
         /\ \/ msg' = msg /\ (pc = "idle" => pc' = "idle")
            \/ PutPixels /\ msg' = msg + 1 /\ pc' # "idle" /\ pc = "idle" /\ sockid' = sockid
         /\ pc # "idle" /\ pc' # "idle" /\ sockid # NoSock => sockid' = sockid /\ SoFar' = SoFar
         /\ sockid' # NoSock /\ SoFar' = 0 =>
              (sockid' = sockid /\ SoFar = 0) \/ (sockid' = sock /\ sock # NoSock)
         /\ \A s \in 1 .. Sockets : status'[s] # "connected" \/ s = sock' =>
              status[s] # "connected" \/ s = sock
<1> USE OpcAssumption DEF ClientInv, client, display, PartStart, NoSock, Return, SoFar
<1>1. CASE PutPixels
  BY <1>1 DEF PutPixels
<1>2. CASE HasSocket
  BY <1>2 DEF HasSocket
<1>3. CASE StartConnect
  BY <1>3 DEF StartConnect
<1>4. CASE ConnectFails
  BY <1>4 DEF ConnectFails
<1>5. CASE SelectConnected
  BY <1>5 DEF SelectConnected
<1>6. CASE SelectRefused
  BY <1>6 DEF SelectRefused
<1>7. CASE SelectTimeout
  BY <1>7 DEF SelectTimeout
<1>8. CASE SendFails
  BY <1>8 DEF SendFails, Close
<1>9. CASE DisplayStep \/ Done \/ UNCHANGED vars
  BY <1>9 DEF DisplayStep, Receive, NextConnection, DisplayDrops, Done, vars
<1>10. ASSUME NEW s \in 1 .. Sockets, Establish(s) \/ Refuse(s)
       PROVE  /\ UNCHANGED << client, pc, stream >>
              /\ \A r \in 1 .. Sockets : status'[r] # "connected" => status[r] # "connected"
  BY <1>10 DEF Establish, Refuse
<1> QED
  BY <1>1, <1>2, <1>3, <1>4, <1>5, <1>6, <1>7, <1>8, <1>9, <1>10 DEF Next, SinkStep

(* What was written of the frame is at the end of the stream, and grows    *)
(* with each send().                                                       *)
LEMMA WrittenInvStep == ClientInv /\ WrittenInv /\ [Next]_vars => WrittenInv'
<1> SUFFICES ASSUME ClientInv, WrittenInv, [Next]_vars PROVE WrittenInv'
  OBVIOUS
<1>1. CASE SendSome
  <2>1. PICK n \in Nat : Adds(n)
    BY <1>1, SendAdds
  <2>2. /\ sockid' = sockid /\ msg' = msg /\ sockid \in 1 .. Sockets
        /\ SoFar \in Nat /\ MessageLen \in Nat /\ SoFar + n <= MessageLen /\ n > 0
    BY <1>1, <2>1, SoFarSmall DEF SendSome, ClientInv, Adds
  <2>3. PICK k \in Nat : k = SoFar + n
    BY <2>2
  <2>4. EndsWith(sockid, k)'
    <3>1. Len(stream[sockid]) \in Nat /\ (SoFar > 0 => EndsWith(sockid, SoFar))
      BY <2>2 DEF WrittenInv
    <3>2. k <= Len(stream[sockid]) + n
      BY <2>2, <2>3, <3>1 DEF EndsWith
    <3>3. ASSUME NEW i \in 1 .. k
          PROVE  stream'[sockid][Len(stream[sockid]) + n - k + i] = Byte(msg, i)
      <4>1. CASE i <= SoFar
        <5>1. /\ SoFar <= Len(stream[sockid]) /\ i \in 1 .. SoFar
              /\ stream[sockid][Len(stream[sockid]) - SoFar + i] = Byte(msg, i)
          BY <2>2, <3>1, <4>1 DEF EndsWith
        <5>2. /\ Len(stream[sockid]) - SoFar + i = Len(stream[sockid]) + n - k + i
              /\ Len(stream[sockid]) - SoFar + i \in 1 .. Len(stream[sockid])
          BY <2>2, <2>3, <3>1, <5>1
        <5> QED
          BY <2>1, <5>1, <5>2 DEF Adds
      <4>2. CASE i > SoFar
        <5>1. i - SoFar \in 1 .. n /\ SoFar + (i - SoFar) = i
          BY <2>2, <2>3, <4>2
        <5>2. stream'[sockid][Len(stream[sockid]) + (i - SoFar)] = Byte(msg, SoFar + (i - SoFar))
          BY <2>1, <5>1 DEF Adds
        <5>3. Len(stream[sockid]) + (i - SoFar) = Len(stream[sockid]) + n - k + i
          BY <2>2, <2>3, <3>1
        <5> QED
          BY <5>1, <5>2, <5>3
      <4> QED
        BY <2>2, <4>1, <4>2
    <3>4. Len(stream'[sockid]) = Len(stream[sockid]) + n
      BY <2>1 DEF Adds
    <3>5. \A i \in 1 .. k : stream'[sockid][Len(stream'[sockid]) - k + i] = Byte(msg, i)
      BY <3>3, <3>4
    <3>6. k <= Len(stream'[sockid])
      BY <3>2, <3>4
    <3>7. Byte(msg, 1)' = Byte(msg, 1) /\ \A i \in 1 .. k : Byte(msg, i)' = Byte(msg, i)
      BY <2>2 DEF Byte
    <3> QED
      BY <2>2, <3>5, <3>6, <3>7 DEF EndsWith
  <2>5. k < MessageLen => pc' # "idle" /\ SoFar' = k
    BY <2>1, <2>3 DEF Adds
  <2>6. k = MessageLen => pc' = "idle" /\ SoFar' = 0 /\ sockid' # NoSock
    BY <2>1, <2>2, <2>3 DEF Adds, NoSock
  <2>7. (stream \in [1 .. Sockets -> Seq((1 .. msg) \X (1 .. MessageLen))])'
    BY <2>1, <2>2 DEF Adds, MessageLen
  <2>8. MessageLen' = MessageLen /\ NoSock' = NoSock
    BY DEF MessageLen, NoSock
  <2>9. CASE k < MessageLen
    BY <2>4, <2>5, <2>7, <2>9 DEF WrittenInv
  <2>10. CASE k = MessageLen
    BY <2>4, <2>6, <2>7, <2>8, <2>10 DEF WrittenInv
  <2> QED
    BY <2>2, <2>3, <2>9, <2>10
<1>2. CASE ~ SendSome
  <2>1. stream' = stream /\ msg \in Nat /\ (msg' = msg \/ msg' = msg + 1)
    BY <1>2, OthersWriteNothing DEF ClientInv
  <2>2. (stream \in [1 .. Sockets -> Seq((1 .. msg) \X (1 .. MessageLen))])'
    <3>1. (1 .. msg) \X (1 .. MessageLen) \subseteq (1 .. msg') \X (1 .. MessageLen)
      BY <2>1
    <3> QED
      BY <2>1, <3>1 DEF WrittenInv, MessageLen
  <2>3. SoFar' \in Nat
    BY ClientInvStep, OpcAssumption DEF ClientInv, SoFar, PartStart, PartLen
  <2>4. ASSUME SoFar' # 0 PROVE EndsWith(sockid, SoFar)'
    BY <1>2, <2>1, <2>3, <2>4, OthersWriteNothing DEF WrittenInv, EndsWith, Byte
  <2>5. ASSUME pc' = "idle", result' = 1 PROVE (sockid # NoSock /\ EndsWith(sockid, MessageLen))'
    <3>1. pc = "idle" /\ result = 1 /\ sockid' = sockid /\ msg' = msg
      BY <1>2, <2>5, OthersWriteNothing
    <3> QED
      BY <2>1, <3>1 DEF WrittenInv, EndsWith, Byte, MessageLen, NoSock
  <2> QED
    BY <2>2, <2>3, <2>4, <2>5 DEF WrittenInv
<1> QED
  BY <1>1, <1>2

-----------------------------------------------------------------------------
(* A byte of a stream is a pair, of the numbers Num and Idx.               *)
LEMMA BytesOfStream ==
  ASSUME WrittenInv, ClientInv, NEW s \in 1 .. Sockets, NEW i \in 1 .. Len(stream[s])
  PROVE  /\ Num(s, i) \in 1 .. msg /\ Idx(s, i) \in 1 .. MessageLen
         /\ stream[s][i] = Byte(Num(s, i), Idx(s, i)) /\ Len(stream[s]) \in Nat
<1>1. stream[s] \in Seq((1 .. msg) \X (1 .. MessageLen))
  BY DEF WrittenInv
<1>2. stream[s][i] \in (1 .. msg) \X (1 .. MessageLen)
  BY <1>1
<1> QED
  BY <1>1, <1>2 DEF Num, Idx, Byte

(* SendSome goes on where the stream of the sink's socket is: with the     *)
(* byte after its last, or with a new frame behind a whole one.            *)
LEMMA SendCarries ==
  ASSUME ClientInv, WrittenInv, StreamInv, SendSome, NEW n \in Nat, Adds(n)
  PROVE  /\ Carries(sockid)'
         /\ SoFar + n = MessageLen => Whole(sockid)'
         /\ \A i \in 1 .. Len(stream[sockid]) :
              Num(sockid, i)' = Num(sockid, i) /\ Idx(sockid, i)' = Idx(sockid, i)
         /\ \A i \in 1 .. Len(stream[sockid]) + n : i > Len(stream[sockid]) =>
              Num(sockid, i)' = msg /\ Idx(sockid, i)' = SoFar + i - Len(stream[sockid])
<1> DEFINE L == Len(stream[sockid])
           t == stream'[sockid]
<1>1. /\ pc = "send" /\ sockid \in 1 .. Sockets /\ sockid' = sockid /\ msg' = msg /\ msg \in Nat
      /\ SoFar \in 0 .. MessageLen - 1 /\ MessageLen \in Nat /\ MessageLen >= 2
      /\ n > 0 /\ SoFar + n <= MessageLen /\ MessageLen' = MessageLen
  BY SoFarSmall DEF SendSome, ClientInv, Adds, NoSock, MessageLen
<1>2. L \in Nat /\ Len(t) = L + n
  BY <1>1 DEF Adds, WrittenInv
<1>3. ASSUME NEW i \in 1 .. L
      PROVE  /\ t[i] = stream[sockid][i]
             /\ t[i][1] = Num(sockid, i) /\ t[i][2] = Idx(sockid, i)
             /\ Num(sockid, i) \in 1 .. msg /\ Idx(sockid, i) \in 1 .. MessageLen
             /\ Num(sockid, i) = msg => Idx(sockid, i) <= SoFar
  <2>1. t[i] = stream[sockid][i]
    BY DEF Adds
  <2> QED
    BY <1>1, <2>1, BytesOfStream DEF StreamInv, Num, Idx
<1>4. ASSUME NEW i \in 1 .. n
      PROVE  t[L + i] = << msg, SoFar + i >>
  BY DEF Adds, Byte
<1>5. L > 0 => IF SoFar = 0 THEN Idx(sockid, L) = MessageLen
               ELSE stream[sockid][L] = << msg, SoFar >>
  <2>1. CASE L > 0 /\ SoFar = 0
    <3>1. Whole(sockid)
      BY <1>1, <2>1 DEF StreamInv, NoSock
    <3> QED
      BY <1>1, <1>2, <2>1, <3>1 DEF Whole
  <2>2. CASE L > 0 /\ SoFar > 0
    BY <1>1, <1>2, <2>2 DEF WrittenInv, EndsWith, Byte
  <2> QED
    BY <1>1, <2>1, <2>2
<1>6. SoFar > 0 => L > 0
  BY <1>1, <1>2 DEF WrittenInv, EndsWith
<1>7. Carries(sockid)
  BY <1>1 DEF StreamInv
<1> HIDE DEF L, t
<1>8. /\ \A i \in 1 .. L : t[i][1] = Num(sockid, i) /\ t[i][2] = Idx(sockid, i)
      /\ \A i \in 1 .. n : t[L + i][1] = msg /\ t[L + i][2] = SoFar + i
  BY <1>3, <1>4
<1>9. \A i \in 1 .. L + n : i > L =>
        t[i] = << msg, SoFar + i - L >> /\ t[i][1] = msg /\ t[i][2] = SoFar + i - L
  <2> SUFFICES ASSUME NEW i \in 1 .. L + n, i > L
               PROVE  t[i] = << msg, SoFar + i - L >>
    OBVIOUS
  <2>1. i - L \in 1 .. n /\ L + (i - L) = i /\ SoFar + (i - L) = SoFar + i - L
    BY <1>1, <1>2
  <2> QED
    BY <1>4, <2>1
<1>10. ASSUME NEW i \in 1 .. L + n
       PROVE  /\ i = 1 => t[i][2] = 1
              /\ i < L + n /\ t[i][2] = MessageLen => t[i + 1][2] = 1
              /\ i < L + n /\ t[i][2] # MessageLen => t[i + 1] = << t[i][1], t[i][2] + 1 >>
  <2>1. CASE i < L
    <3>1. i \in 1 .. L /\ i + 1 \in 1 .. L
      BY <1>2, <2>1
    <3>2. t[i] = stream[sockid][i] /\ t[i + 1] = stream[sockid][i + 1]
      BY <1>3, <3>1
    <3>3. /\ i = 1 => Idx(sockid, i) = 1
          /\ Idx(sockid, i) = MessageLen => Idx(sockid, i + 1) = 1
          /\ Idx(sockid, i) # MessageLen =>
               stream[sockid][i + 1] = Byte(Num(sockid, i), Idx(sockid, i) + 1)
      BY <1>7, <2>1, <3>1 DEF Carries, L
    <3> QED
      BY <3>2, <3>3 DEF Num, Idx, Byte
  <2>2. CASE i = L
    <3>1. i \in 1 .. L /\ i + 1 \in 1 .. L + n /\ i + 1 > L
      BY <1>1, <1>2, <2>2
    <3>2. t[i] = stream[sockid][i] /\ t[i + 1] = << msg, SoFar + 1 >>
      BY <1>3, <1>9, <3>1, <2>2
    <3>3. i = 1 => t[i][2] = 1
      BY <1>7, <3>1, <3>2 DEF Carries, Idx, L
    <3>4. CASE SoFar = 0
      BY <1>5, <2>2, <3>1, <3>2, <3>3, <3>4 DEF Idx
    <3>5. CASE SoFar # 0
      BY <1>1, <1>5, <2>2, <3>1, <3>2, <3>3, <3>5
    <3> QED
      BY <3>4, <3>5
  <2>3. CASE i > L
    <3>1. t[i] = << msg, SoFar + i - L >>
      BY <1>9, <2>3
    <3>2. i < L + n => t[i + 1] = << msg, SoFar + i - L + 1 >> /\ SoFar + i - L < MessageLen
      <4> SUFFICES ASSUME i < L + n
                   PROVE  t[i + 1] = << msg, SoFar + i - L + 1 >> /\ SoFar + i - L < MessageLen
        OBVIOUS
      <4>1. i + 1 \in 1 .. L + n /\ i + 1 > L /\ SoFar + (i + 1) - L = SoFar + i - L + 1
        BY <1>1, <1>2, <2>3
      <4>2. SoFar + i - L < MessageLen
        BY <1>1, <1>2
      <4> QED
        BY <1>9, <4>1, <4>2
    <3>3. i = 1 => SoFar = 0 /\ L = 0
      BY <1>1, <1>2, <1>6, <2>3
    <3> QED
      BY <1>1, <1>2, <3>1, <3>2, <3>3
  <2> QED
    BY <1>2, <2>1, <2>2, <2>3
<1>11. ASSUME NEW i \in 1 .. L + n, NEW j \in 1 .. L + n, i < j
       PROVE  t[i][1] <= t[j][1] /\ (t[i][2] = MessageLen => t[i][1] < t[j][1])
  <2>1. CASE j <= L
    <3>1. i \in 1 .. L /\ j \in 1 .. L
      BY <1>2, <2>1, <1>11
    <3> QED
      BY <1>7, <1>8, <1>11, <3>1 DEF Carries, L
  <2>2. CASE i <= L /\ j > L
    BY <1>1, <1>2, <1>3, <1>8, <1>9, <2>2
  <2>3. CASE i > L
    <3>1. t[i][1] = msg /\ t[i][2] = SoFar + i - L /\ t[j][1] = msg
      BY <1>2, <1>9, <1>11, <2>3
    <3>2. SoFar + i - L < MessageLen
      BY <1>1, <1>2, <1>11
    <3> QED
      BY <1>1, <3>1, <3>2
  <2> QED
    BY <1>2, <2>1, <2>2, <2>3
<1>12. SoFar + n = MessageLen => t[L + n][2] = MessageLen
  BY <1>1, <1>2, <1>8
<1>13. Carries(sockid)'
  BY <1>1, <1>2, <1>10, <1>11 DEF Carries, Num, Idx, Byte, t
<1>14. SoFar + n = MessageLen => Whole(sockid)'
  BY <1>1, <1>2, <1>12 DEF Whole, Idx, t
<1> QED
  <2>1. \A i \in 1 .. L : Num(sockid, i)' = Num(sockid, i) /\ Idx(sockid, i)' = Idx(sockid, i)
    BY <1>1, <1>3 DEF Num, Idx, t
  <2>2. \A i \in 1 .. L + n : i > L => Num(sockid, i)' = msg /\ Idx(sockid, i)' = SoFar + i - L
    BY <1>1, <1>9 DEF Num, Idx, t
  <2> QED
    BY <1>13, <1>14, <2>1, <2>2 DEF L

(* Streams go on with the frame that is put, and only the sink's does.     *)
LEMMA StreamInvStep ==
  ClientInv /\ WrittenInv /\ StreamInv /\ [Next]_vars => StreamInv'
<1> SUFFICES ASSUME ClientInv, WrittenInv, StreamInv, [Next]_vars PROVE StreamInv'
  OBVIOUS
<1>1. CASE SendSome
  <2>1. PICK n \in Nat : Adds(n)
    BY <1>1, SendAdds
  <2>2. /\ sockid' = sockid /\ msg' = msg /\ sockid \in 1 .. Sockets /\ sock = NoSock /\ sock' = NoSock
        /\ status' = status /\ status[sockid] = "connected" /\ pc = "send" /\ msg \in Nat
        /\ SoFar \in Nat /\ MessageLen \in Nat /\ SoFar + n <= MessageLen /\ n > 0
        /\ MessageLen' = MessageLen /\ NoSock' = NoSock /\ NoSock \notin 1 .. Sockets
    BY <1>1, <2>1, SoFarSmall DEF SendSome, ClientInv, Adds, NoSock, MessageLen
  <2>3. /\ Carries(sockid)' /\ (SoFar + n = MessageLen => Whole(sockid)')
        /\ \A i \in 1 .. Len(stream[sockid]) :
             Num(sockid, i)' = Num(sockid, i) /\ Idx(sockid, i)' = Idx(sockid, i)
        /\ \A i \in 1 .. Len(stream[sockid]) + n : i > Len(stream[sockid]) =>
             Num(sockid, i)' = msg /\ Idx(sockid, i)' = SoFar + i - Len(stream[sockid])
    BY <1>1, <2>1, SendCarries
  <2>4. ASSUME NEW s \in 1 .. Sockets, s # sockid PROVE stream'[s] = stream[s]
    BY <2>1, <2>4 DEF Adds
  <2>5. ASSUME NEW s \in 1 .. Sockets PROVE Carries(s)'
    <3>1. CASE s = sockid
      BY <2>2, <2>3, <3>1 DEF Carries, Num, Idx, Byte
    <3>2. CASE s # sockid
      <4>1. stream'[s] = stream[s] /\ Carries(s)
        BY <2>4, <3>2 DEF StreamInv
      <4> QED
        BY <2>2, <4>1 DEF Carries, Num, Idx, Byte
    <3> QED
      BY <3>1, <3>2
  <2>6. ASSUME NEW s \in 1 .. Sockets, status'[s] # "connected" \/ s = sock' PROVE stream'[s] = << >>
    BY <2>2, <2>4, <2>6 DEF StreamInv
  <2>7. SoFar' = 0 => Whole(sockid)'
    BY <2>1, <2>2, <2>3 DEF Adds
  <2>8. ASSUME pc' # "idle", NEW s \in 1 .. Sockets, NEW i \in 1 .. Len(stream'[s]), Num(s, i)' = msg'
        PROVE  s = sockid' /\ Idx(s, i)' <= SoFar'
    <3>1. SoFar' = SoFar + n
      <4>1. ~ (SoFar + n = MessageLen)
        BY <2>1, <2>8 DEF Adds
      <4>2. SoFar + n < MessageLen
        BY <2>2, <4>1
      <4> QED
        BY <2>1, <4>2 DEF Adds
    <3>2. CASE s # sockid
      <4>1. stream'[s] = stream[s] /\ Num(s, i) = msg
        BY <2>2, <2>4, <2>8, <3>2 DEF Num
      <4> QED
        BY <2>2, <3>2, <4>1 DEF StreamInv
    <3>3. CASE s = sockid
      <4>1. Len(stream'[s]) = Len(stream[s]) + n /\ Len(stream[s]) \in Nat
        BY <2>1, <2>2, <3>3 DEF Adds, WrittenInv
      <4>2. Num(s, i)' = Num(sockid, i)' /\ Idx(s, i)' = Idx(sockid, i)'
        BY <2>2, <3>3 DEF Num, Idx
      <4>3. CASE i \in 1 .. Len(stream[s])
        <5>1. Idx(s, i) <= SoFar /\ Idx(s, i) \in Nat /\ Idx(s, i)' = Idx(s, i)
          BY <2>2, <2>3, <2>8, <3>3, <4>2, <4>3, BytesOfStream DEF StreamInv
        <5> QED
          BY <2>2, <3>1, <3>3, <5>1
      <4>4. CASE i > Len(stream[s])
        <5>1. /\ i \in 1 .. Len(stream[sockid]) + n /\ i > Len(stream[sockid])
              /\ Len(stream[sockid]) \in Nat /\ SoFar \in Nat
          BY <2>2, <3>3, <4>1, <4>4
        <5>2. Idx(s, i)' = SoFar + i - Len(stream[sockid])
          BY <2>3, <4>2, <5>1
        <5>3. \A a, l \in Nat : i \in 1 .. l + n => a + i - l <= a + n
          BY <2>1 DEF Adds
        <5> QED
          BY <2>2, <3>1, <3>3, <5>1, <5>2, <5>3
      <4> QED
        BY <4>1, <4>3, <4>4
    <3> QED
      BY <3>2, <3>3
  <2> QED
    BY <2>2, <2>5, <2>6, <2>7, <2>8 DEF StreamInv
<1>2. CASE ~ SendSome
  <2>1. stream' = stream
    BY <1>2, OthersWriteNothing
  <2>2. ASSUME NEW s \in 1 .. Sockets PROVE Carries(s)'
    BY <2>1 DEF StreamInv, Carries, Num, Idx, Byte, MessageLen
  <2>3. ASSUME NEW s \in 1 .. Sockets, status'[s] # "connected" \/ s = sock' PROVE stream'[s] = << >>
    BY <1>2, <2>1, <2>3, OthersWriteNothing DEF StreamInv
  <2>4. ASSUME sockid' # NoSock, SoFar' = 0 PROVE Whole(sockid)'
    <3>1. (sockid' = sockid /\ SoFar = 0) \/ (sockid' = sock /\ sock # NoSock)
      BY <1>2, <2>4, OthersWriteNothing DEF NoSock
    <3>2. CASE sockid' = sockid /\ SoFar = 0
      BY <2>1, <2>4, <3>2 DEF StreamInv, Whole, Idx, MessageLen, NoSock
    <3>3. CASE sockid' = sock /\ sock # NoSock
      BY <2>1, <3>3 DEF StreamInv, Whole, ClientInv
    <3> QED
      BY <3>1, <3>2, <3>3
  <2>5. ASSUME pc' # "idle", NEW s \in 1 .. Sockets, NEW i \in 1 .. Len(stream'[s]), Num(s, i)' = msg'
        PROVE  s = sockid' /\ Idx(s, i)' <= SoFar'
    <3>1. /\ Num(s, i)' = Num(s, i) /\ Idx(s, i)' = Idx(s, i)
          /\ Num(s, i) \in 1 .. msg /\ Idx(s, i) \in 1 .. MessageLen
      BY <2>1, BytesOfStream DEF Num, Idx
    <3>2. msg' = msg /\ pc # "idle"
      BY <1>2, <2>5, <3>1, OthersWriteNothing DEF ClientInv
    <3>3. s = sockid /\ Idx(s, i) <= SoFar
      BY <2>1, <2>5, <3>1, <3>2 DEF StreamInv
    <3>4. sockid' = sockid /\ SoFar' = SoFar
      BY <1>2, <2>5, <3>2, <3>3, OthersWriteNothing, OpcAssumption DEF NoSock
    <3> QED
      BY <3>1, <3>3, <3>4
  <2> QED
    BY <2>1, <2>2, <2>3, <2>4, <2>5 DEF StreamInv
<1> QED
  BY <1>1, <1>2

-----------------------------------------------------------------------------
(* The display is done with the connection that it serves.                 *)
Drops ==
  /\ queue # << >> /\ queue' = Tail(queue) /\ partial' = << >>
  /\ UNCHANGED << client, status, pc, stream, got, onDisplay >>

(* The other steps, but for Establish, do not touch its connections; the   *)
(* sink has no connected socket but the one it had.                        *)
LEMMA QueueKept ==
  ASSUME ClientInv, [Next]_vars, ~ Drops, \A s \in 1 .. Sockets : ~ Establish(s)
  PROVE  /\ queue' = queue
         /\ Receive \/ UNCHANGED display
         /\ \A s \in 1 .. Sockets : status[s] = "connected" =>
              status'[s] = "connected" /\ (s \in {sockid', sock'} => s \in {sockid, sock})
<1> USE DEF ClientInv, client, display, NoSock, Return
<1>1. CASE PutPixels \/ HasSocket \/ ConnectFails \/ SelectConnected \/ SelectRefused \/ SelectTimeout
  BY <1>1, OpcAssumption DEF PutPixels, HasSocket, ConnectFails, SelectConnected, SelectRefused, SelectTimeout
<1>2. CASE StartConnect
  BY <1>2, OpcAssumption DEF StartConnect
<1>3. CASE SendSome \/ SendFails
  BY <1>3, OpcAssumption DEF SendSome, SendFails, Close
<1>4. CASE Receive \/ Done \/ UNCHANGED vars
  BY <1>4 DEF Receive, Done, vars
<1>5. ASSUME NEW s \in 1 .. Sockets, Refuse(s)
      PROVE  /\ UNCHANGED << client, queue, display >>
             /\ \A r \in 1 .. Sockets : status[r] = "connected" => status'[r] = "connected"
  BY <1>5 DEF Refuse
<1>6. ~ NextConnection /\ ~ DisplayDrops
  BY DEF NextConnection, DisplayDrops, Drops
<1> QED
  BY <1>1, <1>2, <1>3, <1>4, <1>5, <1>6 DEF Next, SinkStep, DisplayStep

(* QueueInv for two connections.                                           *)
LEMMA Queued ==
  ASSUME QueueInv
  PROVE  /\ Len(queue) \in Nat /\ \A a \in 1 .. Len(queue) : queue[a] \in 1 .. Sockets
         /\ \A a, b \in 1 .. Len(queue) : a < b =>
              /\ queue[a] # queue[b]
              /\ queue[a] \in {sockid, sock} => stream[queue[b]] = << >>
              /\ \A i \in 1 .. Len(stream[queue[a]]), j \in 1 .. Len(stream[queue[b]]) :
                   Num(queue[a], i) < Num(queue[b], j)
<1>1. queue \in Seq(1 .. Sockets)
  BY DEF QueueInv
<1>2. Len(queue) \in Nat /\ \A a \in 1 .. Len(queue) : queue[a] \in 1 .. Sockets
  BY <1>1, ElementOfSeq, LenProperties
<1>3. \A a, b \in 1 .. Len(queue) : a < b =>
        /\ queue[a] # queue[b]
        /\ queue[a] \in {sockid, sock} => stream[queue[b]] = << >>
        /\ \A i \in 1 .. Len(stream[queue[a]]), j \in 1 .. Len(stream[queue[b]]) :
             Num(queue[a], i) < Num(queue[b], j)
  BY Zenon DEF QueueInv
<1> QED
  BY <1>2, <1>3

(* A new connection is the last one, and has carried nothing.              *)
LEMMA Established ==
  ASSUME ClientInv, StreamInv, QueueInv, NEW s \in 1 .. Sockets, Establish(s)
  PROVE  /\ queue' \in Seq(1 .. Sockets) /\ Len(queue) \in Nat /\ Len(queue') = Len(queue) + 1
         /\ \A a \in 1 .. Len(queue) : queue'[a] = queue[a] /\ queue[a] # s
         /\ queue'[Len(queue) + 1] = s /\ stream[s] = << >>
         /\ status[s] = "connecting" /\ status' = [status EXCEPT ![s] = "connected"]
         /\ UNCHANGED << client, pc, stream, got, partial, onDisplay >>
  BY DEF Establish, QueueInv, StreamInv, ClientInv, display

(* Without its first connection the queue is as it was.                    *)
LEMMA Dropped ==
  ASSUME QueueInv, Drops
  PROVE  /\ queue' \in Seq(1 .. Sockets) /\ Len(queue) \in Nat /\ Len(queue) > 0
         /\ Len(queue') = Len(queue) - 1
         /\ \A a \in 1 .. Len(queue') : queue'[a] = queue[a + 1]
  BY DEF Drops, QueueInv

(* The display gets the connections in the order in which the sink had     *)
(* them, so later ones carry later frames.                                 *)
LEMMA QueueInvStep ==
  ClientInv /\ WrittenInv /\ StreamInv /\ QueueInv /\ [Next]_vars => QueueInv'
<1> SUFFICES ASSUME ClientInv, WrittenInv, StreamInv, QueueInv, [Next]_vars PROVE QueueInv'
  OBVIOUS
<1>1. CASE SendSome
  <2>1. PICK n \in Nat : Adds(n)
    BY <1>1, SendAdds
  <2>2. /\ sockid' = sockid /\ msg' = msg /\ sockid \in 1 .. Sockets /\ sock' = sock
        /\ status' = status /\ pc = "send" /\ queue' = queue /\ msg \in Nat
    BY <1>1 DEF SendSome, ClientInv, NoSock
  <2>3. /\ \A i \in 1 .. Len(stream[sockid]) : Num(sockid, i)' = Num(sockid, i)
        /\ \A i \in 1 .. Len(stream[sockid]) + n : i > Len(stream[sockid]) => Num(sockid, i)' = msg
    BY <1>1, <2>1, SendCarries
  <2>4. /\ Len(stream'[sockid]) = Len(stream[sockid]) + n /\ Len(stream[sockid]) \in Nat /\ n \in Nat
        /\ \A s \in 1 .. Sockets : s # sockid => stream'[s] = stream[s]
    BY <2>1, <2>2 DEF Adds, WrittenInv
  <2>5. ASSUME NEW a \in 1 .. Len(queue), NEW b \in 1 .. Len(queue), a < b
        PROVE  /\ queue[a] # queue[b] /\ queue[a] \in 1 .. Sockets /\ queue[b] \in 1 .. Sockets
               /\ queue[a] \in {sockid, sock} => stream[queue[b]] = << >>
               /\ \A i \in 1 .. Len(stream[queue[a]]), j \in 1 .. Len(stream[queue[b]]) :
                    Num(queue[a], i) < Num(queue[b], j)
    BY <2>5, Queued
  <2>6. ASSUME NEW a \in 1 .. Len(queue), NEW b \in 1 .. Len(queue), a < b,
               queue[a] \in {sockid, sock}
        PROVE  stream'[queue[b]] = << >>
    <3>1. queue[a] = sockid
      BY <2>2, <2>5, <2>6 DEF ClientInv, NoSock
    <3>2. stream[queue[b]] = << >> /\ queue[b] # sockid /\ queue[b] \in 1 .. Sockets
      BY <2>5, <2>6, <3>1
    <3> QED
      BY <2>4, <3>2
  <2>7. ASSUME NEW a \in 1 .. Len(queue), NEW b \in 1 .. Len(queue), a < b,
               NEW i \in 1 .. Len(stream'[queue[a]]), NEW j \in 1 .. Len(stream'[queue[b]])
        PROVE  stream'[queue[a]][i][1] < stream'[queue[b]][j][1]
    <3>1. CASE queue[a] = sockid
      BY <2>6, <2>7, <3>1
    <3>2. CASE queue[b] = sockid /\ queue[a] # sockid
      <4>1. stream'[queue[a]] = stream[queue[a]] /\ i \in 1 .. Len(stream[queue[a]])
        BY <2>4, <2>5, <2>7, <3>2
      <4>2. Num(queue[a], i) \in 1 .. msg /\ Num(queue[a], i) # msg
        BY <2>2, <2>5, <2>7, <3>2, <4>1, BytesOfStream DEF StreamInv
      <4>3. CASE j \in 1 .. Len(stream[sockid])
        <5>1. Num(sockid, j)' = Num(sockid, j) /\ Num(queue[a], i) < Num(sockid, j)
          BY <2>3, <2>5, <2>7, <3>2, <4>1, <4>3
        <5> QED
          BY <2>2, <3>2, <4>1, <5>1 DEF Num
      <4>4. CASE j > Len(stream[sockid])
        <5>1. Num(sockid, j)' = msg
          BY <2>3, <2>4, <3>2, <4>4
        <5> QED
          BY <2>2, <3>2, <4>1, <4>2, <5>1 DEF Num
      <4> QED
        BY <2>4, <3>2, <4>3, <4>4
    <3>3. CASE queue[b] # sockid /\ queue[a] # sockid
      <4>1. stream'[queue[a]] = stream[queue[a]] /\ stream'[queue[b]] = stream[queue[b]]
        BY <2>4, <2>5, <2>7, <3>3
      <4> QED
        BY <2>5, <2>7, <4>1 DEF Num
    <3> QED
      BY <3>1, <3>2, <3>3
  <2>8. queue' \in Seq(1 .. Sockets) /\ \A a \in 1 .. Len(queue) : status'[queue[a]] = "connected"
    BY <2>2 DEF QueueInv
  <2>9. \A a, b \in 1 .. Len(queue) : a < b =>
          /\ queue[a] # queue[b]
          /\ queue[a] \in {sockid', sock'} => stream'[queue[b]] = << >>
          /\ \A i \in 1 .. Len(stream'[queue[a]]), j \in 1 .. Len(stream'[queue[b]]) :
               stream'[queue[a]][i][1] < stream'[queue[b]][j][1]
    BY <2>2, <2>5, <2>6, <2>7
  <2> QED
    BY <2>2, <2>8, <2>9 DEF QueueInv, Num
<1>2. ASSUME NEW s \in 1 .. Sockets, Establish(s) PROVE QueueInv'
  <2>1. /\ queue' \in Seq(1 .. Sockets) /\ Len(queue) \in Nat /\ Len(queue') = Len(queue) + 1
        /\ \A a \in 1 .. Len(queue) : queue'[a] = queue[a] /\ queue[a] # s
        /\ queue'[Len(queue) + 1] = s /\ stream[s] = << >>
        /\ status' = [status EXCEPT ![s] = "connected"]
        /\ sockid' = sockid /\ sock' = sock /\ stream' = stream
    BY <1>2, Established DEF client
  <2>2. ASSUME NEW a \in 1 .. Len(queue') PROVE status'[queue'[a]] = "connected"
    BY <2>1 DEF QueueInv, ClientInv
  <2>3. ASSUME NEW a \in 1 .. Len(queue'), NEW b \in 1 .. Len(queue'), a < b
        PROVE  /\ queue'[a] # queue'[b]
               /\ queue'[a] \in {sockid, sock} => stream[queue'[b]] = << >>
               /\ \A i \in 1 .. Len(stream[queue'[a]]), j \in 1 .. Len(stream[queue'[b]]) :
                    stream[queue'[a]][i][1] < stream[queue'[b]][j][1]
    <3>1. a \in 1 .. Len(queue) /\ queue'[a] = queue[a]
      BY <2>1, <2>3
    <3>2. CASE b \in 1 .. Len(queue)
      <4>1. /\ queue[a] # queue[b]
            /\ queue[a] \in {sockid, sock} => stream[queue[b]] = << >>
            /\ \A i \in 1 .. Len(stream[queue[a]]), j \in 1 .. Len(stream[queue[b]]) :
                 stream[queue[a]][i][1] < stream[queue[b]][j][1]
        BY <2>3, <3>1, <3>2, Queued DEF Num
      <4>2. queue'[b] = queue[b]
        BY <2>1, <3>2
      <4> QED
        BY <3>1, <4>1, <4>2
    <3>3. CASE b = Len(queue) + 1
      BY <2>1, <2>3, <3>1, <3>3
    <3> QED
      BY <2>1, <3>2, <3>3
  <2> QED
    BY <2>1, <2>2, <2>3 DEF QueueInv, Num
<1>3. CASE Drops
  BY <1>3, Dropped DEF QueueInv, Drops, Num, client
<1>4. CASE ~ SendSome /\ ~ Drops /\ \A s \in 1 .. Sockets : ~ Establish(s)
  <2>1. stream' = stream
    BY <1>4, OthersWriteNothing
  <2>2. /\ queue' = queue /\ \A a \in 1 .. Len(queue) : queue[a] \in 1 .. Sockets
        /\ \A s \in 1 .. Sockets : status[s] = "connected" =>
              status'[s] = "connected" /\ (s \in {sockid', sock'} => s \in {sockid, sock})
    BY <1>4, QueueKept, Queued
  <2>3. queue' \in Seq(1 .. Sockets) /\ \A a \in 1 .. Len(queue) : status'[queue[a]] = "connected"
    BY <2>2 DEF QueueInv
  <2>4. \A a, b \in 1 .. Len(queue) : a < b =>
          /\ queue[a] # queue[b]
          /\ queue[a] \in {sockid', sock'} => stream[queue[b]] = << >>
          /\ \A i \in 1 .. Len(stream[queue[a]]), j \in 1 .. Len(stream[queue[b]]) :
               stream[queue[a]][i][1] < stream[queue[b]][j][1]
    <3> SUFFICES ASSUME NEW a \in 1 .. Len(queue), NEW b \in 1 .. Len(queue), a < b
                 PROVE  /\ queue[a] # queue[b]
                        /\ queue[a] \in {sockid', sock'} => stream[queue[b]] = << >>
                        /\ \A i \in 1 .. Len(stream[queue[a]]), j \in 1 .. Len(stream[queue[b]]) :
                             stream[queue[a]][i][1] < stream[queue[b]][j][1]
      OBVIOUS
    <3>1. queue[a] \in {sockid', sock'} => queue[a] \in {sockid, sock}
      BY <2>2 DEF QueueInv
    <3> QED
      BY <3>1, Queued DEF Num
  <2> QED
    BY <2>1, <2>2, <2>3, <2>4 DEF QueueInv, Num
<1> QED
  BY <1>1, <1>2, <1>3, <1>4

-----------------------------------------------------------------------------
(* The byte that the display reads is the next of the message it has       *)
(* begun, or the first of another; the last one completes the frame.       *)
Reads(h, n, k) ==
  /\ h = queue[1] /\ h \in 1 .. Sockets /\ got[h] \in Nat /\ got[h] < Len(stream[h])
  /\ got' = [got EXCEPT ![h] = got[h] + 1]
  /\ k = Len(partial) /\ k \in Nat /\ k < MessageLen
  /\ n = Num(h, got[h] + 1) /\ Idx(h, got[h] + 1) = k + 1
  /\ k > 0 => k <= got[h] /\ n = Num(h, got[h])
  /\ \/ k + 1 = MessageLen /\ partial' = << >> /\ onDisplay' = Message(n)
     \/ /\ k + 1 < MessageLen /\ onDisplay' = onDisplay
        /\ partial' \in Seq(Nat \X Nat) /\ Len(partial') = k + 1
        /\ \A i \in 1 .. k + 1 : partial'[i] = Byte(n, i)

(* Each Receive is of that kind.                                           *)
LEMMA ReceiveReads ==
  ASSUME ClientInv, WrittenInv, StreamInv, QueueInv, DisplayInv, Receive
  PROVE  \E h, n, k \in Int : Reads(h, n, k)
<1> DEFINE h == queue[1]
           g == got[h]
           k == Len(partial)
           n == Num(h, g + 1)
           bytes == Append(partial, stream[h][g + 1])
<1>1. queue # << >> /\ h \in 1 .. Sockets /\ Head(queue) = h /\ 1 \in 1 .. Len(queue)
  <2>1. queue # << >> /\ queue \in Seq(1 .. Sockets)
    BY DEF Receive, QueueInv
  <2>2. 1 \in 1 .. Len(queue)
    BY <2>1
  <2> QED
    BY <2>1, <2>2, Queued
<1>2. g \in Nat /\ g < Len(stream[h]) /\ g + 1 \in 1 .. Len(stream[h])
  <2>1. got[h] \in Nat /\ Len(stream[h]) \in Nat
    BY <1>1 DEF DisplayInv, WrittenInv
  <2>2. g < Len(stream[h])
    BY <1>1 DEF Receive
  <2> QED
    BY <2>1, <2>2
<1>3. partial \in Seq(Nat \X Nat) /\ k \in Nat /\ k < MessageLen /\ MessageLen \in Nat
  BY SoFarSmall DEF DisplayInv
<1>4. /\ k <= g
      /\ k = 0 => g = 0 \/ Idx(h, g) = MessageLen
      /\ k > 0 => Idx(h, g) = k /\ \A i \in 1 .. k : partial[i] = Byte(Num(h, g), i)
  BY <1>1 DEF DisplayInv
<1>5. /\ n \in Nat /\ n > 0 /\ Idx(h, g + 1) \in 1 .. MessageLen /\ msg \in Nat
      /\ stream[h][g + 1] = Byte(n, Idx(h, g + 1))
  BY <1>1, <1>2, BytesOfStream DEF ClientInv
<1>6. Idx(h, g + 1) = k + 1 /\ (k > 0 => n = Num(h, g))
  <2>1. Carries(h)
    BY <1>1 DEF StreamInv
  <2>2. CASE g = 0
    BY <1>2, <1>3, <1>4, <2>1, <2>2 DEF Carries
  <2>3. CASE g > 0
    <3>1. /\ Idx(h, g) = MessageLen => Idx(h, g + 1) = 1
          /\ Idx(h, g) # MessageLen => stream[h][g + 1] = Byte(Num(h, g), Idx(h, g) + 1)
      BY <1>2, <2>1, <2>3 DEF Carries
    <3>2. CASE k = 0
      BY <1>4, <2>3, <3>1, <3>2
    <3>3. CASE k > 0
      <4>1. stream[h][g + 1] = Byte(Num(h, g), k + 1)
        BY <1>3, <1>4, <3>1, <3>3
      <4> QED
        BY <4>1 DEF Num, Idx, Byte
    <3> QED
      BY <1>3, <3>2, <3>3
  <2> QED
    BY <1>2, <2>2, <2>3
<1>7. /\ got' = [got EXCEPT ![h] = g + 1]
      /\ IF Len(bytes) = MessageLen THEN partial' = << >> /\ onDisplay' = bytes
         ELSE partial' = bytes /\ UNCHANGED onDisplay
  BY <1>1 DEF Receive
<1>8. /\ bytes \in Seq(Nat \X Nat) /\ Len(bytes) = k + 1
      /\ \A i \in 1 .. k + 1 : bytes[i] = Byte(n, i)
  <2>1. stream[h][g + 1] = Byte(n, k + 1) /\ Byte(n, k + 1) \in Nat \X Nat
    BY <1>3, <1>5, <1>6 DEF Byte
  <2> HIDE DEF h, g, k, n
  <2>2. bytes \in Seq(Nat \X Nat) /\ Len(bytes) = k + 1
    BY <1>3, <2>1 DEF k
  <2>3. ASSUME NEW i \in 1 .. k PROVE bytes[i] = partial[i]
    BY <1>3, <2>1, <2>3 DEF k
  <2>4. bytes[k + 1] = Byte(n, k + 1)
    BY <1>3, <2>1 DEF k
  <2>5. ASSUME NEW i \in 1 .. k PROVE partial[i] = Byte(n, i)
    BY <1>3, <1>4, <1>6, <2>5
  <2> QED
    BY <1>3, <2>2, <2>3, <2>4, <2>5
<1>9. k + 1 = MessageLen => bytes = Message(n)
  <2> HIDE DEF k, n, bytes
  <2> QED
    BY <1>3, <1>8 DEF Message
<1>10. Reads(h, n, k)
  <2> HIDE DEF bytes
  <2> QED
    BY <1>1, <1>2, <1>3, <1>4, <1>5, <1>6, <1>7, <1>8, <1>9 DEF Reads
<1>11. h \in Int /\ n \in Int /\ k \in Int
  BY <1>1, <1>3, <1>5, OpcAssumption
<1> HIDE DEF h, n, k
<1> QED
  BY <1>10, <1>11

(* What is written stays written.                                          *)
LEMMA StreamsGrow ==
  ASSUME ClientInv, WrittenInv, [Next]_vars, NEW s \in 1 .. Sockets
  PROVE  /\ Len(stream[s]) \in Nat /\ Len(stream'[s]) \in Nat /\ Len(stream[s]) <= Len(stream'[s])
         /\ \A i \in 1 .. Len(stream[s]) : stream'[s][i] = stream[s][i]
<1>1. Len(stream[s]) \in Nat
  BY DEF WrittenInv
<1>2. CASE SendSome
  <2>1. PICK n \in Nat : Adds(n)
    BY <1>2, SendAdds
  <2>2. CASE s = sockid
    <3>1. /\ n \in Nat /\ Len(stream'[sockid]) = Len(stream[sockid]) + n
          /\ \A i \in 1 .. Len(stream[sockid]) : stream'[sockid][i] = stream[sockid][i]
      BY <2>1 DEF Adds
    <3> QED
      BY <1>1, <2>2, <3>1
  <2>3. CASE s # sockid
    BY <1>1, <2>1, <2>3 DEF Adds
  <2> QED
    BY <2>2, <2>3
<1>3. CASE ~ SendSome
  BY <1>1, <1>3, OthersWriteNothing
<1> QED
  BY <1>2, <1>3

(* DisplayInv, said of the connection that is served.                      *)
Begun(h) ==
  LET k == Len(partial) IN
  /\ k <= got[h]
  /\ k = 0 => got[h] = 0 \/ Idx(h, got[h]) = MessageLen
  /\ k > 0 => Idx(h, got[h]) = k /\ \A i \in 1 .. k : partial[i] = Byte(Num(h, got[h]), i)

(* The display's unfinished message stays the beginning of a frame: what   *)
(* it reads next is the frame's next byte, and it drops the message with   *)
(* the connection.                                                         *)
LEMMA DisplayInvStep ==
  ClientInv /\ WrittenInv /\ StreamInv /\ QueueInv /\ DisplayInv /\ [Next]_vars => DisplayInv'
<1> SUFFICES ASSUME ClientInv, WrittenInv, StreamInv, QueueInv, DisplayInv, [Next]_vars
             PROVE  DisplayInv'
  OBVIOUS
<1>1. /\ MessageLen \in Nat /\ MessageLen >= 2 /\ MessageLen' = MessageLen
      /\ got \in [1 .. Sockets -> Nat] /\ Len(partial) \in Nat
  BY SoFarSmall DEF MessageLen, DisplayInv
<1>2. CASE queue' = queue /\ UNCHANGED display
  <2>1. ASSUME NEW s \in 1 .. Sockets PROVE got[s] <= Len(stream'[s])
    BY <1>1, StreamsGrow DEF DisplayInv
  <2>2. ASSUME queue # << >> PROVE Begun(queue[1])'
    <3>1. queue[1] \in 1 .. Sockets
      BY <2>2, Queued DEF QueueInv
    <3> DEFINE h == queue[1]
    <3>2. Begun(h)
      BY <2>2 DEF DisplayInv, Begun
    <3>3. got[h] \in Nat /\ got[h] <= Len(stream[h])
      BY <1>1, <3>1 DEF DisplayInv
    <3>4. got[h] > 0 => stream'[h][got[h]] = stream[h][got[h]]
      BY <3>1, <3>3, StreamsGrow
    <3>5. got' = got /\ partial' = partial /\ queue' = queue
      BY <1>2 DEF display
    <3>6. CASE Len(partial) = 0
      BY <1>1, <3>2, <3>3, <3>4, <3>5, <3>6 DEF Begun, Idx
    <3>7. CASE Len(partial) > 0
      <4>1. stream'[h][got[h]] = stream[h][got[h]]
        BY <1>1, <3>2, <3>3, <3>4, <3>7 DEF Begun
      <4> QED
        BY <3>2, <3>5, <3>7, <4>1 DEF Begun, Num, Idx, Byte
    <3> QED
      BY <1>1, <3>6, <3>7
  <2> QED
    BY <1>1, <1>2, <2>1, <2>2 DEF DisplayInv, Begun, display
<1>3. CASE Receive
  <2>1. PICK h, n, k \in Int : Reads(h, n, k)
    BY <1>3, ReceiveReads
  <2>2. queue' = queue /\ queue # << >> /\ stream' = stream
    BY <1>3 DEF Receive
  <2>3. got' \in [1 .. Sockets -> Nat] /\ \A s \in 1 .. Sockets : got'[s] <= Len(stream[s])
    <3>1. h \in 1 .. Sockets /\ got[h] \in Nat /\ got[h] < Len(stream[h])
          /\ got' = [got EXCEPT ![h] = got[h] + 1]
      BY <2>1, Zenon DEF Reads
    <3>2. \A s \in 1 .. Sockets : got[s] <= Len(stream[s]) /\ Len(stream[s]) \in Nat
      BY StreamsGrow DEF DisplayInv
    <3> QED
      BY <1>1, <3>1, <3>2
  <2>4. partial' \in Seq(Nat \X Nat) /\ Len(partial') < MessageLen
    <3>1. \/ partial' = << >>
          \/ partial' \in Seq(Nat \X Nat) /\ Len(partial') = k + 1 /\ k + 1 < MessageLen
      BY <2>1, Zenon DEF Reads
    <3>2. << >> \in Seq(Nat \X Nat) /\ Len(<< >>) = 0
      OBVIOUS
    <3>3. CASE partial' = << >>
      BY <1>1, <3>2, <3>3
    <3> QED
      BY <3>1, <3>3
  <2>5. /\ got'[h] = got[h] + 1 /\ h = queue[1] /\ got[h] \in Nat
        /\ Idx(h, got[h] + 1) = k + 1 /\ n = Num(h, got[h] + 1)
        /\ k \in Nat /\ (k > 0 => k <= got[h])
    <3>1. /\ h = queue[1] /\ h \in 1 .. Sockets /\ got[h] \in Nat
          /\ got' = [got EXCEPT ![h] = got[h] + 1]
          /\ Idx(h, got[h] + 1) = k + 1 /\ n = Num(h, got[h] + 1)
          /\ k \in Nat /\ (k > 0 => k <= got[h])
      BY <2>1, Zenon DEF Reads
    <3>2. got'[h] = got[h] + 1
      BY <1>1, <3>1
    <3> QED
      BY <3>1, <3>2
  <2>6. Begun(h)'
    <3>1. CASE k + 1 = MessageLen /\ partial' = << >>
      BY <1>1, <2>2, <2>5, <3>1 DEF Begun, Idx
    <3>2. CASE Len(partial') = k + 1 /\ \A i \in 1 .. k + 1 : partial'[i] = Byte(n, i)
      <4>1. k + 1 <= got'[h] /\ k + 1 > 0
        BY <2>5
      <4>2. Idx(h, got'[h]) = k + 1 /\ Num(h, got'[h]) = n
        BY <2>5
      <4> QED
        BY <2>2, <3>2, <4>1, <4>2 DEF Begun, Idx, Num, Byte
    <3> QED
      BY <2>1, <3>1, <3>2 DEF Reads
  <2>7. ASSUME NEW a \in 1 .. Len(queue), a > 1 PROVE got'[queue[a]] = 0
    <3>1. queue[a] # queue[1] /\ queue[a] \in 1 .. Sockets
      BY <2>7, Queued
    <3> QED
      BY <1>1, <2>1, <2>7, <3>1 DEF Reads, DisplayInv
  <2> QED
    BY <2>1, <2>2, <2>3, <2>4, <2>5, <2>6, <2>7, <1>1 DEF DisplayInv, Begun
<1>4. ASSUME NEW s \in 1 .. Sockets, Establish(s) PROVE DisplayInv'
  <2>1. /\ queue' \in Seq(1 .. Sockets) /\ Len(queue) \in Nat /\ Len(queue') = Len(queue) + 1
        /\ \A a \in 1 .. Len(queue) : queue'[a] = queue[a]
        /\ queue'[Len(queue) + 1] = s /\ stream[s] = << >>
        /\ stream' = stream /\ got' = got /\ partial' = partial
    BY <1>4, Established
  <2>2. got[s] = 0
    BY <1>1, <2>1 DEF DisplayInv
  <2>3. Begun(queue'[1])
    <3>1. CASE queue = << >>
      BY <1>1, <2>1, <2>2, <3>1 DEF Begun, DisplayInv
    <3>2. CASE queue # << >>
      BY <2>1, <3>2 DEF Begun, DisplayInv, QueueInv
    <3> QED
      BY <3>1, <3>2
  <2>4. ASSUME NEW a \in 1 .. Len(queue'), a > 1 PROVE got[queue'[a]] = 0
    <3>1. CASE a \in 1 .. Len(queue)
      BY <2>1, <2>4, <3>1 DEF DisplayInv
    <3>2. CASE a = Len(queue) + 1
      BY <2>1, <2>2, <3>2
    <3> QED
      BY <2>1, <3>1, <3>2
  <2>5. (Begun(queue[1]))'
    BY <1>1, <2>1, <2>3 DEF Begun, Idx, Num, Byte
  <2> QED
    BY <1>1, <2>1, <2>4, <2>5 DEF DisplayInv, Begun
<1>5. CASE Drops
  <2>1. /\ queue' \in Seq(1 .. Sockets) /\ Len(queue) \in Nat /\ Len(queue') = Len(queue) - 1
        /\ \A a \in 1 .. Len(queue') : queue'[a] = queue[a + 1]
    BY <1>5, Dropped
  <2>2. ASSUME NEW a \in 1 .. Len(queue') PROVE got[queue'[a]] = 0
    <3>1. a + 1 \in 1 .. Len(queue) /\ a + 1 > 1 /\ queue'[a] = queue[a + 1]
      BY <2>1
    <3> QED
      BY <3>1 DEF DisplayInv
  <2> QED
    BY <1>1, <1>5, <2>1, <2>2 DEF DisplayInv, Drops
<1> QED
  BY <1>2, <1>3, <1>4, <1>5, QueueKept

-----------------------------------------------------------------------------
(* A frame whose last byte is read comes after the one that is shown, and  *)
(* before all that is still to come.                                       *)
LEMMA ReceiveShows ==
  ASSUME ClientInv, WrittenInv, StreamInv, QueueInv, DisplayInv, Receive,
         NEW h \in Int, NEW n \in Int, NEW k \in Int, Reads(h, n, k),
         NEW m \in 0 .. msg, Ahead(m), k + 1 = MessageLen
  PROVE  n \in 1 .. msg /\ m < n /\ (pc # "idle" => n < msg) /\ Ahead(n)'
<1>1. /\ h = queue[1] /\ h \in 1 .. Sockets /\ got[h] \in Nat /\ got[h] < Len(stream[h])
      /\ got' = [got EXCEPT ![h] = got[h] + 1]
      /\ k = Len(partial) /\ k \in Nat
      /\ n = Num(h, got[h] + 1) /\ Idx(h, got[h] + 1) = k + 1
  BY Zenon DEF Reads
<1>2. queue # << >> /\ queue' = queue /\ stream' = stream /\ msg' = msg /\ 1 \in 1 .. Len(queue)
  <2>1. queue # << >> /\ queue \in Seq(1 .. Sockets) /\ queue' = queue /\ stream' = stream /\ msg' = msg
    BY DEF Receive, QueueInv, client
  <2> QED
    BY <2>1
<1>3. partial' = << >>
  <2>1. MessageLen \in Nat
    BY SoFarSmall
  <2>2. k + 1 < MessageLen \/ partial' = << >>
    BY Zenon DEF Reads
  <2> QED
    BY <1>1, <2>1, <2>2
<1>4. got[h] + 1 \in 1 .. Len(stream[h]) /\ Len(stream[h]) \in Nat
  <2>1. stream[h] \in Seq((1 .. msg) \X (1 .. MessageLen))
    BY <1>1 DEF WrittenInv
  <2>2. Len(stream[h]) \in Nat
    BY <2>1
  <2> QED
    BY <1>1, <2>2
<1>5. n \in 1 .. msg /\ MessageLen \in Nat /\ msg \in Nat
  <2>1. Num(h, got[h] + 1) \in 1 .. msg
    BY <1>1, <1>4, BytesOfStream
  <2> QED
    BY <1>1, <2>1, SoFarSmall DEF ClientInv
<1>6. m < n
  BY <1>1, <1>2, <1>4 DEF Ahead
<1>7. pc # "idle" => n < msg
  <2>1. pc # "idle" /\ n = msg => Idx(h, got[h] + 1) <= SoFar
    BY <1>1, <1>4 DEF StreamInv
  <2>2. SoFar \in 0 .. MessageLen - 1
    BY SoFarSmall
  <2> QED
    BY <1>1, <1>5, <2>1, <2>2
<1>8. ASSUME NEW a \in 1 .. Len(queue), NEW j \in 1 .. Len(stream[queue[a]]),
             a > 1 \/ j > got'[queue[a]] - Len(partial')
      PROVE  n < Num(queue[a], j)
  <2>1. CASE a > 1
    <3>1. \A i \in 1 .. Len(stream[h]) : Num(h, i) < Num(queue[a], j)
      BY <1>1, <1>2, <1>8, <2>1, Queued
    <3> QED
      BY <1>1, <1>4, <3>1
  <2>2. CASE a = 1
    <3>1. j \in 1 .. Len(stream[h]) /\ j > got[h] + 1
      <4>1. got'[h] = got[h] + 1 /\ Len(partial') = 0
        BY <1>1, <1>3 DEF DisplayInv
      <4> QED
        BY <1>1, <1>8, <2>2, <4>1
    <3>2. Carries(h)
      BY <1>1 DEF StreamInv
    <3>3. Num(h, got[h] + 1) < Num(h, j)
      BY <1>1, <1>4, <3>1, <3>2 DEF Carries
    <3> QED
      BY <1>1, <2>2, <3>3
  <2> QED
    BY <2>1, <2>2
<1>9. Ahead(n)'
  BY <1>2, <1>8 DEF Ahead, Num
<1> QED
  BY <1>5, <1>6, <1>7, <1>9

(* Other bytes leave the display as it is, and no nearer to its next frame.*)
LEMMA ReceiveBegins ==
  ASSUME ClientInv, WrittenInv, StreamInv, QueueInv, DisplayInv, Receive,
         NEW h \in Int, NEW n \in Int, NEW k \in Int, Reads(h, n, k),
         NEW m \in 0 .. msg, Ahead(m), k + 1 # MessageLen
  PROVE  onDisplay' = onDisplay /\ Ahead(m)'
<1>1. /\ h = queue[1] /\ h \in 1 .. Sockets /\ got[h] \in Nat
      /\ got' = [got EXCEPT ![h] = got[h] + 1]
      /\ k = Len(partial) /\ k \in Nat /\ Len(partial') = k + 1 /\ onDisplay' = onDisplay
  BY Zenon DEF Reads
<1>2. queue' = queue /\ stream' = stream
  BY DEF Receive
<1>3. ASSUME NEW a \in 1 .. Len(queue), NEW j \in 1 .. Len(stream[queue[a]]),
             a > 1 \/ j > got'[queue[a]] - Len(partial')
      PROVE  m < Num(queue[a], j)
  <2>1. CASE a > 1
    BY <1>3, <2>1 DEF Ahead
  <2>2. CASE a = 1
    <3>1. got'[h] - Len(partial') = got[h] - Len(partial)
      BY <1>1 DEF DisplayInv
    <3> QED
      BY <1>1, <1>3, <2>2, <3>1 DEF Ahead
  <2> QED
    BY <2>1, <2>2
<1> QED
  BY <1>1, <1>2, <1>3 DEF Ahead, Num

(* What is added to a stream is of the frame that is put.                  *)
LEMMA NewBytes ==
  ASSUME ClientInv, WrittenInv, StreamInv, [Next]_vars,
         NEW s \in 1 .. Sockets, NEW j \in 1 .. Len(stream'[s]), j > Len(stream[s])
  PROVE  SendSome /\ Num(s, j)' = msg
<1>1. SendSome
  BY OthersWriteNothing
<1>2. PICK n \in Nat : Adds(n)
  BY <1>1, SendAdds
<1>3. s = sockid /\ sockid' = sockid
  BY <1>1, <1>2 DEF Adds, SendSome
<1>4. Len(stream'[sockid]) = Len(stream[sockid]) + n
  BY <1>2 DEF Adds
<1>5. \A i \in 1 .. Len(stream[sockid]) + n : i > Len(stream[sockid]) => Num(sockid, i)' = msg
  BY <1>1, <1>2, SendCarries
<1> QED
  BY <1>1, <1>3, <1>4, <1>5 DEF Num

(* While the connections and the display stay as they are, only new bytes  *)
(* are added to what is to come.                                           *)
LEMMA AheadKept ==
  ASSUME ClientInv, WrittenInv, StreamInv, QueueInv, [Next]_vars,
         queue' = queue, UNCHANGED display,
         NEW m \in 0 .. msg, Ahead(m), pc # "idle" => m < msg
  PROVE  Ahead(m)'
<1>1. ASSUME NEW a \in 1 .. Len(queue), NEW j \in 1 .. Len(stream'[queue[a]]),
             a > 1 \/ j > got[queue[a]] - Len(partial)
      PROVE  m < stream'[queue[a]][j][1]
  <2>1. queue[a] \in 1 .. Sockets
    BY Queued
  <2>2. CASE j \in 1 .. Len(stream[queue[a]])
    <3>1. stream'[queue[a]][j] = stream[queue[a]][j]
      BY <2>1, <2>2, StreamsGrow
    <3> QED
      BY <1>1, <2>2, <3>1 DEF Ahead, Num
  <2>3. CASE j > Len(stream[queue[a]])
    <3>1. SendSome /\ stream'[queue[a]][j][1] = msg
      BY <2>1, <2>3, NewBytes DEF Num
    <3> QED
      BY <3>1 DEF SendSome
  <2> QED
    BY <2>1, <2>2, <2>3, StreamsGrow
<1> QED
  BY <1>1 DEF Ahead, Num, display

(* The display shows nothing or a whole frame, before all that it has yet  *)
(* to read.                                                                *)
LEMMA ShownInvStep == SinkInv /\ [Next]_vars => ShownInv'
<1> SUFFICES ASSUME SinkInv, [Next]_vars PROVE ShownInv'
  OBVIOUS
<1> USE DEF SinkInv
<1>1. PICK m \in 0 .. msg : ShowsFrame(m) /\ Ahead(m) /\ (pc # "idle" => m < msg)
  BY DEF ShownInv
<1>2. msg \in Nat /\ MessageLen' = MessageLen
  BY DEF ClientInv, MessageLen
<1>3. ShowsFrame(m)' <=> IF m = 0 THEN onDisplay' = << >> ELSE onDisplay' = Message(m)
  BY <1>2 DEF ShowsFrame, Message, Byte
<1>4. msg' \in Nat /\ msg' >= msg /\ (pc' # "idle" => m < msg')
  <2>1. CASE SendSome
    BY <1>1, <1>2, <2>1 DEF SendSome
  <2>2. CASE ~ SendSome
    BY <1>1, <1>2, <2>2, OthersWriteNothing
  <2> QED
    BY <2>1, <2>2
<1>5. m \in 0 .. msg'
  BY <1>2, <1>4
<1>6. CASE queue' = queue /\ UNCHANGED display
  <2>1. ShowsFrame(m)'
    BY <1>1, <1>3, <1>6 DEF ShowsFrame, display
  <2>2. Ahead(m)'
    BY <1>1, <1>6, AheadKept
  <2> QED
    BY <1>4, <1>5, <2>1, <2>2 DEF ShownInv
<1>7. CASE Receive
  <2>1. PICK h, n, k \in Int : Reads(h, n, k)
    BY <1>7, ReceiveReads
  <2>2. pc' = pc /\ msg' = msg
    BY <1>7 DEF Receive, client
  <2>3. CASE k + 1 # MessageLen
    <3>1. onDisplay' = onDisplay /\ Ahead(m)'
      BY <1>1, <1>7, <2>1, <2>3, ReceiveBegins
    <3>2. ShowsFrame(m)'
      BY <1>1, <1>3, <3>1 DEF ShowsFrame
    <3> QED
      BY <1>4, <1>5, <3>1, <3>2 DEF ShownInv
  <2>4. CASE k + 1 = MessageLen
    <3>1. n \in 1 .. msg /\ m < n /\ (pc # "idle" => n < msg) /\ Ahead(n)'
      BY <1>1, <1>7, <2>1, <2>4, ReceiveShows
    <3>2. MessageLen \in Nat
      BY SoFarSmall
    <3>3. k + 1 < MessageLen \/ onDisplay' = Message(n)
      BY <2>1, Zenon DEF Reads
    <3>4. onDisplay' = Message(n) /\ n # 0
      BY <2>4, <3>1, <3>2, <3>3
    <3>5. ShowsFrame(n)'
      BY <1>2, <3>4 DEF ShowsFrame, Message, Byte
    <3>6. n \in 0 .. msg'
      BY <1>2, <2>2, <3>1
    <3> QED
      BY <2>2, <3>1, <3>5, <3>6 DEF ShownInv
  <2> QED
    BY <2>3, <2>4
<1>8. ASSUME NEW s \in 1 .. Sockets, Establish(s) PROVE ShownInv'
  <2>1. /\ Len(queue) \in Nat /\ Len(queue') = Len(queue) + 1
        /\ \A a \in 1 .. Len(queue) : queue'[a] = queue[a]
        /\ queue'[Len(queue) + 1] = s /\ stream[s] = << >>
        /\ stream' = stream /\ got' = got /\ partial' = partial /\ onDisplay' = onDisplay
    BY <1>8, Established
  <2>2. Ahead(m)'
    BY <1>1, <2>1 DEF Ahead, Num
  <2>3. ShowsFrame(m)'
    BY <1>1, <1>3, <2>1 DEF ShowsFrame
  <2> QED
    BY <1>4, <1>5, <2>2, <2>3 DEF ShownInv
<1>9. CASE Drops
  <2>1. /\ Len(queue) \in Nat /\ Len(queue') = Len(queue) - 1
        /\ \A a \in 1 .. Len(queue') : queue'[a] = queue[a + 1]
        /\ stream' = stream /\ onDisplay' = onDisplay
    BY <1>9, Dropped DEF Drops
  <2>2. Ahead(m)'
    <3>1. ASSUME NEW a \in 1 .. Len(queue'), NEW j \in 1 .. Len(stream[queue'[a]])
          PROVE  m < Num(queue'[a], j)
      <4>1. a + 1 \in 1 .. Len(queue) /\ a + 1 > 1 /\ queue'[a] = queue[a + 1]
        BY <2>1
      <4> QED
        BY <1>1, <3>1, <4>1 DEF Ahead
    <3> QED
      BY <2>1, <3>1 DEF Ahead, Num
  <2>3. ShowsFrame(m)'
    BY <1>1, <1>3, <2>1 DEF ShowsFrame
  <2> QED
    BY <1>4, <1>5, <2>2, <2>3 DEF ShownInv
<1> QED
  BY <1>6, <1>7, <1>8, <1>9, QueueKept

-----------------------------------------------------------------------------
(* Nothing is written and nobody is connected at the start.                *)
LEMMA SinkInvInit == Init => SinkInv
<1> SUFFICES ASSUME Init PROVE SinkInv
  OBVIOUS
<1> USE OpcAssumption
<1>1. ClientInv
  BY DEF Init, ClientInv, PartLen, NoSock
<1>2. \A s \in 1 .. Sockets : stream[s] = << >> /\ Len(stream[s]) = 0 /\ got[s] = 0
  BY DEF Init
<1>3. WrittenInv
  BY <1>2 DEF Init, WrittenInv, SoFar
<1>4. StreamInv
  BY <1>2 DEF Init, StreamInv, Carries, SoFar
<1>5. QueueInv
  BY DEF Init, QueueInv
<1>6. DisplayInv
  BY <1>2 DEF Init, DisplayInv, MessageLen
<1>7. ShownInv
  BY DEF Init, ShownInv, ShowsFrame, Ahead
<1> QED
  BY <1>1, <1>3, <1>4, <1>5, <1>6, <1>7 DEF SinkInv

(* All layers hold in every reachable state.                               *)
LEMMA SinkInvAlways == Spec => []SinkInv
<1>1. SinkInv /\ [Next]_vars => SinkInv'
  BY ClientInvStep, WrittenInvStep, StreamInvStep, QueueInvStep, DisplayInvStep, ShownInvStep DEF SinkInv
<1> QED
  BY <1>1, SinkInvInit, PTL DEF Spec

(* Every variable keeps its type: the bytes left to send are never none or *)
(* less while send() is called, and a sink with a socket has an open one.  *)
THEOREM TypeCorrect == Spec => []TypeOK
<1>1. SinkInv => TypeOK
  <2> SUFFICES ASSUME SinkInv PROVE TypeOK
    OBVIOUS
  <2>1. \A s \in 1 .. Sockets : got[s] \in 0 .. Len(stream[s])
    BY DEF SinkInv, DisplayInv, WrittenInv
  <2>2. Len(partial) < MessageLen
    BY DEF SinkInv, DisplayInv
  <2>3. PartLen \in Nat /\ total_sent \in 0 .. PartLen /\ total_sent < PartLen
    BY SoFarSmall DEF SinkInv, ClientInv
  <2> QED
    BY <2>1, <2>2, <2>3 DEF SinkInv, ClientInv, TypeOK
<1> QED
  BY <1>1, SinkInvAlways, PTL

(* The last bytes of a stream, as the community module says it.            *)
LEMMA SuffixByBytes ==
  ASSUME NEW S, NEW t \in Seq(S), NEW m, NEW n \in Nat, n <= Len(t),
         NEW s, s = [i \in 1 .. n |-> Byte(m, i)],
         \A i \in 1 .. n : t[Len(t) - n + i] = Byte(m, i)
  PROVE  IsSuffix(s, t)
<1> DEFINE l == Len(t)
           rs == [i \in 1 .. n |-> s[(n - i) + 1]]
           rt == [i \in 1 .. l |-> t[(l - i) + 1]]
<1>1. l \in Nat /\ n <= l /\ Len(s) = n
  OBVIOUS
<1>2. Reverse(s) = rs /\ Reverse(t) = rt
  BY <1>1 DEF Reverse
<1>3. Len(rs) = n /\ Len(rt) = l
  BY <1>1
<1>4. ASSUME NEW i \in 1 .. n PROVE rs[i] = rt[i]
  <2>1. /\ (n - i) + 1 \in 1 .. n /\ i \in 1 .. l
        /\ l - n + ((n - i) + 1) = (l - i) + 1
    BY <1>1
  <2>2. t[l - n + ((n - i) + 1)] = Byte(m, (n - i) + 1)
    BY <2>1
  <2>3. s[(n - i) + 1] = Byte(m, (n - i) + 1)
    BY <2>1
  <2> QED
    BY <2>1, <2>2, <2>3
<1> HIDE DEF l, rs, rt
<1>5. SubSeq(rs, 1, n) = SubSeq(rt, 1, n)
  BY <1>1, <1>4 DEF SubSeq
<1> QED
  BY <1>1, <1>2, <1>3, <1>5 DEF IsSuffix, IsPrefix

(* When opc_put_pixels returns 1, the whole frame is written to one        *)
(* connection, behind whole frames.                                        *)
THEOREM WritesWhole == Spec => []SentWhole
<1>1. SinkInv => SentWhole
  <2> SUFFICES ASSUME SinkInv, pc = "idle", result = 1
               PROVE  \E s \in 1 .. Sockets : IsSuffix(Message(msg), stream[s])
    BY DEF SentWhole
  <2>1. sockid \in 1 .. Sockets /\ EndsWith(sockid, MessageLen) /\ MessageLen \in Nat
    BY SoFarSmall DEF SinkInv, WrittenInv, ClientInv
  <2>2. stream[sockid] \in Seq((1 .. msg) \X (1 .. MessageLen))
    BY <2>1 DEF SinkInv, WrittenInv
  <2>3. IsSuffix(Message(msg), stream[sockid])
    BY <2>1, <2>2, SuffixByBytes DEF EndsWith, Message
  <2> QED
    BY <2>1, <2>3
<1> QED
  BY <1>1, SinkInvAlways, PTL

-----------------------------------------------------------------------------
(* The number that the refinement gives a frame on the display.            *)
LEMMA ShownFrameIs ==
  ASSUME SinkInv, NEW n \in Nat, ShowsFrame(n) PROVE ShownFrame = n
<1>1. MessageLen \in Nat /\ MessageLen >= 2
  BY SoFarSmall DEF SinkInv
<1>2. CASE n = 0
  BY <1>2 DEF ShowsFrame, ShownFrame
<1>3. CASE n > 0
  <2>1. onDisplay = Message(n) /\ onDisplay[1] = << n, 1 >> /\ onDisplay # << >>
    BY <1>1, <1>3 DEF ShowsFrame, Message, Byte
  <2> QED
    BY <2>1 DEF ShownFrame
<1> QED
  BY <1>2, <1>3

(* A step puts a frame, shows a later one, or is hidden.                   *)
LEMMA FeedStep ==
  ASSUME SinkInv, SinkInv', [Next]_vars
  PROVE  [Frames!Put \/ Frames!Show]_<< msg, ShownFrame >>
<1> USE DEF SinkInv
<1>1. CASE ~ Receive
  <2>1. UNCHANGED onDisplay
    BY <1>1, QueueKept DEF Drops, Establish, display
  <2>2. ShownFrame' = ShownFrame
    BY <2>1 DEF ShownFrame, Message, MessageLen, Byte
  <2>3. msg' = msg \/ msg' = msg + 1
    <3>1. CASE SendSome
      BY <3>1 DEF SendSome
    <3> QED
      BY <3>1, OthersWriteNothing
  <2> QED
    BY <2>2, <2>3 DEF Frames!Put
<1>2. CASE Receive
  <2>1. PICK m \in 0 .. msg : ShowsFrame(m) /\ Ahead(m)
    BY DEF ShownInv
  <2>2. PICK h, n, k \in Int : Reads(h, n, k)
    BY <1>2, ReceiveReads
  <2>3. msg' = msg /\ msg \in Nat /\ ShownFrame = m
    BY <1>2, <2>1, ShownFrameIs DEF Receive, client, ClientInv
  <2>4. CASE k + 1 # MessageLen
    <3>1. onDisplay' = onDisplay
      BY <1>2, <2>1, <2>2, <2>4, ReceiveBegins
    <3>2. ShownFrame' = ShownFrame
      BY <3>1 DEF ShownFrame, Message, MessageLen, Byte
    <3> QED
      BY <2>3, <3>2
  <2>5. CASE k + 1 = MessageLen
    <3>1. n \in 1 .. msg /\ m < n
      BY <1>2, <2>1, <2>2, <2>5, ReceiveShows
    <3>2. MessageLen \in Nat /\ MessageLen >= 2
      BY SoFarSmall
    <3>3. k + 1 < MessageLen \/ onDisplay' = Message(n)
      BY <2>2, Zenon DEF Reads
    <3>4. onDisplay' = Message(n)
      BY <2>5, <3>2, <3>3
    <3>5. onDisplay'[1] = << n, 1 >> /\ onDisplay' # << >>
      BY <3>2, <3>4 DEF Message, Byte, MessageLen
    <3>6. onDisplay'[1][1] = n /\ onDisplay' = Message(onDisplay'[1][1])
      BY <3>4, <3>5
    <3>7. ShownFrame' = n
      BY <3>5, <3>6 DEF ShownFrame
    <3> QED
      BY <2>1, <2>3, <3>1, <3>7 DEF Frames!Show
  <2> QED
    BY <2>4, <2>5
<1> QED
  BY <1>1, <1>2

(* The sink and the display implement the feed of frames: each is shown    *)
(* whole or not at all, in order, at most once, however sends are cut and  *)
(* connections break, for every size of frame and every number of sockets. *)
THEOREM FeedImplemented == Spec => ImplementsFrameFeed
<1>1. Init => Frames!FeedInit
  BY DEF Init, Frames!FeedInit, ShownFrame
<1> QED
  BY <1>1, FeedStep, SinkInvAlways, PTL DEF Spec, ImplementsFrameFeed, Frames!FeedSpec, Frames!feedVars
=============================================================================
