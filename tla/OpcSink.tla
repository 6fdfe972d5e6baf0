------------------------------- MODULE OpcSink -------------------------------
(***************************************************************************)
(* opc_client.c: the sink that sends frames to the display over TCP.  Each *)
(* frame is two opc_send calls, header and pixels; each connects if the    *)
(* sink has no socket, and closes it when a write fails.  The display is   *)
(* external: it serves one connection after the other and cuts the bytes   *)
(* of each into messages by their length.                                  *)
(***************************************************************************)
EXTENDS Integers, Sequences

CONSTANTS
  MaxPuts,             \* bound: frames put
  Sockets,             \* bound: socket() gives 1, 2, .. in turn, then fails
  HeaderLen,           \* 4 bytes in the code
  BodyLen              \* 3 * NUM_PIXELS bytes in the code

ASSUME OpcAssumption ==
  /\ MaxPuts \in Nat /\ Sockets \in Nat
  /\ HeaderLen \in Nat \ {0} /\ BodyLen \in Nat \ {0}

NoSock == -1
MessageLen == HeaderLen + BodyLen

(* Byte i of message m, and the whole message.                             *)
Byte(m, i) == << m, i >>
Message(m) == [i \in 1 .. MessageLen |-> Byte(m, i)]

VARIABLES
  sockid,              \* opc_sink_info.sockid
  status,              \* a socket: "unused", "connecting", "connected", "refused"
  open,                \* the sockets the process has not closed
  pc,                  \* opc_put_pixels: "idle", "connect", "select", "send"
  part,                \* which opc_send: "header" or "body"
  sock,                \* opc_connect's local
  total_sent,          \* opc_send's local
  msg,                 \* the frame being put, counted from 1
  result,              \* what the last opc_put_pixels returned
  stream,              \* the bytes written to each socket
  queue,               \* display: the connections it has, the first is served
  got,                 \* display: bytes read of each connection
  partial,             \* display: the bytes of an unfinished message
  onDisplay            \* display: the last message shown, or << >>

client  == << sockid, open, sock, total_sent, part, msg, result >>
display == << got, partial, onDisplay >>
vars    == << client, status, pc, stream, queue, display >>

Init ==
  /\ sockid = NoSock /\ open = {}
  /\ status = [s \in 1 .. Sockets |-> "unused"]
  /\ pc = "idle" /\ part = "header" /\ sock = NoSock /\ total_sent = 0
  /\ msg = 0 /\ result = 0
  /\ stream = [s \in 1 .. Sockets |-> << >>]
  /\ queue = << >>
  /\ got = [s \in 1 .. Sockets |-> 0]
  /\ partial = << >> /\ onDisplay = << >>

-----------------------------------------------------------------------------
(* opc_put_pixels returns.                                                 *)
Return(value) == pc' = "idle" /\ result' = value

(* opc_put_pixels: the header first.                                       *)
PutPixels ==
  /\ pc = "idle" /\ msg < MaxPuts
  /\ msg' = msg + 1 /\ part' = "header" /\ total_sent' = 0
  /\ pc' = "connect"
  /\ UNCHANGED << sockid, open, sock, result, status, stream, queue, display >>

(* opc_connect: already connected.                                         *)
HasSocket ==
  /\ pc = "connect" /\ sockid # NoSock
  /\ pc' = "send"
  /\ UNCHANGED << client, status, stream, queue, display >>

(* opc_connect: connect() is under way.                                    *)
StartConnect ==
  /\ pc = "connect" /\ sockid = NoSock
  /\ \E s \in 1 .. Sockets :
       /\ status[s] = "unused" /\ \A r \in 1 .. s - 1 : status[r] # "unused"
       /\ status' = [status EXCEPT ![s] = "connecting"]
       /\ sock' = s /\ open' = open \cup {s}
  /\ pc' = "select"
  /\ UNCHANGED << sockid, total_sent, part, msg, result, stream, queue, display >>

(* Mutant: opc_connect tries until it succeeds.                            *)
ConnectRetries ==
  /\ pc = "connect" /\ sockid = NoSock
  /\ UNCHANGED vars

(* opc_connect: connect() fails at once, or socket() did.                  *)
ConnectFails ==
  /\ pc = "connect" /\ sockid = NoSock
  /\ Return(0)
  /\ UNCHANGED << sockid, open, sock, total_sent, part, msg, status, stream, queue, display >>

(* opc_connect: the socket passes for connected when SO_ERROR reads 0.     *)
(* That happens also before the connection is made, when a signal ends     *)
(* select and leaves its set as it was, and after a refusal, when the      *)
(* uninitialised len makes getsockopt store nothing.                       *)
SelectConnected ==
  /\ pc = "select"
  /\ sockid' = sock /\ sock' = NoSock
  /\ pc' = "send"
  /\ UNCHANGED << open, total_sent, part, msg, result, status, stream, queue, display >>

SelectRefused ==
  /\ pc = "select" /\ status[sock] = "refused"
  /\ open' = open \ {sock} /\ sock' = NoSock
  /\ Return(0)
  /\ UNCHANGED << sockid, total_sent, part, msg, status, stream, queue, display >>

(* The timeout leaves the socket open, and forgotten.                      *)
SelectTimeout ==
  /\ pc = "select" /\ status[sock] = "connecting"
  /\ sock' = NoSock
  /\ Return(0)
  /\ UNCHANGED << sockid, open, total_sent, part, msg, status, stream, queue, display >>

PartLen == IF part = "header" THEN HeaderLen ELSE BodyLen
PartStart == IF part = "header" THEN 0 ELSE HeaderLen

(* opc_send: send() takes some of the bytes left.  After the header comes  *)
(* the body, by another opc_send.                                          *)
SendSome ==
  /\ pc = "send" /\ status[sockid] = "connected"
  /\ \E n \in 1 .. PartLen - total_sent :
       LET bytes == [i \in 1 .. n |-> Byte(msg, PartStart + total_sent + i)]
           sent  == total_sent + n
       IN /\ stream' = [stream EXCEPT ![sockid] = @ \o bytes]
          /\ \/ sent < PartLen /\ total_sent' = sent /\ UNCHANGED << pc, part, result >>
             \/ /\ sent = PartLen /\ part = "header"
                /\ part' = "body" /\ total_sent' = 0 /\ pc' = "connect" /\ UNCHANGED result
             \/ /\ sent = PartLen /\ part = "body"
                /\ Return(1) /\ UNCHANGED << part, total_sent >>
  /\ UNCHANGED << sockid, open, sock, msg, status, queue, display >>

(* Mutant: sockid = -1 is missing.                                         *)
CloseForgetsReset == open' = open \ {sockid} /\ UNCHANGED sockid

(* opc_close                                                               *)
Close == open' = open \ {sockid} /\ sockid' = NoSock

(* Mutant: a failed send leaves the connection to the next frame.          *)
SendFailsKeep ==
  /\ pc = "send"
  /\ Return(0)
  /\ UNCHANGED << sockid, open, sock, total_sent, part, msg, status, stream, queue, display >>

(* Mutant: the body is sent even when the header was not.                  *)
SendFailsGoOn ==
  /\ pc = "send"
  /\ Close
  /\ IF part = "header"
       THEN part' = "body" /\ total_sent' = 0 /\ pc' = "connect" /\ UNCHANGED result
       ELSE Return(0) /\ UNCHANGED << part, total_sent >>
  /\ UNCHANGED << sock, msg, status, stream, queue, display >>

(* opc_send: send() fails (the peer has gone, the buffer is full and the   *)
(* socket does not block, a signal): opc_close, and no body after a header *)
(* that failed.                                                            *)
SendFails ==
  /\ pc = "send"
  /\ Close
  /\ Return(0)
  /\ UNCHANGED << sock, total_sent, part, msg, status, stream, queue, display >>

-----------------------------------------------------------------------------
(* The network and the display.                                            *)
Establish(s) ==
  /\ status[s] = "connecting" /\ s \in open
  /\ status' = [status EXCEPT ![s] = "connected"]
  /\ queue' = Append(queue, s)
  /\ UNCHANGED << client, pc, stream, display >>

Refuse(s) ==
  /\ status[s] = "connecting" /\ s \in open
  /\ status' = [status EXCEPT ![s] = "refused"]
  /\ UNCHANGED << client, pc, stream, queue, display >>

(* The display reads one byte of the connection it serves; with the last   *)
(* byte of a message it shows it.                                          *)
Receive ==
  /\ queue # << >>
  /\ LET s == Head(queue)
         bytes == Append(partial, stream[s][got[s] + 1])
     IN /\ got[s] < Len(stream[s])
        /\ got' = [got EXCEPT ![s] = @ + 1]
        /\ IF Len(bytes) = MessageLen
             THEN partial' = << >> /\ onDisplay' = bytes
             ELSE partial' = bytes /\ UNCHANGED onDisplay
  /\ UNCHANGED << client, status, pc, stream, queue >>

(* It goes on to the next connection when the client has closed this one   *)
(* and all its bytes are read.                                             *)
NextConnection ==
  /\ queue # << >> /\ Head(queue) \notin open
  /\ got[Head(queue)] = Len(stream[Head(queue)])
  /\ queue' = Tail(queue) /\ partial' = << >>
  /\ UNCHANGED << client, status, pc, stream, got, onDisplay >>

(* It may close a connection, and restart.                                 *)
DisplayDrops ==
  /\ queue # << >>
  /\ queue' = Tail(queue) /\ partial' = << >>
  /\ UNCHANGED << client, status, pc, stream, got, onDisplay >>

SinkStep ==
  \/ PutPixels \/ HasSocket \/ StartConnect \/ ConnectFails
  \/ SelectConnected \/ SelectRefused \/ SelectTimeout \/ SendSome \/ SendFails
DisplayStep == Receive \/ NextConnection \/ DisplayDrops

(* All frames are put.                                                     *)
Done == pc = "idle" /\ msg = MaxPuts /\ UNCHANGED vars

Next == SinkStep \/ DisplayStep \/ (\E s \in 1 .. Sockets : Establish(s) \/ Refuse(s)) \/ Done

Spec == Init /\ [][Next]_vars

(* main runs; the display and the network need do nothing.                 *)
FairSpec == Spec /\ WF_vars(SinkStep)
=============================================================================
