------------------------------ MODULE WsServer ------------------------------
(***************************************************************************)
(* server of ctrlserver.c: the WebSocket control server, one client at a   *)
(* time.  After the upgrade it polls once a second, and read_ws_frame      *)
(* takes a frame apart with four reads that do not wait.  A byte is a      *)
(* token that says which byte of which frame it is; what a byte means when *)
(* it is read in another's place is free.  The lock, the register and the  *)
(* loop's end are EffectRunner's.                                          *)
(***************************************************************************)
EXTENDS Effects, SequencesExt

CONSTANTS
  Clients,             \* the clients, one connection each
  Frames,              \* what they send: [op, len, num]
  MaxFrames,           \* bound: frames each client sends
  KeyLen,              \* bytes of a masking key: 4 in the code
  MaxPayload,          \* the longest payload it reads: 125 in the code
  MaxTries,            \* reads that wait for the HTTP request: 5 in the code
  Segmented,           \* may TCP split a request or a frame?
  NoClient

Opcodes == {"text", "close", "ping"}

(* num is the number the payload says, WsInvalid for another text.         *)
ASSUME WsAssumption ==
  /\ \A f \in Frames : f.op \in Opcodes /\ f.len \in Nat /\ f.num \in Int
  /\ MaxFrames \in [Clients -> Nat] /\ KeyLen \in Nat \ {0} /\ MaxTries \in Nat \ {0}
  /\ MaxPayload \in Nat
  /\ Segmented \in BOOLEAN /\ NoClient \notin Clients

(* What a command frame of a client says, as in CommandFeed.               *)
Says(f) == IF f.op = "text" /\ f.len > 0 THEN {f.num} ELSE {}

(* The ith byte of a kind in frame f, a client's frame number k.           *)
Token(kind, f, k, i) == << kind, f, k, i >>
Kind(t)   == t[1]
Of(t)     == t[2]
Number(t) == t[3]

Key(f, k)  == [i \in 1 .. KeyLen |-> Token("key", f, k, i)]
Data(f, k) == [i \in 1 .. f.len |-> Token("data", f, k, i)]

(* Of a payload longer than MaxPayload the length byte says no more than   *)
(* that; the bytes behind it that say how long are never read, and left out.*)
Bytes(f, k) == << Token("op", f, k, 1), Token("len", f, k, 1) >> \o Key(f, k) \o Data(f, k)

NoFrame == [op |-> "text", len |-> 0, num |-> WsInvalid]
Request == << Token("http", NoFrame, 0, 1), Token("http", NoFrame, 0, 2) >>

(* What TCP keeps together when it splits nothing.                         *)
Whole(part) == part \in {Request, Bytes(Of(part[1]), Number(part[1]))}

VARIABLES
  state,               \* a connection: "none", "waiting" (in the backlog),
                       \* "accepted", "upgraded" or "closed" by the server
  hungUp,              \* has the client closed its side?
  net,                 \* bytes under way to the server
  rcv,                 \* bytes in the server's socket
  client_fd,           \* the accepted client, or NoClient
  pc,                  \* server(): "loop" and "upgrade"; read_ws_frame: the
                       \* part of the frame it reads next
  tries,               \* server(): reads of the HTTP request so far
  opcode, payload_len, \* read_ws_frame
  key,                 \* read_ws_frame: the bytes of the masking key
  proc,                \* "up", or ended: "malformed" by exit() on a frame's
                       \* header, "failed" by another exit() or a signal
  sent, handled, stored   \* history: as in CommandFeed

conns  == << state, hungUp, net, rcv >>
parser == << opcode, payload_len, key >>
feed   == << sent, handled, stored >>
vars   == << conns, client_fd, pc, tries, parser, proc, feed >>

Init ==
  /\ state = [c \in Clients |-> "none"]
  /\ hungUp = [c \in Clients |-> FALSE]
  /\ net = [c \in Clients |-> << >>] /\ rcv = [c \in Clients |-> << >>]
  /\ client_fd = NoClient /\ pc = "loop" /\ tries = 0
  /\ opcode = "text" /\ payload_len = 0 /\ key = << >>
  /\ proc = "up"
  /\ sent = [c \in Clients |-> << >>]
  /\ handled = [c \in Clients |-> 0]
  /\ stored = << >>

-----------------------------------------------------------------------------
(* The clients: a request when they connect, frames once they are upgraded.*)
Connect(c) ==
  /\ proc = "up" /\ state[c] = "none"
  /\ state' = [state EXCEPT ![c] = "waiting"]
  /\ net' = [net EXCEPT ![c] = Request]
  /\ UNCHANGED << hungUp, rcv, client_fd, pc, tries, parser, proc, feed >>

Send(c) ==
  /\ state[c] = "upgraded" /\ ~ hungUp[c] /\ Len(sent[c]) < MaxFrames[c]
  /\ \E f \in Frames :
       /\ net' = [net EXCEPT ![c] = @ \o Bytes(f, Len(sent[c]) + 1)]
       /\ sent' = [sent EXCEPT ![c] = Append(@, Says(f))]
  /\ UNCHANGED << state, hungUp, rcv, client_fd, pc, tries, parser, proc, handled, stored >>

(* A client that hangs up may lose what is under way, from any byte of the *)
(* request or of a frame's header on.                                      *)
Cuts(bytes) == {0, Len(bytes)} \cup {n \in 1 .. Len(bytes) : Kind(bytes[n]) # "data"}

HangUp(c) ==
  /\ state[c] \in {"waiting", "accepted", "upgraded"} /\ ~ hungUp[c]
  /\ hungUp' = [hungUp EXCEPT ![c] = TRUE]
  /\ \E n \in Cuts(net[c]) : net' = [net EXCEPT ![c] = SubSeq(@, 1, n)]
  /\ UNCHANGED << state, rcv, client_fd, pc, tries, parser, proc, feed >>

Deliver(c) ==
  /\ state[c] # "closed"
  /\ \E n \in 1 .. Len(net[c]) :
       LET part == SubSeq(net[c], 1, n) IN
       /\ Segmented \/ Whole(part) \/ (hungUp[c] /\ part = net[c])
       /\ rcv' = [rcv EXCEPT ![c] = @ \o part]
       /\ net' = [net EXCEPT ![c] = SubSeq(@, n + 1, Len(@))]
  /\ UNCHANGED << state, hungUp, client_fd, pc, tries, parser, proc, feed >>

-----------------------------------------------------------------------------
(* server().                                                               *)
At(label) == proc = "up" /\ pc = label

Waiting == rcv[client_fd]

(* close_client: what the client has sent and was not read is lost.  The   *)
(* locals of read_ws_frame are gone.                                       *)
CloseClient ==
  /\ state' = [state EXCEPT ![client_fd] = "closed"]
  /\ rcv' = [rcv EXCEPT ![client_fd] = << >>] /\ net' = [net EXCEPT ![client_fd] = << >>]
  /\ handled' = [handled EXCEPT ![client_fd] = Len(sent[client_fd])]
  /\ client_fd' = NoClient
  /\ pc' = "loop" /\ tries' = 0
  /\ opcode' = "text" /\ payload_len' = 0 /\ key' = << >>

Exit(how) ==
  /\ proc' = how
  /\ UNCHANGED << conns, client_fd, pc, tries, parser, feed >>

AcceptClient(c) ==
  /\ At("loop") /\ client_fd = NoClient /\ state[c] = "waiting"
  /\ client_fd' = c /\ pc' = "upgrade"
  /\ state' = [state EXCEPT ![c] = "accepted"]
  /\ UNCHANGED << hungUp, net, rcv, tries, parser, proc, feed >>

(* One of the reads of the request that finds nothing; after the last, or  *)
(* when the client has hung up, the client is closed.                      *)
UpgradeNothing ==
  /\ At("upgrade") /\ Waiting = << >>
  /\ IF tries + 1 = MaxTries \/ (hungUp[client_fd] /\ net[client_fd] = << >>)
       THEN CloseClient
       ELSE tries' = tries + 1 /\ UNCHANGED << state, net, rcv, client_fd, pc, parser, handled >>
  /\ UNCHANGED << hungUp, proc, sent, stored >>

(* A read that finds bytes takes them for the whole request, and a part    *)
(* may have all that is looked for.                                        *)
Upgrade ==
  /\ At("upgrade") /\ Waiting # << >>
  /\ state' = [state EXCEPT ![client_fd] = "upgraded"]
  /\ rcv' = [rcv EXCEPT ![client_fd] = << >>]
  /\ pc' = "loop" /\ tries' = 0
  /\ UNCHANGED << hungUp, net, client_fd, parser, proc, feed >>

(* A cut request is not valid; or the reply cannot be written.             *)
UpgradeFails ==
  /\ At("upgrade") /\ Waiting # << >>
  /\ Waiting # Request \/ hungUp[client_fd]
  /\ CloseClient
  /\ UNCHANGED << hungUp, proc, sent, stored >>

(* A request cut within the key is valid, and exits for want of its end.   *)
UpgradeMalformed ==
  /\ At("upgrade") /\ Waiting # << >> /\ Waiting # Request
  /\ Exit("failed")

(* Writing to a client that has gone raises SIGPIPE; nothing handles it,   *)
(* except while opc_send, in the other thread, has it ignored.             *)
UpgradeSigpipe ==
  /\ At("upgrade") /\ Waiting # << >> /\ hungUp[client_fd]
  /\ Exit("failed")

-----------------------------------------------------------------------------
(* read_ws_frame.                                                          *)
ReadingFrame == client_fd # NoClient /\ pc \in {"loop", "len", "key", "data"}

(* Mutant: a read that finds nothing returns -2, hang-up or not.           *)
PollAgain == proc = "up" /\ ReadingFrame /\ Waiting = << >> /\ UNCHANGED vars

(* A read that finds nothing, whatever the reason, returns -1, and the     *)
(* client is closed.                                                       *)
ReadNothing ==
  /\ proc = "up" /\ ReadingFrame /\ Waiting = << >>
  /\ CloseClient
  /\ UNCHANGED << hungUp, proc, sent, stored >>

(* The next n bytes of the client.                                         *)
ReadUpTo(n) == SubSeq(Waiting, 1, Min({n, Len(Waiting)}))
Take(n) == rcv' = [rcv EXCEPT ![client_fd] = SubSeq(@, Len(ReadUpTo(n)) + 1, Len(@))]

(* The header bytes: reserved bits, a missing mask or a long payload exit; *)
(* a byte that is no header byte may say anything.                         *)
ReadOp ==
  /\ At("loop") /\ client_fd # NoClient /\ Waiting # << >>
  /\ LET t == Waiting[1] IN
     \/ /\ opcode' \in IF Kind(t) = "op" THEN {Of(t).op} ELSE Opcodes
        /\ Take(1) /\ pc' = "len"
        /\ UNCHANGED << state, hungUp, net, client_fd, tries, payload_len, key, proc, feed >>
     \/ Kind(t) # "op" /\ Exit("malformed")

(* A frame whose length does not fit the length byte.                      *)
TooLong(f) == f.len > MaxPayload

ReadLen ==
  /\ At("len") /\ Waiting # << >>
  /\ LET t == Waiting[1] IN
     \/ /\ payload_len' \in 0 .. MaxPayload
        /\ Kind(t) = "len" => payload_len' = Of(t).len
        /\ Take(1) /\ pc' = "key"
        /\ UNCHANGED << state, hungUp, net, client_fd, tries, opcode, key, proc, feed >>
     \/ (Kind(t) = "len" => TooLong(Of(t))) /\ Exit("malformed")

(* Mutant: a frame with no payload is done before its masking key is read. *)
ReadKeyIfPayload ==
  /\ At("key") /\ Waiting # << >>
  /\ IF payload_len = 0
       THEN /\ pc' = "loop" /\ opcode' = "text" /\ key' = << >>
            /\ UNCHANGED << state, rcv, net, client_fd, tries, payload_len, handled >>
       ELSE /\ Take(KeyLen) /\ key' = ReadUpTo(KeyLen) /\ pc' = "data"
            /\ UNCHANGED << state, net, client_fd, tries, opcode, payload_len, handled >>
  /\ UNCHANGED << hungUp, proc, sent, stored >>

(* Fewer bytes than the key has pass for the key.  A frame with no payload *)
(* returns -1 too, whatever its opcode.                                    *)
ReadKey ==
  /\ At("key") /\ Waiting # << >>
  /\ IF payload_len = 0
       THEN CloseClient
       ELSE /\ Take(KeyLen) /\ key' = ReadUpTo(KeyLen) /\ pc' = "data"
            /\ UNCHANGED << state, net, client_fd, tries, opcode, payload_len, handled >>
  /\ UNCHANGED << hungUp, proc, sent, stored >>

(* The text the payload decodes to: the frame's, when all of its bytes     *)
(* and all of the key are there; any other otherwise.                      *)
Decoded(f, k, payload) ==
  IF key = Key(f, k) /\ payload = Data(f, k)
    THEN {f.num}
    ELSE {g.num : g \in Frames} \cup {WsInvalid}

(* Mutant: the payload of a control frame is a command too.                *)
ReturnedAnyOpcode(n) == ToInt8(n)

(* What read_ws_frame returns for a payload that says n: only a text is a  *)
(* command.                                                                *)
Returned(n) == IF opcode = "text" THEN ToInt8(n) ELSE 0

(* A control frame is read and dropped; a text is a command if positive,   *)
(* and closes the client if it is -1 once cast.                            *)
ReadData ==
  /\ At("data") /\ Waiting # << >>
  /\ LET payload == ReadUpTo(payload_len)
         last == Last(payload)
         c == client_fd
         done == handled[c] + 1
     IN \E n \in Decoded(Of(last), Number(last), payload) :
          LET read == Returned(n) IN
          IF read = WsGone
            THEN CloseClient /\ UNCHANGED stored
            ELSE /\ Take(payload_len) /\ pc' = "loop"
                 /\ opcode' = "text" /\ payload_len' = 0 /\ key' = << >>
                 /\ handled' = [handled EXCEPT ![c] = Min({done, Len(sent[c])})]
                 /\ stored' = IF read > 0 THEN << c, done, read >> ELSE stored
                 /\ UNCHANGED << state, net, client_fd, tries >>
  /\ UNCHANGED << hungUp, proc, sent >>

(* recv reports a connection that the client has reset.                    *)
RecvError ==
  /\ proc = "up" /\ client_fd # NoClient /\ hungUp[client_fd]
  /\ Exit("failed")

ServerStep ==
  \/ UpgradeNothing \/ Upgrade \/ UpgradeFails
  \/ UpgradeMalformed \/ UpgradeSigpipe
  \/ ReadNothing \/ ReadOp \/ ReadLen \/ ReadKey \/ ReadData \/ RecvError
  \/ \E c \in Clients : AcceptClient(c)
ClientStep(c) == Connect(c) \/ Send(c) \/ HangUp(c)

(* The process has exited, or has closed its last client.                  *)
Quiet == (proc # "up" \/ \A c \in Clients : state[c] = "closed") /\ UNCHANGED vars

Next == ServerStep \/ (\E c \in Clients : ClientStep(c) \/ Deliver(c)) \/ Quiet

Spec == Init /\ [][Next]_vars

(* The thread keeps polling; clients and the network need do nothing, and  *)
(* no error of a socket has to happen.                                     *)
FairSpec == Spec /\ WF_vars(ServerStep /\ proc' # "failed")
=============================================================================
