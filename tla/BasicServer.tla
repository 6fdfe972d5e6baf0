----------------------------- MODULE BasicServer -----------------------------
(***************************************************************************)
(* basic_server of ctrlserver.c: the line-based control server, one client *)
(* at a time, with the TCP streams of its clients.  It polls its client    *)
(* once a second, reads what has arrived and takes that for one line.      *)
(* The lock, the register and the loop's end are EffectRunner's.           *)
(***************************************************************************)
EXTENDS Effects, SequencesExt

CONSTANTS
  Clients,             \* the clients, one connection each
  Lines,               \* the lines each of them types, without the newline
  MaxLines,            \* bound: lines each of them sends
  BASIC_TCP_BUFFER,    \* bytes read in one poll
  Cut,                 \* the clients whose lines TCP splits and joins
  NoClient

ASSUME BasicAssumption ==
  /\ MaxLines \in [Clients -> Nat]
  /\ BASIC_TCP_BUFFER \in Nat \ {0}
  /\ Cut \subseteq Clients
  /\ NoClient \notin Clients

(* Bytes are character codes.                                              *)
Bytes == 0 .. 127
NL == 10
Digit(base) == 48 .. 47 + base

ASSUME LinesAssumption ==
  \A c \in Clients : \A l \in Lines[c] : l \in Seq(Bytes) /\ l # << >> /\ NL \notin ToSet(l)

VARIABLES
  state,               \* a connection: "none", "waiting" (in the backlog),
                       \* "accepted" or "closed" by the server
  hungUp,              \* has the client closed its side?
  net,                 \* bytes under way to the server
  rcv,                 \* bytes in the server's socket
  client_fd,           \* the accepted client, or NoClient
  proc,                \* "up", or "failed" by exit()
  sent, handled, stored   \* history: as in CommandFeed

conns == << state, hungUp, net, rcv >>
feed  == << sent, handled, stored >>
vars  == << conns, client_fd, proc, feed >>

Init ==
  /\ state = [c \in Clients |-> "none"]
  /\ hungUp = [c \in Clients |-> FALSE]
  /\ net = [c \in Clients |-> << >>] /\ rcv = [c \in Clients |-> << >>]
  /\ client_fd = NoClient /\ proc = "up"
  /\ sent = [c \in Clients |-> << >>]
  /\ handled = [c \in Clients |-> 0]
  /\ stored = << >>

-----------------------------------------------------------------------------
(* strtol(text, &end, 0) and the test of *end: {n}, or {} for a text that  *)
(* is not a number.  Leading white space is skipped; a leading 0 makes it  *)
(* octal.                                                                  *)
Parse(text) ==
  LET first == CHOOSE i \in 1 .. Len(text) + 1 :
                 /\ i <= Len(text) => text[i] # NL
                 /\ \A j \in 1 .. i - 1 : text[j] = NL
      body  == SubSeq(text, first, Len(text))
      base  == IF body # << >> /\ body[1] = 48 THEN 8 ELSE 10
      value[i \in 0 .. Len(body)] == IF i = 0 THEN 0 ELSE value[i - 1] * base + body[i] - 48
  IN IF body # << >> /\ ToSet(body) \subseteq Digit(base) THEN {value[Len(body)]} ELSE {}

(* Mutant: a client is taken to end its line with \r\n.                    *)
StripTwo(text) == SubSeq(text, 1, Len(text) - 2)

(* cmd[len - 1] = 0                                                        *)
Strip(text) == Front(text)

(* The lines that end in these bytes.                                      *)
LinesIn(bytes) == Cardinality({i \in 1 .. Len(bytes) : bytes[i] = NL})

-----------------------------------------------------------------------------
(* The clients.                                                            *)
Connect(c) ==
  /\ proc = "up" /\ state[c] = "none"
  /\ state' = [state EXCEPT ![c] = "waiting"]
  /\ UNCHANGED << hungUp, net, rcv, client_fd, proc, feed >>

Open(c) == state[c] \in {"waiting", "accepted"} /\ ~ hungUp[c]

Send(c) ==
  /\ Open(c) /\ Len(sent[c]) < MaxLines[c]
  /\ \E line \in Lines[c] :
       /\ net' = [net EXCEPT ![c] = @ \o Append(line, NL)]
       /\ sent' = [sent EXCEPT ![c] = Append(@, Parse(line))]
  /\ UNCHANGED << state, hungUp, rcv, client_fd, proc, handled, stored >>

HangUp(c) ==
  /\ Open(c)
  /\ hungUp' = [hungUp EXCEPT ![c] = TRUE]
  /\ UNCHANGED << state, net, rcv, client_fd, proc, feed >>

(* TCP delivers the next bytes: any number of them, or, to a client it     *)
(* does not cut, one line, when the server has read all before it.         *)
Deliver(c) ==
  /\ net[c] # << >>
  /\ \E n \in 1 .. Len(net[c]) :
       LET part == SubSeq(net[c], 1, n) IN
       /\ c \in Cut \/ (rcv[c] = << >> /\ Last(part) = NL /\ LinesIn(part) = 1)
       /\ rcv' = [rcv EXCEPT ![c] = @ \o part]
       /\ net' = [net EXCEPT ![c] = SubSeq(@, n + 1, Len(@))]
  /\ UNCHANGED << state, hungUp, client_fd, proc, feed >>

-----------------------------------------------------------------------------
(* basic_server.                                                           *)
AcceptClient(c) ==
  /\ proc = "up" /\ client_fd = NoClient /\ state[c] = "waiting"
  /\ client_fd' = c
  /\ state' = [state EXCEPT ![c] = "accepted"]
  /\ UNCHANGED << hungUp, net, rcv, proc, feed >>

(* Mutant: read == 0 is not told from read == -1.                          *)
IgnoreHangUp ==
  /\ proc = "up" /\ client_fd # NoClient
  /\ rcv[client_fd] = << >> /\ net[client_fd] = << >> /\ hungUp[client_fd]
  /\ UNCHANGED vars

(* Mutant: the client is closed as soon as it has hung up (POLLHUP).       *)
CloseAtOnce ==
  /\ proc = "up" /\ client_fd # NoClient /\ hungUp[client_fd]
  /\ state' = [state EXCEPT ![client_fd] = "closed"]
  /\ client_fd' = NoClient
  /\ UNCHANGED << hungUp, net, rcv, proc, feed >>

(* read == 0                                                               *)
PollHangUp ==
  /\ proc = "up" /\ client_fd # NoClient
  /\ rcv[client_fd] = << >> /\ net[client_fd] = << >> /\ hungUp[client_fd]
  /\ state' = [state EXCEPT ![client_fd] = "closed"]
  /\ client_fd' = NoClient
  /\ UNCHANGED << hungUp, net, rcv, proc, feed >>

(* read > 0: the bytes are one command, except the last of them.  When it  *)
(* is not a number, the default is stored back.                            *)
PollText ==
  /\ proc = "up" /\ client_fd # NoClient /\ rcv[client_fd] # << >>
  /\ LET c    == client_fd
         read == SubSeq(rcv[c], 1, Min({BASIC_TCP_BUFFER, Len(rcv[c])}))
         cmd  == Strip(read)
         done == handled[c] + LinesIn(read)
     IN /\ rcv' = [rcv EXCEPT ![c] = SubSeq(@, Len(read) + 1, Len(@))]
        /\ handled' = [handled EXCEPT ![c] = done]
        /\ IF Parse(cmd) = {}
             THEN UNCHANGED stored
             ELSE \E n \in Parse(cmd) : stored' = << c, done, ToInt8(n) >>
  /\ UNCHANGED << state, hungUp, net, client_fd, proc, sent >>

(* A client whose connection breaks: recv fails, and the process exits.    *)
PollError ==
  /\ proc = "up" /\ client_fd # NoClient /\ hungUp[client_fd]
  /\ proc' = "failed"
  /\ UNCHANGED << conns, client_fd, feed >>

(* Nothing has arrived.  The code writes cmd[-1] = 0 here, into the        *)
(* allocator's size field, where that byte is 0 already.                   *)
PollNothing ==
  /\ proc = "up" /\ client_fd # NoClient
  /\ rcv[client_fd] = << >> /\ ~ (net[client_fd] = << >> /\ hungUp[client_fd])
  /\ UNCHANGED vars

ServerStep == PollHangUp \/ PollText \/ PollError \/ PollNothing \/ \E c \in Clients : AcceptClient(c)
ClientStep(c) == Connect(c) \/ Send(c) \/ HangUp(c)

(* The process has exited, or has closed its last client.                  *)
Quiet == (proc = "failed" \/ \A c \in Clients : state[c] = "closed") /\ UNCHANGED vars

Next == ServerStep \/ (\E c \in Clients : ClientStep(c) \/ Deliver(c)) \/ Quiet

Spec == Init /\ [][Next]_vars

(* The thread polls for ever and TCP delivers; a client need do nothing.   *)
Fairness ==
  /\ WF_vars(PollHangUp) /\ WF_vars(PollText)
  /\ WF_vars(\E c \in Clients : AcceptClient(c))
  /\ \A c \in Clients : WF_vars(Deliver(c))

FairSpec == Spec /\ Fairness
=============================================================================
