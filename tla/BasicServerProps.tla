--------------------------- MODULE BasicServerProps ---------------------------
(***************************************************************************)
(* What basic_server promises of the lines of its clients.                 *)
(***************************************************************************)
EXTENDS BasicServer

Texts == {Parse(line) : line \in UNION {Lines[c] : c \in Clients}}

(* The stored value is an int8_t and the history counts lines in bounds.   *)
TypeOK ==
  /\ state \in [Clients -> {"none", "waiting", "accepted", "closed"}]
  /\ hungUp \in [Clients -> BOOLEAN]
  /\ \A c \in Clients : /\ net[c] \in Seq(Bytes) /\ rcv[c] \in Seq(Bytes)
                        /\ sent[c] \in Seq(Texts) /\ Len(sent[c]) <= MaxLines[c]
                        /\ handled[c] \in 0 .. Len(sent[c])
  /\ client_fd \in Clients \cup {NoClient}
  /\ proc \in {"up", "failed"}
  /\ stored # << >> => /\ stored[1] \in Clients /\ stored[3] \in Int8
                       /\ stored[2] \in 0 .. MaxLines[stored[1]]

(* The lines for which one poll takes one line: they arrive whole and fit  *)
(* the buffer with their end, or have one character.                       *)
Fitting(line, c) == IF c \in Cut THEN Len(line) = 1 ELSE Len(line) < BASIC_TCP_BUFFER
LinesFit == \A c \in Clients : \A line \in Lines[c] : Fitting(line, c)

(* Each number that reaches shared_cmd is what one line of one client      *)
(* says, cast to 8 bits, lines are taken in order and none twice.  A poll  *)
(* takes whatever bytes it finds for one line: for lines of one digit, as  *)
(* every number of the table is, this holds however TCP splits and joins   *)
(* them (a line may be lost); for longer ones it takes a line that arrives *)
(* whole and fits the buffer.                                              *)
Feed == INSTANCE CommandFeed
ImplementsFeed == Feed!FeedSpec

(* A line of the accepted client is read in the end, however TCP cuts it   *)
(* and although the client hangs up right after it, as nc -w0 does; only   *)
(* the end of the process loses it.                                        *)
LineRead ==
  \A c \in Clients : \A k \in 1 .. MaxLines[c] :
    (state[c] = "accepted" /\ Len(sent[c]) >= k) ~> (handled[c] >= k \/ proc = "failed")

(* A client that hangs up makes room for the next one in the backlog.      *)
NextAccepted ==
  \A c, d \in Clients :
    (client_fd = c /\ hungUp[c] /\ state[d] = "waiting")
      ~> (client_fd \notin {c, NoClient} \/ proc = "failed")

=============================================================================
