---------------------------- MODULE WsServerProps ----------------------------
(***************************************************************************)
(* What server() promises of the frames of its clients.                    *)
(***************************************************************************)
EXTENDS WsServer

Texts == {Says(f) : f \in Frames}

(* Types; the locals of read_ws_frame are clear between its calls.         *)
TypeOK ==
  /\ state \in [Clients -> {"none", "waiting", "accepted", "upgraded", "closed"}]
  /\ hungUp \in [Clients -> BOOLEAN]
  /\ client_fd \in Clients \cup {NoClient}
  /\ pc \in {"loop", "upgrade", "len", "key", "data"}
  /\ tries \in 0 .. MaxTries - 1
  /\ opcode \in Opcodes /\ payload_len \in 0 .. MaxPayload /\ Len(key) <= KeyLen
  /\ pc = "loop" => opcode = "text" /\ payload_len = 0 /\ key = << >>
  /\ proc \in {"up", "malformed", "failed"}
  /\ \A c \in Clients : /\ sent[c] \in Seq(Texts) /\ Len(sent[c]) <= MaxFrames[c]
                        /\ handled[c] \in 0 .. Len(sent[c])
  /\ stored # << >> => stored \in Clients \X Nat \X Int8

(* Each command that reaches shared_cmd is what one text frame of one      *)
(* client says, cast to 8 bits; frames are taken in order and none twice,  *)
(* however many wait in the socket; when frames arrive whole.              *)
Feed == INSTANCE CommandFeed
ImplementsFeed == Feed!FeedSpec

(* The parser stays at a frame boundary over any sequence of whole frames, *)
(* control frames and frames cut by a hang-up included.  Of the headers    *)
(* only the length of a payload beyond MaxPayload ends the process, which  *)
(* the code refuses though the protocol allows it (ctrlserver.c:285); and  *)
(* a request or a socket ends it only when the very client it serves has   *)
(* hung up, whatever the others did.                                       *)
WellFormedSurvives ==
  /\ proc = "malformed" =>
       /\ pc = "len" /\ Waiting # << >>
       /\ Kind(Waiting[1]) = "len" /\ TooLong(Of(Waiting[1]))
  /\ proc = "failed" => client_fd # NoClient /\ hungUp[client_fd]

(* A client that hangs up, at whatever point of the upgrade or of a frame, *)
(* makes room for the next one in the backlog.                             *)
NextAccepted ==
  \A c, d \in Clients :
    (client_fd = c /\ hungUp[c] /\ state[d] = "waiting")
      ~> (client_fd \notin {c, NoClient} \/ proc # "up")

-----------------------------------------------------------------------------
(* Claims of the code's comments that it does not keep.                    *)

(* ctrlserver.c:254-256, "not enough data", "Otherwise return the command  *)
(* given": a command that is stored was given.                             *)
CommandGiven ==
  stored # << >> =>
    \E i \in DOMAIN sent[stored[1]] : \E n \in sent[stored[1]][i] : ToInt8(n) = stored[3]
=============================================================================
