----------------------------- MODULE OpcSinkProps -----------------------------
(***************************************************************************)
(* What the sink promises of the frames an effect puts.                    *)
(***************************************************************************)
EXTENDS OpcSink, SequencesExt

(* Types, what the bounds of the C arrays rest on, and one half of         *)
(* opc_client.h:47: with sock >= 0 the socket is open.                     *)
TypeOK ==
  /\ sockid \in 1 .. Sockets \cup {NoSock} /\ sock \in 1 .. Sockets \cup {NoSock}
  /\ open \subseteq 1 .. Sockets /\ {sockid, sock} \subseteq open \cup {NoSock}
  /\ status \in [1 .. Sockets -> {"unused", "connecting", "connected", "refused"}]
  /\ pc \in {"idle", "connect", "select", "send"} /\ part \in {"header", "body"}
  /\ msg \in 0 .. MaxPuts /\ result \in {0, 1}
  /\ total_sent \in 0 .. PartLen
  /\ pc = "send" => sockid # NoSock /\ total_sent < PartLen
  /\ \A s \in 1 .. Sockets : got[s] \in 0 .. Len(stream[s])
  /\ Len(partial) < MessageLen

(* The frame a shown message is, -1 when its bytes are not one frame's.    *)
ShownFrame ==
  CASE onDisplay = << >> -> 0
    [] onDisplay # << >> /\ onDisplay = Message(onDisplay[1][1]) -> onDisplay[1][1]
    [] OTHER -> -1

(* However writes are cut and connections break, the display never shows a *)
(* frame made of two, a part of one, or an older one after a newer one:    *)
(* a connection that has carried a part of a message carries no more.      *)
Frames == INSTANCE FrameFeed WITH put <- msg, shown <- ShownFrame
ImplementsFrameFeed == Frames!FeedSpec

(* opc_client.h:63-64, "Returns 1 if the data was sent": header and pixels *)
(* went to one connection, without a gap.                                  *)
SentWhole ==
  pc = "idle" /\ result = 1 => \E s \in 1 .. Sockets : IsSuffix(Message(msg), stream[s])

(* An effect is never held up for good by a display that is not there.     *)
PutReturns == pc # "idle" ~> pc = "idle"

-----------------------------------------------------------------------------
(* opc_client.h:47, "sock >= 0 iff the connection is open": between calls, *)
(* the sink's socket is the only one the process has open.                 *)
SinkIffOpen == pc = "idle" => open = {sockid} \ {NoSock}
=============================================================================
