----------------------------- MODULE MCWsServer -----------------------------
(***************************************************************************)
(* Instances of WsServer for TLC.                                          *)
(***************************************************************************)
EXTENDS WsServerProps

TextFrame(len, num) == [op |-> "text", len |-> len, num |-> num]

(* "2", "258" (2 as an int8_t), "255" (-1 as an int8_t, which passes for a *)
(* client that has gone), a text that is no number, one that is too long,  *)
(* a ping that carries "5", and a ping that carries nothing.               *)
AllFrames ==
  { TextFrame(1, 2), TextFrame(3, 258), TextFrame(3, 255), TextFrame(2, WsInvalid), TextFrame(4, 1),
    [op |-> "ping", len |-> 1, num |-> 5],
    [op |-> "ping", len |-> 0, num |-> WsInvalid] }

(* "12" and its first byte, "1".                                           *)
TwoFrames == { TextFrame(2, 12), TextFrame(1, 1) }

CONSTANTS busy, brief

TwoClients == {busy, brief}
TwoAndOne  == (busy :> 2) @@ (brief :> 1)
OneEach    == [c \in Clients |-> 1]
=============================================================================
