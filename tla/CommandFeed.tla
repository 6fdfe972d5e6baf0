----------------------------- MODULE CommandFeed -----------------------------
(***************************************************************************)
(* What a control server promises about the commands of its clients: each  *)
(* value it stores is what one text of one client says, cast to 8 bits;    *)
(* the texts of a client are taken in order and none twice.  A text may be *)
(* lost or refused.                                                        *)
(***************************************************************************)
EXTENDS Effects

CONSTANTS
  Clients,             \* the clients, one connection each
  Texts                \* what a text can say: {n} for a number, {} otherwise

VARIABLES
  sent,                \* what the texts each client has sent say, in order
  handled,             \* how many of them the server is done with
  stored               \* the last store: << client, text, value >>, or << >>

feedVars == << sent, handled, stored >>

FeedInit ==
  /\ sent = [c \in Clients |-> << >>]
  /\ handled = [c \in Clients |-> 0]
  /\ stored = << >>

Send(c) == /\ \E t \in Texts : sent' = [sent EXCEPT ![c] = Append(@, t)]
           /\ UNCHANGED << handled, stored >>

(* The server takes text i, and gives up those before it.                  *)
Advance(c, i) ==
  /\ i \in handled[c] + 1 .. Len(sent[c])
  /\ handled' = [handled EXCEPT ![c] = i]
  /\ UNCHANGED sent

Store(c) == \E i \in 1 .. Len(sent[c]) :
              /\ Advance(c, i)
              /\ \E n \in sent[c][i] : stored' = << c, i, ToInt8(n) >>

Skip(c) == \E i \in 1 .. Len(sent[c]) : Advance(c, i) /\ UNCHANGED stored

FeedNext == \E c \in Clients : Send(c) \/ Store(c) \/ Skip(c)

FeedSpec == FeedInit /\ [][FeedNext]_feedVars
=============================================================================
