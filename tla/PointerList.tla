---------------------------- MODULE PointerList -----------------------------
(***************************************************************************)
(* What utils/list.c promises its callers: a sequence of pointers that     *)
(* grows at its end, each of them given to v_free once, when it leaves.    *)
(***************************************************************************)
EXTENDS SequencesExt, Integers

CONSTANTS Values, Null

VARIABLES items, phase, released, result

listView == << items, phase, released, result >>

Init == items = << >> /\ phase = "live" /\ released = << >> /\ result = << >>

Add(v) ==
  /\ items' = Append(items, v) /\ result' = << >>
  /\ UNCHANGED << phase, released >>

Get(i) ==
  /\ result' = << IF i < Len(items) THEN items[i + 1] ELSE Null >>
  /\ UNCHANGED << items, phase, released >>

Enum == result' = items /\ UNCHANGED << items, phase, released >>

Remove1(i) ==
  /\ i < Len(items)
  /\ items' = RemoveAt(items, i + 1)
  /\ released' = Append(released, items[i + 1]) /\ result' = << >>
  /\ UNCHANGED phase

Delete ==
  /\ phase' = "deleting" /\ result' = << >>
  /\ UNCHANGED << items, released >>

(* While it is deleted the list gives its pointers back from the front.    *)
Release ==
  /\ phase = "deleting" /\ items # << >>
  /\ items' = Tail(items) /\ released' = Append(released, Head(items))
  /\ UNCHANGED << phase, result >>

Gone ==
  /\ phase = "deleting" /\ items = << >> /\ phase' = "deleted"
  /\ UNCHANGED << items, released, result >>

Call ==
  /\ phase = "live"
  /\ \/ \E v \in Values : Add(v)
     \/ \E i \in 0 .. Len(items) : Get(i) \/ Remove1(i)
     \/ Enum \/ Delete

ListSpec == Init /\ [][Call \/ Release \/ Gone]_listView
=============================================================================
