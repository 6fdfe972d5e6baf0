----------------------------- MODULE LinkedList -----------------------------
(***************************************************************************)
(* utils/list.c: a doubly linked list of pointers, its elements cells of   *)
(* the heap.  A call is one step; list_delete one step for each element.   *)
(***************************************************************************)
EXTENDS Integers, FiniteSets, Sequences

CONSTANTS
  Cells,               \* the addresses malloc can give an element
  Values,              \* the pointers a list may hold
  Null

ASSUME ListAssumption == IsFiniteSet(Cells) /\ Null \notin Cells \cup Values

VARIABLES
  allocated,           \* the cells that are elements
  prev, next, value,   \* the fields of each cell
  head, tail, len,     \* list_t
  phase,               \* "live", "deleting" or "deleted"
  curr, left,          \* list_delete: the element to free, and how many
  released,            \* history: the values given to v_free, in order
  result               \* what the last call gave back

heap == << allocated, prev, next, value >>
list == << head, tail, len >>
listVars == << heap, list, phase, curr, left, released, result >>

ListInit ==
  /\ allocated = {}
  /\ prev = [c \in Cells |-> Null] /\ next = prev /\ value = prev
  /\ head = Null /\ tail = Null /\ len = 0
  /\ phase = "live" /\ curr = Null /\ left = 0
  /\ released = << >> /\ result = << >>

-----------------------------------------------------------------------------
(* list_add: into an empty list, or behind the tail.                       *)
ListAdd(v) ==
  /\ phase = "live"
  /\ \E c \in Cells \ allocated :
       /\ allocated' = allocated \cup {c}
       /\ value' = [value EXCEPT ![c] = v]
       /\ prev' = [prev EXCEPT ![c] = IF len = 0 THEN Null ELSE tail]
       /\ next' = IF len = 0 THEN [next EXCEPT ![c] = Null]
                  ELSE [next EXCEPT ![c] = Null, ![tail] = c]
       /\ head' = IF len = 0 THEN c ELSE head
       /\ tail' = c
  /\ len' = len + 1 /\ result' = << >>
  /\ UNCHANGED << phase, curr, left, released >>

(* The n elements from c on, counted from 0: each is the link of the one   *)
(* before it.                                                              *)
Along(link, c, n) ==
  LET at_[i \in 0 .. n - 1] == IF i = 0 THEN c ELSE link[at_[i - 1]] IN at_

(* The element i links behind the head, as list_get_elem walks them.       *)
Elem(i) == Along(next, head, i + 1)[i]

ListGet(i) ==
  /\ phase = "live"
  /\ result' = << IF i < len THEN value[Elem(i)] ELSE Null >>
  /\ UNCHANGED << heap, list, phase, curr, left, released >>

(* list_enum calls back with every value, from the head on.                *)
ListEnum ==
  /\ phase = "live"
  /\ result' = [i \in 1 .. len |-> value[Elem(i - 1)]]
  /\ UNCHANGED << heap, list, phase, curr, left, released >>

(* Mutant: the tail is not moved when the last element goes.               *)
UnlinkKeepsTail(e) ==
  /\ head' = IF prev[e] = Null THEN next[e] ELSE head
  /\ next' = IF prev[e] = Null THEN next ELSE [next EXCEPT ![prev[e]] = next[e]]
  /\ prev' = IF next[e] = Null THEN prev ELSE [prev EXCEPT ![next[e]] = prev[e]]
  /\ tail' = tail

Unlink(e) ==
  /\ IF prev[e] = Null THEN head' = next[e] /\ UNCHANGED next
     ELSE next' = [next EXCEPT ![prev[e]] = next[e]] /\ UNCHANGED head
  /\ IF next[e] = Null THEN tail' = prev[e] /\ UNCHANGED prev
     ELSE prev' = [prev EXCEPT ![next[e]] = prev[e]] /\ UNCHANGED tail

(* list_remove of an index in the list, and list_remove_elem.              *)
ListRemove(i) ==
  /\ phase = "live" /\ i < len
  /\ LET e == Elem(i) IN
     /\ Unlink(e)
     /\ released' = Append(released, value[e])
     /\ allocated' = allocated \ {e}
  /\ len' = len - 1 /\ result' = << >>
  /\ UNCHANGED << value, phase, curr, left >>

(* Mutant: the loop counts down before it looks.                           *)
DeleteButLast ==
  /\ phase = "live" /\ phase' = "deleting"
  /\ curr' = head /\ left' = (IF len = 0 THEN 0 ELSE len - 1) /\ result' = << >>
  /\ UNCHANGED << heap, list, released >>

(* list_delete reads where the next element is before it frees this one.   *)
ListDelete ==
  /\ phase = "live" /\ phase' = "deleting"
  /\ curr' = head /\ left' = len /\ result' = << >>
  /\ UNCHANGED << heap, list, released >>

DeleteElem ==
  /\ phase = "deleting" /\ left > 0
  /\ released' = Append(released, value[curr])
  /\ allocated' = allocated \ {curr}
  /\ curr' = next[curr] /\ left' = left - 1
  /\ UNCHANGED << prev, next, value, list, phase, result >>

FreeList ==
  /\ phase = "deleting" /\ left = 0 /\ phase' = "deleted"
  /\ UNCHANGED << heap, list, curr, left, released, result >>
=============================================================================
