----------------------------- MODULE LayoutFile -----------------------------
(***************************************************************************)
(* The loop of init_grid, init_geo and init_strip: rows are taken from a   *)
(* CsvParser until it returns NULL, and init_grid adds one element to the  *)
(* list for each.  What a row means is PixelLayout's.  Afterwards the list *)
(* is used and deleted; list_remove has no caller in the program, and is   *)
(* called here at any time, as list.h offers it.                           *)
(***************************************************************************)
EXTENDS CsvParser, LinkedList

(* There is a pointer for each element that the list can have: Values      *)
(* stands for all pointers, a row's number for what init_grid allocates.   *)
ASSUME RowAssumption == 1 .. Cardinality(Cells) \subseteq Values

fileVars == << csvVars, listVars >>

Init == CsvInit /\ ListInit

RowTaken == len = Len(rows)

NextRow == RowTaken /\ ParserStep /\ UNCHANGED listVars

AddRow ==
  /\ call = "returned" /\ ~ RowTaken
  /\ ListAdd(Len(rows))
  /\ UNCHANGED csvVars

EndLoop == Destroy /\ UNCHANGED listVars

UseList ==
  /\ call = "destroyed"
  /\ \/ \E i \in 0 .. len : ListGet(i) \/ ListRemove(i)
     \/ ListEnum \/ ListDelete \/ DeleteElem \/ FreeList
  /\ UNCHANGED csvVars

Done == phase = "deleted" /\ UNCHANGED fileVars

Next == NextRow \/ AddRow \/ EndLoop \/ UseList \/ Done
Spec == Init /\ [][Next]_fileVars
=============================================================================
