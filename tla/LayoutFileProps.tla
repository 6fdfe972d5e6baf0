-------------------------- MODULE LayoutFileProps ---------------------------
(***************************************************************************)
(* What the reader of the layout files promises.                           *)
(***************************************************************************)
EXTENDS LayoutFile

(* Every malloc of csv_parser_getRow is large enough for what the loop     *)
(* stores next, for fields and rows of any length: the character, or the   *)
(* NUL that ends the field, and the pointer to the field.                  *)
BuffersInBounds ==
  call = "row" => Len(field) < charsRoom /\ Len(fields) < fieldsRoom

(* Text as a spreadsheet writes it: fields that need it, or all of them,   *)
(* are quoted and their quotes doubled; the last line may or may not end.  *)
Joined(pieces) ==
  LET from[k \in 1 .. Len(pieces) + 1] ==
        IF k > Len(pieces) THEN << >> ELSE pieces[k] \o from[k + 1]
  IN  from                          \* from[k]: the pieces from the k-th on

Twice(c) == IF c = Quote THEN << Quote, Quote >> ELSE << c >>
InQuotes(f) == Joined([k \in 1 .. Len(f) |-> Twice(f[k])])

Styles == [always : BOOLEAN, eol : {<< Newline >>, << Return, Newline >>}, ended : BOOLEAN]
IsQuoted(f, style) == style.always \/ \E k \in DOMAIN f : f[k] \notin Letters
Written(f, style) ==
  IF IsQuoted(f, style) THEN << Quote >> \o (InQuotes(f)[1] \o << Quote >>) ELSE f

Line(row, style) ==
  Joined([j \in 1 .. Len(row) |->
            Written(row[j], style) \o (IF j = Len(row) THEN << >> ELSE << Delimiter >>)])
LineEnd(r, i, style) == IF i = Len(r) /\ ~ style.ended THEN << >> ELSE style.eol
Lines(r, style) ==
  Joined([i \in 1 .. Len(r) |-> Line(r[i], style)[1] \o LineEnd(r, i, style)])
AsText(r, style) == Lines(r, style)[1]

(* Text says nothing of a last row that is one empty field, unless its     *)
(* line ends or it is quoted; nor of a carriage return in a field.         *)
Silent(r, style) == ~ style.always /\ ~ style.ended /\ r[Len(r)] = << << >> >>
Table(r) ==
  /\ r \in Seq(Seq(Seq(Chars \ {Return}))) /\ r # << >>
  /\ \A i \in DOMAIN r : r[i] # << >>

ASSUME WrittenAssumption ==
  \A t \in Texts : t.rows # AnyRows =>
    Table(t.rows) /\ \E style \in Styles : ~ Silent(t.rows, style) /\ t.text = AsText(t.rows, style)

(* What was written as comma-separated text is read back row by row and    *)
(* field by field, whether or not the last line ends and whatever ends the *)
(* lines.                                                                  *)
IsBegin(s, t) == Len(s) <= Len(t) /\ \A i \in DOMAIN s : s[i] = t[i]
RowsRead ==
  file.rows # AnyRows =>
    /\ IsBegin(rows, file.rows)
    /\ call \in {"null", "destroyed"} => rows = file.rows \/ at = 0

(* The elements that a walk of the next links reaches, of the whole list   *)
(* or of what list_delete has left of it.                                  *)
Walk(link, c, n) == [i \in 1 .. n |-> Along(link, c, n)[i - 1]]
Reached == IF phase = "live" THEN Walk(next, head, len) ELSE Walk(next, curr, left)

(* The list keeps its shape through any calls: the walk from the head      *)
(* meets every allocated element once and ends at the tail, each prev link *)
(* is the inverse of a next link, and list_delete walks no freed element.  *)
WellLinked ==
  /\ {Reached[i] : i \in DOMAIN Reached} = allocated
  /\ Cardinality(allocated) = Len(Reached)
  /\ phase = "live" /\ len > 0 =>
       /\ Reached[len] = tail /\ next[tail] = Null /\ prev[head] = Null
       /\ \A i \in 1 .. len - 1 : prev[Reached[i + 1]] = Reached[i]

(* Callers see a sequence that gives every pointer back once.              *)
Items == [i \in DOMAIN Reached |-> value[Reached[i]]]
Pointers == INSTANCE PointerList WITH items <- Items
ImplementsList == Pointers!ListSpec
=============================================================================
