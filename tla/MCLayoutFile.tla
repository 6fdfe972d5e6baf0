---------------------------- MODULE MCLayoutFile ----------------------------
(***************************************************************************)
(* LayoutFile for TLC: every short text, and rows written as text.         *)
(***************************************************************************)
EXTENDS LayoutFileProps, SequencesExt, TLC

(* Every text of up to four characters, except one that ends with a quote: *)
(* if that quote opens a field, the field is ended before its buffer.      *)
LastChar(t) == SelectLastInSeq(t, LAMBDA c : c # Return)
ShortTexts ==
  {[text |-> t, rows |-> AnyRows] :
     t \in {u \in BoundedSeq(Chars, 4) : LastChar(u) = 0 \/ u[LastChar(u)] # Quote}}

(* Rows of up to three fields, written in every style.                     *)
Contents == BoundedSeq((Chars \ {Return}), 2)
Brief == BoundedSeq((Chars \ {Return}), 1)
SomeRows ==
  {<< << f >> >> : f \in Contents} \cup {<< << f, g >> >> : f, g \in Contents}
    \cup {<< << f >>, << g >> >> : f, g \in Contents}
    \cup {<< << f, << >>, g >>, << h >> >> : f, g, h \in Brief}

WrittenTexts ==
  {[text |-> AsText(r, style), rows |-> r] :
      << r, style >> \in {p \in SomeRows \X Styles : ~ Silent(p[1], p[2])}}

MCTexts == ShortTexts \cup WrittenTexts
CellSymmetry == Permutations(Cells)
=============================================================================
