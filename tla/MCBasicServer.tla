---------------------------- MODULE MCBasicServer ----------------------------
(***************************************************************************)
(* An instance of BasicServer for TLC: one client types lines of all kinds *)
(* that arrive whole, one client lines of one digit that TCP cuts.         *)
(***************************************************************************)
EXTENDS BasicServerProps

CONSTANTS whole, cut

(* "12", "258" (2 as an int8_t), "x" (no number), "010" (octal 8).         *)
WholeLines == { << 49, 50 >>, << 50, 53, 56 >>, << 120 >>, << 48, 49, 48 >> }

(* "2"                                                                     *)
OneDigit == { << 50 >> }

MCClients == {whole, cut}
MCLines   == (whole :> WholeLines) @@ (cut :> OneDigit)
MCCut     == {cut}
MCMaxLines == (whole :> 2) @@ (cut :> 3)

ASSUME MCLinesFit == LinesFit
=============================================================================
