--------------------------- MODULE MCEffectRunner ---------------------------
(***************************************************************************)
(* Instances of EffectRunner for TLC.  The numbers cover each kind of      *)
(* effect, a number past the table, and a cast that wraps.                 *)
(***************************************************************************)
EXTENDS EffectRunnerProps

(* raverplaid, past the table, and 264 = 8 as an int8_t: temp_log, which   *)
(* draws one pixel a frame, keeps a file open and fetches.                 *)
MainNumbers == {3, 12, 264}

(* The first number demo.sh sends, and one more.                           *)
DemoNumbers == {0, 2}

(* One python program is enough to leave one behind.                       *)
RestartNumbers == {3}
=============================================================================
