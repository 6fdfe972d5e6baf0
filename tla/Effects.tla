------------------------------- MODULE Effects -------------------------------
(***************************************************************************)
(* The tables of effect_runner.c and the two conversions between what a    *)
(* client types and the 8-bit register the threads share.                  *)
(***************************************************************************)
EXTENDS Integers, Sequences

(* commands[]: the name run for each command number, counted from 0.       *)
CommandNames == << "alltest", "temp_timelapse", "sun", "raverplaid", "lavalamp",
                   "conway", "scroll", "1test", "temp_log", "image" >>
NumCommands == Len(CommandNames)
commands == [c \in 0 .. NumCommands - 1 |-> CommandNames[c + 1]]

EffectNames == {CommandNames[i] : i \in 1 .. NumCommands}

(* cmds[]: the names that init_effect hands to the shell.                  *)
PythonCmds == {"raverplaid", "lavalamp", "conway", "snake"}

(* The effects whose constructor leaves an open data file in effect->obj.  *)
DataFileEffects == {"temp_timelapse", "sun", "temp_log"}

(* The effects that compute one pixel per run, at index frame_no, and go   *)
(* back to pixel 0 when frame_no reaches NUM_PIXELS.                       *)
PixelEffects == {"temp_timelapse", "sun", "temp_log"}

(* The effects that write the whole frame in each run.                     *)
FrameEffects == {"alltest", "scroll", "1test", "image"}

(* The numbers main accepts: it tests shared_cmd > 0 first.                *)
Runnable == 1 .. NumCommands - 1

Int8 == -128 .. 127

(* Mutant: the long goes on as it is.                                      *)
NoCast(n) == n

(* The cast (int8_t) n of a long.                                          *)
ToInt8(n) == ((n + 128) % 256) - 128

(* A client that is gone, and a payload that is not a number, as           *)
(* read_ws_frame returns them: in the same range as the commands.          *)
WsGone    == -1
WsInvalid == -3
=============================================================================
