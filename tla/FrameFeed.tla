------------------------------ MODULE FrameFeed ------------------------------
(***************************************************************************)
(* What the display may show of the frames an effect puts: each frame is   *)
(* shown whole or not at all, in order, and at most once.                  *)
(***************************************************************************)
EXTENDS Integers

VARIABLES
  put,                 \* how many frames have been put
  shown                \* the number of the last frame shown, 0 for none

feedVars == << put, shown >>

FeedInit == put = 0 /\ shown = 0

Put  == put' = put + 1 /\ UNCHANGED shown
Show == shown' \in shown + 1 .. put /\ UNCHANGED put

FeedSpec == FeedInit /\ [][Put \/ Show]_feedVars
=============================================================================
