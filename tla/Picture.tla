------------------------------ MODULE Picture -------------------------------
(***************************************************************************)
(* From the map to the display: main loads the layout, and an effect that  *)
(* draws whole frames runs on it, until another one takes its place.       *)
(***************************************************************************)
EXTENDS PixelLayout, Scroller

CONSTANTS
  DrawnBy,             \* the effects: "scroll", "image", "1test", "alltest"
  MaxFrames,           \* bound: frames in a run
  MaxSwitches          \* bound: how often the effect is changed

ASSUME PictureAssumption ==
  DrawnBy \subseteq {"scroll", "image", "1test", "alltest"} /\ MaxFrames \in Nat /\ MaxSwitches \in Nat

VARIABLES
  effect,              \* the effect on, "none" before the first
  frame_no,
  pixels,              \* effect_runner->frame
  display,             \* the last frame sent, in the display's numbering
  sentBy,              \* history: the effect and frame_no of that frame
  switches             \* history: effects started

runVars == << effect, frame_no, pixels, display, sentBy, switches >>
pictureVars == << layoutVars, scrollVars, runVars >>

Frame(colour) == [p \in 0 .. NUM_PIXELS - 1 |-> colour]
Nobody == [by |-> "none", frame |-> 0]

Init ==
  /\ LayoutInit /\ ScrollInit
  /\ effect = "none" /\ frame_no = 0 /\ pixels = Frame(White)
  /\ display = Frame(Unknown) /\ sentBy = Nobody /\ switches = 0

LoadLayout == Load /\ UNCHANGED << scrollVars, runVars >>

(* init_effect: the scroller and the image make a grid of their own; the   *)
(* pixels are cleared and the frames counted from 0.                       *)
Start(e) ==
  /\ loading = "done" /\ switches <= MaxSwitches
  /\ effect = "none" => e = "scroll"
  /\ effect' = e /\ frame_no' = 0 /\ pixels' = Frame(White) /\ switches' = switches + 1
  /\ pixel_grid' = AllOf(IF e = "scroll" THEN Purple ELSE White)
  /\ pos' = 0 /\ shifts' = 0
  /\ UNCHANGED << layoutVars, display, sentBy >>

(* One run of the effect, and main's frame_no++.                           *)
Running(e) == effect = e /\ frame_no < MaxFrames
Sends(frame) ==
  /\ pixels' = frame
  /\ display' = pixel_list_organised(frame)
  /\ sentBy' = [by |-> effect, frame |-> frame_no] /\ frame_no' = frame_no + 1
  /\ UNCHANGED << layoutVars, effect, switches >>

scroller_run ==
  /\ Running("scroll")
  /\ Sends(read_grid_to_list(pixels, pixel_grid))
  /\ shift_columns

(* The image is sent as the list is numbered, not as the strips are.       *)
image_run ==
  /\ Running("image")
  /\ pixels' = read_grid_to_list(pixels, pixel_grid) /\ display' = pixels'
  /\ sentBy' = [by |-> effect, frame |-> frame_no] /\ frame_no' = frame_no + 1
  /\ UNCHANGED << layoutVars, scrollVars, effect, switches >>

test1_run ==
  /\ Running("1test")
  /\ Sends([Frame(Grey) EXCEPT ![0] = White]) /\ UNCHANGED scrollVars

(* Bound: no more frames than pixels, as no later one has a pixel to light;*)
(* in the program no command reaches this effect.                          *)
alltest_run ==
  /\ Running("alltest") /\ frame_no < NUM_PIXELS
  /\ Sends([Frame(Grey) EXCEPT ![frame_no] = White]) /\ UNCHANGED scrollVars

Next ==
  \/ LoadLayout \/ scroller_run \/ image_run \/ test1_run \/ alltest_run
  \/ \E e \in DrawnBy : Start(e)
Spec == Init /\ [][Next]_pictureVars
=============================================================================
