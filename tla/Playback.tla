------------------------------ MODULE Playback ------------------------------
(***************************************************************************)
(* The effects that draw one pixel a frame from a data file, line by line, *)
(* and start the file again at its end: temp_timelapse of weather.c and    *)
(* sun of sunrise.c.  Nothing ties the file's cursor to frame_no but the   *)
(* file itself.                                                            *)
(***************************************************************************)
EXTENDS Colours, Sequences

CONSTANTS
  NUM_PIXELS,
  NoValue              \* a line that ends before its temperature

ASSUME PlaybackAssumption == NUM_PIXELS \in Nat \ {0}

Pixels == 0 .. NUM_PIXELS - 1
Blank  == [p \in Pixels |-> White]

VARIABLES
  effect,              \* the effect on, or "down"
  file,                \* the file it has open
  cursor,              \* lines of it read
  frame_no,
  clock,               \* sun_state_t.current_time
  pixels,              \* frame->pixels
  display,             \* the last frame put, and for the properties
  shownCursor, shownClock   \* cursor and clock then, 0 before the effect's first

playVars == << effect, file, cursor, frame_no, clock, pixels, display, shownCursor, shownClock >>

AtEnd == cursor = Len(file)

(* Mutant: the lap is one frame too long.                                  *)
WrapsLate == frame_no > NUM_PIXELS

Wraps == frame_no >= NUM_PIXELS
Pos   == IF Wraps THEN 0 ELSE frame_no

(* Mutant: the file is not rewound.                                        *)
CursorStuck == IF AtEnd THEN cursor ELSE cursor + 1

(* fgets; at the end fseek and fgets again.                                *)
CursorAfter == IF ~ AtEnd THEN cursor + 1 ELSE IF file = << >> THEN 0 ELSE 1

(* The first pixel of a lap completes the frame, and it is put.            *)
Puts ==
  IF Wraps
    THEN display' = pixels' /\ shownCursor' = cursor' /\ shownClock' = clock
    ELSE UNCHANGED << display, shownCursor, shownClock >>

-----------------------------------------------------------------------------
(* Mutant: a line is drawn for the pixel that is due, whosever it is.      *)
ColoursUnchecked ==
  IF AtEnd THEN pixels ELSE [pixels EXCEPT ![Pos] = TempColour(file[cursor + 1].val)]

(* The line read at the end of the file, the first, is not looked at.      *)
TimelapseColours ==
  IF ~ AtEnd /\ file[cursor + 1].loc = Pos
    THEN [pixels EXCEPT ![Pos] = TempColour(file[cursor + 1].val)] ELSE pixels

weather_timelapse_run ==
  /\ effect = "temp_timelapse" /\ (~ AtEnd => file[cursor + 1].val # NoValue)
  /\ pixels' = TimelapseColours /\ cursor' = CursorAfter
  /\ Puts
  /\ frame_no' = Pos + 1
  /\ UNCHANGED << effect, file, clock >>

(* strtok gives NULL for a missing temperature, and atof reads it.         *)
TimelapseCrash == effect = "temp_timelapse" /\ ~ AtEnd /\ file[cursor + 1].val = NoValue

sunrise_run ==
  /\ effect = "sun" /\ file # << >>
  /\ LET line == file[CursorAfter] IN
     pixels' = IF line.loc = Pos
                 THEN [pixels EXCEPT ![Pos] =
                         Shades(Brightness(line.sunrise, line.sunset, clock))]
                 ELSE pixels
  /\ cursor' = CursorAfter
  /\ clock' = IF Wraps THEN (clock + 600) % DayLength ELSE clock
  /\ Puts
  /\ frame_no' = Pos + 1
  /\ UNCHANGED << effect, file >>

(* One turn of main's loop with the file open.                             *)
PlayFrame == weather_timelapse_run \/ sunrise_run

(* Mutant: the next effect goes on at the old one's frame_no.              *)
OpenKeepsFrame(e, f) ==
  /\ effect' = e /\ file' = f /\ cursor' = 0 /\ pixels' = Blank
  /\ clock' = 0 /\ shownCursor' = 0 /\ shownClock' = 0
  /\ UNCHANGED << frame_no, display >>

(* get_temp_timelapse_effect and get_sun_effect, after CLEAR_PIXELS.       *)
Open(e, f) ==
  /\ effect' = e /\ file' = f /\ cursor' = 0 /\ frame_no' = 0 /\ pixels' = Blank
  /\ clock' = 0 /\ shownCursor' = 0 /\ shownClock' = 0
  /\ UNCHANGED display

PlayInit ==
  /\ effect = "down" /\ file = << >> /\ cursor = 0 /\ frame_no = 0 /\ clock = 0
  /\ pixels = Blank /\ display = Blank /\ shownCursor = 0 /\ shownClock = 0

-----------------------------------------------------------------------------
(* A file of whole laps, each of which has the pixels in order.            *)
Follows(loc) == IF loc = NUM_PIXELS - 1 THEN 0 ELSE loc + 1
WholeLaps(f) ==
  /\ Len(f) \in Nat \ {0} /\ f[1].loc = 0 /\ f[Len(f)].loc = NUM_PIXELS - 1
  /\ \A i \in 1 .. Len(f) - 1 : f[i + 1].loc = Follows(f[i].loc)

(* With a file of whole laps the cursor and frame_no never get out of step,*)
(* through wraps of either at any number of laps: the line to come is that *)
(* of the pixel to come, and the file ends where a lap does.               *)
Lockstep ==
  effect \in {"temp_timelapse", "sun"} /\ WholeLaps(file) =>
    IF AtEnd THEN Pos = 0 ELSE file[cursor + 1].loc = Pos
=============================================================================
