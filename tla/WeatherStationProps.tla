------------------------ MODULE WeatherStationProps -------------------------
(***************************************************************************)
(* What the weather, the log, its playback and the sun show.               *)
(***************************************************************************)
EXTENDS WeatherStation

(* Types: no colour leaves its bytes, no cursor its file, no clock its day.*)
TypeOK ==
  /\ effect \in Switchable \cup {"scroll", "down"}
  /\ cursor \in 0 .. Len(file) /\ frame_no \in Nat
  /\ effect \notin {"temp", "windspeed"} => frame_no \in 0 .. NUM_PIXELS
  /\ clock \in {600 * i : i \in 0 .. 143}
  /\ pixels \in [Pixels -> Colours] /\ display \in [Pixels -> Colours]
  /\ Len(stdio) < BufferRoom /\ effect # "temp_log" => stdio = << >>

(* The log keeps the lines of each process in the order they were printed, *)
(* none twice and none missing but the last ones of a process that was     *)
(* killed: an exit after a failed connection or a change of the effect     *)
(* loses nothing, though stdio writes in the middle of lines.              *)
Succeeds(x, y) ==
  IF y.process = x.process
    THEN IF x.part = "loc" THEN y.part = "val" /\ y.line = x.line
         ELSE y.part = "loc" /\ y.line = x.line + 1
    ELSE y.process > x.process /\ y.part = "loc" /\ y.line = 1
Complete(p, pieces) ==
  printed[p] > 0 => \E i \in DOMAIN pieces :
    pieces[i].process = p /\ pieces[i].part = "val" /\ pieces[i].line = printed[p]
LogKept ==
  LET all == log \o stdio IN
  /\ \A i \in 1 .. Len(all) - 1 : Succeeds(all[i], all[i + 1])
  /\ \A p \in 1 .. Processes : p \notin killed => Complete(p, all)

(* A pixel shows a colour of a temperature or a windspeed that the service *)
(* gave for its own place, now or, when the log is played, at some time    *)
(* before: not one of another pixel, whatever lines are missing.  The      *)
(* exceptions are a line torn by a kill, and an answer that was empty or   *)
(* had no such number, of which the code draws something all the same.     *)
Paints(p, e, c) ==
  \E m \in measured : m.loc = p /\ c = IF e = "windspeed" THEN WindColour(m.weather.speed)
                                       ELSE TempColour(m.weather.temp)
FromLog == effect = "temp_timelapse" /\ \A i \in DOMAIN file : "torn" \in DOMAIN file[i]
TornFor(p) == \E i \in DOMAIN file : file[i].torn /\ file[i].loc = p
ShownAsMeasured ==
  effect \in ApiEffects \/ FromLog =>
    \A p \in Pixels :
      \/ pixels[p] = White \/ Paints(p, effect, pixels[p])
      \/ p \in doubtful \/ (FromLog /\ TornFor(p))

(* A frame of the time-lapse, when its file has whole laps: each pixel has *)
(* the line of the lap that ends, but the first one, which is a lap ahead, *)
(* and still has its last line after the end of the file.  Line i is shown *)
(* in colours that are within the scale: a warmer pixel is no bluer and no *)
(* less red.                                                               *)
LineShown(p) ==
  LET c == shownCursor IN
  IF c = 1 THEN Len(file) - NUM_PIXELS + 1 + p
  ELSE IF p = 0 THEN c ELSE c - NUM_PIXELS + p
LapShown ==
  effect = "temp_timelapse" /\ WholeLaps(file) /\ shownCursor > 0 =>
    \A p, q \in Pixels :
      LET v == file[LineShown(p)].val
          w == file[LineShown(q)].val
      IN /\ display[p] = TempColour(v)
         /\ v <= w => display[p].r <= display[q].r /\ display[p].b >= display[q].b

(* A frame of the sun shows one moment for the whole world, ten minutes    *)
(* after the frame before: each pixel is as bright as the moment is far    *)
(* from sunrise and sunset, whichever comes first, and dark at night, in   *)
(* places where UTC midnight falls into the day too.                       *)
SinceSunrise(line) == (shownClock - line.sunrise) % DayLength
UntilSunset(line)  == (line.sunset - shownClock) % DayLength
Daylight(line)     == (line.sunset - line.sunrise) % DayLength
Distance(i, j) == IF i > j THEN i - j ELSE j - i
SunShown ==
  effect = "sun" /\ shownCursor > 0 =>
    /\ clock = (shownClock + 600) % DayLength
    /\ \A p \in Pixels :
         LET line  == file[p + 1]
             day   == Daylight(line)
             since == SinceSunrise(line)
             until == UntilSunset(line)
             ideal == IF since > day \/ day = 0 THEN 0
                      ELSE 510 * (IF since < until THEN since ELSE until)
         IN  Distance(display[p].r * day, ideal) <= 2 * day

(* While a file of two laps or more is played, every pixel is drawn again  *)
(* and again: the end of the file holds up none of them.                   *)
TwoLaps == WholeLaps(file) /\ Len(file) >= 2 * NUM_PIXELS
PlaysOn == effect = "temp_timelapse" /\ TwoLaps
Redraws(p) == ~ AtEnd /\ Pos = p /\ file[cursor + 1].loc = p
Redrawn == \A p \in Pixels : <>[]PlaysOn => []<>Redraws(p)

(* What apimanager.c:83 says of get_double_from_json, "0 for success, -1   *)
(* for failure": an attribute that is not in the answer is a failure, and  *)
(* draws nothing.                                                          *)
FailureDrawsNothing ==
  [][FetchWithout => pixels' = pixels]_vars
=============================================================================
