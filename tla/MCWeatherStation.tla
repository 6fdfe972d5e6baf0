-------------------------- MODULE MCWeatherStation --------------------------
(***************************************************************************)
(* WeatherStation for TLC: a disk with an empty archive and no sun file,   *)
(* where the log is written and played; disks with whole laps to play; and *)
(* disks with a sun file for every pair of some sunrises and sunsets.      *)
(***************************************************************************)
EXTENDS WeatherStationProps, TLC

MCWeathers == {[temp |-> 2690, speed |-> 0], [temp |-> 2890, speed |-> 123]}

Loc(i) == (i - 1) % NUM_PIXELS
(* Temperatures from both sides of every bend of the colour scale.         *)
Bends == << 2631, 2730, 3131, 2681, 2781, 2881, 2629, 2680, 2880, 2900, 2630, 2731, 2780 >>
Laps(n, from) ==
  [i \in 1 .. n * NUM_PIXELS |-> [loc |-> Loc(i), val |-> Bends[((i + from) % Len(Bends)) + 1]]]

Hours == {0, 5 * 3600 + 3547, 6 * 3600, 13 * 3600 + 601, 20 * 3600, DayLength - 1}
SunFile(rise, set) ==
  << [loc |-> 0, sunrise |-> rise, sunset |-> set],
     [loc |-> 1, sunrise |-> set, sunset |-> rise] >>

LogDisk == [played |-> << >>, sun |-> MissingFile, fetches |-> 4]
MCDisks ==
  {LogDisk}
    \cup {[played |-> Laps(n, k), sun |-> MissingFile, fetches |-> 0] : n \in 1 .. 3, k \in 0 .. 12}
    \cup {[played |-> MissingFile, sun |-> SunFile(r, s), fetches |-> 0] : r, s \in Hours}
=============================================================================
