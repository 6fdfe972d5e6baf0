------------------------ MODULE WeatherStationProofs ------------------------
(***************************************************************************)
(* The data-driven effects, the log and its playback, for every number of  *)
(* pixels, every file, every size of stdio's buffer and every number of    *)
(* processes, commands and answers: the lockstep of a data file and        *)
(* frame_no, and by it what frames show; what the log keeps, and by it     *)
(* what its playback shows.                                                *)
(***************************************************************************)
EXTENDS WeatherStationProps, SequenceTheorems, WellFoundedInduction, TLAPS

(* Lockstep says where the cursor is only once it is known to be a line of *)
(* the file, and frame_no a number: the inductive invariant adds that.     *)
InFile ==
  /\ frame_no \in Nat
  /\ WholeLaps(file) => cursor \in 0 .. Len(file)
StepInv == InFile /\ Lockstep

(* At the start no effect has a file open.                                 *)
LEMMA StepInvInit == Init => StepInv
  BY DEF Init, PlayInit, StepInv, InFile, Lockstep, WholeLaps

(* An effect that opens a file begins with its first line and pixel 0,     *)
(* whatever was copied to the file.                                        *)
LEMMA OpenInStep == ASSUME NEW e, NEW f, Open(e, f) PROVE StepInv'
  BY PlaybackAssumption DEF Open, StepInv, InFile, Lockstep, WholeLaps, AtEnd, Wraps, Pos

(* A frame takes one line and one pixel.  Within the file the next line is *)
(* that of the next pixel; the last line of the file is that of the last   *)
(* pixel, and the first line is read in place of the end of the file.      *)
LEMMA FrameInStep ==
  ASSUME StepInv, effect \in {"temp_timelapse", "sun"}, cursor' = CursorAfter,
         frame_no' = Pos + 1, UNCHANGED << effect, file >>
  PROVE  StepInv'
<1>1. Pos \in 0 .. NUM_PIXELS - 1
  BY PlaybackAssumption DEF StepInv, InFile, Pos, Wraps
<1>2. frame_no' \in Nat /\ Pos' = Follows(Pos)
  <2>1. Pos' = IF frame_no' >= NUM_PIXELS THEN 0 ELSE frame_no'
    BY DEF Pos, Wraps
  <2> QED
    BY <1>1, <2>1, PlaybackAssumption DEF Follows
<1> SUFFICES ASSUME WholeLaps(file)
             PROVE  /\ cursor' \in 0 .. Len(file)
                    /\ IF cursor' = Len(file) THEN Follows(Pos) = 0
                       ELSE file[cursor' + 1].loc = Follows(Pos)
  <2>1. WholeLaps(file)' <=> WholeLaps(file)
    BY DEF WholeLaps, Follows
  <2> QED
    BY <1>2, <2>1 DEF StepInv, InFile, Lockstep, AtEnd
<1> DEFINE n == Len(file)
<1>3. /\ n \in Nat \ {0} /\ cursor \in 0 .. n
      /\ file[1].loc = 0 /\ file[n].loc = NUM_PIXELS - 1
      /\ \A i \in 1 .. n - 1 : file[i + 1].loc = Follows(file[i].loc)
  BY DEF StepInv, InFile, WholeLaps
<1>4. CASE AtEnd
  <2>1. cursor' = 1 /\ Pos = 0
    BY <1>3, <1>4 DEF CursorAfter, StepInv, Lockstep
  <2>2. n = 1 => Follows(0) = 0
    BY <1>3 DEF Follows
  <2>3. n # 1 => file[1 + 1].loc = Follows(0)
    <3> SUFFICES ASSUME n # 1 PROVE file[1 + 1].loc = Follows(file[1].loc)
      BY <1>3
    <3>1. n \in Nat \ {0}
      BY <1>3
    <3> HIDE DEF n
    <3>2. 1 \in 1 .. n - 1
      BY <3>1
    <3> QED
      BY <1>3, <3>2
  <2> QED
    BY <1>3, <2>1, <2>2, <2>3
<1>5. CASE ~ AtEnd
  <2>1. cursor < n /\ cursor' = cursor + 1 /\ file[cursor'].loc = Pos
    BY <1>3, <1>5 DEF AtEnd, CursorAfter, StepInv, Lockstep
  <2> QED
    BY <1>3, <2>1 DEF Follows
<1> QED
  BY <1>4, <1>5

(* The other effects move frame_no alone, and have no such file.           *)
LEMMA FetchInStep == ASSUME StepInv, Fetch PROVE StepInv'
<1>1. CASE Unreachable
  BY <1>1, OpenInStep DEF Unreachable, Exits, Down
<1>2. CASE Asks /\ Asked
  <2>1. frame_no' \in Nat
    BY <1>2, PlaybackAssumption DEF Asked, StepInv, InFile, Pos, Wraps
  <2> QED
    BY <1>2, <2>1 DEF Asks, Asked, ApiEffects, StepInv, InFile, Lockstep, WholeLaps, Follows
<1> QED
  BY <1>1, <1>2 DEF Fetch, FetchData, FetchText, FetchWithout, FetchCut, FetchReset

(* Nothing but a frame moves the cursor or frame_no while a file is open.  *)
LEMMA StepInvStep == StepInv /\ [Next]_vars => StepInv'
<1> SUFFICES ASSUME StepInv, [Next]_vars PROVE StepInv'
  OBVIOUS
<1>1. CASE UNCHANGED vars \/ CopyLog
  BY <1>1 DEF vars, playVars, CopyLog, StepInv, InFile, Lockstep, WholeLaps, Follows, AtEnd, Wraps, Pos
<1>2. CASE Boot \/ Interrupt \/ Kill \/ Crash
  BY <1>2, OpenInStep DEF Boot, Interrupt, Kill, Crash, Exits, Down
<1>3. ASSUME NEW e \in Switchable, Switch(e) PROVE StepInv'
  BY <1>3, OpenInStep DEF Switch, Down
<1>4. CASE Fetch
  BY <1>4, FetchInStep
<1>5. CASE PlayStep
  BY <1>5, FrameInStep DEF PlayStep, PlayFrame, weather_timelapse_run, sunrise_run
<1> QED
  BY <1>1, <1>2, <1>3, <1>4, <1>5 DEF Next

(* The line that is read is always that of the pixel that is due, however  *)
(* often the file and the frames wrap, when the file has whole laps.       *)
THEOREM AlwaysInStep == FairSpec => []Lockstep
<1>1. StepInv => Lockstep
  BY DEF StepInv
<1> QED
  BY <1>1, StepInvInit, StepInvStep, PTL DEF FairSpec, Spec

-----------------------------------------------------------------------------
(* Colours keep to their bytes, whatever number they are made of.          *)
LEMMA ByteType == ASSUME NEW i \in Int PROVE uint8(i) \in 0 .. 255
  BY DEF uint8

LEMMA TempColourType ==
  ASSUME NEW k \in Int PROVE TempColour(k) \in Colours
<1> DEFINE t == k - 2730
<1>1. t \in Int
  OBVIOUS
<1> HIDE DEF t
<1>2. Red(t) \in Int
  BY <1>1 DEF Red, AtMost
<1>3. Green(t) \in Int
  <2>1. t > 150 \/ t \in -49 .. 150 \/ t \in -99 .. -50 \/ t < -99
    BY <1>1
  <2>2. (t > 150 => Green(t) = AtLeast((85 * (400 - t)) \div 100, 0))
        /\ (t \in -49 .. 150 => Green(t) = 255)
        /\ (t \in -99 .. -50 => Green(t) = (255 * (-t)) \div 100)
        /\ (t < -99 => Green(t) = 0)
    BY <1>1 DEF Green
  <2> QED
    BY <1>1, <2>1, <2>2 DEF AtLeast
<1>4. Blue(t) \in Int
  BY <1>1 DEF Blue, AtLeast
<1>5. TempColour(k) = Colour(uint8(Red(t)), uint8(Green(t)), uint8(Blue(t)))
  BY DEF TempColour, t
<1> QED
  BY <1>2, <1>3, <1>4, <1>5, ByteType DEF Colours, Colour

LEMMA WindColourType ==
  ASSUME NEW s \in Int PROVE WindColour(s) \in Colours
<1> DEFINE rg == AtMost((255 * s) \div 100, 255)
<1>1. rg \in Int
  BY DEF AtMost
<1> HIDE DEF rg
<1>2. uint8(rg) \in 0 .. 255
  BY <1>1, ByteType
<1>3. WindColour(s) = Colour(uint8(rg), uint8(rg), 255)
  BY DEF WindColour, rg
<1> QED
  BY <1>2, <1>3 DEF Colours, Colour

LEMMA LevelType ==
  ASSUME NEW part \in Int, NEW daylight \in Nat \ {0} PROVE Level(part, daylight) \in 0 .. 255
<1> DEFINE set == (510 * part) \div daylight
<1>1. set \in Int
  OBVIOUS
<1> HIDE DEF set
<1>2. Level(part, daylight) = uint8(IF set > 255 THEN 255 - set ELSE set)
  BY DEF Level, set
<1> QED
  BY <1>1, <1>2, ByteType

LEMMA TimeOfDay ==
  ASSUME NEW t \in TimesOfDay PROVE t \in Nat /\ t < DayLength
<1>1. DayLength \in Nat
  BY DEF DayLength
<1> QED
  BY <1>1 DEF TimesOfDay

LEMMA BrightnessType ==
  ASSUME NEW rise \in TimesOfDay, NEW set \in TimesOfDay, NEW now \in Int
  PROVE  Brightness(rise, set, now) \in 0 .. 255
<1> DEFINE d == set - rise
<1>1. /\ rise \in Nat /\ set \in Nat /\ rise < DayLength /\ set < DayLength
      /\ DayLength \in Nat
  BY TimeOfDay DEF DayLength
<1>2. d \in Int /\ set - now \in Int /\ - (rise - now) \in Int
  BY <1>1
<1>3. CASE d = 0
  <2>1. Brightness(rise, set, now) = 0
    BY <1>1, <1>3 DEF Brightness
  <2> QED
    BY <2>1
<1>4. CASE d > 0
  <2>1. Brightness(rise, set, now) =
          IF rise - now < 0 /\ set - now > 0 THEN Level(set - now, d) ELSE 0
    BY <1>1, <1>4 DEF Brightness
  <2>2. d \in Nat \ {0}
    BY <1>2, <1>4
  <2>3. Level(set - now, d) \in 0 .. 255
    BY <1>2, <2>2, LevelType
  <2> QED
    BY <2>1, <2>3
<1>5. CASE d < 0 /\ set - now > 0
  <2>1. Brightness(rise, set, now) = Level(set - now, d + DayLength)
    BY <1>1, <1>5 DEF Brightness
  <2>2. d + DayLength \in Nat \ {0}
    BY <1>1, <1>5
  <2> QED
    BY <1>2, <2>1, <2>2, LevelType
<1>6. CASE d < 0 /\ set - now <= 0
  <2>1. Brightness(rise, set, now) =
          IF rise - now < 0 THEN Level(- (rise - now), d + DayLength) ELSE 0
    BY <1>1, <1>6 DEF Brightness
  <2>2. d + DayLength \in Nat \ {0}
    BY <1>1, <1>6
  <2>3. Level(- (rise - now), d + DayLength) \in 0 .. 255
    BY <1>2, <2>2, LevelType
  <2> QED
    BY <2>1, <2>3
<1> QED
  BY <1>2, <1>3, <1>4, <1>5, <1>6

-----------------------------------------------------------------------------
(* Types.  What an effect has open: the sun file, or what is played, a     *)
(* file from outside or lines read from the log.                           *)
LogLine == [loc : Int, val : Int \cup {NoValue}, torn : BOOLEAN]
PlayedFiles == Seq(ArchiveLine) \cup Seq(LogLine)
FileType(e, f) ==
  IF e = "temp_timelapse" THEN f \in PlayedFiles
  ELSE IF e = "sun" THEN f \in SunFiles ELSE f = << >>
Clocks == {600 * i : i \in 0 .. 143}
Frames == [Pixels -> Colours]
Pieces == [part : {"loc", "val"}, num : Int, process : Nat, line : Nat]
Answers == Weathers \cup {NoAttribute, NoJson}
AllEffects == Switchable \cup {"scroll", "down"}

PlayTypes ==
  /\ effect \in AllEffects /\ FileType(effect, file)
  /\ cursor \in 0 .. Len(file) /\ frame_no \in Nat
  /\ effect \notin {"temp", "windspeed"} => frame_no \in 0 .. NUM_PIXELS
  /\ clock \in Clocks /\ pixels \in Frames /\ display \in Frames
FilesTypes ==
  /\ played = MissingFile \/ played \in PlayedFiles
  /\ sun = MissingFile \/ sun \in SunFiles
LogTypes ==
  /\ log \in Seq(Pieces) /\ stdio \in Seq(Pieces)
  /\ Len(stdio) < BufferRoom /\ (effect # "temp_log" => stdio = << >>)
  /\ printed \in Seq(Nat) /\ (effect # "down" => Processes > 0)
TypeInv == PlayTypes /\ FilesTypes /\ LogTypes /\ buf \in Answers

(* The lines of a file.                                                    *)
LEMMA FileLines ==
  ASSUME NEW e \in AllEffects, NEW f, FileType(e, f)
  PROVE  /\ Len(f) \in Nat
         /\ e = "temp_timelapse" => \A i \in 1 .. Len(f) : f[i].val \in Int \cup {NoValue}
         /\ e = "sun" => /\ Len(f) = NUM_PIXELS
                         /\ \A i \in 1 .. NUM_PIXELS : /\ f[i].loc = i - 1
                                                       /\ f[i].sunrise \in TimesOfDay
                                                       /\ f[i].sunset \in TimesOfDay
<1>1. CASE e = "temp_timelapse"
  <2>1. CASE f \in Seq(ArchiveLine)
    <3>1. \A i \in 1 .. Len(f) : f[i] \in ArchiveLine
      BY <2>1
    <3> QED
      BY <1>1, <2>1, <3>1 DEF ArchiveLine
  <2>2. CASE f \in Seq(LogLine)
    <3>1. \A i \in 1 .. Len(f) : f[i] \in LogLine
      BY <2>2
    <3> QED
      BY <1>1, <2>2, <3>1 DEF LogLine
  <2> QED
    BY <1>1, <2>1, <2>2 DEF FileType, PlayedFiles
<1>2. CASE e = "sun"
  <2> DEFINE L == [loc : Pixels, sunrise : TimesOfDay, sunset : TimesOfDay]
  <2>1. f \in [1 .. NUM_PIXELS -> L] /\ \A p \in Pixels : f[p + 1].loc = p
    BY <1>2 DEF FileType, SunFiles
  <2>2. Len(f) = NUM_PIXELS
    <3> HIDE DEF L
    <3> QED
      BY <2>1, PlaybackAssumption, IsASeq
  <2>3. ASSUME NEW i \in 1 .. NUM_PIXELS PROVE f[i].loc = i - 1
    <3>1. i - 1 \in Pixels /\ (i - 1) + 1 = i
      BY PlaybackAssumption DEF Pixels
    <3> QED
      BY <2>1, <3>1
  <2>4. ASSUME NEW i \in 1 .. NUM_PIXELS PROVE f[i].sunrise \in TimesOfDay /\ f[i].sunset \in TimesOfDay
    <3>1. f[i] \in L
      BY <2>1
    <3> QED
      BY <3>1
  <2> QED
    BY <1>2, <2>2, <2>3, <2>4, PlaybackAssumption
<1>3. CASE e \notin {"temp_timelapse", "sun"}
  BY <1>3 DEF FileType
<1> QED
  BY <1>1, <1>2, <1>3

LEMMA BlankType == Blank \in Frames
  BY DEF Blank, Frames, White, Shades, Colour, Colours

LEMMA ClockType ==
  /\ 0 \in Clocks /\ \A c \in Clocks : c \in Int /\ (c + 600) % DayLength \in Clocks
<1>1. 0 \in Clocks
  <2>1. 0 = 600 * 0 /\ 0 \in 0 .. 143
    OBVIOUS
  <2> QED
    BY <2>1, Zenon DEF Clocks
<1>2. ASSUME NEW c \in Clocks PROVE c \in Int /\ (c + 600) % DayLength \in Clocks
  <2>1. PICK i \in 0 .. 143 : c = 600 * i
    BY DEF Clocks
  <2>2. i = 143 => (c + 600) % DayLength = 0
    BY <2>1 DEF DayLength
  <2>3. i # 143 => (c + 600) % DayLength = 600 * (i + 1) /\ i + 1 \in 0 .. 143
    BY <2>1 DEF DayLength
  <2>4. c \in Int
    BY <2>1
  <2> QED
    BY <1>1, <2>2, <2>3, <2>4 DEF Clocks
<1> QED
  BY <1>1, <1>2

(* An effect begins with a blank frame at the start of its file.           *)
LEMMA OpenTypes ==
  ASSUME PlayTypes, NEW e \in AllEffects, NEW f, FileType(e, f), Open(e, f) PROVE PlayTypes'
<1>1. Len(f) \in Nat
  BY FileLines
<1> QED
  BY <1>1, BlankType, ClockType, PlaybackAssumption DEF Open, PlayTypes

LEMMA DownTypes ==
  ASSUME PlayTypes, Down PROVE PlayTypes' /\ effect' = "down"
<1>1. FileType("down", << >>) /\ "down" \in AllEffects
  BY DEF FileType, AllEffects
<1> QED
  BY <1>1, OpenTypes DEF Down, Open

-----------------------------------------------------------------------------
(* The log.  All the pieces printed, written or still in stdio's buffer,   *)
(* are in order; whoever prints next continues the last line's process or  *)
(* comes after it; and the buffer has only pieces of the present process,  *)
(* so a kill loses nobody else's.                                          *)
InOrder(all) ==
  /\ \A i \in 1 .. Len(all) - 1 : Succeeds(all[i], all[i + 1])
  /\ all # << >> => all[1].part = "loc"
UpTo(all, n) == \A i \in 1 .. Len(all) : all[i].process <= n
ToContinue(all, n, k) ==
  IF all # << >> /\ all[Len(all)].process = n
    THEN all[Len(all)].part = "val" /\ all[Len(all)].line = k
    ELSE k = 0
Has(all, p, k) ==
  k > 0 => \E i \in 1 .. Len(all) : all[i].process = p /\ all[i].part = "val" /\ all[i].line = k

(* What a line of the log may say of a place: what an answer said of it,   *)
(* unless one was doubtful there.                                          *)
Known == {x \in Int \X Int : \/ x[1] \in doubtful
                              \/ \E m \in measured : m.loc = x[1] /\ m.weather.temp = x[2]}
Says(all, K) ==
  \A i \in 2 .. Len(all) : all[i].part = "val" => << all[i - 1].num, all[i].num >> \in K

LogInv ==
  /\ InOrder(log \o stdio) /\ UpTo(log \o stdio, Processes)
  /\ \A i \in 1 .. Len(stdio) : stdio[i].process = Processes
  /\ effect # "down" => ToContinue(log \o stdio, Processes, printed[Processes])
  /\ \A p \in 1 .. Processes : p \notin killed => Has(log \o stdio, p, printed[p])
  /\ Says(log \o stdio, Known)

(* What process n has printed when its line k is added.                    *)
WithLine(all, new, l, v, n, k) ==
  new = all \o << [part |-> "loc", num |-> l, process |-> n, line |-> k],
                  [part |-> "val", num |-> v, process |-> n, line |-> k] >>

(* A line more: its two pieces succeed each other and what was there.      *)
LEMMA LineAppended ==
  ASSUME NEW all \in Seq(Pieces), NEW n \in Nat, NEW k \in Nat, NEW l \in Int, NEW v \in Int,
         InOrder(all), UpTo(all, n), ToContinue(all, n, k),
         NEW K, Says(all, K), << l, v >> \in K,
         NEW new, WithLine(all, new, l, v, n, k + 1)
  PROVE  /\ new \in Seq(Pieces) /\ InOrder(new) /\ UpTo(new, n) /\ ToContinue(new, n, k + 1)
         /\ Says(new, K)
         /\ Len(new) = Len(all) + 2 /\ \A i \in 1 .. Len(all) : new[i] = all[i]
         /\ Has(new, n, k + 1)
<1> DEFINE a == [part |-> "loc", num |-> l, process |-> n, line |-> k + 1]
           b == [part |-> "val", num |-> v, process |-> n, line |-> k + 1]
           m == Len(all)
<1>1. a \in Pieces /\ b \in Pieces
  BY DEF Pieces
<1>0. m \in Nat
  OBVIOUS
<1>2. m \in Nat /\ \A i \in 1 .. m : all[i] \in Pieces
  OBVIOUS
<1>3. a.part = "loc" /\ a.process = n /\ a.line = k + 1 /\ a.num = l
      /\ b.part = "val" /\ b.process = n /\ b.line = k + 1 /\ b.num = v
  OBVIOUS
<1> HIDE DEF a, b
<1>4. << a, b >> \in Seq(Pieces) /\ Len(<< a, b >>) = 2
  BY <1>1
<1>5. new = all \o << a, b >>
  BY DEF WithLine, a, b
<1>6. /\ new \in Seq(Pieces) /\ Len(new) = m + 2
      /\ \A i \in 1 .. m + 2 : new[i] = IF i <= m THEN all[i] ELSE << a, b >>[i - m]
  <2> HIDE DEF m
  <2>1. /\ all \o << a, b >> \in Seq(Pieces) /\ Len(all \o << a, b >>) = Len(all) + 2
        /\ \A i \in 1 .. Len(all) + 2 :
             (all \o << a, b >>)[i] = IF i <= Len(all) THEN all[i] ELSE << a, b >>[i - Len(all)]
    BY <1>4, ConcatProperties
  <2> QED
    BY <1>5, <2>1 DEF m
<1> HIDE DEF m
<1>7. /\ \A i \in 1 .. m : new[i] = all[i]
      /\ new[m + 1] = a /\ new[m + 2] = b
  <2>1. \A i \in 1 .. m : new[i] = all[i]
    BY <1>2, <1>6
  <2> DEFINE two == << a, b >>
  <2>3. two[1] = a /\ two[2] = b
    OBVIOUS
  <2>4. \A i \in 1 .. m + 2 : ~ (i <= m) => new[i] = two[i - m]
    BY <1>6
  <2> HIDE DEF two
  <2>5. PICK p \in Int : p = m + 1
    BY <1>0
  <2>6. new[p] = two[1]
    <3>1. p \in 1 .. m + 2 /\ ~ (p <= m) /\ p - m = 1
      BY <1>0, <2>5
    <3> QED
      BY <2>4, <3>1
  <2>7. PICK q \in Int : q = m + 2
    BY <1>0
  <2>8. new[q] = two[2]
    <3>1. q \in 1 .. m + 2 /\ ~ (q <= m) /\ q - m = 2
      BY <1>0, <2>7
    <3> QED
      BY <2>4, <3>1
  <2> QED
    BY <2>1, <2>3, <2>5, <2>6, <2>7, <2>8
<1>8. m # 0 => Succeeds(all[m], a)
  <2> SUFFICES ASSUME m # 0 PROVE Succeeds(all[m], a)
    OBVIOUS
  <2>1. all # << >> /\ m \in 1 .. m /\ all[m] \in Pieces
    BY <1>2 DEF m
  <2>2. all[m].process <= n /\ all[m].process \in Nat /\ all[m].part \in {"loc", "val"}
    BY <2>1 DEF UpTo, Pieces, m
  <2>3. IF all[m].process = n THEN all[m].part = "val" /\ all[m].line = k ELSE k = 0
    BY <2>1 DEF ToContinue, m
  <2> QED
    BY <1>3, <2>2, <2>3 DEF Succeeds
<1>9. Succeeds(a, b)
  BY <1>3 DEF Succeeds
<1>10. InOrder(new)
  <2>0. Len(new) - 1 = m + 1
    BY <1>2, <1>6
  <2>1. ASSUME NEW i \in 1 .. m + 1 PROVE Succeeds(new[i], new[i + 1])
    <3>1. CASE i < m
      <4>1. i \in 1 .. m /\ i + 1 \in 1 .. m /\ i \in 1 .. m - 1
        BY <1>2, <3>1
      <4> QED
        BY <1>7, <4>1 DEF InOrder, m
    <3>2. CASE i = m
      <4>1. m # 0 /\ m \in 1 .. m
        BY <1>2, <3>2
      <4> QED
        BY <1>7, <1>8, <3>2, <4>1
    <3>3. CASE i = m + 1
      <4>1. i + 1 = m + 2
        BY <1>2, <3>3
      <4> QED
        BY <1>7, <1>9, <3>3, <4>1
    <3>4. i < m \/ i = m \/ i = m + 1
      BY <1>2
    <3> QED
      BY <3>1, <3>2, <3>3, <3>4
  <2>2. new[1].part = "loc"
    <3>1. CASE m = 0
      BY <1>3, <1>7, <3>1
    <3>2. CASE m # 0
      <4>1. all # << >> /\ 1 \in 1 .. m
        BY <1>2, <3>2 DEF m
      <4> QED
        BY <1>7, <4>1 DEF InOrder
    <3> QED
      BY <3>1, <3>2
  <2> QED
    BY <2>0, <2>1, <2>2 DEF InOrder
<1>11. UpTo(new, n)
  <2> SUFFICES ASSUME NEW i \in 1 .. m + 2 PROVE new[i].process <= n
    BY <1>6 DEF UpTo
  <2>1. i \in 1 .. m \/ i = m + 1 \/ i = m + 2
    BY <1>2
  <2>2. i \in 1 .. m => all[i].process <= n
    BY DEF UpTo, m
  <2>3. i \in 1 .. m => new[i] = all[i]
    BY <1>7
  <2>4. a.process <= n /\ b.process <= n
    BY <1>3
  <2> QED
    BY <1>7, <2>1, <2>2, <2>3, <2>4
<1>12. ToContinue(new, n, k + 1)
  <2>1. new # << >> /\ new[Len(new)] = b
    BY <1>0, <1>6, <1>7
  <2> QED
    BY <1>3, <2>1 DEF ToContinue
<1>13. Says(new, K)
  <2> SUFFICES ASSUME NEW i \in 2 .. m + 2, new[i].part = "val"
               PROVE  << new[i - 1].num, new[i].num >> \in K
    BY <1>6 DEF Says
  <2>1. CASE i \in 2 .. m
    <3>1. i \in 1 .. m /\ i - 1 \in 1 .. m
      BY <1>2, <2>1
    <3> QED
      BY <1>7, <2>1, <3>1 DEF Says, m
  <2>2. CASE i = m + 1
    BY <1>3, <1>7, <2>2
  <2>3. CASE i = m + 2
    <3>1. i - 1 = m + 1
      BY <1>2, <2>3
    <3> QED
      BY <1>3, <1>7, <2>3, <3>1
  <2>4. i \in 2 .. m \/ i = m + 1 \/ i = m + 2
    BY <1>0
  <2> QED
    BY <2>1, <2>2, <2>3, <2>4
<1>14. Has(new, n, k + 1)
  <2>1. m + 2 \in 1 .. Len(new) /\ new[m + 2] = b
    BY <1>0, <1>6, <1>7
  <2> QED
    BY <1>3, <2>1 DEF Has
<1> QED
  BY <1>6, <1>7, <1>10, <1>11, <1>12, <1>13, <1>14 DEF m

(* A kill keeps the beginning of what was printed.                         *)
LEMMA BeginningKept ==
  ASSUME NEW x \in Seq(Pieces), NEW y \in Seq(Pieces), NEW n, NEW K,
         InOrder(x \o y), UpTo(x \o y, n), Says(x \o y, K)
  PROVE  InOrder(x) /\ UpTo(x, n) /\ Says(x, K)
<1> DEFINE all == x \o y
           m == Len(x)
<1>1. /\ m \in Nat /\ Len(all) \in Nat /\ m <= Len(all) /\ \A i \in 1 .. m : all[i] = x[i]
      /\ x # << >> => m # 0 /\ all # << >>
  <2>1. /\ Len(all) = Len(x) + Len(y) /\ all \in Seq(Pieces)
        /\ \A i \in 1 .. Len(x) + Len(y) : all[i] = IF i <= Len(x) THEN x[i] ELSE y[i - Len(x)]
    BY ConcatProperties
  <2> HIDE DEF all
  <2> QED
    BY <2>1
<1> HIDE DEF all, m
<1>2. UpTo(x, n)
  <2> SUFFICES ASSUME NEW i \in 1 .. m PROVE x[i].process <= n
    BY DEF UpTo, m
  <2>1. i \in 1 .. Len(all)
    BY <1>1
  <2> QED
    BY <1>1, <2>1 DEF UpTo, all
<1>3. Says(x, K)
  <2> SUFFICES ASSUME NEW i \in 2 .. m, x[i].part = "val" PROVE << x[i - 1].num, x[i].num >> \in K
    BY DEF Says, m
  <2>1. i \in 2 .. Len(all) /\ i \in 1 .. m /\ i - 1 \in 1 .. m
    BY <1>1
  <2>2. all[i].part = "val" => << all[i - 1].num, all[i].num >> \in K
    BY <2>1 DEF Says, all
  <2> QED
    BY <1>1, <2>1, <2>2
<1>4. InOrder(x)
  <2>1. ASSUME NEW i \in 1 .. m - 1 PROVE Succeeds(x[i], x[i + 1])
    <3>1. i \in 1 .. Len(all) - 1 /\ i \in 1 .. m /\ i + 1 \in 1 .. m
      BY <1>1
    <3>2. Succeeds(all[i], all[i + 1])
      BY <3>1 DEF InOrder, all
    <3> QED
      BY <1>1, <3>1, <3>2
  <2>2. ASSUME x # << >> PROVE x[1].part = "loc"
    <3>1. 1 \in 1 .. m /\ all # << >>
      BY <1>1, <2>2
    <3>2. all[1].part = "loc"
      BY <3>1 DEF InOrder, all
    <3> QED
      BY <1>1, <3>1, <3>2
  <2> QED
    BY <2>1, <2>2 DEF InOrder, m
<1> QED
  BY <1>2, <1>3, <1>4

(* What is written out and what stays in the buffer are what was printed.  *)
SplitAt(y, n, a, b) == a = SubSeq(y, 1, n) /\ b = SubSeq(y, n + 1, Len(y))
Joined(a, b, y)    == a \o b = y

LEMMA SplitAtRoom ==
  ASSUME NEW y \in Seq(Pieces), NEW n \in 0 .. Len(y),
         NEW a, NEW b, SplitAt(y, n, a, b)
  PROVE  /\ a \in Seq(Pieces) /\ b \in Seq(Pieces) /\ Len(b) = Len(y) - n
         /\ \A i \in 1 .. Len(y) - n : b[i] = y[n + i]
         /\ Joined(a, b, y)
<1>1. /\ a \in Seq(Pieces) /\ Len(a) = n /\ \A i \in 1 .. n : a[i] = y[i]
      /\ b \in Seq(Pieces) /\ Len(b) = Len(y) - n /\ \A i \in 1 .. Len(y) - n : b[i] = y[n + i]
  BY DEF SplitAt
<1>2. Len(y) \in Nat /\ n \in Nat /\ n <= Len(y)
  OBVIOUS
<1>3. a \o b = y
  <2> DEFINE c == a \o b
  <2>1. /\ c \in Seq(Pieces) /\ Len(c) = Len(a) + Len(b)
        /\ \A i \in 1 .. Len(a) + Len(b) : c[i] = IF i <= Len(a) THEN a[i] ELSE b[i - Len(a)]
    BY <1>1, ConcatProperties
  <2> HIDE DEF c
  <2>2. Len(c) = Len(y)
    BY <1>1, <1>2, <2>1
  <2>3. ASSUME NEW i \in 1 .. Len(c) PROVE c[i] = y[i]
    <3>1. CASE i <= n
      <4>1. i \in 1 .. n
        BY <1>2, <3>1
      <4> QED
        BY <1>1, <1>2, <2>1, <2>2, <3>1, <4>1
    <3>2. CASE ~ (i <= n)
      <4>1. i - n \in 1 .. Len(y) - n /\ n + (i - n) = i
        BY <1>2, <2>2, <3>2
      <4> QED
        BY <1>1, <1>2, <2>1, <2>2, <3>2, <4>1
    <3> QED
      BY <3>1, <3>2
  <2>4. c = y
    BY <2>1, <2>2, <2>3, SeqEqual
  <2> QED
    BY <2>4 DEF c
<1> QED
  BY <1>1, <1>3 DEF Joined

-----------------------------------------------------------------------------
(* The log read as lines.                                                  *)
LEMMA SmallestNat ==
  ASSUME NEW S \in SUBSET Nat, S # {}
  PROVE  \E m \in S : \A k \in S : m <= k
<1>1. PICK m \in S : \A k \in S : << k, m >> \notin OpToRel(<, Nat)
  BY WFMin, NatLessThanWellFounded, Zenon
<1>2. \A k \in S : ~ (k < m)
  BY <1>1, Zenon DEF OpToRel
<1>3. m \in Nat /\ \A k \in S : k \in Nat
  BY <1>1
<1>4. \A k \in S : m <= k
  BY <1>2, <1>3
<1> QED
  BY <1>4

Nothing == [done |-> << >>, begun |-> << >>]
Reads(all, n, f) ==
  f = [i \in 0 .. n |-> IF i = 0 THEN Nothing ELSE Take(f[i - 1], all[i])]

(* There is such a function for each beginning of the log: if there were   *)
(* none for some, then there is a smallest of those, and a function for    *)
(* the one before it gives one for it.                                     *)
LEMMA ReadsExists == ASSUME NEW all, NEW n \in Nat PROVE \E f : Reads(all, n, f)
<1> DEFINE bad == {k \in Nat : ~ \E f : Reads(all, k, f)}
<1> SUFFICES ASSUME bad # {} PROVE FALSE
  OBVIOUS
<1>1. bad \in SUBSET Nat
  OBVIOUS
<1>2. PICK m \in bad : \A k \in bad : m <= k
  <2> HIDE DEF bad
  <2> QED
    BY <1>1, SmallestNat
<1>3. m \in Nat /\ ~ \E f : Reads(all, m, f)
  OBVIOUS
<1>4. CASE m = 0
  <2> DEFINE f == [i \in 0 .. 0 |-> Nothing]
  <2>1. Reads(all, 0, f)
    BY DEF Reads
  <2> QED
    BY <1>3, <1>4, <2>1
<1>5. CASE m # 0
  <2>1. m - 1 \in Nat /\ ~ (m <= m - 1)
    BY <1>3, <1>5
  <2>2. m - 1 \notin bad
    <3> HIDE DEF bad
    <3> QED
      BY <1>2, <2>1
  <2>3. PICK g : Reads(all, m - 1, g)
    BY <2>1, <2>2
  <2> DEFINE f == [i \in 0 .. m |-> IF i = m THEN Take(g[m - 1], all[m]) ELSE g[i]]
  <2>4. \A i \in 0 .. m - 1 : g[i] = IF i = 0 THEN Nothing ELSE Take(g[i - 1], all[i])
    BY <2>3 DEF Reads
  <2>5. ASSUME NEW i \in 0 .. m PROVE f[i] = IF i = 0 THEN Nothing ELSE Take(f[i - 1], all[i])
    <3>1. CASE i = m
      <4>1. f[m - 1] = g[m - 1] /\ f[m] = Take(g[m - 1], all[m])
        BY <1>3, <2>1
      <4> QED
        BY <1>5, <3>1, <4>1
    <3>2. CASE i = 0
      BY <1>3, <1>5, <2>1, <2>4, <3>2
    <3>3. CASE i # m /\ i # 0
      <4>1. i \in 0 .. m - 1 /\ i - 1 \in 0 .. m /\ i - 1 # m
        BY <1>3, <3>3
      <4>2. f[i] = g[i] /\ f[i - 1] = g[i - 1]
        BY <3>3, <4>1
      <4> QED
        BY <2>4, <3>3, <4>1, <4>2
    <3> QED
      BY <3>1, <3>2, <3>3
  <2>6. f = [i \in 0 .. m |-> f[i]]
    OBVIOUS
  <2> HIDE DEF f
  <2>7. Reads(all, m, f)
    BY <2>5, <2>6 DEF Reads
  <2> QED
    BY <1>3, <2>7
<1> QED
  BY <1>4, <1>5

(* A line that is not torn says what was printed for its place.            *)
SoundLines(d, K) ==
  d \in Seq(LogLine) /\ \A j \in 1 .. Len(d) : d[j].torn \/ << d[j].loc, d[j].val >> \in K
HalfRead(r, all, i, K) ==
  /\ r \in [done : Seq(LogLine), begun : Seq(Int)]
  /\ SoundLines(r.done, K)
  /\ i # 0 /\ all[i].part = "loc" => r.begun # << >> /\ r.begun[Len(r.begun)] = all[i].num

LEMMA LineMore ==
  ASSUME NEW d, NEW K, SoundLines(d, K), NEW x \in LogLine, x.torn \/ << x.loc, x.val >> \in K
  PROVE  SoundLines(Append(d, x), K)
<1>1. /\ d \in Seq(LogLine) /\ Append(d, x) \in Seq(LogLine) /\ Len(Append(d, x)) = Len(d) + 1
      /\ \A j \in 1 .. Len(d) : Append(d, x)[j] = d[j]
      /\ Append(d, x)[Len(d) + 1] = x
  BY AppendProperties DEF SoundLines
<1> DEFINE e == Append(d, x)
<1> HIDE DEF e
<1> SUFFICES ASSUME NEW j \in 1 .. Len(d) + 1 PROVE e[j].torn \/ << e[j].loc, e[j].val >> \in K
  BY <1>1 DEF SoundLines, e
<1>2. CASE j = Len(d) + 1
  BY <1>1, <1>2 DEF e
<1>3. CASE j \in 1 .. Len(d)
  BY <1>1, <1>3 DEF SoundLines, e
<1>4. Len(d) \in Nat
  BY <1>1
<1> QED
  BY <1>2, <1>3, <1>4

LEMMA PieceRead ==
  ASSUME NEW all \in Seq(Pieces), InOrder(all), NEW K, Says(all, K),
         NEW i \in 1 .. Len(all), NEW r, HalfRead(r, all, i - 1, K)
  PROVE  HalfRead(Take(r, all[i]), all, i, K)
<1> DEFINE t == Take(r, all[i])
<1>1. /\ all[i] \in Pieces /\ r \in [done : Seq(LogLine), begun : Seq(Int)]
      /\ SoundLines(r.done, K) /\ i # 0 /\ i \in Int
  BY DEF HalfRead
<1>2. all[i].part \in {"loc", "val"} /\ all[i].num \in Int
  BY <1>1 DEF Pieces
<1>3. CASE all[i].part = "loc"
  <2>1. t = [r EXCEPT !.begun = Append(@, all[i].num)]
    BY <1>3 DEF Take
  <2>2. r.begun \in Seq(Int) /\ r.done \in Seq(LogLine)
    BY <1>1
  <2> DEFINE b == Append(r.begun, all[i].num)
  <2>3. b \in Seq(Int) /\ b # << >> /\ b[Len(b)] = all[i].num
    BY <1>2, <2>2, AppendProperties
  <2> HIDE DEF b
  <2>4. t = [r EXCEPT !.begun = b]
    BY <2>1 DEF b
  <2> HIDE DEF t
  <2>5. t \in [done : Seq(LogLine), begun : Seq(Int)] /\ t.done = r.done /\ t.begun = b
    BY <1>1, <2>3, <2>4
  <2> QED
    BY <1>1, <2>3, <2>5 DEF HalfRead, t
<1>4. CASE all[i].part = "val"
  <2>1. i # 1
    BY <1>4 DEF InOrder
  <2>2. i \in 2 .. Len(all) /\ i - 1 \in 1 .. Len(all) - 1 /\ i - 1 + 1 = i /\ i - 1 # 0
    BY <2>1
  <2>3. Succeeds(all[i - 1], all[i])
    BY <2>2 DEF InOrder
  <2>4. all[i - 1].part = "loc"
    BY <1>4, <2>3 DEF Succeeds
  <2>5. /\ r.begun \in Seq(Int) /\ r.begun # << >> /\ r.begun[Len(r.begun)] = all[i - 1].num
    BY <1>1, <2>2, <2>4 DEF HalfRead
  <2>6. << all[i - 1].num, all[i].num >> \in K
    BY <1>4, <2>2 DEF Says
  <2> DEFINE b == r.begun
             x == IF Len(b) > 1 THEN Line(<< b[1], 10 * b[2] >>, TRUE)
                  ELSE Line(<< b[1], all[i].num >>, FALSE)
             m == all[i].num
  <2>7. t = [done |-> Append(r.done, x), begun |-> << >>]
    BY <1>4 DEF Take
  <2>8. Len(b) \in Nat /\ Len(b) # 0 /\ \A j \in 1 .. Len(b) : b[j] \in Int
    BY <2>5
  <2>9. x \in LogLine /\ (x.torn \/ << x.loc, x.val >> \in K)
    <3> DEFINE v == b[1]
               w == 10 * b[2]
    <3>1. CASE Len(b) > 1
      <4>1. v \in Int /\ w \in Int
        BY <2>8, <3>1
      <4>2. x = Line(<< v, w >>, TRUE)
        BY <3>1
      <4> HIDE DEF x, v, w
      <4>3. x = [loc |-> v, val |-> w, torn |-> TRUE]
        BY <4>2 DEF Line
      <4> QED
        BY <4>1, <4>3 DEF LogLine
    <3>2. CASE ~ (Len(b) > 1)
      <4>5. PICK k \in Nat : k = Len(b)
        BY <2>8
      <4>6. k # 0 /\ ~ (k > 1)
        BY <2>8, <3>2, <4>5
      <4>7. k = 1
        BY <4>6
      <4>0. Len(b) = 1
        BY <4>5, <4>7
      <4>1. v \in Int /\ v = all[i - 1].num
        BY <2>5, <2>8, <4>0
      <4>2. x = Line(<< v, m >>, FALSE)
        BY <3>2
      <4>4. << v, m >> \in K /\ m \in Int
        BY <1>2, <2>6, <4>1
      <4> HIDE DEF x, v, m
      <4>3. x = [loc |-> v, val |-> m, torn |-> FALSE]
        BY <4>2 DEF Line
      <4> QED
        BY <4>1, <4>3, <4>4 DEF LogLine
    <3> QED
      BY <3>1, <3>2
  <2> HIDE DEF x
  <2>10. SoundLines(Append(r.done, x), K)
    BY <1>1, <2>9, LineMore
  <2> HIDE DEF t
  <2>11. t.done = Append(r.done, x) /\ t.begun = << >> /\ t \in [done : Seq(LogLine), begun : Seq(Int)]
    BY <2>7, <2>10 DEF SoundLines
  <2> QED
    BY <1>4, <2>10, <2>11 DEF HalfRead, t
<1> QED
  BY <1>2, <1>3, <1>4

LEMMA LinesSound ==
  ASSUME NEW all \in Seq(Pieces), InOrder(all), NEW K, Says(all, K)
  PROVE  SoundLines(Lines(all), K)
<1> DEFINE n == Len(all)
           read == CHOOSE f : Reads(all, n, f)
<1>1. n \in Nat
  OBVIOUS
<1>2. Reads(all, n, read)
  <2> HIDE DEF n
  <2>1. \E f : Reads(all, n, f)
    BY <1>1, ReadsExists
  <2> QED
    BY <2>1, Zenon
<1>3. Taken(all) = read[n]
  BY Zenon DEF Taken, Reads, Nothing
<1> HIDE DEF read
<1>4. \A i \in 0 .. n : HalfRead(read[i], all, i, K)
  <2> DEFINE bad == {i \in 0 .. n : ~ HalfRead(read[i], all, i, K)}
  <2> SUFFICES ASSUME bad # {} PROVE FALSE
    OBVIOUS
  <2>1. bad \in SUBSET Nat
    OBVIOUS
  <2>2. PICK m \in bad : \A k \in bad : m <= k
    <3> HIDE DEF bad
    <3> QED
      BY <2>1, SmallestNat
  <2>3. m \in 0 .. n /\ ~ HalfRead(read[m], all, m, K)
    OBVIOUS
  <2>4. read[m] = IF m = 0 THEN Nothing ELSE Take(read[m - 1], all[m])
    BY <1>2, <2>3 DEF Reads
  <2>5. CASE m = 0
    <3>1. HalfRead(Nothing, all, 0, K)
      BY DEF HalfRead, SoundLines, Nothing
    <3> QED
      BY <2>3, <2>4, <2>5, <3>1
  <2>6. CASE m # 0
    <3>1. m - 1 \in 0 .. n /\ ~ (m <= m - 1) /\ m \in 1 .. Len(all)
      BY <1>1, <2>3, <2>6
    <3>2. m - 1 \notin bad
      <4> HIDE DEF bad
      <4> QED
        BY <2>2, <3>1
    <3>3. HalfRead(read[m - 1], all, m - 1, K)
      BY <3>1, <3>2
    <3> HIDE DEF bad
    <3>4. HalfRead(Take(read[m - 1], all[m]), all, m, K)
      BY <3>1, <3>3, PieceRead
    <3> QED
      BY <2>3, <2>4, <2>6, <3>4
  <2> QED
    BY <2>5, <2>6
<1> DEFINE r == read[n]
<1>5. r \in [done : Seq(LogLine), begun : Seq(Int)] /\ SoundLines(r.done, K)
  BY <1>1, <1>4 DEF HalfRead
<1> HIDE DEF r
<1> DEFINE b == r.begun
           x == Line(<< b[1], IF Len(b) = 1 THEN NoValue ELSE 10 * b[2] >>, TRUE)
<1>6. Lines(all) = IF b = << >> THEN r.done ELSE Append(r.done, x)
  BY <1>3 DEF Lines, r
<1>7. ASSUME b # << >> PROVE x \in LogLine /\ x.torn
  <2>1. b \in Seq(Int)
    BY <1>5
  <2> DEFINE v == b[1]
             w == IF Len(b) = 1 THEN NoValue ELSE 10 * b[2]
  <2>2. v \in Int /\ w \in Int \cup {NoValue}
    <3> HIDE DEF b
    <3>1. Len(b) \in Nat /\ Len(b) # 0 /\ \A j \in 1 .. Len(b) : b[j] \in Int
      BY <1>7, <2>1
    <3>2. PICK k \in Nat : k = Len(b)
      BY <3>1
    <3>3. k # 0 /\ 1 \in 1 .. k /\ (k # 1 => 2 \in 1 .. k)
      BY <3>1, <3>2
    <3>4. b[1] \in Int /\ (k # 1 => b[2] \in Int)
      BY <3>1, <3>2, <3>3
    <3>5. k # 1 => 10 * b[2] \in Int
      BY <3>4
    <3> QED
      BY <3>2, <3>4, <3>5
  <2>3. x = Line(<< v, w >>, TRUE)
    OBVIOUS
  <2> HIDE DEF v, w, x
  <2>4. x = [loc |-> v, val |-> w, torn |-> TRUE]
    BY <2>3 DEF Line
  <2> QED
    BY <2>2, <2>4 DEF LogLine
<1> HIDE DEF x
<1> QED
  BY <1>5, <1>6, <1>7, LineMore

-----------------------------------------------------------------------------
(* The types and the log through each action.                              *)
Inv == TypeInv /\ LogInv

LEMMA EmptyConcat ==
  /\ \A s \in Seq(Pieces) : s \o << >> = s
  /\ << >> \in Seq(Pieces) /\ Len(<< >>) = 0 /\ \A i \in 1 .. Len(<< >>) : FALSE
<1>1. ASSUME NEW s \in Seq(Pieces) PROVE s \o << >> = s
  BY <1>1, ConcatEmptySeq
<1> QED
  BY <1>1

LEMMA InvInit == Init => Inv
<1> SUFFICES ASSUME Init PROVE TypeInv /\ LogInv
  BY DEF Inv
<1>1. FileType("down", << >>) /\ "down" \in AllEffects
  BY DEF FileType, AllEffects
<1>2. /\ effect = "down" /\ file = << >> /\ cursor = 0 /\ frame_no = 0 /\ clock = 0
      /\ pixels = Blank /\ display = Blank
  BY DEF Init, PlayInit
<1>3. PlayTypes
  BY <1>1, <1>2, BlankType, ClockType, PlaybackAssumption DEF PlayTypes
<1>4. FilesTypes
  <2>1. PICK d \in Disks : played = d.played /\ sun = d.sun
    BY DEF Init
  <2>2. /\ d.played = MissingFile \/ d.played \in Seq(ArchiveLine)
        /\ d.sun = MissingFile \/ d.sun \in SunFiles
    BY DataAssumption
  <2> QED
    BY <2>1, <2>2 DEF FilesTypes, PlayedFiles
<1>5. log = << >> /\ stdio = << >> /\ printed = << >> /\ buf = NoJson
  BY DEF Init
<1>6. LogTypes
  BY <1>2, <1>5, StationAssumption DEF LogTypes
<1>7. LogInv
  <2>1. log \o stdio = << >>
    BY <1>5, EmptyConcat
  <2>2. Processes = 0
    BY <1>5 DEF Processes
  <2> QED
    BY <1>2, <1>5, <2>1, <2>2, EmptyConcat DEF LogInv, InOrder, UpTo, Says
<1> QED
  BY <1>3, <1>4, <1>5, <1>6, <1>7 DEF TypeInv, Answers

(* What was said stays known.                                              *)
LEMMA SaysMore ==
  ASSUME NEW all, NEW K, NEW L, K \subseteq L, Says(all, K) PROVE Says(all, L)
  BY DEF Says

LEMMA KnownMore ==
  ASSUME measured \subseteq measured', doubtful \subseteq doubtful' PROVE Known \subseteq Known'
  BY DEF Known

LEMMA KnownKept ==
  ASSUME UNCHANGED << measured, doubtful >> PROVE Known' = Known
  BY DEF Known

(* The log is as it was.                                                   *)
LEMMA LogUntouched ==
  ASSUME LogInv, UNCHANGED << log, stdio, printed, killed >>, effect' = effect \/ effect' = "down",
         Known \subseteq Known'
  PROVE  LogInv'
<1>1. Says(log \o stdio, Known')
  BY SaysMore DEF LogInv
<1>2. Processes' = Processes
  BY DEF Processes
<1> QED
  BY <1>1, <1>2 DEF LogInv

(* All that is printed is written.                                         *)
LEMMA FlushKeepsLog ==
  ASSUME TypeInv, LogInv, Flush, UNCHANGED << printed, killed, measured, doubtful >>,
         effect # "down"
  PROVE  /\ LogInv' /\ log' \in Seq(Pieces) /\ stdio' = << >> /\ Len(stdio') < BufferRoom
         /\ Processes' > 0
<1>1. log' = log \o stdio /\ stdio' = << >>
  BY DEF Flush
<1>2. log \in Seq(Pieces) /\ stdio \in Seq(Pieces)
  BY DEF TypeInv, LogTypes
<1>3. log' \in Seq(Pieces) /\ log' \o stdio' = log \o stdio
  BY <1>1, <1>2, EmptyConcat
<1>4. Processes' = Processes /\ Known' = Known
  BY KnownKept DEF Processes
<1>5. Processes > 0
  BY DEF TypeInv, LogTypes
<1>6. LogInv'
  BY <1>1, <1>3, <1>4, EmptyConcat DEF LogInv
<1> QED
  BY <1>1, <1>3, <1>4, <1>5, <1>6, StationAssumption, EmptyConcat

LEMMA ExitsKeeps ==
  ASSUME Inv, Exits, effect # "down",
         UNCHANGED << played, sun, buf, printed, measured, doubtful >>
  PROVE  Inv'
<1>1. PlayTypes' /\ effect' = "down"
  BY DownTypes DEF Exits, Inv, TypeInv
<1>2. LogInv' /\ log' \in Seq(Pieces) /\ stdio' = << >> /\ Len(stdio') < BufferRoom
  BY FlushKeepsLog DEF Exits, Inv
<1>3. FilesTypes' /\ buf' \in Answers /\ printed' \in Seq(Nat)
  BY DEF Inv, TypeInv, FilesTypes, LogTypes
<1>4. LogTypes'
  BY <1>1, <1>2, <1>3, EmptyConcat DEF LogTypes
<1> QED
  BY <1>1, <1>2, <1>3, <1>4 DEF Inv, TypeInv

LEMMA FileOfType ==
  ASSUME FilesTypes, NEW e \in AllEffects, FileOf(e) # MissingFile PROVE FileType(e, FileOf(e))
  BY DEF FilesTypes, FileOf, FileType

LEMMA SwitchKeeps == ASSUME Inv, NEW e \in Switchable, Switch(e) PROVE Inv'
<1>1. effect # "down" /\ Flush /\ UNCHANGED << played, sun, buf, printed, killed, measured, doubtful >>
  BY DEF Switch
<1>2. CASE FileOf(e) = MissingFile
  BY <1>1, <1>2, ExitsKeeps DEF Switch, Exits
<1>3. CASE FileOf(e) # MissingFile
  <2>1. e \in AllEffects /\ Open(e, FileOf(e))
    BY <1>3 DEF Switch, AllEffects
  <2>2. PlayTypes'
    BY <1>3, <2>1, FileOfType, OpenTypes DEF Inv, TypeInv
  <2>3. /\ LogInv' /\ log' \in Seq(Pieces) /\ stdio' = << >> /\ Len(stdio') < BufferRoom
        /\ Processes' > 0
    BY <1>1, FlushKeepsLog DEF Inv
  <2>4. FilesTypes' /\ buf' \in Answers /\ printed' \in Seq(Nat)
    BY <1>1 DEF Inv, TypeInv, FilesTypes, LogTypes
  <2>5. LogTypes'
    BY <2>3, <2>4, EmptyConcat DEF LogTypes
  <2> QED
    BY <2>2, <2>3, <2>4, <2>5 DEF Inv, TypeInv
<1> QED
  BY <1>2, <1>3

(* The next process finds nothing in a buffer, and has printed no line.    *)
LEMMA BootKeeps == ASSUME Inv, Boot PROVE Inv'
<1>1. /\ effect = "down" /\ Open("scroll", << >>) /\ printed' = Append(printed, 0) /\ buf' = NoJson
      /\ UNCHANGED << played, sun, log, stdio, killed, measured, doubtful >>
  BY DEF Boot
<1>2. /\ log \in Seq(Pieces) /\ stdio = << >> /\ printed \in Seq(Nat) /\ Len(stdio) < BufferRoom
  BY <1>1 DEF Inv, TypeInv, LogTypes
<1> DEFINE n == Processes
<1>3. /\ n \in Nat /\ Processes' = n + 1 /\ printed' \in Seq(Nat) /\ printed'[n + 1] = 0
      /\ \A p \in 1 .. n : printed'[p] = printed[p]
  BY <1>1, <1>2, AppendProperties DEF Processes
<1>4. log \o stdio = log /\ log' \o stdio' = log
  BY <1>1, <1>2, EmptyConcat
<1>5. Known' = Known
  BY <1>1, KnownKept
<1> HIDE DEF n
<1>6. /\ InOrder(log) /\ UpTo(log, n) /\ Says(log, Known)
      /\ \A p \in 1 .. n : p \notin killed => Has(log, p, printed[p])
  BY <1>4 DEF Inv, LogInv, n
<1>7. UpTo(log, n + 1) /\ ToContinue(log, n + 1, 0)
  <2>1. ASSUME NEW i \in 1 .. Len(log) PROVE log[i].process <= n + 1 /\ log[i].process # n + 1
    <3>0. log[i] \in Pieces
      BY <1>2
    <3>1. log[i].process \in Nat
      BY <3>0 DEF Pieces
    <3>2. log[i].process <= n
      BY <1>6 DEF UpTo
    <3> QED
      BY <1>3, <3>1, <3>2
  <2>2. log # << >> => Len(log) \in 1 .. Len(log)
    BY <1>2
  <2> QED
    BY <2>1, <2>2 DEF UpTo, ToContinue
<1>8. ASSUME NEW p \in 1 .. n + 1, p \notin killed PROVE Has(log, p, printed'[p])
  <2>1. CASE p \in 1 .. n
    BY <1>3, <1>6, <1>8, <2>1
  <2>2. CASE p = n + 1
    BY <1>3, <2>2 DEF Has
  <2> QED
    BY <1>3, <2>1, <2>2
<1>9. LogInv'
  BY <1>1, <1>2, <1>3, <1>4, <1>5, <1>6, <1>7, <1>8, EmptyConcat DEF LogInv
<1>10. PlayTypes'
  <2>1. FileType("scroll", << >>) /\ "scroll" \in AllEffects
    BY DEF FileType, AllEffects
  <2> QED
    BY <1>1, <2>1, OpenTypes DEF Inv, TypeInv
<1>11. FilesTypes' /\ buf' \in Answers
  BY <1>1 DEF Inv, TypeInv, FilesTypes, Answers
<1>12. LogTypes'
  BY <1>1, <1>2, <1>3, EmptyConcat DEF LogTypes
<1> QED
  BY <1>9, <1>10, <1>11, <1>12 DEF Inv, TypeInv

(* A killed process loses what its buffer has, and that is all its own.    *)
LEMMA KillKeeps ==
  ASSUME Inv, Down, effect # "down", stdio' = << >>, killed' = killed \cup {Processes},
         UNCHANGED << played, sun, buf, log, printed, measured, doubtful >>
  PROVE  Inv'
<1>1. PlayTypes' /\ effect' = "down"
  BY DownTypes DEF Inv, TypeInv
<1>2. log \in Seq(Pieces) /\ stdio \in Seq(Pieces) /\ printed \in Seq(Nat)
  BY DEF Inv, TypeInv, LogTypes
<1>3. log' \o stdio' = log /\ Processes' = Processes /\ Known' = Known
  BY <1>2, EmptyConcat, KnownKept DEF Processes
<1>4. InOrder(log) /\ UpTo(log, Processes) /\ Says(log, Known)
  BY <1>2, BeginningKept DEF Inv, LogInv
<1>5. ASSUME NEW p \in 1 .. Processes, p \notin killed, p # Processes
      PROVE  Has(log, p, printed[p])
  <2> SUFFICES ASSUME printed[p] > 0
               PROVE  \E i \in 1 .. Len(log) :
                        log[i].process = p /\ log[i].part = "val" /\ log[i].line = printed[p]
    BY DEF Has
  <2> DEFINE all == log \o stdio
  <2>1. PICK i \in 1 .. Len(all) :
          all[i].process = p /\ all[i].part = "val" /\ all[i].line = printed[p]
    BY <1>5 DEF Inv, LogInv, Has
  <2>2. /\ Len(all) = Len(log) + Len(stdio) /\ Len(log) \in Nat /\ Len(stdio) \in Nat
        /\ all[i] = IF i <= Len(log) THEN log[i] ELSE stdio[i - Len(log)]
    BY <1>2, ConcatProperties
  <2> HIDE DEF all
  <2>3. ~ (i <= Len(log)) => i - Len(log) \in 1 .. Len(stdio)
    BY <2>2
  <2>4. \A j \in 1 .. Len(stdio) : stdio[j].process = Processes
    BY DEF Inv, LogInv
  <2>5. i <= Len(log)
    BY <1>5, <2>1, <2>2, <2>3, <2>4
  <2>6. i \in 1 .. Len(log)
    BY <2>2, <2>5
  <2> QED
    BY <2>1, <2>2, <2>5, <2>6
<1>6. LogInv'
  BY <1>1, <1>3, <1>4, <1>5, EmptyConcat DEF LogInv
<1>7. FilesTypes' /\ buf' \in Answers
  BY DEF Inv, TypeInv, FilesTypes
<1>8. LogTypes'
  BY <1>1, <1>2, StationAssumption, EmptyConcat DEF LogTypes
<1> QED
  BY <1>1, <1>6, <1>7, <1>8 DEF Inv, TypeInv

(* What is copied to be played is lines, and each that is not torn is true.*)
LEMMA LogIsSound == ASSUME Inv PROVE SoundLines(Lines(log), Known)
<1>1. log \in Seq(Pieces) /\ stdio \in Seq(Pieces)
  BY DEF Inv, TypeInv, LogTypes
<1>2. InOrder(log) /\ Says(log, Known)
  BY <1>1, BeginningKept DEF Inv, LogInv
<1> QED
  BY <1>1, <1>2, LinesSound

LEMMA CopyKeeps == ASSUME Inv, CopyLog PROVE Inv'
<1>1. /\ played' = Lines(log)
      /\ UNCHANGED << playVars, sun, buf, log, stdio, printed, killed, measured, doubtful >>
  BY DEF CopyLog
<1>2. played' \in PlayedFiles
  BY <1>1, LogIsSound DEF SoundLines, PlayedFiles
<1>3. FilesTypes'
  BY <1>1, <1>2 DEF Inv, TypeInv, FilesTypes
<1>4. PlayTypes'
  BY <1>1 DEF Inv, TypeInv, PlayTypes, playVars
<1>5. LogTypes'
  BY <1>1 DEF Inv, TypeInv, LogTypes, playVars, Processes
<1>6. LogInv'
  BY <1>1, KnownKept, LogUntouched DEF Inv, playVars
<1> QED
  BY <1>1, <1>3, <1>4, <1>5, <1>6 DEF Inv, TypeInv

-----------------------------------------------------------------------------
(* An answer.                                                              *)
LEMMA FetchPosType == ASSUME TypeInv PROVE FetchPos \in Pixels
  BY PlaybackAssumption DEF TypeInv, PlayTypes, FetchPos, Pixels, Pos, Wraps

LEMMA AnswerValue ==
  ASSUME NEW answer \in Answers, answer # NoJson
  PROVE  Value(answer) \in Int /\ ValueColour(Value(answer)) \in Colours
<1>1. Value(answer) \in Int
  <2>1. CASE answer = NoAttribute
    BY <2>1 DEF Value
  <2>2. CASE answer # NoAttribute
    <3>1. answer \in [temp : Int, speed : Int]
      BY <2>2, DataAssumption DEF Answers
    <3>2. answer.temp \in Int /\ answer.speed \in Int
      BY <3>1
    <3> QED
      BY <2>2, <3>2 DEF Value
  <2> QED
    BY <2>1, <2>2
<1> DEFINE v == Value(answer)
<1> HIDE DEF v
<1>2. ValueColour(v) \in Colours
  BY <1>1, TempColourType, WindColourType DEF ValueColour, v
<1> QED
  BY <1>1, <1>2 DEF v

AddsLine(l, v) ==
  /\ fprintf(LinePieces(l, v, printed[Processes] + 1))
  /\ printed' = [printed EXCEPT ![Processes] = @ + 1]
Counts(s, n, t) == t = [s EXCEPT ![n] = @ + 1]

LEMMA Counted ==
  ASSUME NEW s \in Seq(Nat), NEW n \in 1 .. Len(s), NEW t, Counts(s, n, t)
  PROVE  /\ t \in Seq(Nat) /\ Len(t) = Len(s) /\ t[n] = s[n] + 1
         /\ \A p \in 1 .. Len(s) : p # n => t[p] = s[p]
  BY DEF Counts

(* A line more of the log, that says what is known of its place.           *)
LEMMA LinePrinted ==
  ASSUME Inv, effect = "temp_log", effect' = effect, NEW l \in Int, NEW v \in Int,
         AddsLine(l, v), killed' = killed,
         Known \subseteq Known', << l, v >> \in Known'
  PROVE  LogInv' /\ LogTypes'
<1> DEFINE n == Processes
           k == printed[n]
           two == LinePieces(l, v, k + 1)
           y == stdio \o two
           all == log \o stdio
           new == log' \o stdio'
<1>1. /\ log \in Seq(Pieces) /\ stdio \in Seq(Pieces) /\ Len(stdio) < BufferRoom
      /\ printed \in Seq(Nat) /\ n > 0
  BY DEF Inv, TypeInv, LogTypes
<1>2. n \in 1 .. Len(printed) /\ n \in Nat /\ k \in Nat
  <2>1. n = Len(printed) /\ Len(printed) \in Nat
    BY <1>1 DEF Processes
  <2>2. n \in 1 .. Len(printed)
    BY <1>1, <2>1
  <2> QED
    BY <1>1, <2>1, <2>2
<1>3. Processes' = n /\ printed' \in Seq(Nat) /\ Len(printed') = Len(printed)
      /\ printed'[n] = k + 1 /\ \A p \in 1 .. n : p # n => printed'[p] = printed[p]
  <2>0. n = Len(printed)
    BY DEF Processes
  <2> HIDE DEF n, k
  <2>1. Counts(printed, n, printed')
    BY DEF AddsLine, Counts, n
  <2>2. /\ printed' \in Seq(Nat) /\ Len(printed') = Len(printed) /\ printed'[n] = k + 1
        /\ \A p \in 1 .. Len(printed) : p # n => printed'[p] = printed[p]
    BY <1>1, <1>2, <2>1, Counted DEF k
  <2> QED
    BY <1>2, <2>0, <2>2 DEF Processes
<1> DEFINE a == [part |-> "loc", num |-> l, process |-> n, line |-> k + 1]
           b == [part |-> "val", num |-> v, process |-> n, line |-> k + 1]
<1>4. two = << a, b >>
  BY DEF LinePieces, Piece
<1>5. a \in Pieces /\ b \in Pieces /\ a.process = n /\ b.process = n
  BY <1>2 DEF Pieces
<1>6. fprintf(two)
  BY DEF AddsLine
<1>7. InOrder(all) /\ UpTo(all, n) /\ ToContinue(all, n, k) /\ Says(all, Known')
  BY SaysMore DEF Inv, LogInv
<1>8. \A p \in 1 .. n : p \notin killed => Has(all, p, printed[p])
  BY DEF Inv, LogInv
<1>9. \A i \in 1 .. Len(stdio) : stdio[i].process = n
  BY DEF Inv, LogInv
<1>0. all \in Seq(Pieces)
  BY <1>1, ConcatProperties
<1> HIDE DEF n, k, two, y
<1> DEFINE m == Len(all)
           plus == all \o << a, b >>
<1>10. /\ plus \in Seq(Pieces) /\ InOrder(plus) /\ UpTo(plus, n) /\ ToContinue(plus, n, k + 1)
       /\ Says(plus, Known') /\ Len(plus) = m + 2 /\ \A i \in 1 .. m : plus[i] = all[i]
       /\ Has(plus, n, k + 1)
  <2>1. WithLine(all, plus, l, v, n, k + 1)
    BY DEF WithLine
  <2> HIDE DEF all, plus
  <2> QED
    BY <1>0, <1>2, <1>7, <2>1, LineAppended
<1> HIDE DEF a, b
<1>11. two \in Seq(Pieces) /\ Len(two) = 2 /\ \A i \in 1 .. 2 : two[i].process = n
  BY <1>4, <1>5
<1>12. y \in Seq(Pieces) /\ Len(y) = Len(stdio) + 2 /\ \A i \in 1 .. Len(y) : y[i].process = n
  <2>1. /\ y \in Seq(Pieces) /\ Len(y) = Len(stdio) + Len(two)
        /\ \A i \in 1 .. Len(stdio) + Len(two) :
             y[i] = IF i <= Len(stdio) THEN stdio[i] ELSE two[i - Len(stdio)]
    BY <1>1, <1>11, ConcatProperties DEF y
  <2>2. ASSUME NEW i \in 1 .. Len(y) PROVE y[i].process = n
    <3>1. CASE i <= Len(stdio)
      <4>1. i \in 1 .. Len(stdio)
        BY <3>1, <2>1, <1>1
      <4> QED
        BY <4>1, <3>1, <2>1, <1>9
    <3>2. CASE ~ (i <= Len(stdio))
      <4>1. i - Len(stdio) \in 1 .. 2
        BY <1>1, <1>11, <2>1, <3>2
      <4> QED
        BY <1>11, <2>1, <3>2, <4>1
    <3> QED
      BY <3>1, <3>2
  <2> QED
    BY <1>11, <2>1, <2>2
<1>13. log \o y = plus
  BY <1>1, <1>4, <1>11, ConcatAssociative DEF y
<1>14. /\ log' \in Seq(Pieces) /\ stdio' \in Seq(Pieces) /\ Len(stdio') < BufferRoom
       /\ new = plus /\ \A i \in 1 .. Len(stdio') : stdio'[i].process = n
  <2>1. CASE Len(y) < BufferRoom
    <3>1. stdio' = y /\ log' = log
      BY <1>6, <2>1 DEF fprintf, y
    <3> QED
      BY <1>1, <1>12, <1>13, <2>1, <3>1
  <2>2. CASE ~ (Len(y) < BufferRoom)
    <3> DEFINE w == SubSeq(y, 1, BufferRoom)
               u == SubSeq(y, BufferRoom + 1, Len(y))
    <3>1. log' = log \o w /\ stdio' = u
      BY <1>6, <2>2 DEF fprintf, y
    <3>2. BufferRoom \in 0 .. Len(y) /\ Len(y) - BufferRoom < BufferRoom
          /\ BufferRoom \in Nat /\ Len(y) \in Nat
      BY <1>1, <1>12, <2>2, StationAssumption
    <3>3. /\ w \in Seq(Pieces) /\ u \in Seq(Pieces) /\ Len(u) = Len(y) - BufferRoom
          /\ \A i \in 1 .. Len(y) - BufferRoom : u[i] = y[BufferRoom + i]
          /\ Joined(w, u, y)
      <4>1. SplitAt(y, BufferRoom, w, u)
        BY DEF SplitAt
      <4> HIDE DEF w, u
      <4> QED
        BY <1>12, <3>2, <4>1, SplitAtRoom
    <3> HIDE DEF w, u
    <3>4. (log \o w) \o u = log \o y
      <4>1. w \in Seq(Pieces) /\ u \in Seq(Pieces) /\ log \in Seq(Pieces)
        BY <1>1, <3>3
      <4>2. (log \o w) \o u = log \o (w \o u)
        BY <4>1, ConcatAssociative
      <4>3. w \o u = y
        BY <3>3, Zenon DEF Joined
      <4> QED
        BY <4>2, <4>3, Zenon
    <3>5. log' \in Seq(Pieces)
      BY <1>1, <3>1, <3>3, ConcatProperties
    <3>6. ASSUME NEW i \in 1 .. Len(u) PROVE u[i].process = n
      <4>1. BufferRoom + i \in 1 .. Len(y)
        BY <3>2, <3>3
      <4> QED
        BY <1>12, <3>3, <4>1
    <3> QED
      BY <1>13, <3>1, <3>2, <3>3, <3>4, <3>5, <3>6
  <2> QED
    BY <2>1, <2>2
<1> HIDE DEF plus, all, new
<1>15. ASSUME NEW p \in 1 .. n, p \notin killed PROVE Has(new, p, printed'[p])
  <2>1. CASE p = n
    BY <1>3, <1>10, <1>14, <2>1
  <2>2. CASE p # n
    <3> SUFFICES ASSUME printed[p] > 0
                 PROVE  \E i \in 1 .. Len(new) :
                          new[i].process = p /\ new[i].part = "val" /\ new[i].line = printed[p]
      BY <1>3, <2>2 DEF Has
    <3>1. PICK i \in 1 .. m : all[i].process = p /\ all[i].part = "val" /\ all[i].line = printed[p]
      BY <1>8, <1>15 DEF Has, all
    <3>2. i \in 1 .. Len(new) /\ new[i] = all[i]
      BY <1>0, <1>10, <1>14, <3>1
    <3> QED
      BY <3>1, <3>2
  <2> QED
    BY <2>1, <2>2
<1>16. LogInv'
  <2>1. InOrder(new) /\ UpTo(new, n) /\ ToContinue(new, n, k + 1) /\ Says(new, Known')
    BY <1>10, <1>14
  <2> QED
    BY <1>3, <1>14, <1>15, <2>1 DEF LogInv, new
<1>17. LogTypes'
  BY <1>1, <1>3, <1>14 DEF LogTypes
<1> QED
  BY <1>16, <1>17

(* An answer from the service or what stands for one.                      *)
LEMMA ReadKeeps ==
  ASSUME Inv, Asks, Asked, PutsEach, NEW answer \in Answers, Read(answer),
         Known \subseteq Known',
         (answer # NoJson /\ effect # "windspeed") => << FetchPos, Value(answer) >> \in Known'
  PROVE  Inv'
<1>1. /\ effect \in ApiEffects /\ UNCHANGED << effect, file, cursor, clock, played, sun, killed >>
      /\ frame_no' = (IF effect = "temp_log" THEN Pos ELSE frame_no) + 1
      /\ display' = IF effect = "temp_log" THEN display ELSE pixels'
      /\ buf' \in Answers
  BY DEF Asks, Asked, PutsEach, Read, Inv, TypeInv
<1>2. FetchPos \in Pixels /\ FetchPos \in Int
  BY FetchPosType DEF Inv, Pixels
<1>3. pixels' \in Frames
  <2>1. CASE answer = NoJson
    BY <2>1 DEF Read, Fails, Inv, TypeInv, PlayTypes
  <2>2. CASE answer # NoJson
    <3> DEFINE c == ValueColour(Value(answer))
    <3>1. c \in Colours
      BY <2>2, AnswerValue
    <3>2. pixels' = [pixels EXCEPT ![FetchPos] = c]
      BY <2>2 DEF Read, Draws
    <3> HIDE DEF c
    <3> QED
      BY <3>1, <3>2 DEF Inv, TypeInv, PlayTypes, Frames
  <2> QED
    BY <2>1, <2>2
<1>4. frame_no' \in Nat /\ (effect = "temp_log" => frame_no' \in 0 .. NUM_PIXELS)
  <2>1. frame_no \in Nat
    BY DEF Inv, TypeInv, PlayTypes
  <2>2. Pos \in 0 .. NUM_PIXELS - 1
    BY <2>1, PlaybackAssumption DEF Pos, Wraps
  <2> QED
    BY <1>1, <2>1, <2>2, PlaybackAssumption
<1>5. PlayTypes'
  <2>1. PlayTypes
    BY DEF Inv, TypeInv
  <2>2. display' \in Frames
    BY <1>1, <1>3, <2>1 DEF PlayTypes
  <2> QED
    BY <1>1, <1>3, <1>4, <2>1, <2>2 DEF PlayTypes, ApiEffects
<1>6. FilesTypes' /\ buf' \in Answers
  BY <1>1 DEF Inv, TypeInv, FilesTypes
<1>7. CASE effect = "temp_log" /\ answer # NoJson
  <2> DEFINE v == Value(answer)
  <2>1. v \in Int
    BY <1>7, AnswerValue
  <2>2. << FetchPos, v >> \in Known'
    BY <1>7
  <2>3. AddsLine(FetchPos, v)
    BY <1>7 DEF Read, Draws, AddsLine
  <2> HIDE DEF v
  <2> QED
    BY <1>1, <1>2, <1>5, <1>6, <1>7, <2>1, <2>2, <2>3, LinePrinted DEF Inv, TypeInv
<1>8. CASE ~ (effect = "temp_log" /\ answer # NoJson)
  <2>1. UNCHANGED << log, stdio, printed >>
    BY <1>8 DEF Read, Draws, Fails
  <2>2. LogInv'
    BY <1>1, <2>1, LogUntouched DEF Inv
  <2>3. LogTypes'
    BY <1>1, <2>1 DEF Inv, TypeInv, LogTypes, Processes
  <2> QED
    BY <1>5, <1>6, <2>2, <2>3 DEF Inv, TypeInv
<1> QED
  BY <1>7, <1>8

(* What an answer said is known, and so is everything where one was        *)
(* doubtful.                                                               *)
LEMMA MeasuredKnown ==
  ASSUME NEW w \in Weathers, FetchPos \in Pixels,
         measured' = measured \cup {[loc |-> FetchPos, weather |-> w]}, effect # "windspeed"
  PROVE  << FetchPos, Value(w) >> \in Known'
<1>1. w # NoAttribute /\ w.temp \in Int
  BY DataAssumption
<1>2. Value(w) = w.temp
  BY <1>1 DEF Value
<1> DEFINE m == [loc |-> FetchPos, weather |-> w]
<1>3. m \in measured' /\ m.loc = FetchPos /\ m.weather.temp = w.temp
  OBVIOUS
<1>4. FetchPos \in Int
  BY DEF Pixels
<1> QED
  BY <1>1, <1>2, <1>3, <1>4 DEF Known

LEMMA DoubtfulKnown ==
  ASSUME FetchPos \in Pixels, doubtful' = doubtful \cup {FetchPos}, NEW v \in Int
  PROVE  << FetchPos, v >> \in Known'
<1>1. FetchPos \in Int
  BY DEF Pixels
<1> QED
  BY <1>1 DEF Known

LEMMA FetchKeeps == ASSUME Inv, Fetch PROVE Inv'
<1>0. FetchPos \in Pixels /\ buf \in Answers /\ NoJson \in Answers /\ NoAttribute \in Answers
      /\ Weathers \subseteq Answers /\ NoJson # NoAttribute
  BY FetchPosType, DataAssumption DEF Inv, TypeInv, Answers
<1>1. CASE FetchData
  <2>1. PICK w \in Weathers : Read(w) /\ measured' = measured \cup {[loc |-> FetchPos, weather |-> w]}
    BY <1>1 DEF FetchData
  <2>2. Asks /\ Asked /\ PutsEach /\ doubtful' = doubtful
    BY <1>1 DEF FetchData
  <2>3. Known \subseteq Known'
    BY <2>1, <2>2, KnownMore
  <2>4. effect # "windspeed" => << FetchPos, Value(w) >> \in Known'
    BY <1>0, <2>1, MeasuredKnown
  <2> QED
    BY <1>0, <2>1, <2>2, <2>3, <2>4, ReadKeeps
<1>2. CASE FetchText
  <2>1. Asks /\ Read(NoJson) /\ Asked /\ PutsEach /\ UNCHANGED << measured, doubtful >>
    BY <1>2 DEF FetchText
  <2>2. Known' = Known
    BY <2>1, KnownKept
  <2> QED
    BY <1>0, <2>1, <2>2, ReadKeeps
<1>3. ASSUME NEW answer \in Answers, Asks, Read(answer), Asked, PutsEach,
             doubtful' = doubtful \cup {FetchPos}, measured' = measured
      PROVE  Inv'
  <2>1. Known \subseteq Known'
    BY <1>3, KnownMore
  <2>2. answer # NoJson => << FetchPos, Value(answer) >> \in Known'
    BY <1>0, <1>3, AnswerValue, DoubtfulKnown
  <2> QED
    BY <1>3, <2>1, <2>2, ReadKeeps
<1>4. CASE FetchWithout
  BY <1>0, <1>3, <1>4 DEF FetchWithout
<1>5. CASE FetchCut
  <2>1. PICK a \in Leftovers : Read(a)
    BY <1>5 DEF FetchCut
  <2>2. a \in Answers
    BY <1>0 DEF Leftovers
  <2> QED
    BY <1>3, <1>5, <2>1, <2>2 DEF FetchCut
<1>6. CASE FetchReset
  <2>1. /\ Asks /\ Asked /\ PutsEach /\ UNCHANGED << pixels, log, stdio, printed, buf, measured, doubtful >>
    BY <1>6 DEF FetchReset, Fails
  <2>2. /\ effect \in ApiEffects /\ UNCHANGED << effect, file, cursor, clock, played, sun, killed >>
        /\ frame_no' = (IF effect = "temp_log" THEN Pos ELSE frame_no) + 1
        /\ display' = IF effect = "temp_log" THEN display ELSE pixels'
    BY <2>1 DEF Asks, Asked, PutsEach
  <2>3. PlayTypes /\ frame_no \in Nat
    BY DEF Inv, TypeInv, PlayTypes
  <2>4. Pos \in 0 .. NUM_PIXELS - 1
    BY <2>3, PlaybackAssumption DEF Pos, Wraps
  <2>5. frame_no' \in Nat /\ (effect = "temp_log" => frame_no' \in 0 .. NUM_PIXELS)
    BY <2>2, <2>3, <2>4, PlaybackAssumption
  <2>6. PlayTypes'
    BY <2>1, <2>2, <2>3, <2>5 DEF PlayTypes, ApiEffects
  <2>7. LogInv'
    BY <2>1, <2>2, KnownKept, LogUntouched DEF Inv
  <2> QED
    BY <2>1, <2>2, <2>6, <2>7 DEF Inv, TypeInv, FilesTypes, LogTypes, Processes
<1>7. CASE Unreachable
  <2>1. effect # "down"
    BY <1>7 DEF Unreachable, Asks, ApiEffects
  <2> QED
    BY <1>7, <2>1, ExitsKeeps DEF Unreachable
<1> QED
  BY <1>1, <1>2, <1>4, <1>5, <1>6, <1>7 DEF Fetch

-----------------------------------------------------------------------------
(* A frame from a file.                                                    *)
LEMMA ShadesType == ASSUME NEW i \in 0 .. 255 PROVE Shades(i) \in Colours
  BY DEF Shades, Colour, Colours

LEMMA CursorMoves ==
  ASSUME PlayTypes
  PROVE  /\ CursorAfter \in 0 .. Len(file) /\ (file # << >> => CursorAfter \in 1 .. Len(file))
         /\ ~ AtEnd => cursor + 1 \in 1 .. Len(file) /\ CursorAfter = cursor + 1
<1>1. Len(file) \in Nat /\ (file # << >> => Len(file) # 0) /\ (file = << >> => Len(file) = 0)
  <2>1. CASE effect = "temp_timelapse"
    BY <2>1 DEF PlayTypes, FileType, PlayedFiles
  <2>2. CASE effect = "sun"
    BY <2>2, FileLines, PlaybackAssumption DEF PlayTypes
  <2>3. CASE effect \notin {"sun", "temp_timelapse"}
    BY <2>3 DEF PlayTypes, FileType
  <2> QED
    BY <2>1, <2>2, <2>3
<1>2. cursor \in 0 .. Len(file)
  BY DEF PlayTypes
<1> QED
  BY <1>1, <1>2 DEF CursorAfter, AtEnd

LEMMA TimelapseFrame ==
  ASSUME PlayTypes, weather_timelapse_run PROVE pixels' \in Frames
<1>1. CASE AtEnd
  BY <1>1 DEF weather_timelapse_run, TimelapseColours, PlayTypes
<1>2. CASE ~ AtEnd
  <2> DEFINE c == TempColour(file[cursor + 1].val)
  <2>1. cursor + 1 \in 1 .. Len(file)
    BY <1>2, CursorMoves
  <2>2. file[cursor + 1].val \in Int \cup {NoValue}
    BY <2>1, FileLines DEF PlayTypes, weather_timelapse_run
  <2>3. c \in Colours
    BY <1>2, <2>2, TempColourType DEF weather_timelapse_run
  <2> HIDE DEF c
  <2>4. pixels' = [pixels EXCEPT ![Pos] = c] \/ pixels' = pixels
    BY DEF weather_timelapse_run, TimelapseColours, c
  <2> QED
    BY <2>3, <2>4 DEF PlayTypes, Frames
<1> QED
  BY <1>1, <1>2

LEMMA SunFrame ==
  ASSUME PlayTypes, sunrise_run PROVE pixels' \in Frames
<1> DEFINE line == file[CursorAfter]
           c == Shades(Brightness(line.sunrise, line.sunset, clock))
<1>1. CursorAfter \in 1 .. Len(file)
  BY CursorMoves DEF sunrise_run
<1>2. line.sunrise \in TimesOfDay /\ line.sunset \in TimesOfDay
  BY <1>1, FileLines DEF PlayTypes, sunrise_run
<1>3. c \in Colours
  <2>1. clock \in Int
    BY ClockType DEF PlayTypes
  <2> QED
    BY <1>2, <2>1, BrightnessType, ShadesType
<1> HIDE DEF c
<1>4. pixels' = [pixels EXCEPT ![Pos] = c] \/ pixels' = pixels
  BY DEF sunrise_run, c
<1> QED
  BY <1>3, <1>4 DEF PlayTypes, Frames

LEMMA PlayKeeps == ASSUME Inv, PlayStep PROVE Inv'
<1>1. UNCHANGED stationVars /\ PlayTypes
  BY DEF PlayStep, Inv, TypeInv
<1>2. /\ effect \in {"temp_timelapse", "sun"} /\ effect' = effect /\ file' = file
      /\ cursor' = CursorAfter /\ frame_no' = Pos + 1 /\ Puts
      /\ clock' = clock \/ clock' = (clock + 600) % DayLength
  BY DEF PlayStep, PlayFrame, weather_timelapse_run, sunrise_run
<1>3. pixels' \in Frames
  BY <1>1, TimelapseFrame, SunFrame DEF PlayStep, PlayFrame
<1>4. display' \in Frames
  BY <1>1, <1>2, <1>3 DEF Puts, PlayTypes
<1>5. clock' \in Clocks
  BY <1>1, <1>2, ClockType DEF PlayTypes
<1>6. frame_no' \in 0 .. NUM_PIXELS
  BY <1>1, <1>2, PlaybackAssumption DEF PlayTypes, Pos, Wraps
<1>7. cursor' \in 0 .. Len(file)
  BY <1>1, <1>2, CursorMoves
<1>8. PlayTypes'
  BY <1>1, <1>2, <1>3, <1>4, <1>5, <1>6, <1>7 DEF PlayTypes
<1>9. UNCHANGED << played, sun, log, stdio, printed, killed, buf, measured, doubtful >>
  BY <1>1 DEF stationVars
<1>10. LogInv'
  BY <1>2, <1>9, KnownKept, LogUntouched DEF Inv
<1> QED
  BY <1>2, <1>8, <1>9, <1>10 DEF Inv, TypeInv, FilesTypes, LogTypes, Processes

LEMMA InvStep == Inv /\ [Next]_vars => Inv'
<1> SUFFICES ASSUME Inv, [Next]_vars PROVE Inv'
  OBVIOUS
<1>1. CASE UNCHANGED vars
  <2>1. UNCHANGED << effect, file, cursor, frame_no, clock, pixels, display, played, sun, log, stdio,
                     printed, killed, buf, measured, doubtful >>
    BY <1>1 DEF vars, playVars, stationVars
  <2>2. LogInv'
    BY <2>1, KnownKept, LogUntouched DEF Inv
  <2> QED
    BY <2>1, <2>2 DEF Inv, TypeInv, PlayTypes, FilesTypes, LogTypes, Processes
<1>2. CASE Boot
  BY <1>2, BootKeeps
<1>3. CASE Interrupt
  BY <1>3, ExitsKeeps DEF Interrupt
<1>4. CASE Kill
  BY <1>4, KillKeeps DEF Kill
<1>5. CASE Crash
  <2>1. effect # "down"
    BY <1>5 DEF Crash, TimelapseCrash
  <2> QED
    BY <1>5, <2>1, KillKeeps DEF Crash
<1>6. CASE CopyLog
  BY <1>6, CopyKeeps
<1>7. CASE Fetch
  BY <1>7, FetchKeeps
<1>8. CASE PlayStep
  BY <1>8, PlayKeeps
<1>9. ASSUME NEW e \in Switchable, Switch(e) PROVE Inv'
  BY <1>9, SwitchKeeps
<1> QED
  BY <1>1, <1>2, <1>3, <1>4, <1>5, <1>6, <1>7, <1>8, <1>9 DEF Next

LEMMA InvAlways == FairSpec => []Inv
  BY InvInit, InvStep, PTL DEF FairSpec, Spec

(* Every colour is a byte's, whatever a temperature, a windspeed or the    *)
(* time of day is; cursors are lines of their files; and stdio's buffer,   *)
(* that only the log uses, never has as much as it writes.                 *)
THEOREM TypeCorrect == FairSpec => []TypeOK
<1>1. Inv => TypeOK
  BY DEF Inv, TypeInv, PlayTypes, LogTypes, AllEffects, Clocks, Frames, TypeOK
<1> QED
  BY <1>1, InvAlways, PTL

(* The log has each process's lines in order, and all of them unless it    *)
(* was killed, for every size of stdio's buffer, though what is written    *)
(* ends within lines.                                                      *)
THEOREM LogIsKept == FairSpec => []LogKept
<1>1. Inv => LogKept
  <2> SUFFICES ASSUME Inv PROVE LogKept
    OBVIOUS
  <2> DEFINE all == log \o stdio
  <2>1. all \in Seq(Pieces)
    BY ConcatProperties DEF Inv, TypeInv, LogTypes
  <2>2. DOMAIN all = 1 .. Len(all)
    BY <2>1
  <2>3. /\ InOrder(all)
        /\ \A p \in 1 .. Processes : p \notin killed => Has(all, p, printed[p])
    BY DEF Inv, LogInv
  <2> HIDE DEF all
  <2>4. ASSUME NEW p \in 1 .. Processes, p \notin killed PROVE Complete(p, all)
    BY <2>2, <2>3, <2>4 DEF Has, Complete
  <2> QED
    BY <2>3, <2>4 DEF LogKept, InOrder, all
<1> QED
  BY <1>1, InvAlways, PTL

-----------------------------------------------------------------------------
(* What is shown is what was measured.  A file has the lines of a log only *)
(* by CopyLog, and those are sound; and what is known stays so.            *)
FromLogSound(f) == f \in Seq(LogLine) => SoundLines(f, Known)
ShowInv ==
  /\ played # MissingFile => FromLogSound(played)
  /\ effect = "temp_timelapse" => FromLogSound(file)
  /\ ShownAsMeasured

LEMMA SoundMore ==
  ASSUME NEW f, NEW K, NEW L, K \subseteq L, SoundLines(f, K) PROVE SoundLines(f, L)
  BY DEF SoundLines

LEMMA NoLines ==
  ASSUME NEW f, f \in Seq(ArchiveLine),
         f \in Seq(LogLine) \/ \A i \in DOMAIN f : "torn" \in DOMAIN f[i]
  PROVE  f = << >>
<1>1. Len(f) \in Nat /\ DOMAIN f = 1 .. Len(f) /\ \A i \in 1 .. Len(f) : f[i] \in ArchiveLine
  OBVIOUS
<1>2. ASSUME NEW x \in ArchiveLine PROVE "torn" \notin DOMAIN x
  BY DEF ArchiveLine
<1>3. ASSUME NEW x \in LogLine PROVE "torn" \in DOMAIN x
  BY DEF LogLine
<1>4. f \in Seq(LogLine) => \A i \in 1 .. Len(f) : f[i] \in LogLine
  OBVIOUS
<1>5. \A i \in 1 .. Len(f) : FALSE
  BY <1>1, <1>2, <1>3, <1>4
<1>6. Len(f) = 0
  BY <1>1, <1>5
<1> QED
  BY <1>6

LEMMA ArchiveSound == ASSUME NEW f, f \in Seq(ArchiveLine) PROVE FromLogSound(f)
  BY NoLines, EmptySeq DEF FromLogSound, SoundLines

LEMMA ShowInit == Init => ShowInv
<1> SUFFICES ASSUME Init PROVE ShowInv
  OBVIOUS
<1>1. effect = "down"
  BY DEF Init, PlayInit
<1>2. played # MissingFile => FromLogSound(played)
  <2>1. PICK d \in Disks : played = d.played
    BY DEF Init
  <2> QED
    BY <2>1, DataAssumption, ArchiveSound
<1> QED
  BY <1>1, <1>2 DEF ShowInv, ShownAsMeasured, ApiEffects, FromLog

LEMMA OpenShows ==
  ASSUME NEW e \in AllEffects, NEW f, Open(e, f), e \notin ApiEffects PROVE ShownAsMeasured'
<1>1. \A p \in Pixels : pixels'[p] = White
  BY DEF Open, Blank
<1> QED
  BY <1>1 DEF ShownAsMeasured

(* Nothing is known less, nothing is drawn and no file is opened.          *)
LEMMA SameShown ==
  ASSUME ShownAsMeasured, UNCHANGED << effect, file, pixels >>,
         measured \subseteq measured', doubtful \subseteq doubtful'
  PROVE  ShownAsMeasured'
<1>1. FromLog' <=> FromLog
  BY DEF FromLog
<1>2. \A p \in Pixels : Paints(p, effect, pixels[p]) => Paints(p, effect, pixels[p])'
  BY DEF Paints
<1>3. \A p \in Pixels : TornFor(p) => TornFor(p)'
  BY DEF TornFor
<1> QED
  BY <1>1, <1>2, <1>3 DEF ShownAsMeasured

LEMMA FetchShows ==
  ASSUME Inv, ShownAsMeasured, Fetch PROVE ShownAsMeasured'
<1>0. FetchPos \in Pixels /\ buf \in Answers
  BY FetchPosType DEF Inv, TypeInv
<1>1. CASE Unreachable
  <2>1. effect' = "down"
    BY <1>1 DEF Unreachable, Exits, Down, Open
  <2> QED
    BY <2>1 DEF ShownAsMeasured, ApiEffects, FromLog
<1>2. CASE Asks /\ Asked /\ Fails /\ measured \subseteq measured' /\ doubtful \subseteq doubtful'
  BY <1>2, SameShown DEF Asked, Fails
<1>3. ASSUME NEW v, Asks, Asked, pixels' = [pixels EXCEPT ![FetchPos] = v],
             measured \subseteq measured', doubtful \subseteq doubtful',
             FetchPos \in doubtful'
             \/ \E m \in measured' : /\ m.loc = FetchPos
                                      /\ v = IF effect = "windspeed" THEN WindColour(m.weather.speed)
                                             ELSE TempColour(m.weather.temp)
      PROVE  ShownAsMeasured'
  <2>1. effect \in ApiEffects /\ effect' = effect /\ ~ FromLog
    BY <1>3 DEF Asks, Asked, ApiEffects, FromLog
  <2>2. pixels \in [Pixels -> Colours]
    BY DEF Inv, TypeInv, PlayTypes, Frames
  <2> SUFFICES ASSUME NEW p \in Pixels
               PROVE  pixels'[p] = White \/ Paints(p, effect, pixels[p])' \/ p \in doubtful'
    BY DEF ShownAsMeasured
  <2>3. CASE p = FetchPos
    <3>1. pixels'[p] = v
      BY <1>0, <1>3, <2>2, <2>3
    <3> QED
      BY <1>3, <2>1, <2>3, <3>1 DEF Paints
  <2>4. CASE p # FetchPos
    <3>1. pixels'[p] = pixels[p]
      BY <1>3, <2>2, <2>4
    <3>2. pixels[p] = White \/ Paints(p, effect, pixels[p]) \/ p \in doubtful
      BY <2>1 DEF ShownAsMeasured
    <3>3. Paints(p, effect, pixels[p]) => Paints(p, effect, pixels[p])'
      <4> DEFINE c == pixels[p]
      <4>1. \A m \in measured : m \in measured'
        BY <1>3
      <4> QED
        BY <2>1, <3>1, <4>1, Zenon DEF Paints
    <3> QED
      BY <1>3, <3>1, <3>2, <3>3
  <2> QED
    BY <2>3, <2>4
<1>4. CASE FetchData
  <2>1. PICK w \in Weathers : Read(w) /\ measured' = measured \cup {[loc |-> FetchPos, weather |-> w]}
    BY <1>4 DEF FetchData
  <2>2. Asks /\ Asked /\ doubtful' = doubtful /\ measured \subseteq measured'
    BY <1>4, <2>1 DEF FetchData
  <2>3. w # NoJson /\ w # NoAttribute
    BY DataAssumption
  <2> DEFINE v == ValueColour(Value(w))
             m == [loc |-> FetchPos, weather |-> w]
  <2>4. pixels' = [pixels EXCEPT ![FetchPos] = v]
    BY <2>1, <2>3 DEF Read, Draws
  <2>5. v = IF effect = "windspeed" THEN WindColour(w.speed) ELSE TempColour(w.temp)
    BY <2>3 DEF Value, ValueColour
  <2> HIDE DEF v
  <2>6. m \in measured' /\ m.loc = FetchPos /\ m.weather = w
    BY <2>1
  <2> HIDE DEF m
  <2> QED
    BY <1>3, <2>2, <2>4, <2>5, <2>6
<1>5. ASSUME NEW answer, Asks, Read(answer), Asked,
             measured' = measured, doubtful' = doubtful \cup {FetchPos}
      PROVE  ShownAsMeasured'
  <2>1. CASE answer = NoJson
    BY <1>2, <1>5, <2>1 DEF Read
  <2>2. CASE answer # NoJson
    <3> DEFINE v == ValueColour(Value(answer))
    <3>1. pixels' = [pixels EXCEPT ![FetchPos] = v]
      BY <1>5, <2>2 DEF Read, Draws
    <3> HIDE DEF v
    <3> QED
      BY <1>3, <1>5, <3>1
  <2> QED
    BY <2>1, <2>2
<1>6. CASE FetchText
  BY <1>2, <1>6 DEF FetchText, Read
<1>7. CASE FetchWithout
  BY <1>5, <1>7 DEF FetchWithout
<1>8. CASE FetchCut
  BY <1>5, <1>8 DEF FetchCut
<1>9. CASE FetchReset
  BY <1>2, <1>9 DEF FetchReset
<1> QED
  BY <1>1, <1>4, <1>6, <1>7, <1>8, <1>9 DEF Fetch

(* A line of the log is drawn for its own place.                           *)
LEMMA TimelapseShows ==
  ASSUME Inv, ShowInv, weather_timelapse_run, UNCHANGED stationVars PROVE ShownAsMeasured'
<1>1. /\ effect = "temp_timelapse" /\ effect' = effect /\ file' = file
      /\ pixels' = TimelapseColours /\ UNCHANGED << measured, doubtful >>
  BY DEF weather_timelapse_run, stationVars
<1>2. CASE pixels' = pixels
  BY <1>1, <1>2, SameShown DEF ShowInv
<1> DEFINE i == cursor + 1
           v == file[i].val
<1>3. CASE pixels' # pixels
  <2>1. ~ AtEnd /\ file[i].loc = Pos /\ pixels' = [pixels EXCEPT ![Pos] = TempColour(v)]
    BY <1>1, <1>3 DEF TimelapseColours
  <2>2. i \in 1 .. Len(file)
    BY <2>1, CursorMoves DEF Inv, TypeInv
  <2> HIDE DEF i, v
  <2> SUFFICES ASSUME FromLog, NEW p \in Pixels
               PROVE  \/ pixels'[p] = White \/ Paints(p, effect, pixels'[p])
                      \/ p \in doubtful \/ TornFor(p)
    <3>1. FromLog' <=> FromLog
      BY <1>1 DEF FromLog
    <3>2. ~ (effect' \in ApiEffects)
      BY <1>1 DEF ApiEffects
    <3>3. \A p \in Pixels : TornFor(p)' <=> TornFor(p)
      BY <1>1 DEF TornFor
    <3>4. \A p \in Pixels : Paints(p, effect, pixels[p])' <=> Paints(p, effect, pixels'[p])
      BY <1>1 DEF Paints
    <3> QED
      BY <1>1, <3>1, <3>2, <3>3, <3>4 DEF ShownAsMeasured
  <2>3. file \in PlayedFiles
    BY <1>1 DEF Inv, TypeInv, PlayTypes, FileType
  <2>4. file \in Seq(LogLine)
    <3>1. CASE file \in Seq(ArchiveLine)
      <4>1. file = << >>
        BY <3>1, NoLines DEF FromLog
      <4> QED
        BY <4>1
    <3> QED
      BY <2>3, <3>1 DEF PlayedFiles
  <2>5. SoundLines(file, Known)
    BY <1>1, <2>4 DEF ShowInv, FromLogSound
  <2>6. file[i].torn \/ << Pos, v >> \in Known
    BY <2>1, <2>2, <2>5 DEF SoundLines, v
  <2>7. CASE p = Pos
    <3>1. pixels'[p] = TempColour(v)
      BY <2>1, <2>7 DEF Inv, TypeInv, PlayTypes, Frames
    <3>2. CASE file[i].torn
      <4>1. i \in DOMAIN file
        BY <2>2, <2>4
      <4> QED
        BY <2>1, <2>7, <3>2, <4>1 DEF TornFor
    <3>3. CASE << Pos, v >> \in Known
      <4>1. Pos \in doubtful \/ \E m \in measured : m.loc = Pos /\ m.weather.temp = v
        BY <3>3 DEF Known
      <4> QED
        BY <1>1, <2>7, <3>1, <4>1 DEF Paints
    <3> QED
      BY <2>6, <3>2, <3>3
  <2>8. CASE p # Pos
    <3>1. pixels'[p] = pixels[p]
      BY <2>1, <2>8 DEF Inv, TypeInv, PlayTypes, Frames
    <3> QED
      BY <3>1 DEF ShowInv, ShownAsMeasured
  <2> QED
    BY <2>7, <2>8
<1> QED
  BY <1>2, <1>3

LEMMA ShowStep == Inv /\ Inv' /\ ShowInv /\ [Next]_vars => ShowInv'
<1> SUFFICES ASSUME Inv, Inv', ShowInv, [Next]_vars PROVE ShowInv'
  OBVIOUS
<1>1. Known \subseteq Known'
  <2>1. measured \subseteq measured' /\ doubtful \subseteq doubtful'
    BY DEF Next, vars, stationVars, Boot, Interrupt, Kill, CopyLog, Fetch, FetchData, FetchText,
           FetchWithout, FetchCut, FetchReset, Unreachable, Crash, PlayStep, Switch
  <2> QED
    BY <2>1, KnownMore
<1>2. ASSUME NEW f, FromLogSound(f) PROVE FromLogSound(f)'
  BY <1>1, <1>2, SoundMore DEF FromLogSound
<1>3. CASE played' = played
  <2>1. played' # MissingFile => FromLogSound(played)'
    BY <1>2, <1>3 DEF ShowInv
  <2>2. CASE UNCHANGED << effect, file, pixels, measured, doubtful >>
    BY <1>2, <2>1, <2>2, SameShown DEF ShowInv
  <2>3. CASE effect' \in {"down", "scroll"}
    BY <2>1, <2>3 DEF ShowInv, ShownAsMeasured, ApiEffects, FromLog
  <2>4. ASSUME NEW e \in Switchable, Switch(e), effect' # "down" PROVE ShowInv'
    <3>1. Open(e, FileOf(e)) /\ FileOf(e) # MissingFile
      BY <2>4 DEF Switch, Down, Open
    <3>2. effect' = e /\ file' = FileOf(e) /\ \A p \in Pixels : pixels'[p] = White
      BY <3>1 DEF Open, Blank
    <3>3. effect' = "temp_timelapse" => FromLogSound(file)'
      BY <1>2, <3>1, <3>2 DEF FileOf, ShowInv
    <3>4. ShownAsMeasured'
      BY <3>2 DEF ShownAsMeasured
    <3> QED
      BY <2>1, <3>3, <3>4 DEF ShowInv
  <2>5. CASE Fetch /\ effect' # "down"
    <3>1. effect' \in ApiEffects
      BY <2>5 DEF Fetch, FetchData, FetchText, FetchWithout, FetchCut, FetchReset, Unreachable,
                  Asks, Asked, Exits, Down, Open
    <3>2. ShownAsMeasured'
      BY <2>5, FetchShows DEF ShowInv
    <3> QED
      BY <2>1, <3>1, <3>2 DEF ShowInv, ApiEffects
  <2>6. CASE PlayStep
    <3>1. CASE weather_timelapse_run
      <4>1. effect' = effect /\ file' = file
        BY <3>1 DEF weather_timelapse_run
      <4>2. ShownAsMeasured'
        BY <2>6, <3>1, TimelapseShows DEF PlayStep
      <4> QED
        BY <1>2, <2>1, <4>1, <4>2 DEF ShowInv
    <3>2. CASE sunrise_run
      <4>1. effect' = "sun"
        BY <3>2 DEF sunrise_run
      <4> QED
        BY <2>1, <4>1 DEF ShowInv, ShownAsMeasured, ApiEffects, FromLog
    <3> QED
      BY <2>6, <3>1, <3>2 DEF PlayStep, PlayFrame
  <2>7. (Boot \/ Interrupt \/ Kill \/ Crash) => effect' \in {"down", "scroll"}
    BY DEF Boot, Interrupt, Kill, Crash, Exits, Down, Open
  <2>8. (UNCHANGED vars \/ CopyLog) => UNCHANGED << effect, file, pixels, measured, doubtful >>
    BY DEF vars, playVars, stationVars, CopyLog
  <2> QED
    BY <2>2, <2>3, <2>4, <2>5, <2>6, <2>7, <2>8 DEF Next
<1>4. CASE CopyLog
  <2>1. played' = Lines(log) /\ UNCHANGED << effect, file, pixels, measured, doubtful >>
    BY <1>4 DEF CopyLog, playVars
  <2>2. SoundLines(Lines(log), Known)
    BY LogIsSound
  <2>3. FromLogSound(played)'
    BY <1>1, <2>1, <2>2, SoundMore DEF FromLogSound
  <2>4. effect' = "temp_timelapse" => FromLogSound(file)'
    BY <1>2, <2>1 DEF ShowInv
  <2>5. ShownAsMeasured'
    BY <2>1, SameShown DEF ShowInv
  <2> QED
    BY <2>3, <2>4, <2>5 DEF ShowInv
<1>5. CopyLog \/ played' = played
  BY DEF Next, vars, stationVars, Boot, Interrupt, Kill, Fetch, FetchData, FetchText,
         FetchWithout, FetchCut, FetchReset, Unreachable, Asked, Crash, PlayStep, Switch
<1> QED
  BY <1>3, <1>4, <1>5

(* A pixel never has the colour of another place's weather: when the log   *)
(* is played, after any number of processes that were killed or ended      *)
(* within a line, it has what was measured for it, or its line was torn.   *)
THEOREM AlwaysAsMeasured == FairSpec => []ShownAsMeasured
<1>1. ShowInv => ShownAsMeasured
  BY DEF ShowInv
<1> QED
  BY <1>1, InvAlways, ShowInit, ShowStep, PTL DEF FairSpec, Spec

-----------------------------------------------------------------------------
(* A frame of the time-lapse.  A line is read for each pixel, so the       *)
(* pixels of the lap that is under way have the last lines; the first one  *)
(* has its line of this lap, or of the last one in the file when the file  *)
(* was just begun again, as the line read then is not drawn.               *)
Drawn(c, i) == file[i].val \in Int /\ c = TempColour(file[i].val)
LapsOn == effect = "temp_timelapse" /\ WholeLaps(file)
LapUnderWay ==
  /\ (cursor = 0 <=> frame_no = 0) /\ frame_no <= cursor
  /\ \A p \in Pixels \ {0} : p < frame_no => Drawn(pixels[p], (cursor - frame_no) + (p + 1))
  /\ frame_no > 0 => \/ Drawn(pixels[0], (cursor - frame_no) + 1)
                     \/ cursor = frame_no /\ Drawn(pixels[0], (Len(file) - NUM_PIXELS) + 1)
LapInv ==
  LapsOn => /\ LapUnderWay
            /\ shownCursor > 0 => \A p \in Pixels : Drawn(display[p], LineShown(p))

(* Warmer is redder and less blue.                                         *)
LEMMA DivMono ==
  /\ \A a, b \in Int : a <= b => a \div 10 <= b \div 10
  /\ \A a, b \in Int : a <= b => a \div 100 <= b \div 100
  OBVIOUS

LEMMA RedRises ==
  ASSUME NEW s \in Int, NEW t \in Int, s <= t
  PROVE  Red(s) \in 0 .. 255 /\ Red(s) <= Red(t)
<1> DEFINE a == (17 * s) \div 10
           b == (17 * t) \div 10
<1>1. a \in Int /\ b \in Int /\ (s > 0 => a >= 0) /\ (t > 0 => b >= 0)
  OBVIOUS
<1>2. a <= b
  BY DivMono
<1>3. Red(s) = (IF s > 0 THEN AtMost(a, 255) ELSE 0) /\ Red(t) = (IF t > 0 THEN AtMost(b, 255) ELSE 0)
  BY DEF Red
<1> HIDE DEF a, b
<1> QED
  BY <1>1, <1>2, <1>3 DEF AtMost

LEMMA BlueFalls ==
  ASSUME NEW s \in Int, NEW t \in Int, s <= t
  PROVE  Blue(s) \in 0 .. 255 /\ Blue(s) >= Blue(t)
<1> DEFINE a == (255 * (50 - s)) \div 100
           b == (255 * (50 - t)) \div 100
<1>1. a \in Int /\ b \in Int /\ (s > -50 => a <= 255) /\ (t > -50 => b <= 255)
  OBVIOUS
<1>2. b <= a
  BY DivMono
<1>3. Blue(s) = (IF s > -50 THEN AtLeast(a, 0) ELSE 255) /\ Blue(t) = (IF t > -50 THEN AtLeast(b, 0) ELSE 255)
  BY DEF Blue
<1> HIDE DEF a, b
<1> QED
  BY <1>1, <1>2, <1>3 DEF AtLeast

LEMMA WarmerIsRedder ==
  ASSUME NEW v \in Int, NEW w \in Int, v <= w
  PROVE  TempColour(v).r <= TempColour(w).r /\ TempColour(v).b >= TempColour(w).b
<1> DEFINE s == v - 2730
           t == w - 2730
<1>1. s \in Int /\ t \in Int /\ s <= t
  OBVIOUS
<1>2. /\ TempColour(v) = Colour(uint8(Red(s)), uint8(Green(s)), uint8(Blue(s)))
      /\ TempColour(w) = Colour(uint8(Red(t)), uint8(Green(t)), uint8(Blue(t)))
  BY DEF TempColour
<1> HIDE DEF s, t
<1>3. /\ TempColour(v).r = uint8(Red(s)) /\ TempColour(v).b = uint8(Blue(s))
      /\ TempColour(w).r = uint8(Red(t)) /\ TempColour(w).b = uint8(Blue(t))
  BY <1>2 DEF Colour
<1>4. Red(s) \in 0 .. 255 /\ Red(t) \in 0 .. 255 /\ Red(s) <= Red(t)
  <2>1. t <= t
    BY <1>1
  <2>2. Red(t) \in 0 .. 255
    BY <1>1, <2>1, RedRises
  <2> QED
    BY <1>1, <2>2, RedRises
<1>5. Blue(s) \in 0 .. 255 /\ Blue(t) \in 0 .. 255 /\ Blue(s) >= Blue(t)
  <2>1. t <= t
    BY <1>1
  <2>2. Blue(t) \in 0 .. 255
    BY <1>1, <2>1, BlueFalls
  <2> QED
    BY <1>1, <2>2, BlueFalls
<1>6. \A i \in 0 .. 255 : uint8(i) = i
  BY DEF uint8
<1> QED
  BY <1>3, <1>4, <1>5, <1>6

LEMMA LapShownHolds == LapInv => LapShown
<1> SUFFICES ASSUME LapInv, LapsOn, shownCursor > 0, NEW p \in Pixels, NEW q \in Pixels
             PROVE  /\ display[p] = TempColour(file[LineShown(p)].val)
                    /\ file[LineShown(p)].val <= file[LineShown(q)].val =>
                         display[p].r <= display[q].r /\ display[p].b >= display[q].b
  BY DEF LapShown, LapsOn
<1> DEFINE v == file[LineShown(p)].val
           w == file[LineShown(q)].val
<1>1. v \in Int /\ w \in Int /\ display[p] = TempColour(v) /\ display[q] = TempColour(w)
  BY DEF LapInv, Drawn
<1> HIDE DEF v, w
<1>2. v <= w => display[p].r <= display[q].r /\ display[p].b >= display[q].b
  BY <1>1, WarmerIsRedder
<1> QED
  BY <1>1, <1>2 DEF v, w

LEMMA OpenLap == ASSUME NEW e, NEW f, Open(e, f) PROVE LapInv'
<1>1. cursor' = 0 /\ frame_no' = 0 /\ shownCursor' = 0
  BY DEF Open
<1> QED
  BY <1>1 DEF LapInv, LapUnderWay, Pixels

LEMMA TimelapseLap ==
  ASSUME Inv, StepInv, LapInv, weather_timelapse_run PROVE LapInv'
<1> SUFFICES ASSUME LapsOn PROVE LapInv'
  <2>1. LapsOn' <=> LapsOn
    BY DEF weather_timelapse_run, LapsOn, WholeLaps, Follows
  <2> QED
    BY <2>1 DEF LapInv
<1> DEFINE k == cursor
           f == frame_no
           n == Len(file)
           N == NUM_PIXELS
<1>1. /\ effect = "temp_timelapse" /\ file' = file /\ effect' = effect /\ N \in Nat \ {0}
      /\ pixels' = TimelapseColours /\ cursor' = CursorAfter /\ frame_no' = Pos + 1 /\ Puts
      /\ ~ AtEnd => file[k + 1].val # NoValue
  BY PlaybackAssumption DEF weather_timelapse_run
<1>2. n \in Nat \ {0} /\ k \in 0 .. n /\ f \in 0 .. N
  BY <1>1 DEF LapsOn, WholeLaps, StepInv, InFile, Inv, TypeInv, PlayTypes
<1>3. pixels \in [Pixels -> Colours]
  BY DEF Inv, TypeInv, PlayTypes, Frames
<1>4. /\ (k = 0 <=> f = 0) /\ f <= k
      /\ \A p \in Pixels \ {0} : p < f => Drawn(pixels[p], (k - f) + (p + 1))
      /\ f > 0 => \/ Drawn(pixels[0], (k - f) + 1)
                  \/ k = f /\ Drawn(pixels[0], (n - N) + 1)
      /\ shownCursor > 0 => \A p \in Pixels : Drawn(display[p], LineShown(p))
  BY DEF LapInv, LapUnderWay
<1>5. IF AtEnd THEN Pos = 0 ELSE file[k + 1].loc = Pos
  BY <1>1 DEF StepInv, Lockstep, LapsOn
<1>6. Pos = IF f = N THEN 0 ELSE f
  BY <1>1, <1>2 DEF Pos, Wraps
<1>7. Pos \in Pixels /\ 0 \in Pixels /\ \A p \in Pixels : p \in 0 .. N - 1
  BY <1>1, <1>2, <1>6 DEF Pixels
<1>8. SUFFICES
        /\ (cursor' = 0 <=> frame_no' = 0) /\ frame_no' <= cursor'
        /\ \A p \in Pixels \ {0} : p < frame_no' => Drawn(pixels'[p], (cursor' - frame_no') + (p + 1))
        /\ frame_no' > 0 => \/ Drawn(pixels'[0], (cursor' - frame_no') + 1)
                            \/ cursor' = frame_no' /\ Drawn(pixels'[0], (n - N) + 1)
        /\ shownCursor' > 0 =>
             \A p \in Pixels : Drawn(display'[p], IF shownCursor' = 1 THEN (n - N) + 1 + p
                                                  ELSE IF p = 0 THEN shownCursor'
                                                  ELSE (shownCursor' - N) + p)
  BY <1>1 DEF LapInv, LapUnderWay, Drawn, LineShown
<1> HIDE DEF k, f, n, N
<1>9. CASE AtEnd
  <2>1. k = n /\ Pos = 0 /\ f = N /\ N <= n
    BY <1>1, <1>2, <1>4, <1>5, <1>6, <1>9 DEF AtEnd, k, n
  <2>2. cursor' = 1 /\ frame_no' = 1 /\ pixels' = pixels
    <3>1. file # << >>
      BY <1>2 DEF n
    <3> QED
      BY <1>1, <1>9, <2>1, <3>1 DEF CursorAfter, TimelapseColours
  <2>3. display' = pixels /\ shownCursor' = 1
    <3>1. Wraps
      BY <1>2, <2>1 DEF Wraps, f, N
    <3> QED
      BY <1>1, <2>2, <3>1 DEF Puts
  <2>4. Drawn(pixels[0], (n - N) + 1)
    <3>1. f > 0 /\ (k - f) + 1 = (n - N) + 1
      BY <1>1, <1>2, <2>1
    <3> QED
      BY <1>4, <3>1
  <2>5. ASSUME NEW p \in Pixels PROVE Drawn(pixels[p], (n - N) + 1 + p)
    <3>1. p \in Int /\ p < f
      BY <1>7, <1>1, <2>1
    <3>2. (n - N) + 1 + p = (k - f) + (p + 1) /\ (n - N) + 1 + 0 = (n - N) + 1
      BY <1>1, <1>2, <2>1, <3>1
    <3> QED
      BY <1>4, <2>4, <3>1, <3>2
  <2>6. ASSUME NEW p \in Pixels \ {0} PROVE ~ (p < 1)
    BY <1>1, <1>7
  <2> QED
    BY <2>2, <2>3, <2>4, <2>5, <2>6
<1>10. CASE ~ AtEnd
  <2> DEFINE c == TempColour(file[k + 1].val)
  <2>1. Drawn(c, k + 1)
    <3>1. k + 1 \in 1 .. Len(file)
      BY <1>2, <1>10 DEF AtEnd, k, n
    <3>2. file[k + 1].val \in Int \cup {NoValue}
      BY <1>1, <3>1, FileLines DEF Inv, TypeInv, PlayTypes
    <3> QED
      BY <1>1, <1>10, <3>2 DEF Drawn
  <2>2. pixels' = [pixels EXCEPT ![Pos] = c]
    BY <1>1, <1>5, <1>10 DEF TimelapseColours, k
  <2> HIDE DEF c
  <2>3. pixels'[Pos] = c /\ \A p \in Pixels : p # Pos => pixels'[p] = pixels[p]
    BY <1>3, <1>7, <2>2
  <2>4. cursor' = k + 1
    BY <1>10 DEF CursorAfter, weather_timelapse_run, k
  <2>5. CASE f = N
    <3>1. Pos = 0 /\ frame_no' = 1
      BY <1>1, <1>6, <2>5
    <3>2. display' = pixels' /\ shownCursor' = k + 1
      <4>1. Wraps
        BY <1>1, <1>2, <2>5 DEF Wraps, f, N
      <4> QED
        BY <1>1, <2>4, <4>1 DEF Puts
    <3>3. N <= k /\ k + 1 # 1 /\ (k + 1) - 1 + 1 = k + 1
      BY <1>1, <1>2, <1>4, <2>5
    <3>4. Drawn(pixels'[0], k + 1)
      BY <2>1, <2>3, <3>1
    <3>5. ASSUME NEW p \in Pixels, p # 0 PROVE Drawn(pixels'[p], ((k + 1) - N) + p)
      <4>1. p \in Int /\ p < f
        BY <1>1, <1>7, <2>5
      <4>2. ((k + 1) - N) + p = (k - f) + (p + 1)
        BY <1>1, <1>2, <2>5, <4>1
      <4>3. pixels'[p] = pixels[p]
        BY <2>3, <3>1, <3>5
      <4> QED
        BY <1>4, <3>5, <4>1, <4>2, <4>3
    <3>6. ASSUME NEW p \in Pixels \ {0} PROVE ~ (p < 1)
      BY <1>1, <1>7
    <3>7. (k + 1 = 0 <=> 1 = 0) /\ 1 <= k + 1
      BY <1>2
    <3> QED
      BY <2>4, <3>1, <3>2, <3>3, <3>4, <3>5, <3>6, <3>7
  <2>6. CASE f # N
    <3>1. Pos = f /\ frame_no' = f + 1
      BY <1>1, <1>6, <2>6
    <3>2. display' = display /\ shownCursor' = shownCursor
      <4>1. ~ Wraps
        BY <1>1, <1>2, <2>6 DEF Wraps, f, N
      <4> QED
        BY <1>1, <4>1 DEF Puts
    <3>3. /\ (k + 1) - (f + 1) = k - f /\ (k - f) + (f + 1) = k + 1
          /\ (k + 1 = 0 <=> f + 1 = 0) /\ f + 1 <= k + 1
      BY <1>2, <1>4
    <3>4. ASSUME NEW p \in Pixels \ {0}, p < f + 1 PROVE Drawn(pixels'[p], (k - f) + (p + 1))
      <4>1. CASE p = f
        BY <2>1, <2>3, <3>1, <3>3, <4>1
      <4>2. CASE p # f
        <5>1. p < f
          BY <1>2, <1>7, <3>4, <4>2
        <5> QED
          BY <1>4, <2>3, <3>1, <4>2, <5>1
      <4> QED
        BY <4>1, <4>2
    <3>5. \/ Drawn(pixels'[0], (k - f) + 1)
          \/ k + 1 = f + 1 /\ Drawn(pixels'[0], (n - N) + 1)
      <4>1. CASE f = 0
        <5>1. k + 1 = (k - f) + 1
          BY <1>2, <4>1
        <5> QED
          BY <2>1, <2>3, <3>1, <4>1, <5>1
      <4>2. CASE f # 0
        <5>1. f > 0
          BY <1>2, <4>2
        <5> QED
          BY <1>4, <1>7, <2>3, <3>1, <4>2, <5>1
      <4> QED
        BY <4>1, <4>2
    <3>6. shownCursor > 0 =>
             \A p \in Pixels : Drawn(display[p], IF shownCursor = 1 THEN (n - N) + 1 + p
                                                  ELSE IF p = 0 THEN shownCursor
                                                  ELSE (shownCursor - N) + p)
      BY <1>4 DEF LineShown, n, N
    <3> QED
      BY <2>4, <3>1, <3>2, <3>3, <3>4, <3>5, <3>6
  <2> QED
    BY <2>5, <2>6
<1> QED
  BY <1>9, <1>10

(* While an effect has a file open nothing but its frames moves what LapInv*)
(* is about.                                                               *)
LEMMA LapStep == Inv /\ StepInv /\ LapInv /\ [Next]_vars => LapInv'
<1> SUFFICES ASSUME Inv, StepInv, LapInv, [Next]_vars PROVE LapInv'
  OBVIOUS
<1>1. CASE UNCHANGED << effect, file, cursor, frame_no, pixels, display, shownCursor >>
  BY <1>1 DEF LapInv, LapUnderWay, LapsOn, WholeLaps, Follows, Drawn, LineShown
<1>2. ASSUME NEW e, NEW f, Open(e, f) PROVE LapInv'
  BY <1>2, OpenLap
<1>3. CASE effect' # "temp_timelapse"
  BY <1>3 DEF LapInv, LapsOn
<1>4. CASE PlayStep
  <2>1. CASE weather_timelapse_run
    BY <2>1, TimelapseLap
  <2>2. CASE sunrise_run
    BY <1>3, <2>2 DEF sunrise_run
  <2> QED
    BY <1>4, <2>1, <2>2 DEF PlayStep, PlayFrame
<1>5. CASE Fetch
  <2>1. effect' # "temp_timelapse"
    BY <1>5 DEF Fetch, FetchData, FetchText, FetchWithout, FetchCut, FetchReset, Unreachable,
                Asks, Asked, ApiEffects, Exits, Down, Open
  <2> QED
    BY <1>3, <2>1
<1>6. CASE UNCHANGED vars \/ CopyLog
  BY <1>1, <1>6 DEF vars, playVars, CopyLog
<1>7. CASE Boot \/ Interrupt \/ Kill \/ Crash
  BY <1>2, <1>7 DEF Boot, Interrupt, Kill, Crash, Exits, Down
<1>8. ASSUME NEW e \in Switchable, Switch(e) PROVE LapInv'
  BY <1>2, <1>8 DEF Switch, Down
<1> QED
  BY <1>4, <1>5, <1>6, <1>7, <1>8 DEF Next

LEMMA LapInit == Init => LapInv
  BY DEF Init, PlayInit, LapInv, LapsOn

(* A frame of the time-lapse is one lap of its file, in the scale's        *)
(* colours, for every number of pixels and of laps.                        *)
THEOREM AlwaysALap == FairSpec => []LapShown
  BY InvInit, InvStep, StepInvInit, StepInvStep, LapInit, LapStep, LapShownHolds, PTL
     DEF FairSpec, Spec

-----------------------------------------------------------------------------
(* A frame of the sun.  Its file is one lap, so that the pixels of the lap *)
(* under way have all been drawn with the clock as it is, and those of a   *)
(* frame put with the clock before it moved on.                            *)
Bright(p, now) == Shades(Brightness(file[p + 1].sunrise, file[p + 1].sunset, now))
SunInv ==
  effect = "sun" =>
    /\ cursor = frame_no
    /\ \A p \in Pixels \ {0} : p < frame_no => pixels[p] = Bright(p, clock)
    /\ shownCursor > 0 => /\ shownClock \in Clocks /\ clock = (shownClock + 600) % DayLength
                          /\ \A p \in Pixels : display[p] = Bright(p, shownClock)

LEMMA SunFrameDrawn ==
  ASSUME Inv, SunInv, sunrise_run PROVE SunInv'
<1> DEFINE k == cursor
           f == frame_no
           N == NUM_PIXELS
<1>1. /\ effect = "sun" /\ file' = file /\ effect' = effect /\ N \in Nat \ {0} /\ file # << >>
      /\ cursor' = CursorAfter /\ frame_no' = Pos + 1 /\ Puts
      /\ clock' = IF Wraps THEN (clock + 600) % DayLength ELSE clock
  BY PlaybackAssumption DEF sunrise_run
<1>2. Len(file) = N /\ k \in 0 .. N /\ f \in 0 .. N /\ f = k
  BY <1>1, FileLines DEF SunInv, Inv, TypeInv, PlayTypes
<1>3. pixels \in [Pixels -> Colours] /\ clock \in Clocks
  BY DEF Inv, TypeInv, PlayTypes, Frames
<1>4. /\ \A p \in Pixels \ {0} : p < f => pixels[p] = Bright(p, clock)
      /\ shownCursor > 0 => /\ shownClock \in Clocks /\ clock = (shownClock + 600) % DayLength
                            /\ \A p \in Pixels : display[p] = Bright(p, shownClock)
  BY <1>1 DEF SunInv
<1>5. Pos = IF f = N THEN 0 ELSE f
  BY <1>1, <1>2 DEF Pos, Wraps
<1>6. Pos \in Pixels /\ \A p \in Pixels : p \in 0 .. N - 1
  BY <1>1, <1>2, <1>5 DEF Pixels
<1>7. CursorAfter = Pos + 1
  <2>1. AtEnd <=> f = N
    BY <1>2 DEF AtEnd, k
  <2> QED
    BY <1>1, <1>2, <1>5, <2>1 DEF CursorAfter, k
<1>8. pixels' = [pixels EXCEPT ![Pos] = Bright(Pos, clock)]
  <2>1. file[CursorAfter].loc = Pos
    <3>1. Pos + 1 \in 1 .. N /\ (Pos + 1) - 1 = Pos
      BY <1>1, <1>6
    <3>2. \A i \in 1 .. N : file[i].loc = i - 1
      BY <1>1, FileLines DEF Inv, TypeInv, PlayTypes
    <3> QED
      BY <1>7, <3>1, <3>2
  <2> QED
    BY <1>7, <2>1 DEF sunrise_run, Bright
<1>9. SUFFICES
        /\ cursor' = frame_no'
        /\ \A p \in Pixels \ {0} : p < frame_no' => pixels'[p] = Bright(p, clock')
        /\ shownCursor' > 0 => /\ shownClock' \in Clocks /\ clock' = (shownClock' + 600) % DayLength
                               /\ \A p \in Pixels : display'[p] = Bright(p, shownClock')
  BY <1>1 DEF SunInv, Bright
<1> DEFINE c == Bright(Pos, clock)
<1>10. pixels' = [pixels EXCEPT ![Pos] = c]
  BY <1>8
<1>11. pixels'[Pos] = Bright(Pos, clock) /\ \A p \in Pixels : p # Pos => pixels'[p] = pixels[p]
  <2>1. c = Bright(Pos, clock)
    OBVIOUS
  <2> HIDE DEF c
  <2> QED
    BY <1>3, <1>6, <1>10, <2>1
<1> HIDE DEF k, f, N
<1>12. CASE f = N
  <2>1. Pos = 0 /\ frame_no' = 1 /\ cursor' = 1 /\ Wraps
    BY <1>1, <1>2, <1>5, <1>7, <1>12 DEF Wraps, f, N
  <2>2. display' = pixels' /\ shownClock' = clock /\ clock' = (clock + 600) % DayLength
    BY <1>1, <2>1 DEF Puts
  <2>3. ASSUME NEW p \in Pixels PROVE pixels'[p] = Bright(p, clock)
    <3>1. CASE p = 0
      BY <1>11, <2>1, <3>1
    <3>2. CASE p # 0
      <4>1. p < f
        BY <1>1, <1>6, <1>12
      <4> QED
        BY <1>4, <1>11, <2>1, <3>2, <4>1
    <3> QED
      BY <3>1, <3>2
  <2>4. ASSUME NEW p \in Pixels \ {0} PROVE ~ (p < 1)
    BY <1>1, <1>6
  <2> QED
    BY <1>3, <2>1, <2>2, <2>3, <2>4
<1>13. CASE f # N
  <2>1. Pos = f /\ frame_no' = f + 1 /\ cursor' = f + 1 /\ ~ Wraps
    BY <1>1, <1>2, <1>5, <1>7, <1>13 DEF Wraps, f, N
  <2>2. display' = display /\ shownClock' = shownClock /\ shownCursor' = shownCursor /\ clock' = clock
    BY <1>1, <2>1 DEF Puts
  <2>3. ASSUME NEW p \in Pixels \ {0}, p < f + 1 PROVE pixels'[p] = Bright(p, clock)
    <3>1. CASE p = f
      BY <1>11, <2>1, <3>1
    <3>2. CASE p # f
      <4>1. p < f
        BY <1>2, <1>6, <2>3, <3>2
      <4> QED
        BY <1>4, <1>11, <2>1, <3>2, <4>1
    <3> QED
      BY <3>1, <3>2
  <2> QED
    BY <1>4, <2>1, <2>2, <2>3
<1> QED
  BY <1>12, <1>13

LEMMA SunInit == Init => SunInv
  BY DEF Init, PlayInit, SunInv

LEMMA SunStep == Inv /\ SunInv /\ [Next]_vars => SunInv'
<1> SUFFICES ASSUME Inv, SunInv, [Next]_vars PROVE SunInv'
  OBVIOUS
<1>1. CASE UNCHANGED << effect, file, cursor, frame_no, clock, pixels, display, shownCursor, shownClock >>
  BY <1>1 DEF SunInv, Bright
<1>2. ASSUME NEW e, NEW f, Open(e, f) PROVE SunInv'
  BY <1>2 DEF Open, SunInv, Pixels
<1>3. CASE effect' # "sun"
  BY <1>3 DEF SunInv
<1>4. CASE PlayStep
  <2>1. CASE sunrise_run
    BY <2>1, SunFrameDrawn
  <2>2. CASE weather_timelapse_run
    BY <1>3, <2>2 DEF weather_timelapse_run
  <2> QED
    BY <1>4, <2>1, <2>2 DEF PlayStep, PlayFrame
<1>5. CASE Fetch
  <2>1. effect' # "sun"
    BY <1>5 DEF Fetch, FetchData, FetchText, FetchWithout, FetchCut, FetchReset, Unreachable,
                Asks, Asked, ApiEffects, Exits, Down, Open
  <2> QED
    BY <1>3, <2>1
<1>6. CASE UNCHANGED vars \/ CopyLog
  BY <1>1, <1>6 DEF vars, playVars, CopyLog
<1>7. CASE Boot \/ Interrupt \/ Kill \/ Crash
  BY <1>2, <1>7 DEF Boot, Interrupt, Kill, Crash, Exits, Down
<1>8. ASSUME NEW e \in Switchable, Switch(e) PROVE SunInv'
  BY <1>2, <1>8 DEF Switch, Down
<1> QED
  BY <1>4, <1>5, <1>6, <1>7, <1>8 DEF Next

-----------------------------------------------------------------------------
(* How far a level is from the sun's height: never by two steps.           *)
LEMMA Quotient ==
  ASSUME NEW a \in Nat, NEW d \in Nat \ {0}
  PROVE  /\ a \div d \in Nat
         /\ (a \div d) * d <= a /\ a < (a \div d) * d + d
  OBVIOUS

LEMMA ProductMono ==
  ASSUME NEW i \in Int, NEW j \in Int, NEW d \in Nat, i <= j PROVE i * d <= j * d
  OBVIOUS

LEMMA LevelClose ==
  ASSUME NEW part \in Nat \ {0}, NEW other \in Nat \ {0}, NEW day, day = part + other
  PROVE  Distance(Level(part, day) * day, 510 * (IF part < other THEN part ELSE other)) <= 2 * day
<1> DEFINE q == (510 * part) \div day
           x == q * day
           ideal == 510 * (IF part < other THEN part ELSE other)
<1>1. day \in Nat \ {0} /\ 510 * part \in Nat
  OBVIOUS
<1>2. q \in Nat /\ x <= 510 * part /\ 510 * part < x + day
  <2> DEFINE a == 510 * part
  <2>1. a \in Nat
    OBVIOUS
  <2> HIDE DEF a
  <2>2. (a \div day) \in Nat /\ (a \div day) * day <= a /\ a < (a \div day) * day + day
    BY <1>1, <2>1, Quotient
  <2> QED
    BY <2>2 DEF a
<1>3. x \in Int /\ ideal \in Int
  BY <1>1, <1>2
<1>4. Level(part, day) = uint8(IF q > 255 THEN 255 - q ELSE q)
  BY DEF Level
<1>5. ideal = (IF part < other THEN 510 * part ELSE 510 * other)
  OBVIOUS
<1> HIDE DEF ideal, q
<1>6. q <= 509
  <2> SUFFICES ASSUME q >= 510 PROVE FALSE
    BY <1>2
  <2>1. 510 * day <= x
    BY <1>1, <1>2, ProductMono
  <2> HIDE DEF x
  <2> QED
    BY <1>1, <1>2, <1>3, <2>1
<1>7. CASE q <= 255
  <2>1. Level(part, day) = q
    BY <1>2, <1>4, <1>7 DEF uint8
  <2>2. x <= 255 * day
    BY <1>1, <1>2, <1>7, ProductMono
  <2>3. q <= 254 => x <= 254 * day
    BY <1>1, <1>2, ProductMono
  <2>4. q = 255 => x = 255 * day
    OBVIOUS
  <2>5. Level(part, day) * day = x
    BY <2>1
  <2> HIDE DEF x
  <2>6. CASE part < other
    BY <1>1, <1>2, <1>3, <1>5, <2>5, <2>6 DEF Distance
  <2>7. CASE ~ (part < other)
    <3>1. q = 255
      BY <1>1, <1>2, <1>3, <1>7, <2>3, <2>7
    <3> QED
      BY <1>1, <1>2, <1>3, <1>5, <2>4, <2>5, <2>7, <3>1 DEF Distance
  <2> QED
    BY <2>6, <2>7
<1>8. CASE q > 255
  <2>1. Level(part, day) = 511 - q
    BY <1>2, <1>4, <1>6, <1>8 DEF uint8
  <2>2. Level(part, day) * day = 511 * day - x
    BY <1>1, <1>2, <2>1
  <2>3. 256 * day <= x
    BY <1>1, <1>2, <1>8, ProductMono
  <2> HIDE DEF x
  <2>4. ~ (part < other)
    BY <1>1, <1>2, <1>3, <2>3
  <2> QED
    BY <1>1, <1>2, <1>3, <1>5, <2>2, <2>3, <2>4 DEF Distance
<1> QED
  BY <1>2, <1>7, <1>8 DEF ideal

LEMMA ModuloDay ==
  /\ DayLength \in Nat \ {0}
  /\ \A i \in Int : 0 <= i /\ i < DayLength => i % DayLength = i
  /\ \A i \in Int : - DayLength <= i /\ i < 0 => i % DayLength = i + DayLength
<1>1. DayLength = 86400
  BY DEF DayLength
<1> QED
  BY <1>1

(* The level shown is that of the moment, on either side of the day's      *)
(* middle, of midnight and of both.                                        *)
LEMMA BrightnessClose ==
  ASSUME NEW rise \in Nat, NEW set \in Nat, NEW now \in Nat,
         rise < DayLength, set < DayLength, now < DayLength,
         NEW day, NEW since, NEW until,
         day = (set - rise) % DayLength, since = (now - rise) % DayLength,
         until = (set - now) % DayLength
  PROVE  Distance(Brightness(rise, set, now) * day,
                  IF since > day \/ day = 0 THEN 0
                  ELSE 510 * (IF since < until THEN since ELSE until)) <= 2 * day
<1> DEFINE B == Brightness(rise, set, now)
           least == IF since < until THEN since ELSE until
           ideal == IF since > day \/ day = 0 THEN 0 ELSE 510 * least
<1> SUFFICES Distance(B * day, ideal) <= 2 * day
  OBVIOUS
<1>1. DayLength \in Nat \ {0}
  BY ModuloDay
<1>2. /\ day = IF set < rise THEN (set - rise) + DayLength ELSE set - rise
      /\ since = IF now < rise THEN (now - rise) + DayLength ELSE now - rise
      /\ until = IF set < now THEN (set - now) + DayLength ELSE set - now
  <2>1. ASSUME NEW i \in Nat, NEW j \in Nat, i < DayLength, j < DayLength
        PROVE  (i - j) % DayLength = IF i < j THEN (i - j) + DayLength ELSE i - j
    <3>1. /\ i - j \in Int /\ (i < j <=> i - j < 0) /\ - DayLength <= i - j /\ i - j < DayLength
      BY <1>1, <2>1
    <3> QED
      BY <1>1, <3>1, ModuloDay
  <2> QED
    BY <2>1
<1>3. day \in Nat /\ since \in Nat /\ until \in Nat
  BY <1>1, <1>2
<1>4. ASSUME B = 0, since > day \/ day = 0 \/ since = 0 \/ until = 0
      PROVE  Distance(B * day, ideal) <= 2 * day
  <2>1. ideal = 0
    BY <1>3, <1>4
  <2>2. B * day = 0
    BY <1>3, <1>4
  <2> HIDE DEF B, ideal
  <2> QED
    BY <1>3, <2>1, <2>2 DEF Distance
<1>5. ASSUME NEW part \in Int, NEW other \in Int, part > 0, other > 0, day = part + other,
             B = Level(part, day),
             least = IF part < other THEN part ELSE other, since <= day
      PROVE  Distance(B * day, ideal) <= 2 * day
  <2>1. day # 0
    BY <1>3, <1>5
  <2>2. ideal = 510 * (IF part < other THEN part ELSE other)
    BY <1>3, <1>5, <2>1
  <2>3. part \in Nat \ {0} /\ other \in Nat \ {0}
    BY <1>5
  <2>4. Distance(Level(part, day) * day, 510 * (IF part < other THEN part ELSE other)) <= 2 * day
    BY <1>5, <2>3, LevelClose
  <2> HIDE DEF B, ideal
  <2> QED
    BY <1>5, <2>2, <2>4
<1>6. CASE set = rise
  <2>1. B = 0 /\ day = 0
    BY <1>2, <1>6 DEF Brightness
  <2> QED
    BY <1>4, <2>1
<1>7. CASE set > rise
  <2>1. B = IF rise - now < 0 /\ set - now > 0 THEN Level(set - now, set - rise) ELSE 0
    BY <1>7 DEF Brightness
  <2> HIDE DEF B, ideal
  <2>2. CASE rise < now /\ now < set
    <3>1. B = Level(set - now, day)
      BY <1>2, <1>7, <2>1, <2>2
    <3>2. set - now = until /\ now - rise = since /\ day = until + since /\ until > 0 /\ since > 0
      BY <1>2, <1>7, <2>2
    <3>3. least = (IF until < since THEN until ELSE since) /\ since <= day
      BY <1>3, <3>2
    <3> QED
      BY <1>3, <1>5, <3>1, <3>2, <3>3
  <2>3. CASE ~ (rise < now /\ now < set)
    <3>1. B = 0
      BY <2>1, <2>3
    <3>2. since > day \/ since = 0 \/ until = 0
      BY <1>1, <1>2, <1>7, <2>3
    <3> QED
      BY <1>4, <3>1, <3>2
  <2> QED
    BY <2>2, <2>3
<1>8. CASE set < rise /\ set > now
  <2>1. B = Level(set - now, (set - rise) + DayLength)
    BY <1>8 DEF Brightness
  <2> HIDE DEF B, ideal
  <2>2. set - now = until /\ day = until + since /\ until > 0 /\ since > 0
    BY <1>1, <1>2, <1>8
  <2>3. B = Level(until, day)
    BY <1>2, <1>8, <2>1, <2>2
  <2>4. least = (IF until < since THEN until ELSE since) /\ since <= day
    BY <1>3, <2>2
  <2> QED
    BY <1>3, <1>5, <2>2, <2>3, <2>4
<1>9. CASE set < rise /\ set <= now
  <2>1. B = IF rise - now < 0 THEN Level(- (rise - now), (set - rise) + DayLength) ELSE 0
    BY <1>9 DEF Brightness
  <2> HIDE DEF B, ideal
  <2>2. CASE rise < now
    <3>1. - (rise - now) = since /\ day = since + until /\ until > 0 /\ since > 0
      BY <1>1, <1>2, <1>9, <2>2
    <3>2. B = Level(since, day)
      BY <1>2, <1>9, <2>1, <2>2, <3>1
    <3>3. day = since + until /\ until > 0 /\ since > 0
      BY <3>1
    <3>4. least = (IF since < until THEN since ELSE until) /\ since <= day
      BY <1>3, <3>3
    <3> QED
      BY <1>3, <1>5, <3>2, <3>3, <3>4
  <2>3. CASE ~ (rise < now)
    <3>1. B = 0
      BY <2>1, <2>3
    <3>2. since > day \/ since = 0 \/ until = 0
      BY <1>1, <1>2, <1>9, <2>3
    <3> QED
      BY <1>4, <3>1, <3>2
  <2> QED
    BY <2>2, <2>3
<1> QED
  BY <1>6, <1>7, <1>8, <1>9

LEMMA SunShownHolds == Inv /\ SunInv => SunShown
<1> SUFFICES ASSUME Inv, SunInv, effect = "sun", shownCursor > 0, NEW p \in Pixels
             PROVE  LET line  == file[p + 1]
                        day   == Daylight(line)
                        since == SinceSunrise(line)
                        until == UntilSunset(line)
                        ideal == IF since > day \/ day = 0 THEN 0
                                 ELSE 510 * (IF since < until THEN since ELSE until)
                    IN  Distance(display[p].r * day, ideal) <= 2 * day
  BY DEF SunShown, SunInv
<1> DEFINE line == file[p + 1]
           rise == line.sunrise
           set == line.sunset
           now == shownClock
           B == Brightness(rise, set, now)
<1>1. rise \in TimesOfDay /\ set \in TimesOfDay
  <2>1. p + 1 \in 1 .. NUM_PIXELS
    BY PlaybackAssumption DEF Pixels
  <2> QED
    BY <2>1, FileLines DEF Inv, TypeInv, PlayTypes
<1>2. now \in Nat /\ now < DayLength
  <2>1. PICK i \in 0 .. 143 : now = 600 * i
    BY DEF SunInv, Clocks
  <2> QED
    BY <2>1 DEF DayLength
<1>3. display[p].r = B
  <2>1. display[p] = Shades(B)
    BY DEF SunInv, Bright
  <2> HIDE DEF B
  <2> QED
    BY <2>1 DEF Shades, Colour
<1> HIDE DEF B
<1>4. rise \in Nat /\ set \in Nat /\ rise < DayLength /\ set < DayLength
  BY <1>1, TimeOfDay
<1> DEFINE day == (set - rise) % DayLength
           since == (now - rise) % DayLength
           until == (set - now) % DayLength
<1>5. day = Daylight(line) /\ since = SinceSunrise(line) /\ until = UntilSunset(line)
  BY DEF Daylight, SinceSunrise, UntilSunset
<1>6. Distance(B * day, IF since > day \/ day = 0 THEN 0
                        ELSE 510 * (IF since < until THEN since ELSE until)) <= 2 * day
  <2> HIDE DEF line, rise, set, now
  <2> QED
    BY <1>2, <1>4, BrightnessClose DEF B
<1> QED
  BY <1>3, <1>5, <1>6

(* A frame of the sun is one moment's, and each pixel as bright as it is   *)
(* far from sunrise and sunset, for every number of pixels and every times *)
(* of sunrise and sunset.                                                  *)
THEOREM AlwaysOneMoment == FairSpec => []SunShown
  BY InvInit, InvStep, SunInit, SunStep, SunShownHolds, PTL DEF FairSpec, Spec
=============================================================================
