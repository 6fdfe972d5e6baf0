--------------------------- MODULE WeatherStation ---------------------------
(***************************************************************************)
(* The effects that ask the weather service (weather.c, apimanager.c), the *)
(* log that temp_log appends to through stdio, and the log played back     *)
(* after somebody copied it to the file of temp_timelapse; with the        *)
(* process ended and started again in between.  Where the other effects    *)
(* are on, "scroll" stands for them.                                       *)
(***************************************************************************)
EXTENDS Playback

CONSTANTS
  Weathers,            \* what an answer says, [temp, speed]
  NoAttribute, NoJson, \* an answer without the attribute, and no answer
  MissingFile,         \* fopen fails
  Disks,               \* [played, sun, fetches]: the two data files, and the
                       \* bound of fetches while they are there
  BufferRoom,          \* stdio's buffer, in pieces of a line
  MaxProcesses, MaxSwitches   \* bounds

(* stdio's buffer holds at least a line, as its thousands of bytes do.     *)
ASSUME StationAssumption ==
  /\ BufferRoom \in Nat /\ BufferRoom >= 2
  /\ MaxProcesses \in Nat /\ MaxSwitches \in Nat

(* A number of the service is a number, and the data files have the form   *)
(* that the repository's have: data/sun_data.txt a line for each pixel.    *)
ArchiveLine == [loc : Nat, val : Int \cup {NoValue}]
TimesOfDay  == 0 .. DayLength - 1
SunFiles ==
  {f \in [1 .. NUM_PIXELS -> [loc : Pixels, sunrise : TimesOfDay, sunset : TimesOfDay]] :
     \A p \in Pixels : f[p + 1].loc = p}

ASSUME DataAssumption ==
  /\ NoValue \notin Int
  /\ Weathers \subseteq [temp : Int, speed : Int]
  /\ NoAttribute \notin Weathers /\ NoJson \notin Weathers \cup {NoAttribute}
  /\ \A d \in Disks : /\ d.played = MissingFile \/ d.played \in Seq(ArchiveLine)
                      /\ d.sun = MissingFile \/ d.sun \in SunFiles

VARIABLES
  played, sun,         \* the files temp_timelapse and sun open
  fetchesLeft, switches,  \* what the bounds leave
  buf,                 \* the stack buffer of weather_get_val_for_xy
  sockets,             \* sockets of the process that no code will close
  log,                 \* temp_timelapse.txt: pieces of lines
  stdio,               \* pieces printed and not yet written
  printed,             \* history: lines printed, for each process
  killed,              \* history: processes ended with no exit()
  measured,            \* history: the answers got, [loc, weather]
  doubtful             \* history: the pixels once asked for in vain

stationVars == << played, sun, fetchesLeft, switches, buf, sockets, log, stdio,
                  printed, killed, measured, doubtful >>
vars == << playVars, stationVars >>

Processes == Len(printed)
ApiEffects == {"temp", "windspeed", "temp_log"}

-----------------------------------------------------------------------------
(* A line is printed in two pieces, its pixel and its temperature, which   *)
(* ends it: stdio writes whatever fills its buffer, and so parts of lines. *)
Piece(part, num, line) == [part |-> part, num |-> num, process |-> Processes, line |-> line]
LinePieces(loc, val, line) == << Piece("loc", loc, line), Piece("val", val, line) >>

(* Mutant: what is written stays in the buffer.                            *)
PrintTwice(pieces) ==
  /\ stdio' = stdio \o pieces
  /\ log' = IF Len(stdio') < BufferRoom THEN log ELSE log \o SubSeq(stdio', 1, BufferRoom)

fprintf(pieces) ==
  LET all == stdio \o pieces IN
  IF Len(all) < BufferRoom THEN stdio' = all /\ UNCHANGED log
  ELSE /\ log' = log \o SubSeq(all, 1, BufferRoom)
       /\ stdio' = SubSeq(all, BufferRoom + 1, Len(all))

Flush == log' = log \o stdio /\ stdio' = << >>

(* The lines of a file.  After a part of a line another process begins its *)
(* own: the line has the pixel of the first and, as its temperature, the   *)
(* pixel of the second.                                                    *)
Line(nums, torn) == [loc |-> nums[1], val |-> nums[2], torn |-> torn]
Take(read, piece) ==
  IF piece.part = "loc" THEN [read EXCEPT !.begun = Append(@, piece.num)]
  ELSE [done |-> Append(read.done,
           IF Len(read.begun) > 1 THEN Line(<< read.begun[1], 10 * read.begun[2] >>, TRUE)
                                  ELSE Line(<< read.begun[1], piece.num >>, FALSE)),
        begun |-> << >>]
Taken(pieces) ==
  LET read[i \in 0 .. Len(pieces)] ==
        IF i = 0 THEN [done |-> << >>, begun |-> << >>] ELSE Take(read[i - 1], pieces[i])
  IN  read[Len(pieces)]
Lines(pieces) ==
  LET all == Taken(pieces) IN
  IF all.begun = << >> THEN all.done
  ELSE Append(all.done,
         Line(<< all.begun[1], IF Len(all.begun) = 1 THEN NoValue ELSE 10 * all.begun[2] >>, TRUE))

-----------------------------------------------------------------------------
Init ==
  /\ PlayInit
  /\ \E d \in Disks : played = d.played /\ sun = d.sun /\ fetchesLeft = d.fetches
  /\ switches = 0 /\ buf = NoJson /\ sockets = 0
  /\ log = << >> /\ stdio = << >>
  /\ printed = << >> /\ killed = {} /\ measured = {} /\ doubtful = {}

(* The process starts with the scroller.                                   *)
Boot ==
  /\ effect = "down" /\ Processes < MaxProcesses
  /\ Open("scroll", << >>)
  /\ printed' = Append(printed, 0) /\ buf' = NoJson /\ sockets' = 0
  /\ UNCHANGED << played, sun, fetchesLeft, switches, log, stdio, killed, measured, doubtful >>

(* The process ends: by exit() or return, after the stdio buffers are      *)
(* written, or by a signal, without.                                       *)
Down == Open("down", << >>)
Exits == Down /\ Flush /\ UNCHANGED killed

Interrupt ==
  /\ effect # "down" /\ Exits
  /\ UNCHANGED << played, sun, fetchesLeft, switches, buf, sockets, printed, measured, doubtful >>

Kill ==
  /\ effect # "down" /\ Down
  /\ stdio' = << >> /\ killed' = killed \cup {Processes}
  /\ UNCHANGED << played, sun, fetchesLeft, switches, buf, sockets, log, printed, measured, doubtful >>

(* A command: free_file closes the old effect's file, and so writes the    *)
(* log; a data file that is not there ends the process.                    *)
FileOf(e) == IF e = "temp_timelapse" THEN played ELSE IF e = "sun" THEN sun ELSE << >>
Switch(e) ==
  /\ effect # "down" /\ switches < MaxSwitches /\ switches' = switches + 1
  /\ IF FileOf(e) = MissingFile THEN Down ELSE Open(e, FileOf(e))
  /\ Flush
  /\ UNCHANGED << played, sun, fetchesLeft, buf, sockets, printed, killed, measured, doubtful >>

(* Outside the program: the log so far becomes the file that is played.    *)
CopyLog ==
  /\ effect # "temp_timelapse" /\ log # << >>
  /\ played' = Lines(log)
  /\ UNCHANGED << playVars, sun, fetchesLeft, switches, buf, sockets, log, stdio,
                  printed, killed, measured, doubtful >>

-----------------------------------------------------------------------------
(* weather_run takes frame_no modulo NUM_PIXELS; weather_log_run sets it   *)
(* back.                                                                   *)
FetchPos == IF effect = "temp_log" THEN Pos ELSE frame_no % NUM_PIXELS

(* get_double_from_json and the attribute asked for; a number that is not  *)
(* there is 0.                                                             *)
Value(answer) ==
  IF answer = NoAttribute THEN 0
  ELSE IF effect = "windspeed" THEN answer.speed ELSE answer.temp
ValueColour(v) == IF effect = "windspeed" THEN WindColour(v) ELSE TempColour(v)

Asks == effect \in ApiEffects /\ fetchesLeft > 0 /\ fetchesLeft' = fetchesLeft - 1
Asked ==
  /\ frame_no' = (IF effect = "temp_log" THEN Pos ELSE frame_no) + 1
  /\ UNCHANGED << effect, file, cursor, clock, played, sun, switches, killed >>

(* weather_run puts each frame, also after a failure.                      *)
PutsEach ==
  /\ display' = IF effect = "temp_log" THEN display ELSE pixels'
  /\ UNCHANGED << shownCursor, shownClock >>

(* The answer is parsed: the pixel is drawn, the log has a line, and the   *)
(* socket is closed.                                                       *)
Draws(answer) ==
  /\ pixels' = [pixels EXCEPT ![FetchPos] = ValueColour(Value(answer))]
  /\ IF effect = "temp_log"
       THEN /\ fprintf(LinePieces(FetchPos, Value(answer), printed[Processes] + 1))
            /\ printed' = [printed EXCEPT ![Processes] = @ + 1]
       ELSE UNCHANGED << log, stdio, printed >>
  /\ UNCHANGED sockets

(* Every early return leaves the socket open.                              *)
Fails == sockets' = sockets + 1 /\ UNCHANGED << pixels, log, stdio, printed >>

(* What is no object may leave the end of an earlier answer behind it.     *)
Read(answer) ==
  /\ buf' = IF answer = NoJson THEN buf ELSE answer
  /\ IF answer = NoJson THEN Fails ELSE Draws(answer)

FetchData ==
  /\ Asks
  /\ \E w \in Weathers : Read(w) /\ measured' = measured \cup {[loc |-> FetchPos, weather |-> w]}
  /\ Asked /\ PutsEach /\ UNCHANGED doubtful

(* No JSON object, as a web page.                                          *)
FetchText == Asks /\ Read(NoJson) /\ Asked /\ PutsEach /\ UNCHANGED << measured, doubtful >>

(* An object with no such attribute, as the service's error answers.       *)
FetchWithout ==
  /\ Asks /\ Read(NoAttribute) /\ Asked /\ PutsEach
  /\ doubtful' = doubtful \cup {FetchPos} /\ UNCHANGED measured

(* The service closes without an answer: 0 bytes are a success; or a part  *)
(* of one is all there is to read.  Behind it the buffer, not initialised, *)
(* has what the stack had: nothing of use, or the rest of an earlier       *)
(* answer, which by itself or joined to the part may say anything.         *)
Leftovers == {NoJson} \cup {a \in Weathers \cup {NoAttribute} : buf # NoJson}
FetchCut ==
  /\ Asks /\ (\E a \in Leftovers : Read(a)) /\ Asked /\ PutsEach
  /\ doubtful' = doubtful \cup {FetchPos} /\ UNCHANGED measured

(* write or read fails.                                                    *)
FetchReset == Asks /\ Fails /\ Asked /\ PutsEach /\ UNCHANGED << buf, measured, doubtful >>

(* The host is not found or does not answer: socket_connect exits.         *)
Unreachable ==
  /\ Asks /\ Exits
  /\ UNCHANGED << played, sun, switches, buf, sockets, printed, measured, doubtful >>

Fetch == FetchData \/ FetchText \/ FetchWithout \/ FetchCut \/ FetchReset \/ Unreachable

(* The file that is played ends within a line.                             *)
Crash ==
  /\ TimelapseCrash /\ Down
  /\ stdio' = << >> /\ killed' = killed \cup {Processes}
  /\ UNCHANGED << played, sun, fetchesLeft, switches, buf, sockets, log, printed, measured, doubtful >>

PlayStep == PlayFrame /\ UNCHANGED stationVars

(* temp and windspeed are effects of effects[] that commands[] leads to no  *)
(* more; they are asked for here as when a command did.                    *)
Switchable == ApiEffects \cup {"temp_timelapse", "sun"}
Next ==
  \/ Boot \/ Interrupt \/ Kill \/ CopyLog \/ Fetch \/ Crash \/ PlayStep
  \/ \E e \in Switchable : Switch(e)

Spec == Init /\ [][Next]_vars
FairSpec == Spec /\ WF_vars(PlayStep)
=============================================================================
