# Formal model of the Light-Up World client

The program (`src/effect_runner.c` and what it links) drives a map of the world made of
471 LEDs. One process draws an *effect* frame after frame and sends each frame over TCP
to the display's OPC server (fadecandy); two control servers run as threads beside it and
let clients choose the effect by number: one speaks WebSocket to a browser, the other
reads lines from `nc`. This directory holds TLA+ models of that program, the TLC
configurations that check them, and TLAPS proofs. Paths below are relative to the
repository's `src/`.

## 1. Inventory

| component | state | operations | interacts with | status |
|---|---|---|---|---|
| process and main loop, `effect_runner.c` | `sa` (`shared_cmd`, `interrupted`, `mutex`), `effect_runner` (effect, frame, frame_no, sink, pixel_info) | SIGINT handler, `main`'s loop, `init_effect`, `effect->remove`, `effect_runner_delete`, join, exit | servers by `sa`; effects by callbacks; sink; shell | modelled |
| basic server, `ctrlserver.c:361` | listening socket, one client, a 16-byte buffer | accept, `recv`, strip the newline, `strtol`, store under the lock | `sa`; TCP | modelled |
| websocket server, `ctrlserver.c:395` | the same, without a buffer between polls | accept, HTTP upgrade, `read_ws_frame`, store under the lock | `sa`; TCP | all but SHA-1 and headers |
| OPC sink, `opc/opc_client.c` | `opc_sinks[]`: a socket or -1 | connect with a timeout, send a header and a body, close | main thread; display; SIGPIPE disposition of the process | all but name resolution |
| csv parser, `utils/csv.c` | a field and a row that grow, the state of the quotes | next row | layout | all that is called |
| list, `utils/list.c` | a doubly linked list | add, get, remove, enum, delete | layout | modelled |
| pixel layout, `effect_runner.c:119-180`, `pixel.c` | `pixel_info`: grid cell, place on earth and strip of each pixel | `init_grid`, `init_geo`, `init_strip`, `get_pos`, `read_grid_to_list`, the strip order of `opc_put_pixel_list` | list, csv; effects | modelled |
| scroller, test and image effects, `effects/scroller.c`, `1test.c`, `alltest.c`, `image.c` | pixel grid, circular buffer and its position | `shift_columns`, a frame a run | layout, sink | modelled |
| data-driven effects, `effects/weather.c`, `sunrise.c` | file cursor, simulated clock, a log written through stdio | one pixel a run, in step with the file; append a line | frame_no, data files, API manager | all that a command or an effect reaches |
| API manager, `apimanager.c` | a socket for each fetch | connect, GET, read once, parse | weather effects; parson | by its outcomes |
| projection, layout converters, parson, snake games | | float maths; offline tools; third-party; separate programs | none at run time | section 5 |

What is hard to get right here:

* three threads and a signal handler share four words, one of them a register that carries
  commands, "nothing" (0, -1) and error codes in the same eight bits;
* the switch from one effect to the next must give back exactly what the old one took
  (FILE, python program, pixels) and may fail half-way, where every failure is `exit()`;
* both servers read TCP without waiting and take what one `recv` returned for one message;
* the sink cuts each frame in two sends over a connection that may break and be remade
  between any two bytes;
* nothing the process starts with `&` is known to its next run, and the log it leaves may
  end in the middle of a line;
* three layout files, a list, a grid and the strips number the same 471 pixels in three ways,
  and only the order of lines holds the numberings together;
* a data file's cursor and `frame_no` wrap separately, and only the length of the file keeps
  them in step;
* the csv parser grows two buffers by its own count of what is in them.

What makes each component correct: *runner*: the lock excludes, a request is kept until it
is taken, taken once, and served or overtaken; resources belong to the effect on the
display; an interrupt ends the program cleanly. *Servers*: a stored value is what one text
of one client says; texts are taken in order, none twice; a client that leaves makes room.
*Sink*: frames appear whole, in order, at most once; a put returns. *Parser and list*: what was
written is read back, nothing is stored outside a buffer, the list is a sequence that gives
each pointer back once. *Layout and pictures*: each point of the display has the colour its
cell was meant to have. *Data-driven effects*: cursor and frame_no in lockstep, a pixel shows a
value of its own place, a frame shows one lap or one moment, the log loses only what a kill
loses.

`PROJECT.json` lists these hazards with their lines.

## 2. Modules

| module | models | notes |
|---|---|---|
| `Effects` | tables `commands[]` and `cmds[]`, the `int8_t` cast | constants and pure operators |
| `CommandCell` | abstract: at most one outstanding request, consumed once by starting its effect | written against the promise, no threads |
| `EffectRunner` | `main`, both server threads, SIGINT, exit and restart | the composition; one action per statement that another thread can observe |
| `EffectRunnerProps`, `MCEffectRunner`, `EffectRunnerProofs` | properties, TLC instances, TLAPS proofs | |
| `CommandFeed` | abstract: what a control server may store | implemented by both servers |
| `BasicServer`, `BasicServerProps`, `MCBasicServer`, `BasicServerProofs` | `basic_server` with its clients' TCP streams, byte by byte | |
| `WsServer`, `WsServerProps`, `MCWsServer`, `WsServerProofs` | `server` and `read_ws_frame`, one action per read | |
| `FrameFeed` | abstract: what the display may show | |
| `OpcSink`, `OpcSinkProps`, `MCOpcSink`, `OpcSinkProofs` | `opc_client.c` with the display | implements `FrameFeed` |
| `CsvParser` | `csv_parser_getRow`, one character a step | |
| `PointerList` | abstract: a sequence that gives each pointer back once | |
| `LinkedList` | `list.c` on cells of a heap | implements `PointerList` |
| `LayoutFile`, `LayoutFileProps`, `MCLayoutFile`, `LayoutFileProofs` (parser), `LayoutListProofs` (list) | the loop of the three `init_*` functions: parser into list | composes `CsvParser` and `LinkedList` |
| `Grid`, `Colours` | sizes and pixels of a grid; the colour functions | pure operators |
| `PixelLayout` | the layout files of a map, `init_grid`, `init_geo`, `init_strip`, `get_pos`, `read_grid_to_list`, `opc_put_pixel_list` | |
| `Scroller` | `scroller.c`: buffer, position, `shift_columns` | |
| `Picture`, `PictureProps`, `MCPicture`, `PictureProofs` | from the map to the display, with the effects that draw whole frames | composes `PixelLayout` and `Scroller` |
| `Playback` | `weather_timelapse_run`, `sunrise_run` over a data file | |
| `WeatherStation`, `WeatherStationProps`, `MCWeatherStation`, `WeatherStationProofs` | `weather_run`, `weather_log_run`, the fetches, the log, processes | extends `Playback` |

### How state and actions correspond to the code

**EffectRunner.** `shared_cmd`, `interrupted`, `mutex` are `server_args`; `effect`,
`frame_no`, `frame` are `effect_runner`; `files` and `python` are what effects hold outside
the heap; `wsRead`, `text`, `default_cmd` are locals of the servers (0 or garbage while
dead); `pc[t]` names the next statement of thread t. Frames are abstracted to *who* drew
each pixel. `frame_no` is kept at NUM_PIXELS once there, because no test distinguishes
larger values. `asked` (the outstanding request) and `sigint` are history variables. What
one poll of a server can return is free (`WsReturns`, `Numbers`): the two server modules
justify it. `try_get_command(cmd, args->shared_cmd)` is two actions, `BasicEval` and
`BasicStore`, since its argument is read before the number is parsed and stored after.
`HandleUserExit` may run at any point of any thread. `Exit` is each of the process-wide
`exit()` calls: all threads stop where they are. `Restart` is a new `make run` after the
process has ended: the operating system closes files and sockets, python programs live on.

**BasicServer.** A connection is two byte sequences, `net` (under way) and `rcv` (in the
socket), moved by `Deliver`; `PollText` is the whole handling of a `recv` that returned
data: cut to the buffer, overwrite the last byte, `strtol` with base 0 (`Parse`: white space,
octal), test of `*end`, cast, store or default. The bytes of a client in `Cut` are cut and
joined freely by TCP; those of another arrive one line per poll. Bytes are character codes, because what
`cmd[len - 1] = 0` does to a text depends on them. `LinesFit`, the condition under which `ImplementsFeed` is claimed,
is stated in `BasicServerProps` and asserted of the instance. The `\0` bytes, signs and hexadecimal
numbers that a client could type are left out.

**WsServer.** A byte is a token *(role, frame, number of the frame, index)*; a token read in another's role may
mean anything the role allows, which is how a desynchronised parser is modelled without
bits. `ReadOp`, `ReadLen`, `ReadKey`, `ReadData` are the four reads of `read_ws_frame`, and
`ReadNothing` is `read <= 0` at any of them. The masking is exact in one respect: the text is
the frame's only when all of the key and payload bytes are its own. `ReadLen` exits for a payload
of more than `MaxPayload` bytes (125), also a legal one; the bytes of its longer length are never read, and left out.
`proc` says how the process ended: `malformed` by a byte of a frame's header, `failed` by the request, a socket or a
signal. A whole request is valid, one that a hang-up cut may be refused, pass for a whole one, or end in the
`exit(errno)` of a key without its end (`UpgradeMalformed`); SHA-1, base64 and headers are abstracted, and a request is
taken to fit `HTTP_BUFFER`.

**OpcSink.** `sockid` is the sink's socket, `sock` the local of `opc_connect`, `part` says
which of the two `opc_send` calls of `opc_put_pixels` is running. `select` and `getsockopt`
are the actions `SelectConnected`, `SelectRefused`, `SelectTimeout`; the first is possible in
any socket state, because `len` is uninitialised at `opc_client.c:117` and because a signal can
end `select` with its set untouched. The display is external: it serves its connections one
after the other and cuts bytes into messages by length, which is what OPC prescribes.

**LayoutFile.** `CsvParser` has the locals of `csv_parser_getRow` by their names; one action
is one turn of its `while`: a return is skipped, an opening quote, a character stored (over the one
before it when it is the second quote of a pair), the end of a field, of a row, of the file.
`charsRoom` and `fieldsRoom` are the sizes last given to `malloc` and `realloc`. The file is a
sequence of the five kinds of character that the parser distinguishes. `LinkedList` has `list_t`
and the fields of each element as functions of the cells of a heap; a call is one step, except
`list_delete`, which frees an element a step; `Along` is a walk from a cell along a link. `LayoutFile` is the loop that puts one
element in the list for each row until `csv_parser_getRow` returns NULL; afterwards the list is called at
will, `list_remove` and `list_remove_elem` included, which have no caller in the program. The writer that `RowsRead`
speaks of is in `LayoutFileProps`, as the program only reads: `AsText` gives the text of a table in a style, which says whether every
field is quoted or those that need it, how lines end, and whether the last one does. `WrittenAssumption` is what the
constant `Texts` means: the `rows` of an entry are a table whose text, in some style, is its `text`.

**Picture.** `map` is the drawing (WorldMap.csv): which slot of which strip is in which cell of the
grid. `coordinates`, `strip_config` and `Points` are the three files that `csv_to_layout.py` writes of
it, row by row (`Counted` puts the members of a set in order by counting those before each, and `Offset`
adds up the lengths of the strips before one); `geolocation` is a file of any length, the other two are taken to be there and
complete (a failed `fopen` would end the loop as an empty file does, and `main` would go on without a word). `init_grid`, `init_geo` and `init_strip` take a row
a step; `NextFile` is the end of the file or a row for a pixel that is not in the list. `get_pos`,
`read_grid_to_list` and `pixel_list_organised` are the functions of those names (the last is
`opc_put_pixel_list` up to its send); `Garbage` is what a slot without a pixel would hold of its `malloc`ed
frame. `Scroller` has the picture as columns, the buffer as what `get_scroller_effect` fills it with,
and `shifts` as a history variable. `Start` is `init_effect` with the clearing of pixels and `frame_no`.

**WeatherStation.** `cursor` counts the lines read of `file`, `clock` is `current_time`. A turn of main's
loop is `weather_timelapse_run` or `sunrise_run` whole: read a line, or the first after the end of the
file, draw it if it is for the pixel that is due, put the frame when `frame_no` wraps, count. A fetch is
one action for each way it can end: data, text that is no JSON, an object without the attribute, no byte or only
a part of an answer (`FetchCut`: a read of 0 bytes is a success, and behind what was read the uninitialised stack buffer holds
something useless or the rest of an earlier answer, which may complete the part to any value: `Leftovers`), a reset, no
connection (`exit`). The log is a sequence of pieces of
lines, because stdio writes when its buffer is full and not when a line ends; `stdio` is the
part not yet written, which `exit`, `return` and `fclose` write and a kill does not. `Lines` is what `fgets` and
`strtok` make of such a file. Temperatures are tenths of a kelvin and times seconds, so that
the casts of `Colours` cut what the code's casts cut; `uint8` wraps. `CopyLog` is the user who
copies the log to the file that temp_timelapse plays.

External parts (clients, TCP, the display, `csv_to_layout.py`'s input, the person who copies the
log) are marked external in the map or are choices of `Init`.

## 3. Runs

Each cfg names one question. All *passing* runs finish with no error.

| run | cfg | question | bounds |
|---|---|---|---|
| `runner` | `EffectRunner` | lock, register, resources, frame, clean end, refinement of `CommandCell`; requests served, interrupts stop the program | two pixels; numbers 3, 12, 264; 308 748 states |
| `basic_lines` | `BasicServer_lines` | refinement of `CommandFeed`, lines are read, clients make room | one client with two lines of four kinds that arrive whole, one with three one-digit lines that TCP cuts and joins; 40 673 states |
| `ws_frames` | `WsServer_frames` | refinement of `CommandFeed`, the only header that ends the process is a payload too long, and only a client that hangs up while it is served ends it otherwise; a client that hangs up makes room | two clients, two frames and one of seven kinds, one of them a byte too long, arriving whole; 252 918 states |
| `opc_stream` | `OpcSink_stream` | refinement of `FrameFeed`, frames whole, every put returns | three frames, two sockets, 2 + 2 bytes; 11 052 states |
| `layout_files` | `LayoutFile` | rows read back, buffers large enough, list well linked, refinement of `PointerList` | every text of up to four characters, rows of up to three fields of up to two, written in all eight styles; buffers of 2; four cells; 239 070 states |
| `picture` | `Picture` | layout loaded in place, the right colour at each point, the scroller on its tape | three pixels on two strips, all 120 maps of them on a 3 x 2 grid; buffer of 6 columns; 12 frames, two changes of effect; 188 880 states |
| `weather_station` | `WeatherStation` | lockstep, log kept, pixels as measured, laps and moments whole, every pixel redrawn | two pixels; files of one to three laps; sunrise and sunset any pair of six times; four fetches; stdio buffer of three pieces; two processes, two changes of effect; 886 533 states |
| `runner_early_sigint` | `EffectRunner_sigint` | *violated*: is every handled interrupt honoured? | one pixel |
| `runner_python_orphan` | `EffectRunner_python` | *violated*: is the old python program dead before the next effect, across restarts? | one pixel |
| `ws_segments` | `WsServer_segments` | *violated*: was every stored command given? | one client, two frames, TCP cutting anywhere |
| `opc_leak` | `OpcSink_leak` | *violated*: is the sink's socket the only open one? | as `opc_stream` |
| `fetch_failure` | `WeatherStation_fetch` | *violated*: does a failed fetch draw nothing? | as `weather_station` |

Why the bounds are enough.

* *Runner.* 3 is a python effect, 264 the file effect 8 (it writes and fetches) by a cast that wraps, 12 a number
  past the table; scroll, the first effect, redraws the frame. Threads are the program's
  own three, not a bound. Two pixels tell the first from the rest and let a pixel effect wrap.
* *Servers.* Two clients are the one that is served and the one that waits. Two lines or
  frames show order, joining and what one leaves behind for the next. The 16-byte buffer of
  the basic server is 4 in the model and the lines have up to four bytes with their newline, so
  the buffer fills in the same way, and three one-digit lines (six bytes) overflow it. The
  masking key has 2 bytes, so that it can be cut; the tries of the upgrade are 2, so that
  there is a first and a last.
* *Sink.* Three frames and two sockets allow: a frame lost, a reconnect, and one more after
  it; `Sockets` running out is `socket()` failing. A header and a body of two bytes each have every
  kind of cut.
* *Layout files.* The parser's state depends on the last character and the parity of a series of quotes;
  four characters reach every pair of states, and the written rows go through each way of ending a field, a row and the
  file. Buffers that begin with room for 2 grow twice within these texts. The only texts left out are short ones that end
  with a quote, see "Observations" below. Four cells are a list with a first, a last and two inner
  elements.
* *Picture.* Two strips of different lengths have an offset to get wrong; a file of places is
  too short, exact or too long (`MaxGeoRows` is 4). Twelve frames are more than two laps of the buffer of
  6, so both seams are seen; a second change of effect returns to one that was on before.
* *Weather.* With two pixels a lap has a first and a last; one lap is the smallest file, three have
  a lap that is neither first nor last. A stdio buffer of an odd number of pieces is full in the
  middle of a line every other time. The temperatures lie on both sides of each bend of the scale; sunrise and
  sunset run through midnight, noon, equal times and times that are no multiple of the clock's ten minutes.
  Two processes are enough for one to append behind what another left; with two changes of effect a line torn at their joint
  is not played in this run, and the theorem `AlwaysAsMeasured` covers it.

Deadlock is checked in `layout_files` (a deleted list is the end, `Done`), and in the runs of the runner, the servers and the
sink. `picture` and `weather_station` stop where their bounds are reached, and say
`CHECK_DEADLOCK FALSE` for that.

### Fairness

* `EffectRunner`: weak fairness of each server thread and of main except inside an HTTP
  fetch (`Fetching`), where `read` has no timeout: every property is stated for runs in which no
  fetch hangs for ever. Strong fairness of `MainLock` alone: a server sleeps one second after
  each use of the lock (`sleep_for(1)`), main takes it every few milliseconds, so it cannot be
  locked out for ever although no mutex promises it. `sleep(1200)` of temp_log ends, so it is
  covered. Servers get no such assumption. SIGINT and clients have no fairness.
* `BasicServer`: the server thread keeps polling, TCP delivers. A client need do nothing.
* `WsServer`: the server thread keeps polling, and no error of a socket has to happen; not even delivery is
  assumed.
* `OpcSink`: main keeps running; the display and the network need do nothing: each send
  ends, by its timeout at the latest.
* `WeatherStation`: weak fairness of `PlayStep`, the main loop that keeps running the effect that is on.
  Nothing has to be fetched, copied or switched.

### What the runs found

1. *Early SIGINT* (`effect_runner.c:205`): an interrupt between `signal()` and
   `sa.interrupted = 0` is forgotten.
2. *Orphans* (`effect_runner.c:98`): python programs outlive the process. They inherit its listening sockets, so that a restart
   may fail at `bind` while one lives; the model has the restart that comes up beside it.
3. *Partial frames* pass for whole ones (`ctrlserver.c:301`).
4. *Socket leak* (`opc_client.c:134`): a timed-out attempt leaves its socket open.
5. *A missing attribute is a success* (`apimanager.c:99`, against the comment at line 83): the pixel is
   drawn, and logged, as 0 kelvin.

### Observations

Seen in the code while modelling, and in the models where their state has it; no run is spent on them.

* `shared_cmd > 0` (`effect_runner.c:246`) makes `commands[0]` unreachable, while `demo.sh` sends `{0..6}`. The test
  also protects `alltest`, whose `pixels[frame_no]` is not checked: with `>= 0` it would write past the frame after
  471 runs. temp and windspeed are in `effects[]` and no command leads to them.
* A websocket client that is idle for one poll is closed (`ctrlserver.c:264`): no data and a closed connection both
  give -1, where lines 253-254 say -2. The five reads of the upgrade (line 426) do not "block until it's upgraded" as
  line 418 says.
* A text of 126 bytes or more is legal in the protocol, and one such frame ends the whole program with `exit`
  (`ctrlserver.c:285-288`, "payload length unexpectedly long"), not only its client. `WellFormedSurvives` says that no other
  header of such a client does.
* `cmd[len - 1] = 0` (`ctrlserver.c:376`, "Account for \n") removes whatever byte came last, a digit when TCP cuts a
  longer line, which is why `ImplementsFeed` of the basic server is stated for lines that arrive whole or have
  one digit, as every number of the table does; with nothing read it writes `cmd[-1]`.
* In the same way, a file that ends right after the quote that opens a field makes `csv_parser_getRow` end the field before its
  buffer; `MCTexts` leaves such texts out, and the layout files have no quotes.
* `image` sends its frame in the order of the list, not of the strips (`image_run`); its picture is all white, so nobody
  sees it.
* `time-lapse`: the frame put when `frame_no` wraps already has pixel 0 of the lap to come, and the first line after the end of
  the file is read and not drawn. `LapShown` says exactly which line each pixel shows.
* A log torn by a kill: the next process continues the line, which then has the pixel of one and the number of the
  other; and if it ends there, playing it calls `atof(NULL)` (`TimelapseCrash`).
* Every fetch that fails leaves its socket open (`sockets` counts them); `get_temp_effect` leaks its FILE; the
  scroller's grids are never freed.
* `MILLI_TO_NANO` is 100000 where a millisecond has 1000000 nanoseconds, and `opc_client.h:44` says 0.5 second beside a
  constant of 1000 ms; neither changes the order of events.

## 4. Proofs

| module | theorem | states | from |
|---|---|---|---|
| `EffectRunnerProofs` | `LockExcludes` | `Spec => []MutexOwnsCritical` | `NumPixelsAssumption` (at least one pixel), `NumbersAssumption` (numbers are integers), `SentinelAssumption` (None and Garbage are no integers) |
| | `TypeCorrect` | `Spec => []TypeOK` | |
| | `RequestKept` | `Spec => []RequestIntact` | |
| | `ResourcesOwned` | `Spec => []OwnedByEffect` | |
| | `FrameIndexSafe` | `Spec => []FrameIndexInBounds` | |
| | `FrameFresh` | `Spec => []NoStalePixels` | |
| | `EndsClean` | `Spec => []CleanEnd` | |
| | `CellImplemented` | `Spec => ImplementsCell`: EffectRunner implements CommandCell | |
| `OpcSinkProofs` | `TypeCorrect` | `Spec => []TypeOK` | `OpcAssumption`: any number of frames and sockets, any header and body of at least one byte |
| | `WritesWhole` | `Spec => []SentWhole` | |
| | `FeedImplemented` | `Spec => ImplementsFrameFeed`: the sink and the display implement FrameFeed | |
| `BasicServerProofs` | `TypeCorrect` | `Spec => []TypeOK` | `BasicAssumption`, `LinesAssumption`: any clients and buffer, any lines of characters without a newline |
| | `LinesImplementFeed` | `LinesFit` implies `Spec => ImplementsFeed`: the server implements CommandFeed | also `LinesFit`: lines arrive whole and fit the buffer, or have one character |
| `WsServerProofs` | `TypeCorrect` | `Spec => []TypeOK` | `WsAssumption`: any clients, frames, lengths of the key and the payloads, and any longest payload |
| | `WellFormedAlwaysSurvives` | `~ Segmented` implies `Spec => []WellFormedSurvives` | also that TCP does not cut frames; finding 3 is what happens when it does |
| | `FramesImplementFeed` | `~ Segmented` implies `Spec => ImplementsFeed` | the same |
| `LayoutFileProofs` | `ParserStaysInBuffers` | `Spec => []BuffersInBounds` | `CsvAssumption`: texts of any length, buffers that begin with room for two or more |
| | `WhatIsWrittenIsRead` | `Spec => []RowsRead` | also that the letters are no delimiter, quote or line end; `WrittenAssumption`: a table has rows and fields, no field has a carriage return, and it is not one that text says nothing of |
| `LayoutListProofs` | `ListWellLinked` | `Spec => []WellLinked` | also `ListAssumption`, `RowAssumption`: finitely many cells of memory, and a row is a pointer of its own |
| | `ListImplemented` | `Spec => ImplementsList`: the list, filled by the loop over the rows, implements PointerList | |
| `PictureProofs` | `ScrollsTheTape` | `Spec => []ScrollerOnTape` | `GridAssumption`, `ScrollerAssumption`: a buffer wider than the grid, as in the code |
| | `AlwaysInPlace` | `Spec => []LoadedInPlace` | also `LayoutAssumption`: a map gives each place of the strips once; `UnknownAssumption`: -1 is no place |
| | `AlwaysShown` | `Spec => []PictureShown` | |
| | `TypeCorrect` | `Spec => []TypeOK` | |
| `WeatherStationProofs` | `AlwaysInStep` | `FairSpec => []Lockstep` | `PlaybackAssumption`: at least one pixel |
| | `TypeCorrect`, `LogIsKept`, `AlwaysAsMeasured`, `AlwaysALap`, `AlwaysOneMoment` | `FairSpec => []TypeOK`, `[]LogKept`, `[]ShownAsMeasured`, `[]LapShown`, `[]SunShown` | also `StationAssumption`: stdio's buffer has room for a line; `DataAssumption`: numbers are integers, data files have the form of the repository's |

**EffectRunner.** None of its eight properties is inductive alone. The inductive invariant is a tower of
five layers, each proved with the help of those below it:

1. `LockInv`: the mutex is held exactly by the thread in its critical section.
2. `TypeInv`: types, and main is between remove and reset only with a number of the table.
   Needs layer 1: no server can change `shared_cmd` while main is there.
3. `RequestInv`: the register holds the outstanding request; a server's copies are what it
   read. The basic server's read and write of the default are apart, and only the lock makes
   the value it writes back still the current one.
4. `EffectInv`: what is open or running belongs to the effect; `none` and `freed` mark exactly
   main's labels without one; `alltest` never runs; the frame is white before a new effect.
5. `EndInv`: after cleanup nothing is open, and an ended websocket thread has no client.

The refinement maps `pending` to `asked` and `running` to the effect that main has decided
on: the request is taken at `RemoveOld`, where the abstract `Take` happens; every other action
is a `Request`, `Boot`, `Stop` or a stutter.

**CsvParser.** That a write is in bounds now says nothing of the next one. `BufferInv` keeps two free
places in the field after each step, one for the character and one for the NUL (`CharsFit`), and ties `fieldsRoom` to
`numRowRealloc` (`FieldsFit`): the row grows only when its length is a multiple of `AcceptedFields`, and the lemma
`Multiples` shows that the room is one too, so the test never comes too late.

`RowsRead` speaks of the rows returned; the step that could spoil one is many characters earlier, at a quote. Its
invariant, `Reading`, says at every character what is unread: the rest of the text that was written, from the place in the
table where the parser is. In a field that is one of five places: among the characters of a plain field, before an
opening quote, inside the quotes, between the two quotes that stand for one, or behind a closing quote; the parser
cannot tell the last two apart, and the parity of `seriesOfQuotesLength`, `lastCharIsQuote` and `inside_complex_field`
are tied to them. The text is concatenations, which no prover takes apart by itself: `JoinedUnfolds` shows that the recursive
function `Joined` has the value its equation says, and the lemmas above it (`QuotedUnfolds`, `PlainUnfolds`, `LineUnfolds`,
`LinesUnfold`) put the next character in front of what remains, which is all a step needs (`NextChar`). A row of one
empty field needs the exclusion of `Silent`: at its end the parser is where it is at the end of the file.

**Picture.** `LoadedInPlace` and `PictureShown` compare four numberings of the same pixels, all of them made by
counting. The lemmas on `Ranks` (`RankedOnce`, `RankTaken`) show that numbering a finite set by counting predecessors is a
bijection onto an interval for any strict total order, and serve for the rows of the map and for the strips; there, `Offset` of the strip plus the number in
the strip is what counting gives. `LoadInv` gives the list as a function of how many rows of each of the three files are taken, so
that a step of the loop changes one entry of it, and looking a pixel up in the loaded list inverts the order. `RunInv`
and `ShownInv` then follow a colour from the effect's frame through `pixel_list_organised` to the point of the
display: `PictureShown` needs both, as a frame is sent in one step and compared in all later ones.

`WindowOnTape` relates each column to the number of shifts. One shift moves the window by one (the new
right column is the tape's next, by `NextPosModulo`: the position goes round the buffer as the count does modulo its
width), every other action leaves the scroller alone or starts it again.

**BasicServer.** What `recv` finds depends on how TCP cut and joined what was sent long before, so the invariant is
about the stream: the bytes in the socket followed by those under way. `CountInv` counts the ends of lines in it, one for each line
not handled, which gives the types. `ShapeInv` says that each line of the stream of which no byte is missing says what the text of
its number said (`Says`: the number is found by counting the ends behind it), that the stream ends at an end of a line, and
how it may be cut: at most one line in the socket, or no two characters of a line next to each other. The lemmas show that sending appends such
a line, delivery leaves the stream as it is, and a poll takes off a prefix that is a line, or that breaks none. A poll that takes a
number took one that a whole line says (`ReadSays`), which is `Store`; any other is `Skip` or a stutter. `Parse` is
reasoned about as an opaque function of the body of the line (`ParseBody`), and as an integer (`ParseInt`).

**WsServer.** The state of the parser means something only together with what waits to be read. `StreamInv` says what that
is: byte after byte of a frame, frame after frame of consecutive numbers, the whole of each frame unless its client is
gone. `ParserInv` says that the first byte waiting is the one that `read_ws_frame` is due to read, in the frame that the opcode, length and
key read so far are of. So a read never takes a byte for another; a header cut short by a
client that is gone makes `read` return 0, which closes the client; a header that ends the process is the length of a payload
too long (`WellFormedSurvives` is part of the invariant); and a text that was read whole is the one due in `CommandFeed`.

**LayoutList.** `ListInv` names the sequence of cells that the heap holds: without repetition, its members are what is allocated,
`next` and `prev` lead along it. It is a witness, not a state variable, and each operation of `list.c` is shown to turn it into the sequence with
one element more or less. `AlongChain` shows that the walk of the model is that sequence; the refinement maps it to
`PointerList`'s by the values of the cells. `RowAssumption` lets a row be put in the list for as long as there
is a cell for it.

**WeatherStation.** Four invariants, each about what steps long ago left. `LogInv`: the pieces in the log and behind them
in stdio's buffer are those printed, in the order of processes and lines, and those missing are the last ones of a
killed process. `ShowInv`: a file that was copied from the log has lines that are sound or marked torn, so what is drawn from it
was measured. `LapInv`: the pixels of the lap under way show the last lines read, and where pixel 0 is one
ahead. `SunInv`: the file is one lap, so the pixels before `frame_no` show the moment of the clock and a frame that was
put the moment before. The scales (`RedRises`, `BlueFalls`, the levels of the sun's brightness) are proved about
integer division, without a bound on temperature or on the times.

**Playback.** Lockstep is inductive once `InFile` says that the cursor is a line of the file: within the file both go
to the next pixel, and at its end `Follows` makes the last line's pixel the last one, so `frame_no` wraps in
the same frame in which the file does.

**OpcSink.** What the display shows depends on bytes that were written, cut and read long before, so the
invariant says what every connection holds at every time. Six layers, again each with the help of those below:

1. `ClientInv`: where `opc_put_pixels` is. A body is only sent while the socket that took its header is the sink's.
2. `WrittenInv`: what is written of the frame being put is the end of the stream of the sink's socket;
   after a put that returned 1, the whole frame is.
3. `StreamInv`: a stream is frame after frame with growing numbers, and only its end may be a part of one. When a
   put begins, the sink's stream is whole; no other stream has a byte of the frame.
4. `QueueInv`: the connections the display has are in the order in which the sink used them; a later one carries
   later frames.
5. `DisplayInv`: the display's unfinished message is the beginning of the frame whose byte it read last.
6. `ShownInv`: what is shown is one whole frame, earlier than all that is pending.

`SentWhole` follows from layer 2. For the refinement, `shown` is the number of the frame on the display: a `Receive`
of a last byte is `Show` (its frame is complete by layer 5, and later by layer 6), `PutPixels` is `Put`, everything else
stutters.

Only model-checked: every liveness property (ENABLED and fairness are outside the prover). The induction theorems of the
library take an operator, which the installed provers cannot instantiate; where a recursive function is reasoned about (`Parse`,
`Along`, `Offset`, `Joined`, the lines of a log) it is by a least counterexample (`SmallestNat`). The theorems of the servers state their refinements for the clients for which the code keeps them;
`ws_segments` shows what becomes of the others.

## 5. Not modelled, and why

* `projection.c`: floating-point functions that nothing calls.
* `parson`: third-party. SHA-1 and base64 of the handshake: their values matter to the
  browser only.
* `layout/csv_to_layout.c`: an older version whose `main` returns before its code; `csv_to_layout.py` is modelled as what it
  writes. `cad`, `images`: data.
* the snake games: separate programs; no command number leads to them. The bare bones test is commented out.
* functions nothing calls: `csv_parser_new_from_string`, `load_sun_data`, `parse_time_string` (with its AM and PM),
  `get_string_from_json`.
* the heap: allocation failures are covered where they end the process; leaks
  (`opc_put_pixel_list`, `read_ws_frame`, `free_effect` for the scroller's storage) are listed
  as hazards.
* durations: only the order of events is modelled.

## 6. What is left

Every safety property that the passing runs check is proved, and every refinement; the liveness properties stay with TLC.
