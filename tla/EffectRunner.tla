---------------------------- MODULE EffectRunner ----------------------------
(***************************************************************************)
(* The process that drives the display: the main loop of effect_runner.c,  *)
(* the two control servers of ctrlserver.c that run as threads beside it,  *)
(* the server_args they share (shared_cmd, interrupted, mutex), the SIGINT *)
(* handler, and what an effect owns outside the process's heap (its data   *)
(* file, a python program).  What a server reads in one poll is chosen     *)
(* freely here from what a client can make it read.                        *)
(***************************************************************************)
EXTENDS Effects

CONSTANTS
  NUM_PIXELS,          \* pixels of the display
  Numbers,             \* the numbers clients type
  Garbage,             \* any text that is not a number
  None                 \* no request is outstanding

ASSUME NumPixelsAssumption == NUM_PIXELS \in Nat \ {0}
ASSUME NumbersAssumption   == Numbers \subseteq Int
ASSUME SentinelAssumption  == Garbage \notin Int /\ None \notin Int

Servers == {"ws", "basic"}
Threads == Servers \cup {"main"}
Pixels  == 0 .. NUM_PIXELS - 1

VARIABLES
  proc,                \* the process: "up", "ok" or "failed" (exit status)
  pc,                  \* what each thread does next
  shared_cmd,          \* server_args, an int8_t
  interrupted,         \* server_args, set by the signal handler
  mutex,               \* the thread that holds server_args.mutex, or "free"
  effect,              \* effect_runner->effect, by name; "none" before the
                       \* first, "freed" between remove and init_effect
  frame_no,            \* effect_runner->frame_no, kept at NUM_PIXELS once there
  frame,               \* who wrote each pixel: an effect, or "white"
  files,               \* the effects whose data file is open
  python,              \* the python programs that are running
  connected,           \* client_fd # 0, for each server
  wsRead,              \* server(): the command read, 0 when there is none
  text,                \* basic_server(): the command text read
  default_cmd,         \* try_get_command's second argument, 0 between calls
  asked,               \* history: the request outstanding, or None
  sigint               \* history: the handler has run

shared == << shared_cmd, interrupted, mutex >>
runner == << effect, frame_no, frame >>
outside == << files, python >>
locals == << wsRead, text, default_cmd >>
vars == << proc, pc, shared, runner, outside, connected, locals, asked, sigint >>

ServerLabels == {"unborn", "start", "loop", "poll", "lock", "eval", "store",
                 "unlock", "close", "ended"}
MainLabels == {"setup", "args", "spawn_ws", "spawn_basic", "first", "loop", "run",
               "lock", "check", "remove", "init", "reset", "unlock", "cleanup", "join"}

(* A process that has just installed its SIGINT handler.                   *)
Init ==
  /\ proc = "up"
  /\ pc = [t \in Threads |-> IF t = "main" THEN "setup" ELSE "unborn"]
  /\ shared_cmd = 0 /\ interrupted = 0 /\ mutex = "free"
  /\ effect = "none" /\ frame_no = 0
  /\ frame = [p \in Pixels |-> "white"]
  /\ files = {} /\ python = {}
  /\ connected = [s \in Servers |-> FALSE]
  /\ wsRead = 0 /\ text = Garbage /\ default_cmd = 0
  /\ asked = None /\ sigint = FALSE

(* Thread t is at label l of a process that still runs.                    *)
At(t, l) == proc = "up" /\ pc[t] = l
Goto(t, l) == pc' = [pc EXCEPT ![t] = l]

(* exit() from any thread, or a crash: every thread stops where it is.     *)
Exit(status) ==
  /\ proc' = status
  /\ UNCHANGED << pc, shared, runner, outside, connected, locals, asked, sigint >>

(* Mutant: pthread_mutex_trylock, with its result ignored.                 *)
EvenIfLocked == TRUE

(* pthread_mutex_lock waits for this.                                      *)
WhenUnlocked == mutex = "free"

Lock(t, next) ==
  /\ At(t, "lock") /\ WhenUnlocked
  /\ mutex' = t
  /\ Goto(t, next)
  /\ UNCHANGED << proc, shared_cmd, interrupted, runner, outside, connected, locals,
                  asked, sigint >>

-----------------------------------------------------------------------------
(* The SIGINT handler, run at any point of any thread.                     *)
HandleUserExit ==
  /\ proc = "up"
  /\ interrupted' = 1 /\ sigint' = TRUE
  /\ UNCHANGED << proc, pc, shared_cmd, mutex, runner, outside, connected, locals, asked >>

(* main, from opc_new_sink to init_strip.                                  *)
Setup ==
  /\ At("main", "setup")
  /\ Goto("main", "args")
  /\ UNCHANGED << proc, shared, runner, outside, connected, locals, asked, sigint >>

(* main initialises server_args.                                           *)
SetupArgs ==
  /\ At("main", "args")
  /\ shared_cmd' = 0 /\ interrupted' = 0
  /\ Goto("main", "spawn_ws")
  /\ UNCHANGED << proc, mutex, runner, outside, connected, locals, asked, sigint >>

(* pthread_create.  A failure is only printed: main carries on without     *)
(* that server.                                                            *)
Spawn(t, label, next) ==
  /\ At("main", label)
  /\ \E created \in BOOLEAN :
       pc' = [pc EXCEPT !["main"] = next, ![t] = IF created THEN "start" ELSE @]
  /\ UNCHANGED << proc, shared, runner, outside, connected, locals, asked, sigint >>

SpawnWs    == Spawn("ws", "spawn_ws", "spawn_basic")
SpawnBasic == Spawn("basic", "spawn_basic", "first")

(* init_effect(name): the shell starts a python program, or the            *)
(* constructor runs and may open its data file.                            *)
InitEffect(name) ==
  /\ effect' = name
  /\ python' = python \cup ({name} \cap PythonCmds)
  /\ files'  = files \cup ({name} \cap DataFileEffects)

(* Mutant: remove is free_effect for every effect.                         *)
RemoveHeapOnly == effect' = "freed" /\ UNCHANGED outside

(* effect->remove(effect): python_kill_process kills every python program, *)
(* free_file and free_sunrise close the data file.                         *)
RemoveEffect ==
  /\ effect' = "freed"
  /\ python' = IF effect \in PythonCmds THEN {} ELSE python
  /\ files'  = files \ ({effect} \cap DataFileEffects)

(* Mutant: CLEAR_PIXELS is missing.                                        *)
KeepPixels == UNCHANGED frame

(* CLEAR_PIXELS                                                            *)
ClearPixels == frame' = [p \in Pixels |-> "white"]

(* main: init_effect("scroll"), effect_runner_init, CLEAR_PIXELS.          *)
FirstEffect ==
  /\ At("main", "first")
  /\ InitEffect("scroll") /\ ClearPixels
  /\ Goto("main", "loop")
  /\ UNCHANGED << proc, shared, frame_no, connected, locals, asked, sigint >>

(* while (!sa.interrupted)                                                 *)
MainLoop ==
  /\ At("main", "loop")
  /\ Goto("main", IF interrupted = 1 THEN "cleanup" ELSE "run")
  /\ UNCHANGED << proc, shared, runner, outside, connected, locals, asked, sigint >>

(* frame_no++, kept at NUM_PIXELS: nothing looks beyond that value.        *)
NextFrameNo(n) == IF n < NUM_PIXELS THEN n + 1 ELSE NUM_PIXELS

(* effect->run of the effects that redraw everything.                      *)
RunFrame ==
  /\ At("main", "run") /\ effect \in FrameEffects
  /\ frame' = [p \in Pixels |-> effect]
  /\ frame_no' = NextFrameNo(frame_no)
  /\ Goto("main", "lock")
  /\ UNCHANGED << proc, shared, effect, outside, connected, locals, asked, sigint >>

(* Mutant: > in the place of >=.                                           *)
PixelIndexPastEnd == IF frame_no > NUM_PIXELS THEN 0 ELSE frame_no

(* Where a pixel effect writes: back to 0 after the last pixel.            *)
PixelIndex == IF frame_no >= NUM_PIXELS THEN 0 ELSE frame_no

(* effect->run of the effects that draw the pixel at frame_no, if its data *)
(* can be had.                                                             *)
RunPixel ==
  /\ At("main", "run") /\ effect \in PixelEffects
  /\ \E drawn \in BOOLEAN :
       frame' = IF drawn THEN [frame EXCEPT ![PixelIndex] = effect] ELSE frame
  /\ frame_no' = NextFrameNo(PixelIndex)
  /\ Goto("main", "lock")
  /\ UNCHANGED << proc, shared, effect, outside, connected, locals, asked, sigint >>

(* dummy_python_run: the python program draws, not this process.           *)
RunPython ==
  /\ At("main", "run") /\ effect \in PythonCmds
  /\ frame_no' = NextFrameNo(frame_no)
  /\ Goto("main", "lock")
  /\ UNCHANGED << proc, shared, effect, frame, outside, connected, locals, asked, sigint >>

MainLock == Lock("main", "check")

(* Mutant: >= in the place of >, which takes "nothing asked" for command 0.*)
InTableFromZero(cmd) == cmd >= 0 /\ cmd < NumCommands

(* Is there a command, and is it in the table?                             *)
InTable(cmd) == cmd > 0 /\ cmd < NumCommands

CheckCommand ==
  /\ At("main", "check")
  /\ Goto("main", IF InTable(shared_cmd) THEN "remove" ELSE "unlock")
  /\ UNCHANGED << proc, shared, runner, outside, connected, locals, asked, sigint >>

(* The running effect goes; from here the request counts as taken.         *)
RemoveOld ==
  /\ At("main", "remove")
  /\ RemoveEffect /\ ClearPixels
  /\ asked' = None
  /\ Goto("main", "init")
  /\ UNCHANGED << proc, shared, frame_no, connected, locals, sigint >>

InitNew ==
  /\ At("main", "init")
  /\ InitEffect(commands[shared_cmd])
  /\ frame_no' = 0
  /\ Goto("main", "reset")
  /\ UNCHANGED << proc, shared, frame, connected, locals, asked, sigint >>

(* Mutant: shared_cmd = -1 is missing.                                     *)
ResetForgotten ==
  /\ At("main", "reset")
  /\ Goto("main", "unlock")
  /\ UNCHANGED << proc, shared, runner, outside, connected, locals, asked, sigint >>

(* shared_cmd = -1                                                         *)
ResetCommand ==
  /\ At("main", "reset")
  /\ shared_cmd' = -1
  /\ Goto("main", "unlock")
  /\ UNCHANGED << proc, interrupted, mutex, runner, outside, connected, locals, asked, sigint >>

(* pthread_mutex_unlock                                                    *)
Unlock(t) ==
  /\ At(t, "unlock")
  /\ mutex' = "free"
  /\ Goto(t, "loop")
  /\ UNCHANGED << proc, shared_cmd, interrupted, runner, outside, connected, locals,
                  asked, sigint >>

MainUnlock == Unlock("main")

(* effect_runner_delete.                                                   *)
Cleanup ==
  /\ At("main", "cleanup")
  /\ RemoveEffect
  /\ Goto("main", "join")
  /\ UNCHANGED << proc, shared, frame_no, frame, connected, locals, asked, sigint >>

(* Mutant: the websocket thread is not joined.                             *)
NotJoined == At("main", "join") /\ Exit("ok")

(* pthread_join(server_thread_id) and return.  The basic server is not     *)
(* waited for.  When the websocket thread was never created its id is      *)
(* uninitialised: the call may return or crash.                            *)
Join ==
  /\ At("main", "join")
  /\ \/ pc["ws"] = "ended" /\ Exit("ok")
     \/ pc["ws"] = "unborn" /\ \E status \in {"ok", "failed"} : Exit(status)

(* Without a sink or a pixel list there is no program; an effect whose     *)
(* constructor fails, or an API host that cannot be reached, ends it too.  *)
MainExit ==
  /\ \/ At("main", "setup")
     \/ At("main", "first")
     \/ At("main", "init")
     \/ At("main", "run") /\ effect = "temp_log"
  /\ Exit("failed")

-----------------------------------------------------------------------------
(* Both servers: start_server, the loop test, close_server.                *)
StartServer(s) ==
  /\ At(s, "start")
  /\ Goto(s, "loop")
  /\ UNCHANGED << proc, shared, runner, outside, connected, locals, asked, sigint >>

(* Mutant: while (1) in the place of while (!args->interrupted).           *)
ServeForever(s) ==
  /\ At(s, "loop")
  /\ Goto(s, "poll")
  /\ UNCHANGED << proc, shared, runner, outside, connected, locals, asked, sigint >>

(* while (!args->interrupted)                                              *)
ServerLoop(s) ==
  /\ At(s, "loop")
  /\ Goto(s, IF interrupted = 1 THEN "close" ELSE "poll")
  /\ UNCHANGED << proc, shared, runner, outside, connected, locals, asked, sigint >>

CloseServer(s) ==
  /\ At(s, "close")
  /\ connected' = [connected EXCEPT ![s] = FALSE]
  /\ Goto(s, "ended")
  /\ UNCHANGED << proc, shared, runner, outside, locals, asked, sigint >>

(* try_accept_conn: a client may be waiting; one that the websocket server *)
(* cannot upgrade is closed again in the same poll.                        *)
Accept(s) ==
  /\ At(s, "poll") /\ ~ connected[s]
  /\ \E accepted \in BOOLEAN : connected' = [connected EXCEPT ![s] = accepted]
  /\ Goto(s, "loop")
  /\ UNCHANGED << proc, shared, runner, outside, locals, asked, sigint >>

(* The process-wide exit() calls of the servers: bind or accept fails, a   *)
(* socket reports an error, a request or a frame is malformed.             *)
ServerExit(s) ==
  /\ At(s, "start") \/ At(s, "poll") \/ At(s, "close")
  /\ Exit("failed")

(* What read_ws_frame can return: a control frame gives 0.                 *)
WsReturns == {ToInt8(n) : n \in Numbers} \cup {0, WsGone, WsInvalid}

(* server(): only a positive number is a command; -1 closes the client.    *)
WsPoll ==
  /\ At("ws", "poll") /\ connected["ws"]
  /\ \E read \in WsReturns :
       /\ wsRead' = IF read > 0 THEN read ELSE 0
       /\ connected' = [connected EXCEPT !["ws"] = (read # WsGone)]
       /\ Goto("ws", IF read > 0 THEN "lock" ELSE "loop")
  /\ UNCHANGED << proc, shared, runner, outside, text, default_cmd, asked, sigint >>

WsLock == Lock("ws", "store")

(* The copy in read is dead from here on.                                  *)
WsStore ==
  /\ At("ws", "store")
  /\ shared_cmd' = wsRead /\ asked' = wsRead /\ wsRead' = 0
  /\ Goto("ws", "unlock")
  /\ UNCHANGED << proc, interrupted, mutex, runner, outside, connected, text, default_cmd,
                  sigint >>

(* Mutant: the websocket server's pthread_mutex_unlock is missing.         *)
WsUnlockForgotten ==
  /\ At("ws", "unlock")
  /\ Goto("ws", "loop")
  /\ UNCHANGED << proc, shared, runner, outside, connected, locals, asked, sigint >>

WsUnlock == Unlock("ws")

-----------------------------------------------------------------------------
(* basic_server(): nothing waiting, a client that left, or some text.      *)
BasicPoll ==
  /\ At("basic", "poll") /\ connected["basic"]
  /\ \/ UNCHANGED << connected, text >> /\ Goto("basic", "loop")
     \/ /\ connected' = [connected EXCEPT !["basic"] = FALSE]
        /\ Goto("basic", "loop") /\ UNCHANGED text
     \/ /\ text' \in Numbers \cup {Garbage}
        /\ Goto("basic", "lock") /\ UNCHANGED connected
  /\ UNCHANGED << proc, shared, runner, outside, wsRead, default_cmd, asked, sigint >>

BasicLock == Lock("basic", "eval")

(* The arguments of try_get_command(cmd, args->shared_cmd).                *)
BasicEval ==
  /\ At("basic", "eval")
  /\ default_cmd' = shared_cmd
  /\ Goto("basic", "store")
  /\ UNCHANGED << proc, shared, runner, outside, connected, wsRead, text, asked, sigint >>

(* Garbage stores the default back; a number is cast to int8_t.  The call  *)
(* has returned: its argument is dead from here on.                        *)
BasicStore ==
  /\ At("basic", "store")
  /\ IF text = Garbage
       THEN shared_cmd' = default_cmd /\ UNCHANGED asked
       ELSE shared_cmd' = ToInt8(text) /\ asked' = ToInt8(text)
  /\ default_cmd' = 0
  /\ Goto("basic", "unlock")
  /\ UNCHANGED << proc, interrupted, mutex, runner, outside, connected, wsRead, text, sigint >>

(* pthread_mutex_unlock and clear_buff(cmd).                               *)
BasicUnlock ==
  /\ At("basic", "unlock")
  /\ mutex' = "free" /\ text' = Garbage
  /\ Goto("basic", "loop")
  /\ UNCHANGED << proc, shared_cmd, interrupted, runner, outside, connected, wsRead,
                  default_cmd, asked, sigint >>

-----------------------------------------------------------------------------
(* temp_log's run waits for an HTTP answer with no timeout.                *)
Fetching == At("main", "run") /\ effect = "temp_log"

MainNext ==
  \/ Setup \/ SetupArgs \/ SpawnWs \/ SpawnBasic \/ FirstEffect
  \/ MainLoop \/ RunFrame \/ RunPixel \/ RunPython
  \/ MainLock \/ CheckCommand \/ RemoveOld \/ InitNew \/ ResetCommand \/ MainUnlock
  \/ Cleanup \/ Join \/ MainExit

ServerNext(s) == StartServer(s) \/ ServerLoop(s) \/ CloseServer(s) \/ Accept(s) \/ ServerExit(s)
WsNext    == ServerNext("ws") \/ WsPoll \/ WsLock \/ WsStore \/ WsUnlock
BasicNext == ServerNext("basic") \/ BasicPoll \/ BasicLock \/ BasicEval \/ BasicStore \/ BasicUnlock

(* The process has ended; nothing more happens.                            *)
Ended == proc # "up" /\ UNCHANGED vars

Next == HandleUserExit \/ MainNext \/ WsNext \/ BasicNext \/ Ended

Spec == Init /\ [][Next]_vars

(* make run, again: the operating system has closed the files of the old   *)
(* process, but a python program it started lives on.                      *)
Restart ==
  /\ proc # "up"
  /\ proc' = "up"
  /\ pc' = [t \in Threads |-> IF t = "main" THEN "setup" ELSE "unborn"]
  /\ shared_cmd' = 0 /\ interrupted' = 0 /\ mutex' = "free"
  /\ effect' = "none" /\ frame_no' = 0 /\ ClearPixels
  /\ files' = {} /\ connected' = [s \in Servers |-> FALSE]
  /\ wsRead' = 0 /\ text' = Garbage /\ default_cmd' = 0
  /\ asked' = None /\ sigint' = FALSE
  /\ UNCHANGED python

SpecWithRestart == Init /\ [][Next \/ Restart]_vars

(* Every thread keeps running, except that an HTTP fetch may hang.  A      *)
(* server sleeps a second after each use of the lock, so main, which takes *)
(* it every few milliseconds, cannot be kept out for ever.                 *)
Fairness ==
  /\ WF_vars(~ Fetching /\ MainNext)
  /\ SF_vars(MainLock)
  /\ WF_vars(WsNext)
  /\ WF_vars(BasicNext)

FairSpec == Spec /\ Fairness
=============================================================================
