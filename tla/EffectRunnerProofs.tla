-------------------------- MODULE EffectRunnerProofs --------------------------
(***************************************************************************)
(* What EffectRunner keeps for every display size and every set of typed   *)
(* numbers.  Five invariants are stacked, each inductive once the ones     *)
(* before it are known: LockInv (who is inside the mutex), TypeInv (the    *)
(* types), RequestInv (shared_cmd against the outstanding request),        *)
(* EffectInv (what the effect on the display owns) and EndInv (how the     *)
(* process ends).  The safety properties and the refinement of CommandCell *)
(* follow from them.                                                       *)
(***************************************************************************)
EXTENDS EffectRunnerProps, TLAPS

(* commands[] has ten names (demo.sh says seven).                          *)
LEMMA NumCommandsIsTen == NumCommands = 10
  BY DEF NumCommands, CommandNames

(* A number main accepts names an effect other than alltest, number 0.     *)
LEMMA RunnableNames ==
  \A c \in Runnable : commands[c] \in EffectNames /\ commands[c] # "alltest"
<1> SUFFICES ASSUME NEW c \in Runnable
             PROVE  commands[c] \in EffectNames /\ commands[c] # "alltest"
  OBVIOUS
<1>1. c \in 1 .. 9
  BY NumCommandsIsTen DEF Runnable
<1>2. commands[c] = CommandNames[c + 1]
  BY <1>1, NumCommandsIsTen DEF commands
<1>3. CommandNames[c + 1] # "alltest"
  BY <1>1 DEF CommandNames
<1>4. c + 1 \in 1 .. NumCommands
  BY <1>1, NumCommandsIsTen
<1> QED
  BY <1>2, <1>3, <1>4 DEF EffectNames

(* The cast (int8_t) of strtol's long gives an int8_t.                     *)
LEMMA CastInRange == \A n \in Int : ToInt8(n) \in Int8
  BY DEF ToInt8, Int8

-----------------------------------------------------------------------------
(* Layer 1.  Which thread is where, and who holds the mutex.               *)
LockInv ==
  /\ pc \in [Threads -> MainLabels \cup ServerLabels]
  /\ pc["main"] \in MainLabels
  /\ \A s \in Servers : pc[s] \in ServerLabels
  /\ mutex \in Threads \cup {"free"}
  /\ pc["main"] \in {"setup", "args", "spawn_ws"} => pc["ws"] = "unborn"
  /\ pc["main"] \in {"setup", "args", "spawn_ws", "spawn_basic"} => pc["basic"] = "unborn"
  /\ MutexOwnsCritical

(* Before any thread starts, nobody is inside.                             *)
LEMMA LockInvInit == Init => LockInv
  BY DEF Init, LockInv, MutexOwnsCritical, InCritical, Threads, Servers, MainLabels, ServerLabels

(* Each lock and unlock moves the mutex with the thread; a server is       *)
(* created once, so pthread_create never restarts one that holds it.       *)
LEMMA LockInvStep == LockInv /\ [Next]_vars => LockInv'
<1> SUFFICES ASSUME LockInv, [Next]_vars PROVE LockInv'
  OBVIOUS
<1> USE DEF LockInv, MutexOwnsCritical, InCritical, Threads, Servers, MainLabels, ServerLabels,
            At, Goto, shared
<1>1. CASE UNCHANGED << pc, mutex >>
  BY <1>1
<1>2. CASE Setup \/ SetupArgs \/ FirstEffect \/ MainLoop \/ RunFrame \/ RunPixel \/ RunPython
  BY <1>2 DEF Setup, SetupArgs, FirstEffect, MainLoop, RunFrame, RunPixel, RunPython
<1>3. CASE SpawnWs \/ SpawnBasic
  BY <1>3 DEF SpawnWs, SpawnBasic, Spawn
<1>4. CASE MainLock \/ WsLock \/ BasicLock
  BY <1>4 DEF MainLock, WsLock, BasicLock, Lock, WhenUnlocked
<1>5. CASE CheckCommand \/ RemoveOld \/ InitNew \/ ResetCommand \/ Cleanup
  BY <1>5 DEF CheckCommand, InTable, RemoveOld, InitNew, ResetCommand, Cleanup
<1>6. CASE MainUnlock \/ WsUnlock \/ BasicUnlock
  BY <1>6 DEF MainUnlock, WsUnlock, BasicUnlock, Unlock
<1>7. CASE WsPoll \/ WsStore
  BY <1>7 DEF WsPoll, WsStore
<1>8. CASE BasicPoll \/ BasicEval \/ BasicStore
  BY <1>8 DEF BasicPoll, BasicEval, BasicStore
<1>9. ASSUME NEW s \in Servers, StartServer(s) \/ ServerLoop(s) \/ CloseServer(s) \/ Accept(s)
      PROVE  LockInv'
  BY <1>9 DEF StartServer, ServerLoop, CloseServer, Accept
<1>10. HandleUserExit \/ Join \/ MainExit \/ Ended \/ (\E s \in Servers : ServerExit(s))
         => UNCHANGED << pc, mutex >>
  BY DEF HandleUserExit, Join, MainExit, Ended, ServerExit, Exit, vars
<1> QED
  BY <1>1, <1>2, <1>3, <1>4, <1>5, <1>6, <1>7, <1>8, <1>9, <1>10
     DEF Next, MainNext, WsNext, BasicNext, ServerNext, vars

(* The three uses of server_args.mutex exclude each other, whatever the    *)
(* threads do: main's switch of effect is never cut by a server's update.  *)
THEOREM LockExcludes == Spec => []MutexOwnsCritical
<1>1. LockInv => MutexOwnsCritical
  BY DEF LockInv
<1> QED
  BY <1>1, LockInvInit, LockInvStep, PTL DEF Spec

-----------------------------------------------------------------------------
(* Layer 2.  Types.  The effect InitNew starts is a name because main read *)
(* its number under the lock and nobody has written shared_cmd since.      *)
TypeInv ==
  /\ TypeOK
  /\ pc["main"] \in {"remove", "init", "reset"} => shared_cmd \in Runnable

(* Every number main can accept fits in shared_cmd, and so do 0 and -1.    *)
LEMMA RunnableIsInt8 == Runnable \subseteq Int8 /\ 0 \in Int8 /\ -1 \in Int8
  BY NumCommandsIsTen DEF Runnable, Int8

(* What read_ws_frame returns is an int8_t.                                *)
LEMMA WsReturnsInt8 == WsReturns \subseteq Int8
  BY CastInRange, NumbersAssumption DEF WsReturns, WsGone, WsInvalid, Int8

(* The classes of effects are names of commands[], and the scroller holds  *)
(* neither a data file nor a python program.                               *)
LEMMA EffectSets ==
  /\ PixelEffects \subseteq EffectNames /\ FrameEffects \subseteq EffectNames
  /\ "scroll" \in EffectNames /\ "scroll" \notin DataFileEffects \cup PythonCmds
<1>1. \A i \in 1 .. 10 : CommandNames[i] \in EffectNames
  BY NumCommandsIsTen DEF EffectNames
<1>2. /\ CommandNames[1] = "alltest" /\ CommandNames[2] = "temp_timelapse"
      /\ CommandNames[3] = "sun" /\ CommandNames[7] = "scroll" /\ CommandNames[8] = "1test"
      /\ CommandNames[9] = "temp_log" /\ CommandNames[10] = "image"
  BY DEF CommandNames
<1> QED
  BY <1>1, <1>2 DEF PixelEffects, FrameEffects, DataFileEffects, PythonCmds

(* A process that has just started is well typed.                          *)
LEMMA TypeInvInit == Init => TypeInv
<1> SUFFICES ASSUME Init PROVE TypeInv
  OBVIOUS
<1>1. /\ pc \in [Threads -> MainLabels \cup ServerLabels] /\ pc["main"] = "setup"
      /\ \A s \in Servers : pc[s] \in ServerLabels
  BY DEF Init, Threads, Servers, MainLabels, ServerLabels
<1>2. frame \in [Pixels -> EffectNames \cup {"white"}] /\ connected \in [Servers -> BOOLEAN]
  BY DEF Init
<1>3. frame_no \in 0 .. NUM_PIXELS
  BY NumPixelsAssumption DEF Init
<1> QED
  BY <1>1, <1>2, <1>3, RunnableIsInt8 DEF Init, TypeInv, TypeOK, MainLabels, Threads

(* The types are kept by every step, given who holds the mutex.            *)
LEMMA TypeInvStep == LockInv /\ LockInv' /\ TypeInv /\ [Next]_vars => TypeInv'
<1> SUFFICES ASSUME LockInv, LockInv', TypeInv, [Next]_vars PROVE TypeInv'
  OBVIOUS
<1> USE NumPixelsAssumption DEF TypeInv, At, Goto, shared, runner, outside, locals
<1>0. /\ pc' \in [Threads -> MainLabels \cup ServerLabels]
      /\ pc'["main"] \in MainLabels
      /\ \A s \in Servers : pc'[s] \in ServerLabels
      /\ mutex' \in Threads \cup {"free"}
  BY DEF LockInv
<1>1. CASE UNCHANGED vars
  BY <1>1 DEF vars, TypeOK
<1>2. CASE Setup \/ SpawnWs \/ SpawnBasic \/ MainLoop
  BY <1>0, <1>2 DEF Setup, SpawnWs, SpawnBasic, Spawn, MainLoop, TypeOK, Threads, Servers
<1>3. CASE SetupArgs \/ HandleUserExit
  BY <1>0, <1>3, RunnableIsInt8 DEF SetupArgs, HandleUserExit, TypeOK, Threads, Servers
<1>4. CASE FirstEffect
  BY <1>0, <1>4, EffectSets DEF FirstEffect, InitEffect, ClearPixels, TypeOK, Threads, Servers
<1>5. CASE RunFrame \/ RunPixel \/ RunPython
  BY <1>0, <1>5, EffectSets DEF RunFrame, RunPixel, PixelIndex, RunPython, NextFrameNo, TypeOK, Pixels, Threads, Servers
<1>6. CASE MainLock \/ WsLock \/ BasicLock \/ MainUnlock \/ WsUnlock \/ BasicUnlock
  BY <1>0, <1>6 DEF MainLock, WsLock, BasicLock, Lock, MainUnlock, WsUnlock, BasicUnlock, Unlock, TypeOK, Threads, Servers
<1>7. CASE CheckCommand
  BY <1>0, <1>7, NumCommandsIsTen DEF CheckCommand, InTable, TypeOK, Threads, Servers, Runnable, Int8
<1>8. CASE RemoveOld \/ Cleanup
  BY <1>0, <1>8 DEF RemoveOld, Cleanup, RemoveEffect, ClearPixels, TypeOK, Threads, Servers
<1>9. CASE InitNew
  BY <1>0, <1>9, RunnableNames DEF InitNew, InitEffect, TypeOK, Threads, Servers
<1>10. CASE ResetCommand
  BY <1>0, <1>10, RunnableIsInt8 DEF ResetCommand, TypeOK, Threads, Servers
<1>11. CASE Join \/ MainExit \/ \E s \in Servers : ServerExit(s)
  BY <1>0, <1>11 DEF Join, MainExit, ServerExit, Exit, TypeOK
<1>12. ASSUME NEW s \in Servers, StartServer(s) \/ ServerLoop(s) \/ CloseServer(s) \/ Accept(s)
       PROVE  TypeInv'
  <2>1. pc'["main"] = pc["main"]
    BY <1>12 DEF StartServer, ServerLoop, CloseServer, Accept, LockInv, Threads, Servers
  <2>2. connected' \in [Servers -> BOOLEAN]
    BY <1>12 DEF StartServer, ServerLoop, CloseServer, Accept, TypeOK
  <2> QED
    BY <1>0, <1>12, <2>1, <2>2 DEF StartServer, ServerLoop, CloseServer, Accept, TypeOK
<1>13. CASE WsPoll
  BY <1>0, <1>13, WsReturnsInt8, RunnableIsInt8 DEF WsPoll, TypeOK, Threads, Servers
<1>14. CASE BasicPoll \/ BasicEval
  BY <1>0, <1>14 DEF BasicPoll, BasicEval, TypeOK, Threads, Servers
<1>15. CASE WsStore \/ BasicStore
  <2>1. pc["main"] \notin {"remove", "init", "reset"}
    BY <1>15 DEF WsStore, BasicStore, LockInv, MutexOwnsCritical, InCritical, Threads, Servers
  <2>2. text # Garbage => ToInt8(text) \in Int8
    BY CastInRange, NumbersAssumption DEF TypeOK
  <2> QED
    BY <1>0, <1>15, <2>1, <2>2, RunnableIsInt8 DEF WsStore, BasicStore, TypeOK, Threads, Servers
<1> QED
  BY <1>1, <1>2, <1>3, <1>4, <1>5, <1>6, <1>7, <1>8, <1>9, <1>10, <1>11, <1>12, <1>13, <1>14, <1>15
     DEF Next, MainNext, WsNext, BasicNext, ServerNext, Ended, Servers

(* Every variable keeps its C type's range: in particular a number too     *)
(* large for shared_cmd arrives there cast, from both servers.             *)
THEOREM TypeCorrect == Spec => []TypeOK
<1>1. TypeInv => TypeOK
  BY DEF TypeInv
<1> QED
  BY <1>1, LockInvInit, LockInvStep, TypeInvInit, TypeInvStep, PTL DEF Spec

-----------------------------------------------------------------------------
(* Layer 3.  The register and the outstanding request.  A number in the    *)
(* table sits in shared_cmd only while it is outstanding or being started, *)
(* and the default that garbage stores back is the value under the lock.   *)
RequestInv ==
  /\ pc["main"] \in {"setup", "args"} => asked = None
  /\ asked # None => shared_cmd = asked
  /\ shared_cmd \in Runnable => asked = shared_cmd \/ pc["main"] \in {"init", "reset"}
  /\ pc["main"] \in {"init", "reset"} => asked = None
  /\ pc["basic"] = "store" => default_cmd = shared_cmd

(* At the start nothing is asked and shared_cmd is out of main's range.    *)
LEMMA RequestInvInit == Init => RequestInv
  BY NumCommandsIsTen DEF Init, RequestInv, Threads, Servers, Runnable

(* Only the thread inside the mutex touches the register, so the default   *)
(* read for garbage is still the value, and main's reset drops nothing.    *)
LEMMA RequestInvStep ==
  LockInv /\ TypeInv /\ RequestInv /\ [Next]_vars => RequestInv'
<1> SUFFICES ASSUME LockInv, TypeInv, RequestInv, [Next]_vars PROVE RequestInv'
  OBVIOUS
<1> USE DEF RequestInv, LockInv, MutexOwnsCritical, InCritical, Threads, Servers, At, Goto,
            shared, locals
<1>1. CASE UNCHANGED << pc, shared_cmd, asked, default_cmd >>
  BY <1>1
<1>2. CASE Setup \/ SpawnWs \/ SpawnBasic \/ FirstEffect \/ MainLoop \/ RunFrame \/ RunPixel
           \/ RunPython \/ Cleanup
  BY <1>2 DEF Setup, SpawnWs, SpawnBasic, Spawn, FirstEffect, MainLoop, RunFrame, RunPixel,
              RunPython, Cleanup
<1>3. CASE SetupArgs \/ ResetCommand
  BY <1>3, NumCommandsIsTen DEF SetupArgs, ResetCommand, Runnable
<1>4. CASE MainLock \/ WsLock \/ BasicLock
  BY <1>4 DEF MainLock, WsLock, BasicLock, Lock, WhenUnlocked
<1>5. CASE MainUnlock \/ WsUnlock \/ BasicUnlock
  BY <1>5 DEF MainUnlock, WsUnlock, BasicUnlock, Unlock
<1>6. CASE CheckCommand \/ RemoveOld \/ InitNew
  BY <1>6 DEF CheckCommand, InTable, RemoveOld, InitNew
<1>7. CASE WsPoll \/ BasicPoll \/ BasicEval
  BY <1>7 DEF WsPoll, BasicPoll, BasicEval
<1>8. CASE WsStore \/ BasicStore
  BY <1>8 DEF WsStore, BasicStore
<1>9. ASSUME NEW s \in Servers, StartServer(s) \/ ServerLoop(s) \/ CloseServer(s) \/ Accept(s)
      PROVE  RequestInv'
  BY <1>9 DEF StartServer, ServerLoop, CloseServer, Accept
<1>10. HandleUserExit \/ Join \/ MainExit \/ Ended \/ (\E s \in Servers : ServerExit(s))
         => UNCHANGED << pc, shared_cmd, asked, default_cmd >>
  BY DEF HandleUserExit, Join, MainExit, Ended, ServerExit, Exit, vars
<1> QED
  BY <1>1, <1>2, <1>3, <1>4, <1>5, <1>6, <1>7, <1>8, <1>9, <1>10
     DEF Next, MainNext, WsNext, BasicNext, ServerNext, vars

(* Layers 1 to 3 hold in every reachable state.                            *)
LEMMA RequestInvAlways == Spec => [](LockInv /\ TypeInv /\ RequestInv)
  BY LockInvInit, LockInvStep, TypeInvInit, TypeInvStep, RequestInvInit, RequestInvStep, PTL
     DEF Spec

(* A request stays in shared_cmd until main takes it or a newer one comes, *)
(* and main acts only on an outstanding request in the table.              *)
THEOREM RequestKept == Spec => []RequestIntact
<1>1. TypeInv /\ RequestInv => RequestIntact
  BY DEF TypeInv, RequestInv, RequestIntact
<1> QED
  BY <1>1, RequestInvAlways, PTL

-----------------------------------------------------------------------------
(* Layer 4.  What the effect on the display owns: its file or program, and *)
(* the pixels that are not white.                                          *)
BeforeFirst == {"setup", "args", "spawn_ws", "spawn_basic", "first"}

EffectInv ==
  /\ OwnedByEffect
  /\ effect = "none"  <=> pc["main"] \in BeforeFirst
  /\ effect = "freed" <=> pc["main"] \in {"init", "join"}
  /\ effect # "alltest"
  /\ pc["main"] \in BeforeFirst \cup {"init"} => \A p \in Pixels : frame[p] = "white"
  /\ NoStalePixels

(* Before the first effect nothing is open and the frame is white.         *)
LEMMA EffectInvInit == Init => EffectInv
  BY DEF Init, EffectInv, OwnedByEffect, NoStalePixels, BeforeFirst, Threads, DataFileEffects, PythonCmds

(* The two markers of effect, none and freed, are no names of commands[].  *)
LEMMA NamesAreEffects == "none" \notin EffectNames /\ "freed" \notin EffectNames
<1>1. \A i \in 1 .. 10 : CommandNames[i] # "none" /\ CommandNames[i] # "freed"
  BY DEF CommandNames
<1> QED
  BY <1>1, NumCommandsIsTen DEF EffectNames

(* A constructor takes exactly what the matching remove gives back, and    *)
(* the frame is cleared before another effect draws.                       *)
LEMMA EffectInvStep == LockInv /\ TypeInv /\ EffectInv /\ [Next]_vars => EffectInv'
<1> SUFFICES ASSUME LockInv, TypeInv, EffectInv, [Next]_vars PROVE EffectInv'
  OBVIOUS
<1> USE DEF EffectInv, LockInv, OwnedByEffect, NoStalePixels, BeforeFirst, Threads, Servers, At, Goto,
            runner, outside
<1>1. CASE pc'["main"] = pc["main"] /\ UNCHANGED << effect, frame, files, python >>
  BY <1>1
<1>2. CASE Setup \/ SetupArgs \/ SpawnWs \/ SpawnBasic \/ MainLoop \/ MainLock \/ CheckCommand
           \/ ResetCommand \/ MainUnlock
  BY <1>2 DEF Setup, SetupArgs, SpawnWs, SpawnBasic, Spawn, MainLoop, MainLock, Lock, CheckCommand,
              ResetCommand, MainUnlock, Unlock
<1>3. CASE FirstEffect
  BY <1>3 DEF FirstEffect, InitEffect, ClearPixels, DataFileEffects, PythonCmds
<1>4. CASE RunFrame
  BY <1>4 DEF RunFrame
<1>5. CASE RunPixel
  <2>1. \A p \in Pixels : frame'[p] \in {frame[p], effect}
    BY <1>5 DEF RunPixel, TypeInv, TypeOK
  <2> QED
    BY <1>5, <2>1 DEF RunPixel
<1>6. CASE RunPython
  BY <1>6 DEF RunPython
<1>7. CASE RemoveOld \/ Cleanup
  BY <1>7 DEF RemoveOld, Cleanup, RemoveEffect, ClearPixels, DataFileEffects, PythonCmds
<1>8. CASE InitNew
  <2>1. /\ commands[shared_cmd] \in EffectNames
        /\ commands[shared_cmd] \notin {"alltest", "none", "freed"}
    BY <1>8, RunnableNames, NamesAreEffects DEF InitNew, TypeInv
  <2> QED
    BY <1>8, <2>1 DEF InitNew, InitEffect, DataFileEffects, PythonCmds
<1>9. ASSUME HandleUserExit \/ Join \/ MainExit \/ Ended \/ UNCHANGED vars
      PROVE  pc'["main"] = pc["main"] /\ UNCHANGED << effect, frame, files, python >>
  BY <1>9 DEF HandleUserExit, Join, MainExit, Ended, Exit, vars
<1>10. ASSUME NEW s \in Servers, ServerNext(s)
       PROVE  pc'["main"] = pc["main"] /\ UNCHANGED << effect, frame, files, python >>
  BY <1>10 DEF ServerNext, StartServer, ServerLoop, CloseServer, Accept, ServerExit, Exit
<1>11. ASSUME WsPoll \/ WsLock \/ WsStore \/ WsUnlock
       PROVE  pc'["main"] = pc["main"] /\ UNCHANGED << effect, frame, files, python >>
  BY <1>11 DEF WsPoll, WsLock, WsStore, WsUnlock, Lock, Unlock
<1>12. ASSUME BasicPoll \/ BasicLock \/ BasicEval \/ BasicStore \/ BasicUnlock
       PROVE  pc'["main"] = pc["main"] /\ UNCHANGED << effect, frame, files, python >>
  BY <1>12 DEF BasicPoll, BasicLock, BasicEval, BasicStore, BasicUnlock, Lock
<1> QED
  BY <1>1, <1>2, <1>3, <1>4, <1>5, <1>6, <1>7, <1>8, <1>9, <1>10, <1>11, <1>12
     DEF Next, MainNext, WsNext, BasicNext

(* Layers 1 to 4 hold in every reachable state.                            *)
LEMMA EffectInvAlways == Spec => [](LockInv /\ TypeInv /\ RequestInv /\ EffectInv)
  BY RequestInvAlways, EffectInvInit, EffectInvStep, PTL DEF Spec

(* An open data file or a running python program belongs to the effect on  *)
(* the display, whatever sequence of commands the clients send.            *)
THEOREM ResourcesOwned == Spec => []OwnedByEffect
<1>1. EffectInv => OwnedByEffect
  BY DEF EffectInv
<1> QED
  BY <1>1, EffectInvAlways, PTL

(* No run of an effect writes outside the frame, for every display size;   *)
(* alltest's unchecked pixels[frame_no] is never reached.                  *)
THEOREM FrameIndexSafe == Spec => []FrameIndexInBounds
<1>1. ASSUME TypeInv, EffectInv PROVE FrameIndexInBounds
  <2>1. frame_no \in 0 .. NUM_PIXELS /\ effect # "alltest"
    BY <1>1 DEF TypeInv, TypeOK, EffectInv
  <2>2. PixelIndex \in Pixels
    BY <2>1, NumPixelsAssumption DEF PixelIndex, Pixels
  <2> QED
    BY <2>1, <2>2 DEF FrameIndexInBounds, WriteIndex
<1> QED
  BY <1>1, EffectInvAlways, PTL

(* No pixel of a removed effect is left for the next one.                  *)
THEOREM FrameFresh == Spec => []NoStalePixels
<1>1. EffectInv => NoStalePixels
  BY DEF EffectInv
<1> QED
  BY <1>1, EffectInvAlways, PTL

-----------------------------------------------------------------------------
(* Layer 5.  The end: success only after main has removed its effect and   *)
(* the websocket thread has closed its client, or never had one.           *)
EndInv ==
  /\ pc["ws"] \in {"unborn", "start", "ended"} => ~ connected["ws"]
  /\ proc = "ok" => pc["main"] = "join" /\ pc["ws"] \in {"unborn", "ended"}

(* A process that has just started has not ended and has no client.        *)
LEMMA EndInvInit == Init => EndInv
  BY DEF Init, EndInv, Threads, Servers

(* main returns only after its join with the websocket thread.             *)
LEMMA EndInvStep == LockInv /\ TypeInv /\ EndInv /\ [Next]_vars => EndInv'
<1> SUFFICES ASSUME LockInv, TypeInv, EndInv, [Next]_vars PROVE EndInv'
  OBVIOUS
<1> USE DEF EndInv, LockInv, TypeInv, TypeOK, Threads, Servers, At, Goto
<1>1. CASE UNCHANGED << pc, connected, proc >>
  BY <1>1
<1>2. CASE MainNext /\ ~ (Join \/ MainExit)
  BY <1>2 DEF MainNext, Setup, SetupArgs, SpawnWs, SpawnBasic, Spawn, FirstEffect, MainLoop,
              RunFrame, RunPixel, RunPython, MainLock, Lock, CheckCommand, RemoveOld, InitNew,
              ResetCommand, MainUnlock, Unlock, Cleanup
<1>3. CASE Join \/ MainExit
  BY <1>3 DEF Join, MainExit, Exit
<1>4. ASSUME NEW s \in Servers, StartServer(s) \/ ServerLoop(s)
      PROVE  EndInv'
  BY <1>4 DEF StartServer, ServerLoop
<1>5. ASSUME NEW s \in Servers, CloseServer(s) \/ Accept(s)
      PROVE  EndInv'
  BY <1>5 DEF CloseServer, Accept
<1>6. ASSUME NEW s \in Servers, ServerExit(s)
      PROVE  EndInv'
  BY <1>6 DEF ServerExit, Exit
<1>7. CASE WsPoll \/ WsLock \/ WsStore \/ WsUnlock
  BY <1>7 DEF WsPoll, WsLock, WsStore, WsUnlock, Lock, Unlock
<1>8. CASE BasicPoll \/ BasicLock \/ BasicEval \/ BasicStore \/ BasicUnlock
  BY <1>8 DEF BasicPoll, BasicLock, BasicEval, BasicStore, BasicUnlock, Lock
<1>9. HandleUserExit \/ Ended => UNCHANGED << pc, connected, proc >>
  BY DEF HandleUserExit, Ended, vars
<1> QED
  BY <1>1, <1>2, <1>3, <1>4, <1>5, <1>6, <1>7, <1>8, <1>9
     DEF Next, WsNext, BasicNext, ServerNext, vars

(* A program that returns EXIT_SUCCESS has closed its data file, killed    *)
(* its python program and closed the websocket client.                     *)
THEOREM EndsClean == Spec => []CleanEnd
<1>1. EndInv /\ EffectInv /\ TypeInv => CleanEnd
  BY DEF EndInv, EffectInv, OwnedByEffect, CleanEnd, DataFileEffects, PythonCmds
<1> QED
  BY <1>1, EffectInvAlways, EndInvInit, EndInvStep, PTL DEF Spec

-----------------------------------------------------------------------------
(* The refinement of CommandCell: RemoveOld is its Take, FirstEffect its   *)
(* Boot, Cleanup its Stop, a store of a number its Request, and every      *)
(* other step leaves the request and the running effect alone.             *)
(* The initial states of EffectRunner map to those of CommandCell.         *)
LEMMA CellInitHolds == Init => Cell!CellInit
  BY DEF Init, Cell!CellInit, Running, Threads

(* Every step of EffectRunner maps to a step of CommandCell or a stutter.  *)
LEMMA CellStep ==
  LockInv /\ TypeInv /\ RequestInv /\ EffectInv /\ [Next]_vars => [Cell!CellNext]_(Cell!cellVars)
<1> SUFFICES ASSUME LockInv, TypeInv, RequestInv, EffectInv, [Next]_vars
             PROVE  [Cell!CellNext]_(Cell!cellVars)
  OBVIOUS
<1> USE DEF LockInv, MutexOwnsCritical, InCritical, Threads, Servers, At, Goto, shared, runner,
            Running, Cell!cellVars
<1>1. CASE FirstEffect
  <2>1. Cell!Boot
    BY <1>1 DEF FirstEffect, InitEffect, EffectInv, BeforeFirst, Cell!Boot
  <2> QED
    BY <2>1 DEF Cell!CellNext
<1>2. CASE RemoveOld
  <2>1. Cell!Take
    BY <1>2 DEF RemoveOld, TypeInv, RequestInv, Cell!Take, Cell!Runnable, Cell!commands, Runnable, commands,
                NumCommands, CommandNames, Cell!NumCommands, Cell!CommandNames
  <2> QED
    BY <2>1 DEF Cell!CellNext
<1>3. CASE Cleanup
  <2>1. Cell!Stop
    BY <1>3 DEF Cleanup, EffectInv, BeforeFirst, Cell!Stop
  <2> QED
    BY <2>1 DEF Cell!CellNext
<1>4. CASE WsStore
  <2>1. wsRead \in Int8 /\ Cell!Request(wsRead)
    BY <1>4 DEF WsStore, TypeInv, TypeOK, Cell!Request
  <2> QED
    BY <2>1 DEF Cell!CellNext, Cell!Int8, Int8
<1>5. CASE BasicStore /\ text # Garbage
  <2>1. ToInt8(text) \in Int8 /\ Cell!Request(ToInt8(text))
    BY <1>5, CastInRange, NumbersAssumption DEF BasicStore, TypeInv, TypeOK, Cell!Request
  <2> QED
    BY <2>1 DEF Cell!CellNext, Cell!Int8, Int8
<1>6. CASE BasicStore /\ text = Garbage
  BY <1>6 DEF BasicStore
<1>7. CASE InitNew
  BY <1>7 DEF InitNew, InitEffect
<1>8. CASE Setup \/ SetupArgs \/ SpawnWs \/ SpawnBasic \/ MainLoop \/ RunFrame \/ RunPixel
           \/ RunPython \/ MainLock \/ CheckCommand \/ ResetCommand \/ MainUnlock
  BY <1>8 DEF Setup, SetupArgs, SpawnWs, SpawnBasic, Spawn, MainLoop, RunFrame, RunPixel, RunPython,
              MainLock, Lock, CheckCommand, ResetCommand, MainUnlock, Unlock
<1>9. ASSUME NEW s \in Servers, ServerNext(s)
      PROVE  UNCHANGED << asked, Running >>
  BY <1>9 DEF ServerNext, StartServer, ServerLoop, CloseServer, Accept, ServerExit, Exit
<1>10. CASE WsPoll \/ WsLock \/ WsUnlock \/ BasicPoll \/ BasicLock \/ BasicEval \/ BasicUnlock
  BY <1>10 DEF WsPoll, WsLock, WsUnlock, BasicPoll, BasicLock, BasicEval, BasicUnlock, Lock, Unlock
<1>11. CASE HandleUserExit \/ Join \/ MainExit \/ Ended \/ UNCHANGED vars
  BY <1>11 DEF HandleUserExit, Join, MainExit, Ended, Exit, vars
<1> QED
  BY <1>1, <1>2, <1>3, <1>4, <1>5, <1>6, <1>7, <1>8, <1>9, <1>10, <1>11
     DEF Next, MainNext, WsNext, BasicNext

(* The threads, the lock and the 8-bit register implement a cell with at   *)
(* most one outstanding request, which is run once.                        *)
THEOREM CellImplemented == Spec => ImplementsCell
  BY CellInitHolds, CellStep, EffectInvAlways, PTL DEF Spec, ImplementsCell, Cell!CellSpec
=============================================================================
