-------------------------- MODULE EffectRunnerProps --------------------------
(***************************************************************************)
(* What the threads of EffectRunner must and must not do together.         *)
(***************************************************************************)
EXTENDS EffectRunner

(* Every variable stays in its C type's range or its small domain.         *)
TypeOK ==
  /\ proc \in {"up", "ok", "failed"}
  /\ pc \in [Threads -> MainLabels \cup ServerLabels]
  /\ pc["main"] \in MainLabels
  /\ \A s \in Servers : pc[s] \in ServerLabels
  /\ shared_cmd \in Int8 /\ interrupted \in {0, 1} /\ mutex \in Threads \cup {"free"}
  /\ effect \in EffectNames \cup {"none", "freed"}
  /\ frame_no \in 0 .. NUM_PIXELS
  /\ frame \in [Pixels -> EffectNames \cup {"white"}]
  /\ files \subseteq DataFileEffects /\ python \subseteq PythonCmds
  /\ connected \in [Servers -> BOOLEAN]
  /\ wsRead \in Int8 /\ text \in Numbers \cup {Garbage} /\ default_cmd \in Int8
  /\ asked \in Int8 \cup {None} /\ sigint \in BOOLEAN

(* The points at which a thread is between pthread_mutex_lock and unlock.  *)
InCritical(t) ==
  pc[t] \in IF t = "main" THEN {"check", "remove", "init", "reset", "unlock"}
                          ELSE {"eval", "store", "unlock"}

(* The mutex is held exactly by the thread inside: main's read of the      *)
(* command, its switch of effect and its reset, and each server's update,  *)
(* exclude each other.                                                     *)
MutexOwnsCritical == \A t \in Threads : InCritical(t) <=> mutex = t

(* A request stays in shared_cmd until main takes it or a client asks for  *)
(* something else: garbage from the basic client, stored back as           *)
(* try_get_command's default, does not disturb it.  And what main acts on  *)
(* is the outstanding request, so no request is run twice.                 *)
RequestIntact ==
  /\ asked # None => shared_cmd = asked
  /\ pc["main"] = "remove" => asked = shared_cmd
  /\ pc["main"] \in {"remove", "init"} => shared_cmd \in Runnable

(* An open data file or a running python program belongs to the effect on  *)
(* the display: each remove releases what its constructor took, whatever   *)
(* the order of commands.                                                  *)
OwnedByEffect ==
  /\ files = {effect} \cap DataFileEffects
  /\ python = {effect} \cap PythonCmds

(* No run writes outside the frame, whatever frame_no the effect before it *)
(* left: the pixel effects go back to 0 in time, and alltest, which writes *)
(* pixels[frame_no] unchecked while main never stops counting, is kept out *)
(* by the test of the command.                                             *)
WriteIndex == IF effect \in PixelEffects THEN PixelIndex ELSE frame_no
FrameIndexInBounds ==
  pc["main"] = "run" /\ effect \in PixelEffects \cup {"alltest"} => WriteIndex \in Pixels

(* After a switch the frame holds nothing drawn by the previous effect,    *)
(* although pixel effects redraw only one pixel per run.                   *)
NoStalePixels ==
  pc["main"] # "join" => \A p \in Pixels : frame[p] \in {"white", effect}

(* A program that ends with success has closed its files, killed its       *)
(* python program and let the websocket server close its client.           *)
CleanEnd ==
  proc = "ok" => files = {} /\ python = {} /\ ~ connected["ws"]

(* The control path promises no more and no less than CommandCell: the     *)
(* request is taken when the old effect is removed.                        *)
Running ==
  CASE pc["main"] = "init" -> commands[shared_cmd]
    [] pc["main"] = "join" -> "none"
    [] OTHER               -> effect

Cell == INSTANCE CommandCell WITH pending <- asked, running <- Running
ImplementsCell == Cell!CellSpec

(* A command in the table is taken or overtaken by a newer one, unless the *)
(* program ends or an HTTP fetch hangs for ever.                           *)
HungFetch == <>[]Fetching
Requests == {ToInt8(n) : n \in Numbers} \cap Runnable
RequestServed ==
  HungFetch \/ \A c \in Requests : (asked = c) ~> (asked # c \/ proc # "up")

(* Once main has initialised server_args, an interrupt ends the program,   *)
(* whatever the servers are doing with their clients and the lock.         *)
InterruptStops ==
  HungFetch \/ ((interrupted = 1 /\ pc["main"] \notin {"setup", "args"}) ~> (proc # "up"))

-----------------------------------------------------------------------------
(* Claims of the code's texts that it does not keep.                       *)

(* handle_user_exit, effect_runner.c:52, "Interrupted, cleaning up": an    *)
(* interrupt that was handled ends the program.                            *)
InterruptHonoured == HungFetch \/ (sigint ~> (proc # "up"))

(* effect_runner.c:97, "THIS NEEDS KILLING BEFORE THE NEXT EFFECT RUNS":   *)
(* no python program is left when another effect runs, in this start of    *)
(* the program or in the next.                                             *)
PythonKilledFirst ==
  proc = "up" /\ pc["main"] = "run" => python \subseteq {effect}
=============================================================================
