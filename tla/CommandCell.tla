----------------------------- MODULE CommandCell -----------------------------
(***************************************************************************)
(* What the control path of effect_runner promises, without its threads,   *)
(* its lock or its register: there is at most one outstanding request, a   *)
(* newer one replaces it, and an effect starts only by consuming the       *)
(* outstanding request, once.  EffectRunner implements it.                 *)
(***************************************************************************)
EXTENDS Effects

CONSTANT None          \* no request is outstanding

VARIABLES
  pending,             \* the newest number a client asked for, or None
  running              \* the effect on the display; "none" before the first
                       \* one and after the last

cellVars == << pending, running >>

CellInit == pending = None /\ running = "none"

(* The display comes up with the scroller.                                 *)
Boot == /\ running = "none"
        /\ running' = "scroll"
        /\ UNCHANGED pending

(* A client asks for v.                                                    *)
Request(v) == /\ pending' = v
              /\ UNCHANGED running

(* The outstanding request becomes the running effect and is used up.      *)
Take == /\ pending \in Runnable
        /\ running' = commands[pending]
        /\ pending' = None

(* The display is switched off.                                            *)
Stop == /\ running # "none"
        /\ running' = "none"
        /\ UNCHANGED pending

CellNext == Boot \/ Take \/ Stop \/ \E v \in Int8 : Request(v)

CellSpec == CellInit /\ [][CellNext]_cellVars
=============================================================================
