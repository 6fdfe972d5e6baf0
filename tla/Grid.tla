-------------------------------- MODULE Grid --------------------------------
(***************************************************************************)
(* The grid the map is drawn on.                                           *)
(***************************************************************************)
EXTENDS Colours

CONSTANTS
  GRID_WIDTH,          \* columns: 53 in the code
  GRID_HEIGHT          \* rows: 24

ASSUME GridAssumption == GRID_WIDTH \in Nat \ {0} /\ GRID_HEIGHT \in Nat \ {0}

Columns   == 0 .. GRID_WIDTH - 1
Rows      == 0 .. GRID_HEIGHT - 1
GridCells == Columns \X Rows
=============================================================================
