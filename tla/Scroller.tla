------------------------------ MODULE Scroller ------------------------------
(***************************************************************************)
(* The picture of effects/scroller.c and the buffer that is moved into it  *)
(* from the right, column by column.  A column is a function of its rows.  *)
(***************************************************************************)
EXTENDS Grid

CONSTANTS
  BuffWidth,           \* columns of the buffer: 100 in the code
  ShadeFrom, ShadeTo   \* the buffer's shaded columns: from 60 to before 85

ASSUME ScrollerAssumption ==
  /\ BuffWidth \in Nat /\ BuffWidth > GRID_WIDTH
  /\ ShadeFrom \in 0 .. BuffWidth - 1 /\ ShadeTo \in ShadeFrom .. BuffWidth

(* Mutant: the shade keeps its value beyond a byte.                        *)
ShadeNoCast(x) == x * (255 \div (BuffWidth - ShadeFrom))

(* The shade of a column of the buffer, as a uint8_t.                      *)
Shade(x) == (x * (255 \div (BuffWidth - ShadeFrom))) % 256
BuffColour(x) == IF x \in ShadeFrom .. ShadeTo - 1 THEN Colour(255, 0, Shade(x)) ELSE Purple
BuffGrid == [x \in 0 .. BuffWidth - 1 |-> [y \in Rows |-> BuffColour(x)]]

VARIABLES
  pixel_grid,          \* the picture: a function of columns
  pos,                 \* buff->pos, the next column of the buffer
  shifts               \* history: how often the picture was shifted

scrollVars == << pixel_grid, pos, shifts >>

(* get_scroller_effect.                                                    *)
AllOf(colour) == [x \in Columns |-> [y \in Rows |-> colour]]
ScrollInit == pixel_grid = AllOf(Purple) /\ pos = 0 /\ shifts = 0

(* Mutant: the buffer starts again one column late.                        *)
NextPosLate(p) == IF p > BuffWidth - 1 THEN 0 ELSE p + 1

(* A buffer wider than the picture starts again after its last column.     *)
NextPos(p) ==
  LET q == p + 1 IN
  IF (q = BuffWidth /\ BuffWidth > GRID_WIDTH) \/ (q = GRID_WIDTH /\ BuffWidth < GRID_WIDTH)
    THEN 0 ELSE q

(* A buffer that has run out lets the leftmost column in on the right.     *)
RightColumn == IF pos < BuffWidth THEN BuffGrid[pos] ELSE pixel_grid[0]

shift_columns ==
  /\ pixel_grid' = [x \in Columns |->
                      IF x = GRID_WIDTH - 1 THEN RightColumn ELSE pixel_grid[x + 1]]
  /\ pos' = NextPos(pos)
  /\ shifts' = shifts + 1

ScrollSpec == ScrollInit /\ [][shift_columns]_scrollVars

-----------------------------------------------------------------------------
(* What is scrolled: a purple picture and then the buffer, over and over.  *)
Tape(j) == IF j < GRID_WIDTH THEN [y \in Rows |-> Purple]
           ELSE BuffGrid[(j - GRID_WIDTH) % BuffWidth]

(* The picture is the window of GRID_WIDTH columns of the tape that begins *)
(* at the number of shifts: no column is lost, repeated or out of the      *)
(* buffer at the seam of two laps, however long the program scrolls.       *)
WindowOnTape ==
  /\ pos = shifts % BuffWidth
  /\ \A x \in Columns : pixel_grid[x] = Tape(shifts + x)
=============================================================================
