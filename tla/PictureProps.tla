---------------------------- MODULE PictureProps ----------------------------
(***************************************************************************)
(* What the layout and the effects promise of the picture people see.      *)
(***************************************************************************)
EXTENDS Picture

(* Each pixel of the list is the one its position names in all the files,  *)
(* as far as they are read: main never mixes the grid cell, the place on a *)
(* strip or the place on earth of two pixels, though it appends to a list  *)
(* and counts on the order of the lines, and however many lines the file   *)
(* of the places has.                                                      *)
LoadedInPlace ==
  \A p \in 0 .. Len(pixel_info) - 1 :
    LET pi == pixel_info[p + 1]
        c  == Scan(map)[p + 1]
    IN /\ pi.grid = c
       /\ pi.strip \in {Unknown, map[c]}
       /\ pi.geo \in {Unknown, << "latitude", p >>}
       /\ loading = "done" => pi.strip = map[c] /\ (pi.geo # Unknown <=> p < geoRows)

(* The colour an effect means a cell of the map to have in its kth frame.  *)
Scanned(c) == CHOOSE p \in 0 .. NUM_PIXELS - 1 : Scan(map)[p + 1] = c
Meant(by, k, c) ==
  CASE by = "scroll"  -> Tape(k + c[1])[c[2]]
    [] by = "image"   -> White
    [] by = "1test"   -> IF Scanned(c) = 0 THEN White ELSE Grey
    [] by = "alltest" -> IF Scanned(c) = k THEN White ELSE Grey

(* At each point of the display is the colour that the effect means for    *)
(* the cell the point was drawn in, through the file, the list, the grid,  *)
(* the frame and the strips: no pixel is swapped, shifted or left          *)
(* unwritten.                                                              *)
PictureShown ==
  sentBy # Nobody =>
    \A i \in 0 .. NUM_PIXELS - 1 : display[i] = Meant(sentBy.by, sentBy.frame, Points[i + 1])

(* While the scroller is on, its picture is a window on the tape.          *)
ScrollerOnTape == effect = "scroll" => WindowOnTape

(* Types: a frame holds colours only, and every pixel has its strip once   *)
(* the layout is loaded.                                                   *)
TypeOK ==
  /\ loading \in {"grid", "geo", "strip", "done"} /\ at \in 0 .. NUM_PIXELS + MaxGeoRows
  /\ Len(pixel_info) <= NUM_PIXELS
  /\ effect \in DrawnBy \cup {"none"} /\ frame_no \in 0 .. MaxFrames
  /\ pixels \in [0 .. NUM_PIXELS - 1 -> Colours]
  /\ sentBy # Nobody => display \in [0 .. NUM_PIXELS - 1 -> Colours]
  /\ pixel_grid \in [Columns -> [Rows -> Colours]] /\ pos \in 0 .. BuffWidth - 1
=============================================================================
