---------------------------- MODULE PixelLayout -----------------------------
(***************************************************************************)
(* Where the pixels are: the map drawn in WorldMap.csv, the files that     *)
(* csv_to_layout.py makes of it, the list main builds from them, and the   *)
(* two ways between a picture on the grid and a frame.  A row of a file    *)
(* is a record, in the order of its lines.                                 *)
(***************************************************************************)
EXTENDS Grid, SequencesExt

CONSTANTS
  NUM_STRIPS,          \* 8 in the code
  strip_size,          \* the pixels of each strip
  NUM_PIXELS,          \* 471, the sum of strip_size
  Maps,                \* the maps drawn: which [channel, num] is in a cell
  MaxGeoRows,          \* bound: rows of the geolocation file
  Unknown, Garbage     \* -1, and memory that was never written

Strips == 0 .. NUM_STRIPS - 1

(* The pixels of the strips before strip c.                                *)
Offset[c \in 0 .. NUM_STRIPS] == IF c = 0 THEN 0 ELSE Offset[c - 1] + strip_size[c - 1]

(* The strips are as long as strip_size says, and no two cells share a     *)
(* pixel: WorldMap.csv holds each of the 471 numbers once.                 *)
ASSUME LayoutAssumption ==
  /\ NUM_STRIPS \in Nat /\ strip_size \in [Strips -> Nat]
  /\ NUM_PIXELS = Offset[NUM_STRIPS] /\ MaxGeoRows \in Nat
  /\ \A m \in Maps :
       /\ DOMAIN m \subseteq GridCells
       /\ m \in [DOMAIN m -> [channel : Strips, num : 0 .. NUM_PIXELS - 1]]
       /\ \A c, d \in DOMAIN m : m[c] = m[d] => c = d
       /\ \A k \in Strips : {m[c].num : c \in {d \in DOMAIN m : m[d].channel = k}}
                              = 0 .. strip_size[k] - 1

(* A pixel_info_t.                                                         *)
Place == {"latitude"} \X (0 .. MaxGeoRows)
PixelInfo == [grid : GridCells, geo : Place \cup {Unknown},
              strip : [channel : Strips, num : 0 .. NUM_PIXELS - 1] \cup {Unknown}]

ASSUME UnknownAssumption == Unknown \notin Place \cup PixelInfo

VARIABLES
  map,                 \* the map drawn
  geoRows,             \* rows of geolocation.txt, which no code here writes
  loading,             \* "grid", "geo", "strip" or "done"
  at,                  \* rows of the file already taken
  pixel_info           \* the list

layoutVars == << map, geoRows, loading, at, pixel_info >>

-----------------------------------------------------------------------------
(* The members of S, each after as many as are less.                       *)
Counted(S, Less(_, _)) ==
  [i \in 1 .. Cardinality(S) |-> CHOOSE c \in S : Cardinality({d \in S : Less(d, c)}) = i - 1]

(* csv_to_layout.py: row by row and cell by cell, counting.                *)
Before(c, d) == c[2] < d[2] \/ (c[2] = d[2] /\ c[1] < d[1])

Scan(m) == Counted(DOMAIN m, Before)

Row(a, b, count) == [first |-> a, second |-> b, pos |-> count]
coordinates == LET s == Scan(map) IN [i \in DOMAIN s |-> Row(s[i][1], s[i][2], i - 1)]
strip_config ==
  LET s == Scan(map) IN [i \in DOMAIN s |-> Row(map[s[i]].channel, map[s[i]].num, i - 1)]

(* The points of WorldMap.json, which the display numbers: the cells strip *)
(* by strip.                                                               *)
InStripOrder(c, d) ==
  map[c].channel < map[d].channel \/ (map[c].channel = map[d].channel /\ map[c].num < map[d].num)
Points == Counted(DOMAIN map, InStripOrder)

(* geolocation.txt gives positions in order, for as many as it has.        *)
geolocation == [i \in 1 .. geoRows |-> Row("latitude", i - 1, i - 1)]

-----------------------------------------------------------------------------
LayoutInit ==
  /\ map \in Maps /\ geoRows \in 0 .. MaxGeoRows
  /\ loading = "grid" /\ at = 0 /\ pixel_info = << >>

list_get(p) == IF p < Len(pixel_info) THEN pixel_info[p + 1] ELSE Unknown

(* One row of coordinates.txt: a new pixel goes to the end of the list,    *)
(* whatever position its row gives.                                        *)
init_grid ==
  /\ loading = "grid" /\ at < Len(coordinates)
  /\ LET row == coordinates[at + 1]
         xy  == << row.first, row.second >>
     IN pixel_info' = IF list_get(row.pos) = Unknown
                        THEN Append(pixel_info, [grid |-> xy, geo |-> Unknown, strip |-> Unknown])
                        ELSE [pixel_info EXCEPT ![row.pos + 1].grid = xy]
  /\ at' = at + 1
  /\ UNCHANGED << map, geoRows, loading >>

(* One row of geolocation.txt for a pixel of the list.                     *)
init_geo ==
  /\ loading = "geo" /\ at < Len(geolocation)
  /\ LET row == geolocation[at + 1] IN
     /\ list_get(row.pos) # Unknown
     /\ pixel_info' = [pixel_info EXCEPT ![row.pos + 1].geo = << row.first, row.second >>]
  /\ at' = at + 1
  /\ UNCHANGED << map, geoRows, loading >>

(* Mutant: the strip goes to the pixel after the one named.                *)
StripTarget1(p) == (p + 1) % Len(pixel_info)

StripTarget(p) == p

init_strip ==
  /\ loading = "strip" /\ at < Len(strip_config)
  /\ LET row == strip_config[at + 1]
         p   == StripTarget(row.pos)
     IN /\ list_get(p) # Unknown
        /\ pixel_info' = [pixel_info EXCEPT ![p + 1].strip =
                            [channel |-> row.first, num |-> row.second]]
  /\ at' = at + 1
  /\ UNCHANGED << map, geoRows, loading >>

(* The file ends, or names a pixel that is not in the list: that makes     *)
(* init_geo and init_strip return 1, and main goes on either way.          *)
FileRows ==
  IF loading = "grid" THEN coordinates ELSE IF loading = "geo" THEN geolocation ELSE strip_config
Ends == at < Len(FileRows) => loading # "grid" /\ list_get(FileRows[at + 1].pos) = Unknown
Following(l) == IF l = "grid" THEN "geo" ELSE IF l = "geo" THEN "strip" ELSE "done"
NextFile ==
  /\ loading # "done" /\ Ends
  /\ loading' = Following(loading) /\ at' = 0
  /\ UNCHANGED << map, geoRows, pixel_info >>

Load == init_grid \/ init_geo \/ init_strip \/ NextFile

-----------------------------------------------------------------------------
(* get_pos: the last pixel of the list in a cell, -1 if there is none.     *)
get_pos(cell) ==
  SelectLastInSeq(pixel_info, LAMBDA pi : pi.grid = cell) - 1

(* read_grid_to_list: the frame, with the cells of the picture that have   *)
(* a pixel copied into it.                                                 *)
read_grid_to_list(pixels, grid) ==
  [p \in 0 .. NUM_PIXELS - 1 |->
     LET here == {c \in GridCells : get_pos(c) = p}
     IN  IF here = {} THEN pixels[p]
         ELSE LET c == CHOOSE d \in here : TRUE IN grid[c[1]][c[2]]]

(* opc_put_pixel_list: the pixels of the list go to their strips, and the  *)
(* strips behind each other, each strip_size long, to the display.         *)
(* Mutant: the strips overlap by one pixel.                                *)
SlotOfTight(i) ==
  LET c == CHOOSE k \in Strips : Offset[k] <= i /\ i < Offset[k + 1]
  IN  [channel |-> c, num |-> IF c > 0 THEN i - Offset[c] + 1 ELSE i]

SlotOf(i) ==
  LET c == CHOOSE k \in Strips : Offset[k] <= i /\ i < Offset[k + 1]
  IN  [channel |-> c, num |-> i - Offset[c]]

InList(slot) == SelectLastInSeq(pixel_info, LAMBDA pi : pi.strip = slot) - 1
pixel_list_organised(pixels) ==
  [i \in 0 .. NUM_PIXELS - 1 |->
     LET p == InList(SlotOf(i)) IN IF p < 0 THEN Garbage ELSE pixels[p]]
=============================================================================
