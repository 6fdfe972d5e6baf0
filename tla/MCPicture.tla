----------------------------- MODULE MCPicture ------------------------------
(***************************************************************************)
(* Picture for TLC: every map of three pixels on two strips, drawn on a    *)
(* grid of three columns and two rows.                                     *)
(***************************************************************************)
EXTENDS PictureProps, TLC

MCStripSize == (0 :> 2) @@ (1 :> 1)
MCSlots == {[channel |-> c, num |-> n] : c \in {0, 1}, n \in {0, 1}} \ {[channel |-> 1, num |-> 1]}
MCMaps ==
  {m \in UNION {[D -> MCSlots] : D \in kSubset(3, GridCells)} :
     \A c, d \in DOMAIN m : m[c] = m[d] => c = d}
MCEffects == {"scroll", "image", "1test", "alltest"}
=============================================================================
