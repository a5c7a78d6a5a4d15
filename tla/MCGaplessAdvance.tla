-------------------------- MODULE MCGaplessAdvance --------------------------
(* Instances of GaplessAdvance for TLC: playlists of two and three rows. *)
EXTENDS GaplessAdvance, TLC
CONSTANTS A, B, C
OneRow == <<A>>
TwoRows == <<A, B>>
ThreeRows == <<A, B, C>>
=============================================================================
