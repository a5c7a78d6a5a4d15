--------------------------- MODULE MCAudioHandoff ---------------------------
(* An instance of AudioHandoff for TLC: two files; every permutation of them *)
(* is a symmetry.  At most five sources exist at a time: current, armed,     *)
(* retired, the one a position reader holds and the one being opened.        *)
EXTENDS AudioHandoff, TLC
CONSTANTS A, B
Symmetry == Permutations(Tracks)
=============================================================================
