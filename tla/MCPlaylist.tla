----------------------------- MODULE MCPlaylist -----------------------------
(* Instances of Playlist for TLC: two files, a disc of one track, two directories of *)
(* which one contains the other.                                                     *)
EXTENDS Playlist
CONSTANTS A, B, T
TwoFiles == {A, B}
OneTrack == <<T>>
NoDisc == <<>>
Nested == {<<A, B>>, <<B>>}
=============================================================================
