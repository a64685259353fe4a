------------------------- MODULE MCMusicPublication -------------------------
(* Instances of MusicPublication: the configurations bind their bounds. *)
EXTENDS MusicPublication
=============================================================================
