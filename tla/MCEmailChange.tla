---------------------------- MODULE MCEmailChange ----------------------------
(* Instances of EmailChange: the configuration binds its bounds. *)
EXTENDS EmailChange, TLC

\* Dispatchers are alike.
Interchangeable == Permutations(Workers)
=============================================================================
