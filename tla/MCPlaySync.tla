----------------------------- MODULE MCPlaySync -----------------------------
(***************************************************************************)
(* Instances of PlaySync for TLC.  Sessions and credentials are chosen     *)
(* freely and never compared, so they may be permuted in safety runs.      *)
(***************************************************************************)
EXTENDS PlaySync, TLC

Interchangeable == Permutations(Credentials) \union Permutations(Sessions \ Refused)
=============================================================================
