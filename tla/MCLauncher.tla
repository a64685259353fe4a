----------------------------- MODULE MCLauncher -----------------------------
(* Launcher with the versions 1..MaxVersion. *)
EXTENDS Launcher

CONSTANT MaxVersion

MCVersions == 1..MaxVersion
=============================================================================
