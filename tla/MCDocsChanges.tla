---------------------------- MODULE MCDocsChanges ----------------------------
(* Instances of DocsChanges: the configuration binds its bounds. *)
EXTENDS DocsChanges
=============================================================================
