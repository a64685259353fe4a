--------------------------- MODULE MCInstallation ---------------------------
(* Installation with a few versions and one tree per path there is.        *)
EXTENDS Installation

CONSTANTS MaxVersion, MaxCopies

MCVersions == 1..MaxVersion
MCCopies   == 1..MaxCopies
MCNoCopy   == 0

\* Trees are told apart only by what the properties say of them.  TypeOK is part of the view
\* because its evaluation makes TLC store every function of the state explicitly.
Label(c) == CASE c = NoCopy -> "none"
              [] c = live   -> "live"
              [] c = prior  -> "prior"
              [] c \in torn -> "torn"
              [] OTHER      -> "whole"

InstallationView ==
    <<TypeOK,
      [v \in Versions |-> Label(releases[v])], [v \in Versions |-> Label(trash[v])],
      [s \in Slots |-> Label(staging[s])], live \in torn, prior \in torn,
      marker, pc, operation, live = NoCopy, prior = NoCopy>>
=============================================================================
