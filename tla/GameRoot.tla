------------------------------ MODULE GameRoot ------------------------------
(***************************************************************************)
(* What one game root promises to the rest of the launcher, without the    *)
(* renames, backups and stagings that keep the promise: Installation       *)
(* implements it, Launcher is built on it.                                 *)
(***************************************************************************)
CONSTANTS Versions, NoVersion

VARIABLES
    active,   \* the version the active marker names
    whole,    \* the versions whose release directory is complete
    present,  \* the versions that have a release directory at all
    phase,    \* what the operation on the root does
    target,   \* the version it installs
    former    \* the version its switch replaced, kept by its cleanup

rootVars == <<active, whole, present, phase, target, former>>

RootTypeOK ==
    /\ active \in Versions \cup {NoVersion}
    /\ whole \subseteq present /\ present \subseteq Versions
    /\ phase \in {"idle", "install", "switched", "uninstall"}
    /\ target \in Versions
    /\ former \in Versions \cup {NoVersion}

RootInit ==
    /\ active = NoVersion
    /\ whole = {} /\ present = {}
    /\ phase = "idle"
    /\ target \in Versions
    /\ former = NoVersion

BeginInstall(v) ==
    /\ phase = "idle"
    /\ phase' = "install" /\ target' = v
    /\ UNCHANGED <<active, whole, present, former>>

\* Only the release that is being installed leaves its place before the switch;
\* a rollback that takes it away or puts it back may be the last step.
TakeAway ==
    /\ phase = "install"
    /\ whole' = whole \ {target} /\ present' = present \ {target}
    /\ phase' \in {"install", "idle"}
    /\ UNCHANGED <<active, target, former>>

\* A complete new tree, or the one that was taken away, possibly incomplete.
PutInPlace ==
    /\ phase = "install"
    /\ present' = present \cup {target}
    /\ whole' \in {whole, whole \cup {target}}
    /\ phase' \in {"install", "idle"}
    /\ UNCHANGED <<active, target, former>>

\* Only a complete release becomes active.
Switch ==
    /\ phase = "install"
    /\ target \in whole
    /\ active' = target
    /\ former' = IF active = target THEN NoVersion ELSE active
    /\ phase' = "switched"
    /\ UNCHANGED <<whole, present, target>>

\* Mutant of Drop: the release the switch replaced goes too.
DropFormer(w) ==
    /\ phase = "switched"
    /\ w # active
    /\ whole' = whole \ {w} /\ present' = present \ {w}
    /\ UNCHANGED <<active, target, phase, former>>

\* The cleanup spares the new release and the one it replaced.
Drop(w) ==
    /\ phase = "switched"
    /\ w \notin {active, former}
    /\ whole' = whole \ {w} /\ present' \in {present, present \ {w}}
    /\ UNCHANGED <<active, target>>
    /\ \/ UNCHANGED <<phase, former>>
       \/ phase' = "idle" /\ former' = NoVersion

BeginUninstall ==
    /\ phase = "idle"
    /\ active # NoVersion
    /\ phase' = "uninstall"
    /\ UNCHANGED <<active, whole, present, target, former>>

Erase ==
    /\ phase = "uninstall"
    /\ \E v \in present : /\ whole' = whole \ {v}
                          /\ present' \in {present, present \ {v}}
    /\ UNCHANGED <<active, phase, target, former>>

EraseMarker ==
    /\ phase = "uninstall"
    /\ active' = NoVersion
    /\ UNCHANGED <<whole, present, phase, target, former>>

\* Done, failed or killed: the phase it ends in tells a caller which.
End ==
    /\ phase # "idle"
    /\ phase' = "idle" /\ former' = NoVersion
    /\ UNCHANGED <<active, whole, present, target>>

RootNext ==
    \/ \E v \in Versions : BeginInstall(v) \/ Drop(v)
    \/ TakeAway \/ PutInPlace \/ Switch
    \/ BeginUninstall \/ Erase \/ EraseMarker
    \/ End

RootSpec == RootInit /\ [][RootNext]_rootVars
=============================================================================
