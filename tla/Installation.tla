---------------------------- MODULE Installation ----------------------------
(***************************************************************************)
(* One game root of the launcher: the directories `releases/<v>`,          *)
(* `.launcher/staging/<v>`, `.launcher/trash/<v>` and the marker           *)
(* `.launcher/active.json`, as the download and import operations of       *)
(* GameInstallationService, the activation of installation.rs and the      *)
(* directory exchange of the local-storage crate change them.              *)
(*                                                                         *)
(* Every rename, marker write and tree removal is a step of its own that   *)
(* may fail, and the launcher may be killed between any two of them        *)
(* (Stop): the directories survive, the operation does not.  A directory   *)
(* tree is a member of Copies, so that an old and a new tree of the same   *)
(* version differ; a tree that is not known to be complete (half removed,  *)
(* half written) is in `torn`.                                             *)
(***************************************************************************)
EXTENDS Naturals

CONSTANTS Versions,   \* the release versions, as numbers in version order
          NoVersion,  \* no active marker
          Copies,     \* identities of directory trees
          NoCopy,     \* no directory at a path
          Kinds       \* the stagings in use: "download", "import"

ASSUME VersionsAssumption == Versions \subseteq Nat /\ NoVersion \notin Versions
ASSUME CopiesAssumption   == NoCopy \notin Copies
ASSUME KindsAssumption    == Kinds \subseteq {"download", "import"}

VARIABLES
    releases,  \* releases/<version>
    staging,   \* .launcher/staging/<version> and .../import-<version>
    trash,     \* .launcher/trash/<version>, the rollback backup
    marker,    \* the version .launcher/active.json names
    torn,      \* the trees that are not complete
    pc,        \* what the operation of the worker does next
    kind,      \* which staging the operation uses
    ver,       \* the version it installs
    previous,  \* the marker it read before it switched
    had,       \* it moved an existing release to the backup
    \* What was promised, for the properties only:
    live,      \* the tree the last marker write made the active release
    prior      \* the tree that was active before it, kept for the user

storage   == <<releases, staging, trash, marker, torn>>
operation == <<kind, ver, previous, had>>
promise   == <<live, prior>>
vars      == <<storage, pc, operation, promise>>

Slots       == Kinds \X Versions
MaybeCopy   == Copies \cup {NoCopy}
MaybeVersion == Versions \cup {NoVersion}
Steps == {"idle", "assemble", "activate", "backup", "move", "commit",
          "unmove", "restore", "clean", "uninstall"}

Slot  == <<kind, ver>>
Occupied == {c \in Copies : \/ \E v \in Versions : releases[v] = c \/ trash[v] = c
                            \/ \E s \in Slots : staging[s] = c}

\* The tree a new attempt fills in a slot: the one it finds there, or a new one.
Fresh(c) == IF c = NoCopy THEN Copies \ Occupied ELSE {c}

(* require_no_backup: any directory under trash blocks cleanup and discard *)
NoBackup == \A v \in Versions : trash[v] = NoCopy

Init ==
    /\ releases = [v \in Versions |-> NoCopy]
    /\ staging = [s \in Slots |-> NoCopy]
    /\ trash = [v \in Versions |-> NoCopy]
    /\ marker = NoVersion
    /\ torn = {}
    /\ pc = "idle"
    /\ kind \in Kinds /\ ver \in Versions /\ previous = NoVersion /\ had = FALSE
    /\ live = NoCopy /\ prior = NoCopy

(***************************************************************************)
(* Staging.                                                                *)
(***************************************************************************)

\* install: the staging directory is made, or found as an earlier attempt
\* left it, and the files are assembled into it one by one.
StartInstall(v) ==
    /\ pc = "idle" /\ "download" \in Kinds
    /\ \E c \in Fresh(staging[<<"download", v>>]) :
         /\ staging' = [staging EXCEPT ![<<"download", v>>] = c]
         /\ torn' = torn \cup {c}
    /\ pc' = "assemble" /\ kind' = "download" /\ ver' = v
    /\ had' = FALSE /\ previous' = NoVersion
    /\ UNCHANGED <<releases, trash, marker, promise>>

\* importExisting: what an earlier import of the version left is discarded
\* first, which an unresolved backup refuses.
StartImport(v) ==
    /\ pc = "idle" /\ "import" \in Kinds
    /\ NoBackup
    /\ \E c \in Fresh(staging[<<"import", v>>]) :
         /\ staging' = [staging EXCEPT ![<<"import", v>>] = c]
         /\ torn' = torn \cup {c}
    /\ pc' = "assemble" /\ kind' = "import" /\ ver' = v
    /\ had' = FALSE /\ previous' = NoVersion
    /\ UNCHANGED <<releases, trash, marker, promise>>

\* Every file was written under its verified hash.
Assembled ==
    /\ pc = "assemble"
    /\ torn' = torn \ {staging[Slot]}
    /\ pc' = "activate"
    /\ UNCHANGED <<releases, staging, trash, marker, operation, promise>>

\* A download, a copy or an assembly failed: the partial staging stays for
\* the next attempt.
StagingFails ==
    /\ pc = "assemble"
    /\ pc' = "idle"
    /\ UNCHANGED <<storage, operation, promise>>

\* A cancelled download and a failed import discard their staging, unless a
\* backup is unresolved; the tree is torn already, so that a removal that
\* stops halfway is StagingFails.
DiscardStaging ==
    /\ pc = "assemble"
    /\ NoBackup
    /\ staging' = [staging EXCEPT ![Slot] = NoCopy]
    /\ torn' = torn \ {staging[Slot]}
    /\ pc' = "idle"
    /\ UNCHANGED <<releases, trash, marker, operation, promise>>

(***************************************************************************)
(* replace_directory with the marker write as its commit.                  *)
(***************************************************************************)

\* Mutant of Activate: an unresolved backup is not looked at.
ActivateOverBackup ==
    /\ pc = "activate"
    /\ previous' = marker
    /\ had' = (releases[ver] # NoCopy)
    /\ pc' = IF releases[ver] # NoCopy THEN "backup" ELSE "move"
    /\ UNCHANGED <<storage, kind, ver, promise>>

\* activate reads the marker, then replace_directory refuses to start over
\* an unresolved backup of the version.
Activate ==
    /\ pc = "activate"
    /\ trash[ver] = NoCopy
    /\ previous' = marker
    /\ had' = (releases[ver] # NoCopy)
    /\ pc' = IF releases[ver] # NoCopy THEN "backup" ELSE "move"
    /\ UNCHANGED <<storage, kind, ver, promise>>

ActivateRefused ==
    /\ pc = "activate"
    /\ trash[ver] # NoCopy
    /\ pc' = "idle"
    /\ UNCHANGED <<storage, operation, promise>>

BackupTarget ==
    /\ pc = "backup"
    /\ trash' = [trash EXCEPT ![ver] = releases[ver]]
    /\ releases' = [releases EXCEPT ![ver] = NoCopy]
    /\ pc' = "move"
    /\ UNCHANGED <<staging, marker, torn, operation, promise>>

MoveStaged ==
    /\ pc = "move"
    /\ releases' = [releases EXCEPT ![ver] = staging[Slot]]
    /\ staging' = [staging EXCEPT ![Slot] = NoCopy]
    /\ pc' = "commit"
    /\ UNCHANGED <<trash, marker, torn, operation, promise>>

MoveStagedFails ==
    /\ pc = "move"
    /\ pc' = IF had THEN "restore" ELSE "idle"
    /\ UNCHANGED <<storage, operation, promise>>

\* The fallback of obsolete_releases when the switch kept the version.
HighestOlder(w) ==
    /\ w \in Versions /\ w < ver /\ releases[w] # NoCopy
    /\ \A u \in Versions : u < ver /\ releases[u] # NoCopy => u <= w

\* write_atomic replaces the marker in one rename.
Commit ==
    /\ pc = "commit"
    /\ marker' = ver
    /\ live' = releases[ver]
    /\ prior' = CASE marker # ver -> live
                  [] marker = ver /\ \E w \in Versions : HighestOlder(w) /\ releases[w] = prior
                       -> prior
                  [] OTHER -> NoCopy
    /\ pc' = "clean"
    /\ UNCHANGED <<releases, staging, trash, torn, operation>>

CommitFails ==
    /\ pc = "commit"
    /\ pc' = "unmove"
    /\ UNCHANGED <<storage, operation, promise>>

\* Roll back: the new release returns to staging, then the old one returns
\* from the backup.
ReturnToStaging ==
    /\ pc = "unmove"
    /\ staging' = [staging EXCEPT ![Slot] = releases[ver]]
    /\ releases' = [releases EXCEPT ![ver] = NoCopy]
    /\ pc' = IF had THEN "restore" ELSE "idle"
    /\ UNCHANGED <<trash, marker, torn, operation, promise>>

RestoreBackup ==
    /\ pc = "restore"
    /\ releases' = [releases EXCEPT ![ver] = trash[ver]]
    /\ trash' = [trash EXCEPT ![ver] = NoCopy]
    /\ pc' = "idle"
    /\ UNCHANGED <<staging, marker, torn, operation, promise>>

(***************************************************************************)
(* The cleanup after the commit; its failure is only a warning.            *)
(***************************************************************************)

\* Mutant of Kept: only the version order counts.
KeptBelow(w) == HighestOlder(w)

\* What obsolete_releases keeps beside the new version.
Kept(w) == IF previous # NoVersion /\ previous # ver THEN w = previous
           ELSE HighestOlder(w)

Obsolete == {w \in Versions : releases[w] # NoCopy /\ w # ver /\ ~Kept(w)}

RemoveObsolete(w) ==
    /\ pc = "clean"
    /\ w \in Obsolete
    /\ \A u \in Obsolete : u <= w
    /\ releases' = [releases EXCEPT ![w] = NoCopy]
    /\ torn' = torn \ {releases[w]}
    /\ UNCHANGED <<staging, trash, marker, pc, operation, promise>>

\* A removal that stops halfway leaves what it had not deleted yet.
TearObsolete(w) ==
    /\ pc = "clean"
    /\ w \in Obsolete
    /\ \A u \in Obsolete : u <= w
    /\ torn' = torn \cup {releases[w]}
    /\ pc' = "idle"
    /\ UNCHANGED <<releases, staging, trash, marker, operation, promise>>

RemoveBackup ==
    /\ pc = "clean"
    /\ Obsolete = {}
    /\ trash' = [trash EXCEPT ![ver] = NoCopy]
    /\ torn' = torn \ {trash[ver]}
    /\ pc' = "idle"
    /\ UNCHANGED <<releases, staging, marker, operation, promise>>

\* Mutant of TearBackup: a backup that is not there is removed.
TearMissingBackup ==
    /\ pc = "clean"
    /\ Obsolete = {}
    /\ torn' = torn \cup {trash[ver]}
    /\ pc' = "idle"
    /\ UNCHANGED <<releases, staging, trash, marker, operation, promise>>

TearBackup ==
    /\ pc = "clean"
    /\ Obsolete = {}
    /\ trash[ver] # NoCopy
    /\ torn' = torn \cup {trash[ver]}
    /\ pc' = "idle"
    /\ UNCHANGED <<releases, staging, trash, marker, operation, promise>>

\* The launcher is killed, a check before a rename or the first pass of
\* remove_all fails, or a rollback rename fails: the operation is over and
\* the directories stay as they are.
Stop ==
    /\ pc # "idle"
    /\ pc' = "idle"
    /\ UNCHANGED <<storage, operation, promise>>

(***************************************************************************)
(* The user's other operations.                                            *)
(***************************************************************************)

\* cleanup: refused without an active release or with a backup; its removal
\* may stop halfway.
CleanupTemporary ==
    /\ pc = "idle"
    /\ marker # NoVersion
    /\ releases[marker] # NoCopy
    /\ NoBackup
    /\ \E left \in SUBSET {s \in Slots : staging[s] # NoCopy} :
         /\ staging' = [s \in Slots |-> IF s \in left THEN staging[s] ELSE NoCopy]
         /\ torn' = (torn \ {staging[s] : s \in Slots \ left}) \cup {staging[s] : s \in left}
    /\ UNCHANGED <<releases, trash, marker, pc, operation, promise>>

\* uninstall removes the whole root, in the order the directory is read.
StartUninstall ==
    /\ pc = "idle"
    /\ marker # NoVersion
    /\ pc' = "uninstall"
    /\ live' = NoCopy /\ prior' = NoCopy
    /\ UNCHANGED <<storage, operation>>

RemoveTree(c) ==
    /\ pc = "uninstall"
    /\ c \in Occupied
    /\ \/ /\ releases' = [v \in Versions |-> IF releases[v] = c THEN NoCopy ELSE releases[v]]
          /\ trash' = [v \in Versions |-> IF trash[v] = c THEN NoCopy ELSE trash[v]]
          /\ staging' = [s \in Slots |-> IF staging[s] = c THEN NoCopy ELSE staging[s]]
          /\ torn' = torn \ {c}
       \/ torn' = torn \cup {c} /\ UNCHANGED <<releases, trash, staging>>
    /\ UNCHANGED <<marker, pc, operation, promise>>

RemoveMarker ==
    /\ pc = "uninstall"
    /\ marker' = NoVersion
    /\ UNCHANGED <<releases, staging, trash, torn, pc, operation, promise>>

Uninstalled ==
    /\ pc = "uninstall"
    /\ Occupied = {} /\ marker = NoVersion
    /\ pc' = "idle"
    /\ UNCHANGED <<storage, operation, promise>>

Worker ==
    \/ Assembled \/ StagingFails \/ DiscardStaging
    \/ Activate \/ ActivateRefused \/ BackupTarget \/ MoveStaged \/ MoveStagedFails
    \/ Commit \/ CommitFails \/ ReturnToStaging \/ RestoreBackup
    \/ \E w \in Versions : RemoveObsolete(w) \/ TearObsolete(w)
    \/ RemoveBackup \/ TearBackup
    \/ (\E c \in Copies : RemoveTree(c)) \/ RemoveMarker \/ Uninstalled

User ==
    \/ \E v \in Versions : StartInstall(v) \/ StartImport(v)
    \/ CleanupTemporary
    \/ StartUninstall

Next == Worker \/ User \/ Stop

Spec == Init /\ [][Next]_vars

(***************************************************************************)
(* Properties                                                              *)
(***************************************************************************)

\* Every variable keeps its type; in particular no step marks a path without a
\* tree as torn.
TypeOK ==
    /\ releases \in [Versions -> MaybeCopy]
    /\ staging \in [Slots -> MaybeCopy]
    /\ trash \in [Versions -> MaybeCopy]
    /\ marker \in MaybeVersion
    /\ torn \subseteq Copies
    /\ pc \in Steps
    /\ kind \in Kinds /\ ver \in Versions /\ previous \in MaybeVersion /\ had \in BOOLEAN
    /\ live \in MaybeCopy /\ prior \in MaybeCopy

\* The release a marker write committed survives every failure and every kill
\* until the next commit: complete, as the release the marker names or as its
\* backup (replace_directory's rollback, require_no_backup, obsolete_releases).
CommittedReleaseKept ==
    live # NoCopy =>
        /\ marker # NoVersion
        /\ live \notin torn
        /\ releases[marker] = live \/ trash[marker] = live

\* The release that was active before the last switch is still complete too
\* (obsolete_releases keeps it, or the highest older one after a repair).
PreviousReleaseKept ==
    prior # NoCopy =>
        /\ prior \notin torn
        /\ \E v \in Versions : releases[v] = prior \/ trash[v] = prior

\* Outside of an uninstallation, a backup leaves the trash only back to the
\* release it was taken from, or once the release that replaced it is committed.
BackupResolved ==
    [][\A v \in Versions :
         trash[v] # NoCopy /\ trash'[v] # trash[v] /\ pc # "uninstall" =>
            releases'[v] = trash[v] \/ (marker = v /\ releases[v] = live)]_vars

(***************************************************************************)
(* What the launcher sees of a root: the directories that are in place,    *)
(* and how far the operation on it came.                                   *)
(***************************************************************************)

Present == {v \in Versions : releases[v] # NoCopy}

Root == INSTANCE GameRoot WITH
    active  <- marker,
    present <- Present,
    whole   <- {v \in Present : releases[v] \notin torn},
    phase   <- CASE pc \in {"idle", "uninstall"} -> pc
                 [] pc = "clean" -> "switched"
                 [] OTHER -> "install",
    target  <- ver,
    former  <- IF pc = "clean" /\ previous # ver THEN previous ELSE NoVersion

\* The renames, the backups and their rollback implement the root the rest of
\* the launcher relies on: only a complete release is switched to, and only
\* the release being replaced is ever missing (activate, replace_directory).
RootImplemented == Root!RootSpec
=============================================================================
