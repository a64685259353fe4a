------------------------------ MODULE Publication ------------------------------
(***************************************************************************)
(* The game releases of one distribution bucket: what pandd-publisher      *)
(* writes (services/deployment_publisher/src/storage.rs, `upload`) and     *)
(* what its cleanup deletes (src/gc.rs, `plan` and `remote`).              *)
(*                                                                         *)
(* A release is its manifest and the content-addressed chunks it names.    *)
(* Both are immutable: an object that exists is never written again, so    *)
(* its age keeps counting from the upload that created it.  latest.json    *)
(* is the only mutable object modelled; catalogs and announcements are     *)
(* pointers written just before it and refer to its address only.  The     *)
(* assets a cleanup never deletes are left out.  One upload and one        *)
(* cleanup run at most: the workflows of each kind share a concurrency     *)
(* group.  The two kinds have groups of their own and run beside each      *)
(* other.                                                                  *)
(***************************************************************************)
EXTENDS Naturals, FiniteSets

CONSTANTS
    Games,        \* release roots: one game on one platform and architecture
    Versions,     \* version numbers, ordered
    Chunks,       \* chunk digests
    Content,      \* the chunks a release's manifest names
    Rollback,     \* TRUE: an older version may be published again
    MaxUploads,   \* bound on the uploads started
    MaxCleanups   \* bound on the cleanups started

Manifests == Games \X Versions
Objects == Manifests \cup Chunks

ASSUME VersionsAssumption == Versions \subseteq Nat \ {0}
ASSUME ContentAssumption == Content \in [Manifests -> SUBSET Chunks]
ASSUME ChunksAssumption == Chunks \cap Manifests = {}
ASSUME ModesAssumption == Rollback \in BOOLEAN
ASSUME BoundsAssumption == MaxUploads \in Nat /\ MaxCleanups \in Nat

VARIABLES
    store,      \* the immutable objects in the bucket
    aged,       \* those last modified at least the grace period ago
    latest,     \* the version latest.json of a game names, 0 when there is none
    former,     \* the version it named before, 0 when there was none
    upload,     \* the running publisher command
    cleanup,    \* the running gc-remote
    uploads,    \* uploads started so far
    cleanups,   \* cleanups started so far
    risked      \* history: <<m, o>> when the last upload of release m took o
                \* for present while a cleanup could delete it, until it is over

vars == <<store, aged, latest, former, upload, cleanup, uploads, cleanups, risked>>
bucket == <<store, aged, latest, former>>

None == 0
Phases == {"All", "Immutable", "Pointers"}

\* The objects of a release.
Release(m) == {m} \cup Content[m]

NoUpload == [phase |-> "idle", release |-> <<>>, left |-> {}]
NoCleanup == [phase |-> "idle", seen |-> {}, old |-> {}, unread |-> {}, current |-> {}, doomed |-> {}]

Init ==
    /\ store = {}
    /\ aged = {}
    /\ latest = [g \in Games |-> None]
    /\ former = [g \in Games |-> None]
    /\ upload = NoUpload
    /\ cleanup = NoCleanup
    /\ uploads = 0
    /\ cleanups = 0
    /\ risked = {}

------------------------------------------------------------------------------
(* Publishing: upload-immutable, promote-pointers and upload *)

\* A command starts on the tree publish-game prepared for one release.
StartUpload(m, phase) ==
    /\ upload = NoUpload
    /\ Rollback \/ m[2] >= latest[m[1]]
    /\ uploads < MaxUploads
    /\ uploads' = uploads + 1
    /\ upload' = [phase |-> phase, release |-> m, left |-> Release(m)]
    /\ UNCHANGED <<bucket, cleanup, cleanups, risked>>

\* What the running cleanup may delete, or what its plan still names.
Threatened == IF cleanup.phase = "deleting" THEN cleanup.doomed ELSE cleanup.old

\* An object that no cleanup can delete is at risk for no release.
Safe(o) == {r \in risked : r[2] # o}

\* The immutable objects are taken in key order: "v1/blobs/" sorts before
\* "v1/games/", so the manifest comes last.
Turn(o) == o \in upload.left /\ (o \in Manifests => upload.left = {o})

\* The object counts as seen.
Inspected(o) == upload' = [upload EXCEPT !.left = @ \ {o}]

\* head finds the object with the expected metadata: nothing is written.
SkipPresent(o) ==
    /\ Turn(o)
    /\ o \in store
    /\ Inspected(o)
    /\ risked' = IF o \in Threatened THEN risked \cup {<<upload.release, o>>} ELSE Safe(o)
    /\ UNCHANGED <<bucket, cleanup, uploads, cleanups>>

\* head answers 404: the object is put, and a second head confirms it.  Only
\* promote-pointers may not write it.
PutMissing(o) ==
    /\ Turn(o)
    /\ upload.phase # "Pointers"
    /\ o \notin store
    /\ store' = store \cup {o}
    /\ Inspected(o)
    /\ risked' = Safe(o)
    /\ UNCHANGED <<aged, latest, former, cleanup, uploads, cleanups>>

\* upload-immutable ends without touching a pointer.
ImmutableDone ==
    /\ upload.phase = "Immutable"
    /\ upload.left = {}
    /\ upload' = NoUpload
    /\ UNCHANGED <<bucket, cleanup, uploads, cleanups, risked>>

\* Every immutable object has been seen: the pointers are written, latest.json last.
Promote ==
    /\ upload.phase \in {"All", "Pointers"}
    /\ upload.left = {}
    /\ LET g == upload.release[1]
           v == upload.release[2]
       IN  /\ latest' = [latest EXCEPT ![g] = v]
           /\ former' = IF v = latest[g] THEN former ELSE [former EXCEPT ![g] = latest[g]]
    /\ upload' = NoUpload
    /\ UNCHANGED <<store, aged, cleanup, uploads, cleanups, risked>>

\* A request fails, the metadata differs, an object promote-pointers needs is
\* missing or the run is cancelled: the command stops where it is.
UploadFails ==
    /\ upload # NoUpload
    /\ upload' = NoUpload
    /\ UNCHANGED <<bucket, cleanup, uploads, cleanups, risked>>

------------------------------------------------------------------------------
(* Cleanup: gc-remote *)

Published == {g \in Games : latest[g] # None}

\* What the running upload has inspected.
Taken == IF upload = NoUpload THEN {} ELSE Release(upload.release) \ upload.left

\* list-objects-v2 is taken once.  Chunks without any latest.json refuse the run.
StartCleanup ==
    /\ cleanup = NoCleanup
    /\ Published # {}
    /\ cleanups < MaxCleanups
    /\ cleanups' = cleanups + 1
    /\ cleanup' = [phase |-> "reading", seen |-> store, old |-> aged,
                   unread |-> Published, current |-> {}, doomed |-> {}]
    /\ risked' = risked \cup {<<upload.release, o>> : o \in Taken \cap aged}
    /\ UNCHANGED <<bucket, upload, uploads>>

\* One latest.json is read; it must name a manifest of the listing.
ReadLatest(g) ==
    /\ cleanup.phase = "reading"
    /\ g \in cleanup.unread
    /\ <<g, latest[g]>> \in cleanup.seen
    /\ cleanup' = [cleanup EXCEPT !.unread = @ \ {g}, !.current = @ \cup {<<g, latest[g]>>}]
    /\ UNCHANGED <<bucket, upload, uploads, cleanups, risked>>

\* The releases of m's game in the listing that are older than m.
Older(m, seen) == {n \in Manifests \cap seen : n[1] = m[1] /\ n[2] < m[2]}

\* Mutant of Previous: the oldest one instead of the one just before.
Oldest(m, seen) == {n \in Older(m, seen) : \A k \in Older(m, seen) : n[2] <= k[2]}

\* The one just before m, when there is one.
Previous(m, seen) == {n \in Older(m, seen) : \A k \in Older(m, seen) : k[2] <= n[2]}

\* The releases the cleanup keeps: the current ones and the one before each.
Retained == cleanup.current \cup UNION {Previous(m, cleanup.seen) : m \in cleanup.current}

Referenced == UNION {Content[m] : m \in Retained}

\* Mutant of Removable: the chunks are those of the manifests that go.
RemovableByManifest ==
    LET gone == {m \in Manifests \cap cleanup.old :
                    m \notin Retained /\ \E k \in cleanup.current : k[1] = m[1]} IN
    gone \cup ((UNION {Content[m] : m \in gone}) \ Referenced)

\* What the cleanup may delete: manifests of a published game that are not
\* retained and chunks no retained manifest names, past the grace period.
Removable ==
    {o \in cleanup.old :
        \/ o \in Manifests \ Retained /\ \E m \in cleanup.current : m[1] = o[1]
        \/ o \in Chunks \ Referenced}

\* Mutant of PlanCleanup: it does not wait for every latest.json.
PlanEarly ==
    /\ cleanup.phase = "reading"
    /\ cleanup.current # {}
    /\ Referenced \subseteq cleanup.seen
    /\ cleanup' = [cleanup EXCEPT !.phase = "deleting", !.doomed = Removable]
    /\ UNCHANGED <<bucket, upload, uploads, cleanups, risked>>

\* The plan is complete before the first deletion, and made only when every
\* chunk of every retained release is in the listing.
PlanCleanup ==
    /\ cleanup.phase = "reading"
    /\ cleanup.unread = {}
    /\ Referenced \subseteq cleanup.seen
    /\ cleanup' = [cleanup EXCEPT !.phase = "deleting", !.doomed = Removable]
    /\ UNCHANGED <<bucket, upload, uploads, cleanups, risked>>

\* One delete-object; the manifests go before the chunks.
Delete(o) ==
    /\ cleanup.phase = "deleting"
    /\ o \in cleanup.doomed
    /\ o \in Chunks => cleanup.doomed \cap Manifests = {}
    /\ store' = store \ {o}
    /\ aged' = aged \ {o}
    /\ cleanup' = [cleanup EXCEPT !.doomed = @ \ {o}]
    /\ UNCHANGED <<latest, former, upload, uploads, cleanups, risked>>

\* Nothing is left to delete, the plan is refused, a request fails or the run
\* is cancelled.
CleanupEnds ==
    /\ cleanup # NoCleanup
    /\ cleanup' = NoCleanup
    /\ risked' = {r \in risked : r[2] \notin store}
    /\ UNCHANGED <<bucket, upload, uploads, cleanups>>

------------------------------------------------------------------------------
\* The grace period of seven days goes by while no command runs: the jobs are
\* limited to hours.
GracePasses ==
    /\ upload = NoUpload
    /\ cleanup = NoCleanup
    /\ aged' = store
    /\ UNCHANGED <<store, latest, former, upload, cleanup, uploads, cleanups, risked>>

Next ==
    \/ \E m \in Manifests, phase \in Phases : StartUpload(m, phase)
    \/ \E o \in Objects : SkipPresent(o)
    \/ \E o \in Objects : PutMissing(o)
    \/ ImmutableDone
    \/ Promote
    \/ UploadFails
    \/ StartCleanup
    \/ \E g \in Games : ReadLatest(g)
    \/ PlanCleanup
    \/ \E o \in Objects : Delete(o)
    \/ CleanupEnds
    \/ GracePasses

Spec == Init /\ [][Next]_vars

------------------------------------------------------------------------------
(* Properties *)

UploadStates ==
    {NoUpload} \cup [phase : Phases, release : Manifests, left : SUBSET Objects]

CleanupStates ==
    {NoCleanup} \cup
    [phase : {"reading", "deleting"}, seen : SUBSET Objects, old : SUBSET Objects,
     unread : SUBSET Games, current : SUBSET Manifests, doomed : SUBSET Objects]

\* Every variable keeps its type; an aged object is one the bucket holds, and so
\* is every object the cleanup still means to delete.
TypeOK ==
    /\ store \subseteq Objects
    /\ aged \subseteq store
    /\ latest \in [Games -> Versions \cup {None}]
    /\ former \in [Games -> Versions \cup {None}]
    /\ upload \in UploadStates
    /\ cleanup \in CleanupStates
    /\ cleanup.doomed \subseteq store
    /\ uploads \in 0..MaxUploads
    /\ cleanups \in 0..MaxCleanups
    /\ risked \subseteq Manifests \X Objects

\* What may be missing of a release: what its upload took for present beside a cleanup.
Risky(m) == {o \in Objects : <<m, o>> \in risked}

\* A release is usable when all of it is there; else it misses only that.
Complete(m) == Release(m) \subseteq store
KeptOrRisked(m) == Release(m) \subseteq store \cup Risky(m)

\* The release latest.json names is always complete in the bucket, manifest and
\* chunks, whatever uploads failed and however many cleanups ran, except for
\* objects its upload found there while a cleanup was about to delete them
\* (storage.rs 299-338 and gc.rs 55-133 together).
LatestComplete == \A g \in Published : KeptOrRisked(<<g, latest[g]>>)

\* A cleanup never deletes the release that was published before the current one
\* as long as its manifest is the next lower one, except for objects its own
\* upload found beside that cleanup (gc.rs 69-80 "現在版とその直前の版を保持対象にする").
RollbackTargetKept ==
    [][\A g \in Published :
          LET m == <<g, former[g]>>
              lower == Older(<<g, latest[g]>>, store)
          IN  m \in lower /\ (\A n \in lower : n[2] <= m[2]) /\ latest'[g] = latest[g]
                  => Release(m) \cap store \subseteq store' \cup Risky(m)]_vars

\* An object younger than the grace period is never deleted, however uploads and
\* a cleanup interleave (gc.rs 113-131): a release whose objects are all its own
\* cannot be damaged between its upload and its promotion.
FreshKept == [][store \ aged \subseteq store']_vars

\* docs/OPERATIONS.md 37 "Keep current and previous releases": the release the
\* pointer named before the current one stays complete. It does not hold: the
\* cleanup keeps the next lower manifest, promoted or not (gc.rs 64-80; see README).
PreviousPublishedKept ==
    \A g \in Games : former[g] # None => Complete(<<g, former[g]>>)
==============================================================================
