# Verification of the PandD platform

TLA+ models of the game distribution platform in this repository and of the
applications beside it: the desktop launcher with its downloads, the publisher
of game releases, the play statistics with the API that stores them, the control
plane that starts deployments, the documentation editor, the publication of
music, and the change of an applicant's mail address. TLC checks the models on
small instances; TLAPS proves every safety property the runs check, for every
value of the constants. Paths below are relative to `src/`.

`PROJECT.json` relates every definition to the lines it models, every property
to the runs that check it, and every hazard of the code to the properties that
would catch it.

1. [The system](#the-system) - components, interactions, what is hard about them
2. [The modules](#the-modules) - how state and actions correspond to the code
3. [The runs](#the-runs) - instances, bounds, what each shows
4. [Assumptions](#assumptions) - fairness, and what the operators and GitHub are trusted with
5. [The proofs](#the-proofs)
6. [Where the code and its documents disagree](#where-the-code-and-its-documents-disagree)
7. [What is not modelled](#what-is-not-modelled) and [the plan](#plan)

## The system

```
 admin web ──dispatch──> GitHub workflow ──pandd-publisher──> bucket (R2)
 (control-plane.ts)  <──preflight, status──    (storage.rs)     ^     │
                                       release.yml: gc-remote ──┘     │ downloads
                                                                      v
 platform API <──sessions, deletion── launcher: window thread + worker ──> game root
 (storage.ts)        (PlayStatistics.cpp)      (LauncherService.cpp)   (installation.rs)
```

| component | state | operations | hard about it |
| --- | --- | --- | --- |
| **game installation** - `apps/launcher/rust/src/installation.rs`, `packages/local-storage/src/lib.rs`, `GameInstallationService.cpp` | the directories of one game root, the marker `active.json` | download, import, activate, clean up, uninstall | each rename, write and removal may fail, and the launcher may be killed between any two |
| **launcher service and window** - `LauncherService.cpp`, `LauncherViewModel.cpp`, `PlatformServices.cpp` | record of the installed version, operation queue, cancel and pause flags, game processes | install, update, locate, media, verify, repair, launch, uninstall, pause, close | two threads, one of which blocks on the other; a saved record next to a marker on disk; games that outlive the launcher |
| **play statistics** - `PlayStatistics.cpp`, `services/platform-api/src/storage.ts` | session rows in SQLite, consent and credential, requests under way, tables of the API | observe, upload, opt in and out, delete remotely, recover | lost, late and repeated requests; consent that changes in between; a store that stops accepting writes |
| **publisher** - `services/deployment_publisher/src/storage.rs`, `gc.rs` | immutable objects of the bucket, `latest.json` of each game | upload, promote, clean up | a cleanup that works from a listing; uploads that stop halfway and are resumed weeks later |
| **control plane** - `apps/admin-web/lib/control-plane.ts`, `actions.ts` | request, attempts, audit chain | submit, cancel, dispatch, callbacks, reconcile, recover | handlers without transactions around their reads; runs that are cancelled and executed again; an external call inside a handler |
| **chunk transfer** - `packages/transfer/src/download.rs`, `packages/file-integrity/src/lib.rs` | files of the chunk cache, the fetches under way | reuse, fetch with retries, resume, verify, assemble | servers that ignore the range or send wrong bytes; a kill that tears what was not synced |
| **docs worker** - `apps/docs-worker/src/changes.mjs` | changes, operations and leases in D1; branch and pull request on GitHub | save, publish | answers of GitHub that are lost after it acted; requests that outlive their lease |
| **music publication** - `apps/admin-web/music`, `server/music/src/Publications.php` | rows, drafts and the journal of operations in D1; snapshot and receipt on the delivery server | publish, withdraw, stop, assign codes, retry | two stores without a transaction; whole snapshots sent for single changes; late messages |
| **change of address, mail queue** - `services/lt-api/src/email_change.rs`, `mail.rs`, `services/lt-mail` | requests, links, outbox, leased jobs; receipts of the relay | investigate, send a link, verify, confirm, dispatch | links superseded while they are mailed; dispatchers that are killed or slow after the mail went out |
| intake of artifacts - `apps/admin-web/lib/intake.ts` | artifacts and their parts | begin, put a part, seal, expire | parts that arrive twice, a seal that is killed |
| report cache - `services/platform-api/src/report-cache.ts` | cached reports, generation | read, invalidate | a read that overlaps an erasure |
| everything else | | | see [What is not modelled](#what-is-not-modelled) |

They interact through few shared things. The worker of the launcher is the only
writer of a game root, and sees of it only which version is active and which
releases are complete: the interface `GameRoot`. The publisher is started by
workflows, of which the publishing ones report to the control plane; its
cleanup is started by another workflow on the same bucket. The statistics talk
to the API by requests that either side may forget. The chunk transfer is a step
of an installation: a verified tree or a failure is all that `Installation` sees
of it. The docs worker, the music publication and the LT services share no state
with the distribution of games; each of them faces a second store (GitHub, the
delivery server, the mail relay) that it can only ask.

What makes each correct:

- *installation*: whatever fails, the release that was last made active is
  still there, complete; so is the one before it; a backup is never destroyed
  before what replaces it is committed.
- *launcher*: a running game is not replaced or erased; what the launcher
  believes installed is what the disk says; operations end and the window closes.
- *statistics*: nothing leaves the machine without consent, nothing comes back
  after a deletion, nothing that was meant to be sent is lost or stuck.
- *publisher*: the release a `latest.json` names is always complete, and so is
  the one to roll back to, except for what an upload took for present while a
  cleanup could delete it.
- *control plane*: an attempt ends once; and until a report or a failed dispatch
  is written for what has gone on without it, a deployment is never executed twice
  at a time and never tried again over half-switched pointers.
- *chunk transfer*: what counts as fetched is right on the disk, and nothing a
  fault leaves in the cache keeps a later installation from completing.
- *docs worker*: what an editor was told is saved stays on the branch or in the
  merge; a merge is what was confirmed, and all of it; a save can be finished.
- *music*: the public sees what D1 says, but for one operation that asking
  recovers; an operation changes nothing it is not about.
- *mail*: an address changes only to one whose mailbox answered; a superseded
  link leaves the queue; what may have been mailed is not mailed again.

## The modules

| module | models | composed with |
| --- | --- | --- |
| `GameRoot` | what a game root promises: the abstract specification | |
| `Installation` | one game root, rename by rename | implements `GameRoot` |
| `Launcher` | the two threads of the launcher around one game | extends `GameRoot` |
| `PlaySync` | play statistics of one launcher and the platform API | |
| `Publication` | the releases of one bucket, one upload, one cleanup | |
| `Deployment` | what becomes of one request: the abstract specification | |
| `ControlPlane` | one production request and its runs | implements `Deployment` |
| `ChunkDownload` | the fetch of the chunks of a release into the cache | |
| `DocsChanges` | one change of the documentation, its requests and GitHub | |
| `MusicPublication` | one work, its publication operations and the delivery server | |
| `EmailChange` | the changes of one address, the mail queue and the relay | |
| `InstallationProofs`, `LauncherProofs`, `PlaySyncProofs`, `DeploymentProofs` (of `Publication` and `ControlPlane`), `ChunkDownloadProofs`, `DocsChangesProofs`, `MusicPublicationProofs`, `EmailChangeProofs` | the theorems | extend their module |
| `MC...` | instances for TLC | extend their module |

In every module a group of definitions marked `Mutant of X` is a plausible
mistake in `X`; it takes no part in the specification.

### Installation

A directory tree is a member of `Copies`; `releases`, `staging` and `trash` map
the paths `releases/<v>`, `.launcher/staging/<v>` and `.launcher/trash/<v>` to
the tree found there. An old and a new tree of the same version are different
members. A tree that is not known to be complete is in `torn`: one that is being
assembled, or was removed halfway. `live` and `prior` are history: the tree the
last marker write made active, and the one that was active before it and that
the cleanup promises to keep.

`pc` is the position of the worker in `activate` (installation.rs 143-190) and
`replace_directory` (lib.rs 206-261): `Activate` reads the marker and refuses an
unresolved backup, `BackupTarget` and `MoveStaged` are the renames, `Commit` the
atomic write of the marker, `ReturnToStaging` and `RestoreBackup` the rollback.
Each has its failure (`MoveStagedFails`, `CommitFails`, `Tear...`), and `Stop`
stands for a kill or a failed rename of the rollback at any of them. The cleanup
after the commit removes `Obsolete` releases in descending order and then the
backup; its failures are only warnings in the code, so that the next operation
starts from whatever is left. `CleanupTemporary` and the uninstallation are the
user's other operations. Hashes, file contents and symbolic links are data:
`Assembled` is the step after which every file was verified.

The crate promises recovery within the process only (`packages/local-storage/README.md`
24-25): nothing repairs an interrupted exchange at the next start. That is why
`CommittedReleaseKept` accepts the release as a backup, and why `BackupResolved`
matters, which is proved and has no run of its own.

### GameRoot and Launcher

`GameRoot` has four kinds of steps on a root: installing takes the target away
and puts something in its place, `Switch` makes a complete release active,
`Drop` cleans up all but the new and the former release, `Erase` uninstalls.
`Installation` implements it (`RootImplemented`): `phase` is derived from `pc`,
`present` and `whole` from `releases` and `torn`.

`Launcher` runs these steps from its worker. `queue` is the operation pool with
one thread, `news` the results posted to the window, `step` where the operation
is: *begin, check, resolve, download, activate, save, ask, erase, forget* are
the calls in `LauncherService.cpp` between which something can happen. `record`
is `installed-games.json`, `installed` the map in memory, `tracked` and `child`
the entry of `QtGameProcessService` and its process, `detached` the games that
earlier launchers left running. `StartGame` is the blocking call into the window
thread (`PlatformServices.cpp` 82-84): it is an action of both threads and waits
for the window's event loop, behind the results already posted. `Close` and
`Closed` are the destructor before and after its wait. Beside the types, `TypeOK`
says that a root is in the middle of something only while the worker is at it:
an operation that fails never leaves an installation half begun.

### PlaySync

`rows`, `consent` and `savedKey` are the SQLite store. A row has the revision,
whether the session is finished, whether it may be sent (`eligible`) and is to
be sent (`pending`). Every handler that writes has the outcomes the code has:
written, given up before (`writable` false), or failed partway
(`reportPersistenceError`, which stops sharing); a row whose withdrawal after a
refusal fails is passed over and sent again. `requests` is the network: a
request the launcher has given up is no longer `heard`, yet may still be served.
The API reads the revocation, then commits in a transaction that reads it again
(`Check`, `Commit`; `storage.ts` 14-62 and the conflict trigger). `Quit`, `Crash`
and `Start` are the end of the process and the recovery of unfinished sessions.
`agreed` and `declined` are history for the consent property.

### Publication

An object is a manifest or a chunk; `store` is the bucket, `aged` the objects
older than the grace period of seven days. An upload inspects the objects of its
release in key order, chunks before the manifest, and puts those that are
missing; `promote-pointers` only inspects. A cleanup lists the bucket once, reads
every `latest.json`, plans and deletes manifests before chunks, one request at a
time. Any command may stop between two requests (`UploadFails`, `CleanupEnds`).
Since an object that exists is never written again, its age keeps counting from
its first upload, which is what makes resumed uploads interesting.

One upload and one cleanup run at most, because the workflows of each kind share a
concurrency group (`deploy-game-production.yml` 71: `pandd-game-production`,
`release.yml` 246: `launcher-production-publication`). Nothing keeps the two apart:
they interleave request by request. An upload that finds an object present which
the cleanup beside it goes on to delete then promotes a release with a hole.
`risked` is history and names such pairs of release and object: what an upload has
inspected when a cleanup starts and counts as old (`StartCleanup`), or what it
finds while a cleanup could delete it (`SkipPresent`, `Threatened`). A pair ends
when the object is put again, is found while no cleanup threatens it, or the
cleanup is over and has spared it. The properties say that nothing is missing but
these objects.

### ControlPlane

`state` and `attempts` are the rows of a request, `runs` the workflow run of
each attempt at GitHub, with its number of executions. `calls` are the handlers
under way. A handler is *checked* once it has read the rows and decided,
*chained* once it has read the end of the audit chain, and then lands its batch
if no other handler has appended an audit event since (`fresh`; the unique index
on the sequence number makes the batch fail). `dispatchRequest` has more
positions because its writes are separate: claim, insert, GitHub, and taking
back; it reads the request and the number of its last attempt in two steps
(`CheckDispatch`, `NumberAttempt`), as the reconciliation does (`StartReconcile`,
`ReadAttempt`). A run follows `deploy-game-production.yml`: two preflights, build, upload,
promote, verify, and the reports of its failure steps; it may fail or be
cancelled at any step, stop waiting for an answer, and be executed again.
`unsettled` is history: a run has begun to switch the pointers, and neither a
success nor an operator's confirmation has come since.

Nothing limits the time a handler takes. A callback reads its attempt and the end
of the audit chain in two statements and then writes the state of the request
unconditionally (`actions.ts` 162-213, 121-145), and the call that starts a run
has no time limit (`github-app.ts` 151). So a callback may land after its attempt
has ended or its run was executed again, and a dispatch may fail after its run has
reported. `Late` says when, and `overtaken` is history: it has happened.

`Deployment` is what is left of this for those who operate a request: its phase
(`Phase` of `state`: open, busy, blocked, done or cancelled), the results of its
attempts (`Outcomes`), `unsettled` and `overtaken`. A claim takes an open request, `Try` adds
an attempt only when none is under way, `End` ends one that is, to a phase that
follows from the result (`Leads`) and that is not open while the pointers may be
half switched; only an operator opens a blocked request or one that has
succeeded, and nothing leaves a cancelled one. `Overtake` is what a late
handler may do (`ReportLate`, `BindLate`, `FailLate`), and what it takes away: from
then on the phase need not agree with the attempts, although which steps move it,
and that no report ends an attempt twice, is promised all the same. Handlers,
audit chain, callbacks and runs are not in it: `DeploymentImplemented` says that
every step they take is one of these or changes none of the four.

### ChunkDownload

A chunk is a sequence of `Size` blocks; a cache file is what the disk holds of
it, `Wrong` blocks included, and `synced` the files that reached the disk.
`install` reuses chunks of the active release, verifies the cache, downloads
and assembles (`op`; `GameInstallationService.cpp` 126-242). The fetch of one chunk follows
`Session::attempt` (`download.rs` 227-338): the file is opened, thrown away when
it has its size or more (`Kept`), hashed, and its rest is asked for; the answer
is the range (`Partial`) or the whole (`Whole`, which restarts file and hash);
blocks arrive right or wrong (`Block`); at the end the hash decides between
syncing and throwing away (`Complete`). `hashed` is what went through the
hasher, kept apart from `file` because they are two things in the code. `Breaks`
retries, up to `MaxAttempts` in one download; `Refused` and `TooLong` end the
operation, and with it the other fetches where they are. `Kill` tears what was
not synced: `Torn` shortens the file and spoils its last blocks.

### DocsChanges

A commit is the set of the saves it contains, so that ancestry is inclusion.
`change`, `ops`, `lock` and `live` are the rows of D1; `branch`, `pull`,
`mergedAt`, `moved` and `checked` what GitHub knows. `req` has the position of
each request between two calls: *check, journal, commit, record, look, post or
patch, verify, list, open, complete, answer* for a save, *check, ready, merge,
mark* for a publication. A call that changes something at GitHub has three
outcomes: done and answered, done with the answer lost (`Fault`), not done
(`CallFails`). `Killed` leaves the lease to its end (`Lapse`, as `Orphan`). A
request in `Slow` may outlive its lease; `late` records that one did, and says
which promises then no longer hold. `headOf` is the head a save was based on,
which is part of its digest, so that a save is only sent again with it.

### MusicPublication

The content of a track is the number of the draft it was published from. A
request reads the work, then the tracks (`ReadGame`, `ReadTracks`), fixes the
snapshot as an operation if neither has changed (`Prepare`, `Unchanged`; the
triggers make a change of a track one of its work, `Bumped`), and delivers it:
`Send`, `Status`, `Apply`, `Confirm`, or `Give` for what the catch of `run()`
records. `IndexFree` is the partial unique index that lets one operation of a
scope be pending. `served` is the delivery server: revision, snapshot, and the
one receipt it keeps for a scope; `flight` holds messages whose sender gave up.
`landed` is history. Advertisements are a scope of their own and left out.

### EmailChange

A request for an address, the links that were made for it, their rows in the
outbox and their jobs. The triggers of `0040_email_change.sql` are part of the
actions that fire them: `Erased` is what becomes of the jobs of links that are
used or superseded. Time passes per link (`HourPasses`) and per job
(`LeaseLapses`). A dispatcher is *enqueue, sweep, claim, check, wait, record*,
with one or more statements each and nothing that holds between them but the
fence, for which the number of the attempt stands. `wire` is what the relay was
asked, `receipts` what it has noted, `mailed` what `mail()` took. The relay
handles one request at a time under its lock, with every outcome of
`relay.php` 48-82, a stop between receipt and mail included, and a receipt that
cannot be written whole (*torn*, lines 66 and 81), which refuses the job for good
(line 56) whether or not the mail went out before.

## The runs

Passing runs:

| run | states | instance | shows |
| --- | --- | --- | --- |
| `install_two` | 372 thousand | 2 versions, both stagings, 8 trees | committed and previous release kept, the renames implement `GameRoot` |
| `launcher` | 1.2 million | 2 versions, 6 operations, 2 queued or posted, 2 starts, fairness | no job starts under a running game, record and marker agree, a failed save spares the release the launcher believes in, operations end, closing ends the launcher unless a launch is in its blocking call |
| `chunk_download` | 259 thousand | 3 chunks of 2 blocks, one in the active release, 2 at a time, 3 attempts, 3 faults, fairness | fetched chunks are right, installing again completes |
| `play_restart` | 340 thousand | 1 session, 2 credentials, 3 revisions, 3 starts, 2 requests | consent, deletion, acknowledgement and revision order, with late requests |
| `play_delivery` | 101 thousand | 2 sessions, one refused for good, 2 revisions, fairness | every pending row leaves the queue |
| `publication` | 6.7 million | 2 games, 3 versions sharing chunks, 4 uploads, 2 cleanups beside them | the current release and the one to roll back to miss nothing but objects taken for present beside a cleanup |
| `control_plane` | 3.9 million | 2 attempts, one run executed twice, 2 handlers at a time, late ones included | `Deployment` is implemented; until something late is written, no blind retry and no stale promotion |
| `docs_changes` | 329 thousand | 2 saves, 2 requests of which one may outlive its lease, 2 commits for a save, 1 fault, fairness | saves are kept, merges are confirmed and complete, begun saves are settled |
| `music` | 416 thousand | 2 tracks of which one is public, 2 operations, 2 requests, 1 edit, 1 fault, fairness | the two stores agree but for one operation, others' changes stay, what landed is confirmed |
| `email_change` | 4.3 million | 3 addresses, 2 requests, 2 links, 2 dispatchers, 2 attempts | verified addresses only, no dead links in the queue, nothing asked twice, settled jobs stay settled |

Runs that find a disagreement (see below): `quit_during_launch`,
`play_deletion_stuck`.

Why the bounds are enough for what is asked:

- *Installation*. Two versions give every relation between the version being
  installed and another one: newer, older, equal. They have eight paths, so with
  eight trees a free tree always exists when one is needed. What a third version
  adds, a release between the previous and the new one, is covered by the proofs.
  The view identifies states that differ by a renaming of trees no property
  tells apart; the action properties it might weaken are proved.
- *Launcher*. Two pending entries let an operation be queued behind another one
  while a result is on its way, which is what the checks at the start of an
  operation are about; two starts give one game left running and one load after
  every kind of stop. Verifying is left out of the instance: it is the same
  action as repairing, without the installation that may follow.
- *PlaySync*. Sessions interact only in a batch and in the refusal of a batch;
  the safety run has one session with three revisions (begun, observed, finished
  or recovered) over three starts, the delivery run has two sessions of which
  one is refused. That one has two revisions, begun and finished, so the checkpoint
  of a session that goes on is a matter of the safety run; a third revision would
  make this one too long. Two requests let a late one overlap a new one. Two credentials
  let a deletion be followed by another opt-in.
- *Publication*. Three versions are current, previous and one more; the content
  shares a chunk between the first and the last and another between the second
  and the last. Four uploads are the two phases of an upload, a resumed one and a
  rollback; two cleanups follow each other with an upload in between or across both.
- *ControlPlane*. Two attempts are the one replaced and the one replacing it; two
  executions a run and its re-run, of which one run at most has one; two handlers a
  race. The view leaves out the stage and the binding of an attempt that has
  ended, which no guard reads any more. What more attempts, handlers and re-runs
  could add is covered by the proofs, which have no bounds.
- *ChunkDownload*. Two blocks are the least with a file that is neither empty nor
  whole. Three chunks for two places let one wait. Three faults and three
  attempts let a fetch give up, or a wrong block be followed by a kill and another
  wrong answer.
- *DocsChanges*. Two saves are the one that opens the change and one that follows;
  two requests overlap once one has outlived its lease, or one saves while the
  other publishes. Two commits for a save are what a lost answer costs. Two
  faults in a row were explored with one save.
- *MusicPublication*. Two tracks are the one an operation is about and another;
  two operations are one that is pending or lost and its successor. The edit
  changes a draft between reading and preparing.
- *EmailChange*. Two links are one and its successor, of the same request or of
  the next; three addresses let the second request go elsewhere or back. The
  addresses are interchangeable but for the original one.

`CHECK_DEADLOCK FALSE` is set where the system may stop: a launcher that was
closed for the last start of the bound, uploads or cleanups used up, a request
that has ended, a release that was installed.

## Assumptions

**Fairness** is assumed of program steps only, never of clicks, kills, failures
or answers of one particular kind.

- `Launcher!FairSpec`: the worker runs (its operations are finite: the two
  weak-fairness conjuncts on `ActivationEnds` and `Erased` say that an operation
  inside the root ends), and the event loop of an open window delivers results,
  blocking calls and exit signals. `Close`, `Kill`, `Pause`, `Resume` and
  `GameExits` are never forced, so a paused download may stay paused.
- `PlaySync!FairSpec`: the upload timer is armed again after every attempt
  (`PlayStatistics.cpp` 362-372, 443), so `UploadPending` is weakly fair. The steps of
  a request are strongly fair: of infinitely many requests infinitely many get
  through, that is, the network is not down for ever. A single request may be
  given up and lost. Without this nothing can be delivered.
- `ChunkDownload!FairSpec`: the steps of an installation and of its fetches go on,
  and the user installs again after an error (`Install` is a step of
  `InstallStep`); the message the launcher shows offers that. Faults are bounded,
  so that some try meets none. Which answer a server gives is not forced.
- `DocsChanges!FairSpec`: a request that is not killed goes on (every call to GitHub
  has a time limit, `github.mjs` 14); the lease of a killed one runs out
  (`changes.mjs` 57); an editor whose save has not been answered sends it again,
  which finds the lease free infinitely often and then gets it (strong fairness).
- `MusicPublication!FairSpec`: a request that is not killed goes on
  (`bridge.ts` 83); the staff retries an operation until it is applied
  (`docs/music/operations.md`), with strong fairness since the pending index may
  refuse it meanwhile.

**Named constants** state what the code leaves to others:

- `Rollback` (Publication): an older version may be published again. The
  disagreements below do not need it: `Rollback = FALSE` shows them as well.
- `Slow` (DocsChanges): the requests that may outlive their lease of 180 seconds.
  A save makes a dozen calls of up to 60 seconds each, so the code does not rule
  it out. `SavedIsKept` and `MergedAsConfirmed` hold with it;
  `MergeTakesEverySave` and `BegunIsSettled` only speak of the time before one
  did.

No assumption keeps an upload and a cleanup apart or makes a callback or a dispatch
finish in time: the code guarantees neither.

## The proofs

TLAPS checks every step, with SMT, Zenon and, for temporal steps, LS4. Nothing is
assumed beyond the named assumptions on the constants.

`InstallationProofs` holds for any set of versions, any set of trees and any
choice of stagings:

| theorem | property |
| --- | --- |
| `TypeCorrect` | `TypeOK` |
| `CommittedReleaseIsKept` | `CommittedReleaseKept` |
| `PreviousReleaseIsKept` | `PreviousReleaseKept` |
| `BackupIsResolved` | `BackupResolved` |
| `ImplementsRoot` | `RootImplemented`, the refinement of `GameRoot` |

The properties are not inductive: that the cleanup spares the previous release
depends on what the worker knew when it committed. `IInv` adds three facts.
`OnePath`: no tree is at two paths, so that removing or tearing one path
touches one tree only. `Progress`: what each position of the worker implies of
its paths, such as that before the commit the release in place is complete and
neither the live nor the previous tree. `CleanupSafe`: during the cleanup the
marker names the live tree, and the previous one is in the trash of another
version or is the release `Kept` spares. `InvStep` goes through the actions;
`FreshTree` says that a tree taken for a new staging is at no other path.
`BackupIsResolved` follows because only three actions take a backup away.
`ImplementsRoot` needs the same invariant: `RootStep` shows for each action which
step of `GameRoot` it is. That a switch finds a complete release is in `Progress`,
and that a removal is seen by the root as the loss of one release is `OnePath`.
It is what entitles `Launcher`, and `LauncherProofs` with it, to use `GameRoot` in
the place of the renames.

`LauncherProofs` holds for any versions, any set of operations and any bounds on
the queue and the starts:

| theorem | property |
| --- | --- |
| `TypeCorrect` | `TypeOK` |
| `NeverUpdatedWhileRunning` | `NoUpdateWhileRunning` |
| `RecordAlwaysAgrees` | `RecordAgrees` |
| `BelievedIsSpared` | `BelievedReleaseSpared` |

`RecordAgrees` speaks of a launcher that runs nothing; `Agrees` says what holds in
the middle of an operation: between the switch and the save, the release believed
installed is the one switched from, which is also why the cleanup spares it.
`LoadFirst` is the fact about the queue that all of it rests on: the load comes
before every other operation, and a window that closes queues none. `Places`
relates the steps of the worker to the phase of the root, and `Unwatched` says
that an operation that has looked for the game and found none meets none later,
because the only other way to start one is the worker's own launch.

`PlaySyncProofs` holds for any sessions and credentials, any sessions refused for
good and any bounds (a session has at least a first and a last revision):

| theorem | property |
| --- | --- |
| `TypeCorrect` | `TypeOK` |
| `DeletedIsKeptDeleted` | `DeletedStaysDeleted` |
| `AcknowledgedAreStored` | `AcknowledgedIsStored` |
| `SessionsNeverConflict` | `NoSessionConflict` |
| `OnlyAgreedAreSent` | `OnlyAgreedSent` |

`SentOK` is what makes the invariant inductive. It takes all that was ever sent of
a session and is still under way, late or stored, and says that it carries one
credential, that of the row as long as the row may be sent, that the row is not
behind it unless it is gone for good, and that nothing follows the revision that
ended the session. A row that a late request overtook, or one whose credential was
changed and sent again, would violate it. The steps of the launcher fall into
those that may change rows (`RowsMove` says how: revisions grow, a row ends once,
none becomes eligible later than its session began) and those that send; `Silent`
steps only make requests fewer or unheard.

`DeploymentProofs` extends both halves of a deployment. On `Publication` it holds
for any games, versions, chunks and contents, and any number of uploads and
cleanups:

| theorem | property |
| --- | --- |
| `TypeCorrect` | `TypeOK` |
| `FreshIsKept` | `FreshKept`, which no run checks |
| `LatestIsComplete` | `LatestComplete` |
| `RollbackTargetIsKept` | `RollbackTargetKept` |

The first two rest on `PlansAged`: what a cleanup reads and plans consists of
aged objects, although uploads add new ones meanwhile. The other two rest on
`IInv`, which follows what the cleanup can delete (`Threatened`) through every step
of an upload beside it. `Listed`: what is threatened is in the bucket. `UploadTook`:
what an upload has gone through is there, or risked, and what of it is threatened
is risked. When the upload promotes, this becomes `CurrentSpared`: of a published
release only risked objects are threatened, or the cleanup has yet to plan and
will see its pointer (`Noticed`), in which case the plan retains it.
`NewcomersSpared` says the same of a release whose manifest the listing does not
have. `FormerSpared` is what is left of it for the former release: it is spared,
noticed, or a release between it and the current one is retained in its place, in
which case the property does not speak of it.

On `ControlPlane` it holds for any number of attempts, executions and handlers at
a time, however late a handler is:

| theorem | property |
| --- | --- |
| `ControlTypeCorrect` | `ControlTypeOK` |
| `OneAttemptUnderWay` | `OneUnderWay`, only the latest attempt is under way; no run checks it |
| `SwitchesForTheLatest` | `NoStalePromotion` |
| `NeverRetriedBlindly` | `NoBlindRetry` |
| `EndedForGood` | what has ended or was cancelled stays so; no run checks it |
| `ImplementsDeployment` | `DeploymentImplemented`, the refinement of `Deployment` |

All but the first are about `overtaken`: what is not late is ordered by the rows and
by the audit chain, and the proofs show that nothing else is needed.

The invariant has four layers, each of which rests on the ones before.
`Typed` says what kind of call is where, and that a run waits for one answer at
most. The other three hold until something late is written, and a step that writes
something late makes `overtaken` true, so that they owe nothing after it
(`StepInTime`). `Guarded` is about who has the request: one dispatch at a time has
claimed it, while it has no attempt is under way, and an attempt whose dispatch may
still fail in time is queued and bound to no run. The unique audit number is what
carries the insertion. From `Guarded` follows `OneUnderWay`. `Careful` relates rows
and runs: a run that is past the switch belongs to a queued attempt that is bound to
this very execution, a reconciliation that GitHub has answered is about an execution
that is over, and a run that has stopped waiting for a callback goes nowhere in this
execution. `Calm` says what the rows look like between the beginning of the switch
and its settlement: the attempt that is still queued has a stage of `Switching`, so
that whoever ends it ends it as `recovery_required` or `failed_terminal`, and what
can still be written about it tells of the switch or will be late. In each layer a lemma
(`Assembled`, `GuardedStill`, `CarefulAssembled`, `CalmAssembled`) reduces a step
to the rows and the calls it touches.

The refinement rests on all four: whoever ends an attempt finds it queued, and
the request busy (`Guarded`); a failure that opens the request ends an attempt
that has not begun to switch (`Calm` after the step), and a report ends one as
its run's step allows (`Calm` before it). `ImplementedEnd` states this once for
the four handlers that end attempts. `OutcomeWritten` and `OutcomeInserted`
carry the rows over to the sequence of results. A step that is late is one of
`Overtake`, whatever the rows are.

`ChunkDownloadProofs` holds for any chunks and any positive size, attempts and
places:

| theorem | property |
| --- | --- |
| `TypeCorrect` | `TypeOK` |
| `FetchedAreRight` | `FetchedIsRight` |

`IInv` adds `Agrees`: while a fetch is asked for or receives, what was hashed is
the file, and the next block is the one after its end. `Complete` then turns a
right hash into a right file. `Quiet` says that only a download has fetches
under way, so that nothing writes to the cache while it is verified or
assembled. Lemmas on `Append` and on torn files carry the sequence reasoning.

`DocsChangesProofs` holds for any saves, requests, slow ones included, and faults:

| theorem | property |
| --- | --- |
| `TypeCorrect` | `TypeOK` |
| `SavesAreKept` | `SavedIsKept` |
| `MergesAreConfirmed` | `MergedAsConfirmed` |
| `MergesTakeEverySave` | `MergeTakesEverySave` |
| `SavedOnce` | branch and merge contain no save twice; no run checks it |

`SavedIsKept` holds although requests overlap, because GitHub only moves a branch
forwards: once a head is on the branch or in the merge it stays reachable. The
invariant says so of every head that is on its way to the row: a request that
has verified the branch carries a reachable commit up to `Complete`, and
`MergedAsConfirmed` of a request that has checked a head up to `Merge`.

`MergeTakesEverySave` needs the lease. While no request has outlived its own,
`Tidy` holds: whoever is under way holds the lease, what it read of the row under
it still stands, the commit it carries contains the head of the row, and nothing
that writes is under way once the change is merged. `Based` adds what the journal
remembers across kills: a recorded commit contains the head its save was based
on. `SavedOnce` needs no lease: every head anything speaks of (`Known`) contains
a key once at most, because the base of a save is fixed before its first commit.

`MusicPublicationProofs` holds for any tracks, requests, operations and faults:

| theorem | property |
| --- | --- |
| `TypeCorrect` | `TypeOK` |
| `PublicIsConfirmed` | `LiveIsConfirmed` |
| `OthersAreKept` | `OthersKept` |

The heart of `IInv` is that an operation which the delivery server would still
accept carries the snapshot of the rows as they are but for its own mutation:
the versions that `Prepare` compares fix the rows it was read from, every
confirmation raises the revision, and the index lets no second operation be
pending. A late message of an older operation is refused by its revision.

`EmailChangeProofs` holds for any addresses, requests, links, dispatchers and
attempts:

| theorem | property |
| --- | --- |
| `TypeCorrect` | `TypeOK` |
| `DeadLinksAreErased` | `DeadLinkErased` |
| `SentWasMailed` | `SentIsMailed`, which no run checks |
| `AddressIsVerified` | `ChangedIsVerified` |
| `NothingAskedTwice` | `AskedOnce` |
| `SettledStays` | `SettledIsFinal` |

`AskedOnce` needs most of the invariant: a job is pending only if no attempt at
it is out or unanswered, or the relay answered that it did nothing; a dispatcher
holds its job under the number of its attempt, which no later one has.
`ChangedIsVerified` relates a verified request to the link it names, and that
link to the mail.

Left to TLC: liveness under fairness, which this prover does not reach
(`OperationEnds`, `OnlyLaunchBlocksQuit`, `Completes`, `Delivered`,
`BegunIsSettled`, `LandedIsConfirmed`).

## Where the code and its documents disagree

Shown by a run:

- `quit_during_launch`: closing the window while the worker is in the blocking
  call that starts a game: both threads wait for ever (`LauncherViewModel.cpp` 91,
  `PlatformServices.cpp` 82-84).
- `play_deletion_stuck`: a store failure during a remote deletion, then turning
  sharing off, leaves `deleting` set with no reply to reset it
  (`PlayStatistics.cpp` 536, 814) until the next start.

Met while modelling, without a run of their own. Of some of them TLC shows a
trace when the named property is added to a configuration:

- An uninstallation that stopped after `active.json` was deleted is reported as
  retryable, but the retry is refused because the marker is missing
  (`GameInstallationService.cpp` 409-420): `ListedGameRemovable` in
  `MCLauncher.cfg`.
- A cleanup that overlaps an upload deletes a chunk the upload has skipped as
  present, and the promoted release is incomplete (`storage.rs` 311, `gc.rs` 149,
  against `docs/OPERATIONS.md` 37-38). `LatestComplete` states how far this goes,
  no further than `risked`; the invariant
  `\A g \in Published : Complete(<<g, latest[g]>>)` shows a trace.
- The cleanup takes the next lower manifest for the previous release, also one
  that was never promoted, and deletes the release that was really published
  before (`gc.rs` 64-80, `docs/OPERATIONS.md` 37): `PreviousPublishedKept` in
  `MCPublication.cfg`.
- `docs/music/bridge-publication.md` 31-37 calls `failed` a definite refusal, but
  an answer 4xx of whatever stands before the delivery server is taken for one
  (`bridge.ts` 85-103), after a message that may still arrive, or did arrive and
  was asked about again: the operation is `failed` and the public sees it
  (`FailedDidNotLand` in `MCMusicPublication.cfg` with `MaxFaults = 2`). Retrying
  it recovers (`LandedIsConfirmed`).
- A documentation request that outlived its lease still writes the row of the
  change (`changes.mjs` 130 does not compare `lock_id`) and may set its head
  back; and a save whose branch was written, but which its editor never sends
  again, keeps every other save of the change out (`changes.mjs` 93, 117).
- `decide` records `expired` for an answer that comes after the link's hour, even
  when the relay accepted the mail (`lt-mail/src/lib.rs` 33); a request that was
  confirmed becomes `cancelled` when the staff investigate again
  (`email_change.rs` 273). The branch of the relay that finds a receipt is never
  taken by the queue itself: that is what `AskedOnce` says.
- An upload of an artifact that is killed while it is sealed stays in `sealing`,
  which can be neither resumed nor cancelled (`intake.ts` 305, 347), against
  `apps/admin-web/README.md` 111.
- The install root changes in the settings between two installations of a game:
  the old root stays on disk and the record no longer leads to it
  (`LauncherService.cpp` 167).
- A pause that arrives while the release is resolved is undone by the start of
  the download (`GameInstallationService.cpp` 77).

- A game that outlives the launcher is unknown to the next one, which will
  update or erase it; `docs/LUNA_IMPLEMENTATION_PLAN.md` 231 forbids updates of a
  running game. `NoUpdateWhileRunning` speaks of the game this launcher started.
- `locateExisting` does not ask whether the game runs (`LauncherService.cpp` 260
  against the plan's 713); the property excepts it.
- The cancel flag is reset when an operation starts (`LauncherService.cpp` 156),
  so that a cancellation requested just before is lost, against the comment at
  473-475. The launcher still ends (`OnlyLaunchBlocksQuit`), after the download.
- The grace period counts from the upload of an object (`gc.rs` 127), not from
  the promotion (`docs/OPERATIONS.md` 37-38).
- A dispatch that fails after GitHub accepted it makes the request retryable while
  its run goes on (`control-plane.ts` 558-569, `github-app.ts` 151), against the
  comment at `control-plane.ts` 570-573: it could start the same deployment twice.
  In the model this is `FailLate` once the run has reported; `NoBlindRetry` and
  `NoStalePromotion` without their `~overtaken` show traces.
- A callback that was checked before its attempt ended writes the state of the
  request nevertheless (`actions.ts` 200, 142): it revives a request that was
  cancelled in between, or moves one that another attempt executes (`ReportLate`).
- A preflight that passes late turns a request that was claimed again from
  `dispatched` into `running`. If the insertion of the new attempt then fails, the
  claim is not taken back (`control-plane.ts` 555 asks for `dispatched`), and the
  request stays `running` with no attempt under way.
- A run executed again after the switch began is refused, and the refusal ends
  the attempt as `failed_terminal`; `docs/DEPLOYMENT_CONTROL_PLANE_DESIGN_JA.md`
  246 and 327 ask for `recovery_required`. Either way only `authorizeRecovery`
  makes the request retryable again, which is what `NoBlindRetry` says.
- A stop between the claim of a request and the insertion of its attempt leaves
  it `dispatched` without an attempt, which no operation accepts
  (`control-plane.ts` 542-552).
- `recordPreflightRejection` compares neither run nor execution, and the route
  calls it for any error of a preflight, a batch that lost a race included
  (`actions.ts` 115-146, `app/api/actions/preflight/route.ts` 20-27).

## What is not modelled

Of the modelled components: file contents, hashes and symbolic links; settings
and a changing install root; several games in one launcher; what a session
measures, the size of batches and the expiry after 90 days; the order among the
pointers of a publication and the catalogs; the staging request a production
request comes from and other requests of the same game; the contents of audit
events; pauses and the speed limit of a download; the sessions of the docs
worker, its image uploads and a second pull request for a change whose first one
somebody closed on GitHub; assets, previews and the advertisement of the
music application; the submissions, schedules and retention of the LT services.

Components without a module, and why, are listed in `PROJECT.json`. In short:
the intake and the report cache have state worth a model and are planned.
Building releases, contracts and content are sequential transformations of data.
Members, editions and roles are mostly single statements of one request. The web
front ends, the download worker, the workflows and the infrastructure keep no
state the other parts depend on beyond what the constants above say. The greater
part of the repository's lines are of these kinds: forms, pages, validation of
documents and generated code, in which no two steps can meet in a wrong order.

## Plan

In this order; the first nine are done.

1. `Installation` with `GameRoot` as its abstract specification, proved.
2. `Launcher` over `GameRoot`: threads, record, quitting, proved.
3. `PlaySync`: launcher and API together, proved.
4. `Publication`: uploads against cleanups, proved.
5. `ControlPlane` with `Deployment` as its abstract specification: handlers
   against runs, proved.
6. `DocsChanges`: the lease and the journal against ambiguous answers, proved.
7. `MusicPublication`: two stores and the operations between them, proved.
8. `EmailChange`: links, leased jobs and the relay, proved.
9. `ChunkDownload`: resumed and repeated fetches, proved.
10. `Intake`: parts, sealing, expiry; a sealed artifact never changes.
11. `ReportCache`: coalesced reads against erasures; no report read before an
    erasure is served from the cache after it.
12. The staging request and the rule of one active request per game, composed
    with `ControlPlane`.
