------------------------------ MODULE Launcher ------------------------------
(***************************************************************************)
(* The desktop launcher around the root of one game: the window thread     *)
(* with its clicks, posted results and game processes, and the single      *)
(* worker that runs the operations of LauncherService one after another.   *)
(*                                                                         *)
(* The two threads share the operation queue, the cancel and pause flags   *)
(* and the map of game processes; the worker starts a game by a blocking   *)
(* call into the window thread.  The launcher may be closed or killed at   *)
(* any step and started again; the game then keeps running unobserved.     *)
(***************************************************************************)
EXTENDS Sequences, Naturals, GameRoot

CONSTANTS Operations,  \* the operations the user may ask for
          MaxPending,  \* bound on queued operations and undelivered results
          MaxStarts    \* bound on how often the launcher is started

AllOperations == {"install", "locate", "media", "launch", "verify", "repair", "uninstall"}

ASSUME OperationsAssumption == Operations \subseteq AllOperations
ASSUME BoundsAssumption == MaxPending \in Nat \ {0} /\ MaxStarts \in Nat \ {0}
ASSUME VersionNumbers == Versions \subseteq Nat /\ NoVersion \notin Versions

VARIABLES
    window,     \* the window thread: its event loop runs, its destructor waits, or it is gone
    starts,     \* how often the launcher was started
    queue,      \* operationPool_'s queue
    news,       \* results posted to the window thread, not delivered yet
    listed,     \* a snapshot has reached the window, so that the game can be selected
    shown,      \* the version the snapshot says is installed
    job, step,  \* the operation the worker runs and where it is
    cancelled,  \* LauncherService::cancelled_
    paused,     \* GameInstallationService::paused_
    record,     \* the version in installed-games.json
    installed,  \* the version in LauncherService::installed_
    tracked,    \* the game is in QtGameProcessService::processes_
    child,      \* the version the tracked process runs
    detached,   \* the versions processes of earlier launchers still run
    agreed      \* for the properties: no store or removal failed since the load

ui     == <<window, starts, listed, shown>>
worker == <<job, step>>
flags  == <<cancelled, paused>>
memory == <<record, installed, agreed>>
games  == <<tracked, child, detached>>
vars   == <<ui, queue, news, worker, flags, memory, games, rootVars>>

MaybeVersion == Versions \cup {NoVersion}

Running == detached \cup ({child} \ {NoVersion})

Init ==
    /\ RootInit
    /\ window = "open" /\ starts = 1 /\ listed = FALSE /\ shown = NoVersion
    /\ queue = <<"load">> /\ news = <<>>
    /\ job = "none" /\ step = "none"
    /\ cancelled = FALSE /\ paused = FALSE
    /\ record = NoVersion /\ installed = NoVersion /\ agreed = TRUE
    /\ tracked = FALSE /\ child = NoVersion /\ detached = {}

\* runAsync posts a snapshot only of a success.
JobDone(version) ==
    /\ job' = "none" /\ step' = "none"
    /\ news' = Append(news, version)

JobFails == job' = "none" /\ step' = "none" /\ UNCHANGED news

ContinueAt(s) == step' = s /\ UNCHANGED <<job, news>>

\* A launch goes on after its preparation, with the snapshot it will post.
Prepared(version) == IF job = "launch" THEN ContinueAt("ask") ELSE JobDone(version)

(***************************************************************************)
(* The window thread.                                                      *)
(***************************************************************************)

\* The primary button installs or launches by what the snapshot shows; the locate button is
\* beside it while there is nothing to launch.
OfferedByButtons(op) == op \in IF shown = NoVersion THEN {"install", "locate"} ELSE {"launch"}

OfferedByTools(op) == shown # NoVersion /\ op \in {"verify", "repair", "uninstall"}

Offered(op) == op = "media" \/ OfferedByButtons(op) \/ OfferedByTools(op)

Click(op) ==
    /\ window = "open" /\ listed
    /\ Offered(op)
    /\ Len(queue) + Len(news) < MaxPending
    /\ queue' = Append(queue, op)
    /\ UNCHANGED <<ui, news, worker, flags, memory, games, rootVars>>

\* The window pauses a game it shows as downloading.
Pause ==
    /\ window = "open" /\ step = "download"
    /\ paused' = TRUE
    /\ UNCHANGED <<ui, queue, news, worker, cancelled, memory, games, rootVars>>

Resume ==
    /\ window = "open" /\ paused
    /\ paused' = FALSE
    /\ UNCHANGED <<ui, queue, news, worker, cancelled, memory, games, rootVars>>

Deliver ==
    /\ window = "open" /\ news # <<>>
    /\ listed' = TRUE /\ shown' = Head(news) /\ news' = Tail(news)
    /\ UNCHANGED <<window, starts, queue, worker, flags, memory, games, rootVars>>

\* Mutant of StartGame: it waits until the game can be started.
PatientStartGame ==
    /\ window = "open" /\ step = "ask" /\ installed # NoVersion
    /\ news = <<>>
    /\ ~tracked /\ installed \in present
    /\ tracked' = TRUE /\ child' = installed
    /\ JobDone(installed)
    /\ UNCHANGED <<ui, queue, flags, memory, detached, rootVars>>

\* The worker's blocking call reaches the event loop behind the results posted
\* before it: a duplicate or a missing executable is refused, and a process
\* that does not start is discarded.
StartGame ==
    /\ window = "open" /\ step = "ask" /\ installed # NoVersion
    /\ news = <<>>
    /\ \/ /\ ~tracked /\ installed \in present
          /\ tracked' = TRUE /\ child' = installed
       \/ UNCHANGED <<tracked, child>>
    /\ JobDone(installed)
    /\ UNCHANGED <<ui, queue, flags, memory, detached, rootVars>>

\* The finished signal: the entry goes with the next turn of the event loop.
Reap ==
    /\ window = "open" /\ tracked /\ child = NoVersion
    /\ tracked' = FALSE
    /\ UNCHANGED <<ui, queue, news, worker, flags, memory, child, detached, rootVars>>

\* ~LauncherViewModel cancels, drops the queued operations and waits.
Close ==
    /\ window = "open"
    /\ window' = "closing"
    /\ cancelled' = TRUE
    /\ queue' = <<>>
    /\ UNCHANGED <<starts, listed, shown, news, worker, paused, memory, games, rootVars>>

Forgotten ==
    /\ queue' = <<>> /\ news' = <<>> /\ listed' = FALSE /\ shown' = NoVersion
    /\ job' = "none" /\ step' = "none"
    /\ cancelled' = FALSE /\ paused' = FALSE
    /\ installed' = NoVersion
    /\ tracked' = FALSE /\ child' = NoVersion /\ detached' = Running
    /\ UNCHANGED <<starts, record, agreed>>

\* The worker is done; the process service lets its games run on.
Closed ==
    /\ window = "closing" /\ job = "none"
    /\ window' = "closed"
    /\ Forgotten
    /\ UNCHANGED rootVars

(***************************************************************************)
(* The worker.                                                             *)
(***************************************************************************)

TakeJob ==
    /\ window # "closed" /\ job = "none" /\ queue # <<>>
    /\ job' = Head(queue) /\ step' = "begin" /\ queue' = Tail(queue)
    /\ UNCHANGED <<ui, news, flags, memory, games, rootVars>>

(***************************************************************************)
(* load: keep the record only if the marker agrees with it.                *)
(***************************************************************************)

\* validateActivation wants the marker, the release and its entrypoint; a release that is
\* not whole may lack the entrypoint.
Activated(v) == active = v /\ v \in present

\* Mutant of Load: the marker is not compared.
KeepStaleRecord ==
    /\ job = "load" /\ step = "begin"
    /\ installed' = record /\ agreed' = TRUE
    /\ JobDone(record) \/ JobFails
    /\ UNCHANGED <<ui, queue, flags, record, games, rootVars>>

\* A record the marker disagrees with is removed, then the catalog is fetched;
\* the load fails if either fails, or if nothing can be read.
Load ==
    /\ job = "load" /\ step = "begin"
    /\ \/ /\ record = NoVersion \/ Activated(record)
          /\ installed' = record /\ agreed' = TRUE
          /\ JobDone(record) \/ JobFails
          /\ UNCHANGED record
       \/ /\ record # NoVersion /\ ~(Activated(record) /\ record \in whole)
          /\ record' = NoVersion /\ installed' = NoVersion /\ agreed' = TRUE
          /\ JobDone(NoVersion) \/ JobFails
       \/ /\ agreed' = FALSE /\ JobFails
          /\ installed' \in {record, NoVersion}
          /\ UNCHANGED record
    /\ UNCHANGED <<ui, queue, flags, games, rootVars>>

(***************************************************************************)
(* Installing and updating.                                                *)
(***************************************************************************)

\* repair reinstalls only what does not verify; without a record it cannot.
Verify ==
    /\ job \in {"verify", "repair"} /\ step = "begin"
    /\ \/ installed \in whole /\ JobDone(installed)
       \/ IF job = "repair" THEN ContinueAt("check") ELSE JobFails
    /\ UNCHANGED <<ui, queue, flags, memory, games, rootVars>>

Newer == {v \in Versions : installed # NoVersion => v > installed}

\* prepareLaunch: without a record, a catalog entry or the setting there is
\* nothing to prepare; a newer release is installed first.
PrepareLaunch ==
    /\ job = "launch" /\ step = "begin"
    /\ \/ ContinueAt("ask")
       \/ installed # NoVersion /\ JobFails
       \/ installed # NoVersion /\ Newer # {} /\ ContinueAt("check")
    /\ UNCHANGED <<ui, queue, flags, memory, games, rootVars>>

\* launch refuses a game without a record before it asks the window thread.
LaunchRefused ==
    /\ job = "launch" /\ step = "ask"
    /\ installed = NoVersion
    /\ JobDone(installed)
    /\ UNCHANGED <<ui, queue, flags, memory, games, rootVars>>

\* Mutant of InstallOrUpdate: a running game is not looked at.
UncheckedInstallOrUpdate ==
    /\ (job = "install" /\ step = "begin") \/ step = "check"
    /\ cancelled' = FALSE /\ ContinueAt("resolve")
    /\ UNCHANGED <<ui, queue, paused, memory, games, rootVars>>

\* installOrUpdate: a running game or an unknown one is refused, and a new
\* operation starts uncancelled.
InstallOrUpdate ==
    /\ (job = "install" /\ step = "begin") \/ step = "check"
    /\ \/ JobFails /\ UNCHANGED cancelled
       \/ ~tracked /\ cancelled' = FALSE /\ ContinueAt("resolve")
    /\ UNCHANGED <<ui, queue, paused, memory, games, rootVars>>

\* The latest release is whatever the server names now, or cannot be used.
Resolve ==
    /\ step = "resolve"
    /\ \/ /\ JobFails
          /\ UNCHANGED <<paused, rootVars>>
       \/ /\ \E v \in Versions : BeginInstall(v)
          /\ paused' = FALSE
          /\ ContinueAt("download")
    /\ UNCHANGED <<ui, queue, cancelled, memory, games>>

Downloaded ==
    /\ step = "download" /\ ~paused /\ ~cancelled
    /\ ContinueAt("activate")
    /\ UNCHANGED <<ui, queue, flags, memory, games, rootVars>>

\* Mutant of DownloadStops: the operation ends while its work on the root goes on.
DownloadLeft ==
    /\ step = "download" /\ (cancelled \/ ~paused)
    /\ JobFails
    /\ UNCHANGED <<ui, queue, flags, memory, games, rootVars>>

\* Mutant of DownloadStops: a paused download does not see the cancellation.
StoppableDownload ==
    /\ step = "download" /\ ~paused
    /\ End
    /\ JobFails
    /\ UNCHANGED <<ui, queue, flags, memory, games>>

\* Cancelled, or failed while it was not paused.
DownloadStops ==
    /\ step = "download" /\ (cancelled \/ ~paused)
    /\ End
    /\ JobFails
    /\ UNCHANGED <<ui, queue, flags, memory, games>>

\* locateExisting asks nothing of the processes; its copy is neither paused
\* nor cancelled.
LocateExisting ==
    /\ job = "locate" /\ step = "begin"
    /\ \/ JobFails /\ UNCHANGED rootVars
       \/ (\E v \in Versions : BeginInstall(v)) /\ ContinueAt("activate")
    /\ UNCHANGED <<ui, queue, flags, memory, games>>

\* installFromMedia refuses a running game and skips a release that is not newer.
InstallFromMedia ==
    /\ job = "media" /\ step = "begin"
    /\ \/ JobFails /\ UNCHANGED rootVars
       \/ ~tracked /\ installed # NoVersion /\ JobDone(installed) /\ UNCHANGED rootVars
       \/ /\ ~tracked
          /\ \E v \in Newer : BeginInstall(v)
          /\ ContinueAt("activate")
    /\ UNCHANGED <<ui, queue, flags, memory, games>>

\* The operation inside the root.
Activating ==
    /\ step = "activate"
    /\ TakeAway \/ PutInPlace \/ Switch \/ \E w \in Versions : Drop(w)
    /\ IF phase' # "idle" THEN ContinueAt(step)
       ELSE IF phase = "switched" THEN ContinueAt("save") ELSE JobFails
    /\ UNCHANGED <<ui, queue, flags, memory, games>>

ActivationEnds ==
    /\ step = "activate"
    /\ End
    /\ IF phase = "switched" THEN ContinueAt("save") ELSE JobFails
    /\ UNCHANGED <<ui, queue, flags, memory, games>>

\* The record is saved only after the switch, and remembered only once saved.
SaveRecord ==
    /\ step = "save"
    /\ \/ record' = target /\ installed' = target /\ Prepared(target) /\ UNCHANGED agreed
       \/ agreed' = FALSE /\ JobFails /\ UNCHANGED <<record, installed>>
    /\ UNCHANGED <<ui, queue, flags, games, rootVars>>

(***************************************************************************)
(* Uninstalling.                                                           *)
(***************************************************************************)

\* Nothing to do without a record; a running game, or a root without its
\* marker, is refused.
Uninstall ==
    /\ job = "uninstall" /\ step = "begin"
    /\ \/ installed = NoVersion /\ JobDone(installed) /\ UNCHANGED rootVars
       \/ /\ installed # NoVersion /\ (tracked \/ active = NoVersion)
          /\ JobFails /\ UNCHANGED rootVars
       \/ /\ installed # NoVersion /\ ~tracked
          /\ BeginUninstall /\ ContinueAt("erase")
    /\ UNCHANGED <<ui, queue, flags, memory, games>>

Erasing ==
    /\ step = "erase"
    /\ Erase \/ EraseMarker
    /\ ContinueAt(step)
    /\ UNCHANGED <<ui, queue, flags, memory, games>>

\* removeRecursively removed everything, or left something behind.
Erased ==
    /\ step = "erase"
    /\ End
    /\ \/ active = NoVersion /\ present = {} /\ ContinueAt("forget") /\ UNCHANGED agreed
       \/ JobFails /\ agreed' = FALSE
    /\ UNCHANGED <<ui, queue, flags, record, installed, games>>

ForgetRecord ==
    /\ step = "forget"
    /\ \/ record' = NoVersion /\ installed' = NoVersion /\ JobDone(NoVersion) /\ UNCHANGED agreed
       \/ agreed' = FALSE /\ JobFails /\ UNCHANGED <<record, installed>>
    /\ UNCHANGED <<ui, queue, flags, games, rootVars>>

(***************************************************************************)
(* The environment.                                                        *)
(***************************************************************************)

GameExits ==
    /\ \/ child # NoVersion /\ child' = NoVersion /\ UNCHANGED detached
       \/ \E v \in detached : detached' = detached \ {v} /\ UNCHANGED child
    /\ UNCHANGED <<ui, queue, news, worker, flags, memory, tracked, rootVars>>

\* The launcher is killed: what it was doing stops where it is.
Kill ==
    /\ window # "closed"
    /\ window' = "closed"
    /\ Forgotten
    /\ phase' = "idle" /\ former' = NoVersion
    /\ UNCHANGED <<active, whole, present, target>>

Start ==
    /\ window = "closed" /\ starts < MaxStarts
    /\ window' = "open" /\ starts' = starts + 1
    /\ queue' = <<"load">>
    /\ UNCHANGED <<listed, shown, news, worker, flags, memory, games, rootVars>>

(***************************************************************************)
(* The specification.                                                      *)
(***************************************************************************)

WindowThread ==
    \/ \E op \in Operations : Click(op)
    \/ Pause \/ Resume \/ Deliver \/ StartGame \/ Reap \/ Close \/ Closed

WorkerThread ==
    \/ TakeJob \/ Load \/ Verify \/ PrepareLaunch \/ LaunchRefused
    \/ InstallOrUpdate \/ Resolve \/ Downloaded \/ DownloadStops
    \/ LocateExisting \/ InstallFromMedia \/ Activating \/ ActivationEnds \/ SaveRecord
    \/ Uninstall \/ Erasing \/ Erased \/ ForgetRecord

Next == WindowThread \/ WorkerThread \/ GameExits \/ Kill \/ Start

Spec == Init /\ [][Next]_vars

\* The operations are finite, the event loop runs until it is left, and the
\* worker and the window are scheduled; clicks, pauses, exits and kills are not
\* obliged to happen.
Fairness ==
    /\ WF_vars(WorkerThread) /\ WF_vars(ActivationEnds) /\ WF_vars(Erased)
    /\ WF_vars(Deliver) /\ WF_vars(StartGame) /\ WF_vars(Reap) /\ WF_vars(Closed)

FairSpec == Spec /\ Fairness

(***************************************************************************)
(* Properties.                                                             *)
(***************************************************************************)

\* Every variable keeps its type, no bound is exceeded, and the root is worked on only by an
\* operation the worker runs and has not ended (LauncherService, one operation at a time).
TypeOK ==
    /\ RootTypeOK
    /\ window \in {"open", "closing", "closed"} /\ starts \in 1..MaxStarts
    /\ queue \in Seq(Operations \cup {"load"}) /\ news \in Seq(MaybeVersion)
    /\ Len(queue) <= MaxPending
    /\ shown \in MaybeVersion
    /\ job \in Operations \cup {"load", "none"}
    /\ step \in {"none", "begin", "check", "resolve", "download", "activate", "save",
                 "ask", "erase", "forget"}
    /\ phase # "idle" => step \in {"download", "activate", "erase"}
    /\ cancelled \in BOOLEAN /\ paused \in BOOLEAN /\ agreed \in BOOLEAN
    /\ listed \in BOOLEAN
    /\ record \in MaybeVersion /\ installed \in MaybeVersion
    /\ tracked \in BOOLEAN /\ child \in MaybeVersion /\ detached \subseteq Versions

Loaded == window = "open" /\ job = "none" /\ \A i \in DOMAIN queue : queue[i] # "load"

\* No operation but locate installs into or erases the root while the game this
\* launcher started runs (isRunning in LauncherService, the single worker, the
\* blocking launch, what is offered); locateExisting does not ask.
NoUpdateWhileRunning == child # NoVersion => phase = "idle" \/ job = "locate"

\* As long as every store succeeds, what the service believes installed is what
\* it recorded and what the active marker names (load, installOrUpdate, uninstall).
RecordAgrees ==
    Loaded /\ agreed => installed = record /\ installed \in {active, NoVersion}

\* The cleanup after a switch never removes the release the launcher still
\* believes installed, so that a failed save leaves a game that starts
\* (obsolete_releases with the order of installOrUpdate).
BelievedReleaseSpared ==
    [][phase = "switched" /\ agreed /\ installed \in whole => installed \in whole']_vars

\* An operation the worker has taken ends unless the user pauses it.
OperationEnds ==
    (window = "open" /\ job # "none") ~> (job = "none" \/ paused \/ window # "open")

\* Closing the window stops the running operation and ends the launcher
\* (~LauncherViewModel).
QuitTerminates == window = "closing" ~> window = "closed"

\* It does so unless the operation is a launch that has come to its blocking
\* call: a download, paused or not, and an operation inside the root let it end.
OnlyLaunchBlocksQuit == window = "closing" ~> (window = "closed" \/ step = "ask")

\* A game the launcher lists as installed can be uninstalled: a removal that
\* stopped halfway may be tried again (GameInstallationService::uninstall). It does
\* not hold when a removal ends after active.json is gone; no run states it (README).
ListedGameRemovable == Loaded /\ installed # NoVersion => active # NoVersion
=============================================================================
