--------------------------- MODULE LauncherProofs ---------------------------
(***************************************************************************)
(* For any versions, operations and bounds: the types, that nothing but    *)
(* locate works on the root of a running game, that the memory, the record *)
(* and the active marker agree, and that a cleanup spares the release the  *)
(* launcher believes installed.                                            *)
(***************************************************************************)
EXTENDS Launcher, TLAPS

\* Where an operation is while the root is worked on, and what the marker is by then.
Places ==
    /\ job = "none" <=> step = "none"
    /\ job = "load" => step = "begin"
    /\ job = "locate" => step \in {"begin", "activate", "save"}
    /\ phase = "install" => step \in {"download", "activate"}
    /\ phase = "switched" => step = "activate"
    /\ phase = "uninstall" => step = "erase"
    /\ phase = "switched" \/ step = "save" => active = target
    /\ step = "forget" => active = NoVersion

\* The game does not run once an operation has looked for it.
Unwatched ==
    /\ child # NoVersion => tracked
    /\ step \in {"resolve", "download", "activate", "save", "erase", "forget"} /\ job # "locate"
           => ~tracked

\* The load is the first operation of a launcher, and the last one drops the rest.
LoadFirst ==
    /\ \A i \in DOMAIN queue : queue[i] = "load" => i = 1 /\ job = "none"
    /\ window = "closing" => queue = <<>>
    /\ window = "closed" => job = "none"

\* The launcher has loaded its record.
Known ==
    \/ job \notin {"none", "load"}
    \/ window = "open" /\ job = "none" /\ \A i \in DOMAIN queue : queue[i] # "load"

\* The memory, the record and the marker agree but between a switch or an erasure and the
\* save that follows; until then the release believed installed is the one switched from.
Agrees == agreed /\ Known =>
    /\ installed = record
    /\ \/ installed \in {active, NoVersion}
       \/ phase = "switched" /\ installed = former
       \/ step \in {"save", "erase", "forget"}

IInv == TypeOK /\ Places /\ Unwatched /\ LoadFirst /\ Agrees

-----------------------------------------------------------------------------
(* The types. *)

Queues == /\ queue \in Seq(Operations \cup {"load"}) /\ Len(queue) <= MaxPending
          /\ news \in Seq(MaybeVersion)

Locals ==
    /\ window \in {"open", "closing", "closed"} /\ starts \in 1..MaxStarts
    /\ shown \in MaybeVersion /\ listed \in BOOLEAN
    /\ job \in Operations \cup {"load", "none"}
    /\ step \in {"none", "begin", "check", "resolve", "download", "activate", "save",
                 "ask", "erase", "forget"}
    /\ cancelled \in BOOLEAN /\ paused \in BOOLEAN /\ agreed \in BOOLEAN
    /\ record \in MaybeVersion /\ installed \in MaybeVersion
    /\ tracked \in BOOLEAN /\ child \in MaybeVersion /\ detached \subseteq Versions

\* The root keeps its types.
LEMMA RootTypes == IInv /\ Next => RootTypeOK'
<1> SUFFICES ASSUME IInv, Next PROVE RootTypeOK'
  OBVIOUS
<1> USE OperationsAssumption, BoundsAssumption, VersionNumbers DEF IInv, ui, worker, flags,
   memory, games, rootVars, TypeOK, RootTypeOK, MaybeVersion
<1>1. ASSUME NEW op \in Operations, Click(op) PROVE RootTypeOK'
  BY <1>1 DEF Click
<1>2. CASE Pause
  BY <1>2 DEF Pause
<1>3. CASE Resume
  BY <1>3 DEF Resume
<1>4. CASE Deliver
  BY <1>4 DEF Deliver
<1>5. CASE StartGame
  BY <1>5 DEF StartGame, JobDone
<1>6. CASE Reap
  BY <1>6 DEF Reap
<1>7. CASE Close
  BY <1>7 DEF Close
<1>8. CASE Closed
  BY <1>8 DEF Closed, Forgotten, Running
<1>9. CASE TakeJob
  BY <1>9 DEF TakeJob
<1>10. CASE Load
  BY <1>10 DEF Load, Activated, JobDone, JobFails
<1>11. CASE Verify
  BY <1>11 DEF Verify, JobDone, JobFails, ContinueAt
<1>12. CASE PrepareLaunch
  BY <1>12 DEF PrepareLaunch, JobFails, ContinueAt
<1>13. CASE LaunchRefused
  BY <1>13 DEF LaunchRefused, JobDone
<1>14. CASE InstallOrUpdate
  BY <1>14 DEF InstallOrUpdate, JobFails, ContinueAt
<1>15. CASE Resolve
  BY <1>15 DEF Resolve, BeginInstall, JobFails, ContinueAt
<1>16. CASE Downloaded
  BY <1>16 DEF Downloaded, ContinueAt
<1>17. CASE DownloadStops
  BY <1>17 DEF DownloadStops, End, JobFails
<1>18. CASE LocateExisting
  BY <1>18 DEF LocateExisting, BeginInstall, JobFails, ContinueAt
<1>19. CASE InstallFromMedia
  BY <1>19 DEF InstallFromMedia, Newer, BeginInstall, JobFails, JobDone, ContinueAt
<1>20. CASE Activating
  BY <1>20 DEF Activating, TakeAway, PutInPlace, Switch, Drop, JobFails, ContinueAt
<1>21. CASE ActivationEnds
  BY <1>21 DEF ActivationEnds, End, JobFails, ContinueAt
<1>22. CASE SaveRecord
  BY <1>22 DEF SaveRecord, Prepared, JobDone, JobFails, ContinueAt
<1>23. CASE Uninstall
  BY <1>23 DEF Uninstall, BeginUninstall, JobDone, JobFails, ContinueAt
<1>24. CASE Erasing
  BY <1>24 DEF Erasing, Erase, EraseMarker, ContinueAt
<1>25. CASE Erased
  BY <1>25 DEF Erased, End, JobFails, ContinueAt
<1>26. CASE ForgetRecord
  BY <1>26 DEF ForgetRecord, JobDone, JobFails
<1>27. CASE GameExits
  BY <1>27 DEF GameExits
<1>28. CASE Kill
  BY <1>28 DEF Kill, Forgotten, Running
<1>29. CASE Start
  BY <1>29 DEF Start
<1> QED
  BY <1>1, <1>2, <1>3, <1>4, <1>5, <1>6, <1>7, <1>8, <1>9, <1>10, <1>11, <1>12, <1>13, <1>14,
     <1>15, <1>16, <1>17, <1>18, <1>19, <1>20, <1>21, <1>22, <1>23, <1>24, <1>25, <1>26, <1>27,
     <1>28, <1>29 DEF Next, WindowThread, WorkerThread

\* The variables of the two threads keep theirs.
LEMMA LocalTypes == IInv /\ Next => Locals'
<1> SUFFICES ASSUME IInv, Next PROVE Locals'
  OBVIOUS
<1> USE OperationsAssumption, BoundsAssumption, VersionNumbers DEF IInv, ui, worker, flags,
   memory, games, rootVars, TypeOK, RootTypeOK, MaybeVersion, AllOperations, Locals
<1>1. ASSUME NEW op \in Operations, Click(op) PROVE Locals'
  BY <1>1 DEF Click
<1>2. CASE Pause
  BY <1>2 DEF Pause
<1>3. CASE Resume
  BY <1>3 DEF Resume
<1>4. CASE Deliver
  BY <1>4 DEF Deliver
<1>5. CASE StartGame
  BY <1>5 DEF StartGame, JobDone
<1>6. CASE Reap
  BY <1>6 DEF Reap
<1>7. CASE Close
  BY <1>7 DEF Close
<1>8. CASE Closed
  BY <1>8 DEF Closed, Forgotten, Running
<1>9. CASE TakeJob
  BY <1>9 DEF TakeJob
<1>10. CASE Load
  BY <1>10 DEF Load, Activated, JobDone, JobFails
<1>11. CASE Verify
  BY <1>11 DEF Verify, JobDone, JobFails, ContinueAt
<1>12. CASE PrepareLaunch
  BY <1>12 DEF PrepareLaunch, JobFails, ContinueAt
<1>13. CASE LaunchRefused
  BY <1>13 DEF LaunchRefused, JobDone
<1>14. CASE InstallOrUpdate
  BY <1>14 DEF InstallOrUpdate, JobFails, ContinueAt
<1>15. CASE Resolve
  BY <1>15 DEF Resolve, BeginInstall, JobFails, ContinueAt
<1>16. CASE Downloaded
  BY <1>16 DEF Downloaded, ContinueAt
<1>17. CASE DownloadStops
  BY <1>17 DEF DownloadStops, End, JobFails
<1>18. CASE LocateExisting
  BY <1>18 DEF LocateExisting, BeginInstall, JobFails, ContinueAt
<1>19. CASE InstallFromMedia
  BY <1>19 DEF InstallFromMedia, Newer, BeginInstall, JobFails, JobDone, ContinueAt
<1>20. CASE Activating
  BY <1>20 DEF Activating, TakeAway, PutInPlace, Switch, Drop, JobFails, ContinueAt
<1>21. CASE ActivationEnds
  BY <1>21 DEF ActivationEnds, End, JobFails, ContinueAt
<1>22. CASE SaveRecord
  BY <1>22 DEF SaveRecord, Prepared, JobDone, JobFails, ContinueAt
<1>23. CASE Uninstall
  BY <1>23 DEF Uninstall, BeginUninstall, JobDone, JobFails, ContinueAt
<1>24. CASE Erasing
  BY <1>24 DEF Erasing, Erase, EraseMarker, ContinueAt
<1>25. CASE Erased
  BY <1>25 DEF Erased, End, JobFails, ContinueAt
<1>26. CASE ForgetRecord
  BY <1>26 DEF ForgetRecord, JobDone, JobFails
<1>27. CASE GameExits
  <2>1. UNCHANGED <<window, starts, listed, shown, job, step, cancelled, paused, record, installed,
                    agreed, tracked>>
    BY <1>27 DEF GameExits
  <2>2. child' \in MaybeVersion /\ detached' \subseteq Versions
    BY <1>27 DEF GameExits
  <2> QED
    BY <2>1, <2>2
<1>28. CASE Kill
  BY <1>28 DEF Kill, Forgotten, Running
<1>29. CASE Start
  BY <1>29 DEF Start
<1> QED
  BY <1>1, <1>2, <1>3, <1>4, <1>5, <1>6, <1>7, <1>8, <1>9, <1>10, <1>11, <1>12, <1>13, <1>14,
     <1>15, <1>16, <1>17, <1>18, <1>19, <1>20, <1>21, <1>22, <1>23, <1>24, <1>25, <1>26, <1>27,
     <1>28, <1>29 DEF Next, WindowThread, WorkerThread

\* A step of the worker that posts at most one result.
LEMMA Posting ==
    ASSUME IInv, queue' = queue, news' = news \/ \E v \in MaybeVersion : news' = Append(news, v)
    PROVE  Queues'
  BY DEF IInv, TypeOK, Queues

LEMMA QueueTypes == IInv /\ Next => Queues'
<1> SUFFICES ASSUME IInv, Next PROVE Queues'
  OBVIOUS
<1> USE OperationsAssumption, BoundsAssumption, VersionNumbers DEF IInv, ui, worker, flags,
   memory, games, rootVars, TypeOK, RootTypeOK, Queues
<1>1. ASSUME NEW op \in Operations, Click(op) PROVE Queues'
  BY <1>1 DEF Click
<1>2. CASE Pause
  BY <1>2 DEF Pause
<1>3. CASE Resume
  BY <1>3 DEF Resume
<1>4. CASE Deliver
  BY <1>4 DEF Deliver
<1>5. CASE StartGame
  BY <1>5 DEF StartGame, JobDone
<1>6. CASE Reap
  BY <1>6 DEF Reap
<1>7. CASE Close
  BY <1>7 DEF Close
<1>8. CASE Closed
  BY <1>8 DEF Closed, Forgotten, Running
<1>9. CASE TakeJob
  BY <1>9 DEF TakeJob
<1>10. CASE Load
  <2>1. queue' = queue /\ (news' = news \/ \E v \in MaybeVersion : news' = Append(news, v))
    BY <1>10 DEF MaybeVersion, Load, Activated, JobDone, JobFails
  <2> QED
    BY <2>1, Posting
<1>11. CASE Verify
  BY <1>11 DEF Verify, JobDone, JobFails, ContinueAt
<1>12. CASE PrepareLaunch
  BY <1>12 DEF PrepareLaunch, JobFails, ContinueAt
<1>13. CASE LaunchRefused
  BY <1>13 DEF LaunchRefused, JobDone
<1>14. CASE InstallOrUpdate
  BY <1>14 DEF InstallOrUpdate, JobFails, ContinueAt
<1>15. CASE Resolve
  BY <1>15 DEF Resolve, BeginInstall, JobFails, ContinueAt
<1>16. CASE Downloaded
  BY <1>16 DEF Downloaded, ContinueAt
<1>17. CASE DownloadStops
  BY <1>17 DEF DownloadStops, End, JobFails
<1>18. CASE LocateExisting
  BY <1>18 DEF LocateExisting, BeginInstall, JobFails, ContinueAt
<1>19. CASE InstallFromMedia
  <2>1. queue' = queue /\ (news' = news \/ \E v \in MaybeVersion : news' = Append(news, v))
    BY <1>19 DEF MaybeVersion, InstallFromMedia, Newer, BeginInstall, JobFails, JobDone, ContinueAt
  <2> QED
    BY <2>1, Posting
<1>20. CASE Activating
  BY <1>20 DEF Activating, TakeAway, PutInPlace, Switch, Drop, JobFails, ContinueAt
<1>21. CASE ActivationEnds
  BY <1>21 DEF ActivationEnds, End, JobFails, ContinueAt
<1>22. CASE SaveRecord
  <2>1. queue' = queue /\ (news' = news \/ \E v \in MaybeVersion : news' = Append(news, v))
    BY <1>22 DEF MaybeVersion, SaveRecord, Prepared, JobDone, JobFails, ContinueAt
  <2> QED
    BY <2>1, Posting
<1>23. CASE Uninstall
  BY <1>23 DEF Uninstall, BeginUninstall, JobDone, JobFails, ContinueAt
<1>24. CASE Erasing
  BY <1>24 DEF Erasing, Erase, EraseMarker, ContinueAt
<1>25. CASE Erased
  BY <1>25 DEF Erased, End, JobFails, ContinueAt
<1>26. CASE ForgetRecord
  <2>1. queue' = queue /\ (news' = news \/ \E v \in MaybeVersion : news' = Append(news, v))
    BY <1>26 DEF MaybeVersion, ForgetRecord, JobDone, JobFails
  <2> QED
    BY <2>1, Posting
<1>27. CASE GameExits
  BY <1>27 DEF GameExits
<1>28. CASE Kill
  BY <1>28 DEF Kill, Forgotten, Running
<1>29. CASE Start
  BY <1>29 DEF Start
<1> QED
  BY <1>1, <1>2, <1>3, <1>4, <1>5, <1>6, <1>7, <1>8, <1>9, <1>10, <1>11, <1>12, <1>13, <1>14,
     <1>15, <1>16, <1>17, <1>18, <1>19, <1>20, <1>21, <1>22, <1>23, <1>24, <1>25, <1>26, <1>27,
     <1>28, <1>29 DEF Next, WindowThread, WorkerThread

-----------------------------------------------------------------------------
(* The rest of the invariant. *)

\* Each operation passes its places in order, and looks for the game before the root.
LEMMA PlaceStep == IInv /\ Next => Places' /\ Unwatched'
<1> SUFFICES ASSUME IInv, Next PROVE Places' /\ Unwatched'
  OBVIOUS
<1> USE OperationsAssumption, BoundsAssumption, VersionNumbers DEF IInv, ui, worker, flags,
   memory, games, rootVars, TypeOK, RootTypeOK, AllOperations, Places, Unwatched
<1>1. ASSUME NEW op \in Operations, Click(op) PROVE Places' /\ Unwatched'
  BY <1>1 DEF Click
<1>2. CASE Pause
  BY <1>2 DEF Pause
<1>3. CASE Resume
  BY <1>3 DEF Resume
<1>4. CASE Deliver
  BY <1>4 DEF Deliver
<1>5. CASE StartGame
  BY <1>5 DEF StartGame, JobDone
<1>6. CASE Reap
  BY <1>6 DEF Reap
<1>7. CASE Close
  BY <1>7 DEF Close
<1>8. CASE Closed
  BY <1>8 DEF Closed, Forgotten, Running
<1>9. CASE TakeJob
  BY <1>9 DEF TakeJob
<1>10. CASE Load
  BY <1>10 DEF Load, Activated, JobDone, JobFails
<1>11. CASE Verify
  BY <1>11 DEF Verify, JobDone, JobFails, ContinueAt
<1>12. CASE PrepareLaunch
  BY <1>12 DEF PrepareLaunch, JobFails, ContinueAt
<1>13. CASE LaunchRefused
  BY <1>13 DEF LaunchRefused, JobDone
<1>14. CASE InstallOrUpdate
  BY <1>14 DEF InstallOrUpdate, JobFails, ContinueAt
<1>15. CASE Resolve
  BY <1>15 DEF Resolve, BeginInstall, JobFails, ContinueAt
<1>16. CASE Downloaded
  BY <1>16 DEF Downloaded, ContinueAt
<1>17. CASE DownloadStops
  BY <1>17 DEF DownloadStops, End, JobFails
<1>18. CASE LocateExisting
  BY <1>18 DEF LocateExisting, BeginInstall, JobFails, ContinueAt
<1>19. CASE InstallFromMedia
  BY <1>19 DEF InstallFromMedia, Newer, BeginInstall, JobFails, JobDone, ContinueAt
<1>20. CASE Activating
  BY <1>20 DEF Activating, TakeAway, PutInPlace, Switch, Drop, JobFails, ContinueAt
<1>21. CASE ActivationEnds
  BY <1>21 DEF ActivationEnds, End, JobFails, ContinueAt
<1>22. CASE SaveRecord
  BY <1>22 DEF SaveRecord, Prepared, JobDone, JobFails, ContinueAt
<1>23. CASE Uninstall
  BY <1>23 DEF Uninstall, BeginUninstall, JobDone, JobFails, ContinueAt
<1>24. CASE Erasing
  BY <1>24 DEF Erasing, Erase, EraseMarker, ContinueAt
<1>25. CASE Erased
  BY <1>25 DEF Erased, End, JobFails, ContinueAt
<1>26. CASE ForgetRecord
  BY <1>26 DEF ForgetRecord, JobDone, JobFails
<1>27. CASE GameExits
  BY <1>27 DEF GameExits
<1>28. CASE Kill
  BY <1>28 DEF Kill, Forgotten, Running
<1>29. CASE Start
  BY <1>29 DEF Start
<1> QED
  BY <1>1, <1>2, <1>3, <1>4, <1>5, <1>6, <1>7, <1>8, <1>9, <1>10, <1>11, <1>12, <1>13, <1>14,
     <1>15, <1>16, <1>17, <1>18, <1>19, <1>20, <1>21, <1>22, <1>23, <1>24, <1>25, <1>26, <1>27,
     <1>28, <1>29 DEF Next, WindowThread, WorkerThread

LEMMA TypeStep == IInv /\ Next => TypeOK'
<1> SUFFICES ASSUME IInv, Next PROVE TypeOK'
  OBVIOUS
<1>1. (phase # "idle" => step \in {"download", "activate", "erase"})'
  BY PlaceStep, RootTypes DEF Places, RootTypeOK
<1> QED
  BY <1>1, RootTypes, LocalTypes, QueueTypes DEF Locals, Queues, TypeOK

\* Nothing is queued before the load of a launcher, and nothing runs before it.
LEMMA FirstStep == IInv /\ Next => LoadFirst'
<1> SUFFICES ASSUME IInv, Next PROVE LoadFirst'
  OBVIOUS
<1> USE OperationsAssumption, BoundsAssumption, VersionNumbers DEF IInv, ui, worker, flags,
   memory, games, rootVars, TypeOK, AllOperations, Places, LoadFirst
<1>1. ASSUME NEW op \in Operations, Click(op) PROVE LoadFirst'
  BY <1>1 DEF Click
<1>2. CASE Pause
  BY <1>2 DEF Pause
<1>3. CASE Resume
  BY <1>3 DEF Resume
<1>4. CASE Deliver
  BY <1>4 DEF Deliver
<1>5. CASE StartGame
  BY <1>5 DEF StartGame, JobDone
<1>6. CASE Reap
  BY <1>6 DEF Reap
<1>7. CASE Close
  BY <1>7 DEF Close
<1>8. CASE Closed
  BY <1>8 DEF Closed, Forgotten, Running
<1>9. CASE TakeJob
  BY <1>9 DEF TakeJob
<1>10. CASE Load
  BY <1>10 DEF Load, Activated, JobDone, JobFails
<1>11. CASE Verify
  BY <1>11 DEF Verify, JobDone, JobFails, ContinueAt
<1>12. CASE PrepareLaunch
  BY <1>12 DEF PrepareLaunch, JobFails, ContinueAt
<1>13. CASE LaunchRefused
  BY <1>13 DEF LaunchRefused, JobDone
<1>14. CASE InstallOrUpdate
  BY <1>14 DEF InstallOrUpdate, JobFails, ContinueAt
<1>15. CASE Resolve
  BY <1>15 DEF Resolve, BeginInstall, JobFails, ContinueAt
<1>16. CASE Downloaded
  BY <1>16 DEF Downloaded, ContinueAt
<1>17. CASE DownloadStops
  BY <1>17 DEF DownloadStops, End, JobFails
<1>18. CASE LocateExisting
  BY <1>18 DEF LocateExisting, BeginInstall, JobFails, ContinueAt
<1>19. CASE InstallFromMedia
  BY <1>19 DEF InstallFromMedia, Newer, BeginInstall, JobFails, JobDone, ContinueAt
<1>20. CASE Activating
  BY <1>20 DEF Activating, TakeAway, PutInPlace, Switch, Drop, JobFails, ContinueAt
<1>21. CASE ActivationEnds
  BY <1>21 DEF ActivationEnds, End, JobFails, ContinueAt
<1>22. CASE SaveRecord
  BY <1>22 DEF SaveRecord, Prepared, JobDone, JobFails, ContinueAt
<1>23. CASE Uninstall
  BY <1>23 DEF Uninstall, BeginUninstall, JobDone, JobFails, ContinueAt
<1>24. CASE Erasing
  BY <1>24 DEF Erasing, Erase, EraseMarker, ContinueAt
<1>25. CASE Erased
  BY <1>25 DEF Erased, End, JobFails, ContinueAt
<1>26. CASE ForgetRecord
  BY <1>26 DEF ForgetRecord, JobDone, JobFails
<1>27. CASE GameExits
  BY <1>27 DEF GameExits
<1>28. CASE Kill
  BY <1>28 DEF Kill, Forgotten, Running
<1>29. CASE Start
  BY <1>29 DEF Start
<1> QED
  BY <1>1, <1>2, <1>3, <1>4, <1>5, <1>6, <1>7, <1>8, <1>9, <1>10, <1>11, <1>12, <1>13, <1>14,
     <1>15, <1>16, <1>17, <1>18, <1>19, <1>20, <1>21, <1>22, <1>23, <1>24, <1>25, <1>26, <1>27,
     <1>28, <1>29 DEF Next, WindowThread, WorkerThread

\* The switch, the save and the load keep the memory, the record and the marker together.
LEMMA AgreeStep == IInv /\ Next => Agrees'
<1> SUFFICES ASSUME IInv, Next PROVE Agrees'
  OBVIOUS
<1> USE OperationsAssumption, BoundsAssumption, VersionNumbers DEF IInv, ui, worker, flags,
   memory, games, rootVars, TypeOK, RootTypeOK, AllOperations, Places, LoadFirst, Agrees, Known
<1>1. ASSUME NEW op \in Operations, Click(op) PROVE Agrees'
  BY <1>1 DEF Click
<1>2. CASE Pause
  BY <1>2 DEF Pause
<1>3. CASE Resume
  BY <1>3 DEF Resume
<1>4. CASE Deliver
  BY <1>4 DEF Deliver
<1>5. CASE StartGame
  BY <1>5 DEF StartGame, JobDone
<1>6. CASE Reap
  BY <1>6 DEF Reap
<1>7. CASE Close
  BY <1>7 DEF Close
<1>8. CASE Closed
  BY <1>8 DEF Closed, Forgotten, Running
<1>9. CASE TakeJob
  BY <1>9 DEF TakeJob
<1>10. CASE Load
  BY <1>10 DEF Load, Activated, JobDone, JobFails
<1>11. CASE Verify
  BY <1>11 DEF Verify, JobDone, JobFails, ContinueAt
<1>12. CASE PrepareLaunch
  BY <1>12 DEF PrepareLaunch, JobFails, ContinueAt
<1>13. CASE LaunchRefused
  BY <1>13 DEF LaunchRefused, JobDone
<1>14. CASE InstallOrUpdate
  BY <1>14 DEF InstallOrUpdate, JobFails, ContinueAt
<1>15. CASE Resolve
  BY <1>15 DEF Resolve, BeginInstall, JobFails, ContinueAt
<1>16. CASE Downloaded
  BY <1>16 DEF Downloaded, ContinueAt
<1>17. CASE DownloadStops
  BY <1>17 DEF DownloadStops, End, JobFails
<1>18. CASE LocateExisting
  BY <1>18 DEF LocateExisting, BeginInstall, JobFails, ContinueAt
<1>19. CASE InstallFromMedia
  BY <1>19 DEF InstallFromMedia, Newer, BeginInstall, JobFails, JobDone, ContinueAt
<1>20. CASE Activating
  BY <1>20 DEF Activating, TakeAway, PutInPlace, Switch, Drop, JobFails, ContinueAt
<1>21. CASE ActivationEnds
  BY <1>21 DEF ActivationEnds, End, JobFails, ContinueAt
<1>22. CASE SaveRecord
  BY <1>22 DEF SaveRecord, Prepared, JobDone, JobFails, ContinueAt
<1>23. CASE Uninstall
  BY <1>23 DEF Uninstall, BeginUninstall, JobDone, JobFails, ContinueAt
<1>24. CASE Erasing
  BY <1>24 DEF Erasing, Erase, EraseMarker, ContinueAt
<1>25. CASE Erased
  BY <1>25 DEF Erased, End, JobFails, ContinueAt
<1>26. CASE ForgetRecord
  BY <1>26 DEF ForgetRecord, JobDone, JobFails
<1>27. CASE GameExits
  BY <1>27 DEF GameExits
<1>28. CASE Kill
  BY <1>28 DEF Kill, Forgotten, Running
<1>29. CASE Start
  BY <1>29 DEF Start
<1> QED
  BY <1>1, <1>2, <1>3, <1>4, <1>5, <1>6, <1>7, <1>8, <1>9, <1>10, <1>11, <1>12, <1>13, <1>14,
     <1>15, <1>16, <1>17, <1>18, <1>19, <1>20, <1>21, <1>22, <1>23, <1>24, <1>25, <1>26, <1>27,
     <1>28, <1>29 DEF Next, WindowThread, WorkerThread

LEMMA InitInv == Init => IInv
<1> SUFFICES ASSUME Init PROVE IInv
  OBVIOUS
<1>1. RootTypeOK /\ Locals
  <2>1. RootTypeOK
    BY DEF Init, RootInit, RootTypeOK
  <2>2. starts \in 1..MaxStarts
    BY BoundsAssumption DEF Init
  <2> QED
    BY <2>1, <2>2 DEF Init, Locals, MaybeVersion
<1>2. Queues
  BY BoundsAssumption DEF Init, Queues
<1>3. Places /\ Unwatched /\ LoadFirst /\ Agrees
  BY DEF Init, RootInit, Places, Unwatched, LoadFirst, Agrees, Known
<1>4. phase = "idle"
  BY DEF Init, RootInit
<1> QED
  BY <1>1, <1>2, <1>3, <1>4 DEF IInv, TypeOK, Locals, Queues

LEMMA NextInv == IInv /\ [Next]_vars => IInv'
<1>1. ASSUME IInv, UNCHANGED vars PROVE IInv'
  BY <1>1 DEF IInv, TypeOK, RootTypeOK, Places, Unwatched, LoadFirst, Agrees, Known,
     vars, ui, worker, flags, memory, games, rootVars
<1>2. ASSUME IInv, Next PROVE IInv'
  <2>1. TypeOK'
    BY <1>2, TypeStep
  <2> QED
    BY <1>2, <2>1, PlaceStep, FirstStep, AgreeStep DEF IInv
<1> QED
  BY <1>1, <1>2

LEMMA InvHolds == Spec => []IInv
  BY InitInv, NextInv, PTL DEF Spec

\* Only the activation and the erasure touch a release, and the activation spares this one.
LEMMA SpareStep ==
    ASSUME IInv, Next, phase = "switched", agreed, installed \in whole
    PROVE  installed \in whole'
<1> USE OperationsAssumption, BoundsAssumption, VersionNumbers DEF IInv, ui, worker, flags,
   memory, games, rootVars, TypeOK, RootTypeOK, AllOperations, Places, Agrees, Known
<1>1. ASSUME NEW op \in Operations, Click(op) PROVE installed \in whole'
  BY <1>1 DEF Click
<1>2. CASE Pause
  BY <1>2 DEF Pause
<1>3. CASE Resume
  BY <1>3 DEF Resume
<1>4. CASE Deliver
  BY <1>4 DEF Deliver
<1>5. CASE StartGame
  BY <1>5 DEF StartGame, JobDone
<1>6. CASE Reap
  BY <1>6 DEF Reap
<1>7. CASE Close
  BY <1>7 DEF Close
<1>8. CASE Closed
  BY <1>8 DEF Closed, Forgotten, Running
<1>9. CASE TakeJob
  BY <1>9 DEF TakeJob
<1>10. CASE Load
  BY <1>10 DEF Load, Activated, JobDone, JobFails
<1>11. CASE Verify
  BY <1>11 DEF Verify, JobDone, JobFails, ContinueAt
<1>12. CASE PrepareLaunch
  BY <1>12 DEF PrepareLaunch, JobFails, ContinueAt
<1>13. CASE LaunchRefused
  BY <1>13 DEF LaunchRefused, JobDone
<1>14. CASE InstallOrUpdate
  BY <1>14 DEF InstallOrUpdate, JobFails, ContinueAt
<1>15. CASE Resolve
  BY <1>15 DEF Resolve, BeginInstall, JobFails, ContinueAt
<1>16. CASE Downloaded
  BY <1>16 DEF Downloaded, ContinueAt
<1>17. CASE DownloadStops
  BY <1>17 DEF DownloadStops, End, JobFails
<1>18. CASE LocateExisting
  BY <1>18 DEF LocateExisting, BeginInstall, JobFails, ContinueAt
<1>19. CASE InstallFromMedia
  BY <1>19 DEF InstallFromMedia, Newer, BeginInstall, JobFails, JobDone, ContinueAt
<1>20. CASE Activating
  BY <1>20 DEF Activating, TakeAway, PutInPlace, Switch, Drop, JobFails, ContinueAt
<1>21. CASE ActivationEnds
  BY <1>21 DEF ActivationEnds, End, JobFails, ContinueAt
<1>22. CASE SaveRecord
  BY <1>22 DEF SaveRecord, Prepared, JobDone, JobFails, ContinueAt
<1>23. CASE Uninstall
  BY <1>23 DEF Uninstall, BeginUninstall, JobDone, JobFails, ContinueAt
<1>24. CASE Erasing
  BY <1>24 DEF Erasing, Erase, EraseMarker, ContinueAt
<1>25. CASE Erased
  BY <1>25 DEF Erased, End, JobFails, ContinueAt
<1>26. CASE ForgetRecord
  BY <1>26 DEF ForgetRecord, JobDone, JobFails
<1>27. CASE GameExits
  BY <1>27 DEF GameExits
<1>28. CASE Kill
  BY <1>28 DEF Kill, Forgotten, Running
<1>29. CASE Start
  BY <1>29 DEF Start
<1> QED
  BY <1>1, <1>2, <1>3, <1>4, <1>5, <1>6, <1>7, <1>8, <1>9, <1>10, <1>11, <1>12, <1>13, <1>14,
     <1>15, <1>16, <1>17, <1>18, <1>19, <1>20, <1>21, <1>22, <1>23, <1>24, <1>25, <1>26, <1>27,
     <1>28, <1>29 DEF Next, WindowThread, WorkerThread

-----------------------------------------------------------------------------
(* The theorems. *)

\* The types of the window's and the worker's state and of the root, and a queue within its
\* bound (LauncherViewModel, LauncherService).
THEOREM TypeCorrect == Spec => []TypeOK
<1>1. IInv => TypeOK
  BY DEF IInv
<1> QED
  BY <1>1, InvHolds, PTL

\* Nothing but locate installs into or erases the root while the game this launcher started
\* runs: the other operations look for it, and only a launch starts it (isRunning).
THEOREM NeverUpdatedWhileRunning == Spec => []NoUpdateWhileRunning
<1>1. IInv => NoUpdateWhileRunning
  BY DEF IInv, TypeOK, RootTypeOK, Places, Unwatched, NoUpdateWhileRunning
<1> QED
  BY <1>1, InvHolds, PTL

\* As long as every store and removal succeeds, the memory, the record and the marker agree
\* when no operation runs, across kills and restarts (load, installOrUpdate, uninstall).
THEOREM RecordAlwaysAgrees == Spec => []RecordAgrees
<1>1. IInv => RecordAgrees
  BY DEF IInv, Places, Agrees, Known, Loaded, RecordAgrees
<1> QED
  BY <1>1, InvHolds, PTL

\* The cleanup after a switch never removes the release the launcher still believes
\* installed (obsolete_releases with the order of installOrUpdate).
THEOREM BelievedIsSpared == Spec => BelievedReleaseSpared
<1>1. IInv /\ [Next]_vars
        => [phase = "switched" /\ agreed /\ installed \in whole => installed \in whole']_vars
  BY SpareStep
<1> QED
  BY <1>1, InvHolds, PTL DEF Spec, BelievedReleaseSpared
=============================================================================
