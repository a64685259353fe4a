------------------------- MODULE InstallationProofs -------------------------
(***************************************************************************)
(* For any set of versions and of trees: what the marker committed, and    *)
(* what was active before it, survive every failed step and every kill.    *)
(***************************************************************************)
EXTENDS Installation, TLAPS

\* A directory tree is at one path.
OnePath ==
    /\ \A v, w \in Versions : releases[v] # NoCopy /\ releases[v] = releases[w] => v = w
    /\ \A v, w \in Versions : trash[v] # NoCopy /\ trash[v] = trash[w] => v = w
    /\ \A s, t \in Slots : staging[s] # NoCopy /\ staging[s] = staging[t] => s = t
    /\ \A v, w \in Versions : releases[v] # NoCopy => releases[v] # trash[w]
    /\ \A v \in Versions, s \in Slots : releases[v] # NoCopy => releases[v] # staging[s]
    /\ \A v \in Versions, s \in Slots : trash[v] # NoCopy => trash[v] # staging[s]

\* What the operation knows of the directories at each of its steps.
Progress ==
    /\ pc = "assemble" => staging[Slot] # NoCopy
    /\ pc \in {"activate", "backup", "move"} =>
           staging[Slot] # NoCopy /\ staging[Slot] \notin torn
    /\ pc \in {"backup", "move", "commit"} => previous = marker
    /\ pc = "backup" => releases[ver] # NoCopy /\ trash[ver] = NoCopy
    /\ pc = "move" => releases[ver] = NoCopy /\ (had => trash[ver] # NoCopy)
    /\ pc \in {"commit", "unmove"} =>
           /\ releases[ver] # NoCopy /\ releases[ver] \notin torn
           /\ releases[ver] # live /\ releases[ver] # prior
           /\ staging[Slot] = NoCopy
           /\ had => trash[ver] # NoCopy
    /\ pc = "restore" => releases[ver] = NoCopy /\ trash[ver] # NoCopy
    /\ pc = "uninstall" => live = NoCopy /\ prior = NoCopy

\* During the cleanup the active release is in place, and the previous one is
\* where the cleanup does not reach.
CleanupSafe ==
    pc = "clean" =>
        /\ marker = ver /\ releases[ver] = live /\ live # NoCopy
        /\ prior # NoCopy =>
               \E w \in Versions : w # ver /\ (trash[w] = prior
                                               \/ (Kept(w) /\ releases[w] = prior))

IInv == TypeOK /\ OnePath /\ Progress /\ CleanupSafe
               /\ CommittedReleaseKept /\ PreviousReleaseKept

\* The tree a staging attempt fills is at no other path.
LEMMA FreshTree ==
    ASSUME TypeOK, NEW s \in Slots, NEW c \in Fresh(staging[s])
    PROVE  /\ c \in Copies
           /\ OnePath => /\ \A v \in Versions : releases[v] # c /\ trash[v] # c
                         /\ \A t \in Slots : staging[t] = c => t = s
  <1>1. CASE staging[s] = NoCopy
    BY <1>1 DEF Fresh, Occupied
  <1>2. CASE staging[s] # NoCopy
    BY <1>2 DEF Fresh, OnePath, TypeOK, MaybeCopy
  <1>3. QED
    BY <1>1, <1>2

LEMMA TypeStep == TypeOK /\ [Next]_vars => TypeOK'
  <1> SUFFICES ASSUME TypeOK, [Next]_vars PROVE TypeOK'
    OBVIOUS
  <1> USE DEF TypeOK, Slots, MaybeCopy, MaybeVersion, Steps, Slot, storage, operation, promise
  <1>1. ASSUME NEW v \in Versions, StartInstall(v) PROVE TypeOK'
    <2>1. <<"download", v>> \in Slots
      BY <1>1 DEF StartInstall
    <2>2. PICK c \in Fresh(staging[<<"download", v>>]) :
            /\ staging' = [staging EXCEPT ![<<"download", v>>] = c]
            /\ torn' = torn \cup {c}
      BY <1>1 DEF StartInstall
    <2>3. c \in Copies
      BY <2>1, <2>2, FreshTree
    <2>4. QED
      BY <1>1, <2>1, <2>2, <2>3 DEF StartInstall
  <1>2. ASSUME NEW v \in Versions, StartImport(v) PROVE TypeOK'
    <2>1. <<"import", v>> \in Slots
      BY <1>2 DEF StartImport
    <2>2. PICK c \in Fresh(staging[<<"import", v>>]) :
            /\ staging' = [staging EXCEPT ![<<"import", v>>] = c]
            /\ torn' = torn \cup {c}
      BY <1>2 DEF StartImport
    <2>3. c \in Copies
      BY <2>1, <2>2, FreshTree
    <2>4. QED
      BY <1>2, <2>1, <2>2, <2>3 DEF StartImport
  <1>3. ASSUME Assembled PROVE TypeOK'
    BY <1>3 DEF Assembled
  <1>4. ASSUME StagingFails PROVE TypeOK'
    BY <1>4 DEF StagingFails
  <1>5. ASSUME DiscardStaging PROVE TypeOK'
    BY <1>5 DEF DiscardStaging
  <1>6. ASSUME Activate PROVE TypeOK'
    BY <1>6 DEF Activate
  <1>7. ASSUME ActivateRefused PROVE TypeOK'
    BY <1>7 DEF ActivateRefused
  <1>8. ASSUME BackupTarget PROVE TypeOK'
    BY <1>8 DEF BackupTarget
  <1>9. ASSUME MoveStaged PROVE TypeOK'
    BY <1>9 DEF MoveStaged
  <1>10. ASSUME MoveStagedFails PROVE TypeOK'
    BY <1>10 DEF MoveStagedFails
  <1>11. ASSUME Commit PROVE TypeOK'
    BY <1>11 DEF Commit
  <1>12. ASSUME CommitFails PROVE TypeOK'
    BY <1>12 DEF CommitFails
  <1>13. ASSUME ReturnToStaging PROVE TypeOK'
    BY <1>13 DEF ReturnToStaging
  <1>14. ASSUME RestoreBackup PROVE TypeOK'
    BY <1>14 DEF RestoreBackup
  <1>15. ASSUME NEW w \in Versions, RemoveObsolete(w) PROVE TypeOK'
    BY <1>15 DEF RemoveObsolete, Obsolete
  <1>16. ASSUME NEW w \in Versions, TearObsolete(w) PROVE TypeOK'
    BY <1>16 DEF TearObsolete, Obsolete
  <1>17. ASSUME RemoveBackup PROVE TypeOK'
    BY <1>17 DEF RemoveBackup
  <1>18. ASSUME TearBackup PROVE TypeOK'
    BY <1>18 DEF TearBackup
  <1>19. ASSUME NEW c \in Copies, RemoveTree(c) PROVE TypeOK'
    BY <1>19 DEF RemoveTree
  <1>20. ASSUME RemoveMarker PROVE TypeOK'
    BY <1>20 DEF RemoveMarker
  <1>21. ASSUME Uninstalled PROVE TypeOK'
    BY <1>21 DEF Uninstalled
  <1>22. ASSUME StartUninstall PROVE TypeOK'
    BY <1>22, CopiesAssumption, KindsAssumption DEF StartUninstall
  <1>23. ASSUME CleanupTemporary PROVE TypeOK'
    BY <1>23 DEF CleanupTemporary
  <1>24. ASSUME Stop PROVE TypeOK'
    BY <1>24 DEF Stop
  <1>25. ASSUME UNCHANGED vars PROVE TypeOK'
    BY <1>25 DEF vars
  <1>q. QED
    BY <1>1, <1>2, <1>3, <1>4, <1>5, <1>6, <1>7, <1>8, <1>9, <1>10, <1>11, <1>12, <1>13, <1>14, <1>15, <1>16, <1>17, <1>18, <1>19, <1>20, <1>21, <1>22, <1>23, <1>24, <1>25 DEF Next, Worker, User

LEMMA InvStep == IInv /\ [Next]_vars => IInv'
  <1> SUFFICES ASSUME IInv, [Next]_vars PROVE IInv'
    OBVIOUS
  <1>t. TypeOK /\ TypeOK'
    BY TypeStep DEF IInv
  <1> USE DEF IInv, storage, operation, promise
  <1>1. ASSUME NEW v \in Versions, StartInstall(v) PROVE IInv'
    <2> DEFINE slot == <<"download", v>>
    <2>1. slot \in Slots
      BY <1>1 DEF StartInstall, Slots
    <2>2. PICK c \in Fresh(staging[slot]) :
            staging' = [staging EXCEPT ![slot] = c] /\ torn' = torn \cup {c}
      BY <1>1 DEF StartInstall
    <2>3. /\ c \in Copies
          /\ \A w \in Versions : releases[w] # c /\ trash[w] # c
          /\ \A t \in Slots : staging[t] = c => t = slot
      BY <1>t, <2>1, <2>2, FreshTree
    <2>4. /\ UNCHANGED <<releases, trash, marker, live, prior>>
          /\ pc' = "assemble" /\ Slot' = slot
      BY <1>1 DEF StartInstall, Slot
    <2> HIDE DEF slot
    <2>5. OnePath'
      BY <1>t, <2>1, <2>2, <2>3, <2>4 DEF OnePath, TypeOK
    <2>6. Progress'
      BY <1>t, <2>1, <2>2, <2>3, <2>4, CopiesAssumption DEF Progress, TypeOK
    <2>7. CleanupSafe'
      BY <2>4 DEF CleanupSafe
    <2>8. CommittedReleaseKept'
      BY <1>t, <2>2, <2>3, <2>4 DEF CommittedReleaseKept, TypeOK, MaybeVersion
    <2>9. PreviousReleaseKept'
      BY <1>t, <2>2, <2>3, <2>4 DEF PreviousReleaseKept
    <2>10. QED
      BY <1>t, <2>5, <2>6, <2>7, <2>8, <2>9
  <1>2. ASSUME NEW v \in Versions, StartImport(v) PROVE IInv'
    <2> DEFINE slot == <<"import", v>>
    <2>1. slot \in Slots
      BY <1>2 DEF StartImport, Slots
    <2>2. PICK c \in Fresh(staging[slot]) :
            staging' = [staging EXCEPT ![slot] = c] /\ torn' = torn \cup {c}
      BY <1>2 DEF StartImport
    <2>3. /\ c \in Copies
          /\ \A w \in Versions : releases[w] # c /\ trash[w] # c
          /\ \A t \in Slots : staging[t] = c => t = slot
      BY <1>t, <2>1, <2>2, FreshTree
    <2>4. /\ UNCHANGED <<releases, trash, marker, live, prior>>
          /\ pc' = "assemble" /\ Slot' = slot
      BY <1>2 DEF StartImport, Slot
    <2> HIDE DEF slot
    <2>5. OnePath'
      BY <1>t, <2>1, <2>2, <2>3, <2>4 DEF OnePath, TypeOK
    <2>6. Progress'
      BY <1>t, <2>1, <2>2, <2>3, <2>4, CopiesAssumption DEF Progress, TypeOK
    <2>7. CleanupSafe'
      BY <2>4 DEF CleanupSafe
    <2>8. CommittedReleaseKept'
      BY <1>t, <2>2, <2>3, <2>4 DEF CommittedReleaseKept, TypeOK, MaybeVersion
    <2>9. PreviousReleaseKept'
      BY <1>t, <2>2, <2>3, <2>4 DEF PreviousReleaseKept
    <2>10. QED
      BY <1>t, <2>5, <2>6, <2>7, <2>8, <2>9
  <1>3. ASSUME Assembled PROVE IInv'
    <2>1. OnePath'
      BY <1>3, <1>t DEF Assembled, OnePath, TypeOK, Slots, MaybeCopy, MaybeVersion
    <2>2. Progress'
      BY <1>3, <1>t DEF Assembled, OnePath, Progress, Slot, CommittedReleaseKept, PreviousReleaseKept, TypeOK, Slots, MaybeCopy, MaybeVersion
    <2>3. CleanupSafe'
      BY <1>3, <1>t DEF Assembled, CleanupSafe, OnePath, Progress, Kept, HighestOlder, TypeOK, Slots, MaybeCopy, MaybeVersion
    <2>4. CommittedReleaseKept'
      BY <1>3, <1>t DEF Assembled, CommittedReleaseKept, OnePath, Progress, CleanupSafe, Slot, TypeOK, Slots, MaybeCopy, MaybeVersion
    <2>5. PreviousReleaseKept'
      BY <1>3, <1>t DEF Assembled, PreviousReleaseKept, OnePath, Progress, CleanupSafe, Slot, TypeOK, Slots, MaybeCopy, MaybeVersion
    <2>6. QED
      BY <1>t, <2>1, <2>2, <2>3, <2>4, <2>5
  <1>4. ASSUME StagingFails PROVE IInv'
    <2>1. OnePath'
      BY <1>4, <1>t DEF StagingFails, OnePath, TypeOK, Slots, MaybeCopy, MaybeVersion
    <2>2. Progress'
      BY <1>4, <1>t DEF StagingFails, OnePath, Progress, Slot, CommittedReleaseKept, PreviousReleaseKept, TypeOK, Slots, MaybeCopy, MaybeVersion
    <2>3. CleanupSafe'
      BY <1>4, <1>t DEF StagingFails, CleanupSafe, OnePath, Progress, Kept, HighestOlder, TypeOK, Slots, MaybeCopy, MaybeVersion
    <2>4. CommittedReleaseKept'
      BY <1>4, <1>t DEF StagingFails, CommittedReleaseKept, OnePath, Progress, CleanupSafe, Slot, TypeOK, Slots, MaybeCopy, MaybeVersion
    <2>5. PreviousReleaseKept'
      BY <1>4, <1>t DEF StagingFails, PreviousReleaseKept, OnePath, Progress, CleanupSafe, Slot, TypeOK, Slots, MaybeCopy, MaybeVersion
    <2>6. QED
      BY <1>t, <2>1, <2>2, <2>3, <2>4, <2>5
  <1>5. ASSUME DiscardStaging PROVE IInv'
    <2>1. OnePath'
      BY <1>5, <1>t DEF DiscardStaging, OnePath, TypeOK, Slots, MaybeCopy, MaybeVersion
    <2>2. Progress'
      BY <1>5, <1>t DEF DiscardStaging, OnePath, Progress, Slot, CommittedReleaseKept, PreviousReleaseKept, TypeOK, Slots, MaybeCopy, MaybeVersion
    <2>3. CleanupSafe'
      BY <1>5, <1>t DEF DiscardStaging, CleanupSafe, OnePath, Progress, Kept, HighestOlder, TypeOK, Slots, MaybeCopy, MaybeVersion
    <2>4. CommittedReleaseKept'
      BY <1>5, <1>t DEF DiscardStaging, CommittedReleaseKept, OnePath, Progress, CleanupSafe, Slot, TypeOK, Slots, MaybeCopy, MaybeVersion
    <2>5. PreviousReleaseKept'
      BY <1>5, <1>t DEF DiscardStaging, PreviousReleaseKept, OnePath, Progress, CleanupSafe, Slot, TypeOK, Slots, MaybeCopy, MaybeVersion
    <2>6. QED
      BY <1>t, <2>1, <2>2, <2>3, <2>4, <2>5
  <1>6. ASSUME Activate PROVE IInv'
    <2>1. OnePath'
      BY <1>6, <1>t DEF Activate, OnePath, TypeOK, Slots, MaybeCopy, MaybeVersion
    <2>2. Progress'
      BY <1>6, <1>t DEF Activate, OnePath, Progress, Slot, CommittedReleaseKept, PreviousReleaseKept, TypeOK, Slots, MaybeCopy, MaybeVersion
    <2>3. CleanupSafe'
      BY <1>6, <1>t DEF Activate, CleanupSafe, OnePath, Progress, Kept, HighestOlder, TypeOK, Slots, MaybeCopy, MaybeVersion
    <2>4. CommittedReleaseKept'
      BY <1>6, <1>t DEF Activate, CommittedReleaseKept, OnePath, Progress, CleanupSafe, Slot, TypeOK, Slots, MaybeCopy, MaybeVersion
    <2>5. PreviousReleaseKept'
      BY <1>6, <1>t DEF Activate, PreviousReleaseKept, OnePath, Progress, CleanupSafe, Slot, TypeOK, Slots, MaybeCopy, MaybeVersion
    <2>6. QED
      BY <1>t, <2>1, <2>2, <2>3, <2>4, <2>5
  <1>7. ASSUME ActivateRefused PROVE IInv'
    <2>1. OnePath'
      BY <1>7, <1>t DEF ActivateRefused, OnePath, TypeOK, Slots, MaybeCopy, MaybeVersion
    <2>2. Progress'
      BY <1>7, <1>t DEF ActivateRefused, OnePath, Progress, Slot, CommittedReleaseKept, PreviousReleaseKept, TypeOK, Slots, MaybeCopy, MaybeVersion
    <2>3. CleanupSafe'
      BY <1>7, <1>t DEF ActivateRefused, CleanupSafe, OnePath, Progress, Kept, HighestOlder, TypeOK, Slots, MaybeCopy, MaybeVersion
    <2>4. CommittedReleaseKept'
      BY <1>7, <1>t DEF ActivateRefused, CommittedReleaseKept, OnePath, Progress, CleanupSafe, Slot, TypeOK, Slots, MaybeCopy, MaybeVersion
    <2>5. PreviousReleaseKept'
      BY <1>7, <1>t DEF ActivateRefused, PreviousReleaseKept, OnePath, Progress, CleanupSafe, Slot, TypeOK, Slots, MaybeCopy, MaybeVersion
    <2>6. QED
      BY <1>t, <2>1, <2>2, <2>3, <2>4, <2>5
  <1>8. ASSUME BackupTarget PROVE IInv'
    <2>1. OnePath'
      BY <1>8, <1>t DEF BackupTarget, OnePath, TypeOK, Slots, MaybeCopy, MaybeVersion
    <2>2. Progress'
      BY <1>8, <1>t DEF BackupTarget, OnePath, Progress, Slot, CommittedReleaseKept, PreviousReleaseKept, TypeOK, Slots, MaybeCopy, MaybeVersion
    <2>3. CleanupSafe'
      BY <1>8, <1>t DEF BackupTarget, CleanupSafe, OnePath, Progress, Kept, HighestOlder, TypeOK, Slots, MaybeCopy, MaybeVersion
    <2>4. CommittedReleaseKept'
      BY <1>8, <1>t DEF BackupTarget, CommittedReleaseKept, OnePath, Progress, CleanupSafe, Slot, TypeOK, Slots, MaybeCopy, MaybeVersion
    <2>5. PreviousReleaseKept'
      BY <1>8, <1>t DEF BackupTarget, PreviousReleaseKept, OnePath, Progress, CleanupSafe, Slot, TypeOK, Slots, MaybeCopy, MaybeVersion
    <2>6. QED
      BY <1>t, <2>1, <2>2, <2>3, <2>4, <2>5
  <1>9. ASSUME MoveStaged PROVE IInv'
    <2>1. OnePath'
      BY <1>9, <1>t DEF MoveStaged, OnePath, TypeOK, Slots, MaybeCopy, MaybeVersion
    <2>2. Progress'
      BY <1>9, <1>t DEF MoveStaged, OnePath, Progress, Slot, CommittedReleaseKept, PreviousReleaseKept, TypeOK, Slots, MaybeCopy, MaybeVersion
    <2>3. CleanupSafe'
      BY <1>9, <1>t DEF MoveStaged, CleanupSafe, OnePath, Progress, Kept, HighestOlder, TypeOK, Slots, MaybeCopy, MaybeVersion
    <2>4. CommittedReleaseKept'
      BY <1>9, <1>t DEF MoveStaged, CommittedReleaseKept, OnePath, Progress, CleanupSafe, Slot, TypeOK, Slots, MaybeCopy, MaybeVersion
    <2>5. PreviousReleaseKept'
      BY <1>9, <1>t DEF MoveStaged, PreviousReleaseKept, OnePath, Progress, CleanupSafe, Slot, TypeOK, Slots, MaybeCopy, MaybeVersion
    <2>6. QED
      BY <1>t, <2>1, <2>2, <2>3, <2>4, <2>5
  <1>10. ASSUME MoveStagedFails PROVE IInv'
    <2>1. OnePath'
      BY <1>10, <1>t DEF MoveStagedFails, OnePath, TypeOK, Slots, MaybeCopy, MaybeVersion
    <2>2. Progress'
      BY <1>10, <1>t DEF MoveStagedFails, OnePath, Progress, Slot, CommittedReleaseKept, PreviousReleaseKept, TypeOK, Slots, MaybeCopy, MaybeVersion
    <2>3. CleanupSafe'
      BY <1>10, <1>t DEF MoveStagedFails, CleanupSafe, OnePath, Progress, Kept, HighestOlder, TypeOK, Slots, MaybeCopy, MaybeVersion
    <2>4. CommittedReleaseKept'
      BY <1>10, <1>t DEF MoveStagedFails, CommittedReleaseKept, OnePath, Progress, CleanupSafe, Slot, TypeOK, Slots, MaybeCopy, MaybeVersion
    <2>5. PreviousReleaseKept'
      BY <1>10, <1>t DEF MoveStagedFails, PreviousReleaseKept, OnePath, Progress, CleanupSafe, Slot, TypeOK, Slots, MaybeCopy, MaybeVersion
    <2>6. QED
      BY <1>t, <2>1, <2>2, <2>3, <2>4, <2>5
  <1>11. ASSUME Commit PROVE IInv'
    <2> USE DEF Commit, TypeOK, MaybeCopy, MaybeVersion
    <2>1. OnePath'
      BY <1>11, <1>t DEF OnePath
    <2>2. Progress'
      BY <1>11, <1>t DEF Progress
    <2>3. /\ marker' = ver /\ previous = marker /\ pc' = "clean"
          /\ UNCHANGED <<releases, trash, torn, ver, previous>>
          /\ live' = releases[ver] /\ live' # NoCopy
          /\ live' \notin torn /\ live' # live /\ live' # prior
      BY <1>11, <1>t DEF Progress
    <2>4. \A w : Kept(w)' = Kept(w)
      BY <2>3 DEF Kept, HighestOlder
    <2>5. ASSUME prior' # NoCopy
          PROVE  /\ prior' \notin torn
                 /\ \E w \in Versions : w # ver /\ (trash[w] = prior'
                                                \/ (Kept(w) /\ releases[w] = prior'))
      <3>1. CASE marker # ver
        <4>1. prior' = live /\ live # NoCopy
          BY <1>11, <3>1, <2>5
        <4>2. /\ marker \in Versions /\ live \notin torn
              /\ releases[marker] = live \/ trash[marker] = live
          BY <1>t, <4>1 DEF CommittedReleaseKept
        <4>3. Kept(marker)
          BY <2>3, <3>1, <4>2, VersionsAssumption DEF Kept
        <4>4. QED
          BY <3>1, <4>1, <4>2, <4>3
      <3>2. CASE marker = ver
        <4>1. PICK w \in Versions : HighestOlder(w) /\ releases[w] = prior
          BY <1>11, <3>2, <2>5
        <4>2. prior' = prior
          BY <1>11, <3>2, <4>1
        <4>3. Kept(w) /\ w # ver
          BY <2>3, <3>2, <4>1, <1>t, VersionsAssumption DEF Kept, HighestOlder
        <4>4. prior \notin torn
          BY <2>5, <4>2 DEF PreviousReleaseKept
        <4>5. QED
          BY <4>1, <4>2, <4>3, <4>4
      <3>3. QED
        BY <3>1, <3>2
    <2>6. CleanupSafe'
      BY <2>3, <2>4, <2>5 DEF CleanupSafe
    <2>7. CommittedReleaseKept'
      BY <1>t, <2>3, VersionsAssumption DEF CommittedReleaseKept
    <2>8. PreviousReleaseKept'
      BY <2>3, <2>5 DEF PreviousReleaseKept
    <2>9. QED
      BY <1>t, <2>1, <2>2, <2>6, <2>7, <2>8
  <1>12. ASSUME CommitFails PROVE IInv'
    <2>1. OnePath'
      BY <1>12, <1>t DEF CommitFails, OnePath, TypeOK, Slots, MaybeCopy, MaybeVersion
    <2>2. Progress'
      BY <1>12, <1>t DEF CommitFails, OnePath, Progress, Slot, CommittedReleaseKept, PreviousReleaseKept, TypeOK, Slots, MaybeCopy, MaybeVersion
    <2>3. CleanupSafe'
      BY <1>12, <1>t DEF CommitFails, CleanupSafe, OnePath, Progress, Kept, HighestOlder, TypeOK, Slots, MaybeCopy, MaybeVersion
    <2>4. CommittedReleaseKept'
      BY <1>12, <1>t DEF CommitFails, CommittedReleaseKept, OnePath, Progress, CleanupSafe, Slot, TypeOK, Slots, MaybeCopy, MaybeVersion
    <2>5. PreviousReleaseKept'
      BY <1>12, <1>t DEF CommitFails, PreviousReleaseKept, OnePath, Progress, CleanupSafe, Slot, TypeOK, Slots, MaybeCopy, MaybeVersion
    <2>6. QED
      BY <1>t, <2>1, <2>2, <2>3, <2>4, <2>5
  <1>13. ASSUME ReturnToStaging PROVE IInv'
    <2>1. OnePath'
      BY <1>13, <1>t DEF ReturnToStaging, OnePath, TypeOK, Slots, MaybeCopy, MaybeVersion
    <2>2. Progress'
      BY <1>13, <1>t DEF ReturnToStaging, OnePath, Progress, Slot, CommittedReleaseKept, PreviousReleaseKept, TypeOK, Slots, MaybeCopy, MaybeVersion
    <2>3. CleanupSafe'
      BY <1>13, <1>t DEF ReturnToStaging, CleanupSafe, OnePath, Progress, Kept, HighestOlder, TypeOK, Slots, MaybeCopy, MaybeVersion
    <2>4. CommittedReleaseKept'
      BY <1>13, <1>t DEF ReturnToStaging, CommittedReleaseKept, OnePath, Progress, CleanupSafe, Slot, TypeOK, Slots, MaybeCopy, MaybeVersion
    <2>5. PreviousReleaseKept'
      BY <1>13, <1>t DEF ReturnToStaging, PreviousReleaseKept, OnePath, Progress, CleanupSafe, Slot, TypeOK, Slots, MaybeCopy, MaybeVersion
    <2>6. QED
      BY <1>t, <2>1, <2>2, <2>3, <2>4, <2>5
  <1>14. ASSUME RestoreBackup PROVE IInv'
    <2>1. OnePath'
      BY <1>14, <1>t DEF RestoreBackup, OnePath, TypeOK, Slots, MaybeCopy, MaybeVersion
    <2>2. Progress'
      BY <1>14, <1>t DEF RestoreBackup, OnePath, Progress, Slot, CommittedReleaseKept, PreviousReleaseKept, TypeOK, Slots, MaybeCopy, MaybeVersion
    <2>3. CleanupSafe'
      BY <1>14, <1>t DEF RestoreBackup, CleanupSafe, OnePath, Progress, Kept, HighestOlder, TypeOK, Slots, MaybeCopy, MaybeVersion
    <2>4. CommittedReleaseKept'
      BY <1>14, <1>t DEF RestoreBackup, CommittedReleaseKept, OnePath, Progress, CleanupSafe, Slot, TypeOK, Slots, MaybeCopy, MaybeVersion
    <2>5. PreviousReleaseKept'
      BY <1>14, <1>t DEF RestoreBackup, PreviousReleaseKept, OnePath, Progress, CleanupSafe, Slot, TypeOK, Slots, MaybeCopy, MaybeVersion
    <2>6. QED
      BY <1>t, <2>1, <2>2, <2>3, <2>4, <2>5
  <1>15. ASSUME NEW w \in Versions, RemoveObsolete(w) PROVE IInv'
    <2>1. OnePath'
      BY <1>15, <1>t DEF RemoveObsolete, Obsolete, OnePath, TypeOK, Slots, MaybeCopy, MaybeVersion
    <2>2. Progress'
      BY <1>15, <1>t DEF RemoveObsolete, Obsolete, OnePath, Progress, Slot, CommittedReleaseKept, PreviousReleaseKept, TypeOK, Slots, MaybeCopy, MaybeVersion
    <2>3. CleanupSafe'
      BY <1>15, <1>t DEF RemoveObsolete, Obsolete, CleanupSafe, OnePath, Progress, Kept, HighestOlder, TypeOK, Slots, MaybeCopy, MaybeVersion
    <2>4. CommittedReleaseKept'
      BY <1>15, <1>t DEF RemoveObsolete, Obsolete, CommittedReleaseKept, OnePath, Progress, CleanupSafe, Slot, TypeOK, Slots, MaybeCopy, MaybeVersion
    <2>5. PreviousReleaseKept'
      BY <1>15, <1>t DEF RemoveObsolete, Obsolete, PreviousReleaseKept, OnePath, Progress, CleanupSafe, Slot, TypeOK, Slots, MaybeCopy, MaybeVersion
    <2>6. QED
      BY <1>t, <2>1, <2>2, <2>3, <2>4, <2>5
  <1>16. ASSUME NEW w \in Versions, TearObsolete(w) PROVE IInv'
    <2>1. OnePath'
      BY <1>16, <1>t DEF TearObsolete, Obsolete, OnePath, TypeOK, Slots, MaybeCopy, MaybeVersion
    <2>2. Progress'
      BY <1>16, <1>t DEF TearObsolete, Obsolete, OnePath, Progress, Slot, CommittedReleaseKept, PreviousReleaseKept, TypeOK, Slots, MaybeCopy, MaybeVersion
    <2>3. CleanupSafe'
      BY <1>16, <1>t DEF TearObsolete, Obsolete, CleanupSafe, OnePath, Progress, Kept, HighestOlder, TypeOK, Slots, MaybeCopy, MaybeVersion
    <2>4. CommittedReleaseKept'
      BY <1>16, <1>t DEF TearObsolete, Obsolete, CommittedReleaseKept, OnePath, Progress, CleanupSafe, Slot, TypeOK, Slots, MaybeCopy, MaybeVersion
    <2>5. PreviousReleaseKept'
      BY <1>16, <1>t DEF TearObsolete, Obsolete, PreviousReleaseKept, OnePath, Progress, CleanupSafe, Slot, TypeOK, Slots, MaybeCopy, MaybeVersion
    <2>6. QED
      BY <1>t, <2>1, <2>2, <2>3, <2>4, <2>5
  <1>17. ASSUME RemoveBackup PROVE IInv'
    <2>1. OnePath'
      BY <1>17, <1>t DEF RemoveBackup, OnePath, TypeOK, Slots, MaybeCopy, MaybeVersion
    <2>2. Progress'
      BY <1>17, <1>t DEF RemoveBackup, OnePath, Progress, Slot, CommittedReleaseKept, PreviousReleaseKept, TypeOK, Slots, MaybeCopy, MaybeVersion
    <2>3. CleanupSafe'
      BY <1>17, <1>t DEF RemoveBackup, CleanupSafe, OnePath, Progress, Kept, HighestOlder, TypeOK, Slots, MaybeCopy, MaybeVersion
    <2>4. CommittedReleaseKept'
      BY <1>17, <1>t DEF RemoveBackup, CommittedReleaseKept, OnePath, Progress, CleanupSafe, Slot, TypeOK, Slots, MaybeCopy, MaybeVersion
    <2>5. PreviousReleaseKept'
      BY <1>17, <1>t DEF RemoveBackup, PreviousReleaseKept, OnePath, Progress, CleanupSafe, Slot, TypeOK, Slots, MaybeCopy, MaybeVersion
    <2>6. QED
      BY <1>t, <2>1, <2>2, <2>3, <2>4, <2>5
  <1>18. ASSUME TearBackup PROVE IInv'
    <2>1. OnePath'
      BY <1>18, <1>t DEF TearBackup, OnePath, TypeOK, Slots, MaybeCopy, MaybeVersion
    <2>2. Progress'
      BY <1>18, <1>t DEF TearBackup, OnePath, Progress, Slot, CommittedReleaseKept, PreviousReleaseKept, TypeOK, Slots, MaybeCopy, MaybeVersion
    <2>3. CleanupSafe'
      BY <1>18, <1>t DEF TearBackup, CleanupSafe, OnePath, Progress, Kept, HighestOlder, TypeOK, Slots, MaybeCopy, MaybeVersion
    <2>4. CommittedReleaseKept'
      BY <1>18, <1>t DEF TearBackup, CommittedReleaseKept, OnePath, Progress, CleanupSafe, Slot, TypeOK, Slots, MaybeCopy, MaybeVersion
    <2>5. PreviousReleaseKept'
      BY <1>18, <1>t DEF TearBackup, PreviousReleaseKept, OnePath, Progress, CleanupSafe, Slot, TypeOK, Slots, MaybeCopy, MaybeVersion
    <2>6. QED
      BY <1>t, <2>1, <2>2, <2>3, <2>4, <2>5
  <1>19. ASSUME NEW c \in Copies, RemoveTree(c) PROVE IInv'
    <2>1. OnePath'
      BY <1>19, <1>t DEF RemoveTree, OnePath, TypeOK, Slots, MaybeCopy, MaybeVersion
    <2>2. Progress'
      BY <1>19, <1>t DEF RemoveTree, OnePath, Progress, Slot, CommittedReleaseKept, PreviousReleaseKept, TypeOK, Slots, MaybeCopy, MaybeVersion
    <2>3. CleanupSafe'
      BY <1>19, <1>t DEF RemoveTree, CleanupSafe, OnePath, Progress, Kept, HighestOlder, TypeOK, Slots, MaybeCopy, MaybeVersion
    <2>4. CommittedReleaseKept'
      BY <1>19, <1>t DEF RemoveTree, CommittedReleaseKept, OnePath, Progress, CleanupSafe, Slot, TypeOK, Slots, MaybeCopy, MaybeVersion
    <2>5. PreviousReleaseKept'
      BY <1>19, <1>t DEF RemoveTree, PreviousReleaseKept, OnePath, Progress, CleanupSafe, Slot, TypeOK, Slots, MaybeCopy, MaybeVersion
    <2>6. QED
      BY <1>t, <2>1, <2>2, <2>3, <2>4, <2>5
  <1>20. ASSUME RemoveMarker PROVE IInv'
    <2>1. OnePath'
      BY <1>20, <1>t DEF RemoveMarker, OnePath, TypeOK, Slots, MaybeCopy, MaybeVersion
    <2>2. Progress'
      BY <1>20, <1>t DEF RemoveMarker, OnePath, Progress, Slot, CommittedReleaseKept, PreviousReleaseKept, TypeOK, Slots, MaybeCopy, MaybeVersion
    <2>3. CleanupSafe'
      BY <1>20, <1>t DEF RemoveMarker, CleanupSafe, OnePath, Progress, Kept, HighestOlder, TypeOK, Slots, MaybeCopy, MaybeVersion
    <2>4. CommittedReleaseKept'
      BY <1>20, <1>t DEF RemoveMarker, CommittedReleaseKept, OnePath, Progress, CleanupSafe, Slot, TypeOK, Slots, MaybeCopy, MaybeVersion
    <2>5. PreviousReleaseKept'
      BY <1>20, <1>t DEF RemoveMarker, PreviousReleaseKept, OnePath, Progress, CleanupSafe, Slot, TypeOK, Slots, MaybeCopy, MaybeVersion
    <2>6. QED
      BY <1>t, <2>1, <2>2, <2>3, <2>4, <2>5
  <1>21. ASSUME Uninstalled PROVE IInv'
    <2>1. OnePath'
      BY <1>21, <1>t DEF Uninstalled, OnePath, TypeOK, Slots, MaybeCopy, MaybeVersion
    <2>2. Progress'
      BY <1>21, <1>t DEF Uninstalled, OnePath, Progress, Slot, CommittedReleaseKept, PreviousReleaseKept, TypeOK, Slots, MaybeCopy, MaybeVersion
    <2>3. CleanupSafe'
      BY <1>21, <1>t DEF Uninstalled, CleanupSafe, OnePath, Progress, Kept, HighestOlder, TypeOK, Slots, MaybeCopy, MaybeVersion
    <2>4. CommittedReleaseKept'
      BY <1>21, <1>t DEF Uninstalled, CommittedReleaseKept, OnePath, Progress, CleanupSafe, Slot, TypeOK, Slots, MaybeCopy, MaybeVersion
    <2>5. PreviousReleaseKept'
      BY <1>21, <1>t DEF Uninstalled, PreviousReleaseKept, OnePath, Progress, CleanupSafe, Slot, TypeOK, Slots, MaybeCopy, MaybeVersion
    <2>6. QED
      BY <1>t, <2>1, <2>2, <2>3, <2>4, <2>5
  <1>22. ASSUME StartUninstall PROVE IInv'
    <2>1. OnePath'
      BY <1>22, <1>t DEF StartUninstall, OnePath, TypeOK, Slots, MaybeCopy, MaybeVersion
    <2>2. Progress'
      BY <1>22, <1>t DEF StartUninstall, OnePath, Progress, Slot, CommittedReleaseKept, PreviousReleaseKept, TypeOK, Slots, MaybeCopy, MaybeVersion
    <2>3. CleanupSafe'
      BY <1>22, <1>t DEF StartUninstall, CleanupSafe, OnePath, Progress, Kept, HighestOlder, TypeOK, Slots, MaybeCopy, MaybeVersion
    <2>4. CommittedReleaseKept'
      BY <1>22, <1>t DEF StartUninstall, CommittedReleaseKept, OnePath, Progress, CleanupSafe, Slot, TypeOK, Slots, MaybeCopy, MaybeVersion
    <2>5. PreviousReleaseKept'
      BY <1>22, <1>t DEF StartUninstall, PreviousReleaseKept, OnePath, Progress, CleanupSafe, Slot, TypeOK, Slots, MaybeCopy, MaybeVersion
    <2>6. QED
      BY <1>t, <2>1, <2>2, <2>3, <2>4, <2>5
  <1>23. ASSUME CleanupTemporary PROVE IInv'
    <2>1. OnePath'
      BY <1>23, <1>t DEF CleanupTemporary, OnePath, TypeOK, Slots, MaybeCopy, MaybeVersion
    <2>2. Progress'
      BY <1>23, <1>t DEF CleanupTemporary, OnePath, Progress, Slot, CommittedReleaseKept, PreviousReleaseKept, TypeOK, Slots, MaybeCopy, MaybeVersion
    <2>3. CleanupSafe'
      BY <1>23, <1>t DEF CleanupTemporary, CleanupSafe, OnePath, Progress, Kept, HighestOlder, TypeOK, Slots, MaybeCopy, MaybeVersion
    <2>4. CommittedReleaseKept'
      BY <1>23, <1>t DEF CleanupTemporary, CommittedReleaseKept, OnePath, Progress, CleanupSafe, Slot, TypeOK, Slots, MaybeCopy, MaybeVersion
    <2>5. PreviousReleaseKept'
      BY <1>23, <1>t DEF CleanupTemporary, PreviousReleaseKept, OnePath, Progress, CleanupSafe, Slot, TypeOK, Slots, MaybeCopy, MaybeVersion
    <2>6. QED
      BY <1>t, <2>1, <2>2, <2>3, <2>4, <2>5
  <1>24. ASSUME Stop PROVE IInv'
    <2>1. OnePath'
      BY <1>24, <1>t DEF Stop, OnePath, TypeOK, Slots, MaybeCopy, MaybeVersion
    <2>2. Progress'
      BY <1>24, <1>t DEF Stop, OnePath, Progress, Slot, CommittedReleaseKept, PreviousReleaseKept, TypeOK, Slots, MaybeCopy, MaybeVersion
    <2>3. CleanupSafe'
      BY <1>24, <1>t DEF Stop, CleanupSafe, OnePath, Progress, Kept, HighestOlder, TypeOK, Slots, MaybeCopy, MaybeVersion
    <2>4. CommittedReleaseKept'
      BY <1>24, <1>t DEF Stop, CommittedReleaseKept, OnePath, Progress, CleanupSafe, Slot, TypeOK, Slots, MaybeCopy, MaybeVersion
    <2>5. PreviousReleaseKept'
      BY <1>24, <1>t DEF Stop, PreviousReleaseKept, OnePath, Progress, CleanupSafe, Slot, TypeOK, Slots, MaybeCopy, MaybeVersion
    <2>6. QED
      BY <1>t, <2>1, <2>2, <2>3, <2>4, <2>5
  <1>25. ASSUME UNCHANGED vars PROVE IInv'
    <2>1. OnePath'
      BY <1>25, <1>t DEF vars, OnePath, TypeOK, Slots, MaybeCopy, MaybeVersion
    <2>2. Progress'
      BY <1>25, <1>t DEF vars, OnePath, Progress, Slot, CommittedReleaseKept, PreviousReleaseKept, TypeOK, Slots, MaybeCopy, MaybeVersion
    <2>3. CleanupSafe'
      BY <1>25, <1>t DEF vars, CleanupSafe, OnePath, Progress, Kept, HighestOlder, TypeOK, Slots, MaybeCopy, MaybeVersion
    <2>4. CommittedReleaseKept'
      BY <1>25, <1>t DEF vars, CommittedReleaseKept, OnePath, Progress, CleanupSafe, Slot, TypeOK, Slots, MaybeCopy, MaybeVersion
    <2>5. PreviousReleaseKept'
      BY <1>25, <1>t DEF vars, PreviousReleaseKept, OnePath, Progress, CleanupSafe, Slot, TypeOK, Slots, MaybeCopy, MaybeVersion
    <2>6. QED
      BY <1>t, <2>1, <2>2, <2>3, <2>4, <2>5
  <1>q. QED
    BY <1>1, <1>2, <1>3, <1>4, <1>5, <1>6, <1>7, <1>8, <1>9, <1>10, <1>11, <1>12, <1>13, <1>14, <1>15, <1>16, <1>17, <1>18, <1>19, <1>20, <1>21, <1>22, <1>23, <1>24, <1>25 DEF Next, Worker, User

LEMMA InvInit == Init => IInv
  BY VersionsAssumption DEF Init, IInv, TypeOK, OnePath, Progress, CleanupSafe,
       CommittedReleaseKept, PreviousReleaseKept, Slots, MaybeCopy, MaybeVersion, Steps, Slot

LEMMA Invariance == Spec => []IInv
  BY InvInit, InvStep, PTL DEF Spec

\* Every directory holds one tree or none, and the operation's state has its type.
THEOREM TypeCorrect == Spec => []TypeOK
  <1>1. IInv => TypeOK
    BY DEF IInv
  <1>2. QED
    BY <1>1, Invariance, PTL

\* No failed rename, failed marker write or kill loses the release that the
\* marker committed: it stays complete, in place or as the rollback backup.
THEOREM CommittedReleaseIsKept == Spec => []CommittedReleaseKept
  <1>1. IInv => CommittedReleaseKept
    BY DEF IInv
  <1>2. QED
    BY <1>1, Invariance, PTL

\* The cleanup after an activation never reaches the release that was active
\* before the last switch.
THEOREM PreviousReleaseIsKept == Spec => []PreviousReleaseKept
  <1>1. IInv => PreviousReleaseKept
    BY DEF IInv
  <1>2. QED
    BY <1>1, Invariance, PTL

\* A rollback backup is only ever moved back or superseded by a committed
\* release, never overwritten.
THEOREM BackupIsResolved == Spec => BackupResolved
  <1>1. IInv /\ [Next]_vars =>
          [\A v \in Versions :
             trash[v] # NoCopy /\ trash'[v] # trash[v] /\ pc # "uninstall" =>
                releases'[v] = trash[v] \/ (marker = v /\ releases[v] = live)]_vars
    <2> SUFFICES ASSUME IInv, [Next]_vars, NEW v \in Versions,
                        trash[v] # NoCopy, trash'[v] # trash[v], pc # "uninstall"
                 PROVE  releases'[v] = trash[v] \/ (marker = v /\ releases[v] = live)
      OBVIOUS
    <2>1. \/ BackupTarget \/ RestoreBackup \/ RemoveBackup
      BY DEF Next, Worker, User, vars, storage, StartInstall, StartImport, Assembled,
             StagingFails, DiscardStaging, Activate, ActivateRefused, MoveStaged,
             MoveStagedFails, Commit, CommitFails, ReturnToStaging, RemoveObsolete,
             TearObsolete, TearBackup, RemoveTree, RemoveMarker, Uninstalled,
             CleanupTemporary, StartUninstall, Stop
    <2>2. CASE BackupTarget
      BY <2>2 DEF BackupTarget, IInv, TypeOK, Progress
    <2>3. CASE RestoreBackup
      BY <2>3 DEF RestoreBackup, IInv, TypeOK
    <2>4. CASE RemoveBackup
      BY <2>4 DEF RemoveBackup, IInv, TypeOK, CleanupSafe
    <2>5. QED
      BY <2>1, <2>2, <2>3, <2>4
  <1>2. QED
    BY <1>1, Invariance, PTL DEF Spec, BackupResolved

-----------------------------------------------------------------------------
(* The root that the rest of the launcher relies on. *)

\* The refinement mapping, as Root instantiates it.
Complete   == {v \in Present : releases[v] \notin torn}
RootPhase  == CASE pc \in {"idle", "uninstall"} -> pc
                [] pc = "clean" -> "switched"
                [] OTHER -> "install"
RootFormer == IF pc = "clean" /\ previous # ver THEN previous ELSE NoVersion

RootState == <<marker, Complete, Present, RootPhase, ver, RootFormer>>

LEMMA RootMapped ==
    /\ [Root!RootNext]_(Root!rootVars) <=> Root!RootNext \/ UNCHANGED RootState
    /\ Root!RootInit <=> /\ marker = NoVersion /\ Complete = {} /\ Present = {}
                         /\ RootPhase = "idle" /\ ver \in Versions /\ RootFormer = NoVersion
  BY DEF Root!rootVars, Root!RootInit, RootState, Complete, RootPhase, RootFormer

\* A step that leaves the releases and their completeness alone.
LEMMA SameReleases ==
    ASSUME TypeOK, releases' = releases, \A v \in Present : releases[v] \in torn <=> releases[v] \in torn'
    PROVE  Present' = Present /\ Complete' = Complete
  BY DEF Present, Complete

\* It ends the operation, or is none of the root's.
LEMMA EndsRoot ==
    ASSUME TypeOK, UNCHANGED <<marker, ver>>, Present' = Present, Complete' = Complete,
           pc # "idle", pc' = "idle"
    PROVE  Root!End
<1>1. RootPhase # "idle" /\ RootPhase' = "idle" /\ RootFormer' = NoVersion
  BY DEF RootPhase, RootFormer
<1> QED
  BY <1>1 DEF Root!End, RootPhase, RootFormer, Complete

LEMMA RootStep == IInv /\ [Next]_vars => [Root!RootNext]_(Root!rootVars)
<1> SUFFICES ASSUME IInv, [Next]_vars PROVE Root!RootNext \/ UNCHANGED RootState
  BY RootMapped
<1>t. TypeOK /\ OnePath /\ Progress /\ CleanupSafe
  BY DEF IInv
<1> USE <1>t, VersionsAssumption, CopiesAssumption DEF storage, operation, promise
<1>1. ASSUME NEW v \in Versions, StartInstall(v) \/ StartImport(v) PROVE Root!RootNext
  <2>1. PICK k \in Kinds : \E c \in Fresh(staging[<<k, v>>]) : torn' = torn \cup {c}
    BY <1>1 DEF StartInstall, StartImport
  <2>2. PICK c \in Copies : torn' = torn \cup {c} /\ \A w \in Versions : releases[w] # c
    BY <2>1, FreshTree DEF Slots
  <2>3. /\ pc = "idle" /\ pc' = "assemble" /\ ver' = v /\ UNCHANGED <<releases, marker>>
    BY <1>1 DEF StartInstall, StartImport
  <2>4. Present' = Present /\ Complete' = Complete
    BY <2>2, <2>3, SameReleases DEF Present
  <2>5. RootPhase = "idle" /\ RootPhase' = "install" /\ RootFormer' = NoVersion /\ RootFormer = NoVersion
    BY <2>3 DEF RootPhase, RootFormer
  <2>6. Root!BeginInstall(v)
    BY <2>3, <2>4, <2>5 DEF Root!BeginInstall, Complete, RootPhase, RootFormer
  <2> QED
    BY <2>6 DEF Root!RootNext
<1>2. CASE Assembled \/ Activate \/ CommitFails \/ (MoveStagedFails /\ had) \/ CleanupTemporary
           \/ UNCHANGED vars
  <2>1. releases' = releases /\ UNCHANGED <<marker, ver>>
    BY <1>2 DEF Assembled, Activate, CommitFails, MoveStagedFails, CleanupTemporary, vars
  <2>2. \A v \in Present : releases[v] \in torn <=> releases[v] \in torn'
    <3>1. CASE Assembled
      BY <3>1 DEF Assembled, OnePath, Present, Slot, Slots, TypeOK
    <3>2. CASE CleanupTemporary
      <4>1. PICK left \in SUBSET Slots :
                torn' = (torn \ {staging[s] : s \in Slots \ left}) \cup {staging[s] : s \in left}
        BY <3>2 DEF CleanupTemporary
      <4>2. \A v \in Present, s \in Slots : releases[v] # staging[s]
        BY DEF OnePath, Present
      <4>3. \A v \in Present : /\ releases[v] \notin {staging[s] : s \in Slots \ left}
                               /\ releases[v] \notin {staging[s] : s \in left}
        BY <4>2
      <4> QED
        BY <4>1, <4>3
    <3> QED
      BY <1>2, <3>1, <3>2 DEF Activate, CommitFails, MoveStagedFails, vars
  <2>3. RootPhase' = RootPhase /\ RootFormer' = RootFormer
    BY <1>2 DEF Assembled, Activate, CommitFails, MoveStagedFails, CleanupTemporary, vars, RootPhase, RootFormer
  <2> QED
    BY <2>1, <2>2, <2>3, SameReleases DEF RootState
<1>3. CASE StagingFails \/ DiscardStaging \/ ActivateRefused \/ (MoveStagedFails /\ ~had)
           \/ RemoveBackup \/ TearBackup \/ Uninstalled \/ Stop
  <2>1. releases' = releases /\ UNCHANGED <<marker, ver>> /\ pc # "idle" /\ pc' = "idle"
    BY <1>3 DEF StagingFails, DiscardStaging, ActivateRefused, MoveStagedFails, RemoveBackup,
       TearBackup, Uninstalled, Stop
  <2>2. \A v \in Present : releases[v] \in torn <=> releases[v] \in torn'
    <3>1. CASE DiscardStaging
      BY <3>1 DEF DiscardStaging, OnePath, Present, Slot, Slots, TypeOK
    <3>2. CASE RemoveBackup \/ TearBackup
      BY <3>2 DEF RemoveBackup, TearBackup, OnePath, Present, TypeOK
    <3> QED
      BY <1>3, <3>1, <3>2 DEF StagingFails, ActivateRefused, MoveStagedFails, Uninstalled, Stop
  <2>3. Root!End
    BY <2>1, <2>2, SameReleases, EndsRoot
  <2> QED
    BY <2>3 DEF Root!RootNext
<1>4. CASE BackupTarget \/ ReturnToStaging
  <2>1. /\ releases' = [releases EXCEPT ![ver] = NoCopy]
        /\ UNCHANGED <<marker, torn, ver>>
        /\ pc \in {"backup", "unmove"} /\ pc' \in {"move", "restore", "idle"}
    BY <1>4 DEF BackupTarget, ReturnToStaging
  <2>2. Present' = Present \ {ver} /\ Complete' = Complete \ {ver}
    BY <2>1 DEF Present, Complete, TypeOK
  <2>3. /\ RootPhase = "install" /\ RootPhase' \in {"install", "idle"}
        /\ RootFormer = NoVersion /\ RootFormer' = NoVersion
    BY <2>1 DEF RootPhase, RootFormer
  <2>4. Root!TakeAway
    BY <2>1, <2>2, <2>3 DEF Root!TakeAway, Complete, RootPhase, RootFormer
  <2> QED
    BY <2>4 DEF Root!RootNext
<1>5. CASE MoveStaged \/ RestoreBackup
  <2>1. PICK c \in Copies : /\ releases' = [releases EXCEPT ![ver] = c]
                            /\ c = staging[Slot] \/ c = trash[ver]
    <3>1. CASE MoveStaged
      BY <3>1 DEF MoveStaged, Progress, TypeOK, MaybeCopy, Slot, Slots
    <3>2. CASE RestoreBackup
      BY <3>2 DEF RestoreBackup, Progress, TypeOK, MaybeCopy
    <3> QED
      BY <1>5, <3>1, <3>2
  <2>2. /\ UNCHANGED <<marker, torn, ver>> /\ ver \in Versions
        /\ pc \in {"move", "restore"} /\ pc' \in {"commit", "idle"}
    BY <1>5 DEF MoveStaged, RestoreBackup, TypeOK
  <2>3. Present' = Present \cup {ver} /\ Complete' \in {Complete, Complete \cup {ver}}
    <3>1. ver \notin Present
      BY <2>2 DEF Progress, Present
    <3>2. \A v \in Versions : releases'[v] = IF v = ver THEN c ELSE releases[v]
      BY <2>1 DEF TypeOK
    <3>3. Present' = Present \cup {ver}
      BY <2>2, <3>2 DEF Present
    <3>4. Complete' = IF c \in torn THEN Complete ELSE Complete \cup {ver}
      BY <2>2, <3>1, <3>2, <3>3 DEF Complete, Present
    <3> QED
      BY <3>3, <3>4
  <2>4. /\ RootPhase = "install" /\ RootPhase' \in {"install", "idle"}
        /\ RootFormer = NoVersion /\ RootFormer' = NoVersion
    BY <2>2 DEF RootPhase, RootFormer
  <2>5. Root!PutInPlace
    BY <2>2, <2>3, <2>4 DEF Root!PutInPlace, Complete, RootPhase, RootFormer
  <2> QED
    BY <2>5 DEF Root!RootNext
<1>6. CASE Commit
  <2>1. /\ UNCHANGED <<releases, torn, ver, previous>> /\ marker' = ver
        /\ pc = "commit" /\ pc' = "clean" /\ previous = marker
    BY <1>6 DEF Commit, Progress
  <2>2. Present' = Present /\ Complete' = Complete
    BY <2>1, SameReleases
  <2>3. ver \in Complete
    BY <2>1 DEF Progress, Complete, Present, TypeOK
  <2>4. RootPhase = "install" /\ RootPhase' = "switched"
    BY <2>1 DEF RootPhase
  <2>5. RootFormer' = IF marker = ver THEN NoVersion ELSE marker
    BY <2>1 DEF RootFormer
  <2>6. Root!Switch
    BY <2>1, <2>2, <2>3, <2>4, <2>5 DEF Root!Switch, Complete, RootPhase, RootFormer
  <2> QED
    BY <2>6 DEF Root!RootNext
<1>7. ASSUME NEW w \in Versions, RemoveObsolete(w) \/ TearObsolete(w) PROVE Root!RootNext
  <2>1. /\ pc = "clean" /\ marker = ver /\ releases[w] # NoCopy /\ w # ver /\ ~Kept(w)
        /\ UNCHANGED <<marker, ver, previous>>
    BY <1>7 DEF RemoveObsolete, TearObsolete, Obsolete, CleanupSafe
  <2>2. w # RootFormer
    BY <2>1 DEF RootFormer, Kept
  <2>3. \A v \in Versions : v # w => releases[v] # releases[w]
    BY <2>1 DEF OnePath
  <2>4. /\ Complete' = Complete \ {w} /\ Present' \in {Present, Present \ {w}}
        /\ \/ RootPhase' = RootPhase /\ RootFormer' = RootFormer
           \/ RootPhase' = "idle" /\ RootFormer' = NoVersion
    <3>1. CASE RemoveObsolete(w)
      <4>1. /\ \A v \in Versions : releases'[v] = IF v = w THEN NoCopy ELSE releases[v]
            /\ torn' = torn \ {releases[w]} /\ pc' = pc
        BY <3>1 DEF RemoveObsolete, TypeOK
      <4> QED
        BY <2>1, <2>3, <4>1 DEF Complete, Present, RootPhase, RootFormer
    <3>2. CASE TearObsolete(w)
      <4>1. releases' = releases /\ torn' = torn \cup {releases[w]} /\ pc' = "idle"
        BY <3>2 DEF TearObsolete
      <4> QED
        BY <2>1, <2>3, <4>1 DEF Complete, Present, RootPhase, RootFormer
    <3> QED
      BY <1>7, <3>1, <3>2
  <2>5. RootPhase = "switched"
    BY <2>1 DEF RootPhase
  <2>6. Root!Drop(w)
    BY <2>1, <2>2, <2>4, <2>5 DEF Root!Drop, Complete, RootPhase, RootFormer
  <2> QED
    BY <2>6 DEF Root!RootNext
<1>8. ASSUME NEW c \in Copies, RemoveTree(c) PROVE Root!RootNext \/ UNCHANGED RootState
  <2>1. pc = "uninstall" /\ UNCHANGED <<marker, pc, ver, previous>>
    BY <1>8 DEF RemoveTree
  <2>2. RootPhase = "uninstall" /\ UNCHANGED <<RootPhase, RootFormer>>
    BY <2>1 DEF RootPhase, RootFormer
  <2>3. \/ /\ \A v \in Versions : releases'[v] = IF releases[v] = c THEN NoCopy ELSE releases[v]
           /\ torn' = torn \ {c}
        \/ releases' = releases /\ torn' = torn \cup {c}
    BY <1>8 DEF RemoveTree
  <2>4. CASE \A v \in Versions : releases[v] # c
    <3>1. Present' = Present /\ Complete' = Complete
      BY <2>3, <2>4 DEF Present, Complete
    <3> QED
      BY <2>1, <2>2, <3>1 DEF RootState
  <2>5. ASSUME NEW v \in Versions, releases[v] = c PROVE Root!RootNext
    <3>1. \A w \in Versions : w # v => releases[w] # c
      BY <2>5 DEF OnePath
    <3>2. v \in Present /\ Complete' = Complete \ {v} /\ Present' \in {Present, Present \ {v}}
      BY <2>3, <2>5, <3>1 DEF Present, Complete
    <3>3. Root!Erase
      BY <2>1, <2>2, <3>2 DEF Root!Erase, Complete, RootPhase, RootFormer
    <3> QED
      BY <3>3 DEF Root!RootNext
  <2> QED
    BY <2>4, <2>5
<1>9. CASE RemoveMarker
  <2>1. /\ UNCHANGED <<releases, torn, ver, previous, pc>> /\ pc = "uninstall" /\ marker' = NoVersion
    BY <1>9 DEF RemoveMarker
  <2>2. Present' = Present /\ Complete' = Complete /\ RootPhase = "uninstall"
    BY <2>1, SameReleases DEF RootPhase
  <2>3. Root!EraseMarker
    BY <2>1, <2>2 DEF Root!EraseMarker, Complete, RootPhase, RootFormer
  <2> QED
    BY <2>3 DEF Root!RootNext
<1>10. CASE StartUninstall
  <2>1. /\ UNCHANGED <<marker, releases, torn, ver, previous>> /\ pc = "idle" /\ pc' = "uninstall"
        /\ marker # NoVersion
    BY <1>10 DEF StartUninstall
  <2>2. /\ Present' = Present /\ Complete' = Complete
        /\ RootPhase = "idle" /\ RootPhase' = "uninstall" /\ RootFormer' = RootFormer
    BY <2>1, SameReleases DEF RootPhase, RootFormer
  <2>3. Root!BeginUninstall
    BY <2>1, <2>2 DEF Root!BeginUninstall, Complete, RootPhase, RootFormer
  <2> QED
    BY <2>3 DEF Root!RootNext
<1> QED
  BY <1>1, <1>2, <1>3, <1>4, <1>5, <1>6, <1>7, <1>8, <1>9, <1>10 DEF Next, Worker, User

\* The renames, the backups and their rollback implement the root the rest of the launcher
\* relies on (replace_directory, activate, the cleanup and the uninstallation).
THEOREM ImplementsRoot == Spec => RootImplemented
<1>1. Init => Root!RootInit
  BY RootMapped DEF Init, Present, Complete, RootPhase, RootFormer
<1> QED
  BY <1>1, RootStep, Invariance, PTL DEF Spec, RootImplemented, Root!RootSpec
=============================================================================
