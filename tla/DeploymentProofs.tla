-------------------------- MODULE DeploymentProofs --------------------------
(***************************************************************************)
(* The two halves of a deployment: the publisher that changes the bucket,  *)
(* and the control plane that has it executed by a workflow run.           *)
(*                                                                         *)
(* For any games, versions, chunks and contents, however uploads and       *)
(* cleanups overlap: what a cleanup may delete at any moment, and that the *)
(* current release and the one before it miss nothing but what their own   *)
(* upload took for present beside a cleanup that could delete it.          *)
(*                                                                         *)
(* For any number of attempts, executions and handlers under way: the      *)
(* types of the rows, that one attempt at most is under way, that pointers *)
(* are switched for the latest attempt only, and that a request whose      *)
(* pointers may be half switched is not tried again before an operator has *)
(* looked, all until a callback or the failure of a dispatch is written    *)
(* too late (overtaken); and that the control plane implements Deployment, *)
(* which says what it may do even then.                                    *)
(***************************************************************************)
EXTENDS Publication, ControlPlane, WellFoundedInduction, SequenceTheorems, TLAPS

\* The cleanup's listing and plan speak of aged objects only, and a pointer it
\* still has to read exists: this holds however the commands overlap.
PlansAged ==
    /\ cleanup.phase = "reading" => cleanup.old \subseteq aged
    /\ cleanup.doomed \subseteq aged
    /\ cleanup.unread \subseteq Published

TypeInv == TypeOK /\ PlansAged

LEMMA TypeInit == Init => TypeInv
  <1> SUFFICES ASSUME Init PROVE TypeInv
    OBVIOUS
  <1>1. cleanup.doomed = {} /\ cleanup.unread = {} /\ cleanup.phase = "idle"
    BY DEF Init, NoCleanup
  <1>2. upload \in UploadStates /\ cleanup \in CleanupStates
    BY DEF Init, UploadStates, CleanupStates
  <1>3. uploads \in 0..MaxUploads /\ cleanups \in 0..MaxCleanups
    BY BoundsAssumption DEF Init
  <1>4. QED
    BY <1>1, <1>2, <1>3 DEF Init, TypeInv, TypeOK, PlansAged, None

LEMMA TypeStep == TypeInv /\ [Next]_vars => TypeInv'
  <1> SUFFICES ASSUME TypeInv, [Next]_vars PROVE TypeInv'
    OBVIOUS
  <1> USE DEF TypeInv, TypeOK, PlansAged, None
  <1>a. latest' = latest => Published' = Published
    BY DEF Published
  <1>1. ASSUME NEW m \in Manifests, NEW phase \in Phases, StartUpload(m, phase) PROVE TypeInv'
    <2>1. Release(m) \subseteq Objects
      BY ContentAssumption DEF Release, Objects
    <2>2. upload' \in UploadStates
      BY <1>1, <2>1 DEF StartUpload, UploadStates
    <2>3. uploads' \in 0..MaxUploads
      BY <1>1, BoundsAssumption DEF StartUpload
    <2>4. QED
      BY <1>1, <1>a, <2>2, <2>3 DEF StartUpload, bucket
  <1>2. ASSUME NEW o \in Objects, Turn(o), Inspected(o) PROVE upload' \in UploadStates
    BY <1>2 DEF Turn, Inspected, UploadStates, NoUpload
  <1>3. ASSUME NEW o \in Objects, SkipPresent(o) PROVE TypeInv'
    <2>1. upload.release \in Manifests
      BY <1>3 DEF SkipPresent, Turn, UploadStates, NoUpload
    <2>2. risked' \subseteq Manifests \X Objects
      BY <1>3, <2>1 DEF SkipPresent, Safe
    <2>3. upload' \in UploadStates
      BY <1>2, <1>3 DEF SkipPresent
    <2>4. QED
      BY <1>a, <1>3, <2>2, <2>3 DEF SkipPresent, bucket
  <1>4. ASSUME NEW o \in Objects, PutMissing(o) PROVE TypeInv'
    <2>1. risked' \subseteq Manifests \X Objects
      BY <1>4 DEF PutMissing, Safe
    <2>2. upload' \in UploadStates
      BY <1>2, <1>4 DEF PutMissing
    <2>3. QED
      BY <1>a, <1>4, <2>1, <2>2 DEF PutMissing
  <1>5. ASSUME ImmutableDone \/ UploadFails PROVE TypeInv'
    BY <1>a, <1>5 DEF ImmutableDone, UploadFails, UploadStates, bucket
  <1>6. CASE Promote
    <2>1. upload.release \in Manifests
      BY <1>6 DEF Promote, UploadStates, NoUpload
    <2>2. /\ latest' \in [Games -> Versions \cup {0}]
          /\ former' \in [Games -> Versions \cup {0}]
      BY <1>6, <2>1 DEF Promote, Manifests
    <2>3. upload' \in UploadStates
      BY <1>6, <2>1 DEF Promote, UploadStates
    <2>4. Published \subseteq Published'
      BY <1>6, <2>1, VersionsAssumption DEF Promote, Published, Manifests
    <2>5. QED
      BY <1>6, <2>2, <2>3, <2>4 DEF Promote
  <1>7. CASE StartCleanup
    <2>1. cleanup' \in CleanupStates
      BY <1>7 DEF StartCleanup, CleanupStates, Published
    <2>2. cleanups' \in 0..MaxCleanups
      BY <1>7, BoundsAssumption DEF StartCleanup
    <2>3. cleanup'.doomed = {} /\ cleanup'.old = aged /\ cleanup'.unread = Published
      BY <1>7 DEF StartCleanup
    <2>4. Taken # {} => upload.release \in Manifests
      BY DEF Taken, UploadStates
    <2>5. risked' \subseteq Manifests \X Objects
      BY <1>7, <2>4 DEF StartCleanup
    <2>6. QED
      BY <1>7, <1>a, <2>1, <2>2, <2>3, <2>5 DEF StartCleanup, bucket
  <1>8. ASSUME NEW g \in Games, ReadLatest(g) PROVE TypeInv'
    <2>1. cleanup \in [phase : {"reading", "deleting"}, seen : SUBSET Objects, old : SUBSET Objects,
                       unread : SUBSET Games, current : SUBSET Manifests, doomed : SUBSET Objects]
      BY <1>8 DEF ReadLatest, CleanupStates, NoCleanup
    <2>2. <<g, latest[g]>> \in Manifests
      BY <1>8, <2>1, ChunksAssumption, VersionsAssumption, ContentAssumption
         DEF ReadLatest, Objects, Manifests, Published
    <2>3. cleanup' \in CleanupStates
      BY <1>8, <2>1, <2>2 DEF ReadLatest, CleanupStates
    <2>4. /\ cleanup'.doomed = cleanup.doomed /\ cleanup'.old = cleanup.old
          /\ cleanup'.phase = cleanup.phase /\ cleanup'.unread = cleanup.unread \ {g}
      BY <1>8, <2>1 DEF ReadLatest
    <2>5. QED
      BY <1>8, <1>a, <2>3, <2>4 DEF ReadLatest, bucket
  <1>9. CASE PlanCleanup
    <2>1. cleanup \in [phase : {"reading", "deleting"}, seen : SUBSET Objects, old : SUBSET Objects,
                       unread : SUBSET Games, current : SUBSET Manifests, doomed : SUBSET Objects]
      BY <1>9 DEF PlanCleanup, CleanupStates, NoCleanup
    <2>2. Removable \subseteq cleanup.old
      BY DEF Removable
    <2>3. /\ cleanup' \in CleanupStates /\ cleanup'.doomed \subseteq aged
          /\ cleanup'.phase = "deleting"
          /\ cleanup'.unread = {}
      BY <1>9, <2>1, <2>2 DEF PlanCleanup, CleanupStates
    <2>4. QED
      BY <1>9, <2>3 DEF PlanCleanup, bucket
  <1>10. ASSUME NEW o \in Objects, Delete(o) PROVE TypeInv'
    <2>1. cleanup \in [phase : {"reading", "deleting"}, seen : SUBSET Objects, old : SUBSET Objects,
                       unread : SUBSET Games, current : SUBSET Manifests, doomed : SUBSET Objects]
      BY <1>10 DEF Delete, CleanupStates, NoCleanup
    <2>2. /\ cleanup' \in CleanupStates
          /\ cleanup'.doomed = cleanup.doomed \ {o}
          /\ cleanup'.phase = "deleting" /\ cleanup'.unread = cleanup.unread
      BY <1>10, <2>1 DEF Delete, CleanupStates
    <2>3. QED
      BY <1>10, <1>a, <2>2 DEF Delete
  <1>11. CASE CleanupEnds
    BY <1>11 DEF CleanupEnds, CleanupStates, NoCleanup, bucket
  <1>12. CASE GracePasses
    <2>1. cleanup'.doomed = {} /\ cleanup'.unread = {} /\ cleanup'.phase = "idle"
      BY <1>12 DEF GracePasses, NoCleanup
    <2>2. QED
      BY <1>12, <1>a, <2>1 DEF GracePasses
  <1>13. CASE UNCHANGED vars
    BY <1>13, <1>a DEF vars, UploadStates, CleanupStates
  <1>14. QED
    BY <1>1, <1>3, <1>4, <1>5, <1>6, <1>7, <1>8, <1>9, <1>10, <1>11, <1>12, <1>13 DEF Next

\* Every state of the publisher and of the cleanup has its type, and the cleanup
\* plans to delete only objects that are there.
THEOREM TypeCorrect == Spec => []TypeOK
  <1>1. TypeInv => TypeOK
    BY DEF TypeInv
  <1>2. QED
    BY TypeInit, TypeStep, <1>1, PTL DEF Spec

LEMMA FreshStep == TypeInv /\ [Next]_vars => store \ aged \subseteq store'
  <1> SUFFICES ASSUME TypeInv, [Next]_vars PROVE store \ aged \subseteq store'
    OBVIOUS
  <1>1. ASSUME NEW o \in Objects, Delete(o) PROVE store \ aged \subseteq store'
    BY <1>1 DEF Delete, TypeInv, PlansAged
  <1>2. ASSUME ~(\E o \in Objects : Delete(o)) PROVE store \subseteq store'
    BY <1>2 DEF Next, vars, bucket, StartUpload, SkipPresent, PutMissing, ImmutableDone, Promote,
                UploadFails, StartCleanup, ReadLatest, PlanCleanup, CleanupEnds, GracePasses
  <1>3. QED
    BY <1>1, <1>2

\* However uploads and a cleanup interleave, an object younger than the grace
\* period is never deleted.
THEOREM FreshIsKept == Spec => FreshKept
  <1>1. TypeInv /\ [Next]_vars => [store \ aged \subseteq store']_vars
    BY FreshStep
  <1>2. QED
    BY TypeInit, TypeStep, <1>1, PTL DEF Spec, FreshKept

------------------------------------------------------------------------------
(* The current release and the one before it, while a cleanup runs beside uploads *)

Current(g) == <<g, latest[g]>>
FormerOne(g) == <<g, former[g]>>

\* The cleanup is reading, and the pointer of the game is read or will be.
Noticed(g) == cleanup.phase = "reading" /\ (g \in cleanup.unread \/ Current(g) \in cleanup.current)

\* What the cleanup can still delete of a release its upload has risked.
Spared(m) == Release(m) \cap Threatened \subseteq Risky(m)

\* An upload has found or put what it has gone through, and risked what of it
\* the cleanup can delete.
UploadTook ==
    upload # NoUpload =>
        /\ upload.left \subseteq Release(upload.release)
        /\ Taken \subseteq store \cup Risky(upload.release)
        /\ Taken \cap Threatened \subseteq Risky(upload.release)

\* So did the one that put a manifest the cleanup's listing does not have.
NewcomersSpared == \A m \in (Manifests \cap store) \ cleanup.seen : Spared(m)

CurrentSpared == \A g \in Published : Spared(Current(g)) \/ Noticed(g)

\* A release between the former and the current one that the plan retains.
Between(g) == \E n \in Older(Current(g), store) : n[2] > former[g] /\ n \notin cleanup.doomed

FormerSpared ==
    \A g \in Published : former[g] \in Versions /\ former[g] < latest[g] /\ FormerOne(g) \in store =>
        \/ Spared(FormerOne(g)) \/ Noticed(g)
        \/ cleanup.phase = "reading" /\ FormerOne(g) \in cleanup.current
        \/ cleanup.phase = "deleting" /\ Between(g)

\* What is threatened is there, and the listing was taken after it.
Listed ==
    /\ Threatened \subseteq store
    /\ cleanup.phase = "idle" => Threatened = {} /\ cleanup.doomed = {}
    /\ cleanup.phase = "reading" => cleanup.seen \subseteq store

IInv ==
    /\ TypeInv
    /\ Listed
    /\ LatestComplete
    /\ UploadTook
    /\ NewcomersSpared
    /\ CurrentSpared
    /\ FormerSpared

LEMMA IInvInit == Init => IInv
  <1> SUFFICES ASSUME Init PROVE IInv
    OBVIOUS
  <1>1. TypeInv
    BY TypeInit
  <1>2. Published = {} /\ Threatened = {} /\ cleanup.doomed = {} /\ cleanup.phase = "idle"
    BY DEF Init, Published, Threatened, NoCleanup
  <1>3. QED
    BY <1>1, <1>2 DEF Init, IInv, LatestComplete, Listed, UploadTook, NewcomersSpared, CurrentSpared, FormerSpared

LEMMA LeastNumber ==
    ASSUME NEW S \in SUBSET Nat, S # {}
    PROVE  \E x \in S : \A y \in S : x <= y
  <1> DEFINE R == {ss \in Nat \X Nat : ss[1] < ss[2]}
  <1>1. IsWellFoundedOn(R, Nat)
    BY NatLessThanWellFounded DEF OpToRel
  <1> HIDE DEF R
  <1>2. PICK x \in S : \A y \in S : ~(<<y, x>> \in R)
    BY <1>1, WFMin
  <1>3. ASSUME NEW y \in S, y < x PROVE FALSE
    <2>1. <<y, x>> \in Nat \X Nat /\ <<y, x>>[1] < <<y, x>>[2]
      BY <1>3
    <2>2. <<y, x>> \in R
      BY <2>1 DEF R
    <2>3. QED
      BY <1>2, <2>2
  <1>4. QED
    BY <1>3

\* If there is an older release there is a previous one, at least as new.
LEMMA PreviousOne ==
    ASSUME NEW m \in Manifests, NEW seen, NEW n \in Older(m, seen)
    PROVE  \E k \in Previous(m, seen) : n[2] <= k[2]
  <1> DEFINE Below == Older(m, seen)
             Gaps == {m[2] - k[2] : k \in Below}
  <1>1. m[2] \in Nat /\ \A k \in Below : k[2] \in Nat /\ k[2] < m[2]
    BY VersionsAssumption DEF Older, Manifests
  <1>2. Gaps \in SUBSET Nat /\ Gaps # {}
    BY <1>1
  <1>3. PICK x \in Gaps : \A y \in Gaps : x <= y
    BY <1>2, LeastNumber
  <1>4. PICK k \in Below : x = m[2] - k[2]
    BY <1>3
  <1>5. ASSUME NEW j \in Below PROVE j[2] <= k[2]
    <2>1. m[2] - k[2] <= m[2] - j[2]
      BY <1>3, <1>4
    <2>2. QED
      BY <1>1, <2>1
  <1>6. k \in Previous(m, seen)
    BY <1>5 DEF Previous
  <1>7. QED
    BY <1>5, <1>6

\* A step that leaves the pointers and the cleanup alone and loses no object
\* keeps a release spared as long as it forgets no risk of a threatened object.
LEMMA SparedStays ==
    ASSUME NEW m \in Manifests, Spared(m), Threatened' \subseteq Threatened,
           \A o \in Threatened' : <<m, o>> \in risked => <<m, o>> \in risked',
           TypeInv
    PROVE  Spared(m)'
  <1> SUFFICES ASSUME NEW o \in Release(m), o \in Threatened' PROVE o \in Objects /\ <<m, o>> \in risked'
    BY DEF Spared, Risky, Release
  <1>1. o \in Risky(m)
    BY DEF Spared
  <1>2. QED
    BY <1>1 DEF Risky

\* The same for whole releases that may miss what was risked.
LEMMA KeptStays ==
    ASSUME NEW m, KeptOrRisked(m),
           \A o \in Objects : o \in store \/ <<m, o>> \in risked => o \in store' \/ <<m, o>> \in risked',
           TypeInv
    PROVE  KeptOrRisked(m)'
  BY DEF KeptOrRisked, Risky, Release, TypeInv, TypeOK

LEMMA PublishedOnes ==
    ASSUME TypeInv, NEW g \in Published
    PROVE  g \in Games /\ Current(g) \in Manifests /\ latest[g] \in Versions
  BY VersionsAssumption DEF TypeInv, TypeOK, Published, Current, Manifests, None

\* A step that leaves the pointers alone, changes the cleanup only by ending it,
\* loses no object, puts no manifest and forgets no risk that can still matter.
LEMMA QuietStep ==
    ASSUME IInv, TypeInv', UNCHANGED <<latest, former>>, cleanup' = cleanup \/ cleanup' = NoCleanup,
           store \subseteq store',
           \A m \in Manifests \cap store' : m \in store \/ Spared(m)',
           \A m \in Manifests, o \in Objects :
               <<m, o>> \in risked => <<m, o>> \in risked' \/ (o \in store' /\ o \notin Threatened'),
           UploadTook'
    PROVE  IInv'
  <1>1. Published' = Published /\ \A g : Current(g)' = Current(g) /\ FormerOne(g)' = FormerOne(g)
    BY DEF Published, Current, FormerOne
  <1>2. Threatened' \subseteq Threatened /\ (cleanup' = NoCleanup => Threatened' = {})
    BY DEF Threatened, NoCleanup
  <1>3. ASSUME NEW m \in Manifests, Spared(m) PROVE Spared(m)'
    <2>1. \A o \in Threatened' : <<m, o>> \in risked => <<m, o>> \in risked'
      <3> SUFFICES ASSUME NEW o \in Threatened', <<m, o>> \in risked PROVE <<m, o>> \in risked'
        OBVIOUS
      <3>1. o \in Objects
        BY <1>2 DEF IInv, Listed, TypeInv, TypeOK
      <3>2. QED
        BY <3>1
    <2>2. QED
      BY <1>2, <1>3, <2>1, SparedStays DEF IInv
  <1>4. Listed'
    BY <1>2 DEF IInv, Listed, NoCleanup
  <1>5. LatestComplete'
    <2> SUFFICES ASSUME NEW g \in Published PROVE KeptOrRisked(Current(g))'
      BY <1>1 DEF LatestComplete, Current
    <2>1. Current(g) \in Manifests
      BY PublishedOnes DEF IInv
    <2>2. KeptOrRisked(Current(g))
      BY DEF IInv, LatestComplete, Current
    <2>3. QED
      BY <1>1, <2>1, <2>2, KeptStays DEF IInv
  <1>6. NewcomersSpared'
    <2> SUFFICES ASSUME NEW m \in Manifests \cap store', m \notin cleanup'.seen PROVE Spared(m)'
      BY DEF NewcomersSpared
    <2>1. CASE cleanup' = NoCleanup
      BY <1>2, <2>1 DEF Spared
    <2>2. CASE cleanup' = cleanup /\ m \in store
      BY <1>3, <2>2 DEF IInv, NewcomersSpared
    <2>3. QED
      BY <2>1, <2>2
  <1>7. CurrentSpared'
    <2> SUFFICES ASSUME NEW g \in Published PROVE Spared(Current(g))' \/ Noticed(g)'
      BY <1>1 DEF CurrentSpared
    <2>1. CASE cleanup' = NoCleanup
      BY <1>2, <2>1 DEF Spared
    <2>2. CASE cleanup' = cleanup
      <3>1. Noticed(g) => Noticed(g)'
        BY <1>1, <2>2 DEF Noticed
      <3>2. QED
        BY <1>1, <1>3, <3>1, PublishedOnes DEF IInv, CurrentSpared
    <2>3. QED
      BY <2>1, <2>2
  <1>8. FormerSpared'
    <2> SUFFICES ASSUME NEW g \in Published, former[g] \in Versions, former[g] < latest[g],
                        FormerOne(g) \in store'
                 PROVE  \/ Spared(FormerOne(g))' \/ Noticed(g)'
                        \/ cleanup'.phase = "reading" /\ FormerOne(g) \in cleanup'.current
                        \/ cleanup'.phase = "deleting" /\ Between(g)'
      BY <1>1 DEF FormerSpared
    <2>1. CASE cleanup' = NoCleanup
      BY <1>2, <2>1 DEF Spared
    <2>2. CASE cleanup' = cleanup
      <3>1. FormerOne(g) \in Manifests
        BY PublishedOnes DEF IInv, FormerOne, Manifests
      <3>2. CASE FormerOne(g) \notin store
        BY <1>1, <3>1, <3>2
      <3>3. CASE FormerOne(g) \in store
        <4>1. Noticed(g) => Noticed(g)'
          BY <1>1, <2>2 DEF Noticed
        <4>2. Between(g) => Between(g)'
          BY <1>1, <2>2 DEF Between, Older
        <4>3. Spared(FormerOne(g)) => Spared(FormerOne(g))'
          BY <1>1, <1>3, <3>1
        <4>4. QED
          BY <2>2, <3>3, <4>1, <4>2, <4>3 DEF IInv, FormerSpared
      <3>4. QED
        BY <3>2, <3>3
    <2>3. QED
      BY <2>1, <2>2
  <1>9. QED
    BY <1>4, <1>5, <1>6, <1>7, <1>8 DEF IInv

LEMMA UploadShape ==
    ASSUME TypeInv, upload # NoUpload
    PROVE  /\ upload \in [phase : Phases, release : Manifests, left : SUBSET Objects]
           /\ upload.release \in Manifests
           /\ Taken = Release(upload.release) \ upload.left
  BY DEF TypeInv, TypeOK, UploadStates, Taken

LEMMA CleanupShape ==
    ASSUME TypeInv, cleanup.phase # "idle"
    PROVE  cleanup \in [phase : {"reading", "deleting"}, seen : SUBSET Objects, old : SUBSET Objects,
                        unread : SUBSET Games, current : SUBSET Manifests, doomed : SUBSET Objects]
  BY DEF TypeInv, TypeOK, CleanupStates, NoCleanup

\* The steps of a command that write no object and no pointer.
LEMMA UploadSteps ==
    ASSUME IInv, TypeInv',
           \/ \E m \in Manifests, phase \in Phases : StartUpload(m, phase)
           \/ ImmutableDone \/ UploadFails
    PROVE  IInv'
  <1>1. UploadTook'
    <2>1. ASSUME NEW m \in Manifests, NEW phase \in Phases, StartUpload(m, phase) PROVE UploadTook'
      <3>1. upload'.release = m /\ upload'.left = Release(m)
        BY <2>1 DEF StartUpload
      <3>2. Taken' = {}
        BY <3>1 DEF Taken, Release
      <3>3. QED
        BY <3>1, <3>2 DEF UploadTook, Release
    <2>2. CASE ImmutableDone \/ UploadFails
      BY <2>2 DEF ImmutableDone, UploadFails, UploadTook
    <2>3. QED
      BY <2>1, <2>2
  <1>2. UNCHANGED <<store, latest, former, cleanup, risked>>
    BY DEF StartUpload, ImmutableDone, UploadFails, bucket
  <1>3. QED
    BY <1>1, <1>2, QuietStep

\* What is found is risked if the cleanup can delete it.
LEMMA SkipStep ==
    ASSUME IInv, TypeInv', NEW o \in Objects, SkipPresent(o)
    PROVE  IInv'
  <1>1. upload # NoUpload
    BY DEF SkipPresent, Turn, NoUpload
  <1>2. /\ UNCHANGED <<store, latest, former, cleanup>> /\ o \in store
        /\ upload'.release = upload.release /\ upload'.left = upload.left \ {o} /\ o \in upload.left
    BY <1>1, UploadShape DEF SkipPresent, Turn, Inspected, bucket, IInv
  <1>3. upload' # NoUpload
    BY <1>1, <1>2, UploadShape DEF SkipPresent, Inspected, NoUpload, Phases, IInv
  <1>4. Threatened' = Threatened
    BY <1>2 DEF Threatened
  <1>5. \A m \in Manifests, p \in Objects :
            <<m, p>> \in risked => <<m, p>> \in risked' \/ (p \in store' /\ p \notin Threatened')
    BY <1>2, <1>4 DEF SkipPresent, Safe
  <1>6. \A p \in Risky(upload.release) : p \in Risky(upload.release)' \/ (p \in store' /\ p \notin Threatened')
    BY <1>1, <1>2, <1>5, UploadShape DEF Risky, IInv
  <1>7. o \in Threatened => o \in Risky(upload.release)'
    BY <1>1, <1>2, UploadShape DEF SkipPresent, Risky, IInv
  <1>8. Taken' = Taken \cup {o}
    BY <1>1, <1>2, <1>3, UploadShape DEF Taken, Release, IInv, UploadTook
  <1>9. UploadTook'
    <2>1. upload'.left \subseteq Release(upload'.release)
      BY <1>1, <1>2 DEF IInv, UploadTook, Release
    <2>2. Taken' \subseteq store' \cup Risky(upload.release)'
      BY <1>1, <1>2, <1>6, <1>8 DEF IInv, UploadTook
    <2>3. Taken' \cap Threatened' \subseteq Risky(upload.release)'
      BY <1>1, <1>2, <1>4, <1>6, <1>7, <1>8 DEF IInv, UploadTook
    <2>4. QED
      BY <1>2, <2>1, <2>2, <2>3 DEF UploadTook, Risky
  <1>10. QED
    BY <1>2, <1>5, <1>9, QuietStep

\* What is put is fresh; a manifest is put when all it names has been taken.
LEMMA PutStep ==
    ASSUME IInv, TypeInv', NEW o \in Objects, PutMissing(o)
    PROVE  IInv'
  <1>1. upload # NoUpload
    BY DEF PutMissing, Turn, NoUpload
  <1>2. /\ UNCHANGED <<latest, former, cleanup>> /\ store' = store \cup {o} /\ o \notin store
        /\ upload'.release = upload.release /\ upload'.left = upload.left \ {o} /\ o \in upload.left
    BY <1>1, UploadShape DEF PutMissing, Turn, Inspected, bucket, IInv
  <1>3. upload' # NoUpload
    BY <1>1, <1>2, UploadShape DEF PutMissing, Inspected, NoUpload, Phases, IInv
  <1>4. Threatened' = Threatened /\ o \notin Threatened
    BY <1>2 DEF Threatened, IInv, Listed
  <1>5. \A m \in Manifests, p \in Objects :
            <<m, p>> \in risked => <<m, p>> \in risked' \/ (p \in store' /\ p \notin Threatened')
    BY <1>2, <1>4 DEF PutMissing, Safe
  <1>6. \A p \in Risky(upload.release) : p \in Risky(upload.release)' \/ (p \in store' /\ p \notin Threatened')
    BY <1>1, <1>2, <1>5, UploadShape DEF Risky, IInv
  <1>7. Taken' = Taken \cup {o}
    BY <1>1, <1>2, <1>3, UploadShape DEF Taken, Release, IInv, UploadTook
  <1>8. /\ Taken' \subseteq store' \cup Risky(upload.release)'
        /\ Taken' \cap Threatened' \subseteq Risky(upload.release)'
    BY <1>1, <1>2, <1>4, <1>6, <1>7 DEF IInv, UploadTook
  <1>9. UploadTook'
    <2>1. upload'.left \subseteq Release(upload'.release)
      BY <1>1, <1>2 DEF IInv, UploadTook, Release
    <2>2. QED
      BY <1>2, <1>8, <2>1 DEF UploadTook, Risky
  <1>10. ASSUME o \in Manifests PROVE Spared(o)'
    <2>1. upload.left = {o}
      BY <1>10 DEF PutMissing, Turn
    <2>2. o = upload.release
      BY <1>1, <1>2, <1>10, <2>1, UploadShape, ContentAssumption, ChunksAssumption DEF IInv, UploadTook, Release
    <2>3. Taken' = Release(o)
      BY <1>1, <1>7, <2>1, <2>2, UploadShape DEF IInv, Release
    <2>4. QED
      BY <1>2, <1>8, <2>2, <2>3 DEF Spared, Release, Risky
  <1>11. \A m \in Manifests \cap store' : m \in store \/ Spared(m)'
    BY <1>2, <1>10
  <1>12. QED
    BY <1>2, <1>5, <1>9, <1>11, QuietStep

\* The pointer moves to a release whose upload has taken all of it; the one it
\* leaves was spared, or is known to the cleanup.
LEMMA PromoteStep ==
    ASSUME IInv, TypeInv', Promote, NEW p \in Games, NEW v \in Versions, upload.release = <<p, v>>
    PROVE  IInv'
  <1> DEFINE r == <<p, v>>
  <1>1. upload # NoUpload /\ r \in Manifests
    BY DEF Promote, NoUpload, Manifests
  <1>2. Taken = Release(r)
    BY <1>1, UploadShape DEF IInv, Promote
  <1>3. /\ UNCHANGED <<store, cleanup, risked>> /\ upload' = NoUpload
        /\ latest' = [latest EXCEPT ![p] = v]
        /\ former' = IF v = latest[p] THEN former ELSE [former EXCEPT ![p] = latest[p]]
    BY DEF Promote
  <1>4. Threatened' = Threatened /\ \A m : (Spared(m)' <=> Spared(m)) /\ (KeptOrRisked(m)' <=> KeptOrRisked(m))
    BY <1>3 DEF Threatened, Spared, Risky, KeptOrRisked, Release
  <1>5. KeptOrRisked(r) /\ Spared(r)
    BY <1>1, <1>2 DEF IInv, UploadTook, KeptOrRisked, Spared
  <1>6. latest \in [Games -> Versions \cup {0}] /\ former \in [Games -> Versions \cup {0}]
    BY DEF IInv, TypeInv, TypeOK, None
  <1>7. Published' = Published \cup {p} /\ Published \subseteq Games
    BY <1>1, <1>3, <1>6, VersionsAssumption DEF Published, None
  <1>8. /\ Current(p)' = r
        /\ \A g \in Games : g # p => Current(g)' = Current(g) /\ FormerOne(g)' = FormerOne(g)
    BY <1>1, <1>3, <1>6 DEF Current, FormerOne
  <1>9. Listed'
    BY <1>3, <1>4 DEF IInv, Listed
  <1>10. LatestComplete'
    <2> SUFFICES ASSUME NEW g \in Published' PROVE KeptOrRisked(Current(g))'
      BY DEF LatestComplete, Current
    <2>1. CASE g = p
      BY <1>4, <1>5, <1>8, <2>1
    <2>2. CASE g # p
      <3>1. KeptOrRisked(Current(g))
        BY <1>7, <2>2 DEF IInv, LatestComplete, Current
      <3>2. QED
        BY <1>4, <1>7, <1>8, <2>2, <3>1
    <2>3. QED
      BY <2>1, <2>2
  <1>11. UploadTook'
    BY <1>3 DEF UploadTook
  <1>12. NewcomersSpared'
    BY <1>3, <1>4 DEF IInv, NewcomersSpared
  <1>13. CurrentSpared'
    <2> SUFFICES ASSUME NEW g \in Published' PROVE Spared(Current(g))' \/ Noticed(g)'
      BY DEF CurrentSpared
    <2>1. CASE g = p
      BY <1>4, <1>5, <1>8, <2>1
    <2>2. CASE g # p
      <3>1. g \in Games /\ g \in Published
        BY <1>1, <1>7, <2>2
      <3>2. Noticed(g) => Noticed(g)'
        BY <1>3, <1>8, <2>2, <3>1 DEF Noticed
      <3>3. QED
        BY <1>4, <1>8, <2>2, <3>1, <3>2 DEF IInv, CurrentSpared
    <2>3. QED
      BY <2>1, <2>2
  <1>14. FormerSpared'
    <2> SUFFICES ASSUME NEW g \in Published', former'[g] \in Versions, former'[g] < latest'[g],
                        FormerOne(g)' \in store
                 PROVE  \/ Spared(FormerOne(g))' \/ Noticed(g)'
                        \/ cleanup.phase = "reading" /\ FormerOne(g)' \in cleanup.current
                        \/ cleanup.phase = "deleting" /\ Between(g)'
      BY <1>3 DEF FormerSpared
    <2>1. CASE g = p /\ v # latest[p]
      <3>1. FormerOne(g)' = Current(g) /\ former'[g] = latest[g]
        BY <1>1, <1>3, <1>6, <2>1 DEF FormerOne, Current
      <3>2. g \in Published
        BY <1>1, <2>1, <3>1, VersionsAssumption DEF Published, None
      <3>3. Spared(Current(g)) \/ Noticed(g)
        BY <3>2 DEF IInv, CurrentSpared
      <3>4. CASE Spared(Current(g))
        BY <1>4, <3>1, <3>4
      <3>5. CASE Noticed(g)
        BY <1>3, <3>1, <3>5 DEF Noticed
      <3>6. QED
        BY <3>3, <3>4, <3>5
    <2>2. CASE g # p \/ v = latest[p]
      <3>1. /\ g \in Games /\ Current(g)' = Current(g) /\ FormerOne(g)' = FormerOne(g)
            /\ latest'[g] = latest[g] /\ former'[g] = former[g]
        BY <1>1, <1>3, <1>6, <1>7, <2>2 DEF Current, FormerOne
      <3>2. g \in Published
        BY <1>1, <1>6, <3>1, VersionsAssumption DEF Published, None
      <3>3. (Noticed(g) => Noticed(g)') /\ (Between(g) => Between(g)')
        BY <1>3, <3>1 DEF Noticed, Between, Older
      <3>4. QED
        BY <1>3, <1>4, <3>1, <3>2, <3>3 DEF IInv, FormerSpared
    <2>3. QED
      BY <2>1, <2>2
  <1>15. QED
    BY <1>9, <1>10, <1>11, <1>12, <1>13, <1>14 DEF IInv

\* The listing holds everything threatened, and what an upload under way has
\* taken of it is at risk from now on.
LEMMA CleanupStarts ==
    ASSUME IInv, TypeInv', StartCleanup
    PROVE  IInv'
  <1>1. /\ UNCHANGED <<store, aged, latest, former, upload>> /\ cleanup = NoCleanup
        /\ cleanup'.phase = "reading" /\ cleanup'.seen = store /\ cleanup'.old = aged
        /\ cleanup'.unread = Published /\ cleanup'.doomed = {}
    BY DEF StartCleanup, bucket
  <1>2. Threatened' = aged /\ Taken' = Taken
    BY <1>1 DEF Threatened, Taken
  <1>3. /\ Published' = Published /\ \A g : Current(g)' = Current(g)
        /\ risked \subseteq risked' /\ \A m : Risky(m) \subseteq Risky(m)'
    BY <1>1 DEF Published, Current, StartCleanup, Risky
  <1>4. Listed'
    BY <1>1, <1>2 DEF IInv, Listed, TypeInv, TypeOK
  <1>5. LatestComplete'
    BY <1>1, <1>3 DEF IInv, LatestComplete, KeptOrRisked, Release, Published
  <1>6. UploadTook'
    <2>1. Taken \cap aged \subseteq Risky(upload.release)'
      BY <1>1 DEF StartCleanup, Risky, IInv, TypeInv, TypeOK
    <2>2. QED
      BY <1>1, <1>2, <1>3, <2>1 DEF IInv, UploadTook, Release
  <1>7. NewcomersSpared'
    BY <1>1 DEF NewcomersSpared
  <1>8. \A g \in Published : Noticed(g)'
    BY <1>1 DEF Noticed
  <1>9. QED
    BY <1>1, <1>3, <1>4, <1>5, <1>6, <1>7, <1>8 DEF IInv, CurrentSpared, FormerSpared

LEMMA PointerRead ==
    ASSUME IInv, TypeInv', NEW g \in Games, ReadLatest(g)
    PROVE  IInv'
  <1>1. /\ UNCHANGED <<store, latest, former, upload, risked>>
        /\ cleanup'.phase = "reading" /\ cleanup.phase = "reading" /\ cleanup'.seen = cleanup.seen
        /\ cleanup'.old = cleanup.old /\ cleanup'.doomed = cleanup.doomed
        /\ cleanup'.unread = cleanup.unread \ {g}
        /\ cleanup'.current = cleanup.current \cup {Current(g)}
    BY CleanupShape DEF ReadLatest, bucket, IInv, Current
  <1>2. /\ Threatened' = Threatened /\ Taken' = Taken /\ Published' = Published
        /\ \A h : Current(h)' = Current(h) /\ FormerOne(h)' = FormerOne(h)
        /\ \A m : (Spared(m)' <=> Spared(m)) /\ (KeptOrRisked(m)' <=> KeptOrRisked(m))
    BY <1>1 DEF Threatened, Taken, Published, Current, FormerOne, Spared, Risky, KeptOrRisked, Release
  <1>3. \A h : Noticed(h) => Noticed(h)'
    BY <1>1, <1>2 DEF Noticed
  <1>4. Listed' /\ LatestComplete' /\ UploadTook' /\ NewcomersSpared' /\ CurrentSpared'
    BY <1>1, <1>2, <1>3
       DEF IInv, Listed, LatestComplete, UploadTook, NewcomersSpared, CurrentSpared, Release, Risky
  <1>5. FormerSpared'
    BY <1>1, <1>2, <1>3 DEF IInv, FormerSpared
  <1>6. QED
    BY <1>4, <1>5 DEF IInv

\* What the plan retains it does not touch.
LEMMA RetainedSpared ==
    ASSUME IInv, cleanup.phase = "reading", NEW m \in Retained
    PROVE  m \in Manifests /\ Removable \cap Release(m) = {}
  <1>1. cleanup.current \subseteq Manifests
    BY CleanupShape DEF IInv
  <1>2. Retained \subseteq Manifests
    BY <1>1 DEF Retained, Previous, Older
  <1>3. ASSUME NEW o \in Removable, o \in Release(m) PROVE FALSE
    <2>1. CASE o \in Manifests \ Retained
      BY <1>2, <1>3, <2>1, ContentAssumption, ChunksAssumption DEF Release
    <2>2. CASE o \in Chunks \ Referenced
      BY <1>2, <1>3, <2>2, ChunksAssumption DEF Release, Referenced
    <2>3. QED
      BY <1>3, <2>1, <2>2 DEF Removable
  <1>4. QED
    BY <1>2, <1>3

LEMMA PlanMade ==
    ASSUME IInv, TypeInv', PlanCleanup
    PROVE  IInv'
  <1>1. /\ UNCHANGED <<store, latest, former, upload, risked>>
        /\ cleanup.phase = "reading" /\ cleanup'.phase = "deleting" /\ cleanup.unread = {}
        /\ cleanup'.seen = cleanup.seen /\ cleanup'.doomed = Removable
    BY CleanupShape DEF PlanCleanup, bucket, IInv
  <1>2. Threatened' = Removable /\ Removable \subseteq Threatened
    BY <1>1 DEF Threatened, Removable
  <1>3. /\ Taken' = Taken /\ Published' = Published
        /\ \A h : Current(h)' = Current(h) /\ FormerOne(h)' = FormerOne(h)
        /\ \A m : (Spared(m) => Spared(m)') /\ (KeptOrRisked(m)' <=> KeptOrRisked(m))
    BY <1>1, <1>2 DEF Taken, Published, Current, FormerOne, Spared, Risky, KeptOrRisked, Release
  <1>4. \A m \in Retained : Spared(m)'
    BY <1>1, <1>2, RetainedSpared DEF Spared, Release
  <1>5. cleanup.current \subseteq Retained
    BY DEF Retained
  <1>6. Listed' /\ LatestComplete' /\ UploadTook' /\ NewcomersSpared'
    BY <1>1, <1>2, <1>3 DEF IInv, Listed, LatestComplete, UploadTook, NewcomersSpared, Release, Risky
  <1>7. CurrentSpared'
    BY <1>1, <1>3, <1>4, <1>5 DEF IInv, CurrentSpared, Noticed
  <1>8. FormerSpared'
    <2> SUFFICES ASSUME NEW g \in Published, former[g] \in Versions, former[g] < latest[g],
                        FormerOne(g) \in store
                 PROVE  Spared(FormerOne(g))' \/ Between(g)'
      BY <1>1, <1>3 DEF FormerSpared
    <2> DEFINE f == FormerOne(g)
    <2>1. f \in Manifests /\ Current(g) \in Manifests
      BY PublishedOnes DEF IInv, FormerOne, Manifests
    <2>2. CASE Spared(f)
      BY <1>3, <2>2
    <2>3. CASE f \in cleanup.current
      BY <1>3, <1>4, <1>5, <2>3
    <2>4. CASE f \notin cleanup.seen
      BY <1>3, <2>1, <2>4 DEF IInv, NewcomersSpared
    <2>5. CASE Current(g) \in cleanup.current /\ f \in cleanup.seen
      <3>1. f \in Older(Current(g), cleanup.seen)
        BY <2>1, <2>5 DEF Older, Current, FormerOne
      <3>2. PICK k \in Previous(Current(g), cleanup.seen) : f[2] <= k[2]
        BY <2>1, <3>1, PreviousOne
      <3>3. k \in Retained /\ k \in Older(Current(g), cleanup.seen)
        BY <2>5, <3>2 DEF Retained, Previous
      <3>4. CASE k[2] = f[2]
        <4>1. k = f
          BY <2>1, <3>1, <3>3, <3>4 DEF Older, Manifests
        <4>2. QED
          BY <1>3, <1>4, <3>3, <4>1
      <3>5. CASE k[2] # f[2]
        <4>1. k[2] > former[g]
          <5>1. k[2] \in Nat /\ f[2] \in Nat /\ f[2] = former[g]
            BY <2>1, <3>3, VersionsAssumption DEF Older, Manifests, FormerOne
          <5>2. QED
            BY <3>2, <3>5, <5>1
        <4>2. k \in Older(Current(g), store) /\ k \in Release(k)
          BY <1>1, <3>3 DEF Older, IInv, Listed, Release
        <4>3. k \notin Removable
          BY <1>1, <3>3, <4>2, RetainedSpared
        <4>4. QED
          BY <1>1, <1>3, <4>1, <4>2, <4>3 DEF Between, Older
      <3>6. QED
        BY <3>4, <3>5
    <2>6. QED
      BY <1>1, <2>2, <2>3, <2>4, <2>5 DEF IInv, FormerSpared, Noticed
  <1>9. QED
    BY <1>6, <1>7, <1>8 DEF IInv

\* What is deleted of the releases that count was risked.
LEMMA DeleteStep ==
    ASSUME IInv, TypeInv', NEW o \in Objects, Delete(o)
    PROVE  IInv'
  <1>1. /\ UNCHANGED <<latest, former, upload, risked>> /\ store' = store \ {o} /\ o \in cleanup.doomed
        /\ cleanup.phase = "deleting" /\ cleanup'.phase = "deleting"
        /\ cleanup'.seen = cleanup.seen /\ cleanup'.doomed = cleanup.doomed \ {o}
    BY CleanupShape DEF Delete, IInv
  <1>2. Threatened' = Threatened \ {o} /\ o \in Threatened /\ Threatened = cleanup.doomed
    BY <1>1 DEF Threatened
  <1>3. /\ Taken' = Taken /\ Published' = Published
        /\ \A h : Current(h)' = Current(h) /\ FormerOne(h)' = FormerOne(h)
        /\ \A m : Risky(m)' = Risky(m) /\ (Spared(m) => Spared(m)')
    BY <1>1, <1>2 DEF Taken, Published, Current, FormerOne, Spared, Risky, Release
  <1>4. \A g : ~Noticed(g)
    BY <1>1 DEF Noticed
  <1>5. Listed'
    BY <1>1, <1>2 DEF IInv, Listed
  <1>6. LatestComplete'
    <2> SUFFICES ASSUME NEW g \in Published PROVE KeptOrRisked(Current(g))'
      BY <1>3 DEF LatestComplete, Current
    <2>1. KeptOrRisked(Current(g)) /\ Spared(Current(g))
      BY <1>4 DEF IInv, LatestComplete, CurrentSpared, Current
    <2>2. QED
      BY <1>1, <1>2, <1>3, <2>1 DEF KeptOrRisked, Spared, Release
  <1>7. UploadTook'
    BY <1>1, <1>2, <1>3 DEF IInv, UploadTook, Release
  <1>8. NewcomersSpared' /\ CurrentSpared'
    BY <1>1, <1>3, <1>4 DEF IInv, NewcomersSpared, CurrentSpared
  <1>9. \A g \in Published : Between(g) => Between(g)'
    BY <1>1, <1>3 DEF Between, Older
  <1>10. FormerSpared'
    BY <1>1, <1>3, <1>4, <1>9 DEF IInv, FormerSpared
  <1>11. QED
    BY <1>5, <1>6, <1>7, <1>8, <1>10 DEF IInv

LEMMA CleanupStops ==
    ASSUME IInv, TypeInv', CleanupEnds
    PROVE  IInv'
  <1>1. UNCHANGED <<store, latest, former, upload>> /\ cleanup' = NoCleanup /\ Taken' = Taken
    BY DEF CleanupEnds, bucket, Taken
  <1>2. Threatened' = {}
    BY <1>1 DEF Threatened, NoCleanup
  <1>3. \A m \in Manifests, p \in Objects :
            <<m, p>> \in risked => <<m, p>> \in risked' \/ (p \in store' /\ p \notin Threatened')
    BY <1>1, <1>2 DEF CleanupEnds
  <1>4. UploadTook'
    <2> SUFFICES ASSUME upload # NoUpload
                 PROVE  Taken \subseteq store \cup Risky(upload.release)'
      BY <1>1, <1>2 DEF IInv, UploadTook, Release
    <2>1. \A p \in Risky(upload.release) : p \in store \/ p \in Risky(upload.release)'
      BY <1>1, <1>3, UploadShape DEF Risky, IInv
    <2>2. QED
      BY <2>1 DEF IInv, UploadTook
  <1>5. QED
    BY <1>1, <1>3, <1>4, QuietStep

LEMMA IInvStep == IInv /\ [Next]_vars => IInv'
  <1> SUFFICES ASSUME IInv, [Next]_vars PROVE IInv'
    OBVIOUS
  <1>1. TypeInv'
    BY TypeStep DEF IInv
  <1>2. CASE \/ \E m \in Manifests, phase \in Phases : StartUpload(m, phase)
             \/ ImmutableDone \/ UploadFails
    BY <1>1, <1>2, UploadSteps
  <1>3. CASE \E o \in Objects : SkipPresent(o) \/ PutMissing(o) \/ Delete(o)
    BY <1>1, <1>3, SkipStep, PutStep, DeleteStep
  <1>4. CASE Promote
    <2>1. upload.release \in Manifests
      BY <1>4, UploadShape DEF Promote, NoUpload, IInv
    <2>2. PICK p \in Games, v \in Versions : upload.release = <<p, v>>
      BY <2>1 DEF Manifests
    <2>3. QED
      BY <1>1, <1>4, <2>2, PromoteStep
  <1>5. CASE StartCleanup \/ PlanCleanup \/ CleanupEnds \/ \E g \in Games : ReadLatest(g)
    BY <1>1, <1>5, CleanupStarts, PlanMade, CleanupStops, PointerRead
  <1>6. CASE GracePasses \/ UNCHANGED vars
    <2>1. UNCHANGED <<store, latest, former, upload, cleanup, risked>>
      BY <1>6 DEF GracePasses, vars
    <2>2. UploadTook'
      BY <2>1 DEF IInv, UploadTook, Taken, Threatened, Risky, Release
    <2>3. QED
      BY <1>1, <2>1, <2>2, QuietStep
  <1>7. QED
    BY <1>2, <1>3, <1>4, <1>5, <1>6 DEF Next

\* What latest.json names is complete at every moment, after any failures and
\* beside any cleanup, but for what its upload took for present while a cleanup
\* could delete it.
THEOREM LatestIsComplete == Spec => []LatestComplete
  <1>1. IInv => LatestComplete
    BY DEF IInv
  <1>2. QED
    BY IInvInit, IInvStep, <1>1, PTL DEF Spec

LEMMA TargetStep ==
    ASSUME IInv, [Next]_vars, NEW g \in Published, latest'[g] = latest[g],
           FormerOne(g) \in Older(Current(g), store),
           \A n \in Older(Current(g), store) : n[2] <= former[g]
    PROVE  Release(FormerOne(g)) \cap store \subseteq store' \cup Risky(FormerOne(g))
  <1> DEFINE f == FormerOne(g)
  <1>1. f \in Older(Current(g), store) /\ \A k \in Older(Current(g), store) : k[2] <= f[2]
    BY DEF FormerOne
  <1>2. /\ former[g] \in Versions /\ former[g] < latest[g] /\ f \in store /\ f[2] = former[g]
        /\ \A k \in Older(Current(g), store) : k[2] \in Nat
    BY <1>1, VersionsAssumption DEF Older, FormerOne, Current, Manifests
  <1>3. ~Between(g)
    BY <1>1, <1>2, VersionsAssumption DEF Between
  <1>4. ASSUME NEW o \in Objects, Delete(o) PROVE Release(f) \cap store \subseteq store' \cup Risky(f)
    <2>1. cleanup.phase = "deleting" /\ store' = store \ {o} /\ o \in Threatened
      BY <1>4 DEF Delete, Threatened
    <2>2. Spared(f)
      BY <1>2, <1>3, <2>1 DEF IInv, FormerSpared, Noticed
    <2>3. QED
      BY <2>1, <2>2 DEF Spared
  <1>5. ASSUME ~(\E o \in Objects : Delete(o)) PROVE store \subseteq store'
    <2>1. CASE \E h \in Games : ReadLatest(h)
      BY <2>1 DEF ReadLatest, bucket
    <2>2. CASE PlanCleanup
      BY <2>2 DEF PlanCleanup, bucket
    <2>3. CASE (\E o \in Objects : SkipPresent(o) \/ PutMissing(o))
      BY <2>3 DEF SkipPresent, PutMissing, bucket
    <2>4. CASE UNCHANGED vars \/ StartCleanup \/ CleanupEnds \/ GracePasses
      BY <2>4 DEF StartCleanup, CleanupEnds, GracePasses, vars, bucket
    <2>5. CASE \/ \E m \in Manifests, phase \in Phases : StartUpload(m, phase)
               \/ ImmutableDone \/ Promote \/ UploadFails
      BY <2>5 DEF StartUpload, ImmutableDone, Promote, UploadFails, bucket
    <2>6. QED
      BY <1>5, <2>1, <2>2, <2>3, <2>4, <2>5 DEF Next
  <1>6. QED
    BY <1>4, <1>5

\* As long as it is the next lower one in the bucket, the release that was
\* current before loses only what its own upload risked.
THEOREM RollbackTargetIsKept == Spec => RollbackTargetKept
  <1> DEFINE Kept ==
        \A g \in Published :
          LET m == <<g, former[g]>>
              lower == Older(<<g, latest[g]>>, store)
          IN  m \in lower /\ (\A n \in lower : n[2] <= m[2]) /\ latest'[g] = latest[g]
                  => Release(m) \cap store \subseteq store' \cup Risky(m)
  <1>1. IInv /\ [Next]_vars => [Kept]_vars
    <2> SUFFICES ASSUME IInv, [Next]_vars, NEW g \in Published,
                        <<g, former[g]>> \in Older(<<g, latest[g]>>, store),
                        \A n \in Older(<<g, latest[g]>>, store) : n[2] <= former[g],
                        latest'[g] = latest[g]
                 PROVE  Release(<<g, former[g]>>) \cap store
                            \subseteq store' \cup Risky(<<g, former[g]>>)
      OBVIOUS
    <2>1. QED
      BY TargetStep DEF Current, FormerOne
  <1>2. QED
    BY IInvInit, IInvStep, <1>1, PTL DEF Spec, RollbackTargetKept


------------------------------------------------------------------------------
\* The control plane: the tables and the calls.

AttemptType == [stage : Stages, result : Results, try : 0..MaxTries]
RunType == [step : Underway \cup Completed \cup {"none"}, try : 0..MaxTries]

LEMMA Tables ==
    /\ DOMAIN Onward = {"authorize", "intake", "build", "upload", "promote", "verify"} \cup Reports
    /\ DOMAIN Fallback = DOMAIN Onward
    /\ DOMAIN Message = {"build", "upload", "promote", "verify"} \cup Reports
    /\ DOMAIN From = {"submit_request", "cancel_request", "authorize_recovery", "recover_publication"}
  BY DEF Onward, Fallback, Message, From, Reports

LEMMA Replies ==
    ASSUME NEW s \in DOMAIN Onward
    PROVE  /\ Onward[s] \in (Underway \cup Completed) \ {"authorize", "intake", "cancelled"}
           /\ Fallback[s] \in Reports \cup {"failure"}
           /\ Onward[s] \in {"promote", "verify"} => s \in {"upload", "promote"}
           /\ Onward[s] = "build" => s = "intake"
           /\ Onward[s] = "upload" => s = "build"
  BY DEF Onward, Fallback, Reports, Underway, Publishing, Completed

LEMMA Messages ==
    ASSUME NEW s \in DOMAIN Message
    PROVE  /\ Message[s][1] \in Stages /\ Message[s][2] \in Results
           /\ Message[s] = <<Message[s][1], Message[s][2]>>
           /\ Message[s][2] \in Terminal \cup {"queued"}
           /\ s = "upload" => Message[s] = <<"publishing_pointers", "queued">>
  BY DEF Message, Stages, Results, Terminal, Switching, Reports

------------------------------------------------------------------------------
(* The calls. *)

Positions == {"checked", "chained", "asking", "begun", "numbering", "claimed", "inserted", "accepted"}
CallType == [op : Operators \cup Callbacks, a : 0..MaxAttempts, try : 0..MaxTries,
             stage : Stages \cup {"none"}, result : Results \cup Dispatchable \cup {"none"},
             client : BOOLEAN, at : Positions, fresh : BOOLEAN]

Reporting == {"status", "binding_status"}
AtOnce == {"authorize", "intake"}

\* What is always true of a call, the attempt and the run it is about.
Shape(c) ==
    /\ c \in CallType
    /\ c.a \in 0 .. (IF c.op = "dispatch_request" THEN Last + 1 ELSE Last)
    /\ c.op \in Callbacks =>
           /\ c.a > 0 /\ c.try \in 1..runs[c.a].try /\ c.at \in {"checked", "chained"}
           /\ c.stage # "none"
    /\ c.op = "preflight" => c.stage = "preflight" /\ c.result = "queued"
    /\ c.op = "reject" => c.stage = "preflight" /\ c.result = "failed_terminal"
    /\ c.op \in Reporting => \E s \in DOMAIN Message : Message[s] = <<c.stage, c.result>>
    /\ c.op = "reconcile" /\ c.at # "begun" => c.a > 0 /\ c.result = Verdict(c.stage) /\ c.try > 0
    /\ c.op = "dispatch_request" =>
           /\ c.try = 0
           /\ c.at # "begun" => c.result \in Dispatchable
           /\ c.at \notin {"begun", "numbering"} => c.a \in Attempts
           /\ c.at \in {"inserted", "accepted"} => c.a <= Last
           /\ c.at = "inserted" => runs[c.a].step = "none"
           /\ c.at = "accepted" => runs[c.a].step # "none"
    /\ c.at \in {"numbering", "claimed", "inserted", "accepted"} => c.op = "dispatch_request"
    /\ c.at = "begun" => c.op \in {"reconcile", "dispatch_request"}
    /\ c.at = "asking" => c.op = "reconcile"
    /\ c.client =>
           /\ c.op \in Callbacks
           /\ c.try = runs[c.a].try
           /\ c.op \in {"preflight", "reject"} => runs[c.a].step \in AtOnce
           /\ c.op \in Reporting => /\ runs[c.a].step \in DOMAIN Message
                                    /\ Message[runs[c.a].step] = <<c.stage, c.result>>

Clash(c, d) ==
    /\ c.a = d.a
    /\ \/ c.client /\ d.client
       \/ c.at = "inserted" /\ d.at = "inserted"
AloneIn(S) == \A c, d \in S : Clash(c, d) => c = d

\* What a step makes of a call that is not its own.
Kept(d, e) ==
    /\ d.op = e.op /\ d.a = e.a /\ d.try = e.try
    /\ d.stage = e.stage /\ d.result = e.result /\ d.at = e.at
    /\ d.client => e.client
    /\ d.fresh => e.fresh

LEMMA KeptItself == ASSUME NEW d PROVE Kept(d, d)
  BY DEF Kept

LEMMA Stale ==
    ASSUME NEW e \in CallType
    PROVE  LET d == [e EXCEPT !.fresh = FALSE]
           IN  d \in CallType /\ ~d.fresh /\ Kept(d, e) /\ (d.client <=> e.client)
  BY DEF CallType, Kept

LEMMA Unanswered ==
    ASSUME NEW e \in CallType
    PROVE  LET d == [e EXCEPT !.client = FALSE]
           IN  d \in CallType /\ ~d.client /\ Kept(d, e) /\ (d.fresh <=> e.fresh)
  BY DEF CallType, Kept

LEMMA OutdatedCalls ==
    ASSUME NEW S \in SUBSET CallType, NEW d \in Outdated(S)
    PROVE  d \in CallType /\ ~d.fresh /\ \E e \in S : Kept(d, e)
  <1>1. PICK e \in S : d = [e EXCEPT !.fresh = FALSE]
    BY DEF Outdated
  <1>2. d \in CallType /\ ~d.fresh /\ Kept(d, e)
    BY <1>1, Stale
  <1>3. QED
    BY <1>2

LEMMA OutdatedAlone ==
    ASSUME NEW S \in SUBSET CallType, AloneIn(S) PROVE AloneIn(Outdated(S))
  <1> SUFFICES ASSUME NEW c \in Outdated(S), NEW d \in Outdated(S), Clash(c, d) PROVE c = d
    BY DEF AloneIn
  <1>1. PICK e \in S : c = [e EXCEPT !.fresh = FALSE]
    BY DEF Outdated
  <1>2. PICK f \in S : d = [f EXCEPT !.fresh = FALSE]
    BY DEF Outdated
  <1>3. Kept(c, e) /\ Kept(d, f)
    BY <1>1, <1>2, Stale
  <1>4. Clash(e, f)
    BY <1>3 DEF Clash, Kept
  <1>5. QED
    BY <1>1, <1>2, <1>4 DEF AloneIn

LEMMA AloneSubset ==
    ASSUME NEW S, NEW T \in SUBSET S, AloneIn(S) PROVE AloneIn(T)
  BY DEF AloneIn

LEMMA AloneWith ==
    ASSUME NEW S, AloneIn(S), NEW c, \A d \in S : ~Clash(c, d)
    PROVE  AloneIn(S \cup {c})
  BY DEF AloneIn, Clash

\* A call in the place of another one that counts at least as much.
LEMMA AloneReplaced ==
    ASSUME NEW S, AloneIn(S), NEW c \in S, NEW e, e.client => e.a = c.a,
           e.client => c.client, e.at # "inserted"
    PROVE  AloneIn((S \ {c}) \cup {e})
  <1>1. AloneIn(S \ {c})
    BY AloneSubset
  <1>2. ASSUME NEW d \in S \ {c}, Clash(e, d) PROVE FALSE
    <2>1. Clash(c, d)
      BY <1>2 DEF Clash
    <2>2. QED
      BY <2>1 DEF AloneIn
  <1>3. QED
    BY <1>1, <1>2, AloneWith

LEMMA LeftAloneCalls ==
    ASSUME NEW a, LeftAlone(a), calls \in SUBSET CallType, NEW d \in calls'
    PROVE  d \in CallType /\ (d.a = a => ~d.client) /\ \E e \in calls : Kept(d, e) /\ (d.fresh <=> e.fresh)
  <1>1. PICK e \in calls : d = IF e.client /\ e.a = a THEN [e EXCEPT !.client = FALSE] ELSE e
    BY DEF LeftAlone
  <1>2. CASE e.client /\ e.a = a
    BY <1>1, <1>2, Unanswered
  <1>3. CASE ~(e.client /\ e.a = a)
    BY <1>1, <1>3, KeptItself
  <1>4. QED
    BY <1>2, <1>3

LEMMA LeftAloneAlone ==
    ASSUME NEW a, LeftAlone(a), calls \in SUBSET CallType, AloneIn(calls)
    PROVE  AloneIn(calls')
  <1> SUFFICES ASSUME NEW c \in calls', NEW d \in calls', Clash(c, d) PROVE c = d
    BY DEF AloneIn
  <1>1. PICK e \in calls : c = IF e.client /\ e.a = a THEN [e EXCEPT !.client = FALSE] ELSE e
    BY DEF LeftAlone
  <1>2. PICK f \in calls : d = IF f.client /\ f.a = a THEN [f EXCEPT !.client = FALSE] ELSE f
    BY DEF LeftAlone
  <1>3. Kept(c, e) /\ Kept(d, f)
    BY <1>1, <1>2, Unanswered, KeptItself
  <1>4. Clash(e, f)
    BY <1>3 DEF Clash, Kept
  <1>5. QED
    BY <1>1, <1>2, <1>4 DEF AloneIn


------------------------------------------------------------------------------
(* Type correctness. *)

Shapes == \A c \in calls : Shape(c)
Started == \A a \in Attempts : IF runs[a].step = "none" THEN runs[a].try = 0 ELSE runs[a].try > 0

RowsOK ==
    /\ state \in States
    /\ attempts \in Seq(AttemptType)
    /\ Last <= MaxAttempts
    /\ unsettled \in BOOLEAN

RunsOK ==
    /\ runs \in [Attempts -> RunType]
    /\ \A a \in Attempts : runs[a].step # "none" => a <= Last
    /\ Started

Typed == RowsOK /\ RunsOK /\ Shapes /\ AloneIn(calls)

LEMMA TypedSuffices == Typed /\ overtaken \in BOOLEAN => ControlTypeOK
  BY DEF Typed, RowsOK, RunsOK, Shapes, Shape, ControlTypeOK, AttemptType, RunType

LEMMA TypedCalls == Typed => calls \in SUBSET CallType
  BY DEF Typed, Shapes, Shape

\* A run moves on from where it is, and not under a call that waits for it or starts it.
RunsMove ==
    \A a \in Attempts : runs'[a] # runs[a] =>
        /\ runs'[a] \in RunType /\ runs'[a].step # "none"
        /\ runs'[a].try >= runs[a].try /\ runs'[a].try > 0
        /\ a <= Last
        /\ \A d \in calls' : d.a = a => ~d.client /\ d.at # "inserted"

\* Calls stay, or are well-formed in the new state.
CallsMove == \A d \in calls' : Shape(d)' \/ (d \in CallType /\ \E e \in calls : Kept(d, e))

LEMMA Assembled ==
    ASSUME Typed, RowsOK', Last' >= Last, DOMAIN runs' = Attempts, runs' = [a \in Attempts |-> runs'[a]],
           RunsMove, CallsMove, AloneIn(calls')
    PROVE  Typed'
  <1> USE DEF Typed
  <1>0. Last \in Nat /\ Last' \in Nat
    BY DEF RowsOK, Last
  <1>1. runs' \in [Attempts -> RunType]
    BY DEF RunsMove, RunsOK
  <1>2. \A a \in Attempts : runs[a].try \in Nat /\ runs'[a].try \in Nat
    BY <1>1, ControlBoundsAssumption DEF RunType, RunsOK
  <1>3. RunsOK'
    BY <1>0, <1>1, <1>2 DEF RunsOK, RunsMove, Started, Attempts
  <1>4. ASSUME NEW d \in calls' PROVE Shape(d)'
    <2>1. CASE Shape(d)'
      BY <2>1
    <2>2. ASSUME d \in CallType, NEW e \in calls, Kept(d, e) PROVE Shape(d)'
      <3>1. Shape(e) /\ e \in CallType
        BY DEF Shapes, Shape
      <3>2. e.a \in 0..MaxAttempts /\ d.a = e.a /\ d.at = e.at /\ d.op = e.op /\ d.try = e.try /\ d.try \in Nat
        BY <2>2, <3>1, ControlBoundsAssumption DEF CallType, Kept
      <3>3. d.a \in Attempts => runs'[d.a].try >= runs[d.a].try
        BY <1>2 DEF RunsMove
      <3>4. d.a \in Attempts /\ (d.client \/ d.at = "inserted") => runs'[d.a] = runs[d.a]
        BY DEF RunsMove
      <3>5. d.op \in Callbacks => d.a \in Attempts
        BY <3>1, <3>2, ControlBoundsAssumption DEF Shape, Attempts
      <3>6. d.client => d.a \in Attempts /\ e.client
        BY <2>2, <3>1, <3>2, <3>5 DEF Shape, Kept
      <3>7. d.op \in Callbacks => d.try \in 1..runs'[d.a].try
        BY <1>2, <3>1, <3>2, <3>3, <3>5 DEF Shape
      <3>8. d.a \in 0 .. (IF d.op = "dispatch_request" THEN Last' + 1 ELSE Last')
        BY <1>0, <3>1, <3>2 DEF Shape
      <3>9. d.stage = e.stage /\ d.result = e.result
        BY <2>2 DEF Kept
      <3>10. d.op = "dispatch_request" /\ d.at = "inserted" => runs'[d.a].step = "none"
        BY <3>1, <3>2, <3>4 DEF Shape
      <3>a. d.op = "dispatch_request" /\ d.at = "accepted" => runs'[d.a].step # "none"
        <4>1. d.op = "dispatch_request" /\ d.at = "accepted" => d.a \in Attempts /\ runs[d.a].step # "none"
          BY <3>1, <3>2 DEF Shape
        <4>2. QED
          BY <4>1 DEF RunsMove
      <3>11. d.op = "dispatch_request" /\ d.at \in {"inserted", "accepted"} => d.a <= Last'
        BY <1>0, <3>1, <3>2 DEF Shape
      <3>12. d.client =>
           /\ d.op \in Callbacks
           /\ d.try = runs'[d.a].try
           /\ d.op \in {"preflight", "reject"} => runs'[d.a].step \in AtOnce
           /\ d.op \in Reporting => /\ runs'[d.a].step \in DOMAIN Message
                                    /\ Message[runs'[d.a].step] = <<d.stage, d.result>>
        BY <3>1, <3>2, <3>4, <3>6, <3>9 DEF Shape
      <3>13. d.op \in Callbacks => d.a > 0 /\ d.at \in {"checked", "chained"} /\ d.stage # "none"
        BY <3>1, <3>2, <3>9 DEF Shape
      <3>14. d.op = "dispatch_request" => d.try = 0 /\ (d.at # "begun" => d.result \in Dispatchable)
                                         /\ (d.at \notin {"begun", "numbering"} => d.a \in Attempts)
        BY <3>1, <3>2, <3>9 DEF Shape
      <3>15. d.op \in Reporting => \E s \in DOMAIN Message : Message[s] = <<d.stage, d.result>>
        BY <3>1, <3>2, <3>9 DEF Shape
      <3>16. /\ d.op = "preflight" => d.stage = "preflight" /\ d.result = "queued"
             /\ d.op = "reject" => d.stage = "preflight" /\ d.result = "failed_terminal"
             /\ d.op = "reconcile" /\ d.at # "begun" => d.a > 0 /\ d.result = Verdict(d.stage) /\ d.try > 0
             /\ d.at \in {"numbering", "claimed", "inserted", "accepted"} => d.op = "dispatch_request"
             /\ d.at = "begun" => d.op \in {"reconcile", "dispatch_request"}
             /\ d.at = "asking" => d.op = "reconcile"
        BY <3>1, <3>2, <3>9 DEF Shape
      <3>17. QED
        BY <2>2, <3>7, <3>8, <3>10, <3>a, <3>11, <3>12, <3>13, <3>14, <3>15, <3>16 DEF Shape
    <2>3. QED
      BY <2>1, <2>2 DEF CallsMove
  <1>5. QED
    BY <1>3, <1>4 DEF Shapes

\* A step that leaves the runs alone.
LEMMA AssembledStill ==
    ASSUME Typed, RowsOK', Last' >= Last, UNCHANGED runs, CallsMove, AloneIn(calls') PROVE Typed'
  BY Assembled DEF Typed, RunsOK, RunsMove

LEMMA TypedInit == ControlInit => Typed
  <1> SUFFICES ASSUME ControlInit PROVE Typed
    OBVIOUS
  <1>1. RowsOK
    <2>1. attempts \in Seq(AttemptType) /\ Last = 0
      BY DEF ControlInit, Last
    <2>2. state \in States
      BY DEF ControlInit, States
    <2>3. Last <= MaxAttempts
      BY <2>1, ControlBoundsAssumption
    <2>4. unsettled \in BOOLEAN
      BY DEF ControlInit
    <2>5. QED
      BY <2>1, <2>2, <2>3, <2>4 DEF RowsOK
  <1>2. RunsOK
    BY ControlBoundsAssumption DEF ControlInit, RunsOK, RunType, Started
  <1>3. QED
    BY <1>1, <1>2 DEF ControlInit, Typed, Shapes, AloneIn

\* A call that ends, one that is replaced, and one whose batch goes through.
LEMMA CallEnds ==
    ASSUME Typed, NEW c \in calls, calls' = Without(c) PROVE CallsMove /\ AloneIn(calls')
  BY TypedCalls, AloneSubset, KeptItself DEF CallsMove, Typed, Without

LEMMA CallGoesOn ==
    ASSUME Typed, NEW c \in calls, NEW e, calls' = Without(c) \cup {e}, Shape(e)',
           e.client => c.client /\ e.a = c.a, e.at # "inserted"
    PROVE  CallsMove /\ AloneIn(calls')
  BY TypedCalls, AloneReplaced, KeptItself DEF CallsMove, Typed, Without

LEMMA CallBegins ==
    ASSUME Typed, NEW c, Begin(c), Shape(c)', c.at # "inserted",
           c.client => \A d \in calls : d.client => d.a # c.a
    PROVE  CallsMove /\ AloneIn(calls')
  <1>1. AloneIn(calls')
    BY AloneWith DEF Begin, Clash, Typed
  <1>2. CallsMove
    BY TypedCalls, KeptItself DEF CallsMove, Begin
  <1>3. QED
    BY <1>1, <1>2

LEMMA CallLands ==
    ASSUME Typed, NEW c \in calls, calls' = Outdated(Without(c))
    PROVE  CallsMove /\ AloneIn(calls')
  <1>1. Without(c) \in SUBSET CallType /\ AloneIn(Without(c))
    BY TypedCalls, AloneSubset DEF Typed, Without
  <1>2. \A d \in calls' : d \in CallType /\ \E e \in Without(c) : Kept(d, e)
    BY <1>1, OutdatedCalls
  <1>3. CallsMove
    BY <1>2 DEF CallsMove, Without
  <1>4. QED
    BY <1>1, <1>3, OutdatedAlone

LEMMA CallLandsAndGoesOn ==
    ASSUME Typed, NEW c \in calls, NEW e, calls' = Outdated(Without(c)) \cup {e}, Shape(e)',
           e.a = c.a, e.client => c.client, e.at = "inserted" => \A d \in calls : d.at = "inserted" => d.a # e.a
    PROVE  CallsMove /\ AloneIn(calls')
  <1>1. Without(c) \in SUBSET CallType /\ AloneIn(Without(c))
    BY TypedCalls, AloneSubset DEF Typed, Without
  <1>2. \A d \in Outdated(Without(c)) : d \in CallType /\ \E f \in Without(c) : Kept(d, f)
    BY <1>1, OutdatedCalls
  <1>3. CallsMove
    BY <1>2 DEF CallsMove, Without
  <1>4. AloneIn(Outdated(Without(c)))
    BY <1>1, OutdatedAlone
  <1>5. ASSUME NEW d \in Outdated(Without(c)), Clash(d, e) PROVE FALSE
    <2>1. PICK f \in Without(c) : Kept(d, f)
      BY <1>2
    <2>2. f \in calls /\ f # c
      BY DEF Without
    <2>3. d.client /\ e.client => Clash(f, c)
      BY <1>5, <2>1 DEF Clash, Kept
    <2>4. d.at = "inserted" /\ e.at = "inserted" => FALSE
      BY <1>5, <2>1, <2>2 DEF Clash, Kept
    <2>5. QED
      BY <1>5, <2>2, <2>3, <2>4 DEF Clash, Typed, AloneIn
  <1>6. QED
    BY <1>3, <1>4, <1>5, AloneWith DEF Clash

\* The answer to the run that waits, while its call is over.
LEMMA ReplyMoves ==
    ASSUME Typed, NEW c \in calls, NEW table \in {Onward, Fallback}, Reply(c, table),
           c.op \in Callbacks, calls' = Without(c) \/ calls' = Outdated(Without(c)), Last' = Last
    PROVE  /\ RunsMove
           /\ DOMAIN runs' = Attempts /\ runs' = [a \in Attempts |-> runs'[a]]
           /\ c.client => runs'[c.a] = [step |-> table[runs[c.a].step], try |-> runs[c.a].try]
           /\ \A b \in Attempts : b # c.a \/ ~c.client => runs'[b] = runs[b]
  <1>0. c \in CallType /\ Shape(c) /\ runs \in [Attempts -> RunType]
    BY DEF Typed, Shapes, Shape, RunsOK
  <1>1. c.a \in Attempts /\ c.a <= Last
    BY <1>0, ControlBoundsAssumption DEF Shape, CallType, Attempts, Typed, RowsOK, Last, Callbacks
  <1>2. CASE ~c.client
    BY <1>0, <1>2 DEF Reply, RunsMove
  <1>3. CASE c.client
    <2>1. runs[c.a].step \in DOMAIN Onward /\ runs[c.a].step # "none" /\ runs[c.a].try > 0
      BY <1>0, <1>1, <1>3, Tables DEF Shape, AtOnce, Callbacks, Reporting, Typed, RunsOK, Started, Reports
    <2>2. runs'[c.a] = [step |-> table[runs[c.a].step], try |-> runs[c.a].try]
      BY <1>0, <1>1, <1>3 DEF Reply, RunType
    <2>3. table[runs[c.a].step] \in Underway \cup Completed
      BY <2>1, Replies DEF Completed, Underway, Publishing, Reports
    <2>4. runs'[c.a] \in RunType /\ runs'[c.a].step # "none" /\ runs'[c.a].try >= runs[c.a].try /\ runs'[c.a].try > 0
      BY <1>0, <1>1, <2>1, <2>2, <2>3, ControlBoundsAssumption DEF RunType, Underway, Completed, Publishing, Reports
    <2>5. ASSUME NEW d \in calls', d.a = c.a PROVE ~d.client /\ d.at # "inserted"
      <3>1. PICK e \in calls : e # c /\ Kept(d, e)
        BY TypedCalls, OutdatedCalls, KeptItself DEF Without
      <3>2. ~e.client
        BY <1>3, <2>5, <3>1 DEF Typed, AloneIn, Clash, Kept
      <3>3. e.at # "inserted"
        BY <2>1, <2>5, <3>1 DEF Typed, Shapes, Shape, Kept
      <3>4. QED
        BY <3>1, <3>2, <3>3 DEF Kept
    <2>6. runs' = [b \in Attempts |-> IF b = c.a THEN [runs[b] EXCEPT !.step = table[@]] ELSE runs[b]]
      BY <1>0, <1>1, <1>3 DEF Reply
    <2>7. QED
      BY <1>1, <1>3, <2>2, <2>4, <2>5, <2>6 DEF RunsMove
  <1>4. QED
    BY <1>2, <1>3

\* A run goes on while it waits for nothing.
LEMMA StepMoves ==
    ASSUME Typed, NEW a \in Attempts, NEW step, Steps(a, step), step \in Underway \cup Completed,
           runs[a].step # "none", \A d \in calls' : d.a = a => ~d.client,
           \A d \in calls' : \E e \in calls : Kept(d, e), Last' = Last
    PROVE  /\ RunsMove
           /\ DOMAIN runs' = Attempts /\ runs' = [b \in Attempts |-> runs'[b]]
           /\ runs'[a] = [step |-> step, try |-> runs[a].try]
           /\ \A b \in Attempts : b # a => runs'[b] = runs[b]
  <1>0. runs \in [Attempts -> RunType] /\ runs[a].try > 0 /\ a <= Last
    BY DEF Typed, RunsOK, Started
  <1>1. runs'[a] = [step |-> step, try |-> runs[a].try] /\ \A b \in Attempts : b # a => runs'[b] = runs[b]
    BY <1>0 DEF Steps, RunType
  <1>2. runs'[a] \in RunType /\ runs'[a].step # "none" /\ runs'[a].try >= runs[a].try /\ runs'[a].try > 0
    BY <1>0, <1>1, ControlBoundsAssumption DEF RunType, Underway, Completed, Publishing, Reports
  <1>3. \A d \in calls' : d.a = a => d.at # "inserted"
    BY DEF Typed, Shapes, Shape, Kept
  <1>4. DOMAIN runs' = Attempts /\ runs' = [b \in Attempts |-> runs'[b]]
    BY <1>0 DEF Steps
  <1>5. QED
    BY <1>0, <1>1, <1>2, <1>3, <1>4 DEF RunsMove

LEMMA Positive == MaxAttempts \in Nat /\ MaxTries \in Nat /\ MaxAttempts > 0 /\ MaxTries > 0
  BY ControlBoundsAssumption

LEMMA Known ==
    ASSUME Typed, NEW c \in calls
    PROVE  /\ c \in CallType /\ Shape(c)
           /\ c.a \in Nat /\ c.try \in 0..MaxTries
           /\ Last \in Nat /\ Last <= MaxAttempts
           /\ c.op \in Callbacks \/ (c.op = "reconcile" /\ c.at # "begun") => c.a \in 1..Last /\ c.a \in Attempts
           /\ c.op = "dispatch_request" /\ c.at \in {"inserted", "accepted"} => c.a \in 1..Last /\ c.a \in Attempts
  <1>1. c \in CallType /\ Shape(c) /\ Last \in Nat /\ Last <= MaxAttempts
    BY DEF Typed, Shapes, Shape, RowsOK, Last
  <1>2. c.a \in Nat /\ c.try \in 0..MaxTries
    BY <1>1, Positive DEF CallType
  <1>3. QED
    BY <1>1, <1>2, Positive DEF Shape, Attempts

LEMMA AttemptAt ==
    ASSUME Typed, NEW a \in 1..Last
    PROVE  /\ attempts[a] \in AttemptType /\ a \in Attempts /\ runs[a] \in RunType
           /\ attempts[a].stage \in Stages /\ attempts[a].result \in Results /\ attempts[a].try \in 0..MaxTries
  <1>1. attempts[a] \in AttemptType
    BY DEF Typed, RowsOK, Last
  <1>2. a \in Attempts
    BY Positive DEF Typed, RowsOK, Last, Attempts
  <1>3. QED
    BY <1>1, <1>2 DEF AttemptType, Typed, RunsOK

\* A row of an attempt is written.
LEMMA AttemptWritten ==
    ASSUME Typed, NEW a \in 1..Last, NEW t \in AttemptType, attempts' = [attempts EXCEPT ![a] = t]
    PROVE  /\ attempts' \in Seq(AttemptType) /\ Last' = Last
           /\ attempts'[a] = t
           /\ \A b \in 1..Last : b # a => attempts'[b] = attempts[b]
  BY DEF Typed, RowsOK, Last

LEMMA AttemptInserted ==
    ASSUME Typed, NEW t \in AttemptType, attempts' = Append(attempts, t)
    PROVE  /\ attempts' \in Seq(AttemptType) /\ Last' = Last + 1
           /\ attempts'[Last + 1] = t
           /\ \A b \in 1..Last : attempts'[b] = attempts[b]
  BY DEF Typed, RowsOK, Last

\* What the fields of a call become.
LEMMA Placed ==
    ASSUME NEW c \in CallType, NEW p \in Positions
    PROVE  LET e == [c EXCEPT !.at = p] IN
                 /\ e \in CallType /\ e.at = p
                 /\ e.op = c.op /\ e.a = c.a /\ e.try = c.try /\ e.stage = c.stage /\ e.result = c.result
                 /\ (e.client <=> c.client) /\ (e.fresh <=> c.fresh)
  BY DEF CallType

LEMMA Chained ==
    ASSUME NEW c \in CallType
    PROVE  LET e == [c EXCEPT !.at = "chained", !.fresh = TRUE] IN
                 /\ e \in CallType /\ e.at = "chained" /\ e.fresh
                 /\ e.op = c.op /\ e.a = c.a /\ e.try = c.try /\ e.stage = c.stage /\ e.result = c.result
                 /\ (e.client <=> c.client)
  BY DEF CallType, Positions

LEMMA Rejected ==
    ASSUME NEW c \in CallType
    PROVE  LET e == Rejection(c) IN
                 /\ e \in CallType /\ e.at = "checked" /\ ~e.fresh
                 /\ e.op = "reject" /\ e.a = c.a /\ e.try = c.try /\ e.stage = c.stage /\ e.result = "failed_terminal"
                 /\ (e.client <=> c.client)
  <1>1. "reject" \in Operators \cup Callbacks /\ "checked" \in Positions
        /\ "failed_terminal" \in Results \cup Dispatchable \cup {"none"}
    BY DEF Positions, Callbacks, Results, Terminal
  <1>2. QED
    BY <1>1 DEF CallType, Rejection

LEMMA Fields ==
    ASSUME NEW op \in Operators \cup Callbacks, NEW a \in 0..MaxAttempts, NEW try \in 0..MaxTries,
           NEW stage \in Stages \cup {"none"}, NEW result \in Results \cup Dispatchable \cup {"none"},
           NEW client \in BOOLEAN
    PROVE  LET c == Call(op, a, try, stage, result, client) IN
               /\ c \in CallType
               /\ c.op = op /\ c.a = a /\ c.try = try /\ c.stage = stage /\ c.result = result
               /\ (c.client <=> client) /\ c.at = "checked" /\ ~c.fresh
  BY DEF Call, CallType, Positions

LEMMA OperatorFields ==
    ASSUME NEW op \in Operators
    PROVE  LET c == Operator(op) IN
               /\ c \in CallType
               /\ c.op = op /\ c.a = 0 /\ c.try = 0 /\ c.stage = "none" /\ c.result = "none"
               /\ ~c.client /\ c.at = "checked" /\ ~c.fresh
  <1>1. 0 \in 0..MaxAttempts /\ 0 \in 0..MaxTries /\ FALSE \in BOOLEAN
    BY Positive
  <1>2. QED
    BY <1>1 DEF Operator, Call, CallType, Positions

LEMMA DispatchingShape == Typed => /\ Shape(Dispatching) /\ Dispatching.a = 0 /\ Dispatching.at = "begun"
                                   /\ ~Dispatching.client /\ Dispatching.op = "dispatch_request" /\ ~Dispatching.fresh
  <1> SUFFICES ASSUME Typed PROVE Shape(Dispatching) /\ Dispatching.a = 0 /\ Dispatching.at = "begun"
                                  /\ ~Dispatching.client /\ Dispatching.op = "dispatch_request" /\ ~Dispatching.fresh
    OBVIOUS
  <1> DEFINE d == Operator("dispatch_request")
  <1>1. /\ d \in CallType /\ d.op = "dispatch_request" /\ d.a = 0 /\ d.try = 0 /\ ~d.client /\ ~d.fresh
        /\ d.result = "none" /\ d.stage = "none"
    BY OperatorFields DEF Operators
  <1>2. /\ Dispatching \in CallType /\ Dispatching.at = "begun" /\ Dispatching.op = "dispatch_request"
        /\ Dispatching.a = 0 /\ Dispatching.try = 0 /\ ~Dispatching.client /\ ~Dispatching.fresh
        /\ Dispatching.result = "none" /\ Dispatching.stage = "none"
    <2> HIDE DEF d
    <2>1. Dispatching = [d EXCEPT !.at = "begun"]
      BY DEF Dispatching, d
    <2>2. "begun" \in Positions
      BY DEF Positions
    <2>3. QED
      BY <1>1, <2>1, <2>2, Placed
  <1>3. Last \in Nat
    BY DEF Typed, RowsOK, Last
  <1>4. QED
    BY <1>1, <1>2, <1>3 DEF Shape, Callbacks, Reporting

LEMMA ReadiedShape ==
    ASSUME Typed, state \in Dispatchable
    PROVE  /\ Shape(Readied) /\ Readied.at = "numbering" /\ Readied.op = "dispatch_request"
           /\ ~Readied.client /\ ~Readied.fresh /\ Readied.a = 0 /\ Readied.try = 0 /\ Readied.result = state
  <1>1. PICK d : d = Dispatching
    OBVIOUS
  <1>2. /\ d \in CallType /\ d.a = 0 /\ d.op = "dispatch_request" /\ d.try = 0 /\ ~d.client /\ ~d.fresh
    BY <1>1, DispatchingShape DEF Shape
  <1>3. "numbering" \in Positions /\ state \in Results \cup Dispatchable \cup {"none"}
    BY DEF Positions
  <1>4. PICK e : e = [d EXCEPT !.result = state, !.at = "numbering"]
    OBVIOUS
  <1>5. /\ e \in CallType /\ e.at = "numbering" /\ e.op = "dispatch_request" /\ e.a = 0 /\ e.try = 0
        /\ ~e.client /\ ~e.fresh /\ e.result = state
    BY <1>2, <1>3, <1>4 DEF CallType
  <1>6. Last \in Nat
    BY DEF Typed, RowsOK, Last
  <1>7. Shape(e)
    BY <1>5, <1>6 DEF Shape, Callbacks, Reporting
  <1>8. QED
    BY <1>1, <1>4, <1>5, <1>7 DEF Readied

\* A handler of which the run does not wait takes another one's place.
LEMMA AnotherShape ==
    ASSUME Typed, NEW c \in calls, NEW e, calls' = Without(c) \cup {e}, Shape(e)', ~e.client, e.at # "inserted"
    PROVE  CallsMove /\ AloneIn(calls')
  BY TypedCalls, AloneReplaced, KeptItself DEF CallsMove, Typed, Without

LEMMA RowsStay == Typed /\ UNCHANGED <<db, unsettled>> => RowsOK' /\ Last' = Last /\ Last \in Nat
  BY DEF Typed, RowsOK, db, Last

LEMMA SameShape ==
    ASSUME NEW c, Shape(c), Last' = Last, UNCHANGED runs PROVE Shape(c)'
  BY DEF Shape

LEMMA TypedOperations ==
    ASSUME Typed, Operations PROVE Typed'
  <1>1. ASSUME NEW c, Begin(c), Shape(c), ~c.client, c.at # "inserted",
               UNCHANGED <<db, runs, unsettled>>
        PROVE  Typed'
    BY <1>1, RowsStay, SameShape, CallBegins, AssembledStill
  <1>2. ASSUME NEW op \in DOMAIN From, StartOperation(op) PROVE Typed'
    <2>1. op \in Operators /\ op # "dispatch_request" /\ op # "reconcile"
      BY Tables DEF Operators
    <2>2. Shape(Operator(op)) /\ ~Operator(op).client /\ Operator(op).at # "inserted"
      BY <2>1, OperatorFields, Positive, RowsStay, <1>2 DEF StartOperation, Shape, Callbacks, Reporting, Operators
    <2>3. QED
      BY <1>1, <1>2, <2>2 DEF StartOperation
  <1>3. CASE StartDispatch
    <2>1. PICK c : c = Readied
      OBVIOUS
    <2>2. Shape(c) /\ ~c.client /\ c.at = "numbering"
      BY <1>3, <2>1, ReadiedShape DEF StartDispatch
    <2>3. QED
      BY <1>1, <1>3, <2>1, <2>2 DEF StartDispatch
  <1>4. CASE StartReconcile
    <2> DEFINE d == Operator("reconcile")
               c == [d EXCEPT !.at = "begun"]
    <2>1. /\ d \in CallType /\ d.op = "reconcile" /\ d.a = 0 /\ d.try = 0 /\ ~d.client
          /\ "begun" \in Positions
      BY OperatorFields DEF Operators, Positions
    <2>2. c \in CallType /\ c.op = "reconcile" /\ c.a = 0 /\ c.try = 0 /\ ~c.client /\ c.at = "begun"
      <3> HIDE DEF d
      <3>1. QED
        BY <2>1, Placed
    <2>3. Begin(c) /\ UNCHANGED <<db, runs, unsettled>>
      BY <1>4 DEF StartReconcile
    <2> HIDE DEF c
    <2>4. Shape(c)
      BY <1>4, <2>2, RowsStay DEF StartReconcile, Shape, Callbacks, Reporting
    <2>5. QED
      BY <1>1, <2>2, <2>3, <2>4
  <1>5. QED
    BY <1>2, <1>3, <1>4 DEF Operations

LEMMA TypedChain ==
    ASSUME Typed, NEW c \in calls, Chain(c) PROVE Typed'
  <1> DEFINE e == [c EXCEPT !.at = "chained", !.fresh = TRUE]
  <1>1. c \in CallType /\ Shape(c)
    BY Known
  <1>2. /\ e \in CallType /\ e.at = "chained"
        /\ e.op = c.op /\ e.a = c.a /\ e.try = c.try /\ e.stage = c.stage /\ e.result = c.result
        /\ (e.client <=> c.client)
    BY <1>1 DEF CallType, Positions
  <1>3. calls' = Without(c) \cup {e} /\ c.at = "checked" /\ UNCHANGED <<db, runs, unsettled>>
    BY DEF Chain
  <1> HIDE DEF e
  <1>4. Shape(e)'
    BY <1>1, <1>2, <1>3, RowsStay DEF Shape
  <1>5. QED
    BY <1>2, <1>3, <1>4, RowsStay, CallGoesOn, AssembledStill

\* A call takes its next position.
LEMMA PlacedShape ==
    ASSUME Typed, NEW c \in calls, NEW p \in Positions, c.at \in {"asking", "checked", "chained", "claimed", "inserted"},
           c.op = "dispatch_request" => p \in {"claimed", "accepted"} /\ (p = "accepted" => c.at = "inserted"),
           c.op # "dispatch_request" => p = "checked",
           Last' = Last, ~c.client,
           c.a \in Attempts => runs'[c.a].try >= runs[c.a].try, runs' \in [Attempts -> RunType],
           p = "accepted" => runs'[c.a].step # "none"
    PROVE  LET e == [c EXCEPT !.at = p]
           IN  /\ Shape(e)' /\ e \in CallType /\ e.at = p
               /\ e.op = c.op /\ e.a = c.a /\ e.try = c.try /\ e.stage = c.stage /\ e.result = c.result
               /\ ~e.client /\ (e.fresh <=> c.fresh)
  <1> DEFINE e == [c EXCEPT !.at = p]
  <1>1. /\ e \in CallType /\ e.at = p
        /\ e.op = c.op /\ e.a = c.a /\ e.try = c.try /\ e.stage = c.stage /\ e.result = c.result
        /\ ~e.client /\ (e.fresh <=> c.fresh)
    BY Known, Placed
  <1> HIDE DEF e
  <1>2. c.op \in Callbacks => c.try \in 1..runs'[c.a].try
    <2>1. c.op \in Callbacks => c.a \in Attempts /\ c.try \in 1..runs[c.a].try
      BY Known DEF Shape
    <2>2. c.op \in Callbacks => runs[c.a].try \in Nat /\ runs'[c.a].try \in Nat
      BY <2>1, Positive DEF RunType, Typed, RunsOK
    <2>3. QED
      BY <2>1, <2>2
  <1>3. Shape(c)
    BY Known
  <1>4. Shape(e)'
    BY <1>1, <1>2, <1>3 DEF Shape, Callbacks
  <1>5. QED
    BY <1>1, <1>4 DEF e

LEMMA TypedDispatch ==
    ASSUME Typed, NEW c \in calls,
           ReadAttempt(c) \/ CheckDispatch(c) \/ NumberAttempt(c) \/ Claim(c) \/ InsertAttempt(c) \/ Unclaim(c)
           \/ RunStarts(c) \/ DispatchEnds(c) \/ DispatchFails(c)
    PROVE  Typed'
  <1> USE Known
  <1>0. runs \in [Attempts -> RunType] /\ state \in States /\ unsettled \in BOOLEAN /\ attempts \in Seq(AttemptType)
    BY DEF Typed, RunsOK, RowsOK
  <1>p. {"checked", "claimed", "inserted", "accepted"} \subseteq Positions
    BY DEF Positions
  <1>n. ASSUME c.op = "dispatch_request" PROVE ~c.client
    BY <1>n DEF Shape, Callbacks
  <1>1. CASE CheckDispatch(c)
    <2>1. state \in Dispatchable /\ calls' = Without(c) \cup {Readied} /\ UNCHANGED <<db, runs, unsettled>>
      BY <1>1 DEF CheckDispatch
    <2>2. PICK e : e = Readied
      OBVIOUS
    <2>3. Shape(e) /\ ~e.client /\ e.at = "numbering"
      BY <2>1, <2>2, ReadiedShape
    <2>4. Shape(e)'
      BY <2>1, <2>3, RowsStay, SameShape
    <2>5. QED
      BY <2>1, <2>2, <2>3, <2>4, RowsStay, AnotherShape, AssembledStill
  <1>9. CASE NumberAttempt(c)
    <2>1. NextAttempt \in Attempts /\ c.op = "dispatch_request" /\ c.at = "numbering"
          /\ UNCHANGED <<db, runs, unsettled>>
      BY <1>9 DEF NumberAttempt
    <2>2. PICK e : e = [c EXCEPT !.a = NextAttempt, !.at = "checked"]
      OBVIOUS
    <2>3. /\ e \in CallType /\ e.at = "checked" /\ e.op = c.op /\ e.try = c.try
          /\ e.a = NextAttempt /\ e.result = c.result /\ (e.client <=> c.client)
      <3>1. NextAttempt \in 0..MaxAttempts
        BY <2>1, Positive DEF Attempts
      <3>2. QED
        BY <1>p, <2>1, <2>2, <3>1 DEF CallType
    <2>4. Shape(e)'
      <3>1. Last' = Last /\ ~e.client /\ c.try = 0 /\ c.result \in Dispatchable
        BY <1>n, <2>1, <2>3, RowsStay DEF Shape
      <3>2. NextAttempt \in 0..Last + 1
        BY DEF NextAttempt
      <3>3. QED
        BY <2>1, <2>3, <3>1, <3>2 DEF Shape, Callbacks, Reporting
    <2>5. calls' = Without(c) \cup {e} /\ ~e.client
      BY <1>9, <1>n, <2>1, <2>2, <2>3 DEF NumberAttempt
    <2>6. QED
      BY <2>1, <2>3, <2>4, <2>5, RowsStay, AnotherShape, AssembledStill
  <1>10. CASE ReadAttempt(c)
    <2> DEFINE t == attempts[Last]
               d == Call("reconcile", Last, t.try, t.stage, Verdict(t.stage), FALSE)
    <2>1. Last \in 1..Last /\ Last \in 0..MaxAttempts
      BY <1>10, RowsStay DEF ReadAttempt, Typed, RowsOK
    <2>2. t.stage \in Stages /\ t.try \in 1..MaxTries
      BY <1>10, <2>1, AttemptAt, Positive DEF ReadAttempt
    <2>3. Verdict(t.stage) \in Results /\ "reconcile" \in Operators
      BY DEF Verdict, Results, Terminal, Operators
    <2>4. /\ d \in CallType /\ d.op = "reconcile" /\ d.a = Last /\ d.try = t.try
          /\ d.stage = t.stage /\ d.result = Verdict(t.stage) /\ ~d.client
      <3> HIDE DEF t
      <3>1. FALSE \in BOOLEAN /\ t.try \in 0..MaxTries
        BY <2>2, Positive
      <3>2. QED
        BY <2>1, <2>2, <2>3, <3>1 DEF Call, CallType, Positions
    <2>5. "asking" \in Positions
      BY DEF Positions
    <2>6. PICK e : e = [d EXCEPT !.at = "asking"]
      OBVIOUS
    <2>7. /\ e \in CallType /\ e.op = "reconcile" /\ e.a = Last /\ e.try = t.try
          /\ e.stage = t.stage /\ e.result = Verdict(t.stage) /\ ~e.client /\ e.at = "asking"
      <3> HIDE DEF d
      <3>1. QED
        BY <2>4, <2>5, <2>6, Placed
    <2>8. Shape(e)
      BY <2>1, <2>2, <2>7, Positive DEF Shape, Callbacks, Reporting
    <2>9. calls' = Without(c) \cup {e} /\ UNCHANGED <<db, runs, unsettled>>
      BY <1>10, <2>6 DEF ReadAttempt
    <2>10. Shape(e)'
      BY <2>8, <2>9, RowsStay, SameShape
    <2>11. QED
      BY <2>7, <2>9, <2>10, RowsStay, AnotherShape, AssembledStill
  <1>2. CASE Claim(c)
    <2> DEFINE e == [c EXCEPT !.at = "claimed"]
    <2>1. c.op = "dispatch_request" /\ c.at = "chained" /\ calls' = Without(c) \cup {e}
          /\ UNCHANGED <<attempts, runs, unsettled>> /\ state' = "dispatched"
      BY <1>2 DEF Claim
    <2>2. RowsOK' /\ Last' = Last
      BY <2>1 DEF Typed, RowsOK, Last, States, Active
    <2>3. \A a \in Attempts : runs[a].try \in Nat
      BY <1>0, Positive DEF RunType
    <2>4. Shape(e)' /\ e.a = c.a /\ ~e.client /\ e.at = "claimed"
      BY <1>0, <1>p, <1>n, <2>1, <2>2, <2>3, PlacedShape
    <2> HIDE DEF e
    <2>5. QED
      BY <2>1, <2>2, <2>4, CallGoesOn, AssembledStill
  <1>3. CASE InsertAttempt(c)
    <2> DEFINE e == [c EXCEPT !.at = "inserted", !.fresh = FALSE]
               t == [stage |-> "dispatching", result |-> "queued", try |-> 0]
    <2>1. c.op = "dispatch_request" /\ c.at = "claimed" /\ c.a = NextAttempt
          /\ calls' = Outdated(Without(c)) \cup {e}
          /\ UNCHANGED <<state, runs, unsettled>> /\ attempts' = Append(attempts, t)
      BY <1>3 DEF InsertAttempt
    <2>2. t \in AttemptType
      BY Positive DEF AttemptType, Stages, Results
    <2>3. attempts' \in Seq(AttemptType) /\ Last' = Last + 1
      <3> HIDE DEF t
      <3>1. QED
        BY <2>1, <2>2, AttemptInserted
    <2>4. c.a \in Attempts /\ c.a = Last + 1
      BY <2>1 DEF Shape, NextAttempt
    <2>5. RowsOK' /\ Last' >= Last
      BY <1>0, <2>1, <2>3, <2>4 DEF RowsOK, Attempts
    <2>6. runs[c.a].step = "none"
      BY <1>0, <2>4 DEF Typed, RunsOK
    <2>7. /\ e \in CallType /\ e.at = "inserted"
          /\ e.op = c.op /\ e.a = c.a /\ e.try = c.try /\ e.stage = c.stage /\ e.result = c.result
          /\ (e.client <=> c.client) /\ ~e.fresh
      BY <1>p DEF CallType
    <2> HIDE DEF e
    <2>8. Shape(e)'
      BY <1>n, <2>1, <2>3, <2>4, <2>6, <2>7 DEF Shape, Callbacks, Reporting
    <2>9. \A d \in calls : d.at = "inserted" => d.a # e.a
      <3>1. SUFFICES ASSUME NEW d \in calls, d.at = "inserted" PROVE d.a # c.a
        BY <2>7
      <3>2. d.op = "dispatch_request" /\ d.a \in 1..Last
        BY <3>1 DEF Shape
      <3>3. QED
        BY <2>4, <3>2
    <2>10. QED
      BY <1>n, <2>1, <2>5, <2>7, <2>8, <2>9, CallLandsAndGoesOn, AssembledStill
  <1>4. CASE Unclaim(c)
    <2>1. c.op = "dispatch_request" /\ c.at = "claimed" /\ calls' = Without(c)
          /\ UNCHANGED <<attempts, runs, unsettled>> /\ (state' = c.result \/ state' = state)
      BY <1>4 DEF Unclaim
    <2>2. c.result \in States
      BY <2>1 DEF Shape, Dispatchable, States, Terminal
    <2>3. RowsOK' /\ Last' = Last
      BY <1>0, <2>1, <2>2 DEF Typed, RowsOK, Last
    <2>4. QED
      BY <2>1, <2>3, CallEnds, AssembledStill
  <1>5. CASE RunStarts(c)
    <2> DEFINE e == [c EXCEPT !.at = "accepted"]
               start == [step |-> "authorize", try |-> 1]
    <2>1. c.op = "dispatch_request" /\ c.at = "inserted" /\ calls' = Without(c) \cup {e}
          /\ UNCHANGED <<db, unsettled>> /\ runs' = [runs EXCEPT ![c.a] = start]
      BY <1>5 DEF RunStarts
    <2>2. runs[c.a].step = "none" /\ runs[c.a].try = 0 /\ c.a \in Attempts /\ c.a <= Last
      BY <2>1 DEF Shape, Typed, RunsOK, Started
    <2>3. start \in RunType /\ start.step # "none" /\ start.try = 1 /\ start.try >= 0 /\ start.try > 0
      BY Positive DEF RunType, Underway
    <2>4. runs'[c.a] = start /\ \A a \in Attempts : a # c.a => runs'[a] = runs[a]
      BY <1>0, <2>1, <2>2
    <2>5. runs' \in [Attempts -> RunType]
      BY <1>0, <2>1, <2>3
    <2>6. RowsOK' /\ Last' = Last
      BY <2>1, RowsStay
    <2>7. /\ Shape(e)' /\ e \in CallType /\ e.at = "accepted"
          /\ e.op = c.op /\ e.a = c.a /\ ~e.client
      <3>1. runs'[c.a].try >= runs[c.a].try
        BY <2>2, <2>3, <2>4
      <3>2. QED
        BY <1>p, <1>n, <2>1, <2>5, <2>6, <3>1, PlacedShape
    <2> HIDE DEF e
    <2>8. \A d \in calls' : d.a = c.a => ~d.client /\ d.at # "inserted"
      <3>1. SUFFICES ASSUME NEW d \in calls, d # c, d.a = c.a PROVE ~d.client /\ d.at # "inserted"
        BY <2>1, <2>7 DEF Without
      <3>2. d.at # "inserted"
        BY <2>1, <3>1 DEF Typed, AloneIn, Clash
      <3>3. ~d.client
        BY <2>2, <3>1, Tables DEF Shape, AtOnce, Callbacks, Reporting, Reports
      <3>4. QED
        BY <3>2, <3>3
    <2>9. RunsMove
      <3> HIDE DEF start
      <3>1. QED
        BY <2>2, <2>3, <2>4, <2>8 DEF RunsMove
    <2>10. CallsMove /\ AloneIn(calls')
      BY <2>1, <2>7, CallGoesOn
    <2>11. QED
      BY <2>5, <2>6, <2>9, <2>10, Assembled
  <1>6. CASE DispatchEnds(c)
    BY <1>6, CallEnds, RowsStay, AssembledStill DEF DispatchEnds
  <1>7. CASE DispatchFails(c)
    <2> DEFINE t == [attempts[c.a] EXCEPT !.stage = "dispatch", !.result = "failed"]
    <2>1. c.op = "dispatch_request" /\ c.at \in {"inserted", "accepted"} /\ calls' = Without(c)
          /\ UNCHANGED <<runs, unsettled>> /\ state' = "failed_retryable"
      BY <1>7 DEF DispatchFails
    <2>2. c.a \in 1..Last
      BY <2>1 DEF Shape
    <2>3. attempts[c.a] \in AttemptType
      BY <2>2, AttemptAt
    <2>4. t \in AttemptType
      BY <2>3 DEF AttemptType, Stages, Results
    <2>5. attempts' = [attempts EXCEPT ![c.a] = t]
      BY <1>0, <1>7, <2>2, <2>3 DEF DispatchFails, AttemptType, Last
    <2> HIDE DEF t
    <2>6. attempts' \in Seq(AttemptType) /\ Last' = Last
      BY <2>2, <2>4, <2>5, AttemptWritten
    <2>7. RowsOK'
      BY <1>0, <2>1, <2>6 DEF RowsOK, States, Terminal
    <2>8. QED
      BY <2>1, <2>6, <2>7, CallEnds, AssembledStill
  <1>8. QED
    BY <1>1, <1>2, <1>3, <1>4, <1>5, <1>6, <1>7, <1>9, <1>10

LEMMA ReplyAssembled ==
    ASSUME Typed, NEW c \in calls, NEW table \in {Onward, Fallback}, Reply(c, table), c.op \in Callbacks,
           calls' = Without(c) \/ calls' = Outdated(Without(c)), RowsOK', Last' = Last
    PROVE  Typed'
  <1>1. RunsMove /\ DOMAIN runs' = Attempts /\ runs' = [a \in Attempts |-> runs'[a]]
    BY ReplyMoves
  <1>2. CallsMove /\ AloneIn(calls')
    BY CallEnds, CallLands
  <1>3. Last' >= Last
    BY Known
  <1>4. QED
    BY <1>1, <1>2, <1>3, Assembled

LEMMA TypedUnmoved ==
    ASSUME Typed, NEW c \in calls,
           Abandon(c) \/ FinishOperation(c) \/ RunIsCancelled(c) \/ FinishReconcile(c)
    PROVE  Typed'
  <1> USE Known
  <1>0. runs \in [Attempts -> RunType] /\ state \in States /\ unsettled \in BOOLEAN /\ attempts \in Seq(AttemptType)
    BY DEF Typed, RunsOK, RowsOK
  <1>1. CASE Abandon(c)
    <2>1. calls' = Without(c) /\ Reply(c, Fallback) /\ UNCHANGED <<db, unsettled>>
      BY <1>1 DEF Abandon
    <2>2. CASE c.client
      <3>1. c.op \in Callbacks
        BY <2>2 DEF Shape
      <3>2. QED
        BY <2>1, <3>1, RowsStay, ReplyAssembled
    <2>3. CASE ~c.client
      BY <2>1, <2>3, RowsStay, CallEnds, AssembledStill DEF Reply
    <2>4. QED
      BY <2>2, <2>3
  <1>2. CASE FinishOperation(c)
    <2>1. /\ c.op \in DOMAIN From /\ UNCHANGED <<attempts, runs>>
          /\ state' = state \/ state' = To[c.op]
          /\ unsettled' \in BOOLEAN
          /\ \/ calls' = Outdated(Without(c)) \/ calls' = Outdated(Without(c)) \cup {Dispatching}
      BY <1>0, <1>2 DEF FinishOperation
    <2>2. To[c.op] \in States
      BY <2>1, Tables DEF To, States, Terminal
    <2>3. RowsOK' /\ Last' = Last
      BY <1>0, <2>1, <2>2 DEF Typed, RowsOK, Last
    <2>4. CASE calls' = Outdated(Without(c))
      BY <2>1, <2>3, <2>4, CallLands, AssembledStill
    <2>5. CASE calls' = Outdated(Without(c)) \cup {Dispatching}
      <3>1. PICK e : e = Dispatching
        OBVIOUS
      <3>2. Shape(e) /\ e.at = "begun" /\ ~e.client
        BY <3>1, DispatchingShape
      <3>3. Shape(e)'
        BY <2>1, <2>3, <3>2, SameShape
      <3>4. Without(c) \in SUBSET CallType /\ AloneIn(Without(c))
        BY TypedCalls, AloneSubset DEF Typed, Without
      <3>5. AloneIn(Outdated(Without(c))) /\ \A d \in Outdated(Without(c)) : d \in CallType /\ \E f \in calls : Kept(d, f)
        BY <3>4, OutdatedAlone, OutdatedCalls DEF Without
      <3>6. AloneIn(calls')
        BY <2>5, <3>1, <3>2, <3>5, AloneWith DEF Clash
      <3>7. CallsMove
        BY <2>5, <3>1, <3>3, <3>5 DEF CallsMove
      <3>8. QED
        BY <2>1, <2>3, <3>6, <3>7, AssembledStill
    <2>6. QED
      BY <2>1, <2>4, <2>5
  <1>3. CASE RunIsCancelled(c)
    <2>1. c.op = "reconcile" /\ c.at = "asking" /\ calls' = Without(c) \cup {[c EXCEPT !.at = "checked"]}
          /\ UNCHANGED <<db, runs, unsettled>>
      BY <1>3 DEF RunIsCancelled
    <2>2. ~c.client /\ "checked" \in Positions
      BY <2>1 DEF Shape, Callbacks, Positions
    <2>3. \A a \in Attempts : runs[a].try \in Nat
      BY <1>0, Positive DEF RunType
    <2>4. PICK e : e = [c EXCEPT !.at = "checked"]
      OBVIOUS
    <2>5. Shape(e)' /\ e.a = c.a /\ ~e.client /\ e.at = "checked"
      BY <1>0, <2>1, <2>2, <2>3, <2>4, RowsStay, PlacedShape
    <2>6. CallsMove /\ AloneIn(calls')
      BY <2>1, <2>4, <2>5, CallGoesOn
    <2>7. QED
      BY <2>1, <2>6, RowsStay, AssembledStill
  <1>4. CASE FinishReconcile(c)
    <2>1. c.op = "reconcile" /\ c.at = "chained" /\ calls' = Outdated(Without(c)) /\ UNCHANGED <<runs, unsettled>>
      BY <1>4 DEF FinishReconcile, Lands
    <2>2. CASE UNCHANGED db
      BY <2>1, <2>2, RowsStay, CallLands, AssembledStill
    <2>3. CASE attempts' = [attempts EXCEPT ![c.a].result = c.result] /\ state' = c.result
      <3> DEFINE t == [attempts[c.a] EXCEPT !.result = c.result]
      <3>1. c.a \in 1..Last /\ c.result \in {"recovery_required", "failed_retryable"}
        BY <2>1 DEF Shape, Verdict
      <3>2. attempts[c.a] \in AttemptType
        BY <3>1, AttemptAt
      <3>3. t \in AttemptType /\ state' \in States
        BY <2>3, <3>1, <3>2 DEF AttemptType, Results, States, Terminal
      <3>4. attempts' = [attempts EXCEPT ![c.a] = t]
        BY <1>0, <2>3, <3>1, <3>2 DEF AttemptType, Last
      <3> HIDE DEF t
      <3>5. attempts' \in Seq(AttemptType) /\ Last' = Last
        BY <3>1, <3>3, <3>4, AttemptWritten
      <3>6. RowsOK'
        BY <1>0, <2>1, <3>3, <3>5 DEF RowsOK
      <3>7. QED
        BY <2>1, <3>5, <3>6, CallLands, AssembledStill
    <2>4. QED
      BY <1>4, <2>2, <2>3 DEF FinishReconcile
  <1>5. QED
    BY <1>1, <1>2, <1>3, <1>4

\* A callback that lands writes the row of its attempt and answers its run.
LEMMA BoundType ==
    ASSUME Typed, NEW c \in calls, c.op \in {"preflight", "reject"} PROVE Bound(c) \in AttemptType
  BY Known DEF Bound, AttemptType, Shape, Stages, Results, Terminal

LEMMA RejectionShape ==
    ASSUME Typed, NEW c \in calls, c.op = "preflight", Last' = Last, UNCHANGED runs
    PROVE  LET e == Rejection(c) IN Shape(e)' /\ e.a = c.a /\ (e.client <=> c.client) /\ e.at = "checked"
  <1> DEFINE e == Rejection(c)
  <1>1. Shape(c) /\ c \in CallType
    BY Known
  <1>2. /\ e \in CallType /\ e.at = "checked" /\ ~e.fresh
        /\ e.op = "reject" /\ e.a = c.a /\ e.try = c.try /\ e.stage = c.stage /\ e.result = "failed_terminal"
        /\ (e.client <=> c.client)
    BY <1>1, Rejected
  <1> HIDE DEF e
  <1>3. Shape(e)'
    BY <1>1, <1>2 DEF Shape, Callbacks, Reporting
  <1>4. QED
    BY <1>2, <1>3 DEF e

LEMMA TypedCallbacks ==
    ASSUME Typed, NEW c \in calls,
           PreflightPasses(c) \/ PreflightFails(c) \/ PreflightRejected(c) \/ StatusRecorded(c)
    PROVE  Typed'
  <1> USE Known
  <1>0. runs \in [Attempts -> RunType] /\ state \in States /\ unsettled \in BOOLEAN /\ attempts \in Seq(AttemptType)
    BY DEF Typed, RunsOK, RowsOK
  <1>1. CASE PreflightPasses(c)
    <2>1. /\ c.op = "preflight" /\ (state' = "running" \/ state' = state) /\ UNCHANGED unsettled
          /\ attempts' = [attempts EXCEPT ![c.a] = Bound(c)] \/ UNCHANGED attempts
      BY <1>1 DEF PreflightPasses, Lands
    <2>2. c.a \in 1..Last /\ c.op \in Callbacks
      BY <2>1 DEF Callbacks
    <2>3. attempts' \in Seq(AttemptType) /\ Last' = Last
      BY <1>0, <2>1, <2>2, BoundType, AttemptWritten DEF Last
    <2>4. RowsOK'
      BY <1>0, <2>1, <2>3 DEF RowsOK, Typed, States, Active
    <2>5. CASE Reply(c, Onward) /\ calls' = Outdated(Without(c))
      BY <2>2, <2>3, <2>4, <2>5, ReplyAssembled
    <2>6. CASE calls' = Outdated(Without(c)) \cup {Rejection(c)} /\ UNCHANGED runs
      <3>1. PICK e : e = Rejection(c)
        OBVIOUS
      <3>2. Shape(e)' /\ e.a = c.a /\ (e.client <=> c.client) /\ e.at = "checked"
        BY <2>1, <2>3, <2>6, <3>1, RejectionShape
      <3>3. QED
        BY <2>3, <2>4, <2>6, <3>1, <3>2, CallLandsAndGoesOn, AssembledStill
    <2>7. QED
      BY <1>1, <2>5, <2>6 DEF PreflightPasses
  <1>2. CASE PreflightFails(c)
    <2>1. c.op = "preflight" /\ calls' = Without(c) \cup {Rejection(c)} /\ UNCHANGED <<db, runs, unsettled>>
      BY <1>2 DEF PreflightFails
    <2>2. PICK e : e = Rejection(c)
      OBVIOUS
    <2>3. Shape(e)' /\ e.a = c.a /\ (e.client <=> c.client) /\ e.at = "checked"
      BY <2>1, <2>2, RowsStay, RejectionShape
    <2>4. QED
      BY <2>1, <2>2, <2>3, RowsStay, CallGoesOn, AssembledStill
  <1>3. CASE PreflightRejected(c)
    <2>1. /\ c.op = "reject" /\ state' = "failed_terminal" /\ UNCHANGED unsettled
          /\ attempts' = [attempts EXCEPT ![c.a] = Bound(c)] \/ UNCHANGED attempts
          /\ Reply(c, Fallback) /\ calls' = Outdated(Without(c))
      BY <1>3 DEF PreflightRejected, Lands
    <2>2. c.a \in 1..Last /\ c.op \in Callbacks
      BY <2>1 DEF Callbacks
    <2>3. attempts' \in Seq(AttemptType) /\ Last' = Last
      BY <1>0, <2>1, <2>2, BoundType, AttemptWritten DEF Last
    <2>4. RowsOK'
      BY <1>0, <2>1, <2>3 DEF RowsOK, Typed, States, Terminal
    <2>5. QED
      BY <2>1, <2>2, <2>3, <2>4, ReplyAssembled
  <1>4. CASE StatusRecorded(c)
    <2>1. /\ c.op \in Reporting /\ attempts' = [attempts EXCEPT ![c.a] = Reported(c)]
          /\ Reply(c, Onward) /\ calls' = Outdated(Without(c))
          /\ state' \in {c.result, c.stage, "running"}
          /\ c.result \in Terminal \/ c.stage \in Switching \/ state' = "running"
          /\ state' = c.result => c.result \in Terminal \/ state' = "running" \/ c.stage \in Switching
      BY <1>4 DEF StatusRecorded, Lands, Reporting
    <2>2. c.a \in 1..Last /\ c.op \in Callbacks
      BY <2>1 DEF Callbacks, Reporting
    <2>3. state' \in States
      BY <1>4 DEF StatusRecorded, States, Active, Terminal, Switching
    <2>4. Reported(c) \in AttemptType
      <3>1. PICK s \in DOMAIN Message : Message[s] = <<c.stage, c.result>>
        BY <2>1 DEF Shape
      <3>2. c.stage \in Stages /\ c.result \in Results
        BY <3>1, Messages
      <3>3. attempts[c.a] \in AttemptType
        BY <2>2, AttemptAt
      <3>4. QED
        BY <3>2, <3>3 DEF Reported, AttemptType
    <2>5. attempts' \in Seq(AttemptType) /\ Last' = Last
      BY <2>1, <2>2, <2>4, AttemptWritten
    <2>6. unsettled' \in BOOLEAN
      BY <1>4 DEF StatusRecorded
    <2>7. RowsOK'
      BY <1>0, <2>3, <2>5, <2>6 DEF RowsOK
    <2>8. QED
      BY <2>1, <2>2, <2>5, <2>7, ReplyAssembled
  <1>5. QED
    BY <1>1, <1>2, <1>3, <1>4

\* A run tells the control plane of a step, and waits.
Asks(op, stage, result, step) ==
    /\ op = "preflight" => stage = "preflight" /\ result = "queued"
    /\ op = "reject" => stage = "preflight" /\ result = "failed_terminal"
    /\ op \in {"preflight", "reject"} => step \in AtOnce
    /\ op \in Reporting => step \in DOMAIN Message /\ Message[step] = <<stage, result>>

LEMMA CallTyped ==
    ASSUME NEW op \in Operators \cup Callbacks, NEW a \in 0..MaxAttempts, NEW try \in 0..MaxTries,
           NEW stage \in Stages \cup {"none"}, NEW result \in Results \cup Dispatchable \cup {"none"},
           NEW client \in BOOLEAN
    PROVE  Call(op, a, try, stage, result, client) \in CallType
  BY DEF Call, CallType, Positions

LEMMA AsksShape ==
    ASSUME Typed, NEW c, c \in CallType, c.client, c.at = "checked", c.op \in Callbacks,
           c.a \in 1..Last, runs[c.a].step # "none", c.try = runs[c.a].try, c.stage \in Stages,
           Asks(c.op, c.stage, c.result, runs[c.a].step)
    PROVE  Shape(c)
  <1>1. c.a \in Attempts /\ runs[c.a] \in RunType /\ runs[c.a].try > 0 /\ Last \in Nat
    BY AttemptAt DEF Typed, RunsOK, Started, RowsOK, Last
  <1>2. c.try \in 1..runs[c.a].try
    BY <1>1, Positive DEF RunType
  <1>3. c.stage # "none"
    BY DEF Stages, Switching
  <1>4. c.op # "dispatch_request" /\ c.op # "reconcile"
    BY DEF Callbacks
  <1>5. c.a \in 0..Last /\ c.a > 0
    BY <1>1
  <1>6. c.op \in Reporting => \E s \in DOMAIN Message : Message[s] = <<c.stage, c.result>>
    BY DEF Asks
  <1>7. QED
    BY <1>2, <1>3, <1>4, <1>5, <1>6 DEF Shape, Asks

LEMMA TypedRun ==
    ASSUME Typed, NEW a \in Attempts, Run(a) PROVE Typed'
  <1>0. runs \in [Attempts -> RunType] /\ Last \in Nat /\ Last <= MaxAttempts /\ a \in Nat /\ a > 0
        /\ (runs[a].step # "none" => a \in 1..Last)
    BY DEF Typed, RunsOK, RowsOK, Last, Attempts
  <1>u. "none" \notin Underway \cup Completed \cup DOMAIN Fallback
    BY Tables DEF Underway, Completed, Publishing, Reports
  \* A call that the run waits for begins.
  <1>1. ASSUME NEW op \in Callbacks, NEW stage \in Stages, NEW result \in Results,
               Free(a), Begin(Call(op, a, runs[a].try, stage, result, TRUE)),
               UNCHANGED <<db, runs, unsettled>>,
               Asks(op, stage, result, runs[a].step)
        PROVE  Typed'
    <2>1. runs[a].step # "none" /\ a \in 1..Last /\ \A d \in calls : d.client => d.a # a
      BY <1>0, <1>1, <1>u DEF Free, Waiting
    <2>2. PICK c : c = Call(op, a, runs[a].try, stage, result, TRUE)
      OBVIOUS
    <2>3. Shape(c) /\ c.at = "checked" /\ c.a = a
      <3>1. /\ c.op = op /\ c.a = a /\ c.try = runs[a].try /\ c.stage = stage /\ c.result = result
            /\ c.at = "checked" /\ c.client
        BY <2>2 DEF Call
      <3>2. a \in 0..MaxAttempts /\ runs[a].try \in 0..MaxTries
        BY <1>0, <2>1, Positive DEF RunType, Attempts
      <3>3. c \in CallType
        BY <2>2, <3>2, CallTyped
      <3>4. QED
        BY <1>1, <2>1, <3>1, <3>3, AsksShape
    <2>s. Shape(c)'
      BY <1>1, <2>3, RowsStay, SameShape
    <2>4. CallsMove /\ AloneIn(calls')
      BY <1>1, <2>1, <2>2, <2>3, <2>s, CallBegins
    <2>5. QED
      BY <1>1, <2>4, RowsStay, AssembledStill
  \* The run does something by itself, or stops waiting.
  <1>2. ASSUME NEW step \in Underway \cup Completed, Steps(a, step), UNCHANGED <<db, unsettled>>,
               runs[a].step # "none",
               (UNCHANGED calls /\ \A d \in calls : d.client => d.a # a) \/ LeftAlone(a)
        PROVE  Typed'
    <2>1. /\ \A d \in calls' : (d.a = a => ~d.client) /\ d \in CallType /\ \E e \in calls : Kept(d, e)
          /\ AloneIn(calls')
      <3>1. CASE UNCHANGED calls /\ \A d \in calls : d.client => d.a # a
        BY <3>1, TypedCalls, KeptItself DEF Typed
      <3>2. CASE LeftAlone(a)
        BY <3>2, TypedCalls, LeftAloneCalls, LeftAloneAlone DEF Typed
      <3>3. QED
        BY <1>2, <3>1, <3>2
    <2>2. CallsMove
      BY <2>1 DEF CallsMove
    <2>3. RowsOK' /\ Last' = Last /\ Last' >= Last
      BY <1>2, RowsStay
    <2>4. RunsMove /\ DOMAIN runs' = Attempts /\ runs' = [b \in Attempts |-> runs'[b]]
      BY <1>2, <2>1, <2>3, StepMoves
    <2>5. QED
      BY <2>1, <2>2, <2>3, <2>4, Assembled
  <1>f. ASSUME Free(a) PROVE runs[a].step # "none" /\ \A d \in calls : d.client => d.a # a
    BY <1>f, <1>u DEF Free, Waiting
  <1>t. \A s \in DOMAIN Fallback : Fallback[s] \in Underway \cup Completed
    BY Tables, Replies DEF Underway, Completed, Publishing, Reports
  <1>p. "preflight" \in Stages /\ {"preflight", "reject", "status", "binding_status"} \subseteq Callbacks
        /\ {"queued", "failed_terminal"} \subseteq Results /\ AtOnce \subseteq DOMAIN Fallback
        /\ DOMAIN Message \subseteq DOMAIN Fallback
    BY Tables DEF Stages, Callbacks, Results, Terminal, AtOnce
  <1>3. CASE Preflight(a)
    BY <1>1, <1>3, <1>p DEF Preflight, Preflights, AtOnce, Reporting, Asks
  <1>4. CASE PreflightRefused(a)
    <2>1. CASE Queued(a)
      BY <1>1, <1>4, <1>p, <2>1 DEF PreflightRefused, Preflights, AtOnce, Reporting, Asks
    <2>2. CASE ~Queued(a)
      BY <1>2, <1>4, <1>f, <1>p, <1>t, <2>2 DEF PreflightRefused, Preflights, AtOnce
    <2>3. QED
      BY <2>1, <2>2
  <1>5. CASE Status(a)
    <2> DEFINE m == Message[runs[a].step]
               op == IF Binds(a, m[1]) THEN "binding_status" ELSE "status"
    <2>1. /\ Free(a) /\ runs[a].step \in DOMAIN Message
          /\ Begin(Call(op, a, runs[a].try, m[1], m[2], TRUE))
          /\ UNCHANGED <<db, runs, unsettled>>
      BY <1>5 DEF Status
    <2>2. m[1] \in Stages /\ m[2] \in Results /\ m = <<m[1], m[2]>>
      BY <2>1, Messages
    <2>3. op \in {"status", "binding_status"}
      OBVIOUS
    <2> HIDE DEF m, op
    <2>4. op \in Callbacks /\ op # "preflight" /\ op # "reject"
      BY <1>p, <2>3
    <2>5. Message[runs[a].step] = <<m[1], m[2]>>
      BY <2>2 DEF m
    <2>6. QED
      <3>1. Asks(op, m[1], m[2], runs[a].step)
        BY <2>1, <2>4, <2>5 DEF Asks
      <3>2. QED
        BY <1>1, <2>1, <2>2, <2>4, <3>1
  <1>6. CASE StatusRefused(a)
    BY <1>2, <1>6, <1>f, <1>p, <1>t DEF StatusRefused
  <1>7. CASE StartPublish(a)
    <2>1. \A d \in calls : d.client => d.a # a
      BY <1>7, Tables DEF StartPublish, Typed, Shapes, Shape, AtOnce, Reports, Callbacks, Reporting
    <2>2. "intake" \in Underway /\ runs[a].step # "none"
      BY <1>7 DEF StartPublish, Underway, Publishing
    <2>3. QED
      BY <1>2, <1>7, <2>1, <2>2 DEF StartPublish
  <1>8. CASE StepFails(a)
    BY <1>2, <1>8, <1>t, <1>u DEF StepFails
  <1>9. CASE SetupFails(a)
    <2>1. "broken" \in Underway
      BY DEF Underway, Publishing, Reports
    <2>2. QED
      BY <1>2, <1>9, <1>f, <2>1 DEF SetupFails
  <1>10. CASE ArtifactInvalid(a)
    <2>1. {"refused", "invalid"} \subseteq Underway
      BY DEF Underway, Publishing, Reports
    <2>2. QED
      BY <1>2, <1>10, <1>f, <2>1 DEF ArtifactInvalid
  <1>11. CASE CancelRun(a)
    <2>1. "cancelled" \in Completed
      BY DEF Completed
    <2>2. QED
      BY <1>2, <1>11, <1>u, <2>1 DEF CancelRun
  <1>12. CASE Rerun(a)
    <2> DEFINE start == [step |-> "authorize", try |-> runs[a].try + 1]
    <2>1. runs[a].step \in Completed /\ runs[a].try < MaxTries /\ UNCHANGED <<db, calls, unsettled>>
          /\ runs' = [runs EXCEPT ![a] = start]
      BY <1>0, <1>12 DEF Rerun
    <2>2. runs[a].try \in Nat
      BY <1>0, Positive DEF RunType
    <2>3. start \in RunType /\ start.step = "authorize" /\ start.try >= runs[a].try /\ start.try > 0
      BY <2>1, <2>2, Positive DEF RunType, Underway
    <2>4. runs'[a] = start /\ (\A b \in Attempts : b # a => runs'[b] = runs[b]) /\ DOMAIN runs' = Attempts
          /\ runs' = [b \in Attempts |-> runs'[b]]
      BY <1>0, <2>1
    <2> HIDE DEF start
    <2>5. \A d \in calls : d.a = a => ~d.client /\ d.at # "inserted"
      BY <2>1, Tables DEF Completed, Typed, Shapes, Shape, AtOnce, Reports, Callbacks, Reporting
    <2>6. a <= Last
      BY <1>0, <1>u, <2>1
    <2>7. RunsMove
      BY <2>1, <2>3, <2>4, <2>5, <2>6 DEF RunsMove
    <2>8. CallsMove /\ AloneIn(calls')
      BY <2>1, TypedCalls, KeptItself DEF Typed, CallsMove
    <2>9. QED
      BY <2>1, <2>4, <2>7, <2>8, RowsStay, Assembled
  <1>13. QED
    BY <1>3, <1>4, <1>5, <1>6, <1>7, <1>8, <1>9, <1>10, <1>11, <1>12 DEF Run

LEMMA TypedStep == Typed /\ [ControlNext]_controlVars => Typed'
  <1> SUFFICES ASSUME Typed, [ControlNext]_controlVars PROVE Typed'
    OBVIOUS
  <1>1. ASSUME NEW c \in calls, Handlers(c) \/ Landings(c) PROVE Typed'
    BY <1>1, TypedChain, TypedUnmoved, TypedDispatch, TypedCallbacks DEF Handlers, Landings
  <1>2. CASE UNCHANGED controlVars
    BY <1>2, RowsStay, TypedCalls, KeptItself, AssembledStill DEF controlVars, db, CallsMove, Typed
  <1>3. QED
    BY <1>1, <1>2, TypedOperations, TypedRun DEF ControlNext

LEMMA OvertakenTyped == overtaken \in BOOLEAN /\ [ControlNext]_controlVars => overtaken' \in BOOLEAN
  <1>1. \A c \in calls : overtaken' = (overtaken \/ Late(c)) => overtaken' \in BOOLEAN
    BY Zenon
  <1>2. QED
    BY <1>1 DEF ControlNext, controlVars

\* The rows keep their types, and a handler is about an attempt that is there or
\* that it is about to insert, whatever the handlers and runs do.
THEOREM ControlTypeCorrect == ControlSpec => []ControlTypeOK
  <1>1. ControlInit => Typed /\ overtaken \in BOOLEAN
    BY TypedInit DEF ControlInit
  <1>2. Typed /\ overtaken \in BOOLEAN /\ [ControlNext]_controlVars => (Typed /\ overtaken \in BOOLEAN)'
    BY TypedStep, OvertakenTyped
  <1>3. QED
    BY <1>1, <1>2, TypedSuffices, PTL DEF ControlSpec

------------------------------------------------------------------------------
(* Only the latest attempt is under way as long as nothing was overtaken.    *)

Claimed(c) == c.at = "claimed"
Inserted(c) == c.at = "inserted"

NoneQueued == \A a \in 1..Last : ~Queued(a)
QueuedActive == NoneQueued \/ state \in Active
OnlyLatest == \A a \in 1..Last : Queued(a) => a = Last

\* One dispatch at a time has claimed the request.
ApartIn(S) == \A c, d \in S : Claimed(c) /\ Claimed(d) => c = d

ClaimSafe == \A c \in calls : Claimed(c) => state \in {"dispatched", "running"} /\ NoneQueued
FlightSafe == \A c \in calls : Inserted(c) => Queued(c.a) /\ attempts[c.a].try = 0

Guarded == QueuedActive /\ OnlyLatest /\ ApartIn(calls) /\ ClaimSafe /\ FlightSafe

LEMMA ApartSubset ==
    ASSUME NEW S, NEW T \in SUBSET S, ApartIn(S) PROVE ApartIn(T)
  BY DEF ApartIn

LEMMA ApartWith ==
    ASSUME NEW S, ApartIn(S), NEW c, Claimed(c) => \A d \in S : ~Claimed(d)
    PROVE  ApartIn(S \cup {c})
  BY DEF ApartIn

LEMMA KeptPlace ==
    ASSUME NEW d, NEW e, Kept(d, e)
    PROVE  /\ (Claimed(d) <=> Claimed(e)) /\ (Inserted(d) <=> Inserted(e))
           /\ d.a = e.a /\ d.op = e.op /\ d.try = e.try /\ d.at = e.at
  BY DEF Kept, Claimed, Inserted

LEMMA OutdatedApart ==
    ASSUME NEW S \in SUBSET CallType, ApartIn(S) PROVE ApartIn(Outdated(S))
  <1> SUFFICES ASSUME NEW c \in Outdated(S), NEW d \in Outdated(S), Claimed(c), Claimed(d) PROVE c = d
    BY DEF ApartIn
  <1>1. PICK e \in S : c = [e EXCEPT !.fresh = FALSE]
    BY DEF Outdated
  <1>2. PICK f \in S : d = [f EXCEPT !.fresh = FALSE]
    BY DEF Outdated
  <1>3. Kept(c, e) /\ Kept(d, f)
    BY <1>1, <1>2, Stale
  <1>4. Claimed(e) /\ Claimed(f)
    BY <1>3, KeptPlace
  <1>5. QED
    BY <1>1, <1>2, <1>4 DEF ApartIn

LEMMA LeftAloneApart ==
    ASSUME NEW a, LeftAlone(a), calls \in SUBSET CallType, ApartIn(calls)
    PROVE  ApartIn(calls')
  <1> SUFFICES ASSUME NEW c \in calls', NEW d \in calls', Claimed(c), Claimed(d) PROVE c = d
    BY DEF ApartIn
  <1>1. PICK e \in calls : c = IF e.client /\ e.a = a THEN [e EXCEPT !.client = FALSE] ELSE e
    BY DEF LeftAlone
  <1>2. PICK f \in calls : d = IF f.client /\ f.a = a THEN [f EXCEPT !.client = FALSE] ELSE f
    BY DEF LeftAlone
  <1>3. Kept(c, e) /\ Kept(d, f)
    BY <1>1, <1>2, Unanswered, KeptItself
  <1>4. Claimed(e) /\ Claimed(f)
    BY <1>3, KeptPlace
  <1>5. QED
    BY <1>1, <1>2, <1>4 DEF ApartIn

LEMMA WithoutApart ==
    ASSUME Typed, ApartIn(calls), NEW c \in calls
    PROVE  /\ ApartIn(Without(c)) /\ ApartIn(Outdated(Without(c)))
           /\ \A d \in Without(c) \cup Outdated(Without(c)) : \E e \in calls : e # c /\ Kept(d, e)
  <1>1. Without(c) \in SUBSET CallType /\ ApartIn(Without(c))
    BY TypedCalls, ApartSubset DEF Without
  <1>2. ApartIn(Outdated(Without(c)))
    BY <1>1, OutdatedApart
  <1>3. \A d \in Outdated(Without(c)) : \E e \in calls : e # c /\ Kept(d, e)
    BY <1>1, OutdatedCalls DEF Without
  <1>4. QED
    BY <1>1, <1>2, <1>3, KeptItself DEF Without

\* No attempt is written.
LEMMA GuardedStill ==
    ASSUME Typed, Guarded, UNCHANGED attempts,
           state' = state \/ (state = "dispatched" /\ state' = "running") \/ state \notin Active,
           ApartIn(calls'),
           \A d \in calls' : (\E e \in calls : Kept(d, e)) \/ (~Claimed(d) /\ ~Inserted(d))
    PROVE  Guarded'
  <1>0. Last' = Last /\ (NoneQueued' <=> NoneQueued) /\ \A a : (Queued(a)' <=> Queued(a))
    BY DEF Last, NoneQueued, Queued
  <1>1. QueuedActive' /\ OnlyLatest'
    BY <1>0 DEF Guarded, QueuedActive, OnlyLatest, Active
  <1>2. ClaimSafe'
    <2> SUFFICES ASSUME NEW d \in calls', Claimed(d) PROVE state' \in {"dispatched", "running"} /\ NoneQueued
      BY <1>0 DEF ClaimSafe
    <2>1. PICK e \in calls : Kept(d, e)
      OBVIOUS
    <2>2. state \in {"dispatched", "running"} /\ NoneQueued
      BY <2>1, KeptPlace DEF Guarded, ClaimSafe
    <2>3. QED
      BY <2>2 DEF Active
  <1>3. FlightSafe'
    BY <1>0, KeptPlace DEF Guarded, FlightSafe
  <1>4. QED
    BY <1>1, <1>2, <1>3 DEF Guarded

\* While an attempt is under way the request is not claimed, and what was
\* inserted is that attempt.
LEMMA OnlyInserted ==
    ASSUME Typed, Guarded, NEW a \in 1..Last, Queued(a), NEW c \in calls
    PROVE  ~Claimed(c) /\ (Inserted(c) => c.a = a)
  <1>1. ~Claimed(c)
    BY DEF Guarded, ClaimSafe, NoneQueued
  <1>2. Inserted(c) => c.a \in 1..Last /\ Queued(c.a)
    BY Known DEF Inserted, Shape, Guarded, FlightSafe
  <1>3. QED
    BY <1>1, <1>2 DEF Guarded, OnlyLatest

\* The row of the attempt under way is written, which has a run.
LEMMA GuardedWritten ==
    ASSUME Typed, Guarded, NEW a \in 1..Last, Queued(a), Last' = Last,
           \A b \in 1..Last : b # a => attempts'[b] = attempts[b],
           Queued(a)' => state' \in Active,
           \A d \in calls' : \/ (\E e \in calls : Kept(d, e)) /\ (d.a = a => ~Inserted(d))
                             \/ ~Claimed(d) /\ ~Inserted(d)
    PROVE  Guarded'
  <1>1. \A d \in calls' : ~Claimed(d) /\ ~Inserted(d)
    BY OnlyInserted, KeptPlace
  <1>2. OnlyLatest'
    BY DEF Guarded, OnlyLatest, Queued
  <1>3. QueuedActive'
    BY DEF Guarded, OnlyLatest, QueuedActive, NoneQueued, Queued
  <1>4. QED
    BY <1>1, <1>2, <1>3 DEF Guarded, ApartIn, ClaimSafe, FlightSafe

LEMMA GuardedInit == ControlInit => Guarded
  BY DEF ControlInit, Guarded, QueuedActive, NoneQueued, OnlyLatest, ApartIn, ClaimSafe, FlightSafe, Last

\* A handler begins, or goes on, and has not claimed the request.
LEMMA GuardedWith ==
    ASSUME Typed, Guarded, NEW c, UNCHANGED attempts,
           state' = state \/ (state = "dispatched" /\ state' = "running") \/ state \notin Active,
           ~Claimed(c), ~Inserted(c),
           \/ calls' = calls \cup {c}
           \/ \E d \in calls : calls' = Without(d) \cup {c} \/ calls' = Outdated(Without(d)) \cup {c}
    PROVE  Guarded'
  <1>1. CASE calls' = calls \cup {c}
    BY <1>1, ApartWith, KeptItself, GuardedStill DEF Guarded
  <1>2. ASSUME NEW d \in calls, calls' = Without(d) \cup {c} \/ calls' = Outdated(Without(d)) \cup {c}
        PROVE  Guarded'
    <2>1. ApartIn(calls')
      BY <1>2, WithoutApart, ApartWith DEF Guarded
    <2>2. \A e \in calls' : e = c \/ \E f \in calls : Kept(e, f)
      BY <1>2, WithoutApart DEF Guarded
    <2>3. QED
      BY <2>1, <2>2, GuardedStill
  <1>3. QED
    BY <1>1, <1>2

\* A call is over without having written an attempt.
LEMMA GuardedOver ==
    ASSUME Typed, Guarded, NEW c \in calls, calls' = Without(c) \/ calls' = Outdated(Without(c)),
           UNCHANGED attempts,
           state' = state \/ (state = "dispatched" /\ state' = "running") \/ state \notin Active
    PROVE  Guarded'
  <1>1. ApartIn(calls') /\ \A d \in calls' : \E e \in calls : Kept(d, e)
    BY WithoutApart DEF Guarded
  <1>2. QED
    BY <1>1, GuardedStill

LEMMA GuardedOperations == ASSUME Typed, Guarded, Operations PROVE Guarded'
  <1>1. ASSUME NEW op \in DOMAIN From, StartOperation(op) PROVE Guarded'
    <2>1. PICK c : c = Operator(op)
      OBVIOUS
    <2>2. op \in Operators
      BY Tables DEF Operators
    <2>3. c.at = "checked"
      BY <2>1, <2>2, OperatorFields
    <2>4. QED
      BY <1>1, <2>1, <2>3, GuardedWith DEF StartOperation, Begin, db, Claimed, Inserted
  <1>2. CASE StartDispatch
    <2>1. PICK c : c = Readied
      OBVIOUS
    <2>2. c.at = "numbering"
      BY <1>2, <2>1, ReadiedShape DEF StartDispatch
    <2>3. QED
      BY <1>2, <2>1, <2>2, GuardedWith DEF StartDispatch, Begin, db, Claimed, Inserted
  <1>3. CASE StartReconcile
    <2>1. PICK c : c = [Operator("reconcile") EXCEPT !.at = "begun"]
      OBVIOUS
    <2>2. c.at = "begun"
      BY <2>1, OperatorFields DEF Operators, CallType
    <2>3. QED
      BY <1>3, <2>1, <2>2, GuardedWith DEF StartReconcile, Begin, db, Claimed, Inserted
  <1>4. QED
    BY <1>1, <1>2, <1>3 DEF Operations

LEMMA GuardedChain == ASSUME Typed, Guarded, NEW c \in calls, Chain(c) PROVE Guarded'
  <1>1. PICK e : e = [c EXCEPT !.at = "chained", !.fresh = TRUE]
    OBVIOUS
  <1>2. e.at = "chained"
    BY <1>1, Known DEF CallType
  <1>3. calls' = Without(c) \cup {e} /\ UNCHANGED db
    BY <1>1 DEF Chain
  <1>4. QED
    BY <1>2, <1>3, GuardedWith DEF db, Claimed, Inserted

LEMMA GuardedDispatch ==
    ASSUME Typed, Guarded, NEW c \in calls,
           ReadAttempt(c) \/ CheckDispatch(c) \/ NumberAttempt(c) \/ Claim(c) \/ InsertAttempt(c)
           \/ Unclaim(c) \/ RunStarts(c) \/ DispatchEnds(c)
    PROVE  Guarded'
  <1> USE Known
  <1>p. {"checked", "claimed", "inserted", "accepted"} \subseteq Positions
    BY DEF Positions
  \* The handler goes on, and has not claimed the request.
  <1>e. ASSUME NEW e, calls' = Without(c) \cup {e}, e.at \in {"asking", "numbering", "checked", "accepted"}, UNCHANGED db
        PROVE  Guarded'
    BY <1>e, GuardedWith DEF db, Claimed, Inserted
  <1>1. CASE ReadAttempt(c)
    <2>1. PICK d : d = Call("reconcile", Last, attempts[Last].try, attempts[Last].stage,
                            Verdict(attempts[Last].stage), FALSE)
      OBVIOUS
    <2>2. PICK e : e = [d EXCEPT !.at = "asking"]
      OBVIOUS
    <2>3. e.at = "asking"
      BY <2>1, <2>2 DEF Call
    <2>4. calls' = Without(c) \cup {e} /\ UNCHANGED db
      BY <1>1, <2>1, <2>2 DEF ReadAttempt
    <2>5. QED
      BY <1>e, <2>3, <2>4
  <1>2. CASE CheckDispatch(c)
    <2>1. PICK e : e = Readied
      OBVIOUS
    <2>2. e.at = "numbering"
      BY <1>2, <2>1, ReadiedShape DEF CheckDispatch
    <2>3. QED
      BY <1>2, <1>e, <2>1, <2>2 DEF CheckDispatch
  <1>3. CASE NumberAttempt(c)
    <2>1. PICK e : e = [c EXCEPT !.a = NextAttempt, !.at = "checked"]
      OBVIOUS
    <2>2. e.at = "checked"
      BY <2>1 DEF CallType
    <2>3. QED
      BY <1>3, <1>e, <2>1, <2>2 DEF NumberAttempt
  <1>4. CASE Claim(c)
    <2>1. PICK e : e = [c EXCEPT !.at = "claimed"]
      OBVIOUS
    <2>2. calls' = Without(c) \cup {e} /\ UNCHANGED attempts /\ state \in Dispatchable /\ state' = "dispatched"
      BY <1>4, <2>1 DEF Claim
    <2>3. e.at = "claimed" /\ ~Inserted(e)
      BY <1>p, <2>1, Placed DEF Inserted
    <2>4. state \notin Active
      BY <2>2 DEF Dispatchable, Active, Switching
    <2>5. NoneQueued /\ Last' = Last /\ NoneQueued'
      BY <2>2, <2>4 DEF Guarded, QueuedActive, NoneQueued, Last, Queued
    <2>6. \A d \in calls : ~Claimed(d)
      BY <2>4 DEF Guarded, ClaimSafe, Active
    <2>7. \A d \in calls : ~Inserted(d)
      BY <2>5 DEF Guarded, FlightSafe, NoneQueued, Inserted, Shape
    <2>8. ApartIn(calls')
      BY <2>2, <2>6, WithoutApart, ApartWith DEF Guarded, Without
    <2>9. \A d \in calls' : ~Inserted(d)
      BY <2>2, <2>3, <2>7 DEF Without
    <2>10. QED
      BY <2>2, <2>5, <2>8, <2>9 DEF Guarded, ClaimSafe, FlightSafe, QueuedActive, OnlyLatest, NoneQueued
  <1>5. CASE InsertAttempt(c)
    <2>1. PICK e : e = [c EXCEPT !.at = "inserted", !.fresh = FALSE]
      OBVIOUS
    <2> DEFINE t == [stage |-> "dispatching", result |-> "queued", try |-> 0]
    <2>2. Claimed(c) /\ c.a = Last + 1 /\ calls' = Outdated(Without(c)) \cup {e}
          /\ UNCHANGED state /\ attempts' = Append(attempts, t)
      BY <1>5, <2>1 DEF InsertAttempt, NextAttempt, Claimed
    <2>3. e.at = "inserted" /\ e.a = c.a
      BY <1>p, <2>1 DEF CallType
    <2>4. t \in AttemptType
      BY Positive DEF AttemptType, Stages, Results
    <2>5. Last' = Last + 1 /\ attempts'[Last + 1] = t /\ \A b \in 1..Last : attempts'[b] = attempts[b]
      <3> HIDE DEF t
      <3>1. QED
        BY <2>2, <2>4, AttemptInserted
    <2>6. state \in {"dispatched", "running"} /\ NoneQueued
      BY <2>2 DEF Guarded, ClaimSafe
    <2>7. \A b \in 1..Last' : Queued(b)' => b = Last'
      BY <2>5, <2>6 DEF NoneQueued, Queued
    <2>8. Queued(e.a)' /\ attempts'[e.a].try = 0
      <3>1. e.a = Last + 1 /\ attempts'[Last + 1] = t
        BY <2>2, <2>3, <2>5
      <3>2. t.result = "queued" /\ t.try = 0
        OBVIOUS
      <3> HIDE DEF t
      <3>3. attempts'[e.a] = t
        BY <3>1
      <3>4. QED
        BY <3>2, <3>3 DEF Queued
    <2>9. \A d \in Outdated(Without(c)) : ~Claimed(d) /\ ~Inserted(d)
      <3> SUFFICES ASSUME NEW d \in Outdated(Without(c)) PROVE ~Claimed(d) /\ ~Inserted(d)
        OBVIOUS
      <3>1. PICK f \in calls : f # c /\ Kept(d, f)
        BY WithoutApart DEF Guarded
      <3>2. ~Claimed(f)
        BY <2>2, <3>1 DEF Guarded, ApartIn
      <3>3. ~Inserted(f)
        <4>1. Inserted(f) => Queued(f.a) /\ f.a \in 1..Last
          BY DEF Guarded, FlightSafe, Inserted, Shape
        <4>2. QED
          BY <2>6, <4>1 DEF NoneQueued
      <3>4. QED
        BY <3>1, <3>2, <3>3, KeptPlace
    <2>10. ~Claimed(e)
      BY <2>3 DEF Claimed
    <2>11. \A d \in calls' : ~Claimed(d) /\ (Inserted(d) => d = e)
      BY <2>2, <2>9, <2>10
    <2>12. QED
      BY <2>2, <2>6, <2>7, <2>8, <2>11 DEF Guarded, QueuedActive, OnlyLatest, ApartIn, ClaimSafe, FlightSafe, Active
  <1>6. CASE Unclaim(c)
    <2>1. Claimed(c) /\ calls' = Without(c) /\ UNCHANGED attempts
      BY <1>6 DEF Unclaim, Claimed
    <2>2. NoneQueued /\ Last' = Last /\ NoneQueued'
      BY <2>1 DEF Guarded, ClaimSafe, NoneQueued, Last, Queued
    <2>3. \A d \in calls' : d \in calls /\ ~Claimed(d)
      BY <2>1 DEF Guarded, ApartIn, Without
    <2>4. FlightSafe'
      BY <2>1, <2>3 DEF Guarded, FlightSafe, Queued
    <2>5. QED
      BY <2>2, <2>3, <2>4 DEF Guarded, QueuedActive, OnlyLatest, NoneQueued, ClaimSafe, ApartIn
  <1>7. CASE RunStarts(c)
    <2>1. PICK e : e = [c EXCEPT !.at = "accepted"]
      OBVIOUS
    <2>2. e.at = "accepted"
      BY <1>p, <2>1, Placed
    <2>3. QED
      BY <1>7, <1>e, <2>1, <2>2 DEF RunStarts
  <1>8. CASE DispatchEnds(c)
    BY <1>8, GuardedOver DEF DispatchEnds, db
  <1>9. QED
    BY <1>1, <1>2, <1>3, <1>4, <1>5, <1>6, <1>7, <1>8

LEMMA GuardedUnmoved ==
    ASSUME Typed, Guarded, NEW c \in calls,
           Abandon(c) \/ FinishOperation(c) \/ RunIsCancelled(c) \/ FinishReconcile(c) \/ PreflightFails(c)
    PROVE  Guarded'
  <1> USE Known
  <1>1. CASE Abandon(c)
    BY <1>1, GuardedOver DEF Abandon, db
  <1>2. CASE FinishOperation(c)
    <2>1. /\ c.op \in DOMAIN From /\ UNCHANGED attempts
          /\ state' = state \/ state \in From[c.op]
          /\ \/ calls' = Outdated(Without(c)) \/ calls' = Outdated(Without(c)) \cup {Dispatching}
      BY <1>2 DEF FinishOperation
    <2>2. state' = state \/ state \notin Active
      <3>1. \A op \in DOMAIN From : From[op] \cap Active = {}
        BY DEF From, Active, Switching
      <3>2. QED
        BY <2>1, <3>1
    <2>3. CASE calls' = Outdated(Without(c))
      BY <2>1, <2>2, <2>3, GuardedOver
    <2>4. CASE calls' = Outdated(Without(c)) \cup {Dispatching}
      <3>1. PICK e : e = Dispatching
        OBVIOUS
      <3>2. e.at = "begun"
        BY <3>1, DispatchingShape
      <3>3. QED
        BY <2>1, <2>2, <2>4, <3>1, <3>2, GuardedWith DEF Claimed, Inserted
    <2>5. QED
      BY <2>1, <2>3, <2>4
  <1>3. CASE RunIsCancelled(c)
    <2>1. PICK e : e = [c EXCEPT !.at = "checked"]
      OBVIOUS
    <2>2. e.at = "checked"
      BY <2>1, Placed DEF Positions
    <2>3. QED
      BY <1>3, <2>1, <2>2, GuardedWith DEF RunIsCancelled, Claimed, Inserted, db
  <1>4. CASE FinishReconcile(c)
    <2>1. c.op = "reconcile" /\ c.at = "chained" /\ calls' = Outdated(Without(c))
      BY <1>4 DEF FinishReconcile, Lands
    <2>2. CASE UNCHANGED db
      BY <2>1, <2>2, GuardedOver DEF db
    <2>3. CASE Unmoved(c) /\ attempts' = [attempts EXCEPT ![c.a].result = c.result]
      <3>1. c.a \in 1..Last /\ c.result # "queued" /\ Queued(c.a) /\ attempts[c.a].try > 0
        BY <2>1, <2>3 DEF Shape, Verdict, Unmoved, Queued
      <3>2. attempts[c.a] \in AttemptType /\ attempts \in Seq(AttemptType)
        BY <3>1, AttemptAt DEF Typed, RowsOK
      <3>3. Last' = Last /\ ~Queued(c.a)' /\ \A b \in 1..Last : b # c.a => attempts'[b] = attempts[b]
        BY <2>3, <3>1, <3>2 DEF Last, AttemptType, Queued
      <3>4. \A d \in calls' : (\E e \in calls : Kept(d, e)) /\ (d.a = c.a => ~Inserted(d))
        <4> SUFFICES ASSUME NEW d \in calls' PROVE (\E e \in calls : Kept(d, e)) /\ (d.a = c.a => ~Inserted(d))
          OBVIOUS
        <4>1. PICK e \in calls : Kept(d, e)
          BY <2>1, WithoutApart DEF Guarded
        <4>2. Inserted(e) => attempts[e.a].try = 0
          BY DEF Guarded, FlightSafe
        <4>3. QED
          BY <3>1, <4>1, <4>2, KeptPlace
      <3>5. QED
        BY <3>1, <3>3, <3>4, GuardedWritten
    <2>4. QED
      BY <1>4, <2>2, <2>3 DEF FinishReconcile
  <1>5. CASE PreflightFails(c)
    <2>1. PICK e : e = Rejection(c)
      OBVIOUS
    <2>2. e.at = "checked"
      BY <2>1, Rejected
    <2>3. QED
      BY <1>5, <2>1, <2>2, GuardedWith DEF PreflightFails, Claimed, Inserted, db
  <1>6. QED
    BY <1>1, <1>2, <1>3, <1>4, <1>5

\* The row of an attempt after a callback.
LEMMA RowWritten ==
    ASSUME Typed, NEW a \in 1..Last, NEW t, attempts' = [attempts EXCEPT ![a] = t]
    PROVE  /\ Last' = Last /\ attempts'[a] = t
           /\ \A b \in 1..Last : b # a => attempts'[b] = attempts[b]
  BY DEF Typed, RowsOK, Last

\* What is written in time is about the attempt under way.
LEMMA InTime ==
    ASSUME Typed, NEW c \in calls, Landings(c), ~Late(c)
    PROVE  /\ c.a \in 1..Last /\ c.a \in Attempts
           /\ c.op # "preflight" => Queued(c.a)
           /\ Queued(c.a) => attempts[c.a].try <= c.try
           /\ c.op = "dispatch_request" \/ c.op \in Callbacks
  <1>1. (c.op = "dispatch_request" /\ c.at \in {"inserted", "accepted"}) \/ c.op \in Callbacks
    BY DEF Landings, PreflightPasses, PreflightRejected, StatusRecorded, DispatchFails, Lands, Callbacks
  <1>2. c.a \in 1..Last /\ c.a \in Attempts /\ c.try \in Nat
    BY <1>1, Known, Positive
  <1>3. attempts[c.a].try \in Nat
    BY <1>2, AttemptAt, Positive
  <1>4. QED
    BY <1>1, <1>2, <1>3 DEF Late

\* A callback is not about an attempt whose run has not begun.
LEMMA CallbackStarted ==
    ASSUME Typed, NEW c \in calls, c.op \in Callbacks, NEW d \in calls, Inserted(d) PROVE d.a # c.a
  <1>1. c.a \in Attempts /\ c.try \in 1..runs[c.a].try
    BY Known DEF Shape
  <1>2. runs[c.a].try \in Nat
    BY <1>1, Positive DEF Typed, RunsOK, RunType
  <1>3. runs[c.a].step # "none"
    BY <1>1, <1>2 DEF Typed, RunsOK, Started
  <1>4. runs[d.a].step = "none"
    BY Known DEF Inserted, Shape
  <1>5. QED
    BY <1>3, <1>4

LEMMA GuardedLandings ==
    ASSUME Typed, Guarded, NEW c \in calls, Landings(c), ~Late(c) PROVE Guarded'
  <1> USE Known, InTime
  <1>k. \A d \in Without(c) \cup Outdated(Without(c)) : \E e \in calls : e # c /\ Kept(d, e)
    BY WithoutApart DEF Guarded
  <1>i. ASSUME c.op \in Callbacks, NEW d \in Without(c) \cup Outdated(Without(c)), d.a = c.a PROVE ~Inserted(d)
    <2>1. PICK e \in calls : Kept(d, e)
      BY <1>k
    <2>2. QED
      BY <1>i, <2>1, CallbackStarted, KeptPlace
  <1>1. CASE PreflightPasses(c)
    <2>1. /\ c.op = "preflight" /\ c.op \in Callbacks /\ c.a \in 1..Last
          /\ state' = IF state = "dispatched" THEN "running" ELSE state
      BY <1>1 DEF PreflightPasses, Lands, Callbacks
    <2>2. CASE Queued(c.a)
      <3>1. attempts' = [attempts EXCEPT ![c.a] = Bound(c)]
        BY <1>1, <2>2 DEF PreflightPasses
      <3>2. Last' = Last /\ attempts'[c.a] = Bound(c) /\ \A b \in 1..Last : b # c.a => attempts'[b] = attempts[b]
        BY <2>1, <3>1, RowWritten
      <3>3. state' \in Active
        BY <2>1, <2>2 DEF Guarded, QueuedActive, NoneQueued, Active
      <3>4. PICK r : r = Rejection(c)
        OBVIOUS
      <3>5. ~Claimed(r) /\ ~Inserted(r)
        BY <3>4, Rejected DEF Claimed, Inserted
      <3>6. \A d \in calls' : d \in Outdated(Without(c)) \/ d = r
        BY <1>1, <3>4 DEF PreflightPasses
      <3>7. \A d \in calls' : \/ (\E e \in calls : Kept(d, e)) /\ (d.a = c.a => ~Inserted(d))
                              \/ ~Claimed(d) /\ ~Inserted(d)
        BY <1>i, <1>k, <2>1, <3>5, <3>6
      <3>8. QED
        BY <2>1, <2>2, <3>2, <3>3, <3>7, GuardedWritten
    <2>3. CASE ~Queued(c.a)
      BY <1>1, <2>1, <2>3, GuardedOver DEF PreflightPasses
    <2>4. QED
      BY <2>2, <2>3
  <1>2. CASE PreflightRejected(c)
    <2>1. c.op = "reject" /\ c.op \in Callbacks /\ calls' = Outdated(Without(c)) /\ Queued(c.a)
      BY <1>2 DEF PreflightRejected, Lands, Callbacks
    <2>2. attempts' = [attempts EXCEPT ![c.a] = Bound(c)]
      BY <1>2, <2>1 DEF PreflightRejected
    <2>3. Last' = Last /\ attempts'[c.a] = Bound(c) /\ \A b \in 1..Last : b # c.a => attempts'[b] = attempts[b]
      BY <2>2, RowWritten
    <2>4. ~Queued(c.a)'
      <3>1. c.result = "failed_terminal"
        BY <2>1 DEF Shape
      <3>2. QED
        BY <2>3, <3>1 DEF Queued, Bound
    <2>5. \A d \in calls' : (\E e \in calls : Kept(d, e)) /\ (d.a = c.a => ~Inserted(d))
      BY <1>i, <1>k, <2>1
    <2>6. QED
      BY <2>1, <2>3, <2>4, <2>5, GuardedWritten
  <1>3. CASE StatusRecorded(c)
    <2>1. c.op \in Reporting /\ c.op \in Callbacks /\ calls' = Outdated(Without(c)) /\ Queued(c.a)
          /\ attempts' = [attempts EXCEPT ![c.a] = Reported(c)]
      BY <1>3 DEF StatusRecorded, Lands, Callbacks, Reporting
    <2>2. Last' = Last /\ attempts'[c.a] = Reported(c) /\ \A b \in 1..Last : b # c.a => attempts'[b] = attempts[b]
      BY <2>1, RowWritten
    <2>3. Queued(c.a)' => c.result = "queued"
      BY <2>1, <2>2 DEF Queued, Reported
    <2>4. Queued(c.a)' => state' \in Active
      BY <1>3, <2>3 DEF StatusRecorded, Terminal, Active
    <2>5. \A d \in calls' : (\E e \in calls : Kept(d, e)) /\ (d.a = c.a => ~Inserted(d))
      BY <1>i, <1>k, <2>1
    <2>6. QED
      BY <2>1, <2>2, <2>4, <2>5, GuardedWritten
  <1>4. CASE DispatchFails(c)
    <2>1. c.op = "dispatch_request" /\ c.at \in {"inserted", "accepted"} /\ calls' = Without(c)
          /\ attempts' = [attempts EXCEPT ![c.a].stage = "dispatch", ![c.a].result = "failed"]
      BY <1>4 DEF DispatchFails
    <2>2. c.a \in 1..Last /\ Queued(c.a)
      BY <2>1
    <2>3. attempts[c.a] \in AttemptType /\ attempts \in Seq(AttemptType)
      BY <2>2, AttemptAt DEF Typed, RowsOK
    <2>4. Last' = Last /\ ~Queued(c.a)' /\ \A b \in 1..Last : b # c.a => attempts'[b] = attempts[b]
      BY <2>1, <2>2, <2>3 DEF Last, AttemptType, Queued
    <2>5. ASSUME NEW d \in calls', d.a = c.a, Inserted(d) PROVE FALSE
      <3>1. d \in calls /\ d # c
        BY <2>1, <2>5 DEF Without
      <3>2. CASE c.at = "inserted"
        BY <2>5, <3>1, <3>2 DEF Typed, AloneIn, Clash, Inserted
      <3>3. CASE c.at = "accepted"
        <4>1. runs[d.a].step = "none" /\ runs[c.a].step # "none"
          BY <2>1, <2>5, <3>1, <3>3 DEF Shape, Inserted
        <4>2. QED
          BY <2>5, <4>1
      <3>4. QED
        BY <2>1, <3>2, <3>3
    <2>6. \A d \in calls' : (\E e \in calls : Kept(d, e)) /\ (d.a = c.a => ~Inserted(d))
      BY <1>k, <2>1, <2>5
    <2>7. QED
      BY <2>2, <2>4, <2>6, GuardedWritten
  <1>5. QED
    BY <1>1, <1>2, <1>3, <1>4 DEF Landings

LEMMA GuardedRun ==
    ASSUME Typed, Guarded, NEW a \in Attempts, Run(a) PROVE Guarded'
  \* The run asks, and waits.
  <1>1. ASSUME NEW op, NEW stage, NEW result, Begin(Call(op, a, runs[a].try, stage, result, TRUE)), UNCHANGED db
        PROVE  Guarded'
    <2>1. PICK c : c = Call(op, a, runs[a].try, stage, result, TRUE)
      OBVIOUS
    <2>2. c.at = "checked"
      BY <2>1 DEF Call
    <2>3. QED
      BY <1>1, <2>1, <2>2, GuardedWith DEF Begin, db, Claimed, Inserted
  \* Only the run moves.
  <1>2. ASSUME UNCHANGED db, UNCHANGED calls \/ LeftAlone(a) PROVE Guarded'
    <2>1. CASE UNCHANGED calls
      BY <1>2, <2>1, KeptItself, GuardedStill DEF db, Guarded
    <2>2. CASE LeftAlone(a)
      <3>1. ApartIn(calls') /\ \A d \in calls' : \E e \in calls : Kept(d, e)
        BY <2>2, TypedCalls, LeftAloneApart, LeftAloneCalls DEF Guarded
      <3>2. QED
        BY <1>2, <3>1, GuardedStill DEF db
    <2>3. QED
      BY <1>2, <2>1, <2>2
  <1>3. CASE Preflight(a)
    BY <1>1, <1>3 DEF Preflight
  <1>4. CASE PreflightRefused(a)
    BY <1>1, <1>2, <1>4 DEF PreflightRefused, db
  <1>5. CASE Status(a)
    BY <1>1, <1>5 DEF Status
  <1>6. CASE StatusRefused(a) \/ StartPublish(a) \/ StepFails(a) \/ SetupFails(a) \/ ArtifactInvalid(a)
             \/ CancelRun(a) \/ Rerun(a)
    BY <1>2, <1>6 DEF StatusRefused, StartPublish, StepFails, SetupFails, ArtifactInvalid, CancelRun, Rerun, db
  <1>7. QED
    BY <1>3, <1>4, <1>5, <1>6 DEF Run

\* Until something is overtaken a step is in time.
LEMMA StepInTime ==
    ASSUME [ControlNext]_controlVars, ~overtaken'
    PROVE  /\ ~overtaken
           /\ \/ UNCHANGED controlVars
              \/ \E c \in calls : Landings(c) /\ ~Late(c)
              \/ Operations \/ (\E c \in calls : Handlers(c)) \/ (\E a \in Attempts : Run(a))
  <1>1. CASE UNCHANGED controlVars
    BY <1>1 DEF controlVars
  <1>2. ASSUME NEW c \in calls, Landings(c), overtaken' = (overtaken \/ Late(c)) PROVE ~overtaken /\ ~Late(c)
    BY <1>2, Zenon
  <1>3. CASE (Operations \/ (\E c \in calls : Handlers(c)) \/ (\E a \in Attempts : Run(a))) /\ UNCHANGED overtaken
    BY <1>3
  <1>4. QED
    BY <1>1, <1>2, <1>3 DEF ControlNext

LEMMA GuardedStep == Typed /\ (overtaken \/ Guarded) /\ [ControlNext]_controlVars => (overtaken \/ Guarded)'
  <1> SUFFICES ASSUME Typed, overtaken \/ Guarded, [ControlNext]_controlVars, ~overtaken' PROVE Guarded'
    OBVIOUS
  <1>0. Guarded
    BY StepInTime
  <1>1. CASE UNCHANGED controlVars
    BY <1>0, <1>1, KeptItself, GuardedStill DEF controlVars, Guarded
  <1>2. ASSUME NEW c \in calls, Handlers(c) PROVE Guarded'
    BY <1>0, <1>2, GuardedChain, GuardedUnmoved, GuardedDispatch DEF Handlers
  <1>3. QED
    BY <1>0, <1>1, <1>2, StepInTime, GuardedLandings, GuardedOperations, GuardedRun

\* Only the latest attempt is under way (dispatchRequest never starts the same
\* deployment twice), until a callback or a failed dispatch is written although
\* its attempt has ended or gone on without it.
THEOREM OneAttemptUnderWay == ControlSpec => []OneUnderWay
  <1>1. ControlInit => Typed /\ (overtaken \/ Guarded)
    BY TypedInit, GuardedInit
  <1>2. Typed /\ (overtaken \/ Guarded) /\ [ControlNext]_controlVars => (Typed /\ (overtaken \/ Guarded))'
    BY TypedStep, GuardedStep
  <1>3. (overtaken \/ Guarded) => OneUnderWay
    BY DEF Guarded, OnlyLatest, OneUnderWay
  <1>4. QED
    BY <1>1, <1>2, <1>3, PTL DEF ControlSpec

------------------------------------------------------------------------------
(* No run switches the pointers for an attempt that was replaced, as long as *)
(* nothing was overtaken.                                                    *)

Halfway == {"promote", "verify"}
Stopped == {"refused", "failure", "cancelled"}
Given == Reports \cup {"failure", "cancelled"}

\* A run switches the pointers only while its attempt is bound to it.
RowSafe(a) ==
    /\ attempts[a].try <= runs[a].try
    /\ runs[a].step \in Halfway => Queued(a) /\ attempts[a].try = runs[a].try

\* A cancelled run goes on only in a later execution.
ReconcileSafe(c) ==
    c.op = "reconcile" /\ c.at \notin {"begun", "asking"} =>
        runs[c.a].try > c.try \/ (runs[c.a].step = "cancelled" /\ runs[c.a].try = c.try)

\* A run that has stopped waiting for a callback goes nowhere in this execution.
Ways(c) == IF c.op \in Reporting THEN Given ELSE Stopped
GivenUp(c) ==
    c.op \in Callbacks => c.client \/ c.try < runs[c.a].try \/ runs[c.a].step \in Ways(c)

\* A report was accepted for the execution its attempt was bound to, or for none.
ReportSafe(c) ==
    /\ c.op = "status" => attempts[c.a].try >= c.try
    /\ c.op = "binding_status" => c.stage = "preflight"

CallSafe(c) == ReconcileSafe(c) /\ GivenUp(c) /\ ReportSafe(c)

Careful == (\A a \in 1..Last : RowSafe(a)) /\ (\A c \in calls : CallSafe(c))

Same(a) == attempts'[a] = attempts[a] /\ runs'[a] = runs[a]
RunGoes(a) ==
    \/ runs'[a].try > runs[a].try
    \/ /\ runs'[a].try = runs[a].try
       /\ runs[a].step \in Stopped => runs'[a].step \in Stopped
       /\ runs[a].step \in Given => runs'[a].step \in Given
       /\ runs[a].step = "cancelled" => runs'[a].step = "cancelled"

\* What a step makes of a call that is not its own, which its run may give up.
Rest(d) == \E e \in calls : Kept(d, e) /\ (e.client => d.client \/ runs'[e.a].step \in Ways(e))

LEMMA SafeKept ==
    ASSUME Typed, NEW e \in calls, CallSafe(e), NEW d, Kept(d, e),
           e.client => d.client \/ runs'[e.a].step \in Ways(e),
           \A b \in 1..Last : /\ RunGoes(b) /\ attempts'[b].try >= attempts[b].try
                              /\ attempts'[b].try \in Nat /\ runs'[b].try \in Nat
    PROVE  CallSafe(d)'
  <1>0. /\ d.a = e.a /\ d.op = e.op /\ d.try = e.try /\ d.at = e.at /\ d.stage = e.stage /\ d.result = e.result
        /\ (d.client => e.client)
    BY DEF Kept
  <1>1. ASSUME e.op \in Callbacks \/ (e.op = "reconcile" /\ e.at # "begun")
        PROVE  /\ RunGoes(e.a) /\ attempts'[e.a].try >= attempts[e.a].try
               /\ e.try \in Nat /\ runs[e.a].try \in Nat /\ attempts[e.a].try \in Nat
               /\ attempts'[e.a].try \in Nat /\ runs'[e.a].try \in Nat
    <2>1. e.a \in 1..Last /\ e.try \in Nat
      BY <1>1, Known, Positive
    <2>2. QED
      BY <2>1, AttemptAt, Positive DEF RunType
  <1>2. ReconcileSafe(d)'
    BY <1>0, <1>1 DEF CallSafe, ReconcileSafe, RunGoes
  <1>3. GivenUp(d)'
    <2> SUFFICES ASSUME d.op \in Callbacks, ~d.client, ~(d.try < runs'[d.a].try) PROVE runs'[d.a].step \in Ways(d)
      BY DEF GivenUp, Ways
    <2>1. Ways(d) = Ways(e) /\ Ways(e) \in {Stopped, Given}
      BY <1>0 DEF Ways
    <2>2. CASE e.client
      BY <1>0, <2>1, <2>2
    <2>3. CASE ~e.client
      <3>1. RunGoes(e.a) /\ e.try \in Nat /\ runs[e.a].try \in Nat /\ runs'[e.a].try \in Nat /\ e.try <= runs[e.a].try
        BY <1>0, <1>1, Known DEF Shape
      <3>2. runs'[e.a].try = runs[e.a].try /\ ~(e.try < runs[e.a].try)
        BY <1>0, <3>1 DEF RunGoes
      <3>3. runs[e.a].step \in Ways(e)
        BY <1>0, <2>3, <3>2 DEF CallSafe, GivenUp
      <3>4. runs'[e.a].step \in Ways(e)
        BY <2>1, <3>1, <3>2, <3>3 DEF RunGoes
      <3>5. QED
        BY <1>0, <2>1, <3>4
    <2>4. QED
      BY <2>2, <2>3
  <1>4. ReportSafe(d)'
    <2>1. d.op = "status" => attempts'[d.a].try >= d.try
      <3> SUFFICES ASSUME d.op = "status" PROVE attempts'[d.a].try >= d.try
        OBVIOUS
      <3>1. e.op \in Callbacks /\ e.op = "status"
        BY <1>0 DEF Callbacks
      <3>2. e.a \in 1..Last /\ e.try \in Nat
        BY <3>1, Known, Positive
      <3>3. attempts[e.a].try \in Nat /\ attempts'[e.a].try >= attempts[e.a].try /\ attempts[e.a].try >= e.try
        BY <1>1, <3>1 DEF CallSafe, ReportSafe
      <3>4. attempts'[e.a].try \in Nat
        BY <1>1, <3>1
      <3>5. attempts'[e.a].try >= e.try
        BY <3>2, <3>3, <3>4
      <3>6. QED
        BY <1>0, <3>5
    <2>2. QED
      BY <1>0, <2>1 DEF CallSafe, ReportSafe
  <1>5. QED
    BY <1>2, <1>3, <1>4 DEF CallSafe

\* The numbers of executions after a step.
LEMMA TriesNext ==
    ASSUME Typed', NEW b \in 1..Last' PROVE attempts'[b].try \in Nat /\ runs'[b].try \in Nat
  <1>1. Last' \in Nat /\ b \in 1..Len(attempts') /\ b \in Attempts
    BY ControlBoundsAssumption DEF Typed, RowsOK, Last, Attempts
  <1>2. attempts'[b] \in AttemptType /\ runs'[b] \in RunType
    BY <1>1 DEF Typed, RowsOK, RunsOK
  <1>3. QED
    BY <1>2, Positive DEF AttemptType, RunType

LEMMA CarefulAssembled ==
    ASSUME Typed, Typed', Careful, Last' >= Last,
           \A b \in 1..Last' : RowSafe(b)' \/ (b \in 1..Last /\ Same(b)),
           \A b \in 1..Last : RunGoes(b) /\ attempts'[b].try >= attempts[b].try,
           \A d \in calls' : CallSafe(d)' \/ Rest(d)
    PROVE Careful'
  <1>1. ASSUME NEW b \in 1..Last' PROVE RowSafe(b)'
    <2>1. CASE b \in 1..Last /\ Same(b)
      BY <2>1 DEF Careful, RowSafe, Same, Queued
    <2>2. QED
      BY <2>1
  <1>2. \A b \in 1..Last : attempts'[b].try \in Nat /\ runs'[b].try \in Nat
    <2>1. Last \in Nat /\ Last' \in Nat
      BY DEF Typed, RowsOK, Last
    <2>2. QED
      BY <2>1, TriesNext
  <1>3. \A d \in calls' : Rest(d) => CallSafe(d)'
    BY <1>2, SafeKept DEF Rest, Careful
  <1>4. QED
    BY <1>1, <1>3 DEF Careful

LEMMA SameGoes == ASSUME Typed, NEW b \in 1..Last, Same(b) PROVE RunGoes(b) /\ attempts'[b].try >= attempts[b].try
  <1>1. attempts[b].try \in Nat
    BY AttemptAt, Positive
  <1>2. QED
    BY <1>1 DEF Same, RunGoes

LEMMA OthersRest ==
    ASSUME Typed, NEW c \in calls
    PROVE  \A d \in Without(c) \cup Outdated(Without(c)) :
               Rest(d) /\ \E e \in calls : e # c /\ Kept(d, e) /\ (d.client <=> e.client)
  <1>1. ASSUME NEW d \in Without(c) PROVE \E e \in calls : e # c /\ Kept(d, e) /\ (d.client <=> e.client)
    BY KeptItself DEF Without
  <1>2. ASSUME NEW d \in Outdated(Without(c)) PROVE \E e \in calls : e # c /\ Kept(d, e) /\ (d.client <=> e.client)
    <2>1. PICK e \in Without(c) : d = [e EXCEPT !.fresh = FALSE]
      BY DEF Outdated
    <2>2. e \in calls /\ e # c /\ e \in CallType
      BY <2>1, TypedCalls DEF Without
    <2>3. Kept(d, e) /\ (d.client <=> e.client)
      BY <2>1, <2>2, Stale
    <2>4. QED
      BY <2>2, <2>3
  <1>3. QED
    BY <1>1, <1>2 DEF Rest

\* Neither an attempt nor a run is written.
LEMMA CarefulQuiet ==
    ASSUME Typed, Typed', Careful, UNCHANGED <<attempts, runs>>, \A d \in calls' : CallSafe(d)' \/ Rest(d)
    PROVE  Careful'
  <1>1. Last' = Last /\ Last \in Nat /\ \A b : Same(b)
    BY DEF Last, Same, Typed, RowsOK
  <1>2. QED
    BY <1>1, SameGoes, CarefulAssembled

LEMMA CarefulOver ==
    ASSUME Typed, Typed', Careful, NEW c \in calls, calls' = Without(c) \/ calls' = Outdated(Without(c)),
           UNCHANGED <<attempts, runs>>
    PROVE  Careful'
  BY OthersRest, CarefulQuiet

\* A call that is neither a callback nor done with asking is none of a run's business.
LEMMA SafeOther ==
    ASSUME NEW c, c.op \notin Callbacks, c.op = "reconcile" => c.at \in {"begun", "asking"}
    PROVE  CallSafe(c)'
  BY DEF CallSafe, ReconcileSafe, GivenUp, ReportSafe, Callbacks

LEMMA CarefulWith ==
    ASSUME Typed, Typed', Careful, NEW c, CallSafe(c)', UNCHANGED <<attempts, runs>>,
           \/ calls' = calls \cup {c}
           \/ \E d \in calls : calls' = Without(d) \cup {c} \/ calls' = Outdated(Without(d)) \cup {c}
    PROVE  Careful'
  <1>1. \A d \in calls : Rest(d)
    BY KeptItself DEF Rest
  <1>2. \A d \in calls' : d = c \/ Rest(d)
    BY <1>1, OthersRest
  <1>3. QED
    BY <1>2, CarefulQuiet

\* An attempt is written, and the run that waits for it gets its answer.
LEMMA CarefulWritten ==
    ASSUME Typed, Typed', Careful, NEW a \in 1..Last, Last' = Last,
           \A b \in 1..Last : b # a => Same(b),
           RunGoes(a), attempts'[a].try >= attempts[a].try, RowSafe(a)',
           \A d \in calls' : CallSafe(d)' \/ Rest(d)
    PROVE  Careful'
  <1>1. Last \in Nat
    BY DEF Typed, RowsOK, Last
  <1>2. \A b \in 1..Last : RunGoes(b) /\ attempts'[b].try >= attempts[b].try
    BY SameGoes
  <1>3. QED
    BY <1>1, <1>2, CarefulAssembled

LEMMA TablesClosed ==
    ASSUME NEW s \in DOMAIN Onward, NEW table \in {Onward, Fallback}
    PROVE  /\ s \in Stopped => table[s] \in Stopped
           /\ s \in Given => table[s] \in Given
           /\ s # "cancelled"
           /\ Fallback[s] \in Given
           /\ s \in AtOnce => Fallback[s] \in Stopped
           /\ Fallback[s] \notin Halfway
  BY DEF Onward, Fallback, Stopped, Given, Reports, AtOnce, Halfway

\* Where a run is after an answer.
LEMMA ReplyGoes ==
    ASSUME Typed, NEW c \in calls, NEW table \in {Onward, Fallback}, Reply(c, table), c.op \in Callbacks,
           calls' = Without(c) \/ calls' = Outdated(Without(c)), Last' = Last
    PROVE  /\ RunGoes(c.a) /\ runs'[c.a].try = runs[c.a].try
           /\ runs'[c.a].step = IF c.client THEN table[runs[c.a].step] ELSE runs[c.a].step
           /\ \A b \in 1..Last : b # c.a => runs'[b] = runs[b]
  <1>0. c.a \in 1..Last /\ c.a \in Attempts /\ (c.client => runs[c.a].step \in DOMAIN Onward)
    BY Known, Tables DEF Shape, AtOnce, Callbacks, Reporting, Reports
  <1>1. /\ c.client => runs'[c.a] = [step |-> table[runs[c.a].step], try |-> runs[c.a].try]
        /\ \A b \in Attempts : b # c.a \/ ~c.client => runs'[b] = runs[b]
    BY ReplyMoves
  <1>2. CASE c.client
    <2>1. PICK s : s = runs[c.a].step
      OBVIOUS
    <2>2. s \in DOMAIN Onward
      BY <1>0, <1>2, <2>1
    <2>3. table[s] \in Stopped \/ s \notin Stopped
      BY <2>2, TablesClosed
    <2>4. table[s] \in Given \/ s \notin Given
      BY <2>2, TablesClosed
    <2>5. s # "cancelled"
      BY <2>2, TablesClosed
    <2>6. runs'[c.a].step = table[s] /\ runs'[c.a].try = runs[c.a].try
      BY <1>1, <1>2, <2>1
    <2>7. QED
      BY <1>0, <1>1, <1>2, <2>1, <2>3, <2>4, <2>5, <2>6, AttemptAt DEF RunGoes
  <1>3. CASE ~c.client
    BY <1>0, <1>1, <1>3, AttemptAt DEF RunGoes
  <1>4. QED
    BY <1>2, <1>3

LEMMA CarefulInit == ControlInit => Careful
  BY DEF ControlInit, Careful, Last

\* A call goes on with what it remembers.
LEMMA SafeLike ==
    ASSUME Typed, NEW c \in calls, CallSafe(c), NEW e, UNCHANGED <<attempts, runs>>,
           e.op = c.op, e.a = c.a, e.try = c.try, e.stage = c.stage, e.client <=> c.client,
           c.op = "reconcile" => c.at \notin {"begun", "asking"}
    PROVE  CallSafe(e)'
  BY DEF CallSafe, ReconcileSafe, GivenUp, ReportSafe, Ways

LEMMA CarefulChain == ASSUME Typed, Typed', Careful, NEW c \in calls, Chain(c) PROVE Careful'
  <1>1. PICK e : e = [c EXCEPT !.at = "chained", !.fresh = TRUE]
    OBVIOUS
  <1>2. c \in CallType
    BY Known
  <1>3. e.op = c.op /\ e.a = c.a /\ e.try = c.try /\ e.stage = c.stage /\ (e.client <=> c.client)
    BY <1>1, <1>2 DEF CallType
  <1>4. calls' = Without(c) \cup {e} /\ c.at = "checked" /\ UNCHANGED <<attempts, runs>>
    BY <1>1 DEF Chain, db
  <1>5. CallSafe(e)'
    BY <1>3, <1>4, SafeLike DEF Careful
  <1>6. QED
    BY <1>4, <1>5, CarefulWith

LEMMA CarefulOperations == ASSUME Typed, Typed', Careful, Operations PROVE Careful'
  <1>1. ASSUME NEW c, Begin(c), UNCHANGED <<attempts, runs>>, c.op \notin Callbacks, c.op = "reconcile" => c.at = "begun"
        PROVE  Careful'
    BY <1>1, SafeOther, CarefulWith DEF Begin
  <1>2. ASSUME NEW op \in DOMAIN From, StartOperation(op) PROVE Careful'
    <2>1. op \in Operators /\ op # "reconcile" /\ op \notin Callbacks
      BY Tables DEF Operators, Callbacks
    <2>2. PICK c : c = Operator(op)
      OBVIOUS
    <2>3. c.op = op
      BY <2>1, <2>2, OperatorFields
    <2>4. QED
      BY <1>1, <1>2, <2>1, <2>2, <2>3 DEF StartOperation, db
  <1>3. CASE StartDispatch
    <2>1. PICK c : c = Readied
      OBVIOUS
    <2>2. c.op = "dispatch_request"
      BY <1>3, <2>1, ReadiedShape DEF StartDispatch
    <2>3. QED
      BY <1>1, <1>3, <2>1, <2>2 DEF StartDispatch, db, Callbacks
  <1>4. CASE StartReconcile
    <2>1. PICK c : c = [Operator("reconcile") EXCEPT !.at = "begun"]
      OBVIOUS
    <2>2. c.at = "begun" /\ c.op = "reconcile"
      BY <2>1, OperatorFields DEF Operators, CallType
    <2>3. QED
      BY <1>1, <1>4, <2>1, <2>2 DEF StartReconcile, db, Callbacks
  <1>5. QED
    BY <1>2, <1>3, <1>4 DEF Operations

LEMMA CarefulDispatch ==
    ASSUME Typed, Typed', Guarded, Careful, NEW c \in calls,
           ReadAttempt(c) \/ CheckDispatch(c) \/ NumberAttempt(c) \/ Claim(c) \/ InsertAttempt(c)
           \/ Unclaim(c) \/ RunStarts(c) \/ DispatchEnds(c)
    PROVE  Careful'
  <1> USE Known
  <1>p. {"checked", "claimed", "inserted", "accepted"} \subseteq Positions
    BY DEF Positions
  <1>d. c.op = "dispatch_request" \/ ReadAttempt(c)
    BY DEF CheckDispatch, NumberAttempt, Claim, InsertAttempt, Unclaim, RunStarts, DispatchEnds
  \* The handler goes on.
  <1>e. ASSUME NEW e, calls' = Without(c) \cup {e}, e.op = "dispatch_request" \/ e.at = "asking", e.op \notin Callbacks,
               UNCHANGED <<attempts, runs>>
        PROVE  Careful'
    BY <1>e, SafeOther, CarefulWith
  <1>1. CASE ReadAttempt(c)
    <2>1. PICK d : d = Call("reconcile", Last, attempts[Last].try, attempts[Last].stage,
                            Verdict(attempts[Last].stage), FALSE)
      OBVIOUS
    <2>2. PICK e : e = [d EXCEPT !.at = "asking"]
      OBVIOUS
    <2>3. e.at = "asking" /\ e.op = "reconcile"
      BY <2>1, <2>2 DEF Call
    <2>4. calls' = Without(c) \cup {e} /\ UNCHANGED <<attempts, runs>>
      BY <1>1, <2>1, <2>2 DEF ReadAttempt, db
    <2>5. QED
      BY <1>e, <2>3, <2>4 DEF Callbacks
  <1>2. CASE CheckDispatch(c)
    <2>1. PICK e : e = Readied
      OBVIOUS
    <2>2. e.op = "dispatch_request"
      BY <1>2, <2>1, ReadiedShape DEF CheckDispatch
    <2>3. QED
      BY <1>2, <1>e, <2>1, <2>2 DEF CheckDispatch, db, Callbacks
  <1>3. CASE NumberAttempt(c)
    <2>1. PICK e : e = [c EXCEPT !.a = NextAttempt, !.at = "checked"]
      OBVIOUS
    <2>2. e.op = "dispatch_request"
      BY <1>3, <2>1 DEF NumberAttempt, CallType
    <2>3. QED
      BY <1>3, <1>e, <2>1, <2>2 DEF NumberAttempt, db, Callbacks
  <1>4. CASE Claim(c)
    <2>1. PICK e : e = [c EXCEPT !.at = "claimed"]
      OBVIOUS
    <2>2. calls' = Without(c) \cup {e} /\ UNCHANGED <<attempts, runs>> /\ c.op = "dispatch_request"
      BY <1>4, <2>1 DEF Claim
    <2>3. e.op = "dispatch_request"
      BY <1>p, <2>1, <2>2, Placed
    <2>4. QED
      BY <1>e, <2>2, <2>3 DEF Callbacks
  <1>5. CASE InsertAttempt(c)
    <2>1. PICK e : e = [c EXCEPT !.at = "inserted", !.fresh = FALSE]
      OBVIOUS
    <2> DEFINE t == [stage |-> "dispatching", result |-> "queued", try |-> 0]
    <2>2. calls' = Outdated(Without(c)) \cup {e} /\ UNCHANGED runs /\ attempts' = Append(attempts, t)
          /\ c.a = Last + 1 /\ c.at = "claimed" /\ c.op = "dispatch_request"
      BY <1>5, <2>1 DEF InsertAttempt, NextAttempt
    <2>3. t \in AttemptType /\ t.try = 0
      BY Positive DEF AttemptType, Stages, Results
    <2> HIDE DEF t
    <2>4. Last' = Last + 1 /\ attempts'[Last + 1] = t /\ \A b \in 1..Last : Same(b)
      BY <2>2, <2>3, AttemptInserted DEF Same
    <2>5. c.a \in Attempts /\ runs[c.a].step = "none" /\ runs[c.a].try = 0
      <3>1. c.a \in Attempts
        BY <2>2 DEF Shape
      <3>2. QED
        BY <2>2, <3>1 DEF Typed, RunsOK, Started
    <2>6. RowSafe(c.a)'
      <3>1. attempts'[c.a].try = 0 /\ runs'[c.a].try = 0 /\ runs'[c.a].step = "none"
        BY <2>2, <2>3, <2>4, <2>5
      <3>2. QED
        BY <3>1 DEF RowSafe, Halfway
    <2>7. \A b \in 1..Last' : RowSafe(b)' \/ (b \in 1..Last /\ Same(b))
      BY <2>2, <2>4, <2>6
    <2>8. CallSafe(e)'
      <3>1. e.op = "dispatch_request"
        BY <2>1, <2>2 DEF CallType
      <3>2. QED
        BY <3>1, SafeOther DEF Callbacks
    <2>9. \A d \in calls' : CallSafe(d)' \/ Rest(d)
      BY <2>2, <2>8, OthersRest
    <2>10. \A b \in 1..Last : RunGoes(b) /\ attempts'[b].try >= attempts[b].try
      BY <2>4, SameGoes
    <2>11. QED
      BY <2>4, <2>7, <2>9, <2>10, CarefulAssembled
  <1>6. CASE Unclaim(c) \/ DispatchEnds(c)
    BY <1>6, CarefulOver DEF Unclaim, DispatchEnds, db
  <1>7. CASE RunStarts(c)
    <2>1. PICK e : e = [c EXCEPT !.at = "accepted"]
      OBVIOUS
    <2>2. calls' = Without(c) \cup {e} /\ UNCHANGED attempts /\ c.at = "inserted" /\ c.op = "dispatch_request"
          /\ runs' = [runs EXCEPT ![c.a] = [step |-> "authorize", try |-> 1]]
      BY <1>7, <2>1 DEF RunStarts, db
    <2>3. c.a \in 1..Last /\ c.a \in Attempts /\ Inserted(c) /\ Last' = Last
      BY <2>2 DEF Inserted, Last
    <2>4. attempts[c.a].try = 0 /\ runs[c.a].step = "none" /\ runs[c.a].try = 0
      BY <2>2, <2>3 DEF Guarded, FlightSafe, Shape, Typed, RunsOK, Started
    <2>5. runs'[c.a].step = "authorize" /\ runs'[c.a].try = 1 /\ \A b \in Attempts : b # c.a => runs'[b] = runs[b]
      BY <2>2, <2>3 DEF Typed, RunsOK
    <2>6. RowSafe(c.a)'
      BY <2>2, <2>4, <2>5 DEF RowSafe, Halfway
    <2>7. \A b \in 1..Last : b # c.a => Same(b)
      BY <2>2, <2>5, AttemptAt DEF Same
    <2>8. RunGoes(c.a) /\ attempts'[c.a].try >= attempts[c.a].try
      BY <2>2, <2>4, <2>5 DEF RunGoes
    <2>9. CallSafe(e)'
      <3>1. e.op = "dispatch_request"
        BY <1>p, <2>1, <2>2, Placed
      <3>2. QED
        BY <3>1, SafeOther DEF Callbacks
    <2>10. \A d \in calls' : CallSafe(d)' \/ Rest(d)
      BY <2>2, <2>9, OthersRest
    <2>11. QED
      BY <2>3, <2>6, <2>7, <2>8, <2>10, CarefulWritten
  <1>8. QED
    BY <1>1, <1>2, <1>3, <1>4, <1>5, <1>6, <1>7

LEMMA CarefulUnmoved ==
    ASSUME Typed, Typed', Careful, NEW c \in calls,
           Abandon(c) \/ FinishOperation(c) \/ RunIsCancelled(c) \/ FinishReconcile(c) \/ PreflightFails(c)
    PROVE  Careful'
  <1> USE Known
  <1>1. CASE Abandon(c)
    <2>1. calls' = Without(c) /\ Reply(c, Fallback) /\ UNCHANGED attempts /\ Last' = Last
      BY <1>1 DEF Abandon, db, Last
    <2>2. CASE ~c.client
      BY <2>1, <2>2, CarefulOver DEF Reply
    <2>3. CASE c.client
      <3>1. c.op \in Callbacks /\ c.a \in 1..Last /\ runs[c.a].step \in DOMAIN Onward
        BY <2>3, Tables DEF Shape, AtOnce, Callbacks, Reporting, Reports
      <3>2. /\ RunGoes(c.a) /\ runs'[c.a].try = runs[c.a].try
            /\ runs'[c.a].step = Fallback[runs[c.a].step]
            /\ \A b \in 1..Last : b # c.a => Same(b)
        BY <2>1, <2>3, <3>1, ReplyGoes DEF Same
      <3>3. runs'[c.a].step \notin Halfway
        BY <3>1, <3>2, TablesClosed
      <3>4. RowSafe(c.a)'
        BY <2>1, <3>1, <3>2, <3>3 DEF RowSafe, Careful
      <3>5. \A d \in calls' : Rest(d)
        BY <2>1, OthersRest
      <3>6. attempts'[c.a].try >= attempts[c.a].try
        BY <2>1, <3>1, AttemptAt, Positive
      <3>7. QED
        BY <2>1, <3>1, <3>2, <3>4, <3>5, <3>6, CarefulWritten
    <2>4. QED
      BY <2>2, <2>3
  <1>2. CASE FinishOperation(c)
    <2>1. CASE calls' = Outdated(Without(c))
      BY <1>2, <2>1, CarefulOver DEF FinishOperation
    <2>2. CASE calls' = Outdated(Without(c)) \cup {Dispatching}
      <3>1. PICK e : e = Dispatching
        OBVIOUS
      <3>2. e.op = "dispatch_request"
        BY <3>1, DispatchingShape
      <3>3. CallSafe(e)'
        BY <3>2, SafeOther DEF Callbacks
      <3>4. QED
        BY <1>2, <2>2, <3>1, <3>3, CarefulWith DEF FinishOperation
    <2>3. QED
      BY <1>2, <2>1, <2>2 DEF FinishOperation
  <1>3. CASE RunIsCancelled(c)
    <2>1. PICK e : e = [c EXCEPT !.at = "checked"]
      OBVIOUS
    <2>2. c.op = "reconcile" /\ calls' = Without(c) \cup {e} /\ UNCHANGED <<attempts, runs>>
          /\ runs[c.a] = [step |-> "cancelled", try |-> c.try]
      BY <1>3, <2>1 DEF RunIsCancelled, db
    <2>3. "checked" \in Positions
      BY DEF Positions
    <2>4. e.op = c.op /\ e.a = c.a /\ e.try = c.try
      BY <2>1, <2>3, Placed
    <2>5. CallSafe(e)'
      BY <2>2, <2>4 DEF CallSafe, ReconcileSafe, GivenUp, ReportSafe, Callbacks
    <2>6. QED
      BY <2>2, <2>5, CarefulWith
  <1>4. CASE FinishReconcile(c)
    <2>1. c.op = "reconcile" /\ c.at = "chained" /\ calls' = Outdated(Without(c)) /\ UNCHANGED runs
      BY <1>4 DEF FinishReconcile, Lands
    <2>2. CASE UNCHANGED db
      BY <2>1, <2>2, CarefulOver DEF db
    <2>3. CASE Unmoved(c) /\ attempts' = [attempts EXCEPT ![c.a].result = c.result]
      <3>1. c.a \in 1..Last /\ c.a \in Attempts /\ attempts[c.a].try = c.try
        BY <2>1, <2>3 DEF Unmoved
      <3>2. attempts[c.a] \in AttemptType /\ attempts \in Seq(AttemptType)
        BY <3>1, AttemptAt DEF Typed, RowsOK
      <3>3. Last' = Last /\ attempts'[c.a].try = attempts[c.a].try
            /\ \A b \in 1..Last : b # c.a => attempts'[b] = attempts[b]
        BY <2>3, <3>1, <3>2 DEF Last, AttemptType
      <3>4. runs[c.a].step \notin Halfway
        <4>1. runs[c.a].try > c.try \/ runs[c.a].step = "cancelled"
          BY <2>1 DEF Careful, CallSafe, ReconcileSafe
        <4>2. runs[c.a].step \in Halfway => runs[c.a].try = c.try
          BY <3>1 DEF Careful, RowSafe
        <4>3. runs[c.a].try \in Nat
          BY <3>1, Positive DEF Typed, RunsOK, RunType
        <4>4. QED
          BY <4>1, <4>2, <4>3 DEF Halfway
      <3>5. RowSafe(c.a)'
        BY <2>1, <3>1, <3>3, <3>4 DEF RowSafe, Careful
      <3>6. \A b \in 1..Last : b # c.a => Same(b)
        BY <2>1, <3>3 DEF Same
      <3>7. \A d \in calls' : Rest(d)
        BY <2>1, OthersRest
      <3>8. RunGoes(c.a) /\ attempts'[c.a].try >= attempts[c.a].try
        BY <2>1, <3>2, <3>3, Positive DEF RunGoes, AttemptType
      <3>9. QED
        BY <3>1, <3>3, <3>5, <3>6, <3>7, <3>8, CarefulWritten
    <2>4. QED
      BY <1>4, <2>2, <2>3 DEF FinishReconcile
  <1>5. CASE PreflightFails(c)
    <2>1. PICK e : e = Rejection(c)
      OBVIOUS
    <2>2. c.op = "preflight" /\ calls' = Without(c) \cup {e} /\ UNCHANGED <<attempts, runs>>
      BY <1>5, <2>1 DEF PreflightFails, db
    <2>3. e.op = "reject" /\ e.a = c.a /\ e.try = c.try /\ (e.client <=> c.client)
      BY <2>1, Rejected
    <2>4. CallSafe(e)'
      BY <2>2, <2>3 DEF Careful, CallSafe, ReconcileSafe, GivenUp, ReportSafe, Ways, Callbacks, Reporting
    <2>5. QED
      BY <2>2, <2>4, CarefulWith
  <1>6. QED
    BY <1>1, <1>2, <1>3, <1>4, <1>5

\* A run that is told nothing, or waits for a preflight, is not switching the pointers
\* while a callback of its execution is under way.
LEMMA NotHalfway ==
    ASSUME Typed, Careful, NEW c \in calls, c.op \in Callbacks, attempts[c.a].try <= c.try,
           c.client => c.op \in {"preflight", "reject"}
    PROVE  runs[c.a].step \notin Halfway
  <1>1. /\ c.a \in 1..Last /\ c.try <= runs[c.a].try
        /\ c.client => runs[c.a].step \in AtOnce
    BY Known DEF Shape
  <1>2. attempts[c.a].try \in Nat /\ runs[c.a].try \in Nat /\ c.try \in Nat
    BY <1>1, AttemptAt, Positive, Known DEF RunType
  <1>3. runs[c.a].step \in Halfway => c.try = runs[c.a].try
    BY <1>1, <1>2 DEF Careful, RowSafe
  <1>4. c.client \/ c.try < runs[c.a].try \/ runs[c.a].step \in Stopped \cup Given
    BY DEF Careful, CallSafe, GivenUp, Ways
  <1>5. Halfway \cap (Stopped \cup Given \cup AtOnce) = {}
    BY DEF Halfway, Stopped, Given, AtOnce, Reports
  <1>6. QED
    BY <1>1, <1>2, <1>3, <1>4, <1>5

\* The answers that lead to a switch of the pointers.
LEMMA Switched ==
    ASSUME NEW s \in DOMAIN Onward
    PROVE  /\ Onward[s] \in Halfway => s \in {"upload", "promote"}
           /\ s \in AtOnce => Onward[s] \notin Halfway
  BY DEF Onward, Halfway, AtOnce

LEMMA CarefulLandings ==
    ASSUME Typed, Typed', Careful, NEW c \in calls, Landings(c), ~Late(c) PROVE Careful'
  <1> USE Known, InTime
  <1>0. c.a \in 1..Last /\ c.a \in Attempts /\ c.try \in Nat
        /\ attempts[c.a] \in AttemptType /\ attempts[c.a].try \in Nat /\ runs[c.a].try \in Nat
        /\ attempts[c.a].try <= runs[c.a].try /\ attempts \in Seq(AttemptType)
    BY AttemptAt, Positive DEF Careful, RowSafe, RunType, Typed, RowsOK
  <1>k. \A d \in Without(c) \cup Outdated(Without(c)) : Rest(d)
    BY OthersRest
  \* The row of the attempt becomes t, and its run gets the answer if it waits.
  <1>w. ASSUME c.op \in Callbacks, NEW t, attempts' = [attempts EXCEPT ![c.a] = t],
               NEW table \in {Onward, Fallback}, Reply(c, table), calls' = Outdated(Without(c)),
               t.try \in Nat, attempts[c.a].try <= t.try, t.try <= runs[c.a].try,
               LET step == IF c.client THEN table[runs[c.a].step] ELSE runs[c.a].step
               IN  step \in Halfway => t.result = "queued" /\ t.try = runs[c.a].try
        PROVE  Careful'
    <2>1. Last' = Last /\ attempts'[c.a] = t /\ \A b \in 1..Last : b # c.a => attempts'[b] = attempts[b]
      BY <1>0, <1>w, RowWritten
    <2>2. /\ RunGoes(c.a) /\ runs'[c.a].try = runs[c.a].try
          /\ runs'[c.a].step = IF c.client THEN table[runs[c.a].step] ELSE runs[c.a].step
          /\ \A b \in 1..Last : b # c.a => runs'[b] = runs[b]
      BY <1>w, <2>1, ReplyGoes
    <2>3. RowSafe(c.a)'
      BY <1>w, <2>1, <2>2 DEF RowSafe, Queued
    <2>4. attempts'[c.a].try >= attempts[c.a].try
      BY <1>0, <1>w, <2>1
    <2>5. QED
      BY <1>0, <1>k, <1>w, <2>1, <2>2, <2>3, <2>4, CarefulWritten DEF Same
  <1>1. CASE PreflightPasses(c)
    <2>1. c.op = "preflight" /\ c.op \in Callbacks
      BY <1>1 DEF PreflightPasses, Lands, Callbacks
    <2>2. /\ c.try <= runs[c.a].try
          /\ c.client => runs[c.a].step \in AtOnce /\ runs[c.a].step \in DOMAIN Onward
      BY <2>1, Tables DEF Shape, AtOnce
    <2>3. CASE Queued(c.a)
      <3>1. PICK t : t = Bound(c)
        OBVIOUS
      <3>2. attempts' = [attempts EXCEPT ![c.a] = t] /\ t.try = c.try
        BY <1>1, <2>3, <3>1 DEF PreflightPasses, Bound
      <3>3. attempts[c.a].try <= c.try /\ runs[c.a].step \notin Halfway
        BY <2>1, <2>3, NotHalfway
      <3>4. CASE Reply(c, Onward) /\ calls' = Outdated(Without(c))
        <4>1. c.client => Onward[runs[c.a].step] \notin Halfway
          BY <2>2, Switched
        <4>2. QED
          BY <1>0, <1>w, <2>1, <2>2, <3>2, <3>3, <3>4, <4>1
      <3>5. CASE calls' = Outdated(Without(c)) \cup {Rejection(c)} /\ UNCHANGED runs
        <4>1. PICK e : e = Rejection(c)
          OBVIOUS
        <4>2. e.op = "reject" /\ e.a = c.a /\ e.try = c.try /\ (e.client <=> c.client)
          BY <4>1, Rejected
        <4>3. CallSafe(e)'
          BY <2>1, <3>5, <4>2 DEF Careful, CallSafe, ReconcileSafe, GivenUp, ReportSafe, Ways, Callbacks, Reporting
        <4>4. Last' = Last /\ attempts'[c.a] = t /\ \A b \in 1..Last : b # c.a => Same(b)
          BY <1>0, <3>2, <3>5, RowWritten DEF Same
        <4>5. RowSafe(c.a)'
          BY <2>2, <3>2, <3>3, <3>5, <4>4 DEF RowSafe
        <4>6. RunGoes(c.a) /\ attempts'[c.a].try >= attempts[c.a].try
          BY <1>0, <3>2, <3>3, <3>5, <4>4 DEF RunGoes
        <4>7. \A d \in calls' : CallSafe(d)' \/ Rest(d)
          BY <1>k, <3>5, <4>1, <4>3
        <4>8. QED
          BY <1>0, <4>4, <4>5, <4>6, <4>7, CarefulWritten
      <3>6. QED
        BY <1>1, <3>4, <3>5 DEF PreflightPasses
    <2>4. CASE ~Queued(c.a)
      <3>1. attempts' = attempts /\ Reply(c, Onward) /\ calls' = Outdated(Without(c)) /\ Last' = Last
        BY <1>1, <2>4 DEF PreflightPasses, Last
      <3>2. /\ RunGoes(c.a) /\ runs'[c.a].try = runs[c.a].try
            /\ runs'[c.a].step = IF c.client THEN Onward[runs[c.a].step] ELSE runs[c.a].step
            /\ \A b \in 1..Last : b # c.a => runs'[b] = runs[b]
        BY <2>1, <3>1, ReplyGoes
      <3>3. runs'[c.a].step \in Halfway => ~c.client
        BY <2>2, <3>2, Switched
      <3>4. RowSafe(c.a)'
        BY <1>0, <3>1, <3>2, <3>3 DEF RowSafe, Careful, Queued
      <3>5. attempts'[c.a].try >= attempts[c.a].try
        BY <1>0, <3>1
      <3>6. QED
        BY <1>0, <1>k, <3>1, <3>2, <3>4, <3>5, CarefulWritten DEF Same
    <2>5. QED
      BY <2>3, <2>4
  <1>2. CASE PreflightRejected(c)
    <2>1. c.op = "reject" /\ c.op \in Callbacks /\ calls' = Outdated(Without(c)) /\ Queued(c.a) /\ Reply(c, Fallback)
      BY <1>2 DEF PreflightRejected, Lands, Callbacks
    <2>2. /\ c.try <= runs[c.a].try
          /\ c.client => runs[c.a].step \in DOMAIN Onward
      BY <2>1, Tables DEF Shape, AtOnce
    <2>3. PICK t : t = Bound(c)
      OBVIOUS
    <2>4. attempts' = [attempts EXCEPT ![c.a] = t] /\ t.try = c.try
      BY <1>2, <2>1, <2>3 DEF PreflightRejected, Bound
    <2>5. attempts[c.a].try <= c.try /\ runs[c.a].step \notin Halfway
      BY <2>1, NotHalfway
    <2>6. c.client => Fallback[runs[c.a].step] \notin Halfway
      BY <2>2, TablesClosed
    <2>7. QED
      BY <1>0, <1>w, <2>1, <2>2, <2>4, <2>5, <2>6
  <1>3. CASE StatusRecorded(c)
    <2>1. c.op \in Reporting /\ c.op \in Callbacks /\ calls' = Outdated(Without(c)) /\ Queued(c.a)
          /\ attempts' = [attempts EXCEPT ![c.a] = Reported(c)] /\ Reply(c, Onward)
      BY <1>3 DEF StatusRecorded, Lands, Callbacks, Reporting
    <2>2. /\ c.try <= runs[c.a].try /\ attempts[c.a].try <= c.try
          /\ c.client => /\ c.try = runs[c.a].try /\ runs[c.a].step \in DOMAIN Message
                         /\ Message[runs[c.a].step] = <<c.stage, c.result>>
      BY <2>1 DEF Shape
    <2>3. PICK t : t = Reported(c)
      OBVIOUS
    <2>4. attempts' = [attempts EXCEPT ![c.a] = t] /\ t.result = c.result
          /\ t.try = IF c.op = "binding_status" THEN c.try ELSE attempts[c.a].try
      BY <2>1, <2>3 DEF Reported, Queued
    <2>5. ~c.client => runs[c.a].step \notin Halfway
      BY <2>1, <2>2, NotHalfway
    <2>6. ASSUME c.client, Onward[runs[c.a].step] \in Halfway
          PROVE  t.result = "queued" /\ t.try = runs[c.a].try
      <3>1. PICK s : s = runs[c.a].step
        OBVIOUS
      <3>2. s \in {"upload", "promote"}
        BY <2>2, <2>6, <3>1, Switched, Tables
      <3>3. Message[s] = <<"publishing_pointers", "queued">> \/ Message[s] = <<"verifying", "queued">>
        BY <3>2 DEF Message
      <3>4. c.result = "queued" /\ c.stage # "preflight"
        BY <2>2, <2>6, <3>1, <3>3
      <3>5. c.op = "status"
        BY <2>1, <3>4 DEF Careful, CallSafe, ReportSafe, Reporting
      <3>6. attempts[c.a].try >= c.try
        BY <3>5 DEF Careful, CallSafe, ReportSafe
      <3>7. QED
        BY <1>0, <2>2, <2>4, <2>6, <3>4, <3>5, <3>6
    <2>7. t.try \in Nat /\ attempts[c.a].try <= t.try /\ t.try <= runs[c.a].try
      BY <1>0, <2>2, <2>4
    <2>8. QED
      BY <1>w, <2>1, <2>4, <2>5, <2>6, <2>7
  <1>4. CASE DispatchFails(c)
    <2>1. calls' = Without(c) /\ UNCHANGED runs /\ c.op = "dispatch_request"
          /\ attempts' = [attempts EXCEPT ![c.a].stage = "dispatch", ![c.a].result = "failed"]
      BY <1>4 DEF DispatchFails
    <2>2. Last' = Last /\ attempts'[c.a].try = attempts[c.a].try /\ \A b \in 1..Last : b # c.a => attempts'[b] = attempts[b]
      BY <1>0, <2>1 DEF Last, AttemptType
    <2>3. runs[c.a].step \notin Halfway
      <3>1. attempts[c.a].try <= 0
        BY <2>1 DEF Shape
      <3>2. runs[c.a].step \in Halfway => runs[c.a].try = 0
        BY <1>0, <3>1 DEF Careful, RowSafe
      <3>3. runs[c.a].try = 0 => runs[c.a].step = "none"
        BY <1>0 DEF Typed, RunsOK, Started
      <3>4. QED
        BY <3>2, <3>3 DEF Halfway
    <2>4. RowSafe(c.a)'
      BY <1>0, <2>1, <2>2, <2>3 DEF RowSafe
    <2>5. RunGoes(c.a) /\ attempts'[c.a].try >= attempts[c.a].try
      BY <1>0, <2>1, <2>2 DEF RunGoes
    <2>6. QED
      BY <1>0, <1>k, <2>1, <2>2, <2>4, <2>5, CarefulWritten DEF Same
  <1>5. QED
    BY <1>1, <1>2, <1>3, <1>4 DEF Landings

\* A run takes a step of its own: it stops for ever, or goes on.
LEMMA CarefulMoves ==
    ASSUME Typed, Typed', Careful, NEW a \in Attempts, runs[a].step # "none", NEW step, Steps(a, step), UNCHANGED attempts,
           step \notin Halfway, runs[a].step # "cancelled",
           runs[a].step \in Stopped => step \in Stopped,
           runs[a].step \in Given => step \in Given,
           \/ UNCHANGED calls
           \/ /\ LeftAlone(a)
              /\ runs[a].step \in AtOnce => step \in Stopped
              /\ runs[a].step \in DOMAIN Message => step \in Given
    PROVE  Careful'
  <1>0. a \in 1..Last /\ attempts[a].try \in Nat
    BY AttemptAt, Positive DEF Typed, RunsOK, RowsOK, Last, Attempts
  <1>1. /\ runs'[a].step = step /\ runs'[a].try = runs[a].try
        /\ \A b \in Attempts : b # a => runs'[b] = runs[b]
    BY DEF Steps, Typed, RunsOK, RunType
  <1>2. RunGoes(a) /\ attempts'[a].try >= attempts[a].try
    BY <1>0, <1>1 DEF RunGoes
  <1>3. Last' = Last /\ \A b \in 1..Last : b # a => Same(b)
    BY <1>1, AttemptAt DEF Same, Last
  <1>4. RowSafe(a)'
    BY <1>0, <1>1 DEF RowSafe, Careful
  <1>5. ASSUME NEW d \in calls' PROVE Rest(d)
    <2>1. CASE UNCHANGED calls
      BY <2>1, KeptItself DEF Rest
    <2>2. CASE /\ LeftAlone(a)
               /\ runs[a].step \in AtOnce => step \in Stopped
               /\ runs[a].step \in DOMAIN Message => step \in Given
      <3>1. PICK e \in calls : d = IF e.client /\ e.a = a THEN [e EXCEPT !.client = FALSE] ELSE e
        BY <2>2 DEF LeftAlone
      <3>2. CASE e.client /\ e.a = a
        <4>1. Kept(d, e)
          BY <3>1, <3>2, Known, Unanswered
        <4>2. e.op \in Callbacks /\ (e.op \in {"preflight", "reject"} => runs[a].step \in AtOnce)
              /\ (e.op \in Reporting => runs[a].step \in DOMAIN Message)
          BY <3>2, Known DEF Shape
        <4>3. runs'[e.a].step \in Ways(e)
          BY <1>1, <2>2, <3>2, <4>2 DEF Ways, Callbacks, Reporting
        <4>4. QED
          BY <4>1, <4>3 DEF Rest
      <3>3. CASE ~(e.client /\ e.a = a)
        BY <3>1, <3>3, KeptItself DEF Rest
      <3>4. QED
        BY <3>2, <3>3
    <2>3. QED
      BY <2>1, <2>2
  <1>6. QED
    BY <1>0, <1>2, <1>3, <1>4, <1>5, CarefulWritten

\* A run that takes a step is there.
LEMMA RunKnown ==
    ASSUME Typed, NEW a \in Attempts, Run(a)
    PROVE  a \in 1..Last /\ runs[a].step \in Underway \cup Completed /\ runs[a].step # "none" /\ runs[a].try \in Nat
  <1>1. runs[a].step \in Underway \cup Completed
    <2>1. DOMAIN Fallback \subseteq Underway /\ AtOnce \subseteq Underway /\ "queued" \in Underway
      BY Tables DEF Underway, Publishing, Reports, AtOnce
    <2>2. QED
      BY <2>1 DEF Run, Preflight, PreflightRefused, Preflights, Status, StatusRefused, Free, StartPublish,
                  StepFails, SetupFails, ArtifactInvalid, CancelRun, Rerun
  <1>2. runs[a].step # "none"
    BY <1>1 DEF Underway, Completed, Publishing, Reports
  <1>3. a \in 1..Last
    BY <1>2, RowsStay DEF Typed, RunsOK, RowsOK, Attempts, Last
  <1>4. QED
    BY <1>1, <1>2, <1>3, AttemptAt, Positive DEF RunType

LEMMA CarefulRun ==
    ASSUME Typed, Typed', Careful, NEW a \in Attempts, Run(a) PROVE Careful'
  <1>0. a \in 1..Last /\ runs[a].step # "none" /\ runs[a].try \in Nat
    BY RunKnown
  \* The run asks, and waits.
  <1>1. ASSUME NEW op \in Callbacks, NEW stage, NEW result, UNCHANGED <<attempts, runs>>,
               Begin(Call(op, a, runs[a].try, stage, result, TRUE)),
               op = "status" => attempts[a].try = runs[a].try,
               op = "binding_status" => stage = "preflight"
        PROVE  Careful'
    <2>1. PICK c : c = Call(op, a, runs[a].try, stage, result, TRUE)
      OBVIOUS
    <2>2. c.op = op /\ c.a = a /\ c.try = runs[a].try /\ c.stage = stage
      BY <2>1 DEF Call
    <2>3. c.client
      BY <2>1 DEF Call
    <2>4. CallSafe(c)'
      <3>1. ReconcileSafe(c)'
        BY <2>2 DEF ReconcileSafe, Callbacks
      <3>2. GivenUp(c)'
        BY <2>3 DEF GivenUp
      <3>3. ReportSafe(c)'
        BY <1>0, <1>1, <2>2 DEF ReportSafe
      <3>4. QED
        BY <3>1, <3>2, <3>3 DEF CallSafe
    <2>5. QED
      BY <1>1, <2>1, <2>4, CarefulWith DEF Begin
  <1>t. \A s \in DOMAIN Fallback : /\ Fallback[s] \notin Halfway /\ s # "cancelled" /\ Fallback[s] \in Given
                                   /\ s \in Stopped \cup AtOnce => Fallback[s] \in Stopped
    BY DEF Fallback, Halfway, Stopped, AtOnce, Given, Reports
  <1>u. AtOnce \subseteq DOMAIN Fallback /\ DOMAIN Message \subseteq DOMAIN Fallback
    BY Tables DEF AtOnce
  <1>3. CASE Preflight(a)
    BY <1>1, <1>3 DEF Preflight, Callbacks, db
  <1>4. CASE PreflightRefused(a)
    <2>1. CASE Queued(a)
      BY <1>1, <1>4, <2>1 DEF PreflightRefused, Callbacks, db
    <2>2. CASE ~Queued(a)
      <3>1. Steps(a, Fallback[runs[a].step]) /\ UNCHANGED <<calls, attempts>> /\ runs[a].step \in DOMAIN Fallback
        BY <1>4, <1>u, <2>2 DEF PreflightRefused, Preflights, AtOnce, db
      <3>2. QED
        BY <1>0, <1>t, <3>1, CarefulMoves
    <2>3. QED
      BY <2>1, <2>2
  <1>5. CASE Status(a)
    <2>1. PICK m : m = Message[runs[a].step]
      OBVIOUS
    <2>2. PICK op : op = IF Binds(a, m[1]) THEN "binding_status" ELSE "status"
      OBVIOUS
    <2>3. Begin(Call(op, a, runs[a].try, m[1], m[2], TRUE)) /\ UNCHANGED <<attempts, runs>>
          /\ (Binds(a, m[1]) \/ attempts[a].try = runs[a].try)
      BY <1>5, <2>1, <2>2 DEF Status, Accepted, db
    <2>4. /\ op \in Callbacks
          /\ op = "status" => attempts[a].try = runs[a].try
          /\ op = "binding_status" => m[1] = "preflight"
      BY <2>2, <2>3 DEF Callbacks, Binds
    <2>5. QED
      BY <1>1, <2>3, <2>4
  <1>6. CASE StatusRefused(a)
    <2>1. runs[a].step \in DOMAIN Fallback /\ Steps(a, Fallback[runs[a].step]) /\ UNCHANGED <<attempts, calls>>
      BY <1>6, <1>u DEF StatusRefused, db
    <2>2. QED
      BY <1>0, <1>t, <2>1, CarefulMoves
  <1>7. CASE StartPublish(a)
    <2>1. runs[a].step = "queued" /\ Steps(a, "intake") /\ UNCHANGED <<attempts, calls>>
      BY <1>7 DEF StartPublish, db
    <2>2. "intake" \notin Halfway /\ "queued" \notin Stopped \cup Given /\ "queued" # "cancelled"
      BY DEF Halfway, Stopped, Given, Reports
    <2>3. QED
      BY <1>0, <2>1, <2>2, CarefulMoves
  <1>8. CASE StepFails(a)
    <2>1. runs[a].step \in DOMAIN Fallback /\ Steps(a, Fallback[runs[a].step]) /\ LeftAlone(a) /\ UNCHANGED attempts
      BY <1>8 DEF StepFails, db
    <2>2. QED
      BY <1>0, <1>t, <2>1, CarefulMoves
  <1>9. CASE SetupFails(a) \/ ArtifactInvalid(a)
    <2>1. PICK step \in {"broken", "refused", "invalid"} :
             runs[a].step \in {"intake", "build"} /\ Steps(a, step) /\ UNCHANGED <<attempts, calls>>
      BY <1>9 DEF SetupFails, ArtifactInvalid, db
    <2>2. step \notin Halfway /\ runs[a].step \notin Stopped \cup Given /\ runs[a].step # "cancelled"
      BY <2>1 DEF Halfway, Stopped, Given, Reports
    <2>3. QED
      BY <1>0, <2>1, <2>2, CarefulMoves
  <1>10. CASE CancelRun(a)
    <2>1. Steps(a, "cancelled") /\ LeftAlone(a) /\ UNCHANGED attempts /\ runs[a].step \in Underway
      BY <1>10 DEF CancelRun, db
    <2>2. "cancelled" \notin Halfway /\ "cancelled" \in Stopped /\ "cancelled" \in Given /\ runs[a].step # "cancelled"
      BY <2>1 DEF Halfway, Stopped, Given, Underway, Publishing, Reports
    <2>3. QED
      BY <1>0, <2>1, <2>2, CarefulMoves
  <1>11. CASE Rerun(a)
    <2>1. UNCHANGED <<attempts, calls>>
          /\ runs' = [runs EXCEPT ![a] = [step |-> "authorize", try |-> runs[a].try + 1]]
      BY <1>11 DEF Rerun, db, Typed, RunsOK
    <2>2. /\ runs'[a].step = "authorize" /\ runs'[a].try = runs[a].try + 1
          /\ \A b \in Attempts : b # a => runs'[b] = runs[b]
      BY <2>1 DEF Typed, RunsOK
    <2>3. Last' = Last /\ \A b \in 1..Last : b # a => Same(b)
      BY <2>1, <2>2, AttemptAt DEF Same, Last
    <2>4. attempts[a].try \in Nat /\ attempts[a].try <= runs[a].try
      BY <1>0, AttemptAt, Positive DEF Careful, RowSafe
    <2>5. RowSafe(a)'
      BY <1>0, <2>1, <2>2, <2>4 DEF RowSafe, Halfway
    <2>6. RunGoes(a) /\ attempts'[a].try >= attempts[a].try
      BY <1>0, <2>1, <2>2, <2>4 DEF RunGoes
    <2>7. \A d \in calls' : Rest(d)
      BY <2>1, KeptItself DEF Rest
    <2>8. QED
      BY <1>0, <2>3, <2>5, <2>6, <2>7, CarefulWritten
  <1>12. QED
    BY <1>3, <1>4, <1>5, <1>6, <1>7, <1>8, <1>9, <1>10, <1>11 DEF Run

LEMMA CarefulStep ==
    Typed /\ (overtaken \/ Guarded) /\ (overtaken \/ Careful) /\ [ControlNext]_controlVars => (overtaken \/ Careful)'
  <1> SUFFICES ASSUME Typed, overtaken \/ Guarded, overtaken \/ Careful, [ControlNext]_controlVars, ~overtaken'
               PROVE  Careful'
    OBVIOUS
  <1>0. Guarded /\ Careful /\ Typed'
    BY StepInTime, TypedStep
  <1>1. CASE UNCHANGED controlVars
    BY <1>0, <1>1, KeptItself, CarefulQuiet DEF controlVars, Rest
  <1>2. ASSUME NEW c \in calls, Handlers(c) PROVE Careful'
    BY <1>0, <1>2, CarefulChain, CarefulUnmoved, CarefulDispatch DEF Handlers
  <1>3. QED
    BY <1>0, <1>1, <1>2, StepInTime, CarefulLandings, CarefulOperations, CarefulRun

\* No run switches the pointers for an attempt that was replaced, until a callback
\* or a failed dispatch is written although its attempt has ended or gone on
\* without it.
THEOREM SwitchesForTheLatest == ControlSpec => []NoStalePromotion
  <1>1. ControlInit => Typed /\ (overtaken \/ Guarded) /\ (overtaken \/ Careful)
    BY TypedInit, GuardedInit, CarefulInit
  <1>2. Typed /\ (overtaken \/ Guarded) /\ (overtaken \/ Careful) /\ [ControlNext]_controlVars
        => (Typed /\ (overtaken \/ Guarded) /\ (overtaken \/ Careful))'
    BY TypedStep, GuardedStep, CarefulStep
  <1>3. (overtaken \/ Guarded) /\ (overtaken \/ Careful) => NoStalePromotion
    BY DEF Guarded, OnlyLatest, Careful, RowSafe, Halfway, NoStalePromotion
  <1>4. QED
    BY <1>1, <1>2, <1>3, PTL DEF ControlSpec

------------------------------------------------------------------------------
(* While the pointers may be half switched the request is not tried again,   *)
(* as long as nothing was overtaken.                                         *)

After == Halfway \cup {"half_switched"} \cup Completed
Unsettled == Switching \cup {"recovery_required", "failed_terminal"}

StateCalm == unsettled => state \in Unsettled

\* The attempt under way is past the beginning of the switch, as is its run
\* unless a later execution began.
RowCalm(a) ==
    unsettled /\ Queued(a) =>
        /\ attempts[a].stage \in Switching
        /\ attempts[a].try > 0
        /\ attempts[a].try = runs[a].try => runs[a].step \in After

\* What can still be written about it tells of the switch or will be late.
Telling == {"preflight"} \cup Reporting
CallCalm(c) ==
    c.op \in Telling /\ unsettled /\ Queued(c.a) =>
        \/ c.try < attempts[c.a].try
        \/ c.op = "status" /\ \E s \in {"promote", "verify", "half_switched"} : Message[s] = <<c.stage, c.result>>

Calm ==
    /\ StateCalm
    /\ \A a \in 1..Last : RowCalm(a)
    /\ \A c \in calls : CallCalm(c)

RunStays(a) ==
    \/ runs'[a].try = runs[a].try /\ (runs[a].step \in After => runs'[a].step \in After)
    \/ runs'[a].try > runs[a].try
Wanes(a) == (Queued(a)' => Queued(a)) /\ attempts'[a].try >= attempts[a].try

LEMMA AfterClosed ==
    /\ \A s \in DOMAIN Onward \cap After : Onward[s] \in After /\ Fallback[s] \in After
    /\ {"authorize", "intake", "queued", "build", "upload"} \cap After = {}
  BY DEF Onward, Fallback, After, Halfway, Completed

\* What settles the switch makes everything calm.
LEMMA CalmSettled == ~unsettled' => Calm'
  BY DEF Calm, StateCalm, RowCalm, CallCalm

LEMMA CalmAssembled ==
    ASSUME Typed, Typed', Careful, Calm, unsettled, StateCalm', Last' = Last,
           \A b \in 1..Last : Wanes(b) /\ (RowCalm(b)' \/ (attempts'[b] = attempts[b] /\ RunStays(b))),
           \A d \in calls' : CallCalm(d)' \/ \E e \in calls : Kept(d, e)
    PROVE  Calm'
  <1>0. \A b \in 1..Last : attempts[b].try \in Nat /\ runs[b].try \in Nat /\ attempts'[b].try \in Nat /\ runs'[b].try \in Nat
    BY AttemptAt, Positive, TriesNext DEF RunType
  <1>1. ASSUME NEW b \in 1..Last' PROVE RowCalm(b)'
    <2>1. CASE attempts'[b] = attempts[b] /\ RunStays(b)
      <3>1. attempts[b].try <= runs[b].try
        BY DEF Careful, RowSafe
      <3>2. RowCalm(b)
        BY DEF Calm
      <3>3. CASE runs'[b].try > runs[b].try
        BY <1>0, <2>1, <3>1, <3>2, <3>3 DEF RowCalm, Queued
      <3>4. CASE runs'[b].try = runs[b].try /\ (runs[b].step \in After => runs'[b].step \in After)
        BY <2>1, <3>2, <3>4 DEF RowCalm, Queued
      <3>5. QED
        BY <2>1, <3>3, <3>4 DEF RunStays
    <2>2. QED
      BY <2>1
  <1>2. ASSUME NEW d \in calls', NEW e \in calls, Kept(d, e) PROVE CallCalm(d)'
    <2> SUFFICES ASSUME d.op \in Telling, unsettled', Queued(d.a)'
                 PROVE  \/ d.try < attempts'[d.a].try
                        \/ d.op = "status" /\ \E s \in {"promote", "verify", "half_switched"} : Message[s] = <<d.stage, d.result>>
      BY DEF CallCalm
    <2>1. d.a = e.a /\ d.op = e.op /\ d.try = e.try /\ d.stage = e.stage /\ d.result = e.result
      BY <1>2 DEF Kept
    <2>2. e.a \in 1..Last /\ e.try \in Nat
      BY <1>2, <2>1, Known, Positive DEF Telling, Reporting, Callbacks
    <2>3. Queued(e.a) /\ attempts'[e.a].try >= attempts[e.a].try
      BY <2>1, <2>2 DEF Wanes
    <2>4. CallCalm(e)
      BY <1>2 DEF Calm
    <2>5. CASE e.try < attempts[e.a].try
      <3>1. e.try < attempts'[e.a].try
        BY <1>0, <2>2, <2>3, <2>5
      <3>2. QED
        BY <2>1, <3>1
    <2>6. CASE ~(e.try < attempts[e.a].try)
      BY <2>1, <2>3, <2>4, <2>6 DEF CallCalm
    <2>7. QED
      BY <2>5, <2>6
  <1>3. QED
    BY <1>1, <1>2 DEF Calm

LEMMA CalmInit == ControlInit => Calm
  BY DEF ControlInit, Calm, StateCalm, Last

\* While the switch is unsettled no dispatch is before its run's start.
LEMMA NotBusy ==
    ASSUME Typed, Guarded, Calm, unsettled
    PROVE  /\ state \in Unsettled /\ state \notin {"dispatched", "running"} /\ state \notin Dispatchable
           /\ \A c \in calls : ~Claimed(c) /\ ~Inserted(c)
  <1>1. state \in Unsettled
    BY DEF Calm, StateCalm
  <1>2. state \notin {"dispatched", "running"} /\ state \notin Dispatchable
    BY <1>1 DEF Unsettled, Switching, Dispatchable
  <1>3. ASSUME NEW c \in calls, Inserted(c) PROVE FALSE
    <2>1. c.a \in 1..Last
      BY <1>3, Known DEF Inserted, Shape
    <2>2. Queued(c.a) /\ attempts[c.a].try = 0
      BY <1>3 DEF Guarded, FlightSafe
    <2>3. QED
      BY <2>1, <2>2 DEF Calm, RowCalm
  <1>4. QED
    BY <1>1, <1>2, <1>3 DEF Guarded, ClaimSafe

\* A row that stays.
LEMMA StillWanes ==
    ASSUME Typed, NEW b \in 1..Last, attempts'[b] = attempts[b] PROVE Wanes(b)
  <1>1. attempts[b].try \in Nat
    BY AttemptAt, Positive
  <1>2. QED
    BY <1>1 DEF Wanes, Queued

\* The rows stay, and no run moves.
LEMMA CalmQuiet ==
    ASSUME Typed, Typed', Careful, Calm, unsettled, UNCHANGED <<state, attempts, runs>>,
           \A d \in calls' : CallCalm(d)' \/ \E e \in calls : Kept(d, e)
    PROVE  Calm'
  <1>1. Last' = Last /\ StateCalm' /\ \A b : RunStays(b)
    BY DEF Last, RunStays, Calm, StateCalm
  <1>2. QED
    BY <1>1, StillWanes, CalmAssembled

\* Another call begins, or goes on.
LEMMA CalmWith ==
    ASSUME Typed, Typed', Careful, Calm, unsettled, UNCHANGED <<state, attempts, runs>>,
           NEW e, e.op \notin Telling,
           \A d \in calls' : d = e \/ \E f \in calls : Kept(d, f)
    PROVE  Calm'
  <1>1. CallCalm(e)'
    BY DEF CallCalm
  <1>2. QED
    BY <1>1, CalmQuiet

LEMMA CalmChain == ASSUME Typed, Typed', Careful, Calm, unsettled, NEW c \in calls, Chain(c) PROVE Calm'
  <1>1. PICK e : e = [c EXCEPT !.at = "chained", !.fresh = TRUE]
    OBVIOUS
  <1>2. c \in CallType
    BY Known
  <1>3. e.op = c.op /\ e.a = c.a /\ e.try = c.try /\ e.stage = c.stage /\ e.result = c.result
    BY <1>1, <1>2 DEF CallType
  <1>4. calls' = Without(c) \cup {e} /\ UNCHANGED <<state, attempts, runs, unsettled>>
    BY <1>1 DEF Chain, db
  <1>5. CallCalm(e)'
    BY <1>3, <1>4 DEF Calm, CallCalm, Queued
  <1>6. QED
    BY <1>4, <1>5, KeptItself, CalmQuiet DEF Without

LEMMA CalmOperations == ASSUME Typed, Typed', Careful, Calm, unsettled, Operations PROVE Calm'
  <1>1. ASSUME NEW c, c.op \in Operators, Begin(c), UNCHANGED <<db, runs, unsettled>> PROVE Calm'
    <2>1. c.op \notin Telling
      BY <1>1 DEF Operators, Reporting, Telling
    <2>2. QED
      BY <1>1, <2>1, KeptItself, CalmWith DEF Begin, db
  <1>2. ASSUME NEW op \in DOMAIN From, StartOperation(op) PROVE Calm'
    <2>1. PICK c : c = Operator(op)
      OBVIOUS
    <2>2. op \in Operators
      BY Tables DEF Operators
    <2>3. c.op = op
      BY <2>1, <2>2, OperatorFields
    <2>4. QED
      BY <1>1, <1>2, <2>1, <2>2, <2>3 DEF StartOperation
  <1>3. CASE StartDispatch
    <2>1. PICK c : c = Readied
      OBVIOUS
    <2>2. c.op = "dispatch_request"
      BY <1>3, <2>1, ReadiedShape DEF StartDispatch
    <2>3. QED
      BY <1>1, <1>3, <2>1, <2>2 DEF StartDispatch, Operators
  <1>4. CASE StartReconcile
    <2>1. PICK c : c = [Operator("reconcile") EXCEPT !.at = "begun"]
      OBVIOUS
    <2>2. c.op = "reconcile"
      BY <2>1, OperatorFields DEF Operators, CallType
    <2>3. QED
      <3>1. Begin(c) /\ UNCHANGED <<db, runs, unsettled>>
        BY <1>4, <2>1 DEF StartReconcile
      <3>2. c.op \in Operators
        BY <2>2 DEF Operators
      <3>3. QED
        BY <1>1, <3>1, <3>2
  <1>5. QED
    BY <1>2, <1>3, <1>4 DEF Operations

\* Of a dispatch only reading, and the end after the run's start, are left.
LEMMA CalmDispatch ==
    ASSUME Typed, Typed', Guarded, Careful, Calm, unsettled, NEW c \in calls,
           ReadAttempt(c) \/ CheckDispatch(c) \/ NumberAttempt(c) \/ Claim(c) \/ InsertAttempt(c)
           \/ Unclaim(c) \/ RunStarts(c) \/ DispatchEnds(c)
    PROVE  Calm'
  <1>1. state \notin Dispatchable /\ ~Claimed(c) /\ ~Inserted(c)
    BY NotBusy
  <1>2. \A d \in Without(c) : \E e \in calls : Kept(d, e)
    BY KeptItself DEF Without
  <1>3. CASE ReadAttempt(c)
    <2>1. PICK d : d = Call("reconcile", Last, attempts[Last].try, attempts[Last].stage,
                            Verdict(attempts[Last].stage), FALSE)
      OBVIOUS
    <2>2. PICK e : e = [d EXCEPT !.at = "asking"]
      OBVIOUS
    <2>3. e.op = "reconcile"
      BY <2>1, <2>2 DEF Call
    <2>4. calls' = Without(c) \cup {e} /\ UNCHANGED <<state, attempts, runs>>
      BY <1>3, <2>1, <2>2 DEF ReadAttempt, db
    <2>5. QED
      BY <1>2, <2>3, <2>4, CalmWith DEF Telling, Reporting
  <1>4. CASE NumberAttempt(c)
    <2>1. PICK e : e = [c EXCEPT !.a = NextAttempt, !.at = "checked"]
      OBVIOUS
    <2>2. e.op = "dispatch_request"
      BY <1>4, <2>1, Known DEF NumberAttempt, CallType
    <2>3. calls' = Without(c) \cup {e} /\ UNCHANGED <<state, attempts, runs>>
      BY <1>4, <2>1 DEF NumberAttempt, db
    <2>4. QED
      BY <1>2, <2>2, <2>3, CalmWith DEF Telling, Reporting
  <1>5. CASE DispatchEnds(c)
    BY <1>2, <1>5, CalmQuiet DEF DispatchEnds, db
  <1>6. ~(CheckDispatch(c) \/ Claim(c) \/ InsertAttempt(c) \/ Unclaim(c) \/ RunStarts(c))
    BY <1>1 DEF CheckDispatch, Claim, InsertAttempt, Unclaim, RunStarts, Claimed, Inserted
  <1>7. QED
    BY <1>3, <1>4, <1>5, <1>6

\* Where a run is after an answer.
LEMMA ReplyStays ==
    ASSUME Typed, NEW c \in calls, NEW table \in {Onward, Fallback}, Reply(c, table), c.op \in Callbacks,
           calls' = Without(c) \/ calls' = Outdated(Without(c)), Last' = Last
    PROVE  \A b \in 1..Last : RunStays(b)
  <1>1. /\ c.client => runs'[c.a] = [step |-> table[runs[c.a].step], try |-> runs[c.a].try]
        /\ \A b \in Attempts : b # c.a \/ ~c.client => runs'[b] = runs[b]
    BY ReplyMoves
  <1>2. c.client => runs[c.a].step \in DOMAIN Onward
    BY Known, Tables DEF Shape, AtOnce, Callbacks, Reporting, Reports
  <1>3. ASSUME NEW b \in 1..Last PROVE RunStays(b)
    <2>0. b \in Attempts
      BY AttemptAt
    <2>1. CASE c.client /\ b = c.a
      BY <1>1, <1>2, <2>1, AfterClosed DEF RunStays
    <2>2. CASE ~(c.client /\ b = c.a)
      BY <1>1, <2>0, <2>2 DEF RunStays
    <2>3. QED
      BY <2>1, <2>2
  <1>4. QED
    BY <1>3

LEMMA CalmUnmoved ==
    ASSUME Typed, Typed', Guarded, Careful, Calm, unsettled, NEW c \in calls,
           Abandon(c) \/ FinishOperation(c) \/ RunIsCancelled(c) \/ FinishReconcile(c) \/ PreflightFails(c)
    PROVE  Calm'
  <1> USE Known
  <1>k. \A d \in calls' : d \in Without(c) \/ d \in Outdated(Without(c)) => \E e \in calls : Kept(d, e)
    BY WithoutApart, KeptItself DEF Guarded
  <1>1. CASE Abandon(c)
    <2>1. calls' = Without(c) /\ Reply(c, Fallback) /\ UNCHANGED <<state, attempts, unsettled>> /\ Last' = Last
      BY <1>1 DEF Abandon, db, Last
    <2>2. CASE ~c.client
      BY <1>k, <2>1, <2>2, CalmQuiet DEF Reply
    <2>3. CASE c.client
      <3>1. \A b \in 1..Last : RunStays(b)
        BY <2>1, <2>3, ReplyStays DEF Shape
      <3>2. StateCalm'
        BY <2>1 DEF Calm, StateCalm
      <3>3. QED
        BY <1>k, <2>1, <3>1, <3>2, StillWanes, CalmAssembled
    <2>4. QED
      BY <2>2, <2>3
  <1>2. CASE FinishOperation(c)
    <2>1. /\ c.op \in DOMAIN From /\ UNCHANGED <<attempts, runs>>
          /\ state' = state \/ state \in From[c.op]
          /\ unsettled' <=> ~(c.op = "authorize_recovery" /\ state \in From[c.op])
          /\ \A d \in calls' : d \in Outdated(Without(c)) \/ d = Dispatching
      BY <1>2 DEF FinishOperation
    <2>2. CASE state \in From[c.op]
      <3>1. state \in Unsettled
        BY NotBusy
      <3>2. \A op \in DOMAIN From : op # "authorize_recovery" => From[op] \cap Unsettled = {}
        BY DEF From, Unsettled, Switching
      <3>3. ~unsettled'
        BY <2>1, <2>2, <3>1, <3>2
      <3>4. QED
        BY <3>3, CalmSettled
    <2>3. CASE state \notin From[c.op]
      <3>1. PICK e : e = Dispatching
        OBVIOUS
      <3>2. e.op \notin Telling
        BY <3>1, DispatchingShape DEF Telling, Reporting
      <3>3. \A d \in calls' : d = e \/ \E f \in calls : Kept(d, f)
        BY <1>k, <2>1, <3>1
      <3>4. state' = state
        BY <2>1, <2>3
      <3>5. QED
        BY <2>1, <3>2, <3>3, <3>4, CalmWith
    <2>4. QED
      BY <2>2, <2>3
  <1>3. CASE RunIsCancelled(c)
    <2>1. PICK e : e = [c EXCEPT !.at = "checked"]
      OBVIOUS
    <2>2. c.op = "reconcile" /\ calls' = Without(c) \cup {e} /\ UNCHANGED <<state, attempts, runs>>
      BY <1>3, <2>1 DEF RunIsCancelled, db
    <2>3. "checked" \in Positions /\ c \in CallType
      BY DEF Positions
    <2>4. e.op = "reconcile"
      BY <2>1, <2>2, <2>3, Placed
    <2>5. e.op \notin Telling
      BY <2>4 DEF Telling, Reporting
    <2>6. QED
      BY <1>k, <2>2, <2>5, CalmWith
  <1>4. CASE FinishReconcile(c)
    <2>1. c.op = "reconcile" /\ c.at = "chained" /\ calls' = Outdated(Without(c)) /\ UNCHANGED runs
      BY <1>4 DEF FinishReconcile, Lands
    <2>2. CASE UNCHANGED db
      BY <1>k, <2>1, <2>2, CalmQuiet DEF db
    <2>3. CASE /\ Unmoved(c) /\ attempts' = [attempts EXCEPT ![c.a].result = c.result]
               /\ state' = c.result
      <3>1. c.a \in 1..Last /\ Queued(c.a) /\ attempts[c.a].stage = c.stage /\ c.result = Verdict(c.stage)
        BY <2>1, <2>3 DEF Unmoved, Queued, Shape
      <3>2. c.result = "recovery_required"
        BY <3>1 DEF Calm, RowCalm, Verdict
      <3>3. attempts[c.a] \in AttemptType /\ attempts \in Seq(AttemptType)
        BY <3>1, AttemptAt DEF Typed, RowsOK
      <3>4. Last' = Last /\ ~Queued(c.a)' /\ attempts'[c.a].try = attempts[c.a].try
            /\ \A b \in 1..Last : b # c.a => attempts'[b] = attempts[b]
        BY <2>3, <3>1, <3>2, <3>3 DEF Last, AttemptType, Queued
      <3>5. RowCalm(c.a)' /\ Wanes(c.a)
        BY <3>3, <3>4, Positive DEF RowCalm, Wanes, AttemptType
      <3>6. \A b \in 1..Last : Wanes(b) /\ (RowCalm(b)' \/ (attempts'[b] = attempts[b] /\ RunStays(b)))
        BY <2>1, <3>4, <3>5, StillWanes DEF RunStays
      <3>7. StateCalm'
        BY <2>3, <3>2 DEF StateCalm, Unsettled
      <3>8. \A d \in calls' : \E e \in calls : Kept(d, e)
        BY <1>k, <2>1
      <3>9. QED
        BY <3>4, <3>6, <3>7, <3>8, CalmAssembled
    <2>4. QED
      BY <1>4, <2>2, <2>3 DEF FinishReconcile
  <1>5. CASE PreflightFails(c)
    <2>1. PICK e : e = Rejection(c)
      OBVIOUS
    <2>2. calls' = Without(c) \cup {e} /\ UNCHANGED <<state, attempts, runs>>
      BY <1>5, <2>1 DEF PreflightFails, db
    <2>3. e.op \notin Telling
      BY <2>1, Rejected DEF Telling, Reporting
    <2>4. QED
      BY <1>k, <2>2, <2>3, CalmWith
  <1>6. QED
    BY <1>1, <1>2, <1>3, <1>4, <1>5

\* A callback about the attempt under way.
LEMMA CalmWritten ==
    ASSUME Typed, Typed', Guarded, Careful, Calm, unsettled, NEW c \in calls, c.op \in Callbacks,
           calls' = Outdated(Without(c)), NEW table \in {Onward, Fallback}, Reply(c, table),
           Last' = Last, \A b \in 1..Last : b # c.a => attempts'[b] = attempts[b],
           RowCalm(c.a)', Wanes(c.a), StateCalm'
    PROVE  Calm'
  <1>1. \A b \in 1..Last : RunStays(b)
    BY ReplyStays
  <1>2. \A b \in 1..Last : Wanes(b) /\ (RowCalm(b)' \/ (attempts'[b] = attempts[b] /\ RunStays(b)))
    BY <1>1, StillWanes
  <1>3. \A d \in calls' : \E e \in calls : Kept(d, e)
    BY WithoutApart DEF Guarded
  <1>4. QED
    BY <1>2, <1>3, CalmAssembled

LEMMA ToldOfTheSwitch ==
    ASSUME NEW s \in {"promote", "verify", "half_switched"}
    PROVE  Message[s] \in {<<"verifying", "queued">>, <<"verifying", "succeeded">>, <<"failed", "recovery_required">>}
  BY DEF Message

LEMMA CalmLandings ==
    ASSUME Typed, Typed', Guarded, Careful, Calm, unsettled, NEW c \in calls, Landings(c), ~Late(c)
    PROVE  Calm'
  <1> USE Known, InTime
  <1>0. c.a \in 1..Last /\ c.a \in Attempts /\ c.try \in Nat /\ attempts[c.a].try \in Nat
        /\ runs[c.a].try \in Nat /\ RowCalm(c.a) /\ CallCalm(c)
    BY AttemptAt, Positive DEF RunType, Calm
  <1>1. CASE PreflightPasses(c)
    <2>1. c.op = "preflight" /\ c.op \in Callbacks /\ ~Queued(c.a)
      BY <1>0, <1>1 DEF PreflightPasses, Lands, Callbacks, CallCalm, Telling
    <2>2. UNCHANGED <<attempts, unsettled>> /\ calls' = Outdated(Without(c)) /\ Reply(c, Onward) /\ Last' = Last
      BY <1>1, <2>1 DEF PreflightPasses, Last
    <2>3. state' = state
      BY <1>1, NotBusy DEF PreflightPasses
    <2>4. \A b \in 1..Last : RunStays(b) /\ Wanes(b)
      BY <2>1, <2>2, ReplyStays, StillWanes
    <2>5. StateCalm'
      BY <2>2, <2>3 DEF Calm, StateCalm
    <2>6. \A d \in calls' : \E e \in calls : Kept(d, e)
      BY <2>2, WithoutApart DEF Guarded
    <2>7. QED
      BY <2>2, <2>4, <2>5, <2>6, CalmAssembled
  <1>2. CASE PreflightRejected(c)
    <2>1. c.op = "reject" /\ c.op \in Callbacks /\ calls' = Outdated(Without(c)) /\ Reply(c, Fallback)
          /\ state' = "failed_terminal" /\ Queued(c.a)
      BY <1>2 DEF PreflightRejected, Lands, Callbacks
    <2>2. attempts' = [attempts EXCEPT ![c.a] = Bound(c)]
      BY <1>2, <2>1 DEF PreflightRejected
    <2>3. Last' = Last /\ attempts'[c.a] = Bound(c) /\ \A b \in 1..Last : b # c.a => attempts'[b] = attempts[b]
      BY <1>0, <2>2, RowWritten
    <2>4. c.result = "failed_terminal"
      BY <2>1 DEF Shape
    <2>5. ~Queued(c.a)' /\ attempts'[c.a].try = c.try
      BY <2>3, <2>4 DEF Queued, Bound
    <2>6. RowCalm(c.a)' /\ Wanes(c.a)
      BY <1>0, <2>1, <2>5 DEF RowCalm, Wanes
    <2>7. StateCalm'
      BY <2>1 DEF StateCalm, Unsettled
    <2>8. QED
      BY <1>0, <2>1, <2>3, <2>6, <2>7, CalmWritten
  <1>3. CASE StatusRecorded(c)
    <2>1. c.op \in Reporting /\ c.op \in Callbacks /\ calls' = Outdated(Without(c)) /\ Queued(c.a)
          /\ attempts' = [attempts EXCEPT ![c.a] = Reported(c)] /\ Reply(c, Onward)
      BY <1>3 DEF StatusRecorded, Lands, Callbacks, Reporting
    <2>2. Last' = Last /\ attempts'[c.a] = Reported(c) /\ \A b \in 1..Last : b # c.a => attempts'[b] = attempts[b]
      BY <1>0, <2>1, RowWritten
    <2>3. c.op = "status" /\ \E s \in {"promote", "verify", "half_switched"} : Message[s] = <<c.stage, c.result>>
      BY <1>0, <2>1 DEF CallCalm, Telling
    <2>4. <<c.stage, c.result>> \in
             {<<"verifying", "queued">>, <<"verifying", "succeeded">>, <<"failed", "recovery_required">>}
      BY <2>3, ToldOfTheSwitch
    <2>5. attempts'[c.a].result = c.result /\ attempts'[c.a].try = attempts[c.a].try /\ attempts'[c.a].stage = c.stage
      BY <2>1, <2>2, <2>3 DEF Reported, Queued
    <2>6. CASE c.result = "succeeded"
      <3>1. ~unsettled'
        BY <1>3, <2>6 DEF StatusRecorded
      <3>2. QED
        BY <3>1, CalmSettled
    <2>7. CASE c.result # "succeeded"
      <3>1. state' \in {"verifying", "recovery_required"}
        BY <1>3, <2>4, <2>7 DEF StatusRecorded, Terminal, Switching
      <3>2. StateCalm'
        BY <3>1 DEF StateCalm, Unsettled, Switching
      <3>3. RunStays(c.a) /\ runs'[c.a].try = runs[c.a].try
        BY <1>0, <2>1, <2>2, ReplyStays, ReplyGoes
      <3>4. attempts[c.a].try > 0 /\ (attempts[c.a].try = runs[c.a].try => runs[c.a].step \in After)
        BY <1>0, <2>1 DEF RowCalm
      <3>5. runs[c.a].step \in After => runs'[c.a].step \in After
        BY <1>0, <3>3 DEF RunStays
      <3>6. Queued(c.a)' => attempts'[c.a].stage \in Switching
        BY <2>4, <2>5 DEF Queued, Switching
      <3>7. RowCalm(c.a)'
        BY <2>5, <3>3, <3>4, <3>5, <3>6 DEF RowCalm
      <3>8. Wanes(c.a)
        BY <1>0, <2>1, <2>5 DEF Wanes
      <3>9. QED
        BY <1>0, <2>1, <2>2, <3>2, <3>7, <3>8, CalmWritten
    <2>8. QED
      BY <2>6, <2>7
  <1>4. CASE DispatchFails(c)
    <2>1. c.op = "dispatch_request" /\ Queued(c.a) /\ c.try = 0
      BY <1>4 DEF DispatchFails, Shape
    <2>2. QED
      BY <1>0, <2>1 DEF RowCalm
  <1>5. QED
    BY <1>1, <1>2, <1>3, <1>4 DEF Landings

\* The switch of the pointers begins.
LEMMA SwitchBegins ==
    ASSUME Typed, Typed', Guarded, Careful, ~unsettled, unsettled', NEW c \in calls, StatusRecorded(c), ~Late(c)
    PROVE  Calm'
  <1> USE Known, InTime
  <1>1. c.op \in Reporting /\ c.op \in Callbacks /\ calls' = Outdated(Without(c)) /\ Reply(c, Onward) /\ Queued(c.a)
        /\ attempts' = [attempts EXCEPT ![c.a] = Reported(c)] /\ c.client /\ runs[c.a].step = "upload"
        /\ attempts[c.a].try <= c.try
    BY DEF Landings, StatusRecorded, Lands, Reporting, Callbacks
  <1>2. c.a \in 1..Last /\ c.a \in Attempts /\ Last \in Nat /\ c.try \in Nat /\ attempts[c.a].try \in Nat
    BY <1>1, AttemptAt, Positive
  <1>3. c.stage = "publishing_pointers" /\ c.result = "queued" /\ c.try = runs[c.a].try /\ c.try > 0
    <2>1. Message["upload"] = <<c.stage, c.result>> /\ c.try = runs[c.a].try /\ c.try \in 1..runs[c.a].try
      BY <1>1 DEF Shape
    <2>2. Message["upload"] = <<"publishing_pointers", "queued">>
      BY DEF Message
    <2>3. QED
      BY <1>2, <2>1, <2>2
  <1>4. Last' = Last /\ attempts'[c.a] = Reported(c) /\ \A b \in 1..Last : b # c.a => attempts'[b] = attempts[b]
    BY <1>1, <1>2, RowWritten
  <1>5. c.op = "status" /\ attempts[c.a].try = c.try
    <2>1. c.op = "status"
      BY <1>1, <1>3 DEF Careful, CallSafe, ReportSafe, Reporting
    <2>2. QED
      BY <1>1, <1>2, <2>1 DEF Careful, CallSafe, ReportSafe
  <1>6. attempts'[c.a].stage \in Switching /\ attempts'[c.a].try = c.try /\ state' \in Switching
    BY <1>1, <1>3, <1>4, <1>5 DEF Reported, Queued, Switching, StatusRecorded, Terminal
  <1>7. runs'[c.a].step = "promote"
    <2>1. runs'[c.a] = [step |-> Onward[runs[c.a].step], try |-> runs[c.a].try]
      BY <1>1, <1>4, ReplyMoves
    <2>2. QED
      BY <1>1, <2>1 DEF Onward
  <1>8. RowCalm(c.a)'
    BY <1>2, <1>3, <1>6, <1>7 DEF RowCalm, After, Halfway
  <1>9. ASSUME NEW b \in 1..Last', b # c.a PROVE ~Queued(b)'
    BY <1>1, <1>2, <1>4, <1>9 DEF Guarded, OnlyLatest, Queued
  \* What else is about the attempt is of an earlier execution.
  <1>10. ASSUME NEW d \in calls' PROVE CallCalm(d)'
    <2> SUFFICES ASSUME d.op \in Telling, Queued(d.a)' PROVE d.try < attempts'[d.a].try
      BY DEF CallCalm
    <2>1. PICK e \in calls : e # c /\ Kept(d, e)
      BY <1>1, WithoutApart DEF Guarded
    <2>2. d.op = e.op /\ d.a = e.a /\ d.try = e.try /\ e.op \in Callbacks /\ e.a \in 1..Last
      BY <2>1 DEF Kept, Telling, Reporting, Callbacks
    <2>3. e.a = c.a
      BY <1>4, <1>9, <2>2
    <2>4. ~e.client
      BY <1>1, <2>1, <2>3 DEF Typed, AloneIn, Clash
    <2>5. e.try < runs[c.a].try
      <3>1. "upload" \notin Stopped \cup Given
        BY DEF Stopped, Given, Reports
      <3>2. QED
        BY <1>1, <2>2, <2>3, <2>4, <3>1 DEF Careful, CallSafe, GivenUp, Ways
    <2>6. QED
      BY <1>3, <1>6, <2>2, <2>3, <2>5
  <1>11. QED
    BY <1>6, <1>8, <1>9, <1>10 DEF Calm, StateCalm, RowCalm, Unsettled

LEMMA CalmRun ==
    ASSUME Typed, Typed', Guarded, Careful, Calm, unsettled, NEW a \in Attempts, Run(a) PROVE Calm'
  <1>0. a \in 1..Last /\ runs[a].try \in Nat /\ Last \in Nat
    BY RunKnown DEF Typed, RowsOK, Last
  <1>n. state \notin {"dispatched", "running"}
    BY NotBusy
  \* The run goes on by itself, or stops waiting.
  <1>1. ASSUME UNCHANGED <<state, attempts, unsettled>>, UNCHANGED calls \/ LeftAlone(a), RunStays(a),
               \A b \in Attempts : b # a => runs'[b] = runs[b]
        PROVE  Calm'
    <2>1. \A d \in calls' : \E e \in calls : Kept(d, e)
      BY <1>1, TypedCalls, KeptItself, LeftAloneCalls
    <2>2. StateCalm' /\ Last' = Last
      BY <1>1 DEF Calm, StateCalm, Last
    <2>3. \A b \in 1..Last : RunStays(b) /\ Wanes(b)
      BY <1>1, AttemptAt, StillWanes DEF RunStays
    <2>4. QED
      BY <1>1, <2>1, <2>2, <2>3, CalmAssembled
  <1>2. ASSUME NEW step, Steps(a, step), UNCHANGED <<state, attempts, unsettled>>, UNCHANGED calls \/ LeftAlone(a),
               runs[a].step \in After => step \in After
        PROVE  Calm'
    <2>1. /\ runs'[a].step = step /\ runs'[a].try = runs[a].try
          /\ \A b \in Attempts : b # a => runs'[b] = runs[b]
      BY <1>2 DEF Steps, Typed, RunsOK, RunType
    <2>2. QED
      BY <1>1, <1>2, <2>1 DEF RunStays
  <1>t. \A s \in DOMAIN Fallback : s \in After => Fallback[s] \in After
    BY AfterClosed, Tables
  <1>u. AtOnce \cup DOMAIN Message \subseteq DOMAIN Fallback
    BY Tables DEF AtOnce
  <1>3. CASE Preflight(a)
    BY <1>3, <1>n DEF Preflight, Runnable
  <1>4. CASE PreflightRefused(a)
    <2>1. CASE Queued(a)
      <3>1. PICK c : c = Call("reject", a, runs[a].try, "preflight", "failed_terminal", TRUE)
        OBVIOUS
      <3>2. c.op = "reject"
        BY <3>1 DEF Call
      <3>3. Begin(c) /\ UNCHANGED <<state, attempts, runs>>
        BY <1>4, <2>1, <3>1 DEF PreflightRefused, db
      <3>4. c.op \notin Telling
        BY <3>2 DEF Telling, Reporting
      <3>5. QED
        BY <3>3, <3>4, KeptItself, CalmWith DEF Begin
    <2>2. CASE ~Queued(a)
      BY <1>2, <1>4, <1>t, <1>u, <2>2 DEF PreflightRefused, Preflights, AtOnce, db
    <2>3. QED
      BY <2>1, <2>2
  <1>5. CASE Status(a)
    <2>1. PICK m : m = Message[runs[a].step]
      OBVIOUS
    <2>2. PICK op : op = IF Binds(a, m[1]) THEN "binding_status" ELSE "status"
      OBVIOUS
    <2>3. PICK c : c = Call(op, a, runs[a].try, m[1], m[2], TRUE)
      OBVIOUS
    <2>4. c.op = op /\ c.a = a /\ c.stage = m[1] /\ c.result = m[2]
      BY <2>3 DEF Call
    <2>5. Begin(c) /\ Queued(a) /\ (Binds(a, m[1]) \/ attempts[a].try = runs[a].try) /\ UNCHANGED <<state, attempts, runs>>
          /\ runs[a].step \in DOMAIN Message /\ Free(a)
      BY <1>5, <2>1, <2>2, <2>3 DEF Status, Accepted, db
    <2>6. attempts[a].try > 0 /\ (attempts[a].try = runs[a].try => runs[a].step \in After)
      BY <1>0, <2>5 DEF Calm, RowCalm
    <2>7. ~Binds(a, m[1])
      BY <2>6 DEF Binds
    <2>8. op = "status"
      BY <2>2, <2>7
    <2>9. runs[a].step \in {"promote", "verify", "half_switched"}
      BY <2>5, <2>6, <2>7, Tables DEF After, Halfway, Completed, Reports
    <2>10. m = <<m[1], m[2]>>
      BY <2>1, <2>5, Messages
    <2>11. CallCalm(c)'
      BY <2>1, <2>4, <2>8, <2>9, <2>10 DEF CallCalm
    <2>12. QED
      BY <2>5, <2>11, KeptItself, CalmQuiet DEF Begin
  <1>6. CASE StatusRefused(a)
    BY <1>2, <1>6, <1>t, <1>u DEF StatusRefused, db
  <1>7. CASE StartPublish(a) \/ SetupFails(a) \/ ArtifactInvalid(a)
    <2>1. PICK step : /\ Steps(a, step) /\ UNCHANGED <<state, attempts, unsettled, calls>>
                      /\ runs[a].step \in {"queued", "intake", "build"}
      BY <1>7 DEF StartPublish, SetupFails, ArtifactInvalid, db
    <2>2. QED
      BY <1>2, <2>1, AfterClosed
  <1>8. CASE StepFails(a)
    BY <1>2, <1>8, <1>t DEF StepFails, db
  <1>9. CASE CancelRun(a)
    <2>1. "cancelled" \in After
      BY DEF After, Completed
    <2>2. QED
      BY <1>2, <1>9, <2>1 DEF CancelRun, db
  <1>10. CASE Rerun(a)
    <2>1. UNCHANGED <<state, attempts, unsettled, calls>>
          /\ runs' = [runs EXCEPT ![a] = [step |-> "authorize", try |-> runs[a].try + 1]]
      BY <1>10 DEF Rerun, db, Typed, RunsOK
    <2>2. runs'[a].try = runs[a].try + 1 /\ \A b \in Attempts : b # a => runs'[b] = runs[b]
      BY <2>1 DEF Typed, RunsOK
    <2>3. QED
      BY <1>0, <1>1, <2>1, <2>2 DEF RunStays
  <1>11. QED
    BY <1>3, <1>4, <1>5, <1>6, <1>7, <1>8, <1>9, <1>10 DEF Run

\* Only a report begins the switch.
LEMMA OnlyReports ==
    ASSUME ~unsettled, unsettled'
    PROVE  /\ ~Operations
           /\ \A c \in calls : ~Handlers(c) /\ (Landings(c) => StatusRecorded(c))
           /\ \A a \in Attempts : ~Run(a)
  <1>1. ~Operations
    BY DEF Operations, StartOperation, StartReconcile, StartDispatch
  <1>2. ASSUME NEW a \in Attempts PROVE ~Run(a)
    BY DEF Run, Preflight, PreflightRefused, Status, StatusRefused, StartPublish, StepFails, SetupFails,
           ArtifactInvalid, CancelRun, Rerun
  <1>3. ASSUME NEW c \in calls PROVE ~Handlers(c)
    BY DEF Handlers, Chain, Abandon, FinishOperation, ReadAttempt, RunIsCancelled, FinishReconcile, CheckDispatch,
           NumberAttempt, Claim, InsertAttempt, Unclaim, RunStarts, DispatchEnds, PreflightFails
  <1>4. ASSUME NEW c \in calls, Landings(c) PROVE StatusRecorded(c)
    BY <1>4 DEF Landings, PreflightPasses, PreflightRejected, DispatchFails
  <1>5. QED
    BY <1>1, <1>2, <1>3, <1>4

LEMMA CalmStep ==
    /\ Typed /\ (overtaken \/ Guarded) /\ (overtaken \/ Careful) /\ (overtaken \/ Calm) /\ [ControlNext]_controlVars
    => (overtaken \/ Calm)'
  <1> SUFFICES ASSUME Typed, overtaken \/ Guarded, overtaken \/ Careful, overtaken \/ Calm,
                      [ControlNext]_controlVars, ~overtaken'
               PROVE  Calm'
    OBVIOUS
  <1>0. Guarded /\ Careful /\ Calm /\ Typed'
    BY StepInTime, TypedStep
  <1>1. CASE ~unsettled'
    BY <1>1, CalmSettled
  <1>2. CASE UNCHANGED controlVars /\ unsettled
    BY <1>0, <1>2, KeptItself, CalmQuiet DEF controlVars
  <1>3. CASE unsettled
    <2>1. ASSUME NEW c \in calls, Handlers(c) PROVE Calm'
      BY <1>0, <1>3, <2>1, CalmChain, CalmUnmoved, CalmDispatch DEF Handlers
    <2>2. QED
      BY <1>0, <1>2, <1>3, <2>1, StepInTime, CalmLandings, CalmOperations, CalmRun
  <1>4. CASE ~unsettled /\ unsettled'
    <2>1. ~UNCHANGED controlVars
      <3> SUFFICES ASSUME UNCHANGED controlVars PROVE FALSE
        OBVIOUS
      <3>1. unsettled' = unsettled
        BY DEF controlVars
      <3>2. QED
        BY <1>4, <3>1, Zenon
    <2>2. PICK c \in calls : StatusRecorded(c) /\ ~Late(c)
      BY <1>4, <2>1, StepInTime, OnlyReports
    <2>3. QED
      BY <1>0, <1>4, <2>2, SwitchBegins
  <1>5. QED
    BY <1>1, <1>3, <1>4

\* While the pointers may be half switched the request can be tried again only
\* after an operator has confirmed it, until a callback or a failed dispatch is
\* written although its attempt has ended or gone on without it.
THEOREM NeverRetriedBlindly == ControlSpec => []NoBlindRetry
  <1>1. ControlInit => Typed /\ (overtaken \/ Guarded) /\ (overtaken \/ Careful) /\ (overtaken \/ Calm)
    BY TypedInit, GuardedInit, CarefulInit, CalmInit
  <1>2. Typed /\ (overtaken \/ Guarded) /\ (overtaken \/ Careful) /\ (overtaken \/ Calm) /\ [ControlNext]_controlVars
        => (Typed /\ (overtaken \/ Guarded) /\ (overtaken \/ Careful) /\ (overtaken \/ Calm))'
    BY TypedStep, GuardedStep, CarefulStep, CalmStep
  <1>3. (overtaken \/ Calm) => NoBlindRetry
    BY DEF Calm, StateCalm, Unsettled, NoBlindRetry
  <1>4. QED
    BY <1>1, <1>2, <1>3, PTL DEF ControlSpec

\* The steps of a handler that write neither the request nor its attempts.
LEMMA StillThere ==
    ASSUME NEW c \in calls,
           Chain(c) \/ Abandon(c) \/ ReadAttempt(c) \/ RunIsCancelled(c) \/ CheckDispatch(c) \/ NumberAttempt(c)
           \/ RunStarts(c) \/ DispatchEnds(c) \/ PreflightFails(c)
    PROVE  UNCHANGED <<state, attempts, unsettled>>
  <1>1. ReadAttempt(c) => UNCHANGED <<state, attempts, unsettled>>
    BY DEF ReadAttempt, db
  <1>2. NumberAttempt(c) \/ CheckDispatch(c) => UNCHANGED <<state, attempts, unsettled>>
    BY DEF CheckDispatch, NumberAttempt, db
  <1>3. QED
    BY <1>1, <1>2 DEF Chain, Abandon, RunIsCancelled, RunStarts, DispatchEnds, PreflightFails, db

\* The result of an attempt that has ended is written again only by the failure
\* of its dispatch.
LEMMA EndedKept ==
    ASSUME Typed,
           \/ UNCHANGED controlVars
           \/ \E c \in calls : Landings(c) /\ ~DispatchFails(c)
           \/ Operations \/ (\E c \in calls : Handlers(c)) \/ (\E a \in Attempts : Run(a))
    PROVE  \A a \in 1..Last : ~Queued(a) => attempts'[a].result = attempts[a].result
  <1> DEFINE Ended == \A a \in 1..Last : ~Queued(a) => attempts'[a].result = attempts[a].result
  <1>1. ASSUME UNCHANGED attempts PROVE Ended
    BY <1>1
  \* The row of one attempt is written, and its result only if it is under way.
  <1>2. ASSUME NEW a \in 1..Last, NEW t, attempts' = [attempts EXCEPT ![a] = t],
               Queued(a) \/ t.result = attempts[a].result
        PROVE  Ended
    BY <1>2, RowWritten
  <1> HIDE DEF Ended
  <1>3. ASSUME NEW c \in calls, Handlers(c) PROVE Ended
    <2>1. CASE UNCHANGED attempts
      BY <1>1, <2>1
    <2>2. CASE InsertAttempt(c)
      <3>1. \A a \in 1..Last : attempts'[a] = attempts[a]
        BY <2>2 DEF InsertAttempt, Typed, RowsOK, Last
      <3>2. QED
        BY <3>1 DEF Ended
    <2>3. CASE FinishReconcile(c) /\ Unmoved(c)
      <3>1. c.a \in 1..Last /\ Queued(c.a)
        BY <2>3, Known DEF FinishReconcile, Lands, Unmoved, Queued, Shape
      <3>2. attempts' = [attempts EXCEPT ![c.a] = [attempts[c.a] EXCEPT !.result = c.result]]
        BY <2>3, <3>1 DEF FinishReconcile, Typed, RowsOK, Last
      <3>3. QED
        BY <1>2, <3>1, <3>2
    <2>4. CASE Chain(c) \/ Abandon(c) \/ ReadAttempt(c) \/ RunIsCancelled(c) \/ CheckDispatch(c) \/ NumberAttempt(c)
               \/ RunStarts(c) \/ DispatchEnds(c) \/ PreflightFails(c)
      BY <2>1, <2>4, StillThere
    <2>5. CASE FinishOperation(c) \/ Claim(c) \/ Unclaim(c) \/ (FinishReconcile(c) /\ ~Unmoved(c))
      BY <2>1, <2>5 DEF FinishOperation, Claim, Unclaim, FinishReconcile, db
    <2>6. QED
      BY <1>3, <2>2, <2>3, <2>4, <2>5 DEF Handlers
  <1>4. ASSUME NEW c \in calls, Landings(c), ~DispatchFails(c) PROVE Ended
    <2>1. c.a \in 1..Last
      <3>1. c.op \in Callbacks
        BY <1>4 DEF Landings, PreflightPasses, PreflightRejected, StatusRecorded, Lands, Callbacks
      <3>2. QED
        BY <3>1, Known DEF Shape
    <2>2. CASE PreflightPasses(c) \/ PreflightRejected(c)
      <3>1. UNCHANGED attempts \/ (Queued(c.a) /\ attempts' = [attempts EXCEPT ![c.a] = Bound(c)])
        BY <2>2 DEF PreflightPasses, PreflightRejected
      <3>2. QED
        BY <1>1, <1>2, <2>1, <3>1
    <2>3. CASE StatusRecorded(c)
      <3>1. attempts' = [attempts EXCEPT ![c.a] = Reported(c)]
        BY <2>3 DEF StatusRecorded
      <3>2. Queued(c.a) \/ Reported(c).result = attempts[c.a].result
        BY <2>1, AttemptAt DEF Reported, Queued, AttemptType
      <3>3. QED
        BY <1>2, <2>1, <3>1, <3>2
    <2>4. QED
      BY <1>4, <2>2, <2>3 DEF Landings
  <1>5. ASSUME Operations PROVE Ended
    BY <1>1, <1>5 DEF Operations, StartOperation, StartReconcile, StartDispatch, db
  <1>6. ASSUME NEW a \in Attempts, Run(a) PROVE Ended
    BY <1>1, <1>6 DEF Run, Preflight, PreflightRefused, Status, StatusRefused, StartPublish, StepFails, SetupFails,
           ArtifactInvalid, CancelRun, Rerun, db
  <1>7. ASSUME UNCHANGED controlVars PROVE Ended
    BY <1>1, <1>7 DEF controlVars
  <1>8. Ended
    BY <1>3, <1>4, <1>5, <1>6, <1>7
  <1>9. QED
    BY <1>8 DEF Ended

\* Nothing written in time moves a request that was cancelled.
LEMMA CancelledKept ==
    ASSUME Typed, Guarded, state = "cancelled",
           \/ UNCHANGED controlVars
           \/ \E c \in calls : Landings(c) /\ ~Late(c)
           \/ Operations \/ (\E c \in calls : Handlers(c)) \/ (\E a \in Attempts : Run(a))
    PROVE  state' = "cancelled"
  <1>1. NoneQueued
    BY DEF Guarded, QueuedActive, Active, Switching
  <1>2. \A op \in DOMAIN From : "cancelled" \notin From[op]
    BY DEF From
  <1>3. ASSUME NEW c \in calls, Handlers(c) PROVE state' = state
    <2>1. ~Claim(c)
      BY DEF Claim, Dispatchable
    <2>2. FinishReconcile(c) => ~Unmoved(c)
      BY <1>1, Known DEF FinishReconcile, Lands, Unmoved, Queued, NoneQueued, Shape
    <2>3. Unclaim(c) \/ FinishOperation(c) => state' = state
      BY <1>2 DEF Unclaim, FinishOperation
    <2>4. FinishReconcile(c) \/ InsertAttempt(c) => state' = state
      BY <2>2 DEF FinishReconcile, InsertAttempt, db
    <2>5. QED
      BY <1>3, <2>1, <2>3, <2>4, StillThere DEF Handlers
  <1>4. ASSUME NEW c \in calls, Landings(c), ~Late(c) PROVE state' = state
    <2>1. c.a \in 1..Last /\ c.op = "preflight"
      BY <1>1, <1>4, InTime DEF NoneQueued
    <2>2. PreflightPasses(c)
      BY <1>4, <2>1 DEF Landings, PreflightRejected, StatusRecorded, DispatchFails, Lands
    <2>3. QED
      BY <2>2 DEF PreflightPasses
  <1>5. ASSUME Operations PROVE state' = state
    BY <1>5 DEF Operations, StartOperation, StartReconcile, StartDispatch, db
  <1>6. ASSUME NEW a \in Attempts, Run(a) PROVE state' = state
    BY <1>6 DEF Run, Preflight, PreflightRefused, Status, StatusRefused, StartPublish, StepFails, SetupFails,
           ArtifactInvalid, CancelRun, Rerun, db
  <1>7. UNCHANGED controlVars => state' = state
    BY DEF controlVars
  <1>8. QED
    BY <1>3, <1>4, <1>5, <1>6, <1>7

\* An attempt that has ended keeps its result, which only the failure of its
\* own dispatch replaces; until something is written too late, no report of a
\* run revives a request that an operator has cancelled.
LEMMA EndedStep ==
    ASSUME Typed, overtaken \/ Guarded, [ControlNext]_controlVars
    PROVE  /\ \A a \in 1..Last : ~Queued(a) =>
                  attempts'[a].result = attempts[a].result \/ (attempts'[a].result = "failed" /\ overtaken')
           /\ state = "cancelled" => state' = "cancelled" \/ overtaken'
  <1>1. ASSUME NEW a \in 1..Last, ~Queued(a), attempts'[a].result # attempts[a].result
        PROVE  attempts'[a].result = "failed" /\ overtaken'
    <2>1. PICK c \in calls : DispatchFails(c) /\ overtaken' = (overtaken \/ Late(c))
      BY <1>1, EndedKept DEF ControlNext, Landings
    <2>2. c.a \in 1..Last /\ c.op = "dispatch_request"
          /\ attempts' = [attempts EXCEPT ![c.a].stage = "dispatch", ![c.a].result = "failed"]
      <3>1. c.op = "dispatch_request" /\ c.at \in {"inserted", "accepted"}
            /\ attempts' = [attempts EXCEPT ![c.a].stage = "dispatch", ![c.a].result = "failed"]
        BY <2>1 DEF DispatchFails
      <3>2. QED
        BY <3>1, Known DEF Shape
    <2>3. a = c.a /\ attempts'[a].result = "failed"
      BY <1>1, <2>2, AttemptAt DEF Typed, RowsOK, Last, AttemptType
    <2>4. Late(c)
      BY <1>1, <2>2, <2>3 DEF Late
    <2>5. overtaken'
      BY <2>1, <2>4, Zenon
    <2>6. QED
      BY <2>3, <2>5
  <1>2. ASSUME state = "cancelled", ~overtaken' PROVE state' = "cancelled"
    BY <1>2, StepInTime, CancelledKept
  <1>3. QED
    BY <1>1, <1>2

\* Nothing a handler has read long ago brings an attempt that has ended back to
\* life, and only the failure of its own dispatch, written after its run had
\* reported, gives it another result; no report revives a request that an
\* operator has cancelled, until one is taken that came too late.
THEOREM EndedForGood ==
    ControlSpec =>
        [][/\ \A a \in 1..Last : ~Queued(a) =>
                  attempts'[a].result = attempts[a].result \/ (attempts'[a].result = "failed" /\ overtaken')
           /\ state = "cancelled" => state' = "cancelled" \/ overtaken']_controlVars
  <1> DEFINE Ended == /\ \A a \in 1..Last : ~Queued(a) =>
                             attempts'[a].result = attempts[a].result
                             \/ (attempts'[a].result = "failed" /\ overtaken')
                      /\ state = "cancelled" => state' = "cancelled" \/ overtaken'
  <1>1. ControlInit => Typed /\ (overtaken \/ Guarded)
    BY TypedInit, GuardedInit
  <1>2. Typed /\ (overtaken \/ Guarded) /\ [ControlNext]_controlVars => (Typed /\ (overtaken \/ Guarded))'
    BY TypedStep, GuardedStep
  <1>3. Typed /\ (overtaken \/ Guarded) /\ [ControlNext]_controlVars => [Ended]_controlVars
    BY EndedStep
  <1>4. QED
    BY <1>1, <1>2, <1>3, PTL DEF ControlSpec

------------------------------------------------------------------------------
(* The control plane implements the abstract deployment: who ends an attempt  *)
(* finds it queued, and what is written too late is an Overtake.             *)

LEMMA PhaseOf ==
    ASSUME NEW s \in States
    PROVE  /\ Phase(s) = "open" <=> s \in {"ready", "pending_approval", "approved", "failed_retryable"}
           /\ Phase(s) = "busy" <=> s \in Active
           /\ Phase(s) = "blocked" <=> s \in {"failed_terminal", "recovery_required"}
           /\ Phase(s) = "done" <=> s = "succeeded"
           /\ Phase(s) = "cancelled" <=> s = "cancelled"
  BY DEF Phase, States, Active, Switching, Terminal

\* The attempts of the request are those of the deployment.
LEMMA OutcomesAt ==
    ASSUME Typed
    PROVE  /\ Outcomes \in Seq(Results) /\ Len(Outcomes) = Last
           /\ \A a \in 1..Last : Outcomes[a] = attempts[a].result
           /\ Abstract!Tried = 1..Last
           /\ \A a \in 1..Last : Abstract!Queued(a) <=> Queued(a)
           /\ Abstract!UnderWay <=> ~NoneQueued
  <1>1. Last \in Nat
    BY DEF Typed, RowsOK, Last
  <1>2. \A a \in 1..Last : attempts[a].result \in Results
    BY AttemptAt
  <1>3. Outcomes \in [1..Last -> Results]
    BY <1>2 DEF Outcomes
  <1>4. Outcomes \in Seq(Results) /\ Len(Outcomes) = Last
    BY <1>1, <1>3, LenProperties
  <1>5. \A a \in 1..Last : Outcomes[a] = attempts[a].result
    BY DEF Outcomes
  <1>6. QED
    BY <1>4, <1>5 DEF Abstract!Tried, Abstract!Queued, Abstract!UnderWay, Queued, NoneQueued

LEMMA OutcomesStay ==
    ASSUME Last' = Last, \A a \in 1..Last : attempts'[a].result = attempts[a].result
    PROVE  Outcomes' = Outcomes
  BY DEF Outcomes

LEMMA OutcomeWritten ==
    ASSUME Typed, NEW a \in 1..Last, NEW t \in AttemptType, attempts' = [attempts EXCEPT ![a] = t]
    PROVE  Outcomes' = [Outcomes EXCEPT ![a] = t.result]
  <1>1. Last' = Last /\ attempts'[a] = t /\ \A b \in 1..Last : b # a => attempts'[b] = attempts[b]
    BY AttemptWritten, RowWritten DEF Typed, RowsOK, Last
  <1>2. Outcomes' = [b \in 1..Last |-> attempts'[b].result]
    BY <1>1 DEF Outcomes
  <1>3. Outcomes = [b \in 1..Last |-> attempts[b].result]
    BY DEF Outcomes
  <1>4. [Outcomes EXCEPT ![a] = t.result] = [b \in 1..Last |-> IF b = a THEN t.result ELSE attempts[b].result]
    BY <1>3
  <1>5. \A b \in 1..Last : attempts'[b].result = IF b = a THEN t.result ELSE attempts[b].result
    BY <1>1
  <1>6. QED
    BY <1>2, <1>4, <1>5

LEMMA OutcomeInserted ==
    ASSUME Typed, NEW t \in AttemptType, attempts' = Append(attempts, t)
    PROVE  Outcomes' = Append(Outcomes, t.result)
  <1>1. /\ Last' = Last + 1 /\ Last \in Nat
        /\ attempts'[Last + 1] = t
        /\ \A b \in 1..Last : attempts'[b] = attempts[b]
    BY AttemptInserted DEF Typed, RowsOK, Last
  <1>2. /\ Outcomes \in Seq(Results) /\ Len(Outcomes) = Last /\ t.result \in Results
        /\ \A b \in 1..Last : Outcomes[b] = attempts[b].result
    BY OutcomesAt DEF AttemptType
  <1>3. Outcomes' = [b \in 1..(Last + 1) |-> attempts'[b].result]
    BY <1>1 DEF Outcomes
  <1>4. \A b \in 1..(Last + 1) : attempts'[b].result = IF b = Last + 1 THEN t.result ELSE Outcomes[b]
    <2> TAKE b \in 1..(Last + 1)
    <2>1. b = Last + 1 \/ (b # Last + 1 /\ b \in 1..Last)
      BY <1>1
    <2>2. QED
      BY <1>1, <1>2, <2>1
  <1>5. /\ Append(Outcomes, t.result) \in [1..(Last + 1) -> Results]
        /\ \A b \in 1..Last : Append(Outcomes, t.result)[b] = Outcomes[b]
        /\ Append(Outcomes, t.result)[Last + 1] = t.result
    <2>1. /\ Append(Outcomes, t.result) \in Seq(Results) /\ Len(Append(Outcomes, t.result)) = Last + 1
          /\ \A b \in 1..Last : Append(Outcomes, t.result)[b] = Outcomes[b]
          /\ Append(Outcomes, t.result)[Last + 1] = t.result
      BY <1>2, AppendProperties
    <2>2. QED
      BY <2>1, LenProperties
  <1>6. Append(Outcomes, t.result) = [b \in 1..(Last + 1) |-> IF b = Last + 1 THEN t.result ELSE Outcomes[b]]
    BY <1>1, <1>5
  <1>7. QED
    BY <1>3, <1>4, <1>6

\* The steps that say nothing to those who operate the request.
LEMMA ImplementedQuiet ==
    ASSUME Typed, state' \in States, Phase(state') = Phase(state), UNCHANGED unsettled,
           UNCHANGED overtaken, Last' = Last, \A a \in 1..Last : attempts'[a].result = attempts[a].result
    PROVE  UNCHANGED Abstract!deploymentVars
  BY OutcomesStay DEF Abstract!deploymentVars

\* An attempt ends.
LEMMA ImplementedEnd ==
    ASSUME Typed, overtaken \/ Guarded, UNCHANGED overtaken,
           NEW a \in 1..Last, Queued(a), NEW t \in AttemptType, t.result \in DOMAIN Abstract!Leads,
           attempts' = [attempts EXCEPT ![a] = t],
           state' \in States, Phase(state') = Abstract!Leads[t.result],
           unsettled /\ ~overtaken => Abstract!Leads[t.result] # "open",
           t.result = "succeeded" => unsettled' = FALSE, t.result # "succeeded" => UNCHANGED unsettled
    PROVE  Abstract!DeploymentNext
  <1>1. Outcomes' = [Outcomes EXCEPT ![a] = t.result]
    BY OutcomeWritten
  <1>2. Abstract!Executing
    <2>1. state \in States /\ (overtaken \/ state \in Active)
      BY DEF Guarded, QueuedActive, NoneQueued, Typed, RowsOK
    <2>2. QED
      BY <2>1, PhaseOf, OutcomesAt DEF NoneQueued, Abstract!Executing
  <1>3. a \in Abstract!Tried /\ Abstract!Queued(a)
    BY OutcomesAt
  <1>u. unsettled' = (unsettled /\ t.result # "succeeded")
    BY DEF Typed, RowsOK
  <1>4. Abstract!End(a, t.result)
    BY <1>1, <1>2, <1>3, <1>u DEF Abstract!End, Abstract!Ended
  <1>5. QED
    BY <1>3, <1>4 DEF Abstract!DeploymentNext

\* The attempts keep their results, and the request its phase.
LEMMA RowsKept ==
    ASSUME UNCHANGED db
    PROVE  Last' = Last /\ (\A a \in 1..Last : attempts'[a].result = attempts[a].result) /\ state' = state
  BY DEF db, Last

LEMMA ImplementedIdle ==
    ASSUME Typed, UNCHANGED <<db, unsettled, overtaken>>
    PROVE  UNCHANGED Abstract!deploymentVars
  BY RowsKept, ImplementedQuiet DEF Typed, RowsOK

LEMMA ImplementedOperation ==
    ASSUME Typed, overtaken \/ Guarded, UNCHANGED overtaken, NEW c \in calls, FinishOperation(c)
    PROVE  [Abstract!DeploymentNext]_(Abstract!deploymentVars)
  <1>1. /\ Last' = Last /\ \A a \in 1..Last : attempts'[a].result = attempts[a].result
        /\ Outcomes' = Outcomes
    BY OutcomesStay DEF FinishOperation, Last
  <1>2. c.op \in DOMAIN From /\ state \in States
    BY DEF FinishOperation, Typed, RowsOK
  <1>3. CASE state \notin From[c.op]
    <2>1. state' = state /\ unsettled' = unsettled
      BY <1>3 DEF FinishOperation, Typed, RowsOK
    <2>2. QED
      BY <1>1, <1>2, <2>1, ImplementedQuiet
  <1>4. CASE state \in From[c.op]
    <2>1. state' = To[c.op] /\ unsettled' = (unsettled /\ c.op # "authorize_recovery")
      BY <1>4 DEF FinishOperation
    <2>2. state \notin Active
      BY <1>2, <1>4, Tables DEF From, Active, Switching
    <2>3. Abstract!Idle
      BY <2>2, OutcomesAt DEF Guarded, QueuedActive, Abstract!Idle
    <2>4. CASE c.op = "submit_request"
      <3>1. state \in {"ready", "pending_approval"} /\ state' = "approved" /\ unsettled' = unsettled
        BY <1>4, <2>1, <2>4 DEF From, To, Typed, RowsOK
      <3>2. Phase(state) = "open" /\ Phase(state') = "open" /\ state' \in States
        BY <1>2, <3>1, PhaseOf DEF States
      <3>3. QED
        BY <1>1, <3>1, <3>2, ImplementedQuiet
    <2>5. CASE c.op = "cancel_request"
      <3>1. state \in {"ready", "pending_approval", "approved", "failed_retryable"} /\ state' = "cancelled"
            /\ unsettled' = unsettled
        BY <1>4, <2>1, <2>5 DEF From, To, Typed, RowsOK
      <3>2. Phase(state) = "open" /\ Phase(state') = "cancelled"
        BY <1>2, <3>1, PhaseOf DEF States
      <3>3. Abstract!Cancel
        BY <1>1, <2>3, <3>1, <3>2 DEF Abstract!Cancel
      <3>4. QED
        BY <3>3 DEF Abstract!DeploymentNext
    <2>6. CASE c.op = "authorize_recovery"
      <3>1. state \in {"recovery_required", "failed_terminal"} /\ state' = "failed_retryable"
        BY <1>4, <2>1, <2>6 DEF From, To
      <3>u. unsettled' = FALSE
        BY <2>1, <2>6
      <3>2. Phase(state) = "blocked" /\ Phase(state') = "open"
        BY <1>2, <3>1, PhaseOf DEF States, Terminal
      <3>3. Abstract!Confirm
        BY <1>1, <2>3, <3>u, <3>2 DEF Abstract!Confirm
      <3>4. QED
        BY <3>3 DEF Abstract!DeploymentNext
    <2>7. CASE c.op = "recover_publication"
      <3>1. state = "succeeded" /\ state' = "approved" /\ unsettled' = unsettled
        BY <1>4, <2>1, <2>7 DEF From, To, Typed, RowsOK
      <3>2. Phase(state) = "done" /\ Phase(state') = "open"
        BY <1>2, <3>1, PhaseOf DEF States
      <3>3. Abstract!Revise
        BY <1>1, <2>3, <3>1, <3>2 DEF Abstract!Revise
      <3>4. QED
        BY <3>3 DEF Abstract!DeploymentNext
    <2>8. QED
      BY <1>2, <2>4, <2>5, <2>6, <2>7, Tables
  <1>5. QED
    BY <1>3, <1>4

LEMMA ImplementedDispatch ==
    ASSUME Typed, overtaken \/ Guarded, UNCHANGED overtaken, NEW c \in calls,
           Claim(c) \/ InsertAttempt(c) \/ Unclaim(c)
    PROVE  [Abstract!DeploymentNext]_(Abstract!deploymentVars)
  <1>0. state \in States
    BY DEF Typed, RowsOK
  <1>1. CASE Claim(c)
    <2>1. state \in Dispatchable /\ state' = "dispatched" /\ Outcomes' = Outcomes /\ unsettled' = unsettled
      BY <1>1, OutcomesStay DEF Claim, Last
    <2>2. Phase(state) = "open" /\ Phase(state') = "busy"
      BY <1>0, <2>1, PhaseOf DEF Dispatchable, States, Active
    <2>3. Abstract!Claim
      BY <2>1, <2>2 DEF Abstract!Claim
    <2>4. QED
      BY <2>3 DEF Abstract!DeploymentNext
  <1>2. CASE InsertAttempt(c)
    <2> DEFINE t == [stage |-> "dispatching", result |-> "queued", try |-> 0]
    <2>1. Claimed(c) /\ attempts' = Append(attempts, t) /\ UNCHANGED <<state, unsettled>>
      BY <1>2 DEF InsertAttempt, Claimed
    <2>2. t \in AttemptType /\ t.result = "queued"
      BY Positive DEF AttemptType, Stages, Results
    <2>3. (overtaken \/ Phase(state) = "busy") /\ Abstract!Idle
      BY <1>0, <2>1, PhaseOf, OutcomesAt DEF Guarded, ClaimSafe, Active, Abstract!Idle
    <2> HIDE DEF t
    <2>4. Outcomes' = Append(Outcomes, "queued")
      BY <2>1, <2>2, OutcomeInserted
    <2>5. Abstract!Try
      BY <2>1, <2>3, <2>4 DEF Abstract!Try
    <2>6. QED
      BY <2>5 DEF Abstract!DeploymentNext
  <1>3. CASE Unclaim(c)
    <2>1. Claimed(c) /\ Outcomes' = Outcomes /\ unsettled' = unsettled /\ UNCHANGED attempts
          /\ state' = IF state = "dispatched" THEN c.result ELSE state
      BY <1>3, OutcomesStay DEF Unclaim, Claimed, Last
    <2>2. CASE state = "dispatched"
      <3>1. c.result \in Dispatchable
        BY <1>3, Known DEF Shape, Unclaim
      <3>2. Phase(state) = "busy" /\ Phase(state') = "open"
        BY <1>0, <2>1, <2>2, <3>1, PhaseOf DEF Active, Dispatchable, States, Terminal
      <3>i. Abstract!Idle
        BY <2>1, OutcomesAt DEF Guarded, ClaimSafe, Abstract!Idle
      <3>3. Abstract!Release
        BY <2>1, <3>2, <3>i DEF Abstract!Release
      <3>4. QED
        BY <3>3 DEF Abstract!DeploymentNext
    <2>3. CASE state # "dispatched"
      BY <2>1, <2>3, ImplementedIdle DEF db
    <2>4. QED
      BY <2>2, <2>3
  <1>4. QED
    BY <1>1, <1>2, <1>3

LEMMA Endings ==
    /\ DOMAIN Abstract!Leads = Results \ {"queued"}
    /\ Abstract!Leads["succeeded"] = "done" /\ Abstract!Leads["failed_retryable"] = "open"
    /\ Abstract!Leads["failed_terminal"] = "blocked" /\ Abstract!Leads["recovery_required"] = "blocked"
  BY DEF Abstract!Leads, Results, Terminal

\* The request follows its attempt.
LEMMA PhaseLeads ==
    ASSUME NEW s \in Terminal
    PROVE  s \in States /\ s \in DOMAIN Abstract!Leads /\ s \in Results /\ Phase(s) = Abstract!Leads[s]
  <1>1. s \in States /\ s \in Results /\ s # "queued"
    BY DEF States, Results, Terminal
  <1>2. QED
    BY <1>1, Endings, PhaseOf DEF Terminal

LEMMA ImplementedReconcile ==
    ASSUME Typed, overtaken \/ Guarded, overtaken \/ Calm', UNCHANGED overtaken, NEW c \in calls, FinishReconcile(c)
    PROVE  [Abstract!DeploymentNext]_(Abstract!deploymentVars)
  <1>1. CASE ~Unmoved(c)
    BY <1>1, ImplementedIdle DEF FinishReconcile, db
  <1>2. CASE Unmoved(c)
    <2>1. c.a \in 1..Last /\ Queued(c.a) /\ c.result \in {"recovery_required", "failed_retryable"}
      BY <1>2, Known DEF FinishReconcile, Lands, Unmoved, Queued, Shape, Verdict
    <2> DEFINE t == [attempts[c.a] EXCEPT !.result = c.result]
    <2>2. attempts' = [attempts EXCEPT ![c.a] = t] /\ state' = c.result /\ UNCHANGED unsettled
      BY <1>2, <2>1 DEF FinishReconcile, Typed, RowsOK, Last
    <2>3. c.result \in Terminal
      BY <2>1 DEF Terminal
    <2>4. t \in AttemptType /\ t.result = c.result
      BY <2>1, <2>3, AttemptAt DEF AttemptType, Results
    <2> HIDE DEF t
    <2>5. state' \in States /\ t.result \in DOMAIN Abstract!Leads /\ Phase(state') = Abstract!Leads[t.result]
      BY <2>2, <2>3, <2>4, PhaseLeads
    <2>6. unsettled /\ ~overtaken => c.result # "failed_retryable"
      BY <2>2 DEF Calm, StateCalm, Unsettled, Switching
    <2>7. unsettled /\ ~overtaken => Abstract!Leads[t.result] # "open"
      BY <2>1, <2>4, <2>6, Endings
    <2>8. t.result # "succeeded"
      BY <2>1, <2>4
    <2>9. Abstract!DeploymentNext
      BY <2>1, <2>2, <2>4, <2>5, <2>7, <2>8, ImplementedEnd
    <2>10. QED
      BY <2>9
  <1>3. QED
    BY <1>1, <1>2


\* The failure of a dispatch, in time.
LEMMA ImplementedFailure ==
    ASSUME Typed, Guarded, Calm', UNCHANGED overtaken, ~overtaken, NEW c \in calls, DispatchFails(c), ~Late(c)
    PROVE  [Abstract!DeploymentNext]_(Abstract!deploymentVars)
  <1>1. c.a \in 1..Last /\ Queued(c.a)
    <2>1. Landings(c) /\ c.op = "dispatch_request"
      BY DEF Landings, DispatchFails
    <2>2. QED
      BY <2>1, InTime
  <1>2. PICK t : t = [attempts[c.a] EXCEPT !.stage = "dispatch", !.result = "failed"]
    OBVIOUS
  <1>3. attempts' = [attempts EXCEPT ![c.a] = t] /\ state' = "failed_retryable" /\ UNCHANGED unsettled
    BY <1>1, <1>2 DEF DispatchFails, Typed, RowsOK, Last
  <1>4. t \in AttemptType /\ t.result = "failed"
    BY <1>1, <1>2, AttemptAt DEF AttemptType, Stages, Results
  <1>5. ~unsettled
    BY <1>3 DEF Calm, StateCalm, Unsettled, Switching
  <1>6. state' \in States /\ Phase(state') = "open"
    BY <1>3, PhaseOf DEF States, Terminal
  <1>7. t.result \in DOMAIN Abstract!Leads /\ Abstract!Leads[t.result] = "open" /\ t.result # "succeeded"
    BY <1>4 DEF Abstract!Leads
  <1>8. QED
    BY <1>1, <1>3, <1>4, <1>5, <1>6, <1>7, ImplementedEnd

\* A preflight passes, in time.
LEMMA PassesKeep ==
    ASSUME Typed, NEW c \in calls, PreflightPasses(c)
    PROVE  /\ c.a \in 1..Last /\ UNCHANGED unsettled /\ state' \in States /\ Phase(state') = Phase(state)
           /\ Last' = Last /\ \A b \in 1..Last : attempts'[b].result = attempts[b].result
  <1>0. c.a \in 1..Last /\ state \in States
    BY Known DEF PreflightPasses, Lands, Callbacks, Shape, Typed, RowsOK
  <1>1. c.result = "queued" /\ UNCHANGED unsettled /\ state' = IF state = "dispatched" THEN "running" ELSE state
    BY Known DEF PreflightPasses, Lands, Shape
  <1>2. state' \in States /\ Phase(state') = Phase(state)
    BY <1>0, <1>1, PhaseOf DEF States, Active
  <1>3. Last' = Last /\ \A b \in 1..Last : attempts'[b].result = attempts[b].result
    <2>1. CASE Queued(c.a)
      <3>1. attempts' = [attempts EXCEPT ![c.a] = Bound(c)]
        BY <2>1 DEF PreflightPasses
      <3>2. Bound(c).result = "queued"
        BY <1>1 DEF Bound
      <3>3. QED
        BY <1>0, <2>1, <3>1, <3>2, RowWritten DEF Queued
    <2>2. CASE ~Queued(c.a)
      BY <2>2 DEF PreflightPasses, Last
    <2>3. QED
      BY <2>1, <2>2
  <1>4. QED
    BY <1>0, <1>1, <1>2, <1>3

LEMMA Rejects ==
    ASSUME Typed, NEW c \in calls, PreflightRejected(c)
    PROVE  /\ c.a \in 1..Last /\ UNCHANGED unsettled /\ state' = "failed_terminal" /\ c.result = "failed_terminal"
           /\ IF Queued(c.a) THEN attempts' = [attempts EXCEPT ![c.a] = Bound(c)] ELSE UNCHANGED attempts
           /\ Bound(c) \in AttemptType /\ Bound(c).result = "failed_terminal"
  <1>1. c.op = "reject" /\ c.op \in Callbacks /\ state' = "failed_terminal" /\ UNCHANGED unsettled
        /\ attempts' = IF Queued(c.a) THEN [attempts EXCEPT ![c.a] = Bound(c)] ELSE attempts
    BY DEF PreflightRejected, Lands, Callbacks
  <1>2. c.a \in 1..Last /\ c.result = "failed_terminal"
    BY <1>1, Known DEF Shape
  <1>3. Bound(c) \in AttemptType /\ Bound(c).result = "failed_terminal"
    BY <1>1, <1>2, BoundType DEF Bound
  <1>4. QED
    BY <1>1, <1>2, <1>3

\* A preflight is rejected, in time.
LEMMA ImplementedRejection ==
    ASSUME Typed, Guarded, UNCHANGED overtaken, NEW c \in calls, PreflightRejected(c), ~Late(c)
    PROVE  [Abstract!DeploymentNext]_(Abstract!deploymentVars)
  <1>1. Queued(c.a)
    <2>1. Landings(c) /\ c.op = "reject"
      BY DEF Landings, PreflightRejected, Lands
    <2>2. QED
      BY <2>1, InTime
  <1>2. PICK t : t = Bound(c)
    OBVIOUS
  <1>3. /\ c.a \in 1..Last /\ UNCHANGED unsettled /\ state' = "failed_terminal"
        /\ attempts' = [attempts EXCEPT ![c.a] = t] /\ t \in AttemptType /\ t.result = "failed_terminal"
    BY <1>1, <1>2, Rejects
  <1>4. state' \in States /\ t.result \in DOMAIN Abstract!Leads /\ Phase(state') = Abstract!Leads[t.result]
    BY <1>3, PhaseLeads DEF Terminal
  <1>5. Abstract!Leads[t.result] # "open" /\ t.result # "succeeded"
    BY <1>3, Endings
  <1>6. QED
    BY <1>1, <1>3, <1>4, <1>5, ImplementedEnd

\* What a report writes.
LEMMA ReportWrites ==
    ASSUME Typed, NEW c \in calls, StatusRecorded(c)
    PROVE  /\ c.op \in Reporting /\ c.op \in Callbacks /\ c.a \in 1..Last
           /\ attempts' = [attempts EXCEPT ![c.a] = Reported(c)]
           /\ c.result \in Terminal \cup {"queued"} /\ c.stage \in Stages
           /\ Reported(c) \in AttemptType
           /\ Reported(c).result = IF Queued(c.a) THEN c.result ELSE attempts[c.a].result
  <1>1. c.op \in Reporting /\ c.op \in Callbacks /\ attempts' = [attempts EXCEPT ![c.a] = Reported(c)]
    BY DEF StatusRecorded, Lands, Reporting, Callbacks
  <1>2. c.a \in 1..Last /\ \E s \in DOMAIN Message : Message[s] = <<c.stage, c.result>>
    BY <1>1, Known DEF Shape
  <1>3. c.result \in Terminal \cup {"queued"} /\ c.stage \in Stages /\ c.result \in Results
    BY <1>2, Messages DEF Results
  <1>4. attempts[c.a] \in AttemptType /\ attempts[c.a].try \in 0..MaxTries /\ c.try \in 0..MaxTries
    BY <1>2, AttemptAt, Known DEF Shape, CallType, AttemptType
  <1>5. PICK try \in 0..MaxTries : try = IF c.op = "binding_status" THEN c.try ELSE attempts[c.a].try
    BY <1>4
  <1>6. CASE Queued(c.a)
    <2>1. Reported(c) = [stage |-> c.stage, result |-> c.result, try |-> try]
      BY <1>5, <1>6 DEF Reported, Queued
    <2>2. QED
      BY <1>1, <1>2, <1>3, <1>6, <2>1 DEF AttemptType
  <1>7. CASE ~Queued(c.a)
    <2>1. Reported(c) = [attempts[c.a] EXCEPT !.try = try]
      BY <1>5, <1>7 DEF Reported, Queued
    <2>2. QED
      BY <1>1, <1>2, <1>3, <1>4, <1>7, <2>1 DEF AttemptType
  <1>8. QED
    BY <1>6, <1>7

\* A report, in time.
LEMMA ImplementedReport ==
    ASSUME Typed, Guarded, Calm, UNCHANGED overtaken, ~overtaken, NEW c \in calls, StatusRecorded(c), ~Late(c)
    PROVE  [Abstract!DeploymentNext]_(Abstract!deploymentVars)
  <1>1. /\ c.op \in Reporting /\ c.op \in Callbacks /\ c.a \in 1..Last
        /\ attempts' = [attempts EXCEPT ![c.a] = Reported(c)]
        /\ c.result \in Terminal \cup {"queued"} /\ Reported(c) \in AttemptType
    BY ReportWrites
  <1>2. Queued(c.a) /\ attempts[c.a].try <= c.try
    <2>1. Landings(c) /\ c.op # "preflight"
      BY <1>1 DEF Landings, Reporting
    <2>2. QED
      BY <2>1, InTime
  <1>3. Reported(c).result = c.result
    BY <1>2, ReportWrites
  <1>4. state \in States /\ state \in Active /\ Phase(state) = "busy"
    <2>1. state \in States /\ state \in Active
      BY <1>1, <1>2 DEF Guarded, QueuedActive, NoneQueued, Typed, RowsOK
    <2>2. QED
      BY <2>1, PhaseOf
  <1>5. CASE c.result \in Terminal
    <2>1. state' = c.result
      BY <1>5 DEF StatusRecorded
    <2>2. /\ state' \in States /\ Reported(c).result \in DOMAIN Abstract!Leads
          /\ Phase(state') = Abstract!Leads[Reported(c).result]
      BY <1>3, <1>5, <2>1, PhaseLeads
    <2>3. unsettled => c.result \in {"succeeded", "recovery_required"}
      <3>1. unsettled => \E r \in {"promote", "verify", "half_switched"} : Message[r] = <<c.stage, c.result>>
        <4>1. attempts[c.a].try \in Nat /\ c.try \in Nat
          BY <1>1, AttemptAt, Positive, Known DEF AttemptType, Shape, CallType
        <4>2. QED
          BY <1>1, <1>2, <4>1 DEF Calm, CallCalm, Telling
      <3>2. QED
        BY <1>5, <3>1 DEF Message, Terminal
    <2>4. unsettled => Abstract!Leads[Reported(c).result] # "open"
      BY <1>3, <2>3, Endings
    <2>5. c.client => runs[c.a].step # "upload"
      <3> SUFFICES ASSUME c.client, runs[c.a].step = "upload" PROVE FALSE
        OBVIOUS
      <3>1. Message["upload"] = <<c.stage, c.result>>
        BY <1>1, Known DEF Shape
      <3>2. QED
        BY <1>5, <3>1 DEF Message, Terminal
    <2>6. /\ c.result = "succeeded" => unsettled' = FALSE
          /\ c.result # "succeeded" => UNCHANGED unsettled
      BY <2>5 DEF StatusRecorded, Typed, RowsOK
    <2>7. QED
      BY <1>1, <1>2, <1>3, <2>2, <2>4, <2>6, ImplementedEnd
  <1>6. CASE c.result = "queued"
    <2>1. Last' = Last /\ \A b \in 1..Last : attempts'[b].result = attempts[b].result
      BY <1>1, <1>2, <1>3, <1>6, RowWritten DEF Queued
    <2>2. state' \in Active /\ state' \in States
      BY <1>6 DEF StatusRecorded, Terminal, Active, States, Switching
    <2>3. Phase(state') = "busy"
      BY <2>2, PhaseOf
    <2>4. Outcomes' = Outcomes
      BY <2>1, OutcomesStay
    <2>5. Abstract!Executing
      BY <1>1, <1>2, <1>4, OutcomesAt DEF NoneQueued, Abstract!Executing
    <2>6. unsettled' \in {unsettled, TRUE}
      BY <1>6 DEF StatusRecorded, Typed, RowsOK
    <2>7. Abstract!GoOn
      BY <2>3, <2>4, <2>5, <2>6 DEF Abstract!GoOn
    <2>8. QED
      BY <2>7 DEF Abstract!DeploymentNext
  <1>7. QED
    BY <1>1, <1>5, <1>6

\* What is written after something came too late.
LEMMA ImplementedLate ==
    ASSUME Typed, NEW c \in calls, Landings(c), overtaken' = TRUE
    PROVE  Abstract!DeploymentNext
  <1> SUFFICES ASSUME c.a \in Abstract!Tried => ~(Abstract!ReportLate(c.a) \/ Abstract!BindLate \/ Abstract!FailLate(c.a))
               PROVE  FALSE
    BY DEF Abstract!DeploymentNext, Abstract!Overtake
  <1>0. unsettled \in BOOLEAN
    BY DEF Typed, RowsOK
  <1>1. CASE DispatchFails(c)
    <2>1. c.op = "dispatch_request" /\ c.at \in {"inserted", "accepted"} /\ state' = "failed_retryable"
          /\ attempts' = [attempts EXCEPT ![c.a].stage = "dispatch", ![c.a].result = "failed"] /\ UNCHANGED unsettled
      BY <1>1 DEF DispatchFails
    <2>2. c.a \in 1..Last
      BY <2>1, Known DEF Shape
    <2>3. PICK t : t = [attempts[c.a] EXCEPT !.stage = "dispatch", !.result = "failed"]
      OBVIOUS
    <2>4. attempts' = [attempts EXCEPT ![c.a] = t]
      BY <2>1, <2>2, <2>3 DEF Typed, RowsOK, Last
    <2>5. t \in AttemptType /\ t.result = "failed"
      BY <2>2, <2>3, AttemptAt DEF AttemptType, Stages, Results
    <2>6. Outcomes' = [Outcomes EXCEPT ![c.a] = "failed"]
      BY <2>2, <2>4, <2>5, OutcomeWritten
    <2>7. Phase(state') = "open"
      BY <2>1, PhaseOf DEF States, Terminal
    <2>8. Abstract!FailLate(c.a)
      BY <2>1, <2>6, <2>7 DEF Abstract!FailLate, Abstract!Ended
    <2>9. QED
      BY <2>2, <2>8, OutcomesAt
  <1>2. CASE PreflightPasses(c)
    <2>1. Abstract!BindLate /\ c.a \in 1..Last
      BY <1>2, PassesKeep, OutcomesStay DEF Abstract!BindLate
    <2>2. QED
      BY <2>1, OutcomesAt
  <1>3. CASE PreflightRejected(c)
    <2>1. /\ c.a \in 1..Last /\ UNCHANGED unsettled /\ state' = "failed_terminal"
          /\ IF Queued(c.a) THEN attempts' = [attempts EXCEPT ![c.a] = Bound(c)] ELSE UNCHANGED attempts
          /\ Bound(c) \in AttemptType /\ Bound(c).result = "failed_terminal"
      BY <1>3, Rejects
    <2>2. "failed_terminal" \in DOMAIN Abstract!Leads /\ Phase(state') = Abstract!Leads["failed_terminal"]
      BY <2>1, PhaseLeads DEF Terminal
    <2>3. IF Queued(c.a) THEN Outcomes' = [Outcomes EXCEPT ![c.a] = "failed_terminal"] ELSE Outcomes' = Outcomes
      BY <2>1, OutcomeWritten, OutcomesStay DEF Last
    <2>4. c.a \in Abstract!Tried /\ (Abstract!Queued(c.a) <=> Queued(c.a))
      BY <2>1, OutcomesAt
    <2>5. unsettled' \in {unsettled /\ "failed_terminal" # "succeeded", "failed_terminal" # "succeeded"}
      BY <1>0, <2>1
    <2>6. Abstract!ReportLate(c.a)
      BY <2>2, <2>3, <2>4, <2>5 DEF Abstract!ReportLate, Abstract!Ended
    <2>7. QED
      BY <2>4, <2>6
  <1>4. CASE StatusRecorded(c)
    <2>1. PICK t \in AttemptType : t = Reported(c)
      BY <1>4, ReportWrites
    <2>2. /\ c.a \in 1..Last /\ attempts' = [attempts EXCEPT ![c.a] = t]
          /\ c.result \in Terminal \cup {"queued"}
          /\ t.result = IF Queued(c.a) THEN c.result ELSE attempts[c.a].result
      BY <1>4, <2>1, ReportWrites
    <2>3. IF Queued(c.a) THEN Outcomes' = [Outcomes EXCEPT ![c.a] = c.result] ELSE Outcomes' = Outcomes
      <3>1. CASE Queued(c.a)
        BY <2>1, <2>2, <3>1, OutcomeWritten
      <3>2. CASE ~Queued(c.a)
        <4>1. Last' = Last /\ \A b \in 1..Last : attempts'[b].result = attempts[b].result
          BY <2>2, <3>2, RowWritten
        <4>2. QED
          BY <3>2, <4>1, OutcomesStay
      <3>3. QED
        BY <3>1, <3>2
    <2>4. c.a \in Abstract!Tried /\ (Abstract!Queued(c.a) <=> Queued(c.a))
      BY <2>2, OutcomesAt
    <2>5. unsettled' \in {unsettled /\ c.result # "succeeded", c.result # "succeeded"}
      BY <1>0, <1>4 DEF StatusRecorded
    <2>6. CASE c.result \in Terminal
      <3>1. state' = c.result /\ c.result # "queued"
        BY <1>4, <2>6 DEF StatusRecorded, Terminal
      <3>2. c.result \in DOMAIN Abstract!Leads /\ Phase(state') = Abstract!Leads[c.result]
        BY <2>6, <3>1, PhaseLeads
      <3>3. Abstract!ReportLate(c.a)
        BY <2>3, <2>4, <2>5, <3>1, <3>2 DEF Abstract!ReportLate, Abstract!Ended
      <3>4. QED
        BY <2>4, <3>3
    <2>7. CASE c.result = "queued"
      <3>1. state' \in Active /\ state' \in States
        BY <1>4, <2>7 DEF StatusRecorded, Terminal, Active, States, Switching
      <3>2. Phase(state') = "busy"
        BY <3>1, PhaseOf
      <3>3. Abstract!ReportLate(c.a)
        BY <2>3, <2>4, <2>5, <2>7, <3>2 DEF Abstract!ReportLate, Abstract!Ended
      <3>4. QED
        BY <2>4, <3>3
    <2>8. QED
      BY <2>2, <2>6, <2>7
  <1>5. QED
    BY <1>1, <1>2, <1>3, <1>4 DEF Landings

\* What is written in time.
LEMMA ImplementedInTime ==
    ASSUME Typed, Guarded, Calm, Calm', UNCHANGED overtaken, ~overtaken, NEW c \in calls, Landings(c), ~Late(c)
    PROVE  [Abstract!DeploymentNext]_(Abstract!deploymentVars)
  <1>1. CASE PreflightPasses(c)
    BY <1>1, PassesKeep, ImplementedQuiet
  <1>2. QED
    BY <1>1, ImplementedFailure, ImplementedRejection, ImplementedReport DEF Landings

LEMMA ImplementedStep ==
    /\ Typed /\ (overtaken \/ Guarded) /\ (overtaken \/ Calm) /\ (overtaken \/ Calm)' /\ overtaken \in BOOLEAN
    /\ [ControlNext]_controlVars
    => [Abstract!DeploymentNext]_(Abstract!deploymentVars)
  <1> SUFFICES ASSUME Typed, overtaken \/ Guarded, overtaken \/ Calm, (overtaken \/ Calm)', overtaken \in BOOLEAN,
                      [ControlNext]_controlVars
               PROVE  [Abstract!DeploymentNext]_(Abstract!deploymentVars)
    OBVIOUS
  <1>1. ASSUME UNCHANGED <<db, unsettled, overtaken>> PROVE [Abstract!DeploymentNext]_(Abstract!deploymentVars)
    BY <1>1, ImplementedIdle
  <1>2. ASSUME NEW c \in calls, Landings(c), overtaken' = (overtaken \/ Late(c))
        PROVE  [Abstract!DeploymentNext]_(Abstract!deploymentVars)
    <2>1. CASE overtaken \/ Late(c)
      <3>1. overtaken' = TRUE
        BY <1>2, <2>1, Zenon
      <3>2. QED
        BY <1>2, <3>1, ImplementedLate
    <2>2. CASE ~overtaken /\ ~Late(c)
      <3>1. overtaken' = overtaken /\ ~overtaken'
        BY <1>2, <2>2, Zenon
      <3>2. Guarded /\ Calm /\ Calm'
        BY <2>2, <3>1
      <3>3. QED
        BY <1>2, <2>2, <3>1, <3>2, ImplementedInTime
    <2>3. QED
      BY <2>1, <2>2
  <1>3. ASSUME NEW c \in calls, Handlers(c), UNCHANGED overtaken
        PROVE  [Abstract!DeploymentNext]_(Abstract!deploymentVars)
    <2>c. overtaken \/ Calm'
      BY <1>3
    <2>1. CASE Chain(c) \/ Abandon(c) \/ ReadAttempt(c) \/ RunIsCancelled(c) \/ CheckDispatch(c) \/ NumberAttempt(c)
               \/ RunStarts(c) \/ DispatchEnds(c) \/ PreflightFails(c)
      BY <1>1, <1>3, <2>1, StillThere DEF db
    <2>2. CASE FinishOperation(c)
      BY <1>3, <2>2, ImplementedOperation
    <2>3. CASE FinishReconcile(c)
      BY <1>3, <2>c, <2>3, ImplementedReconcile
    <2>4. CASE Claim(c) \/ InsertAttempt(c) \/ Unclaim(c)
      BY <1>3, <2>4, ImplementedDispatch
    <2>5. QED
      BY <1>3, <2>1, <2>2, <2>3, <2>4 DEF Handlers
  <1>4. ASSUME Operations, UNCHANGED overtaken PROVE [Abstract!DeploymentNext]_(Abstract!deploymentVars)
    BY <1>1, <1>4 DEF Operations, StartOperation, StartReconcile, StartDispatch
  <1>5. ASSUME NEW a \in Attempts, Run(a), UNCHANGED overtaken
        PROVE  [Abstract!DeploymentNext]_(Abstract!deploymentVars)
    BY <1>1, <1>5 DEF Run, Preflight, PreflightRefused, Status, StatusRefused, StartPublish, StepFails, SetupFails,
           ArtifactInvalid, CancelRun, Rerun
  <1>6. CASE UNCHANGED controlVars
    BY <1>1, <1>6 DEF controlVars, db
  <1>7. QED
    BY <1>2, <1>3, <1>4, <1>5, <1>6 DEF ControlNext

LEMMA ImplementedInit == ControlInit => Abstract!DeploymentInit
  <1> SUFFICES ASSUME ControlInit PROVE Abstract!DeploymentInit
    OBVIOUS
  <1>1. Phase(state) = "open" /\ unsettled = FALSE /\ overtaken = FALSE
    BY PhaseOf DEF ControlInit, States
  <1>2. Outcomes = <<>>
    BY DEF ControlInit, Outcomes, Last
  <1>3. QED
    BY <1>1, <1>2 DEF Abstract!DeploymentInit

\* The handlers, reports and runs do to a request only what the abstract
\* deployment does: its attempts follow each other, each ends once by the one
\* that finds it under way, and a request whose pointers may be half switched is
\* opened again by success or an operator only; what is written too late does
\* no more than the Overtake of the abstract deployment.
THEOREM ImplementsDeployment == ControlSpec => DeploymentImplemented
  <1> DEFINE Inv == /\ Typed /\ (overtaken \/ Guarded) /\ (overtaken \/ Careful) /\ (overtaken \/ Calm)
                    /\ overtaken \in BOOLEAN
  <1>1. ControlInit => Inv
    BY TypedInit, GuardedInit, CarefulInit, CalmInit DEF ControlInit
  <1>2. Inv /\ [ControlNext]_controlVars => Inv'
    BY TypedStep, GuardedStep, CarefulStep, CalmStep, OvertakenTyped
  <1>3. Inv /\ Inv' /\ [ControlNext]_controlVars => [Abstract!DeploymentNext]_(Abstract!deploymentVars)
    BY ImplementedStep
  <1>4. QED
    BY <1>1, <1>2, <1>3, ImplementedInit, PTL DEF ControlSpec, DeploymentImplemented, Abstract!DeploymentSpec
=============================================================================
