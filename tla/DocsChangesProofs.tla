-------------------------- MODULE DocsChangesProofs --------------------------
(***************************************************************************)
(* For any number of saves, requests and faults, and with any of the       *)
(* requests outliving their leases: a head that was recorded or told of    *)
(* stays on GitHub, what is merged was told of and validated, and no save  *)
(* is taken twice.  While none has outlived its lease, a merge takes every *)
(* save an editor was told of.                                             *)
(***************************************************************************)
EXTENDS DocsChanges, TLAPS

\* What the steps of a request rely on: the save it was sent with, the commit it saw on
\* the branch, and the head it was asked to publish.
Underway ==
    \A r \in Requests :
        /\ req[r].pc = "check" /\ req[r].key # None => headOf[req[r].key] # None
        /\ req[r].pc \in {"list", "open", "complete"} => Reaches(req[r].commit)
        /\ req[r].pc = "check" /\ req[r].key = None => req[r].head \in acked
        /\ req[r].pc \in {"ready", "merge"} => req[r].head \in acked

MergedOnce == mergedAt # None => pull = "merged"

IInv == TypeOK /\ Underway /\ MergedOnce /\ SavedIsKept /\ MergedAsConfirmed

LEMMA HeadsType == Base \in Heads /\ \A h \in Heads : h # None
  BY NoneAssumption DEF Base, Heads

LEMMA InitIInv == Init => IInv
  <1> SUFFICES ASSUME Init PROVE IInv
    OBVIOUS
  <1>1. \A r \in Requests : req[r].pc = "idle"
    BY DEF Init, Idle
  <1>2. req \in [Requests -> [pc: Steps, key: Keys \cup {None}, commit: {None} \cup Heads,
                             head: Heads, pr: BOOLEAN]]
    BY HeadsType DEF Init, Idle, Steps
  <1>3. change \in [there: BOOLEAN, head: Heads, pr: BOOLEAN, merged: BOOLEAN]
    BY HeadsType DEF Init, NoChange
  <1>4. TypeOK
    <2>1. /\ made \in [Keys -> 0..MaxMade] /\ faults \in 0..MaxFaults
      BY BoundsAssumption DEF Init
    <2>2. /\ ops \in [Keys -> [state: {"absent", "started", "completed"},
                              commit: {None} \cup Heads]]
          /\ headOf \in [Keys -> {None} \cup Heads]
      BY DEF Init
    <2>3. QED
      BY <1>1, <1>2, <1>3, <2>1, <2>2 DEF Init, TypeOK, RequestsOK, StoresOK, WithCommit
  <1>5. Underway
    BY <1>1 DEF Underway
  <1>6. MergedOnce /\ SavedIsKept /\ MergedAsConfirmed
    BY DEF Init, MergedOnce, SavedIsKept, MergedAsConfirmed, Reaches, NoChange
  <1>7. QED
    BY <1>4, <1>5, <1>6 DEF IInv

\* What GitHub has, it keeps: the branch only moves forwards, and only what was merged
\* from it may be deleted.
Keeps == \A h \in Heads : Reaches(h) => Reaches(h)'

LEMMA KeepsStep == IInv /\ [Next]_vars => Keeps
  <1> SUFFICES ASSUME IInv, [Next]_vars, NEW h \in Heads, Reaches(h) PROVE Reaches(h)'
    BY DEF Keeps
  <1> USE DEF Reaches
  <1>1. CASE UNCHANGED <<branch, mergedAt>>
    BY <1>1
  <1>2. ASSUME NEW r \in Requests, WriteRef(r) PROVE Reaches(h)'
    <2>1. req[r].commit \in Heads /\ req[r].commit # None
      BY <1>2 DEF WriteRef, IInv, TypeOK, RequestsOK, WithCommit
    <2>2. QED
      BY <1>2, <2>1 DEF WriteRef, Base
  <1>3. ASSUME NEW r \in Requests, Merge(r) PROVE Reaches(h)'
    BY <1>3 DEF Merge, Mergeable, IInv, MergedOnce
  <1>4. ASSUME ~ UNCHANGED <<branch, mergedAt>> PROVE \E r \in Requests : WriteRef(r) \/ Merge(r)
    <2> USE DEF Fail, Fault, Goto, github, rest, client
    <2>1. ASSUME NEW r \in Requests, NEW k \in Keys, StartSave(r, k) PROVE FALSE
      BY <2>1, <1>4 DEF StartSave
    <2>2. ASSUME NEW r \in Requests, NEW x \in acked, StartPublish(r, x) PROVE FALSE
      BY <2>2, <1>4 DEF StartPublish
    <2>3. ASSUME NEW r \in Requests, CallFails(r) \/ Killed(r) PROVE FALSE
      BY <2>3, <1>4 DEF CallFails, Killed
    <2>4. ASSUME NEW r \in Requests, CheckPublish(r) \/ CheckAgain(r) \/ Mark(r) PROVE FALSE
      BY <2>4, <1>4 DEF CheckPublish, CheckAgain, Mark
    <2>5. ASSUME NEW r \in Requests,
                 Check(r) \/ Refuse(r) \/ Journal(r) \/ Commit(r) \/ Record(r) \/ Look(r)
          PROVE FALSE
      BY <2>5, <1>4 DEF Check, Refuse, Journal, Commit, Record, Look
    <2>6. ASSUME NEW r \in Requests,
                 Verify(r) \/ ListPulls(r) \/ OpenPull(r) \/ Complete(r) \/ Answer(r)
          PROVE FALSE
      BY <2>6, <1>4 DEF Verify, ListPulls, OpenPull, Complete, Answer
    <2>7. ASSUME Lapse \/ CheckPasses \/ MasterMoves \/ PullCloses PROVE FALSE
      BY <2>7, <1>4 DEF Lapse, CheckPasses, MasterMoves, PullCloses
    <2>8. ~ UNCHANGED vars
      BY <1>4 DEF vars
    <2>9. QED
      BY <2>1, <2>2, <2>3, <2>4, <2>5, <2>6, <2>7, <2>8 DEF Next, Step, SaveStep, PublishStep
  <1>5. QED
    BY <1>1, <1>2, <1>3, <1>4

\* The record of a request, and the row.
ReqType == [pc: Steps, key: Keys \cup {None}, commit: {None} \cup Heads, head: Heads, pr: BOOLEAN]
RowType == [there: BOOLEAN, head: Heads, pr: BOOLEAN, merged: BOOLEAN]

LEMMA IdleType == Idle \in ReqType /\ NoChange \in RowType
  BY HeadsType DEF Idle, ReqType, NoChange, RowType, Steps

\* A request that ends.
LEMMA EndsOK ==
    ASSUME TypeOK, NEW r \in Requests, req' = [req EXCEPT ![r] = Idle], headOf' = headOf
    PROVE  RequestsOK'
  BY IdleType DEF TypeOK, RequestsOK, ReqType, Idle, WithCommit

LEMMA UnlockOK ==
    ASSUME StoresOK, NEW r \in Requests, Unlock(r)
    PROVE  lock' \in Requests \cup {None, Orphan} /\ live' \in BOOLEAN
  BY DEF StoresOK, Unlock

LEMMA FailOK ==
    ASSUME TypeOK, NEW r \in Requests, Fail(r), headOf' = headOf
    PROVE  /\ RequestsOK' /\ UNCHANGED db
           /\ lock' \in Requests \cup {None, Orphan} /\ live' \in BOOLEAN
  BY EndsOK, UnlockOK DEF Fail, TypeOK

LEMMA FaultOK ==
    ASSUME TypeOK, NEW r \in Requests, Fault(r), headOf' = headOf
    PROVE  /\ RequestsOK' /\ UNCHANGED <<db, late>>
           /\ lock' \in Requests \cup {None, Orphan} /\ live' \in BOOLEAN
           /\ faults' \in 0..MaxFaults
  BY FailOK, BoundsAssumption DEF Fault, TypeOK, StoresOK

LEMMA RejectedOK ==
    ASSUME TypeOK, NEW r \in Requests, NEW head \in Heads, NEW pr \in BOOLEAN,
           Rejected(r, head, pr), headOf' = headOf
    PROVE  /\ RequestsOK' /\ UNCHANGED ops /\ change' \in {change, NoChange}
           /\ change' \in RowType
           /\ lock' \in Requests \cup {None, Orphan} /\ live' \in BOOLEAN
  BY EndsOK, UnlockOK, IdleType DEF Rejected, TypeOK, StoresOK, RowType

\* A request that goes on with what it had.
LEMMA GotoOK ==
    ASSUME TypeOK, NEW r \in Requests, NEW pc \in Steps, Goto(r, pc), headOf' = headOf,
           pc \in WithCommit => req[r].commit # None,
           pc \in WithCommit \cup {"journal", "commit"} =>
               req[r].key # None /\ headOf[req[r].key] # None
    PROVE  RequestsOK'
  BY DEF TypeOK, RequestsOK, Goto, ReqType

\* Every step keeps the types.
LEMMA TypeStep == IInv /\ [Next]_vars => TypeOK'
  <1> SUFFICES ASSUME IInv, [Next]_vars PROVE TypeOK'
    OBVIOUS
  <1> USE DEF db, lease, github, client, rest, WithCommit
  <1>t. TypeOK /\ StoresOK
    BY DEF IInv, TypeOK
  <1>u. \A r \in Requests :
            /\ req[r] \in ReqType
            /\ req[r].pc \in WithCommit => req[r].commit \in Heads /\ req[r].commit # None
            /\ req[r].pc \in WithCommit \cup {"journal", "commit"} =>
                   req[r].key \in Keys /\ req[r].key # None /\ headOf[req[r].key] # None
            /\ req[r].pc = "check" /\ req[r].key # None =>
                   req[r].key \in Keys /\ headOf[req[r].key] # None
    BY HeadsType DEF IInv, TypeOK, RequestsOK, ReqType, Underway
  <1>1. ASSUME NEW r \in Requests, NEW k \in Keys, StartSave(r, k) PROVE TypeOK'
    <2>1. headOf' \in [Keys -> {None} \cup Heads] /\ headOf'[k] # None
          /\ \A x \in Keys : headOf[x] # None => headOf'[x] = headOf[x]
      BY <1>1, <1>t, HeadsType DEF StartSave, StoresOK
    <2>2. RequestsOK'
      BY <1>1, <1>t, <1>u, <2>1, IdleType DEF StartSave, RequestsOK, ReqType, Idle, Steps, TypeOK
    <2>3. StoresOK'
      BY <1>1, <1>t, <2>1, NoneAssumption DEF StartSave, Lock, StoresOK
    <2>4. QED
      BY <2>2, <2>3 DEF TypeOK
  <1>2. ASSUME NEW r \in Requests, NEW h \in acked, StartPublish(r, h) PROVE TypeOK'
    <2>1. RequestsOK'
      BY <1>2, <1>t, IdleType DEF StartPublish, TypeOK, StoresOK, RequestsOK, ReqType, Idle, Steps
    <2>2. StoresOK'
      BY <1>2, <1>t, NoneAssumption DEF StartPublish, Lock, StoresOK
    <2>3. QED
      BY <2>1, <2>2 DEF TypeOK
  <1>3. ASSUME NEW r \in Requests, CallFails(r) \/ Killed(r) PROVE TypeOK'
    <2>1. CASE CallFails(r)
      BY <2>1, <1>t, FaultOK DEF CallFails, TypeOK, StoresOK
    <2>2. CASE Killed(r)
      <3>1. RequestsOK'
        BY <2>2, <1>t, EndsOK DEF Killed
      <3>2. faults' \in 0..MaxFaults
        BY <2>2, <1>t, BoundsAssumption DEF Killed, StoresOK
      <3>3. QED
        BY <2>2, <1>t, <3>1, <3>2 DEF Killed, TypeOK, StoresOK
    <2>3. QED
      BY <1>3, <2>1, <2>2
  <1>4. ASSUME NEW r \in Requests, Check(r) PROVE TypeOK'
    <2> DEFINE k == req[r].key
               q == [pc |-> Resumes(k), key |-> k, commit |-> ops[k].commit,
                     head |-> change.head, pr |-> change.pr]
    <2>1. k \in Keys /\ k # None /\ headOf[k] # None
      BY <1>4, <1>u DEF Check
    <2>2. CASE req' = [req EXCEPT ![r] = q] /\ UNCHANGED <<db, lease, acked>>
      <3>1. /\ Resumes(k) \in {"journal", "commit", "look"}
            /\ Resumes(k) = "look" => ops[k].commit # None
        BY DEF Resumes
      <3>2. q \in ReqType
        BY <2>1, <3>1, <1>t DEF StoresOK, ReqType, Steps
      <3>3. RequestsOK'
        BY <1>4, <1>t, <1>u, <2>1, <2>2, <3>1, <3>2 DEF Check, RequestsOK, TypeOK, ReqType
      <3>4. QED
        BY <1>4, <1>t, <2>2, <3>3 DEF Check, TypeOK, StoresOK
    <2>3. CASE Fail(r) /\ acked' \in {acked, acked \cup {change.head}}
      BY <1>4, <1>t, <2>3, FailOK DEF Check, TypeOK, StoresOK
    <2>4. CASE Rejected(r, change.head, change.pr) /\ UNCHANGED acked
      <3>1. change.head \in Heads /\ change.pr \in BOOLEAN
        BY <1>t DEF StoresOK
      <3>2. QED
        BY <1>4, <1>t, <2>4, <3>1, RejectedOK DEF Check, TypeOK, StoresOK, RowType
    <2>5. QED
      BY <1>4, <2>2, <2>3, <2>4 DEF Check
  <1>5. ASSUME NEW r \in Requests, Refuse(r) PROVE TypeOK'
    <2>1. req[r].head \in Heads /\ req[r].pr \in BOOLEAN
      BY <1>u DEF ReqType
    <2>2. QED
      BY <1>5, <1>t, <2>1, RejectedOK DEF Refuse, TypeOK, StoresOK, RowType
  <1>7. ASSUME NEW r \in Requests, Commit(r) PROVE TypeOK'
    <2> DEFINE k == req[r].key
               c == headOf[k] \cup {<<k, made[k] + 1>>}
    <2>1. k \in Keys /\ k # None /\ headOf[k] \in Heads /\ headOf[k] # None
          /\ made[k] + 1 \in 1..MaxMade
      BY <1>7, <1>t, <1>u, BoundsAssumption DEF Commit, StoresOK
    <2>2. c \in Heads /\ c # None
      BY <2>1, HeadsType DEF Heads
    <2>3. made' \in [Keys -> 0..MaxMade]
      BY <1>7, <1>t, <2>1 DEF Commit, StoresOK
    <2>4. CASE Fault(r)
      BY <1>7, <1>t, <2>3, <2>4, FaultOK DEF Commit, TypeOK, StoresOK
    <2>5. CASE req' = [req EXCEPT ![r].pc = "record", ![r].commit = c]
               /\ UNCHANGED <<db, lease, rest>>
      <3>1. RequestsOK'
        <4>1. /\ req'[r].commit = c /\ req'[r].key = k /\ req'[r] \in ReqType
              /\ \A x \in Requests \ {r} : req'[x] = req[x]
              /\ headOf' = headOf
          BY <1>7, <1>t, <1>u, <2>2, <2>5 DEF Commit, TypeOK, RequestsOK, ReqType, Steps
        <4>2. req' \in [Requests -> ReqType]
          BY <1>t, <2>5, <4>1 DEF TypeOK, RequestsOK, ReqType
        <4>3. QED
          BY <1>u, <2>1, <2>2, <4>1, <4>2 DEF RequestsOK, ReqType
      <3>2. QED
        BY <1>7, <1>t, <2>3, <2>5, <3>1 DEF Commit, TypeOK, StoresOK
    <2>6. QED
      BY <1>7, <2>4, <2>5 DEF Commit
  <1>6. ASSUME NEW r \in Requests, Journal(r) PROVE TypeOK'
    <2>1. headOf' = headOf /\ (Goto(r, "commit") \/ Fail(r))
      BY <1>6 DEF Journal
    <2>2. RequestsOK'
      BY <1>6, <1>t, <1>u, <2>1, GotoOK, FailOK DEF Journal, Steps
    <2>3. StoresOK'
      BY <1>6, <1>t, <1>u, FailOK DEF Journal, StoresOK
    <2>4. QED
      BY <2>2, <2>3 DEF TypeOK
  <1>8. ASSUME NEW r \in Requests, Record(r) PROVE TypeOK'
    <2>1. headOf' = headOf /\ (Goto(r, "look"))
      BY <1>8 DEF Record
    <2>2. RequestsOK'
      BY <1>8, <1>t, <1>u, <2>1, GotoOK DEF Record, Steps
    <2>3. StoresOK'
      BY <1>8, <1>t, <1>u DEF Record, StoresOK
    <2>4. QED
      BY <2>2, <2>3 DEF TypeOK
  <1>9. ASSUME NEW r \in Requests, Look(r) PROVE TypeOK'
    <2>1. headOf' = headOf /\ (Goto(r, "post") \/ Goto(r, "patch") \/ Goto(r, "verify") \/ Fail(r))
      BY <1>9 DEF Look
    <2>2. RequestsOK'
      BY <1>9, <1>t, <1>u, <2>1, GotoOK, FailOK DEF Look, Steps
    <2>3. StoresOK'
      BY <1>9, <1>t, <1>u, FailOK DEF Look, StoresOK
    <2>4. QED
      BY <2>2, <2>3 DEF TypeOK
  <1>10. ASSUME NEW r \in Requests, WriteRef(r) PROVE TypeOK'
    <2>1. headOf' = headOf /\ (Goto(r, "verify") \/ Fail(r) \/ Fault(r))
      BY <1>10 DEF WriteRef
    <2>2. RequestsOK'
      BY <1>10, <1>t, <1>u, <2>1, GotoOK, FailOK, FaultOK DEF WriteRef, Steps
    <2>3. StoresOK'
      BY <1>10, <1>t, <1>u, FailOK, FaultOK DEF WriteRef, StoresOK
    <2>4. QED
      BY <2>2, <2>3 DEF TypeOK
  <1>11. ASSUME NEW r \in Requests, Verify(r) PROVE TypeOK'
    <2>1. headOf' = headOf /\ (Goto(r, "list") \/ Goto(r, "complete") \/ Fail(r))
      BY <1>11 DEF Verify
    <2>2. RequestsOK'
      BY <1>11, <1>t, <1>u, <2>1, GotoOK, FailOK DEF Verify, Steps
    <2>3. StoresOK'
      BY <1>11, <1>t, <1>u, FailOK DEF Verify, StoresOK
    <2>4. QED
      BY <2>2, <2>3 DEF TypeOK
  <1>12. ASSUME NEW r \in Requests, ListPulls(r) PROVE TypeOK'
    <2>1. headOf' = headOf /\ (Goto(r, "open") \/ Goto(r, "complete") \/ Fail(r))
      BY <1>12 DEF ListPulls
    <2>2. RequestsOK'
      BY <1>12, <1>t, <1>u, <2>1, GotoOK, FailOK DEF ListPulls, Steps
    <2>3. StoresOK'
      BY <1>12, <1>t, <1>u, FailOK DEF ListPulls, StoresOK
    <2>4. QED
      BY <2>2, <2>3 DEF TypeOK
  <1>13. ASSUME NEW r \in Requests, OpenPull(r) PROVE TypeOK'
    <2>1. headOf' = headOf /\ (Goto(r, "complete") \/ Fail(r) \/ Fault(r))
      BY <1>13 DEF OpenPull
    <2>2. RequestsOK'
      BY <1>13, <1>t, <1>u, <2>1, GotoOK, FailOK, FaultOK DEF OpenPull, Steps
    <2>3. StoresOK'
      BY <1>13, <1>t, <1>u, FailOK, FaultOK DEF OpenPull, StoresOK
    <2>4. QED
      BY <2>2, <2>3 DEF TypeOK
  <1>14. ASSUME NEW r \in Requests, Complete(r) PROVE TypeOK'
    <2>1. headOf' = headOf /\ (Goto(r, "answer"))
      BY <1>14 DEF Complete
    <2>2. RequestsOK'
      BY <1>14, <1>t, <1>u, <2>1, GotoOK DEF Complete, Steps
    <2>3. StoresOK'
      BY <1>14, <1>t, <1>u DEF Complete, StoresOK
    <2>4. QED
      BY <2>2, <2>3 DEF TypeOK
  <1>16. ASSUME NEW r \in Requests, CheckPublish(r) PROVE TypeOK'
    <2>1. headOf' = headOf /\ (Goto(r, "mark") \/ Goto(r, "ready") \/ Fail(r))
      BY <1>16 DEF CheckPublish
    <2>2. RequestsOK'
      BY <1>16, <1>t, <1>u, <2>1, GotoOK, FailOK DEF CheckPublish, Steps
    <2>3. StoresOK'
      BY <1>16, <1>t, <1>u, FailOK DEF CheckPublish, StoresOK
    <2>4. QED
      BY <2>2, <2>3 DEF TypeOK
  <1>17. ASSUME NEW r \in Requests, CheckAgain(r) PROVE TypeOK'
    <2>1. headOf' = headOf /\ (Goto(r, "merge") \/ Fail(r))
      BY <1>17 DEF CheckAgain
    <2>2. RequestsOK'
      BY <1>17, <1>t, <1>u, <2>1, GotoOK, FailOK DEF CheckAgain, Steps
    <2>3. StoresOK'
      BY <1>17, <1>t, <1>u, FailOK DEF CheckAgain, StoresOK
    <2>4. QED
      BY <2>2, <2>3 DEF TypeOK
  <1>18. ASSUME NEW r \in Requests, Merge(r) PROVE TypeOK'
    <2>1. headOf' = headOf /\ (Goto(r, "mark") \/ Fail(r) \/ Fault(r))
      BY <1>18 DEF Merge
    <2>2. RequestsOK'
      BY <1>18, <1>t, <1>u, <2>1, GotoOK, FailOK, FaultOK DEF Merge, Steps
    <2>3. StoresOK'
      BY <1>18, <1>t, <1>u, FailOK, FaultOK DEF Merge, StoresOK, Mergeable
    <2>4. QED
      BY <2>2, <2>3 DEF TypeOK
  <1>15. ASSUME NEW r \in Requests, Answer(r) PROVE TypeOK'
    BY <1>15, <1>t, FailOK DEF Answer, TypeOK, StoresOK
  <1>19. ASSUME NEW r \in Requests, Mark(r) PROVE TypeOK'
    BY <1>19, <1>t, EndsOK, UnlockOK DEF Mark, TypeOK, StoresOK
  <1>20. ASSUME Lapse \/ CheckPasses \/ MasterMoves \/ PullCloses PROVE TypeOK'
    BY <1>20, <1>t DEF Lapse, CheckPasses, MasterMoves, PullCloses, TypeOK, RequestsOK, StoresOK
  <1>21. CASE UNCHANGED vars
    BY <1>21, <1>t DEF vars, TypeOK, RequestsOK, StoresOK
  <1>22. QED
    BY <1>1, <1>2, <1>3, <1>4, <1>5, <1>6, <1>7, <1>8, <1>9, <1>10, <1>11, <1>12, <1>13,
       <1>14, <1>15, <1>16, <1>17, <1>18, <1>19, <1>20, <1>21
       DEF Next, Step, SaveStep, PublishStep

\* What an editor was told is not taken back, and the row only takes up a head that a
\* request has seen on the branch.
Grows ==
    /\ acked \subseteq acked' /\ acked' \subseteq acked \cup {change.head}
    /\ checked \subseteq checked'
    /\ \A k \in Keys : headOf[k] # None => headOf'[k] # None
    /\ \/ change'.head \in {change.head, Base}
       \/ \E r \in Requests : req[r].pc = "complete" /\ change'.head = req[r].commit
    /\ \/ mergedAt' = mergedAt /\ (mergedAt # None => pull' = "merged")
       \/ \E r \in Requests : Merge(r) /\ Mergeable(req[r].head)

LEMMA GrowsStep == IInv /\ [Next]_vars => Grows
  <1> SUFFICES ASSUME IInv, [Next]_vars PROVE Grows
    OBVIOUS
  <1> USE DEF db, github, client, rest, Fail, Fault, MergedOnce
  <1>t. MergedOnce /\ StoresOK
    BY DEF IInv, TypeOK
  <1>1. ASSUME NEW r \in Requests, NEW k \in Keys, StartSave(r, k) PROVE Grows
    <2>1. \A x \in Keys : headOf[x] # None => headOf'[x] # None
      BY <1>1, <1>t DEF StartSave, StoresOK
    <2>2. change'.head = change.head
      BY <1>1, <1>t DEF StartSave, StoresOK
    <2>3. QED
      BY <1>1, <1>t, <2>1, <2>2 DEF StartSave, Grows
  <1>2. ASSUME NEW r \in Requests, NEW h \in acked, StartPublish(r, h) PROVE Grows
    BY <1>2, <1>t DEF StartPublish, Grows
  <1>3. ASSUME NEW r \in Requests, CallFails(r) \/ Killed(r) PROVE Grows
    BY <1>3, <1>t DEF CallFails, Killed, Grows
  <1>4. ASSUME NEW r \in Requests, Check(r) \/ Refuse(r) PROVE Grows
    BY <1>4, <1>t DEF Check, Refuse, Rejected, NoChange, Grows
  <1>5. ASSUME NEW r \in Requests, Journal(r) \/ Commit(r) \/ Record(r) \/ Look(r) PROVE Grows
    BY <1>5, <1>t DEF Journal, Commit, Record, Look, Grows
  <1>6. ASSUME NEW r \in Requests, WriteRef(r) \/ Verify(r) \/ ListPulls(r) \/ OpenPull(r)
        PROVE Grows
    BY <1>6, <1>t DEF WriteRef, Verify, ListPulls, OpenPull, Grows
  <1>7. ASSUME NEW r \in Requests, Complete(r) PROVE Grows
    <2>1. change'.head = change.head \/ change'.head = req[r].commit
      BY <1>7, <1>t DEF Complete, StoresOK
    <2>2. QED
      BY <1>7, <1>t, <2>1 DEF Complete, Grows
  <1>8. ASSUME NEW r \in Requests, Answer(r) PROVE Grows
    BY <1>8, <1>t DEF Answer, Grows
  <1>9. ASSUME NEW r \in Requests, CheckPublish(r) \/ CheckAgain(r) PROVE Grows
    BY <1>9, <1>t DEF CheckPublish, CheckAgain, Grows
  <1>10. ASSUME NEW r \in Requests, Merge(r) PROVE Grows
    BY <1>10, <1>t DEF Merge, Grows
  <1>11. ASSUME NEW r \in Requests, Mark(r) PROVE Grows
    <2>1. change'.head = change.head
      BY <1>11, <1>t DEF Mark, StoresOK
    <2>2. QED
      BY <1>11, <1>t, <2>1 DEF Mark, Grows
  <1>12. ASSUME Lapse \/ CheckPasses \/ MasterMoves \/ PullCloses PROVE Grows
    BY <1>12, <1>t DEF Lapse, CheckPasses, MasterMoves, PullCloses, Grows
  <1>13. CASE UNCHANGED vars
    BY <1>13, <1>t DEF vars, Grows
  <1>14. QED
    BY <1>1, <1>2, <1>3, <1>4, <1>5, <1>6, <1>7, <1>8, <1>9, <1>10, <1>11, <1>12, <1>13
       DEF Next, Step, SaveStep, PublishStep

\* Where a request can be after a step, and what it was before.
Moves(r) ==
    \/ req'[r] = req[r]
    \/ req'[r] = Idle
    \/ req'[r].pc = "check" /\ req'[r].key # None /\ headOf'[req'[r].key] # None
    \/ req'[r].pc = "check" /\ req'[r].key = None /\ req'[r].head \in acked
    \/ req'[r].pc \in Steps \ {"check", "list", "open", "complete", "ready", "merge"}
    \/ /\ req'[r].pc \in {"list", "complete"} /\ req[r].pc = "verify" /\ branch = req[r].commit
       /\ req'[r].commit = req[r].commit /\ UNCHANGED <<branch, mergedAt>>
    \/ /\ req'[r].pc \in {"open", "complete"} /\ req[r].pc \in {"list", "open"}
       /\ req'[r].commit = req[r].commit
    \/ /\ req'[r].pc \in {"ready", "merge"} /\ req'[r].head = req[r].head
       /\ \/ req[r].pc = "check" /\ req[r].key = None
          \/ req[r].pc = "ready"

LEMMA MovesStep == IInv /\ [Next]_vars => \A r \in Requests : Moves(r)
  <1> SUFFICES ASSUME IInv, [Next]_vars, NEW x \in Requests PROVE Moves(x)
    OBVIOUS
  <1> USE DEF Steps, Moves
  <1>t. /\ req \in [Requests -> ReqType] /\ headOf \in [Keys -> {None} \cup Heads]
        /\ None \notin Keys
    BY KeysAssumption DEF IInv, TypeOK, RequestsOK, StoresOK, ReqType
  <1>i. ASSUME NEW r \in Requests, req' = [req EXCEPT ![r] = Idle] PROVE Moves(x)
    BY <1>i, <1>t
  <1>g. ASSUME NEW r \in Requests, NEW pc \in Steps, Goto(r, pc)
        PROVE  \/ req'[x] = req[x]
               \/ /\ x = r /\ req'[r].pc = pc /\ req'[r].commit = req[r].commit
                  /\ req'[r].head = req[r].head /\ req'[r].key = req[r].key
    BY <1>g, <1>t DEF Goto, ReqType
  <1>1. ASSUME NEW r \in Requests, NEW k \in Keys, StartSave(r, k) PROVE Moves(x)
    <2>1. \/ req'[x] = req[x]
          \/ x = r /\ req'[x].pc = "check" /\ req'[x].key = k
      BY <1>1, <1>t DEF StartSave, Idle, ReqType
    <2>2. headOf'[k] # None
      BY <1>1, <1>t, HeadsType DEF StartSave, IInv, TypeOK, StoresOK
    <2>3. QED
      BY <2>1, <2>2, <1>t
  <1>2. ASSUME NEW r \in Requests, NEW h \in acked, StartPublish(r, h) PROVE Moves(x)
    BY <1>2, <1>t DEF StartPublish, Idle, ReqType
  <1>3. ASSUME NEW r \in Requests, CallFails(r) \/ Killed(r) PROVE Moves(x)
    BY <1>3, <1>i DEF CallFails, Killed, Fault, Fail
  <1>4. ASSUME NEW r \in Requests, Check(r) PROVE Moves(x)
    <2> DEFINE k == req[r].key
               q == [pc |-> Resumes(k), key |-> k, commit |-> ops[k].commit,
                     head |-> change.head, pr |-> change.pr]
    <2>1. CASE req' = [req EXCEPT ![r] = q]
      <3>1. q.pc \in {"journal", "commit", "look"}
        BY DEF Resumes
      <3>2. req'[x] = req[x] \/ req'[x] = q
        BY <2>1, <1>t
      <3>3. QED
        BY <3>1, <3>2
    <2>2. CASE req' = [req EXCEPT ![r] = Idle]
      BY <2>2, <1>i
    <2>3. QED
      BY <1>4, <2>1, <2>2 DEF Check, Fail, Rejected
  <1>5. ASSUME NEW r \in Requests, Refuse(r) \/ Answer(r) \/ Mark(r) PROVE Moves(x)
    BY <1>5, <1>i DEF Refuse, Rejected, Answer, Mark, Fail
  <1>6. ASSUME NEW r \in Requests, Commit(r) PROVE Moves(x)
    <2>1. CASE req' = [req EXCEPT ![r] = Idle]
      BY <2>1, <1>i
    <2>2. ASSUME NEW c, req' = [req EXCEPT ![r].pc = "record", ![r].commit = c]
          PROVE Moves(x)
      BY <2>2, <1>t DEF ReqType
    <2>3. QED
      BY <1>6, <2>1, <2>2 DEF Commit, Fault, Fail
  <1>7. ASSUME NEW r \in Requests, Journal(r) \/ Record(r) \/ Look(r) PROVE Moves(x)
    BY <1>7, <1>i, <1>g DEF Journal, Record, Look, Fail
  <1>8. ASSUME NEW r \in Requests, WriteRef(r) PROVE Moves(x)
    BY <1>8, <1>i, <1>g DEF WriteRef, Fault, Fail
  <1>9. ASSUME NEW r \in Requests, Verify(r) PROVE Moves(x)
    BY <1>9, <1>i, <1>g DEF Verify, Fail, github
  <1>10. ASSUME NEW r \in Requests, ListPulls(r) PROVE Moves(x)
    BY <1>10, <1>i, <1>g DEF ListPulls, Fail
  <1>11. ASSUME NEW r \in Requests, OpenPull(r) PROVE Moves(x)
    BY <1>11, <1>i, <1>g DEF OpenPull, Fault, Fail
  <1>12. ASSUME NEW r \in Requests, Complete(r) PROVE Moves(x)
    BY <1>12, <1>g DEF Complete
  <1>13. ASSUME NEW r \in Requests, CheckPublish(r) \/ CheckAgain(r) PROVE Moves(x)
    BY <1>13, <1>i, <1>g DEF CheckPublish, CheckAgain, Fail
  <1>14. ASSUME NEW r \in Requests, Merge(r) PROVE Moves(x)
    BY <1>14, <1>i, <1>g DEF Merge, Fault, Fail
  <1>15. ASSUME Lapse \/ CheckPasses \/ MasterMoves \/ PullCloses PROVE Moves(x)
    BY <1>15 DEF Lapse, CheckPasses, MasterMoves, PullCloses
  <1>16. CASE UNCHANGED vars
    BY <1>16 DEF vars
  <1>17. QED
    BY <1>1, <1>2, <1>3, <1>4, <1>5, <1>6, <1>7, <1>8, <1>9, <1>10, <1>11, <1>12, <1>13,
       <1>14, <1>15, <1>16
       DEF Next, Step, SaveStep, PublishStep

LEMMA StepIInv == IInv /\ [Next]_vars => IInv'
  <1> SUFFICES ASSUME IInv, [Next]_vars PROVE IInv'
    OBVIOUS
  <1>1. TypeOK' /\ Keeps /\ Grows /\ \A r \in Requests : Moves(r)
    BY TypeStep, KeepsStep, GrowsStep, MovesStep
  <1>t. /\ req \in [Requests -> ReqType] /\ StoresOK
        /\ \A r \in Requests : req[r].pc \in {"verify", "list", "open", "complete"} =>
                                   req[r].commit \in Heads
    BY DEF IInv, TypeOK, RequestsOK, ReqType, WithCommit
  <1>2. Underway'
    <2> SUFFICES ASSUME NEW r \in Requests
                 PROVE  /\ req'[r].pc = "check" /\ req'[r].key # None =>
                              headOf'[req'[r].key] # None
                        /\ req'[r].pc \in {"list", "open", "complete"} => Reaches(req[r].commit)'
                              /\ req'[r].commit = req[r].commit
                        /\ req'[r].pc = "check" /\ req'[r].key = None => req'[r].head \in acked'
                        /\ req'[r].pc \in {"ready", "merge"} => req'[r].head \in acked'
      BY DEF Underway, Reaches
    <2>1. CASE req'[r] = req[r]
      BY <1>1, <1>t, <2>1 DEF Keeps, Grows, IInv, Underway, ReqType
    <2>2. CASE req'[r].pc \in {"list", "open", "complete"} /\ req'[r] # req[r]
      <3>1. CASE req[r].pc = "verify"
        BY <1>1, <1>t, <2>2, <3>1, HeadsType DEF Moves, IInv, Underway, Reaches, Idle
      <3>2. CASE req[r].pc # "verify"
        BY <1>1, <1>t, <2>2, <3>2 DEF Keeps, Moves, IInv, Underway, Idle
      <3>3. QED
        BY <3>1, <3>2
    <2>3. CASE req'[r].pc \notin {"list", "open", "complete"} /\ req'[r] # req[r]
      BY <1>1, <1>t, <2>3 DEF Grows, Moves, IInv, Underway, Idle
    <2>4. QED
      BY <2>1, <2>2, <2>3
  <1>3. MergedOnce'
    BY <1>1 DEF Grows, MergedOnce, Merge, Mergeable
  <1>4. SavedIsKept'
    BY <1>1, <1>t DEF Keeps, Grows, IInv, Underway, SavedIsKept, Reaches, StoresOK
  <1>5. MergedAsConfirmed'
    BY <1>1 DEF Grows, IInv, Underway, MergedAsConfirmed, Merge, Mergeable
  <1>6. QED
    BY <1>1, <1>2, <1>3, <1>4, <1>5 DEF IInv

\* The records of a change, its requests and GitHub stay well-formed.
THEOREM TypeCorrect == Spec => []TypeOK
  <1>1. IInv => TypeOK
    BY DEF IInv
  <1>2. QED
    BY InitIInv, StepIInv, <1>1, PTL DEF Spec

\* No recorded or acknowledged save is ever lost on GitHub, whatever fails and whichever
\* requests outlive their lease.
THEOREM SavesAreKept == Spec => []SavedIsKept
  <1>1. IInv => SavedIsKept
    BY DEF IInv
  <1>2. QED
    BY InitIInv, StepIInv, <1>1, PTL DEF Spec

\* Nothing but a confirmed and validated head is merged, whichever requests outlive their
\* lease.
THEOREM MergesAreConfirmed == Spec => []MergedAsConfirmed
  <1>1. IInv => MergedAsConfirmed
    BY DEF IInv
  <1>2. QED
    BY InitIInv, StepIInv, <1>1, PTL DEF Spec

-----------------------------------------------------------------------------
\* A commit contains the head its save was based on, and is only made for a save with a row.
Based ==
    /\ \A k \in Keys :
           /\ ops[k].commit # None => headOf[k] # None /\ headOf[k] \subseteq ops[k].commit
           /\ ops[k].state = "absent" => ops[k].commit = None
    /\ \A r \in Requests :
           /\ req[r].pc \in WithCommit => headOf[req[r].key] \subseteq req[r].commit
           /\ req[r].pc \in WithCommit \cup {"commit"} => ops[req[r].key].state # "absent"

LEMMA InitBased == Init => Based
  BY DEF Init, Based, Idle, WithCommit

\* The base of a save is chosen once, and a request is given a commit only by the row of
\* its save and by GitHub.
LEMMA StepBased == IInv /\ Based /\ [Next]_vars => Based'
  <1> SUFFICES ASSUME IInv, Based, [Next]_vars PROVE Based'
    OBVIOUS
  <1> USE DEF db, client, WithCommit
  <1>t. /\ req \in [Requests -> ReqType] /\ headOf \in [Keys -> {None} \cup Heads]
        /\ ops \in [Keys -> [state: {"absent", "started", "completed"}, commit: {None} \cup Heads]]
        /\ None \notin Keys
    BY KeysAssumption DEF IInv, TypeOK, RequestsOK, StoresOK, ReqType
  <1>u. \A r \in Requests :
            /\ req[r].pc \in WithCommit => req[r].commit # None
            /\ req[r].pc \in WithCommit \cup {"journal", "commit"} =>
                   req[r].key \in Keys /\ headOf[req[r].key] # None
    BY <1>t DEF IInv, TypeOK, RequestsOK, ReqType
  \* Only the position of one request changes.
  <1>g. ASSUME NEW r \in Requests, NEW pc \in Steps, Goto(r, pc), UNCHANGED <<ops, headOf>>,
               pc \in WithCommit => req[r].pc \in WithCommit,
               pc # "commit"
        PROVE  Based'
    BY <1>g, <1>t DEF Goto, Based, ReqType
  <1>i. ASSUME NEW r \in Requests, req' = [req EXCEPT ![r] = Idle], UNCHANGED <<ops, headOf>>
        PROVE  Based'
    BY <1>i, <1>t DEF Based, Idle
  <1>1. ASSUME NEW r \in Requests, NEW k \in Keys, StartSave(r, k) PROVE Based'
    <2>1. \A x \in Keys : headOf[x] # None => headOf'[x] = headOf[x]
      BY <1>1, <1>t DEF StartSave
    <2>2. ops' = ops /\ req'[r].pc = "check" /\ \A x \in Requests : x # r => req'[x] = req[x]
      BY <1>1, <1>t DEF StartSave, Idle
    <2>3. QED
      BY <1>t, <1>u, <2>1, <2>2 DEF Based
  <1>2. ASSUME NEW r \in Requests, NEW h \in acked, StartPublish(r, h) PROVE Based'
    BY <1>2, <1>t DEF StartPublish, Based, Idle
  <1>3. ASSUME NEW r \in Requests, CallFails(r) \/ Killed(r) PROVE Based'
    BY <1>3, <1>i DEF CallFails, Killed, Fault, Fail, db
  <1>4. ASSUME NEW r \in Requests, Check(r) PROVE Based'
    <2>1. CASE req' = [req EXCEPT ![r] = Idle]
      BY <1>4, <2>1, <1>i DEF Check, Fail, Rejected
    <2> DEFINE k == req[r].key
               q == [pc |-> Resumes(k), key |-> k, commit |-> ops[k].commit,
                     head |-> change.head, pr |-> change.pr]
    <2>2. CASE req' = [req EXCEPT ![r] = q] /\ UNCHANGED <<ops, headOf>>
      <3>1. k \in Keys
        BY <1>4, <1>t DEF Check, ReqType
      <3>2. q.pc \in {"journal", "commit", "look"} /\ (q.pc = "look" => q.commit # None)
            /\ (q.pc # "journal" => ops[k].state # "absent")
        BY DEF Resumes
      <3>3. req'[r] = q /\ \A x \in Requests : x # r => req'[x] = req[x]
        BY <2>2, <1>t
      <3>4. q.key = k /\ q.commit = ops[k].commit
        OBVIOUS
      <3> HIDE DEF q
      <3>5. QED
        BY <2>2, <3>1, <3>2, <3>3, <3>4 DEF Based
    <2>3. QED
      BY <1>4, <2>1, <2>2 DEF Check, Fail, Rejected
  <1>5. ASSUME NEW r \in Requests, Refuse(r) \/ Answer(r) \/ Mark(r) PROVE Based'
    BY <1>5, <1>i DEF Refuse, Rejected, Answer, Mark, Fail
  <1>6. ASSUME NEW r \in Requests, Journal(r) PROVE Based'
    <2>1. CASE Fail(r)
      BY <1>6, <2>1, <1>i DEF Journal, Fail
    <2>2. CASE Goto(r, "commit") /\ ops' = [ops EXCEPT ![req[r].key].state = "started"]
      <3>1. /\ \A k \in Keys : ops'[k].commit = ops[k].commit
            /\ \A k \in Keys : ops[k].state # "absent" => ops'[k].state # "absent"
            /\ ops'[req[r].key].state # "absent" /\ req[r].key \in Keys
        BY <1>6, <2>2, <1>t, <1>u DEF Journal
      <3>2. \A x \in Requests : req'[x] = req[x] \/ (x = r /\ req'[x].pc = "commit" /\ req'[x].key = req[x].key)
        BY <2>2, <1>t DEF Goto, ReqType
      <3>3. QED
        BY <1>6, <1>u, <3>1, <3>2 DEF Journal, Based
    <2>3. QED
      BY <1>6, <2>1, <2>2 DEF Journal
  <1>7. ASSUME NEW r \in Requests, Commit(r) PROVE Based'
    <2>1. CASE Fault(r)
      BY <1>7, <2>1, <1>i DEF Commit, Fault, Fail
    <2> DEFINE k == req[r].key
               c == headOf[k] \cup {<<k, made[k] + 1>>}
    <2>2. CASE req' = [req EXCEPT ![r].pc = "record", ![r].commit = c] /\ UNCHANGED <<ops, headOf>>
      <3>1. req'[r].commit = c /\ req'[r].key = k /\ \A x \in Requests : x # r => req'[x] = req[x]
        BY <2>2, <1>t DEF ReqType
      <3>2. headOf[k] \subseteq c
        OBVIOUS
      <3> HIDE DEF c
      <3>3. QED
        BY <1>7, <2>2, <3>1, <3>2 DEF Based, Commit
    <2>3. QED
      BY <1>7, <2>1, <2>2 DEF Commit
  <1>8. ASSUME NEW r \in Requests, Record(r) PROVE Based'
    <2> DEFINE k == req[r].key
    <2>1. k \in Keys /\ headOf[k] # None /\ headOf[k] \subseteq req[r].commit /\ ops[k].state # "absent"
      BY <1>8, <1>u DEF Record, Based
    <2>2. /\ ops'[k].commit = req[r].commit /\ ops'[k].state = ops[k].state
          /\ \A x \in Keys : x # k => ops'[x] = ops[x]
      BY <1>8, <1>t, <2>1 DEF Record
    <2>3. \A x \in Requests : /\ req'[x].key = req[x].key /\ req'[x].commit = req[x].commit
                              /\ req'[x].pc \in WithCommit => req[x].pc \in WithCommit
                              /\ req'[x].pc = "commit" => req[x].pc = "commit"
      BY <1>8, <1>t DEF Record, Goto, ReqType
    <2>4. headOf' = headOf
      BY <1>8 DEF Record
    <2>5. QED
      BY <1>u, <2>1, <2>2, <2>3, <2>4 DEF Based
  <1>9. ASSUME NEW r \in Requests, Look(r) \/ Verify(r) \/ ListPulls(r) PROVE Based'
    BY <1>9, <1>i, <1>g DEF Look, Verify, ListPulls, Fail, Steps
  <1>10. ASSUME NEW r \in Requests, WriteRef(r) \/ OpenPull(r) PROVE Based'
    BY <1>10, <1>i, <1>g DEF WriteRef, OpenPull, Fault, Fail, Steps
  <1>11. ASSUME NEW r \in Requests, Complete(r) PROVE Based'
    <2>1. \A k \in Keys : /\ ops'[k].commit = ops[k].commit
                          /\ ops'[k].state \in {ops[k].state, "completed"}
      BY <1>11, <1>t DEF Complete
    <2>2. \A x \in Requests : /\ req'[x].key = req[x].key /\ req'[x].commit = req[x].commit
                              /\ req'[x].pc \in WithCommit => req[x].pc \in WithCommit
                              /\ req'[x].pc = "commit" => req[x].pc = "commit"
      BY <1>11, <1>t DEF Complete, Goto, ReqType
    <2>3. headOf' = headOf
      BY <1>11 DEF Complete
    <2>4. QED
      BY <1>u, <2>1, <2>2, <2>3 DEF Based
  <1>12. ASSUME NEW r \in Requests, CheckPublish(r) \/ CheckAgain(r) PROVE Based'
    BY <1>12, <1>i, <1>g DEF CheckPublish, CheckAgain, Fail, Steps
  <1>13. ASSUME NEW r \in Requests, Merge(r) PROVE Based'
    BY <1>13, <1>i, <1>g DEF Merge, Fault, Fail, Steps
  <1>14. ASSUME Lapse \/ CheckPasses \/ MasterMoves \/ PullCloses PROVE Based'
    BY <1>14 DEF Lapse, CheckPasses, MasterMoves, PullCloses, Based
  <1>15. CASE UNCHANGED vars
    BY <1>15 DEF vars, Based
  <1>16. QED
    BY <1>1, <1>2, <1>3, <1>4, <1>5, <1>6, <1>7, <1>8, <1>9, <1>10, <1>11, <1>12, <1>13, <1>14, <1>15
       DEF Next, Step, SaveStep, PublishStep

-----------------------------------------------------------------------------
\* While no request has outlived its lease: who is under way holds the lease, and what it
\* has read of the row still stands.
Writing == {"journal", "commit"} \cup (WithCommit \ {"answer"})

Fits(r) ==
    /\ req[r].pc # "idle" => lock = r /\ live
    /\ req[r].pc \in Writing => mergedAt = None
    /\ req[r].pc \in {"journal", "commit"} => change.head = headOf[req[r].key]
    /\ req[r].pc \in WithCommit \ {"answer"} => change.head \subseteq req[r].commit
    /\ req[r].pc = "journal" => req[r].head = change.head /\ (req[r].pr <=> change.pr)
    /\ req[r].pc \in {"ready", "merge"} => req[r].head = change.head /\ change.pr

\* The row names all the editors were told of, and after the merge just what was merged.
RowLeads ==
    /\ \A h \in acked : h \subseteq change.head
    /\ mergedAt # None => change.pr /\ change.head = mergedAt

Tidy == RowLeads /\ \A r \in Requests : Fits(r)

LEMMA InitTidy == Init => Tidy
  BY DEF Init, Tidy, RowLeads, Fits, Idle, WithCommit, Writing

\* A step that leaves the row as far as it matters.
LEMMA RowStays ==
    ASSUME RowLeads, change'.head = change.head, change'.pr = change.pr, mergedAt' = mergedAt,
           acked' \subseteq acked \cup {change.head}
    PROVE  RowLeads'
  BY DEF RowLeads

\* A step of the request under way is the only one that is taken.
LEMMA OnlyOne ==
    ASSUME Tidy, NEW r \in Requests, req[r].pc # "idle", NEW x \in Requests, x # r
    PROVE  req[x].pc = "idle"
  BY DEF Tidy, Fits

LEMMA NoneUnderWay ==
    ASSUME Tidy, LockFree, NEW x \in Requests PROVE req[x].pc = "idle"
  BY NoneAssumption DEF Tidy, Fits, LockFree

\* An idle request fits whatever the row.
LEMMA IdleFits == ASSUME NEW x, req[x].pc = "idle" PROVE Fits(x)
  BY DEF Fits, WithCommit, Writing

LEMMA TidyAfter ==
    ASSUME NEW r \in Requests, RowLeads', Fits(r)',
           \A x \in Requests : x # r => req'[x] = req[x] /\ req[x].pc = "idle"
    PROVE  Tidy'
  <1>1. \A x \in Requests : x # r => Fits(x)'
    BY DEF Fits, WithCommit, Writing
  <1>2. QED
    BY <1>1 DEF Tidy

LEMMA EndsTidy ==
    ASSUME TypeOK, Tidy, NEW r \in Requests, req[r].pc # "idle", RowLeads',
           req' = [req EXCEPT ![r] = Idle]
    PROVE  Tidy'
  <1>1. \A x \in Requests : req'[x].pc = "idle"
    BY OnlyOne DEF TypeOK, RequestsOK, Idle
  <1>2. \A x \in Requests : Fits(x)'
    BY <1>1 DEF Fits, WithCommit, Writing
  <1>3. QED
    BY <1>2 DEF Tidy

LEMMA FailsTidy ==
    ASSUME TypeOK, Tidy, NEW r \in Requests, req[r].pc # "idle", Fail(r), mergedAt' = mergedAt,
           acked' \subseteq acked \cup {change.head}
    PROVE  Tidy'
  <1>1. RowLeads'
    BY RowStays DEF Tidy, Fail, db
  <1>2. QED
    BY <1>1, EndsTidy DEF Fail

\* A request that goes on with the row and the lease as they were.
LEMMA GoesTidy ==
    ASSUME TypeOK, Tidy, NEW r \in Requests, NEW pc, Goto(r, pc), req[r].pc # "idle",
           UNCHANGED <<change, lease, mergedAt, acked, headOf>>,
           \/ req[r].pc = "journal" /\ pc = "commit"
           \/ req[r].pc \in WithCommit \ {"answer"} /\ pc \in WithCommit
           \/ pc \notin {"journal", "commit", "ready", "merge"} \cup WithCommit
           \/ req[r].pc \in {"ready", "merge"} /\ pc \in {"ready", "merge"}
    PROVE  Tidy'
  <1>1. /\ req'[r].pc = pc /\ req'[r].key = req[r].key /\ req'[r].commit = req[r].commit
        /\ req'[r].head = req[r].head /\ req'[r].pr = req[r].pr
        /\ \A x \in Requests : x # r => req'[x] = req[x]
    BY DEF TypeOK, RequestsOK, Goto
  <1>2. Fits(r)'
    BY <1>1 DEF Tidy, Fits, WithCommit, Writing, lease
  <1>3. RowLeads'
    BY DEF Tidy, RowLeads
  <1>4. QED
    BY <1>1, <1>2, <1>3, OnlyOne, TidyAfter

\* A lease that was outlived is not forgotten.
LEMMA LateStays == IInv /\ [Next]_vars => (late => late')
  <1> SUFFICES ASSUME IInv, [Next]_vars, late PROVE late'
    OBVIOUS
  <1> USE DEF rest, Fault
  <1>1. ASSUME NEW r \in Requests, NEW k \in Keys, StartSave(r, k) PROVE late'
    BY <1>1 DEF StartSave
  <1>2. ASSUME NEW r \in Requests, NEW h \in acked, StartPublish(r, h) PROVE late'
    BY <1>2 DEF StartPublish
  <1>3. ASSUME NEW r \in Requests, CallFails(r) \/ Killed(r) PROVE late'
    BY <1>3 DEF CallFails, Killed
  <1>4. ASSUME NEW r \in Requests, Check(r) \/ Refuse(r) \/ Journal(r) \/ Commit(r) \/ Record(r) \/ Look(r)
        PROVE late'
    BY <1>4 DEF Check, Refuse, Journal, Commit, Record, Look
  <1>5. ASSUME NEW r \in Requests, WriteRef(r) \/ Verify(r) \/ ListPulls(r) \/ OpenPull(r) \/ Complete(r) \/ Answer(r)
        PROVE late'
    BY <1>5 DEF WriteRef, Verify, ListPulls, OpenPull, Complete, Answer
  <1>6. ASSUME NEW r \in Requests, CheckPublish(r) \/ CheckAgain(r) \/ Merge(r) \/ Mark(r) PROVE late'
    BY <1>6 DEF CheckPublish, CheckAgain, Merge, Mark
  <1>7. ASSUME Lapse \/ CheckPasses \/ MasterMoves \/ PullCloses PROVE late'
    BY <1>7 DEF Lapse, CheckPasses, MasterMoves, PullCloses
  <1>8. CASE UNCHANGED vars
    BY <1>8 DEF vars
  <1>9. QED
    BY <1>1, <1>2, <1>3, <1>4, <1>5, <1>6, <1>7, <1>8 DEF Next, Step, SaveStep, PublishStep

\* What a save finds under the lease.
LEMMA CheckTidy ==
    ASSUME IInv, Based, Tidy, NEW r \in Requests, Check(r) PROVE Tidy'
  <1> DEFINE k == req[r].key
             q == [pc |-> Resumes(k), key |-> k, commit |-> ops[k].commit,
                   head |-> change.head, pr |-> change.pr]
  <1>t. TypeOK /\ StoresOK /\ MergedOnce /\ req[r].pc = "check" /\ mergedAt' = mergedAt
    BY DEF Check, IInv, TypeOK, github
  <1>k. k \in Keys
    BY <1>t DEF Check, TypeOK, RequestsOK
  <1>1. CASE Fail(r) /\ acked' \in {acked, acked \cup {change.head}}
    BY <1>1, <1>t, FailsTidy
  <1>2. CASE Rejected(r, change.head, change.pr) /\ UNCHANGED acked
    <2>1. change'.head = change.head /\ (change'.pr <=> change.pr)
      BY <1>2 DEF Rejected, NoChange
    <2>2. RowLeads'
      BY <1>2, <1>t, <2>1 DEF Tidy, RowLeads
    <2>3. QED
      BY <1>2, <1>t, <2>2, EndsTidy DEF Rejected
  <1>3. CASE Acceptable(k) /\ req' = [req EXCEPT ![r] = q] /\ UNCHANGED <<db, lease, acked>>
    <2>1. req'[r] = q /\ \A x \in Requests : x # r => req'[x] = req[x]
      BY <1>3, <1>t DEF TypeOK, RequestsOK
    <2>2. headOf' = headOf /\ change' = change /\ UNCHANGED lease
      BY <1>3 DEF Check, db
    <2>3. mergedAt = None
      BY <1>3, <1>t DEF Acceptable, MergedOnce, Tidy, RowLeads
    <2>4. /\ q.pc \in {"journal", "commit", "look"}
          /\ q.pc = "look" => ops[k].commit # None
          /\ q.pc = "commit" => ops[k].commit = None
          /\ q.pc = "journal" => ops[k].commit = None
      BY <1>k DEF Resumes, Based
    <2>5. change.head \in Heads /\ change.head # None
      BY <1>t, HeadsType DEF StoresOK
    <2>6. q.pc \in {"journal", "commit"} => change.head = headOf[k]
      BY <1>3, <2>4, <2>5 DEF Acceptable
    <2>7. q.pc = "look" => change.head \subseteq ops[k].commit
      BY <1>3, <1>k, <2>4 DEF Acceptable, Based
    <2>8. /\ req'[r].pc = q.pc /\ req'[r].key = k /\ req'[r].commit = ops[k].commit
          /\ req'[r].head = change.head /\ req'[r].pr = change.pr
      BY <2>1
    <2>9. Fits(r)'
      <3> HIDE DEF q
      <3>1. lock' = lock /\ live' = live /\ mergedAt' = None
        BY <1>t, <2>2, <2>3 DEF lease
      <3>2. QED
        BY <1>t, <2>2, <2>4, <2>6, <2>7, <2>8, <3>1 DEF Tidy, Fits, WithCommit, Writing
    <2>10. RowLeads'
      BY <1>3, <1>t, <2>2 DEF Tidy, RowLeads
    <2>11. QED
      BY <1>t, <2>1, <2>9, <2>10, OnlyOne, TidyAfter
  <1>4. QED
    BY <1>1, <1>2, <1>3 DEF Check

\* The steps of a save behind its check.
LEMMA SaveTidy ==
    ASSUME IInv, Based, Tidy, NEW r \in Requests,
           \/ Refuse(r) \/ Journal(r) \/ Commit(r) \/ Record(r) \/ Look(r) \/ WriteRef(r)
           \/ Verify(r) \/ ListPulls(r) \/ OpenPull(r) \/ Complete(r) \/ Answer(r)
    PROVE  Tidy'
  <1> USE DEF db, lease, client
  <1>t. TypeOK /\ req \in [Requests -> ReqType] /\ StoresOK
    BY DEF IInv, TypeOK, RequestsOK, ReqType
  <1>f. Fits(r) /\ RowLeads
    BY DEF Tidy
  <1>g. ASSUME NEW pc \in WithCommit \cup {"commit"}, Goto(r, pc), UNCHANGED <<change, lease, mergedAt, acked, headOf>>,
               \/ req[r].pc = "journal" /\ pc = "commit"
               \/ req[r].pc \in WithCommit \ {"answer"} /\ pc \in WithCommit
        PROVE  Tidy'
    BY <1>g, <1>t, GoesTidy DEF WithCommit
  <1>i. ASSUME Fail(r) \/ Fault(r), mergedAt' = mergedAt, acked' = acked, req[r].pc # "idle" PROVE Tidy'
    BY <1>i, <1>t, FailsTidy DEF Fault
  <1>1. CASE Refuse(r)
    <2>1. change'.head = change.head /\ (change'.pr <=> change.pr)
      BY <1>1, <1>f DEF Refuse, Rejected, NoChange, Fits
    <2>2. RowLeads'
      BY <1>1, <1>f, <2>1 DEF Refuse, RowLeads, github
    <2>3. QED
      BY <1>1, <1>t, <2>2, EndsTidy DEF Refuse, Rejected
  <1>2. CASE Journal(r)
    <2>1. /\ req[r].pc = "journal" /\ UNCHANGED <<mergedAt, acked, headOf>>
          /\ Fail(r) \/ (Goto(r, "commit") /\ UNCHANGED <<change, lease>>)
      BY <1>2 DEF Journal, github
    <2>2. QED
      BY <2>1, <1>g, <1>i
  <1>3. CASE Commit(r)
    <2> DEFINE k == req[r].key
               c == headOf[k] \cup {<<k, made[k] + 1>>}
    <2>1. CASE Fault(r)
      BY <1>3, <2>1, <1>i DEF Commit, github
    <2>2. CASE req' = [req EXCEPT ![r].pc = "record", ![r].commit = c] /\ UNCHANGED <<db, lease, rest>>
      <3>1. /\ req'[r].pc = "record" /\ req'[r].commit = c
            /\ \A x \in Requests : x # r => req'[x] = req[x]
        BY <2>2, <1>t DEF ReqType
      <3>2. change.head \subseteq c /\ mergedAt = None /\ lock = r /\ live
        BY <1>3, <1>f DEF Commit, Fits, Writing
      <3> HIDE DEF c
      <3>3. Fits(r)'
        BY <1>3, <2>2, <3>1, <3>2 DEF Commit, github, Fits, WithCommit, Writing
      <3>4. RowLeads'
        BY <1>3, <1>f, <2>2 DEF Commit, github, RowLeads
      <3>5. QED
        BY <1>3, <3>1, <3>3, <3>4, OnlyOne, TidyAfter DEF Commit
    <2>3. QED
      BY <1>3, <2>1, <2>2 DEF Commit
  <1>4. CASE Record(r) \/ Look(r) \/ Verify(r) \/ ListPulls(r)
    BY <1>4, <1>g, <1>i DEF Record, Look, Verify, ListPulls, github, WithCommit
  <1>5. CASE WriteRef(r) \/ OpenPull(r)
    BY <1>5, <1>g, <1>i DEF WriteRef, OpenPull, WithCommit
  <1>6. CASE Complete(r)
    <2>1. change.head \subseteq req[r].commit /\ mergedAt = None /\ lock = r /\ live
      BY <1>6, <1>f DEF Complete, Fits, Writing, WithCommit
    <2>2. change.head \subseteq change'.head
      BY <1>6, <1>t, <2>1 DEF Complete, StoresOK
    <2>3. RowLeads'
      BY <1>6, <1>f, <2>1, <2>2 DEF Complete, RowLeads, github
    <2>4. req'[r].pc = "answer" /\ \A x \in Requests : x # r => req'[x] = req[x]
      BY <1>6, <1>t DEF Complete, Goto, ReqType
    <2>5. Fits(r)'
      BY <1>6, <2>1, <2>4 DEF Complete, Fits, WithCommit, Writing
    <2>6. QED
      BY <1>6, <2>3, <2>4, <2>5, OnlyOne, TidyAfter DEF Complete
  <1>7. CASE Answer(r)
    BY <1>7, <1>t, FailsTidy DEF Answer, github
  <1>8. QED
    BY <1>1, <1>2, <1>3, <1>4, <1>5, <1>6, <1>7

\* The steps of a publication.
LEMMA PublishTidy ==
    ASSUME IInv, Tidy, NEW r \in Requests, PublishStep(r) PROVE Tidy'
  <1> USE DEF db, lease, client
  <1>t. TypeOK /\ req \in [Requests -> ReqType] /\ StoresOK
    BY DEF IInv, TypeOK, RequestsOK, ReqType
  <1>f. Fits(r) /\ RowLeads
    BY DEF Tidy
  <1>i. ASSUME Fail(r), mergedAt' = mergedAt, acked' = acked, req[r].pc # "idle" PROVE Tidy'
    BY <1>i, <1>t, FailsTidy
  <1>1. CASE CheckPublish(r)
    <2>1. CASE Goto(r, "mark") /\ UNCHANGED <<db, lease>>
      BY <1>1, <1>t, <2>1, GoesTidy DEF CheckPublish, github, WithCommit
    <2>2. CASE change.head = req[r].head /\ change.pr /\ Goto(r, "ready") /\ UNCHANGED <<db, lease>>
      <3>1. /\ req'[r].pc = "ready" /\ req'[r].head = req[r].head
            /\ \A x \in Requests : x # r => req'[x] = req[x]
        BY <2>2, <1>t DEF Goto, ReqType
      <3>2. Fits(r)'
        BY <1>1, <1>f, <2>2, <3>1 DEF CheckPublish, Fits, WithCommit, Writing
      <3>3. RowLeads'
        BY <1>1, <1>f, <2>2 DEF CheckPublish, github, RowLeads
      <3>4. QED
        BY <1>1, <3>1, <3>2, <3>3, OnlyOne, TidyAfter DEF CheckPublish
    <2>3. QED
      BY <1>1, <1>i, <2>1, <2>2 DEF CheckPublish, github
  <1>2. CASE CheckAgain(r)
    BY <1>2, <1>t, <1>i, GoesTidy DEF CheckAgain, github
  \* Nobody else is under way, so that the head that was read still is the row's.
  <1>3. CASE Merge(r)
    <2>1. CASE ~Mergeable(req[r].head)
      BY <1>3, <1>i, <2>1 DEF Merge
    <2>2. CASE Mergeable(req[r].head)
      <3>1. mergedAt' = change.head /\ change.pr /\ change' = change /\ acked' = acked
        BY <1>3, <1>f, <2>2 DEF Merge, Mergeable, Fits, Fault, Fail
      <3>2. RowLeads'
        BY <1>f, <3>1 DEF RowLeads
      <3>3. CASE Fault(r)
        BY <1>3, <1>t, <3>2, <3>3, EndsTidy DEF Merge, Fault, Fail
      <3>4. CASE Goto(r, "mark") /\ UNCHANGED lease
        <4>1. req'[r].pc = "mark" /\ \A x \in Requests : x # r => req'[x] = req[x]
          BY <3>4, <1>t DEF Goto, ReqType
        <4>2. Fits(r)'
          BY <1>3, <1>f, <3>4, <4>1 DEF Merge, Fits, WithCommit, Writing
        <4>3. QED
          BY <1>3, <3>2, <4>1, <4>2, OnlyOne, TidyAfter DEF Merge
      <3>5. QED
        BY <1>3, <2>2, <3>3, <3>4 DEF Merge
    <2>3. QED
      BY <2>1, <2>2
  <1>4. CASE Mark(r)
    <2>1. change'.head = change.head /\ (change'.pr <=> change.pr)
      BY <1>4, <1>t DEF Mark, StoresOK
    <2>2. RowLeads'
      BY <1>4, <1>f, <2>1 DEF Mark, RowLeads, github
    <2>3. QED
      BY <1>4, <1>t, <2>2, EndsTidy DEF Mark
  <1>5. QED
    BY <1>1, <1>2, <1>3, <1>4 DEF PublishStep

\* As long as no request outlives its lease, every step keeps it so.
LEMMA StepTidy == IInv /\ Based /\ Tidy /\ ~late' /\ [Next]_vars => Tidy'
  <1> SUFFICES ASSUME IInv, Based, Tidy, ~late', [Next]_vars PROVE Tidy'
    OBVIOUS
  <1> USE DEF db, lease, client
  <1>t. TypeOK /\ req \in [Requests -> ReqType] /\ StoresOK /\ RowLeads
    BY DEF IInv, TypeOK, RequestsOK, ReqType, Tidy
  <1>1. ASSUME NEW r \in Requests, NEW k \in Keys, StartSave(r, k) PROVE Tidy'
    <2>1. change'.head = change.head /\ (change'.pr <=> change.pr)
      BY <1>1, <1>t DEF StartSave, StoresOK
    <2>2. RowLeads'
      BY <1>1, <1>t, <2>1 DEF StartSave, RowLeads, github
    <2>3. req'[r].pc = "check" /\ \A x \in Requests : x # r => req'[x] = req[x] /\ req[x].pc = "idle"
      BY <1>1, <1>t, NoneUnderWay DEF StartSave, Lock, Idle
    <2>4. Fits(r)'
      BY <1>1, <2>3 DEF StartSave, Lock, Fits, WithCommit, Writing
    <2>5. QED
      BY <2>2, <2>3, <2>4, TidyAfter
  <1>2. ASSUME NEW r \in Requests, NEW h \in acked, StartPublish(r, h) PROVE Tidy'
    <2>1. RowLeads'
      BY <1>2, <1>t DEF StartPublish, RowLeads, github
    <2>2. req'[r].pc = "check" /\ \A x \in Requests : x # r => req'[x] = req[x] /\ req[x].pc = "idle"
      BY <1>2, <1>t, NoneUnderWay DEF StartPublish, Lock, Idle
    <2>3. Fits(r)'
      BY <1>2, <2>2 DEF StartPublish, Lock, Fits, WithCommit, Writing
    <2>4. QED
      BY <2>1, <2>2, <2>3, TidyAfter
  <1>3. ASSUME NEW r \in Requests, CallFails(r) PROVE Tidy'
    BY <1>3, <1>t, FailsTidy DEF CallFails, Fault, github
  <1>4. ASSUME NEW r \in Requests, Killed(r) PROVE Tidy'
    BY <1>4, <1>t, EndsTidy DEF Killed, RowLeads, github
  <1>5. ASSUME NEW r \in Requests, SaveStep(r) PROVE Tidy'
    BY <1>5, CheckTidy, SaveTidy DEF SaveStep
  \* Only an abandoned lease has lapsed, which nobody under way holds.
  <1>6. CASE Lapse
    <2>1. \A x \in Requests : req[x].pc = "idle"
      BY <1>6, NoneAssumption DEF Lapse, Tidy, Fits
    <2>2. \A x \in Requests : Fits(x)'
      BY <1>6, <2>1 DEF Lapse, Fits, WithCommit, Writing
    <2>3. QED
      BY <1>6, <1>t, <2>2 DEF Lapse, Tidy, RowLeads, github
  <1>7. CASE CheckPasses \/ MasterMoves \/ PullCloses
    BY <1>7 DEF CheckPasses, MasterMoves, PullCloses, Tidy, RowLeads, Fits
  <1>8. CASE UNCHANGED vars
    BY <1>8 DEF vars, Tidy, RowLeads, Fits, github
  <1>9. QED
    BY <1>1, <1>2, <1>3, <1>4, <1>5, <1>6, <1>7, <1>8, PublishTidy DEF Next, Step

\* As long as no request outlives its lease, a merge takes every save an editor was told
\* of, whatever fails and however the requests follow each other.
THEOREM MergesTakeEverySave == Spec => []MergeTakesEverySave
  <1> DEFINE Inv == IInv /\ Based /\ (~late => Tidy)
  <1>1. Init => Inv
    BY InitIInv, InitBased, InitTidy
  <1>2. Inv /\ [Next]_vars => Inv'
    <2> SUFFICES ASSUME Inv, [Next]_vars PROVE Inv'
      OBVIOUS
    <2>1. IInv' /\ Based'
      BY StepIInv, StepBased
    <2>2. ~late' => Tidy'
      BY StepTidy, LateStays
    <2>3. QED
      BY <2>1, <2>2
  <1>3. Inv => MergeTakesEverySave
    BY DEF MergeTakesEverySave, Tidy, RowLeads
  <1>4. QED
    BY <1>1, <1>2, <1>3, PTL DEF Spec

-----------------------------------------------------------------------------
\* The heads that anything speaks of, and what a head that contains no save twice is.
Known(h) ==
    \/ h \in {Base, change.head, branch, mergedAt} \cup acked
    \/ \E k \in Keys : h \in {headOf[k], ops[k].commit}
    \/ \E r \in Requests : h = req[r].commit

Once(h) == \A p, q \in h : p[1] = q[1] => p = q

Single ==
    /\ \A k \in Keys : headOf[k] = None => made[k] = 0
    /\ \A k \in Keys : headOf[k] # None => \A p \in headOf[k] : p[1] # k
    /\ \A h \in Heads : Known(h) => Once(h) /\ \A p \in h : made[p[1]] > 0

LEMMA InitSingle == Init => Single
  <1> SUFFICES ASSUME Init PROVE Single
    OBVIOUS
  <1>1. \A h \in Heads : Known(h) => h = Base
    BY HeadsType DEF Init, Known, NoChange, Idle
  <1>2. QED
    BY <1>1 DEF Init, Single, Once, Base

\* A step that makes no commit and begins no save adds no head to what is known.
Settled == /\ UNCHANGED <<made, headOf>>
           /\ \A h \in Heads : Known(h)' => Known(h)

\* The heads of requests, which are their own, those of the rows, or none.
LEMMA KnownStays ==
    ASSUME UNCHANGED <<made, headOf>>,
           \A x \in Requests : req'[x].commit \in {req[x].commit, None},
           \A k \in Keys : ops'[k].commit = ops[k].commit,
           change'.head \in {change.head, Base}, acked' \subseteq acked \cup {change.head},
           branch' \in {branch, None}, mergedAt' \in {mergedAt, branch}
    PROVE  Settled
  BY HeadsType DEF Settled, Known

LEMMA SettledStep ==
    ASSUME IInv, [Next]_vars
    PROVE  Settled \/ \E r \in Requests : Commit(r) \/ \E k \in Keys : StartSave(r, k)
  <1> USE DEF db, client
  <1>t. /\ req \in [Requests -> ReqType] /\ StoresOK
        /\ ops \in [Keys -> [state: {"absent", "started", "completed"}, commit: {None} \cup Heads]]
    BY DEF IInv, TypeOK, RequestsOK, StoresOK, ReqType
  <1>g. ASSUME NEW r \in Requests, NEW pc, Goto(r, pc) PROVE \A x \in Requests : req'[x].commit = req[x].commit
    BY <1>g, <1>t DEF Goto, ReqType
  <1>i. ASSUME NEW r \in Requests, req' = [req EXCEPT ![r] = Idle]
        PROVE  \A x \in Requests : req'[x].commit \in {req[x].commit, None}
    BY <1>i, <1>t DEF Idle
  <1>2. ASSUME NEW r \in Requests, NEW h \in acked, StartPublish(r, h) PROVE Settled
    <2>1. \A x \in Requests : req'[x].commit \in {req[x].commit, None}
      BY <1>2, <1>t DEF StartPublish, Idle
    <2>2. QED
      BY <1>2, <2>1, KnownStays DEF StartPublish, github
  <1>3. ASSUME NEW r \in Requests, CallFails(r) \/ Killed(r) PROVE Settled
    BY <1>3, <1>i, KnownStays DEF CallFails, Killed, Fault, Fail, github
  <1>4. ASSUME NEW r \in Requests, Check(r) PROVE Settled
    <2>1. CASE req' = [req EXCEPT ![r] = Idle]
      <3>1. change'.head \in {change.head, Base} /\ ops' = ops /\ UNCHANGED <<made, headOf, branch, mergedAt>>
            /\ acked' \subseteq acked \cup {change.head}
        BY <1>4 DEF Check, Fail, Rejected, NoChange, github
      <3>2. QED
        BY <2>1, <1>i, <3>1, KnownStays
    <2> DEFINE k == req[r].key
               q == [pc |-> Resumes(k), key |-> k, commit |-> ops[k].commit,
                     head |-> change.head, pr |-> change.pr]
    <2>2. CASE req' = [req EXCEPT ![r] = q] /\ UNCHANGED <<db, acked>>
      <3>1. k \in Keys
        BY <1>4, <1>t DEF Check, ReqType
      <3>2. \A x \in Requests : req'[x].commit \in {req[x].commit, ops[k].commit}
        BY <2>2, <1>t
      <3>3. UNCHANGED <<change, ops, acked, made, headOf, branch, mergedAt>>
        BY <1>4, <2>2 DEF Check, github
      <3>4. QED
        BY <3>1, <3>2, <3>3 DEF Settled, Known
    <2>3. QED
      BY <1>4, <2>1, <2>2 DEF Check, Fail, Rejected
  <1>5. ASSUME NEW r \in Requests, Refuse(r) PROVE Settled
    BY <1>5, <1>i, KnownStays DEF Refuse, Rejected, NoChange, github
  <1>6. ASSUME NEW r \in Requests, Journal(r) PROVE Settled
    <2>1. \A k \in Keys : ops'[k].commit = ops[k].commit
      BY <1>6, <1>t DEF Journal, Fail
    <2>2. QED
      BY <1>6, <1>g, <1>i, <2>1, KnownStays DEF Journal, Fail, github
  <1>7. ASSUME NEW r \in Requests, Record(r) PROVE Settled
    <2>1. \A k \in Keys : ops'[k].commit \in {ops[k].commit, req[r].commit}
      BY <1>7, <1>t DEF Record
    <2>2. UNCHANGED <<change, acked, made, headOf, branch, mergedAt>>
      BY <1>7 DEF Record, github
    <2>3. QED
      BY <1>7, <1>g, <2>1, <2>2 DEF Settled, Known, Record
  <1>8. ASSUME NEW r \in Requests, Look(r) \/ Verify(r) \/ ListPulls(r) PROVE Settled
    BY <1>8, <1>g, <1>i, KnownStays DEF Look, Verify, ListPulls, Fail, github
  <1>9. ASSUME NEW r \in Requests, WriteRef(r) PROVE Settled
    <2>1. branch' \in {branch, req[r].commit} /\ UNCHANGED <<change, ops, acked, made, headOf, mergedAt>>
      BY <1>9 DEF WriteRef, Fault, Fail
    <2>2. \A x \in Requests : req'[x].commit \in {req[x].commit, None}
      BY <1>9, <1>g, <1>i DEF WriteRef, Fault, Fail
    <2>3. QED
      BY <2>1, <2>2, HeadsType DEF Settled, Known
  <1>10. ASSUME NEW r \in Requests, OpenPull(r) PROVE Settled
    BY <1>10, <1>g, <1>i, KnownStays DEF OpenPull, Fault, Fail
  <1>11. ASSUME NEW r \in Requests, Complete(r) PROVE Settled
    <2>1. change'.head \in {change.head, req[r].commit} /\ \A k \in Keys : ops'[k].commit = ops[k].commit
      BY <1>11, <1>t DEF Complete, StoresOK
    <2>2. UNCHANGED <<acked, made, headOf, branch, mergedAt>>
      BY <1>11 DEF Complete, github
    <2>3. \A x \in Requests : req'[x].commit = req[x].commit
      BY <1>11, <1>g DEF Complete
    <2>4. QED
      BY <2>1, <2>2, <2>3 DEF Settled, Known
  <1>12. ASSUME NEW r \in Requests, Answer(r) PROVE Settled
    BY <1>12, <1>i, KnownStays DEF Answer, Fail, github
  <1>13. ASSUME NEW r \in Requests, CheckPublish(r) \/ CheckAgain(r) PROVE Settled
    BY <1>13, <1>g, <1>i, KnownStays DEF CheckPublish, CheckAgain, Fail, github
  <1>14. ASSUME NEW r \in Requests, Merge(r) PROVE Settled
    BY <1>14, <1>g, <1>i, KnownStays DEF Merge, Fault, Fail
  <1>15. ASSUME NEW r \in Requests, Mark(r) PROVE Settled
    <2>1. change'.head = change.head
      BY <1>15, <1>t DEF Mark, StoresOK
    <2>2. QED
      BY <1>15, <1>i, <2>1, KnownStays DEF Mark, github
  <1>16. ASSUME Lapse \/ CheckPasses \/ MasterMoves \/ PullCloses PROVE Settled
    BY <1>16, KnownStays DEF Lapse, CheckPasses, MasterMoves, PullCloses, github
  <1>17. CASE UNCHANGED vars
    BY <1>17, KnownStays DEF vars, github
  <1>18. QED
    BY <1>2, <1>3, <1>4, <1>5, <1>6, <1>7, <1>8, <1>9, <1>10, <1>11, <1>12, <1>13, <1>14, <1>15,
       <1>16, <1>17
       DEF Next, Step, SaveStep, PublishStep

LEMMA StepSingle == IInv /\ Single /\ [Next]_vars => Single'
  <1> SUFFICES ASSUME IInv, Single, [Next]_vars PROVE Single'
    OBVIOUS
  <1> USE DEF db, client
  <1>t. /\ req \in [Requests -> ReqType] /\ headOf \in [Keys -> {None} \cup Heads]
        /\ made \in [Keys -> 0..MaxMade] /\ acked \subseteq Heads /\ change \in RowType
    BY DEF IInv, TypeOK, RequestsOK, StoresOK, ReqType, RowType
  <1>1. CASE Settled
    BY <1>1 DEF Settled, Single
  <1>2. ASSUME NEW r \in Requests, Commit(r) PROVE Single'
    <2> DEFINE k == req[r].key
               c == headOf[k] \cup {<<k, made[k] + 1>>}
    <2>1. k \in Keys /\ headOf[k] \in Heads /\ headOf[k] # None /\ headOf' = headOf
      BY <1>2, <1>t DEF Commit, IInv, TypeOK, RequestsOK, ReqType
    <2>2. made' = [made EXCEPT ![k] = made[k] + 1]
      BY <1>2 DEF Commit
    <2>3. made'[k] > 0 /\ \A x \in Keys : x # k => made'[x] = made[x]
      BY <1>t, <2>1, <2>2
    <2>4. Known(headOf[k])
      BY <2>1 DEF Known
    <2>5. Once(c) /\ \A p \in c : made'[p[1]] > 0
      <3>1. Once(headOf[k]) /\ \A p \in headOf[k] : p[1] # k /\ p[1] \in Keys /\ made[p[1]] > 0
        BY <2>1, <2>4 DEF Single, Heads
      <3>2. QED
        BY <2>3, <3>1 DEF Once
    <2>6. \A h \in Heads : Known(h)' => Known(h) \/ h = c
      <3>1. UNCHANGED <<change, ops, headOf, acked, branch, mergedAt>>
        BY <1>2 DEF Commit, Fault, Fail, github
      <3>2. \A x \in Requests : req'[x].commit \in {req[x].commit, None, c}
        <4>1. CASE Fault(r)
          BY <4>1, <1>t DEF Fault, Fail, Idle
        <4>2. CASE req' = [req EXCEPT ![r].pc = "record", ![r].commit = c]
          BY <4>2, <1>t DEF ReqType
        <4>3. QED
          BY <1>2, <4>1, <4>2 DEF Commit
      <3> HIDE DEF c
      <3>3. QED
        BY <3>1, <3>2, HeadsType DEF Known
    <2> HIDE DEF c
    <2>7. \A h \in Heads : \A p \in h : made[p[1]] > 0 => made'[p[1]] > 0
      BY <2>1, <2>3 DEF Heads
    <2>8. QED
      BY <2>1, <2>3, <2>5, <2>6, <2>7 DEF Single
  <1>3. ASSUME NEW r \in Requests, NEW k \in Keys, StartSave(r, k) PROVE Single'
    <2>1. PICK h \in IF headOf[k] # None THEN {headOf[k]}
                     ELSE IF k = First THEN {Base} ELSE acked \cup {change.head} :
             headOf' = [headOf EXCEPT ![k] = h]
      BY <1>3 DEF StartSave
    <2>2. h \in Heads /\ Known(h)
      BY <1>t, <2>1, HeadsType DEF Known, RowType
    <2>3. headOf'[k] = h /\ \A x \in Keys : x # k => headOf'[x] = headOf[x]
      BY <1>t, <2>1
    <2>4. UNCHANGED <<ops, acked, branch, mergedAt, made>> /\ change'.head = change.head
      BY <1>3, <1>t DEF StartSave, github, RowType
    <2>5. \A x \in Requests : req'[x].commit \in {req[x].commit, None}
      BY <1>3, <1>t DEF StartSave, Idle
    <2>6. \A g \in Heads : Known(g)' => Known(g)
      BY <2>2, <2>3, <2>4, <2>5, HeadsType DEF Known
    <2>7. \A p \in h : p[1] # k
      <3>1. CASE headOf[k] # None
        BY <2>1, <3>1 DEF Single
      <3>2. CASE headOf[k] = None
        BY <2>2, <3>2, <1>t DEF Single
      <3>3. QED
        BY <3>1, <3>2
    <2>8. h # None
      BY <2>2, HeadsType
    <2>9. QED
      BY <2>3, <2>4, <2>6, <2>7, <2>8 DEF Single
  <1>4. QED
    BY <1>1, <1>2, <1>3, SettledStep

\* However often a save is sent again, and by however many requests at once, neither the
\* branch nor what is merged contains it twice.
THEOREM SavedOnce ==
    Spec => [](\A h \in {branch, mergedAt} \ {None} : Once(h))
  <1> DEFINE Inv == IInv /\ Single
  <1>1. Init => Inv
    BY InitIInv, InitSingle
  <1>2. Inv /\ [Next]_vars => Inv'
    BY StepIInv, StepSingle
  <1>3. Inv => \A h \in {branch, mergedAt} \ {None} : Once(h)
    BY DEF Single, Known, IInv, TypeOK, StoresOK
  <1>4. QED
    BY <1>1, <1>2, <1>3, PTL DEF Spec

=============================================================================
