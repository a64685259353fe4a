----------------------------- MODULE DocsChanges -----------------------------
(***************************************************************************)
(* One change of the documentation editor (apps/docs-worker/src:           *)
(* changes.mjs): its row and the journal of its save operations in D1, its *)
(* branch and pull request on GitHub, and the requests that save to it and *)
(* publish it.                                                             *)
(*                                                                         *)
(* A request holds a lease on the row while it works through calls to      *)
(* GitHub, none of which is atomic with the database.  It may be killed    *)
(* between any two of them, an answer of GitHub may be lost after GitHub   *)
(* has done what was asked, and a slow request may outlive its lease: from *)
(* then on `late` holds, and two requests may be under way.                *)
(*                                                                         *)
(* A commit is the set of the saves it contains, so that the ancestors of  *)
(* a commit are its subsets; Base is the commit of master the change began *)
(* from.  Why an input is refused, the contents, the limits on their       *)
(* number, the sessions and the audit rows are left out.                   *)
(***************************************************************************)
EXTENDS Naturals, FiniteSets

CONSTANTS
    Keys,        \* the keys of the save operations
    First,       \* the key of the save that opens the change: its id as well
    Requests,    \* the requests that can be under way at once
    Slow,        \* those that may outlive their lease
    MaxMade,     \* bound on the commits made for one key
    MaxFaults,   \* bound on kills, lost answers and failed calls
    None

ASSUME KeysAssumption == First \in Keys /\ None \notin Keys
ASSUME SlowAssumption == Slow \subseteq Requests
ASSUME BoundsAssumption == MaxMade \in Nat /\ MaxFaults \in Nat

Heads == SUBSET (Keys \X (1..MaxMade))
Base == {}
Orphan == "of a killed request"

ASSUME NoneAssumption == /\ \A h \in Heads : h # None
                         /\ {None, Orphan} \cap Requests = {}
                         /\ None # Orphan

VARIABLES
    change,    \* the row of changes
    ops,       \* the rows of operations
    lock,      \* lock_id: the request the lease was given to
    live,      \* lock_until has not passed
    branch,    \* the head of the branch of the change
    pull,      \* the state of its pull request
    mergedAt,  \* the head that was merged into master
    moved,     \* master is no longer where the change began
    checked,   \* the heads the documentation check passed for
    req,       \* the requests under way
    headOf,    \* the head each save was based on: part of its digest
    made,      \* how many commits were made for each key
    acked,     \* the heads the editor was told of
    faults, late

db == <<change, ops>>
lease == <<lock, live>>
github == <<branch, pull, mergedAt, moved, checked>>
client == <<headOf, acked>>
rest == <<faults, late>>
vars == <<db, lease, github, req, made, client, rest>>

NoChange == [there |-> FALSE, head |-> Base, pr |-> FALSE, merged |-> FALSE]
Idle == [pc |-> "idle", key |-> None, commit |-> None, head |-> Base, pr |-> FALSE]
Steps == {"idle", "check", "journal", "commit", "record", "look", "post", "patch",
          "verify", "list", "open", "complete", "answer", "ready", "merge", "mark"}
WithCommit == {"record", "look", "post", "patch", "verify", "list", "open", "complete", "answer"}

\* A request that writes to the branch has a save and a commit to write.
RequestsOK ==
    /\ req \in [Requests -> [pc: Steps, key: Keys \cup {None}, commit: {None} \cup Heads,
                             head: Heads, pr: BOOLEAN]]
    /\ \A r \in Requests :
           /\ req[r].pc \in WithCommit => req[r].commit # None
           /\ req[r].pc \in WithCommit \cup {"journal", "commit"} =>
                  req[r].key # None /\ headOf[req[r].key] # None

StoresOK ==
    /\ change \in [there: BOOLEAN, head: Heads, pr: BOOLEAN, merged: BOOLEAN]
    /\ ops \in [Keys -> [state: {"absent", "started", "completed"}, commit: {None} \cup Heads]]
    /\ lock \in Requests \cup {None, Orphan}
    /\ live \in BOOLEAN
    /\ branch \in {None} \cup Heads
    /\ pull \in {"none", "open", "closed", "merged"}
    /\ mergedAt \in {None} \cup Heads
    /\ moved \in BOOLEAN
    /\ checked \in SUBSET Heads
    /\ headOf \in [Keys -> {None} \cup Heads]
    /\ made \in [Keys -> 0..MaxMade]
    /\ acked \in SUBSET Heads
    /\ faults \in 0..MaxFaults
    /\ late \in BOOLEAN

TypeOK == RequestsOK /\ StoresOK

Init ==
    /\ change = NoChange
    /\ ops = [k \in Keys |-> [state |-> "absent", commit |-> None]]
    /\ lock = None /\ live = FALSE
    /\ branch = None /\ pull = "none" /\ mergedAt = None
    /\ moved = FALSE /\ checked = {}
    /\ req = [r \in Requests |-> Idle]
    /\ headOf = [k \in Keys |-> None]
    /\ made = [k \in Keys |-> 0]
    /\ acked = {}
    /\ faults = 0 /\ late = FALSE

-----------------------------------------------------------------------------
(* What the requests have in common. *)

Goto(r, pc) == req' = [req EXCEPT ![r].pc = pc]

\* unlock() does nothing to a lease another request has taken since.
Unlock(r) ==
    /\ lock' = IF lock = r THEN None ELSE lock
    /\ live' = (live /\ lock # r)

\* An error ends the request; its operation, when it has one, stays to be resumed.
Fail(r) ==
    /\ req' = [req EXCEPT ![r] = Idle]
    /\ Unlock(r)
    /\ UNCHANGED db

\* A refused input without an operation: a change nothing was saved to goes.
Rejected(r, head, pr) ==
    /\ req' = [req EXCEPT ![r] = Idle]
    /\ Unlock(r)
    /\ change' = IF ops[req[r].key].state = "absent" /\ ~pr /\ head = Base /\ lock = r
                 THEN NoChange ELSE change
    /\ UNCHANGED ops

\* GitHub does not answer, or not with what it did.
Fault(r) ==
    /\ faults < MaxFaults
    /\ faults' = faults + 1
    /\ UNCHANGED late
    /\ Fail(r)

LockFree == lock = None \/ ~live

\* A request that finds the lease taken is refused, has changed nothing, and is sent
\* again: only the one that gets the lease is an action.
Lock(r) ==
    /\ LockFree
    /\ lock' = r /\ live' = TRUE

-----------------------------------------------------------------------------
(* save(). *)

\* The first save opens the change when master is still where its editor began; the
\* others are based on a head the editor was told of, or that the page it reads shows.
StartSave(r, k) ==
    /\ req[r].pc = "idle"
    /\ change.there \/ (k = First /\ ops[k].state = "absent" /\ ~moved)
    /\ k # First => acked # {}
    /\ \E h \in IF headOf[k] # None THEN {headOf[k]}
                ELSE IF k = First THEN {Base} ELSE acked \cup {change.head} :
           headOf' = [headOf EXCEPT ![k] = h]
    /\ change' = [change EXCEPT !.there = TRUE]
    /\ Lock(r)
    /\ req' = [req EXCEPT ![r] = [Idle EXCEPT !.pc = "check", !.key = k]]
    /\ UNCHANGED <<ops, github, made, acked, rest>>

\* Mutant of Acceptable: the state of the pull request is not looked at.
AcceptableUnlessMerged(k) ==
    /\ ~change.merged
    /\ change.head \in {headOf[k], ops[k].commit}

Acceptable(k) ==
    /\ ~change.merged
    /\ change.head \in {headOf[k], ops[k].commit}
    /\ change.pr => pull = "open"

\* Mutant of Resumes: an operation with a row is taken to have its commit.
ResumesAtRef(k) == IF ops[k].state = "absent" THEN "journal" ELSE "look"

Resumes(k) == IF ops[k].state = "absent" THEN "journal"
              ELSE IF ops[k].commit = None THEN "commit" ELSE "look"

\* Under the lease everything is read again; a completed save is only answered again.
Check(r) ==
    LET k == req[r].key
    IN  /\ req[r].pc = "check"
        /\ k # None
        /\ \/ /\ ~change.there
              /\ Fail(r)
              /\ UNCHANGED acked
           \/ /\ change.there
              /\ ops[k].state = "completed"
              /\ acked' = acked \cup {change.head}
              /\ Fail(r)
           \/ /\ change.there
              /\ ops[k].state # "completed"
              /\ ~Acceptable(k)
              /\ Rejected(r, change.head, change.pr)
              /\ UNCHANGED acked
           \/ /\ change.there
              /\ ops[k].state # "completed"
              /\ Acceptable(k)
              /\ req' = [req EXCEPT ![r] =
                            [pc |-> Resumes(k), key |-> k, commit |-> ops[k].commit,
                             head |-> change.head, pr |-> change.pr]]
              /\ UNCHANGED <<db, lease, acked>>
        /\ UNCHANGED <<github, made, headOf, rest>>

\* The trees the input is validated against are those of commits, so that an input
\* that was accepted once is accepted again.
Refuse(r) ==
    /\ req[r].pc = "journal"
    /\ Rejected(r, req[r].head, req[r].pr)
    /\ UNCHANGED <<github, made, client, rest>>

\* The insertion fails when another request has inserted the row.
Journal(r) ==
    LET k == req[r].key
    IN  /\ req[r].pc = "journal"
        /\ IF ops[k].state = "absent"
           THEN /\ ops' = [ops EXCEPT ![k].state = "started"]
                /\ Goto(r, "commit")
                /\ UNCHANGED <<change, lease>>
           ELSE Fail(r)
        /\ UNCHANGED <<github, made, client, rest>>

\* Mutant of Commit: the commit is only recorded once the branch is there.
CommitUnrecorded(r) ==
    LET k == req[r].key
        c == headOf[k] \cup {<<k, made[k] + 1>>}
    IN  /\ req[r].pc = "commit"
        /\ made[k] < MaxMade
        /\ made' = [made EXCEPT ![k] = @ + 1]
        /\ \/ /\ req' = [req EXCEPT ![r].pc = "look", ![r].commit = c]
              /\ UNCHANGED <<db, lease, rest>>
           \/ Fault(r)
        /\ UNCHANGED <<github, client>>

Commit(r) ==
    LET k == req[r].key
        c == headOf[k] \cup {<<k, made[k] + 1>>}
    IN  /\ req[r].pc = "commit"
        /\ made[k] < MaxMade
        /\ made' = [made EXCEPT ![k] = @ + 1]
        /\ \/ /\ req' = [req EXCEPT ![r].pc = "record", ![r].commit = c]
              /\ UNCHANGED <<db, lease, rest>>
           \/ Fault(r)
        /\ UNCHANGED <<github, client>>

Record(r) ==
    /\ req[r].pc = "record"
    /\ ops' = [ops EXCEPT ![req[r].key].commit = req[r].commit]
    /\ Goto(r, "look")
    /\ UNCHANGED <<change, lease, github, made, client, rest>>

\* What the branch must be for the commit to go on it.
Look(r) ==
    LET c == req[r].commit
    IN  /\ req[r].pc = "look"
        /\ \/ branch = None /\ Goto(r, "post") /\ UNCHANGED <<db, lease>>
           \/ branch = c /\ Goto(r, "verify") /\ UNCHANGED <<db, lease>>
           \/ branch # c /\ branch = headOf[req[r].key] /\ Goto(r, "patch")
              /\ UNCHANGED <<db, lease>>
           \/ branch \notin {None, c, headOf[req[r].key]} /\ Fail(r)
        /\ UNCHANGED <<github, made, client, rest>>

\* Mutant of WriteRef: the branch is moved by force.
WriteAnyRef(r) ==
    /\ req[r].pc \in {"post", "patch"}
    /\ branch' = req[r].commit
    /\ \/ Goto(r, "verify") /\ UNCHANGED <<db, lease, rest>>
       \/ Fault(r)
    /\ UNCHANGED <<pull, mergedAt, moved, checked, made, client>>

\* GitHub creates a branch that is not there, and moves one only forwards.
WriteRef(r) ==
    LET c == req[r].commit
        taken == IF req[r].pc = "post" THEN branch = None
                 ELSE branch # None /\ branch \subseteq c
    IN  /\ req[r].pc \in {"post", "patch"}
        /\ \/ /\ taken
              /\ branch' = c
              /\ \/ Goto(r, "verify") /\ UNCHANGED <<db, lease, rest>>
                 \/ Fault(r)
           \/ /\ ~taken
              /\ Fail(r)
              /\ UNCHANGED <<branch, rest>>
        /\ UNCHANGED <<pull, mergedAt, moved, checked, made, client>>

Verify(r) ==
    /\ req[r].pc = "verify"
    /\ IF branch = req[r].commit
       THEN Goto(r, IF req[r].pr THEN "complete" ELSE "list") /\ UNCHANGED <<db, lease>>
       ELSE Fail(r)
    /\ UNCHANGED <<github, made, client, rest>>

ListPulls(r) ==
    /\ req[r].pc = "list"
    /\ \/ pull = "none" /\ Goto(r, "open") /\ UNCHANGED <<db, lease>>
       \/ pull = "open" /\ Goto(r, "complete") /\ UNCHANGED <<db, lease>>
       \/ pull \in {"closed", "merged"} /\ Fail(r)
    /\ UNCHANGED <<github, made, client, rest>>

\* GitHub refuses a pull request of a branch that has an open one.  It would open a second
\* one when the first was opened and closed since it was looked for: that is left out, and
\* the request is refused as the next one is, which finds the closed one.
OpenPull(r) ==
    /\ req[r].pc = "open"
    /\ \/ /\ pull = "none"
          /\ pull' = "open"
          /\ \/ Goto(r, "complete") /\ UNCHANGED <<db, lease, rest>>
             \/ Fault(r)
       \/ /\ pull # "none"
          /\ Fail(r)
          /\ UNCHANGED <<pull, rest>>
    /\ UNCHANGED <<branch, mergedAt, moved, checked, made, client>>

Complete(r) ==
    /\ req[r].pc = "complete"
    /\ change' = IF change.there
                 THEN [change EXCEPT !.head = req[r].commit, !.pr = TRUE] ELSE change
    /\ ops' = [ops EXCEPT ![req[r].key].state = "completed"]
    /\ Goto(r, "answer")
    /\ UNCHANGED <<lease, github, made, client, rest>>

Answer(r) ==
    /\ req[r].pc = "answer"
    /\ acked' = IF change.there THEN acked \cup {change.head} ELSE acked
    /\ Fail(r)
    /\ UNCHANGED <<github, made, headOf, rest>>

-----------------------------------------------------------------------------
(* publish() and readiness(). *)

StartPublish(r, h) ==
    /\ req[r].pc = "idle"
    /\ change.there
    /\ h \in acked
    /\ Lock(r)
    /\ req' = [req EXCEPT ![r] = [Idle EXCEPT !.pc = "check", !.head = h]]
    /\ UNCHANGED <<db, github, made, client, rest>>

Ready(h) == pull = "open" /\ ~moved /\ branch = h /\ h \in checked

\* A merge whose answer was lost is found, and only recorded.
CheckPublish(r) ==
    LET h == req[r].head
    IN  /\ req[r].pc = "check"
        /\ req[r].key = None
        /\ \/ /\ change.there /\ change.head = h /\ change.pr
              /\ mergedAt = h
              /\ Goto(r, "mark")
              /\ UNCHANGED <<db, lease>>
           \/ /\ change.there /\ change.head = h /\ change.pr
              /\ mergedAt # h /\ Ready(h)
              /\ Goto(r, "ready")
              /\ UNCHANGED <<db, lease>>
           \/ /\ ~(change.there /\ change.head = h /\ change.pr /\ (mergedAt = h \/ Ready(h)))
              /\ Fail(r)
        /\ UNCHANGED <<github, made, client, rest>>

CheckAgain(r) ==
    /\ req[r].pc = "ready"
    /\ IF Ready(req[r].head) THEN Goto(r, "merge") /\ UNCHANGED <<db, lease>> ELSE Fail(r)
    /\ UNCHANGED <<github, made, client, rest>>

\* GitHub compares the head sent with the merge, and its own rules demand the check of
\* a branch that is up to date with master.
Mergeable(h) == pull = "open" /\ branch = h /\ branch \in checked /\ ~moved

\* Mutant of Merge: the head is not sent with the merge.
MergeAnyHead(r) ==
    /\ req[r].pc = "merge"
    /\ \/ /\ Mergeable(branch)
          /\ pull' = "merged"
          /\ mergedAt' = branch
          /\ moved' = TRUE
          /\ branch' \in {branch, None}
          /\ \/ Goto(r, "mark") /\ UNCHANGED <<db, lease, rest>>
             \/ Fault(r)
       \/ /\ ~Mergeable(branch)
          /\ Fail(r)
          /\ UNCHANGED <<pull, mergedAt, moved, branch, rest>>
    /\ UNCHANGED <<checked, made, client>>

Merge(r) ==
    /\ req[r].pc = "merge"
    /\ \/ /\ Mergeable(req[r].head)
          /\ pull' = "merged"
          /\ mergedAt' = branch
          /\ moved' = TRUE
          /\ branch' \in {branch, None}
          /\ \/ Goto(r, "mark") /\ UNCHANGED <<db, lease, rest>>
             \/ Fault(r)
       \/ /\ ~Mergeable(req[r].head)
          /\ Fail(r)
          /\ UNCHANGED <<pull, mergedAt, moved, branch, rest>>
    /\ UNCHANGED <<checked, made, client>>

Mark(r) ==
    /\ req[r].pc = "mark"
    /\ change' = [change EXCEPT !.merged = @ \/ change.there]
    /\ req' = [req EXCEPT ![r] = Idle]
    /\ Unlock(r)
    /\ UNCHANGED <<ops, github, made, client, rest>>

-----------------------------------------------------------------------------
(* Failures, time, and GitHub. *)

\* A call to GitHub fails, or times out, and did nothing.
CallFails(r) ==
    /\ req[r].pc # "idle"
    /\ Fault(r)
    /\ UNCHANGED <<github, made, client>>

Killed(r) ==
    /\ req[r].pc # "idle"
    /\ faults < MaxFaults
    /\ faults' = faults + 1
    /\ req' = [req EXCEPT ![r] = Idle]
    /\ lock' = IF lock = r THEN Orphan ELSE lock
    /\ UNCHANGED <<db, live, github, made, client, late>>

Lapse ==
    /\ live
    /\ lock \in Slow \cup {Orphan}
    /\ live' = FALSE
    /\ late' = (late \/ lock \in Requests)
    /\ UNCHANGED <<db, lock, github, req, made, client, faults>>

\* The documentation check of the pull request passes; with master where it was.
CheckPasses ==
    /\ pull = "open" /\ branch # None /\ ~moved
    /\ checked' = checked \cup {branch}
    /\ UNCHANGED <<db, lease, branch, pull, mergedAt, moved, req, made, client, rest>>

MasterMoves ==
    /\ moved' = TRUE
    /\ UNCHANGED <<db, lease, branch, pull, mergedAt, checked, req, made, client, rest>>

PullCloses ==
    /\ pull = "open"
    /\ pull' = "closed"
    /\ UNCHANGED <<db, lease, branch, mergedAt, moved, checked, req, made, client, rest>>

-----------------------------------------------------------------------------
SaveStep(r) ==
    \/ Check(r) \/ Refuse(r) \/ Journal(r) \/ Commit(r) \/ Record(r) \/ Look(r)
    \/ WriteRef(r) \/ Verify(r) \/ ListPulls(r) \/ OpenPull(r) \/ Complete(r) \/ Answer(r)

PublishStep(r) == CheckPublish(r) \/ CheckAgain(r) \/ Merge(r) \/ Mark(r)

Step(r) == SaveStep(r) \/ PublishStep(r)

Next ==
    \/ \E r \in Requests :
           \/ Step(r) \/ CallFails(r) \/ Killed(r)
           \/ \E k \in Keys : StartSave(r, k)
           \/ \E h \in acked : StartPublish(r, h)
    \/ Lapse \/ CheckPasses \/ MasterMoves \/ PullCloses

Spec == Init /\ [][Next]_vars

\* A request goes on until it ends, an abandoned lease runs out, and an editor with an
\* unsettled save sends it again, which sooner or later finds the lease free.
Fairness ==
    /\ WF_vars(lock = Orphan /\ Lapse)
    /\ \A r \in Requests : WF_vars(Step(r))
    /\ \A k \in Keys : SF_vars(\E r \in Requests : StartSave(r, k))

FairSpec == Spec /\ Fairness

-----------------------------------------------------------------------------
(* Properties. *)

Reaches(h) ==
    \/ h = Base
    \/ branch # None /\ h \subseteq branch
    \/ mergedAt # None /\ h \subseteq mergedAt

\* Every head the row names, and every head an editor was told of as saved, is on the
\* branch or in what was merged, even when requests outlive their lease.
SavedIsKept == Reaches(change.head) /\ \A h \in acked : Reaches(h)

\* Only a head that an editor was told of and that the check passed for is merged, even
\* when requests outlive their lease.
MergedAsConfirmed == mergedAt # None => mergedAt \in acked \cap checked

\* As long as no request outlives its lease, what is merged contains every save an
\* editor was told of: no save slips in beside a publication.
MergeTakesEverySave == ~late /\ mergedAt # None => \A h \in acked : h \subseteq mergedAt

\* As long as no request outlives its lease, a save that was begun and is sent again is
\* completed in the end, unless another save has taken its place or the pull request is
\* over.
BegunIsSettled ==
    \A k \in Keys :
        (ops[k].state = "started") ~>
            (late \/ ops[k].state = "completed" \/ change.head # headOf[k]
                  \/ pull \in {"closed", "merged"})
=============================================================================
