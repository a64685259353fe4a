------------------------------ MODULE PlaySync ------------------------------
(***************************************************************************)
(* Play statistics: the launcher's SQLite store and its upload and         *)
(* deletion requests (PlayStatisticsService), and the D1 tables of the     *)
(* platform API they end in (storage.ts, the conflict trigger).            *)
(*                                                                         *)
(* A session is a row with a revision that grows while the game runs.      *)
(* Every write to the store may fail, the launcher may be killed and       *)
(* started again, and a request the launcher gave up (a timeout, an error, *)
(* an abort) may still be served.                                          *)
(*                                                                         *)
(* Left out: what a session measures, the 100 rows of a batch and the      *)
(* 10000 rows of the store, the expiry of revocations and of stored        *)
(* sessions after 90 days.                                                 *)
(***************************************************************************)
EXTENDS Naturals, FiniteSets

CONSTANTS Sessions,     \* the sessions that may be observed
          Refused,      \* those the validation of the API refuses for good
          Credentials,  \* installation ids with their tokens
          NoCredential,
          MaxRevision,  \* bound on the revisions of a session
          MaxStarts,    \* bound on the starts of the launcher
          MaxRequests   \* bound on the requests under way

ASSUME RefusedAssumption    == Refused \subseteq Sessions
ASSUME CredentialAssumption == NoCredential \notin Credentials
ASSUME BoundsAssumption     == {MaxRevision, MaxStarts, MaxRequests} \subseteq Nat \ {0}
                               /\ MaxRevision > 1

VARIABLES
    \* The store of the launcher
    rows,      \* the sessions table
    consent,   \* metadata sharingEnabled
    savedKey,  \* metadata installationId and installationToken
    \* The running launcher
    starts,    \* how often it was started
    running,   \* it runs
    sharing, deleting, key,  \* State's fields
    writable,  \* storageWritable, and the negation of persistenceReported
    active,    \* revision of each observed session, 0 if none
    may,       \* the observed sessions that are ActiveSession::eligible
    \* The network and the API
    requests,  \* the requests under way
    installs,  \* installations
    revoked,   \* revoked_credentials
    stored,    \* play_sessions
    \* The world
    used,      \* sessions begun so far
    aged,      \* sessions last observed more than 30 days ago
    agreed,    \* history: sessions begun under a consent not withdrawn since
    declined   \* history: the user turned sharing off since the start

store  == <<rows, consent, savedKey>>
watch  == <<active, may>>
server == <<installs, revoked, stored>>
world  == <<starts, running, used, aged>>
hist   == <<agreed, declined>>
vars   == <<store, sharing, deleting, key, writable, watch, requests, server, world, hist>>

NoRow     == [rev |-> 0, done |-> FALSE, eligible |-> FALSE, pending |-> FALSE]
NotStored == [rev |-> 0, done |-> FALSE, owner |-> NoCredential]

Row(rev, done, eligible, shares) ==
    [rev |-> rev, done |-> done, eligible |-> eligible, pending |-> eligible /\ shares]

Withdrawn(S, table) ==
    [s \in Sessions |-> IF s \in S THEN [table[s] EXCEPT !.eligible = FALSE, !.pending = FALSE]
                        ELSE table[s]]

Written(S, new, table) == [s \in Sessions |-> IF s \in S THEN new[s] ELSE table[s]]

Observed == {s \in Sessions : active[s] # 0}

Heard == {r \in requests : r.heard}

\* The launcher stops listening; the requests themselves may still arrive.
Ignored(R) == {[r EXCEPT !.heard = FALSE] : r \in R}

Post(batch) == [kind |-> "post", key |-> key, batch |-> batch, stage |-> "sent", heard |-> TRUE]
Deletion    == [Post([s \in {} |-> NoRow]) EXCEPT !.kind = "delete"]

Init ==
    /\ rows = [s \in Sessions |-> NoRow] /\ consent = FALSE /\ savedKey = NoCredential
    /\ starts = 1 /\ running = TRUE
    /\ sharing = FALSE /\ deleting = FALSE /\ writable = TRUE /\ key = NoCredential
    /\ active = [s \in Sessions |-> 0] /\ may = {}
    /\ requests = {} /\ installs = {} /\ revoked = {}
    /\ stored = [s \in Sessions |-> NotStored]
    /\ used = {} /\ aged = {} /\ agreed = {} /\ declined = FALSE

(***************************************************************************)
(* The store.                                                              *)
(***************************************************************************)

\* Mutant of StoreFails: sharing stays on when the store cannot be written.
KeepSharing ==
    /\ writable' = FALSE /\ may' = {} /\ UNCHANGED <<sharing, requests>>

\* reportPersistenceError: stop sending, but leave a deletion under way.
StoreFails ==
    /\ writable' = FALSE /\ sharing' = FALSE /\ may' = {}
    /\ requests' = IF deleting THEN requests ELSE Ignored(requests)

StoreWorks == UNCHANGED <<writable, sharing, requests>>

\* prune deletes finished rows of 90 days and withdraws rows of 30 days; it may get half way.
Forgettable(table) == SUBSET {s \in aged : table[s].done}
Forget(gone, table) == Written(gone, [s \in Sessions |-> NoRow], table)
Pruned(table)     == {Withdrawn(aged, Forget(gone, table)) : gone \in Forgettable(table)}
HalfPruned(table) == {Forget(gone, table) : gone \in Forgettable(table)} \union Pruned(table)

\* save for the sessions of S in any order, then prune if the handler does: the first
\* failure ends both, and a store already given up is left alone.
Save(S, new, prunes, still) ==
    \/ /\ ~writable /\ may' = still
       /\ UNCHANGED rows /\ StoreWorks
    \/ /\ writable /\ may' = still
       /\ LET all == Written(S, new, rows)
          IN  rows' \in IF prunes THEN Pruned(all) ELSE {all}
       /\ StoreWorks
    \/ /\ writable /\ StoreFails
       /\ \/ \E saved \in SUBSET S : saved # S /\ rows' = Written(saved, new, rows)
          \/ prunes /\ rows' \in HalfPruned(Written(S, new, rows))

(***************************************************************************)
(* Observing sessions.                                                     *)
(***************************************************************************)

\* Mutant of Snapshot: consent is read when the snapshot is taken.
LateSnapshot(s, done) == Row(active[s] + 1, done, sharing, sharing)

\* observe, and the row save writes: eligible as it was when the session began.
Snapshot(s, done) == Row(active[s] + 1, done, s \in may, sharing)

Snapshots(S, done) == [s \in S |-> Snapshot(s, done)]

Begun(s) == agreed' = IF sharing THEN agreed \union {s} ELSE agreed

StartSession(s) ==
    /\ running /\ s \notin used /\ used' = used \union {s}
    /\ active' = [active EXCEPT ![s] = 1]
    /\ Save({s}, [x \in {s} |-> Row(1, FALSE, sharing, sharing)], FALSE,
            IF sharing THEN may \union {s} ELSE may)
    /\ Begun(s)
    /\ UNCHANGED <<consent, savedKey, deleting, key, server, starts, running, aged, declined>>

Checkpoint ==
    /\ running /\ \A s \in Observed : active[s] < MaxRevision - 1
    /\ active' = [s \in Sessions |-> IF s \in Observed THEN active[s] + 1 ELSE 0]
    /\ Save(Observed, Snapshots(Observed, FALSE), TRUE, may)
    /\ UNCHANGED <<consent, savedKey, deleting, key, server, world, hist>>

FinishSession(s) ==
    /\ running /\ s \in Observed
    /\ active' = [active EXCEPT ![s] = 0]
    /\ Save({s}, Snapshots({s}, TRUE), TRUE, may \ {s})
    /\ UNCHANGED <<consent, savedKey, deleting, key, server, world, hist>>

RecordLaunchFailure(s) ==
    /\ running /\ s \notin used /\ used' = used \union {s}
    /\ Save({s}, [x \in {s} |-> Row(1, TRUE, sharing, sharing)], TRUE, may)
    /\ Begun(s)
    /\ UNCHANGED <<consent, savedKey, deleting, key, active, server, starts, running, aged,
                   declined>>

ClearLocalHistory ==
    /\ running
    /\ active' = [s \in Sessions |-> 0] /\ may' = {}
    /\ requests' = IF deleting THEN requests ELSE Ignored(requests)
    /\ \/ /\ rows' = [s \in Sessions |-> NoRow]
          /\ UNCHANGED <<writable, sharing>>
       \/ /\ writable' = FALSE /\ sharing' = FALSE
          /\ UNCHANGED rows
    /\ UNCHANGED <<consent, savedKey, deleting, key, server, world, hist>>

(***************************************************************************)
(* The end of the launcher and its next start.                             *)
(***************************************************************************)

\* What the process held is gone, and nobody listens to its requests.
Gone ==
    /\ running' = FALSE /\ sharing' = FALSE /\ deleting' = FALSE /\ writable' = TRUE
    /\ key' = NoCredential /\ active' = [s \in Sessions |-> 0] /\ may' = {}
    /\ requests' = Ignored(requests)

\* interruptAll, then the destructor.
Quit ==
    /\ running
    /\ Gone
    /\ \E saved \in SUBSET Observed :
        rows' = IF writable THEN Written(saved, Snapshots(saved, TRUE), rows) ELSE rows
    /\ UNCHANGED <<consent, savedKey, server, starts, used, aged, hist>>

Crash ==
    /\ running
    /\ Gone
    /\ UNCHANGED <<store, server, starts, used, aged, hist>>

\* Mutant of Unfinished: every row is taken for an unfinished session.
AnyRow == {s \in Sessions : rows[s].rev # 0}

Unfinished == {s \in Sessions : rows[s].rev # 0 /\ ~rows[s].done}

\* The constructor: read the metadata, write the consent back, recover and prune.  A store
\* that does not open is one whose writes all fail until the next start: the key it hides is
\* not used before one of them has succeeded.
Start ==
    /\ ~running /\ starts < MaxStarts
    /\ running' = TRUE /\ starts' = starts + 1 /\ key' = savedKey /\ declined' = FALSE
    /\ \/ \* the store does not open or does not take the consent back
          /\ writable' = FALSE /\ UNCHANGED <<rows, consent, sharing>>
       \/ LET shares == consent /\ savedKey # NoCredential
              interrupted == [s \in Sessions |->
                                  Row(rows[s].rev + 1, TRUE, rows[s].eligible, shares)]
          IN  /\ consent' = shares
              /\ \/ \* the unfinished sessions may not be readable
                    /\ \E S \in {{}, Unfinished} :
                          rows' \in Pruned(Written(S, interrupted, rows))
                    /\ writable' = TRUE /\ sharing' = shares
                 \/ /\ \/ \E S \in SUBSET Unfinished : rows' = Written(S, interrupted, rows)
                       \/ rows' \in HalfPruned(Written(Unfinished, interrupted, rows))
                    /\ writable' = FALSE /\ UNCHANGED sharing
    /\ UNCHANGED <<savedKey, deleting, watch, requests, server, used, aged, agreed>>

\* A row not sent for 30 days.
Age(s) ==
    /\ rows[s].rev # 0 /\ s \notin Observed \union aged
    /\ aged' = aged \union {s}
    /\ UNCHANGED <<store, sharing, deleting, key, writable, watch, requests, server, starts,
                   running, used, hist>>

(***************************************************************************)
(* Consent.                                                                *)
(***************************************************************************)

\* newInstallationToken: a credential nobody has used.
Fresh == Credentials \ (installs \union revoked \union {key, savedKey}
                          \union {r.key : r \in requests})

OptIn ==
    /\ running /\ ~sharing /\ ~deleting
    /\ may' = {}
    /\ \/ /\ \E k \in (IF key = NoCredential THEN Fresh ELSE {key}) :
                /\ key' = k /\ savedKey' = k
          /\ rows' = Withdrawn(Sessions, rows) /\ consent' = TRUE
          /\ sharing' = TRUE /\ writable' = TRUE
          /\ agreed' = {} /\ declined' = FALSE
          /\ UNCHANGED requests
       \/ /\ \/ UNCHANGED key
             \/ key = NoCredential /\ key' \in Fresh
          /\ writable' = FALSE /\ UNCHANGED sharing
          /\ requests' = Ignored(requests)
          /\ UNCHANGED <<store, hist>>
    /\ UNCHANGED <<deleting, active, server, world>>

\* setSharingEnabled(false): stop sending first, then write it down.
StopSharing ==
    /\ sharing' = FALSE /\ may' = {}
    /\ \/ /\ consent' = FALSE /\ rows' = Withdrawn(Sessions, rows) /\ writable' = TRUE
          /\ agreed' = {}
       \/ /\ writable' = FALSE /\ UNCHANGED <<consent, rows, agreed>>

OptOut ==
    /\ running /\ (sharing \/ ~writable)
    /\ StopSharing /\ requests' = Ignored(requests) /\ declined' = TRUE
    /\ UNCHANGED <<savedKey, deleting, key, active, server, world>>

RequestRemoteDeletion ==
    /\ running /\ ~deleting /\ Cardinality(requests) < MaxRequests
    /\ declined' = TRUE
    /\ \/ (sharing \/ ~writable) /\ StopSharing
       \/ ~sharing /\ writable /\ UNCHANGED <<sharing, may, consent, rows, writable, agreed>>
    /\ LET sends == key # NoCredential /\ writable'
       IN  /\ deleting' = sends
           /\ requests' = Ignored(requests) \union (IF sends THEN {Deletion} ELSE {})
    /\ UNCHANGED <<savedKey, key, active, server, world>>

(***************************************************************************)
(* Uploads.                                                                *)
(***************************************************************************)

UploadPending ==
    /\ running /\ sharing /\ writable /\ Heard = {} /\ ~deleting
    /\ Cardinality(requests) < MaxRequests
    /\ \/ /\ rows' \in Pruned(rows)
          /\ LET batch == {s \in Sessions : rows'[s].pending}
             IN  requests' = IF batch = {} THEN requests
                             ELSE requests \union {Post([s \in batch |-> rows'[s]])}
          /\ UNCHANGED <<may, writable, sharing>>
       \/ rows' \in HalfPruned(rows) /\ StoreFails
    /\ UNCHANGED <<consent, savedKey, deleting, key, active, server, world, hist>>

\* Mutant of Current: an answer counts for whatever the row holds by now.
WholeBatch(r) == DOMAIN r.batch

\* The rows still at the revision that was sent.
Current(r) == {s \in DOMAIN r.batch : rows[s].rev = r.batch[s].rev}

\* The last requests of the launcher whose answers are in are dropped.
Answered(r, stage) == r \in Heard /\ r.stage = stage /\ requests' = requests \ {r}

Accepted(r) ==
    /\ Answered(r, "accepted")
    /\ \/ /\ rows' = [s \in Sessions |-> IF s \in Current(r) THEN [rows[s] EXCEPT !.pending = FALSE]
                                         ELSE rows[s]]
          /\ UNCHANGED <<writable, sharing, may>>
       \/ /\ \E S \in SUBSET Current(r) :
                rows' = [s \in Sessions |-> IF s \in S THEN [rows[s] EXCEPT !.pending = FALSE]
                                            ELSE rows[s]]
          /\ writable' = FALSE /\ sharing' = FALSE /\ may' = {}
    /\ UNCHANGED <<consent, savedKey, deleting, key, active, server, world, hist>>

Unauthorized(r) ==
    /\ Answered(r, "unauthorized")
    /\ StopSharing
    /\ UNCHANGED <<savedKey, deleting, key, active, server, world, declined>>

\* Mutant of Rejected: a refused batch stays in the queue.
RetryRejected(r) ==
    /\ Answered(r, "refused")
    /\ UNCHANGED <<store, sharing, deleting, key, writable, watch, server, world, hist>>

Omitted(r, S) ==
    /\ rows' = Withdrawn(S, rows)
    /\ may' = may \ {s \in S : active[s] = r.batch[s].rev}

\* A refusal for good: the revisions that were sent are withdrawn, one by one; an update
\* that fails is passed over and leaves its row to be sent again.
Rejected(r) ==
    /\ Answered(r, "refused")
    /\ \E S \in SUBSET Current(r) : Omitted(r, S)
    /\ UNCHANGED <<consent, savedKey, sharing, deleting, key, writable, active, server, world,
                   hist>>

Deleted(r) ==
    /\ Answered(r, "deleted")
    /\ deleting' = FALSE /\ key' = NoCredential
    /\ \/ savedKey' = NoCredential /\ UNCHANGED <<writable, sharing, may>>
       \/ UNCHANGED savedKey /\ writable' = FALSE /\ sharing' = FALSE /\ may' = {}
    /\ UNCHANGED <<rows, consent, active, server, world, hist>>

\* No answer within 15 s, or an error of the network or of the API.
GiveUp(r) ==
    /\ r \in Heard
    /\ requests' = (requests \ {r}) \union {[r EXCEPT !.heard = FALSE]}
    /\ deleting' = (deleting /\ r.kind # "delete")
    /\ UNCHANGED <<store, sharing, key, writable, watch, server, world, hist>>

(***************************************************************************)
(* The platform API.                                                       *)
(***************************************************************************)

Serve(r, stage) ==
    requests' = (requests \ {r}) \union {[r EXCEPT !.stage = stage]}

Local == <<store, sharing, deleting, key, writable, watch, world, hist>>

\* validateBatch, then the reads of saveBatch.
Check(r) ==
    /\ r.kind = "post" /\ r.stage = "sent"
    /\ Serve(r, IF DOMAIN r.batch \intersect Refused # {} THEN "refused"
                ELSE IF r.key \in revoked THEN "unauthorized" ELSE "checked")
    /\ UNCHANGED <<Local, server>>

\* The trigger play_session_conflict.
Conflicts(r, s) ==
    /\ stored[s].rev # 0
    /\ \/ stored[s].owner # r.key
       \/ stored[s].done /\ r.batch[s].rev > stored[s].rev

Newest(r, s) ==
    IF s \in DOMAIN r.batch /\ r.batch[s].rev > stored[s].rev
    THEN [rev |-> r.batch[s].rev, done |-> r.batch[s].done, owner |-> r.key]
    ELSE stored[s]

\* Mutant of Commit: the transaction trusts the read made before it.
TrustingCommit(r) ==
    /\ r.kind = "post" /\ r.stage = "checked"
    /\ stored' = [s \in Sessions |-> Newest(r, s)]
    /\ installs' = installs \union {r.key}
    /\ Serve(r, "accepted")
    /\ UNCHANGED <<Local, revoked>>

\* The transaction of saveBatch, which looks for the revocation again.
Commit(r) ==
    /\ r.kind = "post" /\ r.stage = "checked"
    /\ \/ /\ r.key \in revoked
          /\ Serve(r, "unauthorized") /\ UNCHANGED <<installs, stored>>
       \/ /\ r.key \notin revoked /\ \E s \in DOMAIN r.batch : Conflicts(r, s)
          /\ Serve(r, "refused") /\ UNCHANGED <<installs, stored>>
       \/ /\ r.key \notin revoked /\ \A s \in DOMAIN r.batch : ~Conflicts(r, s)
          /\ stored' = [s \in Sessions |-> Newest(r, s)]
          /\ installs' = installs \union {r.key}
          /\ Serve(r, "accepted")
    /\ UNCHANGED <<Local, revoked>>

\* deleteInstallation: revoke the credential, and cascade to its sessions.
DeleteInstallation(r) ==
    /\ r.kind = "delete" /\ r.stage = "sent"
    /\ revoked' = revoked \union {r.key} /\ installs' = installs \ {r.key}
    /\ stored' = [s \in Sessions |-> IF stored[s].owner = r.key THEN NotStored ELSE stored[s]]
    /\ Serve(r, "deleted")
    /\ UNCHANGED Local

\* A request nobody waits for never arrives, or its answer is thrown away.
Drop(r) ==
    /\ ~r.heard
    /\ requests' = requests \ {r}
    /\ UNCHANGED <<Local, server>>

Next ==
    \/ \E s \in Sessions : StartSession(s) \/ FinishSession(s) \/ RecordLaunchFailure(s) \/ Age(s)
    \/ Checkpoint \/ ClearLocalHistory \/ Quit \/ Crash \/ Start
    \/ OptIn \/ OptOut \/ RequestRemoteDeletion \/ UploadPending
    \/ \E r \in requests :
        \/ Accepted(r) \/ Unauthorized(r) \/ Rejected(r) \/ Deleted(r) \/ GiveUp(r)
        \/ Check(r) \/ Commit(r) \/ DeleteInstallation(r) \/ Drop(r)

Spec == Init /\ [][Next]_vars

\* The timer of the uploads is armed again every 30 s, and a network that is not down for
\* ever lets infinitely many of infinitely many requests through each stage; nor is the
\* store broken for every refusal.
FairSpec ==
    /\ Spec
    /\ WF_vars(UploadPending)
    /\ WF_vars(\E r \in requests : Drop(r))
    /\ SF_vars(\E r \in Heard : Check(r))
    /\ SF_vars(\E r \in Heard : Commit(r))
    /\ SF_vars(\E r \in Heard : Accepted(r))
    /\ SF_vars(\E r \in Heard : Unauthorized(r))
    /\ SF_vars(\E r \in Heard : Rejected(r) /\ Omitted(r, Current(r)))

(***************************************************************************)
(* Properties.                                                             *)
(***************************************************************************)

RowType == [rev : 0 .. MaxRevision, done : BOOLEAN, eligible : BOOLEAN, pending : BOOLEAN]

\* The types of the variables; the launcher listens to one request at a time, shares only
\* through a store it can write and a credential it holds, and only observed sessions are
\* eligible.
TypeOK ==
    /\ rows \in [Sessions -> RowType] /\ consent \in BOOLEAN
    /\ {savedKey, key} \subseteq Credentials \union {NoCredential}
    /\ starts \in 1 .. MaxStarts
    /\ {running, sharing, deleting, writable, declined} \subseteq BOOLEAN
    /\ active \in [Sessions -> 0 .. MaxRevision] /\ may \subseteq Observed
    /\ sharing => running /\ writable /\ key # NoCredential
    /\ Cardinality(requests) <= MaxRequests /\ Cardinality(Heard) <= 1
    /\ \A r \in requests : /\ r.kind \in {"post", "delete"} /\ r.key \in Credentials
                           /\ DOMAIN r.batch \subseteq Sessions
    /\ installs \subseteq Credentials /\ revoked \subseteq Credentials
    /\ stored \in [Sessions -> [rev : 0 .. MaxRevision, done : BOOLEAN,
                                owner : Credentials \union {NoCredential}]]
    /\ {used, aged, agreed} \subseteq SUBSET Sessions

\* Consent: whatever is sent was begun while sharing was on and sharing was not turned off
\* since, not even for a while (setSharingEnabled, startSession, save, uploadPending).
OnlyAgreedSent ==
    [][\A r \in requests' \ requests :
        r.kind = "post" /\ r.heard /\ r.stage = "sent" => ~declined /\ DOMAIN r.batch \subseteq agreed]_vars

\* Once a credential is deleted, no late or racing upload brings its data back
\* (saveBatch against deleteInstallation).
DeletedStaysDeleted ==
    \A c \in revoked : c \notin installs /\ \A s \in Sessions : stored[s].owner # c

\* A row the launcher no longer means to send is stored at that revision or a later one,
\* unless the deletion of the launcher's credential reached the API (uploadPending).
AcknowledgedIsStored ==
    \A s \in Sessions :
        rows[s].eligible /\ ~rows[s].pending /\ savedKey \notin revoked
            => stored[s].rev >= rows[s].rev

\* The requests of one launcher never collide: no session changes its owner or goes on after
\* it was finished, whatever is lost, late or interrupted (play_session_conflict).
NoSessionConflict ==
    \A r \in requests : r.kind = "post" =>
        \A s \in DOMAIN r.batch : ~Conflicts(r, s)

\* While the launcher goes on sharing, a row it means to send gets off its hands: accepted,
\* refused or too old (uploadPending).
Delivered ==
    \A s \in Sessions : rows[s].pending ~> ~(rows[s].pending /\ sharing)

\* A deletion that is under way can be answered: "when the deletion fails, keep the
\* credential and let the user try again" (requestRemoteDeletion).
DeletionAnswerable ==
    deleting => \E r \in Heard : r.kind = "delete"
=============================================================================
