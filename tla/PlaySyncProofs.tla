--------------------------- MODULE PlaySyncProofs ---------------------------
(***************************************************************************)
(* For any sessions, credentials and bounds: the types, that a deleted     *)
(* credential's data stays deleted, that what was acknowledged is stored,  *)
(* that the requests of a launcher never collide, and that only sessions   *)
(* of a standing consent are sent.                                         *)
(***************************************************************************)
EXTENDS PlaySync, FiniteSetTheorems, TLAPS

Stages == {"sent", "checked", "accepted", "refused", "unauthorized", "deleted"}
Batches == UNION {[D -> RowType] : D \in SUBSET Sessions}
RequestType == [kind : {"post", "delete"}, key : Credentials, batch : Batches,
                stage : Stages, heard : BOOLEAN]
StoredType == [rev : 0 .. MaxRevision, done : BOOLEAN, owner : Credentials \union {NoCredential}]

Types ==
    /\ rows \in [Sessions -> RowType] /\ consent \in BOOLEAN
    /\ savedKey \in Credentials \union {NoCredential} /\ key \in Credentials \union {NoCredential}
    /\ starts \in 1 .. MaxStarts
    /\ running \in BOOLEAN /\ sharing \in BOOLEAN /\ deleting \in BOOLEAN /\ writable \in BOOLEAN
    /\ declined \in BOOLEAN
    /\ active \in [Sessions -> 0 .. MaxRevision] /\ may \subseteq Observed
    /\ requests \subseteq RequestType
    /\ installs \subseteq Credentials /\ revoked \subseteq Credentials
    /\ stored \in [Sessions -> StoredType]
    /\ used \subseteq Sessions /\ aged \subseteq Sessions /\ agreed \subseteq Sessions

\* There is room for the revision that ends a session.
RoomToEnd == \A s \in Sessions :
    active[s] < MaxRevision /\ (rows[s].done \/ rows[s].rev < MaxRevision)

\* The requests stay few, and the launcher listens to one of them.
FewRequests ==
    /\ IsFiniteSet(requests) /\ Cardinality(requests) <= MaxRequests
    /\ \A q, r \in Heard : q = r

\* Only a session that was begun is observed, has a row or ages; an observed one goes on.
Watched == \A s \in Sessions :
    /\ active[s] # 0 => s \in used /\ rows[s].rev <= active[s] /\ ~rows[s].done
    /\ rows[s].rev # 0 \/ rows[s].done => s \in used
    /\ s \in aged => s \in used /\ active[s] = 0
    /\ ~running => active[s] = 0

\* Sharing needs a consent that stands and is written down; a row is eligible under the
\* consent it was begun with, and none while a deletion is under way.
Consents ==
    /\ sharing => running /\ writable /\ consent /\ key = savedKey /\ key # NoCredential /\ ~declined
    /\ running /\ writable /\ consent => sharing
    /\ may # {} => sharing /\ may \subseteq agreed
    /\ deleting => running /\ ~consent
    /\ \A s \in Sessions : /\ rows[s].pending => rows[s].eligible
                           /\ rows[s].eligible => /\ consent /\ savedKey # NoCredential
                                               /\ s \in agreed /\ rows[s].rev # 0

\* Each stage belongs to a kind of request, and a deletion that is heard is under way.
Kinds == \A r \in requests :
    /\ r.stage = "deleted" => r.kind = "delete"
    /\ r.stage \notin {"sent", "deleted"} => r.kind = "post"
    /\ r.heard /\ r.kind = "delete" => deleting

-----------------------------------------------------------------------------
(* What a save may do to a row. *)

\* What is left of a row that is withdrawn.
Kept(row) == [rev |-> row.rev, done |-> row.done, eligible |-> FALSE, pending |-> FALSE]

LEMMA KeptRow ==
    ASSUME NEW row \in RowType, NEW new, new = [row EXCEPT !.eligible = FALSE, !.pending = FALSE]
    PROVE  new = Kept(row) /\ new \in RowType
  BY DEF RowType, Kept

LEMMA WithdrawnRows ==
    ASSUME NEW table \in [Sessions -> RowType], NEW S
    PROVE  /\ Withdrawn(S, table) \in [Sessions -> RowType]
           /\ \A s \in Sessions : Withdrawn(S, table)[s] = IF s \in S THEN Kept(table[s]) ELSE table[s]
<1>1. \A s \in Sessions : table[s] \in RowType
  OBVIOUS
<1>2. ASSUME NEW s \in Sessions
      PROVE  /\ Withdrawn(S, table)[s] = IF s \in S THEN Kept(table[s]) ELSE table[s]
             /\ Withdrawn(S, table)[s] \in RowType
  <2>1. Withdrawn(S, table)[s] = IF s \in S THEN [table[s] EXCEPT !.eligible = FALSE, !.pending = FALSE]
                                 ELSE table[s]
    BY Zenon DEF Withdrawn
  <2> QED
    BY <1>1, <2>1, KeptRow
<1>3. \E f : Withdrawn(S, table) = [s \in Sessions |-> f[s]]
  <2> DEFINE f == Withdrawn(S, table)
  <2>1. f = [s \in Sessions |-> f[s]]
    BY Zenon DEF Withdrawn
  <2> QED
    BY <2>1, Zenon
<1> QED
  BY <1>2, <1>3

\* Row b as prune may leave it.
AfterPrune(s, b, row) ==
    \/ row = b
    \/ s \in aged /\ row = Kept(b)
    \/ s \in aged /\ b.done /\ row = NoRow

LEMMA PruneRows ==
    ASSUME NEW table \in [Sessions -> RowType], NEW new \in HalfPruned(table)
    PROVE  /\ new \in [Sessions -> RowType]
           /\ \A s \in Sessions : AfterPrune(s, table[s], new[s])
<1>1. PICK gone \in Forgettable(table) :
          new = Forget(gone, table) \/ new = Withdrawn(aged, Forget(gone, table))
  BY DEF HalfPruned, Pruned
<1>2. /\ Forget(gone, table) = [s \in Sessions |-> IF s \in gone THEN NoRow ELSE table[s]]
      /\ gone \subseteq aged /\ \A s \in gone : table[s].done
  BY DEF Forget, Written, Forgettable
<1>3. NoRow \in RowType
  BY BoundsAssumption DEF NoRow, RowType
<1>4. Forget(gone, table) \in [Sessions -> RowType]
  BY <1>2, <1>3
<1>5. \A s \in Sessions : AfterPrune(s, table[s], Forget(gone, table)[s])
  BY <1>2 DEF AfterPrune
<1>6. CASE new = Forget(gone, table)
  BY <1>4, <1>5, <1>6
<1>7. CASE new = Withdrawn(aged, Forget(gone, table))
  <2> DEFINE table1 == Forget(gone, table)
  <2>1. /\ new \in [Sessions -> RowType]
        /\ \A s \in Sessions : new[s] = IF s \in aged THEN Kept(table1[s]) ELSE table1[s]
    BY <1>4, <1>7, WithdrawnRows
  <2>2. \A s \in Sessions : table1[s] = IF s \in gone THEN NoRow ELSE table[s]
    BY <1>2
  <2>3. Kept(NoRow) = NoRow
    BY DEF Kept, NoRow
  <2> HIDE DEF table1
  <2>4. ASSUME NEW s \in Sessions PROVE AfterPrune(s, table[s], new[s])
    <3>1. CASE s \in gone
      BY <1>2, <2>1, <2>2, <2>3, <3>1 DEF AfterPrune
    <3>2. CASE s \notin gone
      BY <2>1, <2>2, <3>2 DEF AfterPrune
    <3> QED
      BY <3>1, <3>2
  <2> QED
    BY <2>1, <2>4
<1> QED
  BY <1>1, <1>6, <1>7

LEMMA PrunedIsHalfPruned == \A table : Pruned(table) \subseteq HalfPruned(table)
  BY DEF HalfPruned

LEMMA IgnoredTypes == ASSUME requests \subseteq RequestType PROVE Ignored(requests) \subseteq RequestType
  BY DEF Ignored, RequestType

\* A row is kept, written or pruned; a store that fails ends the sharing.
LEMMA SaveDoes ==
    ASSUME Types, NEW S \in SUBSET Sessions, NEW new, \A s \in S : new[s] \in RowType,
           NEW prunes \in BOOLEAN, NEW still, Save(S, new, prunes, still)
    PROVE  /\ rows' \in [Sessions -> RowType]
           /\ \A s \in Sessions : \E b \in {rows[s]} \union {new[x] : x \in S \cap {s}} :
                  AfterPrune(s, b, rows'[s])
           /\ ~writable => rows' = rows
           /\ \/ writable' = writable /\ sharing' = sharing /\ may' = still /\ requests' = requests
              \/ StoreFails
<1> DEFINE W(T) == Written(T, new, rows)
<1>1. \A T \in SUBSET S : /\ W(T) \in [Sessions -> RowType]
                          /\ \A s \in Sessions : W(T)[s] \in {rows[s]} \union {new[x] : x \in S \cap {s}}
  BY DEF Types, Written
<1>2. \/ rows' = rows
      \/ \E T \in SUBSET S : rows' = W(T) \/ rows' \in HalfPruned(W(T))
  <2>1. S \in SUBSET S
    OBVIOUS
  <2> QED
    BY <2>1, PrunedIsHalfPruned DEF Save
<1>3. \/ writable' = writable /\ sharing' = sharing /\ may' = still /\ requests' = requests
      \/ StoreFails
  BY DEF Save, StoreWorks
<1>4. ~writable => rows' = rows
  BY DEF Save
<1>5. CASE rows' = rows
  BY <1>3, <1>4, <1>5 DEF Types, AfterPrune
<1>6. ASSUME NEW T \in SUBSET S, rows' = W(T) \/ rows' \in HalfPruned(W(T))
      PROVE  /\ rows' \in [Sessions -> RowType]
             /\ \A s \in Sessions : AfterPrune(s, W(T)[s], rows'[s])
  <2>1. CASE rows' = W(T)
    BY <1>1, <2>1 DEF AfterPrune
  <2>2. CASE rows' \in HalfPruned(W(T))
    <3> HIDE DEF W
    <3> QED
      BY <1>1, <2>2, PruneRows
  <2> QED
    BY <1>6, <2>1, <2>2
<1> QED
  BY <1>1, <1>2, <1>3, <1>4, <1>5, <1>6

-----------------------------------------------------------------------------
(* The handlers that observe sessions do the same to the rows. *)

\* The sessions of S get a new revision, written with the consent they were begun under.
Observing(S, new, prunes, still) ==
    /\ running /\ S \subseteq Sessions /\ prunes \in BOOLEAN
    /\ Save(S, new, prunes, still)
    /\ \A s \in S :
          /\ s \in Observed \/ s \notin used
          /\ new[s] \in RowType /\ new[s].rev = active[s] + 1
          /\ new[s].eligible => sharing /\ (s \in may \/ s \notin used)
          /\ (new[s].pending <=> new[s].eligible)
          /\ IF new[s].done THEN active'[s] = 0
             ELSE active'[s] = active[s] + 1 /\ active[s] + 1 < MaxRevision
    /\ \A s \in Sessions \ S : active'[s] = active[s]
    /\ active' \in [Sessions -> 0 .. MaxRevision]
    /\ \A s \in still : s \in Sessions /\ active'[s] # 0 /\ (s \in may \/ (s \in S \ used /\ sharing))
    /\ used' = used \union S
    /\ agreed \subseteq agreed' /\ agreed' \subseteq Sessions /\ (sharing => S \ used \subseteq agreed')
    /\ UNCHANGED <<consent, savedKey, deleting, key, server, starts, running, aged, declined>>

Observes == \E S, new, prunes, still : Observing(S, new, prunes, still)

LEMMA SnapshotRow ==
    ASSUME NEW s, NEW done \in BOOLEAN, active[s] + 1 \in 0 .. MaxRevision, sharing \in BOOLEAN
    PROVE  /\ Snapshot(s, done) \in RowType /\ Snapshot(s, done).rev = active[s] + 1
           /\ Snapshot(s, done).done <=> done
           /\ Snapshot(s, done).eligible <=> s \in may
           /\ Snapshot(s, done).pending <=> s \in may /\ sharing
<1>1. Snapshot(s, done).rev = active[s] + 1 /\ Snapshot(s, done).done = done
  BY DEF Snapshot, Row
<1>2. Snapshot(s, done).eligible <=> s \in may
  BY DEF Snapshot, Row
<1>3. Snapshot(s, done).pending <=> s \in may /\ sharing
  BY DEF Snapshot, Row
<1>4. Snapshot(s, done) \in RowType
  BY DEF Snapshot, Row, RowType
<1> QED
  BY <1>1, <1>2, <1>3, <1>4

LEMMA HandlersObserve ==
    ASSUME Types, RoomToEnd, Watched, Consents,
           \/ \E s \in Sessions : StartSession(s) \/ FinishSession(s) \/ RecordLaunchFailure(s)
           \/ Checkpoint
    PROVE  Observes
<1>0. MaxRevision \in Nat /\ MaxRevision > 1
  BY BoundsAssumption
<1>1. ASSUME NEW s \in Sessions, StartSession(s) PROVE Observes
  <2> DEFINE new == [x \in {s} |-> Row(1, FALSE, sharing, sharing)]
             still == IF sharing THEN may \union {s} ELSE may
  <2>1. active[s] = 0
    BY <1>1 DEF StartSession, Watched, Types
  <2>2. /\ new[s] \in RowType /\ new[s].rev = 1 /\ ~new[s].done
        /\ (new[s].eligible <=> sharing) /\ (new[s].pending <=> sharing)
    BY <1>0 DEF Row, RowType, Types
  <2>3. Save({s}, new, FALSE, still)
    BY <1>1 DEF StartSession
  <2> HIDE DEF new
  <2>4. Observing({s}, new, FALSE, still)
    <3>1. \A x \in Sessions : active'[x] = IF x = s THEN 1 ELSE active[x]
      BY <1>1 DEF StartSession, Types
    <3>2. active' \in [Sessions -> 0 .. MaxRevision]
      BY <1>0, <1>1 DEF StartSession, Types
    <3>3. \A x \in still : x \in Sessions /\ active'[x] # 0 /\ (x \in may \/ (x \in {s} \ used /\ sharing))
      BY <1>0, <1>1, <3>1 DEF StartSession, Types, Observed
    <3>4. agreed \subseteq agreed' /\ agreed' \subseteq Sessions /\ (sharing => {s} \ used \subseteq agreed')
      BY <1>1 DEF StartSession, Begun, Types
    <3>5. UNCHANGED <<consent, savedKey, deleting, key, server, starts, running, aged, declined>>
      BY <1>1 DEF StartSession
    <3>6. s \notin used /\ used' = used \union {s} /\ running
      BY <1>1 DEF StartSession
    <3>7. \A x \in Sessions \ {s} : active'[x] = active[x]
      BY <3>1
    <3> HIDE DEF still
    <3>8. \A x \in {s} :
          /\ x \in Observed \/ x \notin used
          /\ new[x] \in RowType /\ new[x].rev = active[x] + 1
          /\ new[x].eligible => sharing /\ (x \in may \/ x \notin used)
          /\ (new[x].pending <=> new[x].eligible)
          /\ IF new[x].done THEN active'[x] = 0
             ELSE active'[x] = active[x] + 1 /\ active[x] + 1 < MaxRevision
      BY <1>0, <2>1, <2>2, <3>1, <3>6
    <3> QED
      BY <2>3, <3>2, <3>3, <3>4, <3>5, <3>6, <3>7, <3>8 DEF Observing
  <2> QED
    BY <2>4 DEF Observes
<1>2. ASSUME NEW s \in Sessions, FinishSession(s) PROVE Observes
  <2> DEFINE new == Snapshots({s}, TRUE)
  <2>1. /\ new[s] \in RowType /\ new[s].rev = active[s] + 1 /\ new[s].done
        /\ (new[s].eligible <=> s \in may) /\ (new[s].pending <=> s \in may /\ sharing)
    <3>1. active[s] + 1 \in 0 .. MaxRevision
      BY <1>0 DEF Types, RoomToEnd
    <3> QED
      BY <3>1, SnapshotRow DEF Snapshots, Types
  <2>2. Save({s}, new, TRUE, may \ {s})
    BY <1>2 DEF FinishSession
  <2>3. s \in may => sharing
    BY DEF Consents
  <2> HIDE DEF new
  <2>4. Observing({s}, new, TRUE, may \ {s})
    <3>1. \A x \in Sessions : active'[x] = IF x = s THEN 0 ELSE active[x]
      BY <1>2 DEF FinishSession, Types
    <3>2. active' \in [Sessions -> 0 .. MaxRevision]
      BY <1>0, <1>2 DEF FinishSession, Types
    <3>3. s \in Observed /\ s \in used /\ running
      BY <1>2 DEF FinishSession, Watched, Observed
    <3>4. \A x \in may \ {s} : x \in Sessions /\ active'[x] # 0
      BY <3>1 DEF Types, Observed
    <3>5. UNCHANGED <<consent, savedKey, deleting, key, server, world, hist>>
      BY <1>2 DEF FinishSession
    <3> QED
      BY <2>1, <2>2, <2>3, <3>1, <3>2, <3>3, <3>4, <3>5 DEF Observing, Types, world, hist
  <2> QED
    BY <2>4 DEF Observes
<1>3. ASSUME NEW s \in Sessions, RecordLaunchFailure(s) PROVE Observes
  <2> DEFINE new == [x \in {s} |-> Row(1, TRUE, sharing, sharing)]
  <2>1. active[s] = 0
    BY <1>3 DEF RecordLaunchFailure, Watched, Types
  <2>2. /\ new[s] \in RowType /\ new[s].rev = 1 /\ new[s].done
        /\ (new[s].eligible <=> sharing) /\ (new[s].pending <=> sharing)
    BY <1>0 DEF Row, RowType, Types
  <2>3. Save({s}, new, TRUE, may)
    BY <1>3 DEF RecordLaunchFailure
  <2> HIDE DEF new
  <2>4. Observing({s}, new, TRUE, may)
    <3>1. \A x \in may : x \in Sessions /\ active[x] # 0
      BY DEF Types, Observed
    <3>2. agreed \subseteq agreed' /\ agreed' \subseteq Sessions /\ (sharing => {s} \ used \subseteq agreed')
      BY <1>3 DEF RecordLaunchFailure, Begun, Types
    <3>3. s \notin used /\ used' = used \union {s} /\ running
      BY <1>3 DEF RecordLaunchFailure
    <3>4. UNCHANGED <<consent, savedKey, deleting, key, active, server, starts, running, aged, declined>>
      BY <1>3 DEF RecordLaunchFailure
    <3>5. \A x \in {s} :
          /\ x \in Observed \/ x \notin used
          /\ new[x] \in RowType /\ new[x].rev = active[x] + 1
          /\ new[x].eligible => sharing /\ (x \in may \/ x \notin used)
          /\ (new[x].pending <=> new[x].eligible)
          /\ IF new[x].done THEN active'[x] = 0
             ELSE active'[x] = active[x] + 1 /\ active[x] + 1 < MaxRevision
      BY <2>1, <2>2, <3>3, <3>4
    <3> QED
      BY <2>3, <3>1, <3>2, <3>3, <3>4, <3>5 DEF Observing, Types
  <2> QED
    BY <2>4 DEF Observes
<1>4. ASSUME Checkpoint PROVE Observes
  <2> DEFINE new == Snapshots(Observed, FALSE)
  <2>1. ASSUME NEW s \in Observed
        PROVE  /\ new[s] \in RowType /\ new[s].rev = active[s] + 1 /\ ~new[s].done
               /\ (new[s].eligible <=> s \in may) /\ (new[s].pending <=> s \in may /\ sharing)
    <3>1. active[s] + 1 \in 0 .. MaxRevision
      BY <1>0 DEF Types, RoomToEnd, Observed
    <3> QED
      BY <3>1, SnapshotRow DEF Snapshots, Types
  <2>2. Save(Observed, new, TRUE, may)
    BY <1>4 DEF Checkpoint
  <2>3. \A s \in may : sharing
    BY DEF Consents
  <2>4. Observed \subseteq used /\ Observed \subseteq Sessions
    BY DEF Observed, Watched
  <2>5. /\ active' \in [Sessions -> 0 .. MaxRevision]
        /\ \A s \in Observed : active'[s] = active[s] + 1 /\ active[s] + 1 < MaxRevision
        /\ \A s \in Sessions \ Observed : active'[s] = active[s]
    BY <1>0, <1>4 DEF Checkpoint, Observed, Types
  <2> HIDE DEF new
  <2>6. Observing(Observed, new, TRUE, may)
    <3>1. \A s \in may : s \in Sessions /\ active'[s] # 0
      BY <1>0, <2>5 DEF Types, Observed
    <3> QED
      BY <1>4, <2>1, <2>2, <2>3, <2>4, <2>5, <3>1 DEF Checkpoint, Observing, Types, world, hist
  <2> QED
    BY <2>6 DEF Observes
<1> QED
  BY <1>1, <1>2, <1>3, <1>4

-----------------------------------------------------------------------------
(* What the steps of the launcher do to its rows. *)

\* A row only grows until it is done, unless it is forgotten, and comes under a credential
\* only when its session begins; what is no longer pending was so before.
RowMove(s) ==
    /\ rows'[s].rev >= rows[s].rev \/ (rows'[s].rev = 0 /\ active'[s] = 0)
    /\ rows[s].done => \/ rows'[s].rev = 0 /\ active'[s] = 0
                       \/ rows'[s].done /\ rows'[s].rev = rows[s].rev
    /\ rows[s].rev = 0 /\ active[s] = 0 /\ s \in used => rows'[s].rev = 0 /\ active'[s] = 0
    /\ rows'[s].eligible \/ s \in may'
           => savedKey' = savedKey /\ (rows[s].eligible \/ s \in may \/ s \notin used)
RowsMove == used \subseteq used' /\ \A s \in Sessions : RowMove(s)

Settles == \A s \in Sessions :
    rows'[s].eligible /\ ~rows'[s].pending
        => rows[s].eligible /\ ~rows[s].pending /\ rows'[s].rev = rows[s].rev

Locals == Types /\ RoomToEnd /\ Watched /\ Consents

LEMMA ObservingStep ==
    ASSUME Locals, Kinds, Observes
    PROVE  Locals' /\ RowsMove /\ Settles
<1>0. MaxRevision \in Nat /\ MaxRevision > 1
  BY BoundsAssumption
<1>1. PICK S, new, prunes, still : Observing(S, new, prunes, still)
  BY DEF Observes
<1> USE DEF Locals
<1>2. /\ rows' \in [Sessions -> RowType]
      /\ \A s \in Sessions : \E b \in {rows[s]} \union {new[x] : x \in S \cap {s}} :
             AfterPrune(s, b, rows'[s])
      /\ ~writable => rows' = rows
      /\ \/ writable' = writable /\ sharing' = sharing /\ may' = still /\ requests' = requests
         \/ StoreFails
  BY <1>1, SaveDoes DEF Observing
<1>3. /\ writable' \in BOOLEAN /\ sharing' \in BOOLEAN /\ (sharing' => sharing /\ writable')
      /\ may' \subseteq still /\ requests' \subseteq RequestType
      /\ may' # {} => sharing'
  <2>1. still # {} => sharing
    BY <1>1 DEF Observing, Consents
  <2>2. CASE writable' = writable /\ sharing' = sharing /\ may' = still /\ requests' = requests
    BY <2>1, <2>2 DEF Types, Consents
  <2>3. CASE StoreFails
    BY <2>3, IgnoredTypes DEF StoreFails, Types
  <2> QED
    BY <1>2, <2>2, <2>3
<1>4. Types'
  <2>1. used' \subseteq Sessions /\ agreed' \subseteq Sessions /\ active' \in [Sessions -> 0 .. MaxRevision]
    BY <1>1 DEF Observing, Types
  <2>2. may' \subseteq Observed'
    BY <1>1, <1>3 DEF Observing, Observed
  <2>3. UNCHANGED <<consent, savedKey, deleting, key, server, starts, running, aged, declined>>
    BY <1>1 DEF Observing
  <2> QED
    BY <1>2, <1>3, <2>1, <2>2, <2>3 DEF Types, server
<1>5. ASSUME NEW s \in Sessions
      PROVE  /\ active'[s] < MaxRevision
             /\ rows'[s].done \/ rows'[s].rev < MaxRevision
             /\ active'[s] # 0 => s \in used' /\ rows'[s].rev <= active'[s] /\ ~rows'[s].done
             /\ rows'[s].rev # 0 \/ rows'[s].done => s \in used'
             /\ s \in aged' => s \in used' /\ active'[s] = 0
             /\ rows'[s].pending => rows'[s].eligible
             /\ rows'[s].eligible => consent' /\ savedKey' # NoCredential /\ s \in agreed' /\ rows'[s].rev # 0
             /\ RowMove(s)
             /\ rows'[s].eligible /\ ~rows'[s].pending
                    => rows[s].eligible /\ ~rows[s].pending /\ rows'[s].rev = rows[s].rev
  <2>1. PICK b \in {rows[s]} \union {new[x] : x \in S \cap {s}} : AfterPrune(s, b, rows'[s])
    BY <1>2
  <2>2. rows[s] \in RowType /\ rows'[s] \in RowType /\ active[s] \in Nat /\ active'[s] \in Nat
    BY <1>2, <1>4 DEF Types
  <2>3. /\ active[s] < MaxRevision /\ (rows[s].done \/ rows[s].rev < MaxRevision)
        /\ active[s] # 0 => s \in used /\ rows[s].rev <= active[s] /\ ~rows[s].done
        /\ rows[s].rev # 0 \/ rows[s].done => s \in used
        /\ s \in aged => s \in used /\ active[s] = 0
        /\ rows[s].pending => rows[s].eligible
        /\ rows[s].eligible => consent /\ savedKey # NoCredential /\ s \in agreed /\ rows[s].rev # 0
        /\ sharing => consent /\ savedKey # NoCredential
        /\ s \in may => s \in agreed
    BY DEF RoomToEnd, Watched, Consents
  <2>4. /\ consent' = consent /\ savedKey' = savedKey /\ aged' = aged /\ used' = used \union S
        /\ agreed \subseteq agreed' /\ (sharing => S \ used \subseteq agreed')
        /\ s \notin S => active'[s] = active[s]
        /\ s \in S => /\ active[s] # 0 \/ s \notin used
                      /\ new[s] \in RowType /\ new[s].rev = active[s] + 1
                      /\ new[s].eligible => sharing /\ (s \in may \/ s \notin used)
                      /\ (new[s].pending <=> new[s].eligible)
                      /\ IF new[s].done THEN active'[s] = 0
                         ELSE active'[s] = active[s] + 1 /\ active[s] + 1 < MaxRevision
    BY <1>1 DEF Observing, Observed
  <2>5. s \in may' => s \in may \/ s \notin used
    BY <1>1, <1>3 DEF Observing
  <2>6. /\ b = rows[s] \/ (s \in S /\ b = new[s])
        /\ \/ rows'[s] = b
           \/ s \in aged /\ rows'[s] = Kept(b)
           \/ s \in aged /\ b.done /\ rows'[s] = NoRow
    BY <2>1 DEF AfterPrune
  <2>7. s \in aged => s \notin S
    BY <2>3, <2>4
  <2>8. CASE s \notin S
    <3>1. rows'[s] = rows[s] \/ rows'[s] = Kept(rows[s]) \/ (rows[s].done /\ rows'[s] = NoRow)
      BY <2>6, <2>8
    <3>2. ASSUME rows[s].done PROVE active[s] = 0
      BY <2>3, <3>2
    <3> QED
      BY <1>0, <2>2, <2>3, <2>4, <2>5, <2>8, <3>1, <3>2 DEF RowMove, Kept, NoRow, RowType
  <2>9. CASE s \in S /\ rows'[s] = rows[s]
    BY <1>0, <2>2, <2>3, <2>4, <2>5, <2>9 DEF RowMove, RowType
  <2>10. CASE s \in S /\ rows'[s] = new[s]
    BY <1>0, <2>2, <2>3, <2>4, <2>5, <2>10 DEF RowMove, RowType
  <2> QED
    BY <2>6, <2>7, <2>8, <2>9, <2>10
<1>6. RoomToEnd' /\ Watched' /\ RowsMove /\ Settles
  <2>1. used \subseteq used' /\ running'
    BY <1>1 DEF Observing
  <2> QED
    BY <1>5, <2>1 DEF RoomToEnd, Watched, RowsMove, Settles
<1>7. Consents'
  <2>1. UNCHANGED <<consent, savedKey, deleting, key, running, declined>>
    BY <1>1 DEF Observing
  <2>2. may' \subseteq agreed'
    BY <1>1, <1>3 DEF Observing, Consents
  <2>3. writable' => writable' = writable /\ sharing' = sharing
    BY <1>2 DEF StoreFails
  <2>4. running' /\ writable' /\ consent' => sharing'
    BY <2>1, <2>3 DEF Consents, Types
  <2> QED
    BY <1>3, <1>5, <2>1, <2>2, <2>4 DEF Consents
<1> QED
  BY <1>4, <1>6, <1>7

\* The steps that write no new revision: a row stays, is withdrawn or is forgotten.
QuietRow(s) ==
    /\ active'[s] \in {active[s], 0}
    /\ \/ rows'[s] = rows[s] \/ rows'[s] = Kept(rows[s])
       \/ rows'[s] = NoRow /\ (active'[s] = 0 \/ rows[s].done)

LEMMA QuietRows ==
    ASSUME Locals, rows' \in [Sessions -> RowType], active' \in [Sessions -> 0 .. MaxRevision],
           used' = used, aged' = aged, running' = running, may' \subseteq may,
           \A s \in Sessions : QuietRow(s),
           savedKey' = savedKey \/ (may' = {} /\ \A s \in Sessions : ~rows'[s].eligible)
    PROVE  /\ RoomToEnd' /\ Watched' /\ RowsMove /\ Settles
           /\ \A s \in Sessions : /\ rows'[s].pending => rows'[s].eligible
                                  /\ rows'[s].eligible => rows'[s] = rows[s]
<1>0. MaxRevision \in Nat /\ MaxRevision > 1
  BY BoundsAssumption
<1>1. ASSUME NEW s \in Sessions
      PROVE  /\ active'[s] < MaxRevision
             /\ rows'[s].done \/ rows'[s].rev < MaxRevision
             /\ active'[s] # 0 => s \in used' /\ rows'[s].rev <= active'[s] /\ ~rows'[s].done
             /\ rows'[s].rev # 0 \/ rows'[s].done => s \in used'
             /\ s \in aged' => s \in used' /\ active'[s] = 0
             /\ ~running' => active'[s] = 0
             /\ rows'[s].pending => rows'[s].eligible
             /\ rows'[s].eligible => rows'[s] = rows[s]
             /\ RowMove(s)
             /\ rows'[s].eligible /\ ~rows'[s].pending
                    => rows[s].eligible /\ ~rows[s].pending /\ rows'[s].rev = rows[s].rev
  <2>1. /\ rows[s] \in RowType /\ rows'[s] \in RowType /\ active[s] \in Nat /\ active'[s] \in Nat
        /\ QuietRow(s)
    BY DEF Locals, Types
  <2>2. /\ active[s] < MaxRevision /\ (rows[s].done \/ rows[s].rev < MaxRevision)
        /\ active[s] # 0 => s \in used /\ rows[s].rev <= active[s] /\ ~rows[s].done
        /\ rows[s].rev # 0 \/ rows[s].done => s \in used
        /\ s \in aged => s \in used /\ active[s] = 0
        /\ ~running => active[s] = 0
        /\ rows[s].pending => rows[s].eligible
    BY DEF Locals, RoomToEnd, Watched, Consents
  <2>3. CASE rows'[s] = rows[s] \/ rows'[s] = Kept(rows[s])
    BY <1>0, <2>1, <2>2, <2>3 DEF QuietRow, RowMove, Kept, RowType
  <2>4. CASE rows'[s] = NoRow /\ (active'[s] = 0 \/ rows[s].done)
    BY <1>0, <2>1, <2>2, <2>4 DEF QuietRow, RowMove, NoRow, RowType
  <2> QED
    BY <2>1, <2>3, <2>4 DEF QuietRow
<1> QED
  BY <1>1 DEF RoomToEnd, Watched, RowsMove, Settles

LEMMA PrunedQuietly ==
    ASSUME Types, rows' \in HalfPruned(rows), UNCHANGED active
    PROVE  rows' \in [Sessions -> RowType] /\ \A s \in Sessions : QuietRow(s)
  BY PruneRows DEF Types, AfterPrune, QuietRow

LEMMA WithdrawnQuietly ==
    ASSUME Types, rows' = Withdrawn(Sessions, rows), UNCHANGED active
    PROVE  /\ rows' \in [Sessions -> RowType]
           /\ \A s \in Sessions : QuietRow(s) /\ ~rows'[s].eligible /\ ~rows'[s].pending
  BY WithdrawnRows DEF Types, QuietRow, Kept

LEMMA UnchangedQuietly ==
    ASSUME Types, rows' = rows, UNCHANGED active
    PROVE  rows' \in [Sessions -> RowType] /\ \A s \in Sessions : QuietRow(s)
  BY DEF Types, QuietRow

\* What the launcher does when it stops sharing.
LEMMA StopSharingStep ==
    ASSUME Locals, StopSharing, UNCHANGED <<savedKey, key, active, used, aged>>,
           running' = running, declined' \in BOOLEAN, deleting' \in BOOLEAN,
           deleting' => running /\ (deleting \/ writable')
    PROVE  /\ RoomToEnd' /\ Watched' /\ Consents'
           /\ RowsMove /\ Settles /\ rows' \in [Sessions -> RowType]
           /\ sharing' \in BOOLEAN /\ writable' \in BOOLEAN /\ consent' \in BOOLEAN
           /\ may' = {} /\ agreed' \subseteq Sessions
<1>1. rows' \in [Sessions -> RowType] /\ \A s \in Sessions : QuietRow(s)
  BY WithdrawnQuietly, UnchangedQuietly DEF StopSharing, Locals
<1>2. active' \in [Sessions -> 0 .. MaxRevision]
  BY DEF Locals, Types
<1>3. /\ RoomToEnd' /\ Watched' /\ RowsMove /\ Settles
      /\ \A s \in Sessions : /\ rows'[s].pending => rows'[s].eligible
                             /\ rows'[s].eligible => rows'[s] = rows[s]
  BY <1>1, <1>2, QuietRows DEF StopSharing
<1>4. Consents'
  <2>1. CASE consent' = FALSE /\ rows' = Withdrawn(Sessions, rows)
    <3>1. \A s \in Sessions : ~rows'[s].eligible /\ ~rows'[s].pending
      BY <2>1, WithdrawnQuietly DEF Locals
    <3> QED
      BY <2>1, <3>1 DEF StopSharing, Consents, Locals
  <2>2. CASE writable' = FALSE /\ UNCHANGED <<consent, rows, agreed>>
    BY <1>3, <2>2 DEF StopSharing, Consents, Locals
  <2> QED
    BY <2>1, <2>2 DEF StopSharing
<1> QED
  BY <1>1, <1>3, <1>4 DEF Locals, StopSharing, Types

LEMMA HeardTypes ==
    ASSUME Types, NEW r \in requests, NEW q, q = [r EXCEPT !.heard = FALSE]
    PROVE  q \in RequestType
  BY DEF Types, RequestType

LEMMA EndStep ==
    ASSUME Locals, Kinds, Quit \/ Crash
    PROVE  Locals' /\ RowsMove /\ Settles
<1>0. MaxRevision \in Nat /\ MaxRevision > 1
  BY BoundsAssumption
<1> USE DEF Locals
<1>1. /\ running /\ Gone /\ UNCHANGED <<consent, savedKey, server, starts, used, aged, hist>>
      /\ \/ rows' = rows
         \/ writable /\ \E saved \in SUBSET Observed : rows' = Written(saved, Snapshots(saved, TRUE), rows)
  BY DEF Quit, Crash, store
<1>2. ASSUME NEW s \in Sessions
      PROVE  /\ active'[s] = 0 /\ rows'[s] \in RowType
             /\ \/ rows'[s] = rows[s]
                \/ /\ s \in Observed /\ rows'[s].rev = active[s] + 1 /\ rows'[s].done
                   /\ (rows'[s].eligible <=> s \in may) /\ (rows'[s].pending <=> s \in may /\ sharing)
  <2>1. active'[s] = 0
    BY <1>1 DEF Gone
  <2>2. CASE rows' = rows
    BY <2>1, <2>2 DEF Types
  <2>3. ASSUME NEW saved \in SUBSET Observed, rows' = Written(saved, Snapshots(saved, TRUE), rows), s \in saved
        PROVE  rows'[s] = Snapshot(s, TRUE)
    BY <2>3 DEF Written, Snapshots, Observed
  <2>4. ASSUME NEW saved \in SUBSET Observed, rows' = Written(saved, Snapshots(saved, TRUE), rows), s \notin saved
        PROVE  rows'[s] = rows[s]
    BY <2>4 DEF Written, Snapshots, Observed
  <2>5. CASE rows'[s] = Snapshot(s, TRUE) /\ s \in Observed
    <3>1. active[s] + 1 \in 0 .. MaxRevision /\ sharing \in BOOLEAN
      BY <1>0 DEF Types, RoomToEnd
    <3> QED
      BY <2>1, <2>5, <3>1, SnapshotRow
  <2>6. CASE rows'[s] = rows[s]
    BY <2>1, <2>6 DEF Types
  <2> QED
    BY <1>1, <2>2, <2>3, <2>4, <2>5, <2>6
<1>3. \E f : rows' = [s \in Sessions |-> f[s]]
  BY <1>1 DEF Types, Written
<1>4. Types'
  <2>1. rows' \in [Sessions -> RowType]
    BY <1>2, <1>3
  <2>2. active' \in [Sessions -> 0 .. MaxRevision] /\ may' \subseteq Observed'
    BY <1>0, <1>1 DEF Gone
  <2>3. requests' \subseteq RequestType
    BY <1>1, IgnoredTypes DEF Gone, Types
  <2> QED
    BY <1>1, <2>1, <2>2, <2>3 DEF Gone, Types, server, hist
<1>5. ASSUME NEW s \in Sessions
      PROVE  /\ rows'[s].done \/ rows'[s].rev < MaxRevision
             /\ rows'[s].rev # 0 \/ rows'[s].done => s \in used
             /\ s \in aged => s \in used
             /\ rows'[s].pending => rows'[s].eligible
             /\ rows'[s].eligible => consent /\ savedKey # NoCredential /\ s \in agreed /\ rows'[s].rev # 0
             /\ RowMove(s)
             /\ rows'[s].eligible /\ ~rows'[s].pending
                    => rows[s].eligible /\ ~rows[s].pending /\ rows'[s].rev = rows[s].rev
  <2>1. /\ rows[s] \in RowType /\ rows'[s] \in RowType /\ active[s] \in Nat /\ active'[s] = 0
        /\ savedKey' = savedKey /\ may' = {}
    BY <1>1, <1>2 DEF Types, Gone
  <2>2. /\ active[s] < MaxRevision /\ (rows[s].done \/ rows[s].rev < MaxRevision)
        /\ active[s] # 0 => s \in used /\ rows[s].rev <= active[s] /\ ~rows[s].done
        /\ rows[s].rev # 0 \/ rows[s].done => s \in used
        /\ s \in aged => s \in used
        /\ rows[s].pending => rows[s].eligible
        /\ rows[s].eligible => consent /\ savedKey # NoCredential /\ s \in agreed /\ rows[s].rev # 0
        /\ s \in may => s \in agreed /\ sharing /\ consent /\ savedKey # NoCredential
    BY DEF RoomToEnd, Watched, Consents
  <2> QED
    BY <1>0, <1>2, <2>1, <2>2 DEF RowMove, Observed, RowType
<1>6. RoomToEnd' /\ Watched' /\ RowsMove /\ Settles
  BY <1>0, <1>1, <1>2, <1>5 DEF RoomToEnd, Watched, RowsMove, Settles
<1>7. Consents'
  BY <1>1, <1>5 DEF Consents, Gone, hist
<1> QED
  BY <1>4, <1>6, <1>7

LEMMA StartStep ==
    ASSUME Locals, Kinds, Start
    PROVE  Locals' /\ RowsMove /\ Settles
<1>0. MaxRevision \in Nat /\ MaxRevision > 1
  BY BoundsAssumption
<1> USE DEF Locals
<1> DEFINE shares == consent /\ savedKey # NoCredential
           interrupted == [s \in Sessions |-> Row(rows[s].rev + 1, TRUE, rows[s].eligible, shares)]
           W(S) == Written(S, interrupted, rows)
<1>1. /\ ~running /\ starts < MaxStarts /\ running' = TRUE /\ starts' = starts + 1
      /\ key' = savedKey /\ declined' = FALSE
      /\ UNCHANGED <<savedKey, deleting, active, may, requests, server, used, aged, agreed>>
  BY DEF Start, watch
<1>2. ~sharing /\ may = {} /\ ~deleting
  BY <1>1 DEF Consents
<1>3. /\ \/ writable' = FALSE /\ consent' = consent /\ sharing' = sharing /\ rows' = rows
         \/ /\ consent' = shares
            /\ \/ writable' = TRUE /\ sharing' = shares
               \/ writable' = FALSE /\ sharing' = sharing
            /\ \E S \in SUBSET Unfinished : rows' = W(S) \/ rows' \in HalfPruned(W(S))
  <2>1. {} \in SUBSET Unfinished /\ Unfinished \in SUBSET Unfinished
    OBVIOUS
  <2>2. CASE writable' = FALSE /\ UNCHANGED <<rows, consent, sharing>>
    BY <2>2
  <2>3. ASSUME consent' = shares, writable' = TRUE, sharing' = shares,
               \E S \in {{}, Unfinished} : rows' \in Pruned(W(S))
        PROVE  \E S \in SUBSET Unfinished : rows' = W(S) \/ rows' \in HalfPruned(W(S))
    BY <2>1, <2>3, PrunedIsHalfPruned
  <2>4. ASSUME \/ \E S \in SUBSET Unfinished : rows' = W(S)
               \/ rows' \in HalfPruned(W(Unfinished))
        PROVE  \E S \in SUBSET Unfinished : rows' = W(S) \/ rows' \in HalfPruned(W(S))
    BY <2>1, <2>4
  <2>5. \/ writable' = FALSE /\ UNCHANGED <<rows, consent, sharing>>
        \/ /\ consent' = shares
           /\ \/ /\ \E S \in {{}, Unfinished} : rows' \in Pruned(W(S))
                 /\ writable' = TRUE /\ sharing' = shares
              \/ /\ \/ \E S \in SUBSET Unfinished : rows' = W(S)
                    \/ rows' \in HalfPruned(W(Unfinished))
                 /\ writable' = FALSE /\ UNCHANGED sharing
    BY DEF Start
  <2> HIDE DEF W
  <2> QED
    BY <2>2, <2>3, <2>4, <2>5
<1>4. ASSUME NEW s \in Sessions, s \in Unfinished
      PROVE  /\ interrupted[s] \in RowType /\ interrupted[s].rev = rows[s].rev + 1 /\ interrupted[s].done
             /\ interrupted[s].eligible <=> rows[s].eligible
             /\ interrupted[s].pending <=> rows[s].eligible /\ shares
  <2>1. rows[s] \in RowType /\ rows[s].rev < MaxRevision
    BY <1>4 DEF Types, RoomToEnd, Unfinished
  <2> DEFINE row == Row(rows[s].rev + 1, TRUE, rows[s].eligible, shares)
  <2>2. row.rev = rows[s].rev + 1 /\ row.done /\ row.eligible = rows[s].eligible
    BY DEF Row
  <2>3. row.pending <=> rows[s].eligible /\ shares
    BY DEF Row
  <2>4. row \in RowType
    BY <1>0, <2>1 DEF Row, RowType
  <2>5. interrupted[s] = row
    BY Zenon
  <2> QED
    BY <2>2, <2>3, <2>4, <2>5
<1>5. ASSUME NEW S \in SUBSET Unfinished
      PROVE  /\ W(S) \in [Sessions -> RowType]
             /\ \A s \in Sessions : W(S)[s] = IF s \in S THEN interrupted[s] ELSE rows[s]
  <2>1. W(S) = [s \in Sessions |-> IF s \in S THEN interrupted[s] ELSE rows[s]]
    BY DEF Written
  <2> HIDE DEF interrupted, W
  <2> QED
    BY <1>4, <2>1 DEF Types
<1> HIDE DEF interrupted, W
<1>6. /\ rows' \in [Sessions -> RowType]
      /\ \A s \in Sessions : \E b \in {rows[s]} \union {interrupted[x] : x \in Unfinished \cap {s}} :
             AfterPrune(s, b, rows'[s])
  <2>1. CASE rows' = rows
    BY <2>1 DEF Types, AfterPrune
  <2>2. ASSUME NEW S \in SUBSET Unfinished, rows' = W(S) \/ rows' \in HalfPruned(W(S))
        PROVE  <1>6!1 /\ \A s \in Sessions : AfterPrune(s, W(S)[s], rows'[s])
    BY <1>5, <2>2, PruneRows DEF AfterPrune
  <2>3. ASSUME NEW S \in SUBSET Unfinished, rows' = W(S) \/ rows' \in HalfPruned(W(S)), NEW s \in Sessions
        PROVE  \E b \in {rows[s]} \union {interrupted[x] : x \in Unfinished \cap {s}} :
                   AfterPrune(s, b, rows'[s])
    BY <1>5, <2>2, <2>3
  <2> QED
    BY <1>3, <2>1, <2>2, <2>3
<1>7. Types'
  <2>1. consent' \in BOOLEAN /\ sharing' \in BOOLEAN /\ writable' \in BOOLEAN
    BY <1>3 DEF Types
  <2>2. starts' \in 1 .. MaxStarts
    BY <1>1, BoundsAssumption DEF Types
  <2> QED
    BY <1>1, <1>6, <2>1, <2>2 DEF Types, server, Observed
<1>8. ASSUME NEW s \in Sessions
      PROVE  /\ rows'[s].done \/ rows'[s].rev < MaxRevision
             /\ active[s] = 0
             /\ rows'[s].rev # 0 \/ rows'[s].done => s \in used
             /\ rows'[s].pending => rows'[s].eligible
             /\ rows'[s].eligible => rows[s].eligible /\ rows'[s].rev # 0
             /\ RowMove(s)
             /\ rows'[s].eligible /\ ~rows'[s].pending
                    => rows[s].eligible /\ ~rows[s].pending /\ rows'[s].rev = rows[s].rev
  <2>1. PICK b \in {rows[s]} \union {interrupted[x] : x \in Unfinished \cap {s}} : AfterPrune(s, b, rows'[s])
    BY <1>6
  <2>2. /\ rows[s] \in RowType /\ rows'[s] \in RowType /\ active[s] \in Nat
        /\ active'[s] = active[s] /\ savedKey' = savedKey /\ may' = {}
    BY <1>1, <1>2, <1>7 DEF Types
  <2>3. /\ active[s] < MaxRevision /\ (rows[s].done \/ rows[s].rev < MaxRevision)
        /\ active[s] = 0
        /\ rows[s].rev # 0 \/ rows[s].done => s \in used
        /\ s \in aged => s \in used /\ active[s] = 0
        /\ rows[s].pending => rows[s].eligible
        /\ rows[s].eligible => shares /\ s \in agreed /\ rows[s].rev # 0
    BY <1>1 DEF RoomToEnd, Watched, Consents
  <2>4. \/ b = rows[s]
        \/ /\ b = interrupted[s] /\ s \in Unfinished
           /\ rows[s].rev # 0 /\ ~rows[s].done
    BY <2>1 DEF Unfinished
  <2>5. \/ rows'[s] = b \/ rows'[s] = Kept(b)
        \/ s \in aged /\ b.done /\ rows'[s] = NoRow
    BY <2>1 DEF AfterPrune
  <2>6. CASE b = rows[s]
    BY <1>0, <2>2, <2>3, <2>5, <2>6 DEF RowMove, Kept, NoRow, RowType
  <2>7. CASE b = interrupted[s] /\ s \in Unfinished /\ rows[s].rev # 0 /\ ~rows[s].done
    BY <1>0, <1>4, <2>2, <2>3, <2>5, <2>7 DEF RowMove, Kept, NoRow, RowType
  <2> QED
    BY <2>4, <2>6, <2>7
<1>9. RoomToEnd' /\ Watched' /\ RowsMove /\ Settles
  BY <1>0, <1>1, <1>8 DEF RoomToEnd, Watched, RowsMove, Settles
<1>10. Consents'
  <2>1. \A s \in Sessions : rows[s].eligible => consent /\ savedKey # NoCredential /\ s \in agreed
    BY DEF Consents
  <2> QED
    BY <1>1, <1>2, <1>3, <1>8, <2>1 DEF Consents, Types
<1> QED
  BY <1>7, <1>9, <1>10

LEMMA AgeStep ==
    ASSUME Locals, NEW s \in Sessions, Age(s)
    PROVE  Locals' /\ RowsMove /\ Settles
<1>1. /\ UNCHANGED <<rows, consent, savedKey, sharing, deleting, key, writable, active, may, requests,
                     server, starts, running, used, agreed, declined>>
      /\ aged' = aged \union {s} /\ rows[s].rev # 0 /\ active[s] = 0
  BY DEF Age, store, watch, hist, Observed
<1>2. Types'
  BY <1>1 DEF Locals, Types, server, Observed
<1>3. RoomToEnd' /\ Consents'
  BY <1>1 DEF Locals, RoomToEnd, Consents
<1>4. Watched'
  BY <1>1 DEF Locals, Watched
<1>5. \A x \in Sessions : rows'[x].rev >= rows[x].rev
  BY <1>1 DEF Locals, Types, RowType
<1>6. RowsMove /\ Settles
  BY <1>1, <1>5 DEF RowsMove, RowMove, Settles
<1> QED
  BY <1>2, <1>3, <1>4, <1>6 DEF Locals

\* The steps that change the consent or the credential.
LEMMA ConsentStep ==
    ASSUME Locals, Kinds, FewRequests,
           OptIn \/ OptOut \/ RequestRemoteDeletion \/ \E r \in requests : Unauthorized(r) \/ Deleted(r)
    PROVE  RoomToEnd' /\ Watched' /\ Consents' /\ RowsMove /\ Settles /\ rows' \in [Sessions -> RowType]
<1> USE DEF Locals
<1>0. active \in [Sessions -> 0 .. MaxRevision]
  BY DEF Types
<1>1. ASSUME OptIn PROVE RoomToEnd' /\ Watched' /\ Consents' /\ RowsMove /\ Settles /\ rows' \in [Sessions -> RowType]
  <2>1. /\ running /\ ~sharing /\ ~deleting /\ may' = {}
        /\ UNCHANGED <<deleting, active, running, used, aged>>
    BY <1>1 DEF OptIn, world
  <2>2. \/ /\ key' = savedKey' /\ key' # NoCredential /\ rows' = Withdrawn(Sessions, rows) /\ consent' = TRUE
           /\ sharing' = TRUE /\ writable' = TRUE /\ declined' = FALSE
        \/ writable' = FALSE /\ sharing' = sharing /\ UNCHANGED <<rows, consent, savedKey, agreed, declined>>
    BY <1>1, CredentialAssumption DEF OptIn, Fresh, store, hist
  <2>3. CASE rows' = Withdrawn(Sessions, rows)
    <3>1. /\ rows' \in [Sessions -> RowType]
          /\ \A s \in Sessions : QuietRow(s) /\ ~rows'[s].eligible /\ ~rows'[s].pending
      BY <2>1, <2>3, WithdrawnQuietly
    <3>2. RoomToEnd' /\ Watched' /\ RowsMove /\ Settles
      BY <1>0, <2>1, <3>1, QuietRows
    <3>3. Consents'
      BY <2>1, <2>2, <3>1 DEF Consents
    <3> QED
      BY <3>1, <3>2, <3>3
  <2>4. CASE /\ writable' = FALSE /\ sharing' = sharing
             /\ UNCHANGED <<rows, consent, savedKey, agreed, declined>>
    <3>1. rows' \in [Sessions -> RowType] /\ \A s \in Sessions : QuietRow(s)
      BY <2>1, <2>4, UnchangedQuietly
    <3>2. RoomToEnd' /\ Watched' /\ RowsMove /\ Settles
      BY <1>0, <2>1, <2>4, <3>1, QuietRows
    <3>3. Consents'
      BY <2>1, <2>4 DEF Consents
    <3> QED
      BY <3>1, <3>2, <3>3
  <2> QED
    BY <2>2, <2>3, <2>4
<1>2. ASSUME OptOut PROVE RoomToEnd' /\ Watched' /\ Consents' /\ RowsMove /\ Settles /\ rows' \in [Sessions -> RowType]
  <2>1. /\ StopSharing /\ UNCHANGED <<savedKey, key, active, used, aged>> /\ running' = running
        /\ declined' \in BOOLEAN /\ deleting' = deleting
    BY <1>2 DEF OptOut, world
  <2>2. deleting' \in BOOLEAN /\ (deleting' => running /\ (deleting \/ writable'))
    BY <2>1 DEF Types, Consents
  <2> QED
    BY <2>1, <2>2, StopSharingStep
<1>3. ASSUME RequestRemoteDeletion
      PROVE  RoomToEnd' /\ Watched' /\ Consents' /\ RowsMove /\ Settles /\ rows' \in [Sessions -> RowType]
  <2>1. /\ running /\ running' = running /\ declined' = TRUE /\ ~deleting
        /\ UNCHANGED <<savedKey, key, active, used, aged>>
        /\ deleting' \in BOOLEAN /\ (deleting' => writable')
    BY <1>3 DEF RequestRemoteDeletion, world
  <2>2. CASE StopSharing
    BY <2>1, <2>2, StopSharingStep
  <2>3. CASE ~sharing /\ writable /\ UNCHANGED <<sharing, may, consent, rows, writable, agreed>>
    <3>1. rows' \in [Sessions -> RowType] /\ \A s \in Sessions : QuietRow(s)
      BY <2>1, <2>3, UnchangedQuietly
    <3>2. RoomToEnd' /\ Watched' /\ RowsMove /\ Settles
      BY <1>0, <2>1, <2>3, <3>1, QuietRows
    <3>3. Consents'
      BY <2>1, <2>3 DEF Consents
    <3> QED
      BY <3>1, <3>2, <3>3
  <2> QED
    BY <1>3, <2>2, <2>3 DEF RequestRemoteDeletion
<1>4. ASSUME NEW r \in requests, Unauthorized(r)
      PROVE  RoomToEnd' /\ Watched' /\ Consents' /\ RowsMove /\ Settles /\ rows' \in [Sessions -> RowType]
  <2>1. /\ StopSharing /\ UNCHANGED <<savedKey, key, active, used, aged>> /\ running' = running
        /\ declined' = declined /\ deleting' = deleting
    BY <1>4 DEF Unauthorized, world
  <2>2. deleting' \in BOOLEAN /\ declined' \in BOOLEAN /\ (deleting' => running /\ (deleting \/ writable'))
    BY <2>1 DEF Types, Consents
  <2> QED
    BY <2>1, <2>2, StopSharingStep
<1>5. ASSUME NEW r \in requests, Deleted(r)
      PROVE  RoomToEnd' /\ Watched' /\ Consents' /\ RowsMove /\ Settles /\ rows' \in [Sessions -> RowType]
  <2>1. deleting
    BY <1>5 DEF Deleted, Answered, Heard, Kinds
  <2>2. /\ UNCHANGED <<rows, consent, active, running, used, aged, agreed, declined>>
        /\ deleting' = FALSE /\ (sharing' => sharing) /\ may' \subseteq may
        /\ writable' = FALSE \/ writable' = writable
        /\ may' = {} \/ sharing' = sharing
    BY <1>5 DEF Deleted, world, hist
  <2>3. ~consent /\ ~sharing /\ may = {} /\ \A s \in Sessions : ~rows[s].eligible
    BY <2>1 DEF Consents
  <2>4. rows' \in [Sessions -> RowType] /\ \A s \in Sessions : QuietRow(s)
    BY <2>2, UnchangedQuietly
  <2>5. RoomToEnd' /\ Watched' /\ RowsMove /\ Settles
    BY <1>0, <2>2, <2>3, <2>4, QuietRows
  <2>6. Consents'
    BY <2>2, <2>3 DEF Consents
  <2> QED
    BY <2>4, <2>5, <2>6
<1> QED
  BY <1>1, <1>2, <1>3, <1>4, <1>5

\* The steps that keep the consent and the credential, but for what an answer does.
LEMMA LocalStep ==
    ASSUME Locals,
           \/ ClearLocalHistory \/ UploadPending
           \/ \E r \in requests : Rejected(r) \/ GiveUp(r) \/ Check(r) \/ Commit(r)
                                  \/ DeleteInstallation(r) \/ Drop(r)
    PROVE  RoomToEnd' /\ Watched' /\ Consents' /\ RowsMove /\ Settles /\ rows' \in [Sessions -> RowType]
<1> USE DEF Locals
<1>1. /\ UNCHANGED <<consent, savedKey, key, running, used, aged, agreed, declined>>
      /\ active' \in [Sessions -> 0 .. MaxRevision]
      /\ may' \subseteq may /\ (deleting' => deleting)
      /\ \/ writable' = writable /\ sharing' = sharing
         \/ writable' = FALSE /\ sharing' = FALSE /\ may' = {}
  <2>0. MaxRevision \in Nat /\ active \in [Sessions -> 0 .. MaxRevision]
    BY BoundsAssumption DEF Types
  <2>1. CASE ClearLocalHistory
    BY <2>0, <2>1 DEF ClearLocalHistory, world, hist
  <2>2. CASE UploadPending
    BY <2>0, <2>2 DEF UploadPending, StoreFails, world, hist
  <2>3. CASE \E r \in requests : Rejected(r)
    BY <2>0, <2>3 DEF Rejected, Omitted, world, hist
  <2>5. ASSUME NEW r \in requests, GiveUp(r) PROVE <1>1
    <3>1. deleting' => deleting
      BY <2>5 DEF GiveUp
    <3> QED
      BY <2>0, <2>5, <3>1 DEF GiveUp, world, hist, store, watch
  <2>4. CASE \E r \in requests : Check(r) \/ Commit(r) \/ DeleteInstallation(r) \/ Drop(r)
    BY <2>0, <2>4 DEF Check, Commit, DeleteInstallation, Drop, Local, world, hist, store, watch
  <2> QED
    BY <2>1, <2>2, <2>3, <2>4, <2>5
<1>2. rows' \in [Sessions -> RowType] /\ \A s \in Sessions : QuietRow(s)
  <2>1. CASE ClearLocalHistory
    <3>1. NoRow \in RowType
      BY BoundsAssumption DEF NoRow, RowType
    <3> QED
      BY <2>1, <3>1 DEF ClearLocalHistory, QuietRow, Types
  <2>2. CASE UploadPending
    <3>1. rows' \in HalfPruned(rows) /\ UNCHANGED active
      BY <2>2, PrunedIsHalfPruned DEF UploadPending
    <3> QED
      BY <3>1, PrunedQuietly
  <2>3. ASSUME NEW r \in requests, Rejected(r)
        PROVE  rows' \in [Sessions -> RowType] /\ \A s \in Sessions : QuietRow(s)
    <3>1. UNCHANGED active /\ rows \in [Sessions -> RowType] /\ \E S : rows' = Withdrawn(S, rows)
      BY <2>3 DEF Rejected, Omitted, Types
    <3> QED
      BY <3>1, WithdrawnRows DEF QuietRow
  <2>4. CASE \E r \in requests : GiveUp(r) \/ Check(r) \/ Commit(r) \/ DeleteInstallation(r) \/ Drop(r)
    <3>1. rows' = rows /\ UNCHANGED active
      BY <2>4 DEF GiveUp, Check, Commit, DeleteInstallation, Drop, Local, store, watch
    <3> QED
      BY <3>1, UnchangedQuietly
  <2> QED
    BY <2>1, <2>2, <2>3, <2>4
<1>3. /\ RoomToEnd' /\ Watched' /\ RowsMove /\ Settles
      /\ \A s \in Sessions : /\ rows'[s].pending => rows'[s].eligible
                             /\ rows'[s].eligible => rows'[s] = rows[s]
  BY <1>1, <1>2, QuietRows
<1>4. Consents'
  BY <1>1, <1>3 DEF Consents, Types
<1> QED
  BY <1>2, <1>3, <1>4

LEMMA AcceptedRows ==
    ASSUME Types, NEW r \in requests, Accepted(r)
    PROVE  /\ rows' \in [Sessions -> RowType]
           /\ \A s \in Sessions :
                 \/ rows'[s] = rows[s]
                 \/ s \in Current(r) /\ rows'[s] = [rev |-> rows[s].rev, done |-> rows[s].done,
                                                    eligible |-> rows[s].eligible, pending |-> FALSE]
<1>1. PICK S \in SUBSET Current(r) :
          rows' = [s \in Sessions |-> IF s \in S THEN [rows[s] EXCEPT !.pending = FALSE] ELSE rows[s]]
  BY DEF Accepted
<1>2. ASSUME NEW s \in Sessions
      PROVE  /\ rows'[s] \in RowType
             /\ \/ rows'[s] = rows[s]
                \/ s \in Current(r) /\ rows'[s] = [rev |-> rows[s].rev, done |-> rows[s].done,
                                                   eligible |-> rows[s].eligible, pending |-> FALSE]
  <2>1. rows[s] \in RowType
    BY DEF Types
  <2>2. CASE s \in S
    <3>1. rows'[s] = [rows[s] EXCEPT !.pending = FALSE]
      BY <1>1, <2>2, Zenon
    <3> QED
      BY <2>1, <2>2, <3>1 DEF RowType
  <2>3. CASE s \notin S
    <3>1. rows'[s] = rows[s]
      BY <1>1, <2>3, Zenon
    <3> QED
      BY <2>1, <3>1
  <2> QED
    BY <2>2, <2>3
<1>3. \E f : rows' = [s \in Sessions |-> f[s]]
  <2>1. rows' = [s \in Sessions |-> rows'[s]]
    BY <1>1, Zenon
  <2> QED
    BY <2>1, Zenon
<1> QED
  BY <1>2, <1>3

LEMMA AcceptedStep ==
    ASSUME Locals, NEW r \in requests, Accepted(r)
    PROVE  /\ RoomToEnd' /\ Watched' /\ Consents' /\ RowsMove /\ rows' \in [Sessions -> RowType]
           /\ \A s \in Sessions : rows'[s].rev = rows[s].rev /\ rows'[s].eligible = rows[s].eligible
           /\ \A s \in Sessions \ Current(r) : rows'[s] = rows[s]
<1> USE DEF Locals
<1>1. /\ UNCHANGED <<consent, savedKey, deleting, key, active, running, used, aged, agreed, declined>>
      /\ \/ writable' = writable /\ sharing' = sharing /\ may' = may
         \/ writable' = FALSE /\ sharing' = FALSE /\ may' = {}
  BY DEF Accepted, world, hist
<1>2. \A s \in Sessions :
          /\ rows'[s] \in RowType /\ rows[s] \in RowType
          /\ rows'[s].rev = rows[s].rev /\ rows'[s].done = rows[s].done
          /\ rows'[s].eligible = rows[s].eligible /\ (rows'[s].pending => rows[s].pending)
  <2>1. rows \in [Sessions -> RowType] /\ rows' \in [Sessions -> RowType]
    BY AcceptedRows DEF Types
  <2> QED
    BY <2>1, AcceptedRows
<1>3. RoomToEnd' /\ Watched'
  BY <1>1, <1>2 DEF RoomToEnd, Watched
<1>4. Consents'
  BY <1>1, <1>2 DEF Consents, Types
<1>5. ASSUME NEW s \in Sessions PROVE RowMove(s)
  BY <1>1, <1>2 DEF RowMove, RowType
<1> QED
  <2>1. RowsMove
    BY <1>1, <1>5 DEF RowsMove
  <2>2. rows' \in [Sessions -> RowType] /\ \A s \in Sessions \ Current(r) : rows'[s] = rows[s]
    BY AcceptedRows
  <2> QED
    BY <1>2, <1>3, <1>4, <2>1, <2>2

-----------------------------------------------------------------------------
(* The requests. *)

Carries(q, p) == q.kind = p.kind /\ q.key = p.key /\ q.batch = p.batch

\* No request is new or served; the launcher may have stopped listening.
Shrinks ==
    /\ requests' \subseteq RequestType
    /\ IsFiniteSet(requests') /\ Cardinality(requests') <= Cardinality(requests)
    /\ \A q \in requests' : \E p \in requests : Carries(q, p) /\ q.stage = p.stage
    /\ \A q \in requests' : q.heard => q \in requests

LEMMA IgnoredRequest ==
    ASSUME NEW r \in RequestType, NEW q, q = [r EXCEPT !.heard = FALSE]
    PROVE  q \in RequestType /\ Carries(q, r) /\ q.stage = r.stage /\ ~q.heard
  BY DEF RequestType, Carries

LEMMA Ignoring ==
    ASSUME Types, FewRequests
    PROVE  /\ Ignored(requests) \subseteq RequestType
           /\ IsFiniteSet(Ignored(requests)) /\ Cardinality(Ignored(requests)) <= Cardinality(requests)
           /\ \A q \in Ignored(requests) : /\ ~q.heard
                                           /\ \E p \in requests : Carries(q, p) /\ q.stage = p.stage
<1> DEFINE f == [r \in requests |-> [r EXCEPT !.heard = FALSE]]
<1>1. \A q \in Ignored(requests) : \E p \in requests : q = [p EXCEPT !.heard = FALSE]
  BY Zenon DEF Ignored
<1>2. \A q \in Ignored(requests) : /\ q \in RequestType /\ ~q.heard
                                   /\ \E p \in requests : Carries(q, p) /\ q.stage = p.stage
  BY <1>1, IgnoredRequest DEF Types
<1>3. f \in Surjection(requests, Ignored(requests))
  BY Zenon DEF Surjection, Ignored
<1>4. IsFiniteSet(requests)
  BY DEF FewRequests
<1> HIDE DEF f
<1>5. IsFiniteSet(Ignored(requests)) /\ Cardinality(Ignored(requests)) <= Cardinality(requests)
  BY <1>3, <1>4, FS_Surjection
<1> QED
  BY <1>2, <1>5

LEMMA IgnoredShrinks == Types /\ FewRequests /\ requests' = Ignored(requests) => Shrinks
  BY Ignoring DEF Shrinks

LEMMA SameShrinks == Types /\ FewRequests /\ requests' = requests => Shrinks
<1>1. ASSUME Types, FewRequests, requests' = requests PROVE Shrinks
  <2>1. Cardinality(requests) \in Nat
    BY <1>1, FS_CardinalityType DEF FewRequests
  <2> QED
    BY <1>1, <2>1 DEF Shrinks, Types, FewRequests, Carries
<1> QED
  BY <1>1

LEMMA AnsweredShrinks ==
    ASSUME Types, FewRequests, NEW r \in requests, requests' = requests \ {r}
    PROVE  Shrinks
<1>1. IsFiniteSet(requests') /\ Cardinality(requests') <= Cardinality(requests)
  <2>1. IsFiniteSet(requests) /\ Cardinality(requests) \in Nat
    BY FS_CardinalityType DEF FewRequests
  <2> QED
    BY <2>1, FS_RemoveElement
<1> QED
  BY <1>1 DEF Shrinks, Types, Carries

\* A request in the place of another leaves their number.
LEMMA ReplacedFew ==
    ASSUME FewRequests, NEW r \in requests, NEW q, requests' = (requests \ {r}) \union {q}
    PROVE  IsFiniteSet(requests') /\ Cardinality(requests') <= Cardinality(requests)
<1>1. IsFiniteSet(requests) /\ Cardinality(requests) \in Nat
  BY FS_CardinalityType DEF FewRequests
<1> DEFINE T == requests \ {r}
<1>2. IsFiniteSet(T) /\ Cardinality(T) = Cardinality(requests) - 1
  BY <1>1, FS_RemoveElement
<1>3. requests' = T \union {q}
  OBVIOUS
<1> HIDE DEF T
<1>4. IsFiniteSet(T \union {q}) /\ Cardinality(T \union {q}) <= Cardinality(requests)
  <2>1. /\ IsFiniteSet(T \union {q})
        /\ Cardinality(T \union {q}) = IF q \in T THEN Cardinality(T) ELSE Cardinality(T) + 1
    BY <1>2, FS_AddElement
  <2> QED
    BY <1>1, <1>2, <2>1
<1> QED
  BY <1>3, <1>4

LEMMA GivenUpShrinks ==
    ASSUME Types, FewRequests, NEW r \in requests, GiveUp(r)
    PROVE  Shrinks
<1>1. PICK q : q = [r EXCEPT !.heard = FALSE]
  OBVIOUS
<1>2. requests' = (requests \ {r}) \union {q}
  BY <1>1 DEF GiveUp
<1>3. r \in RequestType
  BY DEF Types
<1>4. q \in RequestType /\ Carries(q, r) /\ q.stage = r.stage /\ ~q.heard
  BY <1>1, <1>3, IgnoredRequest
<1> QED
  BY <1>2, <1>4, ReplacedFew DEF Shrinks, Types, Carries

\* The launcher's steps that send nothing.
LEMMA SilentStep ==
    ASSUME Locals, Kinds, FewRequests,
           \/ Observes \/ Quit \/ Crash \/ Start \/ ClearLocalHistory \/ OptIn \/ OptOut
           \/ \E s \in Sessions : Age(s)
           \/ \E r \in requests : Accepted(r) \/ Unauthorized(r) \/ Rejected(r) \/ Deleted(r)
                                  \/ GiveUp(r) \/ Drop(r)
    PROVE  Shrinks
<1> USE DEF Locals
<1>1. CASE Observes
  <2>1. PICK S, new, prunes, still : Observing(S, new, prunes, still)
    BY <1>1 DEF Observes
  <2>2. requests' = requests \/ StoreFails
    BY <2>1, SaveDoes DEF Observing
  <2>3. requests' = requests \/ requests' = Ignored(requests)
    BY <2>2 DEF StoreFails
  <2> QED
    BY <2>3, IgnoredShrinks, SameShrinks
<1>2. CASE Quit \/ Crash \/ OptOut
  BY <1>2, IgnoredShrinks DEF Quit, Crash, Gone, OptOut
<1>3. CASE Start \/ (\E s \in Sessions : Age(s)) \/ ClearLocalHistory \/ OptIn
  <2>1. requests' = requests \/ requests' = Ignored(requests)
    BY <1>3 DEF Start, Age, ClearLocalHistory, OptIn
  <2> QED
    BY <2>1, IgnoredShrinks, SameShrinks
<1>4. ASSUME NEW r \in requests, Accepted(r) \/ Unauthorized(r) \/ Rejected(r) \/ Deleted(r) \/ Drop(r)
      PROVE  Shrinks
  <2>1. requests' = requests \ {r}
    BY <1>4 DEF Accepted, Unauthorized, Rejected, Deleted, Drop, Answered
  <2> QED
    BY <2>1, AnsweredShrinks
<1> QED
  BY <1>1, <1>2, <1>3, <1>4, GivenUpShrinks

-----------------------------------------------------------------------------
(* What was sent of a session, and is under way or stored. *)

Posted(s) == {r \in requests : r.kind = "post" /\ s \in DOMAIN r.batch}
Sent(s) ==
    {[key |-> r.key, rev |-> r.batch[s].rev, done |-> r.batch[s].done] : r \in Posted(s)} \union
    (IF stored[s].rev = 0 THEN {}
     ELSE {[key |-> stored[s].owner, rev |-> stored[s].rev, done |-> stored[s].done]})

\* All that was sent of a session has one credential, that of its row as long as that is
\* eligible, and no revision comes after the last; the row is not behind, or gone for good.
SentFits(s) == \A x \in Sent(s) :
    /\ s \in used
    /\ \/ rows[s].rev = 0 /\ active[s] = 0
       \/ x.rev <= rows[s].rev /\ (x.done => rows[s].done /\ x.rev = rows[s].rev)
    /\ rows[s].eligible \/ s \in may => x.key = savedKey
    /\ \A y \in Sent(s) : x.key = y.key /\ (x.done => y.rev <= x.rev)
SentOK == \A s \in Sessions : SentFits(s)

\* What was accepted is stored, unless its credential was deleted.
AcceptedStored == \A r \in requests :
    r.stage = "accepted" /\ r.key \notin revoked
        => \A s \in DOMAIN r.batch : stored[s].rev >= r.batch[s].rev

IInv == /\ Locals /\ Kinds /\ FewRequests /\ SentOK /\ AcceptedStored
        /\ AcknowledgedIsStored /\ DeletedStaysDeleted

LEMMA BatchRows ==
    ASSUME Types, NEW r \in requests, NEW s \in DOMAIN r.batch
    PROVE  s \in Sessions /\ r.batch[s] \in RowType
<1>1. r.batch \in Batches
  BY DEF Types, RequestType
<1>2. PICK D \in SUBSET Sessions : r.batch \in [D -> RowType]
  BY <1>1 DEF Batches
<1> QED
  BY <1>2

LEMMA SentTypes ==
    ASSUME Types, NEW s \in Sessions, NEW x \in Sent(s)
    PROVE  x.rev \in Nat /\ x.done \in BOOLEAN
<1>1. CASE \E r \in Posted(s) : x = [key |-> r.key, rev |-> r.batch[s].rev, done |-> r.batch[s].done]
  <2>1. PICK r \in Posted(s) : x = [key |-> r.key, rev |-> r.batch[s].rev, done |-> r.batch[s].done]
    BY <1>1
  <2>2. r.batch[s] \in RowType
    BY BatchRows DEF Posted
  <2> QED
    BY <2>1, <2>2 DEF RowType
<1>2. CASE x = [key |-> stored[s].owner, rev |-> stored[s].rev, done |-> stored[s].done]
  BY <1>2 DEF Types, StoredType
<1> QED
  BY <1>1, <1>2 DEF Sent

\* Sending what an eligible row holds keeps to that.
LEMMA SentStaysFit ==
    ASSUME Locals, Locals', SentOK, RowsMove, NEW s \in Sessions,
           \A x \in Sent(s)' : \/ x \in Sent(s)
                               \/ /\ rows'[s].eligible
                                  /\ x = [key |-> savedKey', rev |-> rows'[s].rev, done |-> rows'[s].done]
    PROVE  SentFits(s)'
<1>1. /\ rows[s] \in RowType /\ rows'[s] \in RowType /\ used \subseteq used' /\ RowMove(s)
      /\ rows'[s].eligible => rows'[s].rev # 0
      /\ rows'[s].rev # 0 => s \in used'
  BY DEF Locals, Types, RowsMove, Consents, Watched
<1>2. ASSUME NEW x \in Sent(s)
      PROVE  /\ x.rev \in Nat /\ x.done \in BOOLEAN
             /\ s \in used
             /\ \/ rows[s].rev = 0 /\ active[s] = 0
                \/ x.rev <= rows[s].rev /\ (x.done => rows[s].done /\ x.rev = rows[s].rev)
             /\ rows[s].eligible \/ s \in may => x.key = savedKey
             /\ \A y \in Sent(s) : x.key = y.key /\ (x.done => y.rev <= x.rev)
  BY SentTypes DEF SentOK, SentFits, Locals
<1>3. ASSUME NEW x \in Sent(s)
      PROVE  /\ s \in used'
             /\ \/ rows'[s].rev = 0 /\ active'[s] = 0
                \/ x.rev <= rows'[s].rev /\ (x.done => rows'[s].done /\ x.rev = rows'[s].rev)
             /\ rows'[s].eligible \/ s \in may' => x.key = savedKey'
  BY <1>1, <1>2 DEF RowMove, RowType
<1>4. ASSUME NEW x \in Sent(s)', NEW y \in Sent(s)'
      PROVE  x.key = y.key /\ (x.done => y.rev <= x.rev)
  <2>1. CASE x \in Sent(s) /\ y \in Sent(s)
    BY <1>2, <2>1
  <2> DEFINE new == [key |-> savedKey', rev |-> rows'[s].rev, done |-> rows'[s].done]
  <2>2. CASE x \in Sent(s) /\ rows'[s].eligible /\ y = new
    <3>1. x.rev \in Nat /\ y.rev = rows'[s].rev /\ y.key = savedKey' /\ rows'[s].rev \in Nat
      BY <1>1, <1>2, <2>2 DEF RowType
    <3> QED
      BY <1>1, <1>3, <2>2, <3>1
  <2>3. CASE y \in Sent(s) /\ rows'[s].eligible /\ x = new
    <3>1. y.rev \in Nat /\ x.rev = rows'[s].rev /\ x.key = savedKey' /\ rows'[s].rev \in Nat
      BY <1>1, <1>2, <2>3 DEF RowType
    <3> QED
      BY <1>1, <1>3, <2>3, <3>1
  <2>4. CASE x = new /\ y = new
    BY <1>1, <2>4 DEF RowType
  <2> QED
    BY <2>1, <2>2, <2>3, <2>4
<1>5. ASSUME NEW x \in Sent(s)'
      PROVE  /\ s \in used'
             /\ \/ rows'[s].rev = 0 /\ active'[s] = 0
                \/ x.rev <= rows'[s].rev /\ (x.done => rows'[s].done /\ x.rev = rows'[s].rev)
             /\ rows'[s].eligible \/ s \in may' => x.key = savedKey'
  <2>1. CASE x \in Sent(s)
    BY <1>3, <2>1
  <2>2. CASE rows'[s].eligible /\ x = [key |-> savedKey', rev |-> rows'[s].rev, done |-> rows'[s].done]
    BY <1>1, <2>2 DEF RowType
  <2> QED
    BY <2>1, <2>2
<1> QED
  BY <1>4, <1>5 DEF SentFits

-----------------------------------------------------------------------------
(* The steps of the launcher keep the invariant. *)

LEMMA RestTypes ==
    ASSUME Types, rows' \in [Sessions -> RowType], requests' \subseteq RequestType,
           \/ ClearLocalHistory \/ OptIn \/ OptOut \/ RequestRemoteDeletion \/ UploadPending
           \/ \E r \in requests : Accepted(r) \/ Unauthorized(r) \/ Rejected(r) \/ Deleted(r)
                                  \/ GiveUp(r) \/ Drop(r)
    PROVE  Types'
<1> USE DEF world, hist, server, store, watch
<1>1. CASE ClearLocalHistory
  <2>1. active' \in [Sessions -> 0 .. MaxRevision] /\ may' \subseteq Observed'
    BY <1>1, BoundsAssumption DEF ClearLocalHistory
  <2> QED
    BY <1>1, <2>1 DEF ClearLocalHistory, Types
<1>2. CASE OptIn
  <2>1. \/ UNCHANGED key \/ key' \in Credentials
    BY <1>2 DEF OptIn, Fresh, Types
  <2>2. savedKey' \in Credentials \union {NoCredential}
    BY <1>2 DEF OptIn, Fresh, Types
  <2>3. may' \subseteq Observed' /\ active' = active
    BY <1>2 DEF OptIn
  <2>4. /\ consent' \in BOOLEAN /\ sharing' \in BOOLEAN /\ writable' \in BOOLEAN /\ declined' \in BOOLEAN
        /\ agreed' \subseteq Sessions /\ deleting' = deleting
    BY <1>2 DEF OptIn, Types
  <2>5. UNCHANGED <<starts, running, installs, revoked, stored, used, aged>>
    BY <1>2 DEF OptIn
  <2> QED
    BY <2>1, <2>2, <2>3, <2>4, <2>5 DEF Types
<1>3. CASE OptOut
  BY <1>3 DEF OptOut, StopSharing, Types
<1>4. CASE RequestRemoteDeletion
  <2>1. /\ consent' \in BOOLEAN /\ sharing' \in BOOLEAN /\ writable' \in BOOLEAN /\ agreed' \subseteq Sessions
        /\ may' \subseteq may
    BY <1>4 DEF RequestRemoteDeletion, StopSharing, Types
  <2>2. deleting' \in BOOLEAN /\ declined' = TRUE
    BY <1>4 DEF RequestRemoteDeletion
  <2>3. UNCHANGED <<savedKey, key, active, server, world>>
    BY <1>4 DEF RequestRemoteDeletion
  <2> QED
    BY <2>1, <2>2, <2>3 DEF Types, Observed
<1>5. CASE UploadPending
  BY <1>5 DEF UploadPending, StoreFails, Types, Observed
<1>6. ASSUME NEW r \in requests, Accepted(r) PROVE Types'
  BY <1>6 DEF Accepted, Types, Observed
<1>7. ASSUME NEW r \in requests, Unauthorized(r) PROVE Types'
  BY <1>7 DEF Unauthorized, StopSharing, Types
<1>8. ASSUME NEW r \in requests, Rejected(r) PROVE Types'
  <2>1. may' \subseteq may /\ active' = active
    BY <1>8 DEF Rejected, Omitted
  <2> QED
    BY <1>8, <2>1 DEF Rejected, Types, Observed
<1>9. ASSUME NEW r \in requests, Deleted(r) PROVE Types'
  BY <1>9 DEF Deleted, Types, Observed
<1>10. ASSUME NEW r \in requests, GiveUp(r) PROVE Types'
  <2>1. deleting' \in BOOLEAN
    BY <1>10 DEF GiveUp
  <2> QED
    BY <1>10, <2>1 DEF GiveUp, Types, Observed
<1>11. ASSUME NEW r \in requests, Drop(r) PROVE Types'
  BY <1>11 DEF Drop, Local, Types, Observed
<1> QED
  BY <1>1, <1>2, <1>3, <1>4, <1>5, <1>6, <1>7, <1>8, <1>9, <1>10, <1>11

Silent ==
    \/ Observes \/ Quit \/ Crash \/ Start \/ ClearLocalHistory \/ OptIn \/ OptOut
    \/ \E s \in Sessions : Age(s)
    \/ \E r \in requests : Accepted(r) \/ Unauthorized(r) \/ Rejected(r) \/ Deleted(r)
                           \/ GiveUp(r) \/ Drop(r)

LEMMA SilentLocals ==
    ASSUME Locals, Kinds, FewRequests, Silent
    PROVE  Locals' /\ RowsMove /\ UNCHANGED server
<1>0. Shrinks
  BY SilentStep DEF Silent
<1>1. CASE Observes
  <2>1. UNCHANGED server
    BY <1>1 DEF Observes, Observing
  <2> QED
    BY <1>1, <2>1, ObservingStep
<1>2. CASE Quit \/ Crash
  <2>1. UNCHANGED server
    BY <1>2 DEF Quit, Crash
  <2> QED
    BY <1>2, <2>1, EndStep
<1>3. CASE Start
  <2>1. UNCHANGED server
    BY <1>3 DEF Start
  <2> QED
    BY <1>3, <2>1, StartStep
<1>4. ASSUME NEW s \in Sessions, Age(s) PROVE Locals' /\ RowsMove /\ UNCHANGED server
  <2>1. UNCHANGED server
    BY <1>4 DEF Age
  <2> QED
    BY <1>4, <2>1, AgeStep
<1>5. CASE \/ ClearLocalHistory \/ OptIn \/ OptOut
           \/ \E r \in requests : Accepted(r) \/ Unauthorized(r) \/ Rejected(r) \/ Deleted(r)
                                  \/ GiveUp(r) \/ Drop(r)
  <2>1. RoomToEnd' /\ Watched' /\ Consents' /\ RowsMove /\ rows' \in [Sessions -> RowType]
    <3>1. CASE ClearLocalHistory \/ \E r \in requests : Rejected(r) \/ GiveUp(r) \/ Drop(r)
      BY <3>1, LocalStep
    <3>2. CASE OptIn \/ OptOut \/ \E r \in requests : Unauthorized(r) \/ Deleted(r)
      BY <3>2, ConsentStep
    <3>3. CASE \E r \in requests : Accepted(r)
      BY <3>3, AcceptedStep
    <3> QED
      BY <1>5, <3>1, <3>2, <3>3
  <2>2. UNCHANGED server
    BY <1>5 DEF ClearLocalHistory, OptIn, OptOut, Accepted, Unauthorized, Rejected, Deleted, GiveUp, Drop
  <2>3. Types'
    BY <1>0, <1>5, <2>1, RestTypes DEF Shrinks, Locals
  <2> QED
    BY <2>1, <2>2, <2>3 DEF Locals
<1> QED
  BY <1>1, <1>2, <1>3, <1>4, <1>5 DEF Silent

LEMMA SilentSettles ==
    ASSUME Locals, Kinds, FewRequests, Silent
    PROVE  Settles \/ \E r \in requests : Accepted(r)
<1>1. CASE Observes
  BY <1>1, ObservingStep
<1>2. CASE Quit \/ Crash \/ Start
  BY <1>2, EndStep, StartStep
<1>3. CASE \E s \in Sessions : Age(s)
  BY <1>3, AgeStep
<1>4. CASE ClearLocalHistory \/ \E r \in requests : Rejected(r) \/ GiveUp(r) \/ Drop(r)
  BY <1>4, LocalStep
<1>5. CASE OptIn \/ OptOut \/ \E r \in requests : Unauthorized(r) \/ Deleted(r)
  BY <1>5, ConsentStep
<1> QED
  BY <1>1, <1>2, <1>3, <1>4, <1>5 DEF Silent

LEMMA FewAfter ==
    ASSUME FewRequests, IsFiniteSet(requests'), Cardinality(requests') <= Cardinality(requests)
    PROVE  Cardinality(requests') <= MaxRequests
<1>1. Cardinality(requests) \in Nat /\ Cardinality(requests') \in Nat /\ MaxRequests \in Nat
  BY BoundsAssumption, FS_CardinalityType DEF FewRequests
<1> QED
  BY <1>1 DEF FewRequests

LEMMA SilentKinds ==
    ASSUME Locals, Kinds, FewRequests, Silent
    PROVE  Kinds' /\ FewRequests'
<1>0. Shrinks
  BY SilentStep DEF Silent
<1>1. FewRequests'
  BY <1>0, FewAfter DEF Shrinks, FewRequests, Heard
<1>2. ASSUME NEW q \in requests', q.heard, q.kind = "delete" PROVE deleting'
  <2>1. q \in requests /\ deleting
    BY <1>0, <1>2 DEF Shrinks, Kinds
  <2>2. CASE Observes
    BY <2>1, <2>2 DEF Observes, Observing
  <2>3. CASE Quit \/ Crash
    BY <1>2, <2>3, Ignoring DEF Quit, Crash, Gone, Locals
  <2>4. CASE Start \/ ClearLocalHistory \/ OptIn \/ OptOut \/ \E s \in Sessions : Age(s)
    BY <2>1, <2>4 DEF Start, ClearLocalHistory, OptIn, OptOut, Age
  <2>5. CASE \E r \in requests : Accepted(r) \/ Unauthorized(r) \/ Rejected(r) \/ Drop(r)
    BY <2>1, <2>5 DEF Accepted, Unauthorized, Rejected, Drop, Local
  <2>6. ASSUME NEW r \in requests, Deleted(r) PROVE FALSE
    BY <1>2, <2>1, <2>6 DEF Deleted, Answered, FewRequests, Heard
  <2>7. ASSUME NEW r \in requests, GiveUp(r) PROVE FALSE
    <3>1. q = r
      BY <1>2, <2>1, <2>7 DEF GiveUp, FewRequests, Heard
    <3>2. q = [r EXCEPT !.heard = FALSE]
      BY <2>7, <3>1 DEF GiveUp
    <3>3. r \in RequestType
      BY DEF Locals, Types
    <3> QED
      BY <1>2, <3>2, <3>3, IgnoredRequest
  <2> QED
    BY <2>2, <2>3, <2>4, <2>5, <2>6, <2>7 DEF Silent
<1>3. Kinds'
  BY <1>0, <1>2 DEF Shrinks, Carries, Kinds
<1> QED
  BY <1>1, <1>3

LEMMA SilentInv == ASSUME IInv, Silent PROVE IInv'
<1>0. Locals /\ Locals' /\ Kinds /\ FewRequests /\ RowsMove /\ UNCHANGED server /\ Shrinks
  BY SilentLocals, SilentStep DEF IInv, Silent
<1>1. Kinds' /\ FewRequests'
  BY <1>0, SilentKinds
<1>2. ASSUME NEW s \in Sessions PROVE Sent(s)' \subseteq Sent(s)
  BY <1>0 DEF Sent, Posted, Shrinks, Carries, server
<1>3. SentOK'
  BY <1>0, <1>2, SentStaysFit DEF SentOK, IInv
<1>4. AcceptedStored'
  BY <1>0 DEF AcceptedStored, Shrinks, Carries, server, IInv
<1>5. DeletedStaysDeleted'
  BY <1>0 DEF DeletedStaysDeleted, server, IInv
<1>6. AcknowledgedIsStored'
  <2>1. ASSUME NEW s \in Sessions, rows'[s].eligible, ~rows'[s].pending, savedKey' \notin revoked
        PROVE  stored[s].rev >= rows'[s].rev
    <3>1. savedKey' = savedKey
      BY <1>0, <2>1 DEF RowsMove, RowMove
    <3>2. CASE Settles
      BY <2>1, <3>1, <3>2 DEF Settles, AcknowledgedIsStored, IInv
    <3>3. ASSUME NEW r \in requests, Accepted(r) PROVE stored[s].rev >= rows'[s].rev
      <4>1. /\ rows'[s].rev = rows[s].rev /\ rows'[s].eligible = rows[s].eligible
            /\ s \notin Current(r) => rows'[s] = rows[s]
        BY <1>0, <3>3, AcceptedStep
      <4>2. CASE s \notin Current(r)
        BY <2>1, <3>1, <4>1, <4>2 DEF AcknowledgedIsStored, IInv
      <4>3. CASE s \in Current(r)
        <5>1. /\ s \in DOMAIN r.batch /\ rows[s].rev = r.batch[s].rev /\ r.stage = "accepted"
          BY <3>3, <4>3 DEF Current, Accepted, Answered
        <5>2. r.kind = "post"
          BY <1>0, <5>1 DEF Kinds
        <5>3. [key |-> r.key, rev |-> r.batch[s].rev, done |-> r.batch[s].done] \in Sent(s)
          BY <5>1, <5>2 DEF Sent, Posted
        <5>4. r.key = savedKey
          BY <2>1, <4>1, <5>3 DEF IInv, SentOK, SentFits
        <5> QED
          BY <2>1, <3>1, <4>1, <5>1, <5>4 DEF AcceptedStored, IInv
      <4> QED
        BY <4>2, <4>3
    <3> QED
      BY <1>0, <3>2, <3>3, SilentSettles
  <2> QED
    BY <1>0, <2>1 DEF AcknowledgedIsStored, server
<1> QED
  BY <1>0, <1>1, <1>3, <1>4, <1>5, <1>6 DEF IInv

\* An upload sends pending rows as they are, or nothing.
LEMMA UploadSends ==
    ASSUME IInv, UploadPending
    PROVE  \/ Shrinks
           \/ /\ Heard = {}
              /\ \E p \in RequestType :
                    /\ requests' = requests \union {p}
                    /\ p.kind = "post" /\ p.stage = "sent" /\ p.heard /\ p.key = savedKey
                    /\ \A s \in DOMAIN p.batch : s \in Sessions /\ rows'[s].pending /\ p.batch[s] = rows'[s]
<1>1. Types /\ FewRequests
  BY DEF IInv, Locals
<1>2. CASE StoreFails
  <2>1. requests' = requests \/ requests' = Ignored(requests)
    BY <1>2 DEF StoreFails
  <2> QED
    BY <1>1, <2>1, SameShrinks, IgnoredShrinks
<1>3. CASE rows' \in Pruned(rows) /\ requests' = requests
  BY <1>1, <1>3, SameShrinks
<1> DEFINE rowsSent == {s \in Sessions : rows'[s].pending}
           batch == [s \in rowsSent |-> rows'[s]]
<1>4. CASE rows' \in Pruned(rows) /\ requests' = requests \union {Post(batch)}
  <2>1. rows' \in [Sessions -> RowType]
    BY <1>1, <1>4, PruneRows, PrunedIsHalfPruned DEF Types
  <2>2. batch \in [rowsSent -> RowType] /\ rowsSent \in SUBSET Sessions
    BY <2>1
  <2>3. DOMAIN batch = rowsSent /\ \A s \in rowsSent : batch[s] = rows'[s] /\ rows'[s].pending
    OBVIOUS
  <2> HIDE DEF batch, rowsSent
  <2>4. batch \in Batches
    BY <2>2 DEF Batches
  <2>5. key = savedKey /\ key \in Credentials /\ Heard = {}
    BY DEF UploadPending, IInv, Locals, Consents, Types
  <2>6. /\ Post(batch) \in RequestType /\ Post(batch).kind = "post" /\ Post(batch).stage = "sent"
        /\ Post(batch).heard /\ Post(batch).key = key /\ Post(batch).batch = batch
    BY <2>4, <2>5 DEF Post, RequestType, Stages
  <2> QED
    BY <1>4, <2>2, <2>3, <2>5, <2>6
<1> QED
  BY <1>2, <1>3, <1>4 DEF UploadPending

LEMMA UploadInv ==
    ASSUME IInv, UploadPending
    PROVE  IInv'
<1>1. /\ RoomToEnd' /\ Watched' /\ Consents' /\ RowsMove /\ Settles /\ rows' \in [Sessions -> RowType]
  BY LocalStep DEF IInv
<1>2. UNCHANGED <<server, deleting, savedKey>> /\ Cardinality(requests) < MaxRequests
  BY DEF UploadPending
<1>3. requests' \subseteq RequestType
  BY UploadSends DEF Shrinks, IInv, Locals, Types
<1>4. Locals'
  BY <1>1, <1>3, RestTypes DEF IInv, Locals
<1>5. FewRequests'
  <2>1. CASE Shrinks
    BY <2>1, FewAfter DEF Shrinks, FewRequests, Heard, IInv
  <2>2. ASSUME NEW p, Heard = {}, requests' = requests \union {p} PROVE FewRequests'
    <3>1. IsFiniteSet(requests) /\ Cardinality(requests) \in Nat /\ MaxRequests \in Nat
      BY FS_CardinalityType, BoundsAssumption DEF IInv, FewRequests
    <3>2. IsFiniteSet(requests') /\ Cardinality(requests') <= Cardinality(requests) + 1
      BY <2>2, <3>1, FS_AddElement
    <3>3. Cardinality(requests') \in Nat
      BY <3>2, FS_CardinalityType
    <3> QED
      BY <1>2, <2>2, <3>1, <3>2, <3>3 DEF FewRequests, Heard
  <2> QED
    BY <2>1, <2>2, UploadSends
<1>6. Kinds'
  BY <1>2, UploadSends DEF Shrinks, Carries, Kinds, IInv
<1>7. AcceptedStored'
  BY <1>2, UploadSends DEF Shrinks, Carries, AcceptedStored, server, IInv
<1>8. ASSUME NEW s \in Sessions, NEW x \in Sent(s)'
      PROVE  \/ x \in Sent(s)
             \/ /\ rows'[s].eligible
                /\ x = [key |-> savedKey', rev |-> rows'[s].rev, done |-> rows'[s].done]
  <2>1. CASE Shrinks
    BY <1>2, <2>1 DEF Sent, Posted, Shrinks, Carries, server
  <2>2. CASE ~Shrinks
    <3>1. PICK p \in RequestType :
              /\ requests' = requests \union {p} /\ p.key = savedKey
              /\ \A t \in DOMAIN p.batch : t \in Sessions /\ rows'[t].pending /\ p.batch[t] = rows'[t]
      BY <2>2, UploadSends
    <3>2. rows'[s].pending => rows'[s].eligible
      BY <1>1 DEF Consents
    <3> QED
      BY <1>2, <3>1, <3>2 DEF Sent, Posted, server
  <2> QED
    BY <2>1, <2>2
<1>9. SentOK'
  BY <1>1, <1>4, <1>8, SentStaysFit DEF SentOK, IInv
<1>10. AcknowledgedIsStored' /\ DeletedStaysDeleted'
  BY <1>1, <1>2 DEF Settles, AcknowledgedIsStored, DeletedStaysDeleted, server, IInv
<1> QED
  BY <1>4, <1>5, <1>6, <1>7, <1>9, <1>10 DEF IInv

\* The request to delete is the only one listened to.
LEMMA DeletionRequestInv ==
    ASSUME IInv, RequestRemoteDeletion
    PROVE  IInv'
<1>1. RoomToEnd' /\ Watched' /\ Consents' /\ RowsMove /\ Settles /\ rows' \in [Sessions -> RowType]
  BY ConsentStep DEF IInv
<1>2. /\ UNCHANGED <<server, savedKey, key>> /\ Cardinality(requests) < MaxRequests /\ deleting' \in BOOLEAN
      /\ \/ ~deleting' /\ requests' = Ignored(requests)
         \/ deleting' /\ key # NoCredential /\ requests' = Ignored(requests) \union {Deletion}
  BY DEF RequestRemoteDeletion
<1>3. /\ Deletion \in RequestType /\ Deletion.kind = "delete" /\ Deletion.stage = "sent"
      \/ key = NoCredential
  <2> DEFINE none == [s \in {} |-> NoRow]
  <2>1. none \in [{} -> RowType] /\ {} \in SUBSET Sessions
    OBVIOUS
  <2> HIDE DEF none
  <2>2. none \in Batches
    BY <2>1 DEF Batches
  <2>3. ASSUME key # NoCredential PROVE Post(none) \in RequestType /\ Post(none).stage = "sent"
    BY <2>2, <2>3 DEF Post, RequestType, Stages, IInv, Locals, Types
  <2>4. Deletion = [Post(none) EXCEPT !.kind = "delete"]
    BY DEF Deletion, none
  <2> QED
    BY <2>3, <2>4 DEF RequestType
<1>4. ASSUME NEW q \in requests'
      PROVE  /\ q \in RequestType
             /\ \/ ~q.heard /\ \E p \in requests : Carries(q, p) /\ q.stage = p.stage
                \/ q = Deletion /\ q.kind = "delete" /\ q.stage = "sent" /\ deleting'
  BY <1>2, <1>3, Ignoring DEF IInv, Locals
<1>5. Locals'
  BY <1>1, <1>4, RestTypes DEF IInv, Locals
<1>6. FewRequests'
  <2>1. IsFiniteSet(requests) /\ Cardinality(requests) \in Nat /\ MaxRequests \in Nat
    BY FS_CardinalityType, BoundsAssumption DEF IInv, FewRequests
  <2>2. IsFiniteSet(Ignored(requests)) /\ Cardinality(Ignored(requests)) <= Cardinality(requests)
    BY Ignoring DEF IInv, Locals
  <2>3. Cardinality(Ignored(requests)) \in Nat
    BY <2>2, FS_CardinalityType
  <2>4. /\ IsFiniteSet(Ignored(requests) \union {Deletion})
        /\ Cardinality(Ignored(requests) \union {Deletion}) <= Cardinality(Ignored(requests)) + 1
    BY <2>2, <2>3, FS_AddElement
  <2>5. Cardinality(Ignored(requests) \union {Deletion}) \in Nat
    BY <2>4, FS_CardinalityType
  <2>6. IsFiniteSet(requests') /\ Cardinality(requests') <= MaxRequests
    BY <1>2, <2>1, <2>2, <2>3, <2>4, <2>5
  <2> QED
    BY <1>4, <2>6 DEF FewRequests, Heard
<1>7. Kinds'
  BY <1>4 DEF Kinds, Carries, IInv
<1>8. AcceptedStored'
  BY <1>2, <1>4 DEF AcceptedStored, Carries, server, IInv
<1>9. \A s \in Sessions : Sent(s)' \subseteq Sent(s)
  BY <1>2, <1>4 DEF Sent, Posted, Carries, server
<1>10. SentOK'
  BY <1>1, <1>5, <1>9, SentStaysFit DEF SentOK, IInv
<1>11. AcknowledgedIsStored' /\ DeletedStaysDeleted'
  BY <1>1, <1>2 DEF Settles, AcknowledgedIsStored, DeletedStaysDeleted, server, IInv
<1> QED
  BY <1>5, <1>6, <1>7, <1>8, <1>10, <1>11 DEF IInv

-----------------------------------------------------------------------------
(* The steps of the API keep the invariant. *)

LEMMA ServedRequest ==
    ASSUME NEW r \in RequestType, NEW stage \in Stages, NEW q, q = [r EXCEPT !.stage = stage]
    PROVE  q \in RequestType /\ Carries(q, r) /\ q.stage = stage /\ (q.heard <=> r.heard)
  BY DEF RequestType, Carries

\* A request that is served stays what it is, but for its stage.
LEMMA Serving ==
    ASSUME IInv, NEW r \in requests, NEW stage \in Stages, Serve(r, stage),
           stage = "deleted" => r.kind = "delete",
           stage # "deleted" => r.kind = "post",
           deleting' = deleting
    PROVE  /\ FewRequests' /\ Kinds' /\ requests' \subseteq RequestType
           /\ \A p \in requests' : \/ p \in requests
                                   \/ Carries(p, r) /\ p.stage = stage
<1>1. PICK q : q = [r EXCEPT !.stage = stage]
  OBVIOUS
<1>2. requests' = (requests \ {r}) \union {q}
  BY <1>1 DEF Serve
<1>3. requests \subseteq RequestType /\ FewRequests /\ Kinds
  BY DEF IInv, Locals, Types
<1>4. q \in RequestType /\ Carries(q, r) /\ q.stage = stage /\ (q.heard <=> r.heard)
  BY <1>1, <1>3, ServedRequest
<1>5. IsFiniteSet(requests') /\ Cardinality(requests') <= MaxRequests
  BY <1>2, <1>3, ReplacedFew, FewAfter
<1>6. \A p, x \in Heard' : p = x
  BY <1>2, <1>3, <1>4 DEF FewRequests, Heard
<1>7. FewRequests'
  BY <1>5, <1>6 DEF FewRequests
<1>8. Kinds'
  BY <1>2, <1>3, <1>4 DEF Kinds, Carries
<1> QED
  BY <1>2, <1>3, <1>4, <1>7, <1>8

\* What a served request leaves in the tables is enough for the invariant.
LEMMA ServedInv ==
    ASSUME IInv, NEW r \in requests, Check(r) \/ Commit(r) \/ DeleteInstallation(r),
           Types', Kinds', FewRequests', AcceptedStored', AcknowledgedIsStored', DeletedStaysDeleted',
           \A s \in Sessions : Sent(s)' \subseteq Sent(s)
    PROVE  IInv'
<1>1. RoomToEnd' /\ Watched' /\ Consents' /\ RowsMove
  BY LocalStep DEF IInv
<1>2. Locals'
  BY <1>1 DEF Locals
<1>3. SentOK'
  BY <1>1, <1>2, SentStaysFit DEF SentOK, IInv
<1> QED
  BY <1>2, <1>3 DEF IInv

LEMMA CheckInv ==
    ASSUME IInv, NEW r \in requests, Check(r)
    PROVE  IInv'
<1>1. PICK stage \in {"refused", "unauthorized", "checked"} : Serve(r, stage)
  BY DEF Check
<1>2. UNCHANGED <<Local, server>> /\ r.kind = "post"
  BY DEF Check
<1>3. /\ FewRequests' /\ Kinds' /\ requests' \subseteq RequestType
      /\ \A p \in requests' : p \in requests \/ (Carries(p, r) /\ p.stage = stage)
  BY <1>1, <1>2, Serving DEF Stages, Local
<1>4. Types'
  BY <1>2, <1>3 DEF Types, Local, store, watch, world, hist, server, Observed, IInv, Locals
<1>5. AcceptedStored'
  BY <1>1, <1>2, <1>3 DEF AcceptedStored, server, IInv
<1>6. AcknowledgedIsStored' /\ DeletedStaysDeleted'
  BY <1>2 DEF AcknowledgedIsStored, DeletedStaysDeleted, Local, store, server, IInv
<1>7. \A s \in Sessions : Sent(s)' \subseteq Sent(s)
  BY <1>2, <1>3 DEF Sent, Posted, Carries, server
<1> QED
  BY <1>3, <1>4, <1>5, <1>6, <1>7, ServedInv

\* The table never goes back, and what the transaction writes was sent.
LEMMA CommittedRows ==
    ASSUME IInv, NEW r \in requests, stored' = [s \in Sessions |-> Newest(r, s)]
    PROVE  /\ stored' \in [Sessions -> StoredType]
           /\ \A s \in Sessions :
                 /\ stored'[s].rev >= stored[s].rev
                 /\ s \in DOMAIN r.batch => stored'[s].rev >= r.batch[s].rev
                 /\ \/ stored'[s] = stored[s]
                    \/ /\ s \in DOMAIN r.batch
                       /\ stored'[s] = [rev |-> r.batch[s].rev, done |-> r.batch[s].done, owner |-> r.key]
<1>1. stored \in [Sessions -> StoredType] /\ r \in RequestType /\ MaxRevision \in Nat
  BY BoundsAssumption DEF IInv, Locals, Types
<1>2. \A s \in DOMAIN r.batch : r.batch[s] \in RowType
  BY BatchRows DEF IInv, Locals
<1>3. ASSUME NEW s \in Sessions
      PROVE  /\ Newest(r, s) \in StoredType
             /\ Newest(r, s).rev >= stored[s].rev
             /\ s \in DOMAIN r.batch => Newest(r, s).rev >= r.batch[s].rev
             /\ \/ Newest(r, s) = stored[s]
                \/ /\ s \in DOMAIN r.batch
                   /\ Newest(r, s) = [rev |-> r.batch[s].rev, done |-> r.batch[s].done, owner |-> r.key]
  <2>1. stored[s] \in StoredType /\ stored[s].rev \in 0 .. MaxRevision
    BY <1>1 DEF StoredType
  <2>2. CASE s \in DOMAIN r.batch /\ r.batch[s].rev > stored[s].rev
    <3>1. Newest(r, s) = [rev |-> r.batch[s].rev, done |-> r.batch[s].done, owner |-> r.key]
      BY <2>2 DEF Newest
    <3>2. r.batch[s].rev \in 0 .. MaxRevision /\ r.batch[s].done \in BOOLEAN /\ r.key \in Credentials
      BY <1>1, <1>2, <2>2 DEF RowType, RequestType
    <3> QED
      BY <2>1, <2>2, <3>1, <3>2 DEF StoredType
  <2>3. CASE ~(s \in DOMAIN r.batch /\ r.batch[s].rev > stored[s].rev)
    <3>1. Newest(r, s) = stored[s]
      BY <2>3 DEF Newest
    <3>2. s \in DOMAIN r.batch => r.batch[s].rev \in 0 .. MaxRevision
      BY <1>2 DEF RowType
    <3> QED
      BY <1>1, <2>1, <2>3, <3>1, <3>2
  <2> QED
    BY <2>2, <2>3
<1> QED
  BY <1>3

LEMMA CommitInv ==
    ASSUME IInv, NEW r \in requests, Commit(r)
    PROVE  IInv'
<1>1. UNCHANGED <<Local, revoked>> /\ r.kind = "post" /\ r \in RequestType /\ requests \subseteq RequestType
  BY DEF Commit, IInv, Locals, Types
<1>2. CASE UNCHANGED <<installs, stored>> /\ (Serve(r, "unauthorized") \/ Serve(r, "refused"))
  <2>1. PICK stage \in {"refused", "unauthorized"} : Serve(r, stage)
    BY <1>2
  <2>2. /\ FewRequests' /\ Kinds' /\ requests' \subseteq RequestType
        /\ \A p \in requests' : p \in requests \/ (Carries(p, r) /\ p.stage = stage)
    BY <1>1, <2>1, Serving DEF Stages, Local
  <2>3. Types'
    BY <1>1, <1>2, <2>2 DEF Types, Local, store, watch, world, hist, Observed, IInv, Locals
  <2>4. AcceptedStored'
    BY <1>1, <1>2, <2>1, <2>2 DEF AcceptedStored, IInv
  <2>5. AcknowledgedIsStored' /\ DeletedStaysDeleted'
    BY <1>1, <1>2 DEF AcknowledgedIsStored, DeletedStaysDeleted, Local, store, IInv
  <2>6. \A s \in Sessions : Sent(s)' \subseteq Sent(s)
    BY <1>1, <1>2, <2>2 DEF Sent, Posted, Carries
  <2> QED
    BY <2>2, <2>3, <2>4, <2>5, <2>6, ServedInv
<1>3. CASE /\ r.key \notin revoked /\ stored' = [s \in Sessions |-> Newest(r, s)]
           /\ installs' = installs \union {r.key} /\ Serve(r, "accepted")
  <2>1. /\ FewRequests' /\ Kinds' /\ requests' \subseteq RequestType
        /\ \A p \in requests' : p \in requests \/ (Carries(p, r) /\ p.stage = "accepted")
    BY <1>1, <1>3, Serving DEF Stages, Local
  <2>2. /\ stored' \in [Sessions -> StoredType]
        /\ \A s \in Sessions :
              /\ stored'[s].rev >= stored[s].rev
              /\ s \in DOMAIN r.batch => stored'[s].rev >= r.batch[s].rev
              /\ \/ stored'[s] = stored[s]
                 \/ /\ s \in DOMAIN r.batch
                    /\ stored'[s] = [rev |-> r.batch[s].rev, done |-> r.batch[s].done, owner |-> r.key]
    BY <1>3, CommittedRows
  <2>3. installs' \subseteq Credentials
    BY <1>1, <1>3 DEF RequestType, IInv, Locals, Types
  <2>4. Types'
    BY <1>1, <2>1, <2>2, <2>3 DEF Types, Local, store, watch, world, hist, Observed, IInv, Locals
  <2>5. \A p \in requests : \A s \in DOMAIN p.batch :
            s \in Sessions /\ p.batch[s].rev \in Nat /\ stored[s].rev \in Nat /\ stored'[s].rev \in Nat
    <3>1. ASSUME NEW p \in requests, NEW s \in DOMAIN p.batch
          PROVE  s \in Sessions /\ p.batch[s].rev \in Nat /\ stored[s].rev \in Nat /\ stored'[s].rev \in Nat
      <4>1. s \in Sessions /\ p.batch[s] \in RowType
        BY BatchRows DEF IInv, Locals
      <4>2. stored[s] \in StoredType /\ stored'[s] \in StoredType
        BY <2>2, <4>1 DEF IInv, Locals, Types
      <4> QED
        BY <4>1, <4>2 DEF RowType, StoredType
    <3> QED
      BY <3>1
  <2>6. AcceptedStored'
    <3>1. ASSUME NEW p \in requests', p.stage = "accepted", p.key \notin revoked, NEW s \in DOMAIN p.batch
          PROVE  stored'[s].rev >= p.batch[s].rev
      <4>1. CASE p \in requests
        <5>1. stored[s].rev >= p.batch[s].rev
          BY <3>1, <4>1 DEF AcceptedStored, IInv
        <5> QED
          BY <2>2, <2>5, <4>1, <5>1
      <4>2. CASE Carries(p, r)
        BY <2>2, <2>5, <4>2 DEF Carries
      <4> QED
        BY <2>1, <4>1, <4>2
    <3> QED
      BY <1>1, <3>1 DEF AcceptedStored
  <2>7. AcknowledgedIsStored'
    <3>1. ASSUME NEW s \in Sessions, stored[s].rev >= rows[s].rev PROVE stored'[s].rev >= rows[s].rev
      <4>1. rows[s] \in RowType /\ stored[s] \in StoredType /\ stored'[s] \in StoredType
        BY <2>2 DEF IInv, Locals, Types
      <4>2. rows[s].rev \in Nat /\ stored[s].rev \in Nat /\ stored'[s].rev \in Nat
        BY <4>1 DEF RowType, StoredType
      <4> QED
        BY <2>2, <3>1, <4>2
    <3> QED
      BY <1>1, <3>1 DEF AcknowledgedIsStored, Local, store, IInv
  <2>8. DeletedStaysDeleted'
    BY <1>1, <1>3, <2>2 DEF DeletedStaysDeleted, IInv
  <2>9. ASSUME NEW s \in Sessions PROVE Sent(s)' \subseteq Sent(s)
    <3>1. \A p \in Posted(s)' : \E x \in Posted(s) : Carries(p, x)
      BY <1>1, <2>1 DEF Posted, Carries
    <3>2. s \in DOMAIN r.batch => r \in Posted(s)
      BY <1>1 DEF Posted
    <3> QED
      BY <2>2, <3>1, <3>2 DEF Sent, Carries
  <2> QED
    BY <2>1, <2>4, <2>6, <2>7, <2>8, <2>9, ServedInv
<1> QED
  BY <1>2, <1>3 DEF Commit

\* A deletion takes only what was sent under its credential.
LEMMA DeleteInstallationInv ==
    ASSUME IInv, NEW r \in requests, DeleteInstallation(r)
    PROVE  IInv'
<1>1. /\ UNCHANGED Local /\ r.kind = "delete" /\ r \in RequestType /\ Serve(r, "deleted")
      /\ revoked' = revoked \union {r.key} /\ installs' = installs \ {r.key}
      /\ \A s \in Sessions : stored'[s] = IF stored[s].owner = r.key THEN NotStored ELSE stored[s]
  BY DEF DeleteInstallation, IInv, Locals, Types
<1>2. /\ FewRequests' /\ Kinds' /\ requests' \subseteq RequestType
      /\ \A p \in requests' : p \in requests \/ (Carries(p, r) /\ p.stage = "deleted")
  BY <1>1, Serving DEF Stages, Local
<1>3. NotStored \in StoredType /\ NotStored.rev = 0 /\ NotStored.owner = NoCredential
  BY BoundsAssumption DEF NotStored, StoredType
<1>4. stored' \in [Sessions -> StoredType]
  BY <1>3 DEF DeleteInstallation, IInv, Locals, Types
<1>5. r.key \in Credentials /\ revoked \subseteq Credentials /\ installs \subseteq Credentials
  BY <1>1 DEF RequestType, IInv, Locals, Types
<1>6. Types'
  BY <1>1, <1>2, <1>4, <1>5 DEF Types, Local, store, watch, world, hist, Observed, IInv, Locals
<1>7. \A s \in Sessions : stored[s].rev \in Nat
  BY DEF StoredType, IInv, Locals, Types
<1>8. AcceptedStored'
  <2>1. ASSUME NEW p \in requests, p.stage = "accepted", p.key \notin revoked', NEW s \in DOMAIN p.batch
        PROVE  stored'[s].rev >= p.batch[s].rev
    <3>1. stored[s].rev >= p.batch[s].rev /\ p.kind = "post" /\ s \in Sessions
      BY <1>1, <2>1, BatchRows DEF AcceptedStored, Kinds, IInv, Locals
    <3>2. stored[s].rev # 0 => stored[s].owner = p.key
      <4>1. [key |-> p.key, rev |-> p.batch[s].rev, done |-> p.batch[s].done] \in Sent(s)
        BY <3>1 DEF Sent, Posted
      <4>2. stored[s].rev # 0
              => [key |-> stored[s].owner, rev |-> stored[s].rev, done |-> stored[s].done] \in Sent(s)
        BY DEF Sent
      <4> QED
        BY <3>1, <4>1, <4>2 DEF IInv, SentOK, SentFits
    <3> QED
      BY <1>1, <1>3, <1>7, <2>1, <3>1, <3>2
  <2> QED
    BY <1>2, <2>1 DEF AcceptedStored
<1>9. AcknowledgedIsStored'
  <2>1. ASSUME NEW s \in Sessions, rows[s].eligible, ~rows[s].pending, savedKey \notin revoked'
        PROVE  stored'[s].rev >= rows[s].rev
    <3>1. stored[s].rev >= rows[s].rev
      BY <1>1, <2>1 DEF AcknowledgedIsStored, IInv
    <3>2. stored[s].rev # 0 => stored[s].owner = savedKey
      <4>1. stored[s].rev # 0
              => [key |-> stored[s].owner, rev |-> stored[s].rev, done |-> stored[s].done] \in Sent(s)
        BY DEF Sent
      <4> QED
        BY <2>1, <4>1 DEF IInv, SentOK, SentFits
    <3> QED
      BY <1>1, <1>3, <1>7, <2>1, <3>1, <3>2
  <2> QED
    BY <1>1, <2>1 DEF AcknowledgedIsStored, Local, store
<1>10. DeletedStaysDeleted'
  BY <1>1, <1>3, <1>5, CredentialAssumption DEF DeletedStaysDeleted, IInv
<1>11. ASSUME NEW s \in Sessions PROVE Sent(s)' \subseteq Sent(s)
  BY <1>1, <1>2, <1>3 DEF Sent, Posted, Carries
<1> QED
  BY <1>2, <1>6, <1>8, <1>9, <1>10, <1>11, ServedInv

-----------------------------------------------------------------------------
(* The invariant holds. *)

LEMMA InitInv == Init => IInv
<1> SUFFICES ASSUME Init PROVE IInv
  OBVIOUS
<1>0. MaxRevision \in Nat /\ MaxRevision > 1 /\ MaxStarts \in Nat \ {0} /\ MaxRequests \in Nat
  BY BoundsAssumption
<1>1. NoRow \in RowType /\ NoRow.rev = 0 /\ ~NoRow.done /\ ~NoRow.eligible /\ ~NoRow.pending
  BY <1>0 DEF NoRow, RowType
<1>2. NotStored \in StoredType /\ NotStored.rev = 0
  BY <1>0 DEF NotStored, StoredType
<1>3. Types
  <2>1. rows \in [Sessions -> RowType] /\ stored \in [Sessions -> StoredType]
    BY <1>1, <1>2 DEF Init
  <2>2. active \in [Sessions -> 0 .. MaxRevision] /\ starts \in 1 .. MaxStarts
    BY <1>0 DEF Init
  <2> QED
    BY <2>1, <2>2 DEF Init, Types
<1>4. RoomToEnd /\ Watched /\ Consents
  BY <1>0, <1>1 DEF Init, RoomToEnd, Watched, Consents
<1>5. Kinds /\ FewRequests /\ AcceptedStored
  BY <1>0, FS_EmptySet DEF Init, Kinds, FewRequests, Heard, AcceptedStored
<1>6. SentOK
  BY <1>2 DEF Init, SentOK, SentFits, Sent, Posted
<1>7. AcknowledgedIsStored /\ DeletedStaysDeleted
  BY <1>1 DEF Init, AcknowledgedIsStored, DeletedStaysDeleted
<1> QED
  BY <1>3, <1>4, <1>5, <1>6, <1>7 DEF IInv, Locals

LEMMA NextCases ==
    ASSUME IInv, Next
    PROVE  \/ Silent \/ UploadPending \/ RequestRemoteDeletion
           \/ \E r \in requests : Check(r) \/ Commit(r) \/ DeleteInstallation(r)
<1>1. CASE \/ \E s \in Sessions : StartSession(s) \/ FinishSession(s) \/ RecordLaunchFailure(s)
           \/ Checkpoint
  BY <1>1, HandlersObserve DEF IInv, Locals, Silent
<1>2. CASE \E s \in Sessions : Age(s)
  BY <1>2 DEF Silent
<1>3. CASE ClearLocalHistory \/ Quit \/ Crash \/ Start \/ OptIn \/ OptOut
  BY <1>3 DEF Silent
<1>4. CASE \E r \in requests : Accepted(r) \/ Unauthorized(r) \/ Rejected(r) \/ Deleted(r)
                               \/ GiveUp(r) \/ Drop(r)
  BY <1>4 DEF Silent
<1> QED
  BY <1>1, <1>2, <1>3, <1>4 DEF Next

LEMMA NextInv == IInv /\ [Next]_vars => IInv'
<1> SUFFICES ASSUME IInv, [Next]_vars PROVE IInv'
  OBVIOUS
<1>1. CASE Next
  BY <1>1, NextCases, SilentInv, UploadInv, DeletionRequestInv, CheckInv, CommitInv,
     DeleteInstallationInv
<1>2. CASE UNCHANGED vars
  <2> USE <1>2 DEF vars, store, watch, server, world, hist
  <2>1. Types' /\ RoomToEnd' /\ Watched' /\ Consents'
    BY DEF IInv, Locals, Types, RoomToEnd, Watched, Consents, Observed
  <2>2. Kinds' /\ FewRequests' /\ AcceptedStored'
    BY DEF IInv, Kinds, FewRequests, Heard, AcceptedStored
  <2>3. SentOK'
    BY DEF IInv, SentOK, SentFits, Sent, Posted
  <2>4. AcknowledgedIsStored' /\ DeletedStaysDeleted'
    BY DEF IInv, AcknowledgedIsStored, DeletedStaysDeleted
  <2> QED
    BY <2>1, <2>2, <2>3, <2>4 DEF IInv, Locals
<1> QED
  BY <1>1, <1>2

LEMMA InvHolds == Spec => []IInv
  BY InitInv, NextInv, PTL DEF Spec

LEMMA InvTypes == IInv => TypeOK
<1> SUFFICES ASSUME IInv PROVE TypeOK
  OBVIOUS
<1>1. Types /\ FewRequests /\ Consents
  BY DEF IInv, Locals
<1>2. Cardinality(Heard) <= 1
  <2>1. CASE Heard = {}
    BY <2>1, FS_EmptySet
  <2>2. CASE Heard # {}
    <3>1. PICK r : Heard = {r}
      BY <1>1, <2>2 DEF FewRequests
    <3> QED
      BY <3>1, FS_Singleton
  <2> QED
    BY <2>1, <2>2
<1>3. ASSUME NEW r \in requests
      PROVE  r.kind \in {"post", "delete"} /\ r.key \in Credentials /\ DOMAIN r.batch \subseteq Sessions
  BY <1>1, BatchRows DEF Types, RequestType
<1>4. {running, sharing, deleting, writable, declined} \subseteq BOOLEAN
  BY <1>1 DEF Types
<1>5. sharing => running /\ writable /\ key # NoCredential
  BY <1>1 DEF Consents
<1> QED
  BY <1>1, <1>2, <1>3, <1>4, <1>5 DEF Types, FewRequests, TypeOK, StoredType

LEMMA InvNoConflict == IInv => NoSessionConflict
<1> SUFFICES ASSUME IInv, NEW r \in requests, r.kind = "post", NEW s \in DOMAIN r.batch, Conflicts(r, s)
             PROVE  FALSE
  BY DEF NoSessionConflict
<1>1. s \in Sessions /\ r.batch[s] \in RowType
  BY BatchRows DEF IInv, Locals
<1>2. [key |-> r.key, rev |-> r.batch[s].rev, done |-> r.batch[s].done] \in Sent(s)
  BY DEF Sent, Posted
<1>3. [key |-> stored[s].owner, rev |-> stored[s].rev, done |-> stored[s].done] \in Sent(s)
  BY DEF Sent, Conflicts
<1>4. r.key = stored[s].owner /\ (stored[s].done => r.batch[s].rev <= stored[s].rev)
  BY <1>1, <1>2, <1>3 DEF IInv, SentOK, SentFits
<1>5. r.batch[s].rev \in Nat /\ stored[s].rev \in Nat
  BY <1>1 DEF RowType, StoredType, IInv, Locals, Types
<1> QED
  BY <1>4, <1>5 DEF Conflicts

\* What a step newly sends, and is heard, was agreed to.
LEMMA NewlySent ==
    ASSUME IInv, Next, NEW q \in requests' \ requests, q.kind = "post", q.heard, q.stage = "sent"
    PROVE  ~declined /\ DOMAIN q.batch \subseteq agreed
<1>1. CASE Silent
  <2>1. Shrinks
    BY <1>1, SilentStep DEF Silent, IInv
  <2> QED
    BY <2>1 DEF Shrinks
<1>2. CASE UploadPending
  <2>1. CASE Shrinks
    BY <2>1 DEF Shrinks
  <2>2. CASE ~Shrinks
    <3>1. \A s \in DOMAIN q.batch : s \in Sessions /\ rows'[s].pending
      BY <1>2, <2>2, UploadSends
    <3>2. Consents'
      BY <1>2, LocalStep DEF IInv
    <3>3. agreed' = agreed /\ ~declined
      BY <1>2 DEF UploadPending, hist, Consents, IInv, Locals
    <3> QED
      BY <3>1, <3>2, <3>3 DEF Consents
  <2> QED
    BY <2>1, <2>2
<1>3. CASE RequestRemoteDeletion
  <2>1. q \in Ignored(requests) \/ q = Deletion
    BY <1>3 DEF RequestRemoteDeletion
  <2>2. q \notin Ignored(requests)
    BY Ignoring DEF IInv, Locals
  <2>3. Deletion.kind = "delete"
    BY DEF Deletion, Post
  <2> QED
    BY <2>1, <2>2, <2>3
<1>4. ASSUME NEW r \in requests, Check(r) \/ Commit(r) \/ DeleteInstallation(r) PROVE FALSE
  <2>1. PICK stage \in Stages \ {"sent"} : Serve(r, stage)
    BY <1>4 DEF Check, Commit, DeleteInstallation, Stages
  <2>2. q = [r EXCEPT !.stage = stage]
    BY <2>1 DEF Serve
  <2>3. r \in RequestType
    BY DEF IInv, Locals, Types
  <2> QED
    BY <2>2, <2>3, ServedRequest
<1> QED
  BY <1>1, <1>2, <1>3, <1>4, NextCases

-----------------------------------------------------------------------------
(* The theorems. *)

\* The types of the store, of the launcher and of the tables, and one request listened to at
\* a time (PlayStatisticsService, storage.ts).
THEOREM TypeCorrect == Spec => []TypeOK
  BY InvHolds, InvTypes, PTL

\* However late or racing an upload is, the data of a deleted credential does not come back
\* (saveBatch against deleteInstallation).
THEOREM DeletedIsKeptDeleted == Spec => []DeletedStaysDeleted
<1>1. IInv => DeletedStaysDeleted
  BY DEF IInv
<1> QED
  BY <1>1, InvHolds, PTL

\* What the launcher takes off its queue is in the table, whatever fails or is interrupted in
\* between, until its credential is deleted (uploadPending, the answers to it).
THEOREM AcknowledgedAreStored == Spec => []AcknowledgedIsStored
<1>1. IInv => AcknowledgedIsStored
  BY DEF IInv
<1> QED
  BY <1>1, InvHolds, PTL

\* No request of the launcher runs into the trigger of the table, across crashes, restarts
\* and changes of the credential (play_session_conflict).
THEOREM SessionsNeverConflict == Spec => []NoSessionConflict
  BY InvHolds, InvNoConflict, PTL

\* Only sessions begun under a consent that stands are sent (uploadPending, setSharingEnabled).
THEOREM OnlyAgreedAreSent == Spec => OnlyAgreedSent
<1>1. IInv /\ [Next]_vars
        => [\A r \in requests' \ requests :
                r.kind = "post" /\ r.heard /\ r.stage = "sent"
                    => ~declined /\ DOMAIN r.batch \subseteq agreed]_vars
  BY NewlySent
<1> QED
  BY <1>1, InvHolds, PTL DEF Spec, OnlyAgreedSent
=============================================================================
