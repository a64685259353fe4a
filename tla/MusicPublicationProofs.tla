------------------------ MODULE MusicPublicationProofs ------------------------
(***************************************************************************)
(* Proofs about MusicPublication, for every set of tracks and of requests  *)
(* and every bound: its type invariant, that D1 never disagrees with the   *)
(* delivery server for longer than one recoverable operation, and that an  *)
(* operation changes only what it is about.                                *)
(*                                                                         *)
(* The argument: the version of the work is read before the snapshot and   *)
(* compared when the operation is prepared, so a prepared operation holds  *)
(* what D1 will say once it is confirmed (Fits).  That stays so while the  *)
(* revision it expects is the confirmed one, because only a confirmation   *)
(* changes what is public, and a confirmation moves the revision on.  The  *)
(* delivery server takes an operation only at the revision it expects.     *)
(***************************************************************************)
EXTENDS MusicPublication, TLAPS

PublicOf(ts) == [t \in Tracks |-> ts[t].public]
ShownOf(g) == g.on /\ ~g.stopped
ViewOf(g, ts) == IF ShownOf(g) THEN PublicOf(ts) ELSE Off

\* What is public of work g with tracks ts once mutation m is confirmed.
WillShow(m, g) == IF m.kind = "game" THEN ShownOf(m) ELSE ShownOf(g)
WillBe(m, ts) ==
    [t \in Tracks |-> IF m.kind = "track" /\ t = m.track THEN m.draft ELSE ts[t].public]
After(m, g, ts) == IF WillShow(m, g) THEN WillBe(m, ts) ELSE Off

\* A request whose work has not changed since it read it knows what to show.
ReadFits(h) ==
    /\ req[h].pc = "game" => req[h].mutation.kind = "track"
    /\ req[h].pc \in {"tracks", "prepare"} =>
           /\ req[h].seen <= game.version
           /\ req[h].seen = game.version /\ req[h].mutation.kind # "codes" =>
                  req[h].shown = WillShow(req[h].mutation, game)
    /\ req[h].pc = "prepare" /\ req[h].seen = game.version /\ req[h].mutation.kind # "codes" =>
           req[h].payload = After(req[h].mutation, game, tracks)

\* An operation that may still land holds what D1 will say.
Fits(o) ==
    ops[o].state # "unused" =>
        /\ ops[o].expected <= delivery
        /\ ops[o].state = "applied" => ops[o].expected < delivery
        /\ ops[o].expected = delivery /\ ops[o].mutation.kind # "codes" =>
               ops[o].payload = After(ops[o].mutation, game, tracks)

Level == served.revision = delivery /\ served.snapshot = View

Ahead ==
    /\ served.revision = delivery + 1
    /\ served.receipt # 0
    /\ ops[served.receipt].state # "applied"
    /\ ops[served.receipt].expected = delivery
    /\ served.snapshot = After(ops[served.receipt].mutation, game, tracks)

ReceiptFits ==
    served.receipt # 0 =>
        /\ ops[served.receipt].state # "unused"
        /\ served.revision = ops[served.receipt].expected + 1
        /\ served.revision = delivery => ops[served.receipt].state = "applied"

\* A request that confirms has the receipt of the operation D1 lacks, or comes late.
ConfirmFits(h) ==
    req[h].pc = "confirm" =>
        \/ ops[req[h].op].state = "applied"
        \/ served.receipt = req[h].op /\ served.revision = delivery + 1

Inv ==
    /\ \A h \in Handlers : ReadFits(h)
    /\ \A o \in Ops : Fits(o)
    /\ Level \/ Ahead
    /\ ReceiptFits
    /\ \A h \in Handlers : ConfirmFits(h)

-----------------------------------------------------------------------------
(* Type correctness. *)

\* The row of an operation keeps everything but its state.
SameOps ==
    \A o \in Ops :
        /\ ops'[o].state # "unused" <=> ops[o].state # "unused"
        /\ ops'[o].expected = ops[o].expected
        /\ ops'[o].payload = ops[o].payload
        /\ ops'[o].mutation = ops[o].mutation
        /\ ops[o].state = "applied" => ops'[o].state = "applied"

LEMMA IdleOK == Idle \in [pc: PrepareSteps \cup RunSteps \cup {"idle"}, op: {0} \cup Ops,
                          mutation: Mutations, seen: Nat, trackSeen: Nat, shown: BOOLEAN,
                          payload: Snapshots, assigned: SUBSET Tracks]
                /\ Idle.pc = "idle" /\ Idle.op = 0 /\ Idle.mutation.kind = "game"
  BY BoundsAssumption DEF Idle, NoMutation, Mutations, Kinds, Drafts, Snapshots

\* A request goes on with the operation it has.
LEMMA GotoOK ==
  ASSUME RequestsOK, NEW h \in Handlers, NEW pc \in RunSteps, req[h].pc \in RunSteps,
         Goto(h, pc), SameOps
  PROVE  RequestsOK'
  BY DEF RequestsOK, Goto, SameOps

\* A request ends.
LEMMA EndOK ==
  ASSUME RequestsOK, NEW h \in Handlers, req' = [req EXCEPT ![h] = Idle], SameOps
  PROVE  RequestsOK'
  BY IdleOK DEF RequestsOK, SameOps, RunSteps

LEMMA StayOK ==
  ASSUME RequestsOK, UNCHANGED req, SameOps
  PROVE  RequestsOK'
  BY DEF RequestsOK, SameOps

\* state() changes one state and never makes two operations pending.
LEMMA SetStateOK ==
  ASSUME JournalOK, NEW o \in Ops, ops[o].state # "unused", NEW s \in States \ {"applied"},
         SetState(o, s), UNCHANGED <<made, delivery>>
  PROVE  JournalOK' /\ SameOps
  <1>1. CASE ops' = ops
    BY <1>1 DEF JournalOK, SameOps
  <1>2. CASE ops' # ops
    <2>1. /\ ops' = [ops EXCEPT ![o].state = s]
          /\ ops[o].state # "applied"
          /\ s \in Pending => IndexFree(o)
      BY <1>2 DEF SetState
    <2>2. ops' \in [Ops -> [state: States \cup {"unused"}, expected: Nat, payload: Snapshots,
                            assigned: SUBSET Tracks, mutation: Mutations]]
      BY <2>1 DEF JournalOK
    <2>3. SameOps
      BY <2>1 DEF JournalOK, SameOps, States
    <2>4. \A p, q \in Ops : ops'[p].state \in Pending /\ ops'[q].state \in Pending => p = q
      BY <2>1 DEF JournalOK, IndexFree
    <2> QED
      BY <2>2, <2>3, <2>4 DEF JournalOK, SameOps
  <1> QED
    BY <1>1, <1>2

LEMMA NoChangeOK ==
  ASSUME JournalOK, UNCHANGED journal
  PROVE  JournalOK' /\ SameOps
  BY DEF JournalOK, journal, SameOps

LEMMA LandOK ==
  ASSUME TypeOK, NEW o \in Ops, ops[o].state # "unused", Land(o), UNCHANGED flight, SameOps
  PROVE  ServerOK'
  BY DEF TypeOK, JournalOK, ServerOK, Land, SameOps, Mutations, Snapshots

LEMMA ServerStays ==
  ASSUME ServerOK, UNCHANGED server, SameOps
  PROVE  ServerOK'
  BY DEF ServerOK, server, SameOps

LEMMA RowsStay ==
  ASSUME RowsOK, UNCHANGED rows, edits' = edits, faults' \in 0..MaxFaults
  PROVE  RowsOK'
  BY DEF RowsOK, rows

LEMMA FaultOK ==
  ASSUME RowsOK, faults < MaxFaults, faults' = faults + 1
  PROVE  faults' \in 0..MaxFaults
  BY BoundsAssumption DEF RowsOK

LEMMA InitOK ==
  ASSUME Init
  PROVE  TypeOK
  <1>1. JournalOK
    BY BoundsAssumption DEF Init, JournalOK, Unused, NoMutation, Mutations, Kinds, Drafts, Snapshots, Pending, Ops
  <1>2. RowsOK
    BY BoundsAssumption DEF Init, RowsOK, Drafts
  <1>3. ServerOK
    <2>1. Public \in Contents
      BY <1>2 DEF Public, RowsOK, Contents
    <2> QED
      BY <2>1 DEF Init, ServerOK, View, Snapshots
  <1>4. RequestsOK
    BY IdleOK DEF Init, RequestsOK, RunSteps
  <1> QED
    BY <1>1, <1>2, <1>3, <1>4 DEF TypeOK

Notes == [pc: PrepareSteps \cup RunSteps \cup {"idle"}, op: {0} \cup Ops, mutation: Mutations,
          seen: Nat, trackSeen: Nat, shown: BOOLEAN, payload: Snapshots, assigned: SUBSET Tracks]

\* A request replaces its notes and does not deliver yet.
LEMMA NotesOK ==
  ASSUME RequestsOK, NEW h \in Handlers, NEW n \in Notes, n.pc \in PrepareSteps,
         n.mutation.kind = "track" => n.mutation.track \in Tracks,
         req' = [req EXCEPT ![h] = n], UNCHANGED ops
  PROVE  RequestsOK'
  BY DEF RequestsOK, Notes, PrepareSteps, RunSteps

\* A request that still prepares writes nothing but its own notes.
LEMMA ReadOK ==
  ASSUME TypeOK, NEW h \in Handlers,
         \/ \E on, stopped \in BOOLEAN : AskGame(h, on, stopped)
         \/ \E t \in Tracks, publish \in BOOLEAN : AskTrack(h, t, publish)
         \/ AskCodes(h) \/ ReadGame(h) \/ ReadTracks(h)
  PROVE  TypeOK'
  <1>1. UNCHANGED <<rows, journal, server, bounds>>
    BY DEF AskGame, AskTrack, AskCodes, ReadGame, ReadTracks
  <1>2. JournalOK' /\ SameOps /\ ServerOK' /\ RowsOK'
    BY <1>1, NoChangeOK, ServerStays DEF TypeOK, RowsOK, rows, bounds
  <1>3. /\ game \in [on: BOOLEAN, stopped: BOOLEAN, version: Nat]
        /\ tracks \in [Tracks -> [draft: Drafts, public: Drafts, version: Nat]]
        /\ 0 \in Drafts /\ None \notin Tracks
    BY BoundsAssumption, NoneAssumption DEF TypeOK, RowsOK, Drafts
  <1> USE DEF Notes
  <1>4. ASSUME NEW on \in BOOLEAN, NEW stopped \in BOOLEAN, AskGame(h, on, stopped)
        PROVE  RequestsOK'
    <2> DEFINE m == [NoMutation EXCEPT !.on = on, !.stopped = stopped]
               n == [Idle EXCEPT !.pc = "tracks", !.seen = game.version,
                                 !.shown = on /\ ~stopped, !.mutation = m]
    <2>0. m \in Mutations /\ m.kind # "track"
      BY <1>3 DEF NoMutation, Mutations, Kinds
    <2> HIDE DEF m
    <2>1. n \in Notes /\ n.mutation = m /\ n.pc \in PrepareSteps
      BY <1>3, <2>0 DEF Idle, PrepareSteps, Snapshots
    <2>2. req' = [req EXCEPT ![h] = n]
      BY <1>4 DEF AskGame, m
    <2> HIDE DEF n
    <2> QED
      BY <1>1, <2>0, <2>1, <2>2, NotesOK DEF TypeOK, journal
  <1>5. ASSUME NEW t \in Tracks, NEW publish \in BOOLEAN, AskTrack(h, t, publish)
        PROVE  RequestsOK'
    <2> DEFINE d == IF publish THEN tracks[t].draft ELSE 0
               m == [NoMutation EXCEPT !.kind = "track", !.track = t, !.draft = d]
               n == [Idle EXCEPT !.pc = "game", !.trackSeen = tracks[t].version, !.mutation = m]
    <2>1. d \in Drafts
      BY <1>3
    <2>2. m \in Mutations /\ m.track = t
      BY <1>3, <2>1 DEF NoMutation, Mutations, Kinds
    <2> HIDE DEF m
    <2>4. n \in Notes /\ n.mutation = m /\ n.pc \in PrepareSteps
      BY <1>3, <2>2 DEF Idle, PrepareSteps, Snapshots
    <2>3. req' = [req EXCEPT ![h] = n]
      BY <1>5 DEF AskTrack, m
    <2> HIDE DEF n
    <2> QED
      BY <1>1, <2>2, <2>3, <2>4, NotesOK DEF TypeOK, journal
  <1>6. ASSUME AskCodes(h) PROVE RequestsOK'
    <2> DEFINE m == [NoMutation EXCEPT !.kind = "codes"]
               n == [Idle EXCEPT !.pc = "tracks", !.seen = game.version, !.mutation = m]
    <2>0. m \in Mutations /\ m.kind # "track"
      BY <1>3 DEF NoMutation, Mutations, Kinds
    <2> HIDE DEF m
    <2>1. n \in Notes /\ n.mutation = m /\ n.pc \in PrepareSteps
      BY <1>3, <2>0 DEF Idle, PrepareSteps, Snapshots
    <2>2. req' = [req EXCEPT ![h] = n]
      BY <1>6 DEF AskCodes, m
    <2> HIDE DEF n
    <2> QED
      BY <1>1, <2>0, <2>1, <2>2, NotesOK DEF TypeOK, journal
  <1>7. ASSUME ReadGame(h) PROVE RequestsOK'
    <2> DEFINE n == [req[h] EXCEPT !.pc = "tracks", !.seen = game.version, !.shown = ShownOf(game)]
    <2>0. req[h] \in Notes /\ ShownOf(game) \in BOOLEAN /\ game.version \in Nat
      BY <1>3 DEF TypeOK, RequestsOK, ShownOf
    <2>1. n \in Notes /\ n.mutation = req[h].mutation /\ n.pc \in PrepareSteps
      BY <2>0 DEF PrepareSteps
    <2>2. req' = [req EXCEPT ![h] = n]
      BY <1>7 DEF ReadGame, TypeOK, RequestsOK, ShownOf
    <2> HIDE DEF n
    <2> QED
      BY <1>1, <2>1, <2>2, NotesOK DEF TypeOK, RequestsOK, journal
  <1>8. ASSUME ReadTracks(h) PROVE RequestsOK'
    <2> DEFINE m == req[h].mutation
               a == IF m.kind = "codes" THEN {t \in Tracks : tracks[t].public # 0} ELSE {}
               n == [req[h] EXCEPT !.pc = "prepare", !.payload = Snapshot(m, req[h].shown),
                                   !.assigned = a]
    <2>1. Snapshot(m, req[h].shown) \in Snapshots
      BY <1>3 DEF Snapshot, Snapshots, Contents, TypeOK, RequestsOK, Mutations
    <2>2. a \in SUBSET Tracks
      OBVIOUS
    <2>0. req[h] \in Notes
      BY DEF TypeOK, RequestsOK
    <2> HIDE DEF a
    <2>3. n \in Notes /\ n.mutation = m /\ n.pc \in PrepareSteps
      BY <2>0, <2>1, <2>2 DEF PrepareSteps
    <2>4. req' = [req EXCEPT ![h] = n]
      BY <1>8 DEF ReadTracks, TypeOK, RequestsOK, a
    <2> HIDE DEF n
    <2> QED
      BY <1>1, <2>3, <2>4, NotesOK DEF TypeOK, RequestsOK, journal
  <1> QED
    BY <1>2, <1>4, <1>5, <1>6, <1>7, <1>8 DEF TypeOK

LEMMA PrepareOK ==
  ASSUME TypeOK, NEW h \in Handlers, Prepare(h)
  PROVE  TypeOK'
  <1> DEFINE o == made + 1
  <1>1. CASE o \in Ops /\ Unchanged(h) /\ IndexFree(o)
    <2>1. /\ ops' = [ops EXCEPT ![o] = [state |-> "prepared", expected |-> delivery,
                                        payload |-> req[h].payload, assigned |-> req[h].assigned,
                                        mutation |-> req[h].mutation]]
          /\ made' = o /\ delivery' = delivery
          /\ req' = [req EXCEPT ![h] = [Idle EXCEPT !.pc = "send", !.op = o]]
      BY <1>1 DEF Prepare
    <2>2. ops' \in [Ops -> [state: States \cup {"unused"}, expected: Nat, payload: Snapshots,
                            assigned: SUBSET Tracks, mutation: Mutations]]
      BY <1>1, <2>1 DEF TypeOK, JournalOK, RequestsOK, States
    <2>3. \A p \in Ops : ops'[p].state # "unused" <=> p <= made'
      BY <1>1, <2>1 DEF TypeOK, JournalOK, Ops
    <2>4. \A p, q \in Ops : ops'[p].state \in Pending /\ ops'[q].state \in Pending => p = q
      BY <1>1, <2>1 DEF TypeOK, JournalOK, IndexFree, Pending
    <2>5. \A p \in Ops : ops'[p].mutation.kind = "track" => ops'[p].mutation.track \in Tracks
      BY <1>1, <2>1 DEF TypeOK, JournalOK, RequestsOK
    <2>6. JournalOK'
      BY <2>1, <2>2, <2>3, <2>4, <2>5 DEF TypeOK, JournalOK
    <2>7. \A p \in Ops : ops[p].state # "unused" => ops'[p].state # "unused"
      BY <1>1, <2>1 DEF TypeOK, JournalOK
    <2>8. RequestsOK'
      BY <1>1, <2>1, <2>7, IdleOK DEF TypeOK, JournalOK, RequestsOK, RunSteps
    <2>9. ServerOK' /\ RowsOK'
      BY <2>7 DEF Prepare, TypeOK, ServerOK, RowsOK, server, rows, bounds
    <2> QED
      BY <2>6, <2>8, <2>9 DEF TypeOK
  <1>2. CASE ~(o \in Ops /\ Unchanged(h) /\ IndexFree(o))
    <2>1. UNCHANGED <<rows, journal, server, bounds>> /\ req' = [req EXCEPT ![h] = Idle]
      BY <1>2 DEF Prepare, journal
    <2>2. JournalOK' /\ SameOps
      BY <2>1, NoChangeOK DEF TypeOK
    <2> QED
      BY <2>1, <2>2, EndOK, ServerStays DEF TypeOK, RowsOK, rows, bounds
  <1> QED
    BY <1>1, <1>2

LEMMA EditOK ==
  ASSUME TypeOK, NEW t \in Tracks, EditTrack(t)
  PROVE  TypeOK'
  <1>1. JournalOK' /\ SameOps
    BY NoChangeOK DEF EditTrack, TypeOK
  <1>2. RowsOK'
    BY BoundsAssumption DEF EditTrack, TypeOK, RowsOK, Bumped, Drafts
  <1> QED
    BY <1>1, <1>2, ServerStays, StayOK DEF EditTrack, TypeOK

LEMMA RunOK ==
  ASSUME TypeOK, NEW h \in Handlers,
         Send(h) \/ Status(h) \/ Apply(h) \/ ApplyUnanswered(h) \/ Refused(h)
             \/ Unanswered(h) \/ Give(h) \/ Killed(h)
  PROVE  TypeOK'
  <1> DEFINE o == req[h].op
  <1>0. req[h].pc \in RunSteps => o \in Ops /\ ops[o].state # "unused"
    BY DEF TypeOK, RequestsOK
  <1>1. CASE Send(h)
    <2>1. o \in Ops /\ JournalOK' /\ SameOps
      BY <1>0, <1>1, SetStateOK DEF Send, TypeOK, RunSteps, States
    <2>2. CASE Blocked(o)
      BY <1>1, <2>1, <2>2, EndOK, ServerStays DEF Send, TypeOK, RowsOK, rows, bounds
    <2>3. CASE ~Blocked(o)
      <3>1. Goto(h, "status") /\ req[h].pc \in RunSteps
        BY <1>1, <2>3 DEF Send, Goto, TypeOK, RequestsOK, RunSteps
      <3> QED
        BY <1>1, <2>1, <3>1, GotoOK, ServerStays DEF Send, TypeOK, RowsOK, rows, bounds, RunSteps
    <2> QED
      BY <2>2, <2>3
  <1>2. CASE Status(h)
    <2>1. JournalOK' /\ SameOps
      BY <1>2, NoChangeOK DEF Status, TypeOK
    <2>2. \E pc \in RunSteps : Goto(h, pc)
      BY <1>2 DEF Status, RunSteps
    <2> QED
      BY <1>2, <2>1, <2>2, GotoOK, ServerStays DEF Status, TypeOK, RowsOK, rows, bounds, RunSteps
  <1>3. CASE Apply(h)
    <2>1. JournalOK' /\ SameOps
      BY <1>3, NoChangeOK DEF Apply, TypeOK, journal
    <2>2. \E pc \in RunSteps : Goto(h, pc)
      BY <1>3 DEF Apply, RunSteps
    <2>3. ServerOK'
      BY <1>0, <1>3, <2>1, LandOK DEF Apply, RunSteps
    <2> QED
      BY <1>3, <2>1, <2>2, <2>3, GotoOK DEF Apply, TypeOK, RowsOK, rows, bounds, RunSteps
  <1>4. CASE ApplyUnanswered(h)
    <2>1. JournalOK' /\ SameOps
      BY <1>4, NoChangeOK DEF ApplyUnanswered, TypeOK, journal
    <2>2. ServerOK'
      <3>1. CASE UNCHANGED server
        BY <2>1, <3>1, ServerStays DEF TypeOK
      <3>2. CASE Land(o) /\ UNCHANGED flight
        BY <1>0, <1>4, <2>1, <3>2, LandOK DEF ApplyUnanswered, RunSteps
      <3>3. CASE flight' = flight \cup {o} /\ UNCHANGED <<served, landed>>
        BY <1>0, <1>4, <2>1, <3>3 DEF ApplyUnanswered, RunSteps, TypeOK, ServerOK, SameOps
      <3> QED
        BY <1>4, <3>1, <3>2, <3>3 DEF ApplyUnanswered
    <2> QED
      BY <1>4, <2>1, <2>2, GotoOK, FaultOK, RowsStay DEF ApplyUnanswered, TypeOK, RunSteps
  <1>5. CASE Refused(h) \/ Unanswered(h)
    <2>1. JournalOK' /\ SameOps
      BY <1>5, NoChangeOK DEF Refused, Unanswered, TypeOK
    <2> QED
      BY <1>5, <2>1, GotoOK, FaultOK, RowsStay, ServerStays
         DEF Refused, Unanswered, TypeOK, RunSteps
  <1>6. CASE Give(h)
    <2>1. o \in Ops /\ JournalOK' /\ SameOps
      BY <1>0, <1>6, SetStateOK DEF Give, TypeOK, RunSteps, States
    <2> QED
      BY <1>6, <2>1, EndOK, ServerStays DEF Give, TypeOK, RowsOK, rows, bounds
  <1>7. CASE Killed(h)
    <2>1. JournalOK' /\ SameOps
      BY <1>7, NoChangeOK DEF Killed, TypeOK
    <2> QED
      BY <1>7, <2>1, EndOK, FaultOK, RowsStay, ServerStays DEF Killed, TypeOK
  <1> QED
    BY <1>1, <1>2, <1>3, <1>4, <1>5, <1>6, <1>7

LEMMA PublicRow ==
  ASSUME NEW r \in [draft: Drafts, public: Drafts, version: Nat], NEW d \in Drafts
  PROVE  /\ [r EXCEPT !.public = d, !.version = @ + 1] \in [draft: Drafts, public: Drafts, version: Nat]
         /\ [r EXCEPT !.public = d, !.version = @ + 1].draft = r.draft
  <1> DEFINE q == [r EXCEPT !.public = d]
  <1>1. q \in [draft: Drafts, public: Drafts, version: Nat] /\ q.version = r.version /\ q.draft = r.draft
    OBVIOUS
  <1> HIDE DEF q
  <1>2. /\ [q EXCEPT !.version = q.version + 1] \in [draft: Drafts, public: Drafts, version: Nat]
        /\ [q EXCEPT !.version = q.version + 1].draft = r.draft
    BY <1>1
  <1>3. [r EXCEPT !.public = d, !.version = @ + 1] = [q EXCEPT !.version = q.version + 1]
    BY <1>1 DEF q
  <1> QED
    BY <1>2, <1>3

LEMMA PublishedOK ==
  ASSUME RowsOK, NEW m \in Mutations, m.kind = "track" => m.track \in Tracks, Published(m),
         edits' = edits, faults' = faults
  PROVE  RowsOK'
  <1>1. CASE m.kind = "game"
    BY <1>1 DEF RowsOK, Published, Mutations
  <1>2. CASE m.kind = "track"
    <2> DEFINE v == [tracks[m.track] EXCEPT !.public = m.draft, !.version = @ + 1]
    <2>1. tracks' = [tracks EXCEPT ![m.track] = v] /\ game' = [game EXCEPT !.version = @ + 1]
      BY <1>2 DEF RowsOK, Published, Bumped
    <2>2. /\ v \in [draft: Drafts, public: Drafts, version: Nat]
          /\ v.draft = tracks[m.track].draft
          /\ m.track \in Tracks
      <3>1. m.track \in Tracks /\ m.draft \in Drafts
        BY <1>2 DEF Mutations
      <3>2. tracks[m.track] \in [draft: Drafts, public: Drafts, version: Nat]
        BY <3>1 DEF RowsOK
      <3> QED
        BY <3>1, <3>2, PublicRow
    <2>3. game' \in [on: BOOLEAN, stopped: BOOLEAN, version: Nat]
      BY <2>1 DEF RowsOK
    <2> HIDE DEF v
    <2>4. /\ tracks' \in [Tracks -> [draft: Drafts, public: Drafts, version: Nat]]
          /\ \A t \in Tracks : tracks'[t].draft = tracks[t].draft
      BY <2>1, <2>2 DEF RowsOK
    <2> QED
      BY <2>3, <2>4 DEF RowsOK
  <1>3. CASE m.kind \notin {"game", "track"}
    BY <1>3 DEF RowsOK, Published, rows
  <1> QED
    BY <1>1, <1>2, <1>3

LEMMA ConfirmOK ==
  ASSUME TypeOK, NEW h \in Handlers, Confirm(h)
  PROVE  TypeOK'
  <1> DEFINE o == req[h].op
             m == ops[o].mutation
  <1>0. o \in Ops /\ ops[o].state # "unused" /\ m \in Mutations /\ ops[o].expected \in Nat
        /\ (m.kind = "track" => m.track \in Tracks)
    BY DEF Confirm, TypeOK, RequestsOK, JournalOK, RunSteps
  <1>1. ops' = [ops EXCEPT ![o].state = "applied"]
    BY DEF Confirm
  <1>2. SameOps
    BY <1>0, <1>1 DEF TypeOK, JournalOK, SameOps
  <1>3. JournalOK'
    <2>1. delivery' \in Nat /\ made' = made
      BY <1>0 DEF Confirm, Later, TypeOK, JournalOK
    <2>2. ops' \in [Ops -> [state: States \cup {"unused"}, expected: Nat, payload: Snapshots,
                            assigned: SUBSET Tracks, mutation: Mutations]]
      BY <1>0, <1>1 DEF TypeOK, JournalOK, States
    <2>3. \A p, q \in Ops : ops'[p].state \in Pending /\ ops'[q].state \in Pending => p = q
      BY <1>0, <1>1 DEF TypeOK, JournalOK, Pending
    <2> QED
      BY <1>2, <2>1, <2>2, <2>3 DEF TypeOK, JournalOK, SameOps
  <1>4. RowsOK'
    <2>1. edits' = edits /\ faults' = faults
      BY DEF Confirm, bounds
    <2>2. CASE UNCHANGED rows
      BY <2>1, <2>2 DEF TypeOK, RowsOK, rows
    <2>3. CASE Published(m)
      BY <1>0, <2>1, <2>3, PublishedOK DEF TypeOK
    <2> QED
      BY <2>2, <2>3 DEF Confirm
  <1> QED
    BY <1>2, <1>3, <1>4, EndOK, ServerStays DEF Confirm, TypeOK

LEMMA OtherOK ==
  ASSUME TypeOK,
         \/ \E o \in Ops : LandLate(o) \/ Expire(o)
         \/ \E h \in Handlers, o \in Ops : Retry(h, o)
         \/ UNCHANGED vars
  PROVE  TypeOK'
  <1>1. ASSUME NEW o \in Ops, LandLate(o)
        PROVE  TypeOK'
    <2>1. JournalOK' /\ SameOps
      BY <1>1, NoChangeOK DEF LandLate, TypeOK
    <2>2. ServerOK'
      BY <1>1, <2>1 DEF LandLate, Land, TypeOK, JournalOK, ServerOK, SameOps
    <2> QED
      BY <1>1, <2>1, <2>2, StayOK DEF LandLate, TypeOK, RowsOK, rows, bounds
  <1>2. ASSUME NEW o \in Ops, Expire(o)
        PROVE  TypeOK'
    <2>1. JournalOK' /\ SameOps
      BY <1>2, NoChangeOK DEF Expire, TypeOK
    <2>2. ServerOK'
      BY <1>2, <2>1 DEF Expire, TypeOK, ServerOK, SameOps
    <2> QED
      BY <1>2, <2>1, <2>2, StayOK DEF Expire, TypeOK, RowsOK, rows, bounds
  <1>3. ASSUME NEW h \in Handlers, NEW o \in Ops, Retry(h, o)
        PROVE  TypeOK'
    <2>1. JournalOK' /\ SameOps
      BY <1>3, SetStateOK DEF Retry, TypeOK, States
    <2>2. RequestsOK'
      BY <1>3, <2>1, IdleOK DEF Retry, TypeOK, RequestsOK, SameOps, RunSteps
    <2> QED
      BY <1>3, <2>1, <2>2, ServerStays DEF Retry, TypeOK, RowsOK, rows, bounds
  <1>4. CASE UNCHANGED vars
    <2>1. JournalOK' /\ SameOps
      BY <1>4, NoChangeOK DEF vars, TypeOK
    <2> QED
      BY <1>4, <2>1, ServerStays, StayOK DEF vars, TypeOK, RowsOK, rows, bounds
  <1> QED
    BY <1>1, <1>2, <1>3, <1>4

LEMMA TypeStep == TypeOK /\ [Next]_vars => TypeOK'
  BY EditOK, OtherOK, ReadOK, PrepareOK, RunOK, ConfirmOK DEF Next, PrepareStep, RunStep

\* Every store and every request keeps its type, and the index keeps one operation pending.
THEOREM TypeCorrect == Spec => []TypeOK
  BY InitOK, TypeStep, PTL DEF Spec

-----------------------------------------------------------------------------
(* D1 and the delivery server. *)

\* What is public only depends on the public columns.
LEMMA AfterPublic ==
  ASSUME NEW m, NEW g, NEW ts, NEW g2, NEW ts2, g2.on = g.on, g2.stopped = g.stopped,
         \A t \in Tracks : ts2[t].public = ts[t].public
  PROVE  After(m, g2, ts2) = After(m, g, ts) /\ WillShow(m, g2) = WillShow(m, g)
         /\ ViewOf(g2, ts2) = ViewOf(g, ts)
  BY DEF After, WillShow, WillBe, ShownOf, ViewOf, PublicOf

LEMMA ViewIsOf == View = ViewOf(game, tracks) /\ View' = ViewOf(game', tracks')
  BY DEF View, ViewOf, Public, PublicOf, ShownOf

\* The notes of the requests that do not prepare are not looked at.
LEMMA ReadStays ==
  ASSUME NEW h \in Handlers, ReadFits(h), UNCHANGED rows,
         req'[h] = req[h] \/ req'[h].pc \notin PrepareSteps
  PROVE  ReadFits(h)'
  BY DEF ReadFits, PrepareSteps, rows

\* The journal and the server stay as they are but for states other than applied.
LEMMA StatesOnly ==
  ASSUME TypeOK, Inv, UNCHANGED <<rows, delivery, served>>, SameOps,
         \A o \in Ops : ops'[o].state = "applied" => ops[o].state = "applied"
  PROVE  (\A o \in Ops : Fits(o)') /\ (Level \/ Ahead)' /\ ReceiptFits'
  <1>1. \A o \in Ops : Fits(o)'
    BY DEF Inv, Fits, SameOps, rows
  <1>2. ReceiptFits'
    BY DEF Inv, ReceiptFits, SameOps, TypeOK, ServerOK
  <1>3. (Level \/ Ahead)'
    <2>1. CASE Level
      BY <2>1, ViewIsOf DEF Level, rows
    <2>2. CASE Ahead
      BY <2>2 DEF Ahead, SameOps, TypeOK, ServerOK, rows
    <2> QED
      BY <2>1, <2>2 DEF Inv
  <1> QED
    BY <1>1, <1>2, <1>3

LEMMA InvInit ==
  ASSUME Init
  PROVE  Inv
  BY DEF Init, Inv, ReadFits, Fits, Level, ReceiptFits, ConfirmFits, Idle, Unused, View, Public

\* A request that prepares reads the version of the work before, and the tracks after.
LEMMA InvRead ==
  ASSUME TypeOK, Inv, NEW h \in Handlers,
         \/ \E on, stopped \in BOOLEAN : AskGame(h, on, stopped)
         \/ \E t \in Tracks, publish \in BOOLEAN : AskTrack(h, t, publish)
         \/ AskCodes(h) \/ ReadGame(h) \/ ReadTracks(h)
  PROVE  Inv'
  <1>1. /\ UNCHANGED <<rows, journal, server, bounds>>
        /\ \A k \in Handlers : k # h => req'[k] = req[k]
        /\ req'[h].pc # "confirm"
    <2>1. UNCHANGED <<rows, journal, server, bounds>>
      BY DEF AskGame, AskTrack, AskCodes, ReadGame, ReadTracks
    <2>2. \A k \in Handlers : k # h => req'[k] = req[k]
      <3>1. \E n : req' = [req EXCEPT ![h] = n]
        BY DEF AskGame, AskTrack, AskCodes, ReadGame, ReadTracks, TypeOK, RequestsOK
      <3> QED
        BY <3>1 DEF TypeOK, RequestsOK
    <2>3. req'[h].pc \in PrepareSteps
      <3>1. CASE \E on, stopped \in BOOLEAN : AskGame(h, on, stopped)
        BY <3>1 DEF AskGame, TypeOK, RequestsOK, Idle, PrepareSteps
      <3>2. CASE \E t \in Tracks, publish \in BOOLEAN : AskTrack(h, t, publish)
        BY <3>2 DEF AskTrack, TypeOK, RequestsOK, Idle, PrepareSteps
      <3>3. CASE AskCodes(h)
        BY <3>3 DEF AskCodes, TypeOK, RequestsOK, Idle, PrepareSteps
      <3>4. CASE ReadGame(h)
        BY <3>4 DEF ReadGame, TypeOK, RequestsOK, PrepareSteps
      <3>5. CASE ReadTracks(h)
        BY <3>5 DEF ReadTracks, TypeOK, RequestsOK, PrepareSteps
      <3> QED
        BY <3>1, <3>2, <3>3, <3>4, <3>5
    <2> QED
      BY <2>1, <2>2, <2>3 DEF PrepareSteps
  <1>2. SameOps /\ UNCHANGED <<rows, delivery, served>>
    BY <1>1, NoChangeOK DEF TypeOK, journal, server
  <1>3. (\A o \in Ops : Fits(o)') /\ (Level \/ Ahead)' /\ ReceiptFits'
    BY <1>1, <1>2, StatesOnly DEF journal
  <1>4. \A k \in Handlers : ConfirmFits(k)'
    BY <1>1, <1>2 DEF Inv, ConfirmFits, SameOps, TypeOK, RequestsOK, RunSteps
  <1>5. game.version \in Nat
    BY DEF TypeOK, RowsOK
  <1>6. ReadFits(h)'
    <2>1. ASSUME NEW on \in BOOLEAN, NEW stopped \in BOOLEAN, AskGame(h, on, stopped)
          PROVE  ReadFits(h)'
      <3>1. /\ req'[h].pc = "tracks" /\ req'[h].seen = game.version
            /\ req'[h].shown = (on /\ ~stopped)
            /\ req'[h].mutation = [NoMutation EXCEPT !.on = on, !.stopped = stopped]
        BY <2>1 DEF AskGame, TypeOK, RequestsOK, Idle
      <3>2. WillShow(req'[h].mutation, game') = (on /\ ~stopped)
        BY <3>1 DEF WillShow, ShownOf, NoMutation
      <3> QED
        BY <1>1, <1>5, <3>1, <3>2 DEF ReadFits, rows
    <2>2. ASSUME NEW t \in Tracks, NEW publish \in BOOLEAN, AskTrack(h, t, publish)
          PROVE  ReadFits(h)'
      <3>1. req'[h].pc = "game" /\ req'[h].mutation.kind = "track"
        BY <2>2 DEF AskTrack, TypeOK, RequestsOK, Idle, NoMutation
      <3> QED
        BY <3>1 DEF ReadFits
    <2>3. CASE AskCodes(h)
      BY <1>1, <1>5, <2>3 DEF AskCodes, TypeOK, RequestsOK, Idle, NoMutation, ReadFits, rows
    <2>4. CASE ReadGame(h)
      <3>1. /\ req'[h].pc = "tracks" /\ req'[h].seen = game.version
            /\ req'[h].shown = ShownOf(game) /\ req'[h].mutation = req[h].mutation
        BY <2>4 DEF ReadGame, TypeOK, RequestsOK, ShownOf
      <3>2. req[h].mutation.kind = "track"
        BY <2>4 DEF ReadGame, Inv, ReadFits
      <3> QED
        BY <1>1, <1>5, <3>1, <3>2 DEF ReadFits, rows, WillShow
    <2>5. CASE ReadTracks(h)
      <3>1. /\ req[h].pc = "tracks" /\ req'[h].pc = "prepare" /\ req'[h].seen = req[h].seen
            /\ req'[h].shown = req[h].shown /\ req'[h].mutation = req[h].mutation
            /\ req'[h].payload = Snapshot(req[h].mutation, req[h].shown)
        BY <2>5 DEF ReadTracks, TypeOK, RequestsOK
      <3>2. req[h].shown = WillShow(req[h].mutation, game) =>
                Snapshot(req[h].mutation, req[h].shown) = After(req[h].mutation, game, tracks)
        BY DEF Snapshot, After, WillBe
      <3> QED
        BY <1>1, <3>1, <3>2 DEF Inv, ReadFits, rows
    <2> QED
      BY <2>1, <2>2, <2>3, <2>4, <2>5
  <1>7. \A k \in Handlers : ReadFits(k)'
    BY <1>1, <1>6, ReadStays DEF Inv
  <1> QED
    BY <1>3, <1>4, <1>7 DEF Inv

\* A draft is saved: the version moves on, what is public stays.
LEMMA InvEdit ==
  ASSUME TypeOK, Inv, NEW t \in Tracks, EditTrack(t)
  PROVE  Inv'
  <1>1. /\ game'.on = game.on /\ game'.stopped = game.stopped
        /\ game.version \in Nat /\ game'.version = game.version + 1
        /\ \A u \in Tracks : tracks'[u].public = tracks[u].public
        /\ UNCHANGED <<journal, server, req>>
    BY DEF EditTrack, Bumped, TypeOK, RowsOK
  <1>2. \A h \in Handlers : ReadFits(h)'
    BY <1>1 DEF Inv, ReadFits, TypeOK, RequestsOK
  <1>3. \A m : After(m, game', tracks') = After(m, game, tracks)
    BY <1>1, AfterPublic
  <1>4. ViewOf(game', tracks') = ViewOf(game, tracks)
    BY <1>1, AfterPublic
  <1>5. \A o \in Ops : Fits(o)'
    BY <1>1, <1>3 DEF Inv, Fits, journal
  <1>6. (Level \/ Ahead)'
    BY <1>1, <1>3, <1>4, ViewIsOf DEF Inv, Level, Ahead, journal, server
  <1>7. ReceiptFits' /\ \A h \in Handlers : ConfirmFits(h)'
    BY <1>1 DEF Inv, ReceiptFits, ConfirmFits, journal, server
  <1> QED
    BY <1>2, <1>5, <1>6, <1>7 DEF Inv

\* The operation is prepared from a work that has not changed: it fits.
LEMMA InvPrepare ==
  ASSUME TypeOK, Inv, NEW h \in Handlers, Prepare(h)
  PROVE  Inv'
  <1>0. UNCHANGED <<rows, delivery, served>>
    BY DEF Prepare, server
  <1>1. ASSUME NEW o \in Ops, o = made + 1, Unchanged(h), IndexFree(o)
        PROVE  Inv'
    <2>1. /\ ops' = [ops EXCEPT ![o] = [state |-> "prepared", expected |-> delivery,
                                        payload |-> req[h].payload, assigned |-> req[h].assigned,
                                        mutation |-> req[h].mutation]]
          /\ req' = [req EXCEPT ![h] = [Idle EXCEPT !.pc = "send", !.op = o]]
      BY <1>1 DEF Prepare
    <2>2. ops[o].state = "unused"
      BY <1>1 DEF TypeOK, JournalOK
    <2>3. /\ \A p \in Ops \ {o} : ops'[p] = ops[p]
          /\ ops'[o].state = "prepared" /\ ops'[o].expected = delivery
          /\ ops'[o].payload = req[h].payload /\ ops'[o].mutation = req[h].mutation
      BY <1>1, <2>1 DEF TypeOK, JournalOK
    <2>4. delivery \in Nat /\ req[h].pc = "prepare" /\ req[h].seen = game.version
      BY <1>1 DEF TypeOK, JournalOK, Prepare, Unchanged
    <2>5. Fits(o)'
      BY <1>0, <2>3, <2>4 DEF Inv, ReadFits, Fits, rows
    <2>6. \A p \in Ops : Fits(p)'
      BY <1>0, <2>3, <2>5 DEF Inv, Fits, rows
    <2>7. served.receipt # 0 => served.receipt \in Ops \ {o}
      BY <2>2 DEF Inv, ReceiptFits, TypeOK, ServerOK
    <2>8. ReceiptFits' /\ (Level \/ Ahead)'
      BY <1>0, <2>3, <2>7, ViewIsOf DEF Inv, ReceiptFits, Level, Ahead, rows
    <2>9. req'[h].pc = "send" /\ \A k \in Handlers : k # h => req'[k] = req[k]
      BY <2>1 DEF TypeOK, RequestsOK, Idle
    <2>10. \A k \in Handlers : ReadFits(k)'
      BY <1>0, <2>9, ReadStays DEF Inv, PrepareSteps
    <2>11. \A k \in Handlers : req[k].pc = "confirm" => req[k].op \in Ops \ {o}
      BY <2>2 DEF TypeOK, RequestsOK, RunSteps
    <2>12. \A k \in Handlers : ConfirmFits(k)'
      BY <1>0, <2>3, <2>9, <2>11 DEF Inv, ConfirmFits
    <2> QED
      BY <2>6, <2>8, <2>10, <2>12 DEF Inv
  <1>2. CASE ~(made + 1 \in Ops /\ Unchanged(h) /\ IndexFree(made + 1))
    <2>1. UNCHANGED <<rows, journal, server, bounds>> /\ req' = [req EXCEPT ![h] = Idle]
      BY <1>2 DEF Prepare, journal
    <2>2. SameOps
      BY <2>1, NoChangeOK DEF TypeOK
    <2>3. (\A p \in Ops : Fits(p)') /\ (Level \/ Ahead)' /\ ReceiptFits'
      BY <1>0, <2>1, <2>2, StatesOnly DEF journal
    <2>4. req'[h].pc = "idle" /\ \A k \in Handlers : k # h => req'[k] = req[k]
      BY <2>1, IdleOK DEF TypeOK, RequestsOK
    <2>5. \A k \in Handlers : ReadFits(k)' /\ ConfirmFits(k)'
      BY <1>0, <2>1, <2>4, ReadStays DEF Inv, ConfirmFits, PrepareSteps, journal
    <2> QED
      BY <2>3, <2>5 DEF Inv
  <1> QED
    BY <1>1, <1>2

\* A step of a request that changes at most the state of its operation, and does not apply it.
LEMMA InvStates ==
  ASSUME TypeOK, Inv, UNCHANGED <<rows, delivery, served>>, SameOps,
         \A o \in Ops : ops'[o].state = "applied" => ops[o].state = "applied",
         NEW h \in Handlers, \A k \in Handlers : k # h => req'[k] = req[k],
         req'[h].pc \notin PrepareSteps \cup {"confirm"}
  PROVE  Inv'
  <1>1. (\A o \in Ops : Fits(o)') /\ (Level \/ Ahead)' /\ ReceiptFits'
    BY StatesOnly
  <1>2. \A k \in Handlers : ReadFits(k)'
    BY ReadStays DEF Inv
  <1>3. \A k \in Handlers : ConfirmFits(k)'
    BY DEF Inv, ConfirmFits, SameOps, TypeOK, RequestsOK, RunSteps
  <1> QED
    BY <1>1, <1>2, <1>3 DEF Inv

\* The server switches to an operation only when D1 is level with it, to what D1 will say.
LEMMA InvLand ==
  ASSUME TypeOK, Inv, NEW o \in Ops, ops[o].state # "unused", Land(o), UNCHANGED <<rows, journal>>
  PROVE  /\ (\A p \in Ops : Fits(p)') /\ (Level \/ Ahead)' /\ ReceiptFits'
         /\ \A p \in Ops :
                ops[p].state = "applied" \/ (served.receipt = p /\ served.revision = delivery + 1)
                => (ops'[p].state = "applied"
                    \/ (served'.receipt = p /\ served'.revision = delivery' + 1))
         /\ served'.receipt = o => \/ ops'[o].state = "applied"
                                   \/ served'.revision = delivery' + 1
  <1>0. /\ delivery \in Nat /\ served.revision \in Nat /\ served.receipt \in {0} \cup Ops
        /\ ops[o].expected \in Nat /\ 0 \notin Ops
    BY DEF TypeOK, JournalOK, ServerOK, Ops
  <1>1. \A p \in Ops : Fits(p)'
    BY DEF Inv, Fits, rows, journal
  <1>2. CASE served' = served
    <2>1. (Level \/ Ahead)' /\ ReceiptFits'
      BY <1>2, ViewIsOf DEF Inv, Level, Ahead, ReceiptFits, rows, journal
    <2>2. served.receipt = o => ops[o].state = "applied" \/ served.revision = delivery + 1
      BY <1>0 DEF Inv, Level, Ahead, ReceiptFits
    <2> QED
      BY <1>1, <1>2, <2>1, <2>2 DEF journal
  <1>3. CASE served' # served
    <2>1. /\ served' = [revision |-> ops[o].expected + 1, receipt |-> o,
                        snapshot |-> IF ops[o].mutation.kind = "codes" THEN served.snapshot
                                     ELSE ops[o].payload]
          /\ served.revision = ops[o].expected
      BY <1>3 DEF Land, Accepts
    <2>2. ops[o].expected <= delivery
      BY DEF Inv, Fits
    <2>3. Level /\ ops[o].expected = delivery
      BY <1>0, <2>1, <2>2 DEF Inv, Level, Ahead
    <2>4. ops[o].state # "applied"
      BY <1>0, <2>3 DEF Inv, Fits
    <2>5. served'.snapshot = After(ops[o].mutation, game, tracks)
      <3>1. CASE ops[o].mutation.kind = "codes"
        <4>1. After(ops[o].mutation, game, tracks) = ViewOf(game, tracks)
          BY <3>1 DEF After, WillShow, WillBe, ViewOf, PublicOf
        <4> QED
          BY <2>1, <2>3, <3>1, <4>1, ViewIsOf DEF Level
      <3>2. CASE ops[o].mutation.kind # "codes"
        BY <2>1, <2>3, <3>2 DEF Inv, Fits
      <3> QED
        BY <3>1, <3>2
    <2>6. Ahead' /\ ReceiptFits'
      BY <1>0, <2>1, <2>3, <2>4, <2>5 DEF Ahead, ReceiptFits, rows, journal
    <2>7. \A p \in Ops : ops[p].state = "applied" \/ (served.receipt = p /\ served.revision = delivery + 1)
                         => ops[p].state = "applied"
      BY <1>0, <2>3 DEF Level
    <2> QED
      BY <1>0, <1>1, <2>1, <2>3, <2>6, <2>7 DEF journal
  <1> QED
    BY <1>2, <1>3

\* Confirming a mutation makes D1 say what it was expected to say.
LEMMA PublishedShows ==
  ASSUME RowsOK, NEW m \in Mutations, m.kind = "track" => m.track \in Tracks, Published(m)
  PROVE  /\ ViewOf(game', tracks') = After(m, game, tracks)
         /\ \/ m.kind = "codes" /\ UNCHANGED rows
            \/ game'.version = game.version + 1
  <1>1. CASE m.kind = "game"
    <2>1. UNCHANGED tracks /\ game' = [on |-> m.on, stopped |-> m.stopped, version |-> game.version + 1]
      BY <1>1 DEF Published
    <2> QED
      BY <1>1, <2>1 DEF ViewOf, ShownOf, PublicOf, After, WillShow, WillBe
  <1>2. CASE m.kind = "track"
    <2>1. game' = [game EXCEPT !.version = @ + 1]
      BY <1>2 DEF Published, Bumped
    <2>2. game'.on = game.on /\ game'.stopped = game.stopped /\ game'.version = game.version + 1
      BY <2>1 DEF RowsOK
    <2>3. tracks' = [tracks EXCEPT ![m.track] = [tracks[m.track] EXCEPT !.public = m.draft, !.version = @ + 1]]
      BY <1>2 DEF Published, RowsOK
    <2>4. [tracks[m.track] EXCEPT !.public = m.draft, !.version = @ + 1].public = m.draft
      BY <1>2 DEF RowsOK
    <2>5. \A t \in Tracks : tracks'[t].public = IF t = m.track THEN m.draft ELSE tracks[t].public
      BY <1>2, <2>3, <2>4 DEF RowsOK
    <2> QED
      BY <1>2, <2>2, <2>5 DEF ViewOf, ShownOf, PublicOf, After, WillShow, WillBe
  <1>3. CASE m.kind = "codes"
    <2>1. UNCHANGED rows
      BY <1>3 DEF Published
    <2> QED
      BY <1>3, <2>1 DEF rows, ViewOf, ShownOf, PublicOf, After, WillShow, WillBe
  <1> QED
    BY <1>1, <1>2, <1>3 DEF Mutations, Kinds

LEMMA InvConfirm ==
  ASSUME TypeOK, Inv, NEW h \in Handlers, Confirm(h)
  PROVE  Inv'
  <1>0. PICK o \in Ops : o = req[h].op
    BY DEF Confirm, TypeOK, RequestsOK, RunSteps
  <1>1. /\ ops' = [ops EXCEPT ![o].state = "applied"]
        /\ delivery' = Later(delivery, ops[o].expected + 1)
        /\ UNCHANGED <<made, server, bounds>>
        /\ IF ops[o].state = "applied" THEN UNCHANGED rows ELSE Published(ops[o].mutation)
        /\ req[h].pc = "confirm"
    BY <1>0 DEF Confirm
  <1>2. ops[o].state # "unused" /\ ops[o].expected \in Nat /\ delivery \in Nat
        /\ ops[o].mutation \in Mutations
        /\ (ops[o].mutation.kind = "track" => ops[o].mutation.track \in Tracks)
    BY <1>0, <1>1 DEF TypeOK, RequestsOK, JournalOK, RunSteps
  <1>3. req'[h].pc = "idle" /\ \A k \in Handlers : k # h => req'[k] = req[k]
    BY IdleOK DEF Confirm, TypeOK, RequestsOK
  <1>4. SameOps /\ ops'[o].state = "applied" /\ \A p \in Ops \ {o} : ops'[p] = ops[p]
    BY <1>1, <1>2 DEF SameOps, TypeOK, JournalOK
  <1>5. CASE ops[o].state = "applied"
    <2>1. delivery' = delivery /\ UNCHANGED <<rows, delivery, served>>
      BY <1>1, <1>2, <1>5 DEF Later, Inv, Fits, server
    <2> QED
      BY <1>3, <1>4, <1>5, <2>1, InvStates DEF PrepareSteps
  <1>6. CASE ops[o].state # "applied"
    <2>1. served.receipt = o /\ served.revision = delivery + 1
      BY <1>0, <1>1, <1>6 DEF Inv, ConfirmFits
    <2>2. Ahead
      BY <1>2, <2>1 DEF Inv, Level
    <2>3. delivery' = delivery + 1 /\ served' = served /\ ops[o].expected = delivery
      BY <1>1, <1>2, <2>1, <2>2 DEF Ahead, Later, server
    <2>4. /\ ViewOf(game', tracks') = After(ops[o].mutation, game, tracks)
          /\ \/ ops[o].mutation.kind = "codes" /\ UNCHANGED rows
             \/ game'.version = game.version + 1
      BY <1>1, <1>2, <1>6, PublishedShows DEF TypeOK
    <2>5. Level'
      BY <2>1, <2>2, <2>3, <2>4, ViewIsOf DEF Ahead, Level
    <2>6. ReceiptFits'
      BY <1>2, <1>4, <2>1, <2>3 DEF ReceiptFits, SameOps
    <2>7. \A p \in Ops : Fits(p)'
      BY <1>2, <1>4, <2>3 DEF Inv, Fits, TypeOK, JournalOK, SameOps
    <2>8. ASSUME NEW k \in Handlers PROVE ReadFits(k)'
      <3>1. CASE UNCHANGED rows
        BY <1>3, <3>1, ReadStays DEF Inv, PrepareSteps
      <3>2. CASE game'.version = game.version + 1
        <4>1. game.version \in Nat /\ req[k].seen \in Nat
          BY DEF TypeOK, RowsOK, RequestsOK
        <4> QED
          BY <1>3, <3>2, <4>1 DEF Inv, ReadFits
      <3> QED
        BY <2>4, <3>1, <3>2
    <2>9. \A k \in Handlers : ConfirmFits(k)'
      BY <1>2, <1>3, <1>4, <2>1, <2>3 DEF Inv, ConfirmFits, TypeOK, RequestsOK, RunSteps
    <2> QED
      BY <2>5, <2>6, <2>7, <2>8, <2>9 DEF Inv
  <1> QED
    BY <1>5, <1>6

\* The steps of the requests and of the server that do not confirm.
LEMMA InvRun ==
  ASSUME TypeOK, Inv, NEW h \in Handlers,
         \/ Send(h) \/ Status(h) \/ Apply(h) \/ ApplyUnanswered(h) \/ Refused(h)
         \/ Unanswered(h) \/ Give(h) \/ Killed(h)
         \/ \E o \in Ops : Retry(h, o)
  PROVE  Inv'
  <1>0. req[h].pc \in RunSteps => req[h].op \in Ops /\ ops[req[h].op].state # "unused"
    BY DEF TypeOK, RequestsOK
  <1>1. CASE Send(h)
    <2>1. SameOps /\ UNCHANGED <<rows, delivery, served>>
      BY <1>0, <1>1, SetStateOK DEF Send, TypeOK, RunSteps, States, server
    <2>2. \A o \in Ops : ops'[o].state = "applied" => ops[o].state = "applied"
      BY <1>0, <1>1 DEF Send, SetState, TypeOK, JournalOK, RunSteps
    <2>3. /\ \A k \in Handlers : k # h => req'[k] = req[k]
          /\ req'[h].pc \notin PrepareSteps \cup {"confirm"}
      BY <1>1, IdleOK DEF Send, TypeOK, RequestsOK, PrepareSteps
    <2> QED
      BY <2>1, <2>2, <2>3, InvStates
  <1>2. CASE Status(h)
    <2>1. SameOps /\ ops' = ops /\ UNCHANGED <<rows, delivery, served, journal>>
      BY <1>2, NoChangeOK DEF Status, TypeOK, journal, server
    <2>2. (\A o \in Ops : Fits(o)') /\ (Level \/ Ahead)' /\ ReceiptFits'
      BY <2>1, StatesOnly
    <2>3. /\ \A k \in Handlers : k # h => req'[k] = req[k]
          /\ req'[h].op = req[h].op
          /\ (req'[h].pc = "confirm" /\ served.receipt = req[h].op) \/ req'[h].pc = "apply"
      BY <1>2 DEF Status, Goto, TypeOK, RequestsOK
    <2>4. \A k \in Handlers : ReadFits(k)'
      BY <2>1, <2>3, ReadStays DEF Inv, PrepareSteps
    <2>5. served.receipt = req[h].op => ops[req[h].op].state = "applied" \/ served.revision = delivery + 1
      BY <1>0, <1>2 DEF Status, RunSteps, Inv, Level, Ahead, ReceiptFits, Ops
    <2>6. \A k \in Handlers : ConfirmFits(k)'
      BY <2>1, <2>3, <2>5 DEF Inv, ConfirmFits
    <2> QED
      BY <2>2, <2>4, <2>6 DEF Inv
  <1>3. CASE Apply(h) \/ (ApplyUnanswered(h) /\ Land(req[h].op))
    <2>0. PICK o \in Ops : o = req[h].op /\ ops[o].state # "unused"
      BY <1>0, <1>3 DEF Apply, ApplyUnanswered, RunSteps
    <2>1. Land(o) /\ UNCHANGED <<rows, journal>>
      BY <1>3, <2>0 DEF Apply, ApplyUnanswered
    <2>2. /\ \A k \in Handlers : k # h => req'[k] = req[k]
          /\ req'[h].op = o
          /\ (req'[h].pc = "confirm" /\ served'.receipt = o) \/ req'[h].pc \in {"failed", "unknown"}
      BY <1>3, <2>0 DEF Apply, ApplyUnanswered, Goto, TypeOK, RequestsOK
    <2>3. \A k \in Handlers : ReadFits(k)'
      BY <2>1, <2>2, ReadStays DEF Inv, PrepareSteps
    <2>4. (\A p \in Ops : Fits(p)') /\ (Level \/ Ahead)' /\ ReceiptFits'
      BY <2>0, <2>1, InvLand
    <2>5. \A k \in Handlers : ConfirmFits(k)'
      <3>1. ConfirmFits(h)'
        BY <2>0, <2>1, <2>2, InvLand DEF ConfirmFits
      <3>2. ASSUME NEW k \in Handlers, k # h, req[k].pc = "confirm"
            PROVE  ConfirmFits(k)'
        <4>1. req'[k] = req[k] /\ req[k].op \in Ops
          BY <2>2, <3>2 DEF TypeOK, RequestsOK, RunSteps
        <4>2. ops[req[k].op].state = "applied"
                  \/ (served.receipt = req[k].op /\ served.revision = delivery + 1)
          BY <3>2 DEF Inv, ConfirmFits
        <4> QED
          BY <2>0, <2>1, <4>1, <4>2, InvLand DEF ConfirmFits
      <3> QED
        BY <2>2, <3>1, <3>2 DEF ConfirmFits
    <2> QED
      BY <2>3, <2>4, <2>5 DEF Inv
  <1>4. CASE (ApplyUnanswered(h) /\ ~Land(req[h].op)) \/ Refused(h) \/ Unanswered(h) \/ Killed(h)
    <2>1. UNCHANGED <<rows, journal, served>>
      BY <1>4 DEF ApplyUnanswered, Refused, Unanswered, Killed, server
    <2>2. SameOps /\ ops' = ops /\ UNCHANGED <<rows, delivery, served>>
      BY <2>1, NoChangeOK DEF TypeOK, journal
    <2>3. /\ \A k \in Handlers : k # h => req'[k] = req[k]
          /\ req'[h].pc \notin PrepareSteps \cup {"confirm"}
      BY <1>4, IdleOK DEF ApplyUnanswered, Refused, Unanswered, Killed, Goto, TypeOK, RequestsOK, PrepareSteps
    <2> QED
      BY <2>2, <2>3, InvStates
  <1>5. CASE Give(h)
    <2>1. SameOps /\ UNCHANGED <<rows, delivery, served>>
      BY <1>0, <1>5, SetStateOK DEF Give, TypeOK, RunSteps, States, server
    <2>2. \A o \in Ops : ops'[o].state = "applied" => ops[o].state = "applied"
      BY <1>0, <1>5 DEF Give, SetState, TypeOK, JournalOK, RunSteps
    <2>3. /\ \A k \in Handlers : k # h => req'[k] = req[k]
          /\ req'[h].pc \notin PrepareSteps \cup {"confirm"}
      BY <1>5, IdleOK DEF Give, TypeOK, RequestsOK, PrepareSteps
    <2> QED
      BY <2>1, <2>2, <2>3, InvStates
  <1>6. ASSUME NEW o \in Ops, Retry(h, o)
        PROVE  Inv'
    <2>1. SameOps /\ UNCHANGED <<rows, delivery, served>>
      BY <1>6, SetStateOK DEF Retry, TypeOK, States, server
    <2>2. \A p \in Ops : ops'[p].state = "applied" => ops[p].state = "applied"
      BY <1>6 DEF Retry, SetState, TypeOK, JournalOK
    <2>3. /\ \A k \in Handlers : k # h => req'[k] = req[k]
          /\ req'[h].pc \notin PrepareSteps \cup {"confirm"}
      BY <1>6, IdleOK DEF Retry, TypeOK, RequestsOK, PrepareSteps
    <2> QED
      BY <2>1, <2>2, <2>3, InvStates
  <1> QED
    BY <1>1, <1>2, <1>3, <1>4, <1>5, <1>6

LEMMA InvLate ==
  ASSUME TypeOK, Inv, NEW o \in Ops, LandLate(o) \/ Expire(o)
  PROVE  Inv'
  <1>1. UNCHANGED <<rows, journal, req>>
    BY DEF LandLate, Expire
  <1>2. \A h \in Handlers : ReadFits(h)'
    BY <1>1, ReadStays DEF Inv
  <1>3. CASE LandLate(o)
    <2>1. Land(o) /\ ops[o].state # "unused"
      BY <1>3 DEF LandLate, TypeOK, ServerOK
    <2>2. ASSUME NEW k \in Handlers, req[k].pc = "confirm"
          PROVE  ConfirmFits(k)'
      <3>1. req'[k] = req[k] /\ req[k].op \in Ops
        BY <1>1, <2>2 DEF TypeOK, RequestsOK, RunSteps
      <3>2. ops[req[k].op].state = "applied"
                \/ (served.receipt = req[k].op /\ served.revision = delivery + 1)
        BY <2>2 DEF Inv, ConfirmFits
      <3> QED
        BY <1>1, <2>1, <3>1, <3>2, InvLand DEF ConfirmFits
    <2>3. \A k \in Handlers : ConfirmFits(k)'
      BY <1>1, <2>2 DEF ConfirmFits
    <2> QED
      BY <1>1, <1>2, <2>1, <2>3, InvLand DEF Inv
  <1>4. CASE Expire(o)
    <2>1. SameOps /\ ops' = ops /\ UNCHANGED <<rows, delivery, served>>
      BY <1>1, <1>4, NoChangeOK DEF Expire, TypeOK, journal
    <2>2. (\A p \in Ops : Fits(p)') /\ (Level \/ Ahead)' /\ ReceiptFits'
      BY <2>1, StatesOnly
    <2> QED
      BY <1>1, <1>2, <2>1, <2>2 DEF Inv, ConfirmFits
  <1> QED
    BY <1>3, <1>4

LEMMA InvStep == TypeOK /\ Inv /\ [Next]_vars => Inv'
  <1> SUFFICES ASSUME TypeOK, Inv, [Next]_vars PROVE Inv'
    OBVIOUS
  <1>1. CASE UNCHANGED vars
    <2>1. /\ UNCHANGED <<rows, journal, server, req>>
      BY <1>1 DEF vars
    <2>2. SameOps /\ ops' = ops /\ UNCHANGED <<rows, delivery, served>>
      BY <2>1, NoChangeOK DEF TypeOK, journal, server
    <2>3. (\A p \in Ops : Fits(p)') /\ (Level \/ Ahead)' /\ ReceiptFits'
      BY <2>2, StatesOnly
    <2>4. \A h \in Handlers : ReadFits(h)'
      BY <2>1, ReadStays DEF Inv
    <2> QED
      BY <2>1, <2>2, <2>3, <2>4 DEF Inv, ConfirmFits
  <1>2. CASE Next
    BY <1>2, InvEdit, InvLate, InvRead, InvPrepare, InvRun, InvConfirm DEF Next, PrepareStep, RunStep
  <1> QED
    BY <1>1, <1>2

\* Whatever is lost on the way, D1 and the public agree, or the delivery server holds the
\* receipt of the one operation D1 lacks.
THEOREM PublicIsConfirmed == Spec => []LiveIsConfirmed
  <1>1. Inv => LiveIsConfirmed
    BY DEF Inv, LiveIsConfirmed, Level, Ahead
  <1> QED
    BY <1>1, InitOK, InvInit, TypeStep, InvStep, PTL DEF Spec

LandOther ==
    LET o == served'.receipt IN
    /\ (served.snapshot = Off) # (served'.snapshot = Off) => ops[o].mutation.kind = "game"
    /\ served.snapshot # Off /\ served'.snapshot # Off =>
           \A t \in Tracks : served.snapshot[t] # served'.snapshot[t] =>
                                 ops[o].mutation.track = t

LEMMA OthersStep == TypeOK /\ Inv /\ [Next]_vars => LandOther
  <1> SUFFICES ASSUME TypeOK, Inv, [Next]_vars PROVE LandOther
    OBVIOUS
  <1>0. CASE served' = served
    BY <1>0 DEF LandOther
  <1>1. SUFFICES ASSUME served' # served, Next PROVE LandOther
    BY <1>0 DEF vars, server
  <1>2. PICK o \in Ops : Land(o) /\ ops[o].state # "unused"
    <2>1. \A h \in Handlers : req[h].pc \in RunSteps => req[h].op \in Ops /\ ops[req[h].op].state # "unused"
      BY DEF TypeOK, RequestsOK
    <2>2. \/ \E p \in Ops : LandLate(p)
          \/ \E h \in Handlers : Apply(h) \/ (ApplyUnanswered(h) /\ Land(req[h].op))
      BY <1>1 DEF Next, PrepareStep, RunStep, EditTrack, Expire, AskGame, AskTrack, AskCodes,
                  ReadGame, ReadTracks, Prepare, Send, Status, ApplyUnanswered, Refused, Unanswered,
                  Give, Confirm, Killed, Retry, server
    <2> QED
      BY <2>1, <2>2 DEF LandLate, Apply, ApplyUnanswered, RunSteps, TypeOK, ServerOK
  <1>3. /\ served'.receipt = o
        /\ served'.snapshot = IF ops[o].mutation.kind = "codes" THEN served.snapshot ELSE ops[o].payload
        /\ served.revision = ops[o].expected
    BY <1>1, <1>2 DEF Land, Accepts
  <1>4. /\ delivery \in Nat /\ served.revision \in Nat
        /\ ops[o].mutation \in Mutations /\ ops[o].expected \in Nat
    BY DEF TypeOK, JournalOK, ServerOK
  <1>5. Level /\ ops[o].expected = delivery /\ served.snapshot = ViewOf(game, tracks)
    BY <1>2, <1>3, <1>4, ViewIsOf DEF Inv, Level, Ahead, Fits
  <1>6. CASE ops[o].mutation.kind = "codes"
    BY <1>3, <1>6 DEF LandOther
  <1>7. CASE ops[o].mutation.kind \in {"game", "track"}
    <2>1. served'.snapshot = After(ops[o].mutation, game, tracks)
      BY <1>2, <1>3, <1>5, <1>7 DEF Inv, Fits
    <2>2. CASE ShownOf(game) /\ WillShow(ops[o].mutation, game)
      <3>1. /\ served.snapshot = PublicOf(tracks)
            /\ served'.snapshot = WillBe(ops[o].mutation, tracks)
        BY <1>5, <2>1, <2>2 DEF ViewOf, After
      <3>2. /\ PublicOf(tracks) # Off /\ WillBe(ops[o].mutation, tracks) # Off
        <4>1. PublicOf(tracks) \in Contents
          BY DEF PublicOf, Contents, TypeOK, RowsOK
        <4>2. WillBe(ops[o].mutation, tracks) \in Contents
          BY <1>4 DEF WillBe, Contents, TypeOK, RowsOK, Mutations
        <4> QED
          BY <4>1, <4>2, OffAssumption
      <3>3. \A t \in Tracks : t # ops[o].mutation.track =>
                WillBe(ops[o].mutation, tracks)[t] = PublicOf(tracks)[t]
        BY DEF WillBe, PublicOf
      <3>4. \A t \in Tracks : served.snapshot[t] # served'.snapshot[t] => ops[o].mutation.track = t
        BY <3>1, <3>3
      <3> QED
        BY <1>3, <3>1, <3>2, <3>4 DEF LandOther
    <2>3. CASE ~(ShownOf(game) /\ WillShow(ops[o].mutation, game))
      <3>1. ops[o].mutation.kind = "game" \/ (~ShownOf(game) /\ ~WillShow(ops[o].mutation, game))
        BY <1>7, <2>3 DEF WillShow
      <3> QED
        BY <1>3, <1>5, <2>1, <2>3, <3>1 DEF ViewOf, After, LandOther
    <2> QED
      BY <2>2, <2>3
  <1> QED
    BY <1>3, <1>4, <1>6, <1>7 DEF Mutations, Kinds

\* An operation changes only what it is about, although it carries the snapshot of the whole work.
THEOREM OthersAreKept == Spec => OthersKept
  <1>1. TypeOK /\ Inv /\ [Next]_vars =>
            [LandOther]_vars
    BY OthersStep
  <1> QED
    BY <1>1, InitOK, InvInit, TypeStep, InvStep, PTL DEF Spec, OthersKept, LandOther

=============================================================================
