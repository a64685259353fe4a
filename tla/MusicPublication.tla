--------------------------- MODULE MusicPublication ---------------------------
(***************************************************************************)
(* The publication of one work of PandD Music: its rows and the journal of *)
(* its publication operations in D1 (apps/admin-web/music), the requests   *)
(* that prepare and deliver them, and the delivery server that serves the  *)
(* public (server/music/src/Publications.php).                             *)
(*                                                                         *)
(* A request reads the work and its tracks, fixes the whole public         *)
(* snapshot of the work as an operation, asks the delivery server whether  *)
(* it has the operation, sends it if not, and only then writes the public  *)
(* columns of D1.  Nothing is atomic across the two stores: a request may  *)
(* be killed, an answer may be lost after the server has switched, a       *)
(* message may arrive after its sender gave up, and the staff may retry an *)
(* operation while another request still works on it.                      *)
(*                                                                         *)
(* The content of a track is the number of the draft it was published      *)
(* from, 0 when it is not public.  Order, assets and command codes of the  *)
(* tracks, permissions, the advertisement (a scope of its own) and the     *)
(* limit of 1024 receipts over all scopes are left out.                    *)
(***************************************************************************)
EXTENDS Naturals, FiniteSets

CONSTANTS
    Tracks, Handlers,
    PublicAtFirst,  \* the tracks that are public when the model starts, and the work with them
    MaxOps,      \* bound on the operations prepared
    MaxEdits,    \* bound on the drafts saved
    MaxFaults,   \* bound on kills, lost answers and refusals
    Off,         \* no public work
    None

Ops == 1..MaxOps
Drafts == 0..(1 + MaxEdits)
Contents == [Tracks -> Drafts]
Snapshots == {Off} \cup Contents

ASSUME BoundsAssumption == MaxOps \in Nat /\ MaxEdits \in Nat /\ MaxFaults \in Nat
ASSUME PublicAssumption == PublicAtFirst \subseteq Tracks
ASSUME NoneAssumption == None \notin Tracks 
ASSUME OffAssumption == \A c \in Contents : Off # c

VARIABLES
    game,      \* the row of music_games
    tracks,    \* the rows of music_tracks
    ops,       \* the rows of music_publications
    made,      \* how many of them there are
    delivery,  \* music_delivery.revision
    served,    \* current.json: revision and snapshot of the work, and its receipt
    flight,    \* operations whose message may arrive after its sender gave up
    req,       \* the requests under way
    landed,    \* the operations the delivery server has switched to
    edits, faults

rows == <<game, tracks>>
journal == <<ops, made, delivery>>
server == <<served, flight, landed>>
bounds == <<edits, faults>>
vars == <<rows, journal, server, req, bounds>>

States == {"prepared", "sending", "applied", "failed", "unknown"}
Pending == {"prepared", "sending", "unknown"}
PrepareSteps == {"game", "tracks", "prepare"}
RunSteps == {"send", "status", "apply", "confirm", "failed", "unknown"}
Kinds == {"game", "track", "codes"}

\* What an operation will write to D1: `on` and `stopped` for the work, `draft` for a track.
Mutations == [kind: Kinds, track: Tracks \cup {None}, draft: Drafts, on: BOOLEAN, stopped: BOOLEAN]

NoMutation == [kind |-> "game", track |-> None, draft |-> 0, on |-> FALSE, stopped |-> FALSE]
Unused == [state |-> "unused", expected |-> 0, payload |-> Off, assigned |-> {},
           mutation |-> NoMutation]
Idle == [pc |-> "idle", op |-> 0, mutation |-> NoMutation, seen |-> 0, trackSeen |-> 0,
         shown |-> FALSE, payload |-> Off, assigned |-> {}]

Public == [t \in Tracks |-> tracks[t].public]

\* What D1 says the public sees of the work.
View == IF game.on /\ ~game.stopped THEN Public ELSE Off

\* A work at rest: versions and revisions count from here, and the receipts of what was
\* published earlier are not asked for again.
Init ==
    /\ game = [on |-> PublicAtFirst # {}, stopped |-> FALSE, version |-> 1]
    /\ tracks = [t \in Tracks |-> [draft |-> 1, version |-> 1,
                                   public |-> IF t \in PublicAtFirst THEN 1 ELSE 0]]
    /\ ops = [o \in Ops |-> Unused]
    /\ made = 0 /\ delivery = 0
    /\ served = [revision |-> 0, snapshot |-> View, receipt |-> 0]
    /\ flight = {} /\ landed = {}
    /\ req = [h \in Handlers |-> Idle]
    /\ edits = 0 /\ faults = 0

-----------------------------------------------------------------------------
(* The rows of the work. *)

\* Mutant: the migration lost the triggers.
NotBumped(g) == g

\* The triggers music_track_revision_insert and _update: a track that changes is a change of its work.
Bumped(g) == [g EXCEPT !.version = @ + 1]

\* editTrack, with saveTrack: the draft changes, what is public does not.
EditTrack(t) ==
    /\ edits < MaxEdits
    /\ tracks' = [tracks EXCEPT ![t].draft = @ + 1, ![t].version = @ + 1]
    /\ game' = Bumped(game)
    /\ edits' = edits + 1
    /\ UNCHANGED <<journal, server, req, faults>>

-----------------------------------------------------------------------------
(* A request that prepares an operation. *)

Goto(h, pc) == req' = [req EXCEPT ![h].pc = pc]

\* Bound: a row is left for what the request will prepare.
RoomToAsk == made + Cardinality({h \in Handlers : req[h].pc \in PrepareSteps}) < MaxOps

\* publishGame and suspendGame: managedGame, then Publications.game.
AskGame(h, on, stopped) ==
    /\ req[h].pc = "idle" /\ RoomToAsk
    /\ \/ on = game.on
       \/ stopped = game.stopped /\ (on => ~game.stopped)
    /\ req' = [req EXCEPT ![h] =
           [Idle EXCEPT !.pc = "tracks", !.seen = game.version, !.shown = on /\ ~stopped,
                        !.mutation = [NoMutation EXCEPT !.on = on, !.stopped = stopped]]]
    /\ UNCHANGED <<rows, journal, server, bounds>>

\* publishTrack: the track is read first; it becomes public as its draft is, or private.
AskTrack(h, t, publish) ==
    /\ req[h].pc = "idle" /\ RoomToAsk
    /\ publish => ~game.stopped
    /\ req' = [req EXCEPT ![h] =
           [Idle EXCEPT !.pc = "game", !.trackSeen = tracks[t].version,
                        !.mutation = [NoMutation EXCEPT !.kind = "track", !.track = t,
                                                        !.draft = IF publish THEN tracks[t].draft ELSE 0]]]
    /\ UNCHANGED <<rows, journal, server, bounds>>

\* backfill: only for a work that is shown.
AskCodes(h) ==
    /\ req[h].pc = "idle" /\ RoomToAsk
    /\ game.on /\ ~game.stopped
    /\ req' = [req EXCEPT ![h] =
           [Idle EXCEPT !.pc = "tracks", !.seen = game.version,
                        !.mutation = [NoMutation EXCEPT !.kind = "codes"]]]
    /\ UNCHANGED <<rows, journal, server, bounds>>

\* Publications.track reads the work before its tracks.
ReadGame(h) ==
    /\ req[h].pc = "game"
    /\ req' = [req EXCEPT ![h].pc = "tracks", ![h].seen = game.version,
                          ![h].shown = game.on /\ ~game.stopped]
    /\ UNCHANGED <<rows, journal, server, bounds>>

\* snapshot(): what is public of every track, with the track of the mutation as it will be.
Snapshot(m, shown) ==
    IF ~shown THEN Off
    ELSE [t \in Tracks |-> IF m.kind = "track" /\ t = m.track THEN m.draft ELSE tracks[t].public]

ReadTracks(h) ==
    /\ req[h].pc = "tracks"
    /\ req' = [req EXCEPT ![h].pc = "prepare",
                          ![h].payload = Snapshot(req[h].mutation, req[h].shown),
                          ![h].assigned = IF req[h].mutation.kind = "codes"
                                          THEN {t \in Tracks : tracks[t].public # 0} ELSE {}]
    /\ UNCHANGED <<rows, journal, server, bounds>>

\* Mutant: the index leaves out 'unknown'.
IndexFreeOfSent(o) == \A p \in Ops \ {o} : ops[p].state \notin {"prepared", "sending"}

\* The partial unique index music_publication_pending lets `o` be pending.
IndexFree(o) == \A p \in Ops \ {o} : ops[p].state \notin Pending

\* The work, and the track of the mutation, are as they were when they were read.
Unchanged(h) ==
    /\ game.version = req[h].seen
    /\ req[h].mutation.kind = "track" => tracks[req[h].mutation.track].version = req[h].trackSeen

\* prepare(): the row, or CONFLICT; run() then writes 'sending'.
Prepare(h) ==
    /\ req[h].pc = "prepare"
    /\ LET o == made + 1 IN
       IF o \in Ops /\ Unchanged(h) /\ IndexFree(o)
       THEN /\ ops' = [ops EXCEPT ![o] = [state |-> "prepared", expected |-> delivery,
                                          payload |-> req[h].payload,
                                          assigned |-> req[h].assigned,
                                          mutation |-> req[h].mutation]]
            /\ made' = o
            /\ req' = [req EXCEPT ![h] = [Idle EXCEPT !.pc = "send", !.op = o]]
       ELSE /\ req' = [req EXCEPT ![h] = Idle]
            /\ UNCHANGED <<ops, made>>
    /\ UNCHANGED <<rows, delivery, server, bounds>>

-----------------------------------------------------------------------------
(* A request that delivers an operation: run(). *)

\* state(): never changes an applied operation; the index may refuse a pending state.
SetState(o, s) ==
    ops' = IF ops[o].state = "applied" \/ (s \in Pending /\ ~IndexFree(o)) THEN ops
           ELSE [ops EXCEPT ![o].state = s]

\* The row cannot be made pending: the write throws and ends the request.
Blocked(o) == ops[o].state # "applied" /\ ~IndexFree(o)

Send(h) ==
    /\ req[h].pc = "send"
    /\ SetState(req[h].op, "sending")
    /\ req' = [req EXCEPT ![h] = IF Blocked(req[h].op) THEN Idle
                                 ELSE [@ EXCEPT !.pc = "status"]]
    /\ UNCHANGED <<rows, made, delivery, server, bounds>>

\* Mutant: an operation that is being sent is left to the request that sends it.
RetryUnlessSending(h, o) ==
    /\ req[h].pc = "idle"
    /\ ops[o].state \notin {"unused", "sending"}
    /\ ~Blocked(o)
    /\ SetState(o, "sending")
    /\ req' = [req EXCEPT ![h] = [Idle EXCEPT !.pc = "status", !.op = o]]
    /\ UNCHANGED <<rows, made, delivery, server, bounds>>

\* retry(): it read the operation before it was applied, which it may be by now.
Retry(h, o) ==
    /\ req[h].pc = "idle"
    /\ ops[o].state # "unused"
    /\ ~Blocked(o)
    /\ SetState(o, "sending")
    /\ req' = [req EXCEPT ![h] = [Idle EXCEPT !.pc = "status", !.op = o]]
    /\ UNCHANGED <<rows, made, delivery, server, bounds>>

\* Publications.status: the receipt, or null.
Status(h) ==
    /\ req[h].pc = "status"
    /\ Goto(h, IF served.receipt = req[h].op THEN "confirm" ELSE "apply")
    /\ UNCHANGED <<rows, journal, server, bounds>>

\* Mutant: the server does not compare the revision.
AcceptsAny(o) ==
    ops[o].mutation.kind = "codes" =>
        served.snapshot # Off /\ \A t \in ops[o].assigned : served.snapshot[t] # 0

\* Publications.apply, for an operation the server has no receipt of.
Accepts(o) ==
    /\ served.revision = ops[o].expected
    /\ ops[o].mutation.kind = "codes" =>
           served.snapshot # Off /\ \A t \in ops[o].assigned : served.snapshot[t] # 0

Land(o) ==
    IF served.receipt # o /\ Accepts(o)
    THEN /\ served' = [revision |-> ops[o].expected + 1, receipt |-> o,
                       snapshot |-> IF ops[o].mutation.kind = "codes" THEN served.snapshot
                                    ELSE ops[o].payload]
         /\ landed' = landed \cup {o}
    ELSE UNCHANGED <<served, landed>>

\* apply(), answered: a receipt, or the refusal of an old revision.
Apply(h) ==
    /\ req[h].pc = "apply"
    /\ Land(req[h].op)
    /\ Goto(h, IF served'.receipt = req[h].op THEN "confirm" ELSE "failed")
    /\ UNCHANGED <<rows, journal, flight, bounds>>

\* apply(), unanswered: the server did nothing, or it switched, or the message is still on its way.
ApplyUnanswered(h) ==
    /\ req[h].pc = "apply"
    /\ faults < MaxFaults
    /\ faults' = faults + 1
    /\ \/ UNCHANGED server
       \/ Land(req[h].op) /\ UNCHANGED flight
       \/ flight' = flight \cup {req[h].op} /\ UNCHANGED <<served, landed>>
    /\ Goto(h, "unknown")
    /\ UNCHANGED <<rows, journal, edits>>

LandLate(o) ==
    /\ o \in flight
    /\ flight' = flight \ {o}
    /\ Land(o)
    /\ UNCHANGED <<rows, journal, req, bounds>>

\* A message of another sender is dropped, or its signature has expired when it arrives.
Expire(o) ==
    /\ o \in flight
    /\ flight' = flight \ {o}
    /\ UNCHANGED <<rows, journal, served, landed, req, bounds>>

\* The server or what stands before it answers 4xx (clock, key, size): taken as definite.
Refused(h) ==
    /\ req[h].pc \in {"status", "apply"}
    /\ faults < MaxFaults
    /\ faults' = faults + 1
    /\ Goto(h, "failed")
    /\ UNCHANGED <<rows, journal, server, edits>>

\* status() gets no answer, or confirm() fails: the result is unknown.
Unanswered(h) ==
    /\ req[h].pc \in {"status", "confirm"}
    /\ faults < MaxFaults
    /\ faults' = faults + 1
    /\ Goto(h, "unknown")
    /\ UNCHANGED <<rows, journal, server, edits>>

\* The catch of run() records what it makes of the error.
Give(h) ==
    /\ req[h].pc \in {"failed", "unknown"}
    /\ SetState(req[h].op, req[h].pc)
    /\ req' = [req EXCEPT ![h] = Idle]
    /\ UNCHANGED <<rows, made, delivery, server, bounds>>

\* What confirm() writes to the rows of the work, unless the operation is applied already.
Published(m) ==
    CASE m.kind = "game" ->
             /\ game' = [on |-> m.on, stopped |-> m.stopped, version |-> game.version + 1]
             /\ UNCHANGED tracks
      [] m.kind = "track" ->
             /\ tracks' = [tracks EXCEPT ![m.track].public = m.draft, ![m.track].version = @ + 1]
             /\ game' = Bumped(game)
      [] OTHER -> UNCHANGED rows

Later(a, b) == IF a < b THEN b ELSE a

\* confirm(): one batch.
Confirm(h) ==
    /\ req[h].pc = "confirm"
    /\ LET o == req[h].op IN
       /\ IF ops[o].state = "applied" THEN UNCHANGED rows ELSE Published(ops[o].mutation)
       /\ delivery' = Later(delivery, ops[o].expected + 1)
       /\ ops' = [ops EXCEPT ![o].state = "applied"]
    /\ req' = [req EXCEPT ![h] = Idle]
    /\ UNCHANGED <<made, server, bounds>>

\* The request is killed.
Killed(h) ==
    /\ req[h].pc # "idle"
    /\ faults < MaxFaults
    /\ faults' = faults + 1
    /\ req' = [req EXCEPT ![h] = Idle]
    /\ UNCHANGED <<rows, journal, server, edits>>

-----------------------------------------------------------------------------
PrepareStep(h) == ReadGame(h) \/ ReadTracks(h) \/ Prepare(h)
RunStep(h) ==
    Send(h) \/ Status(h) \/ Apply(h) \/ ApplyUnanswered(h) \/ Refused(h)
        \/ Unanswered(h) \/ Give(h) \/ Confirm(h)

Next ==
    \/ \E t \in Tracks : EditTrack(t)
    \/ \E o \in Ops : LandLate(o) \/ Expire(o)
    \/ \E h \in Handlers :
           \/ \E on, stopped \in BOOLEAN : AskGame(h, on, stopped)
           \/ \E t \in Tracks, publish \in BOOLEAN : AskTrack(h, t, publish)
           \/ AskCodes(h)
           \/ PrepareStep(h) \/ RunStep(h) \/ Killed(h)
           \/ \E o \in Ops : Retry(h, o)

Spec == Init /\ [][Next]_vars

\* A request that nobody kills goes on, and the staff retries an operation again as long as it
\* is not applied (docs/music/operations.md tells them to).
RetryUnapplied(o) == ops[o].state # "applied" /\ \E h \in Handlers : Retry(h, o)

FairSpec ==
    /\ Spec
    /\ \A h \in Handlers : WF_vars(PrepareStep(h) \/ RunStep(h))
    /\ \A o \in Ops : SF_vars(RetryUnapplied(o))

-----------------------------------------------------------------------------
(* What the publication promises. *)

\* Two requests may work on the same operation, but only one operation is pending.
JournalOK ==
    /\ ops \in [Ops -> [state: States \cup {"unused"}, expected: Nat, payload: Snapshots,
                        assigned: SUBSET Tracks, mutation: Mutations]]
    /\ made \in Nat /\ delivery \in Nat
    /\ \A o \in Ops : ops[o].state # "unused" <=> o <= made
    /\ \A o \in Ops : ops[o].mutation.kind = "track" => ops[o].mutation.track \in Tracks
    /\ \A o, p \in Ops : ops[o].state \in Pending /\ ops[p].state \in Pending => o = p

RowsOK ==
    /\ game \in [on: BOOLEAN, stopped: BOOLEAN, version: Nat]
    /\ tracks \in [Tracks -> [draft: Drafts, public: Drafts, version: Nat]]
    /\ edits \in 0..MaxEdits /\ faults \in 0..MaxFaults
    /\ \A t \in Tracks : tracks[t].draft <= 1 + edits

ServerOK ==
    /\ served \in [revision: Nat, snapshot: Snapshots, receipt: {0} \cup Ops]
    /\ flight \in SUBSET Ops /\ landed \in SUBSET Ops
    /\ \A o \in flight : ops[o].state # "unused"

\* A request that delivers has an operation to deliver.
RequestsOK ==
    /\ req \in [Handlers -> [pc: PrepareSteps \cup RunSteps \cup {"idle"}, op: {0} \cup Ops,
                             mutation: Mutations, seen: Nat, trackSeen: Nat, shown: BOOLEAN,
                             payload: Snapshots, assigned: SUBSET Tracks]]
    /\ \A h \in Handlers :
           /\ req[h].pc \in RunSteps => req[h].op \in Ops /\ ops[req[h].op].state # "unused"
           /\ req[h].mutation.kind = "track" => req[h].mutation.track \in Tracks

TypeOK == JournalOK /\ RowsOK /\ ServerOK /\ RequestsOK

\* D1 trails the delivery server by at most one operation, which the server has the receipt of:
\* whatever was lost on the way, asking for it recovers it (publications.ts:199-201,
\* Publications.php:66).  When D1 has caught up, the public sees exactly what D1 says is public:
\* nothing withdrawn is served and nothing shown as public is missing.
LiveIsConfirmed ==
    \/ /\ served.revision = delivery
       /\ served.snapshot = View
    \/ /\ served.revision = delivery + 1
       /\ served.receipt # 0
       /\ ops[served.receipt].state # "applied"
       /\ ops[served.receipt].expected = delivery

\* An operation carries the snapshot of the whole work, but changes only what it is about: it
\* never takes back another track, nor the publication or the stop of the work, that went live
\* while its request was preparing it (publications.ts:74, 0004_music.sql:22-24).
OthersKept ==
    [][LET o == served'.receipt IN
       /\ (served.snapshot = Off) # (served'.snapshot = Off) => ops[o].mutation.kind = "game"
       /\ served.snapshot # Off /\ served'.snapshot # Off =>
              \A t \in Tracks : served.snapshot[t] # served'.snapshot[t] =>
                                    ops[o].mutation.track = t]_vars

\* An operation that went live is confirmed in D1 in the end, whatever answers were lost and even
\* when it was recorded as refused: retrying it asks for the receipt first (publications.ts:199).
LandedIsConfirmed == \A o \in Ops : o \in landed ~> ops[o].state = "applied"

\* 'failed' is a definite refusal (docs/music/bridge-publication.md:33): the public does not see
\* the operation. It does not hold with two faults, when a refusal comes from what
\* stands before the delivery server (bridge.ts 85-103; see README).
FailedDidNotLand == \A o \in Ops : ops[o].state = "failed" => o \notin landed

=============================================================================
