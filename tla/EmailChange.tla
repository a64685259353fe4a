----------------------------- MODULE EmailChange -----------------------------
(***************************************************************************)
(* The change of the e-mail address of one LT application, and the mail    *)
(* that carries its link: services/lt-api/src/email_change.rs with the     *)
(* triggers of migration 0040, the queue and the dispatcher of             *)
(* services/lt-api/src/mail.rs and services/lt-mail/src, and the PHP relay *)
(* that calls mail().                                                      *)
(*                                                                         *)
(* An operation of the staff is one D1 batch that takes effect only when   *)
(* the versions it names are the current ones, so here it is one action on *)
(* the current request, and a repeated or a stale operation is no step.    *)
(* Dispatchers run beside the operations and beside each other: each       *)
(* statement of theirs is a step of its own, the link may be superseded    *)
(* between any two of them, the worker may be killed, its lease may lapse, *)
(* and the relay may act on a request whose sender stopped waiting.        *)
(*                                                                         *)
(* Time is what it ends: an hour for a link (and for its outbox row and    *)
(* its job, which expire with it), two minutes for a lease.  The delay     *)
(* before a retry is not waited for.  Left out: the mail of other kinds,   *)
(* which has no link, the mode of the dispatcher, sessions, audit rows,    *)
(* the other applications of the event, and the retention of an event.     *)
(***************************************************************************)
EXTENDS Naturals

CONSTANTS
    Addresses, Original,  \* the addresses, and the one the application starts with
    Workers,              \* dispatchers
    MaxAttempts,          \* tries of a job: 5 in the code
    MaxRequests,          \* bound on the requests of the application
    MaxLinks              \* bound on the links mailed

ASSUME OriginalAssumption == Original \in Addresses
ASSUME BoundsAssumption ==
    MaxAttempts \in Nat \ {0} /\ MaxRequests \in Nat /\ MaxLinks \in Nat

Requests == 1..MaxRequests
Links == 1..MaxLinks
Attempts == 0..MaxAttempts

VARIABLES
    email,     \* lt_applications.email
    event,     \* lt_events.state, as far as it allows a change
    requests,  \* lt_email_changes
    current,   \* the request with current=1; the earlier ones are cancelled
    links,     \* lt_email_change_tokens, with the expiry of their outbox rows
    made,      \* how many of them there are
    outbox,    \* lt_outbox.state of the mail of each link
    jobs,      \* lt_mail_jobs
    workers,   \* the dispatchers
    wire,      \* requests to the relay it has not handled
    receipts,  \* the receipt files of the relay
    mailed     \* the links handed to mail()

change == <<email, event, requests, current, links, made>>
queue == <<outbox, jobs>>
relay == <<wire, receipts, mailed>>
vars == <<change, queue, workers, relay>>

RequestStates ==
    {"unused", "investigating", "verificationPending", "verified", "confirmed", "cancelled"}
LinkStates == {"unused", "live", "over", "dead", "used"}
Settled == {"sent", "failed", "uncertain", "expired"}
JobStates == {"none", "pending", "leased"} \cup Settled
Answers == {"accepted", "temporary", "permanent", "uncertain"}

Unused == [state |-> "unused", old |-> Original, new |-> Original, link |-> 0]
NoJob == [state |-> "none", url |-> FALSE, attempts |-> 0, lease |-> FALSE]
Idle == [pc |-> "idle", link |-> 0, attempt |-> 0, answer |-> "uncertain"]

Init ==
    /\ email = Original /\ event = "open"
    /\ requests = [r \in Requests |-> Unused] /\ current = 0
    /\ links = [l \in Links |-> [state |-> "unused", request |-> 0]] /\ made = 0
    /\ outbox = [l \in Links |-> "none"]
    /\ jobs = [l \in Links |-> NoJob]
    /\ workers = [w \in Workers |-> Idle]
    /\ wire = {} /\ receipts = [l \in Links |-> "none"] /\ mailed = {}

-----------------------------------------------------------------------------
(* The operations of the staff, and the link. *)

\* Links of the requests R that were not used.
Outstanding(R) == {l \in Links : links[l].request \in R /\ links[l].state \in {"live", "over"}}

\* The statements that expire links.
Superseded(L) == [l \in Links |-> IF l \in L THEN [links[l] EXCEPT !.state = "dead"] ELSE links[l]]

\* The trigger lt_change_token_expiry: what expires or is used leaves no link in its job.
Erased(L) ==
    [l \in Links |-> IF l \in L /\ jobs[l].state # "none"
                     THEN [jobs[l] EXCEPT !.state = "expired", !.url = FALSE]
                     ELSE jobs[l]]

\* Investigate: the staff checked who asks, and names the new address.
Investigate(new) ==
    /\ event = "open" /\ new # email /\ current < MaxRequests
    /\ requests' = [r \in Requests |->
            IF r = current THEN [requests[r] EXCEPT !.state = "cancelled"]
            ELSE IF r = current + 1
                 THEN [state |-> "investigating", old |-> email, new |-> new, link |-> 0]
            ELSE requests[r]]
    /\ current' = current + 1
    /\ links' = Superseded(Outstanding({current}))
    /\ jobs' = Erased(Outstanding({current}))
    /\ UNCHANGED <<email, event, made, outbox, workers, relay>>

\* The request a guarded operation acts on.
Stands == event = "open" /\ current > 0 /\ requests[current].old = email

\* SendVerification: a new link, mailed to the new address; earlier ones are dead.
SendVerification ==
    /\ Stands /\ requests[current].state \in {"investigating", "verificationPending"}
    /\ made < MaxLinks
    /\ made' = made + 1
    /\ links' = [Superseded(Outstanding({current})) EXCEPT ![made + 1] = [state |-> "live", request |-> current]]
    /\ requests' = [requests EXCEPT ![current].state = "verificationPending",
                                    ![current].link = made + 1]
    /\ outbox' = [outbox EXCEPT ![made + 1] = "pending"]
    /\ jobs' = Erased(Outstanding({current}))
    /\ UNCHANGED <<email, event, current, workers, relay>>

\* Mutant: the staff may confirm what they investigated.
Checked == requests[current].state \in {"investigating", "verificationPending", "verified"}

\* The part of request_guard that is confirm's.
Verified == requests[current].state = "verified"

\* Confirm: the application takes the new address.
Confirm ==
    /\ Stands /\ Verified
    /\ email' = requests[current].new
    /\ requests' = [requests EXCEPT ![current].state = "confirmed"]
    /\ links' = Superseded(Outstanding({current}))
    /\ jobs' = Erased(Outstanding({current}))
    /\ UNCHANGED <<event, current, made, outbox, workers, relay>>

\* verify: whoever reads the mail opens link l; the trigger lt_change_token_used marks the request.
Verify(l) ==
    /\ l \in mailed /\ links[l].state = "live"
    /\ Stands /\ links[l].request = current
    /\ requests[current].link = l /\ requests[current].state = "verificationPending"
    /\ links' = [links EXCEPT ![l].state = "used"]
    /\ requests' = [requests EXCEPT ![current].state = "verified"]
    /\ jobs' = Erased({l})
    /\ UNCHANGED <<email, event, current, made, outbox, workers, relay>>

\* The event is cancelled: trigger lt_change_event_cancel.
CancelEvent ==
    /\ event = "open" /\ event' = "cancelled"
    /\ requests' = [r \in Requests |->
            IF r = current /\ requests[r].state # "confirmed"
            THEN [requests[r] EXCEPT !.state = "cancelled"] ELSE requests[r]]
    /\ links' = Superseded(Outstanding(Requests))
    /\ jobs' = Erased(Outstanding(Requests))
    /\ UNCHANGED <<email, current, made, outbox, workers, relay>>

\* The hour of link l is over.
HourPasses(l) ==
    /\ links[l].state = "live"
    /\ links' = [links EXCEPT ![l].state = "over"]
    /\ UNCHANGED <<email, event, requests, current, made, queue, workers, relay>>

-----------------------------------------------------------------------------
(* The dispatcher. *)

Become(w, worker) == workers' = [workers EXCEPT ![w] = worker]
At(pc, l, n) == [pc |-> pc, link |-> l, attempt |-> n, answer |-> "uncertain"]

Over == {l \in Links : links[l].state \notin {"unused", "live"}}

\* scrub_statements, run by every request through reconcile.
Scrub ==
    /\ Erased(Over) # jobs
    /\ jobs' = Erased(Over)
    /\ UNCHANGED <<change, outbox, workers, relay>>

Waiting == {l \in Links : outbox[l] = "pending" /\ links[l].state = "live"}

\* enqueue_pending reads the oldest row that has no job.
StartDispatch(w) ==
    LET new == {l \in Waiting : jobs[l].state = "none"} IN
    /\ workers[w].pc = "idle"
    /\ IF new = {} THEN Become(w, At("sweep", 0, 0))
       ELSE \E l \in new : (\A k \in new : l <= k) /\ Become(w, At("enqueue", l, 0))
    /\ UNCHANGED <<change, queue, relay>>

\* Mutant: the insertion does not look at the outbox row again.
QueueableAsRead(l) == links[l].state # "over" /\ jobs[l].state = "none"

\* enqueue: the conditions of its INSERT ... SELECT, and the clock.
Queueable(l) == l \in Waiting /\ jobs[l].state = "none"

Enqueue(w) ==
    LET l == workers[w].link IN
    /\ workers[w].pc = "enqueue"
    /\ jobs' = [jobs EXCEPT ![l] = IF Queueable(l) THEN [NoJob EXCEPT !.state = "pending", !.url = TRUE]
                                   ELSE @]
    /\ Become(w, At("sweep", 0, 0))
    /\ UNCHANGED <<change, outbox, relay>>

\* Mutant: a job whose lease lapsed is tried again.
LapsedAgain == "pending"

\* What becomes of a job whose worker did not answer in time.
Lapsed == "uncertain"

\* dispatch_one, its first two statements: lapsed leases, then expired jobs.
Swept(l) ==
    IF jobs[l].state = "none" \/ (jobs[l].state = "leased" /\ jobs[l].lease) THEN jobs[l]
    ELSE IF l \in Over THEN [jobs[l] EXCEPT !.state = "expired", !.url = FALSE]
    ELSE IF jobs[l].state = "leased" THEN [jobs[l] EXCEPT !.state = Lapsed]
    ELSE jobs[l]

Sweep(w) ==
    /\ workers[w].pc = "sweep"
    /\ jobs' = [l \in Links |-> Swept(l)]
    /\ Become(w, At("claim", 0, 0))
    /\ UNCHANGED <<change, outbox, relay>>

\* The claim; the attempt's number stands for its fence, which no other attempt has.
Claim(w) ==
    LET due == {l \in Waiting : jobs[l].state = "pending"} IN
    /\ workers[w].pc = "claim"
    /\ \/ /\ due = {} /\ Become(w, Idle) /\ jobs' = jobs
       \/ \E l \in due :
            /\ jobs' = [jobs EXCEPT ![l].state = "leased", ![l].attempts = @ + 1, ![l].lease = TRUE]
            /\ Become(w, At("check", l, jobs[l].attempts + 1))
    /\ UNCHANGED <<change, outbox, relay>>

\* The worker's attempt still holds its job.
Holds(w) ==
    LET l == workers[w].link IN
    jobs[l].state = "leased" /\ jobs[l].attempts = workers[w].attempt

\* The job is read again before it is sent, then posted to the relay.
Check(w) ==
    LET l == workers[w].link IN
    /\ workers[w].pc = "check"
    /\ \/ /\ ~(Holds(w) /\ outbox[l] = "pending")
          /\ Become(w, Idle) /\ UNCHANGED <<jobs, wire>>
       \/ /\ Holds(w) /\ outbox[l] = "pending" /\ l \in Over
          /\ jobs' = [jobs EXCEPT ![l].state = "expired", ![l].url = FALSE]
          /\ Become(w, Idle) /\ wire' = wire
       \/ /\ Holds(w) /\ outbox[l] = "pending" /\ l \notin Over /\ ~jobs[l].lease
          /\ jobs' = [jobs EXCEPT ![l].state = "uncertain"]
          /\ Become(w, Idle) /\ wire' = wire
       \/ /\ Holds(w) /\ outbox[l] = "pending" /\ l \notin Over /\ jobs[l].lease
          /\ wire' = wire \cup {[link |-> l, attempt |-> workers[w].attempt]}
          /\ Become(w, At("wait", l, workers[w].attempt)) /\ jobs' = jobs
    /\ UNCHANGED <<change, outbox, receipts, mailed>>

\* No answer, or none that can be read.
NoAnswer(w) ==
    /\ workers[w].pc = "wait"
    /\ Become(w, [workers[w] EXCEPT !.pc = "record"])
    /\ UNCHANGED <<change, queue, relay>>

Final == [accepted |-> "sent", permanent |-> "failed", uncertain |-> "uncertain",
          temporary |-> "failed"]

\* Mutant: one try too many.
DecidedLate(l, answer, n) ==
    IF links[l].state = "over" THEN {"expired"}
    ELSE {Final[answer]} \cup (IF answer = "temporary" /\ n <= MaxAttempts THEN {"pending"} ELSE {})

\* decide: what the answer makes of the job.  The time of a retry may be too late for the link.
Decided(l, answer, n) ==
    IF links[l].state = "over" THEN {"expired"}
    ELSE {Final[answer]} \cup (IF answer = "temporary" /\ n < MaxAttempts THEN {"pending"} ELSE {})

\* Mutant: the answer is recorded for a job that is not the attempt's any more.
ResultAlways(w, state) == [jobs EXCEPT ![workers[w].link].state = state]

\* The first statement of the last batch, under the fence.
Result(w, state) == IF Holds(w) THEN [jobs EXCEPT ![workers[w].link].state = state] ELSE jobs

\* The second one: the outbox row follows a job this attempt sent.
Marked(w, state) ==
    IF Holds(w) /\ state = "sent" THEN [outbox EXCEPT ![workers[w].link] = "sent"] ELSE outbox

\* The answer is recorded.
Record(w) ==
    /\ workers[w].pc = "record"
    /\ \E state \in Decided(workers[w].link, workers[w].answer, workers[w].attempt) :
            jobs' = Result(w, state) /\ outbox' = Marked(w, state)
    /\ Become(w, Idle)
    /\ UNCHANGED <<change, relay>>

\* Two minutes of the lease of job l are over.
LeaseLapses(l) ==
    /\ jobs[l].state = "leased" /\ jobs[l].lease
    /\ jobs' = [jobs EXCEPT ![l].lease = FALSE]
    /\ UNCHANGED <<change, outbox, workers, relay>>

\* A dispatcher is killed.
Stopped(w) ==
    /\ workers[w].pc # "idle"
    /\ Become(w, Idle)
    /\ UNCHANGED <<change, queue, relay>>

-----------------------------------------------------------------------------
(* The relay: one request at a time, under its lock. *)

\* What handling the mail of link l may leave and answer.  It may be refused whatever its
\* receipt, and is when the receipt is torn, as no hash matches; the receipt may be torn as it
\* is written before the mail, or as it is changed after it.
Outcomes(l) ==
    [receipt : {receipts[l]}, sent : {FALSE}, answer : {"temporary", "permanent"}]
    \cup CASE receipts[l] = "none" ->
                 [receipt : {"torn"}, sent : {FALSE}, answer : {"temporary"}]
                 \cup [receipt : {"uncertain"}, sent : {FALSE}, answer : {"permanent", "uncertain"}]
                 \cup [receipt : {"uncertain", "torn"}, sent : {TRUE}, answer : {"uncertain"}]
                 \cup [receipt : {"accepted"}, sent : {TRUE}, answer : {"accepted"}]
           [] receipts[l] = "torn" -> {}
           [] OTHER -> [receipt : {receipts[l]}, sent : {FALSE}, answer : {receipts[l]}]

Relay(p) ==
    \E o \in Outcomes(p.link) :
        /\ wire' = wire \ {p}
        /\ receipts' = [receipts EXCEPT ![p.link] = o.receipt]
        /\ mailed' = IF o.sent THEN mailed \cup {p.link} ELSE mailed
        /\ workers' = [w \in Workers |->
                IF workers[w].pc = "wait" /\ workers[w].link = p.link /\ workers[w].attempt = p.attempt
                THEN [workers[w] EXCEPT !.pc = "record", !.answer = o.answer] ELSE workers[w]]
        /\ UNCHANGED <<change, queue>>

-----------------------------------------------------------------------------

StaffStep ==
    \/ \E a \in Addresses : Investigate(a)
    \/ SendVerification
    \/ Confirm
    \/ \E l \in Links : Verify(l)
    \/ CancelEvent

DispatchStep(w) ==
    \/ StartDispatch(w) \/ Enqueue(w) \/ Sweep(w) \/ Claim(w) \/ Check(w)
    \/ NoAnswer(w) \/ Record(w) \/ Stopped(w)

Next ==
    \/ StaffStep
    \/ \E w \in Workers : DispatchStep(w)
    \/ \E p \in wire : Relay(p)
    \/ Scrub
    \/ \E l \in Links : HourPasses(l) \/ LeaseLapses(l)

Spec == Init /\ [][Next]_vars

-----------------------------------------------------------------------------
(* Properties. *)

\* Types; a request, a link and a worker name what exists.
RequestsOK ==
    /\ email \in Addresses /\ event \in {"open", "cancelled"}
    /\ requests \in [Requests -> [state : RequestStates, old : Addresses, new : Addresses,
                                  link : 0..MaxLinks]]
    /\ current \in 0..MaxRequests
LinksOK ==
    /\ links \in [Links -> [state : LinkStates, request : 0..MaxRequests]]
    /\ made \in 0..MaxLinks
QueueOK ==
    /\ outbox \in [Links -> {"none", "pending", "sent"}]
    /\ jobs \in [Links -> [state : JobStates, url : BOOLEAN, attempts : Attempts, lease : BOOLEAN]]
WorkersOK ==
    workers \in [Workers -> [pc : {"idle", "enqueue", "sweep", "claim", "check", "wait", "record"},
                             link : 0..MaxLinks, attempt : Attempts, answer : Answers]]
RelayOK ==
    /\ wire \subseteq [link : Links, attempt : Attempts]
    /\ receipts \in [Links -> {"none", "torn", "uncertain", "accepted"}]
    /\ mailed \subseteq Links
TypeOK == RequestsOK /\ LinksOK /\ QueueOK /\ WorkersOK /\ RelayOK

\* The address of the application changes only to one whose mailbox answered: the request that
\* names it was last sent a link, that link was mailed to it, and it was opened in time.
ChangedIsVerified ==
    [][email' # email =>
        /\ current > 0 /\ requests[current].new = email' /\ requests[current].old = email
        /\ \E l \in mailed : requests[current].link = l /\ links[l].state = "used"
                             /\ links[l].request = current]_vars

\* A link that was opened or superseded is not in the queue of the mail: neither a dispatcher
\* that read it before nor a late answer puts it back.
DeadLinkErased == \A l \in Links : links[l].state \in {"dead", "used"} => ~jobs[l].url

\* The relay is asked to mail a link only when it has not mailed it, has no receipt that says
\* it may have, and no earlier request for it is on its way: what may have been sent is never
\* sent again by itself (runtime.rs 72-98, 117 with relay.php 54-81).
MayBeMailed(l) == l \in mailed \/ receipts[l] \in {"uncertain", "accepted"}
AskedOnce ==
    [][\A p \in wire' \ wire : ~MayBeMailed(p.link) /\ \A q \in wire : q.link # p.link]_vars

\* A notice marked as sent was handed to mail().
SentIsMailed == \A l \in Links : outbox[l] = "sent" => l \in mailed

\* A job that was given up, or finished, is not tried again, whatever answer comes late
\* (the fence of the last batch of dispatch_one, runtime.rs 117).
SettledIsFinal ==
    [][\A l \in Links : jobs[l].state \in Settled => jobs'[l].state \in Settled]_vars
=============================================================================
