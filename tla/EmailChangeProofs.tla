-------------------------- MODULE EmailChangeProofs --------------------------
(***************************************************************************)
(* For any addresses, dispatchers, links and tries: the address changes    *)
(* only to a mailbox that answered, a dead link leaves the queue, nothing  *)
(* is sent twice by itself, what is marked as sent was sent, and a job     *)
(* that was settled stays settled.                                         *)
(***************************************************************************)
EXTENDS EmailChange, TLAPS

RequestType == [state : RequestStates, old : Addresses, new : Addresses, link : 0..MaxLinks]
LinkType == [state : LinkStates, request : 0..MaxRequests]
JobType == [state : JobStates, url : BOOLEAN, attempts : Attempts, lease : BOOLEAN]
Steps == {"idle", "enqueue", "sweep", "claim", "check", "wait", "record"}
WorkerType == [pc : Steps, link : 0..MaxLinks, attempt : Attempts, answer : Answers]

\* Nothing of link l is on its way to the relay, and the relay has not mailed it.
Clean(l) == ~MayBeMailed(l) /\ \A p \in wire : p.link # l

Trying == {"check", "wait", "record"}

\* Links beyond the last one made are unused; a verified request was verified by its link.
LinksFresh == \A l \in Links : l > made => links[l].state = "unused"
VerifiedByLink ==
    current > 0 /\ requests[current].state = "verified" =>
        \E l \in mailed : /\ requests[current].link = l /\ links[l].state = "used"
                          /\ links[l].request = current

\* A job that is not there is new, one that waits has a try left, and the relay knows of
\* neither; all that is on its way for a leased job is its present attempt, and the first.
JobOK(l) ==
    /\ jobs[l].state = "none" => jobs[l] = NoJob
    /\ jobs[l].state = "pending" => jobs[l].attempts < MaxAttempts
    /\ jobs[l].state \in {"none", "pending"} => Clean(l)
    /\ jobs[l].state = "leased" =>
           \A p \in wire : p.link = l => p.attempt = jobs[l].attempts /\ ~MayBeMailed(l)
JobsOK == \A l \in Links : JobOK(l)

\* A worker that tries a job names a claimed one; an attempt has one worker, which has not
\* posted it before its check, and which the relay told truly.
Tries(w) ==
    workers[w].pc \in Trying => /\ workers[w].link \in Links
                                /\ workers[w].attempt <= jobs[workers[w].link].attempts
                                /\ jobs[workers[w].link].state # "none"
Alone(w) ==
    \A v \in Workers :
        workers[w].pc \in Trying /\ workers[v].pc \in Trying /\ v # w
            => workers[v].link # workers[w].link \/ workers[v].attempt # workers[w].attempt
Unposted(w) ==
    Holds(w) /\ (workers[w].pc = "check"
                 \/ (workers[w].pc = "record" /\ workers[w].answer = "temporary"))
        => Clean(workers[w].link)
Told(w) ==
    /\ workers[w].pc = "record" /\ workers[w].answer = "accepted" => workers[w].link \in mailed
    /\ workers[w].pc # "record" => workers[w].answer = "uncertain"
    /\ workers[w].pc = "enqueue" => workers[w].link \in Links
AttemptsOK == \A w \in Workers : Tries(w) /\ Alone(w) /\ Unposted(w) /\ Told(w)

ReceiptsOK == \A l \in Links : receipts[l] = "accepted" => l \in mailed

\* What is on its way was once claimed.
WireOK == \A p \in wire : jobs[p.link].state # "none" /\ p.attempt <= jobs[p.link].attempts

IInv ==
    /\ TypeOK /\ LinksFresh /\ VerifiedByLink /\ JobsOK /\ AttemptsOK /\ ReceiptsOK /\ WireOK
    /\ DeadLinkErased /\ SentIsMailed

-----------------------------------------------------------------------------
(* Types. *)

LEMMA Records ==
    /\ Idle \in WorkerType /\ NoJob \in JobType /\ Unused \in RequestType
    /\ \A pc \in Steps, l \in 0..MaxLinks, n \in Attempts : At(pc, l, n) \in WorkerType
  BY OriginalAssumption, BoundsAssumption
     DEF Idle, NoJob, Unused, At, WorkerType, JobType, RequestType, Steps, Answers, JobStates,
         RequestStates, Attempts

LEMMA BecomeOK ==
    ASSUME WorkersOK, NEW w \in Workers, NEW worker \in WorkerType, Become(w, worker)
    PROVE  WorkersOK'
  BY DEF WorkersOK, Become, WorkerType, Steps

\* A step of the staff, or of the clock, changes requests and links within their types.
LEMMA LinksType ==
    ASSUME LinksOK, NEW L, links' \in {links, Superseded(L)}
    PROVE  links' \in [Links -> LinkType]
  BY DEF LinksOK, Superseded, LinkType, LinkStates

LEMMA ErasedType ==
    ASSUME QueueOK, NEW L
    PROVE  Erased(L) \in [Links -> JobType]
  BY DEF QueueOK, Erased, JobType, JobStates, Settled

LEMMA InitType == Init => TypeOK
  <1> SUFFICES ASSUME Init PROVE TypeOK
    OBVIOUS
  <1>1. RequestsOK
    BY Records, OriginalAssumption, BoundsAssumption DEF Init, RequestsOK, RequestType
  <1>2. LinksOK
    BY BoundsAssumption DEF Init, LinksOK, LinkStates
  <1>3. QueueOK
    BY Records DEF Init, QueueOK, JobType
  <1>4. WorkersOK
    BY Records DEF Init, WorkersOK, WorkerType, Steps
  <1>5. RelayOK
    BY DEF Init, RelayOK
  <1>6. QED
    BY <1>1, <1>2, <1>3, <1>4, <1>5 DEF TypeOK

LEMMA RequestsType == TypeOK /\ [Next]_vars => RequestsOK'
  <1> SUFFICES ASSUME TypeOK, [Next]_vars PROVE RequestsOK'
    OBVIOUS
  <1> USE DEF TypeOK, RequestsOK
  <1>1. ASSUME NEW a \in Addresses, Investigate(a) PROVE RequestsOK'
    <2>1. current + 1 \in 0..MaxRequests
      BY <1>1, BoundsAssumption DEF Investigate
    <2>2. requests' \in [Requests -> RequestType]
      BY <1>1, BoundsAssumption DEF Investigate, RequestType, RequestStates
    <2>3. QED
      BY <1>1, <2>1, <2>2 DEF Investigate, RequestType
  <1>2. ASSUME SendVerification PROVE RequestsOK'
    <2>1. made + 1 \in 0..MaxLinks
      BY <1>2, BoundsAssumption DEF SendVerification, LinksOK
    <2>2. QED
      BY <1>2, <2>1 DEF SendVerification, RequestStates
  <1>3. ASSUME Confirm PROVE RequestsOK'
    <2>1. current \in Requests
      BY <1>3, BoundsAssumption DEF Confirm, Stands, Requests
    <2>2. QED
      BY <1>3, <2>1 DEF Confirm, RequestStates
  <1>4. ASSUME NEW l \in Links, Verify(l) PROVE RequestsOK'
    BY <1>4 DEF Verify, RequestStates
  <1>5. ASSUME CancelEvent PROVE RequestsOK'
    BY <1>5 DEF CancelEvent, RequestStates
  <1>6. ASSUME NEW w \in Workers, DispatchStep(w) PROVE RequestsOK'
    BY <1>6 DEF DispatchStep, StartDispatch, Enqueue, Sweep, Claim, Check, NoAnswer, Record,
                Stopped, change
  <1>7. ASSUME Scrub \/ \E p \in wire : Relay(p) PROVE RequestsOK'
    BY <1>7 DEF Scrub, Relay, change
  <1>8. ASSUME NEW l \in Links, HourPasses(l) \/ LeaseLapses(l) PROVE RequestsOK'
    BY <1>8 DEF HourPasses, LeaseLapses, change
  <1>9. CASE UNCHANGED vars
    BY <1>9 DEF vars, change
  <1>10. QED
    BY <1>1, <1>2, <1>3, <1>4, <1>5, <1>6, <1>7, <1>8, <1>9 DEF Next, StaffStep

LEMMA LinksTyped == TypeOK /\ [Next]_vars => LinksOK'
  <1> SUFFICES ASSUME TypeOK, [Next]_vars PROVE LinksOK'
    OBVIOUS
  <1> USE DEF TypeOK
  <1>1. ASSUME NEW a \in Addresses, Investigate(a) \/ Confirm \/ CancelEvent PROVE LinksOK'
    BY <1>1, LinksType DEF Investigate, Confirm, CancelEvent, LinksOK, LinkType
  <1>2. ASSUME SendVerification PROVE LinksOK'
    <2>1. made + 1 \in 0..MaxLinks
      BY <1>2, BoundsAssumption DEF SendVerification, LinksOK
    <2>2. Superseded(Outstanding({current})) \in [Links -> LinkType]
      BY DEF LinksOK, Superseded, LinkType, LinkStates
    <2>3. [state |-> "live", request |-> current] \in LinkType
      BY DEF LinkType, LinkStates, RequestsOK
    <2>4. QED
      BY <1>2, <2>1, <2>2, <2>3 DEF SendVerification, LinksOK, LinkType
  <1>3. ASSUME NEW l \in Links, Verify(l) \/ HourPasses(l) PROVE LinksOK'
    BY <1>3 DEF Verify, HourPasses, LinksOK, LinkStates
  <1>4. ASSUME UNCHANGED <<links, made>> PROVE LinksOK'
    BY <1>4 DEF LinksOK
  <1>5. ASSUME NEW w \in Workers, DispatchStep(w) PROVE UNCHANGED <<links, made>>
    BY <1>5 DEF DispatchStep, StartDispatch, Enqueue, Sweep, Claim, Check, NoAnswer, Record,
                Stopped, change
  <1>6. ASSUME Scrub \/ \E p \in wire : Relay(p) PROVE UNCHANGED <<links, made>>
    BY <1>6 DEF Scrub, Relay, change
  <1>7. ASSUME NEW l \in Links, LeaseLapses(l) PROVE UNCHANGED <<links, made>>
    BY <1>7 DEF LeaseLapses, change
  <1>8. CASE UNCHANGED vars
    BY <1>4, <1>8 DEF vars, change
  <1>9. QED
    BY <1>1, <1>2, <1>3, <1>4, <1>5, <1>6, <1>7, <1>8, OriginalAssumption DEF Next, StaffStep

\* What the link, the outbox row and the attempt of a dispatcher's job are.
LEMMA AttemptType ==
    ASSUME TypeOK, JobsOK, NEW l \in Links, jobs[l].state = "pending"
    PROVE  /\ jobs[l].attempts + 1 \in Attempts
           /\ [jobs EXCEPT ![l].state = "leased", ![l].attempts = @ + 1, ![l].lease = TRUE]
                  \in [Links -> JobType]
  <1>1. jobs[l].attempts \in Nat /\ jobs[l].attempts < MaxAttempts
    BY DEF TypeOK, QueueOK, JobsOK, JobOK, Attempts
  <1>2. jobs[l].attempts + 1 \in Attempts
    BY <1>1, BoundsAssumption DEF Attempts
  <1>3. jobs \in [Links -> JobType]
    BY DEF TypeOK, QueueOK, JobType
  <1>4. [jobs[l] EXCEPT !.state = "leased", !.attempts = @ + 1, !.lease = TRUE] \in JobType
    BY <1>2, <1>3 DEF JobType, JobStates
  <1>5. [jobs EXCEPT ![l].state = "leased", ![l].attempts = @ + 1, ![l].lease = TRUE]
            = [jobs EXCEPT ![l] = [jobs[l] EXCEPT !.state = "leased", !.attempts = @ + 1,
                                                  !.lease = TRUE]]
    BY <1>3 DEF JobType
  <1>6. QED
    BY <1>2, <1>3, <1>4, <1>5

LEMMA ResultType ==
    ASSUME TypeOK, NEW w \in Workers, workers[w].link \in Links, NEW state \in JobStates
    PROVE  /\ Result(w, state) \in [Links -> JobType]
           /\ Marked(w, state) \in [Links -> {"none", "pending", "sent"}]
  BY DEF TypeOK, QueueOK, Result, Marked, JobType

LEMMA DecidedType ==
    \A n : \A l \in Links, answer \in Answers : Decided(l, answer, n) \subseteq JobStates \ {"none", "leased"}
  BY DEF Decided, Final, JobStates, Settled, Answers

LEMMA QueueType == TypeOK /\ JobsOK /\ AttemptsOK /\ [Next]_vars => QueueOK'
  <1> SUFFICES ASSUME TypeOK, JobsOK, AttemptsOK, [Next]_vars PROVE QueueOK'
    OBVIOUS
  <1> USE DEF TypeOK
  <1>0. /\ outbox \in [Links -> {"none", "pending", "sent"}] /\ jobs \in [Links -> JobType]
        /\ (/\ outbox' \in [Links -> {"none", "pending", "sent"}]
            /\ jobs' \in [Links -> JobType]) => QueueOK'
    BY DEF QueueOK, JobType
  <1>1. ASSUME NEW a \in Addresses, Investigate(a) \/ Confirm \/ CancelEvent \/ Scrub
        PROVE  QueueOK'
    BY <1>0, <1>1, ErasedType DEF Investigate, Confirm, CancelEvent, Scrub
  <1>2. ASSUME SendVerification PROVE QueueOK'
    BY <1>0, <1>2, ErasedType DEF SendVerification
  <1>3. ASSUME NEW l \in Links, Verify(l) PROVE QueueOK'
    BY <1>0, <1>3, ErasedType DEF Verify
  <1>4. ASSUME NEW l \in Links, HourPasses(l) \/ LeaseLapses(l) PROVE QueueOK'
    <2>1. ASSUME HourPasses(l) PROVE QueueOK'
      BY <1>0, <2>1 DEF HourPasses, queue
    <2>2. ASSUME LeaseLapses(l) PROVE QueueOK'
      BY <1>0, <2>2 DEF LeaseLapses, JobType
    <2>3. QED
      BY <1>4, <2>1, <2>2
  <1>5. ASSUME NEW w \in Workers, StartDispatch(w) \/ NoAnswer(w) \/ Stopped(w) PROVE QueueOK'
    BY <1>0, <1>5 DEF StartDispatch, NoAnswer, Stopped, queue
  <1>6. ASSUME NEW w \in Workers, Enqueue(w) PROVE QueueOK'
    <2>1. [NoJob EXCEPT !.state = "pending", !.url = TRUE] \in JobType
      BY Records DEF NoJob, JobType, JobStates
    <2>2. jobs' \in [Links -> JobType] /\ outbox' = outbox
      BY <1>0, <1>6, <2>1 DEF Enqueue
    <2>3. QED
      BY <1>0, <2>2
  <1>7. ASSUME NEW w \in Workers, Sweep(w) PROVE QueueOK'
    <2>1. \A l \in Links : Swept(l) \in JobType
      BY <1>0 DEF Swept, JobType, JobStates, Settled, Lapsed
    <2>2. QED
      BY <1>0, <1>7, <2>1 DEF Sweep
  <1>8. ASSUME NEW w \in Workers, Claim(w) PROVE QueueOK'
    <2>1. CASE jobs' = jobs
      BY <1>0, <1>8, <2>1 DEF Claim
    <2>2. ASSUME jobs' # jobs PROVE QueueOK'
      <3>1. PICK l \in Links :
                /\ jobs[l].state = "pending"
                /\ jobs' = [jobs EXCEPT ![l].state = "leased", ![l].attempts = @ + 1,
                                        ![l].lease = TRUE]
        BY <1>8, <2>2 DEF Claim, Waiting
      <3>2. QED
        BY <1>0, <1>8, <3>1, AttemptType DEF Claim
    <2>3. QED
      BY <2>1, <2>2
  <1>9. ASSUME NEW w \in Workers, Check(w) PROVE QueueOK'
    BY <1>0, <1>9 DEF Check, JobType, JobStates, Settled
  <1>10. ASSUME NEW w \in Workers, Record(w) PROVE QueueOK'
    <2>1. workers[w].link \in Links /\ workers[w].answer \in Answers
      BY <1>10 DEF Record, AttemptsOK, Tries, Trying, WorkersOK
    <2>2. PICK state \in JobStates : jobs' = Result(w, state) /\ outbox' = Marked(w, state)
      BY <1>10, <2>1, DecidedType DEF Record
    <2>3. QED
      BY <1>0, <2>1, <2>2, ResultType
  <1>11. ASSUME NEW p \in wire, Relay(p) PROVE QueueOK'
    BY <1>0, <1>11 DEF Relay, queue
  <1>12. CASE UNCHANGED vars
    BY <1>0, <1>12 DEF vars, queue
  <1>13. QED
    BY <1>1, <1>2, <1>3, <1>4, <1>5, <1>6, <1>7, <1>8, <1>9, <1>10, <1>11, <1>12,
       OriginalAssumption DEF Next, StaffStep, DispatchStep

LEMMA WorkersTyped == TypeOK /\ JobsOK /\ AttemptsOK /\ [Next]_vars => WorkersOK'
  <1> SUFFICES ASSUME TypeOK, JobsOK, AttemptsOK, [Next]_vars PROVE WorkersOK'
    OBVIOUS
  <1> USE DEF TypeOK
  <1>0. workers \in [Workers -> WorkerType] /\ 0 \in 0..MaxLinks /\ 0 \in Attempts
        /\ \A l \in Links : l \in 0..MaxLinks
    BY BoundsAssumption DEF WorkersOK, WorkerType, Steps, Attempts, Links
  <1>1. ASSUME UNCHANGED workers PROVE WorkersOK'
    BY <1>1 DEF WorkersOK
  <1>2. ASSUME NEW a \in Addresses, Investigate(a) \/ StaffStep \/ Scrub PROVE UNCHANGED workers
    BY <1>2 DEF StaffStep, Investigate, SendVerification, Confirm, Verify, CancelEvent, Scrub
  <1>3. ASSUME NEW l \in Links, HourPasses(l) \/ LeaseLapses(l) PROVE UNCHANGED workers
    BY <1>3 DEF HourPasses, LeaseLapses
  <1>4. ASSUME NEW w \in Workers, StartDispatch(w) PROVE WorkersOK'
    <2>1. PICK worker \in WorkerType : Become(w, worker)
      BY <1>0, <1>4, Records DEF StartDispatch, Waiting, Steps
    <2>2. QED
      BY <2>1, BecomeOK
  <1>5. ASSUME NEW w \in Workers, Enqueue(w) \/ Sweep(w) PROVE WorkersOK'
    <2>1. PICK worker \in WorkerType : Become(w, worker)
      BY <1>0, <1>5, Records DEF Enqueue, Sweep, Steps
    <2>2. QED
      BY <2>1, BecomeOK
  <1>6. ASSUME NEW w \in Workers, Claim(w) PROVE WorkersOK'
    <2>1. CASE Become(w, Idle)
      BY <2>1, BecomeOK, Records
    <2>2. ASSUME ~ Become(w, Idle) PROVE WorkersOK'
      <3>1. PICK l \in Links : jobs[l].state = "pending"
                               /\ Become(w, At("check", l, jobs[l].attempts + 1))
        BY <1>6, <2>2 DEF Claim, Waiting
      <3>2. At("check", l, jobs[l].attempts + 1) \in WorkerType
        BY <1>0, <3>1, AttemptType, Records DEF Steps
      <3>3. QED
        BY <3>1, <3>2, BecomeOK
    <2>3. QED
      BY <2>1, <2>2
  <1>7. ASSUME NEW w \in Workers, Check(w) PROVE WorkersOK'
    <2>1. At("wait", workers[w].link, workers[w].attempt) \in WorkerType
      BY <1>0, Records DEF Steps, WorkerType
    <2>2. QED
      BY <1>7, <2>1, BecomeOK, Records DEF Check
  <1>8. ASSUME NEW w \in Workers, NoAnswer(w) PROVE WorkersOK'
    BY <1>8 DEF NoAnswer, Become, WorkersOK
  <1>9. ASSUME NEW w \in Workers, Record(w) \/ Stopped(w) PROVE WorkersOK'
    BY <1>9, BecomeOK, Records DEF Record, Stopped
  <1>10. ASSUME NEW p \in wire, Relay(p) PROVE WorkersOK'
    <2>1. PICK o \in Outcomes(p.link) : workers' = [w \in Workers |->
                IF workers[w].pc = "wait" /\ workers[w].link = p.link /\ workers[w].attempt = p.attempt
                THEN [workers[w] EXCEPT !.pc = "record", !.answer = o.answer] ELSE workers[w]]
      BY <1>10 DEF Relay
    <2>2. p.link \in Links
      BY DEF RelayOK
    <2>3. o.answer \in Answers
      BY <2>2 DEF Outcomes, Answers, RelayOK
    <2>4. QED
      BY <2>1, <2>3 DEF WorkersOK
  <1>11. CASE UNCHANGED vars
    BY <1>1, <1>11 DEF vars
  <1>12. QED
    BY <1>1, <1>2, <1>3, <1>4, <1>5, <1>6, <1>7, <1>8, <1>9, <1>10, <1>11,
       OriginalAssumption DEF Next, DispatchStep

LEMMA RelayType == TypeOK /\ AttemptsOK /\ [Next]_vars => RelayOK'
  <1> SUFFICES ASSUME TypeOK, AttemptsOK, [Next]_vars PROVE RelayOK'
    OBVIOUS
  <1> USE DEF TypeOK
  <1>1. ASSUME UNCHANGED relay PROVE RelayOK'
    BY <1>1 DEF relay, RelayOK
  <1>2. ASSUME StaffStep \/ Scrub PROVE UNCHANGED relay
    BY <1>2 DEF StaffStep, Investigate, SendVerification, Confirm, Verify, CancelEvent, Scrub
  <1>3. ASSUME NEW l \in Links, HourPasses(l) \/ LeaseLapses(l) PROVE UNCHANGED relay
    BY <1>3 DEF HourPasses, LeaseLapses
  <1>4. ASSUME NEW w \in Workers, DispatchStep(w), ~ Check(w) PROVE UNCHANGED relay
    BY <1>4 DEF DispatchStep, StartDispatch, Enqueue, Sweep, Claim, NoAnswer, Record, Stopped
  <1>5. ASSUME NEW w \in Workers, Check(w) PROVE RelayOK'
    <2>1. workers[w].link \in Links /\ workers[w].attempt \in Attempts
      BY <1>5 DEF Check, AttemptsOK, Tries, Trying, WorkersOK
    <2>2. [link |-> workers[w].link, attempt |-> workers[w].attempt]
              \in [link : Links, attempt : Attempts]
      BY <2>1
    <2>3. QED
      BY <1>5, <2>2 DEF Check, RelayOK
  <1>6. ASSUME NEW p \in wire, Relay(p) PROVE RelayOK'
    <2>1. p.link \in Links
      BY DEF RelayOK
    <2>2. PICK o \in Outcomes(p.link) :
              /\ wire' = wire \ {p} /\ receipts' = [receipts EXCEPT ![p.link] = o.receipt]
              /\ mailed' = IF o.sent THEN mailed \cup {p.link} ELSE mailed
      BY <1>6 DEF Relay
    <2>3. o.receipt \in {"none", "torn", "uncertain", "accepted"}
      BY <2>1 DEF Outcomes, RelayOK
    <2>4. QED
      BY <2>1, <2>2, <2>3 DEF RelayOK
  <1>7. CASE UNCHANGED vars
    BY <1>1, <1>7 DEF vars
  <1>8. QED
    BY <1>1, <1>2, <1>3, <1>4, <1>5, <1>6, <1>7 DEF Next

-----------------------------------------------------------------------------
(* The request and its link. *)

\* A link is made unused, and an opened link stays opened.
LEMMA LinksKept ==
    TypeOK /\ LinksFresh /\ [Next]_vars =>
        /\ LinksFresh'
        /\ \A l \in Links : links[l].state = "used" => links'[l] = links[l]
        /\ mailed \subseteq mailed'
  <1> SUFFICES ASSUME TypeOK, LinksFresh, [Next]_vars
               PROVE  /\ LinksFresh'
                      /\ \A l \in Links : links[l].state = "used" => links'[l] = links[l]
                      /\ mailed \subseteq mailed'
    OBVIOUS
  <1> DEFINE Kept == /\ LinksFresh'
                     /\ \A l \in Links : links[l].state = "used" => links'[l] = links[l]
                     /\ mailed \subseteq mailed'
  <1> USE DEF TypeOK, LinksOK, LinksFresh
  <1>1. ASSUME NEW L, L \in {Outstanding({current}), Outstanding(Requests)},
               links' = Superseded(L), UNCHANGED <<made, mailed>>
        PROVE  Kept
    BY <1>1 DEF Superseded, Outstanding
  <1>2. ASSUME NEW a \in Addresses, Investigate(a) \/ Confirm \/ CancelEvent PROVE Kept
    BY <1>1, <1>2 DEF Investigate, Confirm, CancelEvent, relay
  <1>3. ASSUME SendVerification PROVE Kept
    <2>1. made + 1 \in Links /\ made \in Nat /\ links[made + 1].state = "unused"
      BY <1>3, BoundsAssumption DEF SendVerification, Links
    <2>2. QED
      BY <1>3, <2>1 DEF SendVerification, relay, Superseded, Outstanding, Links
  <1>4. ASSUME NEW l \in Links, Verify(l) \/ HourPasses(l) PROVE Kept
    BY <1>4 DEF Verify, HourPasses, relay
  <1>5. ASSUME UNCHANGED <<links, made>>, mailed \subseteq mailed' PROVE Kept
    BY <1>5
  <1>6. ASSUME NEW w \in Workers, DispatchStep(w) PROVE UNCHANGED <<links, made, mailed>>
    BY <1>6 DEF DispatchStep, StartDispatch, Enqueue, Sweep, Claim, Check, NoAnswer, Record,
                Stopped, change, relay
  <1>7. ASSUME NEW p \in wire, Relay(p) PROVE UNCHANGED <<links, made>> /\ mailed \subseteq mailed'
    BY <1>7 DEF Relay, change
  <1>8. ASSUME NEW l \in Links, LeaseLapses(l) \/ Scrub \/ UNCHANGED vars
        PROVE  UNCHANGED <<links, made, mailed>>
    BY <1>8 DEF LeaseLapses, Scrub, vars, change, relay
  <1>9. CASE UNCHANGED vars
    BY <1>5, <1>9 DEF vars, change, relay
  <1>10. CASE Scrub
    BY <1>5, <1>10 DEF Scrub, change, relay
  <1>11. QED
    BY <1>2, <1>3, <1>4, <1>5, <1>6, <1>7, <1>8, <1>9, <1>10, OriginalAssumption
       DEF Next, StaffStep

LEMMA VerifiedStep == TypeOK /\ LinksFresh /\ VerifiedByLink /\ [Next]_vars => VerifiedByLink'
  <1> SUFFICES ASSUME TypeOK, LinksFresh, VerifiedByLink, [Next]_vars PROVE VerifiedByLink'
    OBVIOUS
  <1> USE DEF TypeOK, VerifiedByLink
  <1>1. ASSUME UNCHANGED <<current, requests>> PROVE VerifiedByLink'
    BY <1>1, LinksKept DEF RelayOK
  <1>2. ASSUME NEW a \in Addresses, Investigate(a) PROVE VerifiedByLink'
    <2>1. current + 1 \in Requests /\ current + 1 # current
      BY <1>2, BoundsAssumption DEF Investigate, Requests, RequestsOK
    <2>2. requests'[current'].state = "investigating"
      BY <1>2, <2>1 DEF Investigate
    <2>3. QED
      BY <2>2
  <1>3. ASSUME SendVerification \/ Confirm \/ CancelEvent PROVE VerifiedByLink'
    <2>1. current > 0 => current \in Requests
      BY DEF RequestsOK, Requests
    <2>2. current' = current
      BY <1>3 DEF SendVerification, Confirm, CancelEvent
    <2>3. current > 0 => requests'[current].state # "verified" \/ requests' = requests
                         \/ requests'[current] = requests[current]
      BY <1>3, <2>1 DEF SendVerification, Confirm, CancelEvent, RequestsOK, RequestType
    <2>4. QED
      BY <2>1, <2>2, <2>3, LinksKept DEF RelayOK
  <1>4. ASSUME NEW l \in Links, Verify(l) PROVE VerifiedByLink'
    <2>1. current > 0 /\ current \in Requests
      BY <1>4 DEF Verify, Stands, RequestsOK, Requests
    <2>2. /\ l \in mailed' /\ links'[l].state = "used" /\ links'[l].request = current'
          /\ requests'[current'].link = l
      BY <1>4, <2>1 DEF Verify, relay, LinksOK, RequestsOK
    <2>3. QED
      BY <2>2
  <1>5. ASSUME NEW w \in Workers, DispatchStep(w) PROVE UNCHANGED <<current, requests>>
    BY <1>5 DEF DispatchStep, StartDispatch, Enqueue, Sweep, Claim, Check, NoAnswer, Record,
                Stopped, change
  <1>6. ASSUME Scrub \/ \E p \in wire : Relay(p) PROVE UNCHANGED <<current, requests>>
    BY <1>6 DEF Scrub, Relay, change
  <1>7. ASSUME NEW l \in Links, HourPasses(l) \/ LeaseLapses(l)
        PROVE  UNCHANGED <<current, requests>>
    BY <1>7 DEF HourPasses, LeaseLapses, change
  <1>8. CASE UNCHANGED vars
    BY <1>1, <1>8 DEF vars, change
  <1>9. QED
    BY <1>1, <1>2, <1>3, <1>4, <1>5, <1>6, <1>7, <1>8 DEF Next, StaffStep

-----------------------------------------------------------------------------
(* Jobs, attempts and receipts. *)

\* Steps that settle jobs at most, and let workers go back to where they try nothing.
OnlySettles ==
    \A l \in Links :
        /\ jobs'[l].attempts = jobs[l].attempts /\ (jobs'[l].url => jobs[l].url)
        /\ jobs[l].state = "none" => jobs'[l] = jobs[l]
        /\ jobs'[l].state # jobs[l].state => jobs'[l].state \in Settled

WorkersRest ==
    \A w \in Workers :
        \/ workers'[w] = workers[w]
        \/ /\ workers'[w].pc \notin Trying /\ workers'[w].answer = "uncertain"
           /\ workers'[w].pc = "enqueue" => workers'[w].link \in Links

LEMMA RestOK ==
    ASSUME TypeOK, JobsOK, AttemptsOK, WireOK, OnlySettles, WorkersRest, UNCHANGED relay
    PROVE  JobsOK' /\ AttemptsOK' /\ WireOK'
  <1>0. \A l : Clean(l)' <=> Clean(l)
    BY DEF Clean, MayBeMailed, relay
  <1>1. ASSUME NEW l \in Links PROVE JobOK(l)'
    <2>1. jobs'[l].state \in {"none", "pending", "leased"} => jobs'[l].state = jobs[l].state
      BY DEF OnlySettles, Settled
    <2>2. QED
      BY <1>0, <2>1 DEF JobsOK, JobOK, OnlySettles, relay, MayBeMailed
  <1>2. \A w \in Workers : workers'[w].pc \in Trying => workers'[w] = workers[w]
    BY DEF WorkersRest
  <1>3. ASSUME NEW w \in Workers PROVE Tries(w)'
    BY <1>2 DEF AttemptsOK, Tries, OnlySettles, Settled
  <1>4. ASSUME NEW w \in Workers PROVE Alone(w)'
    BY <1>2 DEF AttemptsOK, Alone
  <1>5. ASSUME NEW w \in Workers PROVE Unposted(w)'
    <2>1. SUFFICES ASSUME Holds(w)', workers'[w].pc \in Trying,
                          \/ workers'[w].pc = "check"
                          \/ workers'[w].pc = "record" /\ workers'[w].answer = "temporary"
                   PROVE  Clean(workers[w].link)'
      BY DEF Unposted, Trying
    <2>2. workers'[w] = workers[w] /\ workers[w].link \in Links
      BY <1>2, <2>1 DEF AttemptsOK, Tries
    <2>3. Holds(w)
      BY <2>1, <2>2 DEF Holds, OnlySettles, Settled
    <2>4. QED
      BY <2>1, <2>2, <2>3 DEF AttemptsOK, Unposted, Clean, MayBeMailed, relay
  <1>6. ASSUME NEW w \in Workers PROVE Told(w)'
    BY DEF AttemptsOK, Told, WorkersRest, Trying, relay
  <1>7. WireOK'
    BY DEF WireOK, OnlySettles, relay, TypeOK, RelayOK, Settled
  <1>8. QED
    BY <1>1, <1>3, <1>4, <1>5, <1>6, <1>7 DEF JobsOK, AttemptsOK

LEMMA ErasedSettles ==
    ASSUME TypeOK, NEW L, jobs' = Erased(L)
    PROVE  OnlySettles
  BY DEF OnlySettles, Erased, TypeOK, QueueOK, Settled

LEMMA BecomeRests ==
    ASSUME TypeOK, NEW w \in Workers, NEW pc \in {"idle", "enqueue", "sweep", "claim"},
           NEW l, NEW n, Become(w, At(pc, l, n)), pc = "enqueue" => l \in Links
    PROVE  WorkersRest
  BY DEF Become, At, WorkersRest, Trying, TypeOK, WorkersOK

\* A job that nothing was done for is put into the queue.
LEMMA EnqueueOK ==
    ASSUME TypeOK, JobsOK, AttemptsOK, WireOK, NEW w \in Workers, Enqueue(w)
    PROVE  JobsOK' /\ AttemptsOK' /\ WireOK'
  <1>1. PICK k \in Links : k = workers[w].link
    BY DEF Enqueue, AttemptsOK, Told
  <1>2. Become(w, At("sweep", 0, 0)) /\ UNCHANGED relay
    BY DEF Enqueue
  <1>3. CASE ~ Queueable(k)
    <2>1. jobs' = jobs
      BY <1>1, <1>3 DEF Enqueue, TypeOK, QueueOK
    <2>2. OnlySettles
      BY <2>1 DEF OnlySettles
    <2>3. QED
      BY <1>2, <2>2, BecomeRests, RestOK
  <1>4. CASE Queueable(k)
    <2>1. jobs[k] = NoJob /\ jobs[k].state = "none" /\ Clean(k)
      BY <1>4 DEF Queueable, JobsOK, JobOK
    <2>2. /\ jobs'[k].state = "pending" /\ jobs'[k].attempts = 0
          /\ \A l \in Links : l # k => jobs'[l] = jobs[l]
      BY <1>1, <1>4 DEF Enqueue, TypeOK, QueueOK, NoJob
    <2>3. \A l : Clean(l)' <=> Clean(l)
      BY <1>2 DEF Clean, MayBeMailed, relay
    <2>4. ASSUME NEW l \in Links PROVE JobOK(l)'
      <3>1. CASE l = k
        BY <2>1, <2>2, <2>3, <3>1, BoundsAssumption DEF JobOK
      <3>2. CASE l # k
        BY <1>2, <2>2, <2>3, <3>2 DEF JobsOK, JobOK, relay, MayBeMailed
      <3>3. QED
        BY <3>1, <3>2
    <2>5. /\ workers'[w].pc = "sweep" /\ workers'[w].answer = "uncertain"
          /\ \A v \in Workers : v # w => workers'[v] = workers[v]
      BY <1>2 DEF Become, At, TypeOK, WorkersOK
    <2>6. \A v \in Workers : workers[v].pc \in Trying => workers[v].link \in Links \ {k}
      BY <2>1 DEF AttemptsOK, Tries
    <2>7. ASSUME NEW v \in Workers PROVE Tries(v)' /\ Alone(v)' /\ Unposted(v)' /\ Told(v)'
      <3>1. Tries(v)'
        BY <2>2, <2>5, <2>6 DEF AttemptsOK, Tries, Trying
      <3>2. Alone(v)'
        BY <2>5 DEF AttemptsOK, Alone, Trying
      <3>3. Unposted(v)'
        BY <1>2, <2>2, <2>5, <2>6 DEF AttemptsOK, Unposted, Holds, Clean, Trying, relay, MayBeMailed
      <3>4. Told(v)'
        BY <1>2, <2>5 DEF AttemptsOK, Told, relay
      <3>5. QED
        BY <3>1, <3>2, <3>3, <3>4
    <2>8. WireOK'
      BY <1>2, <2>1, <2>2 DEF WireOK, Clean, MayBeMailed, relay, TypeOK, RelayOK
    <2>9. QED
      BY <2>4, <2>7, <2>8 DEF JobsOK, AttemptsOK
  <1>5. QED
    BY <1>3, <1>4

\* A claim gives the job an attempt nobody had.
LEMMA ClaimOK ==
    ASSUME TypeOK, JobsOK, AttemptsOK, WireOK, NEW w \in Workers, Claim(w)
    PROVE  JobsOK' /\ AttemptsOK' /\ WireOK'
  <1>1. UNCHANGED relay
    BY DEF Claim
  <1>2. CASE jobs' = jobs /\ Become(w, Idle)
    <2>1. WorkersRest
      BY <1>2 DEF Become, Idle, WorkersRest, Trying, TypeOK, WorkersOK
    <2>2. QED
      BY <1>1, <1>2, <2>1, RestOK DEF OnlySettles
  <1>3. ASSUME ~(jobs' = jobs /\ Become(w, Idle)) PROVE JobsOK' /\ AttemptsOK' /\ WireOK'
    <2>1. PICK k \in Links :
              /\ jobs[k].state = "pending"
              /\ jobs' = [jobs EXCEPT ![k].state = "leased", ![k].attempts = @ + 1, ![k].lease = TRUE]
              /\ Become(w, At("check", k, jobs[k].attempts + 1))
      BY <1>3 DEF Claim, Waiting
    <2>2. PICK n \in Nat : n = jobs[k].attempts
      BY DEF TypeOK, QueueOK, Attempts
    <2>3. Clean(k)
      BY <2>1 DEF JobsOK, JobOK
    <2>4. /\ jobs'[k].state = "leased" /\ jobs'[k].attempts = n + 1
          /\ \A l \in Links : l # k => jobs'[l] = jobs[l]
      BY <2>1, <2>2 DEF TypeOK, QueueOK
    <2>5. /\ \A v \in Workers : v # w => workers'[v] = workers[v]
          /\ workers'[w].pc = "check" /\ workers'[w].link = k /\ workers'[w].attempt = n + 1
          /\ workers'[w].answer = "uncertain"
      BY <2>1, <2>2 DEF Become, At, TypeOK, WorkersOK
    <2>6. \A l : Clean(l)' <=> Clean(l)
      BY <1>1 DEF Clean, MayBeMailed, relay
    <2>7. ASSUME NEW l \in Links PROVE JobOK(l)'
      <3>1. CASE l = k
        BY <1>1, <2>3, <2>4, <3>1 DEF JobOK, Clean, MayBeMailed, relay
      <3>2. CASE l # k
        BY <1>1, <2>4, <2>6, <3>2 DEF JobsOK, JobOK, relay, MayBeMailed
      <3>3. QED
        BY <3>1, <3>2
    <2>8. WireOK'
      BY <1>1, <2>3, <2>4 DEF WireOK, Clean, MayBeMailed, relay, TypeOK, RelayOK
    <2>9. ASSUME NEW v \in Workers, v # w, workers[v].pc \in Trying
          PROVE  /\ workers[v].link \in Links /\ workers[v].attempt \in Nat
                 /\ workers[v].link = k => workers[v].attempt <= n
                 /\ Tries(v)'
      BY <2>2, <2>4, <2>5, <2>9 DEF AttemptsOK, Tries, TypeOK, WorkersOK, Attempts
    <2>10. Tries(w)' /\ Told(w)' /\ Unposted(w)'
      BY <2>2, <2>3, <2>4, <2>5, <2>6 DEF Tries, Told, Unposted
    <2>11. ASSUME NEW v \in Workers, v # w PROVE Tries(v)' /\ Told(v)' /\ Unposted(v)'
      <3>1. Tries(v)' /\ Told(v)'
        BY <1>1, <2>5, <2>9, <2>11 DEF Tries, Told, AttemptsOK, relay
      <3>2. SUFFICES ASSUME workers[v].pc \in Trying PROVE Unposted(v)'
        BY <2>5, <2>11, <3>1 DEF Unposted, Trying
      <3>3. CASE workers[v].link = k
        BY <2>4, <2>5, <2>9, <2>11, <3>2, <3>3 DEF Unposted, Holds
      <3>4. CASE workers[v].link # k
        BY <1>1, <2>4, <2>5, <2>9, <2>11, <3>2, <3>4 DEF AttemptsOK, Unposted, Holds, Clean, MayBeMailed, relay
      <3>5. QED
        BY <3>3, <3>4
    <2>12. ASSUME NEW v \in Workers PROVE Alone(v)'
      <3>1. SUFFICES ASSUME NEW u \in Workers, u # v, workers'[v].pc \in Trying,
                            workers'[u].pc \in Trying
                     PROVE  workers'[u].link # workers'[v].link
                            \/ workers'[u].attempt # workers'[v].attempt
        BY DEF Alone
      <3>2. CASE v = w
        BY <2>5, <2>9, <3>1, <3>2
      <3>3. CASE u = w
        BY <2>5, <2>9, <3>1, <3>3
      <3>4. CASE u # w /\ v # w
        BY <2>5, <3>1, <3>4 DEF AttemptsOK, Alone
      <3>5. QED
        BY <3>2, <3>3, <3>4
    <2>13. QED
      BY <2>7, <2>8, <2>10, <2>11, <2>12 DEF JobsOK, AttemptsOK
  <1>4. QED
    BY <1>2, <1>3

\* A step that leaves the wire alone posts nothing: the check that posts holds a clean job.
LEMMA CheckPosts ==
    ASSUME TypeOK, AttemptsOK, NEW w \in Workers, Check(w),
           Become(w, At("wait", workers[w].link, workers[w].attempt))
    PROVE  wire' # wire
  <1>1. workers'[w].pc = "wait" /\ workers[w].pc = "check"
    BY DEF Become, At, TypeOK, WorkersOK, Check
  <1>2. ~ Become(w, Idle)
    BY <1>1 DEF Become, Idle, TypeOK, WorkersOK
  <1>3. /\ Holds(w)
        /\ wire' = wire \cup {[link |-> workers[w].link, attempt |-> workers[w].attempt]}
    BY <1>2 DEF Check
  <1>4. Clean(workers[w].link)
    BY <1>1, <1>3 DEF AttemptsOK, Unposted
  <1>5. PICK p : p = [link |-> workers[w].link, attempt |-> workers[w].attempt]
    OBVIOUS
  <1>6. p \in wire' /\ p.link = workers[w].link
    BY <1>3, <1>5
  <1>7. QED
    BY <1>4, <1>6 DEF Clean

\* A job is posted by the worker that alone holds it, when nothing of it is on its way.
LEMMA CheckOK ==
    ASSUME TypeOK, JobsOK, AttemptsOK, WireOK, NEW w \in Workers, Check(w)
    PROVE  JobsOK' /\ AttemptsOK' /\ WireOK'
  <1>1. PICK k \in Links : k = workers[w].link
    BY DEF Check, AttemptsOK, Tries, Trying
  <1>2. CASE wire' = wire
    <2>1. ASSUME Become(w, At("wait", k, workers[w].attempt)) PROVE FALSE
      BY <1>1, <1>2, <2>1, CheckPosts
    <2>2. OnlySettles
      <3>1. \/ jobs' = jobs
            \/ Holds(w) /\ jobs' = [jobs EXCEPT ![k].state = "expired", ![k].url = FALSE]
            \/ Holds(w) /\ jobs' = [jobs EXCEPT ![k].state = "uncertain"]
        BY <1>1 DEF Check
      <3>2. Holds(w) => jobs[k].state = "leased"
        BY <1>1 DEF Holds
      <3>3. QED
        BY <3>1, <3>2 DEF OnlySettles, TypeOK, QueueOK, Settled
    <2>3. Become(w, Idle) /\ UNCHANGED relay
      BY <1>1, <1>2, <2>1 DEF Check, relay
    <2>4. WorkersRest
      BY <2>3 DEF Become, Idle, WorkersRest, Trying, TypeOK, WorkersOK
    <2>5. QED
      BY <2>2, <2>3, <2>4, RestOK
  <1>3. CASE wire' # wire
    <2>1. PICK n \in Attempts : n = workers[w].attempt
      BY DEF TypeOK, WorkersOK
    <2>2. /\ Holds(w) /\ jobs' = jobs /\ UNCHANGED <<receipts, mailed>>
          /\ wire' = wire \cup {[link |-> k, attempt |-> n]}
          /\ Become(w, At("wait", k, n)) /\ workers[w].pc = "check"
      BY <1>1, <1>3, <2>1 DEF Check
    <2>3. Clean(k) /\ jobs[k].state = "leased" /\ jobs[k].attempts = n
      BY <1>1, <2>1, <2>2 DEF AttemptsOK, Unposted, Holds
    <2>4. \A l : l # k => (Clean(l)' <=> Clean(l))
      BY <2>2 DEF Clean, MayBeMailed
    <2>5. ASSUME NEW l \in Links PROVE JobOK(l)'
      <3>1. CASE l = k
        BY <2>2, <2>3, <3>1 DEF JobOK, Clean, MayBeMailed
      <3>2. CASE l # k
        BY <2>2, <2>4, <3>2 DEF JobsOK, JobOK, MayBeMailed
      <3>3. QED
        BY <3>1, <3>2
    <2>6. /\ \A v \in Workers : v # w => workers'[v] = workers[v]
          /\ workers'[w].pc = "wait" /\ workers'[w].link = k /\ workers'[w].attempt = n
          /\ workers'[w].answer = "uncertain"
      BY <2>2 DEF Become, At, TypeOK, WorkersOK
    <2>7. WireOK'
      BY <2>1, <2>2, <2>3 DEF WireOK, Attempts
    <2>8. Tries(w)' /\ Told(w)' /\ Unposted(w)'
      BY <2>2, <2>3, <2>6, <1>1, <2>1 DEF Tries, Told, Unposted, Attempts
    <2>9. ASSUME NEW v \in Workers, v # w PROVE Tries(v)' /\ Told(v)' /\ Unposted(v)'
      <3>1. Tries(v)' /\ Told(v)'
        BY <2>2, <2>6, <2>9 DEF Tries, Told, AttemptsOK
      <3>2. (Holds(v)' <=> Holds(v)) /\ workers'[v] = workers[v]
        BY <2>2, <2>6, <2>9 DEF Holds
      <3>3. CASE workers[v].link = k /\ workers[v].pc \in Trying
        <4>1. workers[v].attempt # n
          BY <1>1, <2>1, <2>2, <2>9, <3>3 DEF AttemptsOK, Alone, Trying
        <4>2. ~ Holds(v)
          BY <2>3, <3>3, <4>1 DEF Holds
        <4>3. QED
          BY <3>1, <3>2, <4>2 DEF Unposted
      <3>4. CASE workers[v].link # k
        BY <2>4, <3>1, <3>2, <3>4 DEF AttemptsOK, Unposted
      <3>5. CASE workers[v].pc \notin Trying
        BY <3>1, <3>2, <3>5 DEF Unposted, Trying
      <3>6. QED
        BY <3>3, <3>4, <3>5
    <2>10. ASSUME NEW v \in Workers PROVE Alone(v)'
      BY <1>1, <2>1, <2>2, <2>6 DEF AttemptsOK, Alone, Trying
    <2>11. QED
      BY <2>5, <2>7, <2>8, <2>9, <2>10 DEF JobsOK, AttemptsOK
  <1>4. QED
    BY <1>2, <1>3

LEMMA NoAnswerOK ==
    ASSUME TypeOK, JobsOK, AttemptsOK, WireOK, NEW w \in Workers, NoAnswer(w)
    PROVE  JobsOK' /\ AttemptsOK' /\ WireOK'
  <1>1. UNCHANGED <<jobs, relay>>
    BY DEF NoAnswer, queue
  <1>2. JobsOK' /\ WireOK'
    BY <1>1 DEF JobsOK, JobOK, WireOK, Clean, MayBeMailed, relay
  <1>3. /\ \A v \in Workers : v # w => workers'[v] = workers[v]
        /\ workers[w].pc = "wait" /\ workers'[w].pc = "record"
        /\ workers'[w].link = workers[w].link /\ workers'[w].attempt = workers[w].attempt
        /\ workers'[w].answer = "uncertain"
    BY DEF NoAnswer, Become, TypeOK, WorkersOK, AttemptsOK, Told
  <1>4. ASSUME NEW v \in Workers PROVE Tries(v)' /\ Alone(v)' /\ Unposted(v)' /\ Told(v)'
    <2>1. Tries(v)'
      BY <1>1, <1>3 DEF AttemptsOK, Tries, Trying
    <2>2. Alone(v)'
      BY <1>3 DEF AttemptsOK, Alone, Trying
    <2>3. Unposted(v)'
      BY <1>1, <1>3 DEF AttemptsOK, Unposted, Holds, Clean, MayBeMailed, relay
    <2>4. Told(v)'
      BY <1>1, <1>3 DEF AttemptsOK, Told, relay
    <2>5. QED
      BY <2>1, <2>2, <2>3, <2>4
  <1>5. QED
    BY <1>2, <1>4 DEF AttemptsOK

\* A job waits again only when its last attempt left nothing behind.
LEMMA RecordOK ==
    ASSUME TypeOK, JobsOK, AttemptsOK, WireOK, NEW w \in Workers, Record(w)
    PROVE  JobsOK' /\ AttemptsOK' /\ WireOK'
  <1>1. PICK k \in Links : k = workers[w].link
    BY DEF Record, AttemptsOK, Tries, Trying
  <1>2. PICK n \in Attempts : n = workers[w].attempt
    BY DEF TypeOK, WorkersOK
  <1>3. PICK state \in Decided(k, workers[w].answer, n) : jobs' = Result(w, state)
    BY <1>1, <1>2 DEF Record
  <1>4. state \in Settled \cup {"pending"}
    BY <1>1, <1>3, DecidedType DEF TypeOK, WorkersOK, JobStates
  <1>5. Become(w, Idle) /\ UNCHANGED relay /\ workers[w].pc = "record"
    BY DEF Record
  <1>6. WorkersRest
    BY <1>5 DEF Become, Idle, WorkersRest, Trying, TypeOK, WorkersOK
  <1>7. CASE state \in Settled \/ ~ Holds(w)
    <2>1. OnlySettles
      BY <1>1, <1>3, <1>7 DEF OnlySettles, Result, Holds, TypeOK, QueueOK
    <2>2. QED
      BY <1>5, <1>6, <2>1, RestOK
  <1>8. CASE Holds(w) /\ state = "pending"
    <2>1. workers[w].answer = "temporary" /\ n < MaxAttempts
      BY <1>3, <1>8 DEF Decided, Final, TypeOK, WorkersOK, Answers
    <2>2. /\ jobs[k].state = "leased" /\ jobs[k].attempts = n
          /\ jobs'[k].state = "pending" /\ jobs'[k].attempts = n
          /\ \A l \in Links : l # k => jobs'[l] = jobs[l]
      BY <1>1, <1>2, <1>3, <1>8 DEF Result, Holds, TypeOK, QueueOK
    <2>3. Clean(k)
      BY <1>1, <1>5, <1>8, <2>1 DEF AttemptsOK, Unposted
    <2>4. \A l : Clean(l)' <=> Clean(l)
      BY <1>5 DEF Clean, MayBeMailed, relay
    <2>5. ASSUME NEW l \in Links PROVE JobOK(l)'
      <3>1. CASE l = k
        BY <2>1, <2>2, <2>3, <2>4, <3>1 DEF JobOK
      <3>2. CASE l # k
        BY <1>5, <2>2, <2>4, <3>2 DEF JobsOK, JobOK, relay, MayBeMailed
      <3>3. QED
        BY <3>1, <3>2
    <2>6. WireOK'
      BY <1>5, <2>2, <2>3 DEF WireOK, Clean, MayBeMailed, relay, TypeOK, RelayOK
    <2>7. \A v \in Workers : workers'[v].pc \in Trying => workers'[v] = workers[v]
      BY <1>6 DEF WorkersRest
    <2>8. ASSUME NEW v \in Workers PROVE Tries(v)' /\ Alone(v)' /\ Unposted(v)' /\ Told(v)'
      <3>1. Tries(v)'
        BY <2>2, <2>7 DEF AttemptsOK, Tries
      <3>2. Alone(v)'
        BY <2>7 DEF AttemptsOK, Alone
      <3>3. Unposted(v)'
        <4>1. CASE workers'[v].link = k
          BY <2>2, <4>1 DEF Unposted, Holds
        <4>2. CASE workers'[v].link # k
          <5>1. SUFFICES ASSUME workers'[v].pc \in Trying PROVE Unposted(v)'
            BY DEF Unposted, Trying
          <5>2. workers'[v] = workers[v] /\ workers[v].link \in Links
            BY <2>7, <5>1 DEF AttemptsOK, Tries
          <5>3. QED
            BY <1>5, <2>2, <4>2, <5>2 DEF AttemptsOK, Unposted, Holds, Clean, MayBeMailed, relay
        <4>3. QED
          BY <4>1, <4>2
      <3>4. Told(v)'
        BY <1>5, <1>6 DEF AttemptsOK, Told, WorkersRest, Trying, relay
      <3>5. QED
        BY <3>1, <3>2, <3>3, <3>4
    <2>9. QED
      BY <2>5, <2>6, <2>8 DEF JobsOK, AttemptsOK
  <1>9. QED
    BY <1>4, <1>7, <1>8

\* What the relay answers is what it did: an answer that allows a retry leaves nothing behind.
LEMMA RelayOKStep ==
    ASSUME TypeOK, JobsOK, AttemptsOK, WireOK, ReceiptsOK, NEW p \in wire, Relay(p)
    PROVE  JobsOK' /\ AttemptsOK' /\ WireOK' /\ ReceiptsOK'
  <1>1. PICK k \in Links, n \in Attempts : p = [link |-> k, attempt |-> n]
    BY DEF TypeOK, RelayOK
  <1>2. PICK o \in Outcomes(p.link) :
            /\ wire' = wire \ {p} /\ receipts' = [receipts EXCEPT ![p.link] = o.receipt]
            /\ mailed' = IF o.sent THEN mailed \cup {p.link} ELSE mailed
            /\ workers' = [w \in Workers |->
                   IF workers[w].pc = "wait" /\ workers[w].link = p.link
                      /\ workers[w].attempt = p.attempt
                   THEN [workers[w] EXCEPT !.pc = "record", !.answer = o.answer] ELSE workers[w]]
    BY DEF Relay
  <1>0. p.link = k /\ p.attempt = n
    BY <1>1
  <1>3. jobs' = jobs
    BY DEF Relay, queue
  <1>4. /\ o.answer = "temporary" => ~ o.sent /\ o.receipt \in {receipts[k], "torn"}
        /\ o.answer = "accepted" => (receipts[k] = "accepted" \/ o.sent)
        /\ o.receipt = "accepted" => (receipts[k] = "accepted" \/ o.sent)
    <2>1. CASE o \in [receipt : {receipts[k]}, sent : {FALSE}, answer : {"temporary", "permanent"}]
      BY <2>1
    <2>2. CASE receipts[k] \in {"uncertain", "accepted"}
               /\ o \in [receipt : {receipts[k]}, sent : {FALSE}, answer : {receipts[k]}]
      BY <2>2
    <2>3. CASE receipts[k] = "none"
      BY <1>0, <1>2, <2>3 DEF Outcomes
    <2>4. QED
      BY <1>0, <1>2, <2>1, <2>2, <2>3 DEF Outcomes, TypeOK, RelayOK
  <1>5. receipts'[k] = o.receipt /\ \A l \in Links : l # k => receipts'[l] = receipts[l]
    BY <1>0, <1>2 DEF TypeOK, RelayOK
  <1>6. mailed \subseteq mailed' /\ (o.sent => k \in mailed')
    BY <1>0, <1>2
  <1>7. ReceiptsOK'
    BY <1>4, <1>5, <1>6 DEF ReceiptsOK
  <1>8. ~ Clean(k) /\ \A l \in Links : l # k => (Clean(l)' <=> Clean(l))
    <2>1. p.link = k
      BY <1>1
    <2>2. QED
      BY <1>2, <1>5, <2>1 DEF Clean, MayBeMailed
  <1>9. WireOK'
    BY <1>2, <1>3 DEF WireOK
  <1>10. ASSUME NEW l \in Links PROVE JobOK(l)'
    <2>1. CASE l = k
      <3>1. ASSUME jobs[k].state = "leased", NEW q \in wire, q.link = k PROVE q = p
        <4>1. q.attempt = jobs[k].attempts /\ p.attempt = jobs[k].attempts
          BY <1>0, <3>1 DEF JobsOK, JobOK
        <4>2. q \in [link : Links, attempt : Attempts] /\ p \in [link : Links, attempt : Attempts]
          BY DEF TypeOK, RelayOK
        <4>3. QED
          BY <1>0, <3>1, <4>1, <4>2
      <3>2. QED
        BY <1>2, <1>3, <1>8, <2>1, <3>1 DEF JobsOK, JobOK
    <2>2. CASE l # k
      BY <1>0, <1>2, <1>3, <1>5, <1>8, <2>2 DEF JobsOK, JobOK, MayBeMailed
    <2>3. QED
      BY <2>1, <2>2
  <1>11. ASSUME NEW w \in Workers
         PROVE  /\ workers'[w].link = workers[w].link /\ workers'[w].attempt = workers[w].attempt
                /\ workers'[w].pc \in Trying <=> workers[w].pc \in Trying
                /\ \/ workers'[w] = workers[w]
                   \/ /\ workers[w].pc = "wait" /\ workers[w].link = k /\ workers[w].attempt = n
                      /\ workers'[w].pc = "record" /\ workers'[w].answer = o.answer
    BY <1>0, <1>2 DEF TypeOK, WorkersOK, Trying
  <1>12. ASSUME NEW w \in Workers PROVE Tries(w)' /\ Alone(w)' /\ Told(w)'
    <2>1. Tries(w)'
      BY <1>3, <1>11 DEF AttemptsOK, Tries
    <2>2. Alone(w)'
      BY <1>11 DEF AttemptsOK, Alone
    <2>3. Told(w)'
      BY <1>4, <1>6, <1>11 DEF AttemptsOK, Told, ReceiptsOK
    <2>4. QED
      BY <2>1, <2>2, <2>3
  <1>13. ASSUME NEW w \in Workers PROVE Unposted(w)'
    <2>1. Holds(w)' <=> Holds(w)
      BY <1>3, <1>11 DEF Holds
    <2>2. CASE workers'[w] = workers[w]
      <3>1. CASE workers[w].pc \in Trying
        <4>1. workers[w].link \in Links
          BY <3>1 DEF AttemptsOK, Tries
        <4>2. QED
          BY <1>8, <2>1, <2>2, <4>1 DEF AttemptsOK, Unposted
      <3>2. CASE workers[w].pc \notin Trying
        BY <2>2, <3>2 DEF Unposted, Trying
      <3>3. QED
        BY <3>1, <3>2
    <2>3. ASSUME workers[w].pc = "wait", workers[w].link = k, workers[w].attempt = n,
                 workers'[w].answer = o.answer, workers'[w].pc = "record"
          PROVE  Unposted(w)'
      <3>1. SUFFICES ASSUME Holds(w), o.answer = "temporary" PROVE Clean(workers[w].link)'
        BY <2>1, <2>3 DEF Unposted
      <3>2. jobs[k].state = "leased" /\ jobs[k].attempts = n
        BY <2>3, <3>1 DEF Holds
      <3>3. ~MayBeMailed(k) /\ \A q \in wire : q.link = k => q = p
        BY <1>1, <3>2 DEF JobsOK, JobOK, TypeOK, RelayOK
      <3>4. Clean(k)'
        BY <1>2, <1>4, <1>5, <3>1, <3>3 DEF Clean, MayBeMailed
      <3>5. QED
        BY <1>11, <2>3, <3>4
    <2>4. QED
      BY <1>11, <2>2, <2>3
  <1>14. QED
    BY <1>7, <1>9, <1>10, <1>12, <1>13 DEF JobsOK, AttemptsOK

LEMMA JobsStep ==
    TypeOK /\ JobsOK /\ AttemptsOK /\ WireOK /\ ReceiptsOK /\ [Next]_vars
        => JobsOK' /\ AttemptsOK' /\ WireOK' /\ ReceiptsOK'
  <1> SUFFICES ASSUME TypeOK, JobsOK, AttemptsOK, WireOK, ReceiptsOK, [Next]_vars
               PROVE  JobsOK' /\ AttemptsOK' /\ WireOK' /\ ReceiptsOK'
    OBVIOUS
  <1> DEFINE Kept == JobsOK' /\ AttemptsOK' /\ WireOK' /\ ReceiptsOK'
  <1>1. ASSUME UNCHANGED relay PROVE ReceiptsOK'
    BY <1>1 DEF ReceiptsOK, relay
  <1>2. ASSUME OnlySettles, WorkersRest, UNCHANGED relay PROVE Kept
    BY <1>1, <1>2, RestOK
  <1>3. ASSUME NEW L, jobs' = Erased(L), UNCHANGED <<workers, relay>> PROVE Kept
    BY <1>2, <1>3, ErasedSettles DEF WorkersRest
  <1>4. ASSUME UNCHANGED jobs PROVE OnlySettles
    BY <1>4 DEF OnlySettles
  <1>5. ASSUME NEW a \in Addresses, Investigate(a) PROVE Kept
    BY <1>3, <1>5 DEF Investigate
  <1>6. ASSUME SendVerification \/ Confirm PROVE Kept
    BY <1>3, <1>6 DEF SendVerification, Confirm
  <1>7. ASSUME NEW l \in Links, Verify(l) PROVE Kept
    BY <1>3, <1>7 DEF Verify
  <1>8. ASSUME CancelEvent \/ Scrub PROVE Kept
    BY <1>3, <1>8 DEF CancelEvent, Scrub
  <1>9. ASSUME NEW l \in Links, HourPasses(l) PROVE Kept
    <2>1. UNCHANGED jobs /\ WorkersRest /\ UNCHANGED relay
      BY <1>9 DEF HourPasses, WorkersRest, queue
    <2>2. QED
      BY <1>2, <1>4, <2>1
  <1>10. ASSUME NEW l \in Links, LeaseLapses(l) PROVE Kept
    <2>1. OnlySettles /\ WorkersRest /\ UNCHANGED relay
      BY <1>10 DEF LeaseLapses, WorkersRest, OnlySettles, TypeOK, QueueOK
    <2>2. QED
      BY <1>2, <2>1
  <1>11. ASSUME NEW w \in Workers, StartDispatch(w) PROVE Kept
    <2>1. WorkersRest
      BY <1>11, BecomeRests DEF StartDispatch, Waiting
    <2>2. UNCHANGED jobs /\ UNCHANGED relay
      BY <1>11 DEF StartDispatch, queue
    <2>3. QED
      BY <1>2, <1>4, <2>1, <2>2
  <1>12. ASSUME NEW w \in Workers, Enqueue(w) PROVE Kept
    BY <1>1, <1>12, EnqueueOK DEF Enqueue
  <1>13. ASSUME NEW w \in Workers, Sweep(w) PROVE Kept
    <2>1. WorkersRest /\ UNCHANGED relay
      BY <1>13, BecomeRests DEF Sweep
    <2>2. OnlySettles
      BY <1>13 DEF Sweep, Swept, OnlySettles, Lapsed, Settled, TypeOK, QueueOK
    <2>3. QED
      BY <1>2, <2>1, <2>2
  <1>14. ASSUME NEW w \in Workers, Claim(w) PROVE Kept
    BY <1>1, <1>14, ClaimOK DEF Claim
  <1>15. ASSUME NEW w \in Workers, Check(w) PROVE Kept
    BY <1>15, CheckOK DEF Check, ReceiptsOK
  <1>16. ASSUME NEW w \in Workers, NoAnswer(w) PROVE Kept
    BY <1>1, <1>16, NoAnswerOK DEF NoAnswer
  <1>17. ASSUME NEW w \in Workers, Record(w) PROVE Kept
    BY <1>1, <1>17, RecordOK DEF Record
  <1>18. ASSUME NEW w \in Workers, Stopped(w) PROVE Kept
    <2>1. WorkersRest
      BY <1>18 DEF Stopped, Become, Idle, WorkersRest, Trying, TypeOK, WorkersOK
    <2>2. UNCHANGED jobs /\ UNCHANGED relay
      BY <1>18 DEF Stopped, queue
    <2>3. QED
      BY <1>2, <1>4, <2>1, <2>2
  <1>19. ASSUME NEW p \in wire, Relay(p) PROVE Kept
    BY <1>19, RelayOKStep
  <1>20. CASE UNCHANGED vars
    <2>1. UNCHANGED jobs /\ UNCHANGED relay /\ WorkersRest
      BY <1>20 DEF vars, queue, WorkersRest
    <2>2. QED
      BY <1>2, <1>4, <2>1
  <1>21. QED
    BY <1>5, <1>6, <1>7, <1>8, <1>9, <1>10, <1>11, <1>12, <1>13, <1>14, <1>15, <1>16, <1>17,
       <1>18, <1>19, <1>20 DEF Next, StaffStep, DispatchStep

-----------------------------------------------------------------------------
(* The two invariants the runs check, and the theorems. *)

\* Whatever supersedes or uses links erases them from their jobs.
LEMMA DeadStep == TypeOK /\ JobsOK /\ AttemptsOK /\ DeadLinkErased /\ [Next]_vars => DeadLinkErased'
  <1> SUFFICES ASSUME TypeOK, JobsOK, AttemptsOK, DeadLinkErased, [Next]_vars
               PROVE  DeadLinkErased'
    OBVIOUS
  <1> USE DEF DeadLinkErased
  <1>0. \A l \in Links : jobs[l].state = "none" => ~ jobs[l].url
    BY DEF JobsOK, JobOK, NoJob
  <1>1. ASSUME NEW L, jobs' = Erased(L),
               \A l \in Links : links'[l].state \in {"dead", "used"} =>
                    l \in L \/ links[l].state \in {"dead", "used"}
        PROVE  DeadLinkErased'
    BY <1>0, <1>1 DEF Erased, TypeOK, QueueOK
  <1>2. ASSUME NEW L, links' = Superseded(L), jobs' = Erased(L) PROVE DeadLinkErased'
    BY <1>1, <1>2 DEF Superseded, TypeOK, LinksOK
  <1>3. ASSUME NEW a \in Addresses, Investigate(a) PROVE DeadLinkErased'
    BY <1>2, <1>3 DEF Investigate
  <1>4. ASSUME Confirm \/ CancelEvent PROVE DeadLinkErased'
    BY <1>2, <1>4 DEF Confirm, CancelEvent
  <1>5. ASSUME SendVerification PROVE DeadLinkErased'
    <2>1. /\ jobs' = Erased(Outstanding({current}))
          /\ links' = [Superseded(Outstanding({current}))
                           EXCEPT ![made + 1] = [state |-> "live", request |-> current]]
      BY <1>5 DEF SendVerification
    <2>2. QED
      BY <1>1, <2>1 DEF Superseded, TypeOK, LinksOK
  <1>6. ASSUME NEW l \in Links, Verify(l) PROVE DeadLinkErased'
    <2>1. jobs' = Erased({l}) /\ links' = [links EXCEPT ![l].state = "used"]
      BY <1>6 DEF Verify
    <2>2. QED
      BY <1>1, <2>1 DEF TypeOK, LinksOK
  <1>7. CASE Scrub
    BY <1>1, <1>7 DEF Scrub, change
  <1>8. ASSUME NEW l \in Links, HourPasses(l) PROVE DeadLinkErased'
    BY <1>8 DEF HourPasses, queue, TypeOK, LinksOK
  <1>9. ASSUME UNCHANGED links, \A l \in Links : jobs'[l].url => jobs[l].url
        PROVE  DeadLinkErased'
    BY <1>9
  <1>10. ASSUME NEW l \in Links, LeaseLapses(l) PROVE DeadLinkErased'
    BY <1>9, <1>10 DEF LeaseLapses, change, TypeOK, QueueOK
  <1>11. ASSUME NEW w \in Workers, Enqueue(w) PROVE DeadLinkErased'
    <2>1. links' = links /\ \A l \in Links : jobs'[l].url => jobs[l].url \/ links[l].state = "live"
      BY <1>11 DEF Enqueue, Queueable, Waiting, change, TypeOK, QueueOK
    <2>2. QED
      BY <2>1
  <1>12. ASSUME NEW w \in Workers,
                StartDispatch(w) \/ Sweep(w) \/ NoAnswer(w) \/ Stopped(w)
         PROVE  DeadLinkErased'
    <2>1. ASSUME Sweep(w) PROVE DeadLinkErased'
      <3>1. \A l \in Links : Swept(l).url => jobs[l].url
        BY DEF Swept, TypeOK, QueueOK
      <3>2. UNCHANGED links /\ \A l \in Links : jobs'[l] = Swept(l)
        BY <2>1 DEF Sweep, change
      <3>3. QED
        BY <1>9, <3>1, <3>2
    <2>2. ASSUME ~ Sweep(w) PROVE UNCHANGED <<links, jobs>>
      BY <1>12, <2>2 DEF StartDispatch, NoAnswer, Stopped, change, queue
    <2>3. QED
      BY <1>9, <2>1, <2>2
  <1>13. ASSUME NEW w \in Workers, Claim(w) \/ Check(w) PROVE DeadLinkErased'
    <2>1. ASSUME Claim(w), jobs' # jobs PROVE \A l \in Links : jobs'[l].url => jobs[l].url
      <3>1. PICK k \in Links : jobs' = [jobs EXCEPT ![k].state = "leased",
                                                   ![k].attempts = @ + 1, ![k].lease = TRUE]
        BY <2>1 DEF Claim, Waiting
      <3>2. QED
        BY <3>1 DEF TypeOK, QueueOK
    <2>2. ASSUME Check(w) PROVE \A l \in Links : jobs'[l].url => jobs[l].url
      <3>1. PICK k : k = workers[w].link
        OBVIOUS
      <3>2. \/ jobs' = jobs
            \/ jobs' = [jobs EXCEPT ![k].state = "expired", ![k].url = FALSE]
            \/ jobs' = [jobs EXCEPT ![k].state = "uncertain"]
        BY <2>2, <3>1 DEF Check
      <3>3. QED
        BY <3>2 DEF TypeOK, QueueOK
    <2>3. UNCHANGED links
      BY <1>13 DEF Claim, Check, change
    <2>4. QED
      BY <1>9, <1>13, <2>1, <2>2, <2>3
  <1>14. ASSUME NEW w \in Workers, Record(w) PROVE DeadLinkErased'
    BY <1>9, <1>14 DEF Record, Result, change, TypeOK, QueueOK
  <1>15. ASSUME NEW p \in wire, Relay(p) PROVE DeadLinkErased'
    BY <1>15 DEF Relay, change, queue
  <1>16. CASE UNCHANGED vars
    BY <1>16 DEF vars, change, queue
  <1>17. QED
    BY <1>3, <1>4, <1>5, <1>6, <1>7, <1>8, <1>10, <1>11, <1>12, <1>13, <1>14, <1>15, <1>16
       DEF Next, StaffStep, DispatchStep

\* Only the attempt whose mail was accepted closes the outbox row.
LEMMA SentStep ==
    TypeOK /\ LinksFresh /\ AttemptsOK /\ SentIsMailed /\ [Next]_vars => SentIsMailed'
  <1> SUFFICES ASSUME TypeOK, LinksFresh, AttemptsOK, SentIsMailed, [Next]_vars
               PROVE  SentIsMailed'
    OBVIOUS
  <1>1. mailed \subseteq mailed'
    BY LinksKept
  <1>2. ASSUME UNCHANGED outbox PROVE SentIsMailed'
    BY <1>1, <1>2 DEF SentIsMailed
  <1>3. ASSUME SendVerification PROVE SentIsMailed'
    BY <1>1, <1>3 DEF SendVerification, SentIsMailed, TypeOK, QueueOK
  <1>4. ASSUME StaffStep, ~ SendVerification PROVE UNCHANGED outbox
    BY <1>4 DEF StaffStep, Investigate, Confirm, Verify, CancelEvent
  <1>5. ASSUME NEW w \in Workers, DispatchStep(w), ~ Record(w) PROVE UNCHANGED outbox
    BY <1>5 DEF DispatchStep, StartDispatch, Enqueue, Sweep, Claim, Check, NoAnswer, Stopped, queue
  <1>6. ASSUME NEW w \in Workers, Record(w) PROVE SentIsMailed'
    <2>1. workers[w].link \in Links /\ workers[w].answer \in Answers /\ workers[w].pc = "record"
      BY <1>6 DEF Record, AttemptsOK, Tries, Trying, TypeOK, WorkersOK
    <2>2. PICK state \in Decided(workers[w].link, workers[w].answer, workers[w].attempt) :
              outbox' = Marked(w, state)
      BY <1>6 DEF Record
    <2>3. state = "sent" => workers[w].answer = "accepted"
      BY <2>1, <2>2 DEF Decided, Final, Answers
    <2>4. state = "sent" => workers[w].link \in mailed
      BY <2>1, <2>3 DEF AttemptsOK, Told
    <2>5. QED
      BY <1>1, <2>1, <2>2, <2>4 DEF Marked, SentIsMailed, TypeOK, QueueOK
  <1>7. ASSUME NEW l \in Links, HourPasses(l) \/ LeaseLapses(l) PROVE UNCHANGED outbox
    BY <1>7 DEF HourPasses, LeaseLapses, queue
  <1>8. ASSUME Scrub \/ \E p \in wire : Relay(p) PROVE UNCHANGED outbox
    BY <1>8 DEF Scrub, Relay, queue
  <1>9. CASE UNCHANGED vars
    BY <1>2, <1>9 DEF vars, queue
  <1>10. QED
    BY <1>2, <1>3, <1>4, <1>5, <1>6, <1>7, <1>8, <1>9 DEF Next

LEMMA InitIInv == Init => IInv
  <1> SUFFICES ASSUME Init PROVE IInv
    OBVIOUS
  <1>1. TypeOK
    BY InitType
  <1>2. LinksFresh /\ VerifiedByLink /\ ReceiptsOK /\ SentIsMailed /\ DeadLinkErased
    BY DEF Init, LinksFresh, VerifiedByLink, ReceiptsOK, SentIsMailed, DeadLinkErased
  <1>3. JobsOK /\ WireOK
    BY BoundsAssumption DEF Init, JobsOK, JobOK, NoJob, Clean, WireOK, JobStates, MayBeMailed
  <1>4. AttemptsOK
    BY <1>1 DEF Init, AttemptsOK, Tries, Alone, Unposted, Told, Idle, Trying
  <1>5. QED
    BY <1>1, <1>2, <1>3, <1>4 DEF IInv

LEMMA IInvStep == IInv /\ [Next]_vars => IInv'
  <1> SUFFICES ASSUME IInv, [Next]_vars PROVE IInv'
    OBVIOUS
  <1> USE DEF IInv
  <1>1. TypeOK'
    BY RequestsType, LinksTyped, QueueType, WorkersTyped, RelayType DEF TypeOK
  <1>2. LinksFresh' /\ VerifiedByLink'
    BY LinksKept, VerifiedStep
  <1>3. JobsOK' /\ AttemptsOK' /\ WireOK' /\ ReceiptsOK'
    BY JobsStep
  <1>4. DeadLinkErased' /\ SentIsMailed'
    BY DeadStep, SentStep
  <1>5. QED
    BY <1>1, <1>2, <1>3, <1>4

LEMMA Inductive == Spec => []IInv
  BY InitIInv, IInvStep, PTL DEF Spec

\* Requests, links, jobs, dispatchers and the relay stay within their types.
THEOREM TypeCorrect == Spec => []TypeOK
  <1>1. IInv => TypeOK
    BY DEF IInv
  <1>2. QED
    BY <1>1, Inductive, PTL

\* A link that was opened or superseded is in no job of the mail queue (trigger
\* lt_change_token_expiry, and the conditions of the insertion of a job).
THEOREM DeadLinksAreErased == Spec => []DeadLinkErased
  <1>1. IInv => DeadLinkErased
    BY DEF IInv
  <1>2. QED
    BY <1>1, Inductive, PTL

\* An outbox row marked as sent was handed to mail() (the last batch of dispatch_one).
THEOREM SentWasMailed == Spec => []SentIsMailed
  <1>1. IInv => SentIsMailed
    BY DEF IInv
  <1>2. QED
    BY <1>1, Inductive, PTL

\* The address changes only to a mailbox that answered (request_guard of confirm).
THEOREM AddressIsVerified == Spec => ChangedIsVerified
  <1> DEFINE Change ==
        email' # email =>
            /\ current > 0 /\ requests[current].new = email' /\ requests[current].old = email
            /\ \E l \in mailed : requests[current].link = l /\ links[l].state = "used"
                                 /\ links[l].request = current
  <1>1. IInv /\ [Next]_vars => [Change]_vars
    <2> SUFFICES ASSUME IInv, [Next]_vars, email' # email PROVE Change
      OBVIOUS
    <2>1. Confirm
      <3>1. ASSUME NEW w \in Workers PROVE ~ DispatchStep(w)
        BY DEF DispatchStep, StartDispatch, Enqueue, Sweep, Claim, Check, NoAnswer, Record,
               Stopped, change
      <3>2. ~ Scrub /\ ~ \E p \in wire : Relay(p)
        BY DEF Scrub, Relay, change
      <3>3. \A l \in Links : ~ HourPasses(l) /\ ~ LeaseLapses(l)
        BY DEF HourPasses, LeaseLapses, change
      <3>4. ~ UNCHANGED vars
        BY DEF vars, change
      <3>5. StaffStep
        BY <3>1, <3>2, <3>3, <3>4 DEF Next
      <3>6. QED
        BY <3>5 DEF StaffStep, Investigate, SendVerification, Verify, CancelEvent
    <2>2. QED
      BY <2>1 DEF Confirm, Stands, Verified, IInv, VerifiedByLink
  <1>2. QED
    BY <1>1, Inductive, PTL DEF Spec, ChangedIsVerified

\* The relay is asked to mail a link only when nothing of it is on its way or was received:
\* what may have been sent is never sent again by itself (the first statement of dispatch_one).
THEOREM NothingAskedTwice == Spec => AskedOnce
  <1> DEFINE Asked ==
        \A p \in wire' \ wire : ~MayBeMailed(p.link) /\ \A q \in wire : q.link # p.link
  <1>1. IInv /\ [Next]_vars => [Asked]_vars
    <2> SUFFICES ASSUME IInv, [Next]_vars, NEW p \in wire' \ wire PROVE Clean(p.link)
      BY DEF Clean
    <2>1. PICK w \in Workers : Check(w)
      <3>1. ~ StaffStep /\ ~ Scrub
        BY DEF StaffStep, Investigate, SendVerification, Confirm, Verify, CancelEvent, Scrub, relay
      <3>2. \A q \in wire : ~ Relay(q)
        BY DEF Relay
      <3>3. \A l \in Links : ~ HourPasses(l) /\ ~ LeaseLapses(l)
        BY DEF HourPasses, LeaseLapses, relay
      <3>4. ~ UNCHANGED vars
        BY DEF vars, relay
      <3>5. \A w \in Workers : DispatchStep(w) => Check(w)
        BY DEF DispatchStep, StartDispatch, Enqueue, Sweep, Claim, NoAnswer, Record, Stopped, relay
      <3>6. QED
        BY <3>1, <3>2, <3>3, <3>4, <3>5 DEF Next
    <2>2. /\ Holds(w) /\ workers[w].pc = "check"
          /\ p = [link |-> workers[w].link, attempt |-> workers[w].attempt]
      BY <2>1 DEF Check
    <2>3. Clean(workers[w].link)
      BY <2>2 DEF IInv, AttemptsOK, Unposted
    <2>4. QED
      BY <2>2, <2>3
  <1>2. QED
    BY <1>1, Inductive, PTL DEF Spec, AskedOnce

\* A job that was given up or finished stays so, whatever answer comes late (the fence of
\* dispatch_one).
THEOREM SettledStays == Spec => SettledIsFinal
  <1> DEFINE Stays == \A l \in Links : jobs[l].state \in Settled => jobs'[l].state \in Settled
  <1>1. IInv /\ [Next]_vars => [Stays]_vars
    <2> SUFFICES ASSUME TypeOK, AttemptsOK, Next PROVE Stays
      BY DEF IInv
    <2>1. ASSUME NEW L, jobs' = Erased(L) PROVE Stays
      BY <2>1 DEF Erased, TypeOK, QueueOK, Settled
    <2>2. ASSUME StaffStep \/ Scrub PROVE Stays
      BY <2>1, <2>2 DEF StaffStep, Investigate, SendVerification, Confirm, Verify, CancelEvent,
                        Scrub
    <2>3. ASSUME UNCHANGED jobs PROVE Stays
      BY <2>3
    <2>4. ASSUME NEW l \in Links, HourPasses(l) \/ LeaseLapses(l) PROVE Stays
      BY <2>4 DEF HourPasses, LeaseLapses, queue, TypeOK, QueueOK
    <2>5. ASSUME NEW p \in wire, Relay(p) PROVE Stays
      BY <2>5 DEF Relay, queue
    <2>6. ASSUME NEW w \in Workers, StartDispatch(w) \/ NoAnswer(w) \/ Stopped(w) PROVE Stays
      BY <2>6 DEF StartDispatch, NoAnswer, Stopped, queue
    <2>7. ASSUME NEW w \in Workers, Enqueue(w) \/ Claim(w) PROVE Stays
      BY <2>7 DEF Enqueue, Queueable, Claim, Waiting, TypeOK, QueueOK, Settled
    <2>8. ASSUME NEW w \in Workers, Sweep(w) PROVE Stays
      BY <2>8 DEF Sweep, Swept, Lapsed, TypeOK, QueueOK, Settled
    <2>9. ASSUME NEW w \in Workers, Check(w) PROVE Stays
      BY <2>9 DEF Check, TypeOK, QueueOK, Settled
    <2>10. ASSUME NEW w \in Workers, Record(w) PROVE Stays
      BY <2>10 DEF Record, Result, Holds, TypeOK, QueueOK, Settled
    <2>11. QED
      BY <2>2, <2>4, <2>5, <2>6, <2>7, <2>8, <2>9, <2>10 DEF Next, DispatchStep
  <1>2. QED
    BY <1>1, Inductive, PTL DEF Spec, SettledIsFinal
=============================================================================
