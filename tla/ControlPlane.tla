----------------------------- MODULE ControlPlane -----------------------------
(***************************************************************************)
(* One deployment request of the admin web, the attempts to execute it and *)
(* the workflow runs on GitHub they start (apps/admin-web/lib:             *)
(* control-plane.ts for what operators do, actions.ts for the callbacks of *)
(* the runs; .github/workflows/deploy-game-production.yml for the runs).   *)
(*                                                                         *)
(* A handler checks the rows it is about, reads the end of the audit chain *)
(* and then writes a batch, which the database executes as a whole.  The   *)
(* batch appends an audit event whose sequence number is unique, so that   *)
(* it fails once another handler has appended one: `fresh` says that the   *)
(* number a handler read is still free.  Nothing guards the time between   *)
(* the check and the reading of the chain, and the writes dispatchRequest  *)
(* makes outside a batch append no event.                                  *)
(*                                                                         *)
(* Why a preflight is refused beyond the state of the rows (an expired     *)
(* staging success, a revoked role, an artifact that is not sealed) is a   *)
(* choice.  The contents of audit events are left out, and so are rejected *)
(* and expired requests, which no code produces any more.                  *)
(***************************************************************************)
EXTENDS Naturals, Sequences, FiniteSets

CONSTANTS
    MaxAttempts,   \* bound on the attempts
    MaxTries,      \* bound on the executions of a run, re-runs included
    MaxCalls       \* bound on the handlers under way

Operators == {"submit_request", "cancel_request", "authorize_recovery", "recover_publication",
              "reconcile", "dispatch_request"}
Callbacks == {"preflight", "reject", "status", "binding_status"}

ASSUME ControlBoundsAssumption == {MaxAttempts, MaxTries, MaxCalls} \subseteq Nat \ {0}

VARIABLES
    state,      \* deployment_requests.state
    attempts,   \* execution_attempts, by attempt number
    runs,       \* the workflow run of each attempt
    calls,      \* the handlers under way
    unsettled,  \* a run began to switch the pointers, and neither a recorded
                \* success nor an operator's confirmation came after it
    overtaken   \* history: a callback or a failed dispatch was written although
                \* its attempt had ended or gone on without it (see Late)

controlVars == <<state, attempts, runs, calls, unsettled, overtaken>>
db == <<state, attempts>>

Attempts == 1..MaxAttempts
Terminal == {"succeeded", "failed_retryable", "failed_terminal", "recovery_required"}
Switching == {"publishing_pointers", "verifying"}
Active == {"dispatched", "running"} \cup Switching

\* A run is at the next thing it does; in the report steps that is to tell
\* the control plane of a failure.
Reports == {"refused", "invalid", "broken", "half_switched"}
Completed == {"success", "failure", "cancelled"}
Publishing == {"intake", "build", "upload", "promote", "verify"} \cup Reports
Underway == {"authorize", "queued"} \cup Publishing

ControlInit ==
    /\ state \in {"ready", "pending_approval"}
    /\ attempts = <<>>
    /\ runs = [a \in Attempts |-> [step |-> "none", try |-> 0]]
    /\ calls = {}
    /\ unsettled = FALSE
    /\ overtaken = FALSE

------------------------------------------------------------------------------
(* Handlers *)

\* What a handler remembers: the attempt and the execution of its run it is
\* about, the stage and result it will write, and whether the run waits.
Call(op, a, try, stage, result, client) ==
    [op |-> op, a |-> a, try |-> try, stage |-> stage, result |-> result,
     client |-> client, at |-> "checked", fresh |-> FALSE]

Begin(c) ==
    /\ Cardinality(calls) < MaxCalls
    /\ calls' = calls \cup {c}

\* The handler is done; no audit event was appended.
Without(c) == calls \ {c}

\* Its audit event takes the number every other handler has read.
Outdated(ds) == {[d EXCEPT !.fresh = FALSE] : d \in ds}

\* The last event of the chain is read.
Chain(c) ==
    /\ c.at = "checked"
    /\ calls' = Without(c) \cup {[c EXCEPT !.at = "chained", !.fresh = TRUE]}
    /\ UNCHANGED <<db, runs, unsettled>>

\* The batch of a handler goes through.
Lands(c, op) == c.op = op /\ c.at = "chained" /\ c.fresh

\* What a run does after a callback that was taken, or one that failed.
Onward == [authorize |-> "queued", intake |-> "build", build |-> "upload",
           upload |-> "promote", promote |-> "verify", verify |-> "success",
           refused |-> "failure", invalid |-> "failure", broken |-> "failure",
           half_switched |-> "failure"]
Fallback == [authorize |-> "refused", intake |-> "refused", build |-> "broken",
             upload |-> "broken", promote |-> "half_switched", verify |-> "half_switched",
             refused |-> "failure", invalid |-> "failure", broken |-> "failure",
             half_switched |-> "failure"]

\* The answer to a callback reaches the run if it still waits.
Reply(c, table) ==
    runs' = IF c.client THEN [runs EXCEPT ![c.a].step = table[@]] ELSE runs

\* The batch fails for its audit number, or the Worker is stopped.
Abandon(c) ==
    /\ calls' = Without(c)
    /\ Reply(c, Fallback)
    /\ UNCHANGED <<db, unsettled>>

------------------------------------------------------------------------------
(* What operators do without starting a run *)

Operator(op) == Call(op, 0, 0, "none", "none", FALSE)

\* The states an operation starts from and the one it leads to.
From == [submit_request |-> {"ready", "pending_approval"},
         cancel_request |-> {"ready", "pending_approval", "approved", "failed_retryable"},
         authorize_recovery |-> {"recovery_required", "failed_terminal"},
         recover_publication |-> {"succeeded"}]
To == [submit_request |-> "approved", cancel_request |-> "cancelled",
       authorize_recovery |-> "failed_retryable", recover_publication |-> "approved"]

\* The row is read and its state allows the operation.
StartOperation(op) ==
    /\ state \in From[op]
    /\ Begin(Operator(op))
    /\ UNCHANGED <<db, runs, unsettled>>

\* submitRequest and recoverPublication go on as dispatchRequest; the latter
\* only if its update found the state it had read.
GoesOn(c) == \/ c.op = "submit_request"
             \/ c.op = "recover_publication" /\ state \in From[c.op]
Dispatching == [Operator("dispatch_request") EXCEPT !.at = "begun"]

FinishOperation(c) ==
    /\ c.op \in DOMAIN From /\ Lands(c, c.op)
    /\ state' = IF state \in From[c.op] THEN To[c.op] ELSE state
    /\ unsettled' = (unsettled /\ ~(c.op = "authorize_recovery" /\ state \in From[c.op]))
    /\ calls' = Outdated(Without(c)) \cup (IF GoesOn(c) THEN {Dispatching} ELSE {})
    /\ UNCHANGED <<attempts, runs>>

(***************************************************************************)
(* reconcileCancelledRun: the latest attempt is read, GitHub is asked, and *)
(* only then the audit chain is read.                                      *)
(***************************************************************************)

Last == Len(attempts)

\* Once the switch of the pointers may have begun an operator has to look.
Verdict(stage) == IF stage \in Switching THEN "recovery_required" ELSE "failed_retryable"

\* The request is read; what it says is looked at with the attempt.
StartReconcile ==
    /\ state \in Active
    /\ Begin([Operator("reconcile") EXCEPT !.at = "begun"])
    /\ UNCHANGED <<db, runs, unsettled>>

ReadAttempt(c) ==
    /\ c.op = "reconcile" /\ c.at = "begun"
    /\ Last > 0 /\ attempts[Last].result = "queued" /\ attempts[Last].try > 0
    /\ LET t == attempts[Last]
           asking == [Call("reconcile", Last, t.try, t.stage, Verdict(t.stage), FALSE)
                         EXCEPT !.at = "asking"] IN
       calls' = Without(c) \cup {asking}
    /\ UNCHANGED <<db, runs, unsettled>>

\* Mutant of RunIsCancelled: the conclusion of the run is not looked at.
RunIsAnything(c) ==
    /\ c.op = "reconcile" /\ c.at = "asking"
    /\ calls' = Without(c) \cup {[c EXCEPT !.at = "checked"]}
    /\ UNCHANGED <<db, runs, unsettled>>

\* GitHub says that this very execution of the run was cancelled.
RunIsCancelled(c) ==
    /\ c.op = "reconcile" /\ c.at = "asking"
    /\ runs[c.a] = [step |-> "cancelled", try |-> c.try]
    /\ calls' = Without(c) \cup {[c EXCEPT !.at = "checked"]}
    /\ UNCHANGED <<db, runs, unsettled>>

\* Mutant of Unmoved: the stage is not compared again.
UnmovedButStage(c) == attempts[c.a].result = "queued" /\ attempts[c.a].try = c.try
\* The attempt is still as it was read.
Unmoved(c) == attempts[c.a].result = "queued" /\ attempts[c.a].stage = c.stage /\ attempts[c.a].try = c.try

FinishReconcile(c) ==
    /\ Lands(c, "reconcile")
    /\ IF Unmoved(c)
       THEN attempts' = [attempts EXCEPT ![c.a].result = c.result] /\ state' = c.result
       ELSE UNCHANGED db
    /\ calls' = Outdated(Without(c))
    /\ UNCHANGED <<runs, unsettled>>

------------------------------------------------------------------------------
(***************************************************************************)
(* dispatchRequest: claims the request, inserts the attempt, and calls     *)
(* GitHub.  The first and the last of its writes append no audit event.    *)
(***************************************************************************)

Dispatchable == {"approved", "failed_retryable"}
NextAttempt == Last + 1

\* The request is read, the number of its last attempt only after it.
Readied == [Dispatching EXCEPT !.result = state, !.at = "numbering"]

StartDispatch ==
    /\ state \in Dispatchable
    /\ Begin(Readied)
    /\ UNCHANGED <<db, runs, unsettled>>

CheckDispatch(c) ==
    /\ c.op = "dispatch_request" /\ c.at = "begun"
    /\ state \in Dispatchable
    /\ calls' = Without(c) \cup {Readied}
    /\ UNCHANGED <<db, runs, unsettled>>

NumberAttempt(c) ==
    /\ c.op = "dispatch_request" /\ c.at = "numbering"
    /\ NextAttempt \in Attempts
    /\ calls' = Without(c) \cup {[c EXCEPT !.a = NextAttempt, !.at = "checked"]}
    /\ UNCHANGED <<db, runs, unsettled>>

Claim(c) ==
    /\ c.op = "dispatch_request" /\ c.at = "chained"
    /\ state \in Dispatchable
    /\ state' = "dispatched"
    /\ calls' = Without(c) \cup {[c EXCEPT !.at = "claimed"]}
    /\ UNCHANGED <<attempts, runs, unsettled>>

InsertAttempt(c) ==
    /\ c.op = "dispatch_request" /\ c.at = "claimed"
    /\ c.fresh /\ c.a = NextAttempt
    /\ attempts' = Append(attempts, [stage |-> "dispatching", result |-> "queued", try |-> 0])
    /\ calls' = Outdated(Without(c)) \cup {[c EXCEPT !.at = "inserted", !.fresh = FALSE]}
    /\ UNCHANGED <<state, runs, unsettled>>

\* The insertion failed: the claim is taken back.
Unclaim(c) ==
    /\ c.op = "dispatch_request" /\ c.at = "claimed"
    /\ ~(c.fresh /\ c.a = NextAttempt)
    /\ state' = IF state = "dispatched" THEN c.result ELSE state
    /\ calls' = Without(c)
    /\ UNCHANGED <<attempts, runs, unsettled>>

\* Mutant of RunStarts: the workflow is dispatched before its attempt is there.
EarlyRunStarts(c) ==
    /\ c.op = "dispatch_request" /\ c.at = "claimed"
    /\ runs' = [runs EXCEPT ![c.a] = [step |-> "authorize", try |-> 1]]
    /\ calls' = Without(c) \cup {[c EXCEPT !.at = "accepted"]}
    /\ UNCHANGED <<db, unsettled>>

\* GitHub starts the run.
RunStarts(c) ==
    /\ c.op = "dispatch_request" /\ c.at = "inserted"
    /\ runs' = [runs EXCEPT ![c.a] = [step |-> "authorize", try |-> 1]]
    /\ calls' = Without(c) \cup {[c EXCEPT !.at = "accepted"]}
    /\ UNCHANGED <<db, unsettled>>

DispatchEnds(c) ==
    /\ c.op = "dispatch_request" /\ c.at = "accepted"
    /\ calls' = Without(c)
    /\ UNCHANGED <<db, runs, unsettled>>

\* Mutant of DispatchFails: only the request is set back.
DispatchHalfFails(c) ==
    /\ c.op = "dispatch_request" /\ c.at \in {"inserted", "accepted"}
    /\ state' = "failed_retryable"
    /\ calls' = Without(c)
    /\ UNCHANGED <<attempts, runs, unsettled>>

\* GitHub refuses, or its answer does not arrive.
DispatchFails(c) ==
    /\ c.op = "dispatch_request" /\ c.at \in {"inserted", "accepted"}
    /\ attempts' = [attempts EXCEPT ![c.a].stage = "dispatch", ![c.a].result = "failed"]
    /\ state' = "failed_retryable"
    /\ calls' = Without(c)
    /\ UNCHANGED <<runs, unsettled>>

------------------------------------------------------------------------------
(* The callbacks of a run *)

\* A run does one thing at a time.
Waiting(a) == \E c \in calls : c.client /\ c.a = a
Free(a) == runs[a].step \in Underway /\ ~Waiting(a)

Steps(a, step) == runs' = [runs EXCEPT ![a].step = step]

Queued(a) == attempts[a].result = "queued"

Preflights(a) == Free(a) /\ runs[a].step \in {"authorize", "intake"}

\* The attempt's own run asks: no other knows the attempt's id.
Runnable(a) == state \in {"dispatched", "running"} /\ Queued(a)

Preflight(a) ==
    /\ Preflights(a)
    /\ Runnable(a)
    /\ Begin(Call("preflight", a, runs[a].try, "preflight", "queued", TRUE))
    /\ UNCHANGED <<db, runs, unsettled>>

\* Refused for the state of the rows or for what else preflightRequest asks.
\* The refusal is recorded if the attempt has not ended.
PreflightRefused(a) ==
    /\ Preflights(a)
    /\ IF Queued(a)
       THEN /\ Begin(Call("reject", a, runs[a].try, "preflight", "failed_terminal", TRUE))
            /\ UNCHANGED runs
       ELSE Steps(a, Fallback[runs[a].step]) /\ UNCHANGED calls
    /\ UNCHANGED <<db, unsettled>>

\* The attempt is bound to the execution of the run that asks.
Bound(c) == [stage |-> "preflight", result |-> c.result, try |-> c.try]

\* The route answers every error of preflightRequest with a rejection.
Rejection(c) == [c EXCEPT !.op = "reject", !.result = "failed_terminal",
                          !.at = "checked", !.fresh = FALSE]

\* Also when the download address cannot be issued after the batch.
PreflightPasses(c) ==
    /\ Lands(c, "preflight")
    /\ attempts' = IF Queued(c.a) THEN [attempts EXCEPT ![c.a] = Bound(c)] ELSE attempts
    /\ state' = IF state = "dispatched" THEN "running" ELSE state
    /\ \/ Reply(c, Onward) /\ calls' = Outdated(Without(c))
       \/ Queued(c.a) /\ calls' = Outdated(Without(c)) \cup {Rejection(c)} /\ UNCHANGED runs
    /\ UNCHANGED unsettled

\* The batch fails.
PreflightFails(c) ==
    /\ c.op = "preflight" /\ c.at = "chained"
    /\ Queued(c.a)
    /\ calls' = Without(c) \cup {Rejection(c)}
    /\ UNCHANGED <<db, runs, unsettled>>

PreflightRejected(c) ==
    /\ Lands(c, "reject")
    /\ attempts' = IF Queued(c.a) THEN [attempts EXCEPT ![c.a] = Bound(c)] ELSE attempts
    /\ state' = "failed_terminal"
    /\ Reply(c, Fallback)
    /\ calls' = Outdated(Without(c))
    /\ UNCHANGED unsettled

\* The stage and the result a run tells at each step.
Message == [build |-> <<"uploading_immutable", "queued">>,
            upload |-> <<"publishing_pointers", "queued">>,
            promote |-> <<"verifying", "queued">>,
            verify |-> <<"verifying", "succeeded">>,
            refused |-> <<"preflight", "failed_retryable">>,
            invalid |-> <<"preflight", "failed_terminal">>,
            broken |-> <<"failed", "failed_retryable">>,
            half_switched |-> <<"failed", "recovery_required">>]

\* A failed preflight binds an attempt that no run has been bound to.
Binds(a, stage) == stage = "preflight" /\ attempts[a].try = 0
Accepted(a, stage) == Queued(a) /\ (Binds(a, stage) \/ attempts[a].try = runs[a].try)

Status(a) ==
    /\ Free(a) /\ runs[a].step \in DOMAIN Message
    /\ LET m == Message[runs[a].step]
           op == IF Binds(a, m[1]) THEN "binding_status" ELSE "status" IN
       /\ Accepted(a, m[1])
       /\ Begin(Call(op, a, runs[a].try, m[1], m[2], TRUE))
    /\ UNCHANGED <<db, runs, unsettled>>

StatusRefused(a) ==
    /\ Free(a) /\ runs[a].step \in DOMAIN Message
    /\ ~Accepted(a, Message[runs[a].step][1])
    /\ Steps(a, Fallback[runs[a].step])
    /\ UNCHANGED <<db, calls, unsettled>>

\* The attempt after the two updates of its row.
Reported(c) ==
    LET t == attempts[c.a]
        try == IF c.op = "binding_status" THEN c.try ELSE t.try IN
    IF t.result = "queued" THEN [stage |-> c.stage, result |-> c.result, try |-> try]
    ELSE [t EXCEPT !.try = try]

StatusRecorded(c) ==
    /\ c.op \in {"status", "binding_status"} /\ Lands(c, c.op)
    /\ attempts' = [attempts EXCEPT ![c.a] = Reported(c)]
    /\ state' = IF c.result \in Terminal THEN c.result
                ELSE IF c.stage \in Switching THEN c.stage ELSE "running"
    /\ Reply(c, Onward)
    /\ unsettled' = (c.result # "succeeded" /\ (unsettled \/ (c.client /\ runs[c.a].step = "upload")))
    /\ calls' = Outdated(Without(c))

------------------------------------------------------------------------------
(* The runs on GitHub *)

\* The publish job waits for the one of every other run to end.
StartPublish(a) ==
    /\ runs[a].step = "queued"
    /\ \A b \in Attempts : runs[b].step \notin Publishing
    /\ Steps(a, "intake")
    /\ UNCHANGED <<db, calls, unsettled>>

\* A run stops waiting for what it has asked.
LeftAlone(a) == calls' = {IF c.client /\ c.a = a THEN [c EXCEPT !.client = FALSE] ELSE c : c \in calls}

\* A step of the run fails, or a callback is not answered in time.
StepFails(a) ==
    /\ runs[a].step \in DOMAIN Fallback
    /\ Steps(a, Fallback[runs[a].step])
    /\ LeftAlone(a)
    /\ UNCHANGED <<db, unsettled>>

\* The publish job fails before it asks for the artifact.
SetupFails(a) ==
    /\ Free(a) /\ runs[a].step = "intake"
    /\ Steps(a, "broken")
    /\ UNCHANGED <<db, calls, unsettled>>

\* The artifact cannot be fetched, or does not match the request.
ArtifactInvalid(a) ==
    /\ Free(a) /\ runs[a].step = "build"
    /\ \E step \in {"refused", "invalid"} : Steps(a, step)
    /\ UNCHANGED <<db, calls, unsettled>>

CancelRun(a) ==
    /\ runs[a].step \in Underway
    /\ Steps(a, "cancelled")
    /\ LeftAlone(a)
    /\ UNCHANGED <<db, unsettled>>

\* All jobs are executed again; re-running only the failed ones skips the
\* first of the two preflights.  One run at most reaches MaxTries.
Rerun(a) ==
    /\ runs[a].step \in Completed /\ \A b \in Attempts : runs[b].try < MaxTries
    /\ runs' = [runs EXCEPT ![a] = [step |-> "authorize", try |-> @.try + 1]]
    /\ UNCHANGED <<db, calls, unsettled>>

------------------------------------------------------------------------------

Operations ==
    \/ \E op \in DOMAIN From : StartOperation(op)
    \/ StartReconcile
    \/ StartDispatch

Handlers(c) ==
    \/ Chain(c) \/ Abandon(c) \/ FinishOperation(c)
    \/ ReadAttempt(c) \/ RunIsCancelled(c) \/ FinishReconcile(c)
    \/ CheckDispatch(c) \/ NumberAttempt(c) \/ Claim(c) \/ InsertAttempt(c) \/ Unclaim(c)
    \/ RunStarts(c) \/ DispatchEnds(c) \/ PreflightFails(c)

Run(a) ==
    \/ Preflight(a) \/ PreflightRefused(a) \/ Status(a) \/ StatusRefused(a)
    \/ StartPublish(a) \/ StepFails(a) \/ SetupFails(a) \/ ArtifactInvalid(a) \/ CancelRun(a) \/ Rerun(a)

\* The writes whose handlers nothing stops once what they are about is over.
Landings(c) == PreflightPasses(c) \/ PreflightRejected(c) \/ StatusRecorded(c) \/ DispatchFails(c)

\* The attempt has ended, which makes the binding of a preflight idle, or it is
\* bound to a later execution than the one, or none, the handler is about.
Late(c) ==
    \/ ~Queued(c.a) /\ c.op # "preflight"
    \/ Queued(c.a) /\ c.try < attempts[c.a].try

ControlNext ==
    \/ \E c \in calls : Landings(c) /\ overtaken' = (overtaken \/ Late(c))
    \/ /\ Operations \/ (\E c \in calls : Handlers(c)) \/ (\E a \in Attempts : Run(a))
       /\ UNCHANGED overtaken

ControlSpec == ControlInit /\ [][ControlNext]_controlVars

------------------------------------------------------------------------------
(* Properties *)

Results == Terminal \cup {"queued", "failed"}
Stages == {"dispatching", "dispatch", "preflight", "uploading_immutable", "failed"} \cup Switching
States == {"ready", "pending_approval", "approved", "cancelled"} \cup Active \cup Terminal

\* The rows have their types; a handler is about an attempt that is there, or
\* the one it is about to insert.
ControlTypeOK ==
    /\ state \in States
    /\ attempts \in Seq([stage : Stages, result : Results, try : 0..MaxTries])
    /\ Last <= MaxAttempts
    /\ runs \in [Attempts -> [step : Underway \cup Completed \cup {"none"}, try : 0..MaxTries]]
    /\ \A a \in Attempts : runs[a].step # "none" => a <= Last
    /\ \A c \in calls : c.a \in 0 .. (IF c.op = "dispatch_request" THEN Last + 1 ELSE Last)
    /\ unsettled \in BOOLEAN
    /\ overtaken \in BOOLEAN

\* While the pointers may be half switched the request can be tried again only
\* after an operator has confirmed it (recovery_required, authorizeRecovery).
NoBlindRetry == unsettled /\ ~overtaken => state \in Switching \cup {"recovery_required", "failed_terminal"}

\* Only the latest attempt is under way (dispatchRequest: never start the same
\* deployment twice).
OneUnderWay == ~overtaken => \A a \in 1..Last : Queued(a) => a = Last

\* No run switches the pointers for an attempt that was replaced.
NoStalePromotion ==
    ~overtaken => \A a \in 1..Last : runs[a].step \in {"promote", "verify"} => a = Last

\* What can be done with a request in a state, and the results of its attempts.
Phase(s) == CASE s \in {"ready", "pending_approval", "approved", "failed_retryable"} -> "open"
              [] s \in Active -> "busy"
              [] s \in {"failed_terminal", "recovery_required"} -> "blocked"
              [] s = "succeeded" -> "done"
              [] s = "cancelled" -> "cancelled"
Outcomes == [a \in 1..Last |-> attempts[a].result]

Abstract == INSTANCE Deployment WITH phase <- Phase(state), results <- Outcomes

\* Every step of the handlers, reports and runs is one of the abstract deployment, or
\* none: attempts follow each other, each ends once, and a half switched request is
\* opened only by success or an operator.
DeploymentImplemented == Abstract!DeploymentSpec

=============================================================================
