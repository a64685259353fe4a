----------------------------- MODULE Deployment -----------------------------
(***************************************************************************)
(* What the control plane promises of one production request to those who *)
(* operate it, without the handlers, reports and runs that keep the        *)
(* promise (ControlPlane implements it): the attempts to execute a request *)
(* follow each other, each ends once, and while the pointers may be half   *)
(* switched nothing but success, or an operator, opens it for another one. *)
(*                                                                         *)
(* The promise ends when a report, or the failure of a dispatch, is taken  *)
(* for what has gone on without it (Overtake).  From then on the phase     *)
(* need not agree with the attempts; which steps may move it, and that an  *)
(* attempt ends once, is promised all the same.                            *)
(***************************************************************************)
EXTENDS Naturals, Sequences

VARIABLES
    phase,      \* what can be done with the request
    results,    \* of its attempts, one after the other
    unsettled,  \* the pointers may be half switched
    overtaken   \* a report or a failed dispatch was taken that came too late

deploymentVars == <<phase, results, unsettled, overtaken>>

Queued(a) == results[a] = "queued"
Tried == 1..Len(results)
UnderWay == \E a \in Tried : Queued(a)

\* What holds of the attempts as long as nothing came too late.
Idle == overtaken \/ ~UnderWay
Executing == overtaken \/ (phase = "busy" /\ UnderWay)

\* What the end of an attempt makes of the request.
Leads == [succeeded |-> "done", failed |-> "open", failed_retryable |-> "open",
          failed_terminal |-> "blocked", recovery_required |-> "blocked"]

DeploymentInit == phase = "open" /\ results = <<>> /\ unsettled = FALSE /\ overtaken = FALSE

\* A dispatch takes the request, so that no other one can.
Claim ==
    /\ phase = "open"
    /\ phase' = "busy"
    /\ UNCHANGED <<results, unsettled, overtaken>>

\* It gives the request back as long as there is no attempt.
Release ==
    /\ phase = "busy" /\ Idle
    /\ phase' = "open"
    /\ UNCHANGED <<results, unsettled, overtaken>>

Try ==
    /\ overtaken \/ phase = "busy"
    /\ Idle
    /\ results' = Append(results, "queued")
    /\ UNCHANGED <<phase, unsettled, overtaken>>

\* An attempt goes on, and may begin to switch the pointers.
GoOn ==
    /\ Executing
    /\ phase' = "busy"
    /\ unsettled' \in {unsettled, TRUE}
    /\ UNCHANGED <<results, overtaken>>

Ended(a, result) == results' = [results EXCEPT ![a] = result]

End(a, result) ==
    /\ Queued(a) /\ Executing
    /\ unsettled /\ ~overtaken => Leads[result] # "open"
    /\ Ended(a, result)
    /\ phase' = Leads[result]
    /\ unsettled' = (unsettled /\ result # "succeeded")
    /\ UNCHANGED overtaken

\* An operator has looked at what is published.
Confirm ==
    /\ phase = "blocked" /\ Idle
    /\ phase' = "open"
    /\ unsettled' = FALSE
    /\ UNCHANGED <<results, overtaken>>

\* A release that is known to be good is published again.
Revise ==
    /\ phase = "done" /\ Idle
    /\ phase' = "open"
    /\ UNCHANGED <<results, unsettled, overtaken>>

Cancel ==
    /\ phase = "open" /\ Idle
    /\ phase' = "cancelled"
    /\ UNCHANGED <<results, unsettled, overtaken>>

\* A report of an attempt that has ended, or of an execution that was followed
\* by another one: it ends no attempt twice, but moves the request.
ReportLate(a) ==
    \E result \in DOMAIN Leads \cup {"queued"} :
        /\ IF Queued(a) THEN Ended(a, result) ELSE UNCHANGED results
        /\ phase' = IF result = "queued" THEN "busy" ELSE Leads[result]
        /\ unsettled' \in {unsettled /\ result # "succeeded", result # "succeeded"}

\* The binding of an execution that was followed by another one.
BindLate == UNCHANGED <<phase, results, unsettled>>

\* The failure of a dispatch whose attempt is executed, or was.
FailLate(a) ==
    /\ Ended(a, "failed")
    /\ phase' = "open"
    /\ UNCHANGED unsettled

Overtake ==
    /\ \E a \in Tried : ReportLate(a) \/ BindLate \/ FailLate(a)
    /\ overtaken' = TRUE

DeploymentNext ==
    \/ Claim \/ Release \/ Try \/ GoOn \/ Confirm \/ Revise \/ Cancel \/ Overtake
    \/ \E a \in Tried, result \in DOMAIN Leads : End(a, result)

DeploymentSpec == DeploymentInit /\ [][DeploymentNext]_deploymentVars
=============================================================================
