---------------------------- MODULE MCControlPlane ----------------------------
(* Instances of ControlPlane: the configurations bind its bounds. *)
EXTENDS ControlPlane

\* The stage and the binding of an attempt that has ended are never read again.
ControlView ==
    <<state, [a \in 1..Last |-> IF Queued(a) THEN attempts[a] ELSE attempts[a].result],
      runs, calls, unsettled, overtaken>>
=============================================================================
