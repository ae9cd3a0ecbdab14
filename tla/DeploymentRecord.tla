-------------------------- MODULE DeploymentRecord --------------------------
(* What GitHub's record of a production deployment promises its readers     *)
(* (docs/production-promotion-runbook.md): a deployment is opened, comes    *)
(* into progress, and ends in success or in failure for ever.  Success is   *)
(* only recorded of a deployment whose health was verified, and failure     *)
(* only of one whose health was not.                                        *)

CONSTANT Attempts

VARIABLES
    status,     \* status[a]: the latest status of the deployment of a
    verified    \* the attempts whose health, version and image were verified

vars == <<status, verified>>

Statuses == {"none", "created", "in_progress", "failure", "success"}

Init ==
    /\ status = [a \in Attempts |-> "none"]
    /\ verified = {}

Becomes(a, s) == status' = [status EXCEPT ![a] = s]

Open(a) ==
    /\ status[a] = "none"
    /\ Becomes(a, "created")
    /\ UNCHANGED verified

Progress(a) ==
    /\ status[a] = "created"
    /\ Becomes(a, "in_progress")
    /\ UNCHANGED verified

Verify(a) ==
    /\ status[a] = "in_progress"
    /\ verified' = verified \cup {a}
    /\ UNCHANGED status

Fail(a) ==
    /\ status[a] \in {"created", "in_progress"}
    /\ a \notin verified
    /\ Becomes(a, "failure")
    /\ UNCHANGED verified

Succeed(a) ==
    /\ status[a] = "in_progress"
    /\ a \in verified
    /\ Becomes(a, "success")
    /\ UNCHANGED verified

Next == \E a \in Attempts :
    Open(a) \/ Progress(a) \/ Verify(a) \/ Fail(a) \/ Succeed(a)

Spec == Init /\ [][Next]_vars
=============================================================================
