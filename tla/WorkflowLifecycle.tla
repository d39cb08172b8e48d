------------------------- MODULE WorkflowLifecycle --------------------------
(***************************************************************************)
(* What the live scheduler promises of one workflow: the life of each      *)
(* stage, and when the workflow stops.  Nothing is said of ticks, claims,  *)
(* rows or statements; LiveScheduler implements this.                      *)
(***************************************************************************)
CONSTANT Stages

VARIABLES
  wf,     \* orchestration_workflow_instance.status
  status  \* orchestration_workflow_stage.status

vars == <<wf, status>>

Finished == {"succeeded", "skipped", "failed_transient"}

Init ==
  /\ wf = "running"
  /\ status = [s \in Stages |-> "pending"]

\* One stage takes one step of its life.  No stage goes back: each runs at most
\* once and a branch decision is never taken again.  A workflow that is stopped
\* or completed does not move.
Move(s, from, to) ==
  /\ wf = "running"
  /\ status[s] = from
  /\ status' = [status EXCEPT ![s] = to]
  /\ UNCHANGED wf

StageStep(s) ==
  \/ Move(s, "pending", "ready")
  \/ Move(s, "pending", "skipped")
  \/ Move(s, "ready", "running")
  \/ Move(s, "running", "succeeded")
  \/ Move(s, "running", "failed_transient")  \* interrupted by a crash

\* The workflow completes only when no stage has anything left to do.
Complete ==
  /\ wf = "running"
  /\ \A s \in Stages : status[s] \in Finished
  /\ wf' = "completed"
  /\ UNCHANGED status

\* A failed mandatory policy stops the workflow before any stage has begun.
SafeStop ==
  /\ wf = "running"
  /\ \A s \in Stages : status[s] = "pending"
  /\ wf' = "safe_stopped"
  /\ UNCHANGED status

Resume ==
  /\ wf = "safe_stopped"
  /\ wf' = "running"
  /\ UNCHANGED status

Next ==
  \/ \E s \in Stages : StageStep(s)
  \/ Complete
  \/ SafeStop
  \/ Resume

Spec == Init /\ [][Next]_vars
=============================================================================
