--------------------------- MODULE JobLifecycle ---------------------------
(***************************************************************************)
(* What the job daemon promises about the status of one job, whatever the  *)
(* threads of the daemon and its crashes do in between.  A job is offered  *)
(* by a client, then accepted or refused; an accepted job is queued, runs  *)
(* at most once, and ends in exactly one of three final statuses.          *)
(***************************************************************************)
CONSTANT Job

VARIABLE status

Terminal == {"succeeded", "failed", "cancelled"}

Status == {"absent", "offered", "queued", "running", "cancellation_requested"}
            \cup Terminal

(***************************************************************************)
(* The moves of one job.  A running job may also end because the daemon    *)
(* was interrupted: that is the move to "failed", like an error of the     *)
(* generation.  Nothing leaves a final status and nothing returns to       *)
(* "queued", which is what makes a job run at most once.                   *)
(***************************************************************************)
Moves ==
  ({"absent"} \X {"offered"})
    \cup ({"offered"} \X {"queued", "failed", "cancelled"})
    \cup ({"queued"} \X {"running", "cancelled"})
    \cup ({"running"} \X {"succeeded", "failed", "cancellation_requested"})
    \cup ({"cancellation_requested"} \X {"cancelled"})

Init == status = [j \in Job |-> "absent"]

(* One step of the daemon may move several jobs: a restart settles every   *)
(* interrupted job, and the death of the daemon every job being offered.   *)
Next ==
  /\ status' \in [Job -> Status]
  /\ \A j \in Job : status'[j] = status[j] \/ <<status[j], status'[j]>> \in Moves

Spec == Init /\ [][Next]_status
===========================================================================
