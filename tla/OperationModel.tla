--------------------------- MODULE OperationModel ---------------------------
(***************************************************************************)
(* The closed vocabularies of a durable operation (operations/model.py)    *)
(* and the recovery decision for an interrupted step                       *)
(* (operations/recovery.py).  No state: every other module extends this.   *)
(***************************************************************************)

OperationState ==
    {"QUEUED", "PREPARING", "RUNNING", "VERIFYING", "COMMITTING", "CANCEL_REQUESTED",
     "ROLLING_BACK", "PAUSED",
     "SUCCEEDED", "CANCELLED", "FAILED_SAFE", "FAILED_ROLLED_BACK", "RECOVERY_REQUIRED"}

Terminal ==
    {"SUCCEEDED", "CANCELLED", "FAILED_SAFE", "FAILED_ROLLED_BACK", "RECOVERY_REQUIRED"}

StepState ==
    {"PENDING", "RUNNING", "CHECKPOINTED", "VERIFIED", "COMPENSATING", "COMPENSATED", "FAILED"}

\* The frozen table; terminals have no outgoing transitions.
Transitions ==
    [QUEUED           |-> {"PREPARING", "CANCEL_REQUESTED", "CANCELLED", "PAUSED", "FAILED_SAFE"},
     PREPARING        |-> {"RUNNING", "ROLLING_BACK", "CANCEL_REQUESTED", "PAUSED", "FAILED_SAFE"},
     RUNNING          |-> {"VERIFYING", "COMMITTING", "ROLLING_BACK", "CANCEL_REQUESTED", "PAUSED",
                           "FAILED_SAFE", "FAILED_ROLLED_BACK", "RECOVERY_REQUIRED"},
     VERIFYING        |-> {"COMMITTING", "ROLLING_BACK", "CANCEL_REQUESTED", "PAUSED",
                           "FAILED_SAFE", "FAILED_ROLLED_BACK", "RECOVERY_REQUIRED"},
     COMMITTING       |-> {"VERIFYING", "ROLLING_BACK", "SUCCEEDED", "FAILED_SAFE",
                           "FAILED_ROLLED_BACK", "RECOVERY_REQUIRED"},
     CANCEL_REQUESTED |-> {"ROLLING_BACK", "CANCELLED"},
     ROLLING_BACK     |-> {"CANCELLED", "FAILED_ROLLED_BACK", "RECOVERY_REQUIRED"},
     PAUSED           |-> {"PREPARING", "RUNNING", "VERIFYING", "CANCEL_REQUESTED", "CANCELLED",
                           "FAILED_SAFE"}]

CanTransition(current, target) ==
    current \notin Terminal /\ target \in Transitions[current]

\* What an interrupted step's external effect looks like.
RecoveryClass ==
    {"ABSENT", "COMPLETE", "PARTIALLY_RESUMABLE", "DISCARDABLE", "REVERTIBLE",
     "UNCERTAIN_MANUAL"}

\* decide_recovery, as the engine calls it (for a RUNNING step, with automatic
\* recovery allowed).
DecideRecovery(class, quiescent) ==
    CASE class = "UNCERTAIN_MANUAL"    -> IF quiescent THEN "PAUSE" ELSE "REQUIRE_RECOVERY"
      [] class = "ABSENT"              -> "EXECUTE"
      [] class = "COMPLETE"            -> "VERIFY"
      [] class = "PARTIALLY_RESUMABLE" -> "RESUME"
      [] class = "DISCARDABLE"         -> "DISCARD_AND_RETRY"
      [] class = "REVERTIBLE"          -> "ROLL_BACK"

=============================================================================
