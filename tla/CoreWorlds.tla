----------------------------- MODULE CoreWorlds -----------------------------
(***************************************************************************)
(* The worlds that workflows change, each a module of its own; their safety *)
(* is proved in CoreWorldsProofs, that of the runtime trees in             *)
(* RuntimeTreesProofs.                                                     *)
(***************************************************************************)
EXTENDS WorldState

RuntimeWorld == INSTANCE RuntimeTrees WITH Updates <- TreesUpdates, MaxFaults <- TreesFaults
Restore == INSTANCE ProfileRestore WITH MaxFaults <- RestoreFaults
Activation == INSTANCE ModelActivation WITH MaxFaults <- ActivationFaults
Cleanup == INSTANCE StorageCleanup WITH MaxFaults <- CleanupFaults
Integration == INSTANCE IntegrationSetup WITH MaxFaults <- IntegrationFaults
Calibration == INSTANCE ProfileCalibration WITH MaxFaults <- CalibrationFaults

\* No tree is a state of its own.
ASSUME TreesAssumption == None \notin {"tree", "other"}

\* None is neither a model nor a handoff.
ASSUME ActivationAssumption ==
    /\ None \notin Activation!Models
    /\ None \notin [model : Activation!Models \cup {None}, rev : Nat]

\* None is not what a database says of the operation.
ASSUME RestoreAssumption ==
    None \notin [at : 1..7, row : {"PENDING", "RUNNING", "CHECKPOINTED"},
                 end : {"none"} \cup Restore!Terminal]

\* None is no captured baseline.
ASSUME CalibrationAssumption == None \notin [config : {None, "base"}, serving : BOOLEAN]

\* None is no set of clients that a setup created.
ASSUME IntegrationAssumption == \A some \in SUBSET {"webui", "external"} : None # some

\* None is no tree, no row of the registry and no snapshot.
ASSUME RuntimeAssumption ==
    /\ TreesUpdates \in Nat /\ None \notin Nat
    /\ None \notin [loc : RuntimeWorld!Trees, role : {"CANDIDATE", "ACTIVE_OBSERVED", "RETAINED"}]
    /\ None \notin
         [active : RuntimeWorld!Trees, activeTree : RuntimeWorld!Trees,
          targetTree : RuntimeWorld!Trees, targetLoc : RuntimeWorld!Trees,
          promoted : RuntimeWorld!Trees \cup {None}, rollback : RuntimeWorld!Trees \cup {None},
          rollbackTree : RuntimeWorld!Trees \cup {None}, generation : Nat,
          known : RuntimeWorld!Trees \cup {None}, handoff : RuntimeWorld!Handoff,
          serving : BOOLEAN]

=============================================================================
