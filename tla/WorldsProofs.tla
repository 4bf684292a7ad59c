---------------------------- MODULE WorldsProofs ----------------------------
(***************************************************************************)
(* What is proved of a component holds in the world that is about it: a    *)
(* behaviour keeps its focus, and a world in focus takes the steps of its  *)
(* module.                                                                 *)
(***************************************************************************)
EXTENDS MCWorlds, CoreWorldsProofs, RuntimeTreesProofs, SurfaceWorldsProofs

\* A behaviour is about one world.
LEMMA FocusKept == [WorldsNext]_worldVars => focus' = focus
  BY DEF WorldsNext, worldVars, LeasesStep, HostStep, RuntimeWorldStep, RestoreStep,
         ActivationStep, LibraryStep, CleanupStep, GatewayStep, CredentialStep, WebUIStep,
         IntegrationStep, DeskStep, ChatStep, DatabaseStep, SetupStep, DeliveryStep, RepairStep,
         CalibrationStep

\* The world in focus takes the steps of its module.
LEMMA FocusedStep ==
    ASSUME [WorldsNext]_worldVars
    PROVE  /\ focus = "hosts" => [Host!Next]_(Host!vars)
           /\ focus = "requests" => [Gateway!Next]_(Gateway!gatewayVars)
           /\ focus = "credential" => [Credential!Next]_(Credential!credentialVars)
           /\ focus = "cleanup" => [Cleanup!Next]_(Cleanup!cleanupVars)
           /\ focus = "activation" => [Activation!Next]_(Activation!activationVars)
           /\ focus = "webui" => [WebUI!Next]_(WebUI!webuiVars)
           /\ focus = "restore" => [Restore!Next]_(Restore!restoreVars)
           /\ focus = "repair" => [Repair!Next]_(Repair!repairVars)
           /\ focus = "calibration" => [Calibration!Next]_(Calibration!calibrationVars)
           /\ focus = "integration" => [Integration!Next]_(Integration!setupVars)
           /\ focus = "delivery" => [Delivery!Next]_(Delivery!deliveryVars)
           /\ focus = "desk" => [Desk!Next]_(Desk!deskVars)
           /\ focus = "trees" => [RuntimeWorld!Next]_(RuntimeWorld!treesVars)
           /\ focus = "database" => [Database!Next]_(Database!databaseVars)
           /\ focus = "setup" => [Setup!Next]_(Setup!setupVars)
<1> USE DEF WorldsNext, worldVars, LeasesStep, HostStep, RuntimeWorldStep, RestoreStep,
         ActivationStep, LibraryStep, CleanupStep, GatewayStep, CredentialStep, WebUIStep,
         IntegrationStep, DeskStep, ChatStep, DatabaseStep, SetupStep, DeliveryStep, RepairStep,
         CalibrationStep
<1>1. focus = "hosts" => [Host!Next]_(Host!vars)
  BY DEF Host!vars, hostsOwn
<1>2. focus = "requests" => [Gateway!Next]_(Gateway!gatewayVars)
  BY DEF Gateway!gatewayVars, requestsOwn
<1>3. focus = "credential" => [Credential!Next]_(Credential!credentialVars)
  BY DEF Credential!credentialVars, credentialOwn
<1>4. focus = "cleanup" => [Cleanup!Next]_(Cleanup!cleanupVars)
  BY DEF Cleanup!cleanupVars, cleanupOwn
<1>5. focus = "activation" => [Activation!Next]_(Activation!activationVars)
  BY DEF Activation!activationVars, activationOwn
<1>6. focus = "webui" => [WebUI!Next]_(WebUI!webuiVars)
  BY DEF WebUI!webuiVars, webuiOwn
<1>7. focus = "restore" => [Restore!Next]_(Restore!restoreVars)
  BY DEF Restore!restoreVars, restoreOwn
<1>8. focus = "repair" => [Repair!Next]_(Repair!repairVars)
  BY DEF Repair!repairVars, repairOwn
<1>9. focus = "calibration" => [Calibration!Next]_(Calibration!calibrationVars)
  BY DEF Calibration!calibrationVars, calibrationOwn
<1>10. focus = "integration" => [Integration!Next]_(Integration!setupVars)
  BY DEF Integration!setupVars, integrationOwn
<1>11. focus = "delivery" => [Delivery!Next]_(Delivery!deliveryVars)
  BY DEF Delivery!deliveryVars, Delivery!slots, deliveryOwn
<1>12. focus = "desk" => [Desk!Next]_(Desk!deskVars)
  BY DEF Desk!deskVars, deskOwn
<1>13. focus = "trees" => [RuntimeWorld!Next]_(RuntimeWorld!treesVars)
  BY DEF RuntimeWorld!treesVars, treesOwn
<1>14. focus = "database" => [Database!Next]_(Database!databaseVars)
  BY DEF Database!databaseVars, databaseOwn
<1>15. focus = "setup" => [Setup!Next]_(Setup!setupVars)
  BY DEF Setup!setupVars, setupOwn
<1> QED BY <1>1, <1>2, <1>3, <1>4, <1>5, <1>6, <1>7, <1>8, <1>9, <1>10, <1>11, <1>12, <1>13,
           <1>14, <1>15

LEMMA FocusedInit ==
    ASSUME WorldsInit
    PROVE  /\ focus = "hosts" => Host!Init
           /\ focus = "requests" => Gateway!Init
           /\ focus = "credential" => Credential!Init
           /\ focus = "cleanup" => Cleanup!Init
           /\ focus = "activation" => Activation!Init
           /\ focus = "webui" => WebUI!Init
           /\ focus = "restore" => Restore!Init
           /\ focus = "repair" => Repair!Init
           /\ focus = "calibration" => Calibration!Init
           /\ focus = "integration" => Integration!Init
           /\ focus = "delivery" => Delivery!Init
           /\ focus = "desk" => Desk!Init
           /\ focus = "trees" => RuntimeWorld!Init
           /\ focus = "database" => Database!Init
           /\ focus = "setup" => Setup!Init
  BY DEF WorldsInit

-----------------------------------------------------------------------------

\* Whatever becomes of the worker_locks row (_heartbeat_lock), an operation has one
\* executor, and a host that has lost the row soon leaves the rest alone.
THEOREM WorldKeepsHostsApart == WorldsSpec => []HostsApart
<1>1. Host!Spec => []Host!HostsApart
  BY HostsStayApart
<1>2. WorldsInit /\ focus = "hosts" => Host!Init
  BY FocusedInit
<1>3. [WorldsNext]_worldVars /\ focus = "hosts" => [Host!Next]_(Host!vars)
  BY FocusedStep
<1>4. [WorldsNext]_worldVars => ((focus = "hosts")' <=> (focus = "hosts"))
  BY FocusKept
<1> QED BY <1>1, <1>2, <1>3, <1>4, PTL DEF WorldsSpec, Host!Spec, HostsApart

\* A RUNNING operation has a lease row, so that _next_work finds it when its executor is
\* gone.
THEOREM WorldKeepsRunningFindable == WorldsSpec => []RunningIsFindable
<1>1. Host!Spec => []Host!RunningIsFindable
  BY RunningIsAlwaysFindable
<1>2. WorldsInit /\ focus = "hosts" => Host!Init
  BY FocusedInit
<1>3. [WorldsNext]_worldVars /\ focus = "hosts" => [Host!Next]_(Host!vars)
  BY FocusedStep
<1>4. [WorldsNext]_worldVars => ((focus = "hosts")' <=> (focus = "hosts"))
  BY FocusKept
<1> QED BY <1>1, <1>2, <1>3, <1>4, PTL DEF WorldsSpec, Host!Spec, RunningIsFindable

\* The gateway counts a client's requests under way exactly, whatever windows pass and
\* rows come and go (RateLimiter).
THEOREM WorldKeepsSlots == WorldsSpec => []SlotsExact
<1>1. Gateway!GatewaySpec => []Gateway!SlotsExact
  BY SlotsStayExact
<1>2. WorldsInit /\ focus = "requests" => Gateway!Init
  BY FocusedInit
<1>3. [WorldsNext]_worldVars /\ focus = "requests" => [Gateway!Next]_(Gateway!gatewayVars)
  BY FocusedStep
<1>4. [WorldsNext]_worldVars => ((focus = "requests")' <=> (focus = "requests"))
  BY FocusKept
<1> QED BY <1>1, <1>2, <1>3, <1>4, PTL DEF WorldsSpec, Gateway!GatewaySpec, SlotsExact

\* Rows, fingerprints and files of a client agree through deaths and races of two
\* commands (connection_credentials.py).
THEOREM WorldKeepsCredentials == WorldsSpec => []CredentialsAgree
<1>1. Credential!CredentialSpec => []Credential!CredentialsAgree
  BY CredentialsAlwaysAgree
<1>2. WorldsInit /\ focus = "credential" => Credential!Init
  BY FocusedInit
<1>3. [WorldsNext]_worldVars /\ focus = "credential" =>
        [Credential!Next]_(Credential!credentialVars)
  BY FocusedStep
<1>4. [WorldsNext]_worldVars => ((focus = "credential")' <=> (focus = "credential"))
  BY FocusKept
<1> QED BY <1>1, <1>2, <1>3, <1>4, PTL DEF WorldsSpec, Credential!CredentialSpec, CredentialsAgree

\* Whatever dies or fails between a rename and its receipt, no tree is lost or doubled
\* (apply_mode, compensate_mode).
THEOREM WorldKeepsTrees == WorldsSpec => []CleanupSound
<1>1. Cleanup!CleanupSpec => []Cleanup!CleanupSound
  BY CleanupStaysSound
<1>2. WorldsInit /\ focus = "cleanup" => Cleanup!Init
  BY FocusedInit
<1>3. [WorldsNext]_worldVars /\ focus = "cleanup" => [Cleanup!Next]_(Cleanup!cleanupVars)
  BY FocusedStep
<1>4. [WorldsNext]_worldVars => ((focus = "cleanup")' <=> (focus = "cleanup"))
  BY FocusKept
<1> QED BY <1>1, <1>2, <1>3, <1>4, PTL DEF WorldsSpec, Cleanup!CleanupSpec, CleanupSound

\* Whenever an activation ends without a barrier, configuration, handoff, known-good row
\* and server are the requested model's, or as the operation found them (check_health,
\* restore_prior).
THEOREM WorldKeepsActivation == WorldsSpec => []ActivationSound
<1>1. Activation!ActivationSpec => []Activation!ActivationSound
  BY ActivationStaysSound
<1>2. WorldsInit /\ focus = "activation" => Activation!Init
  BY FocusedInit
<1>3. [WorldsNext]_worldVars /\ focus = "activation" =>
        [Activation!Next]_(Activation!activationVars)
  BY FocusedStep
<1>4. [WorldsNext]_worldVars => ((focus = "activation")' <=> (focus = "activation"))
  BY FocusKept
<1> QED BY <1>1, <1>2, <1>3, <1>4, PTL DEF WorldsSpec, Activation!ActivationSpec, ActivationSound

\* The old container survives until the new one is verified, wherever a transaction fails
\* or dies before it removes the old one; what had been parked is put back (converge,
\* _rollback).
THEOREM WorldKeepsOldContainer == WorldsSpec => []OldSurvives
<1>1. WebUI!WebUISpec => []WebUI!OldSurvives
  BY OldAlwaysSurvives
<1>2. WorldsInit /\ focus = "webui" => WebUI!Init
  BY FocusedInit
<1>3. [WorldsNext]_worldVars /\ focus = "webui" => [WebUI!Next]_(WebUI!webuiVars)
  BY FocusedStep
<1>4. [WorldsNext]_worldVars => ((focus = "webui")' <=> (focus = "webui"))
  BY FocusKept
<1> QED BY <1>1, <1>2, <1>3, <1>4, PTL DEF WorldsSpec, WebUI!WebUISpec, OldSurvives

\* After any death during a restore the active database has the operation at the step
\* whose evidence is on disk, and no exchange loses a write (publish_exchange,
\* probe_restore_published).
THEOREM WorldKeepsRestoreSound == WorldsSpec => []RestoreSound
<1>1. Restore!RestoreSpec => []Restore!RestoreSound
  BY RestoreStaysSound
<1>2. WorldsInit /\ focus = "restore" => Restore!Init
  BY FocusedInit
<1>3. [WorldsNext]_worldVars /\ focus = "restore" => [Restore!Next]_(Restore!restoreVars)
  BY FocusedStep
<1>4. [WorldsNext]_worldVars => ((focus = "restore")' <=> (focus = "restore"))
  BY FocusKept
<1> QED BY <1>1, <1>2, <1>3, <1>4, PTL DEF WorldsSpec, Restore!RestoreSpec, RestoreSound

\* However long a confirmation takes and whatever the owners do in between, a repair is
\* about what was confirmed, a careful owner changes nothing that is in use, and a success
\* is its own (RepairCommandService, ApplicationRepairAdapter, UndoService).
THEOREM WorldKeepsRepairs == WorldsSpec => []Repaired
<1>1. Repair!Spec => []Repair!Repaired
  BY RepairIsRight
<1>2. WorldsInit /\ focus = "repair" => Repair!Init
  BY FocusedInit
<1>3. [WorldsNext]_worldVars /\ focus = "repair" => [Repair!Next]_(Repair!repairVars)
  BY FocusedStep
<1>4. [WorldsNext]_worldVars => ((focus = "repair")' <=> (focus = "repair"))
  BY FocusKept
<1> QED BY <1>1, <1>2, <1>3, <1>4, PTL DEF WorldsSpec, Repair!Spec, Repaired

\* Whatever dies, fails, is edited or is stopped for its heat during the trials of a
\* calibration, its end leaves the configuration, the handoff and the server as it found
\* them (but for the two cases CalibrationSound names), no measured candidate is tried
\* again, and the evidence is the measured and fastest one of its own profile.
THEOREM WorldKeepsCalibration == WorldsSpec => []CalibrationSound
<1>1. Calibration!CalibrationSpec => []Calibration!CalibrationSound
  BY CalibrationIsSound
<1>2. WorldsInit /\ focus = "calibration" => Calibration!Init
  BY FocusedInit
<1>3. [WorldsNext]_worldVars /\ focus = "calibration" =>
        [Calibration!Next]_(Calibration!calibrationVars)
  BY FocusedStep
<1>4. [WorldsNext]_worldVars => ((focus = "calibration")' <=> (focus = "calibration"))
  BY FocusKept
<1> QED BY <1>1, <1>2, <1>3, <1>4, PTL DEF WorldsSpec, Calibration!CalibrationSpec,
      CalibrationSound

\* Wherever a step fails, the worker dies or a cancellation arrives: the gateway runs for
\* whom the receipt names, a success is complete and a rollback restores the baseline
\* (IntegrationSetupHostAdapter, GatewayService).
THEOREM WorldKeepsSetup == WorldsSpec => []SetupKeepsBaseline
<1>1. Integration!SetupSpec => []Integration!SetupKeepsBaseline
  BY IntegrationIsSafe
<1>2. WorldsInit /\ focus = "integration" => Integration!Init
  BY FocusedInit
<1>3. [WorldsNext]_worldVars /\ focus = "integration" =>
        [Integration!Next]_(Integration!setupVars)
  BY FocusedStep
<1>4. [WorldsNext]_worldVars => ((focus = "integration")' <=> (focus = "integration"))
  BY FocusKept
<1> QED BY <1>1, <1>2, <1>3, <1>4, PTL DEF WorldsSpec, Integration!SetupSpec, SetupKeepsBaseline

\* From the archive to the wheel in a slot, through late previews, two surfaces, a dying
\* import and a damaged bundle: only verified releases are kept and recorded, what is
\* installed is what was confirmed, on the installation it was confirmed for
\* (OfflineApplicationBundleStore, ApplicationUpdateCommandService, UpdatesPage).
THEOREM WorldKeepsDelivery == WorldsSpec => []Delivered
<1>1. Delivery!DeliverySpec => []Delivery!Delivered
  BY DeliveryIsSound
<1>2. WorldsInit /\ focus = "delivery" => Delivery!Init
  BY FocusedInit
<1>3. [WorldsNext]_worldVars /\ focus = "delivery" => [Delivery!Next]_(Delivery!deliveryVars)
  BY FocusedStep
<1>4. [WorldsNext]_worldVars => ((focus = "delivery")' <=> (focus = "delivery"))
  BY FocusKept
<1> QED BY <1>1, <1>2, <1>3, <1>4, PTL DEF WorldsSpec, Delivery!DeliverySpec, Delivered

\* Whoever starts, resumes, cancels, retries, recovers, interrupts or dies at the command
\* services: an end that a surface reports is the operation's own, a runtime that is not whole
\* stays behind its barrier, and an accepted cancellation never succeeds, for any surfaces.
THEOREM WorldKeepsDesk == WorldsSpec => []DeskKeepsWord
<1>1. Desk!DeskSpec => []Desk!DeskKeepsWord
  BY DeskAlwaysKeepsWord
<1>2. WorldsInit /\ focus = "desk" => Desk!Init
  BY FocusedInit
<1>3. [WorldsNext]_worldVars /\ focus = "desk" => [Desk!Next]_(Desk!deskVars)
  BY FocusedStep
<1>4. [WorldsNext]_worldVars => ((focus = "desk")' <=> (focus = "desk"))
  BY FocusKept
<1> QED BY <1>1, <1>2, <1>3, <1>4, PTL DEF WorldsSpec, Desk!DeskSpec, DeskKeepsWord

\* However often a worker dies or a server fails between two system calls or transactions:
\* whatever ends without a barrier leaves one runtime everywhere and a registry that says
\* where its trees are, and a restoration recognizes what it finds
\* (RuntimeLifecycleHostAdapter), for any number of operations and faults.
THEOREM WorldKeepsRuntimes == WorldsSpec => []TreesSound
<1>1. RuntimeWorld!TreesSpec => []RuntimeWorld!TreesSound
  BY TreesStaySound
<1>2. WorldsInit /\ focus = "trees" => RuntimeWorld!Init
  BY FocusedInit
<1>3. [WorldsNext]_worldVars /\ focus = "trees" => [RuntimeWorld!Next]_(RuntimeWorld!treesVars)
  BY FocusedStep
<1>4. [WorldsNext]_worldVars => ((focus = "trees")' <=> (focus = "trees"))
  BY FocusKept
<1> QED BY <1>1, <1>2, <1>3, <1>4, PTL DEF WorldsSpec, RuntimeWorld!TreesSpec, TreesSound

\* Whatever dies and whoever else starts, whichever versions they are of: the published
\* database is at a version and later starts can go on from it, a service finds its tables,
\* no fresh database hides the state to be imported, and no published row is lost
\* (initialize, import_legacy, compose).
THEOREM WorldKeepsDatabase == WorldsSpec => DatabaseKept
<1> DEFINE Holds == focus = "database" => DatabaseInv
<1>1. WorldsInit => Holds
  BY FocusedInit, DatabaseStarts
<1>2. Holds /\ [WorldsNext]_worldVars =>
        Holds' /\ [focus = "database" => Database!KeepsDatabase]_worldVars
  <2>1. SUFFICES ASSUME Holds, [WorldsNext]_worldVars
                 PROVE  Holds' /\ (focus = "database" => Database!KeepsDatabase)
    OBVIOUS
  <2>2. CASE focus = "database"
    <3>1. DatabaseInv /\ [Database!Next]_(Database!databaseVars)
      BY <2>1, <2>2, FocusedStep
    <3>2. DatabaseStepKeeps
      BY <3>1, DatabaseSteps
    <3> QED BY <3>1, <3>2 DEF DatabaseStepKeeps, Database!KeepsDatabase, DatabaseInv
  <2>3. CASE focus # "database"
    BY <2>1, <2>3, FocusKept
  <2> QED BY <2>2, <2>3
<1> QED BY <1>1, <1>2, PTL DEF WorldsSpec, DatabaseKept

\* Wherever the window or a terminal dies, the recorded stage, and every stage before it, is
\* true of the machine, and no stage is skipped or taken back (SetupService, SetupWindow,
\* bootstrap).
THEOREM WorldKeepsSetupStages == WorldsSpec => SetupKept
<1> DEFINE Holds == focus = "setup" => StagesInv
<1>1. WorldsInit => Holds
  BY FocusedInit, StagesStart
<1>2. Holds /\ [WorldsNext]_worldVars =>
        Holds' /\ [focus = "setup" => StagesInv' /\ Setup!OneStageAtATime]_worldVars
  <2>1. SUFFICES ASSUME Holds, [WorldsNext]_worldVars
                 PROVE  Holds' /\ (focus = "setup" => StagesInv' /\ Setup!OneStageAtATime)
    OBVIOUS
  <2>2. CASE focus = "setup"
    <3>1. StagesInv /\ [Setup!Next]_(Setup!setupVars)
      BY <2>1, <2>2, FocusedStep
    <3>2. StagesStepKeeps
      BY <3>1, StagesSteps
    <3> QED BY <3>2 DEF StagesStepKeeps
  <2>3. CASE focus # "setup"
    BY <2>1, <2>3, FocusKept
  <2> QED BY <2>2, <2>3
<1>3. StagesInv => Setup!Truthful
  BY SetupIsTruthful
<1>4. Setup!KeepsSetup <=> Setup!Truthful' /\ Setup!OneStageAtATime
  BY DEF Setup!KeepsSetup
<1> QED BY <1>1, <1>2, <1>3, <1>4, PTL DEF WorldsSpec, SetupKept

=============================================================================
