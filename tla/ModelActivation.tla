--------------------------- MODULE ModelActivation ---------------------------
(***************************************************************************)
(* What MODEL_ACTIVATE does to the machine (activation_adapter.py,         *)
(* operations/activation.py, the configuration service of services.py):    *)
(* the committed configuration, the handoff rendered from it, the service  *)
(* launched from the handoff, the known-good row, and the one restoration  *)
(* that compensates four of its steps, by workers that may die between any *)
(* two of these changes.  StepRun says which step is at work.              *)
(*                                                                         *)
(* A configuration is the model it names: contexts, slots and settings     *)
(* come and go with it.  Left out: writers of the configuration that do    *)
(* not go through an operation, and the layouts of model files.            *)
(***************************************************************************)
EXTENDS Naturals, Sequences

CONSTANTS None, MaxFaults

INSTANCE StepRun
W == INSTANCE Workflows

Models == {"old", "new"}

VARIABLES
    run,
    target,   \* the model to be activated
    config,   \* runtime_config and the settings' revision: [model, rev]
    handoff,  \* [model, rev], or None
    service,  \* the model the running server was launched with, or None
    known,    \* the model of the known-good row, or None
    sound,    \* the model's file is the one resolve_candidate hashed
    prior,    \* the output of capture_prior, or None
    work,     \* how far restore_prior is
    found,    \* history: what the operation found
    faults

activationVars ==
    <<run, target, config, handoff, service, known, sound, prior, work, found, faults>>

Wf == W!ModelActivate
Names == <<"resolve", "capture", "commit", "publish", "restart", "health", "inference", "promote">>
At == Names[run.at]
Executing(name) == run.pc = "effect" /\ At = name

ModelOf(h) == IF h = None THEN None ELSE h.model

-----------------------------------------------------------------------------
(* Observations                                                            *)

\* Variant of Serving: any answer of the server is taken for the candidate's.
ServingAny == service # None

\* _identity_matches of a healthy server.
Serving == service = target

\* observe_config
ConfigProbe ==
    IF config.model = target THEN "COMPLETE"
    ELSE IF config.model = prior.config.model THEN "ABSENT" ELSE "UNCERTAIN_MANUAL"

\* observe_handoff
HandoffProbe ==
    IF handoff = None THEN "ABSENT"
    ELSE IF handoff.model = target /\ handoff.rev = prior.config.rev + 1 THEN "COMPLETE"
    ELSE IF handoff.model = ModelOf(prior.handoff) THEN "ABSENT" ELSE "UNCERTAIN_MANUAL"

\* observe_restart; health that times out is revertible.
RestartProbe ==
    IF service = None THEN (IF prior.serving = None THEN "COMPLETE" ELSE "REVERTIBLE")
    ELSE IF Serving THEN "COMPLETE" ELSE "REVERTIBLE"

\* publish_probe: the handoff alone does not prove the step.
PublishProbe ==
    IF HandoffProbe # "COMPLETE" THEN HandoffProbe
    ELSE IF service = None /\ prior.serving = None THEN "UNCERTAIN_MANUAL"
    ELSE RestartProbe

\* observe_known_good
KnownProbe ==
    IF known = target THEN "COMPLETE"
    ELSE IF known \in {None, prior.known} THEN "ABSENT" ELSE "UNCERTAIN_MANUAL"

\* A server that is down does not answer the checks at all.
Probe ==
    CASE At \in {"resolve", "capture"} -> {"ABSENT"}
      [] At = "commit"    -> {ConfigProbe}
      [] At = "publish"   -> {PublishProbe}
      [] At = "restart"   -> {RestartProbe}
      [] At = "health"    -> IF service = None THEN {} ELSE {IF Serving THEN "COMPLETE" ELSE "REVERTIBLE"}
      [] At = "inference" -> IF service = None THEN {} ELSE {"COMPLETE"}
      [] At = "promote"   -> {KnownProbe}

Holds ==
    CASE At = "resolve" -> sound
      [] At = "commit"  -> ConfigProbe = "COMPLETE"
      [] At = "publish" -> HandoffProbe = "COMPLETE"
      [] At = "restart" -> RestartProbe = "COMPLETE"
      [] At = "promote" -> KnownProbe = "COMPLETE"
      [] OTHER -> TRUE

ServiceLike == IF prior.serving = None THEN service = None ELSE service # None

\* _restoration_state: of the service it asks health and an answer, not whose.
Restored ==
    /\ config.model = prior.config.model
    /\ known = prior.known
    /\ ModelOf(handoff) = ModelOf(prior.handoff)
    /\ ServiceLike

RestorationProbe == IF Restored THEN "COMPLETE" ELSE "REVERTIBLE"

-----------------------------------------------------------------------------
(* The engine around the adapter                                           *)

Fault == faults < MaxFaults /\ faults' = faults + 1

Engine ==
    /\ run' \in Turns(run, Wf, Holds, Probe, RestorationProbe)
    /\ work' = "none"
    /\ UNCHANGED <<target, config, handoff, service, known, sound, prior, found, faults>>

\* Also a thermal latch, a server that does not come up, inference without content.
Misfortune ==
    /\ Fault
    /\ run' \in Mishaps(run, Wf, Probe)
    /\ work' = "none"
    /\ UNCHANGED <<target, config, handoff, service, known, sound, prior, found>>

Cancel ==
    /\ Cancellable(run, Wf)
    /\ Fault
    /\ run' = Cancelled(run, Wf)
    /\ UNCHANGED <<target, config, handoff, service, known, sound, prior, work, found>>

\* The server dies; systemd may start it again, from the handoff it finds.
ServiceFails ==
    /\ service # None
    /\ Fault
    /\ service' \in {None, ModelOf(handoff)}
    /\ UNCHANGED <<run, target, config, handoff, known, sound, prior, work, found>>

\* Somebody replaces the model's file.
ArtifactReplaced ==
    /\ sound /\ run.end = "none"
    /\ Fault
    /\ sound' = FALSE
    /\ UNCHANGED <<run, target, config, handoff, service, known, prior, work, found>>

Refused == \E class \in Probe \cup {"UNCERTAIN_MANUAL"} : run' = Failed(run, Wf, class)

-----------------------------------------------------------------------------
(* The steps                                                               *)

\* resolve_candidate: the file's hash, size and layout become the evidence.
ResolveCandidate ==
    /\ Executing("resolve")
    /\ run' = Applied(run)
    /\ UNCHANGED <<target, config, handoff, service, known, sound, prior, work, found, faults>>

CapturePrior ==
    /\ Executing("capture")
    /\ prior' = [config |-> config, handoff |-> handoff, known |-> known, serving |-> service]
    /\ run' = Applied(run)
    /\ UNCHANGED <<target, config, handoff, service, known, sound, work, found, faults>>

\* commit_candidate: a compare-and-set on the revision the request was made for.
CommitCandidate ==
    /\ Executing("commit")
    /\ IF config.rev = found.config.rev
       THEN config' = [model |-> target, rev |-> config.rev + 1] /\ run' = Landed(run)
       ELSE Refused /\ UNCHANGED config
    /\ UNCHANGED <<target, handoff, service, known, sound, prior, work, found, faults>>

PublishCandidate ==
    /\ Executing("publish")
    /\ handoff' = [model |-> target, rev |-> config.rev]
    /\ run' = Landed(run)
    /\ UNCHANGED <<target, config, service, known, sound, prior, work, found, faults>>

\* restart_candidate, after another look at the file.
RestartCandidate ==
    /\ Executing("restart")
    /\ IF ~ sound THEN Refused /\ UNCHANGED service
       ELSE IF service # None /\ Serving THEN run' = Applied(run) /\ UNCHANGED service
       ELSE service' = ModelOf(handoff) /\ run' = Landed(run)
    /\ UNCHANGED <<target, config, handoff, known, sound, prior, work, found, faults>>

CheckHealth ==
    /\ Executing("health")
    /\ IF service # None /\ Serving THEN run' = Applied(run) ELSE Refused
    /\ UNCHANGED <<target, config, handoff, service, known, sound, prior, work, found, faults>>

CheckInference ==
    /\ Executing("inference")
    /\ IF service # None THEN run' = Applied(run) ELSE Refused
    /\ UNCHANGED <<target, config, handoff, service, known, sound, prior, work, found, faults>>

PromoteKnownGood ==
    /\ Executing("promote")
    /\ known' = target
    /\ run' = Landed(run)
    /\ UNCHANGED <<target, config, handoff, service, sound, prior, work, found, faults>>

-----------------------------------------------------------------------------
(* restore_prior, the compensation of commit, publish, restart and promote *)

Undoing(stage) == run.pc = "undoing" /\ work = stage

AlreadyProven ==
    /\ Undoing("none") /\ Restored
    /\ run' = [run EXCEPT !.pc = "undone"]
    /\ UNCHANGED <<target, config, handoff, service, known, sound, prior, work, found, faults>>

\* restore_content commits the prior content as a new revision and renders it.
RestoreConfig ==
    /\ Undoing("none") /\ ~ Restored
    /\ config' = [model |-> prior.config.model, rev |-> config.rev + 1]
    /\ work' = IF prior.config.model = None THEN "config" ELSE "render"
    /\ UNCHANGED <<run, target, handoff, service, known, sound, prior, found, faults>>

\* A failure to render it is reported and otherwise ignored.
RenderHandoff ==
    /\ Undoing("render")
    /\ handoff' = [model |-> config.model, rev |-> config.rev]
    /\ work' = "config"
    /\ UNCHANGED <<run, target, config, service, known, sound, prior, found, faults>>

RestoreKnownGood ==
    /\ Undoing("config")
    /\ known' = prior.known
    /\ work' = "known"
    /\ UNCHANGED <<run, target, config, handoff, service, sound, prior, found, faults>>

RestoreHandoff ==
    /\ Undoing("known")
    /\ handoff' = IF prior.handoff = None THEN None
                  ELSE [model |-> config.model, rev |-> config.rev]
    /\ work' = "handoff"
    /\ UNCHANGED <<run, target, config, service, known, sound, prior, found, faults>>

\* A service that is up is left alone.
RestoreService ==
    /\ Undoing("handoff")
    /\ service' = IF prior.serving = None THEN None
                  ELSE IF service = None THEN ModelOf(handoff) ELSE service
    /\ run' = [run EXCEPT !.pc = "undone"]
    /\ UNCHANGED <<target, config, handoff, known, sound, prior, work, found, faults>>

VerifyRestored ==
    /\ run.pc = "undone"
    /\ run' = IF Restored THEN Undone(run) ELSE UndoFailed(run)
    /\ work' = "none"
    /\ UNCHANGED <<target, config, handoff, service, known, sound, prior, found, faults>>

-----------------------------------------------------------------------------

\* A machine without a model, with one that was never started, or one that is served.
Init ==
    /\ run = Queued
    /\ target \in Models
    /\ \E m \in {None, "old"} :
         /\ config = [model |-> m, rev |-> 1]
         /\ handoff \in {None} \cup (IF m = None THEN {} ELSE {[model |-> m, rev |-> 1]})
         /\ service \in {None, ModelOf(handoff)}
         /\ known \in {None, m}
    /\ sound = TRUE /\ prior = None /\ work = "none" /\ faults = 0
    /\ found = [config |-> config, handoff |-> handoff, known |-> known, serving |-> service]

Activation == ResolveCandidate \/ CapturePrior \/ CommitCandidate \/ PublishCandidate
              \/ RestartCandidate \/ CheckHealth \/ CheckInference \/ PromoteKnownGood
Restoration == AlreadyProven \/ RestoreConfig \/ RenderHandoff \/ RestoreKnownGood
               \/ RestoreHandoff \/ RestoreService \/ VerifyRestored

Next == Engine \/ Misfortune \/ Cancel \/ ServiceFails \/ ArtifactReplaced
        \/ Activation \/ Restoration

ActivationSpec == Init /\ [][Next]_activationVars

-----------------------------------------------------------------------------

\* A successful activation leaves configuration, handoff, known-good row and server
\* with the requested model (restart_verify, check_health, observe_known_good).
ActivatedAgrees ==
    run.end = "SUCCEEDED" =>
        /\ config.model = target /\ known = target
        /\ handoff # None /\ handoff = [model |-> target, rev |-> config.rev]
        /\ service \in {None, target}

\* A failure that is not a barrier left configuration, known-good row and handoff as
\* the operation found them, and no server where none was (restore_prior, retried
\* from any of its stages).
ActivationUndone ==
    run.end \in {"FAILED_SAFE", "FAILED_ROLLED_BACK", "CANCELLED"} =>
        /\ config.model = found.config.model /\ known = found.known
        /\ ModelOf(handoff) = ModelOf(found.handoff)
        /\ found.serving = None => service = None

\* Whenever the operation ends without a barrier, machine and profile agree on the
\* model: the new one everywhere or the old one everywhere.
ActivationSound == ActivatedAgrees /\ ActivationUndone

\* ADR 002: FAILED_ROLLED_BACK means that the prior state was restored and verified;
\* the model served is part of it (restore_prior).
RolledBackServesPrior ==
    run.end = "FAILED_ROLLED_BACK" => service \in {None, found.serving}

=============================================================================
