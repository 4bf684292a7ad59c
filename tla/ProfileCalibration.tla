------------------------- MODULE ProfileCalibration -------------------------
(***************************************************************************)
(* What PROFILE_CALIBRATE does to the machine (calibration_adapter.py,     *)
(* operations/calibration.py): up to three candidate configurations are    *)
(* committed, launched and measured, one after the other, and the baseline *)
(* is put back after each, by workers that may die between any two changes.*)
(* The one that ran fastest is recorded as the profile's evidence if it is *)
(* the profile's own configuration.  StepRun says which step is at work.   *)
(*                                                                         *)
(* A configuration is "base", a candidate's label, None where no model is  *)
(* selected, or "mixed": a candidate's model with other settings.  Left    *)
(* out: the prompt and its stream, the model's file, a handoff that cannot *)
(* be written (the next restart writes it), and the known-good row, which  *)
(* is rewritten as it was.                                                 *)
(***************************************************************************)
EXTENDS Naturals, Sequences, FiniteSets

CONSTANTS None, MaxFaults

INSTANCE StepRun
W == INSTANCE Workflows

Candidates == 1..3
Rates == {"slow", "fast"}

VARIABLES
    run,
    plan,      \* [size, alike, named]: how many candidates; the one, or 0, that is the
               \* baseline again; the server answers with the model's id
    config,    \* runtime_config and the settings
    handoff,   \* what the handoff was rendered from
    service,   \* what the running server was launched with, or None
    known,     \* there is a known-good row
    latched,   \* the thermal latch is "stopped"
    edited,    \* the profile was edited or deleted since the request
    evidence,  \* evidence of the profile: "none", "measured"
    prior,     \* the output of capture_baseline: [config, serving], or None
    receipts,  \* candidate -> the rate in its receipt, or None
    out,       \* candidate -> what its step checkpointed: None, "skipped" or a rate
    work,      \* [stage, rate] of run_candidate or _restore; no rate: the trial failed
    found,     \* history: what the operation found
    refused,   \* history: preflight refused the operation when it was resumed
    torn,      \* history: the last restoration was cut short, the configuration back
    faults

calibrationVars ==
    <<run, plan, config, handoff, service, known, latched, edited, evidence, prior,
      receipts, out, work, found, refused, torn, faults>>

Wf == W!ProfileCalibrate
Names == <<"resolve", "capture", "measure", "measure", "measure", "record">>
Executing(name) == run.pc = "effect" /\ Names[run.at] = name

Idle == [stage |-> "none", rate |-> None]

\* The candidate a measurement step is about, and the configuration it stands for.
Index == run.at - 2
Labels == <<"profile", "conservative", "throughput">>
Trial(i) == IF i = plan.alike THEN "base" ELSE Labels[i]

-----------------------------------------------------------------------------
(* Observations                                                            *)

Completed == {i \in Candidates : out[i] \in Rates}

\* _winner: the fastest, and of those the first.
Faster(i, j) == (out[i] = out[j] /\ i <= j) \/ (out[i] = "fast" /\ out[j] = "slow")
Winner == CHOOSE i \in Completed : \A j \in Completed : Faster(i, j)

\* Only the first candidate is the profile itself; another winner is a proposal.
Recordable == Completed # {} /\ Winner = 1

\* probe_candidate: a receipt, or the committed configuration alone.
CandidateProbe ==
    IF Index > plan.size \/ receipts[Index] # None THEN "COMPLETE"
    ELSE IF config = prior.config THEN "ABSENT" ELSE "REVERTIBLE"

\* probe_recorded_winner
RecordProbe == IF Recordable /\ evidence # "measured" THEN "ABSENT" ELSE "COMPLETE"

Probe ==
    CASE Names[run.at] \in {"resolve", "capture"} -> {"ABSENT"}
      [] Names[run.at] = "measure" -> {CandidateProbe}
      [] Names[run.at] = "record"  -> {RecordProbe}

\* verify_candidate; the other steps have nothing to verify.
Holds == Names[run.at] = "measure" => config = prior.config

\* probe_restoration
RestorationProbe == IF config = prior.config THEN "COMPLETE" ELSE "REVERTIBLE"

\* preflight, of every claim: the profile's revision, the latch, and a known-good row
\* to go back to if anything is served.
Admitted == ~ edited /\ ~ latched /\ (service # None => known)

-----------------------------------------------------------------------------
(* The engine around the adapter                                           *)

Fault == faults < MaxFaults /\ faults' = faults + 1
Machine == <<config, handoff, service, latched>>
Profile == <<edited, evidence>>
Constant == <<plan, known, found>>

\* A refusal has no legal transition in a rollback or a cancellation: execute_one
\* raises and the operation stays as it is.
Claim ==
    /\ run.pc = "down" /\ run.end = "none"
    /\ Admitted \/ run.way = "forward"
    /\ run' = IF Admitted THEN Claimed(run, Wf) ELSE Ended(run, "FAILED_SAFE")
    /\ refused' = (~ Admitted /\ prior # None)
    /\ work' = Idle
    /\ UNCHANGED <<Machine, Profile, Constant, prior, receipts, out, torn, faults>>

\* An interrupted measurement that left a receipt has its output from there; a verified
\* one has no receipt any more.
Engine ==
    /\ run.pc # "down"
    /\ run' \in Turns(run, Wf, Holds, Probe, RestorationProbe)
    /\ LET measuring == run.at \in 3..5
           recovered == run.pc = "probe" /\ run'.row = "CHECKPOINTED" /\ measuring
           verified  == run.pc \in {"verify", "reverify"} /\ run'.at > run.at /\ measuring
       IN /\ out' = IF recovered
                    THEN [out EXCEPT ![Index] = IF Index > plan.size THEN "skipped" ELSE receipts[Index]]
                    ELSE out
          /\ receipts' = IF verified THEN [receipts EXCEPT ![Index] = None] ELSE receipts
    /\ work' = Idle
    /\ UNCHANGED <<Machine, Profile, Constant, prior, refused, torn, faults>>

Crash ==
    /\ run.end = "none" /\ run.pc # "down"
    /\ Fault
    /\ run' = Crashed(run)
    /\ torn' = (torn \/ (run.pc = "undoing" /\ config = prior.config))
    /\ work' = Idle
    /\ UNCHANGED <<Machine, Profile, Constant, prior, receipts, out, refused>>

\* Any step but a trial, which has a restoration of its own.
Misfortune ==
    /\ ~ Executing("measure") /\ run.pc # "undoing"
    /\ Fault
    /\ run' \in Mishaps(run, Wf, Probe) \ {Crashed(run)}
    /\ work' = Idle
    /\ UNCHANGED <<Machine, Profile, Constant, prior, receipts, out, refused, torn>>

Cancel ==
    /\ Cancellable(run, Wf)
    /\ Fault
    /\ run' = Cancelled(run, Wf)
    /\ UNCHANGED <<Machine, Profile, Constant, prior, receipts, out, work, refused, torn>>

\* The server dies; systemd may start it again, from the handoff it finds.
ServiceFails ==
    /\ service # None
    /\ Fault
    /\ service' \in {None, handoff}
    /\ UNCHANGED <<run, config, handoff, latched, Profile, Constant, prior, receipts, out,
                   work, refused, torn>>

\* The watchdog stops the server, and the user resets the latch.
ThermalStop ==
    /\ ~ latched
    /\ Fault
    /\ latched' = TRUE /\ service' = None
    /\ UNCHANGED <<run, config, handoff, Profile, Constant, prior, receipts, out, work,
                   refused, torn>>

ThermalReset ==
    /\ latched /\ latched' = FALSE
    /\ UNCHANGED <<run, config, handoff, service, Profile, Constant, prior, receipts, out,
                   work, refused, torn, faults>>

\* replace_custom takes the evidence away, soft_delete leaves it with the deleted row.
EditProfile ==
    /\ ~ edited /\ run.end = "none"
    /\ edited' = TRUE /\ evidence' = "none"
    /\ UNCHANGED <<run, Machine, Constant, prior, receipts, out, work, refused, torn, faults>>

-----------------------------------------------------------------------------
(* The steps before and after the trials                                   *)

Refused == \E class \in Probe : run' = Failed(run, Wf, class)

Resolve ==
    /\ Executing("resolve")
    /\ IF edited THEN Refused ELSE run' = Applied(run)
    /\ UNCHANGED <<Machine, Profile, Constant, prior, receipts, out, work, refused, torn, faults>>

\* capture_baseline takes an active server only if it answers with the selected id.
CaptureBaseline ==
    /\ Executing("capture")
    /\ IF service # None /\ ~ plan.named THEN Refused /\ UNCHANGED prior
       ELSE run' = Applied(run) /\ prior' = [config |-> config, serving |-> service # None]
    /\ UNCHANGED <<Machine, Profile, Constant, receipts, out, work, refused, torn, faults>>

\* record_winner is a compare-and-set on the revision the request was made for.
RecordWinner ==
    /\ Executing("record")
    /\ IF RecordProbe = "COMPLETE" THEN run' = Applied(run) /\ UNCHANGED evidence
       ELSE IF edited THEN Refused /\ UNCHANGED evidence
       ELSE evidence' = "measured" /\ run' = Landed(run)
    /\ UNCHANGED <<Machine, edited, Constant, prior, receipts, out, work, refused, torn, faults>>

-----------------------------------------------------------------------------
(* run_candidate                                                           *)

Trying(stage) == Executing("measure") /\ Index <= plan.size /\ work.stage = stage
At(stage) == [work EXCEPT !.stage = stage]
Rest == UNCHANGED <<Profile, Constant, prior, receipts, refused, faults>>

SkipCandidate ==
    /\ Executing("measure") /\ Index > plan.size
    /\ run' = Applied(run) /\ out' = [out EXCEPT ![Index] = "skipped"]
    /\ UNCHANGED <<Machine, work, torn>> /\ Rest

ApplyCandidate ==
    /\ Trying("none")
    /\ config' = Trial(Index) /\ work' = At("applied")
    /\ UNCHANGED <<run, handoff, service, latched, out, torn>> /\ Rest

RenderCandidate ==
    /\ Trying("applied")
    /\ handoff' = config /\ work' = At("rendered trial")
    /\ UNCHANGED <<run, config, service, latched, out, torn>> /\ Rest

\* restart_service renders a stale handoff again, and refuses under the latch.
LaunchCandidate ==
    /\ Trying("rendered trial") /\ ~ latched
    /\ handoff' = config /\ service' = config
    /\ work' = At("launched")
    /\ UNCHANGED <<run, config, latched, out, torn>> /\ Rest

\* Health, and the fixed prompt.
Measure ==
    /\ Trying("launched") /\ service = Trial(Index) /\ plan.named
    /\ \E r \in Rates : work' = [stage |-> "restore", rate |-> r]
    /\ UNCHANGED <<run, Machine, out, torn>> /\ Rest

\* Whatever else happens to a trial, `finally' restores the baseline.
TrialFails ==
    /\ \E stage \in {"none", "applied", "rendered trial", "launched"} : Trying(stage)
    /\ IF \/ work.stage = "rendered trial" /\ latched
          \/ work.stage = "launched" /\ (service # Trial(Index) \/ ~ plan.named)
       THEN UNCHANGED faults ELSE Fault
    /\ work' = [stage |-> "restore", rate |-> None]
    /\ UNCHANGED <<run, Machine, Profile, Constant, prior, receipts, out, refused, torn>>

-----------------------------------------------------------------------------
(* _restore, at the end of a trial and as the compensation of all of them  *)

Restoring(stage) ==
    \/ run.pc = "undoing" /\ work.stage = (IF stage = "restore" THEN "none" ELSE stage)
    \/ Trying(stage)

\* Without a selected model in the baseline, the candidate's stays selected.
RestoreConfig ==
    /\ Restoring("restore") /\ (prior.config # None \/ config # None)
    /\ config' = IF prior.config = None THEN "mixed" ELSE prior.config
    /\ work' = At("back")
    /\ UNCHANGED <<run, handoff, service, latched, out, torn>> /\ Rest

RenderBaseline ==
    /\ Restoring("back")
    /\ handoff' = config /\ work' = At("rendered")
    /\ UNCHANGED <<run, config, service, latched, out, torn>> /\ Rest

\* Variant of Relaunched: a server that is up is left alone.
RelaunchedIfDown == IF ~ prior.serving THEN None ELSE IF service = None THEN config ELSE service

\* The server is restarted, or stopped, as it was.
Relaunched == IF prior.serving THEN config ELSE None

\* Then the rest of run_candidate: a failed trial raises, a measured one leaves a receipt.
RestoreService ==
    /\ Restoring("rendered") /\ (prior.serving => ~ latched)
    /\ service' = Relaunched
    /\ handoff' = IF prior.serving THEN config ELSE handoff
    /\ IF run.pc = "undoing" THEN run' = [run EXCEPT !.pc = "undone"] /\ work' = Idle
       ELSE IF work.rate = None THEN Refused /\ work' = Idle
       ELSE UNCHANGED run /\ work' = At("restored")
    /\ torn' = FALSE
    /\ UNCHANGED <<config, latched, out>> /\ Rest

\* The server is not restarted or does not come up, the latch forbids it, or there is no
\* model to select.
RestoreFails ==
    /\ \E stage \in {"restore", "rendered"} : Restoring(stage)
    /\ IF \/ Restoring("restore") /\ prior.config = None /\ config = None
          \/ Restoring("rendered") /\ prior.serving /\ latched
       THEN UNCHANGED faults ELSE Fault
    /\ service' \in IF Restoring("rendered") THEN {None, service} ELSE {service}
    /\ torn' = (torn \/ config = prior.config)
    /\ IF run.pc = "undoing" THEN run' = UndoFailed(run) ELSE Refused
    /\ work' = Idle
    /\ UNCHANGED <<config, handoff, latched, Profile, Constant, prior, receipts, out, refused>>

WriteReceipt ==
    /\ Trying("restored")
    /\ receipts' = [receipts EXCEPT ![Index] = work.rate]
    /\ out' = [out EXCEPT ![Index] = work.rate]
    /\ run' = Landed(run) /\ work' = Idle
    /\ UNCHANGED <<Machine, Profile, Constant, prior, refused, torn, faults>>

VerifyRestored ==
    /\ run.pc = "undone"
    /\ run' = IF config = prior.config THEN Undone(run) ELSE UndoFailed(run)
    /\ UNCHANGED <<Machine, out, work, torn>> /\ Rest

-----------------------------------------------------------------------------

\* A machine without a selected model, with one that is not started, or one that is
\* served; a profile with or without evidence of the same configuration.
Init ==
    /\ run = Queued
    /\ \E n \in 1..2 : plan \in [size : {n}, alike : 0..n, named : BOOLEAN]
    /\ config \in {None, "base"} /\ handoff = config
    /\ service \in {None, config}
    /\ config = None => plan.alike = 0
    /\ known \in BOOLEAN /\ evidence \in {"none", "measured"}
    /\ latched = FALSE /\ edited = FALSE /\ prior = None
    /\ receipts = [i \in Candidates |-> None] /\ out = [i \in Candidates |-> None]
    /\ work = Idle /\ refused = FALSE /\ torn = FALSE /\ faults = 0
    /\ found = [config |-> config, service |-> service, evidence |-> evidence]

Steps == Resolve \/ CaptureBaseline \/ SkipCandidate \/ RecordWinner
Trials == ApplyCandidate \/ RenderCandidate \/ LaunchCandidate \/ Measure \/ TrialFails \/ WriteReceipt
Restoration == RestoreConfig \/ RenderBaseline \/ RestoreService \/ RestoreFails \/ VerifyRestored
Others == Crash \/ Misfortune \/ Cancel \/ ServiceFails \/ ThermalStop \/ ThermalReset \/ EditProfile

Next == Claim \/ Engine \/ Steps \/ Trials \/ Restoration \/ Others

CalibrationSpec == Init /\ [][Next]_calibrationVars

-----------------------------------------------------------------------------

\* A calibration that succeeded, or failed without a barrier, left the configuration it
\* found (_restore) - unless preflight refused it when it was resumed in a trial.
BaselineKept ==
    run.end \notin {"none", "RECOVERY_REQUIRED"} /\ ~ refused => config = found.config

\* Then no candidate is served any more, nor rendered for the next start - unless the
\* last restoration failed, or its worker died in a compensation, when the configuration
\* was back: the probes look at nothing else.
NoTrialServed ==
    run.end \notin {"none", "RECOVERY_REQUIRED"} /\ ~ refused /\ ~ torn =>
        /\ handoff = found.config
        /\ service \in {None, found.service}

\* New evidence is that of the profile's own configuration, measured to the end and
\* the fastest, for the profile the request was made for (record_winner).
EvidenceEarned ==
    evidence # found.evidence /\ ~ edited => out[1] \in Rates /\ \A j \in Completed : Faster(1, j)

\* A candidate whose result is in a receipt or a row is not tried again (probe_candidate).
NotTriedTwice == Executing("measure") => receipts[Index] = None /\ out[Index] = None

\* Whatever ends a calibration, the machine is as it was before and what the profile
\* says was measured.
CalibrationSound == BaselineKept /\ NoTrialServed /\ EvidenceEarned /\ NotTriedTwice

=============================================================================
