-------------------------- MODULE IntegrationSetup --------------------------
(***************************************************************************)
(* What INTEGRATION_SETUP does to the machine (integration_setup_adapter,  *)
(* gateway_service, sharing, the services of services.py): clients are     *)
(* created and access enabled, the model, the gateway and Open WebUI are   *)
(* started, the tailnet mappings published, and each of these is undone    *)
(* from the baseline that the command recorded before it enqueued.         *)
(*                                                                         *)
(* The gateway runs for consumers that a receipt names; who takes it       *)
(* starts it and then writes the receipt, who leaves writes the receipt    *)
(* and then stops it, each of them in processes that may die in between.   *)
(* The replacement of the Open WebUI container is OpenWebUITransaction,    *)
(* the clients' files are Credentials.  Left out: addresses and listeners, *)
(* the thread that renews leases, receipts of an earlier boot.             *)
(***************************************************************************)
EXTENDS Naturals, Sequences

CONSTANTS None, MaxFaults

INSTANCE StepRun
W == INSTANCE Workflows

Consumers == {"client", "openwebui", "sharing"}
SetupClients == {"webui", "external"}

VARIABLES
    run,
    tailnet,    \* the request asks for private HTTPS
    base,       \* the baseline of the request
    clients,    \* the active clients among the two of the request
    access,     \* connection_access_state
    created,    \* the output of ensure_clients, or None
    model,      \* the model service is active
    foreign,    \* somebody else's unit, or listener, is where the gateway belongs
    gateway,    \* the gateway unit is active
    consumers,  \* of the gateway's receipt
    webui,      \* "none", "stopped" or "running"
    sharing,    \* the mappings are published
    work,       \* how far a step with several changes is, whether it had the gateway
                \* before, the clients it created
    unlisted,       \* clients created by an execution that did not return
    touched,    \* a user has stopped something meanwhile: "no", "yes", or "raced", while
                \* the setup was between the start of the gateway and its receipt
    faults

world == <<clients, access, model, gateway, consumers, webui, sharing>>
setupVars == <<run, tailnet, base, clients, access, created, model, foreign, gateway,
               consumers, webui, sharing, work, unlisted, touched, faults>>

Wf == W!IntegrationSetup
Names == <<"clients", "model", "gateway", "openwebui", "tailnet", "verify">>
At == Names[run.at]
Idle == [pc |-> "none", had |-> FALSE, new |-> {}]
Executing(name, pc) == run.pc = "effect" /\ At = name /\ work.pc = pc

\* Baseline of what it can see.
Now == [clients |-> clients, access |-> access, model |-> model, consumers |-> consumers,
        webui |-> webui, sharing |-> sharing]

-----------------------------------------------------------------------------
(* Observations                                                            *)

Ready ==
    [clients   |-> clients = SetupClients /\ access,
     model     |-> model,
     gateway   |-> gateway,
     openwebui |-> webui = "running",
     tailnet   |-> tailnet => sharing]

\* verify_client probes with the client's own secret.
Reachable == \A name \in DOMAIN Ready : Ready[name]

Probe ==
    IF At = "verify" THEN {"ABSENT"} \cup (IF Reachable THEN {"COMPLETE"} ELSE {})
    ELSE {IF Ready[At] THEN "COMPLETE" ELSE "ABSENT"}

Holds == IF At = "verify" THEN Reachable ELSE Ready[At]

\* What a run finds of the output when it did not produce it.
Output == IF created = None THEN {} ELSE created

\* Variant: what was removed is not looked at again.
RestoredAny == [name \in DOMAIN Ready |-> TRUE]

\* The probes of the restorations.
Restored ==
    [clients   |-> Output \cap clients = {} /\ access = base.access,
     model     |-> model = base.model,
     gateway   |-> "client" \in consumers => "client" \in base.consumers,
     openwebui |-> (webui = "running") = (base.webui = "running"),
     tailnet   |-> sharing = base.sharing]

Undoes == Names[Latest(run)]
RestorationProbe == IF Restored[Undoes] THEN "COMPLETE" ELSE "REVERTIBLE"

-----------------------------------------------------------------------------
(* The engine around the adapter                                           *)

Fault == faults < MaxFaults /\ faults' = faults + 1

\* The output of ensure_clients: what it created, or, when it turns out complete after a
\* death, what was not in the baseline.
Checkpointed(next) ==
    IF run.pc = "landed" /\ At = "clients" THEN work.new
    ELSE IF run.pc = "probe" /\ At = "clients" /\ next.pc = "reverify"
    THEN SetupClients \ base.clients ELSE created

Engine ==
    /\ run' \in Turns(run, Wf, Holds, Probe, RestorationProbe)
    /\ created' = Checkpointed(run')
    /\ work' = Idle
    /\ UNCHANGED <<world, tailnet, base, foreign, unlisted, touched, faults>>

Misfortune ==
    /\ Fault
    /\ run' \in Mishaps(run, Wf, Probe)
    /\ work' = Idle
    /\ unlisted' = unlisted \cup work.new
    /\ UNCHANGED <<world, tailnet, base, foreign, created, touched>>

Cancel ==
    /\ Cancellable(run, Wf)
    /\ Fault
    /\ run' = Cancelled(run, Wf)
    /\ UNCHANGED <<world, tailnet, base, foreign, created, work, unlisted, touched>>

Refused == run' \in {Failed(run, Wf, class) : class \in Probe} /\ work' = Idle

-----------------------------------------------------------------------------
(* The steps                                                               *)

Continues(pc, had) == work' = [work EXCEPT !.pc = pc, !.had = had] /\ UNCHANGED run
Completes == run' = Landed(run) /\ work' = Idle
Rest == UNCHANGED <<tailnet, base, foreign, unlisted, touched, faults>>

\* ensure_client for each of the two ...
EnsureClient ==
    /\ run.pc = "effect" /\ At = "clients" /\ work.pc \in {"none", "second"}
    /\ LET c == IF work.pc = "none" THEN "webui" ELSE "external" IN
       /\ clients' = clients \cup {c}
       /\ work' = [work EXCEPT !.pc = IF @ = "none" THEN "second" ELSE "enable",
                               !.new = @ \cup ({c} \ clients)]
    /\ UNCHANGED <<run, created, access, model, gateway, consumers, webui, sharing>> /\ Rest

\* ... then enable_for_sharing.
EnableAccess ==
    /\ Executing("clients", "enable")
    /\ access' = TRUE
    /\ run' = Landed(run)
    /\ UNCHANGED <<work, created, clients, model, gateway, consumers, webui, sharing>> /\ Rest

StartModel ==
    /\ Executing("model", "none")
    /\ model' = TRUE /\ Completes
    /\ UNCHANGED <<created, clients, access, gateway, consumers, webui, sharing>> /\ Rest

Takes == [gateway |-> "client", openwebui |-> "openwebui", tailnet |-> "sharing"]

\* plan and _existing_identity: only its own unit, or none at all, may be replaced.
Installable == ~ foreign

\* acquire puts the unit in place, or back to what it should be, which leaves the
\* consumers of this boot in the receipt, and starts it ...
AcquireStarts ==
    /\ run.pc = "effect" /\ At \in DOMAIN Takes
    /\ work.pc = "none" /\ Installable
    /\ At = "tailnet" => tailnet
    /\ gateway' = TRUE
    /\ access' = (access \/ At = "tailnet")
    /\ model' = (model \/ At = "tailnet")
    /\ Continues("record", Takes[At] \in consumers)
    /\ UNCHANGED <<created, clients, consumers, webui, sharing>> /\ Rest

\* A unit, or a port, that somebody else has is left alone.
AcquireRefused ==
    /\ run.pc = "effect" /\ At \in DOMAIN Takes
    /\ work.pc = "none" /\ ~ Installable
    /\ At = "tailnet" => tailnet
    /\ Refused
    /\ UNCHANGED <<world, created>> /\ Rest

\* ... and records who it runs for.
AcquireRecords ==
    /\ run.pc = "effect" /\ work.pc = "record"
    /\ consumers' = consumers \cup {Takes[At]}
    /\ IF At = "gateway" THEN Completes ELSE Continues("use", work.had)
    /\ UNCHANGED <<created, clients, access, model, gateway, webui, sharing>> /\ Rest

NotRequested ==
    /\ Executing("tailnet", "none") /\ ~ tailnet
    /\ run' = Applied(run) /\ work' = Idle
    /\ UNCHANGED <<created, clients, access, model, gateway, consumers, webui, sharing>> /\ Rest

\* A service that fails leaves the gateway again, if it had come to it.
Leaves(c) ==
    /\ consumers' = IF work.had THEN consumers ELSE consumers \ {c}
    /\ gateway' = (gateway /\ (work.had \/ consumers' # {}))

\* OpenWebUIService.start: converge leaves a container that was stopped as it was, and
\* then the adapter refuses.
StartWebUI ==
    /\ Executing("openwebui", "use")
    /\ \/ /\ webui # "stopped" /\ webui' = "running" /\ Completes
          /\ UNCHANGED <<gateway, consumers, faults>>
       \/ /\ webui = "stopped" /\ Refused
          /\ UNCHANGED <<webui, gateway, consumers, faults>>
       \/ /\ Fault /\ Leaves("openwebui") /\ Refused
          /\ UNCHANGED webui
    /\ UNCHANGED <<created, clients, access, model, sharing, tailnet, base, foreign, unlisted, touched>>

\* start_https_sharing; mappings that were published stay when the check of them fails.
PublishMappings ==
    /\ Executing("tailnet", "use")
    /\ \/ /\ sharing' = TRUE /\ Completes /\ UNCHANGED <<gateway, consumers, faults>>
       \/ /\ sharing' \in {sharing, TRUE} /\ Fault /\ Leaves("sharing") /\ Refused
    /\ UNCHANGED <<created, clients, access, model, webui, tailnet, base, foreign, unlisted, touched>>

VerifyClient ==
    /\ Executing("verify", "none")
    /\ IF Reachable THEN run' = Applied(run) /\ work' = Idle ELSE Refused
    /\ UNCHANGED <<created, clients, access, model, gateway, consumers, webui, sharing>> /\ Rest

-----------------------------------------------------------------------------
(* The compensations                                                       *)

Undoing(name, pc) == run.pc = "undoing" /\ Undoes = name /\ work.pc = pc
UndoneNow == run' = [run EXCEPT !.pc = "undone"] /\ work' = Idle

\* release writes the receipt ...
ReleaseOrEnd(c, leaves) ==
    IF leaves /\ c \in consumers
    THEN consumers' = consumers \ {c} /\ Continues("stop", FALSE)
    ELSE UndoneNow /\ UNCHANGED consumers

\* ... and stops the unit after its last consumer.
ReleaseStops ==
    /\ run.pc = "undoing" /\ work.pc = "stop"
    /\ gateway' = (gateway /\ consumers # {})
    /\ UndoneNow
    /\ UNCHANGED <<created, clients, access, model, consumers, webui, sharing>> /\ Rest

RestoreTailnet ==
    /\ Undoing("tailnet", "none")
    /\ LET off == tailnet /\ ~ base.sharing IN
       /\ sharing' = (sharing /\ ~ off)
       /\ ReleaseOrEnd("sharing", off)
    /\ UNCHANGED <<created, clients, access, model, gateway, webui>> /\ Rest

RestoreWebUI ==
    /\ Undoing("openwebui", "none")
    /\ LET off == base.webui # "running" IN
       /\ webui' = IF off /\ webui = "running" THEN "stopped" ELSE webui
       /\ ReleaseOrEnd("openwebui", off)
    /\ UNCHANGED <<created, clients, access, model, gateway, sharing>> /\ Rest

RestoreGateway ==
    /\ Undoing("gateway", "none")
    /\ ReleaseOrEnd("client", "client" \notin base.consumers)
    /\ UNCHANGED <<created, clients, access, model, gateway, webui, sharing>> /\ Rest

RestoreModel ==
    /\ Undoing("model", "none")
    /\ model' = (model /\ base.model)
    /\ UndoneNow
    /\ UNCHANGED <<created, clients, access, gateway, consumers, webui, sharing>> /\ Rest

\* remove_created_clients; disable_all revokes every client, those of the user too.
RemoveClients ==
    /\ Undoing("clients", "none")
    /\ clients' = IF access /\ ~ base.access THEN {} ELSE clients \ Output
    /\ access' = (access /\ base.access)
    /\ UndoneNow
    /\ UNCHANGED <<created, model, gateway, consumers, webui, sharing>> /\ Rest

VerifyRestored ==
    /\ run.pc = "undone"
    /\ run' = IF Restored[Undoes] THEN Undone(run) ELSE UndoFailed(run)
    /\ work' = Idle
    /\ UNCHANGED <<world, tailnet, base, foreign, created, unlisted, touched, faults>>

-----------------------------------------------------------------------------

\* A user stops Open WebUI, sharing or the model, with what follows for the gateway.
UserStops ==
    /\ run.end = "none" /\ touched = "no"
    /\ Fault
    /\ touched' = IF run.pc = "effect" /\ work.pc = "record" THEN "raced" ELSE "yes"
    /\ \/ /\ webui = "running" /\ webui' = "stopped" /\ consumers' = consumers \ {"openwebui"}
          /\ UNCHANGED <<sharing, model>>
       \/ /\ sharing /\ sharing' = FALSE /\ consumers' = consumers \ {"sharing"}
          /\ UNCHANGED <<webui, model>>
       \/ /\ model /\ model' = FALSE /\ UNCHANGED <<webui, sharing, consumers>>
    /\ gateway' = (gateway /\ (consumers' = consumers \/ consumers' # {}))
    /\ UNCHANGED <<run, tailnet, base, foreign, clients, access, created, work, unlisted>>

Init ==
    /\ run = Queued /\ work = Idle /\ created = None /\ unlisted = {} /\ touched = "no" /\ faults = 0
    /\ tailnet \in BOOLEAN
    /\ access \in BOOLEAN /\ model \in BOOLEAN
    /\ webui \in {"none", "stopped", "running"}
    /\ clients = IF webui = "none" THEN {} ELSE {"webui"}
    /\ consumers \in SUBSET Consumers
    /\ "openwebui" \in consumers <=> webui = "running"
    /\ gateway = (consumers # {})
    /\ foreign \in BOOLEAN /\ (foreign => consumers = {})
    /\ sharing \in BOOLEAN /\ (sharing <=> "sharing" \in consumers)
    /\ sharing => access /\ webui = "running"
    /\ base = Now

Next == \/ Engine \/ Misfortune \/ Cancel
        \/ EnsureClient \/ EnableAccess \/ StartModel
        \/ AcquireStarts \/ AcquireRefused \/ AcquireRecords
        \/ NotRequested \/ StartWebUI \/ PublishMappings \/ VerifyClient
        \/ ReleaseStops \/ RestoreTailnet \/ RestoreWebUI \/ RestoreGateway \/ RestoreModel
        \/ RemoveClients \/ VerifyRestored
        \/ UserStops

SetupSpec == Init /\ [][Next]_setupVars

-----------------------------------------------------------------------------

\* Who is recorded finds the gateway running; the receipt is not locked, so a user who
\* leaves while the setup comes may stop it under the setup.
ConsumersServed == touched # "raced" /\ consumers # {} => gateway

\* A setup that was rolled back or cancelled leaves what it found.  What the user had
\* while the access was disabled is revoked with the rest.
BaselineBack ==
    run.end \in {"FAILED_ROLLED_BACK", "CANCELLED"} /\ touched = "no" =>
        /\ <<access, model, sharing>> = <<base.access, base.model, base.sharing>>
        /\ (webui = "running") = (base.webui = "running")
        /\ "client" \in consumers <=> "client" \in base.consumers
        /\ clients \subseteq base.clients \cup unlisted
        /\ base.access => base.clients \subseteq clients

\* What it reports as ready is.
SucceededReady == run.end = "SUCCEEDED" /\ touched = "no" => Reachable

\* Wherever a step fails, the worker dies or a cancellation arrives: the gateway runs for
\* whom the receipt names, success is complete and a rollback restores the baseline
\* (IntegrationSetupHostAdapter, GatewayService).
SetupKeepsBaseline == ConsumersServed /\ BaselineBack /\ SucceededReady

=============================================================================
