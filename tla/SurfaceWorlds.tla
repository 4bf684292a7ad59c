--------------------------- MODULE SurfaceWorlds ----------------------------
(***************************************************************************)
(* The services and surfaces beside the workflows, each a module of its    *)
(* own; their safety is proved in SurfaceWorldsProofs.                     *)
(***************************************************************************)
EXTENDS WorldState

Host == INSTANCE WorkerHost WITH Ops <- HostOps, NoOp <- 0
Gateway == INSTANCE GatewayRequests
Credential == INSTANCE Credentials WITH MaxFaults <- CredentialFaults
WebUI == INSTANCE OpenWebUITransaction WITH MaxFaults <- WebUIFaults
Desk == INSTANCE OperationDesk
Database == INSTANCE ProfileDatabase WITH Procs <- DatabaseProcs, Before <- DatabaseVersions, ImportBesideStart <- FALSE
Setup == INSTANCE SetupWorkflow WITH Models <- SetupModels, Terminals <- SetupTerminals, WindowLaunches <- SetupLaunches
Delivery == INSTANCE ReleaseDelivery WITH Faults <- DeliveryFaults, Generations <- DeliveryGenerations, Versions <- DeliveryVersions
Repair == INSTANCE RepairCenter WITH MaxRevisions <- RepairRevisions, MaxWindows <- RepairWindows

\* Operations and connections are numbered in their order; no host is the absence of one.
ASSUME HostsAssumption == HostOps \subseteq Nat /\ NoHost \notin Hosts

\* There is always a row that nobody refers to: a new row is another one.
ASSUME RequestsAssumption ==
    /\ Requests \subseteq Nat /\ IsFiniteSet(Requests)
    /\ IsFiniteSet(Clients) /\ None \notin Clients
    /\ IsFiniteSet(RowIds) /\ None \notin RowIds
    /\ Cardinality(RowIds) > Cardinality(Clients) + 2 * Cardinality(Requests)

ASSUME LimitAssumption == MaxConcurrent \in Nat

\* A client has a first generation; None is neither a secret nor a client.
ASSUME CredentialAssumption ==
    /\ MaxGeneration \in Nat \ {0}
    /\ None \notin Nat /\ None \notin [gen : Nat, revision : Nat, revoked : BOOLEAN]

\* None is no container, neither by its name nor by what it holds, and no error.
ASSUME WebUIAssumption ==
    None \notin WebUI!Names \cup {"error", "restored"}
                  \cup [data : WebUI!Datas, runs : BOOLEAN, works : BOOLEAN]

\* None is no thing that is repaired, no preview and no command.
ASSUME RepairAssumption == None \notin Repair!Things \cup Repair!Previews \cup Repair!Commands

\* None is no release, no wheel and no owner of the pending update.
ASSUME DeliveryAssumption ==
    None \notin DOMAIN Delivery!Catalogue
                  \cup {Delivery!Catalogue[t].files.wheel : t \in Delivery!Genuine} \cup {"gui"}

\* None is no surface and no lease.
ASSUME DeskAssumption ==
    /\ None \notin Surfaces
    /\ None \notin [op : Nat, by : Surfaces \cup {None}, live : BOOLEAN]

\* The versions a profile was left at are versions of the registry; None is no database.
ASSUME DatabaseAssumption ==
    /\ DatabaseVersions \subseteq 0 .. Database!SchemaVersion
    /\ None \notin Database!Databases

=============================================================================
