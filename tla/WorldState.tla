----------------------------- MODULE WorldState -----------------------------
(***************************************************************************)
(* The constants and the state of the worlds whose safety is proved for    *)
(* every value of their constants (CoreWorlds, SurfaceWorlds).  They share *)
(* names of variables: no two are in focus at once (MCWorlds).             *)
(***************************************************************************)
EXTENDS Naturals, FiniteSets

CONSTANTS
    Hosts, NoHost, Blocked, MaxFailures, Slow, MaxRaises, HostOps, None, TreesUpdates,
    TreesFaults, RestoreFaults, ActivationFaults, Targets, CleanupFaults, Requests, Clients,
    MaxConcurrent, MaxRate, Allowance, TableSize, Admission, RowIds, MaxSecrets,
    MaxGeneration, RevisionBound, CredentialFaults, WebUIFaults, IntegrationFaults,
    Surfaces, Twice, DatabaseProcs, DatabaseVersions, SetupModels, SetupTerminals,
    SetupLaunches, DeliveryFaults, DeliveryGenerations, DeliveryVersions, RepairRevisions,
    RepairWindows, CalibrationFaults

VARIABLES
    lock, op, host, raises, run, build, disk, reg, comp, known, handoff, service, receipt,
    snap, work, found, faults, rows, active, sealed, sound, output, attempt, dirty, target,
    config, prior, mode, staging, quarantine, expired, todo, thread, table, torn, client,
    state, print, enabled, file, drawn, swept, spent, container, tx, number, outcome,
    worked, parked, late, tailnet, base, clients, access, created, model, foreign, gateway,
    consumers, webui, sharing, unlisted, touched, parent, cancelled, lease, whole, desk,
    told, db, legacy, proc, settings, machine, window, terminal, importer, shelf, imports,
    installed, published, profile, code, staged, page, update, damages, action, thing,
    shown, command, plan, latched, edited, evidence, receipts, out, refused

=============================================================================
