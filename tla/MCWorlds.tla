------------------------------ MODULE MCWorlds ------------------------------
(***************************************************************************)
(* The leases, the worlds the operations change and the services beside    *)
(* them, each for itself: `focus' says which one a behaviour is about. The *)
(* leases are module MCLeases itself, at rest in the other behaviours; the *)
(* modules of the others share names of variables, 0 where they are not in *)
(* focus.                                                                  *)
(***************************************************************************)
EXTENDS MCLeases, CoreWorlds, SurfaceWorlds, Sequences

CONSTANTS
    h1, h2, s1, s2

VARIABLES
    focus, asked, wanted, source, slot, files, aside, artifacts, identity, decided,
    recorded, activation, saved, deleted, chat

Library == INSTANCE ModelStore WITH MaxFaults <- 1
Chat == INSTANCE ChatPage WITH Ids <- {1, 2}, MaxLength <- 3

hostsOwn == <<host, raises>>
treesOwn == <<build, disk, reg, comp, snap>>
restoreOwn == <<active, sealed, output, attempt, dirty>>
activationOwn == <<target>>
storeOwn == <<asked, wanted, source, slot, files, aside, artifacts, identity, decided,
              recorded, activation>>
cleanupOwn == <<mode, quarantine, expired, todo>>
requestsOwn == <<thread, table>>
credentialOwn == <<client, print, enabled, file, drawn, swept, spent>>
webuiOwn == <<container, tx, number, outcome, worked, parked, late>>
integrationOwn == <<tailnet, base, clients, access, created, model, foreign, gateway,
                    consumers, webui, sharing, unlisted>>
deskOwn == <<parent, cancelled, lease, whole, desk, told>>
talkOwn == <<saved, deleted, chat>>
databaseOwn == <<db, legacy, proc>>
setupOwn == <<settings, machine, terminal>>
deliveryOwn == <<importer, shelf, imports, published, profile, code, update, damages>>
repairOwn == <<thing, shown, command>>
calibrationOwn == <<plan, latched, edited, evidence, receipts, refused>>

\* What a world does not share with others, while it is not in focus.
HostRests ==
    /\ host = 0 /\ raises = 0
RuntimeWorldRests ==
    /\ build = 0 /\ disk = 0 /\ reg = 0 /\ comp = 0 /\ snap = 0
RestoreRests ==
    /\ active = 0 /\ sealed = 0 /\ output = 0 /\ attempt = 0 /\ dirty = 0
ActivationRests ==
    /\ target = 0
LibraryRests ==
    /\ asked = 0 /\ wanted = 0 /\ source = 0 /\ slot = 0 /\ files = 0 /\ aside = 0
    /\ artifacts = 0 /\ identity = 0 /\ decided = 0 /\ recorded = 0 /\ activation = 0
CleanupRests ==
    /\ mode = 0 /\ quarantine = 0 /\ expired = 0 /\ todo = 0
GatewayRests ==
    /\ thread = 0 /\ table = 0
CredentialRests ==
    /\ client = 0 /\ print = 0 /\ enabled = 0 /\ file = 0 /\ drawn = 0 /\ swept = 0
    /\ spent = 0
WebUIRests ==
    /\ container = 0 /\ tx = 0 /\ number = 0 /\ outcome = 0 /\ worked = 0 /\ parked = 0
    /\ late = 0
IntegrationRests ==
    /\ tailnet = 0 /\ base = 0 /\ clients = 0 /\ access = 0 /\ created = 0 /\ model = 0
    /\ foreign = 0 /\ gateway = 0 /\ consumers = 0 /\ webui = 0 /\ sharing = 0
    /\ unlisted = 0
DeskRests ==
    /\ parent = 0 /\ cancelled = 0 /\ lease = 0 /\ whole = 0 /\ desk = 0 /\ told = 0
ChatRests ==
    /\ saved = 0 /\ deleted = 0 /\ chat = 0
DatabaseRests ==
    /\ db = 0 /\ legacy = 0 /\ proc = 0
SetupRests ==
    /\ settings = 0 /\ machine = 0 /\ terminal = 0
DeliveryRests ==
    /\ importer = 0 /\ shelf = 0 /\ imports = 0 /\ published = 0 /\ profile = 0 /\ code = 0
    /\ update = 0 /\ damages = 0
RepairRests ==
    /\ thing = 0 /\ shown = 0 /\ command = 0
CalibrationRests ==
    /\ plan = 0 /\ latched = 0 /\ edited = 0 /\ evidence = 0 /\ receipts = 0 /\ refused = 0

WorldsInit ==
    \/ /\ focus = "leases" /\ Init
       /\ HostRests /\ RuntimeWorldRests /\ RestoreRests /\ ActivationRests /\ LibraryRests
       /\ CleanupRests /\ GatewayRests /\ CredentialRests /\ WebUIRests /\ IntegrationRests
       /\ DeskRests /\ ChatRests /\ DatabaseRests /\ SetupRests /\ DeliveryRests
       /\ RepairRests /\ CalibrationRests /\ lock = 0 /\ op = 0 /\ run = 0 /\ known = 0
       /\ handoff = 0 /\ service = 0 /\ receipt = 0 /\ work = 0 /\ found = 0 /\ faults = 0
       /\ rows = 0 /\ sound = 0 /\ config = 0 /\ prior = 0 /\ staged = 0 /\ out = 0
       /\ installed = 0 /\ staging = 0 /\ torn = 0 /\ state = 0 /\ touched = 0 /\ page = 0
       /\ action = 0 /\ window = 0
    \/ /\ focus = "hosts" /\ Host!Init
       /\ Init /\ RuntimeWorldRests /\ RestoreRests /\ ActivationRests /\ LibraryRests
       /\ CleanupRests /\ GatewayRests /\ CredentialRests /\ WebUIRests /\ IntegrationRests
       /\ DeskRests /\ ChatRests /\ DatabaseRests /\ SetupRests /\ DeliveryRests
       /\ RepairRests /\ CalibrationRests /\ run = 0 /\ known = 0 /\ handoff = 0
       /\ service = 0 /\ receipt = 0 /\ work = 0 /\ found = 0 /\ faults = 0 /\ rows = 0
       /\ sound = 0 /\ config = 0 /\ prior = 0 /\ staged = 0 /\ out = 0 /\ installed = 0
       /\ staging = 0 /\ torn = 0 /\ state = 0 /\ touched = 0 /\ page = 0 /\ action = 0
       /\ window = 0
    \/ /\ focus = "trees" /\ RuntimeWorld!Init
       /\ Init /\ HostRests /\ RestoreRests /\ ActivationRests /\ LibraryRests
       /\ CleanupRests /\ GatewayRests /\ CredentialRests /\ WebUIRests /\ IntegrationRests
       /\ DeskRests /\ ChatRests /\ DatabaseRests /\ SetupRests /\ DeliveryRests
       /\ RepairRests /\ CalibrationRests /\ lock = 0 /\ rows = 0 /\ sound = 0 /\ config = 0
       /\ prior = 0 /\ staged = 0 /\ out = 0 /\ installed = 0 /\ staging = 0 /\ torn = 0
       /\ state = 0 /\ touched = 0 /\ page = 0 /\ action = 0 /\ window = 0
    \/ /\ focus = "restore" /\ Restore!Init
       /\ Init /\ HostRests /\ RuntimeWorldRests /\ ActivationRests /\ LibraryRests
       /\ CleanupRests /\ GatewayRests /\ CredentialRests /\ WebUIRests /\ IntegrationRests
       /\ DeskRests /\ ChatRests /\ DatabaseRests /\ SetupRests /\ DeliveryRests
       /\ RepairRests /\ CalibrationRests /\ lock = 0 /\ op = 0 /\ known = 0 /\ handoff = 0
       /\ service = 0 /\ found = 0 /\ config = 0 /\ prior = 0 /\ staged = 0 /\ out = 0
       /\ installed = 0 /\ staging = 0 /\ torn = 0 /\ state = 0 /\ touched = 0 /\ page = 0
       /\ action = 0 /\ window = 0
    \/ /\ focus = "activation" /\ Activation!Init
       /\ Init /\ HostRests /\ RuntimeWorldRests /\ RestoreRests /\ LibraryRests
       /\ CleanupRests /\ GatewayRests /\ CredentialRests /\ WebUIRests /\ IntegrationRests
       /\ DeskRests /\ ChatRests /\ DatabaseRests /\ SetupRests /\ DeliveryRests
       /\ RepairRests /\ CalibrationRests /\ lock = 0 /\ op = 0 /\ receipt = 0 /\ rows = 0
       /\ staged = 0 /\ out = 0 /\ installed = 0 /\ staging = 0 /\ torn = 0 /\ state = 0
       /\ touched = 0 /\ page = 0 /\ action = 0 /\ window = 0
    \/ /\ focus = "store" /\ Library!Init
       /\ Init /\ HostRests /\ RuntimeWorldRests /\ RestoreRests /\ ActivationRests
       /\ CleanupRests /\ GatewayRests /\ CredentialRests /\ WebUIRests /\ IntegrationRests
       /\ DeskRests /\ ChatRests /\ DatabaseRests /\ SetupRests /\ DeliveryRests
       /\ RepairRests /\ CalibrationRests /\ lock = 0 /\ op = 0 /\ known = 0 /\ handoff = 0
       /\ service = 0 /\ work = 0 /\ found = 0 /\ rows = 0 /\ sound = 0 /\ config = 0
       /\ prior = 0 /\ staging = 0 /\ torn = 0 /\ state = 0 /\ touched = 0 /\ page = 0
       /\ action = 0 /\ window = 0
    \/ /\ focus = "cleanup" /\ Cleanup!Init
       /\ Init /\ HostRests /\ RuntimeWorldRests /\ RestoreRests /\ ActivationRests
       /\ LibraryRests /\ GatewayRests /\ CredentialRests /\ WebUIRests /\ IntegrationRests
       /\ DeskRests /\ ChatRests /\ DatabaseRests /\ SetupRests /\ DeliveryRests
       /\ RepairRests /\ CalibrationRests /\ lock = 0 /\ op = 0 /\ known = 0 /\ handoff = 0
       /\ service = 0 /\ work = 0 /\ found = 0 /\ rows = 0 /\ sound = 0 /\ config = 0
       /\ prior = 0 /\ staged = 0 /\ out = 0 /\ installed = 0 /\ torn = 0 /\ state = 0
       /\ touched = 0 /\ page = 0 /\ action = 0 /\ window = 0
    \/ /\ focus = "requests" /\ Gateway!Init
       /\ Init /\ HostRests /\ RuntimeWorldRests /\ RestoreRests /\ ActivationRests
       /\ LibraryRests /\ CleanupRests /\ CredentialRests /\ WebUIRests /\ IntegrationRests
       /\ DeskRests /\ ChatRests /\ DatabaseRests /\ SetupRests /\ DeliveryRests
       /\ RepairRests /\ CalibrationRests /\ lock = 0 /\ op = 0 /\ run = 0 /\ known = 0
       /\ handoff = 0 /\ service = 0 /\ receipt = 0 /\ work = 0 /\ found = 0 /\ faults = 0
       /\ sound = 0 /\ config = 0 /\ prior = 0 /\ staged = 0 /\ out = 0 /\ installed = 0
       /\ staging = 0 /\ state = 0 /\ touched = 0 /\ page = 0 /\ action = 0 /\ window = 0
    \/ /\ focus = "credential" /\ Credential!Init
       /\ Init /\ HostRests /\ RuntimeWorldRests /\ RestoreRests /\ ActivationRests
       /\ LibraryRests /\ CleanupRests /\ GatewayRests /\ WebUIRests /\ IntegrationRests
       /\ DeskRests /\ ChatRests /\ DatabaseRests /\ SetupRests /\ DeliveryRests
       /\ RepairRests /\ CalibrationRests /\ lock = 0 /\ op = 0 /\ run = 0 /\ known = 0
       /\ handoff = 0 /\ service = 0 /\ receipt = 0 /\ found = 0 /\ rows = 0 /\ sound = 0
       /\ config = 0 /\ prior = 0 /\ staged = 0 /\ out = 0 /\ installed = 0 /\ staging = 0
       /\ torn = 0 /\ touched = 0 /\ page = 0 /\ action = 0 /\ window = 0
    \/ /\ focus = "webui" /\ WebUI!Init
       /\ Init /\ HostRests /\ RuntimeWorldRests /\ RestoreRests /\ ActivationRests
       /\ LibraryRests /\ CleanupRests /\ GatewayRests /\ CredentialRests
       /\ IntegrationRests /\ DeskRests /\ ChatRests /\ DatabaseRests /\ SetupRests
       /\ DeliveryRests /\ RepairRests /\ CalibrationRests /\ lock = 0 /\ op = 0 /\ run = 0
       /\ known = 0 /\ handoff = 0 /\ service = 0 /\ receipt = 0 /\ work = 0 /\ rows = 0
       /\ sound = 0 /\ config = 0 /\ prior = 0 /\ staged = 0 /\ out = 0 /\ installed = 0
       /\ staging = 0 /\ torn = 0 /\ state = 0 /\ touched = 0 /\ page = 0 /\ action = 0
       /\ window = 0
    \/ /\ focus = "integration" /\ Integration!Init
       /\ Init /\ HostRests /\ RuntimeWorldRests /\ RestoreRests /\ ActivationRests
       /\ LibraryRests /\ CleanupRests /\ GatewayRests /\ CredentialRests /\ WebUIRests
       /\ DeskRests /\ ChatRests /\ DatabaseRests /\ SetupRests /\ DeliveryRests
       /\ RepairRests /\ CalibrationRests /\ lock = 0 /\ op = 0 /\ known = 0 /\ handoff = 0
       /\ service = 0 /\ receipt = 0 /\ found = 0 /\ rows = 0 /\ sound = 0 /\ config = 0
       /\ prior = 0 /\ staged = 0 /\ out = 0 /\ installed = 0 /\ staging = 0 /\ torn = 0
       /\ state = 0 /\ page = 0 /\ action = 0 /\ window = 0
    \/ /\ focus = "desk" /\ Desk!Init
       /\ Init /\ HostRests /\ RuntimeWorldRests /\ RestoreRests /\ ActivationRests
       /\ LibraryRests /\ CleanupRests /\ GatewayRests /\ CredentialRests /\ WebUIRests
       /\ IntegrationRests /\ ChatRests /\ DatabaseRests /\ SetupRests /\ DeliveryRests
       /\ RepairRests /\ CalibrationRests /\ lock = 0 /\ op = 0 /\ run = 0 /\ known = 0
       /\ handoff = 0 /\ receipt = 0 /\ work = 0 /\ found = 0 /\ faults = 0 /\ rows = 0
       /\ sound = 0 /\ config = 0 /\ prior = 0 /\ staged = 0 /\ out = 0 /\ installed = 0
       /\ staging = 0 /\ torn = 0 /\ touched = 0 /\ page = 0 /\ action = 0 /\ window = 0
    \/ /\ focus = "talk" /\ Chat!Init
       /\ Init /\ HostRests /\ RuntimeWorldRests /\ RestoreRests /\ ActivationRests
       /\ LibraryRests /\ CleanupRests /\ GatewayRests /\ CredentialRests /\ WebUIRests
       /\ IntegrationRests /\ DeskRests /\ DatabaseRests /\ SetupRests /\ DeliveryRests
       /\ RepairRests /\ CalibrationRests /\ lock = 0 /\ op = 0 /\ run = 0 /\ known = 0
       /\ handoff = 0 /\ service = 0 /\ receipt = 0 /\ work = 0 /\ found = 0 /\ faults = 0
       /\ rows = 0 /\ sound = 0 /\ config = 0 /\ prior = 0 /\ staged = 0 /\ out = 0
       /\ installed = 0 /\ staging = 0 /\ torn = 0 /\ state = 0 /\ touched = 0 /\ window = 0
    \/ /\ focus = "database" /\ Database!Init
       /\ Init /\ HostRests /\ RuntimeWorldRests /\ RestoreRests /\ ActivationRests
       /\ LibraryRests /\ CleanupRests /\ GatewayRests /\ CredentialRests /\ WebUIRests
       /\ IntegrationRests /\ DeskRests /\ ChatRests /\ SetupRests /\ DeliveryRests
       /\ RepairRests /\ CalibrationRests /\ op = 0 /\ run = 0 /\ known = 0 /\ handoff = 0
       /\ service = 0 /\ receipt = 0 /\ work = 0 /\ found = 0 /\ faults = 0 /\ rows = 0
       /\ sound = 0 /\ config = 0 /\ prior = 0 /\ staged = 0 /\ out = 0 /\ installed = 0
       /\ torn = 0 /\ state = 0 /\ touched = 0 /\ page = 0 /\ action = 0 /\ window = 0
    \/ /\ focus = "setup" /\ Setup!Init
       /\ Init /\ HostRests /\ RuntimeWorldRests /\ RestoreRests /\ ActivationRests
       /\ LibraryRests /\ CleanupRests /\ GatewayRests /\ CredentialRests /\ WebUIRests
       /\ IntegrationRests /\ DeskRests /\ ChatRests /\ DatabaseRests /\ DeliveryRests
       /\ RepairRests /\ CalibrationRests /\ lock = 0 /\ op = 0 /\ run = 0 /\ known = 0
       /\ handoff = 0 /\ service = 0 /\ receipt = 0 /\ work = 0 /\ found = 0 /\ faults = 0
       /\ rows = 0 /\ sound = 0 /\ config = 0 /\ prior = 0 /\ staged = 0 /\ out = 0
       /\ installed = 0 /\ staging = 0 /\ torn = 0 /\ state = 0 /\ touched = 0 /\ page = 0
       /\ action = 0
    \/ /\ focus = "delivery" /\ Delivery!Init
       /\ Init /\ HostRests /\ RuntimeWorldRests /\ RestoreRests /\ ActivationRests
       /\ LibraryRests /\ CleanupRests /\ GatewayRests /\ CredentialRests /\ WebUIRests
       /\ IntegrationRests /\ DeskRests /\ ChatRests /\ DatabaseRests /\ SetupRests
       /\ RepairRests /\ CalibrationRests /\ lock = 0 /\ op = 0 /\ run = 0 /\ known = 0
       /\ handoff = 0 /\ service = 0 /\ receipt = 0 /\ work = 0 /\ found = 0 /\ faults = 0
       /\ rows = 0 /\ sound = 0 /\ config = 0 /\ prior = 0 /\ out = 0 /\ staging = 0
       /\ torn = 0 /\ state = 0 /\ touched = 0 /\ action = 0 /\ window = 0
    \/ /\ focus = "repair" /\ Repair!Init
       /\ Init /\ HostRests /\ RuntimeWorldRests /\ RestoreRests /\ ActivationRests
       /\ LibraryRests /\ CleanupRests /\ GatewayRests /\ CredentialRests /\ WebUIRests
       /\ IntegrationRests /\ DeskRests /\ ChatRests /\ DatabaseRests /\ SetupRests
       /\ DeliveryRests /\ CalibrationRests /\ lock = 0 /\ op = 0 /\ run = 0 /\ known = 0
       /\ handoff = 0 /\ service = 0 /\ receipt = 0 /\ work = 0 /\ found = 0 /\ faults = 0
       /\ rows = 0 /\ sound = 0 /\ config = 0 /\ prior = 0 /\ staged = 0 /\ out = 0
       /\ installed = 0 /\ staging = 0 /\ torn = 0 /\ state = 0 /\ page = 0
    \/ /\ focus = "calibration" /\ Calibration!Init
       /\ Init /\ HostRests /\ RuntimeWorldRests /\ RestoreRests /\ ActivationRests
       /\ LibraryRests /\ CleanupRests /\ GatewayRests /\ CredentialRests /\ WebUIRests
       /\ IntegrationRests /\ DeskRests /\ ChatRests /\ DatabaseRests /\ SetupRests
       /\ DeliveryRests /\ RepairRests /\ lock = 0 /\ op = 0 /\ receipt = 0 /\ rows = 0
       /\ sound = 0 /\ staged = 0 /\ installed = 0 /\ staging = 0 /\ state = 0
       /\ touched = 0 /\ page = 0 /\ action = 0 /\ window = 0

LeasesStep ==
    /\ focus = "leases" /\ Next
    /\ UNCHANGED <<focus, hostsOwn, treesOwn, restoreOwn, activationOwn, storeOwn,
                   cleanupOwn, requestsOwn, credentialOwn, webuiOwn, integrationOwn,
                   deskOwn, talkOwn, databaseOwn, setupOwn, deliveryOwn, repairOwn,
                   calibrationOwn, lock, op, run, known, handoff, service, receipt, work,
                   found, faults, rows, sound, config, prior, staged, out, installed,
                   staging, torn, state, touched, page, action, window>>

HostStep ==
    /\ focus = "hosts" /\ Host!Next
    /\ UNCHANGED <<focus, vars, treesOwn, restoreOwn, activationOwn, storeOwn, cleanupOwn,
                   requestsOwn, credentialOwn, webuiOwn, integrationOwn, deskOwn, talkOwn,
                   databaseOwn, setupOwn, deliveryOwn, repairOwn, calibrationOwn, run,
                   known, handoff, service, receipt, work, found, faults, rows, sound,
                   config, prior, staged, out, installed, staging, torn, state, touched,
                   page, action, window>>

RuntimeWorldStep ==
    /\ focus = "trees" /\ RuntimeWorld!Next
    /\ UNCHANGED <<focus, vars, hostsOwn, restoreOwn, activationOwn, storeOwn, cleanupOwn,
                   requestsOwn, credentialOwn, webuiOwn, integrationOwn, deskOwn, talkOwn,
                   databaseOwn, setupOwn, deliveryOwn, repairOwn, calibrationOwn, lock,
                   rows, sound, config, prior, staged, out, installed, staging, torn, state,
                   touched, page, action, window>>

RestoreStep ==
    /\ focus = "restore" /\ Restore!Next
    /\ UNCHANGED <<focus, vars, hostsOwn, treesOwn, activationOwn, storeOwn, cleanupOwn,
                   requestsOwn, credentialOwn, webuiOwn, integrationOwn, deskOwn, talkOwn,
                   databaseOwn, setupOwn, deliveryOwn, repairOwn, calibrationOwn, lock, op,
                   known, handoff, service, found, config, prior, staged, out, installed,
                   staging, torn, state, touched, page, action, window>>

ActivationStep ==
    /\ focus = "activation" /\ Activation!Next
    /\ UNCHANGED <<focus, vars, hostsOwn, treesOwn, restoreOwn, storeOwn, cleanupOwn,
                   requestsOwn, credentialOwn, webuiOwn, integrationOwn, deskOwn, talkOwn,
                   databaseOwn, setupOwn, deliveryOwn, repairOwn, calibrationOwn, lock, op,
                   receipt, rows, staged, out, installed, staging, torn, state, touched,
                   page, action, window>>

LibraryStep ==
    /\ focus = "store" /\ Library!Next
    /\ UNCHANGED <<focus, vars, hostsOwn, treesOwn, restoreOwn, activationOwn, cleanupOwn,
                   requestsOwn, credentialOwn, webuiOwn, integrationOwn, deskOwn, talkOwn,
                   databaseOwn, setupOwn, deliveryOwn, repairOwn, calibrationOwn, lock, op,
                   known, handoff, service, work, found, rows, sound, config, prior,
                   staging, torn, state, touched, page, action, window>>

CleanupStep ==
    /\ focus = "cleanup" /\ Cleanup!Next
    /\ UNCHANGED <<focus, vars, hostsOwn, treesOwn, restoreOwn, activationOwn, storeOwn,
                   requestsOwn, credentialOwn, webuiOwn, integrationOwn, deskOwn, talkOwn,
                   databaseOwn, setupOwn, deliveryOwn, repairOwn, calibrationOwn, lock, op,
                   known, handoff, service, work, found, rows, sound, config, prior, staged,
                   out, installed, torn, state, touched, page, action, window>>

GatewayStep ==
    /\ focus = "requests" /\ Gateway!Next
    /\ UNCHANGED <<focus, vars, hostsOwn, treesOwn, restoreOwn, activationOwn, storeOwn,
                   cleanupOwn, credentialOwn, webuiOwn, integrationOwn, deskOwn, talkOwn,
                   databaseOwn, setupOwn, deliveryOwn, repairOwn, calibrationOwn, lock, op,
                   run, known, handoff, service, receipt, work, found, faults, sound,
                   config, prior, staged, out, installed, staging, state, touched, page,
                   action, window>>

CredentialStep ==
    /\ focus = "credential" /\ Credential!Next
    /\ UNCHANGED <<focus, vars, hostsOwn, treesOwn, restoreOwn, activationOwn, storeOwn,
                   cleanupOwn, requestsOwn, webuiOwn, integrationOwn, deskOwn, talkOwn,
                   databaseOwn, setupOwn, deliveryOwn, repairOwn, calibrationOwn, lock, op,
                   run, known, handoff, service, receipt, found, rows, sound, config, prior,
                   staged, out, installed, staging, torn, touched, page, action, window>>

WebUIStep ==
    /\ focus = "webui" /\ WebUI!Next
    /\ UNCHANGED <<focus, vars, hostsOwn, treesOwn, restoreOwn, activationOwn, storeOwn,
                   cleanupOwn, requestsOwn, credentialOwn, integrationOwn, deskOwn, talkOwn,
                   databaseOwn, setupOwn, deliveryOwn, repairOwn, calibrationOwn, lock, op,
                   run, known, handoff, service, receipt, work, rows, sound, config, prior,
                   staged, out, installed, staging, torn, state, touched, page, action,
                   window>>

IntegrationStep ==
    /\ focus = "integration" /\ Integration!Next
    /\ UNCHANGED <<focus, vars, hostsOwn, treesOwn, restoreOwn, activationOwn, storeOwn,
                   cleanupOwn, requestsOwn, credentialOwn, webuiOwn, deskOwn, talkOwn,
                   databaseOwn, setupOwn, deliveryOwn, repairOwn, calibrationOwn, lock, op,
                   known, handoff, service, receipt, found, rows, sound, config, prior,
                   staged, out, installed, staging, torn, state, page, action, window>>

DeskStep ==
    /\ focus = "desk" /\ Desk!Next
    /\ UNCHANGED <<focus, vars, hostsOwn, treesOwn, restoreOwn, activationOwn, storeOwn,
                   cleanupOwn, requestsOwn, credentialOwn, webuiOwn, integrationOwn,
                   talkOwn, databaseOwn, setupOwn, deliveryOwn, repairOwn, calibrationOwn,
                   lock, op, run, known, handoff, receipt, work, found, faults, rows, sound,
                   config, prior, staged, out, installed, staging, torn, touched, page,
                   action, window>>

ChatStep ==
    /\ focus = "talk" /\ Chat!Next
    /\ UNCHANGED <<focus, vars, hostsOwn, treesOwn, restoreOwn, activationOwn, storeOwn,
                   cleanupOwn, requestsOwn, credentialOwn, webuiOwn, integrationOwn,
                   deskOwn, databaseOwn, setupOwn, deliveryOwn, repairOwn, calibrationOwn,
                   lock, op, run, known, handoff, service, receipt, work, found, faults,
                   rows, sound, config, prior, staged, out, installed, staging, torn, state,
                   touched, window>>

DatabaseStep ==
    /\ focus = "database" /\ Database!Next
    /\ UNCHANGED <<focus, vars, hostsOwn, treesOwn, restoreOwn, activationOwn, storeOwn,
                   cleanupOwn, requestsOwn, credentialOwn, webuiOwn, integrationOwn,
                   deskOwn, talkOwn, setupOwn, deliveryOwn, repairOwn, calibrationOwn, op,
                   run, known, handoff, service, receipt, work, found, faults, rows, sound,
                   config, prior, staged, out, installed, torn, state, touched, page,
                   action, window>>

SetupStep ==
    /\ focus = "setup" /\ Setup!Next
    /\ UNCHANGED <<focus, vars, hostsOwn, treesOwn, restoreOwn, activationOwn, storeOwn,
                   cleanupOwn, requestsOwn, credentialOwn, webuiOwn, integrationOwn,
                   deskOwn, talkOwn, databaseOwn, deliveryOwn, repairOwn, calibrationOwn,
                   lock, op, run, known, handoff, service, receipt, work, found, faults,
                   rows, sound, config, prior, staged, out, installed, staging, torn, state,
                   touched, page, action>>

DeliveryStep ==
    /\ focus = "delivery" /\ Delivery!Next
    /\ UNCHANGED <<focus, vars, hostsOwn, treesOwn, restoreOwn, activationOwn, storeOwn,
                   cleanupOwn, requestsOwn, credentialOwn, webuiOwn, integrationOwn,
                   deskOwn, talkOwn, databaseOwn, setupOwn, repairOwn, calibrationOwn, lock,
                   op, run, known, handoff, service, receipt, work, found, faults, rows,
                   sound, config, prior, out, staging, torn, state, touched, action, window>>

RepairStep ==
    /\ focus = "repair" /\ Repair!Next
    /\ UNCHANGED <<focus, vars, hostsOwn, treesOwn, restoreOwn, activationOwn, storeOwn,
                   cleanupOwn, requestsOwn, credentialOwn, webuiOwn, integrationOwn,
                   deskOwn, talkOwn, databaseOwn, setupOwn, deliveryOwn, calibrationOwn,
                   lock, op, run, known, handoff, service, receipt, work, found, faults,
                   rows, sound, config, prior, staged, out, installed, staging, torn, state,
                   page>>

CalibrationStep ==
    /\ focus = "calibration" /\ Calibration!Next
    /\ UNCHANGED <<focus, vars, hostsOwn, treesOwn, restoreOwn, activationOwn, storeOwn,
                   cleanupOwn, requestsOwn, credentialOwn, webuiOwn, integrationOwn,
                   deskOwn, talkOwn, databaseOwn, setupOwn, deliveryOwn, repairOwn, lock,
                   op, receipt, rows, sound, staged, installed, staging, state, touched,
                   page, action, window>>

WorldsNext ==
    \/ LeasesStep
    \/ HostStep
    \/ RuntimeWorldStep
    \/ RestoreStep
    \/ ActivationStep
    \/ LibraryStep
    \/ CleanupStep
    \/ GatewayStep
    \/ CredentialStep
    \/ WebUIStep
    \/ IntegrationStep
    \/ DeskStep
    \/ ChatStep
    \/ DatabaseStep
    \/ SetupStep
    \/ DeliveryStep
    \/ RepairStep
    \/ CalibrationStep

worldVars == <<focus, vars, hostsOwn, treesOwn, restoreOwn, activationOwn, storeOwn,
               cleanupOwn, requestsOwn, credentialOwn, webuiOwn, integrationOwn, deskOwn,
               talkOwn, databaseOwn, setupOwn, deliveryOwn, repairOwn, calibrationOwn, lock,
               op, run, known, handoff, service, receipt, work, found, faults, rows, sound,
               config, prior, staged, out, installed, staging, torn, state, touched, page,
               action, window>>

WorldsSpec == WorldsInit /\ [][WorldsNext]_worldVars

-----------------------------------------------------------------------------

\* Whatever becomes of worker_locks, an operation has one executor, and a host
\* that lost the row claims no further operation after the one its next heartbeat
\* finds (_heartbeat_lock, execute_one).
HostsApart == focus = "hosts" => Host!HostsApart

\* A running operation has a lease row, so that some host finds it again
\* (_next_work).
RunningIsFindable == focus = "hosts" => Host!RunningIsFindable

\* Success leaves one runtime everywhere, a failure what it found, and in between
\* the registry says where every tree is (verify_runtime_identity,
\* restore_prior_runtime).
TreesSound == focus = "trees" => RuntimeWorld!TreesSound

\* After any death the active database has the operation at the step whose
\* evidence is on disk, and the database exchanged in was copied after the last
\* write (probe_restore_published, require_writable_profile).
RestoreSound == focus = "restore" => Restore!RestoreSound

\* Success leaves configuration, handoff, known-good row and server with the
\* requested model, and a failure that is not a barrier as found (check_health,
\* restore_prior).
ActivationSound == focus = "activation" => Activation!ActivationSound

\* No step of an import, a removal or their takeover takes the bytes of an
\* installed alias, deletes published bytes, installs what was not accepted, or
\* ends with the disk space still reserved (quarantine_bytes,
\* register_installation).
StoreKept == [][focus = "store" => Library!KeepsStore]_worldVars

\* Whatever dies or fails between a rename and its receipt, no tree is lost or
\* doubled, success means all targets and a rollback none (apply_mode, probe_mode,
\* compensate_mode).
CleanupSound == focus = "cleanup" => Cleanup!CleanupSound

\* Whatever windows pass and rows come and go, a client's reservations are those
\* of its requests under way, or of one that ended in an exception, unless its row
\* was evicted from under a thread (RateLimiter, prepare_request, finish_request).
SlotsExact == focus = "requests" => Gateway!SlotsExact

\* Rows, fingerprints and files agree through deaths and races of two commands:
\* what was taken back stays out, and an active client has its secret
\* (ConnectionCredentialCommandService).
CredentialsAgree == focus = "credential" => Credential!CredentialsAgree

\* The old container survives until the new one is verified, wherever a
\* transaction fails or dies before it removes the old one; and what had been
\* parked is put back (OpenWebUITransaction).
OldSurvives == focus = "webui" => WebUI!OldSurvives

\* Wherever a step fails, the worker dies or a cancellation arrives: the gateway
\* runs for whom the receipt names, success is complete and a rollback restores
\* the baseline (IntegrationSetupHostAdapter, GatewayService).
SetupKeepsBaseline == focus = "integration" => Integration!SetupKeepsBaseline

\* Whoever starts, resumes, cancels, retries, recovers, interrupts or dies: an end
\* that a surface reports is the operation's own, a runtime that is not whole
\* stays behind its barrier, an accepted cancellation never succeeds (the command
\* services, OperationCommandService).
DeskKeepsWord == focus = "desk" => Desk!DeskKeepsWord

\* No save of the window drops a stored message, and whoever leaves the page or
\* turns to another conversation leaves no message behind that no file holds
\* (_finish, _recover_save, request_leave, ConversationService.save).
AnswersKept == [][focus = "talk" => Chat!KeepsAnswers]_worldVars

\* Whatever dies and whoever else starts, the published database is at a version
\* and later starts can go on from it, a service finds its tables, no fresh
\* database hides the state to be imported, and no published row is lost
\* (initialize, import_legacy, compose).
DatabaseKept == [][focus = "database" => Database!KeepsDatabase]_worldVars

\* Wherever the window or a terminal dies, the recorded stage, and every stage
\* before it, is true of the machine; nothing is changed before the
\* acknowledgement; no stage is skipped; the window shows a step it can record
\* (SetupService, SetupWindow, bootstrap).
SetupKept == [][focus = "setup" => Setup!KeepsSetup]_worldVars

\* From the archive to the wheel in a slot, through late previews, two surfaces, a
\* dying import and a damaged bundle: only verified releases are kept and
\* recorded, what is installed is what was confirmed, on the installation it was
\* confirmed for (OfflineApplicationBundleStore, ApplicationUpdateCommandService,
\* UpdatesPage).
Delivered == focus = "delivery" => Delivery!Delivered

\* However long a confirmation takes and whatever the owners do between the
\* observations and the change, a repair changes exactly what was confirmed or
\* nothing: no live lock, driven operation, used content or changed client is
\* touched, and an undo restores once, in time and the same tree
\* (RepairCommandService, ApplicationRepairAdapter, UndoService).
Repaired == focus = "repair" => Repair!Repaired

\* Whatever dies or fails during the trials of a calibration, its end leaves the
\* configuration, the handoff and the server as it found them (but for the two
\* cases CalibrationSound names), no candidate is tried again once its result is
\* durable, and the evidence of the profile is its own measured and fastest
\* configuration (_restore, probe_candidate, record_winner).
CalibrationSound == focus = "calibration" => Calibration!CalibrationSound

=============================================================================
