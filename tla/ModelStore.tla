----------------------------- MODULE ModelStore -----------------------------
(***************************************************************************)
(* The managed model files under one MODEL_IMPORT (acquisition_adapter.py, *)
(* artifact_storage.py) and one MODEL_REMOVE (model_remove_adapter.py).    *)
(* Both need the lease of the model storage, so one of them works at a     *)
(* time; but a lease expires with its worker, and the other operation may  *)
(* come in between two steps of an interrupted one.  An activation of the  *)
(* alias to be removed needs other leases and runs beside them.            *)
(*                                                                         *)
(* A file is its content; sizes are equal.  MODEL_ACQUIRE differs only in  *)
(* where the bytes come from.  Left out: disk space, the extra columns of  *)
(* an artifact, collisions of equal digests with different bytes.          *)
(***************************************************************************)
EXTENDS Naturals, Sequences, FiniteSets

CONSTANTS None, MaxFaults

LOCAL INSTANCE StepRun
LOCAL W == INSTANCE Workflows

Contents == {"x", "y", "z"}
Valid    == {"x", "y"}       \* those whose layout hash_and_validate_candidate accepts
Aliases  == {"a", "b"}
Removed  == "a"             \* the alias the removal was asked for

VARIABLES
    run,        \* the two operations
    asked,      \* those that were submitted
    wanted,     \* the alias the import was asked for
    source,     \* what the local file holds now
    staged,     \* the operation's staging directory: partial, whole, candidate
    out,        \* outputs of the import: resolved, candidate, verdict, publication
    slot,       \* the import's reservation: none, RESERVED, RELEASED
    receipt,    \* its publication receipt exists
    files,      \* contents under the artifact directory
    aside,      \* contents in a quarantine
    artifacts,  \* content -> None, MANAGED or QUARANTINED (model_artifacts)
    installed,  \* alias -> content or None (model_installations)
    identity,   \* outputs of the removal: the content of the alias
    decided,    \* and what became of its bytes, or None
    recorded,   \* its receipt exists
    activation, \* of the alias to be removed: idle, RUNNING, COMMITTING, active
    faults

storeVars == <<run, asked, wanted, source, staged, out, slot, receipt, files, aside,
               artifacts, installed, identity, decided, recorded, activation, faults>>

Operations == {"import", "remove"}
Wf(op) == IF op = "import" THEN W!ModelAcquire ELSE W!ModelRemove
Names(op) ==
    IF op = "import"
    THEN <<"resolve", "reserve", "transfer", "materialize", "validate", "publish", "register", "finalize">>
    ELSE <<"identity", "detach", "quarantine", "record">>
At(op) == Names(op)[run[op].at]
Pending(op) == run[op].end = "none"
Other(op) == CHOOSE o \in Operations : o # op

\* The lease of model-storage is free or its holder is dead.
MayWork(op) == op \in asked /\ run[Other(op)].pc = "down"
Executing(op, name) == MayWork(op) /\ Pending(op) /\ run[op].pc = "effect" /\ At(op) = name

Empty == [partial |-> None, whole |-> FALSE, candidate |-> None]

Inputs == <<asked, wanted, source>>
ImportState == <<staged, out, slot, receipt>>
RemovalState == <<identity, decided, recorded>>
Store == <<files, aside, artifacts, installed>>

-----------------------------------------------------------------------------
(* Probes and verifications                                                *)

\* probe_transfer compares sizes.
TransferProbe ==
    IF staged.partial = None THEN "ABSENT"
    ELSE IF staged.whole THEN "COMPLETE" ELSE "PARTIALLY_RESUMABLE"

\* probe_candidate
CandidateProbe ==
    IF staged.candidate = None THEN "ABSENT"
    ELSE IF out.candidate \notin {None, staged.candidate} THEN "DISCARDABLE" ELSE "COMPLETE"

\* probe_publication
PublicationProbe ==
    IF out.verdict # "ok" THEN (IF out.candidate \in aside THEN "COMPLETE" ELSE "ABSENT")
    ELSE IF receipt /\ out.candidate \in files THEN "COMPLETE" ELSE "ABSENT"

\* probe_registration
RegistrationProbe ==
    IF artifacts[out.candidate] # None
       /\ (out.publication = "quarantined" \/ installed[wanted] = out.candidate)
    THEN "COMPLETE" ELSE "ABSENT"

\* probe_finalization
Finalized == staged = Empty /\ slot # "RESERVED"

Probe(op) ==
    CASE At(op) \in {"resolve", "validate", "identity", "quarantine"} -> "ABSENT"
      [] At(op) = "reserve"     -> IF slot = "RESERVED" THEN "COMPLETE" ELSE "ABSENT"
      [] At(op) = "transfer"    -> TransferProbe
      [] At(op) = "materialize" -> CandidateProbe
      [] At(op) = "publish"     -> PublicationProbe
      [] At(op) = "register"    -> RegistrationProbe
      [] At(op) = "finalize"    -> IF Finalized THEN "COMPLETE" ELSE "REVERTIBLE"
      [] At(op) = "detach"      -> IF installed[Removed] = None THEN "COMPLETE" ELSE "ABSENT"
      [] At(op) = "record"      -> IF recorded THEN "COMPLETE" ELSE "ABSENT"

\* The transfer is verified by the sizes it reported.
Holds(op) ==
    CASE At(op) = "resolve" -> source = out.resolved
      [] At(op) \in {"transfer", "validate", "identity", "quarantine"} -> TRUE
      [] OTHER -> Probe(op) = "COMPLETE"

\* The output of a step that was recovered is the one its probe returns.
Recovered(op, r) ==
    IF run[op].pc # "probe" \/ r.pc # "reverify" THEN out
    ELSE CASE At(op) = "materialize" -> [out EXCEPT !.candidate = staged.candidate]
           [] At(op) = "publish" ->
                  [out EXCEPT !.publication = IF out.verdict = "ok" THEN "stored" ELSE "quarantined"]
           [] OTHER -> out

\* The terminal decision of an import whose candidate was set aside.
Decision(op, r) ==
    IF op = "import" /\ r.end = "SUCCEEDED" /\ out.publication = "quarantined"
    THEN [r EXCEPT !.end = "FAILED_SAFE"] ELSE r

Engine(op) ==
    /\ MayWork(op)
    /\ \E r \in Turns(run[op], Wf(op), Holds(op), {Probe(op)}, "COMPLETE") :
         /\ run' = [run EXCEPT ![op] = Decision(op, r)]
         /\ out' = Recovered(op, r)
    /\ UNCHANGED <<Inputs, staged, slot, receipt, Store, RemovalState, activation, faults>>

Fault == faults < MaxFaults /\ faults' = faults + 1

Misfortune(op) ==
    /\ MayWork(op)
    /\ Fault
    /\ \E r \in Mishaps(run[op], Wf(op), {Probe(op)}) : run' = [run EXCEPT ![op] = r]
    /\ UNCHANGED <<Inputs, ImportState, Store, RemovalState, activation>>

\* The finalizer of an import releases its reservation and keeps the partial file.
Cancel(op) ==
    /\ MayWork(op) /\ Cancellable(run[op], Wf(op))
    /\ Fault
    /\ run' = [run EXCEPT ![op] = Cancelled(run[op], Wf(op))]
    /\ slot' = IF op = "import" /\ slot = "RESERVED" THEN "RELEASED" ELSE slot
    /\ UNCHANGED <<Inputs, staged, out, receipt, Store, RemovalState, activation>>

Submit(op) ==
    /\ op \notin asked
    /\ asked' = asked \cup {op}
    /\ UNCHANGED <<run, wanted, source, ImportState, Store, RemovalState, activation, faults>>

\* Somebody edits the local file.
SourceChanges ==
    /\ source = "x" /\ Pending("import") /\ "import" \in asked
    /\ Fault
    /\ source' = "y"
    /\ UNCHANGED <<run, asked, wanted, ImportState, Store, RemovalState, activation>>

\* MODEL_ACTIVATE of the alias: COMMITTING within its critical steps, RUNNING
\* between them, and the known-good alias in the end.
Activate ==
    /\ \/ activation = "idle" /\ installed[Removed] # None /\ activation' = "RUNNING"
       \/ activation = "RUNNING" /\ activation' \in {"COMMITTING", "idle"}
       \/ activation = "COMMITTING" /\ activation' \in {"RUNNING", "active"}
    /\ UNCHANGED <<run, Inputs, ImportState, Store, RemovalState, faults>>

-----------------------------------------------------------------------------
(* The import                                                              *)

Done(op)  == run' = [run EXCEPT ![op] = Landed(@)]
Refuse(op) == run' = [run EXCEPT ![op] = Failed(@, Wf(op), Probe(op))]

\* observe_local_source
ResolveSource ==
    /\ Executing("import", "resolve")
    /\ out' = [out EXCEPT !.resolved = source]
    /\ Done("import")
    /\ UNCHANGED <<Inputs, staged, slot, receipt, Store, RemovalState, activation, faults>>

ReserveStorage ==
    /\ Executing("import", "reserve")
    /\ slot' = IF slot = "none" THEN "RESERVED" ELSE slot
    /\ Done("import")
    /\ UNCHANGED <<Inputs, staged, out, receipt, Store, RemovalState, activation, faults>>

\* copy_local: an interrupted copy is begun again.
CopySource ==
    /\ Executing("import", "transfer") /\ ~ staged.whole
    /\ \E all \in BOOLEAN : staged' = [staged EXCEPT !.partial = source, !.whole = all]
    /\ UNCHANGED <<run, Inputs, out, slot, receipt, Store, RemovalState, activation, faults>>

\* A copy that is not what was resolved is refused here.
CheckCopy ==
    /\ Executing("import", "transfer") /\ staged.whole
    /\ IF staged.partial = out.resolved THEN Done("import") ELSE Refuse("import")
    /\ UNCHANGED <<Inputs, ImportState, Store, RemovalState, activation, faults>>

MaterializeCandidate ==
    /\ Executing("import", "materialize")
    /\ IF staged.partial = None THEN Refuse("import") /\ UNCHANGED <<staged, out>>
       ELSE LET content == IF staged.candidate = None THEN staged.partial ELSE staged.candidate IN
            /\ staged' = [Empty EXCEPT !.candidate = content]
            /\ out' = [out EXCEPT !.candidate = content]
            /\ Done("import")
    /\ UNCHANGED <<Inputs, slot, receipt, Store, RemovalState, activation, faults>>

ValidateCandidate ==
    /\ Executing("import", "validate")
    /\ out' = [out EXCEPT !.verdict = IF staged.candidate \in Valid THEN "ok" ELSE "invalid"]
    /\ Done("import")
    /\ UNCHANGED <<Inputs, staged, slot, receipt, Store, RemovalState, activation, faults>>

\* publish_no_replace: the same bytes are reused.
LinkArtifact ==
    /\ Executing("import", "publish") /\ out.verdict = "ok" /\ out.candidate \notin files
    /\ files' = files \cup {out.candidate}
    /\ UNCHANGED <<run, Inputs, ImportState, aside, artifacts, installed, RemovalState, activation, faults>>

WriteReceipt ==
    /\ Executing("import", "publish") /\ out.verdict = "ok" /\ out.candidate \in files
    /\ receipt' = TRUE
    /\ out' = [out EXCEPT !.publication = "stored"]
    /\ Done("import")
    /\ UNCHANGED <<Inputs, staged, slot, Store, RemovalState, activation, faults>>

QuarantineCandidate ==
    /\ Executing("import", "publish") /\ out.verdict # "ok"
    /\ aside' = aside \cup {out.candidate}
    /\ out' = [out EXCEPT !.publication = "quarantined"]
    /\ Done("import")
    /\ UNCHANGED <<Inputs, staged, slot, receipt, files, artifacts, installed, RemovalState, activation, faults>>

\* register_installation, one transaction: an artifact that has a row keeps it, and
\* no alias is given to one in quarantine or taken from another.
RegisterInstallation ==
    LET c == out.candidate
        aside_ == out.publication = "quarantined"
        state == IF artifacts[c] # None THEN artifacts[c]
                 ELSE IF aside_ THEN "QUARANTINED" ELSE "MANAGED" IN
    /\ Executing("import", "register")
    /\ IF aside_ \/ installed[wanted] = c \/ (installed[wanted] = None /\ state = "MANAGED")
       THEN /\ artifacts' = [artifacts EXCEPT ![c] = state]
            /\ installed' = IF aside_ THEN installed ELSE [installed EXCEPT ![wanted] = c]
            /\ Done("import")
       ELSE Refuse("import") /\ UNCHANGED <<artifacts, installed>>
    /\ UNCHANGED <<Inputs, ImportState, files, aside, RemovalState, activation, faults>>

\* finalize_owned_staging
RemoveStaging ==
    /\ Executing("import", "finalize") /\ staged # Empty
    /\ staged' = Empty
    /\ UNCHANGED <<run, Inputs, out, slot, receipt, Store, RemovalState, activation, faults>>

ReleaseReservation ==
    /\ Executing("import", "finalize") /\ staged = Empty
    /\ slot' = "RELEASED"
    /\ Done("import")
    /\ UNCHANGED <<Inputs, staged, out, receipt, Store, RemovalState, activation, faults>>

-----------------------------------------------------------------------------
(* The removal                                                             *)

References(content) == {alias \in Aliases : installed[alias] = content}

\* An operation is pending unless it has ended or is within a critical step:
\* _blockers does not know COMMITTING.
ImportPending ==
    /\ "import" \in asked /\ Pending("import")
    /\ run["import"].row # "PENDING" => At("import") \notin {"publish", "register", "finalize"}

\* _blockers
Blockers ==
    \/ activation \in {"RUNNING", "active"}
    \/ Cardinality(References(installed[Removed])) > 1
    \/ ImportPending

ResolveIdentity ==
    /\ Executing("remove", "identity")
    /\ IF installed[Removed] = None \/ Blockers THEN Refuse("remove") /\ UNCHANGED identity
       ELSE identity' = installed[Removed] /\ Done("remove")
    /\ UNCHANGED <<Inputs, ImportState, Store, decided, recorded, activation, faults>>

DetachAlias ==
    /\ Executing("remove", "detach")
    /\ IF installed[Removed] # None /\ Blockers THEN Refuse("remove") /\ UNCHANGED installed
       ELSE installed' = [installed EXCEPT ![Removed] = None] /\ Done("remove")
    /\ UNCHANGED <<Inputs, ImportState, files, aside, artifacts, RemovalState, activation, faults>>

\* Variant of Retained: the references are not looked at again.
RetainedUnread == activation = "active"

\* The references are read again before the bytes are moved.
Retained == References(identity) # {} \/ activation = "active"

QuarantineBytes ==
    /\ Executing("remove", "quarantine")
    /\ IF Retained \/ identity \notin files
       THEN decided' = "retained" /\ UNCHANGED <<files, aside>>
       ELSE /\ files' = files \ {identity}
            /\ aside' = aside \cup {identity}
            /\ decided' = "moved"
    /\ Done("remove")
    /\ UNCHANGED <<Inputs, ImportState, artifacts, installed, identity, recorded, activation, faults>>

\* record_removal: the receipt, then the row.
WriteRemovalReceipt ==
    /\ Executing("remove", "record") /\ ~ recorded
    /\ recorded' = TRUE
    /\ UNCHANGED <<run, Inputs, ImportState, Store, identity, decided, activation, faults>>

RecordRemoval ==
    /\ Executing("remove", "record") /\ recorded
    /\ artifacts' = IF decided = "moved" THEN [artifacts EXCEPT ![identity] = "QUARANTINED"]
                    ELSE artifacts
    /\ Done("remove")
    /\ UNCHANGED <<Inputs, ImportState, files, aside, installed, RemovalState, activation, faults>>

-----------------------------------------------------------------------------

\* A library with one artifact under one or two aliases.
Init ==
    /\ run = [op \in Operations |-> Queued]
    /\ asked = {} /\ wanted \in Aliases
    /\ source \in Contents
    /\ staged = Empty /\ slot = "none" /\ receipt = FALSE
    /\ out = [resolved |-> None, candidate |-> None, verdict |-> None, publication |-> None]
    /\ files = {"x"} /\ aside = {}
    /\ artifacts = [c \in Contents |-> IF c = "x" THEN "MANAGED" ELSE None]
    /\ installed \in {[alias \in Aliases |-> IF alias \in held THEN "x" ELSE None] :
                          held \in {{"a"}, {"a", "b"}}}
    /\ identity = None /\ decided = None /\ recorded = FALSE
    /\ activation = "idle" /\ faults = 0

Import == ResolveSource \/ ReserveStorage \/ CopySource \/ CheckCopy \/ MaterializeCandidate
          \/ ValidateCandidate \/ LinkArtifact \/ WriteReceipt \/ QuarantineCandidate
          \/ RegisterInstallation \/ RemoveStaging \/ ReleaseReservation
Removal == ResolveIdentity \/ DetachAlias \/ QuarantineBytes \/ WriteRemovalReceipt \/ RecordRemoval

Next == \/ \E op \in Operations : Engine(op) \/ Misfortune(op) \/ Cancel(op) \/ Submit(op)
        \/ SourceChanges \/ Activate \/ Import \/ Removal

StoreSpec == Init /\ [][Next]_storeVars

-----------------------------------------------------------------------------

\* The bytes of an alias stay in place for as long as it is installed.
BytesStay ==
    \A alias \in Aliases :
        LET c == installed[alias] IN
        c # None /\ c \in files /\ installed'[alias] = c => c \in files'

\* No published bytes are deleted.
NothingDeleted == files \cup aside \subseteq files' \cup aside'

\* An alias is given to validated, recorded contents only.
InstalledValid ==
    \A alias \in Aliases :
        installed'[alias] \notin {None, installed[alias]} =>
            installed'[alias] \in Valid /\ artifacts'[installed'[alias]] = "MANAGED"

\* An import that ends has no reservation, unless it failed in between.
ReservationReturned ==
    run'["import"].end \in {"SUCCEEDED", "CANCELLED"} => slot' # "RESERVED"

\* No step of an import, a removal or their takeover takes the bytes of an installed
\* alias, deletes published bytes, installs what was not accepted, or ends with the
\* disk space still reserved (quarantine_bytes, register_installation).
KeepsStore == BytesStay /\ NothingDeleted /\ InstalledValid /\ ReservationReturned
StoreKept == [][KeepsStore]_storeVars

\* A local source that was changed is refused as LOCAL_SOURCE_CHANGED (copy_local).
ImportedAsResolved ==
    run["import"].end = "SUCCEEDED" => out.candidate = out.resolved

=============================================================================
