-------------------------- MODULE ReleaseDelivery --------------------------
(***************************************************************************)
(* How an application update reaches a slot: a signed bundle is imported,  *)
(* verified and put on the shelf (application_bundle.py), the release it   *)
(* holds is verified again for every preview and every step                *)
(* (application_update.py), a preview is confirmed in the window or typed  *)
(* at the command line (updates_page.py, application_update_command.py),   *)
(* and the operation it queues stages the wheel (application_staging.py).  *)
(* What follows, the pointer publication, is module ApplicationSlots; here *)
(* it is one step.                                                         *)
(*                                                                         *)
(* A process verifies on the SCHEMA_VERSION of its own code, and nothing   *)
(* restarts the window or a worker after an update: both may be of a slot  *)
(* that is no longer in force, a worker of any that ever was.  A command   *)
(* is a process of the slot in force when it is given.                     *)
(*                                                                         *)
(* A document is a record of what the verifier compares; a digest of it is *)
(* the document itself.  A release set is named, and the state holds the   *)
(* names.                                                                  *)
(***************************************************************************)
EXTENDS Integers, FiniteSets

CONSTANTS
    None,
    Versions,       \* bound: the versions previewed
    Faults,         \* bound: damages of a bundle on the shelf
    Generations     \* bound: publications

VARIABLES
    importer,       \* the tree whose import has renamed it and not recorded it yet
    shelf,          \* per digest, the tree in application_update_bundles_dir
    imports,        \* the digests with a row in application_update_imports
    installed,      \* application_installation_state
    published,      \* the releases whose installation row was CURRENT once
    profile,        \* the newest migration of the profile
    code,           \* the SCHEMA_VERSION of the window's process
    staged,         \* per digest, the wheel installed in its slot
    page,           \* the updates page: its previews, the drawer, a late answer
    update,         \* the APPLICATION_UPDATE the page queued
    damages         \* bundles damaged so far

slots == <<installed, published, profile>>
deliveryVars == <<importer, shelf, imports, slots, code, staged, page, update, damages>>

(***************************************************************************)
(* Release sets.                                                           *)
(***************************************************************************)
Files(version, wheel, source, target) ==
    LET inventory == [wheel |-> wheel]
        decision == [version |-> version, eligible |-> TRUE, inventory |-> inventory]
        sbom == [version |-> version, subject |-> wheel]
    IN  [decision |-> decision,
         manifest |-> [decision |-> decision, inventory |-> inventory, sbom |-> sbom],
         inventory |-> inventory,
         checksums |-> [wheel |-> wheel],
         sbom |-> sbom,
         compatibility |-> [source |-> source, target |-> target],
         wheel |-> wheel]

\* What the release pipeline signs: an envelope that names every document.
Signed(version, files) ==
    [version |-> version, members |-> files, files |-> files, signed |-> TRUE]

Genuine == {"zero", "first", "second", "twin", "later"}

\* Complete and signed, and wrong in one document.
Mixed == {"ineligible", "borrowed", "unlisted", "stale", "miscounted", "relabelled"}

\* "swapped" is the second release with a wheel that is not its own; "forged" is nobody's.
Catalogue ==
    LET first == Files("1", "w1", 1, 1)
        second == Files("2", "w2", 1, 2)
    IN
    [t \in Genuine \cup Mixed \cup {"swapped", "forged"} |->
        CASE t = "zero" -> Signed("0", Files("0", "w0", 1, 1))
          [] t = "first" -> Signed("1", first)
          [] t = "second" -> Signed("2", second)
          [] t = "twin" -> Signed("2", Files("2", "w2b", 1, 2))
          [] t = "later" -> Signed("3", Files("3", "w3", 2, 2))
          [] t = "ineligible" ->
                Signed("2", [second EXCEPT !.decision.eligible = FALSE,
                                                    !.manifest.decision.eligible = FALSE])
          [] t = "borrowed" ->
                Signed("2", [second EXCEPT !.decision = first.decision,
                                                    !.manifest.decision = first.decision])
          [] t = "unlisted" -> Signed("2", [second EXCEPT !.wheel = "w1"])
          [] t = "stale" -> Signed("2", [second EXCEPT !.manifest = first.manifest])
          [] t = "miscounted" -> Signed("2", [second EXCEPT !.checksums.wheel = "w1"])
          [] t = "relabelled" ->
                Signed("2", [second EXCEPT !.sbom.subject = "w1",
                                                    !.manifest.sbom.subject = "w1"])
          [] t = "swapped" -> [Signed("2", second) EXCEPT !.files.wheel = "w1"]
          [] t = "forged" -> [Signed("2", second) EXCEPT !.signed = FALSE]]

Digests == Genuine \cup {"mixed"}
Kept == Genuine

\* The digest of a tree is that of its envelope.
Digest(t) == IF t \in Genuine THEN t ELSE IF t = "swapped" THEN "second" ELSE "mixed"

(***************************************************************************)
(* The verifier, part by part.                                             *)
(***************************************************************************)
\* The envelope is whole and of this repository, and its members are the files;
\* whatever is malformed counts as a mismatch.
MembersMatch(t) == t.members = t.files
SignatureHolds(t) == t.signed
InventoryAgrees(t) == t.files.inventory = [wheel |-> t.members.wheel]

DecisionAgrees(t) ==
    /\ t.files.decision.eligible
    /\ t.files.decision.version = t.version
    /\ t.files.decision.inventory = t.files.inventory

ManifestAgrees(t) ==
    t.files.manifest = [decision |-> t.files.decision, inventory |-> t.files.inventory,
                        sbom |-> t.members.sbom]

ChecksumsAgree(t) == t.files.checksums = t.files.inventory
SbomAgrees(t) == t.files.sbom = [version |-> t.version, subject |-> t.files.inventory.wheel]

SchemaFits(t, schema) ==
    /\ t.files.compatibility.source = schema
    /\ t.files.compatibility.target >= schema

Verified(t, schema) ==
    /\ MembersMatch(t) /\ SignatureHolds(t)
    /\ InventoryAgrees(t) /\ DecisionAgrees(t) /\ ManifestAgrees(t)
    /\ ChecksumsAgree(t) /\ SbomAgrees(t)
    /\ SchemaFits(t, schema)

SourceOf(d) == Catalogue[d].files.compatibility.source
TargetOf(d) == Catalogue[d].files.compatibility.target

\* SCHEMA_VERSION of a process that is started now ...
Schema == TargetOf(installed.current)

\* ... and of those that may still run.
Codes == {TargetOf(d) : d \in published}

VerifiedTree(name, schema) == Verified(Catalogue[name], schema)
Resolved(d, schema) == shelf[d] # None /\ VerifiedTree(shelf[d], schema)

(***************************************************************************)
(* The import of a bundle.  An archive is extracted into a tree of the     *)
(* import's own and verified there; nobody else sees the tree, so that is  *)
(* one step with what follows under the lock of the shelf.                 *)
(***************************************************************************)
\* The release is there already: it is verified where it lies, and the row
\* that a dead import did not write is written.
AlreadyImported ==
    /\ importer = None
    /\ \E t \in DOMAIN Catalogue :
          LET d == Digest(t) IN
          /\ shelf[d] # None /\ d \notin imports
          /\ \E schema \in Codes : VerifiedTree(t, schema) /\ VerifiedTree(shelf[d], schema)
          /\ imports' = imports \cup {d}
    /\ UNCHANGED <<importer, shelf, slots, code, staged, page, update, damages>>

RenameStage ==
    /\ importer = None
    /\ \E t \in DOMAIN Catalogue :
          /\ shelf[Digest(t)] = None /\ \E schema \in Codes : VerifiedTree(t, schema)
          /\ shelf' = [shelf EXCEPT ![Digest(t)] = t]
          /\ importer' = t
    /\ UNCHANGED <<imports, slots, code, staged, page, update, damages>>

RecordImport ==
    /\ importer # None
    /\ imports' = imports \cup {Digest(importer)}
    /\ importer' = None
    /\ UNCHANGED <<shelf, slots, code, staged, page, update, damages>>

ImporterDies ==
    /\ importer # None
    /\ importer' = None
    /\ UNCHANGED <<shelf, imports, slots, code, staged, page, update, damages>>

\* A file of a bundle on the shelf is no longer what was published.
Damage ==
    /\ damages < Faults
    /\ \E t \in DOMAIN Catalogue :
          /\ shelf[Digest(t)] \notin {None, t}
          /\ shelf' = [shelf EXCEPT ![Digest(t)] = t]
    /\ damages' = damages + 1
    /\ UNCHANGED <<importer, imports, slots, code, staged, page, update>>

(***************************************************************************)
(* Previews.  A preview's digest covers the release and the installation   *)
(* row with its revision, which every reservation and publication moves,   *)
(* and the second it was computed in.                                      *)
(***************************************************************************)
EmptyPage == [apply |-> None, rollback |-> None, drawer |-> None, late |-> None]

Previewed(mode, d) ==
    [mode |-> mode, digest |-> d, installed |-> installed]

\* The stored releases in the order of their directory names.
Sorted == <<"first", "later", "second", "twin", "zero">>
Candidates(version, schema) ==
    {i \in DOMAIN Sorted : Catalogue[Sorted[i]].version = version /\ Resolved(Sorted[i], schema)}

ApplyPreview(version, schema) ==
    LET found == Candidates(version, schema) IN
    IF found = {} THEN None
    ELSE Previewed("APPLY", Sorted[CHOOSE i \in found : \A j \in found : i <= j])

RollbackPreview(schema) ==
    IF installed.previous # None /\ Resolved(installed.previous, schema)
    THEN Previewed("ROLLBACK", installed.previous) ELSE None

Previews(schema) == {ApplyPreview(v, schema) : v \in Versions} \cup {RollbackPreview(schema)}

\* The observation lane computes a preview; its answer is applied later.  (While
\* its operation runs the page is not used: a bound.)
RequestPreview ==
    /\ update = None /\ page.late = None
    /\ \E preview \in Previews(code) \ {None} : page' = [page EXCEPT !.late = preview]
    /\ UNCHANGED <<importer, shelf, imports, slots, code, staged, update, damages>>

\* Mutant: the answer leaves an open confirmation where it is.
ShowPreviewOnly ==
    /\ page.late # None
    /\ page' = [page EXCEPT !.apply = IF page.late.mode = "APPLY" THEN page.late ELSE @,
                            !.rollback = IF page.late.mode = "ROLLBACK" THEN page.late ELSE @,
                            !.late = None]
    /\ UNCHANGED <<importer, shelf, imports, slots, code, staged, update, damages>>

ShowPreview ==
    /\ page.late # None
    /\ page' = [apply |-> IF page.late.mode = "APPLY" THEN page.late ELSE page.apply,
                rollback |-> IF page.late.mode = "APPLY" THEN page.rollback ELSE page.late,
                drawer |-> None, late |-> None]
    /\ UNCHANGED <<importer, shelf, imports, slots, code, staged, update, damages>>

AskConfirmation ==
    /\ \E preview \in {page.apply, page.rollback} \ {None} :
          page' = [page EXCEPT !.drawer = preview]
    /\ UNCHANGED <<importer, shelf, imports, slots, code, staged, update, damages>>

\* The page is left; or a second passes, after which no preview shown before has
\* the digest of one computed anew.
DropPreviews ==
    /\ page' = EmptyPage
    /\ UNCHANGED <<importer, shelf, imports, slots, code, staged, update, damages>>

(***************************************************************************)
(* Applying a preview: it is computed anew, compared, and queued with the  *)
(* installation it expects.                                                *)
(***************************************************************************)
Recomputed(preview) ==
    IF preview.mode = "ROLLBACK" THEN RollbackPreview(code)
    ELSE ApplyPreview(Catalogue[preview.digest].version, code)

\* "agreed" is what the user read when confirming.
Queued(preview, agreed) ==
    IF preview # None /\ Recomputed(preview) = preview
    THEN [step |-> "queued", request |-> preview, agreed |-> agreed, wheel |-> None]
    ELSE None

Confirm ==
    /\ page.drawer # None /\ update = None
    /\ LET preview == IF page.drawer.mode = "APPLY" THEN page.apply ELSE page.rollback IN
       update' = Queued(preview, page.drawer)
    /\ page' = EmptyPage
    /\ UNCHANGED <<importer, shelf, imports, slots, code, staged, damages>>

(***************************************************************************)
(* The steps of the operation up to the publication.  The window runs      *)
(* them, or a worker that takes the operation first, or over.              *)
(***************************************************************************)
Expected(request) ==
    /\ installed.current = request.installed.current
    /\ installed.previous = request.installed.previous
    /\ installed.generation = request.installed.generation

VerifyRelease ==
    LET request == update.request
        Ok(schema) ==
            Resolved(request.digest, schema) /\ Expected(request) /\ installed.pending = None
    IN
    /\ update # None /\ update.step = "queued"
    /\ \E schema \in Codes :
       \/ /\ Ok(schema)
          /\ installed' = [installed EXCEPT !.pending = "gui"]
          /\ update' = [update EXCEPT !.step = "verified"]
       \/ /\ ~Ok(schema)
          /\ update' = None
          /\ UNCHANGED installed
    /\ UNCHANGED <<importer, shelf, imports, published, profile, code, staged, page, damages>>

\* stage_candidate resolves the release again ...
HoldRelease ==
    LET request == update.request IN
    /\ update # None /\ update.step = "verified"
    /\ \E schema \in Codes :
       \/ /\ Resolved(request.digest, schema)
          /\ request.mode = "ROLLBACK" => staged[request.digest] # None
          /\ update' = [update EXCEPT !.step = "held",
                           !.wheel = Catalogue[shelf[request.digest]].files.inventory.wheel]
       \/ /\ \/ ~Resolved(request.digest, schema)
             \/ request.mode = "ROLLBACK" /\ staged[request.digest] = None
          /\ update' = None
    /\ UNCHANGED <<importer, shelf, imports, slots, code, staged, page, damages>>

\* ... and the stager digests the wheel once more before it installs it.
WheelStill == Catalogue[shelf[update.request.digest]].files.wheel = update.wheel

StageWheel ==
    LET request == update.request IN
    /\ update # None /\ update.step = "held"
    /\ \/ /\ request.mode = "ROLLBACK"
          /\ update' = [update EXCEPT !.step = "staged"]
          /\ UNCHANGED staged
       \/ /\ request.mode = "APPLY" /\ WheelStill
          /\ staged' = [staged EXCEPT ![request.digest] =
                           Catalogue[shelf[request.digest]].files.wheel]
          /\ update' = [update EXCEPT !.step = "staged"]
       \/ /\ request.mode = "APPLY" /\ ~WheelStill
          /\ update' = None
          /\ UNCHANGED staged
    /\ UNCHANGED <<importer, shelf, imports, slots, code, page, damages>>

\* What record_installation finds: the row of a release that is applied for the
\* first time, or of the one that is in the slot before.
RowFits(request) ==
    request.digest \in published <=> request.mode = "ROLLBACK"

\* Variant of Replaces: a newer profile is not refused.
ReplacesAny(d) == TRUE

\* The process that is started from the new slot refuses a profile newer than it.
Replaces(d) == profile <= TargetOf(d)

\* initialize: what is pending is applied.
Migrated(d) == IF profile < TargetOf(d) THEN TargetOf(d) ELSE profile

Moved(d) ==
    /\ installed' = [current |-> d, previous |-> installed.current,
                     generation |-> installed.generation + 1, pending |-> None]
    /\ published' = published \cup {d}
    /\ profile' = Migrated(d)

\* The rest of the operation: the pointers move, the new slot starts and the row is
\* written; or the pointers go back, and the reservation stays.
Publish ==
    LET request == update.request IN
    /\ update # None /\ update.step = "staged"
    /\ \/ /\ Expected(request) /\ installed.generation < Generations
          /\ Replaces(request.digest) /\ RowFits(request)
          /\ Moved(request.digest)
       \/ UNCHANGED slots
    /\ update' = None
    /\ UNCHANGED <<importer, shelf, imports, code, staged, page, damages>>

\* An update from the command line takes the same steps; to the page's it shows
\* as one, or as a reservation that a failed one has left.
OtherUpdate ==
    /\ installed.pending = None
    /\ \/ /\ installed.generation < Generations
          /\ \E preview \in Previews(Schema) \ {None} :
                LET d == preview.digest IN
                /\ Replaces(d) /\ RowFits(preview)
                /\ Moved(d)
                /\ staged' = [staged EXCEPT ![d] =
                                 IF preview.mode = "APPLY"
                                 THEN Catalogue[shelf[d]].files.wheel ELSE @]
       \/ /\ Previews(Schema) # {None}
          /\ installed' = [installed EXCEPT !.pending = "cli"]
          /\ UNCHANGED <<staged, published, profile>>
    /\ UNCHANGED <<importer, shelf, imports, code, page, update, damages>>

\* The user closes the window and opens it again.
Reopen ==
    /\ code' = Schema
    /\ page' = EmptyPage
    /\ UNCHANGED <<importer, shelf, imports, slots, staged, update, damages>>

Init ==
    /\ importer = None
    /\ shelf = [d \in Digests |-> IF d \in {"zero", "first", "twin"} THEN d ELSE None]
    /\ imports = {"zero", "first", "twin"}
    /\ installed = [current |-> "first", previous |-> "zero", generation |-> 0,
                    pending |-> None]
    /\ published = {"zero", "first"}
    /\ profile = 1
    /\ code = 1
    /\ staged = [d \in Kept |->
                    CASE d = "zero" -> "w0" [] d = "first" -> "w1" [] OTHER -> None]
    /\ page = EmptyPage
    /\ update = None
    /\ damages = 0

Next ==
    \/ AlreadyImported \/ RenameStage \/ RecordImport
    \/ ImporterDies \/ Damage
    \/ RequestPreview \/ ShowPreview \/ AskConfirmation \/ DropPreviews
    \/ Confirm \/ VerifyRelease \/ HoldRelease \/ StageWheel \/ Publish
    \/ OtherUpdate \/ Reopen

DeliverySpec == Init /\ [][Next]_deliveryVars

(***************************************************************************)
(* What it promises.                                                       *)
(***************************************************************************)
\* A slot holds the wheel that an eligible, signed decision names for the very
\* release the slot is called after, whatever was offered for import and
\* whatever happened to the stored bundle meanwhile.
SlotHoldsItsRelease ==
    \A d \in Kept : staged[d] # None => staged[d] = Catalogue[d].files.wheel

\* A row vouches for a release that was verified, on the shelf under its digest.
RowVouches ==
    /\ \A d \in Digests : shelf[d] # None => d \in Genuine /\ Digest(shelf[d]) = d
    /\ \A d \in imports : shelf[d] # None

\* What an operation was queued for is what the user had read, and it publishes
\* only on the installation the user had read about, a release made for a schema
\* that the profile has reached, even if a window from before an update staged it.
AppliesWhatWasConfirmed ==
    update # None =>
        LET request == update.request IN
        /\ request = update.agreed
        /\ (update.step = "staged" /\ Expected(request)) =>
              /\ staged[request.digest] # None
              /\ SourceOf(request.digest) <= profile

\* The slot in force reads the profile, whichever process brought it there.
ProfileFits == profile = Schema

\* From the archive a user presents to the wheel in a slot, through previews
\* that answer late, two surfaces, windows and workers of slots no longer in force,
\* a dying import and a bundle damaged on disk: only verified releases are kept and
\* recorded, what is installed is what was confirmed, on the installation it was
\* confirmed for, and the profile never outgrows it (OfflineApplicationBundleStore,
\* ApplicationUpdateCommandService, UpdatesPage, ApplicationInstallationStager).
Delivered == SlotHoldsItsRelease /\ RowVouches /\ AppliesWhatWasConfirmed /\ ProfileFits
=============================================================================
