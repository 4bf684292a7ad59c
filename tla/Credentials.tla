---------------------------- MODULE Credentials ----------------------------
(***************************************************************************)
(* The credential of one gateway client (connection_setup.py,              *)
(* connection_credentials.py): its row, the fingerprints of its            *)
(* generations and the 0600 files with the secrets.  A setup operation     *)
(* makes sure that the client exists and may die anywhere and be retried;  *)
(* a user rotates, revokes, disables and enables meanwhile; the gateway    *)
(* accepts what the fingerprints say and stamps the row when it is used.   *)
(*                                                                         *)
(* A secret is a number, and its fingerprint the same number.  Left out:   *)
(* scopes, labels and kinds, and other clients.                            *)
(***************************************************************************)
EXTENDS Naturals

CONSTANTS
    None,
    MaxSecrets,        \* bound on what `secret_provider' draws
    MaxGeneration,     \* bound
    RevisionBound,     \* bound
    MaxFaults

Generations == 1..MaxGeneration
Partial == 0         \* what a dying writer leaves in a new file

Actors == {"setup", "user"}

VARIABLES
    client,        \* the client: generation, revision, revoked; or None
    state,      \* generation -> None, ACTIVE, OVERLAP, LAPSED or RETIRED
    print,      \* generation -> its fingerprint, or None
    enabled,    \* connection_access_state
    file,       \* generation -> its content, or None
    work,       \* actor -> what its command has read and made
    drawn,      \* secrets drawn so far
    swept,      \* disable_all deleted a file that came after its transaction
    spent,      \* secrets the gateway accepted once and no longer
    faults

credentialVars == <<client, state, print, enabled, file, work, drawn, swept, spent, faults>>

Idle == [pc |-> "idle", gen |-> None, secret |-> None, made |-> FALSE,
         revision |-> None, files |-> {}]

Does(a, w) == work' = [work EXCEPT ![a] = w]
Ends(a) == Does(a, Idle)
Draw == drawn < MaxSecrets /\ drawn' = drawn + 1
Readable(g) == file[g] # None /\ file[g] = print[g]

\* authentication_fingerprints
Accepted ==
    IF enabled /\ client # None /\ ~ client.revoked
    THEN {print[g] : g \in {h \in Generations : state[h] \in {"ACTIVE", "OVERLAP"}}} ELSE {}

Retired == [g \in Generations |-> IF state[g] = None THEN None ELSE "RETIRED"]

Unlinked(gens) == [g \in Generations |-> IF g \in gens THEN None ELSE file[g]]

-----------------------------------------------------------------------------
(* ensure_client and enable_for_sharing, by the operation                  *)

\* An existing client is reused or refused; a file that is there is adopted if it is
\* whole; else a new one is made.
EnsureReads ==
    /\ work["setup"].pc = "idle"
    /\ client = None
    /\ IF file[1] = None
       THEN /\ Draw
            /\ Does("setup", [Idle EXCEPT !.pc = "publish", !.gen = 1, !.secret = drawn + 1])
       ELSE /\ file[1] # Partial
            /\ Does("setup", [Idle EXCEPT !.pc = "create", !.gen = 1, !.secret = file[1]])
            /\ UNCHANGED drawn
    /\ UNCHANGED <<client, state, print, enabled, file, swept, faults>>

\* _publish_secret: O_EXCL, then the bytes.
Publish(a) ==
    /\ work[a].pc = "publish"
    /\ IF file[work[a].gen] = None
       THEN /\ file' = [file EXCEPT ![work[a].gen] = work[a].secret]
            /\ Does(a, [work[a] EXCEPT !.made = TRUE, !.pc = IF a = "setup" THEN "create" ELSE "rotate"])
       ELSE Ends(a) /\ UNCHANGED file
    /\ UNCHANGED <<client, state, print, enabled, drawn, swept, faults>>

\* create
CreateClient ==
    /\ work["setup"].pc = "create"
    /\ IF client = None
       THEN /\ client' = [gen |-> 1, revision |-> 1, revoked |-> FALSE]
            /\ state' = [state EXCEPT ![1] = "ACTIVE"]
            /\ print' = [print EXCEPT ![1] = work["setup"].secret]
            /\ UNCHANGED file
       ELSE /\ file' = IF work["setup"].made THEN Unlinked({1}) ELSE file
            /\ UNCHANGED <<client, state, print>>
    /\ Ends("setup")
    /\ UNCHANGED <<enabled, drawn, swept, faults>>

\* enable_for_sharing asks for a client whose file can be read.
Enable(a) ==
    /\ work[a].pc = "idle"
    /\ ~ enabled /\ client # None
    /\ ~ client.revoked /\ Readable(client.gen)
    /\ enabled' = TRUE
    /\ UNCHANGED <<client, state, print, file, work, drawn, swept, faults>>

-----------------------------------------------------------------------------
(* The user's commands                                                     *)

\* rotate_client with the revision the user has seen.
RotateReads ==
    /\ work["user"].pc = "idle"
    /\ client # None /\ client.gen + 1 \in Generations
    /\ Draw
    /\ Does("user", [Idle EXCEPT !.pc = "publish", !.gen = client.gen + 1, !.secret = drawn + 1,
                                 !.revision = client.revision])
    /\ UNCHANGED <<client, state, print, enabled, file, swept, faults>>

\* The transaction, with or without an overlap; who is refused takes the new file away.
Rotate ==
    /\ work["user"].pc = "rotate"
    /\ LET g == work["user"].gen IN
       IF client # None /\ ~ client.revoked /\ client.revision = work["user"].revision
       THEN \E prior \in {"OVERLAP", "RETIRED"} :
              /\ client' = [client EXCEPT !.gen = g, !.revision = @ + 1]
              /\ state' = [h \in Generations |->
                             IF h = g THEN "ACTIVE" ELSE IF h = g - 1 THEN prior ELSE state[h]]
              /\ print' = [print EXCEPT ![g] = work["user"].secret]
              /\ IF prior = "RETIRED" THEN Does("user", [Idle EXCEPT !.pc = "unlink", !.files = {g - 1}])
                 ELSE Ends("user")
              /\ UNCHANGED file
       ELSE /\ file' = Unlinked({g}) /\ Ends("user")
            /\ UNCHANGED <<client, state, print>>
    /\ UNCHANGED <<enabled, drawn, swept, faults>>

\* revoke_client
Revoke ==
    /\ work["user"].pc = "idle"
    /\ client # None /\ ~ client.revoked /\ client.revision < RevisionBound
    /\ client' = [client EXCEPT !.revoked = TRUE, !.revision = @ + 1]
    /\ state' = Retired
    /\ Does("user", [Idle EXCEPT !.pc = "unlink", !.files = 1..client.gen])
    /\ UNCHANGED <<print, enabled, file, drawn, swept, faults>>

\* Variant of Disabled: only the access is switched off.
DisabledOnly == [client |-> client, secrets |-> state]

\* disable_all revokes every client and retires its secrets.
Disabled ==
    [client |-> IF client = None \/ client.revoked THEN client
                ELSE [client EXCEPT !.revoked = TRUE, !.revision = @ + 1],
     secrets |-> Retired]

\* The transaction of disable_all, and the directory as it lists it next.
Disable ==
    /\ work["user"].pc = "idle"
    /\ enabled
    /\ enabled' = FALSE
    /\ client' = Disabled.client
    /\ state' = Disabled.secrets
    /\ Does("user", [Idle EXCEPT !.pc = "list"])
    /\ UNCHANGED <<print, file, drawn, swept, faults>>

ListFiles ==
    /\ work["user"].pc = "list"
    /\ Does("user", [Idle EXCEPT !.pc = "sweep", !.files = {g \in Generations : file[g] # None}])
    /\ UNCHANGED <<client, state, print, enabled, file, drawn, swept, faults>>

Unlink ==
    /\ work["user"].pc \in {"unlink", "sweep"}
    /\ LET gone == work["user"].files IN
       /\ file' = Unlinked(gone)
       /\ swept' = \/ swept
                   \/ /\ work["user"].pc = "sweep"
                      /\ \/ work["setup"].pc = "create" /\ 1 \in gone
                         \/ client # None /\ ~ client.revoked /\ client.gen \in gone
    /\ Ends("user")
    /\ UNCHANGED <<client, state, print, enabled, drawn, faults>>

-----------------------------------------------------------------------------

\* MultiClientAuthenticationStore.record_use: the revision moves on.
Use ==
    /\ Accepted # {} /\ client.revision < RevisionBound
    /\ client' = [client EXCEPT !.revision = @ + 1]
    /\ UNCHANGED <<state, print, enabled, file, work, drawn, swept, faults>>

OverlapEnds ==
    /\ \E g \in Generations : state[g] = "OVERLAP"
    /\ state' = [g \in Generations |-> IF state[g] = "OVERLAP" THEN "LAPSED" ELSE state[g]]
    /\ UNCHANGED <<client, print, enabled, file, work, drawn, swept, faults>>

\* A process dies; in the middle of the write it leaves a file that is not whole.
Dies(a) ==
    /\ work[a].pc # "idle"
    /\ faults < MaxFaults /\ faults' = faults + 1
    /\ Ends(a)
    /\ \/ UNCHANGED file
       \/ /\ work[a].pc = "publish" /\ file[work[a].gen] = None
          /\ file' = [file EXCEPT ![work[a].gen] = Partial]
    /\ UNCHANGED <<client, state, print, enabled, drawn, swept>>

Init ==
    /\ client = None /\ enabled \in BOOLEAN
    /\ state = [g \in Generations |-> None] /\ print = state /\ file = state
    /\ work = [a \in Actors |-> Idle]
    /\ drawn = 0 /\ swept = FALSE /\ spent = {} /\ faults = 0

Steps == \/ EnsureReads \/ CreateClient
         \/ RotateReads \/ Rotate \/ Revoke \/ Disable \/ ListFiles \/ Unlink
         \/ \E a \in Actors : Publish(a) \/ Enable(a) \/ Dies(a)
         \/ Use \/ OverlapEnds

\* `spent' is a history of what the gateway accepted.
Next == Steps /\ spent' = spent \cup (Accepted \ Accepted')

CredentialSpec == Init /\ [][Next]_credentialVars

-----------------------------------------------------------------------------

\* A secret that was rotated out, revoked or disabled is never accepted again, whatever
\* is enabled, retried or rotated later.
SpentStaysSpent == Accepted \cap spent = {}

\* A client that is not revoked has its file, unless disable_all has taken one that was
\* made after its transaction.
ActiveHasFile == client # None /\ ~ client.revoked /\ ~ swept => Readable(client.gen)

\* Rows, fingerprints and files agree through deaths and races of two commands: what was
\* taken back stays out, and an active client has its secret ("Atomic metadata +
\* mode-0600 secret-file credential lifecycle").
CredentialsAgree == SpentStaysSpent /\ ActiveHasFile

=============================================================================
