----------------------- MODULE OpenWebUITransaction -----------------------
(***************************************************************************)
(* The replacement of the Open WebUI container (openwebui_runtime.py,      *)
(* openwebui.py).  Install, start, restart and update all converge: a      *)
(* candidate is created on the data of the container that is there, that   *)
(* one is stopped and parked under another name, the candidate takes the   *)
(* name, is started, configured and verified, and only then is the old one *)
(* removed.  Any failure rolls the names back; the process may also die,   *)
(* and a later transaction finds the names as they are.                    *)
(*                                                                         *)
(* podman is a table of containers; two of them never run at once, because *)
(* they publish the same port.  Images, networks, mounts, secrets and the  *)
(* provider's configuration are reduced to whether the step succeeds.      *)
(***************************************************************************)
EXTENDS Naturals

CONSTANTS None, MaxFaults

Transactions == 1..3    \* bound

Candidate == <<"candidate1", "candidate2", "candidate3">>
Rollback == <<"rollback1", "rollback2", "rollback3">>
Names == {"main", "legacy"} \cup {Candidate[t] : t \in Transactions}
                            \cup {Rollback[t] : t \in Transactions}

Datas == {"volume", "bind"}

VARIABLES
    container,  \* name -> its data, whether it runs and whether it ever worked, or None
    tx,         \* the transaction under way: its step, and what it has found and done
    number,     \* transactions begun
    found,      \* the container the transaction found, as it was
    outcome,    \* of the last transaction
    worked,     \* there has been a container that worked
    parked,     \* the last failure found the old container under its other name
    late,       \* a transaction has failed after the removal of the old container
    faults

webuiVars == <<container, tx, number, found, outcome, worked, parked, late, faults>>

NoTx == [pc |-> "idle", existing |-> None, up |-> FALSE, promoted |-> FALSE,
         removed |-> FALSE]

Running == {n \in Names : container[n] # None /\ container[n].runs}

\* _discover_existing
Existing == IF container["main"] # None THEN "main"
            ELSE IF container["legacy"] # None THEN "legacy" ELSE None

Renamed(containers, from, to) ==
    [n \in Names |-> IF n = from THEN None
                     ELSE IF n = to THEN containers[from] ELSE containers[n]]
Moved(from, to) == Renamed(container, from, to)
Switched(n, runs) == [container EXCEPT ![n].runs = runs]
Removed(n) == [container EXCEPT ![n] = None]

Goes(pc) == tx' = [tx EXCEPT !.pc = pc]
Fault == faults < MaxFaults /\ faults' = faults + 1

Ends(result) == tx' = NoTx /\ outcome' = result

\* What a failing command leaves behind: converge goes to its rollback.  It answers with
\* the error itself when that is one of its own, and says "restored" of any other, also
\* when the old container was stopped and not yet parked, or removed.
Fails(error) ==
    /\ Fault
    /\ tx' = [tx EXCEPT !.pc = "unname"]
    /\ outcome' = error
    /\ late' = (late \/ tx.removed)
    /\ parked' = (tx.existing # None /\ container'[Rollback[number]] # None)
    /\ UNCHANGED <<number, found, worked>>

Proceeds == UNCHANGED <<number, found, outcome, worked, parked, late, faults>>

-----------------------------------------------------------------------------
(* converge                                                                *)

\* The candidate has the data of the container that is there.
Prepared(old, n) ==
    [container EXCEPT ![Candidate[n]] =
        [data |-> IF old = None THEN "volume" ELSE container[old].data,
         runs |-> FALSE, works |-> FALSE]]

\* Any of the commands.  A failure before the candidate is created, in the pull for one,
\* has changed nothing.
Begin ==
    /\ tx.pc = "idle" /\ number + 1 \in Transactions
    /\ number' = number + 1
    /\ LET old == Existing IN
       /\ found' = IF old = None THEN None ELSE container[old]
       /\ \/ /\ tx' = [NoTx EXCEPT !.pc = "stop", !.existing = old,
                                   !.up = old # None /\ container[old].runs]
             /\ container' = Prepared(old, number + 1)
             /\ outcome' = None
          \/ outcome' = "unchanged" /\ UNCHANGED <<tx, container>>
    /\ UNCHANGED <<worked, parked, late, faults>>

\* "A non-zero stop result is not itself fatal ...  The bounded observed state is the
\* promotion gate."
StopOld ==
    /\ tx.pc = "stop"
    /\ \/ /\ container' = IF tx.up THEN Switched(tx.existing, FALSE) ELSE container
          /\ Goes("park") /\ Proceeds
       \/ /\ tx.up
          /\ container' \in {container, Switched(tx.existing, FALSE)}
          /\ Fails("error")

\* A rename that fails may have been done.
Park ==
    /\ tx.pc = "park"
    /\ LET moved == IF tx.existing = None THEN container ELSE Moved(tx.existing, Rollback[number]) IN
       \/ container' = moved /\ Goes("promote") /\ Proceeds
       \/ tx.existing # None /\ container' \in {container, moved} /\ Fails("restored")

Promote ==
    /\ tx.pc = "promote"
    /\ LET promoted == Moved(Candidate[number], "main") IN
       \/ /\ container' = promoted
          /\ tx' = [tx EXCEPT !.pc = "start", !.promoted = TRUE] /\ Proceeds
       \/ container' \in {container, promoted} /\ Fails("restored")

StartNew ==
    /\ tx.pc = "start"
    /\ \/ container["main"] # None /\ Running = {}
          /\ container' = Switched("main", TRUE) /\ Goes("verify") /\ Proceeds
       \/ container' \in {container, Switched("main", Running = {})} /\ Fails("restored")

\* Reconcile the provider, restart, look for the model and stream an answer.
Verify ==
    /\ tx.pc = "verify"
    /\ \/ /\ container' = [container EXCEPT !["main"].works = TRUE]
          /\ Goes("remove") /\ Proceeds
       \/ UNCHANGED container /\ Fails("error")

RemoveOld ==
    /\ tx.pc = "remove"
    /\ LET gone == IF tx.existing = None THEN container ELSE Removed(Rollback[number]) IN
       \/ /\ container' = gone
          /\ tx' = [tx EXCEPT !.pc = "settle", !.removed = tx.existing # None]
          /\ Proceeds
       \/ tx.existing # None /\ UNCHANGED container /\ Fails("restored")

\* "previously stopped container is verified then left stopped"
Settle ==
    /\ tx.pc = "settle"
    /\ LET down == tx.existing # None /\ ~ tx.up IN
       \/ /\ container' = IF down THEN Switched("main", FALSE) ELSE container
          /\ Goes("receipt") /\ Proceeds
       \/ down /\ UNCHANGED container /\ Fails("error")

WriteReceipt ==
    /\ tx.pc = "receipt"
    /\ UNCHANGED container
    /\ \/ Ends("converged") /\ worked' = TRUE /\ UNCHANGED <<number, found, parked, late, faults>>
       \/ Fails("restored")

-----------------------------------------------------------------------------
(* _rollback                                                               *)

\* Variant: whatever has the name.
DemotesAny == container["main"] # None

Demotes == tx.promoted /\ container["main"] # None

\* Stop what was promoted and take its name away; the result of either is not looked at.
Unname ==
    /\ tx.pc = "unname"
    /\ Goes("rename")
    /\ LET stopped == IF Demotes THEN Switched("main", FALSE) ELSE container IN
       \/ /\ container' = IF Demotes THEN Renamed(stopped, "main", Candidate[number])
                          ELSE container
          /\ UNCHANGED faults
       \/ Demotes /\ container' = stopped /\ Fault
    /\ UNCHANGED <<number, found, outcome, worked, parked, late>>

NeedsGuidance == Ends("guided recovery")

Rename ==
    /\ tx.pc = "rename"
    /\ \/ /\ tx.existing # None /\ container[Rollback[number]] # None
          /\ container[tx.existing] = None
          /\ container' = Moved(Rollback[number], tx.existing)
          /\ Goes(IF tx.up THEN "restart" ELSE "clean") /\ UNCHANGED <<outcome, faults>>
       \/ /\ tx.existing = None \/ container[Rollback[number]] = None
          /\ Goes("clean") /\ UNCHANGED <<container, outcome, faults>>
       \/ /\ tx.existing # None /\ container[Rollback[number]] # None
          /\ IF container[tx.existing] # None THEN UNCHANGED faults ELSE Fault
          /\ NeedsGuidance /\ UNCHANGED container
    /\ UNCHANGED <<number, found, worked, parked, late>>

Restart ==
    /\ tx.pc = "restart"
    /\ \/ /\ Running = {}
          /\ container' = Switched(tx.existing, TRUE)
          /\ Goes("clean") /\ UNCHANGED <<outcome, faults>>
       \/ NeedsGuidance /\ Fault /\ UNCHANGED container
    /\ UNCHANGED <<number, found, worked, parked, late>>

Clean ==
    /\ tx.pc = "clean"
    /\ \/ container' = Removed(Candidate[number]) /\ UNCHANGED faults
       \/ UNCHANGED container /\ Fault
    /\ Ends(outcome)
    /\ UNCHANGED <<number, found, worked, parked, late>>

-----------------------------------------------------------------------------

Dies ==
    /\ tx.pc # "idle"
    /\ Fault
    /\ Ends("dead")
    /\ UNCHANGED <<container, number, found, worked, parked, late>>

\* stop_open_webui, for the container that status finds.
UserStops ==
    /\ tx.pc = "idle" /\ Existing # None /\ container[Existing].runs
    /\ container' = Switched(Existing, FALSE)
    /\ outcome' = None
    /\ UNCHANGED <<tx, number, found, worked, parked, late, faults>>

Init ==
    /\ \/ container = [n \in Names |-> None] /\ worked = FALSE
       \/ \E n \in {"main", "legacy"}, d \in Datas, r \in BOOLEAN :
             /\ container = [[m \in Names |-> None] EXCEPT
                                ![n] = [data |-> d, runs |-> r, works |-> TRUE]]
             /\ worked = TRUE
    /\ tx = NoTx /\ number = 0 /\ found = None /\ outcome = None
    /\ parked = FALSE /\ late = FALSE /\ faults = 0

Next == \/ Begin \/ StopOld \/ Park \/ Promote \/ StartNew \/ Verify \/ RemoveOld \/ Settle
        \/ WriteReceipt \/ Unname \/ Rename \/ Restart \/ Clean \/ Dies \/ UserStops

WebUISpec == Init /\ [][Next]_webuiVars

-----------------------------------------------------------------------------

\* A container that worked is there under some name.
OneSurvives == worked /\ ~ late => \E n \in Names : container[n] # None /\ container[n].works

\* What the transaction found is back under its name with its data, and running if it was.
Named(n) == container[n] # None /\ container[n].data = found.data /\ container[n].works = found.works
BackInPlace == found # None => \E n \in {"main", "legacy"} : Named(n) /\ container[n].runs = found.runs

\* "The old container survives until verify", wherever a transaction fails or dies before
\* it removes the old one; and what had been parked is put back (OpenWebUITransaction).
OldSurvives ==
    /\ OneSurvives
    /\ tx.pc = "idle" /\ outcome \in {"error", "restored"} /\ ~ late =>
          /\ found # None => \E n \in {"main", "legacy"} : Named(n)
          /\ parked => BackInPlace

=============================================================================
