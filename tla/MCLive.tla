------------------------------- MODULE MCLive -------------------------------
(***************************************************************************)
(* Liveness of the worker hosts and of application updates, in one run.    *)
(* The two models share no variable, so a behaviour is one of the model    *)
(* `focus' names, and the variables of the other keep their initial values.*)
(***************************************************************************)
EXTENDS MCSlots

CONSTANTS h1, h2, NoHost

VARIABLES focus, lock, hostOps, host, raises

Hosts == INSTANCE WorkerHost WITH
    Hosts <- {h1, h2}, Ops <- {1, 2}, Blocked <- {}, NoOp <- 0, MaxFailures <- 2,
    Slow <- {"working", "idle"}, MaxRaises <- 2, op <- hostOps

hostVars == <<lock, hostOps, host, raises>>
allVars == <<focus, vars, hostVars>>

LiveInit ==
    /\ focus \in {"hosts", "slots"}
    /\ Init /\ Hosts!Init
    /\ focus = "hosts" => link.previous = None

HostsStep == focus = "hosts" /\ Hosts!Next /\ UNCHANGED <<focus, vars>>
SlotsStep == focus = "slots" /\ Next /\ UNCHANGED <<focus, hostVars>>

\* The fairness of the model that runs: FairSpec of WorkerHost, Fairness of ApplicationSlots.
LiveSpec ==
    /\ LiveInit /\ [][HostsStep \/ SlotsStep]_allVars
    /\ \A h \in {h1, h2} : WF_hostVars(focus = "hosts" /\ Hosts!Loop(h))
    /\ WF_vars(focus = "slots" /\ (Engine \/ Effects))
    /\ \A o \in Ops : SF_vars(focus = "slots" /\ Claim(o))
    /\ WF_vars(focus = "slots" /\ \E c \in child : Child(c))

\* WorkerHost.run does not poll for ever what it can only skip (WorkerHost.Quiesces).
HostQuiesces == focus = "hosts" => Hosts!Quiesces

\* What _next_work sees queued is claimed (WorkerHost.QueuedIsTaken).
HostTakesQueued == focus = "hosts" => Hosts!QueuedIsTaken

\* An update that runs ends (ApplicationSlots.UpdatesEnd: the engine and the
\* replacement process leave no update half way while workers take over).
UpdateEnds == focus = "slots" => UpdatesEnd

=============================================================================
