---------------------------- MODULE SetupWorkflow ----------------------------
(***************************************************************************)
(* The first-run setup: the named stages kept in the settings, the window  *)
(* that walks the user through eleven screens, and the terminals that      *)
(* install the window's own dependency before there is one.  A process may *)
(* die at any moment; what its work has done to the machine stays done.    *)
(*                                                                         *)
(* What the screens show, the optimisations and the reboot notice are left *)
(* out; a step of the window that runs on its worker lane takes effect in  *)
(* one action and is told to the user in another.                          *)
(***************************************************************************)
EXTENDS Naturals, Sequences, FiniteSets

CONSTANTS None, Models,
          Terminals,    \* the terminals the dependency may be installed from
          WindowLaunches    \* how often the window is opened

VARIABLES
    settings,   \* the durable keys: [stage, ack, complete, staged, selected, alias]
    machine,    \* what was done to this computer: [done, stored, serving]
    window,     \* the one window: [pc, step, button, ack, selected, alias, saw, records, opened]
    terminal    \* [Terminals -> [pc, saw]]

setupVars == <<settings, machine, window, terminal>>

-----------------------------------------------------------------------------
(* The stages and the service that moves along them                        *)

SETUP_STAGES ==
    <<"WELCOME", "SAFETY_ACKNOWLEDGED", "HARDWARE_VALIDATED", "TKINTER_READY",
      "LLM_MODE_CONFIGURED", "RUNTIME_READY", "MODEL_SELECTED", "MODEL_PREPARED",
      "PROFILE_APPLIED", "SERVICE_INSTALLED", "OPTIONALS_CONFIGURED", "VERIFIED", "COMPLETE">>

Stages == {SETUP_STAGES[i] : i \in DOMAIN SETUP_STAGES}

Index(stage) == CHOOSE i \in DOMAIN SETUP_STAGES : SETUP_STAGES[i] = stage

Reached(stage) == Index(settings.stage) >= Index(stage)

(* A repeated transition is no conflict; any other needs the stage before. *)
Refused(from, to) == settings.stage \notin {from, to}

Moved(from, to) == IF settings.stage = from THEN [settings EXCEPT !.stage = to] ELSE settings

Acknowledged ==
    [settings EXCEPT !.ack = TRUE,
                     !.stage = IF @ = "WELCOME" THEN "SAFETY_ACKNOWLEDGED" ELSE @]

Completed == [Moved("VERIFIED", "COMPLETE") EXCEPT !.complete = TRUE]

Did(what) == machine' = [machine EXCEPT !.done = @ \cup {what}]

-----------------------------------------------------------------------------
(* Opening, closing and moving the window                                  *)

ResumeStep(stage) ==
    CASE stage \in {"WELCOME", "SAFETY_ACKNOWLEDGED"} -> 0
      [] stage = "HARDWARE_VALIDATED" -> 1
      [] stage = "TKINTER_READY" -> 2
      [] stage = "LLM_MODE_CONFIGURED" -> 3
      [] stage = "RUNTIME_READY" -> 4
      [] stage = "MODEL_SELECTED" -> 5
      [] stage \in {"MODEL_PREPARED", "PROFILE_APPLIED"} -> 8
      [] stage \in {"SERVICE_INSTALLED", "OPTIONALS_CONFIGURED"} -> 9
      [] stage \in {"VERIFIED", "COMPLETE"} -> 10

Closed(opened) ==
    [pc |-> "closed", step |-> 0, button |-> FALSE, ack |-> FALSE, selected |-> None,
     alias |-> None, saw |-> None, records |-> <<>>, opened |-> opened]

Launch ==
    /\ window.pc = "closed" /\ window.opened < WindowLaunches
    /\ "tkinter" \in machine.done
    /\ window' = [Closed(window.opened + 1) EXCEPT
                    !.pc = "idle", !.button = TRUE, !.step = ResumeStep(settings.stage),
                    !.ack = settings.ack, !.selected = settings.selected, !.alias = settings.alias]
    /\ UNCHANGED <<settings, machine, terminal>>

WindowDies ==
    /\ window.pc # "closed"
    /\ window' = Closed(window.opened)
    /\ UNCHANGED <<settings, machine, terminal>>

Shown(step) == [window EXCEPT !.pc = "idle", !.step = step, !.button = TRUE]

Back ==
    /\ window.pc = "idle" /\ window.step \in 1..9
    /\ window' = Shown(window.step - 1)
    /\ UNCHANGED <<settings, machine, terminal>>

Pressed(step) == window.pc = "idle" /\ window.step = step /\ window.button

-----------------------------------------------------------------------------
(* The machine check and the safety acknowledgement                        *)

MachineLooksRight ==
    /\ Pressed(0)
    /\ window' = Shown(1)
    /\ UNCHANGED <<settings, machine, terminal>>

AcknowledgeSafety ==
    /\ Pressed(1)
    /\ settings' = Acknowledged
    /\ window' = [window EXCEPT !.ack = TRUE, !.pc = "checking"]
    /\ UNCHANGED <<machine, terminal>>

(* The stage is read in a unit of its own before the check is recorded. *)
ReadStage ==
    /\ window.pc = "checking"
    /\ window' = IF settings.stage \in {"SAFETY_ACKNOWLEDGED", "HARDWARE_VALIDATED"}
                   THEN [window EXCEPT !.pc = "recording_check", !.saw = settings.stage]
                   ELSE Shown(2)
    /\ UNCHANGED <<settings, machine, terminal>>

RaisedInCheck == [window EXCEPT !.pc = "idle", !.saw = None]

RecordHardware ==
    /\ window.pc = "recording_check" /\ window.saw = "SAFETY_ACKNOWLEDGED"
    /\ UNCHANGED terminal
    /\ \/ /\ UNCHANGED <<settings, machine>>     \* the report is not valid any more
          /\ window' = RaisedInCheck
       \/ /\ Did("hardware")
          /\ IF Refused("SAFETY_ACKNOWLEDGED", "HARDWARE_VALIDATED")
               THEN window' = RaisedInCheck /\ UNCHANGED settings
               ELSE /\ settings' = Moved("SAFETY_ACKNOWLEDGED", "HARDWARE_VALIDATED")
                    /\ window' = [window EXCEPT !.saw = "HARDWARE_VALIDATED"]

RecordTkinter ==
    /\ window.pc = "recording_check" /\ window.saw = "HARDWARE_VALIDATED"
    /\ UNCHANGED <<machine, terminal>>
    /\ IF Refused("HARDWARE_VALIDATED", "TKINTER_READY")
         THEN window' = RaisedInCheck /\ UNCHANGED settings
         ELSE /\ settings' = Moved("HARDWARE_VALIDATED", "TKINTER_READY")
              /\ window' = [Shown(2) EXCEPT !.saw = None]

-----------------------------------------------------------------------------
(* The steps that do something to the machine                              *)

Lane == {2, 3, 5, 6, 7, 8, 9}

StartWork ==
    /\ window.pc = "idle" /\ window.step \in Lane /\ window.button
    /\ window' = [window EXCEPT !.pc = "working", !.button = FALSE]
    /\ UNCHANGED <<settings, machine, terminal>>

WorkFails ==
    /\ window.pc = "working"
    /\ window' = [window EXCEPT !.pc = "failed"]
    /\ UNCHANGED <<settings, machine, terminal>>

Working(step) == window.pc = "working" /\ window.step = step /\ UNCHANGED terminal

Finished == window' = [window EXCEPT !.pc = "finished"]

EnterLlmMode ==
    /\ Working(2)
    /\ window.ack
    /\ Did("llm_mode")
    /\ Finished
    /\ UNCHANGED settings

InstallRuntime ==
    /\ Working(3)
    /\ Did("runtime")
    /\ Finished
    /\ UNCHANGED settings

Optimize ==
    /\ Working(5)
    /\ Finished
    /\ UNCHANGED <<settings, machine>>

(* The bytes are there before the window commits the name they go by. *)
AcquireModel ==
    /\ Working(6) /\ window.alias # window.selected
    /\ machine' = [machine EXCEPT !.stored = @ \cup {window.selected}]
    /\ window' = [window EXCEPT !.alias = window.selected]
    /\ UNCHANGED settings

CommitAlias ==
    /\ Working(6) /\ window.alias = window.selected
    /\ settings' = [settings EXCEPT !.alias = window.alias]
    /\ Finished
    /\ UNCHANGED machine

ValidateModel ==
    /\ Working(7)
    /\ window.alias \in machine.stored
    /\ Finished
    /\ UNCHANGED <<settings, machine>>

ToServe == IF window.alias # None THEN window.alias ELSE window.selected

ActivateModel ==
    /\ Working(8)
    /\ ToServe \in machine.stored
    /\ machine' = [machine EXCEPT !.serving = ToServe]
    /\ Finished
    /\ UNCHANGED settings

SetUpOptionals ==
    /\ Working(9)
    /\ Did("optionals")
    /\ Finished
    /\ UNCHANGED settings

SelectModel ==
    /\ Pressed(4)
    /\ \E m \in Models :
         /\ settings' = [settings EXCEPT !.selected = m]
         /\ window' = [window EXCEPT !.selected = m, !.pc = "recording", !.records = <<"MODEL_SELECTED">>]
    /\ UNCHANGED <<machine, terminal>>

-----------------------------------------------------------------------------
(* What the window records when a step has succeeded                       *)

(* Mutant: the callback runs whether or not the work succeeded. *)
SucceededAny == window.pc \in {"finished", "failed"}

Succeeded == window.pc = "finished"

Recorded(step) ==
    CASE step = 2 -> <<"LLM_MODE_CONFIGURED">>
      [] step = 3 -> <<"RUNTIME_READY">>
      [] step = 7 -> <<"MODEL_PREPARED">>
      [] step = 8 -> <<"PROFILE_APPLIED", "SERVICE_INSTALLED">>
      [] step = 9 -> <<"OPTIONALS_CONFIGURED", "VERIFIED", "COMPLETE">>
      [] OTHER    -> <<>>

ResultArrives ==
    /\ window.pc \in {"finished", "failed"}
    /\ window' = IF Succeeded
                   THEN [window EXCEPT !.pc = "recording", !.records = Recorded(window.step)]
                   ELSE [window EXCEPT !.pc = "idle"]
    /\ UNCHANGED <<settings, machine, terminal>>

(* A stage already passed is accepted, one not yet due is an error. *)
RecordStage ==
    /\ window.pc = "recording" /\ window.records # <<>> /\ Head(window.records) # "COMPLETE"
    /\ LET next == Head(window.records)
           expected == SETUP_STAGES[Index(next) - 1]
       IN IF settings.stage # expected /\ ~Reached(next)
            THEN /\ window' = [window EXCEPT !.pc = "idle", !.records = <<>>]
                 /\ UNCHANGED settings
            ELSE /\ settings' = Moved(expected, next)
                 /\ window' = [window EXCEPT !.records = Tail(@)]
    /\ UNCHANGED <<machine, terminal>>

FinishSetup ==
    /\ window.pc = "recording" /\ window.records = <<"COMPLETE">>
    /\ IF Refused("VERIFIED", "COMPLETE")
         THEN /\ window' = [window EXCEPT !.pc = "idle", !.records = <<>>]
              /\ UNCHANGED settings
         ELSE /\ settings' = Completed
              /\ window' = [window EXCEPT !.records = <<>>]
    /\ UNCHANGED <<machine, terminal>>

NextScreen ==
    /\ window.pc = "recording" /\ window.records = <<>>
    /\ window' = Shown(window.step + 1)
    /\ UNCHANGED <<settings, machine, terminal>>

-----------------------------------------------------------------------------
(* A terminal that installs the dependency of the window                   *)

NoTerminal == [pc |-> "off", saw |-> None]

At(t, pc) == terminal[t].pc = pc

Goes(t, changed) == terminal' = [terminal EXCEPT ![t] = changed]

TerminalStarts(t) ==
    /\ At(t, "off") /\ "tkinter" \notin machine.done
    /\ ~settings.staged
    /\ Goes(t, [pc |-> IF settings.ack THEN "reading" ELSE "asking", saw |-> None])
    /\ UNCHANGED <<settings, machine, window>>

TerminalAcknowledges(t) ==
    /\ At(t, "asking")
    /\ settings' = Acknowledged
    /\ Goes(t, [terminal[t] EXCEPT !.pc = "reading"])
    /\ UNCHANGED <<machine, window>>

(* At WELCOME with the acknowledgement recorded, it is recorded once more. *)
TerminalReads(t) ==
    /\ At(t, "reading")
    /\ settings' = IF settings.stage = "WELCOME" THEN Acknowledged ELSE settings
    /\ Goes(t, [terminal[t] EXCEPT !.pc = "validating", !.saw = settings'.stage])
    /\ UNCHANGED <<machine, window>>

TerminalValidates(t) ==
    /\ At(t, "validating")
    /\ IF terminal[t].saw # "SAFETY_ACKNOWLEDGED"
         THEN Goes(t, [terminal[t] EXCEPT !.pc = "installing", !.saw = None]) /\ UNCHANGED <<settings, machine>>
         ELSE IF Refused("SAFETY_ACKNOWLEDGED", "HARDWARE_VALIDATED")
           THEN Goes(t, NoTerminal) /\ UNCHANGED <<settings, machine>>
           ELSE /\ settings' = Moved("SAFETY_ACKNOWLEDGED", "HARDWARE_VALIDATED")
                /\ Did("hardware")
                /\ Goes(t, [terminal[t] EXCEPT !.pc = "installing", !.saw = None])
    /\ UNCHANGED window

(* The package is there at once, or after the next boot. *)
TerminalInstalls(t) ==
    /\ At(t, "installing")
    /\ \E package \in {"tkinter", "package"} : Did(package)
    /\ Goes(t, [terminal[t] EXCEPT !.pc = "staging"])
    /\ UNCHANGED <<settings, window>>

TerminalRecords(t) ==
    /\ At(t, "staging")
    /\ settings' = IF Refused("HARDWARE_VALIDATED", "TKINTER_READY") THEN settings
                   ELSE [Moved("HARDWARE_VALIDATED", "TKINTER_READY") EXCEPT
                           !.staged = @ \/ settings.stage = "HARDWARE_VALIDATED"]
    /\ Goes(t, NoTerminal)
    /\ UNCHANGED <<machine, window>>

TerminalDies(t) ==
    /\ ~At(t, "off")
    /\ Goes(t, NoTerminal)
    /\ UNCHANGED <<settings, machine, window>>

Reboot ==
    /\ "package" \in machine.done
    /\ machine' = [machine EXCEPT !.done = (@ \ {"package"}) \cup {"tkinter"}]
    /\ window' = Closed(window.opened)
    /\ terminal' = [t \in Terminals |-> NoTerminal]
    /\ UNCHANGED settings

-----------------------------------------------------------------------------
Init ==
    /\ settings = [stage |-> "WELCOME", ack |-> FALSE, complete |-> FALSE, staged |-> FALSE,
                   selected |-> None, alias |-> None]
    /\ machine \in {[done |-> d, stored |-> {}, serving |-> None] : d \in {{}, {"tkinter"}}}
    /\ window = Closed(0)
    /\ terminal = [t \in Terminals |-> NoTerminal]

Next ==
    \/ Launch \/ WindowDies \/ Back \/ MachineLooksRight \/ AcknowledgeSafety \/ ReadStage
    \/ RecordHardware \/ RecordTkinter \/ StartWork \/ WorkFails \/ EnterLlmMode \/ InstallRuntime
    \/ Optimize \/ AcquireModel \/ CommitAlias \/ ValidateModel \/ ActivateModel \/ SetUpOptionals
    \/ SelectModel \/ ResultArrives \/ RecordStage \/ FinishSetup \/ NextScreen \/ Reboot
    \/ \E t \in Terminals :
         \/ TerminalStarts(t) \/ TerminalAcknowledges(t) \/ TerminalReads(t) \/ TerminalValidates(t)
         \/ TerminalInstalls(t) \/ TerminalRecords(t) \/ TerminalDies(t)

-----------------------------------------------------------------------------
(* Properties                                                              *)

(* What each stage says has been done to this machine. *)
Claim ==
    [stage \in Stages |->
       CASE stage = "WELCOME"              -> TRUE
         [] stage = "SAFETY_ACKNOWLEDGED"  -> settings.ack
         [] stage = "HARDWARE_VALIDATED"   -> "hardware" \in machine.done
         [] stage = "TKINTER_READY"        -> machine.done \cap {"tkinter", "package"} # {}
         [] stage = "LLM_MODE_CONFIGURED"  -> "llm_mode" \in machine.done
         [] stage = "RUNTIME_READY"        -> "runtime" \in machine.done
         [] stage = "MODEL_SELECTED"       -> settings.selected \in Models
         [] stage = "MODEL_PREPARED"       -> settings.alias \in machine.stored
         [] stage \in {"PROFILE_APPLIED", "SERVICE_INSTALLED"} -> machine.serving \in machine.stored
         [] stage \in {"OPTIONALS_CONFIGURED", "VERIFIED"}     -> "optionals" \in machine.done
         [] stage = "COMPLETE"             -> settings.complete]

(* The stage needed to leave a screen: a window is never on a screen whose *)
(* success it could not record.                                            *)
NeededOn == <<"WELCOME", "TKINTER_READY", "LLM_MODE_CONFIGURED", "RUNTIME_READY", "MODEL_SELECTED",
              "MODEL_SELECTED", "MODEL_SELECTED", "MODEL_PREPARED", "SERVICE_INSTALLED", "VERIFIED">>

(* Whoever works on the setup and wherever they die: the recorded stage is *)
(* true of the machine, and so are all before it; nothing was changed      *)
(* before the acknowledgement; the window shows a step that can succeed;   *)
(* setup is complete exactly at the last stage.                            *)
Truthful ==
    /\ \A stage \in Stages : Reached(stage) => Claim[stage]
    /\ settings.complete <=> settings.stage = "COMPLETE"
    /\ machine.done \ {"hardware", "tkinter"} # {} \/ machine.stored # {} => settings.ack
    /\ window.pc # "closed" /\ window.step > 0 => Reached(NeededOn[window.step])

(* No stage is skipped or taken back. *)
OneStageAtATime ==
    settings'.stage # settings.stage => Index(settings'.stage) = Index(settings.stage) + 1

KeepsSetup == Truthful' /\ OneStageAtATime

(* SetupService, SetupWindow and the bootstrap: the recorded setup follows *)
(* the real one, stage by stage.                                           *)
SetupKept == [][KeepsSetup]_setupVars

==============================================================================
