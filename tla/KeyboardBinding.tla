--------------------------- MODULE KeyboardBinding ---------------------------
(***************************************************************************)
(* KeyboardControllerDriverStart and KeyboardControllerDriverStop: the     *)
(* life of a KEYBOARD_CONSOLE_IN_DEV and of the four events that carry its *)
(* address, when any step of a start or the uninstall of a stop may fail   *)
(* and the driver is connected again and again.                            *)
(*                                                                         *)
(* Each Start allocates the next context of Context.  A step of Start that *)
(* may fail is an action.  The handlers that run between two steps keep    *)
(* out of this state: TegraKeyboard models them.                           *)
(***************************************************************************)
EXTENDS Integers, FiniteSets

CONSTANTS MaxStarts,  \* bound on the contexts allocated in a behaviour
          NoContext   \* NULL

ASSUME MaxStartsAssumption == MaxStarts \in Nat \ {0}

Context == 1 .. MaxStarts
ASSUME NoContextAssumption == NoContext \notin Context
EventKind == {"WaitForKey", "WaitForKeyEx", "Timer", "KeyNotify"}

VARIABLES
  pc,          \* where Start is; "out" outside of Start
  current,     \* ConsoleIn of the Start that runs, or NoContext
  memory,      \* each context: "unused", "live" or "freed"
  events,      \* for each context the events that are open
  fields,      \* for each context its event fields that are not NULL
  armed,       \* the contexts whose timer is periodic
  nameTable,   \* the contexts whose ControllerNameTable is not NULL
  installed,   \* the context whose protocols are on the controller handle
  deviceOpen,  \* KEYBOARD_DEVICE_PROTOCOL is open BY_DRIVER for this driver
  stopped      \* history: the contexts for which Stop returned EFI_SUCCESS

vars == <<pc, current, memory, events, fields, armed, nameTable, installed,
          deviceOpen, stopped>>

-----------------------------------------------------------------------------
(* Start.                                                                  *)

(* Mutant of NextStep: the timer is created but never armed. *)
NextStepUnarmed(step) ==
  CASE step = "WaitForKey"   -> "WaitForKeyEx"
    [] step = "WaitForKeyEx" -> "Timer"
    [] step = "Timer"        -> "KeyNotify"
    [] step = "SetTimer"     -> "KeyNotify"
    [] step = "KeyNotify"    -> "Reset"

(* The order in which Start sets the context up. *)
NextStep(step) ==
  CASE step = "WaitForKey"   -> "WaitForKeyEx"
    [] step = "WaitForKeyEx" -> "Timer"
    [] step = "Timer"        -> "SetTimer"
    [] step = "SetTimer"     -> "KeyNotify"
    [] step = "KeyNotify"    -> "Reset"

(* OpenProtocol BY_DRIVER refuses a second open: EFI_ALREADY_STARTED. *)
OpenDevice ==
  /\ pc = "out" /\ ~deviceOpen
  /\ deviceOpen' = TRUE
  /\ current' = NoContext
  /\ pc' = "Alloc"
  /\ UNCHANGED <<memory, events, fields, armed, nameTable, installed, stopped>>

AllocateContext ==
  /\ pc = "Alloc"
  /\ \/ \E c \in Context :
          /\ memory[c] = "unused" /\ \A d \in 1 .. c - 1 : memory[d] # "unused"
          /\ memory' = [memory EXCEPT ![c] = "live"]
          /\ current' = c
          /\ pc' = "WaitForKey"
     \/ /\ pc' = "exit"        \* EFI_OUT_OF_RESOURCES
        /\ UNCHANGED <<memory, current>>
  /\ UNCHANGED <<events, fields, armed, nameTable, installed, deviceOpen,
                 stopped>>

CreateEvent(kind) ==
  /\ pc = kind
  /\ \/ /\ events' = [events EXCEPT ![current] = @ \cup {kind}]
        /\ fields' = [fields EXCEPT ![current] = @ \cup {kind}]
        /\ pc' = NextStep(kind)
     \/ /\ pc' = "exit"
        /\ UNCHANGED <<events, fields>>
  /\ UNCHANGED <<current, memory, armed, nameTable, installed, deviceOpen,
                 stopped>>

SetTimer ==
  /\ pc = "SetTimer"
  /\ \/ armed' = armed \cup {current} /\ pc' = NextStep("SetTimer")
     \/ pc' = "exit" /\ UNCHANGED armed
  /\ UNCHANGED <<current, memory, events, fields, nameTable, installed,
                 deviceOpen, stopped>>

(* ConInEx.Reset cannot fail here (KeyboardErr is FALSE); then the names.  *)
ResetKeyboard ==
  /\ pc = "Reset"
  /\ nameTable' \in {nameTable, nameTable \cup {current}}
  /\ pc' = "Install"
  /\ UNCHANGED <<current, memory, events, fields, armed, installed, deviceOpen,
                 stopped>>

InstallProtocols ==
  /\ pc = "Install"
  /\ \/ installed = NoContext /\ installed' = current /\ pc' = "out"
     \/ pc' = "exit" /\ UNCHANGED installed
  /\ UNCHANGED <<current, memory, events, fields, armed, nameTable, deviceOpen,
                 stopped>>

(* The first event of an else-if chain that is not NULL. *)
FirstOf(c, order) ==
  IF \E i \in DOMAIN order : order[i] \in fields[c]
  THEN {order[CHOOSE i \in DOMAIN order :
                /\ order[i] \in fields[c]
                /\ \A j \in 1 .. i - 1 : order[j] \notin fields[c]]}
  ELSE {}

(* The exit path closes the first event that exists and frees the context  *)
(* only when it has no name table; without a context it walks the          *)
(* notification list of NULL.                                              *)
StartExit ==
  /\ pc = "exit"
  /\ IF current = NoContext
     THEN /\ pc' = "crashed"
          /\ UNCHANGED <<memory, events, armed, deviceOpen>>
     ELSE LET closed == FirstOf(current, <<"WaitForKey", "Timer",
                                           "WaitForKeyEx", "KeyNotify">>)
          IN  /\ events' = [events EXCEPT ![current] = @ \ closed]
              /\ armed' = IF "Timer" \in closed THEN armed \ {current}
                                                ELSE armed
              /\ memory' = IF current \in nameTable THEN memory
                           ELSE [memory EXCEPT ![current] = "freed"]
              /\ deviceOpen' = FALSE
              /\ pc' = "out"
  /\ UNCHANGED <<current, fields, nameTable, installed, stopped>>

-----------------------------------------------------------------------------
(* Stop.  Its caller runs at TPL_APPLICATION and the handlers run when it  *)
(* makes a call, but none of them changes what Stop reads: one action.     *)

(* Mutant of StopClosesTimer: the timer is one more arm of the else-if      *)
(* chain below, which another event always wins.                           *)
StopClosesNoTimer(c) == UNCHANGED <<armed>> /\ UNCHANGED fields

StopClosesTimer(c) ==
  /\ armed' = armed \ {c}
  /\ fields' = [fields EXCEPT ![c] = @ \ {"Timer"}]

(* Mutant of StopFails: the device is given up before the uninstall. *)
StopFailsClosed ==
  /\ pc = "out" /\ installed # NoContext
  /\ StopClosesTimer(installed)
  /\ events' = [events EXCEPT ![installed] = @ \ {"Timer"}]
  /\ deviceOpen' = FALSE
  /\ UNCHANGED <<pc, current, memory, nameTable, installed, stopped>>

(* Mutant of StopFails: the other events are closed before the uninstall. *)
StopFailsEarlyFree ==
  /\ pc = "out" /\ installed # NoContext
  /\ StopClosesTimer(installed)
  /\ events' = [events EXCEPT ![installed] = @ \ {"Timer", "WaitForKey"}]
  /\ UNCHANGED <<pc, current, memory, nameTable, installed, deviceOpen,
                 stopped>>

(* The uninstall fails: Stop returns with the timer already closed. *)
StopFails ==
  /\ pc = "out" /\ installed # NoContext
  /\ StopClosesTimer(installed)
  /\ events' = [events EXCEPT ![installed] = @ \ {"Timer"}]
  /\ UNCHANGED <<pc, current, memory, nameTable, installed, deviceOpen,
                 stopped>>

(* The uninstall succeeds: one of the other events is closed, the first    *)
(* that exists, and the context is freed.                                  *)
KeyboardControllerDriverStop ==
  /\ pc = "out" /\ installed # NoContext
  /\ StopClosesTimer(installed)
  /\ LET timer  == IF installed \in armed' THEN {} ELSE {"Timer"}
         closed == FirstOf(installed, <<"WaitForKey", "WaitForKeyEx",
                                        "KeyNotify">>)
     IN  events' = [events EXCEPT ![installed] = @ \ (timer \cup closed)]
  /\ memory' = [memory EXCEPT ![installed] = "freed"]
  /\ nameTable' = nameTable \ {installed}
  /\ stopped' = stopped \cup {installed}
  /\ installed' = NoContext
  /\ deviceOpen' = FALSE
  /\ UNCHANGED <<pc, current>>

-----------------------------------------------------------------------------

Init ==
  /\ pc = "out" /\ current = NoContext /\ installed = NoContext
  /\ memory = [c \in Context |-> "unused"]
  /\ events = [c \in Context |-> {}]
  /\ fields = [c \in Context |-> {}]
  /\ armed = {} /\ nameTable = {} /\ stopped = {}
  /\ deviceOpen = FALSE

Next ==
  \/ OpenDevice
  \/ AllocateContext
  \/ \E kind \in EventKind : CreateEvent(kind)
  \/ SetTimer
  \/ ResetKeyboard
  \/ InstallProtocols
  \/ StartExit
  \/ StopFails
  \/ KeyboardControllerDriverStop

Spec == Init /\ [][Next]_vars

-----------------------------------------------------------------------------

(***************************************************************************)
(* The protocols on the handle always belong to a context that is not      *)
(* freed and whose events the users wait on are open: no order of failed   *)
(* starts, stops and restarts leaves a user with the pointers of another.  *)
(***************************************************************************)
InstalledIsUsable ==
  installed # NoContext =>
    /\ memory[installed] = "live"
    /\ events[installed] \cup {"Timer"} = EventKind
    /\ installed \notin stopped

(***************************************************************************)
(* The device protocol is held exactly while a start runs or its protocols *)
(* are installed, so that after any failure the keyboard can be started    *)
(* again.                                                                  *)
(***************************************************************************)
DeviceHeldWhileInUse ==
  pc # "crashed" => (deviceOpen <=> pc # "out" \/ installed # NoContext)

(***************************************************************************)
(* A keyboard that was started and stopped is never polled again: its      *)
(* periodic timer does not survive the context, though Stop may have       *)
(* failed once before it succeeded.                                        *)
(***************************************************************************)
NoPollAfterStop ==
  \A c \in stopped : "Timer" \notin events[c] /\ c \notin armed

(***************************************************************************)
(* A started keyboard is polled, unless a stop of it failed half-way:      *)
(* Start succeeds only with the timer armed.                               *)
(***************************************************************************)
StartedIsPolled ==
  [][pc = "Install" /\ pc' = "out" =>
       current \in armed /\ "Timer" \in events[current]]_vars

(***************************************************************************)
(* What Stop says of itself: it frees the other resources of the context   *)
(* and, with EFI_SUCCESS, the driver is removed from the controller.  No   *)
(* event is left that carries the address of the freed context.            *)
(***************************************************************************)
StopFreesAllEvents == \A c \in stopped : events[c] = {}
=============================================================================
