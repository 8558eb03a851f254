---------------------------- MODULE BindingProofs ----------------------------
(***************************************************************************)
(* The driver binding, for any number of starts and stops.                 *)
(***************************************************************************)
EXTENDS KeyboardBinding, TLAPS

States == {"unused", "live", "freed"}
Setup  == {"WaitForKey", "WaitForKeyEx", "Timer", "SetTimer", "KeyNotify", "Reset", "Install"}

BindingTypeOK ==
    /\ pc \in Setup \cup {"out", "Alloc", "exit", "crashed"}
    /\ current \in Context \cup {NoContext} /\ installed \in Context \cup {NoContext}
    /\ memory \in [Context -> States]
    /\ events \in [Context -> SUBSET EventKind] /\ fields \in [Context -> SUBSET EventKind]
    /\ armed \subseteq Context /\ nameTable \subseteq Context /\ stopped \subseteq Context
    /\ deviceOpen \in BOOLEAN

(* What Start has set up before each of its steps.                         *)
Done(step) ==
    CASE step = "WaitForKey"   -> {}
      [] step = "WaitForKeyEx" -> {"WaitForKey"}
      [] step = "Timer"        -> {"WaitForKey", "WaitForKeyEx"}
      [] step = "SetTimer"     -> {"WaitForKey", "WaitForKeyEx", "Timer"}
      [] step = "KeyNotify"    -> {"WaitForKey", "WaitForKeyEx", "Timer"}
      [] step \in {"Reset", "Install"} -> EventKind

SetUp ==
    pc \in Setup =>
        /\ current \in Context /\ memory[current] = "live"
        /\ Done(pc) \subseteq events[current]
        /\ pc \in {"KeyNotify", "Reset", "Install"} => current \in armed

(* A start finds no protocols installed, since it holds the device; and a  *)
(* context that was stopped is freed for good.                             *)
BindingInv ==
    /\ BindingTypeOK
    /\ SetUp
    /\ pc \notin {"out", "crashed"} => installed = NoContext /\ deviceOpen = TRUE
    /\ pc = "Alloc" => current = NoContext
    /\ pc = "exit" /\ current # NoContext => memory[current] = "live"
    /\ pc = "out" => (deviceOpen = TRUE <=> installed # NoContext)
    /\ installed # NoContext => /\ memory[installed] = "live"
                                /\ events[installed] \cup {"Timer"} = EventKind
    /\ \A c \in stopped : memory[c] = "freed" /\ "Timer" \notin events[c] /\ c \notin armed

LEMMA BindingInvInit == Init => BindingInv
BY NoContextAssumption
   DEF Init, BindingInv, BindingTypeOK, SetUp, Setup, States, EventKind

LEMMA BindingInvNext == BindingInv /\ [Next]_vars => BindingInv'
<1> SUFFICES ASSUME BindingInv, [Next]_vars PROVE BindingInv'
  OBVIOUS
<1> USE NoContextAssumption DEF BindingInv, BindingTypeOK, SetUp, Setup, States, EventKind
<1>1. CASE OpenDevice
  BY <1>1 DEF OpenDevice
<1>2. CASE AllocateContext
  <2>1. CASE pc' = "exit" /\ UNCHANGED <<memory, current>>
    BY <1>2, <2>1 DEF AllocateContext
  <2>2. ASSUME NEW c \in Context, memory[c] = "unused",
               memory' = [memory EXCEPT ![c] = "live"], current' = c, pc' = "WaitForKey"
        PROVE  BindingInv'
    BY <1>2, <2>2 DEF AllocateContext, Done
  <2> QED BY <1>2, <2>1, <2>2 DEF AllocateContext
<1>3. ASSUME NEW kind \in EventKind, CreateEvent(kind) PROVE BindingInv'
  <2>1. CASE pc' = "exit" /\ UNCHANGED <<events, fields>>
    BY <1>3, <2>1 DEF CreateEvent
  <2>2. CASE /\ events' = [events EXCEPT ![current] = @ \cup {kind}]
             /\ fields' = [fields EXCEPT ![current] = @ \cup {kind}]
             /\ pc' = NextStep(kind)
    <3>1. pc = kind /\ UNCHANGED <<current, memory, armed, nameTable, installed, deviceOpen,
                                   stopped>>
      BY <1>3 DEF CreateEvent
    <3>2. current \in Context /\ current \notin stopped /\ installed = NoContext
      BY <3>1
    <3>3. events'[current] = events[current] \cup {kind}
      BY <2>2, <3>2
    <3>4. pc' \in Setup /\ Done(pc') \subseteq events'[current]
      BY <2>2, <3>1, <3>3 DEF NextStep, Done
    <3>5. pc' \in {"KeyNotify", "Reset", "Install"} => current \in armed
      BY <2>2, <3>1 DEF NextStep
    <3>6. \A c \in stopped : events'[c] = events[c]
      BY <2>2, <3>2
    <3> QED BY <2>2, <3>1, <3>2, <3>4, <3>5, <3>6
  <2> QED BY <1>3, <2>1, <2>2 DEF CreateEvent
<1>4. CASE SetTimer
  BY <1>4 DEF SetTimer, NextStep, Done
<1>5. CASE ResetKeyboard
  BY <1>5 DEF ResetKeyboard, Done
<1>6. CASE InstallProtocols
  BY <1>6 DEF InstallProtocols, Done
<1>7. CASE StartExit
  <2>1. CASE current = NoContext
    BY <1>7, <2>1 DEF StartExit
  <2>2. CASE current # NoContext
    <3>1. PICK closed : /\ events' = [events EXCEPT ![current] = @ \ closed]
                        /\ armed' \in {armed, armed \ {current}}
                        /\ memory' \in {memory, [memory EXCEPT ![current] = "freed"]}
                        /\ deviceOpen' = FALSE /\ pc' = "out"
      BY <1>7, <2>2, Zenon DEF StartExit
    <3>2. pc = "exit" /\ UNCHANGED <<current, fields, nameTable, installed, stopped>>
      BY <1>7 DEF StartExit
    <3> QED BY <2>2, <3>1, <3>2
  <2> QED BY <2>1, <2>2
<1>8. CASE StopFails
  BY <1>8 DEF StopFails, StopClosesTimer
<1>9. CASE KeyboardControllerDriverStop
  <2>1. /\ pc = "out" /\ installed \in Context /\ armed' = armed \ {installed}
        /\ fields' = [fields EXCEPT ![installed] = @ \ {"Timer"}]
        /\ memory' = [memory EXCEPT ![installed] = "freed"]
        /\ nameTable' = nameTable \ {installed} /\ stopped' = stopped \cup {installed}
        /\ installed' = NoContext /\ deviceOpen' = FALSE /\ UNCHANGED <<pc, current>>
    BY <1>9 DEF KeyboardControllerDriverStop, StopClosesTimer
  <2> DEFINE other == FirstOf(installed, <<"WaitForKey", "WaitForKeyEx", "KeyNotify">>)
  <2>2. events' = [events EXCEPT ![installed] = @ \ ({"Timer"} \cup other)]
    <3>1. installed \notin armed'
      BY <2>1
    <3> QED BY <1>9, <3>1 DEF KeyboardControllerDriverStop
  <2> HIDE DEF other
  <2>3. BindingTypeOK'
    BY <2>1, <2>2
  <2>4. \A c \in stopped' :
            memory'[c] = "freed" /\ "Timer" \notin events'[c] /\ c \notin armed'
    <3>1. memory'[installed] = "freed" /\ "Timer" \notin events'[installed]
      BY <2>1, <2>2
    <3>2. \A c \in stopped : c # installed =>
              memory'[c] = memory[c] /\ events'[c] = events[c]
      BY <2>1, <2>2
    <3> QED BY <2>1, <3>1, <3>2
  <2>5. installed' = NoContext /\ pc' = "out" /\ deviceOpen' = FALSE
    BY <2>1
  <2> QED BY <2>3, <2>4, <2>5
<1>10. CASE UNCHANGED vars
  BY <1>10 DEF vars
<1> QED BY <1>1, <1>2, <1>3, <1>4, <1>5, <1>6, <1>7, <1>8, <1>9, <1>10 DEF Next

LEMMA BindingInvHolds == Spec => []BindingInv
BY BindingInvInit, BindingInvNext, PTL DEF Spec

(* The protocols on the handle are those of a live context.                *)
THEOREM UsersFindLiveContexts == Spec => []InstalledIsUsable
<1>1. BindingInv => InstalledIsUsable
  BY DEF BindingInv, BindingTypeOK, InstalledIsUsable, States
<1> QED BY <1>1, BindingInvHolds, PTL

(* The device is held exactly as long as it is in use.                     *)
THEOREM DeviceIsGivenBack == Spec => []DeviceHeldWhileInUse
<1>1. BindingInv => DeviceHeldWhileInUse
  BY DEF BindingInv, BindingTypeOK, DeviceHeldWhileInUse
<1> QED BY <1>1, BindingInvHolds, PTL

(* No timer of a stopped keyboard is left.                                 *)
THEOREM StoppedIsNotPolled == Spec => []NoPollAfterStop
<1>1. BindingInv => NoPollAfterStop
  BY DEF BindingInv, NoPollAfterStop
<1> QED BY <1>1, BindingInvHolds, PTL

(* Start succeeds with the timer armed only.                               *)
THEOREM StartArmsTheTimer == Spec => StartedIsPolled
<1>1. BindingInv /\ [Next]_vars
        => [pc = "Install" /\ pc' = "out"
              => current \in armed /\ "Timer" \in events[current]]_vars
  BY DEF BindingInv, SetUp, Setup, Done, EventKind
<1> QED BY <1>1, BindingInvHolds, PTL DEF Spec, StartedIsPolled
==============================================================================
