---------------------------- MODULE BootDecision ----------------------------
(***************************************************************************)
(* What DeviceBootManagerLib decides before anything is booted.  The       *)
(* drivers are dispatched first, GpioButtons among them; then BDS calls    *)
(* DeviceBootManagerAfterConsole, which makes the checks of PreBootChecks, *)
(* and, when they let the machine boot, DeviceBootManagerPriorityBoot.  A  *)
(* volume button may be pressed at any time, the checks included.          *)
(***************************************************************************)
EXTENDS PreBootChecks

CONSTANTS MaxPress,  \* a bound on the button presses of a behaviour
          MaxCalls   \* a bound on the calls of DeviceBootManagerPriorityBoot

ASSUME MaxPressAssumption == MaxPress \in Nat
ASSUME MaxCallsAssumption == MaxCalls \in Nat

VARIABLES init, gBsp, buttonState, registered, published, bootPc, frontPage,
          shell, choice, presses, upSeen, frontCalls, calls, latest

PB == INSTANCE PriorityBoot WITH pc <- bootPc

buttonVars == <<init, gBsp, buttonState, registered, published, bootPc,
                frontPage, shell, choice, presses, upSeen, frontCalls, calls,
                latest>>

decisionVars == <<vars, buttonVars>>

DecisionInit == Init /\ PB!Init

ButtonsInit ==
  /\ \/ PB!ButtonsAllocate
     \/ PB!LocateKeypad
     \/ PB!RegisterUp
     \/ PB!RegisterDown
     \/ PB!InstallButtonServices
  /\ UNCHANGED vars

Press == (\E b \in PB!Button : PB!KeyNotify(b)) /\ UNCHANGED vars

(* BDS starts when the drivers have been dispatched. *)
DriversDone == init \in {"ok", "failed"}

AfterConsole == DriversDone /\ Next /\ UNCHANGED buttonVars

Priority ==
  /\ pc = "boot"
  /\ \/ PB!EnterPriorityBoot
     \/ PB!IsSettingsBoot
     \/ PB!IsUEFIShell
     \/ PB!ClearBootRequests
     \/ PB!DecideBootOption
  /\ UNCHANGED vars

DecisionNext == ButtonsInit \/ Press \/ AfterConsole \/ Priority

(* One thread dispatches the drivers and runs BDS, and the timer of the    *)
(* cooling pause fires: neither stops for good.                            *)
DecisionSpec ==
  /\ DecisionInit
  /\ [][DecisionNext]_decisionVars
  /\ WF_decisionVars(ButtonsInit)
  /\ WF_decisionVars(AfterConsole)

-----------------------------------------------------------------------------

(***************************************************************************)
(* One press of volume up asks for the settings at most once, though       *)
(* presses fall between the reads and the clear of any call.               *)
(***************************************************************************)
OnePressOneRequest == PB!OnePressOneRequest

(***************************************************************************)
(* The published state is that of the last press since the last clear:     *)
(* a press during the checks is not lost, whichever driver failed.         *)
(***************************************************************************)
LatestPressKept == PB!LatestPressKept

(***************************************************************************)
(* No failure of ButtonsInit leaves the button services installed on a     *)
(* freed block or without both of its key notifications.                   *)
(***************************************************************************)
PublishedIsLive == PB!PublishedIsLive
=============================================================================
