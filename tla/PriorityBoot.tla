---------------------------- MODULE PriorityBoot ----------------------------
(***************************************************************************)
(* The volume buttons at boot: GpioButtons publishes the button state that *)
(* its key notification function keeps, MsBootPolicyLib reads and clears   *)
(* it, and DeviceBootManagerPriorityBoot turns it into a boot option.      *)
(*                                                                         *)
(* BDS runs at TPL_APPLICATION and the notification function at            *)
(* TPL_CALLBACK, so a press can fall between any two calls of the policy.  *)
(***************************************************************************)
EXTENDS Integers, FiniteSets

CONSTANTS MaxPress,  \* a bound on the button presses of a behaviour
          MaxCalls   \* a bound on the calls of DeviceBootManagerPriorityBoot

Button == {"VolUp", "VolDown"}
ButtonStates == Button \cup {"NoButtons"}
Choice == {"none", "NotFound", "FrontPage", "Shell", "NetworkUnlock"}

VARIABLES
  init,        \* ButtonsInit: next step, then "ok" or "failed"
  gBsp,        \* the driver's block: "null", "live" or "freed"
  buttonState, \* ButtonState, in that block
  registered,  \* the buttons KeyNotify is registered for
  published,   \* gMsButtonServicesProtocol is installed
  pc,          \* DeviceBootManagerPriorityBoot: its next step
  frontPage,   \* FrontPageBoot
  shell,       \* UEFIShell
  choice,      \* the boot option built by the last call
  presses,     \* history: the number of presses KeyNotify has seen
  upSeen,      \* history: presses of volume up KeyNotify has seen
  frontCalls,  \* history: calls that read FrontPageBoot as TRUE
  calls,       \* history: the number of calls
  latest       \* history: the last press since the last clear

bsp == <<init, gBsp, registered, published>>
policy == <<pc, frontPage, shell, choice, frontCalls, calls>>
vars == <<bsp, policy, buttonState, presses, upSeen, latest>>

-----------------------------------------------------------------------------
(* ButtonsInit and GetButtonState.                                         *)

(* Every failure after the allocation frees the block; gBsp keeps its      *)
(* address and the registrations stay.                                     *)
InitFails ==
  /\ init' = "failed"
  /\ gBsp' = "freed"
  /\ UNCHANGED <<registered, published, buttonState>>

ButtonsAllocate ==
  /\ init = "alloc"
  /\ \/ /\ init' = "locate" /\ gBsp' = "live" /\ buttonState' = "NoButtons"
     \/ /\ init' = "ok"       \* no memory: EFI_SUCCESS without a protocol
        /\ UNCHANGED <<gBsp, buttonState>>
  /\ UNCHANGED <<registered, published, policy, presses, upSeen, latest>>

(* The Simple Text Input Ex instance of the keypad is located and reset.   *)
LocateKeypad ==
  /\ init = "locate"
  /\ \/ /\ init' = "registerUp"
        /\ UNCHANGED <<gBsp, registered, published, buttonState>>
     \/ InitFails
  /\ UNCHANGED <<policy, presses, upSeen, latest>>

RegisterUp ==
  /\ init = "registerUp"
  /\ \/ /\ init' = "registerDown"
        /\ registered' = registered \cup {"VolUp"}
        /\ UNCHANGED <<gBsp, published, buttonState>>
     \/ InitFails
  /\ UNCHANGED <<policy, presses, upSeen, latest>>

RegisterDown ==
  /\ init = "registerDown"
  /\ \/ /\ init' = "install"
        /\ registered' = registered \cup {"VolDown"}
        /\ UNCHANGED <<gBsp, published, buttonState>>
     \/ InitFails
  /\ UNCHANGED <<policy, presses, upSeen, latest>>

(* Mutant of InstallButtonServices: published whatever the outcome. *)
InstallUnchecked ==
  /\ init = "install"
  /\ published' = TRUE
  /\ \/ init' = "ok" /\ UNCHANGED <<gBsp, registered, buttonState>>
     \/ init' = "failed" /\ gBsp' = "freed" /\ UNCHANGED <<registered, buttonState>>
  /\ UNCHANGED <<policy, presses, upSeen, latest>>

InstallButtonServices ==
  /\ init = "install"
  /\ \/ /\ init' = "ok"
        /\ published' = TRUE
        /\ UNCHANGED <<gBsp, registered, buttonState>>
     \/ InitFails
  /\ UNCHANGED <<policy, presses, upSeen, latest>>

(* Mutant of KeyNotify: volume down is taken for no button. *)
KeyNotifyUpOnly(b) ==
  /\ b \in registered /\ presses < MaxPress
  /\ buttonState' = IF gBsp # "null" /\ b = "VolUp" THEN b ELSE buttonState
  /\ presses' = presses + 1
  /\ upSeen' = IF b = "VolUp" THEN upSeen + 1 ELSE upSeen
  /\ latest' = b
  /\ UNCHANGED <<bsp, policy>>

(* KeyNotify tests gBsp for NULL and then writes to it.                    *)
KeyNotify(b) ==
  /\ b \in registered /\ presses < MaxPress
  /\ buttonState' = IF gBsp # "null" THEN b ELSE buttonState
  /\ presses' = presses + 1
  /\ upSeen' = IF b = "VolUp" THEN upSeen + 1 ELSE upSeen
  /\ latest' = b
  /\ UNCHANGED <<bsp, policy>>

-----------------------------------------------------------------------------
(* DeviceBootManagerPriorityBoot.  BDS starts after the drivers.           *)

(* Without the button services no button is pressed. *)
Pressed(b) == published /\ buttonState = b

EnterPriorityBoot ==
  /\ pc = "out" /\ init \in {"ok", "failed"} /\ calls < MaxCalls
  /\ pc' = "readUp"
  /\ calls' = calls + 1
  /\ UNCHANGED <<bsp, frontPage, shell, choice, frontCalls, buttonState,
                 presses, upSeen, latest>>

(* MsBootPolicyLibIsSettingsBoot *)
IsSettingsBoot ==
  /\ pc = "readUp"
  /\ frontPage' = Pressed("VolUp")
  /\ frontCalls' = IF Pressed("VolUp") THEN frontCalls + 1 ELSE frontCalls
  /\ pc' = "readDown"
  /\ UNCHANGED <<bsp, shell, choice, calls, buttonState, presses, upSeen,
                 latest>>

(* MsBootPolicyLibUEFIShell *)
IsUEFIShell ==
  /\ pc = "readDown"
  /\ shell' = Pressed("VolDown")
  /\ pc' = "clear"
  /\ UNCHANGED <<bsp, frontPage, choice, frontCalls, calls, buttonState,
                 presses, upSeen, latest>>

(* Mutant of ClearBootRequests: the request is kept. *)
ClearBootRequestsNever ==
  /\ pc = "clear"
  /\ latest' = "NoButtons"
  /\ pc' = "decide"
  /\ UNCHANGED <<bsp, frontPage, shell, choice, frontCalls, calls, buttonState,
                 presses, upSeen>>

(* MsBootPolicyLibClearBootRequests *)
ClearBootRequests ==
  /\ pc = "clear"
  /\ buttonState' = IF published THEN "NoButtons" ELSE buttonState
  /\ latest' = "NoButtons"
  /\ pc' = "decide"
  /\ UNCHANGED <<bsp, frontPage, shell, choice, frontCalls, calls, presses,
                 upSeen>>

(* UEFIShell is set to TRUE before the cases are told apart. *)
UEFIShell == TRUE

DecideBootOption ==
  /\ pc = "decide"
  /\ choice' = CASE UEFIShell /\ frontPage   -> "NetworkUnlock"
                 [] UEFIShell /\ ~frontPage  -> "Shell"
                 [] ~UEFIShell /\ frontPage  -> "FrontPage"
                 [] ~UEFIShell /\ ~frontPage -> "NotFound"
  /\ pc' = "out"
  /\ UNCHANGED <<bsp, frontPage, shell, frontCalls, calls, buttonState,
                 presses, upSeen, latest>>

-----------------------------------------------------------------------------

Init ==
  /\ init = "alloc" /\ gBsp = "null" /\ buttonState = "NoButtons"
  /\ registered = {} /\ published = FALSE
  /\ pc = "out" /\ frontPage = FALSE /\ shell = FALSE /\ choice = "none"
  /\ presses = 0 /\ upSeen = 0 /\ frontCalls = 0 /\ calls = 0
  /\ latest = "NoButtons"

Next ==
  \/ ButtonsAllocate
  \/ LocateKeypad
  \/ RegisterUp
  \/ RegisterDown
  \/ InstallButtonServices
  \/ \E b \in Button : KeyNotify(b)
  \/ EnterPriorityBoot
  \/ IsSettingsBoot
  \/ IsUEFIShell
  \/ ClearBootRequests
  \/ DecideBootOption

Spec == Init /\ [][Next]_vars

-----------------------------------------------------------------------------

(***************************************************************************)
(* One press of volume up asks for the settings at most once: over any     *)
(* number of calls, each call that found the request used up a press of    *)
(* its own, though presses fall between the reads and the clear.           *)
(***************************************************************************)
OnePressOneRequest == frontCalls <= upSeen

(***************************************************************************)
(* A press after the clear is kept for the next call, whichever button it  *)
(* was and wherever the call was: the published state is that of the last  *)
(* press since the clear, or none.                                         *)
(***************************************************************************)
LatestPressKept == published => buttonState = latest

(***************************************************************************)
(* The published services never lead to freed memory: no failure of the    *)
(* initialisation leaves the protocol installed on a freed block.          *)
(***************************************************************************)
PublishedIsLive ==
  published => gBsp = "live" /\ registered = Button
=============================================================================
