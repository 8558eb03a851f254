------------------------- MODULE BootDecisionProofs -------------------------
(***************************************************************************)
(* The decision to boot.  The pre-boot checks, for every number of         *)
(* retries: the verdict rests on the last readings.  The volume buttons    *)
(* around them, for every number of presses and of calls of                *)
(* DeviceBootManagerPriorityBoot: a press asks once, the last one counts.  *)
(***************************************************************************)
EXTENDS BootDecision, TLAPS

(***************************************************************************)
(* What the flags mean.  No flag of an earlier round survives: PowerGood   *)
(* and ThermalGood always tell about the last reading, and a mitigation    *)
(* was only tried after a bad one.                                         *)
(***************************************************************************)
FlagsFollowReadings ==
    /\ powerGood <=> power # "bad"
    /\ thermalGood <=> thermal # "bad"
    /\ pc = "mitigate" \/ mitigation # "none" => power = "bad"

VerdictFollowsFlags ==
    /\ pc = "boot" => powerGood /\ thermalGood
    /\ pc = "overTemp" => ~thermalGood
    /\ pc = "lowBattery" => ~powerGood

(***************************************************************************)
(* How far the loop has come: each round but the last spends one retry.    *)
(***************************************************************************)
RoundsFollowRetries ==
    /\ pc \in {"create", "power"} => rounds + retryCount = Retries /\ retryCount >= 0
    /\ pc \in {"mitigate", "thermal", "cool", "while"} =>
          rounds + retryCount = Retries + 1 /\ retryCount >= 0

ChecksInv == TypeOK /\ FlagsFollowReadings /\ VerdictFollowsFlags /\ RoundsFollowRetries

LEMMA ChecksInvInit == Init => ChecksInv
<1> SUFFICES ASSUME Init PROVE ChecksInv
  OBVIOUS
<1> USE DEF Init
<1>1. TypeOK
  BY RetriesAssumption DEF TypeOK, Answers, Verdicts
<1>2. FlagsFollowReadings
  BY DEF FlagsFollowReadings
<1>3. VerdictFollowsFlags
  BY DEF VerdictFollowsFlags
<1>4. RoundsFollowRetries
  BY RetriesAssumption DEF RoundsFollowRetries
<1> QED
  BY <1>1, <1>2, <1>3, <1>4 DEF ChecksInv

LEMMA FlagsNext == TypeOK /\ FlagsFollowReadings /\ Next => FlagsFollowReadings'
<1> SUFFICES ASSUME TypeOK, FlagsFollowReadings, Next PROVE FlagsFollowReadings'
  OBVIOUS
<1> USE DEF FlagsFollowReadings
<1>1. CASE CreateTimer
  BY <1>1 DEF CreateTimer
<1>2. CASE PowerCheck
  BY <1>2 DEF PowerCheck, PowerGoodAfter
<1>3. CASE Mitigate
  BY <1>3 DEF Mitigate
<1>4. CASE ThermalCheck
  BY <1>4 DEF ThermalCheck
<1>5. CASE WaitForCooling
  BY <1>5 DEF WaitForCooling
<1>6. CASE WhileTest
  BY <1>6 DEF WhileTest
<1>7. CASE CleanUp
  BY <1>7 DEF CleanUp, Verdicts
<1> QED
  BY <1>1, <1>2, <1>3, <1>4, <1>5, <1>6, <1>7 DEF Next

LEMMA VerdictNext ==
  VerdictFollowsFlags /\ Next => VerdictFollowsFlags'
BY DEF Next, VerdictFollowsFlags, CreateTimer, PowerCheck, Mitigate, ThermalCheck,
       WaitForCooling, WhileTest, CleanUp

LEMMA RoundsNext == TypeOK /\ RoundsFollowRetries /\ Next => RoundsFollowRetries'
<1> SUFFICES ASSUME TypeOK, RoundsFollowRetries, Next PROVE RoundsFollowRetries'
  OBVIOUS
<1> USE RetriesAssumption DEF TypeOK, RoundsFollowRetries
<1>1. CASE CreateTimer
  BY <1>1 DEF CreateTimer
<1>2. CASE PowerCheck
  BY <1>2 DEF PowerCheck
<1>3. CASE Mitigate
  BY <1>3 DEF Mitigate
<1>4. CASE ThermalCheck
  BY <1>4 DEF ThermalCheck
<1>5. CASE WaitForCooling
  BY <1>5 DEF WaitForCooling
<1>6. CASE WhileTest
  BY <1>6 DEF WhileTest
<1>7. CASE CleanUp
  BY <1>7 DEF CleanUp
<1> QED
  BY <1>1, <1>2, <1>3, <1>4, <1>5, <1>6, <1>7 DEF Next

LEMMA TypeOKNext == TypeOK /\ RoundsFollowRetries /\ Next => TypeOK'
<1> SUFFICES ASSUME TypeOK, RoundsFollowRetries, Next PROVE TypeOK'
  OBVIOUS
<1> USE RetriesAssumption DEF TypeOK, RoundsFollowRetries, Answers, Verdicts
<1>1. CASE CreateTimer
  BY <1>1 DEF CreateTimer
<1>2. CASE PowerCheck
  BY <1>2 DEF PowerCheck, PowerGoodAfter
<1>3. CASE Mitigate
  BY <1>3 DEF Mitigate
<1>4. CASE ThermalCheck
  BY <1>4 DEF ThermalCheck
<1>5. CASE WaitForCooling
  BY <1>5 DEF WaitForCooling
<1>6. CASE WhileTest
  BY <1>6 DEF WhileTest
<1>7. CASE CleanUp
  BY <1>7 DEF CleanUp
<1> QED
  BY <1>1, <1>2, <1>3, <1>4, <1>5, <1>6, <1>7 DEF Next

LEMMA ChecksInvNext == ChecksInv /\ [Next]_vars => ChecksInv'
<1>1. CASE Next
  BY <1>1, FlagsNext, VerdictNext, RoundsNext, TypeOKNext DEF ChecksInv
<1>2. CASE UNCHANGED vars
  BY <1>2
     DEF vars, ChecksInv, TypeOK, FlagsFollowReadings, VerdictFollowsFlags,
         RoundsFollowRetries
<1> QED
  BY <1>1, <1>2

(***************************************************************************)
(* The buttons and PriorityBoot never disturb the checks: a behaviour of   *)
(* the composition is one of the checks alone.                             *)
(***************************************************************************)
LEMMA DecisionStep == [DecisionNext]_decisionVars => [Next]_vars
BY DEF DecisionNext, decisionVars, ButtonsInit, Press, AfterConsole, Priority

THEOREM ChecksInvariant == DecisionSpec => []ChecksInv
<1>1. DecisionInit => ChecksInv
  BY ChecksInvInit DEF DecisionInit
<1>2. ChecksInv /\ [DecisionNext]_decisionVars => ChecksInv'
  BY ChecksInvNext, DecisionStep
<1> QED
  BY <1>1, <1>2, PTL DEF DecisionSpec

(***************************************************************************)
(* The machine boots only on readings that are not bad, and after no       *)
(* failed mitigation, whatever the number of retries.                      *)
(***************************************************************************)
THEOREM BootsOnGoodReadings == DecisionSpec => []NeverBootsOnBadReading
<1>1. ChecksInv => NeverBootsOnBadReading
  BY DEF ChecksInv, FlagsFollowReadings, VerdictFollowsFlags, NeverBootsOnBadReading
<1> QED
  BY <1>1, ChecksInvariant, PTL

(***************************************************************************)
(* The machine is shut down only for a bad reading, the last one of that   *)
(* sensor, whatever the number of retries.                                 *)
(***************************************************************************)
THEOREM ShutsDownOnBadReading == DecisionSpec => []ShutdownIsJustified
<1>1. ChecksInv => ShutdownIsJustified
  BY DEF ChecksInv, TypeOK, FlagsFollowReadings, VerdictFollowsFlags, ShutdownIsJustified
<1> QED
  BY <1>1, ChecksInvariant, PTL

(***************************************************************************)
(* Why the checks come to a verdict: a round takes five steps at most and  *)
(* spends a retry, whether or not the two sensors take turns in being bad. *)
(***************************************************************************)
StepsToVerdict ==
    CASE pc = "create"   -> 6 * retryCount + 7
      [] pc = "power"    -> 6 * retryCount + 6
      [] pc = "mitigate" -> 6 * retryCount + 5
      [] pc = "thermal"  -> 6 * retryCount + 4
      [] pc = "cool"     -> 6 * retryCount + 3
      [] pc = "while"    -> 6 * retryCount + 2
      [] pc = "cleanup"  -> 1
      [] OTHER           -> 0

VerdictInReach ==
    /\ StepsToVerdict \in 0 .. 6 * Retries + 7
    /\ StepsToVerdict = 0 => pc \in Verdicts

LEMMA ChecksReachVerdict == ChecksInv => VerdictInReach
<1> SUFFICES ASSUME ChecksInv PROVE VerdictInReach
  OBVIOUS
<1>1. Retries \in Nat /\ retryCount \in -1 .. Retries
  BY RetriesAssumption DEF ChecksInv, TypeOK
<1>2. pc \notin {"cleanup"} \cup Verdicts => retryCount \in 0 .. Retries
  BY <1>1 DEF ChecksInv, TypeOK, RoundsFollowRetries
<1>3. StepsToVerdict \in 0 .. 6 * Retries + 7
  BY <1>1, <1>2 DEF StepsToVerdict, Verdicts
<1>4. StepsToVerdict = 0 => pc \in Verdicts
  BY <1>1, <1>2 DEF StepsToVerdict, Verdicts, ChecksInv, TypeOK
<1> QED BY <1>3, <1>4 DEF VerdictInReach

LEMMA ChecksComeCloser ==
  ASSUME ChecksInv, Next
  PROVE  StepsToVerdict' < StepsToVerdict
<1>1. retryCount \in Int
  BY RetriesAssumption DEF ChecksInv, TypeOK
<1>2. pc \in {"create", "power", "mitigate", "thermal", "cool", "while"} => retryCount >= 0
  BY DEF ChecksInv, RoundsFollowRetries
<1> USE DEF StepsToVerdict
<1>3. CASE CreateTimer
  BY <1>1, <1>2, <1>3 DEF CreateTimer
<1>4. CASE PowerCheck
  BY <1>1, <1>2, <1>4 DEF PowerCheck
<1>5. CASE Mitigate
  BY <1>1, <1>2, <1>5 DEF Mitigate
<1>6. CASE ThermalCheck
  BY <1>1, <1>2, <1>6 DEF ThermalCheck
<1>7. CASE WaitForCooling
  BY <1>1, <1>2, <1>7 DEF WaitForCooling
<1>8. CASE WhileTest
  BY <1>1, <1>2, <1>8 DEF WhileTest
<1>9. CASE CleanUp
  BY <1>9 DEF CleanUp
<1> QED BY <1>3, <1>4, <1>5, <1>6, <1>7, <1>8, <1>9 DEF Next

(***************************************************************************)
(* The checks take at most 6 * Retries + 7 steps, whatever the sensors     *)
(* answer and however the mitigation ends: what Terminates needs besides   *)
(* the fairness that TLC checks it under.                                  *)
(***************************************************************************)
THEOREM ChecksRunDown ==
  DecisionSpec => /\ []VerdictInReach
                  /\ [][AfterConsole => StepsToVerdict' < StepsToVerdict]_decisionVars
<1>1. ChecksInv /\ [DecisionNext]_decisionVars
        => [AfterConsole => StepsToVerdict' < StepsToVerdict]_decisionVars
  BY ChecksComeCloser DEF AfterConsole
<1> QED BY <1>1, ChecksReachVerdict, ChecksInvariant, PTL DEF DecisionSpec

-----------------------------------------------------------------------------
(* The buttons.                                                            *)

(***************************************************************************)
(* How far ButtonsInit has come.  The block is live from its allocation to *)
(* the first failure, and only a complete initialisation publishes it.     *)
(***************************************************************************)
InitProgress ==
  /\ registered \subseteq PB!Button
  /\ init = "alloc" => registered = {} /\ gBsp = "null" /\ latest = "NoButtons"
  /\ init \in {"locate", "registerUp", "registerDown", "install"} => gBsp = "live"
  /\ init = "registerDown" => "VolUp" \in registered
  /\ init = "install" => registered = PB!Button
  /\ init = "failed" => gBsp = "freed"
  /\ published => init = "ok" /\ gBsp = "live" /\ registered = PB!Button
  /\ init = "ok" /\ gBsp = "live" => published
  /\ bootPc # "out" => init \in {"ok", "failed"}

(* As long as the block is live it holds the last press. *)
LivePressKept == gBsp = "live" => buttonState = latest

(***************************************************************************)
(* A stored press of volume up that no call has read yet still has a press *)
(* of its own.  Between the first read and the clear it is already spent.  *)
(***************************************************************************)
Unread == gBsp = "live" /\ buttonState = "VolUp" /\ bootPc \notin {"readDown", "clear"}

PressesCoverCalls ==
  /\ upSeen \in Nat /\ frontCalls \in Nat
  /\ frontCalls <= upSeen
  /\ Unread => frontCalls < upSeen

ButtonInv == InitProgress /\ LivePressKept /\ PressesCoverCalls

ButtonStep == [PB!Next]_buttonVars

LEMMA ButtonInvInit == PB!Init => ButtonInv
BY DEF PB!Init, PB!Button, ButtonInv, InitProgress, LivePressKept, PressesCoverCalls, Unread

(* Every failure of ButtonsInit ends it with the block freed. *)
LEMMA InitFailsProgress ==
  ASSUME InitProgress, PB!InitFails, UNCHANGED bootPc,
         init \in {"locate", "registerUp", "registerDown", "install"}
  PROVE  InitProgress'
<1>1. ~published
  BY DEF InitProgress
<1> QED
  BY <1>1 DEF InitProgress, PB!InitFails, PB!Button

LEMMA InitProgressNext == InitProgress /\ PB!Next => InitProgress'
<1> SUFFICES ASSUME InitProgress, PB!Next PROVE InitProgress'
  OBVIOUS
<1> USE DEF InitProgress, PB!Button, PB!bsp, PB!policy
<1>1. CASE PB!ButtonsAllocate
  BY <1>1 DEF PB!ButtonsAllocate
<1>2. CASE PB!LocateKeypad
  <2>1. CASE PB!InitFails
    BY <1>2, <2>1, InitFailsProgress DEF PB!LocateKeypad
  <2>2. CASE ~PB!InitFails
    <3>1. ~published'
      BY <1>2, <2>2 DEF PB!LocateKeypad
    <3> QED
      BY <1>2, <2>2, <3>1 DEF PB!LocateKeypad
  <2> QED
    BY <2>1, <2>2
<1>3. CASE PB!RegisterUp
  <2>1. CASE PB!InitFails
    BY <1>3, <2>1, InitFailsProgress DEF PB!RegisterUp
  <2>2. CASE ~PB!InitFails
    <3>1. ~published'
      BY <1>3, <2>2 DEF PB!RegisterUp
    <3> QED
      BY <1>3, <2>2, <3>1 DEF PB!RegisterUp
  <2> QED
    BY <2>1, <2>2
<1>4. CASE PB!RegisterDown
  <2>1. CASE PB!InitFails
    BY <1>4, <2>1, InitFailsProgress DEF PB!RegisterDown
  <2>2. CASE ~PB!InitFails
    <3>1. ~published'
      BY <1>4, <2>2 DEF PB!RegisterDown
    <3> QED
      BY <1>4, <2>2, <3>1 DEF PB!RegisterDown
  <2> QED
    BY <2>1, <2>2
<1>5. CASE PB!InstallButtonServices
  <2>1. CASE PB!InitFails
    BY <1>5, <2>1, InitFailsProgress DEF PB!InstallButtonServices
  <2>2. CASE ~PB!InitFails
    BY <1>5, <2>2 DEF PB!InstallButtonServices
  <2> QED
    BY <2>1, <2>2
<1>6. ASSUME NEW b \in PB!Button, PB!KeyNotify(b) PROVE InitProgress'
  BY <1>6 DEF PB!KeyNotify
<1>7. CASE PB!EnterPriorityBoot
  BY <1>7 DEF PB!EnterPriorityBoot
<1>8. CASE PB!IsSettingsBoot
  BY <1>8 DEF PB!IsSettingsBoot
<1>9. CASE PB!IsUEFIShell
  BY <1>9 DEF PB!IsUEFIShell
<1>10. CASE PB!ClearBootRequests
  BY <1>10 DEF PB!ClearBootRequests
<1>11. CASE PB!DecideBootOption
  BY <1>11 DEF PB!DecideBootOption
<1> QED
  BY <1>1, <1>2, <1>3, <1>4, <1>5, <1>6, <1>7, <1>8, <1>9, <1>10, <1>11 DEF PB!Next

LEMMA LivePressKeptNext ==
  InitProgress /\ LivePressKept /\ PB!Next => LivePressKept'
<1> SUFFICES ASSUME InitProgress, LivePressKept, PB!Next PROVE LivePressKept'
  OBVIOUS
<1> USE DEF InitProgress, LivePressKept, PB!InitFails, PB!bsp, PB!policy
<1>1. CASE PB!ButtonsAllocate
  BY <1>1 DEF PB!ButtonsAllocate
<1>2. CASE PB!LocateKeypad \/ PB!RegisterUp \/ PB!RegisterDown \/ PB!InstallButtonServices
  BY <1>2 DEF PB!LocateKeypad, PB!RegisterUp, PB!RegisterDown, PB!InstallButtonServices
<1>3. ASSUME NEW b \in PB!Button, PB!KeyNotify(b) PROVE LivePressKept'
  BY <1>3 DEF PB!KeyNotify
<1>4. CASE PB!ClearBootRequests
  BY <1>4 DEF PB!ClearBootRequests
<1>5. CASE PB!EnterPriorityBoot \/ PB!IsSettingsBoot \/ PB!IsUEFIShell \/ PB!DecideBootOption
  BY <1>5 DEF PB!EnterPriorityBoot, PB!IsSettingsBoot, PB!IsUEFIShell, PB!DecideBootOption
<1> QED
  BY <1>1, <1>2, <1>3, <1>4, <1>5 DEF PB!Next

LEMMA PressesCoverCallsNext ==
  InitProgress /\ PressesCoverCalls /\ PB!Next => PressesCoverCalls'
<1> SUFFICES ASSUME InitProgress, PressesCoverCalls, PB!Next PROVE PressesCoverCalls'
  OBVIOUS
<1> USE DEF InitProgress, PressesCoverCalls, Unread, PB!InitFails, PB!bsp, PB!policy
<1>1. CASE PB!ButtonsAllocate
  BY <1>1 DEF PB!ButtonsAllocate
<1>2. CASE PB!LocateKeypad \/ PB!RegisterUp \/ PB!RegisterDown \/ PB!InstallButtonServices
  BY <1>2 DEF PB!LocateKeypad, PB!RegisterUp, PB!RegisterDown, PB!InstallButtonServices
<1>3. ASSUME NEW b \in PB!Button, PB!KeyNotify(b) PROVE PressesCoverCalls'
  BY <1>3 DEF PB!KeyNotify
<1>4. CASE PB!IsSettingsBoot
  BY <1>4 DEF PB!IsSettingsBoot, PB!Pressed
<1>5. CASE PB!ClearBootRequests
  BY <1>5 DEF PB!ClearBootRequests
<1>6. CASE PB!EnterPriorityBoot \/ PB!IsUEFIShell \/ PB!DecideBootOption
  BY <1>6 DEF PB!EnterPriorityBoot, PB!IsUEFIShell, PB!DecideBootOption
<1> QED
  BY <1>1, <1>2, <1>3, <1>4, <1>5, <1>6 DEF PB!Next

LEMMA ButtonInvNext == ButtonInv /\ ButtonStep => ButtonInv'
<1>1. CASE PB!Next
  BY <1>1, InitProgressNext, LivePressKeptNext, PressesCoverCallsNext DEF ButtonInv
<1>2. CASE UNCHANGED buttonVars
  BY <1>2
     DEF buttonVars, ButtonInv, InitProgress, LivePressKept, PressesCoverCalls, Unread
<1> QED
  BY <1>1, <1>2 DEF ButtonStep

(* The checks never touch the buttons. *)
LEMMA DecisionMovesButtons == [DecisionNext]_decisionVars => ButtonStep
BY DEF DecisionNext, decisionVars, ButtonsInit, Press, AfterConsole, Priority, ButtonStep, PB!Next

THEOREM ButtonInvariant == DecisionSpec => []ButtonInv
<1>1. DecisionInit => ButtonInv
  BY ButtonInvInit DEF DecisionInit
<1>2. ButtonInv /\ [DecisionNext]_decisionVars => ButtonInv'
  BY ButtonInvNext, DecisionMovesButtons
<1> QED
  BY <1>1, <1>2, PTL DEF DecisionSpec

(***************************************************************************)
(* One press of volume up asks for the settings at most once, for every    *)
(* number of presses and calls and wherever the presses fall.              *)
(***************************************************************************)
THEOREM SettingsAskedOncePerPress == DecisionSpec => []OnePressOneRequest
<1>1. ButtonInv => OnePressOneRequest
  BY DEF ButtonInv, PressesCoverCalls, OnePressOneRequest, PB!OnePressOneRequest
<1> QED
  BY <1>1, ButtonInvariant, PTL

(***************************************************************************)
(* What is published is the last press since the last clear.               *)
(***************************************************************************)
THEOREM LastPressPublished == DecisionSpec => []LatestPressKept
<1>1. ButtonInv => LatestPressKept
  BY DEF ButtonInv, InitProgress, LivePressKept, LatestPressKept, PB!LatestPressKept
<1> QED
  BY <1>1, ButtonInvariant, PTL

(***************************************************************************)
(* The button services are published only on a live block with both key    *)
(* notifications, whichever step of ButtonsInit failed.                    *)
(***************************************************************************)
THEOREM ServicesPublishedLive == DecisionSpec => []PublishedIsLive
<1>1. ButtonInv => PublishedIsLive
  BY DEF ButtonInv, InitProgress, PublishedIsLive, PB!PublishedIsLive
<1> QED
  BY <1>1, ButtonInvariant, PTL
=============================================================================
