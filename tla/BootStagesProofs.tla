-------------------------- MODULE BootStagesProofs --------------------------
(***************************************************************************)
(* The store of early error records implements its abstract log, for every *)
(* capacity below 256 bytes, all sizes of header and record and every set  *)
(* of records; and the front page, the store and the policy file in any    *)
(* number of boots, for every set of boot options and every limit of the   *)
(* password prompt.                                                        *)
(***************************************************************************)
EXTENDS BootStages, TLAPS

LEMMA Sizes == MaxDataCount \in Nat /\ EntrySize \in Nat /\ EntrySize >= 1
BY SizeAssumption DEF SizeAssumption, MaxDataCount, MaxSize, StorageOffset, UINT8

(* A record fits exactly when the store has a slot for it. *)
LEMMA FitsSlot ==
  ASSUME NEW n \in Int, Fits(n)
  PROVE  n >= 0 /\ n + 1 \in Slots
<1>1. PICK e \in Nat : e = EntrySize /\ e >= 1
  BY Sizes
<1>2. n \in Nat /\ (n + 1) * e <= MaxDataCount
  BY <1>1 DEF Fits
<1>3. n + 1 <= (n + 1) * e
  BY <1>1, <1>2
<1> QED BY <1>1, <1>2, <1>3, Sizes DEF Slots

(* The slots are numbered from 1, without a gap. *)
LEMMA SlotsBelow ==
  ASSUME NEW n \in Slots, NEW i \in 1 .. n
  PROVE  i \in Slots
<1>1. PICK e \in Nat : e = EntrySize /\ e >= 1
  BY Sizes
<1>2. n \in Nat /\ n * e <= MaxDataCount /\ n <= MaxDataCount
  BY <1>1, Sizes DEF Slots
<1>3. i * e <= n * e
  BY <1>1, <1>2
<1> QED BY <1>1, <1>2, <1>3, Sizes DEF Slots

LEMMA SlotsInt == Slots \subseteq Nat \ {0}
BY Sizes DEF Slots

LEMMA InvInit == Init => StoreInv
BY BlankAssumption DEF Init, Cold, StoreInv, StoreTypeOK, Underway, HeaderUnderway,
   SuccessIsReadable, Told

LEMMA InvNext == StoreInv /\ [Next]_vars => StoreInv'
<1> SUFFICES ASSUME StoreInv, [Next]_vars PROVE StoreInv'
  OBVIOUS
<1> USE DEF StoreInv, StoreTypeOK, Underway, HeaderUnderway, SuccessIsReadable, Told, memory
<1>1. CASE AddRecord
  BY <1>1, FitsSlot, SlotsInt DEF AddRecord, Valid, SumOf, Used
<1>2. CASE WriteEntry
  BY <1>2, SlotsInt DEF WriteEntry
<1>3. CASE EntryWritten
  BY <1>3, SlotsInt DEF EntryWritten
<1>4. CASE PrepareHeader
  <2>1. /\ pc = "sum" /\ status = "none" /\ rec \in Record
        /\ active' = active /\ slot' = slot /\ rec' = rec /\ header' = active + 1
        /\ active \in Int /\ active + 1 \in Slots /\ slot[active + 1] = rec
    BY <1>4, SlotsInt DEF PrepareHeader
  <2>2. CASE pc' = "idle" /\ status' = "badBufferSize" /\ toWrite' = toWrite
    BY <2>1, <2>2
  <2>3. CASE pc' = "header" /\ status' = status /\ toWrite' = {"range", "sum"}
    BY <2>1, <2>3
  <2> QED BY <1>4, <2>2, <2>3 DEF PrepareHeader
<1>5. CASE WriteHeader
  BY <1>5, SlotsInt DEF WriteHeader, HeaderByte, SumOf, Used, Valid
<1>6. CASE ReportAndInitialise
  BY <1>6, SlotsInt DEF ReportAndInitialise
<1>7. CASE PowerCut
  BY <1>7, BlankAssumption DEF PowerCut
<1>8. CASE UNCHANGED vars
  BY <1>8 DEF vars, locals, Valid, SumOf, Used
<1> QED BY <1>1, <1>2, <1>3, <1>4, <1>5, <1>6, <1>7, <1>8 DEF Next, AddRecordStep

THEOREM StoreIsConsistent == Spec => []StoreInv
BY InvInit, InvNext, PTL DEF Spec

-----------------------------------------------------------------------------
(***************************************************************************)
(* Each step of the store is a step of the log, or stutters.               *)
(***************************************************************************)
LEMMA InitIsLogInit == Init => Log!Init
BY SlotsInt DEF Init, Cold, Log!Init, Used, Told, Valid, SumOf

(* Writing a slot behind the used part leaves the records of the log. *)
LEMMA UsedUnchanged ==
  ASSUME StoreInv, active' = active, active + 1 \in Slots,
         NEW r, slot' = [slot EXCEPT ![active + 1] = r]
  PROVE  Used(active)' = Used(active)
BY SlotsInt, SlotsBelow DEF StoreInv, StoreTypeOK, Used

(* When ActiveRange is written the record becomes the last of the log. *)
LEMMA UsedGrows ==
  ASSUME StoreInv, slot' = slot, header \in Slots, slot[header] = rec,
         rec \in Record, active = header - 1, active' = header
  PROVE  Used(active)' = Append(Used(active), rec)
<1>1. header \in Nat \ {0} /\ slot \in [Slots -> Record \cup {Blank}]
  BY SlotsInt DEF StoreInv, StoreTypeOK
<1>2. \A i \in 1 .. header : slot[i] \in Record \cup {Blank}
  BY <1>1, SlotsBelow
<1>3. Used(active) \in Seq(Record \cup {Blank}) /\ Len(Used(active)) = header - 1
  BY <1>1, <1>2 DEF Used
<1>4. Used(active)' = [i \in 1 .. header |-> slot[i]]
  BY DEF Used
<1> QED BY <1>1, <1>2, <1>3, <1>4 DEF Used

(* A call that has told nobody yet may tell of a log that can be read. *)
LEMMA CallReports ==
  ASSUME ~Told, Told' => Valid'
  PROVE  Log!Report
<1>1. Told = FALSE
  <2>1. Told \in BOOLEAN
    BY DEF Told
  <2> QED BY <2>1
<1>2. Valid' \in BOOLEAN
  BY DEF Valid
<1>3. Told' \in {FALSE, Valid'}
  <2>1. Told' \in BOOLEAN
    BY DEF Told
  <2>2. CASE Told'
    BY <2>1, <2>2, <1>2
  <2>3. CASE ~Told'
    BY <2>1, <2>3
  <2> QED BY <2>2, <2>3
<1> QED BY <1>1, <1>2, <1>3 DEF Log!Report

LEMMA StepIsLogStep ==
  ASSUME StoreInv, StoreInv', [Next]_vars
  PROVE  [Log!Next]_Log!vars
<1> USE DEF StoreInv, Log!Next, Log!vars
<1>0. Valid \in BOOLEAN /\ Valid' \in BOOLEAN /\ (Told' => Valid')
  BY DEF Valid, SuccessIsReadable
<1>1. CASE AddRecord
  <2>1. Used(active)' = Used(active) /\ (Valid' <=> Valid)
    BY <1>1 DEF AddRecord, memory, Used, Valid, SumOf
  <2>2. ~Told'
    BY <1>1 DEF AddRecord, Told
  <2> QED BY <1>0, <2>1, <2>2 DEF Log!Forget
<1>2. CASE WriteEntry
  <2>1. ~Told /\ ~Told'
    BY <1>2 DEF WriteEntry, Underway, Told
  <2>2. Used(active)' = Used(active)
    BY <1>2, UsedUnchanged DEF WriteEntry, Underway, Used
  <2> QED BY <1>0, <2>1, <2>2, CallReports DEF Log!Touch
<1>3. CASE EntryWritten
  <2>1. ~Told /\ ~Told'
    BY <1>3 DEF EntryWritten, Underway, Told
  <2>2. Used(active)' = Used(active)
    BY <1>3, UsedUnchanged DEF EntryWritten, Underway
  <2> QED BY <1>0, <2>1, <2>2, CallReports DEF Log!Touch
<1>4. CASE PrepareHeader
  <2>1. ~Told /\ ~Told'
    BY <1>4 DEF PrepareHeader, Underway, Told
  <2>2. Used(active)' = Used(active)
    BY <1>4 DEF PrepareHeader, memory, Used
  <2> QED BY <1>0, <2>1, <2>2, CallReports DEF Log!Touch
<1>5. CASE WriteHeader
  <2>1. ~Told /\ (Told' \in BOOLEAN)
    BY <1>5 DEF WriteHeader, Underway, Told
  <2>2. Log!Report
    BY <1>0, <2>1, CallReports
  <2>3. CASE active' = active
    <3>1. Used(active)' = Used(active)
      BY <1>5, <2>3 DEF WriteHeader, Used
    <3> QED BY <2>2, <3>1 DEF Log!Touch
  <2>4. CASE active' # active
    <3>1. Used(active)' = Append(Used(active), rec) /\ rec \in Record
      BY <1>5, <2>4, UsedGrows DEF WriteHeader, HeaderByte, Underway, HeaderUnderway
    <3> QED BY <2>2, <3>1 DEF Log!Add
  <2> QED BY <2>3, <2>4
<1>6. CASE ReportAndInitialise
  <2>1. Used(active)' = <<>> /\ Valid' /\ ~Told'
    BY <1>6 DEF ReportAndInitialise, Used, Valid, SumOf, Told
  <2>2. Valid' = TRUE
    <3>1. Valid' \in BOOLEAN
      BY DEF Valid
    <3> QED BY <2>1, <3>1
  <2>3. Told' = FALSE
    <3>1. Told' \in BOOLEAN
      BY DEF Told
    <3> QED BY <2>1, <3>1
  <2> QED BY <2>1, <2>2, <2>3 DEF Log!Empty
<1>7. CASE PowerCut
  <2>1. Used(active)' = Used(active) /\ (Valid' <=> Valid)
    BY <1>7 DEF PowerCut, memory, Used, Valid, SumOf
  <2>2. ~Told'
    BY <1>7 DEF PowerCut, Told
  <2> QED BY <1>0, <2>1, <2>2 DEF Log!Forget
<1>8. CASE UNCHANGED vars
  BY <1>8 DEF vars, memory, locals, Used, Valid, SumOf, Told
<1> QED BY <1>1, <1>2, <1>3, <1>4, <1>5, <1>6, <1>7, <1>8 DEF Next, AddRecordStep

THEOREM StoreImplementsLog == Spec => ImplementsRecordLog
BY InitIsLogInit, StoreIsConsistent, StepIsLogStep, PTL DEF Spec, ImplementsRecordLog, Log!Spec
-----------------------------------------------------------------------------
(* From here on, the stages of a boot.                                     *)

PageStep == [Page!Next]_pageVars

(* What the stages of a boot do to the page and to the store is a step of  *)
(* each, or none.                                                          *)
LEMMA StagesStep == [StagesNext]_stagesVars => PageStep /\ [Next]_vars
<1> SUFFICES ASSUME [StagesNext]_stagesVars PROVE PageStep /\ [Next]_vars
  OBVIOUS
<1> USE DEF PageStep, Next
<1>1. CASE Pei \/ EndOfPei
  BY <1>1 DEF Pei, EndOfPei
<1>2. CASE Report \/ StartDriver \/ EndOfDxe
  BY <1>2 DEF Report, StartDriver, EndOfDxe
<1>3. CASE FileSystem
  BY <1>3 DEF FileSystem
<1>4. CASE Bds
  BY <1>4 DEF Bds, Page!Next
<1>5. CASE OperatingSystem
  BY <1>5 DEF OperatingSystem, Page!Next
<1>6. CASE Restart
  BY <1>6 DEF Restart, Page!Next
<1>7. CASE UNCHANGED stagesVars
  BY <1>7 DEF stagesVars
<1> QED BY <1>1, <1>2, <1>3, <1>4, <1>5, <1>6, <1>7 DEF StagesNext

------------------------------------------------------------------------------
(***************************************************************************)
(* Where the page is when something is still owed.  A policy that is off   *)
(* is followed by a reset, since mResetRequired stays set until the loop   *)
(* is left; a reboot to the page that was granted is in OsIndications and  *)
(* followed by a reset.                                                    *)
(***************************************************************************)
Looping == {"call", "form", "loop"}

PolicyOff  == ~enforced => resetRequired /\ pagePc \in Looping \cup {"reset"}
PageAsked  == asked => /\ osIndications
                       /\ \/ pagePc \in {"power", "reset"}
                          \/ pagePc \in Looping /\ resetRequired
Authorised == /\ left \in Nat
              /\ pagePc \in {"entry", "connect", "menu"} => left = MaxAttempts
              /\ pagePc = "challenge" /\ MaxAttempts # 0 => left # 0
              /\ token = "valid" \/ fullMenu => proved

FlowInv == Page!FlagsOK /\ PolicyOff /\ PageAsked /\ Authorised /\ ChoiceIsBootedOnce

LEMMA FlowInit == Page!Init => FlowInv
BY AttemptsAssumption
   DEF Page!Init, Page!FreshPage, FlowInv, Page!FlagsOK, PolicyOff, PageAsked, Authorised,
       ChoiceIsBootedOnce, Page!ChoiceIsBootedOnce, Looping

\* What GetAuthToken leaves: a valid token is always one of a user who proved it.
LEMMA TokenIsProved ==
    ASSUME FlowInv, NEW right, NEW result, Page!GetAuthToken(right, result)
    PROVE  proved' \in BOOLEAN /\ (proved => proved') /\ (token' = "valid" => proved')
<1>1. proved \in BOOLEAN /\ (token = "valid" => proved)
  BY DEF FlowInv, Page!FlagsOK, Authorised
<1>2. CASE token' \in {token, "invalid"} /\ proved' = proved
  BY <1>1, <1>2
<1>3. CASE proved' = TRUE
  BY <1>3
<1> QED BY <1>2, <1>3, Zenon DEF Page!GetAuthToken

LEMMA FlowNext == FlowInv /\ PageStep => FlowInv'
<1> SUFFICES ASSUME FlowInv, PageStep PROVE FlowInv'
  OBVIOUS
<1> USE AttemptsAssumption
    DEF FlowInv, Page!FlagsOK, PolicyOff, PageAsked, Authorised, ChoiceIsBootedOnce,
        Page!ChoiceIsBootedOnce, Looping, Page!nonVolatile, Page!boot, Page!auth,
        Page!menu, Page!form, Page!history, Page!GoTo
<1>1. CASE Page!StartPage
  BY <1>1 DEF Page!StartPage, Page!PageRestart
<1>2. CASE Page!SkipPage
  BY <1>2 DEF Page!SkipPage
<1>3. CASE Page!BdsBoot
  BY <1>3 DEF Page!BdsBoot
<1>4. CASE Page!UefiMain
  BY <1>4 DEF Page!UefiMain, Page!DeleteBootNext
<1>5. CASE Page!NoDisplay
  BY <1>5 DEF Page!NoDisplay
<1>6. CASE Page!InitializeFrontPage
  BY <1>6 DEF Page!InitializeFrontPage
<1>7. CASE Page!AuthenticateWithoutPassword
  <2>1. PICK result \in {"success", "error"} : Page!GetAuthToken(~password, result)
    BY <1>7 DEF Page!AuthenticateWithoutPassword
  <2>2. proved' \in BOOLEAN /\ (token' = "valid" => proved')
    BY <2>1, TokenIsProved
  <2>3. fullMenu => proved'
    BY <2>1, TokenIsProved
  <2>4. /\ pagePc = "menu" /\ pagePc' \in {"list", "challenge"} /\ left' = left
        /\ fullMenu' = fullMenu \/ fullMenu' = (token' = "valid")
        /\ UNCHANGED <<bootNext, osIndications, password, enforced, readyToBoot, locks,
                       published, terminate, resetRequired, due, asked>>
    BY <1>7, Zenon DEF Page!AuthenticateWithoutPassword
  <2>5. fullMenu' \in BOOLEAN /\ (fullMenu' => proved')
    <3>1. CASE fullMenu' = fullMenu
      BY <2>3, <3>1
    <3>2. CASE fullMenu' = (token' = "valid")
      BY <2>2, <3>2, Zenon
    <3> QED BY <2>4, <3>1, <3>2
  <2> QED BY <2>2, <2>4, <2>5
<1>8. CASE Page!ChallengeUserPassword
  <2>1. /\ pagePc = "challenge" /\ pagePc' \in {"list", "challenge"}
        /\ UNCHANGED <<bootNext, osIndications, password, enforced, readyToBoot, locks,
                       published, terminate, resetRequired, due, asked>>
    BY <1>8, Zenon DEF Page!ChallengeUserPassword
  <2>2. left' \in Nat /\ (pagePc' = "challenge" /\ MaxAttempts # 0 => left' # 0)
    BY <1>8 DEF Page!ChallengeUserPassword
  <2>3. /\ proved' \in BOOLEAN /\ fullMenu' \in BOOLEAN
        /\ token' = "valid" \/ fullMenu' => proved'
    <3>1. CASE UNCHANGED <<token, proved, fullMenu>>
      BY <3>1
    <3>2. CASE \E right \in BOOLEAN : Page!GetAuthToken(right, "success")
                                     /\ fullMenu' = (token' = "valid")
      <4>1. token' = "valid" => proved'
        BY <3>2, TokenIsProved
      <4>2. proved' \in BOOLEAN
        BY <3>2, TokenIsProved
      <4> QED BY <3>2, <4>1, <4>2, Zenon
    <3>3. CASE \E right \in BOOLEAN : Page!GetAuthToken(right, "error")
                                     /\ fullMenu' = fullMenu
      BY <3>3, TokenIsProved
    <3> QED BY <1>8, <3>1, <3>2, <3>3, Zenon DEF Page!ChallengeUserPassword
  <2> QED BY <2>1, <2>2, <2>3
<1>9. CASE Page!CreateTopMenu
  BY <1>9 DEF Page!CreateTopMenu
<1>10. CASE Page!CallFrontPage
  BY <1>10 DEF Page!CallFrontPage
<1>11. CASE Page!ExtractConfig
  BY <1>11 DEF Page!ExtractConfig
<1>12. CASE Page!SetSystemPassword
  BY <1>12 DEF Page!SetSystemPassword, Page!InForm
<1>13. CASE Page!HandleSecureBootChange
  BY <1>13 DEF Page!HandleSecureBootChange, Page!InForm
<1>14. CASE Page!HandleRebootToFrontPage
  BY <1>14 DEF Page!HandleRebootToFrontPage, Page!InForm
<1>15. CASE Page!ExitFrontPage
  BY <1>15 DEF Page!ExitFrontPage, Page!InForm
<1>16. CASE Page!ChooseBootOption
  BY <1>16 DEF Page!ChooseBootOption, Page!InForm
<1>17. CASE Page!MasterFrameNotifyCallback
  BY <1>17 DEF Page!MasterFrameNotifyCallback
<1>18. CASE Page!SendFormReturns
  BY <1>18 DEF Page!SendFormReturns
<1>19. CASE Page!LeaveLoop
  BY <1>19 DEF Page!LeaveLoop
<1>20. CASE Page!ProcessBootNext
  BY <1>20 DEF Page!ProcessBootNext, Page!DeleteBootNext
<1>21. CASE Page!RebootAfterBootNext
  <2>1. CASE osIndications' = TRUE /\ asked' = TRUE
    BY <1>21, <2>1 DEF Page!RebootAfterBootNext
  <2>2. CASE UNCHANGED <<osIndications, asked>>
    BY <1>21, <2>2 DEF Page!RebootAfterBootNext
  <2> QED BY <1>21, <2>1, <2>2, Zenon DEF Page!RebootAfterBootNext
<1>22. CASE Page!UninitializeFrontPage
  BY <1>22 DEF Page!UninitializeFrontPage
<1>23. CASE Page!OsRuns
  BY <1>23 DEF Page!OsRuns
<1>24. CASE Page!PowerCut
  BY <1>24 DEF Page!PowerCut, Page!PageRestart
<1>25. CASE UNCHANGED pageVars
  BY <1>25 DEF pageVars
<1> QED
  BY <1>1, <1>2, <1>3, <1>4, <1>5, <1>6, <1>7, <1>8, <1>9, <1>10, <1>11, <1>12, <1>13, <1>14,
     <1>15, <1>16, <1>17, <1>18, <1>19, <1>20, <1>21, <1>22, <1>23, <1>24, <1>25
     DEF PageStep, Page!Next, Page!Bds, Page!Start, Page!Forms, Page!UiCallback, Page!Leave

LEMMA FlowHolds == StagesSpec => []FlowInv
<1>1. StagesInit => FlowInv
  BY FlowInit DEF StagesInit
<1>2. FlowInv /\ [StagesNext]_stagesVars => FlowInv'
  BY FlowNext, StagesStep
<1> QED BY <1>1, <1>2, PTL DEF StagesSpec

(* However the page is left, and wherever it is cut off, nothing else ever *)
(* runs without the variable policy.                                       *)
THEOREM PolicyIsEnforced == StagesSpec => []EnforcedOutsidePage
<1>1. FlowInv => EnforcedOutsidePage
  BY DEF FlowInv, Page!FlagsOK, PolicyOff, Looping, EnforcedOutsidePage, Page!EnforcedOutsidePage
<1> QED BY <1>1, FlowHolds, PTL

(* A reboot to the front page that was granted leads to it.                *)
THEOREM GrantedPageComes == StagesSpec => []AskedPageComesNext
<1>1. FlowInv => AskedPageComesNext
  BY DEF FlowInv, PageAsked, Looping, AskedPageComesNext, Page!AskedPageComesNext
<1> QED BY <1>1, FlowHolds, PTL

(* No choice for the next boot is booted twice.                            *)
THEOREM ChoiceIsSpent == StagesSpec => []ChoiceIsBootedOnce
<1>1. FlowInv => ChoiceIsBootedOnce
  BY DEF FlowInv
<1> QED BY <1>1, FlowHolds, PTL

(* The store implements the log in the boots around it, too.               *)
THEOREM StagesKeepTheLog == StagesSpec => ImplementsRecordLog
<1>1. StagesInit => Init
  BY DEF StagesInit
<1>2. [StagesNext]_stagesVars => [Next]_vars
  BY StagesStep
<1>3. StagesSpec => Spec
  BY <1>1, <1>2, PTL DEF StagesSpec, Spec
<1> QED BY <1>3, StoreImplementsLog

------------------------------------------------------------------------------
(***************************************************************************)
(* The menu.  In each column of mFormMap the indices in use grow from      *)
(* entry to entry, so an index belongs to one entry; and the limited       *)
(* column has no index for a form that changes settings.                   *)
(***************************************************************************)
Entries    == Page!Entries
Indices    == Page!Indices
Unused     == Page!UNUSED_INDEX
Full(map)    == [e \in Entries |-> map[e].full]
Limited(map) == [e \in Entries |-> map[e].limited]

Ordered(index) ==
    /\ \A e \in Entries : index[e] \in Indices
    /\ \A e, f \in Entries :
          e < f /\ index[e] # Unused /\ index[f] # Unused => index[e] < index[f]

MapOK(map) ==
    /\ map \in [Entries -> [full : Indices, limited : Indices]]
    /\ Ordered(Full(map)) /\ Ordered(Limited(map))
    /\ \A e \in Page!Restricted : map[e].limited = Unused

LEMMA ShiftedOrdered ==
    ASSUME NEW index, Ordered(index), NEW gone \in Entries
    PROVE  Ordered([e \in Entries |-> Page!Shifted(index, gone, e)])
BY DEF Ordered, Entries, Page!Entries, Indices, Page!Indices, Unused, Page!UNUSED_INDEX,
       Page!Shifted

LEMMA FullFormMapOK == MapOK(Page!FullFormMap)
BY DEF MapOK, Full, Limited, Ordered, Entries, Page!Entries, Indices, Page!Indices, Unused,
       Page!UNUSED_INDEX, Page!FullFormMap, Page!Restricted, Page!PcInfo, Page!Security,
       Page!BootOrder, Page!Dfci, Page!Hwh, Page!Exit

LEMMA RemovalKeepsOrder ==
    ASSUME NEW map, MapOK(map), NEW gone \in Entries
    PROVE  MapOK(Page!RemoveMenuFromList(map, gone))
<1> DEFINE rest == Page!RemoveMenuFromList(map, gone)
<1>1. rest = [e \in Entries |-> [full    |-> Page!Shifted(Full(map), gone, e),
                                 limited |-> Page!Shifted(Limited(map), gone, e)]]
  BY DEF Page!RemoveMenuFromList, Entries, Full, Limited
<1>2. /\ Full(rest) = [e \in Entries |-> Page!Shifted(Full(map), gone, e)]
      /\ Limited(rest) = [e \in Entries |-> Page!Shifted(Limited(map), gone, e)]
  BY <1>1 DEF Full, Limited
<1>3. Ordered(Full(rest)) /\ Ordered(Limited(rest))
  BY <1>2, ShiftedOrdered DEF MapOK
<1>4. rest \in [Entries -> [full : Indices, limited : Indices]]
  BY <1>1, <1>2, <1>3 DEF Ordered
<1>5. \A e \in Page!Restricted : rest[e].limited = Unused
  <2>1. Page!Restricted \subseteq Entries
    BY DEF Page!Restricted, Page!Security, Page!BootOrder, Page!Hwh, Entries, Page!Entries
  <2>2. \A e \in Page!Restricted : Limited(map)[e] = Unused
    BY <2>1 DEF MapOK, Limited
  <2> QED BY <1>1, <2>1, <2>2 DEF Page!Shifted, Unused
<1> QED BY <1>3, <1>4, <1>5 DEF MapOK

(* What is looked up under an index that is in use.                        *)
LEMMA OneEntry ==
    ASSUME NEW map, MapOK(map), NEW full \in BOOLEAN, NEW i \in 0..5,
           NEW e \in Entries, NEW f \in Entries,
           Page!IndexIn(map, full, e) = i, Page!IndexIn(map, full, f) = i
    PROVE  e = f
<1>1. i # Unused
  BY DEF Unused, Page!UNUSED_INDEX
<1> DEFINE index == IF full THEN Full(map) ELSE Limited(map)
<1>2. index[e] = i /\ index[f] = i /\ Ordered(index)
  BY DEF Page!IndexIn, Full, Limited, MapOK
<1> HIDE DEF index
<1>3. e \in Int /\ f \in Int
  BY DEF Entries, Page!Entries
<1>4. ~(e < f) /\ ~(f < e)
  BY <1>1, <1>2 DEF Ordered
<1> QED BY <1>3, <1>4

LEMMA FindReturns ==
    ASSUME NEW map, MapOK(map), NEW full \in BOOLEAN, NEW i \in 0..5,
           NEW e \in Entries, Page!IndexIn(map, full, e) = i
    PROVE  Page!Find(map, full, i) = e
<1> DEFINE at == {f \in Page!Entries : Page!IndexIn(map, full, f) = i}
<1>1. at = {e}
  BY OneEntry DEF Entries
<1>2. (CHOOSE f \in at : \A other \in at : f <= other) = e
  <2>1. e <= e
    BY DEF Entries, Page!Entries
  <2> QED BY <1>1, <2>1
<1> QED BY <1>1, <1>2 DEF Page!Find

LEMMA NothingFound ==
    ASSUME NEW map, NEW full, NEW i, \A e \in Entries : Page!IndexIn(map, full, e) # i
    PROVE  Page!Find(map, full, i) = 0
BY DEF Page!Find, Entries

LEMMA CellReturns ==
    ASSUME NEW map, MapOK(map), NEW full \in BOOLEAN, NEW i \in DOMAIN Page!Cells(map, full)
    PROVE  i \in 0..5 /\ Page!Find(map, full, i) = Page!Cells(map, full)[i]
<1> DEFINE at(j) == {f \in Page!Entries : (IF full THEN map[f].full ELSE map[f].limited) = j}
<1>1. i \in 0..5 /\ at(i) # {}
  <2>1. i \in 0..5 /\ \A j \in 0..i : at(j) # {}
    BY DEF Page!Cells
  <2> QED BY <2>1
<1>2. Page!Cells(map, full)[i] = CHOOSE f \in at(i) : \A other \in at(i) : other <= f
  BY DEF Page!Cells
<1>3. PICK e \in Entries : e \in at(i)
  BY <1>1 DEF Entries
<1>4. at(i) = {e}
  BY <1>1, <1>3, OneEntry DEF Entries, Page!IndexIn
<1>5. (CHOOSE f \in at(i) : \A other \in at(i) : other <= f) = e
  <2>1. e <= e
    BY DEF Entries, Page!Entries
  <2> QED BY <1>4, <2>1
<1>6. Page!Find(map, full, i) = e
  BY <1>1, <1>3, FindReturns DEF Page!IndexIn
<1> QED BY <1>1, <1>2, <1>5, <1>6

------------------------------------------------------------------------------
CellsShown == pagePc \in Looping /\ published => topMenu = Page!Cells(formMap, fullMenu)
FormShown  == pagePc = "form" /\ shown \in Page!Restricted => fullMenu

MenuInv == /\ MapOK(formMap) /\ CellsShown /\ FormShown
           /\ DOMAIN topMenu \subseteq 0..5 /\ formIndex \in 0..5

LEMMA MenuStart == Page!FreshPage => MenuInv
<1>1. DOMAIN <<>> = {}
  OBVIOUS
<1> QED BY <1>1, FullFormMapOK DEF Page!FreshPage, MenuInv, CellsShown, FormShown,
                                   Page!Restricted, Page!Security, Page!BootOrder, Page!Hwh

(* A form for those who may change settings is opened in the full menu     *)
(* only.                                                                   *)
LEMMA CallOpens ==
    ASSUME MapOK(formMap), NEW full \in BOOLEAN, formIndex \in 0..5,
           Page!Find(formMap, full, formIndex) \in Page!Restricted
    PROVE  full
<1> DEFINE e == Page!Find(formMap, full, formIndex)
<1>1. e # 0 /\ e \in Entries
  BY DEF Page!Restricted, Page!Security, Page!BootOrder, Page!Hwh, Entries, Page!Entries
<1>2. PICK f \in Entries : Page!IndexIn(formMap, full, f) = formIndex
  BY <1>1, NothingFound
<1>3. e = f
  BY <1>2, FindReturns
<1>4. CASE full = FALSE
  <2>1. Page!IndexIn(formMap, full, e) = formMap[e].limited
    BY <1>4 DEF Page!IndexIn
  <2>2. formMap[e].limited = Unused
    BY DEF MapOK
  <2> QED BY <1>2, <1>3, <2>1, <2>2 DEF Unused, Page!UNUSED_INDEX
<1> QED BY <1>4

LEMMA MenuNext == FlowInv /\ MenuInv /\ PageStep => MenuInv'
<1> SUFFICES ASSUME FlowInv, MenuInv, PageStep PROVE MenuInv'
  OBVIOUS
<1>0. fullMenu \in BOOLEAN
  BY DEF FlowInv, Page!FlagsOK
<1> DEFINE MenuKept == UNCHANGED <<formMap, topMenu, formIndex>>
           Elsewhere == pagePc' \notin Looping
           Kept == UNCHANGED <<formMap, topMenu, published, fullMenu, shown>>
<1> USE DEF Page!nonVolatile, Page!boot, Page!auth, Page!menu, Page!form, Page!history,
            Page!GoTo, Looping
<1>1. MenuKept /\ Elsewhere => MenuInv'
  BY DEF MenuInv, CellsShown, FormShown
<1>2. ASSUME Kept, formIndex' \in 0..5, pagePc \in Looping,
             pagePc' = "form" => pagePc = "form"
      PROVE  MenuInv'
  BY <1>2 DEF MenuInv, CellsShown, FormShown
<1>3. CASE Page!StartPage \/ Page!PowerCut
  <2>1. Page!PageRestart
    BY <1>3 DEF Page!StartPage, Page!PowerCut
  <2>2. DOMAIN <<>> = {}
    OBVIOUS
  <2> QED BY <1>3, <2>1, <2>2, FullFormMapOK
             DEF Page!PageRestart, Page!StartPage, Page!PowerCut, MenuInv, CellsShown, FormShown
<1>4. CASE Page!SkipPage \/ Page!BdsBoot \/ Page!OsRuns \/ Page!Leave
  <2>1. MenuKept /\ Elsewhere
    BY <1>4 DEF Page!SkipPage, Page!BdsBoot, Page!OsRuns, Page!Leave, Page!ProcessBootNext,
                Page!RebootAfterBootNext, Page!UninitializeFrontPage
  <2> QED BY <1>1, <2>1
<1>5. CASE \/ Page!UefiMain \/ Page!NoDisplay \/ Page!InitializeFrontPage
           \/ Page!AuthenticateWithoutPassword \/ Page!ChallengeUserPassword
  <2>1. MenuKept
    BY <1>5, Zenon DEF Page!UefiMain, Page!NoDisplay, Page!InitializeFrontPage,
                       Page!AuthenticateWithoutPassword, Page!ChallengeUserPassword
  <2>2. pagePc' \in {"connect", "bds", "menu", "list", "challenge"}
    BY <1>5 DEF Page!UefiMain, Page!NoDisplay, Page!InitializeFrontPage,
                Page!AuthenticateWithoutPassword, Page!ChallengeUserPassword
  <2> QED BY <1>1, <2>1, <2>2
<1>6. CASE Page!CreateTopMenu
  <2>1. CASE pagePc' = "bds" /\ UNCHANGED <<formMap, topMenu>>
    BY <1>1, <1>6, <2>1 DEF Page!CreateTopMenu
  <2>2. ASSUME NEW gone \in SUBSET {Page!Dfci, Page!Hwh},
               NEW noDfci, noDfci = IF Page!Dfci \in gone
                                    THEN Page!RemoveMenuFromList(formMap, Page!Dfci) ELSE formMap,
               formMap' = IF Page!Hwh \in gone
                          THEN Page!RemoveMenuFromList(noDfci, Page!Hwh) ELSE noDfci,
               topMenu' = IF published THEN Page!Cells(formMap', fullMenu) ELSE <<>>,
               pagePc' = "call"
        PROVE  MenuInv'
    <3>1. Page!Dfci \in Entries /\ Page!Hwh \in Entries
      BY DEF Page!Dfci, Page!Hwh, Entries, Page!Entries
    <3>2. MapOK(noDfci)
      BY <2>2, <3>1, RemovalKeepsOrder DEF MenuInv
    <3>3. MapOK(formMap')
      BY <2>2, <3>1, <3>2, RemovalKeepsOrder
    <3>4. DOMAIN topMenu' \subseteq 0..5
      <4>1. DOMAIN Page!Cells(formMap', fullMenu) \subseteq 0..5
        BY <1>0, <3>3, CellReturns
      <4>2. DOMAIN <<>> = {}
        OBVIOUS
      <4> QED BY <2>2, <4>1, <4>2
    <3>5. UNCHANGED <<published, fullMenu, formIndex>>
      BY <1>6 DEF Page!CreateTopMenu
    <3> QED BY <2>2, <3>3, <3>4, <3>5 DEF MenuInv, CellsShown, FormShown
  <2> QED BY <1>6, <2>1, <2>2 DEF Page!CreateTopMenu
<1>7. CASE Page!CallFrontPage
  <2>1. /\ shown' = Page!Find(formMap, fullMenu, formIndex)
        /\ pagePc' \in Looping /\ pagePc \in Looping
        /\ UNCHANGED <<formMap, topMenu, published, fullMenu, formIndex>>
    BY <1>7 DEF Page!CallFrontPage
  <2>2. shown' \in Page!Restricted => fullMenu
    BY <1>0, <2>1, CallOpens DEF MenuInv
  <2> QED BY <2>1, <2>2 DEF MenuInv, CellsShown, FormShown
<1>8. CASE Page!MasterFrameNotifyCallback
  BY <1>2, <1>8 DEF Page!MasterFrameNotifyCallback, MenuInv
<1>9. CASE Page!LeaveLoop
  <2>1. Kept /\ formIndex' = formIndex /\ pagePc = "loop"
    BY <1>9, Zenon DEF Page!LeaveLoop
  <2>2. pagePc' # "form"
    BY <1>9 DEF Page!LeaveLoop, FlowInv, Page!FlagsOK
  <2> QED BY <1>2, <2>1, <2>2 DEF MenuInv
<1>10. CASE Page!ExtractConfig \/ Page!UiCallback \/ Page!ChooseBootOption \/ Page!SendFormReturns
  <2>1. Kept /\ formIndex' = formIndex /\ pagePc = "form"
    BY <1>10, Zenon DEF Page!ExtractConfig, Page!UiCallback, Page!SetSystemPassword,
              Page!HandleSecureBootChange, Page!HandleRebootToFrontPage, Page!ExitFrontPage,
              Page!ChooseBootOption, Page!SendFormReturns, Page!InForm
  <2> QED BY <1>2, <2>1 DEF MenuInv
<1>11. CASE UNCHANGED pageVars
  BY <1>11 DEF pageVars, MenuInv, CellsShown, FormShown
<1> QED
  BY <1>3, <1>4, <1>5, <1>6, <1>7, <1>8, <1>9, <1>10, <1>11
     DEF PageStep, Page!Next, Page!Bds, Page!Start, Page!Forms

LEMMA MenuHolds == StagesSpec => [](FlowInv /\ MenuInv)
<1>1. StagesInit => MenuInv
  BY MenuStart DEF StagesInit, Page!Init
<1>2. FlowInv /\ MenuInv /\ [StagesNext]_stagesVars => MenuInv'
  BY MenuNext, StagesStep
<1> QED BY <1>1, <1>2, FlowHolds, PTL DEF StagesSpec

(* Every cell of the menu opens the form whose name it shows.              *)
THEOREM CellsOpenTheirForms == StagesSpec => []EntryShowsItsForm
<1>1. FlowInv /\ MenuInv => EntryShowsItsForm
  BY CellReturns DEF FlowInv, Page!FlagsOK, MenuInv, CellsShown, Looping, EntryShowsItsForm,
                     Page!EntryShowsItsForm
<1> QED BY <1>1, MenuHolds, PTL

(* Nobody reaches a form that changes settings without the password.       *)
THEOREM SettingsNeedThePassword == StagesSpec => []FullMenuIsAuthorised
<1>1. FlowInv /\ MenuInv => FullMenuIsAuthorised
  BY DEF FlowInv, Authorised, MenuInv, FormShown, FullMenuIsAuthorised,
         Page!FullMenuIsAuthorised
<1> QED BY <1>1, MenuHolds, PTL

------------------------------------------------------------------------------
(* The other parts of the type invariant.                                  *)
Options == Option \cup {NoOption}
Names == /\ bootNext \in Options /\ due \in Options
         /\ pagePc \in Page!InPage \cup {"power", "bds", "os", "reset"}
         /\ token \in {"valid", "invalid"} /\ tokenProtocol \in {"none", "held", "installed"}
         /\ locks \in {"unread", "open", "locked"} /\ request \in {"none", "exit", "reset"}

LEMMA NamesNext == Names /\ PageStep => Names'
<1> SUFFICES ASSUME Names, PageStep PROVE Names'
  OBVIOUS
<1> USE DEF Names, Options, Page!InPage, Page!GoTo, Page!nonVolatile, Page!boot, Page!auth,
            Page!menu, Page!form, Page!history
<1>1. CASE Page!Bds \/ Page!OsRuns \/ Page!PowerCut
  BY <1>1 DEF Page!Bds, Page!StartPage, Page!SkipPage, Page!BdsBoot, Page!OsRuns, Page!PowerCut,
              Page!PageRestart
<1>2. CASE Page!AuthenticateWithoutPassword \/ Page!ChallengeUserPassword
  <2>1. UNCHANGED <<bootNext, due, locks, request>>
    BY <1>2, Zenon DEF Page!AuthenticateWithoutPassword, Page!ChallengeUserPassword
  <2>2. pagePc' \in {"list", "challenge"}
    BY <1>2 DEF Page!AuthenticateWithoutPassword, Page!ChallengeUserPassword
  <2>3. \/ UNCHANGED <<token, tokenProtocol>>
        \/ \E right, result : result \in {"success", "error"} /\ Page!GetAuthToken(right, result)
    BY <1>2, Zenon DEF Page!AuthenticateWithoutPassword, Page!ChallengeUserPassword
  <2>4. ASSUME NEW right, NEW result, Page!GetAuthToken(right, result)
        PROVE  token' \in {token, "valid", "invalid"}
               /\ tokenProtocol' \in {tokenProtocol, "held", "installed"}
    BY <2>4, Zenon DEF Page!GetAuthToken
  <2>5. /\ token' \in {token, "valid", "invalid"}
        /\ tokenProtocol' \in {tokenProtocol, "held", "installed"}
    BY <2>3, <2>4
  <2> QED BY <2>1, <2>2, <2>5
<1>3. CASE Page!UefiMain \/ Page!NoDisplay \/ Page!InitializeFrontPage \/ Page!CreateTopMenu
  BY <1>3 DEF Page!UefiMain, Page!DeleteBootNext, Page!NoDisplay, Page!InitializeFrontPage, Page!CreateTopMenu
<1>4. CASE Page!CallFrontPage \/ Page!ExtractConfig \/ Page!MasterFrameNotifyCallback
           \/ Page!SendFormReturns
  BY <1>4 DEF Page!CallFrontPage, Page!ExtractConfig, Page!MasterFrameNotifyCallback,
              Page!SendFormReturns
<1>5. CASE Page!UiCallback \/ Page!ChooseBootOption
  BY <1>5 DEF Page!UiCallback, Page!SetSystemPassword, Page!HandleSecureBootChange,
              Page!HandleRebootToFrontPage, Page!ExitFrontPage, Page!ChooseBootOption
<1>6. CASE Page!LeaveLoop
  <2>1. UNCHANGED <<bootNext, due, token, tokenProtocol, locks, request>>
    BY <1>6, Zenon DEF Page!LeaveLoop
  <2>2. pagePc' \in {"call", "reset", "bootNext"}
    BY <1>6, Zenon DEF Page!LeaveLoop
  <2> QED BY <2>1, <2>2
<1>7. CASE Page!Leave
  BY <1>7 DEF Page!Leave, Page!ProcessBootNext, Page!DeleteBootNext, Page!RebootAfterBootNext,
              Page!UninitializeFrontPage
<1>8. CASE UNCHANGED pageVars
  BY <1>8 DEF pageVars
<1> QED BY <1>1, <1>2, <1>3, <1>4, <1>5, <1>6, <1>7, <1>8
           DEF PageStep, Page!Next, Page!Start, Page!Forms

LEMMA LeftNext == FlowInv /\ left <= MaxAttempts /\ PageStep => left' <= MaxAttempts
<1> SUFFICES ASSUME left \in Nat, left <= MaxAttempts, PageStep PROVE left' <= MaxAttempts
  BY DEF FlowInv, Authorised
<1> USE AttemptsAssumption DEF Page!auth
<1>1. left' \in {left, MaxAttempts} \/ left' = IF left = 0 THEN 0 ELSE left - 1
  BY Zenon
     DEF PageStep, pageVars, Page!Next, Page!Bds, Page!Start, Page!Forms, Page!UiCallback,
         Page!Leave, Page!StartPage, Page!SkipPage, Page!BdsBoot, Page!OsRuns, Page!PowerCut,
         Page!PageRestart, Page!UefiMain, Page!NoDisplay, Page!InitializeFrontPage,
         Page!AuthenticateWithoutPassword, Page!ChallengeUserPassword, Page!CreateTopMenu,
         Page!CallFrontPage, Page!ExtractConfig, Page!SetSystemPassword,
         Page!HandleSecureBootChange, Page!HandleRebootToFrontPage, Page!ExitFrontPage,
         Page!ChooseBootOption, Page!MasterFrameNotifyCallback, Page!SendFormReturns,
         Page!LeaveLoop, Page!ProcessBootNext, Page!RebootAfterBootNext,
         Page!UninitializeFrontPage
<1>2. CASE left' \in {left, MaxAttempts}
  BY <1>2
<1>3. CASE left' = IF left = 0 THEN 0 ELSE left - 1
  BY <1>3
<1> QED BY <1>1, <1>2, <1>3

(* Type correctness of the front page, whatever happens around it.         *)
THEOREM PageTypes == StagesSpec => []Page!PageTypeOK
<1> DEFINE Left == left <= MaxAttempts
<1>1. StagesInit => Names /\ Left
  BY AttemptsAssumption DEF StagesInit, Page!Init, Page!FreshPage, Names, Options, Page!InPage
<1>2. FlowInv /\ Names /\ Left /\ [StagesNext]_stagesVars => Names' /\ Left'
  BY NamesNext, LeftNext, StagesStep
<1>3. FlowInv /\ MenuInv /\ Names /\ Left => Page!PageTypeOK
  BY AttemptsAssumption
     DEF FlowInv, Authorised, MenuInv, MapOK, Entries, Indices, Names, Options, Page!PageTypeOK
<1> QED BY <1>1, <1>2, <1>3, FlowHolds, MenuHolds, PTL DEF StagesSpec

------------------------------------------------------------------------------
(***************************************************************************)
(* The policy file.  As long as no call of a pass has failed, the file is  *)
(* gone before it is created and new before it is closed.                  *)
(***************************************************************************)
LEMMA SiNext == Si!SiInv /\ [Si!Next]_siVars => Si!SiInv'
<1> SUFFICES ASSUME Si!SiInv, [Si!Next]_siVars PROVE Si!SiInv'
  OBVIOUS
<1> USE DEF Si!SiInv, Si!SiTypeOK, Si!Files, Si!PolicyWhole
<1>1. CASE Si!ProcessFileSystemRegistration
  BY <1>1, Zenon DEF Si!ProcessFileSystemRegistration, Si!Then
<1>2. CASE Si!OnFileSystemNotification
  BY <1>2 DEF Si!OnFileSystemNotification
<1>3. CASE Si!OperatingSystem \/ Si!PowerCut
  BY <1>3 DEF Si!OperatingSystem, Si!PowerCut
<1>4. CASE Si!OpenVolume \/ Si!OpenPolicy \/ Si!DeletePolicy
  BY <1>4 DEF Si!OpenVolume, Si!OpenPolicy, Si!DeletePolicy, Si!Then, Si!GiveUp
<1>5. CASE Si!CreatePolicy
  <2>1. CASE UNCHANGED file /\ Si!GiveUp
    BY <1>5, <2>1 DEF Si!GiveUp
  <2>2. CASE file' = (IF file = "absent" THEN "part" ELSE file) /\ Si!Then("write")
    BY <1>5, <2>2 DEF Si!CreatePolicy, Si!Then
  <2> QED BY <1>5, <2>1, <2>2, Zenon DEF Si!CreatePolicy
<1>6. CASE Si!WritePolicy
  <2>1. CASE UNCHANGED file /\ clean' = FALSE
    BY <1>6, <2>1 DEF Si!WritePolicy
  <2>2. CASE file' \in Si!Written /\ UNCHANGED clean
    BY <1>6, <2>2 DEF Si!WritePolicy, Si!Written
  <2> QED BY <1>6, <2>1, <2>2, Zenon DEF Si!WritePolicy
<1>7. CASE Si!ClosePolicy
  <2>1. CASE UNCHANGED file /\ Si!GiveUp
    BY <2>1 DEF Si!GiveUp
  <2>2. CASE siPc = "close" /\ UNCHANGED file /\ Si!Then("idle")
    BY <2>2 DEF Si!Then
  <2> QED BY <1>7, <2>1, <2>2, Zenon DEF Si!ClosePolicy
<1>8. CASE UNCHANGED siVars
  BY <1>8 DEF siVars
<1> QED BY <1>1, <1>2, <1>3, <1>4, <1>5, <1>6, <1>7, <1>8 DEF Si!Next, Si!TryWritePlatformSiPolicy

(* A pass none of whose calls failed leaves the whole policy of this       *)
(* firmware, whatever was there before and wherever the power was cut.     *)
THEOREM CleanPassLeavesPolicy == StagesSpec => []PolicyWhole
<1>1. StagesInit => Si!SiInv
  BY DEF StagesInit, Si!Init, Si!SiInv, Si!SiTypeOK, Si!Files, Si!PolicyWhole
<1>2. [StagesNext]_stagesVars => [Si!Next]_siVars
  BY DEF StagesNext, stagesVars, Pei, EndOfPei, Report, StartDriver, EndOfDxe, FileSystem, Bds,
         OperatingSystem, Restart, Si!Next
<1>3. Si!SiInv => PolicyWhole
  BY DEF Si!SiInv, PolicyWhole
<1> QED BY <1>1, <1>2, <1>3, SiNext, PTL DEF StagesSpec
==============================================================================
