----------------------------- MODULE BootStages -----------------------------
(***************************************************************************)
(* One boot after another of the firmware around its front page.  Before   *)
(* memory is up (PEI) errors are kept in the early record store.  The DXE  *)
(* phase takes them out again, and SystemIntegrityPolicyProvisioningDxe    *)
(* waits for file systems.  They come when BDS, or the front page that it  *)
(* starts, connects the controllers.  An operating system changes what the *)
(* next boot finds; a power cut or a reset ends each of these, anywhere.   *)
(***************************************************************************)
EXTENDS WheaStore

CONSTANTS Option, NoOption, MaxAttempts

VARIABLES
    stage,                                                 \* "pei", "dxe" or "bds"
    file, siPc, clean,                                     \* SiPolicy
    bootNext, osIndications, password,                     \* FrontPage
    enforced, readyToBoot, pagePc,
    token, tokenProtocol, left, fullMenu, proved,
    published, formMap, topMenu,
    formIndex, shown, locks, terminate, resetRequired, request,
    due, asked

Si   == INSTANCE SiPolicy
Page == INSTANCE FrontPage

ASSUME OptionAssumption == NoOption \notin Option
ASSUME AttemptsAssumption == MaxAttempts \in Nat

siVars     == <<file, siPc, clean>>
pageVars   == <<bootNext, osIndications, password, enforced, readyToBoot, pagePc,
                token, tokenProtocol, left, fullMenu, proved, published, formMap, topMenu,
                formIndex, shown, locks, terminate, resetRequired, request, due, asked>>
stagesVars == <<vars, stage, siVars, pageVars>>

StagesInit == Init /\ Si!Init /\ Page!Init /\ stage = "pei"

------------------------------------------------------------------------------
Pei == /\ stage = "pei"
       /\ AddRecord \/ AddRecordStep
       /\ UNCHANGED <<stage, siVars, pageVars>>

\* What a caller kept outside the store goes, as it does in a power cut.
EndOfPei == /\ stage = "pei" /\ pc = "idle"
            /\ stage' = "dxe" /\ PowerCut
            /\ UNCHANGED <<siVars, pageVars>>

Report == /\ stage = "dxe"
          /\ ReportAndInitialise
          /\ UNCHANGED <<stage, siVars, pageVars>>

StartDriver == /\ stage = "dxe"
               /\ Si!ProcessFileSystemRegistration
               /\ UNCHANGED <<vars, stage, pageVars>>

\* BDS runs after every driver, and so after the one that reports the records.  A
\* driver without its registration is as one that no file system appears for.
EndOfDxe == /\ stage = "dxe" /\ siPc = "idle"
            /\ active = 0 /\ Valid /\ \A i \in Slots : slot[i] = Blank
            /\ stage' = "bds"
            /\ UNCHANGED <<vars, siVars, pageVars>>

\* A file system appears, and the callback of the driver runs to its end first.
FileSystem == /\ stage = "bds" /\ pagePc \in {"power", "connect"}
              /\ Si!OnFileSystemNotification \/ Si!TryWritePlatformSiPolicy
              /\ UNCHANGED <<vars, stage, pageVars>>

Bds == /\ stage = "bds" /\ siPc = "idle"
       /\ Page!Bds \/ Page!Start \/ Page!Forms \/ Page!Leave
       /\ UNCHANGED <<vars, stage, siVars>>

OperatingSystem == /\ stage = "bds"
                   /\ Page!OsRuns /\ Si!OperatingSystem
                   /\ UNCHANGED <<vars, stage>>

Restart == /\ PowerCut /\ Si!PowerCut /\ Page!PowerCut
           /\ stage' = "pei"

StagesNext ==
    \/ Pei \/ EndOfPei
    \/ Report \/ StartDriver \/ EndOfDxe
    \/ FileSystem \/ Bds \/ OperatingSystem
    \/ Restart

StagesSpec == StagesInit /\ [][StagesNext]_stagesVars

------------------------------------------------------------------------------
\* After a pass of the driver none of whose calls failed, the file is this
\* firmware's policy, all of it and nothing else, whatever an operating system or
\* a power cut in an earlier pass had left.
PolicyWhole == Si!PolicyWhole

\* The variable policy is turned off for a change of the secure boot keys, and
\* nothing but a reset turns it on again: whichever way is taken out of the front
\* page, it is enforced wherever anything else may run.
EnforcedOutsidePage == Page!EnforcedOutsidePage

\* The full menu, and a form that changes settings, is for a user who gave the
\* password in this very page, or found none set; and a prompt with a limit never
\* counts down to the 0 that stands for no limit.
FullMenuIsAuthorised == Page!FullMenuIsAuthorised

\* Every cell of the menu opens the form whose name it shows, whichever entries
\* were removed from the full or the limited menu.
EntryShowsItsForm == Page!EntryShowsItsForm

\* BootNext holds only a choice that was not booted yet: no way through the page or
\* BDS, cut off anywhere, boots a choice twice, unless the deletion of BootNext failed.
ChoiceIsBootedOnce == Page!ChoiceIsBootedOnce

\* A reboot to the front page that was granted leads to it, and no operating system
\* runs before.
AskedPageComesNext == Page!AskedPageComesNext
==============================================================================
