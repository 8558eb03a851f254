----------------------------- MODULE FrontPage ------------------------------
(***************************************************************************)
(* The firmware settings application, from BDS that starts it to the reset *)
(* or the boot it ends in: the password prompt that decides between the    *)
(* full and the limited menu, the loop over the forms, the callbacks of    *)
(* the forms, and what is done when the page is left.                      *)
(*                                                                         *)
(* A user who selects another form of the menu (MasterFrameNotifyCallback, *)
(* at TPL_CALLBACK) may do so while a form has already asked for an end of *)
(* the page.  The form browser, the boot menu, the DFCI services and BDS   *)
(* are not part of the repository and are modelled from how they are used; *)
(* drawing and the texts of the forms are left out.                        *)
(***************************************************************************)
EXTENDS Integers

CONSTANTS Option,        \* the boot options a user may choose for the next boot
          NoOption,      \* no such choice
          MaxAttempts    \* PcdMaxPasswordAttempts; 0 is no limit

VARIABLES
    bootNext,        \* non-volatile: BootNext
    osIndications,   \* non-volatile: does OsIndications ask for the front page?
    password,        \* non-volatile: is a system password set?
    enforced,        \* this boot: is the variable policy enforced?
    readyToBoot,     \* this boot: was ReadyToBoot signalled?
    pagePc,          \* what runs: BDS, an operating system or a step of the page
    token,           \* mAuthToken
    tokenProtocol,   \* mFrontPageAuthTokenProtocol
    left,            \* MaxAttempts of ChallengeUserPassword
    fullMenu,        \* mShowFullMenu
    published,       \* are there strings and forms in mFrontPagePrivate.HiiHandle?
    formMap,         \* the indices of mFormMap
    topMenu,         \* mTopMenu: the entry each cell shows
    formIndex,       \* mCurrentFormIndex
    shown,           \* the entry whose form the browser shows
    locks,           \* Result and Initialized of IsPostReadyToBoot
    terminate,       \* mTerminateFrontPage
    resetRequired,   \* mResetRequired
    request,         \* the ActionRequest the browser will return
    proved,          \* history: this page was given the password, or none was set
    due,             \* history: the option chosen for the next boot; no longer when it
                     \* is booted, unless BootNext could not be deleted
    asked            \* history: a reboot to the front page was granted

nonVolatile == <<bootNext, osIndications, password>>
boot        == <<enforced, readyToBoot>>
auth        == <<token, tokenProtocol, left, fullMenu, proved>>
menu        == <<published, formMap, topMenu>>
form        == <<formIndex, shown, locks, terminate, resetRequired, request>>
history     == <<due, asked>>
vars        == <<nonVolatile, boot, pagePc, auth, menu, form, history>>

GoTo(step) == pagePc' = step

------------------------------------------------------------------------------
(* mFormMap: what the master frame lists, with and without authorisation.  *)
Entries == 1..6
PcInfo    == 1
Security  == 2
BootOrder == 3
Dfci      == 4
Hwh       == 5
Exit      == 6

UNUSED_INDEX == 65535
Indices == 0..5 \cup {UNUSED_INDEX}

\* The forms for a user who may change settings, and those of the page itself.
Restricted == {Security, BootOrder, Hwh}
OwnForms   == {PcInfo, Security, Exit}

FullFormMap == [e \in Entries |->
    [full    |-> e - 1,
     limited |-> CASE e = PcInfo -> 0 [] e = Dfci -> 1 [] e = Exit -> 2
                   [] OTHER -> UNUSED_INDEX]]

\* Mutant of Shifted: the entries behind move up though the menu had none.
ShiftedAlways(index, gone, e) ==
    IF e = gone THEN UNUSED_INDEX
    ELSE IF e > gone /\ index[e] # UNUSED_INDEX THEN index[e] - 1 ELSE index[e]

\* One of the two menus without an entry: those behind it move up, if it was there.
Shifted(index, gone, e) ==
    IF e = gone THEN UNUSED_INDEX
    ELSE IF e > gone /\ index[gone] # UNUSED_INDEX /\ index[e] # UNUSED_INDEX
         THEN index[e] - 1 ELSE index[e]

RemoveMenuFromList(map, gone) ==
    LET full    == [e \in Entries |-> map[e].full]
        limited == [e \in Entries |-> map[e].limited]
    IN  [e \in Entries |-> [full    |-> Shifted(full, gone, e),
                            limited |-> Shifted(limited, gone, e)]]

\* Mutant of IndexIn: the limited menu is looked up in the column of the full one.
IndexInFull(map, full, e) == map[e].full

IndexIn(map, full, e) == IF full THEN map[e].full ELSE map[e].limited

\* The cells of the list box end before the first without text; of entries with
\* one index the last gives the text.
Cells(map, full) ==
    LET at(i) == {e \in Entries : (IF full THEN map[e].full ELSE map[e].limited) = i}
    IN  [i \in {i \in 0..5 : \A j \in 0..i : at(j) # {}} |->
            CHOOSE e \in at(i) : \A other \in at(i) : other <= e]

\* CallFrontPage takes the first entry with the index; 0 when there is none.
Find(map, full, i) ==
    LET at == {e \in Entries : IndexIn(map, full, e) = i}
    IN  IF at = {} THEN 0 ELSE CHOOSE e \in at : \A other \in at : e <= other

------------------------------------------------------------------------------
(* The page's own memory is fresh in every start of the application.       *)
FreshPage ==
    /\ token = "invalid" /\ tokenProtocol = "none" /\ left = MaxAttempts
    /\ fullMenu = FALSE /\ proved = FALSE
    /\ published = FALSE /\ formMap = FullFormMap /\ topMenu = <<>>
    /\ formIndex = 0 /\ shown = 0 /\ locks = "unread"
    /\ terminate = FALSE /\ resetRequired = FALSE /\ request = "none"

PageRestart ==
    /\ token' = "invalid" /\ tokenProtocol' = "none" /\ left' = MaxAttempts
    /\ fullMenu' = FALSE /\ proved' = FALSE
    /\ published' = FALSE /\ formMap' = FullFormMap /\ topMenu' = <<>>
    /\ formIndex' = 0 /\ shown' = 0 /\ locks' = "unread"
    /\ terminate' = FALSE /\ resetRequired' = FALSE /\ request' = "none"

Init == /\ bootNext = NoOption /\ osIndications \in BOOLEAN
        /\ password \in BOOLEAN
        /\ due = NoOption /\ asked = FALSE
        /\ enforced = TRUE /\ readyToBoot = FALSE /\ pagePc = "power"
        /\ FreshPage

\* BDS begins with OsIndications and clears it.  Otherwise a button may ask for
\* the page, and so does a boot that failed.
StartPage ==
    /\ pagePc \in {"power", "bds"}
    /\ osIndications' = (osIndications /\ pagePc = "bds")
    /\ asked' = (asked /\ pagePc = "bds")
    /\ GoTo("entry")
    /\ PageRestart
    /\ UNCHANGED <<bootNext, password, boot, due>>

SkipPage ==
    /\ pagePc = "power" /\ ~osIndications
    /\ GoTo("bds")
    /\ UNCHANGED <<nonVolatile, boot, auth, menu, form, history>>

\* BDS deletes BootNext, signals ReadyToBoot and boots it, or the boot order.
BdsBoot ==
    /\ pagePc = "bds"
    /\ bootNext' = NoOption /\ due' = NoOption
    /\ readyToBoot' = TRUE
    /\ GoTo("os") \/ GoTo("bds")
    /\ UNCHANGED <<osIndications, password, enforced, auth, menu, form, asked>>

\* What an operating system may set before it resets the machine.
OsRuns ==
    /\ pagePc = "os"
    /\ bootNext' \in Option \cup {NoOption} /\ due' = bootNext'
    /\ osIndications' \in BOOLEAN
    /\ GoTo("reset")
    /\ UNCHANGED <<password, boot, auth, menu, form, asked>>

PowerCut ==
    /\ enforced' = TRUE /\ readyToBoot' = FALSE /\ GoTo("power")
    /\ PageRestart
    /\ UNCHANGED <<nonVolatile, history>>

------------------------------------------------------------------------------
DeleteBootNext == bootNext' = NoOption /\ due' = NoOption

\* UefiMain removes a choice of before; whether that succeeds is not looked at.
UefiMain ==
    /\ pagePc = "entry"
    /\ DeleteBootNext \/ UNCHANGED <<bootNext, due>>
    /\ GoTo("connect")
    /\ UNCHANGED <<osIndications, password, boot, auth, menu, form, asked>>

\* All controllers are connected, and a protocol of the display is not there.
NoDisplay ==
    /\ pagePc = "connect"
    /\ GoTo("bds")
    /\ UNCHANGED <<nonVolatile, boot, auth, menu, form, history>>

\* The result of InitializeFrontPage is not looked at.  A message about a secure
\* boot left out here, comes before the menu.
InitializeFrontPage ==
    /\ pagePc = "connect"
    /\ published' \in BOOLEAN
    /\ GoTo("menu")
    /\ UNCHANGED <<nonVolatile, boot, auth, formMap, topMenu, form, history>>

\* What GetAuthToken returns and does.  The token is valid for the right password,
\* or for none when none is set; to publish it is a step that may fail.
GetAuthToken(right, status) ==
    \/ /\ status = "error"
       /\ token' \in {token, "invalid"} /\ UNCHANGED <<tokenProtocol, proved>>
    \/ /\ status = "success"
       /\ token' = "invalid" /\ UNCHANGED <<tokenProtocol, proved>>
    \/ /\ right /\ token' = "valid" /\ proved' = TRUE
       /\ tokenProtocol' = IF status = "success" THEN "installed" ELSE "held"

\* CreateTopMenu tries without a password first.
AuthenticateWithoutPassword ==
    /\ pagePc = "menu"
    /\ \/ /\ GetAuthToken(~password, "success")
          /\ fullMenu' = (token' = "valid")
          /\ GoTo("list")
       \/ /\ GetAuthToken(~password, "error")
          /\ GoTo("challenge")
          /\ UNCHANGED fullMenu
    /\ UNCHANGED <<nonVolatile, boot, left, menu, form, history>>

\* Mutant of ChallengeUserPassword: the end of the loop is taken for success.
ChallengeForgiving ==
    /\ pagePc = "challenge"
    /\ \E right \in BOOLEAN :
          \/ /\ GetAuthToken(right, "success")
             /\ fullMenu' = (token' = "valid") /\ GoTo("list")
             /\ UNCHANGED left
          \/ /\ GetAuthToken(right, "error")
             /\ left' = IF left = 0 THEN 0 ELSE left - 1
             /\ fullMenu' = (left = 1)
             /\ GoTo(IF left = 1 THEN "list" ELSE "challenge")
    /\ UNCHANGED <<nonVolatile, boot, menu, form, history>>

\* One turn of the prompt: cancelled, or answered with a password.
ChallengeUserPassword ==
    /\ pagePc = "challenge"
    /\ \/ /\ GoTo("list")
          /\ UNCHANGED <<token, tokenProtocol, proved, left, fullMenu>>
       \/ \E right \in BOOLEAN :
             /\ GetAuthToken(right, "success")
             /\ fullMenu' = (token' = "valid")
             /\ GoTo("list")
             /\ UNCHANGED left
       \/ \E right \in BOOLEAN :
             /\ GetAuthToken(right, "error")
             /\ left' = IF left = 0 THEN 0 ELSE left - 1
             /\ GoTo(IF left = 1 THEN "list" ELSE "challenge")
             /\ UNCHANGED fullMenu
    /\ UNCHANGED <<nonVolatile, boot, menu, form, history>>

\* The entries of what is not there go, and the list box is made; without memory
\* for it, or for its event, the page ends and leaves its token behind.
CreateTopMenu ==
    /\ pagePc = "list"
    /\ \/ \E gone \in SUBSET {Dfci, Hwh} :
             LET noDfci == IF Dfci \in gone THEN RemoveMenuFromList(formMap, Dfci) ELSE formMap
                 map    == IF Hwh \in gone THEN RemoveMenuFromList(noDfci, Hwh) ELSE noDfci
             IN  /\ formMap' = map
                 /\ topMenu' = IF published THEN Cells(map, fullMenu) ELSE <<>>
                 /\ GoTo("call")
       \/ GoTo("bds") /\ UNCHANGED <<formMap, topMenu>>
    /\ UNCHANGED <<nonVolatile, boot, auth, published, form, history>>

------------------------------------------------------------------------------
(* The loop of UefiMain around CallFrontPage.                              *)
CallFrontPage ==
    /\ pagePc = "call"
    /\ terminate' = TRUE
    /\ shown' = Find(formMap, fullMenu, formIndex)
    /\ \/ shown' # 0 /\ published /\ GoTo("form")
       \/ GoTo("loop")
    /\ UNCHANGED <<nonVolatile, boot, auth, menu, formIndex, locks, resetRequired, request, history>>

\* The browser reads the controls of the page's own forms.  IsPostReadyToBoot takes
\* any failure to read the phase indicator for a boot before ReadyToBoot, and keeps
\* that.  The driver that writes the indicator, MuVarPolicyFoundationDxe, is built
\* with the platform but is in no flash image of the repository.
ExtractConfig ==
    /\ pagePc = "form" /\ shown \in OwnForms /\ locks = "unread"
    /\ locks' \in {"open"} \cup (IF readyToBoot THEN {"locked"} ELSE {})
    /\ UNCHANGED <<nonVolatile, boot, pagePc, auth, menu, formIndex, shown, terminate,
                   resetRequired, request, history>>

\* A form takes input until it has asked the browser for an end.
InForm(e) == pagePc = "form" /\ shown = e /\ request = "none"

\* The prompt comes again until the settings accept the password or the user gives
\* up.  They accept it from a holder of a valid token only.
SetSystemPassword ==
    /\ InForm(Security) /\ locks = "open"
    /\ token = "valid"
    /\ password' \in BOOLEAN
    /\ UNCHANGED <<bootNext, osIndications, boot, pagePc, auth, menu, form, history>>

\* Mutant of HandleSecureBootChange: a restart is asked for after success only.
SecureBootChangeUnforced ==
    /\ InForm(Security) /\ locks = "open"
    /\ enforced' \in {enforced, FALSE}
    /\ resetRequired' \in {resetRequired, TRUE}
    /\ UNCHANGED <<nonVolatile, readyToBoot, pagePc, auth, menu, formIndex, shown, locks,
                   terminate, request, history>>

\* Whatever the user answers and the settings say, the page will end in a reset.
HandleSecureBootChange ==
    /\ InForm(Security) /\ locks = "open"
    /\ enforced' \in {enforced, FALSE}
    /\ resetRequired' = TRUE
    /\ UNCHANGED <<nonVolatile, readyToBoot, pagePc, auth, menu, formIndex, shown, locks,
                   terminate, request, history>>

\* Mutant of HandleRebootToFrontPage: the page ends, but not in a reset.
RebootWithoutReset ==
    /\ InForm(Security) /\ locks = "locked"
    /\ osIndications' = TRUE /\ asked' = TRUE
    /\ request' = "exit"
    /\ UNCHANGED <<bootNext, password, boot, pagePc, auth, menu, formIndex, shown,
                   locks, terminate, resetRequired, due>>

\* After ReadyToBoot the form offers no more than a way back; a failure to read or
\* write OsIndications leaves everything as it is.
HandleRebootToFrontPage ==
    /\ InForm(Security) /\ locks = "locked"
    /\ osIndications' = TRUE /\ asked' = TRUE
    /\ request' = "exit" /\ resetRequired' = TRUE
    /\ UNCHANGED <<bootNext, password, boot, pagePc, auth, menu, formIndex, shown,
                   locks, terminate, due>>

\* The button of the exit form, which is marked as one that needs a reset.
ExitFrontPage ==
    /\ InForm(Exit)
    /\ request' \in {"exit", "reset"}
    /\ UNCHANGED <<nonVolatile, boot, pagePc, auth, menu, formIndex, shown, locks, terminate,
                   resetRequired, history>>

\* The boot menu's form, outside the repository.
ChooseBootOption ==
    /\ InForm(BootOrder)
    /\ bootNext' \in Option /\ due' = bootNext'
    /\ request' = "exit"
    /\ UNCHANGED <<osIndications, password, boot, pagePc, auth, menu, formIndex,
                   shown, locks, terminate, resetRequired, asked>>

\* The master frame interrupts the form, whatever the form has asked for.
MasterFrameNotifyCallback ==
    /\ pagePc = "form"
    /\ formIndex' \in DOMAIN topMenu \ {formIndex}
    /\ terminate' = FALSE
    /\ UNCHANGED <<nonVolatile, boot, pagePc, auth, menu, shown, locks, resetRequired, request,
                   history>>

\* SendForm returns: the form or the master frame wants it to, or the user leaves.
\* It may lose the form's request over that of the master frame.
SendFormReturns ==
    /\ pagePc = "form"
    /\ \E action \in {request, "none"} :
          /\ terminate' = (terminate \/ action = "exit")
          /\ resetRequired' = (resetRequired \/ action = "reset")
    /\ request' = "none"
    /\ GoTo("loop")
    /\ UNCHANGED <<nonVolatile, boot, auth, menu, formIndex, shown, locks, history>>

LeaveLoop ==
    /\ pagePc = "loop"
    /\ GoTo(CASE ~terminate                  -> "call"
              [] terminate /\ resetRequired  -> "reset"
              [] terminate /\ ~resetRequired -> "bootNext")
    /\ UNCHANGED <<nonVolatile, boot, auth, menu, form, history>>

------------------------------------------------------------------------------
\* Mutant of ProcessBootNext: BootNext is deleted when the option has returned.
ProcessBootNextLate ==
    /\ pagePc = "bootNext"
    /\ due' = NoOption
    /\ IF bootNext = NoOption
       THEN GoTo("uninit") /\ UNCHANGED readyToBoot
       ELSE readyToBoot' = TRUE /\ (GoTo("os") \/ GoTo("returned"))
    /\ UNCHANGED <<nonVolatile, enforced, auth, menu, form, asked>>

\* BootNext is deleted before it is booted, if it names an option that can be read.
\* A failed deletion is an ASSERT only, and the option is booted all the same.
ProcessBootNext ==
    /\ pagePc = "bootNext"
    /\ DeleteBootNext \/ UNCHANGED <<bootNext, due>>
    /\ IF bootNext = NoOption
       THEN GoTo("uninit") /\ UNCHANGED readyToBoot
       ELSE \/ GoTo("returned") /\ UNCHANGED readyToBoot
            \/ readyToBoot' = TRUE /\ (GoTo("os") \/ GoTo("returned"))
    /\ UNCHANGED <<osIndications, password, enforced, auth, menu, form, asked>>

\* The booted option came back: the machine is reset, to the front page if
\* OsIndications can be written.
RebootAfterBootNext ==
    /\ pagePc = "returned"
    /\ \/ osIndications' = TRUE /\ asked' = TRUE
       \/ UNCHANGED <<osIndications, asked>>
    /\ GoTo("reset")
    /\ UNCHANGED <<bootNext, password, boot, auth, menu, form, due>>

UninitializeFrontPage ==
    /\ pagePc = "uninit"
    /\ token' = "invalid" /\ tokenProtocol' = "none"
    /\ published' = FALSE
    /\ GoTo("bds")
    /\ UNCHANGED <<nonVolatile, boot, left, fullMenu, proved, formMap, topMenu, form, history>>

------------------------------------------------------------------------------
Bds == StartPage \/ SkipPage \/ BdsBoot

Start ==
    \/ UefiMain \/ NoDisplay \/ InitializeFrontPage
    \/ AuthenticateWithoutPassword \/ ChallengeUserPassword \/ CreateTopMenu

UiCallback ==
    \/ SetSystemPassword \/ HandleSecureBootChange \/ HandleRebootToFrontPage
    \/ ExitFrontPage

Forms ==
    \/ CallFrontPage \/ ExtractConfig \/ UiCallback \/ ChooseBootOption
    \/ MasterFrameNotifyCallback \/ SendFormReturns \/ LeaveLoop

Leave == ProcessBootNext \/ RebootAfterBootNext \/ UninitializeFrontPage

Next == Bds \/ Start \/ Forms \/ Leave \/ OsRuns \/ PowerCut

Spec == Init /\ [][Next]_vars

------------------------------------------------------------------------------
InPage == {"entry", "connect", "menu", "challenge", "list", "call", "form", "loop",
           "bootNext", "returned", "uninit"}

FlagsOK ==
    /\ osIndications \in BOOLEAN /\ password \in BOOLEAN /\ asked \in BOOLEAN
    /\ enforced \in BOOLEAN /\ readyToBoot \in BOOLEAN
    /\ fullMenu \in BOOLEAN /\ proved \in BOOLEAN /\ published \in BOOLEAN
    /\ terminate \in BOOLEAN /\ resetRequired \in BOOLEAN

PageTypeOK ==
    /\ FlagsOK
    /\ bootNext \in Option \cup {NoOption} /\ due \in Option \cup {NoOption}
    /\ pagePc \in InPage \cup {"power", "bds", "os", "reset"}
    /\ token \in {"valid", "invalid"} /\ tokenProtocol \in {"none", "held", "installed"}
    /\ left \in 0..MaxAttempts
    /\ formMap \in [Entries -> [full : Indices, limited : Indices]]
    /\ DOMAIN topMenu \subseteq 0..5 /\ formIndex \in 0..5
    /\ locks \in {"unread", "open", "locked"} /\ request \in {"none", "exit", "reset"}

(* The variable policy is turned off for a change of the secure boot keys, *)
(* and nothing but a reset turns it on again: outside the page it is       *)
(* enforced, whichever way the user takes out of the page.                 *)
EnforcedOutsidePage == pagePc \in {"power", "bds", "os", "bootNext", "returned"} => enforced

(* The full menu, and a form that changes settings, is for a user who gave *)
(* the password in this very page, or found none set; and a prompt with a  *)
(* limit never counts down to the 0 that stands for no limit.              *)
FullMenuIsAuthorised ==
    /\ fullMenu => proved
    /\ pagePc = "form" /\ shown \in Restricted => proved
    /\ pagePc = "challenge" /\ MaxAttempts # 0 => left # 0

(* Every cell of the menu opens the form whose name it shows, whichever    *)
(* entries were removed from the full or the limited menu.                 *)
EntryShowsItsForm ==
    pagePc \in {"call", "form", "loop"} /\ published =>
        \A i \in DOMAIN topMenu : Find(formMap, fullMenu, i) = topMenu[i]

(* BootNext holds only a choice that was not booted yet: no way through    *)
(* the page or BDS, cut off anywhere, boots a choice twice, unless the     *)
(* deletion of BootNext failed.                                            *)
ChoiceIsBootedOnce == bootNext # NoOption => bootNext = due

(* A reboot to the front page that was granted leads to it, and no         *)
(* operating system runs before.                                           *)
AskedPageComesNext == asked => pagePc # "os"
==============================================================================
