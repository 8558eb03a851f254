------------------------------ MODULE DfciMenu -------------------------------
(***************************************************************************)
(* Who asks for DFCI settings.  The menu starts a network request or reads *)
(* a file from a USB drive, tells the user and restarts; the recovery      *)
(* driver makes the network request during the boot and lets it go on; the *)
(* shell application DfciCheck429 makes a request without certificates.    *)
(* A reset may come at any moment.  The variables of the firmware survive  *)
(* it; the packets of the mailboxes are taken by the next boot (external). *)
(***************************************************************************)
EXTENDS DfciRequest

CONSTANT MaxDrives   \* bound: the handles with a simple file system

ASSUME MenuAssumption == MaxDrives \in Nat \ {0}

VARIABLES
    file,     \* the file looked for: "named" after the machine, or the "default"
    buffer,   \* Buffer of DfciRequestJsonFromUSB: "unset", "null", "package"
    drives    \* the handles FindUsbDriveWithDfciUpdate has still to look at

usbVars     == <<file, buffer, drives>>
requestVars == <<logicVars, nicVars, httpVars, retryCount, respVars, certVars>>
allVars     == <<vars, usbVars>>

Init ==
    /\ pc = "idle" /\ InitRequest
    /\ file = "named" /\ buffer = "unset" /\ drives = 0

------------------------------------------------------------------------------
(* A request over the network.                                             *)
StartRequest(who, first) ==
    /\ pc = "idle" /\ pc' = first
    /\ client' = who
    /\ Fresh
    /\ tlsBefore' = tls
    /\ UNCHANGED <<tls, jsonVars, usbVars>>

\* IssueDfciNetworkRequest of the menu, of the recovery driver, which also runs
\* only if the machine is enrolled, and DfciCheck429.
HttpUpdateNow   == StartRequest("menu", "init")
DfciSARecovery  == StartRequest("recoveryDriver", "init")
DfciCheck429    == StartRequest("check429", "locate")

NetworkStep == RequestStep /\ UNCHANGED usbVars

------------------------------------------------------------------------------
(* IssueDfciUsbRequest.                                                    *)

\* BuildUsbRequest makes the file name from the identity of the machine.
UsbUpdateNow ==
    /\ pc = "idle"
    /\ client' = "usb"
    /\ tlsBefore' = tls
    /\ file' = "named" /\ buffer' = "unset" /\ drives' = 0
    /\ pc' \in {"usbLocate", "usbFailed"}
    /\ status' = IF pc' = "usbFailed" THEN "error" ELSE "success"
    /\ stage' = "none" /\ method' = "none" /\ logicState' = "PRE_BOOTSTRAP" /\ message' = "none"
    /\ accepted' = {} /\ setBy' = {}
    /\ UNCHANGED <<jsonVars, nicVars, httpVars, retryCount, respVars, tls, oldCertificate, lost>>

\* FindUsbDriveWithDfciUpdate locates the file systems.
LocateDrives ==
    /\ pc = "usbLocate"
    /\ \/ drives' \in 1..MaxDrives /\ status' = "success" /\ pc' = "usbDrive"
       \/ UNCHANGED drives /\ status' = "error" /\ pc' = "usbEnd"
    /\ UNCHANGED <<file, buffer, jsonVars, requestVars>>

\* One handle.  Most of what may go wrong is a status of its own; a handle without
\* device path keeps the status of the handle before, and a file whose information
\* cannot be read the success of its Open.
TryDrive ==
    /\ pc = "usbDrive" /\ drives > 0
    /\ drives' = drives - 1
    /\ \/ status' = "success" /\ pc' = "usbEnd" /\ buffer' = "package"
       \/ status' = "error" /\ pc' = "usbEnd" /\ buffer' = "null"      \* no memory
       \/ status' = "error" /\ pc' = "usbDrive" /\ buffer' \in {buffer, "null"}
       \/ status' \in {status, "success"} /\ pc' = "usbDrive" /\ UNCHANGED buffer
    /\ UNCHANGED <<file, jsonVars, requestVars>>

EndOfDrives ==
    /\ pc = "usbDrive" /\ drives = 0
    /\ pc' = "usbEnd"
    /\ UNCHANGED <<status, usbVars, jsonVars, requestVars>>

\* The second file name after a failure, if there is memory for it; with a
\* success the text is applied.
UsbSearched ==
    /\ pc = "usbEnd"
    /\ \/ /\ status = "success" /\ pc' = "json"
          /\ DfciUpdateFromJson("usb")
          /\ UNCHANGED <<status, usbVars>>
       \/ /\ status # "success" /\ file = "named"
          /\ file' = "default" /\ buffer' = "unset" /\ drives' = 0 /\ pc' = "usbLocate"
          /\ UNCHANGED <<status, jsonVars>>
       \/ /\ status # "success" /\ pc' = "usbFailed"
          /\ UNCHANGED <<status, usbVars, jsonVars>>
    /\ UNCHANGED requestVars

\* MEDIA_CHANGED "is a good return".
UsbApplied ==
    /\ client = "usb" /\ pc \in {"switch", "usbFailed"}
    /\ pc' = "done"
    /\ status' = IF status = "mediaChanged" THEN "success" ELSE status
    /\ UNCHANGED <<usbVars, jsonVars, requestVars>>

UsbStep == LocateDrives \/ TryDrive \/ EndOfDrives \/ UsbSearched \/ UsbApplied

------------------------------------------------------------------------------
(* After the request.                                                      *)
NewMemory ==
    /\ pc' = "idle" /\ client' = "menu"
    /\ Fresh
    /\ table' = "none" /\ changed' = FALSE
    /\ file' = "named" /\ buffer' = "unset" /\ drives' = 0
    /\ tlsBefore' = tls
    /\ UNCHANGED tls

\* DisplayMessageBox, then RebootToFrontPage, which does not return.
RebootToFrontPage ==
    /\ pc = "done" /\ client \in {"menu", "usb"}
    /\ mailbox' = FALSE
    /\ NewMemory

\* The driver and the shell application are unloaded.
UnloadImage ==
    /\ pc = "done" /\ client \in {"recoveryDriver", "check429"}
    /\ NewMemory
    /\ UNCHANGED mailbox

\* A power loss or a reset by anyone.
Reset ==
    /\ pc # "idle"
    /\ mailbox' = FALSE
    /\ NewMemory

Next ==
    \/ HttpUpdateNow \/ DfciSARecovery \/ DfciCheck429 \/ UsbUpdateNow
    \/ NetworkStep \/ UsbStep
    \/ RebootToFrontPage \/ UnloadImage \/ Reset

\* The code runs to its end, and each wait has a timeout.
Spec == Init /\ [][Next]_allVars /\ WF_allVars(NetworkStep) /\ WF_allVars(UsbStep)

------------------------------------------------------------------------------
(* Properties.                                                             *)

\* The variables hold what the code can put there.
DfciTypeOK ==
    /\ mailbox \in BOOLEAN /\ table \in Tables \cup {"none"} /\ changed \in BOOLEAN
    /\ status \in Statuses /\ client \in Clients
    /\ stage \in {"none", "bootstrap", "recovery", "check"} /\ method \in {"none", "POST", "GET"}
    /\ nicCount \in 0..MaxNics /\ nic \in 0..nicCount /\ dhcp \subseteq 1..nic
    /\ retryCount \in 0..Tries /\ accepted \subseteq {"bootstrap", "recovery"}
    /\ setBy \subseteq Tables /\ httpStatus \in Codes /\ headers \in {"none", "POST", "GET"}
    /\ body \in {"none", "this", "old"} /\ tls \in {"absent", "user", "dfci"}
    /\ drives \in 0..MaxDrives /\ buffer \in {"unset", "null", "package"}

\* A network request that has ended leaves the TLS certificates it found, whatever
\* step failed, unless reading them or writing them back failed.  (Where there were
\* none, the DFCI certificate stays.)
CertificatesRestored ==
    pc = "done" /\ tlsBefore # "absent" /\ ~lost => tls = tlsBefore

\* A POST answered with 202 is sent no second time: not by the retries, and not
\* over another NIC.  (One whose 202 loses its content counts as failed and may be.)
AcceptedOnce == pc = "attempt" /\ method = "POST" => stage \notin accepted

\* A NIC that was given the DHCP policy has lost it when the request ends, also
\* when no address came.
NicRestored == pc = "done" /\ ~nicFault => dhcp = {}

\* Each step of the menu, the drivers and the engine is a step of the abstract
\* request: packets are written only for a stage the server has accepted in this
\* request, the server accepts no other stage once some were, and the user is told
\* what was written.
Request == INSTANCE SettingsRequest
           WITH asked <- (pc # "idle"), applied <- setBy,
                Stages <- {"bootstrap", "recovery"}, File <- "usb"
ImplementsRequest == Request!Spec

\* The message is about what this request wrote: none, certificates only, or
\* settings only.
MessageIsTrue ==
    /\ message = "noUpdates" => setBy = {}
    /\ message = "restart" => setBy = {"bootstrap"} /\ mailbox
    /\ message = "applied" => setBy = {"recovery"} /\ mailbox

\* The URL of a GET is a value of the POST's headers, which must be alive at each
\* attempt; and EventWait polls Http.HttpProtocol, which must be on a child.
NothingFreedIsUsed ==
    /\ pc = "attempt" /\ method = "GET" /\ stage # "check" => ~locationFreed
    /\ pc = "configure" /\ httpProtocol => child

\* Whatever the server answers, the request comes to an end.
RequestEnds == pc = "init" ~> pc \in {"done", "idle"}

\* What the GET is taken to have answered came with that GET: "A response is
\* required".
ResponseIsOfThisRequest == pc = "json" /\ client # "usb" => body = "this"
==============================================================================
