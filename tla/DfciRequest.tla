----------------------------- MODULE DfciRequest -----------------------------
(***************************************************************************)
(* DfciRequest.c: one DFCI settings request over the network.  The TLS     *)
(* certificates of the machine give way to the one of DFCI; then every NIC *)
(* is tried until one has talked to the server: a POST that the server     *)
(* accepts with 202 and a Location, a GET of that location until it is     *)
(* ready, and the answer applied, first for certificates (bootstrap), then *)
(* for settings (recovery).  Check429Logic is the same with a single GET.  *)
(*                                                                         *)
(* The thread waits for each answer by polling, so nothing but a reset     *)
(* comes between its steps; what the network, the server and the boot      *)
(* services answer is an input.  Of a response the model keeps the code,   *)
(* whether it has a Location, which block of headers is held, and whether  *)
(* the body held is this operation's or an older one's.                    *)
(***************************************************************************)
EXTENDS DfciUpdate, Naturals

CONSTANTS
    MaxNics,   \* bound: the NICs with an HTTP service binding
    Tries      \* 6 in the source: RetryCount of ProcessHttpRequestInternal

ASSUME RequestAssumption == MaxNics \in Nat /\ Tries \in Nat \ {0}

Codes   == {"none", "200", "202", "429", "other"}
Clients == {"menu", "recoveryDriver", "check429", "usb"}

VARIABLES
    pc,             \* the step about to be made
    client,         \* who made the request
    stage,          \* which POST of DfciMainLogic: "bootstrap", "recovery"; or "check"
    method,         \* "POST", "GET"
    logicState,     \* LogicState
    message,        \* the text chosen for the user
    nic, nicCount,  \* NicIndex + 1 and HandleCount
    doneProcessing, \* DoneProcessing
    dhcpRequested,  \* HttpNic.DhcpRequested
    child,          \* is the HTTP child on the image handle?
    httpProtocol,   \* is Http.HttpProtocol not NULL?
    retryCount,     \* RetryCount
    httpStatus,     \* HttpStatus.HttpStatus
    location,       \* has the 202 just received a Location header?
    headers,        \* the headers HttpResponse holds: none, or of a POST or GET
    body,           \* the body it holds: "none", of "this" operation, "old"
    tls,            \* non-volatile: the certificates, "absent", "user", "dfci"
    oldCertificate, \* mOldCertificateList: "absent" for NULL, or the list saved
    tlsBefore,      \* history: tls when the request began
    lost,           \* history: reading or restoring the old list failed
    dhcp,           \* the NICs this request left with the DHCP policy
    nicFault,       \* history: setting a NIC up or back failed
    accepted,       \* history: the stages with a POST answered by 202, content and all
    setBy,          \* history: the tables that have set a mailbox
    locationFreed   \* history: the headers that hold the GET's URL were freed

logicVars == <<client, stage, method, logicState, message, accepted, setBy>>
nicVars   == <<nic, nicCount, doneProcessing, dhcpRequested, dhcp, nicFault>>
httpVars  == <<child, httpProtocol>>
respVars  == <<httpStatus, location, headers, body, locationFreed>>
certVars  == <<tls, oldCertificate, tlsBefore, lost>>
vars == <<pc, status, jsonVars, logicVars, nicVars, httpVars, retryCount, respVars, certVars>>

\* The memory of an image just loaded.
Fresh ==
    /\ status' = "success" /\ stage' = "none" /\ method' = "none"
    /\ logicState' = "PRE_BOOTSTRAP" /\ message' = "none" /\ accepted' = {} /\ setBy' = {}
    /\ nic' = 0 /\ nicCount' = 0 /\ doneProcessing' = FALSE /\ dhcpRequested' = FALSE
    /\ dhcp' = {} /\ nicFault' = FALSE
    /\ child' = FALSE /\ httpProtocol' = FALSE /\ retryCount' = 0
    /\ httpStatus' = "none" /\ location' = FALSE /\ headers' = "none" /\ body' = "none"
    /\ locationFreed' = FALSE
    /\ oldCertificate' = "absent" /\ lost' = FALSE

InitRequest ==
    /\ mailbox = FALSE /\ table = "none" /\ changed = FALSE
    /\ status = "success" /\ client = "menu" /\ stage = "none" /\ method = "none"
    /\ logicState = "PRE_BOOTSTRAP" /\ message = "none" /\ accepted = {} /\ setBy = {}
    /\ nic = 0 /\ nicCount = 0 /\ doneProcessing = FALSE /\ dhcpRequested = FALSE
    /\ dhcp = {} /\ nicFault = FALSE
    /\ child = FALSE /\ httpProtocol = FALSE /\ retryCount = 0
    /\ httpStatus = "none" /\ location = FALSE /\ headers = "none" /\ body = "none"
    /\ locationFreed = FALSE
    /\ tls \in {"absent", "user"} /\ oldCertificate = "absent"
    /\ tlsBefore = tls /\ lost = FALSE

\* CleanupNetworkRequest (CLEANUP_RESPONSE | CLEANUP_STATUS).
CleanupResponseAndStatus ==
    httpStatus' = "none" /\ location' = FALSE /\ headers' = "none" /\ body' = "none"

------------------------------------------------------------------------------
(* Certificates.                                                           *)

\* InitializeNetworkRequest; an empty URL is not an error there.
InitializeNetworkRequest ==
    /\ pc = "init"
    /\ \/ status' = "success" /\ pc' = "readCertificate"
       \/ status' = "error" /\ pc' = "exit"
    /\ UNCHANGED <<jsonVars, logicVars, nicVars, httpVars, retryCount, respVars, certVars>>

\* EnableDfciCertificate, to the point where the old list has been read.
ReadOldCertificate ==
    /\ pc = "readCertificate"
    /\ \/ /\ tls = "absent" /\ pc' = "setCertificate"
          /\ UNCHANGED <<status, oldCertificate, lost>>
       \/ /\ tls # "absent" /\ pc' = "exit" /\ status' = "error"     \* no memory
          /\ UNCHANGED <<oldCertificate, lost>>
       \/ /\ tls # "absent" /\ pc' = "deleteCertificate"
          /\ \/ oldCertificate' = tls /\ UNCHANGED lost
             \/ lost' = TRUE /\ UNCHANGED oldCertificate
          /\ UNCHANGED status
    /\ UNCHANGED <<jsonVars, logicVars, nicVars, httpVars, retryCount, respVars, tls, tlsBefore>>

\* The current variable is deleted, in case its attributes change; a failure is
\* logged only.
DeleteOldCertificate ==
    /\ pc = "deleteCertificate"
    /\ pc' = "setCertificate"
    /\ tls' \in {tls, "absent"}
    /\ UNCHANGED <<status, jsonVars, logicVars, nicVars, httpVars, retryCount, respVars,
                   oldCertificate, tlsBefore, lost>>

\* RestoreCertificates: nothing is done unless there was an old list; a list that
\* cannot be written back is freed all the same.
RestoreCertificates ==
    /\ oldCertificate' = "absent"
    /\ \/ oldCertificate = "absent" /\ UNCHANGED <<tls, lost>>
       \/ oldCertificate # "absent" /\ tls' = oldCertificate /\ UNCHANGED lost
       \/ oldCertificate # "absent" /\ lost' = TRUE /\ UNCHANGED tls

SetDfciCertificate ==
    /\ pc = "setCertificate"
    /\ \/ tls' = "dfci" /\ pc' = "locate" /\ UNCHANGED <<status, oldCertificate, lost>>
       \/ status' = "error" /\ pc' = "exit" /\ UNCHANGED <<tls, oldCertificate, lost>>
       \/ status' = "error" /\ pc' = "exit" /\ RestoreCertificates
    /\ UNCHANGED <<jsonVars, logicVars, nicVars, httpVars, retryCount, respVars, tlsBefore>>

------------------------------------------------------------------------------
(* The NICs: TryEachNICThenProcessRequest.                                 *)
LocateNics ==
    /\ pc = "locate"
    /\ nicCount' \in 0..MaxNics
    /\ IF nicCount' = 0
       THEN status' = "notFound" /\ pc' = IF client = "check429" THEN "done" ELSE "message"
       ELSE UNCHANGED status /\ pc' = "nextNic"
    /\ UNCHANGED <<jsonVars, logicVars, nic, doneProcessing, dhcpRequested, dhcp, nicFault,
                   httpVars, retryCount, respVars, certVars>>

\* Mutant of MoreNics: the loop looks at the status, not at DoneProcessing.
MoreNicsOnError == nic < nicCount /\ (nic = 0 \/ status = "error")

MoreNics == nic < nicCount /\ ~doneProcessing

\* The head of the loop, to where MainLogic talks to the server.
NextNic ==
    /\ pc = "nextNic" /\ MoreNics
    /\ nic' = nic + 1
    /\ dhcpRequested' = FALSE                                  \* CLEANUP_NIC
    /\ \/ /\ status' = "error"                                 \* no binding, no media
          /\ UNCHANGED <<pc, stage, method, logicState, doneProcessing>>
       \/ /\ doneProcessing' = FALSE
          /\ UNCHANGED status
          /\ \/ /\ client = "check429"
                /\ stage' = "check" /\ method' = "GET" /\ logicState' = "CHECK_429"
                /\ pc' = "configure"
             \/ /\ client # "check429"
                /\ stage' = "bootstrap" /\ method' = "POST" /\ logicState' = "PRE_BOOTSTRAP"
                /\ pc' = "build"
    /\ UNCHANGED <<jsonVars, client, message, accepted, setBy, nicCount, dhcp, nicFault, httpVars,
                   retryCount, respVars, certVars>>

\* The end of the loop, and CLEANUP_NIC.
EndOfNics ==
    /\ pc = "nextNic" /\ ~MoreNics
    /\ pc' = IF client = "check429" THEN "done" ELSE "message"
    /\ dhcpRequested' = FALSE
    /\ UNCHANGED <<status, jsonVars, logicVars, nic, nicCount, doneProcessing, dhcp, nicFault,
                   httpVars, retryCount, respVars, certVars>>

\* UnconfigureNIC: the policy, then the address and the gateway; it ends at the
\* first that fails.
UnconfigureNIC(ok) ==
    \/ ok /\ dhcp' = dhcp \ {nic} /\ UNCHANGED nicFault
    \/ ~ok /\ dhcp' \in {dhcp, dhcp \ {nic}} /\ nicFault' = TRUE

\* What follows MainLogic in the loop.
EndNic ==
    /\ pc = "nicDone"
    /\ pc' = "nextNic"
    /\ \/ dhcpRequested /\ \E ok \in BOOLEAN : UnconfigureNIC(ok)
       \/ ~dhcpRequested /\ UNCHANGED <<dhcp, nicFault>>
    /\ UNCHANGED <<status, jsonVars, logicVars, nic, nicCount, doneProcessing, dhcpRequested,
                   httpVars, retryCount, respVars, certVars>>

------------------------------------------------------------------------------
(* One HTTP operation: ProcessHttpRequestWithRetries.                      *)

\* The DHCP policy of the NIC; a failure to set it is logged only.
SetDhcpPolicy ==
    \/ dhcp' = dhcp \cup {nic} /\ UNCHANGED nicFault
    \/ nicFault' = TRUE /\ UNCHANGED dhcp

\* EventWait with TimerTick, which looks for an address every second: the event
\* or the timeout, or an event that cannot be made.
AwaitAddress ==
    \/ pc' = "create" /\ UNCHANGED status
    \/ status' = "error" /\ pc' = "answered"

\* Mutant of ConfigureDHCP: DhcpRequested is set when the address has come.
ConfigureDHCPLate ==
    /\ SetDhcpPolicy
    /\ \/ dhcpRequested' = TRUE /\ pc' = "create" /\ UNCHANGED status
       \/ status' = "error" /\ pc' = "answered" /\ UNCHANGED dhcpRequested

\* UnconfigureNIC, the DHCP policy, and the wait for an address.
ConfigureDHCP ==
    \/ /\ \E ok \in BOOLEAN : UnconfigureNIC(ok)
       /\ status' = "error" /\ pc' = "answered"
       /\ UNCHANGED dhcpRequested
    \/ /\ dhcpRequested' = TRUE
       /\ SetDhcpPolicy
       /\ AwaitAddress

\* ConfigureHTTP up to the address: "If an IP address not present, ConfigureDHCP".
ConfigureHTTP ==
    /\ pc = "configure"
    /\ \/ pc' = "create" /\ UNCHANGED <<status, dhcp, nicFault, dhcpRequested>>
       \/ ConfigureDHCP
       \/ status' = "error" /\ pc' = "answered" /\ UNCHANGED <<dhcp, nicFault, dhcpRequested>>
    /\ UNCHANGED <<jsonVars, logicVars, nic, nicCount, doneProcessing, httpVars, retryCount,
                   respVars, certVars>>

\* Mutant of StartOfRetries: the response is cleaned up as well.
StartOfRetriesClean ==
    /\ CleanupResponseAndStatus
    /\ locationFreed' = (method = "GET" /\ headers = "POST")

\* ProcessHttpRequestInternal begins with CLEANUP_STATUS; a body held is now one
\* of an earlier operation.
StartOfRetries ==
    /\ httpStatus' = "none"
    /\ body' = IF body = "this" THEN "old" ELSE body
    /\ UNCHANGED <<location, headers, locationFreed>>

\* The rest of ConfigureHTTP.  The child is made on the image's own handle, which
\* holds one HTTP protocol at most; a child that cannot be configured stays.
CreateChild ==
    /\ pc = "create"
    /\ \/ /\ ~child /\ child' = TRUE /\ httpProtocol' = TRUE
          /\ pc' = "attempt" /\ retryCount' = Tries
          /\ StartOfRetries
          /\ UNCHANGED status
       \/ /\ status' = "error" /\ pc' = "answered"
          /\ \/ UNCHANGED httpVars
             \/ ~child /\ child' = TRUE /\ httpProtocol' \in BOOLEAN
          /\ UNCHANGED <<retryCount, respVars>>
    /\ UNCHANGED <<jsonVars, logicVars, nicVars, certVars>>

\* Mutant of SpendRetry: RetryCount is not decremented.
KeepRetry == UNCHANGED retryCount

SpendRetry == retryCount' = retryCount - 1

\* ProcessHttpRequest on a response: its headers take the place of those held,
\* which are not freed, and without content the body held stays.
Receive(code, hasLocation, content) ==
    /\ httpStatus' = code /\ location' = hasLocation
    /\ headers' = method
    /\ body' = IF content THEN "this" ELSE body
    /\ UNCHANGED locationFreed

\* DfciBuildRequestHeaders fails: EFI_NOT_FOUND for a URL that names no host.
HeadersFail == status' \in {"error", "notFound"}

\* DfciIssueRequest or DfciGetResponse fails or times out.
ExchangeFails == status' = "error"

\* One attempt.  It ends without a response, or with one, whose content may fail
\* to come.
ProcessHttpRequest ==
    /\ pc = "attempt"
    /\ SpendRetry
    /\ \/ /\ HeadersFail \/ ExchangeFails
          /\ pc' = "close"
          /\ UNCHANGED <<logicVars, respVars>>
       \/ \E code \in Codes \ {"none"}, hasLocation \in BOOLEAN :
             /\ hasLocation => method = "POST" /\ code = "202"
             /\ \/ /\ \E content \in BOOLEAN : Receive(code, hasLocation, content)
                   /\ status' = "success" /\ pc' = "retry"
                   /\ accepted' = IF method = "POST" /\ code = "202" THEN accepted \cup {stage}
                                                                    ELSE accepted
                \/ /\ Receive(code, hasLocation, FALSE)
                   /\ status' = "error" /\ pc' = "close" /\ UNCHANGED accepted
             /\ UNCHANGED <<client, stage, method, logicState, message, setBy>>
    /\ UNCHANGED <<jsonVars, nicVars, httpVars, certVars>>

\* 429 always; 202 for the GET of ProcessAsyncRequest (RetryOn202).
Retriable == httpStatus = "429" \/ (httpStatus = "202" /\ method = "GET" /\ stage # "check")

\* Mutant of Again: one attempt too many.
AgainPast == Retriable /\ retryCount >= 0

Again == Retriable /\ retryCount > 0

\* The end of the loop.  The wait overwrites the status with EFI_TIMEOUT, and the
\* response is freed, only if another attempt follows.
RetryOrEnd ==
    /\ pc = "retry"
    /\ \/ /\ Again
          /\ pc' = "attempt" /\ status' = "error"
          /\ CleanupResponseAndStatus
          /\ locationFreed' = (locationFreed \/ (method = "GET" /\ headers = "POST"))
       \/ /\ ~Again
          /\ pc' = "close" /\ UNCHANGED <<status, respVars>>
    /\ UNCHANGED <<jsonVars, logicVars, nicVars, httpVars, retryCount, certVars>>

\* Configure (NULL) and DestroyChild, whose failures are logged only, and
\* CLEANUP_HTTP.
CloseHttp ==
    /\ pc = "close"
    /\ pc' = "answered"
    /\ child' \in BOOLEAN /\ httpProtocol' = FALSE /\ retryCount' = 0
    /\ UNCHANGED <<status, jsonVars, logicVars, nicVars, respVars, certVars>>

------------------------------------------------------------------------------
(* What the main logic makes of the answers.                               *)
Failed == status # "success"

\* ProcessAsyncRequest after its POST: 202 and a Location, or an error.
PostAnswered ==
    /\ pc = "answered" /\ method = "POST"
    /\ \/ /\ status = "success" /\ httpStatus = "202"
          /\ doneProcessing' = TRUE
          /\ \/ location /\ method' = "GET" /\ pc' = "configure" /\ UNCHANGED status
             \/ ~location /\ status' = "error" /\ pc' = "switch" /\ UNCHANGED method
       \/ /\ ~(status = "success" /\ httpStatus = "202")
          /\ status' = IF Failed THEN status ELSE "error"
          /\ pc' = "switch"
          /\ UNCHANGED <<method, doneProcessing>>
    /\ location' = FALSE /\ locationFreed' = FALSE
    /\ UNCHANGED <<jsonVars, client, stage, logicState, message, accepted, setBy, nic, nicCount,
                   dhcpRequested, dhcp, nicFault, httpVars, retryCount, httpStatus, headers, body, certVars>>

\* Its GET: 200 and "A response is required"; then the JSON is applied.
GetAnswered ==
    /\ pc = "answered" /\ method = "GET" /\ stage # "check"
    /\ \/ /\ status = "success" /\ httpStatus = "200" /\ body # "none"
          /\ logicState' = IF stage = "bootstrap" THEN "BOOTSTRAP" ELSE "RECOVERY"
          /\ DfciUpdateFromJson(stage)
          /\ pc' = "json" /\ UNCHANGED status
       \/ /\ ~(status = "success" /\ httpStatus = "200" /\ body # "none")
          /\ status' = IF Failed THEN status ELSE "error"
          /\ pc' = "switch"
          /\ UNCHANGED <<logicState, jsonVars>>
    /\ UNCHANGED <<client, stage, method, message, accepted, setBy, nicVars, httpVars, retryCount,
                   respVars, certVars>>

\* Check429Logic: any answer will do.
CheckAnswered ==
    /\ pc = "answered" /\ stage = "check"
    /\ \/ status = "success" /\ doneProcessing' = TRUE /\ logicState' = "CHECK_429_COMPLETE"
       \/ Failed /\ UNCHANGED <<doneProcessing, logicState>>
    /\ pc' = "nicDone"
    /\ UNCHANGED <<status, jsonVars, client, stage, method, message, accepted, setBy, nic, nicCount,
                   dhcpRequested, dhcp, nicFault, httpVars, retryCount, respVars, certVars>>

\* The parse of a response or of a file.
ParseJson ==
    /\ pc = "json"
    /\ \/ ProcessPacket /\ setBy' = setBy \cup {table} /\ UNCHANGED pc
       \/ (ProcessFails \/ EndOfJson) /\ pc' = "switch" /\ UNCHANGED setBy
    /\ UNCHANGED <<client, stage, method, logicState, message, accepted, nicVars, httpVars,
                   retryCount, respVars, certVars>>

\* BuildJsonBootstrapRequest and BuildJsonRecoveryRequest.
BuildJsonRequest ==
    /\ pc = "build"
    /\ \/ pc' = "configure" /\ UNCHANGED status
       \/ pc' = "nicDone" /\ status' = "error"
    /\ UNCHANGED <<jsonVars, logicVars, nicVars, httpVars, retryCount, respVars, certVars>>

NoUpdates == status \in {"success", "notFound"}

\* Mutant of AfterBootstrap: certificates that were set do not end the request.
AfterBootstrapGoesOn ==
    \/ /\ NoUpdates \/ status = "mediaChanged"
       /\ stage' = "recovery" /\ method' = "POST" /\ logicState' = "PRE_RECOVERY"
       /\ status' = "success" /\ pc' = "build"
    \/ /\ status = "error"
       /\ pc' = "nicDone" /\ UNCHANGED <<stage, method, status, logicState>>

\* The first switch of DfciMainLogic.
AfterBootstrap ==
    \/ /\ NoUpdates
       /\ stage' = "recovery" /\ method' = "POST" /\ logicState' = "PRE_RECOVERY"
       /\ status' = "success" /\ pc' = "build"
    \/ /\ ~NoUpdates
       /\ logicState' = IF status = "mediaChanged" THEN "BOOTSTRAP_COMPLETE" ELSE logicState
       /\ pc' = "nicDone" /\ UNCHANGED <<stage, method, status>>

\* The second switch.
AfterRecovery ==
    /\ logicState' = CASE NoUpdates -> "NO_RECOVERY_AVAILABLE"
                       [] status = "mediaChanged" -> "RECOVERY_COMPLETE"
                       [] OTHER -> logicState
    /\ status' = IF NoUpdates THEN "success" ELSE status
    /\ pc' = "nicDone"
    /\ UNCHANGED <<stage, method>>

DfciMainLogic ==
    /\ pc = "switch"
    /\ \/ stage = "bootstrap" /\ AfterBootstrap
       \/ stage = "recovery" /\ AfterRecovery
    /\ UNCHANGED <<jsonVars, client, message, accepted, setBy, nicVars, httpVars, retryCount,
                   respVars, certVars>>

\* Which message: by the status and by LogicState, in ProcessDfciNetworkRequest.
MessageOf ==
    CASE status = "success" /\ logicState = "NO_RECOVERY_AVAILABLE"   -> "noUpdates"
      [] status = "mediaChanged" /\ logicState = "BOOTSTRAP_COMPLETE" -> "restart"
      [] status = "mediaChanged" /\ logicState = "RECOVERY_COMPLETE"  -> "applied"
      [] OTHER -> "error"

\* The message is made if there is memory for it.
SelectMessage ==
    /\ pc = "message"
    /\ message' \in {MessageOf, "none"}
    /\ pc' = "exit"
    /\ UNCHANGED <<status, jsonVars, client, stage, method, logicState, accepted, setBy, nicVars,
                   httpVars, retryCount, respVars, certVars>>

\* Mutant of ExitNetworkRequest: the certificates are not restored.
ExitWithoutRestore ==
    /\ pc = "exit"
    /\ pc' = "done"
    /\ CleanupResponseAndStatus
    /\ httpProtocol' = FALSE /\ dhcpRequested' = FALSE
    /\ UNCHANGED <<status, jsonVars, logicVars, nic, nicCount, doneProcessing, dhcp, nicFault, child,
                   retryCount, locationFreed, certVars>>

\* EXIT_NETWORK_REQUEST: RestoreCertificates and CLEANUP_ALL.
ExitNetworkRequest ==
    /\ pc = "exit"
    /\ pc' = "done"
    /\ RestoreCertificates
    /\ CleanupResponseAndStatus
    /\ httpProtocol' = FALSE /\ dhcpRequested' = FALSE
    /\ UNCHANGED <<status, jsonVars, logicVars, nic, nicCount, doneProcessing, dhcp, nicFault, child,
                   retryCount, locationFreed, tlsBefore>>

RequestStep ==
    \/ InitializeNetworkRequest \/ ReadOldCertificate \/ DeleteOldCertificate \/ SetDfciCertificate
    \/ LocateNics \/ NextNic \/ EndOfNics \/ EndNic
    \/ ConfigureHTTP \/ CreateChild \/ ProcessHttpRequest \/ RetryOrEnd \/ CloseHttp
    \/ PostAnswered \/ GetAnswered \/ CheckAnswered \/ ParseJson \/ BuildJsonRequest
    \/ DfciMainLogic \/ SelectMessage \/ ExitNetworkRequest
==============================================================================
