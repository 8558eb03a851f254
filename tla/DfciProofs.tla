----------------------------- MODULE DfciProofs ------------------------------
(***************************************************************************)
(* DFCI requests, for every number of NICs, of tries and of drives: the    *)
(* certificates and the network policy come back, no accepted POST is sent *)
(* again, the message is true, and no variable leaves its type.            *)
(***************************************************************************)
EXTENDS DfciMenu, TLAPS

(* The machine keeps its certificates, or the list that was saved is theirs. *)
Untouched == tls = tlsBefore /\ oldCertificate = "absent"
Saved     == oldCertificate = tlsBefore

Exchanging == {"init", "readCertificate", "deleteCertificate", "setCertificate"}

(***************************************************************************)
(* Where each of the two holds.  Only the steps of EnableDfciCertificate   *)
(* lead from the first to the second, and neither a file nor DfciCheck429  *)
(* goes through them.                                                      *)
(***************************************************************************)
CertificatesKept ==
    tlsBefore # "absent" /\ ~lost =>
        /\ Untouched \/ Saved
        /\ pc \in {"idle", "init", "readCertificate", "done"} => Untouched
        /\ pc \in {"deleteCertificate", "setCertificate"} => Saved
        /\ client \in {"usb", "check429"} => Untouched

CertificateInv ==
    /\ CertificatesKept
    /\ pc = "idle" => oldCertificate = "absent"
    /\ pc \in Exchanging => client \notin {"usb", "check429"}

LEMMA CertificateInvInit == Init => CertificateInv
BY DEF Init, InitRequest, CertificateInv, CertificatesKept, Untouched, Saved, Exchanging

(* The steps of a request that leave the certificates alone, and that neither *)
(* begin nor end their exchange.                                              *)
LEMMA NicsKeepCertificates ==
  ASSUME CertificateInv,
         LocateNics \/ NextNic \/ EndOfNics \/ EndNic \/ ConfigureHTTP \/ CreateChild
  PROVE  CertificateInv'
<1> USE DEF CertificateInv, CertificatesKept, Untouched, Saved, Exchanging, certVars, logicVars
<1>1. CASE LocateNics
  BY <1>1 DEF LocateNics
<1>2. CASE NextNic
  BY <1>2 DEF NextNic
<1>3. CASE EndOfNics
  BY <1>3 DEF EndOfNics
<1>4. CASE EndNic
  BY <1>4 DEF EndNic
<1>5. CASE ConfigureHTTP
  BY <1>5 DEF ConfigureHTTP, ConfigureDHCP, AwaitAddress
<1>6. CASE CreateChild
  BY <1>6 DEF CreateChild
<1> QED
  BY <1>1, <1>2, <1>3, <1>4, <1>5, <1>6

LEMMA AnswersKeepCertificates ==
  ASSUME CertificateInv,
         \/ ProcessHttpRequest \/ RetryOrEnd \/ CloseHttp \/ PostAnswered \/ GetAnswered
         \/ CheckAnswered \/ ParseJson \/ BuildJsonRequest \/ DfciMainLogic \/ SelectMessage
  PROVE  CertificateInv'
<1> USE DEF CertificateInv, CertificatesKept, Untouched, Saved, Exchanging, certVars, logicVars
<1>1. CASE ProcessHttpRequest
  BY <1>1 DEF ProcessHttpRequest
<1>2. CASE RetryOrEnd
  BY <1>2 DEF RetryOrEnd
<1>3. CASE CloseHttp
  BY <1>3 DEF CloseHttp
<1>4. CASE PostAnswered
  BY <1>4 DEF PostAnswered
<1>5. CASE GetAnswered
  BY <1>5 DEF GetAnswered
<1>6. CASE CheckAnswered
  BY <1>6 DEF CheckAnswered
<1>7. CASE ParseJson
  BY <1>7 DEF ParseJson
<1>8. CASE BuildJsonRequest
  BY <1>8 DEF BuildJsonRequest
<1>9. CASE DfciMainLogic
  BY <1>9 DEF DfciMainLogic, AfterBootstrap, AfterRecovery
<1>10. CASE SelectMessage
  BY <1>10 DEF SelectMessage
<1> QED
  BY <1>1, <1>2, <1>3, <1>4, <1>5, <1>6, <1>7, <1>8, <1>9, <1>10

(* The steps that exchange the certificates. *)
LEMMA ExchangeKeepsCertificates ==
  ASSUME CertificateInv,
         \/ InitializeNetworkRequest \/ ReadOldCertificate \/ DeleteOldCertificate
         \/ SetDfciCertificate \/ ExitNetworkRequest
  PROVE  CertificateInv'
<1> USE DEF CertificateInv, CertificatesKept, Untouched, Saved, Exchanging, certVars, logicVars
<1>1. CASE InitializeNetworkRequest
  BY <1>1 DEF InitializeNetworkRequest
<1>2. CASE ReadOldCertificate
  BY <1>2 DEF ReadOldCertificate
<1>3. CASE DeleteOldCertificate
  BY <1>3 DEF DeleteOldCertificate
<1>4. CASE SetDfciCertificate
  BY <1>4 DEF SetDfciCertificate, RestoreCertificates
<1>5. CASE ExitNetworkRequest
  BY <1>5 DEF ExitNetworkRequest, RestoreCertificates
<1> QED
  BY <1>1, <1>2, <1>3, <1>4, <1>5

LEMMA CertificateInvNext == CertificateInv /\ [Next]_allVars => CertificateInv'
<1> SUFFICES ASSUME CertificateInv, [Next]_allVars PROVE CertificateInv'
  OBVIOUS
<1> USE DEF CertificateInv, CertificatesKept, Untouched, Saved, Exchanging,
            requestVars, certVars, logicVars
<1>1. CASE HttpUpdateNow \/ DfciSARecovery \/ DfciCheck429
  BY <1>1 DEF HttpUpdateNow, DfciSARecovery, DfciCheck429, StartRequest, Fresh
<1>2. CASE UsbUpdateNow
  BY <1>2 DEF UsbUpdateNow
<1>3. CASE NetworkStep
  BY <1>3, NicsKeepCertificates, AnswersKeepCertificates, ExchangeKeepsCertificates
     DEF NetworkStep, RequestStep
<1>4. CASE LocateDrives \/ TryDrive \/ EndOfDrives \/ UsbSearched
  BY <1>4 DEF LocateDrives, TryDrive, EndOfDrives, UsbSearched
<1>5. CASE UsbApplied
  BY <1>5 DEF UsbApplied
<1>6. CASE RebootToFrontPage \/ UnloadImage \/ Reset
  BY <1>6 DEF RebootToFrontPage, UnloadImage, Reset, NewMemory, Fresh
<1>7. CASE UNCHANGED allVars
  BY <1>7 DEF allVars, vars
<1> QED
  BY <1>1, <1>2, <1>3, <1>4, <1>5, <1>6, <1>7 DEF Next, UsbStep

(***************************************************************************)
(* The user's certificates are back when a request has ended, whatever     *)
(* failed in it, save the reading or writing back of the list itself, for  *)
(* every number of NICs and tries.                                         *)
(***************************************************************************)
THEOREM CertificatesComeBack == Spec => []CertificatesRestored
<1>1. CertificateInv => CertificatesRestored
  BY DEF CertificateInv, CertificatesKept, Untouched, CertificatesRestored
<1> QED
  BY <1>1, CertificateInvInit, CertificateInvNext, PTL DEF Spec
-----------------------------------------------------------------------------

(***************************************************************************)
(* An accepted POST that PostAnswered has not seen yet.  Its 202 is not    *)
(* retried, and nothing between changes the status it left.                *)
(***************************************************************************)
Settling ==
    /\ pc \in {"retry", "close", "answered"}
    /\ method = "POST" /\ stage \in accepted
    /\ status = "success" /\ httpStatus = "202"

(***************************************************************************)
(* Once a POST was accepted, DoneProcessing keeps the loop over the NICs   *)
(* from another round; within a round the stages only go forward.          *)
(***************************************************************************)
AcceptedInv ==
    /\ accepted # {} => doneProcessing = TRUE \/ Settling
    /\ stage = "bootstrap" => "recovery" \notin accepted
    /\ stage = "check" => method = "GET" /\ accepted = {}
    /\ pc \in {"build", "configure", "create", "attempt"} /\ method = "POST" => stage \notin accepted
    /\ pc = "retry" /\ method = "POST" /\ stage \in accepted => httpStatus = "202"

LEMMA AcceptedInvInit == Init => AcceptedInv
BY DEF Init, InitRequest, AcceptedInv, Settling

(* The steps before and after the talk with a server. *)
LEMMA QuietStepsKeepAccepted ==
  ASSUME AcceptedInv,
         \/ InitializeNetworkRequest \/ ReadOldCertificate \/ DeleteOldCertificate
         \/ SetDfciCertificate \/ LocateNics \/ EndOfNics \/ EndNic \/ ParseJson
         \/ SelectMessage \/ ExitNetworkRequest
  PROVE  AcceptedInv'
<1> USE DEF AcceptedInv, Settling, logicVars, nicVars, respVars
<1>1. CASE InitializeNetworkRequest
  BY <1>1 DEF InitializeNetworkRequest
<1>2. CASE ReadOldCertificate
  BY <1>2 DEF ReadOldCertificate
<1>3. CASE DeleteOldCertificate
  BY <1>3 DEF DeleteOldCertificate
<1>4. CASE SetDfciCertificate
  BY <1>4 DEF SetDfciCertificate
<1>5. CASE LocateNics
  BY <1>5 DEF LocateNics
<1>6. CASE EndOfNics
  BY <1>6 DEF EndOfNics
<1>7. CASE EndNic
  BY <1>7 DEF EndNic
<1>8. CASE ParseJson
  BY <1>8 DEF ParseJson
<1>9. CASE SelectMessage
  BY <1>9 DEF SelectMessage
<1>10. CASE ExitNetworkRequest
  BY <1>10 DEF ExitNetworkRequest
<1> QED
  BY <1>1, <1>2, <1>3, <1>4, <1>5, <1>6, <1>7, <1>8, <1>9, <1>10

(* One operation: set-up, attempts, retries, tear-down. *)
LEMMA OperationKeepsAccepted ==
  ASSUME AcceptedInv,
         \/ BuildJsonRequest \/ ConfigureHTTP \/ CreateChild \/ ProcessHttpRequest
         \/ RetryOrEnd \/ CloseHttp
  PROVE  AcceptedInv'
<1> USE DEF AcceptedInv, Settling, logicVars, nicVars, respVars
<1>1. CASE BuildJsonRequest
  BY <1>1 DEF BuildJsonRequest
<1>2. CASE ConfigureHTTP
  BY <1>2 DEF ConfigureHTTP, ConfigureDHCP, AwaitAddress
<1>3. CASE CreateChild
  BY <1>3 DEF CreateChild
<1>4. CASE ProcessHttpRequest
  BY <1>4 DEF ProcessHttpRequest, Receive, Codes
<1>5. CASE RetryOrEnd
  <2>1. CASE Again
    BY <1>5, <2>1 DEF RetryOrEnd, Again, Retriable, CleanupResponseAndStatus
  <2>2. CASE ~Again
    BY <1>5, <2>2 DEF RetryOrEnd
  <2> QED
    BY <2>1, <2>2
<1>6. CASE CloseHttp
  BY <1>6 DEF CloseHttp
<1> QED
  BY <1>1, <1>2, <1>3, <1>4, <1>5, <1>6

(* What the main logic and the loop over the NICs make of an answer. *)
LEMMA LogicKeepsAccepted ==
  ASSUME AcceptedInv,
         NextNic \/ PostAnswered \/ GetAnswered \/ CheckAnswered \/ DfciMainLogic
  PROVE  AcceptedInv'
<1> USE DEF AcceptedInv, Settling, logicVars, nicVars, respVars
<1>1. CASE NextNic
  BY <1>1 DEF NextNic, MoreNics
<1>2. CASE PostAnswered
  BY <1>2 DEF PostAnswered
<1>3. CASE GetAnswered
  BY <1>3 DEF GetAnswered
<1>4. CASE CheckAnswered
  BY <1>4 DEF CheckAnswered
<1>5. CASE DfciMainLogic
  BY <1>5 DEF DfciMainLogic, AfterBootstrap, AfterRecovery
<1> QED
  BY <1>1, <1>2, <1>3, <1>4, <1>5

LEMMA AcceptedInvNext == AcceptedInv /\ [Next]_allVars => AcceptedInv'
<1> SUFFICES ASSUME AcceptedInv, [Next]_allVars PROVE AcceptedInv'
  OBVIOUS
<1> USE DEF AcceptedInv, Settling, requestVars, logicVars, nicVars, respVars
<1>1. CASE HttpUpdateNow \/ DfciSARecovery \/ DfciCheck429
  BY <1>1 DEF HttpUpdateNow, DfciSARecovery, DfciCheck429, StartRequest, Fresh
<1>2. CASE UsbUpdateNow
  BY <1>2 DEF UsbUpdateNow
<1>3. CASE NetworkStep
  BY <1>3, QuietStepsKeepAccepted, OperationKeepsAccepted, LogicKeepsAccepted
     DEF NetworkStep, RequestStep
<1>4. CASE LocateDrives \/ TryDrive \/ EndOfDrives \/ UsbSearched
  BY <1>4 DEF LocateDrives, TryDrive, EndOfDrives, UsbSearched
<1>5. CASE UsbApplied
  BY <1>5 DEF UsbApplied
<1>6. CASE RebootToFrontPage \/ UnloadImage \/ Reset
  BY <1>6 DEF RebootToFrontPage, UnloadImage, Reset, NewMemory, Fresh
<1>7. CASE UNCHANGED allVars
  BY <1>7 DEF allVars, vars
<1> QED
  BY <1>1, <1>2, <1>3, <1>4, <1>5, <1>6, <1>7 DEF Next, UsbStep

(***************************************************************************)
(* A POST the server has accepted is sent no second time, neither by a     *)
(* retry nor over another NIC, for every number of either.                 *)
(***************************************************************************)
THEOREM PostedOnce == Spec => []AcceptedOnce
<1>1. AcceptedInv => AcceptedOnce
  BY DEF AcceptedInv, AcceptedOnce
<1> QED
  BY <1>1, AcceptedInvInit, AcceptedInvNext, PTL DEF Spec
-----------------------------------------------------------------------------
UsbSteps == {"usbLocate", "usbDrive", "usbEnd", "usbFailed"}

(* A file never takes the way of a network request, nor the other way      *)
(* round.                                                                  *)
Ways == IF client = "usb" THEN pc \in UsbSteps \cup {"idle", "json", "switch", "done"} /\ stage = "none"
                          ELSE pc \notin UsbSteps

WithNic == {"build", "configure", "create", "attempt", "retry", "close", "answered", "json",
            "switch", "nicDone"}

(***************************************************************************)
(* A NIC is left with the DHCP policy only between the head and the end of *)
(* its round, and DhcpRequested knows of it.                               *)
(***************************************************************************)
NicInv ==
    /\ Ways
    /\ ~nicFault => /\ dhcp = {} \/ (dhcp = {nic} /\ dhcpRequested = TRUE)
                    /\ pc \notin WithNic \/ client = "usb" => dhcp = {}

LEMMA NicInvNext == NicInv /\ [Next]_allVars => NicInv'
<1> SUFFICES ASSUME NicInv, [Next]_allVars PROVE NicInv'
  OBVIOUS
<1> USE DEF NicInv, Ways, UsbSteps, WithNic, requestVars, logicVars, nicVars, respVars, usbVars
<1>1. CASE InitializeNetworkRequest
  BY <1>1 DEF InitializeNetworkRequest
<1>2. CASE ReadOldCertificate
  BY <1>2 DEF ReadOldCertificate
<1>3. CASE DeleteOldCertificate
  BY <1>3 DEF DeleteOldCertificate
<1>4. CASE SetDfciCertificate
  BY <1>4 DEF SetDfciCertificate
<1>5. CASE LocateNics
  BY <1>5 DEF LocateNics
<1>6. CASE NextNic
  BY <1>6 DEF NextNic
<1>7. CASE EndOfNics
  BY <1>7 DEF EndOfNics
<1>8. CASE EndNic
  BY <1>8 DEF EndNic, UnconfigureNIC
<1>9. CASE ConfigureHTTP
  BY <1>9 DEF ConfigureHTTP, ConfigureDHCP, SetDhcpPolicy, UnconfigureNIC, AwaitAddress
<1>10. CASE CreateChild
  BY <1>10 DEF CreateChild
<1>11. CASE ProcessHttpRequest
  BY <1>11 DEF ProcessHttpRequest
<1>12. CASE RetryOrEnd
  BY <1>12 DEF RetryOrEnd
<1>13. CASE CloseHttp
  BY <1>13 DEF CloseHttp
<1>14. CASE PostAnswered
  BY <1>14 DEF PostAnswered
<1>15. CASE GetAnswered
  BY <1>15 DEF GetAnswered
<1>16. CASE CheckAnswered
  BY <1>16 DEF CheckAnswered
<1>17. CASE ParseJson
  BY <1>17 DEF ParseJson
<1>18. CASE BuildJsonRequest
  BY <1>18 DEF BuildJsonRequest
<1>19. CASE DfciMainLogic
  BY <1>19 DEF DfciMainLogic, AfterBootstrap, AfterRecovery
<1>20. CASE SelectMessage
  BY <1>20 DEF SelectMessage
<1>21. CASE ExitNetworkRequest
  BY <1>21 DEF ExitNetworkRequest
<1>22. CASE HttpUpdateNow \/ DfciSARecovery \/ DfciCheck429
  BY <1>22 DEF HttpUpdateNow, DfciSARecovery, DfciCheck429, StartRequest, Fresh
<1>23. CASE UsbUpdateNow
  BY <1>23 DEF UsbUpdateNow
<1>24. CASE LocateDrives \/ TryDrive \/ EndOfDrives \/ UsbSearched
  BY <1>24 DEF LocateDrives, TryDrive, EndOfDrives, UsbSearched, DfciUpdateFromJson
<1>25. CASE UsbApplied
  BY <1>25 DEF UsbApplied
<1>26. CASE RebootToFrontPage \/ UnloadImage \/ Reset
  BY <1>26 DEF RebootToFrontPage, UnloadImage, Reset, NewMemory, Fresh
<1>27. CASE UNCHANGED allVars
  BY <1>27 DEF allVars, vars
<1> QED
  BY <1>1, <1>2, <1>3, <1>4, <1>5, <1>6, <1>7, <1>8, <1>9, <1>10, <1>11, <1>12, <1>13,
     <1>14, <1>15, <1>16, <1>17, <1>18, <1>19, <1>20, <1>21, <1>22, <1>23, <1>24,
     <1>25, <1>26, <1>27
     DEF Next, NetworkStep, RequestStep, UsbStep

(* A NIC that was given the DHCP policy has lost it when the request ends. *)
THEOREM NicsComeBack == Spec => []NicRestored
<1>1. Init => NicInv
  BY DEF Init, InitRequest, NicInv, Ways, UsbSteps, WithNic
<1>2. NicInv => NicRestored
  BY DEF NicInv, NicRestored, WithNic
<1> QED
  BY <1>1, <1>2, NicInvNext, PTL DEF Spec
-----------------------------------------------------------------------------
Before == {"init", "readCertificate", "deleteCertificate", "setCertificate", "locate"}
Talk   == {"build", "configure", "create", "attempt", "retry", "close", "answered"}
After  == {"switch", "nicDone", "nextNic", "message", "exit", "done"}

(***************************************************************************)
(* What a network request has written, step by step.  A packet is written  *)
(* only after a POST was accepted, which ends the loop over the NICs; and  *)
(* a bootstrap that wrote one is not followed by a recovery.               *)
(***************************************************************************)
Written ==
    /\ ~doneProcessing => setBy = {}
    /\ method = "GET" /\ stage # "check" => doneProcessing
    /\ status = "mediaChanged" => doneProcessing /\ pc \in After \cup {"idle"}
    /\ pc \in Before \cup Talk => setBy = {}
    /\ pc = "json" => /\ table = stage /\ doneProcessing
                      /\ changed => setBy = {stage} /\ mailbox
                      /\ ~changed => setBy = {}
    /\ pc = "switch" => /\ status = "mediaChanged" => setBy = {stage} /\ mailbox
                        /\ status \in {"success", "notFound"} => setBy = {}

(* What the logic makes of it, until the message is chosen.                *)
Concluded ==
    pc \in {"nicDone", "nextNic", "message"} =>
        /\ status = "success" /\ logicState = "NO_RECOVERY_AVAILABLE" => setBy = {}
        /\ status = "mediaChanged" /\ logicState = "BOOTSTRAP_COMPLETE"
              => setBy = {"bootstrap"} /\ mailbox
        /\ status = "mediaChanged" /\ logicState = "RECOVERY_COMPLETE"
              => setBy = {"recovery"} /\ mailbox

MessageInv ==
    /\ Ways
    /\ MessageIsTrue
    /\ message # "none" => pc \in {"exit", "done"} /\ client # "usb"
    /\ changed \in BOOLEAN /\ mailbox \in BOOLEAN /\ doneProcessing \in BOOLEAN
    /\ client # "usb" => Written /\ Concluded

LEMMA MessageInvNext == MessageInv /\ [Next]_allVars => MessageInv'
<1> SUFFICES ASSUME MessageInv, [Next]_allVars PROVE MessageInv'
  OBVIOUS
<1> USE DEF MessageInv, Ways, UsbSteps, MessageIsTrue, Written, Concluded, Before, Talk, After, requestVars, logicVars,
            nicVars, respVars, usbVars, jsonVars
<1>1. CASE InitializeNetworkRequest
  BY <1>1 DEF InitializeNetworkRequest
<1>2. CASE ReadOldCertificate
  BY <1>2 DEF ReadOldCertificate
<1>3. CASE DeleteOldCertificate
  BY <1>3 DEF DeleteOldCertificate
<1>4. CASE SetDfciCertificate
  BY <1>4 DEF SetDfciCertificate
<1>5. CASE LocateNics
  BY <1>5 DEF LocateNics
<1>6. CASE NextNic
  BY <1>6 DEF NextNic, MoreNics
<1>7. CASE EndOfNics
  BY <1>7 DEF EndOfNics
<1>8. CASE EndNic
  BY <1>8 DEF EndNic
<1>9. CASE ConfigureHTTP
  BY <1>9 DEF ConfigureHTTP, ConfigureDHCP, AwaitAddress
<1>10. CASE CreateChild
  BY <1>10 DEF CreateChild
<1>11. CASE ProcessHttpRequest
  BY <1>11 DEF ProcessHttpRequest, HeadersFail, ExchangeFails
<1>12. CASE RetryOrEnd
  BY <1>12 DEF RetryOrEnd
<1>13. CASE CloseHttp
  BY <1>13 DEF CloseHttp
<1>14. CASE PostAnswered
  BY <1>14 DEF PostAnswered, Failed
<1>15. CASE GetAnswered
  BY <1>15 DEF GetAnswered, DfciUpdateFromJson, Failed
<1>16. CASE CheckAnswered
  BY <1>16 DEF CheckAnswered, Failed
<1>17. CASE ParseJson
  BY <1>17 DEF ParseJson, ProcessPacket, ProcessFails, EndOfJson
<1>18. CASE BuildJsonRequest
  BY <1>18 DEF BuildJsonRequest
<1>19. CASE DfciMainLogic
  BY <1>19 DEF DfciMainLogic, AfterBootstrap, AfterRecovery, NoUpdates
<1>20. CASE SelectMessage
  BY <1>20 DEF SelectMessage, MessageOf
<1>21. CASE ExitNetworkRequest
  BY <1>21 DEF ExitNetworkRequest
<1>22. CASE HttpUpdateNow \/ DfciSARecovery \/ DfciCheck429
  BY <1>22 DEF HttpUpdateNow, DfciSARecovery, DfciCheck429, StartRequest, Fresh
<1>23. CASE UsbUpdateNow
  BY <1>23 DEF UsbUpdateNow
<1>24. CASE LocateDrives \/ TryDrive \/ EndOfDrives \/ UsbSearched
  BY <1>24 DEF LocateDrives, TryDrive, EndOfDrives, UsbSearched, DfciUpdateFromJson
<1>25. CASE UsbApplied
  BY <1>25 DEF UsbApplied
<1>26. CASE RebootToFrontPage \/ UnloadImage \/ Reset
  BY <1>26 DEF RebootToFrontPage, UnloadImage, Reset, NewMemory, Fresh
<1>27. CASE UNCHANGED allVars
  BY <1>27 DEF allVars, vars
<1> QED
  BY <1>1, <1>2, <1>3, <1>4, <1>5, <1>6, <1>7, <1>8, <1>9, <1>10, <1>11, <1>12, <1>13,
     <1>14, <1>15, <1>16, <1>17, <1>18, <1>19, <1>20, <1>21, <1>22, <1>23, <1>24,
     <1>25, <1>26, <1>27
     DEF Next, NetworkStep, RequestStep, UsbStep

(* The message to the user agrees with what the request has written.       *)
THEOREM MessagesAreTrue == Spec => []MessageIsTrue
<1>1. Init => MessageInv
  BY DEF Init, InitRequest, MessageInv, MessageIsTrue, Ways, UsbSteps, Written, Concluded,
         Before, Talk, After
<1>2. MessageInv => MessageIsTrue
  BY DEF MessageInv
<1> QED
  BY <1>1, <1>2, MessageInvNext, PTL DEF Spec
-----------------------------------------------------------------------------
(***************************************************************************)
(* A retry of a GET follows an attempt whose response took the place of    *)
(* the headers of the POST, so the headers it frees are its own.           *)
(***************************************************************************)
AliveInv ==
    /\ locationFreed = FALSE
    /\ pc = "retry" => headers = method
    /\ httpProtocol = TRUE => child = TRUE
    /\ httpProtocol \in BOOLEAN

LEMMA AliveInvNext == AliveInv /\ [Next]_allVars => AliveInv'
<1> SUFFICES ASSUME AliveInv, [Next]_allVars PROVE AliveInv'
  OBVIOUS
<1> USE DEF AliveInv, requestVars, logicVars, nicVars, httpVars, respVars, usbVars
<1>1. CASE InitializeNetworkRequest
  BY <1>1 DEF InitializeNetworkRequest
<1>2. CASE ReadOldCertificate
  BY <1>2 DEF ReadOldCertificate
<1>3. CASE DeleteOldCertificate
  BY <1>3 DEF DeleteOldCertificate
<1>4. CASE SetDfciCertificate
  BY <1>4 DEF SetDfciCertificate, RestoreCertificates
<1>5. CASE LocateNics
  BY <1>5 DEF LocateNics
<1>6. CASE NextNic
  BY <1>6 DEF NextNic
<1>7. CASE EndOfNics
  BY <1>7 DEF EndOfNics
<1>8. CASE EndNic
  BY <1>8 DEF EndNic
<1>9. CASE ConfigureHTTP
  BY <1>9 DEF ConfigureHTTP, ConfigureDHCP, AwaitAddress
<1>10. CASE CreateChild
  BY <1>10 DEF CreateChild, StartOfRetries
<1>11. CASE ProcessHttpRequest
  BY <1>11 DEF ProcessHttpRequest, Receive
<1>12. CASE RetryOrEnd
  BY <1>12 DEF RetryOrEnd, CleanupResponseAndStatus
<1>13. CASE CloseHttp
  BY <1>13 DEF CloseHttp
<1>14. CASE PostAnswered
  BY <1>14 DEF PostAnswered
<1>15. CASE GetAnswered
  BY <1>15 DEF GetAnswered
<1>16. CASE CheckAnswered
  BY <1>16 DEF CheckAnswered
<1>17. CASE ParseJson
  BY <1>17 DEF ParseJson
<1>18. CASE BuildJsonRequest
  BY <1>18 DEF BuildJsonRequest
<1>19. CASE DfciMainLogic
  BY <1>19 DEF DfciMainLogic, AfterBootstrap, AfterRecovery
<1>20. CASE SelectMessage
  BY <1>20 DEF SelectMessage
<1>21. CASE ExitNetworkRequest
  BY <1>21 DEF ExitNetworkRequest, RestoreCertificates, CleanupResponseAndStatus
<1>22. CASE HttpUpdateNow \/ DfciSARecovery \/ DfciCheck429
  BY <1>22 DEF HttpUpdateNow, DfciSARecovery, DfciCheck429, StartRequest, Fresh
<1>23. CASE UsbUpdateNow
  BY <1>23 DEF UsbUpdateNow
<1>24. CASE LocateDrives \/ TryDrive \/ EndOfDrives \/ UsbSearched
  BY <1>24 DEF LocateDrives, TryDrive, EndOfDrives, UsbSearched, DfciUpdateFromJson
<1>25. CASE UsbApplied
  BY <1>25 DEF UsbApplied
<1>26. CASE RebootToFrontPage \/ UnloadImage \/ Reset
  BY <1>26 DEF RebootToFrontPage, UnloadImage, Reset, NewMemory, Fresh
<1>27. CASE UNCHANGED allVars
  BY <1>27 DEF allVars, vars
<1> QED
  BY <1>1, <1>2, <1>3, <1>4, <1>5, <1>6, <1>7, <1>8, <1>9, <1>10, <1>11, <1>12, <1>13,
     <1>14, <1>15, <1>16, <1>17, <1>18, <1>19, <1>20, <1>21, <1>22, <1>23, <1>24,
     <1>25, <1>26, <1>27
     DEF Next, NetworkStep, RequestStep, UsbStep

(* The URL of a GET and the protocol a wait polls are alive when used.     *)
THEOREM WhatIsUsedIsAlive == Spec => []NothingFreedIsUsed
<1>1. Init => AliveInv
  BY DEF Init, InitRequest, AliveInv
<1>2. AliveInv => NothingFreedIsUsed
  BY DEF AliveInv, NothingFreedIsUsed
<1> QED
  BY <1>1, <1>2, AliveInvNext, PTL DEF Spec
-----------------------------------------------------------------------------
(***************************************************************************)
(* What the types rest on: an attempt has a try left to spend; the loop    *)
(* over the NICs counts from nothing, and is at one of them whenever a     *)
(* policy can be set; an operation belongs to a stage; and a saved list of *)
(* certificates is one the machine had.                                    *)
(***************************************************************************)
TypeInv ==
    /\ Ways
    /\ DfciTypeOK
    /\ pc = "attempt" => retryCount > 0
    /\ pc \in Before \cup {"idle"} => nic = 0
    /\ pc \in WithNic /\ client # "usb" => nic > 0
    /\ method # "none" => stage # "none"
    /\ method = "POST" => stage # "check"
    /\ oldCertificate \in {"absent", "user", "dfci"}

LEMMA RequestStepKeepsTypes ==
  ASSUME TypeInv, NetworkStep
  PROVE  TypeInv'
<1> USE RequestAssumption, MenuAssumption
<1> USE DEF TypeInv, DfciTypeOK, Ways, UsbSteps, Before, WithNic, Statuses, Clients, Tables, Codes,
            requestVars, logicVars, nicVars, respVars, certVars, usbVars, jsonVars
<1>0. UNCHANGED usbVars
  BY DEF NetworkStep
<1>1. CASE InitializeNetworkRequest
  BY <1>0, <1>1 DEF InitializeNetworkRequest
<1>2. CASE ReadOldCertificate
  BY <1>0, <1>2 DEF ReadOldCertificate
<1>3. CASE DeleteOldCertificate
  BY <1>0, <1>3 DEF DeleteOldCertificate
<1>4. CASE SetDfciCertificate
  BY <1>0, <1>4 DEF SetDfciCertificate, RestoreCertificates
<1>5. CASE LocateNics
  BY <1>0, <1>5 DEF LocateNics
<1>6. CASE NextNic
  BY <1>0, <1>6 DEF NextNic, MoreNics
<1>7. CASE EndOfNics
  BY <1>0, <1>7 DEF EndOfNics
<1>8. CASE EndNic
  <2>1. nic \in Nat /\ nic' = nic /\ dhcp' \in {dhcp, dhcp \ {nic}}
    BY <1>8 DEF EndNic, UnconfigureNIC
  <2>2. dhcp' \subseteq 1 .. nic'
    BY <2>1
  <2>3. UNCHANGED <<jsonVars, status, logicVars, nicCount, httpVars, retryCount, respVars, certVars>>
        /\ pc = "nicDone" /\ pc' = "nextNic"
    BY <1>8 DEF EndNic
  <2> QED BY <1>0, <2>1, <2>2, <2>3
<1>9. CASE ConfigureHTTP
  <2>1. /\ UNCHANGED <<jsonVars, logicVars, nic, nicCount, retryCount, respVars, certVars>>
        /\ pc = "configure" /\ pc' \in {"create", "answered"} /\ status' \in {status, "error"}
        /\ dhcp' \subseteq dhcp \cup {nic}
    BY <1>9 DEF ConfigureHTTP, ConfigureDHCP, SetDhcpPolicy, UnconfigureNIC, AwaitAddress
  <2>2. nic \in Nat /\ nic > 0 /\ nic' = nic
    BY <2>1
  <2>3. dhcp' \subseteq 1 .. nic'
    BY <2>1, <2>2
  <2> QED BY <1>0, <2>1, <2>2, <2>3
<1>10. CASE CreateChild
  BY <1>0, <1>10 DEF CreateChild, StartOfRetries
<1>11. CASE ProcessHttpRequest
  <2>1. /\ UNCHANGED <<jsonVars, nicVars, certVars, client, stage, method, setBy>>
        /\ pc = "attempt" /\ pc' \in {"close", "retry"} /\ retryCount' = retryCount - 1
        /\ status' \in {"success", "notFound", "error"}
    BY <1>11 DEF ProcessHttpRequest, SpendRetry, HeadersFail, ExchangeFails
  <2>2. httpStatus' \in Codes /\ headers' \in {headers, method} /\ body' \in {body, "this"}
    BY <1>11 DEF ProcessHttpRequest, Receive
  <2>3. accepted' = accepted \/ (method = "POST" /\ accepted' = accepted \cup {stage})
    BY <1>11 DEF ProcessHttpRequest
  <2>4. retryCount' \in 0 .. Tries
    BY <2>1
  <2>5. accepted' \subseteq {"bootstrap", "recovery"}
    BY <2>3
  <2> QED BY <1>0, <2>1, <2>2, <2>4, <2>5
<1>12. CASE RetryOrEnd
  BY <1>0, <1>12 DEF RetryOrEnd, Again, CleanupResponseAndStatus
<1>13. CASE CloseHttp
  BY <1>0, <1>13 DEF CloseHttp
<1>14. CASE PostAnswered
  BY <1>0, <1>14 DEF PostAnswered, Failed
<1>15. CASE GetAnswered
  <2>1. (mailbox \in BOOLEAN /\ changed \in BOOLEAN)'
    BY <1>0, <1>15, Zenon DEF GetAnswered, DfciUpdateFromJson
  <2> QED BY <2>1, <1>0, <1>15 DEF GetAnswered, DfciUpdateFromJson, Failed
<1>16. CASE CheckAnswered
  BY <1>0, <1>16 DEF CheckAnswered
<1>17. CASE ParseJson
  <2>1. (mailbox \in BOOLEAN /\ changed \in BOOLEAN)'
    BY <1>0, <1>17, Zenon DEF ParseJson, ProcessPacket, ProcessFails, EndOfJson
  <2>2. pc = "json" /\ pc' \in {"json", "switch"} /\ table' \in {table, "none"}
        /\ status' \in {status, "error", "mediaChanged", "success", "notFound"}
    BY <1>17 DEF ParseJson, ProcessPacket, ProcessFails, EndOfJson
  <2>3. setBy' \subseteq Tables
    BY <1>17 DEF ParseJson, ProcessPacket
  <2>4. UNCHANGED <<client, stage, method, accepted, nicVars, retryCount, respVars, certVars>>
    BY <1>17 DEF ParseJson
  <2> QED BY <1>0, <2>1, <2>2, <2>3, <2>4
<1>18. CASE BuildJsonRequest
  BY <1>0, <1>18 DEF BuildJsonRequest
<1>19. CASE DfciMainLogic
  BY <1>0, <1>19 DEF DfciMainLogic, AfterBootstrap, AfterRecovery
<1>20. CASE SelectMessage
  BY <1>0, <1>20 DEF SelectMessage
<1>21. CASE ExitNetworkRequest
  BY <1>0, <1>21 DEF ExitNetworkRequest, RestoreCertificates, CleanupResponseAndStatus
<1> QED
  BY <1>1, <1>2, <1>3, <1>4, <1>5, <1>6, <1>7, <1>8, <1>9, <1>10, <1>11, <1>12, <1>13, <1>14, <1>15, <1>16, <1>17, <1>18, <1>19, <1>20, <1>21
     DEF NetworkStep, RequestStep

LEMMA TypeInvNext == TypeInv /\ [Next]_allVars => TypeInv'
<1> SUFFICES ASSUME TypeInv, [Next]_allVars PROVE TypeInv'
  OBVIOUS
<1> USE RequestAssumption, MenuAssumption
<1> USE DEF TypeInv, DfciTypeOK, Ways, UsbSteps, Before, WithNic, Statuses, Clients, Tables, Codes,
            requestVars, logicVars, nicVars, respVars, certVars, usbVars, jsonVars
<1>1. CASE HttpUpdateNow \/ DfciSARecovery \/ DfciCheck429
  BY <1>1 DEF HttpUpdateNow, DfciSARecovery, DfciCheck429, StartRequest, Fresh
<1>2. CASE UsbUpdateNow
  BY <1>2 DEF UsbUpdateNow
<1>3. CASE LocateDrives \/ TryDrive \/ EndOfDrives \/ UsbSearched
  <2>1. (mailbox \in BOOLEAN /\ changed \in BOOLEAN)'
    BY <1>3, Zenon DEF LocateDrives, TryDrive, EndOfDrives, UsbSearched, DfciUpdateFromJson
  <2>2. CASE LocateDrives
    BY <2>2 DEF LocateDrives
  <2>3. CASE TryDrive
    BY <2>3 DEF TryDrive
  <2>4. CASE EndOfDrives
    BY <2>4 DEF EndOfDrives
  <2>5. CASE UsbSearched
    BY <2>1, <2>5 DEF UsbSearched, DfciUpdateFromJson
  <2> QED BY <1>3, <2>2, <2>3, <2>4, <2>5
<1>4. CASE UsbApplied
  BY <1>4 DEF UsbApplied
<1>5. CASE RebootToFrontPage \/ UnloadImage \/ Reset
  <2>1. (mailbox \in BOOLEAN /\ changed \in BOOLEAN)'
    BY <1>5, Zenon DEF RebootToFrontPage, UnloadImage, Reset, NewMemory
  <2> QED BY <2>1, <1>5 DEF RebootToFrontPage, UnloadImage, Reset, NewMemory, Fresh
<1>6. CASE UNCHANGED allVars
  BY <1>6 DEF allVars, vars
<1>7. CASE NetworkStep
  BY <1>7, RequestStepKeepsTypes
<1> QED
  BY <1>1, <1>2, <1>3, <1>4, <1>5, <1>6, <1>7 DEF Next, UsbStep

LEMMA TypeInvInit == Init => TypeInv
<1> SUFFICES ASSUME Init PROVE TypeInv
  OBVIOUS
<1>1. mailbox \in BOOLEAN /\ changed \in BOOLEAN
  BY Zenon DEF Init, InitRequest
<1> QED
  BY <1>1, RequestAssumption, MenuAssumption
     DEF Init, InitRequest, TypeInv, DfciTypeOK, Ways, UsbSteps, Before, WithNic, Statuses,
         Clients, Tables, Codes

(* The variables hold what the code can put there: an attempt never spends *)
(* a try it does not have, the loop over the NICs stays inside the list of *)
(* handles, and only NICs it has come to are given a policy.               *)
THEOREM DfciTypes == Spec => []DfciTypeOK
<1>1. TypeInv => DfciTypeOK
  BY DEF TypeInv
<1> QED
  BY <1>1, TypeInvInit, TypeInvNext, PTL DEF Spec
-----------------------------------------------------------------------------
(***************************************************************************)
(* Why a packet belongs to an accepted stage.  Of the POST's answer the    *)
(* success and the 202 show that it was accepted, from the attempt until   *)
(* the main logic turns to the GET; the GET and the parse are then of that *)
(* stage.  A file has no stage, and no packet but its own.                 *)
(***************************************************************************)
Answering == {"retry", "close", "answered"}

AnswerInv ==
    /\ Ways
    /\ client # "usb" =>
          /\ pc \in Answering /\ method = "POST" /\ status = "success" /\ httpStatus = "202"
                => stage \in accepted
          /\ method = "GET" /\ stage # "check" => stage \in accepted
          /\ pc = "json" => method = "GET" /\ stage # "check"
    /\ client = "usb" =>
          /\ accepted = {} /\ setBy \subseteq {"usb"}
          /\ pc = "json" => table = "usb"

LEMMA AnswerInvNext == AnswerInv /\ [Next]_allVars => AnswerInv'
<1> SUFFICES ASSUME AnswerInv, [Next]_allVars PROVE AnswerInv'
  OBVIOUS
<1> USE DEF AnswerInv, Answering, Ways, UsbSteps, requestVars, logicVars, nicVars, respVars, usbVars, jsonVars
<1>1. CASE InitializeNetworkRequest
  BY <1>1 DEF InitializeNetworkRequest
<1>2. CASE ReadOldCertificate
  BY <1>2 DEF ReadOldCertificate
<1>3. CASE DeleteOldCertificate
  BY <1>3 DEF DeleteOldCertificate
<1>4. CASE SetDfciCertificate
  BY <1>4 DEF SetDfciCertificate
<1>5. CASE LocateNics
  BY <1>5 DEF LocateNics
<1>6. CASE NextNic
  BY <1>6 DEF NextNic
<1>7. CASE EndOfNics
  BY <1>7 DEF EndOfNics
<1>8. CASE EndNic
  BY <1>8 DEF EndNic
<1>9. CASE ConfigureHTTP
  BY <1>9 DEF ConfigureHTTP, ConfigureDHCP, AwaitAddress
<1>10. CASE CreateChild
  BY <1>10 DEF CreateChild
<1>11. CASE ProcessHttpRequest
  BY <1>11 DEF ProcessHttpRequest, HeadersFail, ExchangeFails, Receive
<1>12. CASE RetryOrEnd
  BY <1>12 DEF RetryOrEnd, CleanupResponseAndStatus
<1>13. CASE CloseHttp
  BY <1>13 DEF CloseHttp
<1>14. CASE PostAnswered
  BY <1>14 DEF PostAnswered
<1>15. CASE GetAnswered
  BY <1>15 DEF GetAnswered, DfciUpdateFromJson
<1>16. CASE CheckAnswered
  BY <1>16 DEF CheckAnswered
<1>17. CASE ParseJson
  BY <1>17 DEF ParseJson, ProcessPacket, ProcessFails, EndOfJson
<1>18. CASE BuildJsonRequest
  BY <1>18 DEF BuildJsonRequest
<1>19. CASE DfciMainLogic
  BY <1>19 DEF DfciMainLogic, AfterBootstrap, AfterRecovery
<1>20. CASE SelectMessage
  BY <1>20 DEF SelectMessage
<1>21. CASE ExitNetworkRequest
  BY <1>21 DEF ExitNetworkRequest
<1>22. CASE HttpUpdateNow \/ DfciSARecovery \/ DfciCheck429
  BY <1>22 DEF HttpUpdateNow, DfciSARecovery, DfciCheck429, StartRequest, Fresh
<1>23. CASE UsbUpdateNow
  BY <1>23 DEF UsbUpdateNow
<1>24. CASE LocateDrives \/ TryDrive \/ EndOfDrives \/ UsbSearched
  BY <1>24 DEF LocateDrives, TryDrive, EndOfDrives, UsbSearched, DfciUpdateFromJson
<1>25. CASE UsbApplied
  BY <1>25 DEF UsbApplied
<1>26. CASE RebootToFrontPage \/ UnloadImage \/ Reset
  BY <1>26 DEF RebootToFrontPage, UnloadImage, Reset, NewMemory, Fresh
<1>27. CASE UNCHANGED allVars
  BY <1>27 DEF allVars, vars
<1> QED
  BY <1>1, <1>2, <1>3, <1>4, <1>5, <1>6, <1>7, <1>8, <1>9, <1>10, <1>11, <1>12, <1>13,
     <1>14, <1>15, <1>16, <1>17, <1>18, <1>19, <1>20, <1>21, <1>22, <1>23, <1>24,
     <1>25, <1>26, <1>27
     DEF Next, NetworkStep, RequestStep, UsbStep

(* The steps that do nothing the server or the user knows of, and write    *)
(* nothing for the next boot.                                              *)
Quiet == pc # "idle" /\ pc' # "idle" /\ UNCHANGED <<accepted, setBy, mailbox, message>>

LEMMA QuietIsAStutter == Quiet => UNCHANGED Request!vars
BY DEF Quiet, Request!vars

LEMMA MostStepsAreQuiet ==
  ASSUME \/ InitializeNetworkRequest \/ ReadOldCertificate \/ DeleteOldCertificate
         \/ SetDfciCertificate \/ LocateNics \/ NextNic \/ EndOfNics \/ EndNic \/ ConfigureHTTP
         \/ CreateChild \/ RetryOrEnd \/ CloseHttp \/ PostAnswered \/ GetAnswered \/ CheckAnswered
         \/ BuildJsonRequest \/ DfciMainLogic \/ ExitNetworkRequest \/ UsbStep
  PROVE  Quiet
<1> USE DEF Quiet, requestVars, logicVars, usbVars, jsonVars
<1>1. CASE InitializeNetworkRequest \/ ReadOldCertificate \/ DeleteOldCertificate \/ SetDfciCertificate
  BY <1>1 DEF InitializeNetworkRequest, ReadOldCertificate, DeleteOldCertificate, SetDfciCertificate
<1>2. CASE LocateNics \/ NextNic \/ EndOfNics \/ EndNic
  BY <1>2 DEF LocateNics, NextNic, EndOfNics, EndNic
<1>3. CASE ConfigureHTTP \/ CreateChild \/ RetryOrEnd \/ CloseHttp
  BY <1>3 DEF ConfigureHTTP, ConfigureDHCP, AwaitAddress, CreateChild, RetryOrEnd, CloseHttp
<1>4. CASE PostAnswered \/ GetAnswered \/ CheckAnswered
  BY <1>4 DEF PostAnswered, GetAnswered, CheckAnswered, DfciUpdateFromJson
<1>5. CASE BuildJsonRequest \/ DfciMainLogic \/ ExitNetworkRequest
  BY <1>5 DEF BuildJsonRequest, DfciMainLogic, AfterBootstrap, AfterRecovery, ExitNetworkRequest
<1>6. CASE UsbStep
  BY <1>6 DEF UsbStep, LocateDrives, TryDrive, EndOfDrives, UsbSearched, UsbApplied, DfciUpdateFromJson
<1> QED BY <1>1, <1>2, <1>3, <1>4, <1>5, <1>6

RequestInv == MessageInv /\ TypeInv /\ AnswerInv

(* A 202 is an acceptance: nothing was written for this request before.    *)
LEMMA AttemptMayBeAccepted ==
  ASSUME RequestInv, ProcessHttpRequest
  PROVE  Quiet \/ \E s \in {"bootstrap", "recovery"} : Request!Accept(s)
<1>1. pc = "attempt" /\ pc' # "idle" /\ UNCHANGED <<setBy, mailbox, message>>
  BY DEF ProcessHttpRequest, jsonVars, logicVars
<1>2. client # "usb" /\ setBy = {} /\ message = "none"
  BY <1>1 DEF RequestInv, MessageInv, Ways, UsbSteps, Written, Talk
<1>3. CASE accepted' = accepted
  BY <1>1, <1>3 DEF Quiet
<1>4. CASE method = "POST" /\ accepted' = accepted \cup {stage}
  <2>1. stage \in {"bootstrap", "recovery"}
    BY <1>4 DEF RequestInv, TypeInv, DfciTypeOK
  <2>2. Request!Accept(stage)
    BY <1>1, <1>2, <1>4 DEF Request!Accept
  <2> QED BY <2>1, <2>2
<1> QED BY <1>3, <1>4 DEF ProcessHttpRequest, logicVars

(* A packet is one of the stage that was accepted, or of the file.         *)
LEMMA PacketIsAccepted ==
  ASSUME RequestInv, ParseJson
  PROVE  Quiet \/ \E t \in {"bootstrap", "recovery", "usb"} : Request!Apply(t)
<1>1. pc = "json" /\ pc' # "idle" /\ UNCHANGED <<accepted, message>>
  BY DEF ParseJson, ProcessPacket, ProcessFails, EndOfJson
<1>2. message = "none"
  BY <1>1 DEF RequestInv, MessageInv
<1>3. CASE UNCHANGED <<setBy, mailbox>>
  BY <1>1, <1>3 DEF Quiet
<1>4. CASE mailbox' = TRUE /\ setBy' = setBy \cup {table}
  <2>1. CASE client = "usb"
    <3>1. table = "usb" /\ accepted = {} /\ setBy \subseteq {"usb"}
      BY <1>1, <2>1 DEF RequestInv, AnswerInv
    <3>2. Request!Apply("usb")
      BY <1>1, <1>2, <1>4, <3>1 DEF Request!Apply
    <3> QED BY <3>2
  <2>2. CASE client # "usb"
    <3>1. table = stage /\ setBy \subseteq {stage}
      BY <1>1, <2>2 DEF RequestInv, MessageInv, Written
    <3>2. stage \in accepted /\ stage # "check"
      BY <1>1, <2>2 DEF RequestInv, AnswerInv
    <3>3. stage \in {"bootstrap", "recovery"}
      BY <3>2 DEF RequestInv, TypeInv, DfciTypeOK
    <3>4. Request!Apply(stage)
      BY <1>1, <1>2, <1>4, <3>1, <3>2 DEF Request!Apply
    <3> QED BY <3>3, <3>4
  <2> QED BY <2>1, <2>2
<1> QED BY <1>3, <1>4 DEF ParseJson, ProcessPacket, ProcessFails, EndOfJson

(* What is told is true of what was written.                               *)
LEMMA MessageIsTold ==
  ASSUME RequestInv, SelectMessage
  PROVE  Quiet \/ \E m \in {"error", "noUpdates", "restart", "applied"} : Request!Tell(m)
<1>1. /\ pc = "message" /\ pc' # "idle" /\ UNCHANGED <<accepted, setBy, mailbox>>
      /\ message' \in {MessageOf, "none"}
  BY DEF SelectMessage, jsonVars
<1>2. message = "none" /\ client # "usb"
  BY <1>1 DEF RequestInv, MessageInv, Ways, UsbSteps
<1>3. CASE message' = "none"
  BY <1>1, <1>2, <1>3 DEF Quiet
<1>4. CASE message' = MessageOf
  <2>1. MessageOf \in {"error", "noUpdates", "restart", "applied"}
    BY DEF MessageOf
  <2>2. Request!IsTrue(MessageOf)
    BY <1>1, <1>2 DEF RequestInv, MessageInv, Concluded, MessageOf, Request!IsTrue
  <2>3. Request!Tell(MessageOf)
    BY <1>1, <1>2, <1>4, <2>2 DEF Request!Tell
  <2> QED BY <2>1, <2>3
<1> QED BY <1>1, <1>3, <1>4

LEMMA StepOfARequest == RequestInv /\ [Next]_allVars => [Request!Next]_(Request!vars)
<1> SUFFICES ASSUME RequestInv, [Next]_allVars PROVE [Request!Next]_(Request!vars)
  OBVIOUS
<1>1. CASE HttpUpdateNow \/ DfciSARecovery \/ DfciCheck429
  <2>1. Request!Ask
    BY <1>1 DEF HttpUpdateNow, DfciSARecovery, DfciCheck429, StartRequest, Fresh, jsonVars,
                Request!Ask, Request!Nothing
  <2> QED BY <2>1 DEF Request!Next
<1>2. CASE UsbUpdateNow
  <2>1. Request!Ask
    BY <1>2 DEF UsbUpdateNow, jsonVars, Request!Ask, Request!Nothing
  <2> QED BY <2>1 DEF Request!Next
<1>3. CASE RebootToFrontPage \/ UnloadImage \/ Reset
  <2>1. Request!Forget
    BY <1>3 DEF RebootToFrontPage, UnloadImage, Reset, NewMemory, Fresh, Request!Forget, Request!Nothing
  <2> QED BY <2>1 DEF Request!Next
<1>4. CASE NetworkStep \/ UsbStep
  BY <1>4, MostStepsAreQuiet, QuietIsAStutter, AttemptMayBeAccepted, PacketIsAccepted, MessageIsTold
     DEF NetworkStep, RequestStep, Request!Next
<1>5. CASE UNCHANGED allVars
  BY <1>5 DEF allVars, vars, logicVars, jsonVars, Request!vars
<1> QED BY <1>1, <1>2, <1>3, <1>4, <1>5 DEF Next

(* Requests over the network, by the recovery driver, by DfciCheck429 and  *)
(* from a file implement the abstract request, for every number of NICs,   *)
(* tries and drives.                                                       *)
THEOREM RequestsKeepTheirPromise == Spec => ImplementsRequest
<1>1. Init => RequestInv /\ Request!Init
  <2> SUFFICES ASSUME Init PROVE RequestInv /\ Request!Init
    OBVIOUS
  <2>1. MessageInv
    BY DEF Init, InitRequest, MessageInv, MessageIsTrue, Ways, UsbSteps, Written, Concluded,
           Before, Talk, After
  <2>2. TypeInv
    BY TypeInvInit
  <2>3. AnswerInv
    BY DEF Init, InitRequest, AnswerInv, Answering, Ways, UsbSteps
  <2>4. Request!Init
    BY DEF Init, InitRequest, Request!Init, Request!Nothing
  <2> QED BY <2>1, <2>2, <2>3, <2>4 DEF RequestInv
<1>2. RequestInv /\ [Next]_allVars => RequestInv'
  BY MessageInvNext, TypeInvNext, AnswerInvNext DEF RequestInv
<1> QED
  BY <1>1, <1>2, StepOfARequest, PTL DEF Spec, ImplementsRequest, Request!Spec
-----------------------------------------------------------------------------
(***************************************************************************)
(* Why a request comes to its end, for every number of NICs and tries: its *)
(* certificates are exchanged once, the loop over the NICs goes forward,   *)
(* an operation is followed only by a later one of the four, and within it *)
(* each attempt spends a try.  The step that stands still is that to the   *)
(* next element of a response, of which there are finitely many.           *)
(***************************************************************************)
Part == CASE pc \in Before                -> 2
          [] pc \in WithNic \cup {"nextNic"} -> 1
          [] OTHER                        -> 0

NicsLeft == nicCount - nic

OperationsLeft == CASE stage = "bootstrap" /\ method = "POST" -> 3
                    [] stage = "bootstrap" /\ method # "POST" -> 2
                    [] stage = "recovery"  /\ method = "POST" -> 1
                    [] OTHER                                  -> 0

StepsLeft == CASE pc = "init" -> 4 [] pc = "readCertificate" -> 3 [] pc = "deleteCertificate" -> 2
               [] pc = "setCertificate" -> 1
               [] pc = "build"   -> 2 * Tries + 9
               [] pc = "configure" -> 2 * Tries + 8
               [] pc = "create"  -> 2 * Tries + 7
               [] pc = "attempt" -> 2 * retryCount + 5
               [] pc = "retry"   -> 2 * retryCount + 6
               [] pc = "close" -> 5 [] pc = "answered" -> 4 [] pc = "json" -> 3 [] pc = "switch" -> 2
               [] pc = "nicDone" -> 1
               [] pc = "message" -> 2 [] pc = "exit" -> 1
               [] OTHER -> 0

(* The four, compared in this order, have grown smaller.                   *)
Closer ==
    \/ Part' < Part
    \/ Part' = Part /\ NicsLeft' < NicsLeft
    \/ UNCHANGED <<Part, NicsLeft>> /\ OperationsLeft' < OperationsLeft
    \/ UNCHANGED <<Part, NicsLeft, OperationsLeft>> /\ StepsLeft' < StepsLeft

NextElement == pc = "json" /\ pc' = "json"

RunsDown == [][NetworkStep => Closer \/ NextElement]_allVars

Bounded == Part \in Nat /\ NicsLeft \in Nat /\ OperationsLeft \in Nat /\ StepsLeft \in Nat

LEMMA CountsAreNumbers == TypeInv => Bounded
<1> SUFFICES ASSUME TypeInv PROVE Bounded
  OBVIOUS
<1>1. Tries \in Nat /\ retryCount \in Nat /\ nic \in 0 .. nicCount /\ nicCount \in Nat
  BY RequestAssumption DEF TypeInv, DfciTypeOK
<1>2. Part \in Nat
  BY DEF Part
<1>3. NicsLeft \in Nat
  BY <1>1 DEF NicsLeft
<1>4. OperationsLeft \in Nat
  BY DEF OperationsLeft
<1>5. StepsLeft \in Nat
  BY <1>1 DEF StepsLeft
<1> QED BY <1>2, <1>3, <1>4, <1>5 DEF Bounded

LEMMA StepsComeCloser ==
  ASSUME TypeInv, RequestStep
  PROVE  Closer \/ NextElement
<1>1. Tries \in Nat /\ retryCount \in Nat /\ nic \in Nat /\ nicCount \in Nat
  BY RequestAssumption DEF TypeInv, DfciTypeOK
<1>2. method \in {"none", "POST", "GET"} /\ stage \in {"none", "bootstrap", "recovery", "check"}
  BY DEF TypeInv, DfciTypeOK
<1>3. pc = "attempt" => retryCount > 0
  BY DEF TypeInv
<1> USE DEF Closer, Part, NicsLeft, OperationsLeft, StepsLeft, Before, WithNic, nicVars, logicVars
<1>4. CASE InitializeNetworkRequest
  BY <1>1, <1>2, <1>3, <1>4 DEF InitializeNetworkRequest
<1>5. CASE ReadOldCertificate
  BY <1>1, <1>2, <1>3, <1>5 DEF ReadOldCertificate
<1>6. CASE DeleteOldCertificate
  BY <1>1, <1>2, <1>3, <1>6 DEF DeleteOldCertificate
<1>7. CASE SetDfciCertificate
  BY <1>1, <1>2, <1>3, <1>7 DEF SetDfciCertificate
<1>8. CASE LocateNics
  BY <1>1, <1>2, <1>3, <1>8 DEF LocateNics
<1>9. CASE NextNic
  <2>1. pc = "nextNic" /\ pc' \in {"nextNic", "configure", "build"} /\ nic' = nic + 1 /\ nicCount' = nicCount
    BY <1>9 DEF NextNic
  <2>2. Part' = Part
    BY <2>1
  <2>3. NicsLeft' < NicsLeft
    BY <1>1, <2>1
  <2> QED BY <2>2, <2>3
<1>10. CASE EndOfNics
  BY <1>1, <1>2, <1>3, <1>10 DEF EndOfNics
<1>11. CASE EndNic
  BY <1>1, <1>2, <1>3, <1>11 DEF EndNic
<1>12. CASE ConfigureHTTP
  <2>1. /\ pc = "configure" /\ pc' \in {"create", "answered"}
        /\ UNCHANGED <<nic, nicCount, stage, method>>
    BY <1>12 DEF ConfigureHTTP, ConfigureDHCP, AwaitAddress
  <2>2. UNCHANGED <<Part, NicsLeft, OperationsLeft>>
    BY <2>1
  <2>3. StepsLeft' < StepsLeft
    BY <1>1, <2>1
  <2> QED BY <2>2, <2>3
<1>13. CASE CreateChild
  <2>1. /\ pc = "create" /\ (pc' = "answered" \/ (pc' = "attempt" /\ retryCount' = Tries))
        /\ UNCHANGED <<nic, nicCount, stage, method>>
    BY <1>13 DEF CreateChild
  <2>2. UNCHANGED <<Part, NicsLeft, OperationsLeft>>
    BY <2>1
  <2>3. StepsLeft' < StepsLeft
    BY <1>1, <2>1
  <2> QED BY <2>2, <2>3
<1>14. CASE ProcessHttpRequest
  <2>1. /\ pc = "attempt" /\ pc' \in {"close", "retry"} /\ retryCount' = retryCount - 1
        /\ UNCHANGED <<nic, nicCount, stage, method>>
    BY <1>14 DEF ProcessHttpRequest, SpendRetry
  <2>2. UNCHANGED <<Part, NicsLeft, OperationsLeft>>
    BY <2>1
  <2>3. StepsLeft' < StepsLeft
    BY <1>3, <1>1, <2>1
  <2> QED BY <2>2, <2>3
<1>15. CASE RetryOrEnd
  <2>1. /\ pc = "retry" /\ pc' \in {"attempt", "close"} /\ retryCount' = retryCount
        /\ UNCHANGED <<nic, nicCount, stage, method>>
    BY <1>15 DEF RetryOrEnd
  <2>2. UNCHANGED <<Part, NicsLeft, OperationsLeft>>
    BY <2>1
  <2>3. StepsLeft' < StepsLeft
    BY <1>1, <2>1
  <2> QED BY <2>2, <2>3
<1>16. CASE CloseHttp
  BY <1>1, <1>2, <1>3, <1>16 DEF CloseHttp
<1>17. CASE PostAnswered
  <2>1. /\ pc = "answered" /\ method = "POST" /\ UNCHANGED <<nic, nicCount, stage>>
        /\ \/ pc' = "configure" /\ method' = "GET"
           \/ pc' = "switch" /\ method' = method
    BY <1>17 DEF PostAnswered
  <2>2. UNCHANGED <<Part, NicsLeft>>
    BY <2>1
  <2>3. CASE pc' = "switch" /\ method' = method
    BY <2>1, <2>2, <2>3
  <2>4. CASE pc' = "configure" /\ method' = "GET" /\ stage \in {"bootstrap", "recovery"}
    BY <2>1, <2>2, <2>4
  <2>5. stage \in {"bootstrap", "recovery"}
    BY <1>2, <2>1 DEF TypeInv
  <2> QED BY <2>1, <2>3, <2>4, <2>5
<1>18. CASE GetAnswered
  BY <1>1, <1>2, <1>3, <1>18 DEF GetAnswered
<1>19. CASE CheckAnswered
  BY <1>1, <1>2, <1>3, <1>19 DEF CheckAnswered
<1>20. CASE ParseJson
  BY <1>1, <1>2, <1>3, <1>20 DEF ParseJson, ProcessPacket, ProcessFails, EndOfJson, NextElement
<1>21. CASE BuildJsonRequest
  <2>1. /\ pc = "build" /\ pc' \in {"configure", "nicDone"}
        /\ UNCHANGED <<nic, nicCount, stage, method>>
    BY <1>21 DEF BuildJsonRequest
  <2>2. UNCHANGED <<Part, NicsLeft, OperationsLeft>>
    BY <2>1
  <2>3. StepsLeft' < StepsLeft
    BY <1>1, <2>1
  <2> QED BY <2>2, <2>3
<1>22. CASE DfciMainLogic
  BY <1>1, <1>2, <1>3, <1>22 DEF DfciMainLogic, AfterBootstrap, AfterRecovery
<1>23. CASE SelectMessage
  BY <1>1, <1>2, <1>3, <1>23 DEF SelectMessage
<1>24. CASE ExitNetworkRequest
  BY <1>1, <1>2, <1>3, <1>24 DEF ExitNetworkRequest
<1> QED BY <1>4, <1>5, <1>6, <1>7, <1>8, <1>9, <1>10, <1>11, <1>12, <1>13, <1>14, <1>15, <1>16, <1>17, <1>18, <1>19, <1>20, <1>21, <1>22, <1>23, <1>24 DEF RequestStep

(* No request goes round for ever, whatever the server answers: as long as *)
(* the elements of its responses end, so does it.                          *)
THEOREM RequestsRunDown == Spec => []Bounded /\ RunsDown
<1>1. TypeInv /\ [Next]_allVars => [NetworkStep => Closer \/ NextElement]_allVars
  BY StepsComeCloser DEF NetworkStep
<1> QED BY <1>1, CountsAreNumbers, TypeInvInit, TypeInvNext, PTL DEF Spec, RunsDown
=============================================================================
