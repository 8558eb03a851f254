----------------------------- MODULE DfciUpdate ------------------------------
(***************************************************************************)
(* DfciUpdateFromJson: the elements of a JSON string, from a server or     *)
(* from a USB drive, are applied one after the other.  An element either   *)
(* carries a packet, which is written into the mailbox variable that the   *)
(* response table names for it, or a text for the user.  The first element *)
(* that cannot be applied ends the parse; what was written before it       *)
(* stays.  The mailboxes (identity, permissions, settings) are read at the *)
(* next boot; the model keeps whether one holds a packet.                  *)
(***************************************************************************)
EXTENDS FiniteSets

\* mRecoveryBootstrapResponse, mRecoveryResponse and mUsbRecovery.
Tables == {"bootstrap", "recovery", "usb"}

Statuses == {"success", "notFound", "mediaChanged", "error"}

VARIABLES
    mailbox,   \* non-volatile: does a mailbox hold a packet?
    table,     \* the response table of the parse under way, or "none"
    changed,   \* has an element of this parse returned EFI_MEDIA_CHANGED?
    status     \* the EFI_STATUS of the call under way or just ended

jsonVars == <<mailbox, table, changed>>

\* DfciUpdateFromJson calls JsonLibParse with the table as context.
DfciUpdateFromJson(t) == table' = t /\ changed' = FALSE /\ UNCHANGED mailbox

\* ProcessFunction on a packet with the right signature, when SetVariable succeeds.
ProcessPacket ==
    /\ table # "none"
    /\ mailbox' = TRUE /\ changed' = TRUE
    /\ UNCHANGED <<table, status>>

\* ProcessFunction on an unknown field, a value that is no base64, a wrong
\* signature, without memory, or when SetVariable fails.
ProcessFails ==
    /\ table # "none"
    /\ table' = "none" /\ changed' = FALSE /\ status' = "error"
    /\ UNCHANGED mailbox

\* What JsonLibParse makes of the elements' statuses.
EndOfJson ==
    /\ table # "none"
    /\ table' = "none" /\ changed' = FALSE
    /\ status' \in IF changed THEN {"mediaChanged"} ELSE {"success", "notFound"}
    /\ UNCHANGED mailbox
==============================================================================
