--------------------------- MODULE SettingsRequest ---------------------------
(***************************************************************************)
(* What a request for DFCI settings promises, however many calls, answers  *)
(* and failures it takes.  Packets are written for the next boot only when *)
(* the server has accepted the stage they belong to, or from a file when   *)
(* no server was asked; once some were written the server is not asked     *)
(* again; and what the user is told, once, is what was written.            *)
(***************************************************************************)
CONSTANTS Stages,  \* what a server can be asked for, one after the other
          File     \* the packets of a file

VARIABLES asked,     \* is a request under way?
          accepted,  \* the stages the server has accepted
          applied,   \* whose packets were written
          mailbox,   \* does a mailbox hold a packet for the next boot?
          message    \* what the user was told, or "none"

vars == <<asked, accepted, applied, mailbox, message>>

Nothing == accepted = {} /\ applied = {} /\ message = "none"

Init == ~asked /\ mailbox = FALSE /\ Nothing

Ask == /\ ~asked /\ asked'
       /\ Nothing'
       /\ UNCHANGED mailbox

Accept(s) ==
    /\ asked /\ applied = {} /\ message = "none"
    /\ accepted' = accepted \cup {s}
    /\ UNCHANGED <<asked, applied, mailbox, message>>

Apply(t) ==
    /\ asked /\ message = "none"
    /\ t \in accepted \/ (t = File /\ accepted = {})
    /\ applied \subseteq {t}
    /\ applied' = {t} /\ mailbox' = TRUE
    /\ UNCHANGED <<asked, accepted, message>>

IsTrue(m) ==
    \/ m = "error"
    \/ m = "noUpdates" /\ applied = {}
    \/ m = "restart"   /\ applied = {"bootstrap"} /\ mailbox = TRUE
    \/ m = "applied"   /\ applied = {"recovery"} /\ mailbox = TRUE

Tell(m) ==
    /\ asked /\ message = "none"
    /\ IsTrue(m)
    /\ message' = m
    /\ UNCHANGED <<asked, accepted, applied, mailbox>>

\* The end of the request or a reset; the packets wait, or are taken by the boot.
Forget ==
    /\ asked /\ ~asked'
    /\ Nothing'
    /\ mailbox' \in {mailbox, FALSE}

Next ==
    \/ Ask \/ Forget
    \/ \E s \in Stages : Accept(s)
    \/ \E t \in Stages \cup {File} : Apply(t)
    \/ \E m \in {"error", "noUpdates", "restart", "applied"} : Tell(m)

Spec == Init /\ [][Next]_vars
==============================================================================
