------------------------------ MODULE SiPolicy -------------------------------
(***************************************************************************)
(* SystemIntegrityPolicyProvisioningDxe: whenever a file system appears    *)
(* that holds the Windows boot manager, SiPolicy.p7b beside it is replaced *)
(* by the policy of this firmware: opened, deleted, created, written and   *)
(* closed, each a call that may fail, with a power cut between any two.    *)
(*                                                                         *)
(* One file system is modelled: each has a file of its own, and one pass   *)
(* is over before the next begins.  The file is one of                     *)
(*   "absent"                                                              *)
(*   "part"    the beginning of this firmware's policy, nothing of it yet  *)
(*             included                                                    *)
(*   "new"     this firmware's policy                                      *)
(*   "other"   some of another policy is in it                             *)
(***************************************************************************)
VARIABLES
    file,        \* SiPolicy.p7b
    siPc,        \* the call the driver is about to make
    clean        \* history: the pass reached its end and none of its calls failed

vars == <<file, siPc, clean>>

Files == {"absent", "part", "new", "other"}

SiTypeOK == /\ file \in Files /\ clean \in BOOLEAN
            /\ siPc \in {"none", "idle", "volume", "open", "delete", "create",
                         "write", "close"}

Init == file \in {"absent", "new", "other"} /\ siPc = "none" /\ clean = FALSE

\* The next call, after one that succeeded; after one that failed and ends the pass.
Then(call) == siPc' = call /\ UNCHANGED clean
GiveUp     == siPc' = "idle" /\ clean' = FALSE

\* Without its event or its registration the driver does nothing in this boot.
ProcessFileSystemRegistration ==
    /\ siPc = "none"
    /\ Then("idle")
    /\ UNCHANGED file

OnFileSystemNotification ==
    /\ siPc = "idle"
    /\ siPc' = "volume" /\ clean' = TRUE
    /\ UNCHANGED file

\* The volume is opened, and the boot manager must be on it.
OpenVolume ==
    /\ siPc = "volume"
    /\ Then("open") \/ GiveUp
    /\ UNCHANGED file

OpenPolicy ==
    /\ siPc = "open"
    /\ \/ file = "absent" /\ Then("create")
       \/ file # "absent" /\ Then("delete")
       \/ GiveUp
    /\ UNCHANGED file

\* Mutant of DeletePolicy: the other policy is left to be overwritten.
KeepPolicy ==
    /\ siPc = "delete"
    /\ Then("create")
    /\ UNCHANGED file

\* Nobody looks at the status of Delete.
DeletePolicy ==
    /\ siPc = "delete"
    /\ siPc' = "create"
    /\ \/ file' = "absent" /\ UNCHANGED clean
       \/ UNCHANGED file /\ clean' = FALSE

\* The file is created unless it is there.
CreatePolicy ==
    /\ siPc = "create"
    /\ \/ file' = (IF file = "absent" THEN "part" ELSE file) /\ Then("write")
       \/ UNCHANGED file /\ GiveUp

\* What all of the policy leaves when it is written from the beginning: a longer
\* file keeps its end.
Written == IF file = "other" THEN {"new", "other"} ELSE {"new"}

\* A write that fails or is cut off leaves the same kind of file as it found.
WritePolicy ==
    /\ siPc = "write"
    /\ siPc' = "close"
    /\ \/ file' \in Written /\ UNCHANGED clean
       \/ UNCHANGED file /\ clean' = FALSE

\* A file that cannot be closed may not have been flushed.
ClosePolicy ==
    /\ siPc = "close"
    /\ Then("idle") \/ GiveUp
    /\ UNCHANGED file

TryWritePlatformSiPolicy ==
    \/ OpenVolume \/ OpenPolicy \/ DeletePolicy \/ CreatePolicy
    \/ WritePolicy \/ ClosePolicy

\* An operating system that is installed, updates its policy or takes it away.
OperatingSystem ==
    /\ file' \in {file, "absent", "other"}
    /\ siPc' = "none" /\ clean' = FALSE

PowerCut == siPc' = "none" /\ clean' = FALSE /\ UNCHANGED file

Next == \/ ProcessFileSystemRegistration \/ OnFileSystemNotification
        \/ TryWritePlatformSiPolicy \/ OperatingSystem \/ PowerCut

Spec == Init /\ [][Next]_vars

------------------------------------------------------------------------------
(* After a pass none of whose calls failed, the file is this firmware's    *)
(* policy, all of it and nothing else, whatever it was before and wherever *)
(* the power was cut in earlier passes.                                    *)
PolicyWhole == siPc = "idle" /\ clean => file = "new"

(* Inductive: the file once its old form is gone.                          *)
SiInv ==
    /\ SiTypeOK
    /\ PolicyWhole
    /\ siPc = "none" => ~clean
    /\ clean => /\ siPc = "create" => file = "absent"
                /\ siPc = "write"  => file = "part"
                /\ siPc = "close"  => file = "new"
==============================================================================
