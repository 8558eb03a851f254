------------------------------ MODULE RecordLog ------------------------------
(***************************************************************************)
(* What the early error record store promises: a log to which records are  *)
(* appended and which its reader empties.  The log may be unreadable while *)
(* it is being added to, and after the power was cut in the middle of      *)
(* that; but once a caller was told that its record is in, the log can be  *)
(* read, and stays so until somebody adds to it or the power goes.  None   *)
(* of the records is ever changed, dropped, moved or doubled.              *)
(***************************************************************************)
EXTENDS Naturals, Sequences

CONSTANT Record    \* the error records

VARIABLES log,        \* the records of the store, in the order they were added
          readable,   \* does the store pass the test of its reader?
          told        \* was the last caller told that its record is in?

vars == <<log, readable, told>>

Init == log = <<>> /\ readable \in BOOLEAN /\ told = FALSE

\* A caller is told only of a log that can be read.
Report == /\ told = FALSE
          /\ readable' \in BOOLEAN
          /\ told' \in {FALSE, readable'}

Add == /\ \E r \in Record : log' = Append(log, r)
       /\ Report

\* The parts of the store around the records are written.
Touch == UNCHANGED log /\ Report

\* Another caller, or a power cut.
Forget == told' = FALSE /\ UNCHANGED <<log, readable>>

Empty == log' = <<>> /\ readable' = TRUE /\ told' = FALSE

Next == Add \/ Touch \/ Forget \/ Empty

Spec == Init /\ [][Next]_vars
==============================================================================
