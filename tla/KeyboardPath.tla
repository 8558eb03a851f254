---------------------------- MODULE KeyboardPath ----------------------------
(***************************************************************************)
(* The way of a key from the keyboard controller to a reader: GetKeys of   *)
(* KbcDevice hands every key it finds to PushEfikeyBufTail of KeyQueue,    *)
(* while the controller scans on; readers pop the queue and Reset clears   *)
(* it between two calls of GetKeys.  Keys are numbers in the order they    *)
(* are typed; the zeroed slot is 0, so Key = 0 .. MaxTyped.                *)
(***************************************************************************)
EXTENDS KeyQueue

CONSTANTS FifoDepth,  \* entries the controller can hold (external)
          MaxTyped    \* a bound on the keys typed in a behaviour

ASSUME DepthAssumption == FifoDepth \in Nat \ {0}
ASSUME KeyNumbers == MaxTyped \in Nat /\ Key = 0 .. MaxTyped /\ ZeroKey = 0

VARIABLES fifo, typed, overrun, word, kpEnt0, reported, discarded,
          lastRead   \* the key read last by a reader of the queue

Kbc == INSTANCE KbcDevice

pathVars == <<vars, Kbc!vars, lastRead>>

PathInit == Init /\ Kbc!Init /\ lastRead = 0

(* The controller scans and GetKeys starts: the queue is as it was. *)
Scan == Kbc!KbcScan /\ UNCHANGED <<vars, lastRead>>

Poll == Kbc!GetKeys /\ UNCHANGED <<vars, lastRead>>

(* Each word read is pushed before the next one is read. *)
Deliver ==
  /\ Kbc!ReadFirstWord \/ Kbc!ReadSecondWord
  /\ IF reported' = Kbc!NoKey THEN UNCHANGED vars
                              ELSE PushEfikeyBufTail(reported')
  /\ UNCHANGED lastRead

(* GetKeys runs at TPL_NOTIFY: no reader comes between its two words. *)
Idle ==
  /\ word = 2
  /\ reported' = Kbc!NoKey
  /\ UNCHANGED <<fifo, typed, overrun, word, kpEnt0, discarded>>

Read ==
  /\ Idle
  /\ PopEfikeyBufHead
  /\ lastRead' = IF answer' = NotReady THEN lastRead ELSE answer'

Reset == Idle /\ ClearQueue /\ UNCHANGED lastRead

PathNext == Scan \/ Poll \/ Deliver \/ Read \/ Reset

PathSpec == PathInit /\ [][PathNext]_pathVars

(***************************************************************************)
(* A reader gets the keys in the order they were typed and none of them    *)
(* twice: from GetKeys, whose two words come from different entries of     *)
(* the controller, through a ring that overflows, wraps and is cleared.    *)
(***************************************************************************)
ReadInOrder ==
  /\ \A i \in 1 .. Count : lastRead < Contents[i]
  /\ \A i, j \in 1 .. Count : i < j => Contents[i] < Contents[j]
=============================================================================
