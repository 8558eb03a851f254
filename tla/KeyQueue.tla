------------------------------ MODULE KeyQueue ------------------------------
(***************************************************************************)
(* EFI_KEY_QUEUE, the ring buffer in which TegraKeyboardDxe keeps the      *)
(* keystrokes for its readers and for its notification functions.  One     *)
(* slot always stays free, so that head = tail means empty.                *)
(*                                                                         *)
(* The fields Buffer, Head and Tail are written in lower case: Head and    *)
(* Tail are operators of the standard module Sequences.                    *)
(***************************************************************************)
EXTENDS Integers

CONSTANTS Key,       \* the keystrokes (EFI_KEY_DATA)
          ZeroKey,   \* the keystroke of a zeroed slot: AllocateZeroPool
          KeyMaxCount, \* KEYBOARD_EFI_KEY_MAX_COUNT, 256 in the source
          NotReady   \* EFI_NOT_READY

ASSUME KeyMaxCountAssumption == KeyMaxCount \in Nat /\ KeyMaxCount > 1
ASSUME ZeroKeyAssumption == ZeroKey \in Key

VARIABLES buffer, head, tail,
          answer,    \* what the last PopEfikeyBufHead gave its caller
          latest     \* history: the keystroke pushed last

vars == <<buffer, head, tail, answer, latest>>

Slot == 0 .. KeyMaxCount - 1

TypeOK ==
  /\ buffer \in [Slot -> Key]
  /\ head \in Slot
  /\ tail \in Slot
  /\ answer \in Key \cup {NotReady}
  /\ latest \in Key \cup {NotReady}

-----------------------------------------------------------------------------

IsEfikeyBufEmpty == head = tail

Succ(i) == (i + 1) % KeyMaxCount

(* Mutant of IsFull: the queue is called full when all slots are taken. *)
IsFullTooLate == tail = head

IsFull == Succ(tail) = head

Init ==
  /\ buffer = [i \in Slot |-> ZeroKey]
  /\ head = 0
  /\ tail = 0
  /\ answer = NotReady
  /\ latest = NotReady

PopEfikeyBufHead ==
  /\ answer' = IF IsEfikeyBufEmpty THEN NotReady ELSE buffer[head]
  /\ head' = IF IsEfikeyBufEmpty THEN head ELSE Succ(head)
  /\ UNCHANGED <<buffer, tail, latest>>

(* When the queue is full the push pops the oldest keystroke into nothing. *)
PushEfikeyBufTail(k) ==
  /\ head' = IF IsFull THEN Succ(head) ELSE head
  /\ buffer' = [buffer EXCEPT ![tail] = k]
  /\ tail' = Succ(tail)
  /\ latest' = k
  /\ UNCHANGED answer

(* InitKeyboard empties a queue by its indices; the slots keep their keys. *)
ClearQueue ==
  /\ head' = 0
  /\ tail' = 0
  /\ UNCHANGED <<buffer, answer, latest>>

Next ==
  \/ \E k \in Key : PushEfikeyBufTail(k)
  \/ PopEfikeyBufHead
  \/ ClearQueue

Spec == Init /\ [][Next]_vars

-----------------------------------------------------------------------------

(* The keystrokes between head and tail, oldest first. *)
Count == IF tail >= head THEN tail - head ELSE tail - head + KeyMaxCount

SlotOf(i) ==
  IF head + i - 1 < KeyMaxCount THEN head + i - 1
                                ELSE head + i - 1 - KeyMaxCount

Contents == [i \in 1 .. Count |-> buffer[SlotOf(i)]]

Fifo == INSTANCE KeyFifo WITH queue <- Contents,
                              Capacity <- KeyMaxCount - 1

(***************************************************************************)
(* The ring buffer is a bounded first-in first-out queue: every push, pop  *)
(* and clear of the source does to the keystrokes between head and tail    *)
(* what KeyFifo promises, across the wrap of both indices, with the queue  *)
(* full, and with the keystrokes of before a clear still in the slots.     *)
(* A read can neither return a stale slot nor skip or repeat a keystroke,  *)
(* and no push is without effect: the queue then ends with the new key.    *)
(***************************************************************************)
ImplementsFifo == Fifo!Spec
=============================================================================
