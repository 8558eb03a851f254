------------------------------ MODULE KeyFifo ------------------------------
(***************************************************************************)
(* What TegraKeyboardDxe promises of an EFI_KEY_QUEUE: a first-in          *)
(* first-out queue of at most Capacity keystrokes that makes room for a    *)
(* new keystroke by forgetting the oldest one.  KeyQueue.tla, the ring     *)
(* buffer of the source, implements this specification.                    *)
(***************************************************************************)
EXTENDS Integers, Sequences

CONSTANTS Key,       \* the keystrokes (EFI_KEY_DATA)
          Capacity,  \* the most keystrokes the queue holds at once
          NotReady   \* the answer of a read of an empty queue

VARIABLES queue,     \* the keystrokes waiting, oldest first
          answer,    \* what the last read returned
          latest     \* the keystroke pushed last, which no step may ignore

vars == <<queue, answer, latest>>

(* Forget the oldest keystroke when a push finds the queue full. *)
MakeRoom(q) == IF Len(q) = Capacity THEN Tail(q) ELSE q

Init == queue = <<>> /\ answer = NotReady /\ latest = NotReady

Push(k) ==
  /\ queue' = Append(MakeRoom(queue), k)
  /\ latest' = k
  /\ UNCHANGED answer

Pop ==
  /\ queue # <<>>
  /\ answer' = Head(queue)
  /\ queue' = Tail(queue)
  /\ UNCHANGED latest

PopEmpty ==
  /\ queue = <<>>
  /\ answer' = NotReady
  /\ UNCHANGED <<queue, latest>>

Clear ==
  /\ queue' = <<>>
  /\ UNCHANGED <<answer, latest>>

Next == (\E k \in Key : Push(k)) \/ Pop \/ PopEmpty \/ Clear

Spec == Init /\ [][Next]_vars
=============================================================================
