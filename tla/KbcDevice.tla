------------------------------ MODULE KbcDevice ------------------------------
(***************************************************************************)
(* TegraKeyboardDeviceImplGetKeys: reading the Tegra keyboard controller.  *)
(*                                                                         *)
(* The controller (external) scans the matrix on its own and queues what   *)
(* it finds; one entry of its FIFO is up to eight keys in two words, ENT0  *)
(* and ENT1, and reading ENT1 takes the entry off the FIFO.  GetKeys waits *)
(* 80 ms for each key it finds, so the controller scans on between its     *)
(* register reads.  Keys are numbered in the order they were typed.  A     *)
(* word holds one key or none: the shifts of the inner loop report the     *)
(* other three bytes in the same way.                                      *)
(***************************************************************************)
EXTENDS Integers, Sequences

CONSTANTS FifoDepth,  \* entries the controller can hold (external)
          MaxTyped    \* a bound on the keys typed in a behaviour

VARIABLES fifo,      \* entries [ent0, ent1], 0 where no key is held
          typed,     \* the number of keys typed so far
          overrun,   \* keys that met a full FIFO (external)
          word,      \* GetKeys: the word of its loop (i \div 4), 2 when done
          kpEnt0,    \* the word read last
          reported,  \* the key this step gives to PushEfikeyBufTail
          discarded  \* history: keys the reads took off the FIFO unreported

vars == <<fifo, typed, overrun, word, kpEnt0, reported, discarded>>

NoKey == 0
KeyNo == 1 .. MaxTyped
Entry == [ent0 : KeyNo \cup {NoKey}, ent1 : KeyNo \cup {NoKey}]

Held(e) == {e.ent0, e.ent1} \ {NoKey}

(* A scan of the matrix finds one key, or two pressed together. *)
KbcScan ==
  \E n \in {1, 2} :
    LET e == [ent0 |-> typed + 1,
              ent1 |-> IF n = 2 THEN typed + 2 ELSE NoKey]
    IN  /\ typed + n <= MaxTyped
        /\ typed' = typed + n
        /\ IF Len(fifo) < FifoDepth
           THEN fifo' = Append(fifo, e) /\ UNCHANGED overrun
           ELSE overrun' = overrun \cup Held(e) /\ UNCHANGED fifo
        /\ reported' = NoKey
        /\ UNCHANGED <<word, kpEnt0, discarded>>

(* The words at the head of the FIFO; an empty FIFO reads as no key. *)
HeadEnt0(q) == IF q = <<>> THEN NoKey ELSE q[1].ent0
HeadEnt1(q) == IF q = <<>> THEN NoKey ELSE q[1].ent1
PopEntry(q) == IF q = <<>> THEN <<>> ELSE Tail(q)
HeadKeys(q) == IF q = <<>> THEN {} ELSE Held(q[1])

(* The test of the FIFO count opens the loop. *)
GetKeys ==
  /\ word = 2 /\ fifo # <<>>
  /\ word' = 0
  /\ kpEnt0' = NoKey
  /\ reported' = NoKey
  /\ UNCHANGED <<fifo, typed, overrun, discarded>>

(* A byte of zero is no key: nothing is reported for it. *)
Report(key) == reported' = key

(* i = 0: ENT0 is read and reported, then ENT1, which pops the entry. *)
ReadFirstWord ==
  /\ word = 0
  /\ kpEnt0' = HeadEnt0(fifo)
  /\ Report(HeadEnt0(fifo))
  /\ fifo' = PopEntry(fifo)
  /\ discarded' = discarded \cup (HeadKeys(fifo) \ {HeadEnt0(fifo)})
  /\ word' = 1
  /\ UNCHANGED <<typed, overrun>>

(* Mutant of ReadSecondWord: the shift that moves to the next key is lost. *)
ReadSecondWordUnshifted ==
  /\ word = 1
  /\ kpEnt0' = kpEnt0
  /\ Report(kpEnt0)
  /\ fifo' = PopEntry(PopEntry(fifo))
  /\ UNCHANGED discarded
  /\ word' = 2
  /\ UNCHANGED <<typed, overrun>>

(* i = 4: KBC_KP_ENT0_0 + 4 is ENT1, which pops the next entry; then ENT1  *)
(* is read again, which pops the one after it.                             *)
ReadSecondWord ==
  /\ word = 1
  /\ LET rest == PopEntry(fifo)
     IN  /\ kpEnt0' = HeadEnt1(fifo)
         /\ Report(HeadEnt1(fifo))
         /\ fifo' = PopEntry(rest)
         /\ discarded' = discarded \cup (HeadKeys(fifo) \ {HeadEnt1(fifo)})
                                   \cup HeadKeys(rest)
  /\ word' = 2
  /\ UNCHANGED <<typed, overrun>>

Init ==
  /\ fifo = <<>> /\ typed = 0 /\ overrun = {}
  /\ word = 2 /\ kpEnt0 = NoKey
  /\ reported = NoKey /\ discarded = {}

Next == KbcScan \/ GetKeys \/ ReadFirstWord \/ ReadSecondWord

Spec == Init /\ [][Next]_vars

(***************************************************************************)
(* What the comment of KeyboardTimerHandler says: it reads as many         *)
(* scancodes as empty the keyboard buffer, that is, the keys it takes off  *)
(* the controller's FIFO reach the driver.                                 *)
(***************************************************************************)
NothingDiscarded == discarded = {}
=============================================================================
