----------------------------- MODULE TegraDelay ------------------------------
(***************************************************************************)
(* TegraTimerLib: busy waiting on the free running microsecond counter,    *)
(* a register of 32 bits of which the model keeps the wrap: it counts      *)
(* modulo Modulus.  Time goes on between two reads of the counter.         *)
(***************************************************************************)
EXTENDS Naturals

CONSTANTS
    Modulus,    \* 2^32 in the machine
    MaxDelay,   \* bound: microseconds one call waits
    MaxSkip,    \* bound: ticks between two reads of the waiting loop
    Horizon     \* bound: the time after which no delay is begun

ASSUME DelayAssumption ==
    /\ Modulus \in Nat \ {0} /\ MaxDelay \in 0..Modulus - 1
    /\ MaxSkip \in Nat \ {0} /\ Horizon \in Nat

VARIABLES
    now,       \* the time in microseconds
    started,   \* the time the delay under way began
    delay,     \* MicroSeconds, its argument
    counter,   \* SystemCounterVal, the last value read
    target,    \* TimerTicks32
    skipped,   \* ticks since the last read
    pc

vars == <<now, started, delay, counter, target, skipped, pc>>

Init == /\ now \in 0..Modulus - 1
        /\ started = now /\ delay = 0
        /\ counter = 0 /\ target = 0
        /\ skipped = 0
        /\ pc = "idle"

\* Mutant of TargetOf: one tick too early.
TargetOfShort(us, value) == IF us = 0 THEN value ELSE (us + value - 1) % Modulus

\* TimerTicks32 += SystemCounterVal, in 32 bits.
TargetOf(us, value) == (us + value) % Modulus

MicroSecondDelay ==
    /\ pc = "idle" /\ now <= Horizon
    /\ delay' \in 0..MaxDelay
    /\ started' = now
    /\ counter' = now % Modulus
    /\ target' = TargetOf(delay', counter')
    /\ skipped' = 0
    /\ pc' = "while"
    /\ UNCHANGED now

\* Mutant of ReadCounter: waits for the target itself.
ReadCounterEqual ==
    /\ pc = "while"
    /\ IF counter # target
       THEN counter' = now % Modulus /\ skipped' = 0 /\ UNCHANGED pc
       ELSE pc' = "idle" /\ UNCHANGED <<counter, skipped>>
    /\ UNCHANGED <<now, started, delay, target>>

\* while (SystemCounterVal < TimerTicks32) read the counter again.
ReadCounter ==
    /\ pc = "while"
    /\ IF counter < target
       THEN counter' = now % Modulus /\ skipped' = 0 /\ UNCHANGED pc
       ELSE pc' = "idle" /\ UNCHANGED <<counter, skipped>>
    /\ UNCHANGED <<now, started, delay, target>>

Tick ==
    /\ pc = "while" => skipped < MaxSkip
    /\ now < Horizon + 2 * Modulus             \* bound
    /\ now' = now + 1
    /\ skipped' = IF pc = "while" THEN skipped + 1 ELSE 0
    /\ UNCHANGED <<started, delay, counter, target, pc>>

Next == MicroSecondDelay \/ ReadCounter \/ Tick

Spec == Init /\ [][Next]_vars

------------------------------------------------------------------------------
Elapsed     == now - started
Returning   == pc = "while" /\ counter >= target
TargetWraps == (started % Modulus) + delay >= Modulus

\* Within the ticks of one iteration before the wrap, the read that should end the
\* loop may already be one of the next turn.
Wraps == (started % Modulus) + delay + MaxSkip > Modulus

\* While the counter does not wrap the delay is exact: the loop is left when the
\* whole delay has passed, and the read that ends it is late by the time of one
\* iteration at most.
DelayIsExact ==
    Returning /\ ~Wraps /\ skipped = 0 => Elapsed \in delay..delay + MaxSkip

\* However many turns of the counter a loop goes through and whichever values it
\* misses, it never ends before its time, with one exception: a target behind the
\* wrap is below the counter, and the delay is none at all.
EarlyOnlyAtWrap ==
    Returning /\ skipped = 0 /\ Elapsed < delay => TargetWraps /\ Elapsed = 0

\* A delay comes to an end, unless its target is among the last values before the
\* wrap: interrupts run between two reads of the loop, and each turn of the
\* counter they may step over these values again.
DelayEnds == pc = "while" /\ (Wraps => TargetWraps) ~> pc = "idle"
==============================================================================
