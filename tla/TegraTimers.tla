----------------------------- MODULE TegraTimers -----------------------------
(***************************************************************************)
(* TegraTimerLib and TegraTimerDxe in one machine.  One thread calls the   *)
(* timer protocol and MicroSecondDelay, one call after the other; TMR1     *)
(* interrupts it anywhere, in the loop of a delay and between the register *)
(* accesses of SetTimerPeriod.  After ExitBootServices the thread is the   *)
(* operating system's, and only interrupts still run code of the driver.   *)
(***************************************************************************)
EXTENDS TegraDelay

CONSTANTS Functions,   \* notification functions of the DXE core
          NULL,        \* no function; no call of SetTimerPeriod yet
          Periods,     \* timer periods the core asks for, 0 among them
          MaxMissed    \* a bound: periods one interrupt may be late

ASSUME TimerAssumption ==
    /\ NULL \notin Functions \cup Periods
    /\ 0 \in Periods /\ Periods \subseteq Nat
    /\ MaxMissed \in Nat \ {0}

VARIABLES ptv, pending, notify, timerPeriod, ticksOf, elapsed, argument,
          timerPc, outcome

Timer == INSTANCE TegraTimer WITH pc <- timerPc

timerVars == <<ptv, pending, notify, timerPeriod, ticksOf, elapsed, argument,
               timerPc, outcome>>

allVars == <<vars, timerVars>>

TimersInit == Init /\ Timer!Init

(* The thread begins a call only when no other call is under way. *)
Delaying == pc = "while"
InTimerCall == timerPc \in {"disabled", "stored"}

BeginDelay ==
    /\ ~InTimerCall /\ timerPc # "exited"
    /\ MicroSecondDelay
    /\ UNCHANGED timerVars

WaitOn == ReadCounter /\ UNCHANGED timerVars

Oscillate == Tick /\ UNCHANGED timerVars

CallTimer ==
    /\ ~Delaying
    /\ \/ Timer!TimerInitialize
       \/ Timer!RegisterHandler
       \/ Timer!SetTimerPeriodDisable
       \/ Timer!SetTimerPeriodStore
       \/ Timer!SetTimerPeriodEnable
       \/ Timer!ExitBootServices
    /\ UNCHANGED vars

Interrupt ==
    /\ Timer!Expire \/ Timer!TimerInterruptHandler
    /\ UNCHANGED vars

TimersNext == BeginDelay \/ WaitOn \/ Oscillate \/ CallTimer \/ Interrupt

TimersSpec == TimersInit /\ [][TimersNext]_allVars

(* The processor runs and so does the oscillator; interrupts may come for  *)
(* ever, but the interrupted loop runs on between them.                    *)
FairSpec == TimersSpec /\ WF_allVars(WaitOn) /\ WF_allVars(Oscillate)

------------------------------------------------------------------------------

(***************************************************************************)
(* An interrupt raised before the timer was turned off, and taken          *)
(* afterwards, does not turn it on again: neither while SetTimerPeriod     *)
(* changes the period, nor after a period of 0, nor once the operating     *)
(* system owns the machine.                                                *)
(***************************************************************************)
OffStaysOff == Timer!OffStaysOff
==============================================================================
