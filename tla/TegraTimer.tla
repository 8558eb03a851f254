----------------------------- MODULE TegraTimer ------------------------------
(***************************************************************************)
(* TegraTimerDxe: the timer architectural protocol over TMR1.  An          *)
(* interrupt may come between any two register accesses of SetTimerPeriod; *)
(* the handler runs at TPL_HIGH_LEVEL and is one step.  The PTV word is    *)
(* its enable bit and its preset: every write of the driver gives the      *)
(* preset 0x69420 - 1, written Preset here.  The writes to the compare     *)
(* register go to TIMER_TMR1_TMR_PCR_0 & 0x1FFFFFFF, which is not the      *)
(* address of that register, so no write of the driver reaches it.         *)
(***************************************************************************)
EXTENDS Naturals

CONSTANTS
    Functions,   \* notification functions of the DXE core
    NULL,        \* no function; no call of SetTimerPeriod yet
    Periods,     \* timer periods the core asks for, 0 among them
    MaxMissed    \* a bound: periods one interrupt may be late

Preset == 431135                         \* 0x69420 - 1
Off    == [enabled |-> FALSE, preset |-> Preset]
On     == [enabled |-> TRUE, preset |-> Preset]

VARIABLES
    ptv,           \* TIMER_TMR1_TMR_PTV_0
    pending,       \* does TMR1 hold its interrupt line?
    notify,        \* mTimerNotifyFunction
    timerPeriod,   \* mTimerPeriod
    ticksOf,       \* the period mTimerTicks was computed from
    elapsed,       \* mElapsedPeriod
    argument,      \* the TimerPeriod of the last SetTimerPeriod, under way or done
    pc,            \* where SetTimerPeriod is; "exited" after ExitBootServices
    outcome        \* history: what the last timer interrupt came to

vars == <<ptv, pending, notify, timerPeriod, ticksOf, elapsed, argument, pc, outcome>>

\* TimerInitialize has disabled the timer and is installing the protocol.
Init == /\ ptv = Off
        /\ pending = FALSE
        /\ notify = NULL
        /\ timerPeriod = 0 /\ ticksOf = 0 /\ elapsed = 1
        /\ argument = NULL
        /\ pc = "install"
        /\ outcome = "none"

\* "Everything is ready, Enable Timer": the rest of TimerInitialize.
TimerInitialize ==
    /\ pc = "install"
    /\ ptv' = On
    /\ pc' = "idle"
    /\ UNCHANGED <<pending, notify, timerPeriod, ticksOf, elapsed, argument, outcome>>

\* TimerDriverRegisterHandler, when it does not return an error.
RegisterHandler ==
    /\ pc \in {"install", "idle"}
    /\ \E f \in Functions \cup {NULL} :
          /\ (f = NULL) # (notify = NULL)
          /\ notify' = f
    /\ UNCHANGED <<ptv, pending, timerPeriod, ticksOf, elapsed, argument, pc, outcome>>

\* TimerDriverSetTimerPeriod: the timer is always disabled first.
SetTimerPeriodDisable ==
    /\ pc = "idle"
    /\ argument' \in Periods
    /\ ptv' = Off
    /\ pc' = "disabled"
    /\ UNCHANGED <<pending, notify, timerPeriod, ticksOf, elapsed, outcome>>

\* A new period is stored at TPL_HIGH_LEVEL together with its ticks; for 0 the
\* ticks stay what they were.
SetTimerPeriodStore ==
    /\ pc = "disabled"
    /\ timerPeriod' = argument
    /\ ticksOf' = IF argument # 0 THEN argument ELSE ticksOf
    /\ elapsed' = 1
    /\ pc' = IF argument # 0 THEN "stored" ELSE "idle"
    /\ UNCHANGED <<ptv, pending, notify, argument, outcome>>

SetTimerPeriodEnable ==
    /\ pc = "stored"
    /\ ptv' = On
    /\ pc' = "idle"
    /\ UNCHANGED <<pending, notify, timerPeriod, ticksOf, elapsed, argument, outcome>>

\* TMR1 counts down while it is enabled; nothing in the driver acknowledges it.
Expire ==
    /\ ptv.enabled /\ ~pending
    /\ pending' = TRUE
    /\ UNCHANGED <<ptv, notify, timerPeriod, ticksOf, elapsed, argument, pc, outcome>>

\* Mutant of IsTimerActive: the handler never looks at the register.
IsTimerActiveAlways(word) == TRUE

\* MmioRead32 (TIMER_TMR1_TMR_PTV_0) == (1 << 31): the whole word is compared.
IsTimerActive(word) == word = [enabled |-> TRUE, preset |-> 0]

Missed == IF notify # NULL /\ ptv.enabled THEN "missed" ELSE "idle"

TimerInterruptHandler ==
    /\ pending
    /\ IF IsTimerActive(ptv)
       THEN /\ outcome' = IF notify # NULL THEN "notified" ELSE "idle"
            /\ elapsed' \in 1..MaxMissed
            /\ ptv' = On
       ELSE /\ outcome' = Missed
            /\ UNCHANGED <<elapsed, ptv>>
    /\ UNCHANGED <<pending, notify, timerPeriod, ticksOf, argument, pc>>

\* The core calls nothing of the driver after ExitBootServices.
ExitBootServices ==
    /\ pc = "idle"
    /\ ptv' = Off
    /\ pc' = "exited"
    /\ UNCHANGED <<pending, notify, timerPeriod, ticksOf, elapsed, argument, outcome>>

Next == \/ TimerInitialize \/ RegisterHandler \/ SetTimerPeriodDisable \/ SetTimerPeriodStore
        \/ SetTimerPeriodEnable \/ Expire \/ TimerInterruptHandler \/ ExitBootServices

Spec == Init /\ [][Next]_vars

------------------------------------------------------------------------------
Stopped == pc = "idle" /\ argument = 0

\* An interrupt raised before the timer was turned off, and taken afterwards,
\* does not turn it on again: neither while SetTimerPeriod changes the period, nor
\* after a period of 0, nor once the operating system owns the machine.
OffStaysOff == Stopped \/ pc \in {"disabled", "stored", "exited"} => ~ptv.enabled

\* "so it is called every time the timer interrupt fires": an interrupt of the
\* enabled timer reaches the registered function.
CalledEveryInterrupt == outcome # "missed"
==============================================================================
