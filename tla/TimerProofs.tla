----------------------------- MODULE TimerProofs -----------------------------
(***************************************************************************)
(* The timer driver for every set of functions and periods, and the delay  *)
(* loop for every width of the counter, with interrupts anywhere.          *)
(***************************************************************************)
EXTENDS TegraTimers, Integers, TLAPS

(* The driver writes one preset only, which is not 0: the handler never    *)
(* takes the timer for active, and so never writes the register.           *)
TimerInv ==
    /\ ptv \in {Timer!On, Timer!Off}
    /\ timerPc \in {"install", "idle", "disabled", "stored", "exited"}
    /\ timerPc \in {"install", "disabled", "stored", "exited"} => ptv = Timer!Off
    /\ timerPc = "stored" => argument # 0
    /\ timerPc = "install" => argument = NULL
    /\ timerPc = "idle" /\ argument = 0 => ptv = Timer!Off

LEMMA RegisterIsNeverActive == ptv \in {Timer!On, Timer!Off} => ~Timer!IsTimerActive(ptv)
BY DEF Timer!On, Timer!Off, Timer!Preset, Timer!IsTimerActive

LEMMA TimerInvNext == TimerInv /\ [TimersNext]_allVars => TimerInv'
<1> SUFFICES ASSUME TimerInv, [TimersNext]_allVars PROVE TimerInv'
  OBVIOUS
<1> USE TimerAssumption DEF TimerInv
<1>1. CASE UNCHANGED timerVars
  BY <1>1 DEF timerVars
<1>2. CASE Timer!TimerInitialize
  BY <1>2 DEF Timer!TimerInitialize
<1>3. CASE Timer!RegisterHandler
  BY <1>3 DEF Timer!RegisterHandler
<1>4. CASE Timer!SetTimerPeriodDisable
  BY <1>4 DEF Timer!SetTimerPeriodDisable
<1>5. CASE Timer!SetTimerPeriodStore
  BY <1>5 DEF Timer!SetTimerPeriodStore
<1>6. CASE Timer!SetTimerPeriodEnable
  BY <1>6 DEF Timer!SetTimerPeriodEnable
<1>7. CASE Timer!ExitBootServices
  BY <1>7 DEF Timer!ExitBootServices
<1>8. CASE Timer!Expire
  BY <1>8 DEF Timer!Expire
<1>9. CASE Timer!TimerInterruptHandler
  <2>1. UNCHANGED <<ptv, argument, timerPc>>
    BY <1>9, RegisterIsNeverActive DEF Timer!TimerInterruptHandler
  <2> QED BY <2>1
<1> QED
  BY <1>1, <1>2, <1>3, <1>4, <1>5, <1>6, <1>7, <1>8, <1>9
     DEF TimersNext, allVars, BeginDelay, WaitOn, Oscillate, CallTimer, Interrupt

LEMMA TimerInvHolds == TimersSpec => []TimerInv
<1>1. TimersInit => TimerInv
  BY DEF TimersInit, Timer!Init, TimerInv
<1> QED BY <1>1, TimerInvNext, PTL DEF TimersSpec

(* A timer that was turned off stays off, whenever a late interrupt comes. *)
THEOREM TimerStaysOff == TimersSpec => []OffStaysOff
<1>1. TimerInv => OffStaysOff
  BY DEF TimerInv, OffStaysOff, Timer!OffStaysOff, Timer!Stopped, Timer!Off
<1> QED BY <1>1, TimerInvHolds, PTL

------------------------------------------------------------------------------
(* The counter, a number modulo the width of its register, and the time.   *)
LEMMA ModOfSum ==
  ASSUME NEW m \in Nat \ {0}, NEW a \in Nat, NEW d \in Nat, (a % m) + d < m
  PROVE  (a + d) % m = (a % m) + d
<1> DEFINE q == a \div m
           p == (a + d) \div m
           r == (a + d) % m
           c == a % m
<1>1. a = m * q + c /\ q \in Int /\ c \in 0 .. m - 1
  OBVIOUS
<1>2. a + d = m * p + r /\ p \in Int /\ r \in 0 .. m - 1
  OBVIOUS
<1> HIDE DEF q, p, r, c
<1>3. m * p - m * q = c + d - r /\ m * p \in Int /\ m * q \in Int
  BY <1>1, <1>2
<1>4. m * (p - q) = c + d - r
  BY <1>1, <1>2, <1>3
<1>5. CASE p - q >= 1
  <2>1. m * (p - q) >= m
    BY <1>5, <1>1, <1>2
  <2> QED BY <2>1, <1>4, <1>1, <1>2 DEF c
<1>6. CASE p - q <= -1
  <2>1. m * (p - q) <= -m
    BY <1>6, <1>1, <1>2
  <2> QED BY <2>1, <1>4, <1>1, <1>2 DEF c
<1>7. CASE p = q
  <2>1. m * p = m * q
    BY <1>7
  <2>2. r = c + d
    BY <2>1, <1>3, <1>1, <1>2
  <2> QED BY <2>2 DEF c, r
<1>8. p \in Int /\ q \in Int
  BY <1>1, <1>2
<1>9. p - q >= 1 \/ p - q <= -1 \/ p = q
  BY <1>8
<1> QED BY <1>5, <1>6, <1>7, <1>9

(* The last read of a delay's loop was skipped ticks ago.  As long as the  *)
(* counter has not wrapped it is as far from the start of the delay as the *)
(* time, and a loop that goes on has read nothing past its target.         *)
DelayInv ==
    /\ now \in Nat /\ started \in Nat /\ delay \in 0 .. MaxDelay /\ skipped \in 0 .. MaxSkip
    /\ pc = "while" =>
          /\ started <= now - skipped
          /\ target = TargetOf(delay, started % Modulus)
          /\ ~Wraps => /\ counter = (started % Modulus) + (now - skipped - started)
                       /\ now - skipped - started < delay + MaxSkip

LEMMA NoWrap ==
  ASSUME DelayInv, ~Wraps, pc = "while"
  PROVE  /\ started % Modulus \in Nat /\ target = (started % Modulus) + delay
         /\ (started % Modulus) + delay + MaxSkip <= Modulus
<1>1. Modulus \in Nat \ {0} /\ MaxSkip \in Nat \ {0} /\ MaxDelay \in Nat
  BY DelayAssumption
<1>2. started % Modulus \in 0 .. Modulus - 1
  BY <1>1 DEF DelayInv
<1>3. (started % Modulus) + delay + MaxSkip <= Modulus
  BY <1>1, <1>2 DEF DelayInv, Wraps
<1>4. ((started % Modulus) + delay) % Modulus = (started % Modulus) + delay
  <2> DEFINE x == (started % Modulus) + delay
  <2>1. x \in 0 .. Modulus - 1
    BY <1>1, <1>2, <1>3 DEF DelayInv
  <2> HIDE DEF x
  <2>2. x % Modulus = x
    BY <1>1, <2>1
  <2> QED BY <2>2 DEF x
<1>5. delay + (started % Modulus) = (started % Modulus) + delay
  BY <1>1, <1>2 DEF DelayInv
<1> QED BY <1>2, <1>3, <1>4, <1>5 DEF DelayInv, TargetOf

LEMMA DelayInvNext == DelayInv /\ [Next]_vars => DelayInv'
<1> SUFFICES ASSUME DelayInv, [Next]_vars PROVE DelayInv'
  OBVIOUS
<1>1. Modulus \in Nat \ {0} /\ MaxSkip \in Nat \ {0} /\ MaxDelay \in Nat
  BY DelayAssumption
<1>2. CASE UNCHANGED vars
  BY <1>2 DEF vars, DelayInv, Wraps, TargetOf
<1>3. CASE MicroSecondDelay
  <2>1. now % Modulus \in Nat
    BY <1>1 DEF DelayInv
  <2>2. /\ delay' \in 0 .. MaxDelay /\ started' = now /\ now' = now /\ skipped' = 0
        /\ counter' = now % Modulus /\ target' = TargetOf(delay', now % Modulus)
    BY <1>3 DEF MicroSecondDelay
  <2>3. now - 0 - now = 0 /\ 0 < delay' + MaxSkip /\ now <= now - 0 /\ 0 \in 0 .. MaxSkip
    <3>1. now \in Nat /\ delay' \in Nat
      BY <1>1, <2>2 DEF DelayInv
    <3>2. now - 0 - now = 0 /\ now <= now - 0
      BY <3>1
    <3>3. MaxSkip \in Nat /\ MaxSkip >= 1 /\ 0 \in 0 .. MaxSkip
      BY <1>1
    <3>4. \A d \in Nat : 0 < d + MaxSkip
      BY <3>3
    <3>6. 0 < delay' + MaxSkip
      BY <3>1, <3>4
    <3> QED BY <3>2, <3>3, <3>6
  <2>4. (now % Modulus) + 0 = now % Modulus
    BY <2>1
  <2>5. target' = TargetOf(delay, started % Modulus)'
    BY <2>2 DEF TargetOf
  <2> QED BY <2>2, <2>3, <2>4, <2>5 DEF DelayInv
<1>4. CASE Tick
  BY <1>1, <1>4 DEF Tick, DelayInv, Wraps, TargetOf
<1>5. CASE ReadCounter
  <2>1. UNCHANGED <<now, started, delay, target>> /\ (Wraps' <=> Wraps) /\ pc = "while"
    BY <1>5 DEF ReadCounter, Wraps
  <2>2. CASE pc' = "idle" /\ UNCHANGED skipped
    BY <2>1, <2>2 DEF DelayInv
  <2>3. CASE counter < target /\ counter' = now % Modulus /\ skipped' = 0 /\ pc' = "while"
    <3>1. started <= now - 0 /\ skipped' \in 0 .. MaxSkip
      BY <1>1, <2>1, <2>3 DEF DelayInv
    <3>2. ASSUME ~Wraps
          PROVE  /\ counter' = (started % Modulus) + (now - started)
                 /\ now - started < delay + MaxSkip
      <4>1. /\ started % Modulus \in Nat /\ target = (started % Modulus) + delay
            /\ (started % Modulus) + delay + MaxSkip <= Modulus
        BY <2>1, <3>2, NoWrap
      <4>2. counter = (started % Modulus) + (now - skipped - started)
        BY <2>1, <3>2 DEF DelayInv
      <4>3. now - started < delay + MaxSkip /\ now - started \in Nat
        BY <1>1, <2>1, <2>3, <4>1, <4>2 DEF DelayInv
      <4>4. (started % Modulus) + (now - started) < Modulus
        BY <1>1, <4>1, <4>3 DEF DelayInv
      <4>5. (started + (now - started)) % Modulus = (started % Modulus) + (now - started)
        BY <1>1, <4>3, <4>4, ModOfSum DEF DelayInv
      <4>6. started + (now - started) = now
        BY DEF DelayInv
      <4> QED BY <2>3, <4>3, <4>5, <4>6
    <3> QED BY <2>1, <2>3, <3>1, <3>2 DEF DelayInv
  <2> QED BY <1>5, <2>1, <2>2, <2>3 DEF ReadCounter
<1> QED BY <1>2, <1>3, <1>4, <1>5 DEF Next

LEMMA TimersStepIsADelayStep == [TimersNext]_allVars => [Next]_vars
BY DEF TimersNext, allVars, BeginDelay, WaitOn, Oscillate, CallTimer, Interrupt, Next

LEMMA DelayInvHolds == TimersSpec => []DelayInv
<1>1. TimersInit => DelayInv
  BY DelayAssumption DEF TimersInit, Init, DelayInv
<1> QED BY <1>1, DelayInvNext, TimersStepIsADelayStep, PTL DEF TimersSpec

(* MicroSecondDelay returns when the whole delay has passed, late by one   *)
(* iteration at most, unless the counter wraps.                            *)
THEOREM DelaysAreExact == TimersSpec => []DelayIsExact
<1>1. DelayInv => DelayIsExact
  <2> SUFFICES ASSUME DelayInv, Returning, ~Wraps, skipped = 0
               PROVE  Elapsed \in delay .. delay + MaxSkip
    BY DEF DelayIsExact
  <2>1. Modulus \in Nat \ {0} /\ MaxSkip \in Nat \ {0} /\ MaxDelay \in Nat
    BY DelayAssumption
  <2>2. /\ started % Modulus \in Nat /\ target = (started % Modulus) + delay
        /\ counter = (started % Modulus) + (now - skipped - started)
        /\ now - skipped - started < delay + MaxSkip
    BY NoWrap DEF DelayInv, Returning
  <2>3. counter >= target
    BY DEF Returning
  <2> QED BY <2>1, <2>2, <2>3 DEF DelayInv, Elapsed
<1> QED BY <1>1, DelayInvHolds, PTL

------------------------------------------------------------------------------
(* The time between two reads is no less than the counter went up.         *)
LEMMA ModOfDifference ==
  ASSUME NEW m \in Nat \ {0}, NEW a \in Nat, NEW b \in Nat, a <= b
  PROVE  (b % m) - (a % m) <= b - a
<1> DEFINE q == a \div m
           p == b \div m
           c == a % m
           r == b % m
<1>1. a = m * q + c /\ q \in Int /\ c \in 0 .. m - 1
  OBVIOUS
<1>2. b = m * p + r /\ p \in Int /\ r \in 0 .. m - 1
  OBVIOUS
<1> HIDE DEF q, p, r, c
<1>3. b - a = m * (p - q) + (r - c)
  <2>1. m * (p - q) = m * p - m * q /\ m * p \in Int /\ m * q \in Int
    BY <1>1, <1>2
  <2> QED BY <1>1, <1>2, <2>1
<1>4. CASE p - q >= 0
  <2>1. m * (p - q) >= 0 /\ m * (p - q) \in Int
    BY <1>4, <1>1, <1>2
  <2>2. r - c <= b - a
    BY <1>1, <1>2, <1>3, <2>1
  <2> QED BY <2>2 DEF r, c
<1>5. CASE p - q <= -1
  <2>1. m * (p - q) <= -m /\ m * (p - q) \in Int
    BY <1>5, <1>1, <1>2
  <2>2. b - a < 0
    BY <1>1, <1>2, <1>3, <2>1
  <2> QED BY <2>2
<1> QED BY <1>1, <1>2, <1>4, <1>5

(* Past the width of its register the sum begins again.                    *)
LEMMA ModOfWrapped ==
  ASSUME NEW m \in Nat \ {0}, NEW x \in m .. 2 * m - 1
  PROVE  x % m = x - m
<1> DEFINE q == x \div m
           r == x % m
<1>1. x = m * q + r /\ q \in Int /\ r \in 0 .. m - 1
  OBVIOUS
<1> HIDE DEF q, r
<1>2. CASE q >= 2
  <2>1. m * q >= m * 2 /\ m * q \in Int
    BY <1>1, <1>2
  <2> QED BY <1>1, <2>1
<1>3. CASE q <= 0
  <2>1. m * q <= 0 /\ m * q \in Int
    BY <1>1, <1>3
  <2> QED BY <1>1, <2>1
<1>4. CASE q = 1
  BY <1>1, <1>4 DEF r
<1> QED BY <1>1, <1>2, <1>3, <1>4

(* A target behind the wrap is no greater than the counter at the start.   *)
LEMMA TargetFromStart ==
  ASSUME DelayInv, pc = "while"
  PROVE  /\ started % Modulus \in 0 .. Modulus - 1
         /\ TargetWraps => target <= started % Modulus
         /\ ~TargetWraps => target = (started % Modulus) + delay
<1>1. Modulus \in Nat \ {0} /\ MaxDelay \in 0 .. Modulus - 1
  BY DelayAssumption
<1>2. started % Modulus \in 0 .. Modulus - 1 /\ delay \in 0 .. Modulus - 1
  BY <1>1 DEF DelayInv
<1> DEFINE x == delay + (started % Modulus)
<1>3. x \in 0 .. 2 * Modulus - 1 /\ x = (started % Modulus) + delay /\ target = x % Modulus
  BY <1>1, <1>2 DEF DelayInv, TargetOf
<1>4. CASE TargetWraps
  <2>1. x \in Modulus .. 2 * Modulus - 1
    BY <1>1, <1>2, <1>3, <1>4 DEF TargetWraps
  <2> HIDE DEF x
  <2>2. x % Modulus = x - Modulus
    BY <1>1, <2>1, ModOfWrapped
  <2> QED BY <1>1, <1>2, <1>3, <1>4, <2>2
<1>5. CASE ~TargetWraps
  <2>1. x \in 0 .. Modulus - 1
    BY <1>1, <1>2, <1>3, <1>5 DEF TargetWraps
  <2> HIDE DEF x
  <2>2. x % Modulus = x
    BY <1>1, <2>1
  <2> QED BY <1>2, <1>3, <1>5, <2>2
<1> QED BY <1>4, <1>5

(* The counter is the time of its last read, and a loop whose target is    *)
(* behind the wrap has read it only once.                                  *)
ReadInv == pc = "while" => /\ counter = (now - skipped) % Modulus
                           /\ TargetWraps => now - skipped = started

LEMMA ReadInvNext == DelayInv /\ ReadInv /\ [Next]_vars => ReadInv'
<1> SUFFICES ASSUME DelayInv, ReadInv, [Next]_vars PROVE ReadInv'
  OBVIOUS
<1>1. CASE UNCHANGED vars
  BY <1>1 DEF vars, ReadInv, TargetWraps
<1>2. CASE MicroSecondDelay
  <2>1. now \in Nat /\ now - 0 = now
    BY DEF DelayInv
  <2> QED BY <1>2, <2>1 DEF MicroSecondDelay, ReadInv
<1>3. CASE Tick
  <2>1. now \in Nat /\ skipped \in Nat
    BY DelayAssumption DEF DelayInv
  <2>2. ASSUME pc = "while"
        PROVE  (now' - skipped' = now - skipped) /\ UNCHANGED <<started, delay, counter>>
    BY <1>3, <2>1, <2>2 DEF Tick
  <2> QED BY <1>3, <2>2 DEF Tick, ReadInv, TargetWraps
<1>4. CASE ReadCounter
  <2>1. CASE pc' = "idle"
    BY <2>1 DEF ReadInv
  <2>2. CASE counter < target /\ counter' = now % Modulus /\ skipped' = 0 /\ pc' = "while"
    <3>1. UNCHANGED <<now, started, delay, target>> /\ pc = "while" /\ now - 0 = now
      BY <1>4 DEF ReadCounter, DelayInv
    <3>2. ~TargetWraps
      <4>1. SUFFICES ASSUME TargetWraps PROVE FALSE
        OBVIOUS
      <4>2. counter = started % Modulus
        BY <3>1, <4>1 DEF ReadInv
      <4>3. target <= started % Modulus /\ started % Modulus \in Nat
        BY <3>1, <4>1, TargetFromStart, DelayAssumption
      <4>4. target \in Nat
        BY <3>1, DelayAssumption DEF DelayInv, TargetOf
      <4> QED BY <2>2, <4>2, <4>3, <4>4
    <3>3. ~TargetWraps'
      BY <3>1, <3>2 DEF TargetWraps
    <3> QED BY <2>2, <3>1, <3>3 DEF ReadInv
  <2> QED BY <1>4, <2>1, <2>2 DEF ReadCounter
<1> QED BY <1>1, <1>2, <1>3, <1>4 DEF Next

(* A delay ends early only if its target is behind the wrap, and then at   *)
(* once: however long the interrupts between two reads take.               *)
THEOREM EarlyDelaysWrap == TimersSpec => []EarlyOnlyAtWrap
<1>1. DelayInv /\ ReadInv => EarlyOnlyAtWrap
  <2> SUFFICES ASSUME DelayInv, ReadInv, Returning, skipped = 0, Elapsed < delay
               PROVE  TargetWraps /\ Elapsed = 0
    BY DEF EarlyOnlyAtWrap
  <2>1. pc = "while" /\ counter >= target
    BY DEF Returning
  <2>2. now \in Nat /\ started \in Nat /\ delay \in Nat /\ started <= now /\ now - 0 = now
    BY <2>1, DelayAssumption DEF DelayInv
  <2>3. counter = now % Modulus /\ counter \in Nat
    BY <2>1, <2>2, DelayAssumption DEF ReadInv
  <2>4. CASE TargetWraps
    BY <2>1, <2>2, <2>4 DEF ReadInv, Elapsed
  <2>5. CASE ~TargetWraps
    <3>1. target = (started % Modulus) + delay /\ started % Modulus \in Nat
      BY <2>1, <2>5, TargetFromStart, DelayAssumption
    <3>2. counter - (started % Modulus) <= now - started
      BY <2>2, <2>3, ModOfDifference, DelayAssumption
    <3>3. Elapsed >= delay
      BY <2>1, <2>2, <2>3, <3>1, <3>2 DEF Elapsed
    <3> QED BY <2>2, <3>3 DEF Elapsed
  <2> QED BY <2>4, <2>5
<1>2. TimersInit => ReadInv
  BY DEF TimersInit, Init, ReadInv
<1> QED BY <1>1, <1>2, DelayInvHolds, ReadInvNext, TimersStepIsADelayStep, PTL DEF TimersSpec
==============================================================================
