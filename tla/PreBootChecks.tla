---------------------------- MODULE PreBootChecks ----------------------------
(***************************************************************************)
(* MsPreBootChecks of DeviceBootManagerLib: before anything is booted the  *)
(* power and the thermal sensors are read, in rounds, until both are good  *)
(* or the retries are used up; a bad verdict shows a picture and shuts the *)
(* machine down.  The sensors and the mitigation belong to other packages: *)
(* their answers are inputs, chosen anew at every call.                    *)
(***************************************************************************)
EXTENDS Naturals, Integers

CONSTANT Retries        \* PcdPowerAndThermalRetries

ASSUME RetriesAssumption == Retries \in Nat

Answers  == {"good", "bad", "error"}          \* "error": the Status is an error
Verdicts == {"boot", "overTemp", "lowBattery"}

VARIABLES
    pc,           \* the statement MsPreBootChecks is about to execute
    retryCount,   \* RetryCount, an INT32
    powerGood,    \* PowerGood
    thermalGood,  \* ThermalGood
    power,        \* the last answer of SystemPowerCheck
    thermal,      \* the last answer of SystemThermalCheck
    mitigation,   \* what SystemPowerMitigate did in this round: none, ok, failed
    rounds        \* history: rounds begun (counted up to Retries + 2)

vars == <<pc, retryCount, powerGood, thermalGood, power, thermal, mitigation, rounds>>

Init == /\ pc = "create"
        /\ retryCount = Retries
        /\ powerGood = TRUE /\ thermalGood = TRUE
        /\ power = "good" /\ thermal = "good"
        /\ mitigation = "none"
        /\ rounds = 0

\* CreateEvent: without a timer no check is made at all and the boot goes on.
CreateTimer ==
    /\ pc = "create"
    /\ pc' \in {"power", "cleanup"}
    /\ UNCHANGED <<retryCount, powerGood, thermalGood, power, thermal, mitigation, rounds>>

\* Mutant of PowerGoodAfter: a failed reading keeps the flag of the round before.
PowerGoodAfterStale(answer, flag) ==
    CASE answer = "good" -> TRUE [] answer = "bad" -> FALSE [] answer = "error" -> flag

\* The else branch: an error retrieving the power state should not stop the boot.
PowerGoodAfter(answer, flag) == answer # "bad"

PowerCheck ==
    /\ pc = "power"
    /\ rounds' = IF rounds > Retries + 1 THEN rounds ELSE rounds + 1
    /\ mitigation' = "none"
    /\ \E answer \in Answers :
          /\ power' = answer
          /\ powerGood' = PowerGoodAfter(answer, powerGood)
          /\ pc' = IF answer = "bad" THEN "mitigate" ELSE "thermal"
    /\ UNCHANGED <<retryCount, thermalGood, thermal>>

\* Mutant of Mitigate: a failed mitigation carries on with the thermal test.
MitigateUnchecked ==
    /\ pc = "mitigate"
    /\ pc' = "thermal"
    /\ mitigation' \in {"ok", "failed"}
    /\ powerGood' = (mitigation' = "ok")
    /\ UNCHANGED <<retryCount, thermalGood, power, thermal, rounds>>

\* A failed mitigation goes to CleanUp; after a successful one PowerGood is
\* left as SystemPowerCheck set it.
Mitigate ==
    /\ pc = "mitigate"
    /\ \/ pc' = "thermal" /\ mitigation' = "ok"
       \/ pc' = "cleanup" /\ mitigation' = "failed"
    /\ powerGood' = FALSE
    /\ UNCHANGED <<retryCount, thermalGood, power, thermal, rounds>>

ThermalCheck ==
    /\ pc = "thermal"
    /\ \E answer \in Answers :
          /\ thermal' = answer
          /\ thermalGood' = (answer # "bad")
          /\ pc' = IF answer = "bad" /\ retryCount > 0 THEN "cool" ELSE "while"
    /\ UNCHANGED <<retryCount, powerGood, power, mitigation, rounds>>

\* SetTimer and WaitForEvent: whether the wait succeeds changes nothing.
WaitForCooling ==
    /\ pc = "cool"
    /\ pc' = "while"
    /\ UNCHANGED <<retryCount, powerGood, thermalGood, power, thermal, mitigation, rounds>>

\* Mutant of WhileTest: the retries are not counted.
WhileTestForever ==
    /\ pc = "while"
    /\ retryCount' = retryCount
    /\ pc' = IF ~(thermalGood /\ powerGood) THEN "power" ELSE "cleanup"
    /\ UNCHANGED <<powerGood, thermalGood, power, thermal, mitigation, rounds>>

\* (RetryCount-- > 0) && (!ThermalGood || !PowerGood)
WhileTest ==
    /\ pc = "while"
    /\ retryCount' = retryCount - 1
    /\ pc' = IF retryCount > 0 /\ ~(thermalGood /\ powerGood) THEN "power" ELSE "cleanup"
    /\ UNCHANGED <<powerGood, thermalGood, power, thermal, mitigation, rounds>>

\* CleanUp: the thermal verdict comes first; both shutdowns end in ResetSystem.
CleanUp ==
    /\ pc = "cleanup"
    /\ pc' = CASE ~thermalGood             -> "overTemp"
               [] thermalGood /\ ~powerGood -> "lowBattery"
               [] OTHER                     -> "boot"
    /\ UNCHANGED <<retryCount, powerGood, thermalGood, power, thermal, mitigation, rounds>>

Next == \/ CreateTimer \/ PowerCheck \/ Mitigate \/ ThermalCheck
        \/ WaitForCooling \/ WhileTest \/ CleanUp

Spec == Init /\ [][Next]_vars

------------------------------------------------------------------------------
TypeOK ==
    /\ pc \in {"create", "power", "mitigate", "thermal", "cool", "while", "cleanup"} \cup Verdicts
    /\ retryCount \in -1..Retries
    /\ powerGood \in BOOLEAN /\ thermalGood \in BOOLEAN
    /\ power \in Answers /\ thermal \in Answers
    /\ mitigation \in {"none", "ok", "failed"}
    /\ rounds \in 0..Retries + 1

\* The machine goes on to boot only if the last reading of each sensor was not
\* bad, and no mitigation of the last round failed, whatever the order in which
\* the two sensors went bad and recovered over the rounds.
NeverBootsOnBadReading ==
    pc = "boot" => power # "bad" /\ thermal # "bad" /\ mitigation # "failed"

\* "error retrieving power state should not stop boot": a shutdown is always
\* backed by a bad reading, the last one of that sensor, never by a flag left
\* over from an earlier round.
ShutdownIsJustified ==
    /\ pc = "overTemp"   => thermal = "bad"
    /\ pc = "lowBattery" => power = "bad"

\* The checks come to a verdict whatever the sensors answer: two sensors that
\* take turns in being bad cannot keep the loop running.
Terminates == <>(pc \in Verdicts)

==============================================================================
