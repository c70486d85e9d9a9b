---------------------------- MODULE TrolleyState ----------------------------
(***************************************************************************)
(* The state shared by every controller of the firmware (its global        *)
(* variables, the parameter block and its EEPROM copy, the mains and the   *)
(* temperature the board reads) and the helpers the controllers are built  *)
(* from: the supply check, the overheat check, the software timers, the    *)
(* outlets and the parameter store.                                        *)
(*                                                                         *)
(* The firmware is one loop: a pass runs the controller of runState to its *)
(* end. A pass is one step here, except where the firmware itself lets     *)
(* other things happen: the soft start of the outlets (two seconds a relay *)
(* and five for the chargers, in which cloud commands are served and timer *)
(* callbacks run) and the waits of the sleeping controller. The variable   *)
(* busy says in which of those waits the loop is.                          *)
(***************************************************************************)
EXTENDS Integers, RunStates

CONSTANTS
    TimerPeriod,    \* param.timerPeriod: length of a timed session, minutes
    MaxTimeOn,      \* param.maxTimeOn: longest smart charge, minutes
    WarmupMins,     \* param.warmupMins: warm-up of a smart charge, minutes
    MaxMins,        \* bound: minutes are counted up to here, where they stay
    PowerOnState,   \* param.powerOnState
    HubBoard,       \* TRUE when a USB-C hub answers at startup
    ScheduleType,   \* param.scheduleType: "C" on/off, "O" smart start, "N" none
    Temperatures,   \* the temperatures the board can have
    Schedules       \* what the clock and the schedule can say

ASSUME TimesAssumption ==
    /\ TimerPeriod \in Nat \ {0}
    /\ MaxTimeOn \in Nat \ {0}
    /\ WarmupMins \in Nat \ {0}
    /\ MaxMins \in Nat /\ MaxMins >= TimerPeriod
    /\ MaxMins >= MaxTimeOn /\ MaxMins >= WarmupMins
ASSUME SettingsAssumption ==
    /\ PowerOnState \in PowerOnStates
    /\ HubBoard \in BOOLEAN
    /\ ScheduleType \in {"C", "O", "N"}
ASSUME EnvironmentAssumption ==
    /\ Temperatures \subseteq {"cool", "warm", "hot"} /\ Temperatures # {}
    /\ Schedules \subseteq {"off", "on", "expired", "invalid"} /\ Schedules # {}

VARIABLES
    runState, prevRunState, oucState,
    busy,           \* the wait the loop is in, "no" between two passes
    relays,         \* the four outlet relays, driven together
    powerState, chargeState,
    mains,          \* the supply-detect pin
    temp,           \* the board: "hot" at maxTemp, "cool" ten degrees below
    isOverheated, wasOverheated,
    countdown,      \* timerCountdown.isActive()
    isUpdateCountdown, istimerCountdown_ended, timerMins,
    charging,       \* timerCharging.isActive()
    isUpdateTimer, chargeMins,
    mainsofftime,   \* "zero", or how long ago: "recent", "old" (> two minutes)
    param, eeprom,  \* the parameter block in RAM and in EEPROM
    resetTimer,     \* timerReset with isResetTimeout: "idle", "running", "expired"
    sched,          \* the schedule now: "off", "on", "expired", clock "invalid"
    newPeriod,      \* the half hour differs from the one last checked
    isAutoTimeInValidSent

relayVars == <<relays, powerState, chargeState>>
heatVars == <<isOverheated, wasOverheated>>
countdownVars == <<countdown, isUpdateCountdown, istimerCountdown_ended, timerMins>>
chargingVars == <<charging, isUpdateTimer, chargeMins>>
paramVars == <<param, eeprom>>
envVars == <<mains, temp, sched>>
scheduleVars == <<newPeriod, isAutoTimeInValidSent>>

vars == <<runState, prevRunState, oucState, busy, relayVars, heatVars,
          countdownVars, chargingVars, mainsofftime, paramVars, resetTimer,
          envVars, scheduleVars>>

-----------------------------------------------------------------------------
(* The waits of the loop. A soft start is named for what follows it.       *)
SoftStarts == {"timed", "on", "auto", "smart", "smartAuto", "smartAgain",
               "usbc", "usbcAuto", "usbcAgain"}
QueueWaits == {"queue", "resetQueue", "hibernateQueue"}
Asleep == {"hibernate", "stop"}     \* the processor does not run
Waits == {"no", "scheduled", "confirm", "wake", "booting", "woken"}
            \cup SoftStarts \cup QueueWaits \cup Asleep

(* The fields of the parameter block the controllers write.                *)
Params == [resumeState : DeviceRunStates, resumeMinutes : Int,
           resumeCause : ResumeCauses, isAuto : BOOLEAN, isOUCMonitoring : BOOLEAN]

DefaultParams == [resumeState |-> D_STARTUP, resumeMinutes |-> -1,
                  resumeCause |-> 0, isAuto |-> FALSE, isOUCMonitoring |-> FALSE]

-----------------------------------------------------------------------------
(* Power supply: CHARGING is a charge state left set, not a measurement.   *)
powerStateCheck ==
    IF ~mains THEN W_MAINS_OFF
    ELSE IF chargeState > C_NOT_CHARGING THEN W_CHARGING ELSE W_MAINS_ON

(* Longer than GOTOSLEEPDELAY since the mains went. The variable is zero   *)
(* until a loss is stamped, and the delay since zero is over as soon as    *)
(* the board has been up for two minutes.                                  *)
SleepDelayOver_ZeroOnly == mainsofftime = "zero"     \* mutant: a stamp never ages
SleepDelayOver == mainsofftime \in {"zero", "old"}

(* checkOverheated: the two flags after it ran.                            *)
BecomesOverheated == ~isOverheated /\ temp = "hot"
HasCooled == isOverheated /\ temp = "cool"
OverheatedNow_Edge == BecomesOverheated     \* mutant: a flag that does not last
OverheatedNow == (isOverheated \/ BecomesOverheated) /\ ~HasCooled
WasOverheatedNow_Stays == wasOverheated \/ HasCooled     \* mutant: never reset
WasOverheatedNow == (wasOverheated \/ HasCooled) /\ ~BecomesOverheated

-----------------------------------------------------------------------------
(* The outlets. Switching on starts the phased soft start and leaves the   *)
(* rest of the pass to the step that ends the wait; switching off is       *)
(* immediate. ps is the power state the pass has read.                     *)
ACRelaysOn(wait) ==
    /\ relays' = TRUE
    /\ powerState' = W_CHARGING
    /\ busy' = wait

ACRelaysOff_IfSupplied(ps) ==     \* mutant: nothing is switched without mains
    /\ relays' = (relays /\ ps = W_MAINS_OFF)
    /\ powerState' = IF ps = W_CHARGING THEN W_MAINS_ON ELSE ps
    /\ chargeState' = C_NOT_CHARGING
ACRelaysOff(ps) ==
    /\ relays' = FALSE
    /\ powerState' = IF ps = W_CHARGING THEN W_MAINS_ON ELSE ps
    /\ chargeState' = C_NOT_CHARGING

RelaysUntouched(ps) ==
    /\ powerState' = ps
    /\ UNCHANGED <<relays, chargeState>>

(* The software timers. *)
starttimerCountdown ==
    /\ countdown' = TRUE
    /\ istimerCountdown_ended' = FALSE
    /\ isUpdateCountdown' = FALSE

stoptimerCountdown ==
    /\ countdown' = FALSE
    /\ istimerCountdown_ended' = TRUE
    /\ isUpdateCountdown' = FALSE

starttimerCharging == charging' = TRUE /\ isUpdateTimer' = FALSE
stoptimerCharging == charging' = FALSE /\ isUpdateTimer' = FALSE

(* initTimers, with the minute counts the caller sets right after it. The  *)
(* countdown's minute flag is the one flag it does not clear.              *)
initTimers_KeepsEnded(timerStart, chargeStart) ==     \* mutant: the end flag stays
    /\ countdown' = FALSE /\ charging' = FALSE /\ isUpdateTimer' = FALSE
    /\ timerMins' = timerStart /\ chargeMins' = chargeStart
    /\ UNCHANGED <<istimerCountdown_ended, isUpdateCountdown>>
initTimers(timerStart, chargeStart) ==
    /\ countdown' = FALSE /\ charging' = FALSE
    /\ istimerCountdown_ended' = FALSE /\ isUpdateTimer' = FALSE
    /\ timerMins' = timerStart /\ chargeMins' = chargeStart
    /\ UNCHANGED isUpdateCountdown

(* The parameter store: write the block; the block with a session in it,   *)
(* and without one.                                                        *)
putParameters == eeprom' = param'
WithMinutes(p, mins, cause) ==
    [p EXCEPT !.resumeMinutes = mins, !.resumeCause = cause]
WithSession(p, s, mins, cause) ==
    [WithMinutes(p, mins, cause) EXCEPT !.resumeState = s]
WithoutResumeData_KeepsMinutes(p) ==     \* mutant: the minutes are not cleared
    WithSession(p, D_STARTUP, p.resumeMinutes, 0)
WithoutResumeData(p) == WithSession(p, D_STARTUP, -1, 0)
helperCleanUpResumeData == param' = WithoutResumeData(param) /\ putParameters

(* One more minute. No threshold lies above MaxMins, so a count that stays *)
(* there decides every comparison as the true one would.                   *)
Counted(mins) == IF mins < MaxMins THEN mins + 1 ELSE mins

(* Minutes a session restarts from: none saved (-1) starts at zero.        *)
ResumedMinutes_Raw == param.resumeMinutes     \* mutant: -1 taken as a count
ResumedMinutes == IF param.resumeMinutes <= 0 THEN 0 ELSE param.resumeMinutes

-----------------------------------------------------------------------------
(* Before the controller, a pass checks whether a scheduled smart charge   *)
(* is due. It has something to do in these cases; no controller runs then. *)
ScheduledCheckRuns ==
    /\ param.isOUCMonitoring
    /\ runState \in {D_TIMED_ON, D_ALWAYS_ON, D_CHARGED_ON, D_STANDBY}
StartIsDue == ScheduledCheckRuns /\ sched = "on" /\ newPeriod
CheckHasWork ==
    \/ StartIsDue
    \/ ScheduledCheckRuns /\ sched = "expired"
    \/ ScheduledCheckRuns /\ (sched = "invalid") # isAutoTimeInValidSent

(* The pass that runs the controller of run state s.                       *)
Pass(s) == busy = "no" /\ runState = s /\ ~CheckHasWork
=============================================================================
