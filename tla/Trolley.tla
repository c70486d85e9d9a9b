------------------------------ MODULE Trolley ------------------------------
(***************************************************************************)
(* The charging trolley: the loop with all its controllers, and what goes  *)
(* on around it: the mains, the temperature, the minute timers, the clock  *)
(* and its schedule, commands from the cloud, and resets.                  *)
(***************************************************************************)
EXTENDS StandbyAndSleep, TimedAndContinuous, AutoSchedule, SmartCharging, WebCommands

CONSTANTS
    CanReset,       \* whether the board may be reset at any moment
    SteadyWaits     \* the waits in which the mains is assumed not to change
ASSUME SurroundingsAssumption == CanReset \in BOOLEAN /\ SteadyWaits \subseteq Waits

-----------------------------------------------------------------------------
Init ==
    /\ runState = D_STARTUP /\ prevRunState = D_STARTUP
    /\ oucState = ON_UNTIL_OFF
    /\ busy = "no"
    /\ relays = FALSE /\ powerState = 0 /\ chargeState = C_NOT_CHARGING
    /\ mains \in BOOLEAN /\ temp \in Temperatures /\ sched \in Schedules
    /\ isOverheated = FALSE /\ wasOverheated = FALSE
    /\ countdown = FALSE /\ isUpdateCountdown = FALSE
    /\ istimerCountdown_ended = FALSE /\ timerMins = 0
    /\ charging = FALSE /\ isUpdateTimer = FALSE /\ chargeMins = 0
    /\ mainsofftime = "zero"
    /\ param = DefaultParams /\ eeprom = DefaultParams
    /\ resetTimer = "idle"
    /\ newPeriod = TRUE /\ isAutoTimeInValidSent = FALSE

(* One step of the loop. *)
LoopPass ==
    \/ StandbyAndSleepPass
    \/ TimedAndContinuousPass
    \/ AutoSchedulePass
    \/ SmartChargingPass
    \/ WebCommandsPass

-----------------------------------------------------------------------------
(* The surroundings. *)
deviceVars == <<runState, prevRunState, oucState, relayVars, heatVars, paramVars>>

MainsFails ==
    /\ mains /\ mains' = FALSE /\ busy \notin SteadyWaits
    /\ UNCHANGED <<deviceVars, busy, countdownVars, chargingVars, mainsofftime,
                   resetTimer, temp, sched, scheduleVars>>

(* The rising wake pin ends both depths of sleep.                          *)
MainsReturns ==
    /\ ~mains /\ mains' = TRUE /\ busy \notin SteadyWaits
    /\ busy' = CASE busy = "hibernate" -> "booting"
                 [] busy = "stop" -> "woken"
                 [] OTHER -> busy
    /\ UNCHANGED <<deviceVars, countdownVars, chargingVars, mainsofftime,
                   resetTimer, temp, sched, scheduleVars>>

TemperatureChanges ==
    /\ temp' \in Temperatures \ {temp}
    /\ UNCHANGED <<deviceVars, busy, countdownVars, chargingVars, mainsofftime,
                   resetTimer, mains, sched, scheduleVars>>

(* Another half hour of the schedule, or the clock or the schedule ends.   *)
(* Two half hours in a row never compare as the same, others may.          *)
ScheduleMoves ==
    /\ sched' \in Schedules
    /\ newPeriod' \in IF sched' = "on" /\ sched # "on" THEN BOOLEAN ELSE {TRUE}
    /\ UNCHANGED <<deviceVars, busy, countdownVars, chargingVars, mainsofftime,
                   resetTimer, mains, temp, isAutoTimeInValidSent>>

(* Timer callbacks: a minute has passed, which the next pass will count.   *)
CountdownMinute ==
    /\ countdown /\ busy \notin Asleep
    /\ isUpdateCountdown' = TRUE
    /\ UNCHANGED <<deviceVars, busy, countdown, istimerCountdown_ended, timerMins,
                   chargingVars, mainsofftime, resetTimer, envVars, scheduleVars>>

ChargingMinute ==
    /\ charging /\ busy \notin Asleep
    /\ isUpdateTimer' = TRUE
    /\ UNCHANGED <<deviceVars, busy, countdownVars, charging, chargeMins,
                   mainsofftime, resetTimer, envVars, scheduleVars>>

ResetTimerExpires ==
    /\ resetTimer = "running" /\ busy \notin Asleep
    /\ resetTimer' = "expired"
    /\ UNCHANGED <<deviceVars, busy, countdownVars, chargingVars, mainsofftime,
                   envVars, scheduleVars>>

SleepDelayPasses ==
    /\ mainsofftime = "recent" /\ busy \notin Asleep
    /\ mainsofftime' = "old"
    /\ UNCHANGED <<deviceVars, busy, countdownVars, chargingVars, resetTimer,
                   envVars, scheduleVars>>

(* Watchdog, brown-out or an empty battery: at any moment.                 *)
Reset == CanReset /\ Booted

Surroundings ==
    \/ MainsFails \/ MainsReturns \/ TemperatureChanges \/ ScheduleMoves
    \/ CountdownMinute \/ ChargingMinute \/ ResetTimerExpires \/ SleepDelayPasses
    \/ Reset

Next == LoopPass \/ remoteAdmin \/ Surroundings

Spec == Init /\ [][Next]_vars

(* The loop runs for ever and the timers fire; the mains, the temperature, *)
(* the commands and the schedule owe nothing.                              *)
Fairness ==
    /\ WF_vars(LoopPass)
    /\ WF_vars(CountdownMinute) /\ WF_vars(ChargingMinute)
    /\ WF_vars(ResetTimerExpires) /\ WF_vars(SleepDelayPasses)

FairSpec == Spec /\ Fairness

-----------------------------------------------------------------------------
RunStateOK ==
    /\ runState \in DeviceRunStates /\ prevRunState \in DeviceRunStates
    /\ oucState \in OucStates /\ busy \in Waits
OutletsOK ==
    relays \in BOOLEAN /\ powerState \in PowerStates /\ chargeState \in ChargeStates
MinutesOK == timerMins \in Nat /\ chargeMins \in Nat
StoreOK == param \in Params /\ eeprom \in Params
FlagsOK ==
    /\ isOverheated \in BOOLEAN /\ wasOverheated \in BOOLEAN
    /\ countdown \in BOOLEAN /\ isUpdateCountdown \in BOOLEAN
    /\ istimerCountdown_ended \in BOOLEAN
    /\ charging \in BOOLEAN /\ isUpdateTimer \in BOOLEAN
    /\ newPeriod \in BOOLEAN /\ isAutoTimeInValidSent \in BOOLEAN
SurroundingsOK ==
    /\ mains \in BOOLEAN /\ temp \in Temperatures /\ sched \in Schedules
    /\ mainsofftime \in {"zero", "recent", "old"}
    /\ resetTimer \in {"idle", "running", "expired"}

(* No controller leaves its enumerations: every run state is one the loop  *)
(* has a controller for, every stored session one of its run states, every *)
(* minute count a count.                                                   *)
TypeOK ==
    RunStateOK /\ OutletsOK /\ MinutesOK /\ StoreOK /\ FlagsOK /\ SurroundingsOK
=============================================================================
