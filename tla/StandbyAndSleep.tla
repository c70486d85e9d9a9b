-------------------------- MODULE StandbyAndSleep --------------------------
(***************************************************************************)
(* The controllers that hold the outlets off: startup, restart, standby,   *)
(* and sleep with its three supply checks and two depths of sleep.         *)
(***************************************************************************)
EXTENDS TrolleyState

-----------------------------------------------------------------------------
(* First pass after a reset: the power-on setting picks the run state.     *)
startupController ==
    /\ Pass(D_STARTUP)
    /\ runState' = powerOnStateSelection(PowerOnState, param.resumeState)
    /\ UNCHANGED param /\ putParameters
    /\ UNCHANGED <<prevRunState, oucState, busy, relayVars, heatVars, countdownVars,
                   chargingVars, mainsofftime, resetTimer, envVars, scheduleVars>>

(* setup: RAM is fresh, the outlet pins are driven low and the parameters  *)
(* come from EEPROM.                                                       *)
Booted ==
    /\ runState' = D_STARTUP /\ prevRunState' = D_STARTUP
    /\ oucState' = ON_UNTIL_OFF
    /\ busy' = "no"
    /\ relays' = FALSE /\ powerState' = 0 /\ chargeState' = C_NOT_CHARGING
    /\ isOverheated' = FALSE /\ wasOverheated' = FALSE
    /\ isUpdateCountdown' = FALSE
    /\ countdown' = FALSE /\ charging' = FALSE
    /\ istimerCountdown_ended' = FALSE /\ isUpdateTimer' = FALSE
    /\ timerMins' = 0 /\ chargeMins' = 0
    /\ mainsofftime' = "zero"
    /\ param' = eeprom /\ UNCHANGED eeprom
    /\ resetTimer' = "idle"
    /\ newPeriod' = TRUE /\ isAutoTimeInValidSent' = FALSE
    /\ UNCHANGED envVars

(* Restart: a one-shot timer lets the events go, then the board resets.    *)
restartController ==
    /\ Pass(D_RESTART)
    /\ \/ /\ resetTimer = "idle"
          /\ resetTimer' = "running"
          /\ UNCHANGED <<runState, prevRunState, oucState, busy, relayVars, heatVars,
                         countdownVars, chargingVars, mainsofftime, paramVars,
                         envVars, scheduleVars>>
       \/ resetTimer = "expired" /\ Booted

-----------------------------------------------------------------------------
(* To standby. The supply is the one some earlier pass has read, and the   *)
(* outlets are left as they are.                                           *)
goToStandbyController ==
    /\ Pass(D_GOTOSTANDBY)
    /\ oucState' = IF ~param.isOUCMonitoring THEN ON_UNTIL_OFF
                   ELSE IF HubBoard THEN ON_UNTIL_USBC ELSE ON_UNTIL_AUTO
    /\ \/ /\ powerState = W_MAINS_OFF
          /\ runState' = D_GOTOSLEEP
          /\ UNCHANGED <<chargeState, paramVars>>
       \/ /\ powerState # W_MAINS_OFF
          /\ runState' = D_STANDBY
          /\ chargeState' = C_NOT_CHARGING
          /\ param' = WithMinutes(param, -1, 0)
          /\ putParameters
    /\ UNCHANGED <<prevRunState, busy, relays, powerState, heatVars, countdownVars,
                   chargingVars, mainsofftime, resetTimer, envVars, scheduleVars>>

standbyController ==
    /\ Pass(D_STANDBY)
    /\ \/ /\ powerStateCheck = W_MAINS_ON
          /\ powerState' = W_MAINS_ON
          /\ prevRunState' = D_STANDBY
          /\ isOverheated' = OverheatedNow
          /\ wasOverheated' = OverheatedNow
          /\ UNCHANGED <<runState, chargeState, paramVars>>
       \/ /\ powerStateCheck = W_MAINS_OFF
          /\ powerState' = W_MAINS_OFF
          /\ param' = WithSession(param, D_STANDBY, -1, RESUME_MAINS_OFF)
          /\ putParameters
          /\ prevRunState' = D_STANDBY
          /\ runState' = D_GOTOSLEEP
          /\ UNCHANGED <<chargeState, heatVars>>
       \/ /\ powerStateCheck = W_CHARGING   \* reported as an error and repaired
          /\ powerState' = W_MAINS_ON
          /\ chargeState' = C_NOT_CHARGING
          /\ UNCHANGED <<runState, prevRunState, heatVars, paramVars>>
    /\ UNCHANGED <<oucState, busy, relays, countdownVars, chargingVars,
                   mainsofftime, resetTimer, envVars, scheduleVars>>

-----------------------------------------------------------------------------
goToSleepController ==
    /\ Pass(D_GOTOSLEEP)
    /\ chargeState' = C_NOT_CHARGING
    /\ runState' = D_SLEEPING
    /\ UNCHANGED <<prevRunState, oucState, busy, relays, powerState, heatVars,
                   countdownVars, chargingVars, mainsofftime, paramVars, resetTimer,
                   envVars, scheduleVars>>

(* A mistake in helperAfterSleep: a session of no minute yet is not taken  *)
(* up.                                                                     *)
helperAfterSleep_Minutes ==
    /\ param' = eeprom
    /\ runState' = IF eeprom.resumeState > D_STANDBY /\ eeprom.resumeMinutes > 0
                   THEN eeprom.resumeState ELSE runState
    /\ UNCHANGED <<eeprom, busy>>

(* The mains came back before the first check (helperAfterSleep).          *)
helperAfterSleep ==
    /\ param' = eeprom
    /\ runState' = IF eeprom.resumeState > D_STANDBY THEN eeprom.resumeState
                   ELSE runState
    /\ UNCHANGED <<eeprom, busy>>

(* Sleeping, first check: without mains, wait for the event queue.         *)
sleepingController ==
    /\ Pass(D_SLEEPING)
    /\ powerState' = powerStateCheck
    /\ \/ /\ powerStateCheck = W_MAINS_OFF
          /\ busy' = "queue"
          /\ UNCHANGED <<runState, paramVars>>
       \/ powerStateCheck = W_MAINS_ON /\ helperAfterSleep
       \/ powerStateCheck = W_CHARGING /\ UNCHANGED <<runState, busy, paramVars>>
    /\ UNCHANGED <<prevRunState, oucState, relays, chargeState, heatVars,
                   countdownVars, chargingVars, mainsofftime, resetTimer,
                   envVars, scheduleVars>>

(* The queue is empty or five seconds are over: second check, and the      *)
(* parameters are saved before the deep sleep.                             *)
SleepQueueDone ==
    /\ busy = "queue"
    /\ \/ /\ ~mains
          /\ param' = [param EXCEPT !.resumeCause = RESUME_MAINS_OFF]
          /\ putParameters
          /\ busy' = "confirm"
       \/ mains /\ busy' = "wake" /\ UNCHANGED paramVars
    /\ UNCHANGED <<runState, prevRunState, oucState, relayVars, heatVars,
                   countdownVars, chargingVars, mainsofftime, resetTimer,
                   envVars, scheduleVars>>

(* Third check: hibernate, unless the wake pin (the mains) is high.        *)
SleepConfirm ==
    /\ busy = "confirm"
    /\ busy' = IF mains THEN "wake" ELSE "hibernate"
    /\ UNCHANGED <<runState, prevRunState, oucState, relayVars, heatVars,
                   countdownVars, chargingVars, mainsofftime, paramVars, resetTimer,
                   envVars, scheduleVars>>

(* A suspended session goes straight back to its controller.               *)
ResumeOrStandby ==
    runState' = IF param.resumeMinutes >= 0 THEN param.resumeState ELSE D_GOTOSTANDBY

(* Fourth check, not having hibernated: resume, or stop until the mains    *)
(* returns.                                                                *)
SleepWake ==
    /\ busy = "wake"
    /\ powerState' = powerStateCheck
    /\ \/ /\ powerStateCheck = W_MAINS_ON
          /\ ResumeOrStandby
          /\ busy' = "no"
          /\ UNCHANGED paramVars
       \/ /\ powerStateCheck # W_MAINS_ON
          /\ param' = [param EXCEPT !.resumeCause = RESTART_DEEP_POWER_DOWN]
          /\ putParameters
          /\ busy' = "stop"
          /\ UNCHANGED runState
    /\ UNCHANGED <<prevRunState, oucState, relays, chargeState, heatVars,
                   countdownVars, chargingVars, mainsofftime, resetTimer,
                   envVars, scheduleVars>>

(* Woken from the stop mode by the wake pin: the last check of the pass.   *)
SleepStopped ==
    /\ busy = "woken"
    /\ powerState' = powerStateCheck
    /\ busy' = "no"
    /\ \/ powerStateCheck = W_MAINS_ON /\ ResumeOrStandby
       \/ powerStateCheck # W_MAINS_ON /\ UNCHANGED runState
    /\ UNCHANGED <<prevRunState, oucState, relays, chargeState, heatVars,
                   countdownVars, chargingVars, mainsofftime, paramVars, resetTimer,
                   envVars, scheduleVars>>

(* Waking from hibernation is a reset.                                     *)
SleepBooted == busy = "booting" /\ Booted

-----------------------------------------------------------------------------
StandbyAndSleepPass ==
    \/ startupController \/ restartController
    \/ goToStandbyController \/ standbyController
    \/ goToSleepController \/ sleepingController
    \/ SleepQueueDone \/ SleepConfirm \/ SleepWake \/ SleepStopped \/ SleepBooted
=============================================================================
