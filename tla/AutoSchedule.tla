---------------------------- MODULE AutoSchedule ----------------------------
(***************************************************************************)
(* Automatic charging: the outlets follow the half-hour bits of the weekly *)
(* schedule. Also the check that starts a scheduled smart charge, which    *)
(* runs before the controller of every pass.                               *)
(***************************************************************************)
EXTENDS TrolleyState

goToAutoController ==
    /\ Pass(D_GOTOAUTO)
    /\ prevRunState' = IF prevRunState = AUTOANDOFF THEN AUTOANDOFF ELSE D_GOTOAUTO
    /\ mainsofftime' = "zero"
    /\ runState' = D_AUTO_OFF
    /\ UNCHANGED <<oucState, busy, relayVars, heatVars, countdownVars, chargingVars,
                   paramVars, resetTimer, envVars, scheduleVars>>

-----------------------------------------------------------------------------
(* The schedule is over: outlets off, but the charge timer keeps running.  *)
AutoExpires ==
    /\ sched = "expired"
    /\ ACRelaysOff(powerStateCheck)
    /\ runState' = D_GOTOSTANDBY
    /\ isAutoTimeInValidSent' = FALSE
    /\ UNCHANGED <<busy, prevRunState, heatVars, chargingVars, mainsofftime, paramVars>>

(* No valid time: outlets off, once.                                       *)
AutoTimeInvalid ==
    /\ sched = "invalid"
    /\ IF isAutoTimeInValidSent THEN RelaysUntouched(powerStateCheck)
       ELSE ACRelaysOff(powerStateCheck)
    /\ isAutoTimeInValidSent' = TRUE
    /\ UNCHANGED <<runState, busy, prevRunState, heatVars, chargingVars,
                   mainsofftime, paramVars>>

-----------------------------------------------------------------------------
AutoCanRun_Supplied ==     \* mutant: charging is taken for an idle supply
    powerStateCheck # W_MAINS_OFF /\ ~OverheatedNow
AutoCanRun_Hot == powerStateCheck = W_MAINS_ON     \* mutant: heat ignored
AutoCanRun == powerStateCheck = W_MAINS_ON /\ ~OverheatedNow

(* What resuming a suspended session does to the overheat flag and to the  *)
(* stamp of the mains loss.                                                *)
AutoResumes ==
    /\ wasOverheated' = (WasOverheatedNow /\ param.resumeCause # RESUME_OVERHEAT)
    /\ mainsofftime' = IF param.resumeCause = RESUME_MAINS_OFF THEN "zero"
                       ELSE mainsofftime
    /\ helperCleanUpResumeData

(* Schedule on, mains on, cool: the outlets start.                         *)
AutoStarts ==
    /\ sched = "on" /\ AutoCanRun
    /\ IF param.resumeMinutes >= 0
       THEN chargeMins' = param.resumeMinutes /\ AutoResumes
       ELSE /\ chargeMins' = 0
            /\ wasOverheated' = WasOverheatedNow
            /\ UNCHANGED <<mainsofftime, paramVars>>
    /\ runState' = D_AUTO_ON
    /\ starttimerCharging
    /\ ACRelaysOn("auto")
    /\ UNCHANGED <<prevRunState, chargeState>>

(* Schedule off, mains on, cool: nothing to do but to forget a session and *)
(* to tell once that the schedule is off.                                  *)
AutoIdles ==
    /\ sched = "off" /\ AutoCanRun
    /\ runState' = D_AUTO_OFF
    /\ IF param.resumeMinutes >= 0
       THEN AutoResumes /\ UNCHANGED chargeMins
       ELSE /\ chargeMins' = 0
            /\ wasOverheated' = WasOverheatedNow
            /\ UNCHANGED <<mainsofftime, paramVars>>
    /\ prevRunState' = IF prevRunState \in {D_GOTOAUTO, AUTOANDOFF} THEN 0
                       ELSE prevRunState
    /\ IF prevRunState = AUTOANDOFF THEN ACRelaysOff(W_MAINS_ON)
       ELSE RelaysUntouched(W_MAINS_ON)
    /\ UNCHANGED <<busy, charging, isUpdateTimer>>

(* The session saved when the mains goes or the board overheats. An        *)
(* overheated board also ends automatic control.                           *)
AutoSuspended(p, cause, was) ==
    WithSession([p EXCEPT !.isAuto = p.isAuto /\ ~was],
                IF was THEN D_AUTO_ON ELSE D_AUTO_OFF, chargeMins, cause)

(* What is saved on the way to sleep: the minutes only while scheduled on. *)
AutoAsleep(p, on) ==
    WithSession(p, IF on THEN D_AUTO_ON ELSE D_AUTO_OFF,
                IF on THEN chargeMins ELSE p.resumeMinutes, p.resumeCause)

(* Otherwise: switch off at the end of the scheduled half hours, suspend,  *)
(* go to sleep, or keep going.                                             *)
AutoContinues ==
    LET ps == powerStateCheck
        on == sched = "on"
        switches == ~on /\ ps = W_CHARGING
        overheats == OverheatedNow /\ ~WasOverheatedNow
        lost == ps = W_MAINS_OFF /\ mainsofftime = "zero" /\ (on \/ ~overheats)
        sleeps == /\ ps = W_MAINS_OFF /\ ~lost /\ SleepDelayOver
                  /\ (on \/ ~overheats)
        hot == IF overheats THEN AutoSuspended(param, RESUME_OVERHEAT, TRUE) ELSE param
        stops == switches \/ overheats \/ lost
        quiet == ~on /\ ~switches /\ ~overheats /\ ~lost /\ ~sleeps
    IN  /\ sched \in {"on", "off"} /\ ~AutoCanRun
        /\ charging' = (charging /\ ~stops)
        /\ isUpdateTimer' = (isUpdateTimer /\ ~stops /\ ~on)
        /\ chargeMins' = IF on /\ isUpdateTimer /\ ~stops THEN Counted(chargeMins)
                         ELSE chargeMins
        /\ IF stops \/ (quiet /\ prevRunState = AUTOANDOFF) THEN ACRelaysOff(ps)
           ELSE RelaysUntouched(ps)
        /\ param' = IF lost
                    THEN AutoSuspended(hot, RESUME_MAINS_OFF,
                                       WasOverheatedNow \/ overheats)
                    ELSE IF sleeps THEN AutoAsleep(hot, on)
                    ELSE hot
        /\ IF overheats \/ lost \/ sleeps THEN putParameters ELSE UNCHANGED eeprom
        /\ wasOverheated' = (WasOverheatedNow \/ overheats)
        /\ mainsofftime' = IF lost THEN "recent" ELSE mainsofftime
        /\ runState' = IF sleeps THEN D_GOTOSLEEP
                       ELSE IF switches THEN D_AUTO_OFF ELSE runState
        /\ prevRunState' = IF switches THEN D_AUTO_OFF
                           ELSE IF quiet /\ prevRunState \in {D_GOTOAUTO, AUTOANDOFF}
                           THEN 0 ELSE prevRunState
        /\ UNCHANGED busy

autoController ==
    /\ \E s \in AutoStates : Pass(s)
    /\ \/ AutoExpires /\ UNCHANGED isOverheated
       \/ AutoTimeInvalid /\ UNCHANGED isOverheated
       \/ /\ AutoStarts \/ AutoIdles \/ AutoContinues
          /\ isOverheated' = OverheatedNow
          /\ isAutoTimeInValidSent' = FALSE
    /\ UNCHANGED <<oucState, countdownVars, resetTimer, envVars, newPeriod>>

(* The soft start is over; a minute that passed meanwhile is counted.      *)
AutoStarted ==
    /\ busy = "auto"
    /\ busy' = "no"
    /\ chargeState' = C_CHARGING
    /\ chargeMins' = IF isUpdateTimer THEN Counted(chargeMins) ELSE chargeMins
    /\ isUpdateTimer' = FALSE
    /\ UNCHANGED <<runState, prevRunState, oucState, relays, powerState, heatVars,
                   countdownVars, charging, mainsofftime, paramVars, resetTimer,
                   envVars, scheduleVars>>

-----------------------------------------------------------------------------
(* checkScheduledStartUntilCharged, in the cases in which it does          *)
(* something. The start of a scheduled charge is part of the same pass as  *)
(* the controller it selects, hence the "scheduled" wait. It is given up   *)
(* for the half hour as soon as it is tried.                               *)
ScheduledStart ==
    /\ StartIsDue
    /\ newPeriod' = FALSE
    /\ isAutoTimeInValidSent' = FALSE
    /\ prevRunState' = runState
    /\ runState' = IF HubBoard THEN D_GOTOCHARGED_ON_USBC_AUTO
                   ELSE D_GOTOCHARGED_ON_AUTO
    /\ busy' = "scheduled"
    /\ UNCHANGED <<oucState, paramVars>>

ScheduleOver ==
    /\ ScheduledCheckRuns /\ sched = "expired"
    /\ oucState' = ON_UNTIL_OFF
    /\ param' = [param EXCEPT !.isOUCMonitoring = FALSE]
    /\ putParameters
    /\ isAutoTimeInValidSent' = FALSE
    /\ UNCHANGED <<runState, prevRunState, busy, newPeriod>>

ScheduleClock ==
    /\ ScheduledCheckRuns /\ ~StartIsDue /\ sched # "expired"
    /\ isAutoTimeInValidSent # (sched = "invalid")
    /\ isAutoTimeInValidSent' = (sched = "invalid")
    /\ UNCHANGED <<runState, prevRunState, oucState, busy, paramVars, newPeriod>>

checkScheduledStartUntilCharged ==
    /\ busy = "no"
    /\ ScheduledStart \/ ScheduleOver \/ ScheduleClock
    /\ UNCHANGED <<relayVars, heatVars, countdownVars, chargingVars, mainsofftime,
                   resetTimer, envVars>>

AutoSchedulePass ==
    \/ checkScheduledStartUntilCharged
    \/ goToAutoController \/ autoController \/ AutoStarted
=============================================================================
