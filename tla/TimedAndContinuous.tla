------------------------- MODULE TimedAndContinuous -------------------------
(***************************************************************************)
(* Timed charging (a countdown of TimerPeriod minutes) and continuous      *)
(* charging. Both suspend when the mains goes or the board overheats, keep *)
(* the minutes to resume from, and go to sleep after two minutes without   *)
(* mains.                                                                  *)
(***************************************************************************)
EXTENDS TrolleyState

(* What a resumed session does to the overheat flag.                       *)
ResumedWasOverheated(was) ==
    was /\ ~(param.resumeMinutes >= 0 /\ param.resumeCause = RESUME_OVERHEAT)

-----------------------------------------------------------------------------
goToTimedOnController ==
    /\ Pass(D_GOTOTIMED_ON)
    /\ powerState' = powerStateCheck
    /\ \/ /\ powerStateCheck = W_MAINS_ON
          /\ initTimers(ResumedMinutes, 0)
          /\ mainsofftime' = "zero"
          /\ runState' = D_TIMED_ON
       \/ /\ powerStateCheck # W_MAINS_ON
          /\ runState' = D_GOTOSTANDBY
          /\ UNCHANGED <<countdownVars, chargingVars, mainsofftime>>
    /\ UNCHANGED <<prevRunState, oucState, busy, relays, chargeState, heatVars,
                   paramVars, resetTimer, envVars, scheduleVars>>

(* The minute the countdown has reached, and whether it is over.           *)
TimedMinutes == IF isUpdateCountdown THEN Counted(timerMins) ELSE timerMins
TimedEnded_Early ==     \* mutant: a minute too short
    IF isUpdateCountdown THEN TimerPeriod <= TimedMinutes + 1
    ELSE istimerCountdown_ended
TimedEnded_Exactly ==     \* mutant: missed when the count is already beyond
    IF isUpdateCountdown THEN TimerPeriod = TimedMinutes ELSE istimerCountdown_ended
TimedEnded == IF isUpdateCountdown THEN TimerPeriod <= TimedMinutes
              ELSE istimerCountdown_ended
TimedCanStart == ~TimedEnded /\ ~countdown /\ mains /\ ~OverheatedNow

(* A session starts or resumes: countdown and outlets go on.               *)
TimedOnStarts ==
    /\ TimedCanStart
    /\ starttimerCountdown
    /\ wasOverheated' = ResumedWasOverheated(WasOverheatedNow)
    /\ IF param.resumeMinutes >= 0
       THEN /\ mainsofftime' = IF param.resumeCause = RESUME_MAINS_OFF THEN "zero"
                               ELSE mainsofftime
            /\ helperCleanUpResumeData
       ELSE UNCHANGED <<mainsofftime, paramVars>>
    /\ ACRelaysOn("timed")
    /\ UNCHANGED <<runState, chargeState>>

(* It ends, is suspended (mains off, or just overheated) or goes on. A     *)
(* session that ends in the pass that finds the mains off is also saved as *)
(* suspended.                                                              *)
TimedOnContinues ==
    LET ps == powerStateCheck
        suspends == ps = W_MAINS_OFF /\ mainsofftime = "zero"
        overheats == ~suspends /\ OverheatedNow /\ ~WasOverheatedNow
        sleeps == ~suspends /\ ~overheats /\ ps = W_MAINS_OFF /\ SleepDelayOver
    IN  /\ ~TimedCanStart
        /\ countdown' = (countdown /\ ~(isUpdateCountdown /\ TimedEnded)
                                   /\ ~suspends /\ ~overheats)
        /\ istimerCountdown_ended' = (TimedEnded /\ ~suspends /\ ~overheats)
        /\ isUpdateCountdown' = FALSE
        /\ IF TimedEnded \/ suspends \/ overheats THEN ACRelaysOff(ps)
           ELSE RelaysUntouched(ps)
        /\ param' = IF suspends
                    THEN WithSession(param, D_TIMED_ON, TimedMinutes, RESUME_MAINS_OFF)
                    ELSE IF overheats
                    THEN WithMinutes(param, TimedMinutes, RESUME_OVERHEAT)
                    ELSE IF TimedEnded
                    THEN WithMinutes(param, -1, 0)
                    ELSE param
        /\ IF suspends \/ overheats THEN putParameters ELSE UNCHANGED eeprom
        /\ mainsofftime' = IF suspends THEN "recent" ELSE mainsofftime
        /\ wasOverheated' = (WasOverheatedNow \/ overheats)
        /\ runState' = IF sleeps THEN D_GOTOSLEEP
                       ELSE IF TimedEnded THEN D_GOTOSTANDBY ELSE runState
        /\ UNCHANGED busy

timedOnController ==
    /\ Pass(D_TIMED_ON)
    /\ isOverheated' = OverheatedNow
    /\ timerMins' = TimedMinutes
    /\ TimedOnStarts \/ TimedOnContinues
    /\ UNCHANGED <<prevRunState, oucState, chargingVars, resetTimer, envVars,
                   scheduleVars>>

-----------------------------------------------------------------------------
(* Without mains this run state is kept: there is no other exit.           *)
goToOnController ==
    /\ Pass(D_GOTOALWAYS_ON)
    /\ powerState' = powerStateCheck
    /\ \/ /\ powerStateCheck = W_MAINS_ON
          /\ initTimers(0, ResumedMinutes)
          /\ runState' = D_ALWAYS_ON
       \/ /\ powerStateCheck # W_MAINS_ON
          /\ UNCHANGED <<runState, countdownVars, chargingVars>>
    /\ UNCHANGED <<prevRunState, oucState, busy, relays, chargeState, heatVars,
                   mainsofftime, paramVars, resetTimer, envVars, scheduleVars>>

OnMinutes == IF isUpdateTimer THEN Counted(chargeMins) ELSE chargeMins
OnEnded == istimerCountdown_ended /\ ~isUpdateTimer
OnCanStart == ~OnEnded /\ ~charging /\ mains /\ ~OverheatedNow

OnStarts ==
    /\ OnCanStart
    /\ starttimerCharging
    /\ wasOverheated' = ResumedWasOverheated(WasOverheatedNow)
    /\ IF param.resumeMinutes >= 0
       THEN chargeMins' = param.resumeMinutes /\ helperCleanUpResumeData
       ELSE chargeMins' = 0 /\ UNCHANGED paramVars
    /\ ACRelaysOn("on")
    /\ UNCHANGED <<runState, chargeState, mainsofftime>>

(* Overheating keeps the minutes in RAM only and names no run state.       *)
OnContinues ==
    LET ps == powerStateCheck
        suspends == ps = W_MAINS_OFF /\ param.resumeMinutes < 0
        overheats == ~suspends /\ OverheatedNow /\ ~WasOverheatedNow
        sleeps == ~suspends /\ ~overheats /\ ps = W_MAINS_OFF /\ SleepDelayOver
    IN  /\ ~OnCanStart
        /\ charging' = (charging /\ ~suspends /\ ~overheats)
        /\ isUpdateTimer' = FALSE
        /\ chargeMins' = OnMinutes
        /\ IF OnEnded \/ suspends \/ overheats THEN ACRelaysOff(ps)
           ELSE RelaysUntouched(ps)
        /\ param' = IF suspends
                    THEN WithSession(param, D_ALWAYS_ON, OnMinutes, RESUME_MAINS_OFF)
                    ELSE IF overheats
                    THEN WithMinutes(param, OnMinutes, RESUME_OVERHEAT)
                    ELSE param
        /\ IF suspends THEN putParameters ELSE UNCHANGED eeprom
        /\ mainsofftime' = IF suspends THEN "recent" ELSE mainsofftime
        /\ wasOverheated' = (WasOverheatedNow \/ overheats)
        /\ runState' = IF sleeps THEN D_GOTOSLEEP
                       ELSE IF OnEnded THEN D_GOTOSTANDBY ELSE runState
        /\ UNCHANGED busy

onController ==
    /\ Pass(D_ALWAYS_ON)
    /\ prevRunState' = D_ALWAYS_ON
    /\ isOverheated' = OverheatedNow
    /\ istimerCountdown_ended' = (istimerCountdown_ended /\ ~isUpdateTimer)
    /\ OnStarts \/ OnContinues
    /\ UNCHANGED <<oucState, countdown, isUpdateCountdown, timerMins, resetTimer,
                   envVars, scheduleVars>>

-----------------------------------------------------------------------------
(* The soft start of either is over: the outlets count as charging. What   *)
(* is left of the pass then finds nothing to do.                           *)
TimedOrOnStarted ==
    /\ busy \in {"timed", "on"}
    /\ busy' = "no"
    /\ chargeState' = C_CHARGING
    /\ UNCHANGED <<runState, prevRunState, oucState, relays, powerState, heatVars,
                   countdownVars, chargingVars, mainsofftime, paramVars, resetTimer,
                   envVars, scheduleVars>>

TimedAndContinuousPass ==
    \/ goToTimedOnController \/ timedOnController
    \/ goToOnController \/ onController
    \/ TimedOrOnStarted
=============================================================================
