--------------------------- MODULE SmartCharging ---------------------------
(***************************************************************************)
(* Smart charging, on until the devices are charged: from the outlets (AC) *)
(* by their current, and from the USB-C hub by its port lights. Measured   *)
(* currents, slopes and lights are left open: a step that reads them       *)
(* chooses what they say.                                                  *)
(***************************************************************************)
EXTENDS TrolleyState

(* The charge states a current sample can lead to.                         *)
determineChargeState(cs) ==
    CASE cs = C_CHARGING_FULL -> {C_CHARGING_FULL, C_RATE_CHARGING}
      [] cs = C_RATE_CHARGING -> {C_RATE_CHARGING, C_CHARGING_DONE}
      [] cs = C_CHARGING_DONE -> {C_CHARGING_DONE, C_CHARGING_ENDED}
      [] OTHER -> {cs}

SmartMinutes == IF isUpdateTimer THEN Counted(chargeMins) ELSE chargeMins

(* helperSmartMainsOffOverheated, what it saves: nothing when overheated.  *)
SmartSuspended(p, rs) ==
    IF isOverheated THEN [p EXCEPT !.isAuto = FALSE]
    ELSE WithSession(p, rs, SmartMinutes, p.resumeCause)

(* Overheating as last checked in another run state: these controllers do  *)
(* not check the temperature themselves.                                   *)
StaleOverheated == isOverheated /\ ~wasOverheated

-----------------------------------------------------------------------------
(* The activity a scheduled smart charge replaces is stopped first.        *)
StopReplaced_KeepsTimed ==     \* mutant: no case for a timed session
    /\ UNCHANGED <<countdown, istimerCountdown_ended, isUpdateCountdown>>
    /\ IF prevRunState \in {D_ALWAYS_ON, D_CHARGED_ON} THEN stoptimerCharging
       ELSE UNCHANGED <<charging, isUpdateTimer>>
StopReplaced ==
    /\ IF prevRunState = D_TIMED_ON
       THEN stoptimerCountdown
       ELSE UNCHANGED <<countdown, istimerCountdown_ended, isUpdateCountdown>>
    /\ IF \/ prevRunState \in {D_ALWAYS_ON, D_CHARGED_ON}
          \/ prevRunState = D_CHARGED_ON_USBC /\ runState = D_GOTOCHARGED_ON_USBC_AUTO
       THEN stoptimerCharging
       ELSE UNCHANGED <<charging, isUpdateTimer>>

(* Start of a smart charge: ouc is its first phase. Without mains a        *)
(* requested charge goes to standby and a scheduled one to the state it    *)
(* came from.                                                              *)
GoToSmart(requested, scheduled, ouc, wait, waitAuto) ==
    /\ \/ Pass(requested) \/ Pass(scheduled)
       \/ busy = "scheduled" /\ runState = scheduled
    /\ \/ /\ mains
          /\ chargeMins' = 0
          /\ chargeState' = C_CHARGING
          /\ oucState' = ouc
          /\ IF runState = scheduled
             THEN StopReplaced /\ ACRelaysOn(waitAuto)
             ELSE /\ ACRelaysOn(wait)
                  /\ UNCHANGED <<countdown, istimerCountdown_ended,
                                 isUpdateCountdown, charging, isUpdateTimer>>
          /\ UNCHANGED runState
       \/ /\ ~mains
          /\ powerState' = W_MAINS_OFF
          /\ runState' = IF runState = requested THEN D_GOTOSTANDBY ELSE prevRunState
          /\ busy' = "no"
          /\ UNCHANGED <<relays, chargeState, oucState, chargingVars, countdown,
                         istimerCountdown_ended, isUpdateCountdown>>
    /\ UNCHANGED <<prevRunState, heatVars, timerMins, mainsofftime, paramVars,
                   resetTimer, envVars, scheduleVars>>

goToChargedOnAutoController ==
    GoToSmart(D_GOTOCHARGED_ON, D_GOTOCHARGED_ON_AUTO, ON_UNTIL_SS,
              "smart", "smartAuto")
goToChargedOnUSBCAutoController ==
    GoToSmart(D_GOTOCHARGED_ON_USBC, D_GOTOCHARGED_ON_USBC_AUTO, ON_UNTIL_USBC,
              "usbc", "usbcAuto")

(* The soft start is over. A requested charge keeps a run state a command  *)
(* has set meanwhile; a scheduled one overwrites it.                       *)
SmartStarted ==
    /\ \/ /\ busy = "smart"
          /\ runState' = IF runState = D_GOTOCHARGED_ON THEN D_CHARGED_ON ELSE runState
          /\ oucState' = ON_UNTIL_WARM
          /\ UNCHANGED prevRunState
       \/ /\ busy = "smartAuto"
          /\ runState' = D_CHARGED_ON_AUTO
          /\ oucState' = ON_UNTIL_WARM
          /\ prevRunState' = D_CHARGED_ON_AUTO
       \/ /\ busy = "usbc"
          /\ runState' = IF runState = D_GOTOCHARGED_ON_USBC THEN D_CHARGED_ON_USBC
                         ELSE runState
          /\ prevRunState' = runState'
          /\ UNCHANGED oucState
       \/ /\ busy = "usbcAuto"
          /\ runState' = D_CHARGED_ON_USBC_AUTO
          /\ prevRunState' = D_CHARGED_ON_USBC_AUTO
          /\ UNCHANGED oucState
    /\ chargeState' = C_CHARGING
    /\ starttimerCharging
    /\ busy' = "no"
    /\ UNCHANGED <<relays, powerState, heatVars, countdownVars, chargeMins,
                   mainsofftime, paramVars, resetTimer, envVars, scheduleVars>>

-----------------------------------------------------------------------------
(* Both controllers, once suspended, restart when the mains is back and    *)
(* the phase is one of phases: from the saved minutes after overheating,   *)
(* and otherwise with a new cycle.                                         *)
SmartCanRestart(phases) ==
    /\ ~charging /\ mains /\ ~isOverheated
    /\ oucState \in phases

SmartRestarts(auto, goToAuto, goTo, wait) ==
    /\ starttimerCharging
    /\ IF param.resumeMinutes >= 0 THEN helperCleanUpResumeData ELSE UNCHANGED paramVars
    /\ IF param.resumeMinutes >= 0 /\ ~wasOverheated
       THEN /\ runState' = IF param.resumeState = auto THEN goToAuto ELSE goTo
            /\ chargeMins' = SmartMinutes
            /\ powerState' = powerStateCheck
            /\ UNCHANGED <<wasOverheated, relays, busy>>
       ELSE /\ chargeMins' = IF param.resumeMinutes >= 0 THEN param.resumeMinutes
                             ELSE SmartMinutes
            /\ wasOverheated' = (wasOverheated /\ param.resumeMinutes < 0)
            /\ ACRelaysOn(wait)
            /\ UNCHANGED runState
    /\ UNCHANGED <<prevRunState, oucState, chargeState, mainsofftime>>

-----------------------------------------------------------------------------
(* Smart charging from the outlets. *)
ChargedMaxed_Late ==     \* mutant: a minute too long
    oucState = ON_UNTIL_CHARGE /\ MaxTimeOn < SmartMinutes
ChargedMaxed == oucState = ON_UNTIL_CHARGE /\ MaxTimeOn <= SmartMinutes
ChargedStops == ChargedMaxed \/ oucState = ON_UNTIL_OFF
ChargedWarm == oucState = ON_UNTIL_WARM /\ WarmupMins <= SmartMinutes
ChargedRestarting == ~ChargedStops /\ ~ChargedWarm /\ SmartCanRestart({ON_UNTIL_CHARGE})

ChargedOnContinues ==
    LET ps == powerStateCheck
        rs == IF ChargedStops THEN D_GOTOSTANDBY ELSE runState
        suspends == ps = W_MAINS_OFF /\ param.resumeMinutes < 0
        overheats == ~suspends /\ StaleOverheated
        sleeps == ~suspends /\ ~overheats /\ ps = W_MAINS_OFF /\ SleepDelayOver
        supplied == ps # W_MAINS_OFF /\ ~isOverheated /\ ~ChargedStops
    IN  /\ ~ChargedRestarting
        /\ \E cs \in IF supplied /\ oucState = ON_UNTIL_CHARGE
                     THEN determineChargeState(chargeState)
                     ELSE {IF ChargedWarm THEN C_CHARGING_FULL ELSE chargeState} :
             LET ended == supplied /\ cs = C_CHARGING_ENDED
                 off == ChargedStops \/ suspends \/ overheats \/ ended
             IN  /\ charging' = (charging /\ ~off)
                 /\ IF off THEN ACRelaysOff(ps)
                    ELSE powerState' = ps /\ chargeState' = cs /\ UNCHANGED relays
                 /\ oucState' = IF ended THEN ON_UNTIL_END
                                ELSE IF ChargedWarm THEN ON_UNTIL_CHARGE ELSE oucState
                 /\ runState' = IF sleeps THEN D_GOTOSLEEP
                                ELSE IF overheats \/ ended THEN D_GOTOSTANDBY ELSE rs
        /\ isUpdateTimer' = FALSE
        /\ chargeMins' = SmartMinutes
        /\ param' = IF suspends \/ overheats THEN SmartSuspended(param, rs)
                    ELSE IF sleeps
                    THEN WithSession(param, rs, 0, RESUME_MAINS_OFF)
                    ELSE param
        /\ IF ChargedMaxed \/ suspends \/ overheats \/ sleeps THEN putParameters
           ELSE UNCHANGED eeprom
        /\ prevRunState' = IF sleeps THEN rs ELSE prevRunState
        /\ mainsofftime' = IF suspends THEN "recent" ELSE mainsofftime
        /\ wasOverheated' = (wasOverheated \/ overheats)
        /\ UNCHANGED busy

chargedOnController ==
    /\ \E s \in SmartACStates : Pass(s)
    /\ \/ ChargedOnContinues
       \/ /\ ChargedRestarting
          /\ SmartRestarts(D_CHARGED_ON_AUTO, D_GOTOCHARGED_ON_AUTO,
                           D_GOTOCHARGED_ON, "smartAgain")
    /\ UNCHANGED <<isOverheated, countdownVars, resetTimer, envVars, scheduleVars>>

-----------------------------------------------------------------------------
(* Smart charging from the hub. *)
USBCPhases == {ON_UNTIL_USBC, ON_UNTIL_CHARGE}
USBCStops_Late ==     \* mutant: a minute too long
    \/ oucState \in USBCPhases /\ MaxTimeOn < SmartMinutes
    \/ oucState = ON_UNTIL_OFF
USBCStops ==
    \/ oucState \in USBCPhases /\ MaxTimeOn <= SmartMinutes
    \/ oucState = ON_UNTIL_OFF
USBCRestarting ==
    ~USBCStops /\ SmartCanRestart({ON_UNTIL_AUTO, ON_UNTIL_SS, ON_UNTIL_WARM})

(* What a look at the port lights does to the phase and the charge state:  *)
(* nothing before the next look is due, done when no light is red, ended   *)
(* when that is confirmed, and back to charging when it is not.            *)
HubLooks(cs) ==
    {<<oucState, cs>>}
        \cup (IF oucState = ON_UNTIL_USBC /\ SmartMinutes > 0
              THEN {<<ON_UNTIL_CHARGE, C_CHARGING_DONE>>} ELSE {})
        \cup (IF cs = C_CHARGING_DONE
              THEN {<<ON_UNTIL_END, C_CHARGING_ENDED>>, <<ON_UNTIL_USBC, cs>>} ELSE {})

ChargedOnUSBCContinues ==
    LET ps == powerStateCheck
        rs == IF USBCStops THEN D_GOTOSTANDBY ELSE runState
        suspends == ps = W_MAINS_OFF /\ param.resumeMinutes < 0
        overheats == ~suspends /\ StaleOverheated
        sleeps == ~suspends /\ ~overheats /\ ps = W_MAINS_OFF /\ SleepDelayOver
        supplied == ps # W_MAINS_OFF /\ ~isOverheated
        cs == IF USBCStops THEN C_NOT_CHARGING ELSE chargeState
        ended == supplied /\ cs = C_CHARGING_ENDED
        off == USBCStops \/ suspends \/ overheats \/ ended
    IN  /\ ~USBCRestarting
        /\ \E look \in IF supplied /\ ~ended THEN HubLooks(cs) ELSE {<<oucState, cs>>} :
             /\ oucState' = look[1]
             /\ chargeState' = IF suspends \/ overheats \/ ended THEN C_NOT_CHARGING
                               ELSE look[2]
             /\ charging' = (charging /\ ~USBCStops /\ ~suspends /\ ~overheats
                                      /\ (ended \/ look[2] # C_CHARGING_ENDED))
        /\ relays' = (relays /\ ~off)
        /\ powerState' = IF off /\ ps = W_CHARGING THEN W_MAINS_ON ELSE ps
        /\ runState' = IF sleeps THEN D_GOTOSLEEP
                       ELSE IF overheats \/ ended THEN D_GOTOSTANDBY ELSE rs
        /\ isUpdateTimer' = FALSE
        /\ chargeMins' = SmartMinutes
        /\ param' = IF suspends
                    THEN SmartSuspended(WithSession(param, rs, param.resumeMinutes,
                                                    param.resumeCause), rs)
                    ELSE IF overheats THEN SmartSuspended(param, rs)
                    ELSE IF sleeps
                    THEN WithSession(param, rs, 0, param.resumeCause)
                    ELSE param
        /\ IF suspends \/ overheats \/ sleeps THEN putParameters ELSE UNCHANGED eeprom
        /\ mainsofftime' = IF suspends THEN "recent" ELSE mainsofftime
        /\ wasOverheated' = (wasOverheated \/ overheats)
        /\ UNCHANGED <<prevRunState, busy>>

chargedOnUSBCController ==
    /\ \E s \in SmartUSBCStates : Pass(s)
    /\ \/ ChargedOnUSBCContinues
       \/ /\ USBCRestarting
          /\ SmartRestarts(D_CHARGED_ON_USBC_AUTO, D_GOTOCHARGED_ON_USBC_AUTO,
                           D_GOTOCHARGED_ON_USBC, "usbcAgain")
    /\ UNCHANGED <<isOverheated, countdownVars, resetTimer, envVars, scheduleVars>>

-----------------------------------------------------------------------------
(* The soft start of a restart from saved minutes is over.                 *)
SmartStartedAgain ==
    /\ busy \in {"smartAgain", "usbcAgain"}
    /\ busy' = "no"
    /\ chargeState' = C_CHARGING
    /\ UNCHANGED <<runState, prevRunState, oucState, relays, powerState, heatVars,
                   countdownVars, chargingVars, mainsofftime, paramVars, resetTimer,
                   envVars, scheduleVars>>

SmartChargingPass ==
    \/ goToChargedOnAutoController \/ chargedOnController
    \/ goToChargedOnUSBCAutoController \/ chargedOnUSBCController
    \/ SmartStarted \/ SmartStartedAgain
=============================================================================
