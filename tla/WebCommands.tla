---------------------------- MODULE WebCommands ----------------------------
(***************************************************************************)
(* The cloud function Remote_Admin and the controllers of the run states   *)
(* it sets. A command is served on the application thread: between two     *)
(* passes, or while the loop waits in a soft start or for the event queue. *)
(* It answers at once and changes runState; the work is done by the next   *)
(* pass.                                                                   *)
(***************************************************************************)
EXTENDS TrolleyState

CONSTANTS
    Commands,       \* the commands the web application may send
    Patient         \* TRUE: it sends none before a pass has taken up the last
ASSUME CommandsAssumption ==
    /\ Patient \in BOOLEAN
    /\ Commands \subseteq {"stb", "rst", "hst", "auo", "tmc", "cnc", "ouc", "usb",
                           "aux", "hib"}

-----------------------------------------------------------------------------
(* remoteAdmin *)
ServesCommands == busy \in {"no"} \cup SoftStarts \cup QueueWaits

View == onViewRunState(runState)
InvalidSchedule == sched \in {"expired", "invalid"}

(* The commands that ask for an activity, and what they select.            *)
StandbyCommands == {"rst", "hst", "tmc", "cnc", "ouc", "usb", "hib"}
Selected(c) ==
    CASE c = "rst" -> D_WEBGOTORESTART
      [] c = "hst" -> D_WEBGOTOHARDRESTART
      [] c = "tmc" -> D_WEBGOTOTIMED
      [] c = "cnc" -> D_WEBGOTOON
      [] c = "ouc" -> D_WEBGOTOCHARGED
      [] c = "usb" -> D_WEBGOTOCHARGEDUSBC
      [] c = "hib" -> D_WEBGOTOHIBERNATE

Accepted(s) == prevRunState' = runState /\ runState' = s

StandbyCommand == View # W_STANDBY /\ Accepted(D_WEBGOTOSTANDBY) /\ UNCHANGED paramVars

ActivityCommand(c) ==
    /\ View = W_STANDBY
    /\ Accepted(Selected(c))
    /\ UNCHANGED paramVars

AutoOnCommand ==
    /\ ~InvalidSchedule
    /\ \/ /\ ScheduleType = "C" /\ View = W_STANDBY
          /\ Accepted(D_WEBGOTOAUTO)
       \/ /\ ScheduleType = "O" /\ ~param.isOUCMonitoring
          /\ View \notin {W_SLEEPING, W_CHARGED_ON_AUTO}
          /\ Accepted(D_WEBOUCAUTO)
    /\ UNCHANGED paramVars

AutoOffCommand ==
    /\ \/ /\ ScheduleType = "C" /\ View \in {W_AUTO_ON, W_AUTO_OFF}
          /\ Accepted(D_WEBGOTOSTANDBY)
       \/ /\ ScheduleType = "O" /\ param.isOUCMonitoring
          /\ Accepted(D_WEBOUCAEXIT)
    /\ param' = [param EXCEPT !.isAuto = FALSE, !.isOUCMonitoring = FALSE]
    /\ putParameters

(* A command that is accepted; the others are refused and change nothing.  *)
remoteAdmin ==
    /\ ServesCommands
    /\ Patient => runState \notin WebStates
    /\ \/ "stb" \in Commands /\ StandbyCommand
       \/ \E c \in Commands \cap StandbyCommands : ActivityCommand(c)
       \/ "auo" \in Commands /\ AutoOnCommand
       \/ "aux" \in Commands /\ AutoOffCommand
    /\ UNCHANGED <<oucState, busy, relayVars, heatVars, countdownVars, chargingVars,
                   mainsofftime, resetTimer, envVars, scheduleVars>>

-----------------------------------------------------------------------------
(* Stops the activity of run state prev. It has no case for the states of  *)
(* a scheduled smart charge.                                               *)
StopsCharging_NotRunning ==     \* mutant: the running states are forgotten
    {D_GOTOCHARGED_ON, D_GOTOCHARGED_ON_USBC}
StopsCharging == {D_AUTO_ON, D_ALWAYS_ON, D_GOTOCHARGED_ON, D_CHARGED_ON,
                  D_GOTOCHARGED_ON_USBC, D_CHARGED_ON_USBC}

previousStateHandler_NoTimed(prev) ==     \* mutant: no case for a timed session
    /\ UNCHANGED <<countdown, istimerCountdown_ended, isUpdateCountdown>>
    /\ IF prev \in StopsCharging THEN stoptimerCharging
       ELSE UNCHANGED <<charging, isUpdateTimer>>
    /\ IF prev \in StopsCharging THEN ACRelaysOff(powerState) ELSE UNCHANGED relayVars
previousStateHandler_TimersOnly(prev) ==     \* mutant: the outlets stay on
    /\ IF prev = D_TIMED_ON THEN stoptimerCountdown
       ELSE UNCHANGED <<countdown, istimerCountdown_ended, isUpdateCountdown>>
    /\ IF prev \in StopsCharging THEN stoptimerCharging
       ELSE UNCHANGED <<charging, isUpdateTimer>>
    /\ UNCHANGED relayVars
previousStateHandler(prev) ==
    /\ IF prev = D_TIMED_ON THEN stoptimerCountdown
       ELSE UNCHANGED <<countdown, istimerCountdown_ended, isUpdateCountdown>>
    /\ IF prev \in StopsCharging THEN stoptimerCharging
       ELSE UNCHANGED <<charging, isUpdateTimer>>
    /\ IF prev \in StopsCharging \cup {D_TIMED_ON, D_AUTO_OFF} THEN ACRelaysOff(powerState)
       ELSE UNCHANGED relayVars

SetAuto_Unsaved(b) == param' = [param EXCEPT !.isAuto = b] /\ UNCHANGED eeprom     \* mutant
SetAuto(b) ==
    /\ param' = [param EXCEPT !.isAuto = b]
    /\ IF param.isAuto # b THEN putParameters ELSE UNCHANGED eeprom

webGoToTimedController ==
    /\ Pass(D_WEBGOTOTIMED)
    /\ SetAuto(FALSE)
    /\ prevRunState' = runState
    /\ runState' = D_GOTOTIMED_ON

webGoToOnController ==
    /\ Pass(D_WEBGOTOON)
    /\ SetAuto(FALSE)
    /\ prevRunState' = runState
    /\ runState' = D_GOTOALWAYS_ON

webGoToAutoController ==
    /\ Pass(D_WEBGOTOAUTO)
    /\ SetAuto(TRUE)
    /\ prevRunState' = AUTOANDOFF
    /\ runState' = D_GOTOAUTO

webGoToChargedController ==
    /\ Pass(D_WEBGOTOCHARGED) \/ Pass(D_WEBGOTOCHARGEDUSBC)
    /\ SetAuto(FALSE)
    /\ runState' = IF runState = D_WEBGOTOCHARGED THEN D_GOTOCHARGED_ON
                   ELSE D_GOTOCHARGED_ON_USBC
    /\ UNCHANGED prevRunState

webGoToStandbyController ==
    /\ Pass(D_WEBGOTOSTANDBY)
    /\ runState' = D_GOTOSTANDBY
    /\ UNCHANGED <<prevRunState, paramVars>>

(* Leaving scheduled monitoring goes back to the previous state, or to     *)
(* standby from the activities a schedule could interrupt.                 *)
webOUCAExitController ==
    /\ Pass(D_WEBOUCAEXIT)
    /\ runState' = IF prevRunState \in {D_TIMED_ON, D_ALWAYS_ON, D_CHARGED_ON}
                   THEN D_GOTOSTANDBY ELSE prevRunState
    /\ oucState' = ON_UNTIL_OFF
    /\ previousStateHandler(prevRunState)
    /\ UNCHANGED <<prevRunState, paramVars>>

(* The controllers that stop the previous activity.                        *)
StoppingController ==
    /\ \/ /\ \/ webGoToTimedController \/ webGoToOnController
             \/ webGoToAutoController \/ webGoToChargedController
             \/ webGoToStandbyController
          /\ previousStateHandler(prevRunState)
          /\ UNCHANGED oucState
       \/ webOUCAExitController
    /\ UNCHANGED <<busy, heatVars, timerMins, chargeMins, mainsofftime, resetTimer,
                   envVars, scheduleVars>>

-----------------------------------------------------------------------------
(* Scheduled monitoring is engaged and the previous state goes on, with    *)
(* another smart charging phase.                                           *)
webGoToOUCAutoController ==
    /\ Pass(D_WEBOUCAUTO)
    /\ param' = [param EXCEPT !.isOUCMonitoring = TRUE] /\ putParameters
    /\ runState' = prevRunState
    /\ oucState' = IF HubBoard THEN ON_UNTIL_USBC ELSE ON_UNTIL_AUTO
    /\ UNCHANGED busy

webGoToRestartController ==
    /\ Pass(D_WEBGOTORESTART)
    /\ param' = [param EXCEPT !.resumeCause = RESTART_WEBCMD] /\ putParameters
    /\ runState' = D_RESTART
    /\ UNCHANGED <<oucState, busy>>

(* Factory reset: the parameters are the defaults again; they are saved    *)
(* only when the cloud configuration could be applied.                     *)
webGoToFactoryResetController ==
    /\ Pass(D_WEBGOTOHARDRESTART)
    /\ param' = [DefaultParams EXCEPT !.resumeCause = RESTART_HARD_RESET]
    /\ putParameters \/ UNCHANGED eeprom
    /\ busy' = "resetQueue"
    /\ UNCHANGED <<runState, oucState>>

webGoToHibernateController ==
    /\ Pass(D_WEBGOTOHIBERNATE)
    /\ param' = [param EXCEPT !.resumeCause = RESTART_HIBERNATE] /\ putParameters
    /\ busy' = "hibernateQueue"
    /\ UNCHANGED <<runState, oucState>>

(* The event queue is empty or five seconds are over; what a command has   *)
(* set meanwhile is overwritten.                                           *)
QueueDone ==
    /\ \/ busy = "resetQueue" /\ busy' = "no" /\ runState' = D_RESTART
       \/ busy = "hibernateQueue" /\ busy' = "hibernate" /\ UNCHANGED runState
    /\ UNCHANGED <<oucState, paramVars>>

WebCommandsPass ==
    \/ StoppingController
    \/ /\ \/ webGoToOUCAutoController \/ webGoToRestartController
          \/ webGoToFactoryResetController \/ webGoToHibernateController
          \/ QueueDone
       /\ UNCHANGED <<prevRunState, relayVars, heatVars, countdownVars, chargingVars,
                      mainsofftime, resetTimer, envVars, scheduleVars>>
=============================================================================
