-------------------------- MODULE ChargingProofs ---------------------------
(***************************************************************************)
(* Continuous, automatic and smart charging are safe, for every value of   *)
(* the constants: with the commands that start and stop them, in every     *)
(* order, with the mains, the schedule and resets as they come. With the   *)
(* first two the outlets are never on in standby, asleep or uncounted, nor *)
(* when continuous charging is hot, or when automatic charging is off for  *)
(* the half hour. A smart charge never counts past its limit, with timed   *)
(* sessions between the charges.                                           *)
(***************************************************************************)
EXTENDS TrolleyProofs

(* What the theorem is about: the commands, each sent when the last one    *)
(* has been taken up, and power-on settings that do not start another kind *)
(* of charging.                                                            *)
ContinuousOnly ==
    /\ Commands \subseteq {"cnc", "stb", "rst", "hst", "hib"} /\ Patient
    /\ PowerOnState \in {POS_LAST, POS_STANDBY, POS_CONT_ON}

OnRunStates ==
    {D_STARTUP, D_STANDBY, D_ALWAYS_ON, D_SLEEPING, D_RESTART, D_GOTOSTANDBY,
     D_GOTOALWAYS_ON, D_GOTOSLEEP, D_WEBGOTOON, D_WEBGOTOSTANDBY,
     D_WEBGOTORESTART, D_WEBGOTOHARDRESTART, D_WEBGOTOHIBERNATE}
OnWaits ==
    {"no", "on", "confirm", "wake", "booting", "woken"} \cup QueueWaits \cup Asleep
OnResumeStates == {D_STARTUP, D_STANDBY, D_ALWAYS_ON}

(* The inductive invariant. The outlets are on only in a session that is   *)
(* counted, not stored as suspended and not overheated, or until the pass  *)
(* that carries out a stop command, which knows what to stop.              *)
OnRunInv == runState \in OnRunStates /\ busy \in OnWaits
OnStoreInv ==
    /\ param.resumeState \in OnResumeStates /\ eeprom.resumeState \in OnResumeStates
    /\ ~param.isOUCMonitoring /\ ~eeprom.isOUCMonitoring
OnOutletsInv ==
    relays => /\ busy \in {"no", "on"}
              /\ \/ /\ runState = D_ALWAYS_ON
                    /\ charging /\ param.resumeMinutes < 0 /\ ~isOverheated
                 \/ runState = D_WEBGOTOSTANDBY /\ prevRunState = D_ALWAYS_ON
OnInv == TypeOK /\ OnRunInv /\ OnStoreInv /\ OnOutletsInv

-----------------------------------------------------------------------------
(* Which controllers can run, and what their run states are not.           *)
LEMMA OnStates ==
    /\ {D_TIMED_ON, D_AUTO_OFF, D_AUTO_ON, D_CHARGED_ON, D_CHARGED_ON_USBC,
        D_GOTOTIMED_ON, D_GOTOAUTO, D_GOTOCHARGED_ON, D_GOTOCHARGED_ON_USBC,
        D_CHARGED_ON_AUTO, D_CHARGED_ON_USBC_AUTO, D_WEBOUCAEXIT,
        D_WEBGOTOAUTO, D_WEBGOTOCHARGED, D_WEBGOTOTIMED, D_WEBOUCAUTO,
        D_GOTOCHARGED_ON_AUTO, D_GOTOCHARGED_ON_USBC_AUTO,
        D_WEBGOTOCHARGEDUSBC} \cap OnRunStates = {}
    /\ OnResumeStates \subseteq OnRunStates
    /\ {D_ALWAYS_ON, D_WEBGOTOSTANDBY}
            \cap {D_STARTUP, D_STANDBY, D_SLEEPING, D_RESTART, D_GOTOSTANDBY,
                  D_GOTOALWAYS_ON, D_GOTOSLEEP, D_WEBGOTOON, D_WEBGOTORESTART,
                  D_WEBGOTOHARDRESTART, D_WEBGOTOHIBERNATE} = {}
    /\ D_ALWAYS_ON # D_WEBGOTOSTANDBY /\ D_WEBGOTOSTANDBY \in WebStates
  BY DEF OnRunStates, OnResumeStates, D_STARTUP, D_STANDBY, D_TIMED_ON, D_AUTO_OFF,
         D_AUTO_ON, D_ALWAYS_ON, D_SLEEPING, D_CHARGED_ON, D_CHARGED_ON_USBC,
         D_GOTOSTANDBY, D_GOTOTIMED_ON, D_GOTOAUTO, D_GOTOALWAYS_ON, D_GOTOSLEEP,
         D_GOTOCHARGED_ON, D_GOTOCHARGED_ON_USBC, D_CHARGED_ON_AUTO,
         D_CHARGED_ON_USBC_AUTO, D_RESTART, D_GOTOCHARGED_ON_AUTO,
         D_GOTOCHARGED_ON_USBC_AUTO, D_WEBOUCAEXIT, D_WEBGOTORESTART,
         D_WEBGOTOHARDRESTART, D_WEBGOTOSTANDBY, D_WEBGOTOHIBERNATE, D_WEBGOTOAUTO,
         D_WEBGOTOCHARGED, D_WEBGOTOON, D_WEBGOTOTIMED, D_WEBOUCAUTO,
         D_WEBGOTOCHARGEDUSBC, WebStates

-----------------------------------------------------------------------------
(* A reset reads a stored session of continuous charging, and switches the *)
(* outlets off.                                                            *)
LEMMA OnBooted ==
    ASSUME OnInv, Booted
    PROVE OnRunInv' /\ OnStoreInv' /\ OnOutletsInv'
  BY DEF OnInv, OnRunInv, OnWaits, OnStoreInv, OnOutletsInv, OnRunStates, Booted

(* The controllers of startup, restart, standby and sleep find the outlets *)
(* off and leave them so.                                                  *)
LEMMA OnStandbyAndSleep ==
    ASSUME ContinuousOnly, OnInv, StandbyAndSleepPass
    PROVE OnRunInv' /\ OnStoreInv' /\ OnOutletsInv'
<1> USE OnStates
    DEF OnInv, OnRunInv, OnWaits, QueueWaits, Asleep, OnStoreInv, OnOutletsInv, relayVars,
        heatVars, chargingVars, paramVars, putParameters, Pass
<1>1. CASE startupController
  <2>1. powerOnStateSelection(PowerOnState, param.resumeState)
            \in {D_GOTOSTANDBY, D_GOTOALWAYS_ON}
    BY DEF ContinuousOnly, powerOnStateSelection, LastStateSelection, OnResumeStates,
           POS_LAST, POS_STANDBY, POS_CONT_ON, POS_TIMED_ON, POS_SMART_AC, POS_SMART_USB,
           D_STARTUP, D_STANDBY, D_ALWAYS_ON, D_TIMED_ON, AutoStates, D_AUTO_OFF,
           D_AUTO_ON, SmartACStates, SmartUSBCStates, D_CHARGED_ON, D_CHARGED_ON_USBC,
           D_CHARGED_ON_AUTO, D_CHARGED_ON_USBC_AUTO
  <2> QED
    BY <1>1, <2>1 DEF startupController, OnRunStates
<1>2. CASE restartController
  BY <1>2, OnBooted DEF restartController
<1>3. CASE goToStandbyController
  <2>1. OnRunInv' /\ ~relays'
    BY <1>3 DEF goToStandbyController, OnRunStates
  <2>2. OnStoreInv'
    <3>1. CASE powerState = W_MAINS_OFF
      BY <1>3, <3>1 DEF goToStandbyController
    <3>2. CASE powerState # W_MAINS_OFF
      BY <1>3, <3>2, WrittenFields DEF goToStandbyController, TypeOK, StoreOK
    <3> QED
      BY <3>1, <3>2
  <2> QED
    BY <2>1, <2>2
<1>4. CASE standbyController
  <2>1. OnRunInv' /\ ~relays'
    BY <1>4 DEF standbyController, OnRunStates
  <2>2. OnStoreInv'
    <3>1. CASE UNCHANGED paramVars
      BY <3>1
    <3>2. CASE /\ param' = WithSession(param, D_STANDBY, -1, RESUME_MAINS_OFF)
               /\ putParameters
      BY <3>2, WrittenFields DEF OnResumeStates, TypeOK, StoreOK
    <3> QED
      BY <1>4, <3>1, <3>2 DEF standbyController
  <2> QED
    BY <2>1, <2>2
<1>5. CASE goToSleepController
  BY <1>5 DEF goToSleepController, OnRunStates
<1>6. CASE sleepingController
  BY <1>6 DEF sleepingController, helperAfterSleep, OnRunStates
<1>7. CASE SleepQueueDone
  BY <1>7 DEF SleepQueueDone, TypeOK, StoreOK, Params
<1>8. CASE SleepConfirm
  BY <1>8 DEF SleepConfirm
<1>9. CASE SleepWake
  BY <1>9 DEF SleepWake, ResumeOrStandby, OnRunStates, TypeOK, StoreOK, Params
<1>10. CASE SleepStopped
  BY <1>10 DEF SleepStopped, ResumeOrStandby, OnRunStates
<1>11. CASE SleepBooted
  BY <1>11, OnBooted DEF SleepBooted
<1> QED
  BY <1>1, <1>2, <1>3, <1>4, <1>5, <1>6, <1>7, <1>8, <1>9, <1>10, <1>11
  DEF StandbyAndSleepPass

-----------------------------------------------------------------------------
(* The session itself.                                                     *)
LEMMA OnTimedAndContinuous ==
    ASSUME ContinuousOnly, OnInv, TimedAndContinuousPass
    PROVE OnRunInv' /\ OnStoreInv' /\ OnOutletsInv'
<1> USE OnStates
    DEF OnInv, OnRunInv, OnWaits, QueueWaits, Asleep, OnStoreInv, OnOutletsInv, relayVars,
        heatVars, chargingVars, paramVars, putParameters, Pass
<1>1. ~goToTimedOnController /\ ~timedOnController
  BY DEF goToTimedOnController, timedOnController
<1>2. CASE goToOnController
  BY <1>2 DEF goToOnController, OnRunStates
<1>3. CASE onController
  <2>1. runState = D_ALWAYS_ON /\ param \in Params
    BY <1>3 DEF onController, TypeOK, StoreOK
  <2>2. CASE OnStarts
    <3>1. ~isOverheated' /\ relays' /\ charging' /\ busy' = "on" /\ runState' = runState
      BY <1>3, <2>2 DEF onController, OnStarts, OnCanStart, ACRelaysOn, starttimerCharging
    <3>2. param'.resumeMinutes < 0 /\ OnStoreInv'
      BY <2>1, <2>2, WrittenFields
      DEF OnStarts, helperCleanUpResumeData, WithoutResumeData, OnResumeStates, TypeOK,
          StoreOK, Params
    <3> QED
      BY <2>1, <3>1, <3>2
  <2>3. CASE OnContinues
    <3>1. OnStoreInv' /\ OnRunInv'
      BY <2>1, <2>3, WrittenFields DEF OnContinues, OnResumeStates, OnRunStates
    <3>2. ASSUME relays'
          PROVE  /\ runState' = D_ALWAYS_ON /\ charging' /\ param'.resumeMinutes < 0
                 /\ ~isOverheated' /\ busy' = busy /\ relays
      <4>1. relays /\ charging /\ param.resumeMinutes < 0 /\ ~isOverheated
        BY <2>1, <2>3, <3>2 DEF OnContinues, ACRelaysOff, RelaysUntouched
      <4>2. powerStateCheck # W_MAINS_OFF /\ ~(OverheatedNow /\ ~WasOverheatedNow) /\ ~OnEnded
        BY <2>3, <3>2, <4>1 DEF OnContinues, ACRelaysOff
      <4>3. ~OverheatedNow
        BY <4>1, <4>2 DEF OverheatedNow, WasOverheatedNow
      <4> QED
        BY <1>3, <2>1, <2>3, <4>1, <4>2, <4>3 DEF OnContinues, onController
    <3> QED
      BY <2>1, <3>1, <3>2
  <2> QED
    BY <1>3, <2>2, <2>3 DEF onController
<1>4. CASE TimedOrOnStarted
  BY <1>4 DEF TimedOrOnStarted
<1> QED
  BY <1>1, <1>2, <1>3, <1>4 DEF TimedAndContinuousPass

(* No other kind of charging runs.                                         *)
LEMMA OnNoOther ==
    ASSUME OnInv
    PROVE ~AutoSchedulePass /\ ~SmartChargingPass
<1> USE OnStates
    DEF OnInv, OnRunInv, OnWaits, QueueWaits, Asleep, Pass, OnStoreInv
<1>1. ~AutoSchedulePass
  BY DEF AutoSchedulePass, checkScheduledStartUntilCharged, ScheduledStart, ScheduleOver,
         ScheduleClock, StartIsDue, ScheduledCheckRuns, goToAutoController,
         autoController, AutoStates, AutoStarted
<1>2. ~SmartChargingPass
  BY DEF SmartChargingPass, goToChargedOnAutoController, GoToSmart, chargedOnController,
         SmartACStates, goToChargedOnUSBCAutoController, chargedOnUSBCController,
         SmartUSBCStates, SmartStarted, SmartStartedAgain
<1> QED
  BY <1>1, <1>2

-----------------------------------------------------------------------------
(* Commands: a stop is accepted with the session as the previous state, a  *)
(* start only with the outlets off.                                        *)
LEMMA OnCommands ==
    ASSUME ContinuousOnly, OnInv, remoteAdmin
    PROVE OnRunInv' /\ OnStoreInv' /\ OnOutletsInv'
<1> USE OnStates
    DEF OnInv, OnRunInv, OnStoreInv, OnOutletsInv, relayVars, heatVars, chargingVars,
        paramVars
<1>1. /\ runState \notin WebStates
      /\ \/ StandbyCommand
         \/ \E c \in {"cnc", "rst", "hst", "hib"} : ActivityCommand(c)
  BY DEF ContinuousOnly, remoteAdmin, StandbyCommands
<1>2. UNCHANGED <<busy, relays, charging, isOverheated>>
  BY DEF remoteAdmin
<1>3. CASE StandbyCommand
  BY <1>1, <1>2, <1>3 DEF StandbyCommand, Accepted, OnRunStates
<1>4. ASSUME NEW c \in {"cnc", "rst", "hst", "hib"}, ActivityCommand(c)
      PROVE OnRunInv' /\ OnStoreInv' /\ OnOutletsInv'
  <2>1. onViewRunState(D_ALWAYS_ON) # W_STANDBY
    BY DEF onViewRunState, W_STANDBY, W_ON, D_ALWAYS_ON, D_GOTOSLEEP, D_SLEEPING,
           D_WEBGOTOHIBERNATE, D_WEBGOTOTIMED, D_TIMED_ON, D_GOTOTIMED_ON, D_WEBGOTOAUTO,
           D_GOTOAUTO, D_AUTO_OFF, D_AUTO_ON, D_WEBGOTOON, D_GOTOALWAYS_ON,
           D_WEBGOTOCHARGED, D_CHARGED_ON, D_GOTOCHARGED_ON, D_WEBGOTOCHARGEDUSBC,
           D_CHARGED_ON_USBC, D_GOTOCHARGED_ON_USBC, D_GOTOCHARGED_ON_AUTO,
           D_CHARGED_ON_AUTO, D_GOTOCHARGED_ON_USBC_AUTO, D_CHARGED_ON_USBC_AUTO
  <2>2. ~relays
    BY <1>1, <1>4, <2>1 DEF ActivityCommand, View
  <2>3. Selected(c) \in OnRunStates
    BY DEF Selected, OnRunStates
  <2> QED
    BY <1>2, <1>4, <2>2, <2>3 DEF ActivityCommand, Accepted
<1> QED
  BY <1>1, <1>3, <1>4

(* The controllers that carry the commands out: a stop finds the session   *)
(* in prevRunState and switches its outlets off.                           *)
LEMMA OnWebCommands ==
    ASSUME OnInv, WebCommandsPass
    PROVE OnRunInv' /\ OnStoreInv' /\ OnOutletsInv'
<1> USE OnStates
    DEF OnInv, OnRunInv, OnWaits, QueueWaits, Asleep, OnStoreInv, OnOutletsInv, relayVars,
        heatVars, chargingVars, paramVars, putParameters, Pass
<1>1. CASE StoppingController
  <2>1. /\ ~webGoToTimedController /\ ~webGoToAutoController
        /\ ~webGoToChargedController /\ ~webOUCAExitController
    BY DEF webGoToTimedController, webGoToAutoController, webGoToChargedController,
           webOUCAExitController
  <2>2. previousStateHandler(prevRunState) /\ UNCHANGED <<busy, isOverheated>>
    BY <1>1, <2>1 DEF StoppingController
  <2>3. CASE webGoToOnController
    BY <2>2, <2>3
    DEF webGoToOnController, previousStateHandler, ACRelaysOff, SetAuto, OnRunStates,
        TypeOK, StoreOK, Params
  <2>4. CASE webGoToStandbyController
    BY <2>2, <2>4
    DEF webGoToStandbyController, previousStateHandler, ACRelaysOff, StopsCharging,
        OnRunStates
  <2> QED
    BY <1>1, <2>1, <2>3, <2>4 DEF StoppingController
<1>2. ~webGoToOUCAutoController
  BY DEF webGoToOUCAutoController
<1>3. CASE /\ webGoToRestartController \/ webGoToFactoryResetController
              \/ webGoToHibernateController \/ QueueDone
           /\ UNCHANGED relays
  <2>1. ~relays'
    BY <1>3 DEF webGoToRestartController, webGoToFactoryResetController,
                webGoToHibernateController, QueueDone
  <2>2. OnRunInv'
    BY <1>3 DEF webGoToRestartController, webGoToFactoryResetController,
                webGoToHibernateController, QueueDone, OnRunStates
  <2>3. CASE webGoToFactoryResetController
    <3>1. /\ param'.resumeState = D_STARTUP /\ ~param'.isOUCMonitoring
      BY <2>3 DEF webGoToFactoryResetController, DefaultParams
    <3> QED
      BY <2>1, <2>2, <2>3, <3>1 DEF webGoToFactoryResetController, OnResumeStates
  <2>4. CASE webGoToRestartController \/ webGoToHibernateController \/ QueueDone
    BY <2>1, <2>2, <2>4 DEF webGoToRestartController, webGoToHibernateController,
                            QueueDone, TypeOK, StoreOK, Params
  <2> QED
    BY <1>3, <2>3, <2>4
<1> QED
  BY <1>1, <1>2, <1>3 DEF WebCommandsPass

(* The surroundings do not touch the outlets.                              *)
LEMMA OnSurroundings ==
    ASSUME OnInv, Surroundings
    PROVE OnRunInv' /\ OnStoreInv' /\ OnOutletsInv'
<1> USE DEF OnInv, OnRunInv, OnWaits, QueueWaits, Asleep, OnStoreInv, OnOutletsInv, relayVars,
            heatVars, chargingVars, paramVars, deviceVars
<1>1. CASE MainsFails
  BY <1>1 DEF MainsFails
<1>2. CASE MainsReturns
  BY <1>2 DEF MainsReturns
<1>3. CASE TemperatureChanges
  BY <1>3 DEF TemperatureChanges
<1>4. CASE ScheduleMoves
  BY <1>4 DEF ScheduleMoves
<1>5. CASE CountdownMinute
  BY <1>5 DEF CountdownMinute
<1>6. CASE ChargingMinute
  BY <1>6 DEF ChargingMinute
<1>7. CASE ResetTimerExpires
  BY <1>7 DEF ResetTimerExpires
<1>8. CASE SleepDelayPasses
  BY <1>8 DEF SleepDelayPasses
<1>9. CASE Reset
  BY <1>9, OnBooted DEF Reset
<1> QED
  BY <1>1, <1>2, <1>3, <1>4, <1>5, <1>6, <1>7, <1>8, <1>9 DEF Surroundings

-----------------------------------------------------------------------------
(* The inductive invariant holds in every reachable state.                 *)
LEMMA OnInvariant ==
    ASSUME ContinuousOnly
    PROVE Spec => []OnInv
<1>1. Init => OnInv
  <2>1. DefaultParams.resumeState = D_STARTUP /\ ~DefaultParams.isOUCMonitoring
    BY DEF DefaultParams
  <2> QED
    BY <2>1, TypeInit DEF Init, OnInv, OnRunInv, OnWaits, OnRunStates, OnStoreInv,
                          OnOutletsInv, OnResumeStates
<1>2. OnInv /\ [Next]_vars => OnInv'
  <2> SUFFICES ASSUME OnInv, [Next]_vars PROVE OnInv'
    OBVIOUS
  <2>1. TypeOK'
    BY TypeStep DEF OnInv
  <2>2. CASE LoopPass
    BY <2>1, <2>2, OnStandbyAndSleep, OnTimedAndContinuous, OnNoOther, OnWebCommands
    DEF LoopPass, OnInv
  <2>3. CASE remoteAdmin
    BY <2>1, <2>3, OnCommands DEF OnInv
  <2>4. CASE Surroundings
    BY <2>1, <2>4, OnSurroundings DEF OnInv
  <2>5. CASE UNCHANGED vars
    BY <2>1, <2>5 DEF OnInv, OnRunInv, OnStoreInv, OnOutletsInv, vars, relayVars, heatVars,
                      chargingVars, paramVars
  <2> QED
    BY <2>2, <2>3, <2>4, <2>5 DEF Next
<1> QED
  BY <1>1, <1>2, PTL DEF Spec

(* In standby the outlets are off (goToStandbyController does not switch   *)
(* them): every way into it has.                                           *)
THEOREM ContinuousStandbyIsOff ==
    ASSUME ContinuousOnly
    PROVE Spec => []StandbyIsOff
<1>1. OnInv => StandbyIsOff
  BY OnStates DEF OnInv, OnOutletsInv, StandbyIsOff
<1> QED
  BY <1>1, OnInvariant, PTL

(* No session is left running when the trolley goes to sleep.              *)
THEOREM ContinuousSleepIsOff ==
    ASSUME ContinuousOnly
    PROVE Spec => []SleepIsOff
<1>1. OnInv => SleepIsOff
  BY OnStates DEF OnInv, OnOutletsInv, SleepIsOff, Asleep
<1> QED
  BY <1>1, OnInvariant, PTL

(* The outlets are on only while the charge timer counts the session.      *)
THEOREM ContinuousIsCounted ==
    ASSUME ContinuousOnly
    PROVE Spec => []ChargeIsCounted
<1>1. OnInv => ChargeIsCounted
  BY OnStates DEF OnInv, OnRunInv, OnOutletsInv, ChargeIsCounted, SmartACStates
<1> QED
  BY <1>1, OnInvariant, PTL

(* A pass that has found the board overheated leaves the outlets off.      *)
THEOREM ContinuousOverheatedIsOff ==
    ASSUME ContinuousOnly
    PROVE Spec => []OverheatedIsOff
<1>1. OnInv => OverheatedIsOff
  BY OnStates DEF OnInv, OnRunInv, OnOutletsInv, OverheatedIsOff, AutoStates
<1> QED
  BY <1>1, OnInvariant, PTL

-----------------------------------------------------------------------------
(* What the theorems about automatic charging assume: the commands that    *)
(* start and stop it, each sent when the last one has been taken up, and   *)
(* hibernation; a board that does not get hot; a mains that does not       *)
(* change between the supply checks of a sleep; and power-on settings that *)
(* do not start another kind of charging. The restart and factory reset    *)
(* commands are not among them: they overwrite the cause a suspended       *)
(* session is resumed for.                                                 *)
AutoOnly ==
    /\ Commands \subseteq {"auo", "aux", "stb", "hib"} /\ Patient
    /\ "hot" \notin Temperatures /\ ScheduleType # "O"
    /\ {"queue", "confirm"} \subseteq SteadyWaits
    /\ PowerOnState \in {POS_LAST, POS_STANDBY}

AutoRunStates ==
    {D_STARTUP, D_STANDBY, D_AUTO_OFF, D_AUTO_ON, D_SLEEPING, D_GOTOSTANDBY, D_GOTOAUTO,
     D_GOTOSLEEP, D_WEBGOTOAUTO, D_WEBGOTOSTANDBY, D_WEBGOTOHIBERNATE}
AutoWaits ==
    {"no", "auto", "queue", "confirm", "hibernateQueue", "hibernate", "booting"}
AutoResumeStates == {D_STARTUP, D_STANDBY, D_AUTO_OFF, D_AUTO_ON}

(* The inductive invariant. The outlets are on only in a half hour that is *)
(* scheduled on and counted, with no loss of the mains stamped, or until   *)
(* the pass that carries out a stop command. A loss that comes while one   *)
(* is stamped would put the trolley to sleep with its outlets on: the      *)
(* stamp has to go when charging starts, which it does only if the store   *)
(* says that the session was suspended, and for a loss of the mains.       *)
AutoRunInv ==
    /\ runState \in AutoRunStates /\ busy \in AutoWaits
    /\ busy \in {"queue", "confirm"} => ~mains
    /\ busy = "hibernateQueue" => runState = D_WEBGOTOHIBERNATE
    /\ ~isOverheated
AutoStoreInv ==
    /\ param = eeprom
    /\ param.resumeState \in AutoResumeStates /\ ~param.isOUCMonitoring
AutoOutletsInv ==
    relays => /\ busy \in {"no", "auto"}
              /\ \/ /\ runState = D_AUTO_ON /\ charging /\ mainsofftime = "zero"
                    /\ busy = "no" => chargeState = C_CHARGING
                 \/ runState = D_WEBGOTOSTANDBY /\ prevRunState = D_AUTO_ON
AutoWay ==
    \/ runState \in {D_AUTO_OFF, D_AUTO_ON, D_GOTOSLEEP, D_SLEEPING}
    \/ powerState = W_MAINS_OFF /\ runState # D_WEBGOTOHIBERNATE
AutoLostInv ==
    mainsofftime # "zero"
    => /\ runState \in AutoStates => param.resumeState \in AutoStates
       /\ param.resumeState \in AutoStates /\ AutoWay
          => param.resumeMinutes >= 0 /\ param.resumeCause = RESUME_MAINS_OFF
AutoKept == AutoRunInv /\ AutoStoreInv /\ AutoOutletsInv /\ AutoLostInv
AutoInv == TypeOK /\ AutoKept

-----------------------------------------------------------------------------
(* Which controllers can run, and what their run states are not.           *)
LEMMA AutoNames ==
    /\ {D_TIMED_ON, D_ALWAYS_ON, D_CHARGED_ON, D_CHARGED_ON_USBC, D_RESTART,
        D_GOTOALWAYS_ON, D_GOTOTIMED_ON, D_GOTOCHARGED_ON, D_GOTOCHARGED_ON_USBC,
        D_CHARGED_ON_AUTO, D_CHARGED_ON_USBC_AUTO, D_WEBOUCAEXIT,
        D_WEBGOTOTIMED, D_WEBGOTOCHARGED, D_WEBGOTOON, D_WEBOUCAUTO,
        D_GOTOCHARGED_ON_AUTO, D_GOTOCHARGED_ON_USBC_AUTO, D_WEBGOTORESTART,
        D_WEBGOTOHARDRESTART, D_WEBGOTOCHARGEDUSBC} \cap AutoRunStates = {}
    /\ AutoResumeStates \subseteq AutoRunStates
    /\ AutoStates = {D_AUTO_OFF, D_AUTO_ON} /\ D_AUTO_OFF # D_AUTO_ON
    /\ AutoStates \cap {D_STARTUP, D_STANDBY, D_SLEEPING, D_GOTOSTANDBY, D_GOTOAUTO,
                        D_GOTOSLEEP, D_WEBGOTOAUTO, D_WEBGOTOSTANDBY,
                        D_WEBGOTOHIBERNATE} = {}
    /\ D_WEBGOTOSTANDBY \notin {D_STARTUP, D_STANDBY, D_SLEEPING, D_GOTOSTANDBY,
                                D_GOTOAUTO, D_GOTOSLEEP, D_WEBGOTOAUTO,
                                D_WEBGOTOHIBERNATE}
    /\ {D_STARTUP, D_STANDBY, D_GOTOSTANDBY, D_GOTOAUTO}
            \cap {D_GOTOSLEEP, D_SLEEPING, D_WEBGOTOHIBERNATE} = {}
    /\ D_WEBGOTOHIBERNATE \notin {D_GOTOSLEEP, D_SLEEPING, D_WEBGOTOAUTO}
    /\ D_WEBGOTOAUTO \notin {D_GOTOSLEEP, D_SLEEPING}
    /\ {D_WEBGOTOSTANDBY, D_WEBGOTOHIBERNATE} \subseteq WebStates
    /\ D_AUTO_OFF > D_STANDBY /\ D_AUTO_ON > D_STANDBY
    /\ ~(D_STARTUP > D_STANDBY) /\ ~(D_STANDBY > D_STANDBY)
    /\ W_MAINS_OFF \notin {W_MAINS_ON, W_CHARGING} /\ W_MAINS_ON # W_CHARGING
  BY DEF AutoRunStates, AutoResumeStates, AutoStates, D_STARTUP, D_STANDBY, D_TIMED_ON,
         D_AUTO_OFF, D_AUTO_ON, D_ALWAYS_ON, D_SLEEPING, D_CHARGED_ON, D_CHARGED_ON_USBC,
         D_GOTOSTANDBY, D_GOTOTIMED_ON, D_GOTOAUTO, D_GOTOALWAYS_ON, D_GOTOSLEEP,
         D_GOTOCHARGED_ON, D_GOTOCHARGED_ON_USBC, D_CHARGED_ON_AUTO,
         D_CHARGED_ON_USBC_AUTO, D_RESTART, D_GOTOCHARGED_ON_AUTO,
         D_GOTOCHARGED_ON_USBC_AUTO, D_WEBOUCAEXIT, D_WEBGOTORESTART,
         D_WEBGOTOHARDRESTART, D_WEBGOTOSTANDBY, D_WEBGOTOHIBERNATE, D_WEBGOTOAUTO,
         D_WEBGOTOCHARGED, D_WEBGOTOON, D_WEBGOTOTIMED, D_WEBOUCAUTO,
         D_WEBGOTOCHARGEDUSBC, WebStates, W_MAINS_OFF, W_MAINS_ON, W_CHARGING

(* On a board that does not get hot the overheat check finds nothing.      *)
LEMMA AutoIsCool ==
    ASSUME AutoOnly, AutoInv
    PROVE ~OverheatedNow
  BY DEF AutoOnly, AutoInv, AutoKept, AutoRunInv, TypeOK, SurroundingsOK, OverheatedNow,
         BecomesOverheated

(* Without outlets the supply is what the mains is, or reads as charging.  *)
LEMMA AutoSupply ==
    ASSUME AutoInv
    PROVE /\ powerStateCheck = W_MAINS_OFF <=> ~mains
          /\ powerStateCheck = W_MAINS_ON /\ busy = "no" /\ runState \in AutoStates
             => ~relays
<1>1. C_CHARGING > C_NOT_CHARGING
  BY DEF C_CHARGING, C_NOT_CHARGING
<1> QED
  BY <1>1, AutoNames DEF AutoInv, AutoKept, AutoOutletsInv, powerStateCheck

(* A reset reads what is stored and switches the outlets off.              *)
LEMMA AutoBooted ==
    ASSUME AutoInv, Booted
    PROVE AutoKept'
  BY DEF AutoInv, AutoKept, AutoRunInv, AutoWaits, AutoStoreInv, AutoOutletsInv,
         AutoLostInv, AutoRunStates, Booted

(* A step that moves on with the outlets off, the block as it was.         *)
LEMMA AutoMoves ==
    ASSUME AutoInv, runState' \in AutoRunStates, busy' \in AutoWaits,
           busy' \in {"queue", "confirm"} => ~mains',
           busy' = "hibernateQueue" => runState' = D_WEBGOTOHIBERNATE,
           ~isOverheated', ~relays', UNCHANGED paramVars, UNCHANGED mainsofftime,
           AutoWay' => AutoWay,
           runState' \in AutoStates
             => runState \in AutoStates \/ param.resumeState \in AutoStates
    PROVE AutoKept'
<1>1. param' = param /\ eeprom' = eeprom
  BY DEF paramVars
<1>2. AutoRunInv' /\ AutoOutletsInv'
  BY DEF AutoRunInv, AutoOutletsInv
<1>3. AutoStoreInv' /\ AutoLostInv'
  BY <1>1 DEF AutoInv, AutoKept, AutoStoreInv, AutoLostInv
<1> QED
  BY <1>2, <1>3 DEF AutoKept

-----------------------------------------------------------------------------
(* Startup, standby and sleep find the outlets off.                        *)
LEMMA AutoStandbyAndSleep ==
    ASSUME AutoOnly, AutoInv, StandbyAndSleepPass
    PROVE AutoKept'
<1> USE AutoNames
    DEF AutoInv, AutoKept, AutoRunInv, AutoWaits, AutoStoreInv, AutoOutletsInv,
        relayVars, heatVars, chargingVars, paramVars, envVars, putParameters, Pass
<1>1. CASE startupController
  <2>1. powerOnStateSelection(PowerOnState, param.resumeState)
            \in {D_GOTOSTANDBY, D_GOTOAUTO}
    BY DEF AutoOnly, powerOnStateSelection, LastStateSelection, AutoResumeStates,
           POS_LAST, POS_STANDBY, POS_CONT_ON, POS_TIMED_ON, POS_SMART_AC, POS_SMART_USB,
           D_STARTUP, D_STANDBY, D_ALWAYS_ON, D_TIMED_ON, AutoStates, D_AUTO_OFF,
           D_AUTO_ON, SmartACStates, SmartUSBCStates, D_CHARGED_ON, D_CHARGED_ON_USBC,
           D_CHARGED_ON_AUTO, D_CHARGED_ON_USBC_AUTO
  <2>2. /\ runState = D_STARTUP /\ runState' \in {D_GOTOSTANDBY, D_GOTOAUTO}
        /\ ~relays' /\ UNCHANGED <<param, eeprom, busy, mainsofftime, powerState>>
        /\ UNCHANGED <<isOverheated, mains>> /\ busy = "no"
    BY <1>1, <2>1 DEF startupController
  <2>3. AutoWay' => AutoWay
    BY <2>2 DEF AutoWay
  <2> QED
    BY <2>2, <2>3, AutoMoves DEF AutoRunStates
<1>2. ~restartController
  BY DEF restartController
<1>3. CASE goToStandbyController
  <2>1. /\ runState = D_GOTOSTANDBY /\ busy' = "no" /\ busy = "no" /\ ~relays /\ ~relays'
        /\ UNCHANGED <<isOverheated, mains, mainsofftime, powerState>>
    BY <1>3 DEF goToStandbyController
  <2>2. CASE powerState = W_MAINS_OFF /\ runState' = D_GOTOSLEEP /\ UNCHANGED paramVars
    BY <2>1, <2>2, AutoMoves DEF AutoRunStates, AutoWay
  <2>3. CASE /\ powerState # W_MAINS_OFF /\ runState' = D_STANDBY
             /\ param' = WithMinutes(param, -1, 0) /\ eeprom' = param'
    <3>1. AutoStoreInv'
      BY <2>3, WrittenFields DEF TypeOK, StoreOK
    <3> QED
      BY <2>1, <2>3, <3>1 DEF AutoRunStates, AutoLostInv, AutoWay
  <2> QED
    BY <1>3, <2>2, <2>3 DEF goToStandbyController
<1>4. CASE standbyController
  <2>1. /\ runState = D_STANDBY /\ busy' = "no" /\ busy = "no" /\ ~relays /\ ~relays'
        /\ ~isOverheated' /\ UNCHANGED <<mains, mainsofftime>>
    BY <1>4, AutoIsCool DEF standbyController
  <2>2. CASE powerState' = W_MAINS_ON /\ UNCHANGED <<runState, paramVars>>
    BY <2>1, <2>2, AutoMoves DEF AutoRunStates, AutoWay
  <2>3. CASE /\ runState' = D_GOTOSLEEP /\ eeprom' = param'
             /\ param' = WithSession(param, D_STANDBY, -1, RESUME_MAINS_OFF)
    <3>1. AutoStoreInv' /\ param'.resumeState = D_STANDBY
      BY <2>3, WrittenFields DEF TypeOK, StoreOK, AutoResumeStates
    <3> QED
      BY <2>1, <2>3, <3>1 DEF AutoRunStates, AutoLostInv
  <2> QED
    BY <1>4, <2>2, <2>3 DEF standbyController
<1>5. CASE goToSleepController
  <2>1. /\ runState = D_GOTOSLEEP /\ busy' = "no" /\ ~relays /\ ~relays'
        /\ runState' = D_SLEEPING /\ UNCHANGED <<isOverheated, mains, mainsofftime, paramVars>>
    BY <1>5 DEF goToSleepController
  <2> QED
    BY <2>1, AutoMoves DEF AutoRunStates, AutoWay
<1>6. CASE sleepingController
  <2>1. /\ runState = D_SLEEPING /\ ~relays /\ ~relays' /\ busy = "no"
        /\ UNCHANGED <<isOverheated, mains, mainsofftime>>
    BY <1>6 DEF sleepingController
  <2>2. /\ UNCHANGED paramVars /\ runState' \in {D_SLEEPING} \cup AutoStates
        /\ runState' \in AutoStates => param.resumeState \in AutoStates
        /\ busy' = "no" \/ (busy' = "queue" /\ ~mains)
    BY <1>6, <2>1, AutoSupply DEF sleepingController, helperAfterSleep, AutoResumeStates
  <2>3. AutoWay /\ runState' \in AutoRunStates
    BY <2>1, <2>2 DEF AutoRunStates, AutoWay
  <2> QED
    BY <2>1, <2>2, <2>3, AutoMoves
<1>7. CASE SleepQueueDone
  <2>1. /\ busy = "queue" /\ ~mains /\ ~relays /\ ~relays' /\ busy' = "confirm"
        /\ UNCHANGED <<isOverheated, mains, mainsofftime, runState, powerState>>
        /\ param' = [param EXCEPT !.resumeCause = RESUME_MAINS_OFF] /\ eeprom' = param'
    BY <1>7 DEF SleepQueueDone
  <2>2. /\ param'.resumeState = param.resumeState
        /\ param'.resumeMinutes = param.resumeMinutes
        /\ param'.resumeCause = RESUME_MAINS_OFF
        /\ param'.isOUCMonitoring = param.isOUCMonitoring
    BY <2>1 DEF TypeOK, StoreOK, Params
  <2> QED
    BY <2>1, <2>2 DEF AutoLostInv, AutoWay
<1>8. CASE SleepConfirm
  <2>1. /\ busy = "confirm" /\ ~relays /\ ~relays' /\ busy' = "hibernate"
        /\ UNCHANGED <<isOverheated, mains, mainsofftime, runState, powerState, paramVars>>
    BY <1>8 DEF SleepConfirm
  <2> QED
    BY <2>1, AutoMoves DEF AutoWay
<1>9. ~SleepWake /\ ~SleepStopped
  BY DEF SleepWake, SleepStopped
<1>10. CASE SleepBooted
  BY <1>10, AutoBooted DEF SleepBooted
<1> QED
  BY <1>1, <1>2, <1>3, <1>4, <1>5, <1>6, <1>7, <1>8, <1>9, <1>10
  DEF StandbyAndSleepPass

(* What is saved of a session: its run state, and for a loss its minutes.  *)
LEMMA AutoSaved ==
    ASSUME NEW p \in Params, NEW c, NEW b \in BOOLEAN
    PROVE /\ AutoSuspended(p, c, b).resumeState \in AutoStates
          /\ AutoSuspended(p, c, b).resumeMinutes = chargeMins
          /\ AutoSuspended(p, c, b).resumeCause = c
          /\ AutoSuspended(p, c, b).isOUCMonitoring = p.isOUCMonitoring
          /\ AutoAsleep(p, b).resumeState \in AutoStates
          /\ AutoAsleep(p, b).resumeMinutes \in {chargeMins, p.resumeMinutes}
          /\ AutoAsleep(p, b).resumeCause = p.resumeCause
          /\ AutoAsleep(p, b).isOUCMonitoring = p.isOUCMonitoring
  BY DEF AutoSuspended, AutoAsleep, WithSession, WithMinutes, Params, AutoStates

(* A pass with the mains gone or the outlets on.                           *)
LEMMA AutoContinued ==
    ASSUME AutoInv, AutoContinues, runState \in AutoStates, busy = "no",
           ~OverheatedNow, ~isOverheated', UNCHANGED mains
    PROVE AutoKept'
<1> USE AutoNames
    DEF AutoInv, AutoKept, AutoRunInv, AutoWaits, AutoStoreInv, AutoOutletsInv,
        relayVars, heatVars, chargingVars, paramVars, envVars, putParameters
<1>1. /\ param \in Params /\ eeprom = param /\ chargeMins \in Nat /\ chargeMins >= 0
      /\ param.resumeState \in AutoResumeStates /\ ~param.isOUCMonitoring
      /\ AutoStates \subseteq AutoResumeStates /\ AutoStates \subseteq AutoRunStates
  BY DEF TypeOK, StoreOK, MinutesOK, AutoResumeStates, AutoRunStates
<1>2. mainsofftime # "zero"
      => /\ param.resumeMinutes >= 0 /\ param.resumeCause = RESUME_MAINS_OFF
         /\ param.resumeState \in AutoStates
  BY DEF AutoLostInv, AutoWay
<1>3. busy' = "no" /\ powerStateCheck \in {W_MAINS_OFF, W_CHARGING}
  BY SupplyIsPowerState DEF AutoContinues, AutoCanRun
<1>4. (sched = "on") \in BOOLEAN /\ WasOverheatedNow \in BOOLEAN
  BY HeatFlags
<1>5. CASE powerStateCheck = W_MAINS_OFF /\ mainsofftime = "zero"
  <2>1. /\ ~relays' /\ runState' = runState /\ mainsofftime' = "recent" /\ eeprom' = param'
        /\ param' = AutoSuspended(param, RESUME_MAINS_OFF, WasOverheatedNow \/ FALSE)
    BY <1>5 DEF AutoContinues, ACRelaysOff
  <2>2. /\ param'.resumeState \in AutoStates /\ param'.resumeMinutes = chargeMins
        /\ param'.resumeCause = RESUME_MAINS_OFF /\ ~param'.isOUCMonitoring
    BY <1>1, <1>4, <2>1, AutoSaved
  <2> QED
    BY <1>1, <1>3, <2>1, <2>2 DEF AutoLostInv
<1>6. CASE powerStateCheck = W_MAINS_OFF /\ mainsofftime # "zero" /\ SleepDelayOver
  <2>1. /\ runState' = D_GOTOSLEEP /\ mainsofftime' = mainsofftime /\ eeprom' = param'
        /\ param' = AutoAsleep(param, sched = "on")
        /\ relays' => relays
    BY <1>6 DEF AutoContinues, ACRelaysOff, RelaysUntouched
  <2>2. /\ param'.resumeState \in AutoStates
        /\ param'.resumeMinutes \in {chargeMins, param.resumeMinutes}
        /\ param'.resumeCause = param.resumeCause /\ ~param'.isOUCMonitoring
    BY <1>1, <1>4, <2>1, AutoSaved
  <2>3. ~relays'
    BY <1>6, <2>1
  <2>4. AutoLostInv'
    BY <1>1, <1>2, <1>6, <2>1, <2>2 DEF AutoLostInv
  <2> QED
    BY <1>1, <1>3, <2>1, <2>2, <2>3, <2>4 DEF AutoRunStates
<1>7. CASE powerStateCheck = W_CHARGING \/ (mainsofftime # "zero" /\ ~SleepDelayOver)
  <2>1. /\ mainsofftime' = mainsofftime /\ UNCHANGED <<param, eeprom>>
        /\ runState' \in {runState, D_AUTO_OFF}
    BY <1>3, <1>7 DEF AutoContinues
  <2>2. \/ ~relays'
        \/ /\ relays' = relays /\ chargeState' = chargeState /\ runState' = runState
           /\ charging' = charging
    BY <1>3, <1>7 DEF AutoContinues, ACRelaysOff, RelaysUntouched
  <2>3. AutoOutletsInv'
    BY <1>3, <2>1, <2>2
  <2>4. AutoLostInv'
    BY <1>1, <1>2, <2>1 DEF AutoLostInv
  <2> QED
    BY <1>1, <1>3, <2>1, <2>3, <2>4
<1> QED
  BY <1>3, <1>5, <1>6, <1>7

-----------------------------------------------------------------------------
(* Charging by the schedule: it starts with no loss stamped, is suspended  *)
(* by the first loss a pass sees, and is switched off with the half hour.  *)
LEMMA AutoCharges ==
    ASSUME AutoOnly, AutoInv, AutoSchedulePass
    PROVE AutoKept'
<1> USE AutoNames
    DEF AutoInv, AutoKept, AutoRunInv, AutoWaits, AutoStoreInv, AutoOutletsInv,
        relayVars, heatVars, chargingVars, paramVars, envVars, putParameters, Pass
<1>1. ~checkScheduledStartUntilCharged
  BY DEF checkScheduledStartUntilCharged, ScheduledStart, ScheduleOver, ScheduleClock,
         StartIsDue, ScheduledCheckRuns
<1>2. CASE goToAutoController
  BY <1>2 DEF goToAutoController, AutoRunStates, AutoLostInv
<1>3. CASE autoController
  <2>1. /\ runState \in AutoStates /\ busy = "no" /\ UNCHANGED <<mains, temp>>
        /\ ~OverheatedNow /\ ~isOverheated' /\ param \in Params /\ eeprom = param
        /\ chargeMins \in Nat
    BY <1>3, AutoIsCool DEF autoController, TypeOK, StoreOK, MinutesOK
  <2>2. AutoWay
    BY <2>1 DEF AutoWay
  <2>3. CASE AutoExpires
    BY <2>1, <2>2, <2>3, AutoMoves DEF AutoExpires, ACRelaysOff, AutoRunStates
  <2>4. CASE AutoTimeInvalid
    <3>1. /\ UNCHANGED <<runState, busy, prevRunState, charging, mainsofftime, paramVars>>
          /\ \/ ~relays'
             \/ UNCHANGED <<relays, chargeState>>
      BY <2>4 DEF AutoTimeInvalid, ACRelaysOff, RelaysUntouched
    <3>2. AutoOutletsInv'
      BY <2>1, <3>1
    <3> QED
      BY <2>1, <2>2, <3>1, <3>2 DEF AutoLostInv
  <2>5. mainsofftime # "zero"
        => param.resumeMinutes >= 0 /\ param.resumeCause = RESUME_MAINS_OFF
    BY <2>1, <2>2 DEF AutoLostInv
  <2>6. \/ UNCHANGED paramVars
        \/ param' = WithoutResumeData(param) /\ eeprom' = param'
        => AutoStoreInv'
    BY <2>1, WrittenFields DEF WithoutResumeData, AutoResumeStates
  <2>7. CASE AutoStarts
    <3>1. /\ runState' = D_AUTO_ON /\ busy' = "auto" /\ charging' /\ mainsofftime' = "zero"
      BY <2>5, <2>7 DEF AutoStarts, AutoResumes, ACRelaysOn, starttimerCharging
    <3>2. AutoStoreInv'
      BY <2>6, <2>7 DEF AutoStarts, AutoResumes, helperCleanUpResumeData
    <3> QED
      BY <2>1, <3>1, <3>2 DEF AutoRunStates, AutoLostInv
  <2>8. CASE AutoIdles
    <3>1. /\ runState' = D_AUTO_OFF /\ busy' = "no" /\ mainsofftime' = "zero"
      BY <2>1, <2>5, <2>8 DEF AutoIdles, AutoResumes
    <3>2. AutoStoreInv'
      BY <2>6, <2>8 DEF AutoIdles, AutoResumes, helperCleanUpResumeData
    <3>3. ~relays'
      BY <2>1, <2>8, AutoSupply DEF AutoIdles, AutoCanRun, ACRelaysOff, RelaysUntouched
    <3> QED
      BY <2>1, <3>1, <3>2, <3>3 DEF AutoRunStates, AutoLostInv
  <2>9. CASE AutoContinues
    BY <2>1, <2>2, <2>5, <2>9, AutoContinued
  <2> QED
    BY <1>3, <2>3, <2>4, <2>7, <2>8, <2>9 DEF autoController
<1>4. CASE AutoStarted
  BY <1>4 DEF AutoStarted, AutoLostInv, AutoWay
<1> QED
  BY <1>1, <1>2, <1>3, <1>4 DEF AutoSchedulePass

(* No other kind of charging runs.                                         *)
LEMMA AutoNoOther ==
    ASSUME AutoInv
    PROVE ~TimedAndContinuousPass /\ ~SmartChargingPass
<1> USE AutoNames DEF AutoInv, AutoKept, AutoRunInv, AutoWaits, Pass
<1>1. ~TimedAndContinuousPass
  BY DEF TimedAndContinuousPass, goToTimedOnController, timedOnController,
         goToOnController, onController, TimedOrOnStarted
<1>2. ~SmartChargingPass
  BY DEF SmartChargingPass, goToChargedOnAutoController, GoToSmart, chargedOnController,
         SmartACStates, goToChargedOnUSBCAutoController, chargedOnUSBCController,
         SmartUSBCStates, SmartStarted, SmartStartedAgain
<1> QED
  BY <1>1, <1>2

-----------------------------------------------------------------------------
(* Commands: a stop is accepted with the session as the previous state, a  *)
(* start only with the outlets off.                                        *)
LEMMA AutoCommands ==
    ASSUME AutoOnly, AutoInv, remoteAdmin
    PROVE AutoKept'
<1> USE AutoNames
    DEF AutoInv, AutoKept, AutoRunInv, AutoStoreInv, AutoOutletsInv, AutoLostInv, AutoWay,
        relayVars, heatVars, chargingVars, paramVars, envVars, putParameters
<1>1. /\ runState \notin WebStates
      /\ StandbyCommand \/ ActivityCommand("hib") \/ AutoOnCommand \/ AutoOffCommand
  BY DEF AutoOnly, remoteAdmin, StandbyCommands
<1>2. UNCHANGED <<busy, relays, powerState, chargeState, isOverheated, charging,
                  mainsofftime, mains>>
  BY DEF remoteAdmin
<1>3. onViewRunState(D_AUTO_ON) # W_STANDBY
  BY DEF onViewRunState, W_STANDBY, W_AUTO_ON, D_GOTOSLEEP, D_SLEEPING,
         D_WEBGOTOHIBERNATE, D_WEBGOTOTIMED, D_TIMED_ON, D_GOTOTIMED_ON, D_WEBGOTOAUTO,
         D_GOTOAUTO, D_AUTO_OFF, D_AUTO_ON, D_WEBGOTOON, D_GOTOALWAYS_ON, D_ALWAYS_ON,
         D_WEBGOTOCHARGED, D_CHARGED_ON, D_GOTOCHARGED_ON, D_WEBGOTOCHARGEDUSBC,
         D_CHARGED_ON_USBC, D_GOTOCHARGED_ON_USBC, D_GOTOCHARGED_ON_AUTO,
         D_CHARGED_ON_AUTO, D_GOTOCHARGED_ON_USBC_AUTO, D_CHARGED_ON_USBC_AUTO
<1>4. CASE StandbyCommand
  <2>1. /\ prevRunState' = runState /\ runState' = D_WEBGOTOSTANDBY
        /\ UNCHANGED <<param, eeprom>>
    BY <1>4 DEF StandbyCommand, Accepted
  <2> QED
    BY <1>1, <1>2, <2>1 DEF AutoRunStates
<1>5. CASE ActivityCommand("hib") \/ (AutoOnCommand /\ View = W_STANDBY)
  <2>1. ~relays /\ runState \notin WebStates
    BY <1>1, <1>3, <1>5 DEF ActivityCommand, View
  <2>2. runState' \in {D_WEBGOTOHIBERNATE, D_WEBGOTOAUTO} /\ UNCHANGED <<param, eeprom>>
    BY <1>5 DEF ActivityCommand, Accepted, Selected, AutoOnCommand, AutoOnly
  <2>3. busy # "hibernateQueue"
    BY <2>1
  <2> QED
    BY <1>1, <1>2, <2>1, <2>2, <2>3 DEF AutoRunStates
<1>6. CASE AutoOffCommand
  <2>1. /\ prevRunState' = runState /\ runState' = D_WEBGOTOSTANDBY
        /\ param' = [param EXCEPT !.isAuto = FALSE, !.isOUCMonitoring = FALSE]
        /\ eeprom' = param'
    BY <1>6 DEF AutoOffCommand, Accepted, AutoOnly
  <2>2. /\ param'.resumeState = param.resumeState
        /\ param'.resumeMinutes = param.resumeMinutes
        /\ param'.resumeCause = param.resumeCause /\ ~param'.isOUCMonitoring
    BY <2>1 DEF TypeOK, StoreOK, Params
  <2> QED
    BY <1>1, <1>2, <2>1, <2>2 DEF AutoRunStates
<1>7. AutoOnCommand => View = W_STANDBY
  BY DEF AutoOnCommand, AutoOnly
<1> QED
  BY <1>1, <1>4, <1>5, <1>6, <1>7

(* The controllers that carry the commands out: a stop finds in            *)
(* prevRunState what holds the outlets on and switches them off.           *)
LEMMA AutoWebCommands ==
    ASSUME AutoInv, WebCommandsPass
    PROVE AutoKept'
<1> USE AutoNames
    DEF AutoInv, AutoKept, AutoRunInv, AutoWaits, AutoStoreInv, AutoOutletsInv,
        relayVars, heatVars, chargingVars, paramVars, envVars, putParameters, Pass
<1>1. CASE StoppingController
  <2>1. webGoToAutoController \/ webGoToStandbyController
    BY <1>1 DEF StoppingController, webGoToTimedController, webGoToOnController,
                webGoToChargedController, webOUCAExitController
  <2>2. /\ previousStateHandler(prevRunState) /\ busy = "no"
        /\ UNCHANGED <<busy, isOverheated, mainsofftime, mains>>
    BY <1>1, <2>1 DEF StoppingController, webGoToAutoController,
                      webGoToStandbyController, webOUCAExitController
  <2>3. ~relays' /\ (powerState' = W_MAINS_OFF => powerState = W_MAINS_OFF)
    BY <2>1, <2>2 DEF previousStateHandler, ACRelaysOff, StopsCharging,
                      webGoToAutoController, webGoToStandbyController
  <2>4. CASE webGoToStandbyController
    BY <2>2, <2>3, <2>4, AutoMoves DEF webGoToStandbyController, AutoRunStates, AutoWay
  <2>5. CASE webGoToAutoController
    <3>1. /\ param'.resumeState = param.resumeState
          /\ param'.resumeMinutes = param.resumeMinutes
          /\ param'.resumeCause = param.resumeCause
          /\ param'.isOUCMonitoring = param.isOUCMonitoring
      BY <2>5 DEF webGoToAutoController, SetAuto, TypeOK, StoreOK, Params
    <3>2. param' = eeprom'
      <4>1. param \in Params /\ param' = [param EXCEPT !.isAuto = TRUE]
        BY <2>5 DEF webGoToAutoController, SetAuto, TypeOK, StoreOK
      <4>2. CASE param.isAuto = TRUE
        <5>1. param' = param
          BY <4>1, <4>2 DEF Params
        <5> QED
          BY <2>5, <4>2, <5>1 DEF webGoToAutoController, SetAuto
      <4> QED
        BY <2>5, <4>2 DEF webGoToAutoController, SetAuto
    <3>3. /\ runState = D_WEBGOTOAUTO /\ runState' = D_GOTOAUTO
      BY <2>5 DEF webGoToAutoController
    <3> QED
      BY <2>2, <2>3, <3>1, <3>2, <3>3 DEF AutoRunStates, AutoLostInv, AutoWay
  <2> QED
    BY <2>1, <2>4, <2>5
<1>2. ~webGoToOUCAutoController /\ ~webGoToRestartController /\ ~webGoToFactoryResetController
  BY DEF webGoToOUCAutoController, webGoToRestartController, webGoToFactoryResetController
<1>3. CASE /\ webGoToHibernateController \/ QueueDone
           /\ UNCHANGED <<relays, powerState, isOverheated, mainsofftime, mains>>
  <2>1. /\ runState = D_WEBGOTOHIBERNATE /\ runState' = runState /\ ~relays /\ ~relays'
        /\ busy' \in {"hibernateQueue", "hibernate"}
    BY <1>3 DEF webGoToHibernateController, QueueDone
  <2>2. /\ eeprom' = param' /\ param'.resumeState = param.resumeState
        /\ param'.isOUCMonitoring = param.isOUCMonitoring
    BY <1>3 DEF webGoToHibernateController, QueueDone, TypeOK, StoreOK, Params
  <2> QED
    BY <1>3, <2>1, <2>2 DEF AutoLostInv, AutoWay
<1> QED
  BY <1>1, <1>2, <1>3 DEF WebCommandsPass

(* The surroundings do not touch the outlets, and no loss is stamped while *)
(* they are on.                                                            *)
LEMMA AutoSurroundings ==
    ASSUME AutoOnly, AutoInv, Surroundings
    PROVE AutoKept'
<1> USE AutoNames
    DEF AutoInv, AutoKept, AutoRunInv, AutoWaits, AutoStoreInv, AutoOutletsInv,
        AutoLostInv, AutoWay, relayVars, heatVars, countdownVars, chargingVars,
        paramVars, envVars, deviceVars
<1>1. CASE MainsFails
  BY <1>1 DEF MainsFails
<1>2. CASE MainsReturns
  BY <1>2 DEF MainsReturns, AutoOnly
<1>3. CASE TemperatureChanges
  BY <1>3 DEF TemperatureChanges
<1>4. CASE ScheduleMoves
  BY <1>4 DEF ScheduleMoves
<1>5. CASE CountdownMinute
  BY <1>5 DEF CountdownMinute
<1>6. CASE ChargingMinute
  BY <1>6 DEF ChargingMinute
<1>7. CASE ResetTimerExpires
  BY <1>7 DEF ResetTimerExpires
<1>8. CASE SleepDelayPasses
  BY <1>8 DEF SleepDelayPasses
<1>9. CASE Reset
  BY <1>9, AutoBooted DEF Reset
<1> QED
  BY <1>1, <1>2, <1>3, <1>4, <1>5, <1>6, <1>7, <1>8, <1>9 DEF Surroundings

-----------------------------------------------------------------------------
(* Every reachable state has the invariant.                                *)
LEMMA AutoInvariant ==
    ASSUME AutoOnly
    PROVE Spec => []AutoInv
<1>1. Init => AutoInv
  <2>1. DefaultParams.resumeState = D_STARTUP /\ ~DefaultParams.isOUCMonitoring
    BY DEF DefaultParams
  <2> QED
    BY <2>1, TypeInit
    DEF Init, AutoInv, AutoKept, AutoRunInv, AutoWaits, AutoRunStates, AutoStoreInv,
        AutoOutletsInv, AutoLostInv, AutoResumeStates
<1>2. AutoInv /\ [Next]_vars => AutoInv'
  <2> SUFFICES ASSUME AutoInv, [Next]_vars PROVE AutoInv'
    OBVIOUS
  <2>1. TypeOK'
    BY TypeStep DEF AutoInv
  <2>2. CASE LoopPass
    BY <2>1, <2>2, AutoStandbyAndSleep, AutoCharges, AutoNoOther, AutoWebCommands
    DEF LoopPass, AutoInv
  <2>3. CASE remoteAdmin
    BY <2>1, <2>3, AutoCommands DEF AutoInv
  <2>4. CASE Surroundings
    BY <2>1, <2>4, AutoSurroundings DEF AutoInv
  <2>5. CASE UNCHANGED vars
    BY <2>1, <2>5
    DEF AutoInv, AutoKept, AutoRunInv, AutoStoreInv, AutoOutletsInv, AutoLostInv, AutoWay,
        vars, relayVars, heatVars, chargingVars, paramVars, envVars
  <2> QED
    BY <2>2, <2>3, <2>4, <2>5 DEF Next
<1> QED
  BY <1>1, <1>2, PTL DEF Spec

(* With automatic control off for this half hour the outlets are off: the  *)
(* end of the scheduled half hours, the loss of the mains and a stop have  *)
(* all switched them, and nothing else leads here.                         *)
THEOREM AutoOffStaysOff ==
    ASSUME AutoOnly
    PROVE Spec => []AutoOffIsOff
<1>1. AutoInv => AutoOffIsOff
  BY AutoNames DEF AutoInv, AutoKept, AutoOutletsInv, AutoOffIsOff
<1> QED
  BY <1>1, AutoInvariant, PTL

(* In standby the outlets are off, also when a schedule has ended or been  *)
(* switched off.                                                           *)
THEOREM AutoStandbyIsOff ==
    ASSUME AutoOnly
    PROVE Spec => []StandbyIsOff
<1>1. AutoInv => StandbyIsOff
  BY AutoNames DEF AutoInv, AutoKept, AutoOutletsInv, StandbyIsOff
<1> QED
  BY <1>1, AutoInvariant, PTL

(* Automatic charging does not go to sleep with its outlets on: every loss *)
(* of the mains while they are on is stamped anew, and suspends it.        *)
THEOREM AutoSleepIsOff ==
    ASSUME AutoOnly
    PROVE Spec => []SleepIsOff
<1>1. AutoInv => SleepIsOff
  BY AutoNames DEF AutoInv, AutoKept, AutoOutletsInv, SleepIsOff, Asleep
<1> QED
  BY <1>1, AutoInvariant, PTL

(* The charge timer runs whenever the outlets are on in a scheduled half   *)
(* hour.                                                                   *)
THEOREM AutoIsCounted ==
    ASSUME AutoOnly
    PROVE Spec => []ChargeIsCounted
<1>1. AutoInv => ChargeIsCounted
  <2>1. SmartACStates \cap AutoRunStates = {}
    BY AutoNames DEF SmartACStates
  <2> QED
    BY <2>1, AutoNames DEF AutoInv, AutoKept, AutoRunInv, AutoOutletsInv, ChargeIsCounted
<1> QED
  BY <1>1, AutoInvariant, PTL
-----------------------------------------------------------------------------
(* What the theorems about smart charging assume: the commands that start  *)
(* and stop it and those that restart or hibernate the board, each sent    *)
(* when the last one has been taken up, and power-on settings for the last *)
(* state, standby or one of these charges. Timed sessions may come between *)
(* the smart charges, and leave minutes of their own in the store. The     *)
(* mains, the temperature and resets are left free. The command that       *)
(* engages a scheduled smart charge is not among them: during a charge     *)
(* from the outlets it sets the phase to one that no limit is tested in.   *)
SmartOnly ==
    /\ Commands \subseteq {"ouc", "usb", "tmc", "stb", "rst", "hst", "hib"} /\ Patient
    /\ PowerOnState
         \in {POS_LAST, POS_STANDBY, POS_TIMED_ON, POS_SMART_AC, POS_SMART_USB}

SmartRunStates ==
    {D_STARTUP, D_STANDBY, D_CHARGED_ON, D_CHARGED_ON_USBC, D_TIMED_ON, D_SLEEPING,
     D_RESTART, D_GOTOSTANDBY, D_GOTOSLEEP, D_GOTOCHARGED_ON, D_GOTOCHARGED_ON_USBC,
     D_GOTOTIMED_ON, D_WEBGOTOCHARGED, D_WEBGOTOCHARGEDUSBC, D_WEBGOTOTIMED,
     D_WEBGOTOSTANDBY, D_WEBGOTORESTART, D_WEBGOTOHARDRESTART, D_WEBGOTOHIBERNATE}
SmartWaits ==
    {"no", "smart", "usbc", "smartAgain", "timed", "confirm", "wake", "booting", "woken"}
        \cup QueueWaits \cup Asleep
SmartResumeStates ==
    {D_STARTUP, D_STANDBY, D_CHARGED_ON, D_CHARGED_ON_USBC, D_TIMED_ON, D_GOTOSTANDBY}

(* The inductive invariant. Where the outlets are on, the minutes counted  *)
(* are within the limit, in whatever run state they were left on, unless   *)
(* no smart charge can take them over; the phase is one in which the       *)
(* controller of the run state tests the limit, also of the run state that *)
(* a sleep will resume; and the minutes from which a charge from the       *)
(* outlets restarts are within the limit too. The store may have minutes   *)
(* of a timed session that overheated under the run state of a smart       *)
(* charge: they are harmless when the phase has been reset since, as a     *)
(* charge in that phase stops at once.                                     *)
InLimit(mins) == mins < MaxTimeOn \/ mins <= WarmupMins
SmartPhase(s) ==
    /\ s = D_CHARGED_ON => oucState \in {ON_UNTIL_OFF, ON_UNTIL_WARM, ON_UNTIL_CHARGE}
    /\ s = D_CHARGED_ON_USBC
       => \/ oucState \in {ON_UNTIL_OFF, ON_UNTIL_USBC, ON_UNTIL_CHARGE}
          \/ oucState = ON_UNTIL_END /\ ~charging /\ ~isUpdateTimer
    /\ s = D_STANDBY => oucState = ON_UNTIL_OFF
SmartResumes(p) ==
    /\ SmartPhase(p.resumeState)
    /\ p.resumeState = D_CHARGED_ON /\ oucState # ON_UNTIL_OFF => InLimit(p.resumeMinutes)
SmartSleepWay ==
    \/ runState \in {D_GOTOSLEEP, D_SLEEPING}
    \/ busy \in {"queue", "confirm", "wake", "stop", "woken"}

(* While the soft start of a new charge lasts, no minute is counted.       *)
SmartRunInv ==
    /\ runState \in SmartRunStates /\ busy \in SmartWaits
    /\ busy = "smart" => chargeMins = 0 /\ runState \in {D_GOTOCHARGED_ON, D_WEBGOTOSTANDBY}
    /\ busy = "usbc" => /\ chargeMins = 0 /\ oucState = ON_UNTIL_USBC
                        /\ runState \in {D_GOTOCHARGED_ON_USBC, D_WEBGOTOSTANDBY}
    /\ busy = "timed" => runState \in {D_TIMED_ON, D_WEBGOTOSTANDBY}
SmartPhaseInv ==
    /\ SmartPhase(runState)
    /\ SmartSleepWay => SmartResumes(param) /\ SmartResumes(eeprom)
    /\ oucState = ON_UNTIL_WARM => chargeMins < WarmupMins
SmartStored(p) == p.resumeState \in SmartResumeStates /\ ~p.isOUCMonitoring
SmartStoreInv ==
    /\ SmartStored(param) /\ SmartStored(eeprom)
    /\ param.resumeState \in {eeprom.resumeState, D_STARTUP}
    /\ runState = D_CHARGED_ON /\ ~charging /\ oucState # ON_UNTIL_OFF
       => InLimit(param.resumeMinutes)
(* A timed session is new, or was taken up from the store; in the second   *)
(* case minutes of a smart charge may be left, but no smart charge is.     *)
SmartTimedInv ==
    runState = D_TIMED_ON
    => \/ chargeMins = 0 /\ mainsofftime = "zero"
       \/ /\ param.resumeState \in {D_STARTUP, D_TIMED_ON}
          /\ eeprom.resumeState \in {D_STARTUP, D_TIMED_ON}
(* A warm-up longer than the longest time is a limit for the outlets only: *)
(* a charge from the hub must not inherit its minutes.                     *)
SmartWarmOutlets ==
    \/ /\ busy \in {"no", "smartAgain"}
       /\ \/ runState = D_CHARGED_ON
          \/ runState = D_WEBGOTOSTANDBY /\ prevRunState = D_CHARGED_ON
    \/ D_CHARGED_ON_USBC \notin {runState, param.resumeState, eeprom.resumeState}
SmartGone ==
    /\ D_CHARGED_ON \notin {runState, param.resumeState, eeprom.resumeState}
    /\ D_CHARGED_ON_USBC \notin {runState, param.resumeState, eeprom.resumeState}
SmartOutletsInv ==
    relays => \/ chargeMins < MaxTimeOn
              \/ chargeMins <= WarmupMins /\ SmartWarmOutlets
              \/ SmartGone
(* Outlets that are on uncounted belong to a charge from the hub, whose    *)
(* timer stops with its last look, to a soft start or to a new timed       *)
(* session; no charge from the outlets is resumed under them.              *)
SmartCountedInv ==
    relays /\ ~charging
    => \/ busy \in {"smart", "usbc"}
       \/ /\ busy = "no"
          /\ \/ runState = D_CHARGED_ON_USBC
             \/ runState = D_WEBGOTOSTANDBY /\ prevRunState = D_CHARGED_ON_USBC
       \/ /\ busy \in {"no", "timed"} /\ mainsofftime = "zero"
          /\ \/ runState = D_TIMED_ON
             \/ runState = D_WEBGOTOSTANDBY /\ prevRunState = D_TIMED_ON
       \/ D_CHARGED_ON \notin {runState, param.resumeState, eeprom.resumeState}
SmartKept ==
    /\ SmartRunInv /\ SmartPhaseInv /\ SmartStoreInv /\ SmartTimedInv
    /\ SmartOutletsInv /\ SmartCountedInv
SmartInv == TypeOK /\ SmartKept
-----------------------------------------------------------------------------
(* Which controllers can run, and what their run states are not.           *)
LEMMA SmartNames ==
    /\ {D_ALWAYS_ON, D_AUTO_OFF, D_AUTO_ON, D_CHARGED_ON_AUTO,
        D_CHARGED_ON_USBC_AUTO, D_GOTOALWAYS_ON, D_GOTOAUTO,
        D_GOTOCHARGED_ON_AUTO, D_GOTOCHARGED_ON_USBC_AUTO, D_WEBOUCAEXIT,
        D_WEBGOTOAUTO, D_WEBGOTOON, D_WEBOUCAUTO}
            \cap (SmartRunStates \cup SmartResumeStates) = {}
    /\ SmartResumeStates \subseteq SmartRunStates
    /\ {D_CHARGED_ON, D_CHARGED_ON_USBC, D_STANDBY, D_TIMED_ON}
            \cap {D_STARTUP, D_SLEEPING, D_RESTART, D_GOTOSTANDBY, D_GOTOSLEEP,
                  D_GOTOCHARGED_ON, D_GOTOCHARGED_ON_USBC, D_GOTOTIMED_ON,
                  D_WEBGOTOCHARGED, D_WEBGOTOCHARGEDUSBC, D_WEBGOTOTIMED,
                  D_WEBGOTOSTANDBY, D_WEBGOTORESTART,
                  D_WEBGOTOHARDRESTART, D_WEBGOTOHIBERNATE} = {}
    /\ {D_GOTOSLEEP, D_SLEEPING}
            \cap {D_STARTUP, D_STANDBY, D_RESTART, D_GOTOSTANDBY, D_CHARGED_ON,
                  D_CHARGED_ON_USBC, D_TIMED_ON, D_GOTOCHARGED_ON,
                  D_GOTOCHARGED_ON_USBC, D_GOTOTIMED_ON, D_WEBGOTOCHARGED,
                  D_WEBGOTOCHARGEDUSBC, D_WEBGOTOTIMED, D_WEBGOTOSTANDBY,
                  D_WEBGOTORESTART, D_WEBGOTOHARDRESTART, D_WEBGOTOHIBERNATE} = {}
    /\ D_WEBGOTOSTANDBY
            \notin {D_STARTUP, D_RESTART, D_GOTOSTANDBY, D_GOTOCHARGED_ON,
                    D_GOTOCHARGED_ON_USBC, D_GOTOTIMED_ON, D_WEBGOTOCHARGED,
                    D_WEBGOTOCHARGEDUSBC, D_WEBGOTOTIMED,
                    D_WEBGOTORESTART, D_WEBGOTOHARDRESTART, D_WEBGOTOHIBERNATE}
    /\ D_CHARGED_ON \notin {D_CHARGED_ON_USBC, D_STANDBY, D_STARTUP, D_TIMED_ON}
    /\ D_CHARGED_ON_USBC \notin {D_STANDBY, D_STARTUP, D_TIMED_ON}
    /\ D_TIMED_ON \notin {D_STANDBY, D_STARTUP}
    /\ D_GOTOCHARGED_ON # D_GOTOCHARGED_ON_USBC
    /\ D_GOTOSTANDBY \notin {D_STARTUP, D_STANDBY} /\ D_STARTUP # D_STANDBY
    /\ D_GOTOTIMED_ON
            \notin {D_GOTOSTANDBY, D_GOTOCHARGED_ON, D_GOTOCHARGED_ON_USBC, D_STARTUP}
    /\ ~(D_STARTUP > D_STANDBY) /\ ~(D_STANDBY > D_STANDBY)
    /\ {D_WEBGOTOCHARGED, D_WEBGOTOCHARGEDUSBC, D_WEBGOTOTIMED, D_WEBGOTOSTANDBY,
        D_WEBGOTORESTART, D_WEBGOTOHARDRESTART, D_WEBGOTOHIBERNATE} \subseteq WebStates
  BY DEF SmartRunStates, SmartResumeStates, D_STARTUP, D_STANDBY, D_TIMED_ON,
         D_AUTO_OFF, D_AUTO_ON, D_ALWAYS_ON, D_SLEEPING, D_CHARGED_ON, D_CHARGED_ON_USBC,
         D_GOTOSTANDBY, D_GOTOTIMED_ON, D_GOTOAUTO, D_GOTOALWAYS_ON, D_GOTOSLEEP,
         D_GOTOCHARGED_ON, D_GOTOCHARGED_ON_USBC, D_CHARGED_ON_AUTO,
         D_CHARGED_ON_USBC_AUTO, D_RESTART, D_GOTOCHARGED_ON_AUTO,
         D_GOTOCHARGED_ON_USBC_AUTO, D_WEBOUCAEXIT, D_WEBGOTORESTART,
         D_WEBGOTOHARDRESTART, D_WEBGOTOSTANDBY, D_WEBGOTOHIBERNATE, D_WEBGOTOAUTO,
         D_WEBGOTOCHARGED, D_WEBGOTOON, D_WEBGOTOTIMED, D_WEBOUCAUTO,
         D_WEBGOTOCHARGEDUSBC, WebStates

(* The phases of a smart charge are different numbers.                     *)
LEMMA SmartPhases ==
    /\ ON_UNTIL_OFF \notin {ON_UNTIL_WARM, ON_UNTIL_CHARGE, ON_UNTIL_END, ON_UNTIL_SS,
                            ON_UNTIL_USBC, ON_UNTIL_AUTO}
    /\ ON_UNTIL_WARM \notin {ON_UNTIL_CHARGE, ON_UNTIL_END, ON_UNTIL_SS, ON_UNTIL_USBC,
                             ON_UNTIL_AUTO}
    /\ ON_UNTIL_CHARGE \notin {ON_UNTIL_END, ON_UNTIL_SS, ON_UNTIL_USBC, ON_UNTIL_AUTO}
    /\ ON_UNTIL_USBC \notin {ON_UNTIL_END, ON_UNTIL_SS, ON_UNTIL_AUTO}
    /\ ON_UNTIL_END \notin {ON_UNTIL_SS, ON_UNTIL_AUTO}
  BY DEF ON_UNTIL_OFF, ON_UNTIL_AUTO, ON_UNTIL_USBC, ON_UNTIL_SS, ON_UNTIL_WARM,
         ON_UNTIL_CHARGE, ON_UNTIL_END

-----------------------------------------------------------------------------
(* A reset reads what is stored and switches the outlets off.              *)
LEMMA SmartBooted ==
    ASSUME SmartInv, Booted
    PROVE SmartKept'
<1> USE SmartNames DEF SmartInv, SmartKept
<1>1. /\ runState' = D_STARTUP /\ busy' = "no" /\ oucState' = ON_UNTIL_OFF
      /\ ~relays' /\ param' = eeprom /\ eeprom' = eeprom
  BY DEF Booted
<1>2. SmartRunInv' /\ SmartTimedInv' /\ SmartOutletsInv' /\ SmartCountedInv'
  BY <1>1 DEF SmartRunInv, SmartWaits, SmartTimedInv, SmartOutletsInv, SmartCountedInv,
              SmartRunStates
<1>3. SmartPhaseInv'
  BY <1>1, SmartPhases DEF SmartPhaseInv, SmartPhase, SmartSleepWay
<1>4. SmartStoreInv'
  BY <1>1 DEF SmartStoreInv, SmartStored
<1> QED
  BY <1>2, <1>3, <1>4

(* A step that moves on, the charge and the block as they were, to a run   *)
(* state in which nothing charges.                                         *)
LEMMA SmartMoves ==
    ASSUME SmartInv,
           runState' \in SmartRunStates
                          \ {D_CHARGED_ON, D_CHARGED_ON_USBC, D_STANDBY, D_TIMED_ON},
           busy' \in SmartWaits \ {"smart", "usbc", "timed"},
           UNCHANGED <<oucState, chargeMins, charging, isUpdateTimer, param, eeprom>>,
           relays' => relays,
           SmartSleepWay' => SmartSleepWay,
           SmartWarmOutlets => SmartWarmOutlets',
           busy \notin {"smart", "usbc"},
           runState \notin {D_CHARGED_ON_USBC, D_WEBGOTOSTANDBY, D_TIMED_ON}
    PROVE SmartKept'
<1> USE DEF SmartInv, SmartKept
<1>1. SmartRunInv' /\ SmartTimedInv'
  BY DEF SmartRunInv, SmartTimedInv
<1>2. SmartOutletsInv'
  BY SmartNames DEF SmartOutletsInv, SmartGone
<1>3. SmartPhaseInv'
  BY DEF SmartPhaseInv, SmartPhase, SmartResumes, InLimit
<1>4. SmartStoreInv'
  BY DEF SmartStoreInv, SmartStored
<1>5. SmartCountedInv'
  BY DEF SmartCountedInv
<1> QED
  BY <1>1, <1>2, <1>3, <1>4, <1>5

(* A step of something else.                                               *)
LEMMA SmartSame ==
    ASSUME SmartInv,
           UNCHANGED <<runState, prevRunState, oucState, busy, relays, charging,
                       isUpdateTimer, chargeMins, mainsofftime, param, eeprom>>
    PROVE SmartKept'
  BY DEF SmartInv, SmartKept, SmartRunInv, SmartPhaseInv, SmartPhase, SmartResumes,
         SmartSleepWay, SmartStoreInv, SmartStored, InLimit, SmartTimedInv, SmartOutletsInv,
         SmartWarmOutlets, SmartGone, SmartCountedInv

(* A step of the sleep: the block is saved or not, but for its cause.      *)
LEMMA SmartSlept ==
    ASSUME SmartInv, busy \in {"queue", "confirm", "wake", "woken"},
           busy' \in SmartWaits \ {"smart", "usbc", "timed"},
           UNCHANGED <<runState, prevRunState, oucState, relays, charging, isUpdateTimer,
                       chargeMins, mainsofftime>>,
           param'.resumeState = param.resumeState,
           param'.resumeMinutes = param.resumeMinutes,
           param'.isOUCMonitoring = param.isOUCMonitoring,
           eeprom' \in {eeprom, param'}
    PROVE SmartKept'
<1>i. /\ SmartRunInv /\ SmartPhaseInv /\ SmartStoreInv /\ SmartOutletsInv
      /\ SmartTimedInv /\ SmartCountedInv
  BY DEF SmartInv, SmartKept
<1>1. SmartSleepWay
  BY DEF SmartSleepWay
<1>2. SmartRunInv' /\ SmartTimedInv'
  BY <1>i DEF SmartRunInv, SmartTimedInv
<1>3. SmartPhaseInv'
  BY <1>i, <1>1 DEF SmartPhaseInv, SmartPhase, SmartResumes, InLimit
<1>4. SmartStoreInv'
  BY <1>i DEF SmartStoreInv, SmartStored, InLimit
<1>5. SmartOutletsInv' /\ SmartCountedInv'
  BY <1>i DEF SmartOutletsInv, SmartWarmOutlets, SmartGone, SmartCountedInv
<1> QED
  BY <1>2, <1>3, <1>4, <1>5 DEF SmartKept

-----------------------------------------------------------------------------
(* Startup, standby and sleep do not count minutes. What they resume is    *)
(* the run state that was stored with the phase in which it went to sleep. *)
LEMMA SmartStandbyAndSleep ==
    ASSUME SmartOnly, SmartInv, StandbyAndSleepPass
    PROVE SmartKept'
<1> USE SmartNames
    DEF relayVars, heatVars, chargingVars, paramVars, putParameters, Pass
<1>t. param \in Params /\ eeprom \in Params /\ TypeOK
  BY DEF SmartInv, TypeOK, StoreOK
<1>i. /\ SmartRunInv /\ SmartPhaseInv /\ SmartStoreInv /\ SmartOutletsInv
      /\ SmartTimedInv /\ SmartCountedInv
  BY DEF SmartInv, SmartKept
<1>1. CASE startupController
  <2>1. powerOnStateSelection(PowerOnState, param.resumeState)
            \in {D_GOTOSTANDBY, D_GOTOCHARGED_ON, D_GOTOCHARGED_ON_USBC, D_GOTOTIMED_ON}
    <3>1. param.resumeState \in SmartResumeStates
      BY <1>i DEF SmartStoreInv, SmartStored
    <3> QED
      BY <3>1 DEF SmartOnly, powerOnStateSelection, LastStateSelection,
           POS_LAST, POS_STANDBY, POS_CONT_ON, POS_TIMED_ON, POS_SMART_AC, POS_SMART_USB,
           AutoStates, SmartACStates, SmartUSBCStates
  <2>2. /\ runState = D_STARTUP /\ busy = "no" /\ busy' = "no"
        /\ runState' \in {D_GOTOSTANDBY, D_GOTOCHARGED_ON, D_GOTOCHARGED_ON_USBC,
                          D_GOTOTIMED_ON}
        /\ UNCHANGED <<relays, oucState, chargeMins, charging, isUpdateTimer, param>>
        /\ eeprom' = param
    BY <1>1, <2>1 DEF startupController
  <2>3. SmartRunInv' /\ SmartPhaseInv' /\ SmartStoreInv' /\ SmartTimedInv'
    BY <1>i, <2>2
    DEF SmartRunInv, SmartPhaseInv, SmartPhase, SmartSleepWay, SmartStoreInv, SmartStored,
        SmartTimedInv, SmartRunStates
  <2>4. SmartOutletsInv' /\ SmartCountedInv'
    BY <1>i, <2>2 DEF SmartOutletsInv, SmartWarmOutlets, SmartGone, SmartCountedInv
  <2> QED
    BY <2>3, <2>4 DEF SmartKept
<1>2. CASE restartController
  <2>1. CASE Booted
    BY <2>1, SmartBooted
  <2>2. CASE /\ UNCHANGED <<runState, prevRunState, oucState, busy, relays, charging,
                            isUpdateTimer, chargeMins, mainsofftime, param, eeprom>>
    BY <1>i, <2>2, SmartSame
  <2> QED
    BY <1>2, <2>1, <2>2 DEF restartController
<1>3. CASE goToStandbyController
  <2>1. /\ runState = D_GOTOSTANDBY /\ busy = "no" /\ busy' = "no"
        /\ UNCHANGED <<relays, chargeMins, charging, isUpdateTimer>>
        /\ oucState' = ON_UNTIL_OFF
    BY <1>3, <1>i DEF goToStandbyController, SmartStoreInv, SmartStored
  <2>2. \/ runState' = D_GOTOSLEEP /\ UNCHANGED <<param, eeprom>>
        \/ runState' = D_STANDBY /\ param' = WithMinutes(param, -1, 0) /\ eeprom' = param'
    BY <1>3 DEF goToStandbyController
  <2>3. /\ param'.resumeState = param.resumeState
        /\ param'.isOUCMonitoring = param.isOUCMonitoring
        /\ param'.resumeMinutes \in {param.resumeMinutes, -1}
        /\ eeprom' \in {eeprom, param'}
    BY <1>t, <2>2, WrittenFields
  <2>4. SmartRunInv' /\ SmartPhaseInv' /\ SmartTimedInv'
    BY <1>i, <2>1, <2>2, SmartPhases
    DEF SmartRunInv, SmartPhaseInv, SmartPhase, SmartResumes, SmartTimedInv, SmartRunStates
  <2>5. SmartStoreInv'
    BY <1>i, <2>2, <2>3 DEF SmartStoreInv, SmartStored
  <2>6. SmartOutletsInv' /\ SmartCountedInv'
    BY <1>i, <2>1, <2>2, <2>3
    DEF SmartOutletsInv, SmartWarmOutlets, SmartGone, SmartCountedInv
  <2> QED
    BY <2>4, <2>5, <2>6 DEF SmartKept
<1>4. CASE standbyController
  <2>1. /\ runState = D_STANDBY /\ busy = "no" /\ busy' = "no"
        /\ UNCHANGED <<relays, chargeMins, charging, isUpdateTimer, oucState>>
        /\ oucState = ON_UNTIL_OFF
    BY <1>4, <1>i DEF standbyController, SmartPhaseInv, SmartPhase
  <2>2. \/ runState' = D_STANDBY /\ UNCHANGED <<param, eeprom>>
        \/ /\ runState' = D_GOTOSLEEP /\ eeprom' = param'
           /\ param' = WithSession(param, D_STANDBY, -1, RESUME_MAINS_OFF)
    BY <1>4, <2>1 DEF standbyController
  <2>3. SmartRunInv' /\ SmartPhaseInv' /\ SmartTimedInv'
    BY <1>i, <2>1, <2>2, SmartPhases
    DEF SmartRunInv, SmartPhaseInv, SmartPhase, SmartResumes, SmartTimedInv, SmartRunStates
  <2>4. CASE UNCHANGED <<param, eeprom>>
    BY <1>i, <2>1, <2>2, <2>3, <2>4
    DEF SmartKept, SmartStoreInv, SmartStored, SmartOutletsInv, SmartWarmOutlets,
        SmartGone, SmartCountedInv
  <2>5. CASE /\ runState' = D_GOTOSLEEP /\ eeprom' = param'
             /\ param' = WithSession(param, D_STANDBY, -1, RESUME_MAINS_OFF)
    <3>1. /\ param'.resumeState = D_STANDBY /\ param'.resumeMinutes = -1
          /\ param'.isOUCMonitoring = param.isOUCMonitoring
      BY <1>t, <2>5, WrittenFields
    <3>2. SmartStored(param')
      BY <1>i, <3>1 DEF SmartStoreInv, SmartStored, SmartResumeStates
    <3>3. SmartStoreInv'
      BY <2>5, <3>2 DEF SmartStoreInv
    <3>4. SmartOutletsInv' /\ SmartCountedInv'
      BY <1>i, <2>1, <2>5, <3>1
      DEF SmartOutletsInv, SmartWarmOutlets, SmartGone, SmartCountedInv
    <3> QED
      BY <2>3, <3>3, <3>4 DEF SmartKept
  <2> QED
    BY <2>2, <2>4, <2>5
<1>5. CASE goToSleepController
  <2>1. /\ runState = D_GOTOSLEEP /\ busy = "no" /\ busy' = "no" /\ runState' = D_SLEEPING
        /\ UNCHANGED <<relays, chargeMins, charging, isUpdateTimer, oucState, param, eeprom>>
    BY <1>5 DEF goToSleepController
  <2> QED
    BY <2>1, SmartMoves DEF SmartRunStates, SmartWaits, SmartSleepWay, SmartWarmOutlets
<1>6. CASE sleepingController
  <2>1. /\ runState = D_SLEEPING /\ busy = "no"
        /\ UNCHANGED <<relays, chargeMins, charging, isUpdateTimer, oucState>>
    BY <1>6 DEF sleepingController
  <2>2. \/ busy' \in {"queue", "no"} /\ UNCHANGED <<runState, param, eeprom>>
        \/ /\ busy' = "no" /\ param' = eeprom /\ eeprom' = eeprom
           /\ runState' \in {runState, eeprom.resumeState}
           /\ runState' = eeprom.resumeState => runState' \notin {D_STARTUP, D_STANDBY}
    BY <1>6, <2>1 DEF sleepingController, helperAfterSleep
  <2>3. CASE busy' \in {"queue", "no"} /\ UNCHANGED <<runState, param, eeprom>>
    BY <2>1, <2>3, SmartMoves
    DEF SmartRunStates, SmartWaits, SmartSleepWay, SmartWarmOutlets, QueueWaits
  <2>4. CASE /\ busy' = "no" /\ param' = eeprom /\ eeprom' = eeprom
             /\ runState' \in {runState, eeprom.resumeState}
             /\ runState' = eeprom.resumeState => runState' \notin {D_STARTUP, D_STANDBY}
    <3>1. eeprom.resumeState \in SmartResumeStates
      BY <1>i DEF SmartStoreInv, SmartStored
    <3>2. SmartRunInv' /\ SmartPhaseInv' /\ SmartTimedInv'
      BY <1>i, <2>1, <2>4, <3>1
      DEF SmartRunInv, SmartPhaseInv, SmartPhase, SmartResumes, SmartSleepWay,
          SmartTimedInv, SmartWaits, SmartRunStates
    <3>3. SmartStoreInv'
      BY <1>i, <2>1, <2>4, <3>1
      DEF SmartStoreInv, SmartStored, SmartPhaseInv, SmartResumes, SmartSleepWay
    <3>4. SmartOutletsInv' /\ SmartCountedInv'
      BY <1>i, <2>1, <2>4, <3>1
      DEF SmartOutletsInv, SmartWarmOutlets, SmartGone, SmartCountedInv
    <3> QED
      BY <3>2, <3>3, <3>4 DEF SmartKept
  <2> QED
    BY <2>2, <2>3, <2>4
<1>7. CASE SleepQueueDone
  <2>1. /\ busy = "queue" /\ busy' \in {"confirm", "wake"}
        /\ UNCHANGED <<runState, prevRunState, relays, chargeMins, charging, isUpdateTimer,
                       oucState, mainsofftime>>
        /\ \/ UNCHANGED <<param, eeprom>>
           \/ param' = [param EXCEPT !.resumeCause = RESUME_MAINS_OFF] /\ eeprom' = param'
    BY <1>7 DEF SleepQueueDone
  <2>2. /\ param'.resumeState = param.resumeState
        /\ param'.isOUCMonitoring = param.isOUCMonitoring
        /\ param'.resumeMinutes = param.resumeMinutes
        /\ eeprom' \in {eeprom, param'}
    BY <1>t, <2>1 DEF Params
  <2> QED
    BY <1>i, <2>1, <2>2, SmartSlept DEF SmartWaits
<1>8. CASE SleepConfirm
  BY <1>i, <1>8, SmartSlept DEF SleepConfirm, SmartWaits, Asleep
<1>9. CASE SleepWake \/ SleepStopped
  <2>1. /\ busy \in {"wake", "woken"}
        /\ UNCHANGED <<prevRunState, relays, chargeMins, charging, isUpdateTimer, oucState,
                       mainsofftime>>
        /\ \/ busy' = "no" /\ ResumeOrStandby /\ UNCHANGED <<param, eeprom>>
           \/ /\ busy' = "stop" /\ eeprom' = param' /\ runState' = runState
              /\ param' = [param EXCEPT !.resumeCause = RESTART_DEEP_POWER_DOWN]
           \/ busy' = "no" /\ UNCHANGED <<runState, param, eeprom>>
    BY <1>9 DEF SleepWake, SleepStopped
  <2>2. CASE busy' = "no" /\ ResumeOrStandby /\ UNCHANGED <<param, eeprom>>
    <3>1. /\ param.resumeState \in SmartResumeStates
          /\ runState' \in {D_GOTOSTANDBY, param.resumeState}
      BY <1>i, <2>2 DEF ResumeOrStandby, SmartStoreInv, SmartStored
    <3>2. SmartRunInv' /\ SmartPhaseInv'
      BY <1>i, <2>1, <2>2, <3>1
      DEF SmartRunInv, SmartPhaseInv, SmartPhase, SmartResumes, SmartSleepWay, SmartWaits,
          SmartRunStates
    <3>3. SmartStoreInv' /\ SmartTimedInv'
      BY <1>i, <2>1, <2>2, <3>1
      DEF SmartStoreInv, SmartStored, SmartTimedInv, SmartPhaseInv, SmartResumes,
          SmartSleepWay
    <3>4. SmartOutletsInv' /\ SmartCountedInv'
      BY <1>i, <2>1, <2>2, <3>1
      DEF SmartOutletsInv, SmartWarmOutlets, SmartGone, SmartCountedInv
    <3> QED
      BY <3>2, <3>3, <3>4 DEF SmartKept
  <2>3. CASE /\ busy' = "stop" /\ eeprom' = param' /\ runState' = runState
             /\ param' = [param EXCEPT !.resumeCause = RESTART_DEEP_POWER_DOWN]
    <3>1. /\ param'.resumeState = param.resumeState
          /\ param'.isOUCMonitoring = param.isOUCMonitoring
          /\ param'.resumeMinutes = param.resumeMinutes
      BY <1>t, <2>3 DEF Params
    <3> QED
      BY <1>i, <2>1, <2>3, <3>1, SmartSlept DEF SmartWaits, Asleep
  <2>4. CASE busy' = "no" /\ UNCHANGED <<runState, param, eeprom>>
    BY <1>i, <2>1, <2>4, SmartSlept DEF SmartWaits
  <2> QED
    BY <2>1, <2>2, <2>3, <2>4
<1>10. CASE SleepBooted
  BY <1>10, SmartBooted DEF SleepBooted
<1> QED
  BY <1>1, <1>2, <1>3, <1>4, <1>5, <1>6, <1>7, <1>8, <1>9, <1>10
  DEF StandbyAndSleepPass

-----------------------------------------------------------------------------
(* Neither continuous nor automatic charging runs.                         *)
LEMMA SmartNoOther ==
    ASSUME SmartInv
    PROVE /\ TimedAndContinuousPass
             => goToTimedOnController \/ timedOnController \/ TimedOrOnStarted
          /\ ~AutoSchedulePass
<1> USE SmartNames
    DEF SmartInv, SmartKept, SmartRunInv, SmartWaits, QueueWaits, Asleep, SmartStoreInv,
        SmartStored, Pass
<1>1. ~goToOnController /\ ~onController
  BY DEF goToOnController, onController
<1>2. ~AutoSchedulePass
  BY DEF AutoSchedulePass, checkScheduledStartUntilCharged, ScheduledStart, ScheduleOver,
         ScheduleClock, StartIsDue, ScheduledCheckRuns, goToAutoController,
         autoController, AutoStates, AutoStarted
<1> QED
  BY <1>1, <1>2 DEF TimedAndContinuousPass

(* The controller of a timed session: what it does to the outlets and the  *)
(* store. It goes to sleep only when the loss of the mains is stamped.     *)
LEMMA SmartTimedContinues ==
    ASSUME SmartInv, runState = D_TIMED_ON, TimedOnContinues
    PROVE /\ relays' => relays /\ runState' # D_GOTOSTANDBY
          /\ busy' = busy
          /\ \/ /\ mainsofftime' = mainsofftime
                /\ param'.resumeState = param.resumeState /\ eeprom' \in {eeprom, param'}
                /\ runState' \in {runState, D_GOTOSLEEP, D_GOTOSTANDBY}
                /\ runState' = D_GOTOSLEEP => mainsofftime # "zero"
             \/ /\ ~relays' /\ runState' \in {runState, D_GOTOSTANDBY}
                /\ param'.resumeState = D_TIMED_ON /\ eeprom' = param'
          /\ param'.isOUCMonitoring = param.isOUCMonitoring
<1> DEFINE suspends == powerStateCheck = W_MAINS_OFF /\ mainsofftime = "zero"
           overheats == ~suspends /\ OverheatedNow /\ ~WasOverheatedNow
           sleeps == /\ ~suspends /\ ~overheats /\ powerStateCheck = W_MAINS_OFF
                     /\ SleepDelayOver
<1>t. param \in Params
  BY DEF SmartInv, TypeOK, StoreOK
<1>1. /\ IF TimedEnded \/ suspends \/ overheats THEN ACRelaysOff(powerStateCheck)
         ELSE RelaysUntouched(powerStateCheck)
      /\ param' = IF suspends
                  THEN WithSession(param, D_TIMED_ON, TimedMinutes, RESUME_MAINS_OFF)
                  ELSE IF overheats THEN WithMinutes(param, TimedMinutes, RESUME_OVERHEAT)
                  ELSE IF TimedEnded THEN WithMinutes(param, -1, 0)
                  ELSE param
      /\ IF suspends \/ overheats THEN putParameters ELSE UNCHANGED eeprom
      /\ mainsofftime' = IF suspends THEN "recent" ELSE mainsofftime
      /\ runState' = IF sleeps THEN D_GOTOSLEEP
                     ELSE IF TimedEnded THEN D_GOTOSTANDBY ELSE runState
      /\ busy' = busy
  BY DEF TimedOnContinues
<1>2. relays' => relays /\ ~TimedEnded /\ ~suspends /\ ~overheats
  BY <1>1 DEF ACRelaysOff, RelaysUntouched
<1>3. /\ suspends => param'.resumeState = D_TIMED_ON
      /\ ~suspends => param'.resumeState = param.resumeState
      /\ param'.isOUCMonitoring = param.isOUCMonitoring
  BY <1>t, <1>1, WrittenFields
<1>4. eeprom' \in {eeprom, param'} /\ (suspends => eeprom' = param')
  BY <1>1 DEF putParameters
<1>5. sleeps => mainsofftime # "zero" /\ ~suspends
  OBVIOUS
<1>6. CASE suspends
  BY <1>1, <1>3, <1>4, <1>5, <1>6 DEF ACRelaysOff
<1>7. CASE ~suspends
  <2>1. mainsofftime' = mainsofftime
    BY <1>1, <1>7
  <2>2. /\ runState' \in {runState, D_GOTOSLEEP, D_GOTOSTANDBY}
        /\ runState' = D_GOTOSLEEP => mainsofftime # "zero"
        /\ relays' => relays /\ runState' # D_GOTOSTANDBY
    <3>1. CASE sleeps
      BY <1>1, <1>2, <1>5, <3>1, SmartNames
    <3>2. CASE ~sleeps
      BY <1>1, <1>2, <3>2, SmartNames
    <3> QED
      BY <3>1, <3>2
  <2> QED
    BY <1>1, <1>3, <1>4, <1>7, <2>1, <2>2
<1> QED
  BY <1>6, <1>7

(* A timed session between the smart charges. A new one counts no minute   *)
(* of a charge; one that was taken up from the store leaves no charge      *)
(* there.                                                                  *)
LEMMA SmartTimed ==
    ASSUME SmartInv, goToTimedOnController \/ timedOnController \/ TimedOrOnStarted
    PROVE SmartKept'
<1> USE SmartNames DEF relayVars, chargingVars, paramVars, putParameters, Pass
<1>i. /\ SmartRunInv /\ SmartPhaseInv /\ SmartStoreInv /\ SmartOutletsInv
      /\ SmartTimedInv /\ SmartCountedInv /\ param \in Params /\ eeprom \in Params
  BY DEF SmartInv, SmartKept, TypeOK, StoreOK
<1>1. CASE goToTimedOnController
  <2>1. CASE powerStateCheck = W_MAINS_ON
    <3>1. /\ chargeMins' = 0 /\ mainsofftime' = "zero" /\ runState' = D_TIMED_ON
          /\ busy = "no" /\ busy' = "no"
          /\ UNCHANGED <<oucState, relays, param, eeprom>>
      BY <1>1, <2>1 DEF goToTimedOnController, initTimers
    <3>2. SmartRunInv' /\ SmartTimedInv' /\ SmartOutletsInv' /\ SmartCountedInv'
      BY <3>1, TimesAssumption
      DEF SmartRunInv, SmartRunStates, SmartWaits, SmartTimedInv, SmartOutletsInv,
          SmartCountedInv
    <3>3. SmartPhaseInv'
      <4>1. SmartPhase(D_TIMED_ON)'
        BY DEF SmartPhase
      <4>2. ~SmartSleepWay'
        BY <3>1 DEF SmartSleepWay
      <4>3. chargeMins' < WarmupMins
        BY <3>1, TimesAssumption
      <4> QED
        BY <3>1, <4>1, <4>2, <4>3 DEF SmartPhaseInv
    <3>4. SmartStoreInv'
      BY <1>i, <3>1 DEF SmartStoreInv, SmartStored
    <3> QED
      BY <3>2, <3>3, <3>4 DEF SmartKept
  <2>2. CASE powerStateCheck # W_MAINS_ON
    <3>1. /\ runState = D_GOTOTIMED_ON /\ runState' = D_GOTOSTANDBY
          /\ busy = "no" /\ busy' = "no"
          /\ UNCHANGED <<oucState, relays, charging, isUpdateTimer, chargeMins, param,
                         eeprom>>
      BY <1>1, <2>2 DEF goToTimedOnController
    <3> QED
      BY <3>1, SmartMoves
      DEF SmartRunStates, SmartWaits, SmartSleepWay, SmartWarmOutlets
  <2> QED
    BY <2>1, <2>2
<1>2. CASE timedOnController
  <2>1. /\ runState = D_TIMED_ON /\ busy = "no"
        /\ UNCHANGED <<oucState, charging, isUpdateTimer, chargeMins>>
    BY <1>2 DEF timedOnController
  <2>2. CASE TimedOnStarts
    <3>1. /\ busy' = "timed" /\ runState' = D_TIMED_ON
          /\ mainsofftime' \in {"zero", mainsofftime}
      BY <2>1, <2>2 DEF TimedOnStarts, ACRelaysOn
    <3>2. \/ UNCHANGED <<param, eeprom>>
          \/ /\ param'.resumeState = D_STARTUP /\ eeprom' = param'
             /\ param'.isOUCMonitoring = param.isOUCMonitoring
      BY <1>i, <2>2, WrittenFields
      DEF TimedOnStarts, helperCleanUpResumeData, WithoutResumeData
    <3>3. SmartRunInv' /\ SmartPhaseInv' /\ SmartStoreInv'
      BY <1>i, <2>1, <3>1, <3>2
      DEF SmartRunInv, SmartRunStates, SmartWaits, SmartPhaseInv, SmartPhase,
          SmartSleepWay, SmartStoreInv, SmartStored, SmartResumeStates
    <3>4. SmartTimedInv'
      BY <1>i, <2>1, <3>1, <3>2 DEF SmartTimedInv
    <3>5. SmartOutletsInv' /\ SmartCountedInv'
      BY <1>i, <2>1, <3>1, <3>4, TimesAssumption
      DEF SmartTimedInv, SmartOutletsInv, SmartGone, SmartCountedInv
    <3> QED
      BY <3>3, <3>4, <3>5 DEF SmartKept
  <2>3. CASE TimedOnContinues
    <3>1. /\ relays' => relays /\ runState' # D_GOTOSTANDBY
          /\ busy' = "no"
          /\ runState' \in {D_TIMED_ON, D_GOTOSLEEP, D_GOTOSTANDBY}
          /\ param'.isOUCMonitoring = param.isOUCMonitoring
          /\ eeprom' \in {eeprom, param'}
          /\ \/ /\ param'.resumeState = param.resumeState
                /\ mainsofftime' = mainsofftime
                /\ runState' = D_GOTOSLEEP => mainsofftime # "zero"
             \/ /\ ~relays' /\ runState' # D_GOTOSLEEP
                /\ param'.resumeState = D_TIMED_ON /\ eeprom' = param'
      BY <2>1, <2>3, SmartTimedContinues
    <3>2. SmartRunInv' /\ SmartStoreInv'
      BY <1>i, <2>1, <3>1
      DEF SmartRunInv, SmartRunStates, SmartWaits, SmartStoreInv, SmartStored,
          SmartResumeStates
    <3>3. SmartTimedInv'
      BY <1>i, <2>1, <3>1 DEF SmartTimedInv
    <3>4. runState' = D_GOTOSLEEP
          => /\ param'.resumeState \in {D_STARTUP, D_TIMED_ON}
             /\ eeprom'.resumeState \in {D_STARTUP, D_TIMED_ON}
      BY <1>i, <2>1, <3>1 DEF SmartTimedInv
    <3>5. SmartPhaseInv'
      BY <1>i, <2>1, <3>1, <3>4
      DEF SmartPhaseInv, SmartPhase, SmartResumes, SmartSleepWay
    <3>6. SmartOutletsInv'
      <4>1. relays' => param'.resumeState = param.resumeState
        BY <3>1
      <4>2. eeprom'.resumeState \in {eeprom.resumeState, param'.resumeState}
        BY <3>1
      <4> QED
        BY <1>i, <2>1, <3>1, <4>1, <4>2 DEF SmartOutletsInv, SmartWarmOutlets, SmartGone
    <3>7. SmartCountedInv'
      BY <1>i, <2>1, <3>1, <3>4 DEF SmartTimedInv, SmartCountedInv
    <3> QED
      BY <3>2, <3>3, <3>5, <3>6, <3>7 DEF SmartKept
  <2> QED
    BY <1>2, <2>2, <2>3 DEF timedOnController
<1>3. CASE TimedOrOnStarted
  <2>1. /\ busy = "timed" /\ busy' = "no"
        /\ UNCHANGED <<runState, prevRunState, oucState, relays, charging, isUpdateTimer,
                       chargeMins, mainsofftime, param, eeprom>>
    BY <1>3, <1>i DEF TimedOrOnStarted, SmartRunInv, SmartWaits, QueueWaits, Asleep
  <2> QED
    BY <1>i, <2>1
    DEF SmartKept, SmartRunInv, SmartWaits, SmartPhaseInv, SmartPhase, SmartResumes,
        SmartSleepWay, SmartStoreInv, SmartStored, InLimit, SmartTimedInv, SmartOutletsInv,
        SmartWarmOutlets, SmartGone, SmartCountedInv
<1> QED
  BY <1>1, <1>2, <1>3

(* A pass counts at most one minute, and none that the timer has not told. *)
LEMMA SmartCounts ==
    ASSUME SmartInv
    PROVE /\ SmartMinutes \in Nat /\ SmartMinutes <= chargeMins + 1
          /\ ~isUpdateTimer => SmartMinutes = chargeMins
          /\ chargeMins \in Nat /\ MaxTimeOn \in Nat \ {0} /\ WarmupMins \in Nat \ {0}
          /\ InLimit(0) /\ InLimit(-1)
<1>1. SmartMinutes \in Nat /\ chargeMins \in Nat
  BY SmartHelpers DEF SmartInv, TypeOK, MinutesOK
<1>2. SmartMinutes <= chargeMins + 1
  BY <1>1 DEF SmartMinutes, Counted
<1> QED
  BY <1>1, <1>2, TimesAssumption DEF SmartMinutes, InLimit

(* A pass that does not stop the charge leaves it within its limit.        *)
LEMMA SmartGoesOn ==
    ASSUME SmartInv, runState = D_CHARGED_ON, ~ChargedStops
    PROVE /\ InLimit(SmartMinutes)
          /\ oucState \in {ON_UNTIL_WARM, ON_UNTIL_CHARGE}
          /\ oucState = ON_UNTIL_CHARGE => SmartMinutes < MaxTimeOn
          /\ oucState = ON_UNTIL_WARM => SmartMinutes <= WarmupMins
<1>1. oucState \in {ON_UNTIL_WARM, ON_UNTIL_CHARGE}
  BY DEF SmartInv, SmartKept, SmartPhaseInv, SmartPhase, ChargedStops
<1>2. oucState = ON_UNTIL_CHARGE => SmartMinutes < MaxTimeOn
  BY SmartCounts DEF ChargedStops, ChargedMaxed
<1>3. oucState = ON_UNTIL_WARM => SmartMinutes <= WarmupMins
  BY SmartCounts DEF SmartInv, SmartKept, SmartPhaseInv
<1> QED
  BY <1>1, <1>2, <1>3 DEF InLimit

-----------------------------------------------------------------------------
(* What a pass stores of a charge: its minutes, unless the board is        *)
(* overheated, or none on the way to sleep.                                *)
LEMMA SmartSaved ==
    ASSUME NEW p \in Params, NEW rs
    PROVE /\ isOverheated => /\ SmartSuspended(p, rs).resumeState = p.resumeState
                             /\ SmartSuspended(p, rs).resumeMinutes = p.resumeMinutes
          /\ ~isOverheated => /\ SmartSuspended(p, rs).resumeState = rs
                              /\ SmartSuspended(p, rs).resumeMinutes = SmartMinutes
          /\ SmartSuspended(p, rs).isOUCMonitoring = p.isOUCMonitoring
<1>1. CASE isOverheated
  BY <1>1 DEF SmartSuspended, Params
<1>2. CASE ~isOverheated
  BY <1>2, WrittenFields DEF SmartSuspended
<1> QED
  BY <1>1, <1>2

(* A charge from the outlets: a pass that does not restart it.             *)
LEMMA SmartACContinues ==
    ASSUME SmartInv, ChargedOnContinues, runState = D_CHARGED_ON, busy = "no"
    PROVE SmartKept'
<1> DEFINE rs == IF ChargedStops THEN D_GOTOSTANDBY ELSE runState
           suspends == powerStateCheck = W_MAINS_OFF /\ param.resumeMinutes < 0
           overheats == ~suspends /\ StaleOverheated
           sleeps == /\ ~suspends /\ ~overheats /\ powerStateCheck = W_MAINS_OFF
                     /\ SleepDelayOver
<1> USE SmartNames DEF putParameters
<1>i. /\ SmartRunInv /\ SmartPhaseInv /\ SmartStoreInv /\ SmartOutletsInv
      /\ SmartTimedInv /\ SmartCountedInv /\ param \in Params /\ eeprom \in Params
  BY DEF SmartInv, SmartKept, TypeOK, StoreOK
<1>1. chargeMins' = SmartMinutes /\ isUpdateTimer' = FALSE /\ busy' = "no"
  BY DEF ChargedOnContinues
<1>2. PICK ended \in BOOLEAN :
        /\ ended => powerStateCheck # W_MAINS_OFF
        /\ charging' = (charging /\ ~(ChargedStops \/ suspends \/ overheats \/ ended))
        /\ relays' => relays /\ ~(ChargedStops \/ suspends \/ overheats \/ ended)
        /\ oucState' = IF ended THEN ON_UNTIL_END
                       ELSE IF ChargedWarm THEN ON_UNTIL_CHARGE ELSE oucState
        /\ runState' = IF sleeps THEN D_GOTOSLEEP
                       ELSE IF overheats \/ ended THEN D_GOTOSTANDBY ELSE rs
  <2>1. PICK cs \in (IF /\ powerStateCheck # W_MAINS_OFF /\ ~isOverheated /\ ~ChargedStops
                        /\ oucState = ON_UNTIL_CHARGE
                     THEN determineChargeState(chargeState)
                     ELSE {IF ChargedWarm THEN C_CHARGING_FULL ELSE chargeState}) :
             LET ended == /\ powerStateCheck # W_MAINS_OFF /\ ~isOverheated /\ ~ChargedStops
                          /\ cs = C_CHARGING_ENDED
                 off == ChargedStops \/ suspends \/ overheats \/ ended
             IN  /\ charging' = (charging /\ ~off)
                 /\ IF off THEN ACRelaysOff(powerStateCheck)
                    ELSE /\ powerState' = powerStateCheck /\ chargeState' = cs
                         /\ UNCHANGED relays
                 /\ oucState' = IF ended THEN ON_UNTIL_END
                                ELSE IF ChargedWarm THEN ON_UNTIL_CHARGE ELSE oucState
                 /\ runState' = IF sleeps THEN D_GOTOSLEEP
                                ELSE IF overheats \/ ended THEN D_GOTOSTANDBY ELSE rs
    BY DEF ChargedOnContinues
  <2> QED
    BY <2>1 DEF ACRelaysOff
<1>3. /\ param' = IF suspends \/ overheats THEN SmartSuspended(param, rs)
                  ELSE IF sleeps THEN WithSession(param, rs, 0, RESUME_MAINS_OFF)
                  ELSE param
      /\ eeprom' \in {eeprom, param'}
      /\ suspends \/ overheats \/ sleeps => eeprom' = param'
  BY DEF ChargedOnContinues
<1>4. rs \in {D_GOTOSTANDBY, D_CHARGED_ON} /\ (rs = D_CHARGED_ON => ~ChargedStops)
  OBVIOUS
<1>5. sleeps => /\ param'.resumeState = rs /\ eeprom'.resumeState = rs
                /\ param'.resumeMinutes = 0 /\ eeprom'.resumeMinutes = 0
  BY <1>3, <1>i, WrittenFields
<1>6. SmartRunInv' /\ SmartTimedInv'
  BY <1>1, <1>2, <1>4 DEF SmartRunInv, SmartRunStates, SmartWaits, SmartTimedInv
<1>7. SmartPhaseInv'
  <2>1. ~ended /\ rs = D_CHARGED_ON => oucState' \in {ON_UNTIL_WARM, ON_UNTIL_CHARGE}
    BY <1>2, <1>4, SmartGoesOn
  <2>2. SmartPhase(runState)'
    BY <1>2, <1>4, <2>1 DEF SmartPhase
  <2>3. SmartSleepWay' => SmartResumes(param)' /\ SmartResumes(eeprom)'
    <3>1. SmartSleepWay' => sleeps /\ ~ended
      BY <1>1, <1>2, <1>4 DEF SmartSleepWay
    <3> QED
      BY <1>4, <1>5, <2>1, <3>1, SmartCounts DEF SmartResumes, SmartPhase, InLimit
  <2>4. oucState' = ON_UNTIL_WARM => SmartMinutes < WarmupMins
    BY <1>2, SmartPhases, SmartCounts DEF ChargedWarm
  <2> QED
    BY <1>1, <2>2, <2>3, <2>4 DEF SmartPhaseInv
<1>8. SmartStoreInv'
  <2>1. SmartStored(param) /\ SmartStored(eeprom)
    BY <1>i DEF SmartStoreInv
  <2>2. SmartStored(param')
    <3>1. CASE (suspends \/ overheats) /\ ~isOverheated
      <4>1. /\ param'.resumeState = rs /\ param'.resumeMinutes = SmartMinutes
            /\ param'.isOUCMonitoring = param.isOUCMonitoring
        BY <1>3, <1>i, <3>1, SmartSaved
      <4> QED
        BY <1>4, <2>1, <4>1 DEF SmartStored, SmartResumeStates
    <3>2. CASE (suspends \/ overheats) /\ isOverheated
      <4>1. /\ param'.resumeState = param.resumeState
            /\ param'.isOUCMonitoring = param.isOUCMonitoring
        BY <1>3, <1>i, <3>2, SmartSaved
      <4> QED
        BY <2>1, <4>1 DEF SmartStored
    <3>3. CASE sleeps
      <4>1. param'.resumeState = rs /\ param'.isOUCMonitoring = param.isOUCMonitoring
        BY <1>3, <1>i, <3>3, WrittenFields
      <4> QED
        BY <1>4, <2>1, <4>1 DEF SmartStored, SmartResumeStates
    <3>4. CASE ~suspends /\ ~overheats /\ ~sleeps
      BY <1>3, <2>1, <3>4
    <3> QED
      BY <3>1, <3>2, <3>3, <3>4
  <2>3. ASSUME runState' = D_CHARGED_ON, ~charging', oucState' # ON_UNTIL_OFF
        PROVE InLimit(param'.resumeMinutes)
    <3>1. ~sleeps /\ ~overheats /\ ~ended /\ ~ChargedStops
      BY <1>2, <1>4, <2>3
    <3>2. CASE suspends
      <4>1. param'.resumeMinutes = SmartMinutes \/ param'.resumeMinutes = param.resumeMinutes
        BY <1>3, <1>i, <3>2, SmartSaved
      <4>2. InLimit(SmartMinutes)
        BY <3>1, SmartGoesOn
      <4>3. InLimit(param.resumeMinutes)
        BY <1>i, <3>2, SmartCounts DEF InLimit, Params
      <4> QED
        BY <4>1, <4>2, <4>3
    <3>3. CASE ~suspends
      <4>1. oucState # ON_UNTIL_OFF
        BY <3>1 DEF ChargedStops
      <4> QED
        BY <1>i, <1>2, <1>3, <2>3, <3>1, <3>3, <4>1 DEF SmartStoreInv
    <3> QED
      BY <3>2, <3>3
  <2>4. param'.resumeState \in {eeprom'.resumeState, D_STARTUP}
    BY <1>3, <1>i DEF SmartStoreInv
  <2> QED
    BY <1>3, <2>1, <2>2, <2>3, <2>4 DEF SmartStoreInv
<1>9. SmartOutletsInv'
  <2> SUFFICES ASSUME relays'
               PROVE \/ chargeMins' < MaxTimeOn
                     \/ chargeMins' <= WarmupMins /\ SmartWarmOutlets'
    BY DEF SmartOutletsInv
  <2>1. ~ChargedStops /\ ~suspends /\ ~overheats /\ ~ended
    BY <1>2
  <2>2. chargeMins' < MaxTimeOn \/ chargeMins' <= WarmupMins
    BY <1>1, <2>1, SmartGoesOn
  <2>3. SmartWarmOutlets'
    BY <1>1, <1>2, <1>5, <2>1 DEF SmartWarmOutlets
  <2> QED
    BY <2>2, <2>3
<1>10. SmartCountedInv'
  <2>1. relays' => /\ relays /\ (charging => charging')
                   /\ runState' = D_CHARGED_ON \/ (runState' = D_GOTOSLEEP /\ sleeps)
    BY <1>2
  <2> QED
    BY <1>i, <1>1, <1>5, <2>1 DEF SmartCountedInv
<1> QED
  BY <1>6, <1>7, <1>8, <1>9, <1>10 DEF SmartKept

(* And a pass that restarts it, from the minutes it had when it was        *)
(* suspended or as a new charge.                                           *)
LEMMA SmartACRestarts ==
    ASSUME SmartInv, runState = D_CHARGED_ON, busy = "no", ChargedRestarting,
           SmartRestarts(D_CHARGED_ON_AUTO, D_GOTOCHARGED_ON_AUTO, D_GOTOCHARGED_ON,
                         "smartAgain")
    PROVE SmartKept'
<1> USE SmartNames DEF putParameters
<1>i. /\ SmartRunInv /\ SmartPhaseInv /\ SmartStoreInv /\ SmartOutletsInv
      /\ SmartTimedInv /\ SmartCountedInv /\ param \in Params /\ eeprom \in Params
  BY DEF SmartInv, SmartKept, TypeOK, StoreOK
<1>1. /\ ~charging /\ oucState = ON_UNTIL_CHARGE /\ ~ChargedStops
      /\ param.resumeState # D_CHARGED_ON_AUTO
  BY <1>i DEF ChargedRestarting, SmartCanRestart, SmartStoreInv, SmartStored
<1>2. /\ charging' /\ oucState' = oucState
      /\ runState' \in {D_CHARGED_ON, D_GOTOCHARGED_ON}
      /\ busy' \in {"no", "smartAgain"}
      /\ chargeMins' \in {SmartMinutes, param.resumeMinutes}
  BY <1>1 DEF SmartRestarts, starttimerCharging, ACRelaysOn
<1>3. runState' = D_GOTOCHARGED_ON => chargeMins' = SmartMinutes
  BY <1>1 DEF SmartRestarts
<1>4. \/ param' = param /\ eeprom' = eeprom
      \/ /\ param'.resumeState = D_STARTUP /\ param'.resumeMinutes = -1
         /\ param'.isOUCMonitoring = param.isOUCMonitoring /\ eeprom' = param'
  <2>1. UNCHANGED paramVars \/ (param' = WithoutResumeData(param) /\ eeprom' = param')
    BY DEF SmartRestarts, helperCleanUpResumeData
  <2> QED
    BY <1>i, <2>1, WrittenFields DEF WithoutResumeData, paramVars
<1>5. SmartRunInv' /\ SmartTimedInv'
  BY <1>2 DEF SmartRunInv, SmartRunStates, SmartWaits, SmartTimedInv
<1>6. SmartPhaseInv'
  BY <1>1, <1>2, SmartPhases DEF SmartPhaseInv, SmartPhase, SmartSleepWay
<1>7. SmartStoreInv'
  <2>1. SmartStored(param) /\ SmartStored(eeprom)
    BY <1>i DEF SmartStoreInv
  <2>2. SmartStored(param') /\ SmartStored(eeprom')
    <3>1. CASE param' = param /\ eeprom' = eeprom
      BY <2>1, <3>1
    <3>2. CASE /\ param'.resumeState = D_STARTUP /\ param'.resumeMinutes = -1
               /\ param'.isOUCMonitoring = param.isOUCMonitoring /\ eeprom' = param'
      BY <2>1, <3>2 DEF SmartStored, SmartResumeStates
    <3> QED
      BY <1>4, <3>1, <3>2
  <2>3. param'.resumeState \in {eeprom'.resumeState, D_STARTUP}
    BY <1>4, <1>i DEF SmartStoreInv
  <2> QED
    BY <1>2, <2>2, <2>3 DEF SmartStoreInv
<1>8. SmartOutletsInv'
  <2>1. SmartMinutes < MaxTimeOn
    BY <1>1, SmartGoesOn
  <2>2. chargeMins' < MaxTimeOn \/ chargeMins' <= WarmupMins
    <3>1. InLimit(param.resumeMinutes)
      BY <1>1, <1>i, SmartPhases DEF SmartStoreInv
    <3> QED
      BY <1>2, <2>1, <3>1 DEF InLimit
  <2>3. chargeMins' < MaxTimeOn \/ runState' = D_CHARGED_ON
    BY <1>2, <1>3, <2>1
  <2> QED
    BY <1>2, <2>2, <2>3 DEF SmartOutletsInv, SmartWarmOutlets, SmartCountedInv
<1>9. SmartCountedInv'
  BY <1>2 DEF SmartCountedInv
<1> QED
  BY <1>5, <1>6, <1>7, <1>8, <1>9 DEF SmartKept

-----------------------------------------------------------------------------
(* A charge from the hub. Its phases count towards the longest time, but   *)
(* for the end, after which no timer runs; and they are not the ones it    *)
(* would restart from.                                                     *)
LEMMA SmartUSBCGoesOn ==
    ASSUME SmartInv, runState = D_CHARGED_ON_USBC
    PROVE /\ oucState = ON_UNTIL_END
             => ~charging /\ ~isUpdateTimer /\ SmartMinutes = chargeMins
          /\ ~USBCRestarting
          /\ ~USBCStops /\ oucState # ON_UNTIL_END
             => SmartMinutes < MaxTimeOn /\ oucState \in USBCPhases
          /\ relays => chargeMins < MaxTimeOn
<1>1. \/ oucState \in {ON_UNTIL_OFF, ON_UNTIL_USBC, ON_UNTIL_CHARGE}
      \/ oucState = ON_UNTIL_END /\ ~charging /\ ~isUpdateTimer
  BY DEF SmartInv, SmartKept, SmartPhaseInv, SmartPhase
<1>2. ~USBCRestarting
  BY <1>1, SmartPhases DEF USBCRestarting, SmartCanRestart
<1>3. ~USBCStops /\ oucState # ON_UNTIL_END
      => SmartMinutes < MaxTimeOn /\ oucState \in USBCPhases
  BY <1>1, SmartCounts DEF USBCStops, USBCPhases
<1>4. relays => chargeMins < MaxTimeOn
  BY SmartNames DEF SmartInv, SmartKept, SmartOutletsInv, SmartWarmOutlets, SmartGone
<1> QED
  BY <1>1, <1>2, <1>3, <1>4, SmartCounts, SmartPhases

(* A pass of the charge from the hub.                                      *)
LEMMA SmartUSBCContinues ==
    ASSUME SmartInv, ChargedOnUSBCContinues, runState = D_CHARGED_ON_USBC, busy = "no"
    PROVE SmartKept'
<1> DEFINE rs == IF USBCStops THEN D_GOTOSTANDBY ELSE runState
           suspends == powerStateCheck = W_MAINS_OFF /\ param.resumeMinutes < 0
           overheats == ~suspends /\ StaleOverheated
           sleeps == /\ ~suspends /\ ~overheats /\ powerStateCheck = W_MAINS_OFF
                     /\ SleepDelayOver
           named == WithSession(param, rs, param.resumeMinutes, param.resumeCause)
<1> USE SmartNames DEF putParameters
<1>i. /\ SmartRunInv /\ SmartPhaseInv /\ SmartStoreInv /\ SmartOutletsInv
      /\ SmartTimedInv /\ SmartCountedInv /\ param \in Params /\ eeprom \in Params
  BY DEF SmartInv, SmartKept, TypeOK, StoreOK
<1>1. /\ chargeMins' = SmartMinutes /\ isUpdateTimer' = FALSE /\ busy' = "no"
      /\ relays' => relays /\ ~USBCStops /\ runState' # D_GOTOSTANDBY
      /\ runState' \in {rs, D_GOTOSLEEP, D_GOTOSTANDBY}
      /\ runState' = D_GOTOSLEEP => sleeps
      /\ runState' = rs => ~sleeps \/ rs = D_GOTOSLEEP
  BY DEF ChargedOnUSBCContinues
<1>2. /\ charging' => charging
      /\ oucState' \in {oucState} \cup USBCPhases \cup {ON_UNTIL_END}
      /\ oucState' = ON_UNTIL_END => ~charging'
      /\ oucState' \in USBCPhases => oucState # ON_UNTIL_OFF
  <2> DEFINE cs == IF USBCStops THEN C_NOT_CHARGING ELSE chargeState
  <2>1. PICK look \in HubLooks(cs) \cup {<<oucState, cs>>} :
             /\ oucState' = look[1]
             /\ charging' => charging
             /\ charging' /\ look \in HubLooks(cs)
                => look[2] # C_CHARGING_ENDED \/ look[1] = oucState
    BY DEF ChargedOnUSBCContinues
  <2>2. \/ look[1] = oucState
        \/ look[1] \in USBCPhases /\ oucState # ON_UNTIL_OFF
        \/ look = <<ON_UNTIL_END, C_CHARGING_ENDED>>
    <3>1. USBCStops => cs # C_CHARGING_DONE
      BY <2>1 DEF C_NOT_CHARGING, C_CHARGING_DONE
    <3> QED
      BY <2>1, <3>1, SmartPhases DEF HubLooks, USBCPhases, USBCStops
  <2>3. oucState = ON_UNTIL_END => ~charging
    BY SmartUSBCGoesOn
  <2> QED
    BY <2>1, <2>2, <2>3, SmartPhases DEF USBCPhases
<1>3. /\ param' = IF suspends THEN SmartSuspended(named, rs)
                  ELSE IF overheats THEN SmartSuspended(param, rs)
                  ELSE IF sleeps THEN WithSession(param, rs, 0, param.resumeCause)
                  ELSE param
      /\ eeprom' \in {eeprom, param'}
      /\ suspends \/ overheats \/ sleeps => eeprom' = param'
  BY DEF ChargedOnUSBCContinues
<1>4. rs \in {D_GOTOSTANDBY, D_CHARGED_ON_USBC} /\ (rs = D_CHARGED_ON_USBC => ~USBCStops)
  OBVIOUS
<1>5. sleeps => /\ param'.resumeState = rs /\ eeprom'.resumeState = rs
  BY <1>3, <1>i, WrittenFields
<1>6. SmartRunInv' /\ SmartTimedInv'
  BY <1>1, <1>4 DEF SmartRunInv, SmartRunStates, SmartWaits, SmartTimedInv
<1>7. SmartPhaseInv'
  <2>1. \/ oucState' \in {ON_UNTIL_OFF, ON_UNTIL_USBC, ON_UNTIL_CHARGE}
        \/ oucState' = ON_UNTIL_END /\ ~charging'
    BY <1>2, <1>i DEF SmartPhaseInv, SmartPhase, USBCPhases
  <2>2. runState' \in {D_CHARGED_ON_USBC, D_GOTOSLEEP, D_GOTOSTANDBY}
    BY <1>1, <1>4
  <2>3. SmartPhase(runState)'
    BY <1>1, <2>1, <2>2 DEF SmartPhase
  <2>4. SmartSleepWay' => SmartResumes(param)' /\ SmartResumes(eeprom)'
    <3>1. SmartSleepWay' => sleeps
      BY <1>1, <2>2 DEF SmartSleepWay
    <3> QED
      BY <1>1, <1>4, <1>5, <2>1, <3>1 DEF SmartResumes, SmartPhase
  <2> QED
    BY <2>1, <2>2, <2>3, <2>4, SmartPhases DEF SmartPhaseInv
<1>8. SmartStoreInv'
  <2>1. SmartStored(param) /\ SmartStored(eeprom)
    BY <1>i DEF SmartStoreInv
  <2>2. /\ param'.isOUCMonitoring = param.isOUCMonitoring
        /\ \/ param'.resumeState = rs
           \/ param'.resumeState = param.resumeState
    <3>1. CASE suspends
      <4>1. rs \in DeviceRunStates
        BY <1>4, RunStateNumbers
      <4>2. named \in Params
        BY <1>i, <4>1, ParamsUpdates, ParamsFields
      <4>3. /\ named.resumeState = rs
            /\ named.isOUCMonitoring = param.isOUCMonitoring
        BY <1>i, WrittenFields
      <4> QED
        BY <1>3, <3>1, <4>2, <4>3, SmartSaved
    <3>2. CASE overheats
      BY <1>3, <1>i, <3>2, SmartSaved
    <3>3. CASE sleeps
      BY <1>3, <1>i, <3>3, WrittenFields
    <3>4. CASE ~suspends /\ ~overheats /\ ~sleeps
      BY <1>3, <3>4
    <3> QED
      BY <3>1, <3>2, <3>3, <3>4
  <2>3. SmartStored(param')
    BY <1>4, <2>1, <2>2 DEF SmartStored, SmartResumeStates
  <2>4. param'.resumeState \in {eeprom'.resumeState, D_STARTUP}
    BY <1>3, <1>i DEF SmartStoreInv
  <2> QED
    BY <1>1, <1>3, <1>4, <2>1, <2>3, <2>4 DEF SmartStoreInv
<1>9. SmartOutletsInv'
  BY <1>1, SmartUSBCGoesOn DEF SmartOutletsInv
<1>10. SmartCountedInv'
  <2>1. CASE ~relays'
    BY <2>1 DEF SmartCountedInv
  <2>2. CASE runState' = D_CHARGED_ON_USBC
    BY <1>1, <2>2 DEF SmartCountedInv
  <2>3. CASE runState' = D_GOTOSLEEP
    BY <1>1, <1>4, <1>5, <2>3 DEF SmartCountedInv
  <2> QED
    BY <1>1, <1>4, <2>1, <2>2, <2>3
<1> QED
  BY <1>6, <1>7, <1>8, <1>9, <1>10 DEF SmartKept

-----------------------------------------------------------------------------
(* The start of a charge: it counts from zero.                             *)
LEMMA SmartStarts ==
    ASSUME SmartInv, goToChargedOnAutoController \/ goToChargedOnUSBCAutoController
    PROVE SmartKept'
<1> USE SmartNames DEF relayVars, chargingVars, paramVars
<1>i. /\ SmartRunInv /\ SmartPhaseInv /\ SmartStoreInv /\ SmartOutletsInv
      /\ SmartTimedInv /\ SmartCountedInv
  BY DEF SmartInv, SmartKept
<1>1. /\ busy = "no" /\ UNCHANGED <<param, eeprom>>
      /\ \/ runState = D_GOTOCHARGED_ON /\ goToChargedOnAutoController
         \/ runState = D_GOTOCHARGED_ON_USBC /\ goToChargedOnUSBCAutoController
  BY <1>i DEF goToChargedOnAutoController, goToChargedOnUSBCAutoController, GoToSmart,
              Pass, SmartRunInv, SmartWaits, QueueWaits, Asleep
<1>2. CASE mains
  <2>1. /\ chargeMins' = 0 /\ runState' = runState /\ UNCHANGED <<charging, isUpdateTimer>>
        /\ \/ /\ runState = D_GOTOCHARGED_ON /\ busy' = "smart"
              /\ oucState' = ON_UNTIL_SS
           \/ /\ runState = D_GOTOCHARGED_ON_USBC /\ busy' = "usbc"
              /\ oucState' = ON_UNTIL_USBC
    <3>1. runState \notin {D_GOTOCHARGED_ON_AUTO, D_GOTOCHARGED_ON_USBC_AUTO}
      BY <1>i DEF SmartRunInv
    <3>2. CASE runState = D_GOTOCHARGED_ON /\ goToChargedOnAutoController
      BY <1>2, <3>1, <3>2 DEF goToChargedOnAutoController, GoToSmart, ACRelaysOn
    <3>3. CASE runState = D_GOTOCHARGED_ON_USBC /\ goToChargedOnUSBCAutoController
      BY <1>2, <3>1, <3>3 DEF goToChargedOnUSBCAutoController, GoToSmart, ACRelaysOn
    <3> QED
      BY <1>1, <3>2, <3>3
  <2>2. SmartRunInv' /\ SmartTimedInv'
    BY <2>1 DEF SmartRunInv, SmartRunStates, SmartWaits, SmartTimedInv
  <2>3. SmartPhaseInv'
    BY <2>1, SmartPhases DEF SmartPhaseInv, SmartPhase, SmartSleepWay
  <2>4. SmartStoreInv'
    BY <1>1, <1>i, <2>1 DEF SmartStoreInv, SmartStored
  <2>5. SmartOutletsInv' /\ SmartCountedInv'
    BY <2>1, TimesAssumption DEF SmartOutletsInv, SmartCountedInv
  <2> QED
    BY <2>2, <2>3, <2>4, <2>5 DEF SmartKept
<1>3. CASE ~mains
  <2>1. /\ runState' = D_GOTOSTANDBY /\ busy' = "no"
        /\ UNCHANGED <<relays, oucState, chargeMins, charging, isUpdateTimer>>
    BY <1>1, <1>3 DEF goToChargedOnAutoController, goToChargedOnUSBCAutoController,
                      GoToSmart
  <2> QED
    BY <1>1, <2>1, SmartMoves
    DEF SmartRunStates, SmartWaits, SmartSleepWay, SmartWarmOutlets
<1> QED
  BY <1>2, <1>3

(* The charge runs when the soft start is over: in its warm-up, from the   *)
(* outlets, and otherwise in the phase of the hub.                         *)
LEMMA SmartHasStarted ==
    ASSUME SmartInv, SmartStarted \/ SmartStartedAgain
    PROVE SmartKept'
<1> USE SmartNames DEF relayVars, chargingVars, paramVars
<1>i. /\ SmartRunInv /\ SmartPhaseInv /\ SmartStoreInv /\ SmartOutletsInv
      /\ SmartTimedInv /\ SmartCountedInv
  BY DEF SmartInv, SmartKept
<1>1. CASE SmartStarted
  <2>1. /\ busy' = "no" /\ chargeMins' = 0 /\ charging' /\ UNCHANGED <<param, eeprom>>
        /\ \/ /\ runState' \in {D_CHARGED_ON, D_WEBGOTOSTANDBY}
              /\ oucState' = ON_UNTIL_WARM
           \/ /\ runState' \in {D_CHARGED_ON_USBC, D_WEBGOTOSTANDBY}
              /\ oucState' = ON_UNTIL_USBC
    BY <1>1, <1>i
    DEF SmartStarted, starttimerCharging, SmartRunInv, SmartWaits, QueueWaits, Asleep
  <2>2. SmartRunInv' /\ SmartTimedInv'
    BY <2>1 DEF SmartRunInv, SmartRunStates, SmartWaits, SmartTimedInv
  <2>3. SmartPhaseInv'
    <3>1. ~SmartSleepWay'
      BY <2>1 DEF SmartSleepWay
    <3>2. SmartPhase(runState)'
      BY <2>1, SmartPhases DEF SmartPhase
    <3>3. chargeMins' < WarmupMins
      BY <2>1, TimesAssumption
    <3> QED
      BY <3>1, <3>2, <3>3 DEF SmartPhaseInv
  <2>4. SmartStoreInv'
    BY <1>i, <2>1 DEF SmartStoreInv, SmartStored
  <2>5. SmartOutletsInv' /\ SmartCountedInv'
    BY <2>1, TimesAssumption DEF SmartOutletsInv, SmartCountedInv
  <2> QED
    BY <2>2, <2>3, <2>4, <2>5 DEF SmartKept
<1>2. CASE SmartStartedAgain
  <2>1. /\ busy \in {"smartAgain", "usbcAgain"} /\ busy' = "no"
        /\ UNCHANGED <<runState, prevRunState, oucState, relays, charging, isUpdateTimer,
                       chargeMins, mainsofftime, param, eeprom>>
    BY <1>2 DEF SmartStartedAgain
  <2> QED
    BY <1>i, <2>1
    DEF SmartKept, SmartRunInv, SmartWaits, SmartPhaseInv, SmartPhase, SmartResumes,
        SmartSleepWay, SmartStoreInv, SmartStored, InLimit, SmartTimedInv, SmartOutletsInv,
        SmartWarmOutlets, SmartGone, SmartCountedInv
<1> QED
  BY <1>1, <1>2

(* All passes of smart charging.                                           *)
LEMMA SmartCharges ==
    ASSUME SmartInv, SmartChargingPass
    PROVE SmartKept'
<1> USE SmartNames
<1>1. CASE chargedOnController
  <2>1. runState = D_CHARGED_ON /\ busy = "no"
    BY <1>1 DEF chargedOnController, SmartACStates, Pass, SmartInv, SmartKept, SmartRunInv
  <2> QED
    BY <1>1, <2>1, SmartACContinues, SmartACRestarts DEF chargedOnController
<1>2. CASE chargedOnUSBCController
  <2>1. runState = D_CHARGED_ON_USBC /\ busy = "no"
    BY <1>2 DEF chargedOnUSBCController, SmartUSBCStates, Pass, SmartInv, SmartKept,
                SmartRunInv
  <2> QED
    BY <1>2, <2>1, SmartUSBCContinues, SmartUSBCGoesOn DEF chargedOnUSBCController
<1> QED
  BY <1>1, <1>2, SmartStarts, SmartHasStarted DEF SmartChargingPass

-----------------------------------------------------------------------------
(* Commands: a stop is accepted with the charge as the previous state, and *)
(* a start only where none runs.                                           *)
LEMMA SmartCommands ==
    ASSUME SmartOnly, SmartInv, remoteAdmin
    PROVE SmartKept'
<1> USE SmartNames DEF relayVars, chargingVars, paramVars
<1>i. /\ SmartRunInv /\ SmartPhaseInv /\ SmartStoreInv /\ SmartOutletsInv
      /\ SmartTimedInv /\ SmartCountedInv
  BY DEF SmartInv, SmartKept
<1>1. /\ runState \notin WebStates
      /\ \/ StandbyCommand
         \/ \E c \in {"ouc", "usb", "tmc", "rst", "hst", "hib"} : ActivityCommand(c)
  BY DEF SmartOnly, remoteAdmin, StandbyCommands
<1>2. /\ UNCHANGED <<busy, relays, oucState, charging, isUpdateTimer, chargeMins,
                     mainsofftime>>
  BY DEF remoteAdmin
<1>3. /\ UNCHANGED <<param, eeprom>> /\ prevRunState' = runState
      /\ \/ runState' = D_WEBGOTOSTANDBY
         \/ /\ View = W_STANDBY
            /\ runState' \in {D_WEBGOTOCHARGED, D_WEBGOTOCHARGEDUSBC, D_WEBGOTOTIMED,
                              D_WEBGOTORESTART, D_WEBGOTOHARDRESTART, D_WEBGOTOHIBERNATE}
  BY <1>1 DEF StandbyCommand, ActivityCommand, Accepted, Selected
<1>4. /\ onViewRunState(D_CHARGED_ON) # W_STANDBY
      /\ onViewRunState(D_CHARGED_ON_USBC) # W_STANDBY
      /\ onViewRunState(D_GOTOCHARGED_ON) # W_STANDBY
      /\ onViewRunState(D_GOTOCHARGED_ON_USBC) # W_STANDBY
      /\ onViewRunState(D_TIMED_ON) # W_STANDBY
  BY DEF onViewRunState, W_STANDBY, W_AUTO_ON, W_TIMED_ON, D_GOTOSLEEP, D_SLEEPING,
         D_WEBGOTOHIBERNATE, D_WEBGOTOTIMED, D_TIMED_ON, D_GOTOTIMED_ON, D_WEBGOTOAUTO,
         D_GOTOAUTO, D_AUTO_OFF, D_AUTO_ON, D_WEBGOTOON, D_GOTOALWAYS_ON, D_ALWAYS_ON,
         D_WEBGOTOCHARGED, D_CHARGED_ON, D_GOTOCHARGED_ON, D_WEBGOTOCHARGEDUSBC,
         D_CHARGED_ON_USBC, D_GOTOCHARGED_ON_USBC, D_GOTOCHARGED_ON_AUTO,
         D_CHARGED_ON_AUTO, D_GOTOCHARGED_ON_USBC_AUTO, D_CHARGED_ON_USBC_AUTO,
         W_CHARGED_ON, W_CHARGED_ON_USBC
<1>5. \/ runState' = D_WEBGOTOSTANDBY
      \/ runState \notin {D_CHARGED_ON, D_CHARGED_ON_USBC, D_GOTOCHARGED_ON,
                          D_GOTOCHARGED_ON_USBC, D_TIMED_ON}
  BY <1>3, <1>4 DEF View
<1>6. SmartRunInv' /\ SmartTimedInv'
  BY <1>i, <1>1, <1>2, <1>3, <1>5 DEF SmartRunInv, SmartRunStates, SmartTimedInv
<1>7. SmartPhaseInv'
  BY <1>i, <1>2, <1>3 DEF SmartPhaseInv, SmartPhase, SmartResumes, InLimit, SmartSleepWay
<1>8. SmartStoreInv'
  BY <1>i, <1>2, <1>3 DEF SmartStoreInv, SmartStored
<1>9. SmartOutletsInv' /\ SmartCountedInv'
  BY <1>i, <1>1, <1>2, <1>3, <1>5
  DEF SmartOutletsInv, SmartWarmOutlets, SmartGone, SmartCountedInv
<1> QED
  BY <1>6, <1>7, <1>8, <1>9 DEF SmartKept

(* The controllers that carry the commands out.                            *)
LEMMA SmartWebCommands ==
    ASSUME SmartInv, WebCommandsPass
    PROVE SmartKept'
<1> USE SmartNames DEF relayVars, chargingVars, paramVars, putParameters, Pass
<1>i. /\ SmartRunInv /\ SmartPhaseInv /\ SmartStoreInv /\ SmartOutletsInv
      /\ SmartTimedInv /\ SmartCountedInv /\ param \in Params /\ eeprom \in Params
  BY DEF SmartInv, SmartKept, TypeOK, StoreOK
<1>1. CASE StoppingController
  <2>1. webGoToChargedController \/ webGoToTimedController \/ webGoToStandbyController
    BY <1>1, <1>i DEF StoppingController, webGoToOnController, webGoToAutoController,
                      webOUCAExitController, SmartRunInv
  <2>2. /\ previousStateHandler(prevRunState) /\ busy = "no" /\ busy' = "no"
        /\ UNCHANGED <<oucState, chargeMins>>
    BY <1>1, <2>1, <1>i
    DEF StoppingController, webGoToChargedController, webGoToStandbyController,
        webGoToTimedController, webOUCAExitController, SmartRunInv
  <2>3. /\ charging' => charging
        /\ isUpdateTimer' => isUpdateTimer
        /\ relays' => /\ relays /\ charging' = charging
                      /\ prevRunState \notin {D_CHARGED_ON, D_CHARGED_ON_USBC, D_TIMED_ON}
    BY <2>2 DEF previousStateHandler, ACRelaysOff, StopsCharging, stoptimerCharging
  <2>4. /\ runState \in {D_WEBGOTOCHARGED, D_WEBGOTOCHARGEDUSBC, D_WEBGOTOTIMED,
                         D_WEBGOTOSTANDBY}
        /\ runState' \in {D_GOTOCHARGED_ON, D_GOTOCHARGED_ON_USBC, D_GOTOTIMED_ON,
                          D_GOTOSTANDBY}
        /\ param'.resumeState = param.resumeState
        /\ param'.resumeMinutes = param.resumeMinutes
        /\ param'.isOUCMonitoring = param.isOUCMonitoring
        /\ eeprom' \in {eeprom, param'}
    BY <2>1, <1>i DEF webGoToChargedController, webGoToTimedController,
                      webGoToStandbyController, SetAuto, Params
  <2>5. SmartRunInv' /\ SmartTimedInv'
    BY <2>2, <2>4 DEF SmartRunInv, SmartRunStates, SmartWaits, SmartTimedInv
  <2>6. SmartPhaseInv'
    BY <1>i, <2>2, <2>4 DEF SmartPhaseInv, SmartPhase, SmartSleepWay
  <2>7. SmartStoreInv'
    BY <1>i, <2>4 DEF SmartStoreInv, SmartStored
  <2>8. SmartOutletsInv' /\ SmartCountedInv'
    BY <1>i, <2>2, <2>3, <2>4
    DEF SmartOutletsInv, SmartWarmOutlets, SmartGone, SmartCountedInv
  <2> QED
    BY <2>5, <2>6, <2>7, <2>8 DEF SmartKept
<1>2. ~webGoToOUCAutoController
  BY <1>i DEF webGoToOUCAutoController, SmartRunInv
<1>3. CASE /\ webGoToRestartController \/ webGoToFactoryResetController
              \/ webGoToHibernateController \/ QueueDone
           /\ UNCHANGED <<prevRunState, relays, charging, isUpdateTimer, chargeMins,
                          mainsofftime>>
  <2>1. /\ busy' \in {"no", "resetQueue", "hibernateQueue", "hibernate"}
        /\ busy \in {"no", "resetQueue", "hibernateQueue"}
        /\ \/ runState \in {D_WEBGOTORESTART, D_WEBGOTOHARDRESTART, D_WEBGOTOHIBERNATE}
           \/ busy \in {"resetQueue", "hibernateQueue"}
        /\ runState' \in {runState, D_RESTART}
        /\ runState' = D_RESTART
           => runState = D_WEBGOTORESTART \/ busy \in {"resetQueue", "hibernateQueue"}
              \/ runState = D_RESTART
        /\ UNCHANGED oucState
    BY <1>3 DEF webGoToRestartController, webGoToFactoryResetController,
                webGoToHibernateController, QueueDone
  <2>2. \/ /\ param'.resumeState = param.resumeState
           /\ param'.resumeMinutes = param.resumeMinutes
           /\ param'.isOUCMonitoring = param.isOUCMonitoring
        \/ /\ param'.resumeState = D_STARTUP /\ param'.resumeMinutes = -1
           /\ ~param'.isOUCMonitoring
    BY <1>3, <1>i DEF webGoToRestartController, webGoToFactoryResetController,
                      webGoToHibernateController, QueueDone, Params, DefaultParams
  <2>3. eeprom' \in {eeprom, param'}
    BY <1>3 DEF webGoToRestartController, webGoToFactoryResetController,
                webGoToHibernateController, QueueDone
  <2>4. SmartRunInv' /\ SmartTimedInv'
    BY <1>i, <1>3, <2>1, <2>2, <2>3
    DEF SmartRunInv, SmartRunStates, SmartWaits, QueueWaits, Asleep, SmartTimedInv
  <2>5. SmartPhaseInv'
    <3>1. ~SmartSleepWay' \/ (SmartSleepWay /\ runState' = runState)
      BY <1>i, <2>1 DEF SmartSleepWay
    <3> QED
      BY <1>i, <1>3, <2>1, <2>2, <2>3, <3>1, SmartCounts
      DEF SmartPhaseInv, SmartPhase, SmartResumes, InLimit
  <2>6. SmartStoreInv'
    <3>1. SmartStored(param) /\ SmartStored(eeprom)
      BY <1>i DEF SmartStoreInv
    <3>2. SmartStored(param')
      BY <2>2, <3>1 DEF SmartStored, SmartResumeStates
    <3>3. runState' = D_CHARGED_ON => runState = D_CHARGED_ON
      BY <2>1
    <3>4. InLimit(param.resumeMinutes) => InLimit(param'.resumeMinutes)
      BY <2>2, SmartCounts
    <3>5. param'.resumeState \in {eeprom'.resumeState, D_STARTUP}
      BY <1>i, <2>2, <2>3 DEF SmartStoreInv
    <3> QED
      BY <1>i, <1>3, <2>1, <2>3, <3>1, <3>2, <3>3, <3>4, <3>5 DEF SmartStoreInv
  <2>7. SmartOutletsInv' /\ SmartCountedInv'
    BY <1>i, <1>3, <2>1, <2>2, <2>3
    DEF SmartOutletsInv, SmartWarmOutlets, SmartGone, SmartCountedInv
  <2> QED
    BY <2>4, <2>5, <2>6, <2>7 DEF SmartKept
<1> QED
  BY <1>1, <1>2, <1>3 DEF WebCommandsPass

(* The surroundings neither count a minute nor change the phase; the timer *)
(* callback only runs while the timer does.                                *)
LEMMA SmartSurroundings ==
    ASSUME SmartInv, Surroundings
    PROVE SmartKept'
<1>i. SmartKept
  BY DEF SmartInv
<1> USE DEF relayVars, countdownVars, chargingVars, paramVars, deviceVars
<1>1. CASE Reset
  BY <1>1, SmartBooted DEF Reset
<1>2. CASE ~Reset
  <2>1. /\ UNCHANGED <<runState, prevRunState, oucState, relays, charging, chargeMins,
                       param, eeprom>>
        /\ isUpdateTimer' = isUpdateTimer \/ charging
        /\ \/ mainsofftime' = mainsofftime
           \/ mainsofftime # "zero" /\ mainsofftime' # "zero"
        /\ \/ busy' = busy
           \/ busy = "hibernate" /\ busy' = "booting"
           \/ busy = "stop" /\ busy' = "woken"
    <3>1. CASE MainsFails
      BY <3>1 DEF MainsFails
    <3>2. CASE MainsReturns
      BY <3>2 DEF MainsReturns
    <3>3. CASE TemperatureChanges
      BY <3>3 DEF TemperatureChanges
    <3>4. CASE ScheduleMoves
      BY <3>4 DEF ScheduleMoves
    <3>5. CASE CountdownMinute
      BY <3>5 DEF CountdownMinute
    <3>6. CASE ChargingMinute
      BY <3>6 DEF ChargingMinute
    <3>7. CASE ResetTimerExpires
      BY <3>7 DEF ResetTimerExpires
    <3>8. CASE SleepDelayPasses
      BY <3>8 DEF SleepDelayPasses
    <3> QED
      BY <1>2, <3>1, <3>2, <3>3, <3>4, <3>5, <3>6, <3>7, <3>8 DEF Surroundings
  <2>2. SmartRunInv' /\ SmartStoreInv' /\ SmartTimedInv' /\ SmartOutletsInv'
        /\ SmartCountedInv'
    BY <1>i, <2>1
    DEF SmartKept, SmartRunInv, SmartWaits, SmartStoreInv, SmartStored, InLimit,
        SmartTimedInv, SmartOutletsInv, SmartWarmOutlets, SmartGone, SmartCountedInv
  <2>3. SmartPhaseInv'
    BY <1>i, <2>1
    DEF SmartKept, SmartPhaseInv, SmartPhase, SmartResumes, InLimit, SmartSleepWay
  <2> QED
    BY <2>2, <2>3 DEF SmartKept
<1> QED
  BY <1>1, <1>2

-----------------------------------------------------------------------------
(* Every reachable state has the invariant.                                *)
LEMMA SmartInvariant ==
    ASSUME SmartOnly
    PROVE Spec => []SmartInv
<1>1. Init => SmartInv
  <2> SUFFICES ASSUME Init PROVE SmartKept
    BY TypeInit DEF SmartInv
  <2>1. /\ runState = D_STARTUP /\ busy = "no" /\ oucState = ON_UNTIL_OFF /\ ~relays
        /\ param = eeprom /\ param.resumeState = D_STARTUP /\ param.resumeMinutes = -1
        /\ ~param.isOUCMonitoring
    BY DEF Init, DefaultParams
  <2>2. SmartRunInv /\ SmartPhaseInv
    BY <2>1, SmartNames, SmartPhases
    DEF SmartRunInv, SmartRunStates, SmartWaits, SmartPhaseInv, SmartPhase, SmartSleepWay
  <2>3. SmartStoreInv /\ SmartTimedInv /\ SmartOutletsInv /\ SmartCountedInv
    BY <2>1, SmartNames
    DEF SmartStoreInv, SmartStored, SmartResumeStates, SmartTimedInv, SmartOutletsInv,
        SmartCountedInv
  <2> QED
    BY <2>2, <2>3 DEF SmartKept
<1>2. SmartInv /\ [Next]_vars => SmartInv'
  <2> SUFFICES ASSUME SmartInv, [Next]_vars PROVE SmartInv'
    OBVIOUS
  <2>1. TypeOK'
    BY TypeStep DEF SmartInv
  <2>2. CASE LoopPass
    BY <2>1, <2>2, SmartStandbyAndSleep, SmartTimed, SmartCharges, SmartNoOther,
       SmartWebCommands
    DEF LoopPass, SmartInv
  <2>3. CASE remoteAdmin
    BY <2>1, <2>3, SmartCommands DEF SmartInv
  <2>4. CASE Surroundings
    BY <2>1, <2>4, SmartSurroundings DEF SmartInv
  <2>5. CASE UNCHANGED vars
    BY <2>1, <2>5, SmartSame DEF SmartInv, vars, relayVars, chargingVars, paramVars
  <2> QED
    BY <2>2, <2>3, <2>4, <2>5 DEF Next
<1> QED
  BY <1>1, <1>2, PTL DEF Spec

(* No pass leaves the outlets on with the longest time of a smart charge   *)
(* reached, nor, from the outlets, the warm-up gone over: not when the     *)
(* charge was suspended and restarted, slept, was stopped and started      *)
(* again, or took over outlets that a lost stop or a timed session had     *)
(* left on.                                                                *)
THEOREM SmartStaysBounded ==
    ASSUME SmartOnly
    PROVE Spec => []SmartIsBounded
<1>1. SmartInv => SmartIsBounded
  <2> SUFFICES ASSUME SmartInv, relays
               PROVE /\ runState \in SmartACStates => InLimit(chargeMins)
                     /\ runState \in SmartUSBCStates => chargeMins < MaxTimeOn
    BY DEF SmartIsBounded, InLimit
  <2>1. /\ runState \in SmartACStates => runState = D_CHARGED_ON
        /\ runState \in SmartUSBCStates => runState = D_CHARGED_ON_USBC
    BY SmartNames DEF SmartACStates, SmartUSBCStates, SmartInv, SmartKept, SmartRunInv
  <2>2. runState = D_CHARGED_ON => InLimit(chargeMins)
    BY DEF SmartInv, SmartKept, SmartOutletsInv, SmartGone, InLimit
  <2> QED
    BY <2>1, <2>2, SmartUSBCGoesOn
<1> QED
  BY <1>1, SmartInvariant, PTL

(* The charge timer, by which the longest time is counted, runs while the  *)
(* outlets are on in a smart charge from the outlets.                      *)
THEOREM SmartIsCounted ==
    ASSUME SmartOnly
    PROVE Spec => []ChargeIsCounted
<1>1. SmartInv => ChargeIsCounted
  <2> SUFFICES ASSUME SmartInv, relays, busy = "no",
                      runState \in {D_ALWAYS_ON, D_AUTO_ON} \cup SmartACStates
               PROVE charging
    BY DEF ChargeIsCounted
  <2>1. runState = D_CHARGED_ON
    BY SmartNames DEF SmartACStates, SmartInv, SmartKept, SmartRunInv
  <2> QED
    BY <2>1, SmartNames DEF SmartInv, SmartKept, SmartCountedInv
<1> QED
  BY <1>1, SmartInvariant, PTL
=============================================================================
