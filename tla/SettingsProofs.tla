--------------------------- MODULE SettingsProofs ---------------------------
(***************************************************************************)
(* What is stored, for every value of the constants. First the settings:   *)
(* what the user has switched on survives a reset at any moment, as long   *)
(* as the board is not set back to its factory settings (which saves       *)
(* nothing when the configuration of the cloud cannot be applied). Then    *)
(* the suspended session, without smart charging: it names an activity to  *)
(* resume; the overheat flag that resuming must respect; and that a        *)
(* session is resumed from its stored minutes once. From where outlets can *)
(* be on then follows what else these activities owe each other: none is   *)
(* on in standby, in the heat or uncounted.                                *)
(***************************************************************************)
EXTENDS TrolleyProofs

NoFactoryReset == "hst" \notin Commands

(* The inductive invariant: the settings in RAM and in EEPROM agree, and   *)
(* no run state that is held, remembered or stored is the factory reset.   *)
Saved == SettingsAreSaved
NoReset ==
    /\ runState # D_WEBGOTOHARDRESTART /\ prevRunState # D_WEBGOTOHARDRESTART
    /\ param.resumeState # D_WEBGOTOHARDRESTART
    /\ eeprom.resumeState # D_WEBGOTOHARDRESTART
SettingsInv == TypeOK /\ Saved /\ NoReset

-----------------------------------------------------------------------------
(* The other run states are not the factory reset.                         *)
LEMMA OtherThanReset ==
    D_WEBGOTOHARDRESTART \notin
        {0, AUTOANDOFF, D_STARTUP, D_STANDBY, D_TIMED_ON, D_AUTO_OFF, D_AUTO_ON, D_ALWAYS_ON,
         D_SLEEPING, D_CHARGED_ON, D_CHARGED_ON_USBC, D_GOTOSTANDBY,
         D_GOTOTIMED_ON, D_GOTOAUTO, D_GOTOALWAYS_ON, D_GOTOSLEEP,
         D_GOTOCHARGED_ON, D_GOTOCHARGED_ON_USBC, D_CHARGED_ON_AUTO,
         D_CHARGED_ON_USBC_AUTO, D_RESTART, D_GOTOCHARGED_ON_AUTO,
         D_GOTOCHARGED_ON_USBC_AUTO, D_WEBOUCAEXIT, D_WEBGOTORESTART,
         D_WEBGOTOSTANDBY, D_WEBGOTOHIBERNATE, D_WEBGOTOAUTO,
         D_WEBGOTOCHARGED, D_WEBGOTOON, D_WEBGOTOTIMED, D_WEBOUCAUTO,
         D_WEBGOTOCHARGEDUSBC}
  BY DEF AUTOANDOFF, D_STARTUP, D_STANDBY, D_TIMED_ON, D_AUTO_OFF, D_AUTO_ON,
         D_ALWAYS_ON, D_SLEEPING, D_CHARGED_ON, D_CHARGED_ON_USBC, D_GOTOSTANDBY,
         D_GOTOTIMED_ON, D_GOTOAUTO, D_GOTOALWAYS_ON, D_GOTOSLEEP,
         D_GOTOCHARGED_ON, D_GOTOCHARGED_ON_USBC, D_CHARGED_ON_AUTO,
         D_CHARGED_ON_USBC_AUTO, D_RESTART, D_GOTOCHARGED_ON_AUTO,
         D_GOTOCHARGED_ON_USBC_AUTO, D_WEBOUCAEXIT, D_WEBGOTORESTART,
         D_WEBGOTOHARDRESTART, D_WEBGOTOSTANDBY, D_WEBGOTOHIBERNATE, D_WEBGOTOAUTO,
         D_WEBGOTOCHARGED, D_WEBGOTOON, D_WEBGOTOTIMED, D_WEBOUCAUTO,
         D_WEBGOTOCHARGEDUSBC

(* A block that is written is saved.                                       *)
LEMMA SavedByPut == ASSUME putParameters PROVE Saved'
  BY DEF putParameters, Saved, SettingsAreSaved

(* A block that is left alone stays saved.                                 *)
LEMMA SavedUnchanged == ASSUME Saved, UNCHANGED paramVars PROVE Saved'
  BY DEF paramVars, Saved, SettingsAreSaved

(* So does one whose minutes are changed in RAM only, as an ended session  *)
(* and an overheated continuous charge do.                                 *)
LEMMA SavedMinutes ==
    ASSUME TypeOK, Saved, NEW m, NEW c,
           param' = WithMinutes(param, m, c), UNCHANGED eeprom
    PROVE Saved'
  BY WrittenFields DEF Saved, SettingsAreSaved, TypeOK, StoreOK

(* No power-on setting selects the factory reset.                          *)
LEMMA PowerOnIsNoReset ==
    ASSUME NEW p, NEW r
    PROVE powerOnStateSelection(p, r) # D_WEBGOTOHARDRESTART
  BY OtherThanReset DEF powerOnStateSelection, LastStateSelection

(* A reset reads the block as it was saved.                                *)
LEMMA SettingsBooted == ASSUME SettingsInv, Booted PROVE Saved' /\ NoReset'
  BY OtherThanReset DEF SettingsInv, Saved, SettingsAreSaved, NoReset, Booted

-----------------------------------------------------------------------------
(* The controllers of startup, restart, standby and sleep.                 *)
LEMMA SettingsStandbyAndSleep ==
    ASSUME SettingsInv, StandbyAndSleepPass
    PROVE Saved' /\ NoReset'
<1> USE OtherThanReset DEF SettingsInv, NoReset, paramVars
<1>1. CASE startupController
  BY <1>1, SavedByPut, PowerOnIsNoReset DEF startupController, putParameters
<1>2. CASE restartController
  BY <1>2, SettingsBooted, SavedUnchanged DEF restartController
<1>3. CASE goToStandbyController
  <2>1. CASE UNCHANGED paramVars
    BY <1>3, <2>1, SavedUnchanged DEF goToStandbyController
  <2>2. CASE param' = WithMinutes(param, -1, 0) /\ putParameters
    BY <1>3, <2>2, SavedByPut, WrittenFields
    DEF goToStandbyController, putParameters, TypeOK, StoreOK
  <2> QED
    BY <1>3, <2>1, <2>2 DEF goToStandbyController
<1>4. CASE standbyController
  <2>1. CASE UNCHANGED paramVars
    BY <1>4, <2>1, SavedUnchanged DEF standbyController
  <2>2. CASE param' = WithSession(param, D_STANDBY, -1, RESUME_MAINS_OFF) /\ putParameters
    BY <1>4, <2>2, SavedByPut, WrittenFields
    DEF standbyController, putParameters, TypeOK, StoreOK
  <2> QED
    BY <1>4, <2>1, <2>2 DEF standbyController
<1>5. CASE goToSleepController
  BY <1>5, SavedUnchanged DEF goToSleepController
<1>6. CASE sleepingController
  <2>1. CASE helperAfterSleep
    BY <1>6, <2>1 DEF sleepingController, helperAfterSleep, Saved, SettingsAreSaved
  <2>2. CASE UNCHANGED <<runState, busy, paramVars>> \/ UNCHANGED <<runState, paramVars>>
    BY <1>6, <2>2, SavedUnchanged DEF sleepingController
  <2> QED
    BY <1>6, <2>1, <2>2 DEF sleepingController
<1>7. CASE SleepQueueDone
  BY <1>7, SavedByPut, SavedUnchanged
  DEF SleepQueueDone, putParameters, TypeOK, StoreOK, Params
<1>8. CASE SleepConfirm
  BY <1>8, SavedUnchanged DEF SleepConfirm
<1>9. CASE SleepWake
  BY <1>9, SavedByPut, SavedUnchanged
  DEF SleepWake, ResumeOrStandby, putParameters, TypeOK, StoreOK, Params
<1>10. CASE SleepStopped
  BY <1>10, SavedUnchanged DEF SleepStopped, ResumeOrStandby
<1>11. CASE SleepBooted
  BY <1>11, SettingsBooted DEF SleepBooted
<1> QED
  BY <1>1, <1>2, <1>3, <1>4, <1>5, <1>6, <1>7, <1>8, <1>9, <1>10, <1>11
  DEF StandbyAndSleepPass

(* A session that is cleared is cleared in EEPROM too.                     *)
LEMMA SettingsCleanUp ==
    ASSUME TypeOK, helperCleanUpResumeData
    PROVE /\ Saved' /\ param'.resumeState # D_WEBGOTOHARDRESTART
          /\ eeprom'.resumeState # D_WEBGOTOHARDRESTART
  BY OtherThanReset, SavedByPut, WrittenFields
  DEF helperCleanUpResumeData, putParameters, WithoutResumeData, TypeOK, StoreOK

(* Timed and continuous charging.                                          *)
LEMMA SettingsTimedAndContinuous ==
    ASSUME SettingsInv, TimedAndContinuousPass
    PROVE Saved' /\ NoReset'
<1> USE OtherThanReset DEF SettingsInv, NoReset, paramVars
<1>1. CASE goToTimedOnController
  BY <1>1, SavedUnchanged DEF goToTimedOnController
<1>2. CASE timedOnController
  <2>1. runState' # D_WEBGOTOHARDRESTART /\ prevRunState' # D_WEBGOTOHARDRESTART
    BY <1>2 DEF timedOnController, TimedOnStarts, TimedOnContinues
  <2>2. CASE TimedOnStarts
    BY <2>1, <2>2, SettingsCleanUp, SavedUnchanged DEF TimedOnStarts
  <2>3. CASE TimedOnContinues
    <3>1. /\ param'.resumeState # D_WEBGOTOHARDRESTART
          /\ eeprom'.resumeState # D_WEBGOTOHARDRESTART
      BY <2>3, WrittenFields DEF TimedOnContinues, putParameters, TypeOK, StoreOK
    <3>2. Saved'
      BY <2>3, SavedByPut, SavedUnchanged, SavedMinutes DEF TimedOnContinues
    <3> QED
      BY <2>1, <3>1, <3>2
  <2> QED
    BY <1>2, <2>2, <2>3 DEF timedOnController
<1>3. CASE goToOnController
  BY <1>3, SavedUnchanged DEF goToOnController
<1>4. CASE onController
  <2>1. runState' # D_WEBGOTOHARDRESTART /\ prevRunState' # D_WEBGOTOHARDRESTART
    BY <1>4 DEF onController, OnStarts, OnContinues
  <2>2. CASE OnStarts
    BY <2>1, <2>2, SettingsCleanUp, SavedUnchanged DEF OnStarts
  <2>3. CASE OnContinues
    <3>1. /\ param'.resumeState # D_WEBGOTOHARDRESTART
          /\ eeprom'.resumeState # D_WEBGOTOHARDRESTART
      BY <2>3, WrittenFields DEF OnContinues, putParameters, TypeOK, StoreOK
    <3>2. Saved'
      BY <2>3, SavedByPut, SavedUnchanged, SavedMinutes DEF OnContinues
    <3> QED
      BY <2>1, <3>1, <3>2
  <2> QED
    BY <1>4, <2>2, <2>3 DEF onController
<1>5. CASE TimedOrOnStarted
  BY <1>5, SavedUnchanged DEF TimedOrOnStarted
<1> QED
  BY <1>1, <1>2, <1>3, <1>4, <1>5 DEF TimedAndContinuousPass

(* Automatic charging and the check of the schedule.                       *)
LEMMA SettingsAutoSchedule ==
    ASSUME SettingsInv, AutoSchedulePass
    PROVE Saved' /\ NoReset'
<1> USE OtherThanReset DEF SettingsInv, NoReset, paramVars
<1>1. CASE checkScheduledStartUntilCharged
  <2>1. CASE ScheduledStart
    BY <1>1, <2>1, SavedUnchanged DEF checkScheduledStartUntilCharged, ScheduledStart
  <2>2. CASE ScheduleOver
    BY <1>1, <2>2, SavedByPut
    DEF checkScheduledStartUntilCharged, ScheduleOver, putParameters, TypeOK, StoreOK, Params
  <2>3. CASE ScheduleClock
    BY <1>1, <2>3, SavedUnchanged DEF checkScheduledStartUntilCharged, ScheduleClock
  <2> QED
    BY <1>1, <2>1, <2>2, <2>3 DEF checkScheduledStartUntilCharged
<1>2. CASE goToAutoController
  BY <1>2, SavedUnchanged DEF goToAutoController
<1>3. CASE autoController
  <2>1. runState' # D_WEBGOTOHARDRESTART /\ prevRunState' # D_WEBGOTOHARDRESTART
    BY <1>3 DEF autoController, AutoExpires, AutoTimeInvalid, AutoStarts, AutoIdles,
                AutoContinues
  <2>2. CASE AutoExpires \/ AutoTimeInvalid
    BY <2>1, <2>2, SavedUnchanged DEF AutoExpires, AutoTimeInvalid
  <2>3. CASE AutoStarts \/ AutoIdles
    BY <2>1, <2>3, SettingsCleanUp, SavedUnchanged DEF AutoStarts, AutoIdles, AutoResumes
  <2>4. CASE AutoContinues
    <3>1. CASE UNCHANGED paramVars
      BY <2>1, <3>1, SavedUnchanged
    <3>2. CASE /\ putParameters
               /\ param'.resumeState \in {D_AUTO_ON, D_AUTO_OFF}
      BY <2>1, <3>2, SavedByPut DEF putParameters
    <3>3. ASSUME NEW p \in Params, NEW c, NEW b \in BOOLEAN
          PROVE /\ AutoSuspended(p, c, b).resumeState \in {D_AUTO_ON, D_AUTO_OFF}
                /\ AutoAsleep(p, b).resumeState \in {D_AUTO_ON, D_AUTO_OFF}
      <4>1. [p EXCEPT !.isAuto = p.isAuto /\ ~b] \in Params
        BY Zenon DEF Params
      <4> QED
        BY <4>1, WrittenFields DEF AutoSuspended, AutoAsleep
    <3>4. param \in Params
          /\ AutoSuspended(param, RESUME_OVERHEAT, TRUE) \in Params
      BY AutoSaves, ConstantNumbers DEF TypeOK, StoreOK
    <3> QED
      BY <2>4, <3>1, <3>2, <3>3, <3>4, HeatFlags DEF AutoContinues
  <2> QED
    BY <1>3, <2>2, <2>3, <2>4 DEF autoController
<1>4. CASE AutoStarted
  BY <1>4, SavedUnchanged DEF AutoStarted
<1> QED
  BY <1>1, <1>2, <1>3, <1>4 DEF AutoSchedulePass

(* The start of a smart charge writes no parameter.                        *)
LEMMA SettingsGoToSmart ==
    ASSUME SettingsInv, NEW requested, NEW scheduled, NEW ouc, NEW wait, NEW waitAuto,
           GoToSmart(requested, scheduled, ouc, wait, waitAuto)
    PROVE Saved' /\ NoReset'
  BY OtherThanReset, SavedUnchanged DEF SettingsInv, NoReset, paramVars, GoToSmart

(* A restart clears the stored session, in EEPROM too.                     *)
LEMMA SettingsSmartRestarts ==
    ASSUME SettingsInv, NEW auto, NEW wait,
           NEW goToAuto, goToAuto # D_WEBGOTOHARDRESTART,
           NEW goTo, goTo # D_WEBGOTOHARDRESTART,
           SmartRestarts(auto, goToAuto, goTo, wait)
    PROVE Saved' /\ NoReset'
<1> USE DEF SettingsInv, NoReset, paramVars
<1>1. runState' # D_WEBGOTOHARDRESTART /\ prevRunState' # D_WEBGOTOHARDRESTART
  BY DEF SmartRestarts
<1> QED
  BY <1>1, SettingsCleanUp, SavedUnchanged DEF SmartRestarts

(* A smart charge that is suspended resumes in its own run state.          *)
LEMMA SettingsSmartSuspended ==
    ASSUME NEW p \in Params, NEW rs,
           p.resumeState # D_WEBGOTOHARDRESTART, rs # D_WEBGOTOHARDRESTART
    PROVE SmartSuspended(p, rs).resumeState # D_WEBGOTOHARDRESTART
<1>1. [p EXCEPT !.isAuto = FALSE].resumeState = p.resumeState
  BY DEF Params
<1> QED
  BY <1>1, WrittenFields DEF SmartSuspended

(* Smart charging, from the outlets and from the hub.                      *)
LEMMA SettingsSmartCharging ==
    ASSUME SettingsInv, SmartChargingPass
    PROVE Saved' /\ NoReset'
<1> USE OtherThanReset DEF SettingsInv, NoReset, paramVars
<1>1. CASE goToChargedOnAutoController
  BY <1>1, SettingsGoToSmart DEF goToChargedOnAutoController
<1>2. CASE chargedOnController
  <2>1. CASE ChargedOnContinues
    <3> DEFINE rs == IF ChargedStops THEN D_GOTOSTANDBY ELSE runState
    <3>1. rs # D_WEBGOTOHARDRESTART
      OBVIOUS
    <3>2. runState' # D_WEBGOTOHARDRESTART /\ prevRunState' # D_WEBGOTOHARDRESTART
      BY <2>1 DEF ChargedOnContinues
    <3>3. \/ param' = param /\ (putParameters \/ UNCHANGED eeprom)
          \/ param' = SmartSuspended(param, rs) /\ putParameters
          \/ param' = WithSession(param, rs, 0, RESUME_MAINS_OFF) /\ putParameters
      BY <2>1 DEF ChargedOnContinues
    <3> HIDE DEF rs
    <3>4. CASE param' = param /\ (putParameters \/ UNCHANGED eeprom)
      BY <3>2, <3>4, SavedByPut, SavedUnchanged DEF putParameters
    <3>5. CASE param' = SmartSuspended(param, rs) /\ putParameters
      BY <3>1, <3>2, <3>5, SavedByPut, SettingsSmartSuspended
      DEF putParameters, TypeOK, StoreOK
    <3>6. CASE param' = WithSession(param, rs, 0, RESUME_MAINS_OFF) /\ putParameters
      BY <3>1, <3>2, <3>6, SavedByPut, WrittenFields DEF putParameters, TypeOK, StoreOK
    <3> QED
      BY <3>3, <3>4, <3>5, <3>6
  <2> QED
    BY <1>2, <2>1, SettingsSmartRestarts DEF chargedOnController
<1>3. CASE goToChargedOnUSBCAutoController
  BY <1>3, SettingsGoToSmart DEF goToChargedOnUSBCAutoController
<1>4. CASE chargedOnUSBCController
  <2>1. CASE ChargedOnUSBCContinues
    <3> DEFINE rs == IF USBCStops THEN D_GOTOSTANDBY ELSE runState
               kept == WithSession(param, rs, param.resumeMinutes, param.resumeCause)
    <3>1. rs # D_WEBGOTOHARDRESTART
      OBVIOUS
    <3>2. runState' # D_WEBGOTOHARDRESTART /\ prevRunState' # D_WEBGOTOHARDRESTART
      BY <2>1 DEF ChargedOnUSBCContinues
    <3>3. \/ param' = param /\ UNCHANGED eeprom
          \/ param' = SmartSuspended(kept, rs) /\ putParameters
          \/ param' = SmartSuspended(param, rs) /\ putParameters
          \/ param' = WithSession(param, rs, 0, param.resumeCause) /\ putParameters
      BY <2>1 DEF ChargedOnUSBCContinues
    <3>4. rs \in DeviceRunStates
      BY RunStateNumbers DEF TypeOK, RunStateOK
    <3> HIDE DEF rs
    <3>5. kept \in Params /\ kept.resumeState = rs
      BY <3>4, ParamsUpdates, ParamsFields, WrittenFields DEF TypeOK, StoreOK
    <3> HIDE DEF kept
    <3>6. CASE param' = param /\ UNCHANGED eeprom
      BY <3>2, <3>6, SavedUnchanged
    <3>7. CASE param' = SmartSuspended(kept, rs) /\ putParameters
      BY <3>1, <3>2, <3>5, <3>7, SavedByPut, SettingsSmartSuspended DEF putParameters
    <3>8. CASE param' = SmartSuspended(param, rs) /\ putParameters
      BY <3>1, <3>2, <3>8, SavedByPut, SettingsSmartSuspended
      DEF putParameters, TypeOK, StoreOK
    <3>9. CASE param' = WithSession(param, rs, 0, param.resumeCause) /\ putParameters
      BY <3>1, <3>2, <3>9, SavedByPut, WrittenFields DEF putParameters, TypeOK, StoreOK
    <3> QED
      BY <3>3, <3>6, <3>7, <3>8, <3>9
  <2> QED
    BY <1>4, <2>1, SettingsSmartRestarts DEF chargedOnUSBCController
<1>5. CASE SmartStarted
  BY <1>5, SavedUnchanged DEF SmartStarted
<1>6. CASE SmartStartedAgain
  BY <1>6, SavedUnchanged DEF SmartStartedAgain
<1> QED
  BY <1>1, <1>2, <1>3, <1>4, <1>5, <1>6 DEF SmartChargingPass

(* Commands. Without the factory reset command no command selects it.      *)
LEMMA SettingsCommand ==
    ASSUME NoFactoryReset, SettingsInv, remoteAdmin
    PROVE Saved' /\ NoReset'
<1> USE OtherThanReset DEF SettingsInv, NoReset, paramVars
<1>1. ASSUME NEW c \in Commands \cap StandbyCommands
      PROVE Selected(c) # D_WEBGOTOHARDRESTART
  BY NoFactoryReset DEF NoFactoryReset, StandbyCommands, Selected
<1>2. CASE StandbyCommand
  BY <1>2, SavedUnchanged DEF StandbyCommand, Accepted
<1>3. CASE \E c \in Commands \cap StandbyCommands : ActivityCommand(c)
  BY <1>1, <1>3, SavedUnchanged DEF ActivityCommand, Accepted
<1>4. CASE AutoOnCommand
  BY <1>4, SavedUnchanged DEF AutoOnCommand, Accepted
<1>5. CASE AutoOffCommand
  BY <1>5, SavedByPut DEF AutoOffCommand, Accepted, putParameters, TypeOK, StoreOK, Params
<1> QED
  BY <1>2, <1>3, <1>4, <1>5 DEF remoteAdmin

(* The controllers that carry the commands out.                            *)
LEMMA SettingsWebCommands ==
    ASSUME SettingsInv, WebCommandsPass
    PROVE Saved' /\ NoReset'
<1> USE OtherThanReset DEF SettingsInv, NoReset, paramVars
<1>1. CASE StoppingController
  <2>1. runState' # D_WEBGOTOHARDRESTART /\ prevRunState' # D_WEBGOTOHARDRESTART
    BY <1>1 DEF StoppingController, webGoToTimedController, webGoToOnController,
       webGoToAutoController, webGoToChargedController, webGoToStandbyController,
       webOUCAExitController
  <2>2. ASSUME NEW b \in BOOLEAN, SetAuto(b)
        PROVE /\ Saved' /\ param'.resumeState # D_WEBGOTOHARDRESTART
              /\ eeprom'.resumeState # D_WEBGOTOHARDRESTART
    <3>1. param.isAuto = b => param' = param
      BY <2>2 DEF SetAuto, TypeOK, StoreOK, Params
    <3>2. param'.resumeState = param.resumeState
      BY <2>2 DEF SetAuto, TypeOK, StoreOK, Params
    <3> QED
      BY <2>2, <3>1, <3>2, SavedByPut, SavedUnchanged DEF SetAuto, putParameters
  <2> QED
    BY <1>1, <2>1, <2>2, SavedUnchanged
    DEF StoppingController, webGoToTimedController, webGoToOnController,
        webGoToAutoController, webGoToChargedController, webGoToStandbyController,
        webOUCAExitController
<1>2. CASE webGoToOUCAutoController /\ UNCHANGED prevRunState
  BY <1>2, SavedByPut
  DEF webGoToOUCAutoController, putParameters, TypeOK, StoreOK, Params
<1>3. CASE webGoToRestartController /\ UNCHANGED prevRunState
  BY <1>3, SavedByPut
  DEF webGoToRestartController, putParameters, TypeOK, StoreOK, Params
<1>4. CASE webGoToFactoryResetController
  BY <1>4 DEF webGoToFactoryResetController, Pass
<1>5. CASE webGoToHibernateController /\ UNCHANGED prevRunState
  BY <1>5, SavedByPut
  DEF webGoToHibernateController, putParameters, TypeOK, StoreOK, Params
<1>6. CASE QueueDone /\ UNCHANGED prevRunState
  BY <1>6, SavedUnchanged DEF QueueDone
<1> QED
  BY <1>1, <1>2, <1>3, <1>4, <1>5, <1>6 DEF WebCommandsPass

(* The surroundings.                                                       *)
LEMMA SettingsSurroundings ==
    ASSUME SettingsInv, Surroundings
    PROVE Saved' /\ NoReset'
<1>1. CASE Reset
  BY <1>1, SettingsBooted DEF Reset
<1>2. CASE UNCHANGED <<runState, prevRunState, paramVars>>
  BY <1>2, SavedUnchanged DEF SettingsInv, NoReset, paramVars
<1> QED
  BY <1>1, <1>2
  DEF Surroundings, MainsFails, MainsReturns, TemperatureChanges, ScheduleMoves,
      CountdownMinute, ChargingMinute, ResetTimerExpires, SleepDelayPasses, deviceVars

-----------------------------------------------------------------------------
(* The inductive invariant holds in every reachable state.                 *)
LEMMA SettingsInvariant == ASSUME NoFactoryReset PROVE Spec => []SettingsInv
<1>1. Init => SettingsInv
  <2> SUFFICES ASSUME Init PROVE SettingsInv
    OBVIOUS
  <2>1. Saved
    BY DEF Init, Saved, SettingsAreSaved
  <2>2. NoReset
    BY OtherThanReset DEF Init, NoReset, DefaultParams
  <2> QED
    BY <2>1, <2>2, TypeInit DEF SettingsInv
<1>2. SettingsInv /\ [Next]_vars => SettingsInv'
  <2> SUFFICES ASSUME SettingsInv, [Next]_vars PROVE SettingsInv'
    OBVIOUS
  <2>1. TypeOK'
    BY TypeStep DEF SettingsInv
  <2>2. CASE LoopPass
    BY <2>1, <2>2, SettingsStandbyAndSleep, SettingsTimedAndContinuous,
       SettingsAutoSchedule, SettingsSmartCharging, SettingsWebCommands
    DEF LoopPass, SettingsInv
  <2>3. CASE remoteAdmin
    BY NoFactoryReset, <2>1, <2>3, SettingsCommand DEF SettingsInv
  <2>4. CASE Surroundings
    BY <2>1, <2>4, SettingsSurroundings DEF SettingsInv
  <2>5. CASE UNCHANGED vars
    BY <2>1, <2>5, SavedUnchanged DEF vars, SettingsInv, NoReset, paramVars
  <2> QED
    BY <2>2, <2>3, <2>4, <2>5 DEF Next
<1> QED
  BY <1>1, <1>2, PTL DEF Spec

(* Automatic control and the scheduled smart charge, switched on or off,   *)
(* are in EEPROM as they are in RAM after every step: whatever controller  *)
(* runs, whatever command is served and whenever the board is reset.       *)
THEOREM SettingsSurviveReset == ASSUME NoFactoryReset PROVE Spec => []SettingsAreSaved
<1>1. SettingsInv => SettingsAreSaved
  BY DEF SettingsInv, Saved
<1> QED
  BY <1>1, SettingsInvariant, PTL

-----------------------------------------------------------------------------
(* Trolleys whose users do without smart charging: timed, continuous and   *)
(* automatic charging in any order, in the weekly schedule or by hand.     *)
NoSmartCharging ==
    /\ Commands \cap {"ouc", "usb"} = {} /\ ScheduleType # "O"
    /\ PowerOnState \notin {POS_SMART_AC, POS_SMART_USB}

SmartStates ==
    {D_CHARGED_ON, D_CHARGED_ON_USBC, D_GOTOCHARGED_ON, D_GOTOCHARGED_ON_USBC,
     D_WEBGOTOCHARGED, D_WEBGOTOCHARGEDUSBC, D_WEBOUCAUTO, D_WEBOUCAEXIT,
     D_GOTOCHARGED_ON_AUTO, D_CHARGED_ON_AUTO, D_GOTOCHARGED_ON_USBC_AUTO,
     D_CHARGED_ON_USBC_AUTO}
SmartWaits == {"scheduled", "smart", "smartAuto", "smartAgain",
               "usbc", "usbcAuto", "usbcAgain"}

(* The inductive invariant: no smart charge runs, waits or is stored. If   *)
(* the board never gets hot, every session that is stored, in RAM too, can *)
(* be resumed (overheating stores minutes without a run state).            *)
Resumable(p) == p.resumeMinutes >= 0 => p.resumeState \in ChargingStates
Plain(p) ==
    /\ p.resumeState \notin SmartStates /\ ~p.isOUCMonitoring
    /\ "hot" \notin Temperatures => Resumable(p)
PlainInv ==
    /\ TypeOK
    /\ runState \notin SmartStates /\ busy \notin SmartWaits
    /\ Plain(param) /\ Plain(eeprom)
    /\ isOverheated => "hot" \in Temperatures

(* What is shown of every step: its run state and wait, the block that is  *)
(* left, whether it is saved, and when the outlets are switched on.        *)
PlainStep ==
    /\ runState' \notin SmartStates /\ busy' \notin SmartWaits
    /\ Plain(param') /\ eeprom' \in {eeprom, param'}
    /\ isOverheated' => "hot" \in Temperatures
    /\ relays' => relays \/ ~isOverheated'

-----------------------------------------------------------------------------
(* Which states are not smart ones, and which can be resumed.              *)
LEMMA PlainStates ==
    /\ {D_STARTUP, D_STANDBY, D_TIMED_ON, D_AUTO_OFF, D_AUTO_ON, D_ALWAYS_ON, D_SLEEPING,
        D_GOTOSTANDBY, D_GOTOTIMED_ON, D_GOTOAUTO, D_GOTOALWAYS_ON, D_GOTOSLEEP,
        D_RESTART, D_WEBGOTORESTART, D_WEBGOTOHARDRESTART, D_WEBGOTOSTANDBY,
        D_WEBGOTOHIBERNATE, D_WEBGOTOAUTO, D_WEBGOTOON, D_WEBGOTOTIMED}
            \cap SmartStates = {}
    /\ {"no", "timed", "on", "auto", "queue", "confirm", "wake", "booting", "woken",
        "hibernate", "stop", "resetQueue", "hibernateQueue"} \cap SmartWaits = {}
    /\ {D_TIMED_ON, D_ALWAYS_ON, D_AUTO_OFF, D_AUTO_ON} \subseteq ChargingStates
  BY DEF SmartStates, SmartWaits, ChargingStates, AutoStates, D_STARTUP, D_STANDBY,
         D_TIMED_ON, D_AUTO_OFF, D_AUTO_ON, D_ALWAYS_ON, D_SLEEPING, D_CHARGED_ON,
         D_CHARGED_ON_USBC, D_GOTOSTANDBY, D_GOTOTIMED_ON, D_GOTOAUTO, D_GOTOALWAYS_ON,
         D_GOTOSLEEP, D_GOTOCHARGED_ON, D_GOTOCHARGED_ON_USBC, D_CHARGED_ON_AUTO,
         D_CHARGED_ON_USBC_AUTO, D_RESTART, D_GOTOCHARGED_ON_AUTO,
         D_GOTOCHARGED_ON_USBC_AUTO, D_WEBOUCAEXIT, D_WEBGOTORESTART,
         D_WEBGOTOHARDRESTART, D_WEBGOTOSTANDBY, D_WEBGOTOHIBERNATE, D_WEBGOTOAUTO,
         D_WEBGOTOCHARGED, D_WEBGOTOON, D_WEBGOTOTIMED, D_WEBOUCAUTO,
         D_WEBGOTOCHARGEDUSBC

(* What the controllers do to a block keeps it plain: to forget a session  *)
(* or to note the cause of a sleep.                                        *)
LEMMA PlainCauses ==
    ASSUME NEW p \in Params, Plain(p), NEW c
    PROVE /\ Plain(WithMinutes(p, -1, c)) /\ Plain(WithSession(p, D_STANDBY, -1, c))
          /\ Plain(WithoutResumeData(p)) /\ Plain([p EXCEPT !.resumeCause = c])
<1>1. /\ Plain(WithMinutes(p, -1, c)) /\ Plain(WithSession(p, D_STANDBY, -1, c))
      /\ Plain(WithoutResumeData(p))
  BY WrittenFields, PlainStates DEF Plain, Resumable, WithoutResumeData
<1>2. Plain([p EXCEPT !.resumeCause = c])
  <2>1. /\ [p EXCEPT !.resumeCause = c].resumeState = p.resumeState
        /\ [p EXCEPT !.resumeCause = c].resumeMinutes = p.resumeMinutes
        /\ [p EXCEPT !.resumeCause = c].isOUCMonitoring = p.isOUCMonitoring
    BY DEF Params
  <2> QED
    BY <2>1, Zenon DEF Plain, Resumable
<1> QED
  BY <1>1, <1>2

(* To switch automatic control. *)
LEMMA PlainAuto ==
    ASSUME NEW p \in Params, Plain(p), NEW b
    PROVE Plain([p EXCEPT !.isAuto = b])
<1>1. /\ [p EXCEPT !.isAuto = b].resumeState = p.resumeState
      /\ [p EXCEPT !.isAuto = b].resumeMinutes = p.resumeMinutes
      /\ [p EXCEPT !.isAuto = b].isOUCMonitoring = p.isOUCMonitoring
  BY DEF Params
<1> QED
  BY <1>1, Zenon DEF Plain, Resumable

(* And to suspend a session, with its run state or in the heat.            *)
LEMMA PlainSessions ==
    ASSUME NEW p \in Params, Plain(p), NEW m \in Int, NEW c
    PROVE /\ \A s \in {D_TIMED_ON, D_ALWAYS_ON, D_AUTO_OFF, D_AUTO_ON} :
                 Plain(WithSession(p, s, m, c))
          /\ "hot" \in Temperatures => Plain(WithMinutes(p, m, c))
  BY WrittenFields, PlainStates DEF Plain, Resumable

(* The default block stores no session.                                    *)
LEMMA PlainDefaults ==
    Plain(DefaultParams) /\ \A c : Plain([DefaultParams EXCEPT !.resumeCause = c])
  BY PlainStates DEF DefaultParams, Plain, Resumable

(* A step that leaves run state and wait plain and the block alone.        *)
LEMMA PlainUnchanged ==
    ASSUME PlainInv, UNCHANGED <<paramVars, heatVars>>, relays' => relays,
           runState' \notin SmartStates, busy' \notin SmartWaits
    PROVE PlainStep
<1>1. Plain(param') /\ eeprom' = eeprom /\ isOverheated' = isOverheated
  BY DEF PlainInv, paramVars, heatVars
<1> QED
  BY <1>1 DEF PlainInv, PlainStep

(* A reset reads what is stored and leaves the outlets off.                *)
LEMMA PlainBooted ==
    ASSUME PlainInv, Booted
    PROVE PlainStep
  BY PlainStates DEF PlainInv, PlainStep, Booted, TypeOK, OutletsOK

(* A hot board is one of a run with such temperatures. *)
LEMMA PlainHeat ==
    ASSUME PlainInv
    PROVE OverheatedNow => "hot" \in Temperatures
  BY DEF PlainInv, OverheatedNow, BecomesOverheated, TypeOK, SurroundingsOK

(* Startup, standby and sleep; what is resumed is plain. *)
LEMMA PlainStandbyAndSleep ==
    ASSUME NoSmartCharging, PlainInv, StandbyAndSleepPass
    PROVE PlainStep
<1>t. param \in Params /\ relays \in BOOLEAN
  BY DEF PlainInv, TypeOK, StoreOK, OutletsOK
<1>1. CASE startupController
  <2>1. powerOnStateSelection(PowerOnState, param.resumeState)
            \in {D_GOTOSTANDBY, D_GOTOTIMED_ON, D_GOTOALWAYS_ON, D_GOTOAUTO}
    BY SettingsAssumption
    DEF PlainInv, Plain, SmartStates, SmartACStates, SmartUSBCStates,
        NoSmartCharging, powerOnStateSelection, LastStateSelection
  <2> QED
    BY <1>1, <2>1, PlainStates
    DEF startupController, Pass, putParameters, PlainInv, PlainStep, heatVars, relayVars
<1>2. CASE restartController
  <2>1. CASE Booted
    BY <2>1, PlainBooted
  <2>2. CASE ~Booted
    BY <1>2, <2>2, PlainUnchanged DEF restartController, relayVars, PlainInv
  <2> QED
    BY <2>1, <2>2
<1>3. CASE goToStandbyController
  <2>1. /\ runState' \in {D_GOTOSLEEP, D_STANDBY}
        /\ UNCHANGED <<busy, relays, heatVars>>
    BY <1>3 DEF goToStandbyController
  <2>2. \/ UNCHANGED paramVars
        \/ param' = WithMinutes(param, -1, 0) /\ eeprom' = param'
    BY <1>3 DEF goToStandbyController, putParameters
  <2>3. Plain(param') /\ eeprom' \in {eeprom, param'}
    BY <1>t, <2>2, PlainCauses DEF PlainInv, paramVars
  <2>4. runState' \notin SmartStates /\ busy' \notin SmartWaits
    BY <2>1, PlainStates DEF PlainInv
  <2> QED
    BY <2>1, <2>3, <2>4 DEF PlainInv, PlainStep, heatVars
<1>4. CASE standbyController
  <2>1. /\ runState' \in {D_GOTOSLEEP, runState}
        /\ isOverheated' \in {isOverheated, OverheatedNow}
        /\ UNCHANGED <<busy, relays>>
    BY <1>4 DEF standbyController, heatVars
  <2>2. \/ UNCHANGED paramVars
        \/ param' = WithSession(param, D_STANDBY, -1, RESUME_MAINS_OFF) /\ eeprom' = param'
    BY <1>4 DEF standbyController, putParameters
  <2>3. Plain(param') /\ eeprom' \in {eeprom, param'}
    BY <1>t, <2>2, PlainCauses DEF PlainInv, paramVars
  <2>4. runState' \notin SmartStates /\ busy' \notin SmartWaits
    BY <2>1, PlainStates DEF PlainInv
  <2> QED
    BY <2>1, <2>3, <2>4, PlainHeat DEF PlainInv, PlainStep
<1>5. CASE goToSleepController
  BY <1>5, PlainUnchanged, PlainStates DEF goToSleepController, PlainInv
<1>6. CASE sleepingController
  <2>1. /\ busy' \in {busy, "queue"} /\ UNCHANGED <<relays, heatVars, eeprom>>
        /\ runState' \in {runState, eeprom.resumeState} /\ param' \in {param, eeprom}
    BY <1>6 DEF sleepingController, helperAfterSleep, paramVars
  <2> QED
    BY <2>1, PlainStates DEF PlainInv, PlainStep, Plain, heatVars
<1>7. CASE SleepQueueDone
  <2>1. /\ busy' \in {"confirm", "wake"} /\ UNCHANGED <<runState, relays, heatVars>>
    BY <1>7 DEF SleepQueueDone, relayVars
  <2>2. \/ UNCHANGED paramVars
        \/ param' = [param EXCEPT !.resumeCause = RESUME_MAINS_OFF] /\ eeprom' = param'
    BY <1>7 DEF SleepQueueDone, putParameters
  <2>3. Plain(param') /\ eeprom' \in {eeprom, param'}
    BY <1>t, <2>2, PlainCauses DEF PlainInv, paramVars
  <2>4. runState' \notin SmartStates /\ busy' \notin SmartWaits
    BY <2>1, PlainStates DEF PlainInv
  <2> QED
    BY <2>1, <2>3, <2>4 DEF PlainInv, PlainStep, heatVars
<1>8. CASE SleepConfirm
  BY <1>8, PlainUnchanged, PlainStates DEF SleepConfirm, PlainInv, relayVars
<1>9. CASE SleepWake
  <2>1. /\ busy' \in {"no", "stop"} /\ UNCHANGED <<relays, heatVars>>
        /\ runState' \in {runState, param.resumeState, D_GOTOSTANDBY}
    BY <1>9 DEF SleepWake, ResumeOrStandby
  <2>2. \/ UNCHANGED paramVars
        \/ /\ param' = [param EXCEPT !.resumeCause = RESTART_DEEP_POWER_DOWN]
           /\ eeprom' = param'
    BY <1>9 DEF SleepWake, putParameters
  <2>3. runState' \notin SmartStates
    BY <2>1, PlainStates DEF PlainInv, Plain
  <2>4. Plain(param') /\ eeprom' \in {eeprom, param'}
    BY <1>t, <2>2, PlainCauses DEF PlainInv, paramVars
  <2>5. busy' \notin SmartWaits
    BY <2>1, PlainStates DEF PlainInv
  <2> QED
    BY <2>1, <2>3, <2>4, <2>5 DEF PlainInv, PlainStep, heatVars
<1>10. CASE SleepStopped
  <2>1. /\ busy' = "no" /\ UNCHANGED <<relays, heatVars, paramVars>>
        /\ runState' \in {runState, param.resumeState, D_GOTOSTANDBY}
    BY <1>10 DEF SleepStopped, ResumeOrStandby
  <2> QED
    BY <2>1, PlainUnchanged, PlainStates DEF PlainInv, Plain
<1>11. CASE SleepBooted
  BY <1>11, PlainBooted DEF SleepBooted
<1> QED
  BY <1>1, <1>2, <1>3, <1>4, <1>5, <1>6, <1>7, <1>8, <1>9, <1>10, <1>11
  DEF StandbyAndSleepPass

(* Timed and continuous charging look at the temperature before they       *)
(* switch on.                                                              *)
LEMMA PlainTimedAndContinuous ==
    ASSUME PlainInv, TimedAndContinuousPass
    PROVE PlainStep
<1>t. param \in Params /\ relays \in BOOLEAN /\ timerMins \in Int /\ chargeMins \in Int
  BY DEF PlainInv, TypeOK, StoreOK, OutletsOK, MinutesOK
<1>m. TimedMinutes \in Int /\ OnMinutes \in Int
  BY <1>t DEF TimedMinutes, OnMinutes, Counted
<1>1. CASE goToTimedOnController
  BY <1>1, PlainUnchanged, PlainStates DEF goToTimedOnController, PlainInv
<1>2. CASE timedOnController
  <2>1. runState = D_TIMED_ON /\ isOverheated' = OverheatedNow /\ busy = "no"
    BY <1>2 DEF timedOnController, Pass
  <2>2. CASE TimedOnStarts
    <3>1. /\ ~OverheatedNow /\ relays' /\ busy' = "timed" /\ runState' = runState
      BY <2>2 DEF TimedOnStarts, TimedCanStart, ACRelaysOn
    <3>2. \/ UNCHANGED paramVars
          \/ param' = WithoutResumeData(param) /\ eeprom' = param'
      BY <2>2 DEF TimedOnStarts, helperCleanUpResumeData, putParameters
    <3> QED
      BY <1>t, <2>1, <3>1, <3>2, PlainStates, PlainCauses, PlainSessions
      DEF PlainInv, PlainStep, paramVars
  <2>3. CASE TimedOnContinues
    <3>1. /\ runState' \in {D_GOTOSLEEP, D_GOTOSTANDBY, D_TIMED_ON} /\ busy' = busy
          /\ eeprom' \in {eeprom, param'} /\ relays' \in {FALSE, relays}
      BY <2>1, <2>3 DEF TimedOnContinues, putParameters, ACRelaysOff, RelaysUntouched
    <3>2. \/ param' = param
          \/ param' = WithSession(param, D_TIMED_ON, TimedMinutes, RESUME_MAINS_OFF)
          \/ param' = WithMinutes(param, TimedMinutes, RESUME_OVERHEAT) /\ OverheatedNow
          \/ param' = WithMinutes(param, -1, 0)
      BY <2>3 DEF TimedOnContinues
    <3>3. Plain(param')
      BY <1>t, <1>m, <3>2, PlainCauses, PlainSessions, PlainHeat DEF PlainInv
    <3>4. runState' \notin SmartStates /\ busy' \notin SmartWaits
      BY <2>1, <3>1, PlainStates DEF PlainInv
    <3>5. relays' => relays
      BY <3>1
    <3> QED
      BY <2>1, <3>1, <3>3, <3>4, <3>5, PlainHeat DEF PlainInv, PlainStep
  <2> QED
    BY <1>2, <2>2, <2>3 DEF timedOnController
<1>3. CASE goToOnController
  BY <1>3, PlainUnchanged, PlainStates DEF goToOnController, PlainInv
<1>4. CASE onController
  <2>1. runState = D_ALWAYS_ON /\ isOverheated' = OverheatedNow /\ busy = "no"
    BY <1>4 DEF onController, Pass
  <2>2. CASE OnStarts
    <3>1. /\ ~OverheatedNow /\ relays' /\ busy' = "on" /\ runState' = runState
      BY <2>2 DEF OnStarts, OnCanStart, ACRelaysOn
    <3>2. \/ UNCHANGED paramVars
          \/ param' = WithoutResumeData(param) /\ eeprom' = param'
      BY <2>2 DEF OnStarts, helperCleanUpResumeData, putParameters
    <3> QED
      BY <1>t, <2>1, <3>1, <3>2, PlainStates, PlainCauses, PlainSessions
      DEF PlainInv, PlainStep, paramVars
  <2>3. CASE OnContinues
    <3>1. /\ runState' \in {D_GOTOSLEEP, D_GOTOSTANDBY, D_ALWAYS_ON} /\ busy' = busy
          /\ eeprom' \in {eeprom, param'} /\ relays' \in {FALSE, relays}
      BY <2>1, <2>3 DEF OnContinues, putParameters, ACRelaysOff, RelaysUntouched
    <3>2. \/ param' = param
          \/ param' = WithSession(param, D_ALWAYS_ON, OnMinutes, RESUME_MAINS_OFF)
          \/ param' = WithMinutes(param, OnMinutes, RESUME_OVERHEAT) /\ OverheatedNow
      BY <2>3 DEF OnContinues
    <3>3. Plain(param')
      BY <1>t, <1>m, <3>2, PlainCauses, PlainSessions, PlainHeat DEF PlainInv
    <3>4. runState' \notin SmartStates /\ busy' \notin SmartWaits
      BY <2>1, <3>1, PlainStates DEF PlainInv
    <3>5. relays' => relays
      BY <3>1
    <3> QED
      BY <2>1, <3>1, <3>3, <3>4, <3>5, PlainHeat DEF PlainInv, PlainStep
  <2> QED
    BY <1>4, <2>2, <2>3 DEF onController
<1>5. CASE TimedOrOnStarted
  BY <1>5, PlainUnchanged, PlainStates DEF TimedOrOnStarted, PlainInv
<1> QED
  BY <1>1, <1>2, <1>3, <1>4, <1>5 DEF TimedAndContinuousPass

(* Automatic charging: what it stores is its own run state.                *)
LEMMA PlainAutoSaves ==
    ASSUME NEW p \in Params, Plain(p), chargeMins \in Int, NEW c, NEW b \in BOOLEAN
    PROVE Plain(AutoSuspended(p, c, b)) /\ Plain(AutoAsleep(p, b))
<1>1. Plain(AutoSuspended(p, c, b))
  <2>1. PICK q : q = [p EXCEPT !.isAuto = p.isAuto /\ ~b]
    OBVIOUS
  <2>2. Plain(q) /\ q \in Params
    <3>1. q \in Params
      BY <2>1, Zenon DEF Params
    <3> QED
      BY <2>1, <3>1, PlainAuto
  <2> QED
    BY <2>1, <2>2, PlainSessions DEF AutoSuspended
<1>2. Plain(AutoAsleep(p, b))
  BY PlainSessions, PlainStates, ParamsFields, WrittenFields DEF AutoAsleep, Plain, Resumable
<1> QED
  BY <1>1, <1>2

(* The schedule switches the outlets on when the board is cool.            *)
LEMMA PlainAutoSchedule ==
    ASSUME PlainInv, AutoSchedulePass
    PROVE PlainStep
<1>t. param \in Params /\ relays \in BOOLEAN /\ chargeMins \in Int
  BY DEF PlainInv, TypeOK, StoreOK, OutletsOK, MinutesOK
<1>1. ~checkScheduledStartUntilCharged
  BY DEF checkScheduledStartUntilCharged, ScheduledStart, ScheduleOver, ScheduleClock,
         StartIsDue, ScheduledCheckRuns, PlainInv, Plain
<1>2. CASE goToAutoController
  BY <1>2, PlainUnchanged, PlainStates DEF goToAutoController, PlainInv, relayVars
<1>3. CASE autoController
  <2>1. runState \in {D_AUTO_OFF, D_AUTO_ON} /\ busy = "no"
    BY <1>3 DEF autoController, AutoStates, Pass
  <2>2. CASE (AutoExpires \/ AutoTimeInvalid) /\ UNCHANGED isOverheated
    <3>1. /\ runState' \in {runState, D_GOTOSTANDBY} /\ relays' \in {FALSE, relays}
          /\ UNCHANGED <<busy, paramVars, heatVars>>
      BY <2>2 DEF AutoExpires, AutoTimeInvalid, ACRelaysOff, RelaysUntouched, heatVars
    <3>2. runState' \notin SmartStates /\ busy' \notin SmartWaits
      BY <2>1, <3>1, PlainStates
    <3>3. relays' => relays
      BY <3>1
    <3> QED
      BY <3>1, <3>2, <3>3, PlainUnchanged
  <2>3. CASE AutoStarts /\ isOverheated' = OverheatedNow
    <3>1. /\ runState' = D_AUTO_ON /\ busy' = "auto" /\ ~isOverheated'
      BY <2>3 DEF AutoStarts, ACRelaysOn, AutoCanRun
    <3>2. \/ UNCHANGED paramVars
          \/ param' = WithoutResumeData(param) /\ eeprom' = param'
      BY <2>3 DEF AutoStarts, AutoResumes, helperCleanUpResumeData, putParameters
    <3>3. Plain(param') /\ eeprom' \in {eeprom, param'}
      BY <1>t, <3>2, PlainCauses DEF PlainInv, paramVars
    <3> QED
      BY <3>1, <3>3, PlainStates DEF PlainStep
  <2>4. CASE AutoIdles /\ isOverheated' = OverheatedNow
    <3>1. /\ runState' = D_AUTO_OFF /\ busy' = busy /\ relays' \in {FALSE, relays}
      BY <2>4 DEF AutoIdles, ACRelaysOff, RelaysUntouched
    <3>2. \/ UNCHANGED paramVars
          \/ param' = WithoutResumeData(param) /\ eeprom' = param'
      BY <2>4 DEF AutoIdles, AutoResumes, helperCleanUpResumeData, putParameters
    <3>3. Plain(param') /\ eeprom' \in {eeprom, param'}
      BY <1>t, <3>2, PlainCauses DEF PlainInv, paramVars
    <3>4. runState' \notin SmartStates /\ busy' \notin SmartWaits
      BY <2>1, <3>1, PlainStates
    <3>5. relays' => relays
      BY <3>1
    <3> QED
      BY <2>4, <3>3, <3>4, <3>5, PlainHeat DEF PlainInv, PlainStep
  <2>5. CASE AutoContinues /\ isOverheated' = OverheatedNow
    <3>1. /\ runState' \in {D_GOTOSLEEP, D_AUTO_OFF, runState} /\ busy' = busy
          /\ relays' \in {FALSE, relays} /\ eeprom' \in {eeprom, param'}
      BY <2>5 DEF AutoContinues, ACRelaysOff, RelaysUntouched, putParameters
    <3>2. PICK hot : hot = IF OverheatedNow /\ ~WasOverheatedNow
                           THEN AutoSuspended(param, RESUME_OVERHEAT, TRUE) ELSE param
      OBVIOUS
    <3>3. hot \in Params /\ Plain(hot)
      BY <1>t, <3>2, PlainAutoSaves, AutoSaves, ConstantNumbers DEF PlainInv
    <3>4. \/ param' = AutoSuspended(hot, RESUME_MAINS_OFF,
                          WasOverheatedNow \/ (OverheatedNow /\ ~WasOverheatedNow))
          \/ param' = AutoAsleep(hot, sched = "on")
          \/ param' = hot
      BY <2>5, <3>2 DEF AutoContinues
    <3>5. Plain(param')
      <4>1. (sched = "on") \in BOOLEAN
            /\ (WasOverheatedNow \/ (OverheatedNow /\ ~WasOverheatedNow)) \in BOOLEAN
        BY HeatFlags
      <4> QED
        BY <1>t, <3>3, <3>4, <4>1, PlainAutoSaves
    <3>6. runState' \notin SmartStates /\ busy' \notin SmartWaits
      BY <2>1, <3>1, PlainStates
    <3>7. relays' => relays
      BY <3>1
    <3> QED
      BY <2>5, <3>1, <3>5, <3>6, <3>7, PlainHeat DEF PlainInv, PlainStep
  <2> QED
    BY <1>3, <2>2, <2>3, <2>4, <2>5 DEF autoController
<1>4. CASE AutoStarted
  BY <1>4, PlainUnchanged, PlainStates DEF AutoStarted, PlainInv
<1> QED
  BY <1>1, <1>2, <1>3, <1>4 DEF AutoSchedulePass

(* No smart charging controller has anything to do.                        *)
LEMMA PlainSmartCharging == ASSUME PlainInv PROVE ~SmartChargingPass
<1> USE DEF PlainInv, Pass, SmartStates, SmartWaits
<1>1. ~goToChargedOnAutoController /\ ~goToChargedOnUSBCAutoController
  BY DEF goToChargedOnAutoController, goToChargedOnUSBCAutoController, GoToSmart
<1>2. ~chargedOnController /\ ~chargedOnUSBCController
  BY DEF chargedOnController, chargedOnUSBCController, SmartACStates, SmartUSBCStates
<1>3. ~SmartStarted /\ ~SmartStartedAgain
  BY DEF SmartStarted, SmartStartedAgain
<1> QED
  BY <1>1, <1>2, <1>3 DEF SmartChargingPass

-----------------------------------------------------------------------------
(* Commands: none asks for a smart charge.                                 *)
LEMMA PlainCommands ==
    ASSUME NoSmartCharging, PlainInv, remoteAdmin
    PROVE PlainStep
<1>1. UNCHANGED <<busy, relays, heatVars>>
  BY DEF remoteAdmin, relayVars
<1>2. CASE StandbyCommand
  BY <1>1, <1>2, PlainUnchanged, PlainStates DEF StandbyCommand, Accepted, PlainInv
<1>3. CASE \E c \in Commands \cap StandbyCommands : ActivityCommand(c)
  <2>1. PICK c \in {"rst", "hst", "tmc", "cnc", "hib"} : ActivityCommand(c)
    BY <1>3 DEF NoSmartCharging, StandbyCommands
  <2>2. Selected(c) \in {D_WEBGOTORESTART, D_WEBGOTOHARDRESTART, D_WEBGOTOTIMED,
                         D_WEBGOTOON, D_WEBGOTOHIBERNATE}
    BY DEF Selected
  <2>3. runState' = Selected(c) /\ UNCHANGED paramVars
    BY <2>1 DEF ActivityCommand, Accepted
  <2> QED
    BY <1>1, <2>2, <2>3, PlainUnchanged, PlainStates DEF PlainInv
<1>4. CASE AutoOnCommand
  <2>1. runState' = D_WEBGOTOAUTO /\ UNCHANGED paramVars
    BY <1>4 DEF AutoOnCommand, Accepted, NoSmartCharging
  <2> QED
    BY <1>1, <2>1, PlainUnchanged, PlainStates DEF PlainInv
<1>5. CASE AutoOffCommand
  <2>1. runState' = D_WEBGOTOSTANDBY
    BY <1>5 DEF AutoOffCommand, Accepted, NoSmartCharging
  <2>2. /\ param'.resumeState = param.resumeState
        /\ param'.resumeMinutes = param.resumeMinutes
        /\ ~param'.isOUCMonitoring /\ eeprom' = param'
    BY <1>5 DEF AutoOffCommand, putParameters, PlainInv, TypeOK, StoreOK, Params
  <2> QED
    BY <1>1, <2>1, <2>2, PlainStates DEF PlainInv, PlainStep, Plain, Resumable, heatVars
<1> QED
  BY <1>2, <1>3, <1>4, <1>5 DEF remoteAdmin

(* The controllers that carry the commands out.                            *)
LEMMA PlainWebCommands ==
    ASSUME PlainInv, WebCommandsPass
    PROVE PlainStep
<1>t. param \in Params /\ relays \in BOOLEAN
  BY DEF PlainInv, TypeOK, StoreOK, OutletsOK
<1>1. CASE StoppingController
  <2>1. /\ previousStateHandler(prevRunState) /\ UNCHANGED <<busy, heatVars>>
        /\ runState' \in {D_GOTOTIMED_ON, D_GOTOALWAYS_ON, D_GOTOAUTO, D_GOTOSTANDBY}
        /\ UNCHANGED paramVars \/ \E b \in BOOLEAN : SetAuto(b)
    BY <1>1 DEF StoppingController, webOUCAExitController, webGoToTimedController,
        webGoToOnController, webGoToAutoController, webGoToChargedController,
        webGoToStandbyController, PlainInv, Pass, SmartStates
  <2>2. relays' \in {FALSE, relays}
    BY <2>1 DEF previousStateHandler, ACRelaysOff, relayVars
  <2>3. Plain(param') /\ eeprom' \in {eeprom, param'}
    <3>1. CASE UNCHANGED paramVars
      BY <3>1 DEF PlainInv, paramVars
    <3>2. ASSUME NEW b \in BOOLEAN, SetAuto(b)
          PROVE Plain(param') /\ eeprom' \in {eeprom, param'}
      BY <1>t, <3>2, PlainAuto DEF SetAuto, PlainInv, putParameters
    <3> QED
      BY <2>1, <3>1, <3>2
  <2>4. runState' \notin SmartStates /\ busy' \notin SmartWaits
    BY <2>1, PlainStates DEF PlainInv
  <2>5. relays' => relays
    BY <2>2
  <2> QED
    BY <2>1, <2>3, <2>4, <2>5 DEF PlainInv, PlainStep, heatVars
<1>2. CASE /\ \/ webGoToOUCAutoController \/ webGoToRestartController
              \/ webGoToFactoryResetController \/ webGoToHibernateController \/ QueueDone
           /\ UNCHANGED <<relayVars, heatVars>>
  <2>1. ~webGoToOUCAutoController
    BY DEF webGoToOUCAutoController, PlainInv, Pass, SmartStates
  <2>2. /\ runState' \in {runState, D_RESTART}
        /\ busy' \in {busy, "no", "resetQueue", "hibernateQueue", "hibernate"}
    BY <1>2, <2>1 DEF webGoToRestartController, webGoToFactoryResetController,
        webGoToHibernateController, QueueDone
  <2>3. Plain(param') /\ eeprom' \in {eeprom, param'}
    <3>1. CASE webGoToFactoryResetController
      BY <3>1, PlainDefaults DEF webGoToFactoryResetController, putParameters
    <3>2. CASE webGoToRestartController
      BY <1>t, <3>2, PlainCauses DEF webGoToRestartController, putParameters, PlainInv
    <3>3. CASE webGoToHibernateController
      BY <1>t, <3>3, PlainCauses DEF webGoToHibernateController, putParameters, PlainInv
    <3>4. CASE QueueDone
      BY <3>4 DEF QueueDone, paramVars, PlainInv
    <3> QED
      BY <1>2, <2>1, <3>1, <3>2, <3>3, <3>4
  <2>4. runState' \notin SmartStates /\ busy' \notin SmartWaits
    BY <2>2, PlainStates DEF PlainInv
  <2> QED
    BY <1>2, <2>3, <2>4 DEF PlainInv, PlainStep, heatVars, relayVars
<1> QED
  BY <1>1, <1>2 DEF WebCommandsPass

(* The surroundings. *)
LEMMA PlainSurroundings ==
    ASSUME PlainInv, Surroundings
    PROVE PlainStep
<1>1. CASE Reset
  BY <1>1, PlainBooted DEF Reset
<1>2. CASE ~Reset
  <2>1. UNCHANGED <<runState, relays, heatVars, paramVars>>
    BY <1>2 DEF Surroundings, MainsFails, MainsReturns, TemperatureChanges,
           ScheduleMoves, CountdownMinute, ChargingMinute, ResetTimerExpires,
           SleepDelayPasses, deviceVars, relayVars
  <2>2. busy' \in {busy, "booting", "woken"}
    BY <1>2 DEF Surroundings, MainsFails, MainsReturns, TemperatureChanges,
           ScheduleMoves, CountdownMinute, ChargingMinute, ResetTimerExpires,
           SleepDelayPasses
  <2> QED
    BY <2>1, <2>2, PlainUnchanged, PlainStates DEF PlainInv
<1> QED
  BY <1>1, <1>2

-----------------------------------------------------------------------------
(* Every step is plain, and keeps the invariant.                           *)
LEMMA PlainNext ==
    ASSUME NoSmartCharging, PlainInv, [Next]_vars
    PROVE PlainInv' /\ PlainStep
<1>1. TypeOK'
  BY TypeStep DEF PlainInv
<1>2. PlainStep
  <2>1. CASE LoopPass
    BY <2>1, PlainStandbyAndSleep, PlainTimedAndContinuous, PlainAutoSchedule,
       PlainSmartCharging, PlainWebCommands
    DEF LoopPass
  <2>2. CASE UNCHANGED vars
    BY <2>2, PlainUnchanged DEF vars, relayVars, PlainInv
  <2> QED
    BY <2>1, <2>2, PlainCommands, PlainSurroundings DEF Next
<1>3. Plain(eeprom')
  BY <1>2 DEF PlainStep, PlainInv
<1>4. (Plain(param) /\ Plain(eeprom))'
  BY <1>2, <1>3 DEF PlainStep, Plain, Resumable
<1> QED
  BY <1>1, <1>2, <1>4 DEF PlainStep, PlainInv

(* It holds in every reachable state.                                      *)
LEMMA PlainInvariant == ASSUME NoSmartCharging PROVE Spec => []PlainInv
<1>1. Init => PlainInv
  BY PlainDefaults, PlainStates, TypeInit DEF Init, PlainInv
<1> QED
  BY <1>1, PlainNext, PTL DEF Spec

(* A stored session names an activity, so waking up, which makes its run   *)
(* state whatever is stored, resumes one: with timed, continuous and       *)
(* automatic charging, unless the board gets hot.                          *)
THEOREM PlainIsResumable ==
    ASSUME NoSmartCharging, "hot" \notin Temperatures
    PROVE Spec => []SavedIsResumable
<1>1. PlainInv => SavedIsResumable
  BY DEF PlainInv, Plain, Resumable, SavedIsResumable
<1> QED
  BY <1>1, PlainInvariant, PTL

(* Without smart charging, the overheat flag does what its comment says,   *)
(* however hot it gets: no step switches the outlets on under it, in the   *)
(* run states of OverheatedStaysOff or elsewhere (FlagKeepsOff).           *)
THEOREM PlainStaysOff ==
    ASSUME NoSmartCharging
    PROVE Spec => FlagKeepsOff /\ OverheatedStaysOff
<1> DEFINE Cool == ~relays /\ relays' => ~isOverheated'
           CoolIn == /\ ~relays /\ relays'
                     /\ runState' \in {D_TIMED_ON, D_ALWAYS_ON} \cup AutoStates
                     => ~isOverheated'
<1>1. PlainInv /\ [Next]_vars => PlainInv' /\ [Cool]_vars /\ [CoolIn]_vars
  BY PlainNext DEF PlainStep
<1>2. Init => PlainInv
  BY PlainDefaults, PlainStates, TypeInit DEF Init, PlainInv
<1> QED
  BY <1>1, <1>2, PTL DEF Spec, FlagKeepsOff, OverheatedStaysOff

-----------------------------------------------------------------------------
(* That a session is resumed once. Neither a stop command, which leaves    *)
(* its end mark to the next session, nor a factory reset, whose block may  *)
(* not be saved, and a mains that does not change between the supply       *)
(* checks of a sleep.                                                      *)
ResumingOnly ==
    /\ NoSmartCharging /\ Commands \cap {"stb", "hst"} = {} /\ Patient
    /\ {"queue", "confirm"} \subseteq SteadyWaits

Sessions == {D_TIMED_ON, D_ALWAYS_ON}
ToSleep == {D_GOTOSLEEP, D_SLEEPING}
OnceResumeStates == {D_STARTUP, D_STANDBY} \cup Sessions \cup AutoStates
OnceRequests ==
    {D_WEBGOTOTIMED, D_WEBGOTOON, D_WEBGOTOAUTO, D_WEBGOTOSTANDBY, D_WEBGOTORESTART,
     D_WEBGOTOHIBERNATE}
OnceRunStates ==
    OnceResumeStates \cup ToSleep \cup OnceRequests
        \cup {D_RESTART, D_GOTOSTANDBY, D_GOTOTIMED_ON, D_GOTOALWAYS_ON, D_GOTOAUTO}
OnceWaits == {"no", "timed", "on", "auto", "queue", "confirm", "hibernate",
              "hibernateQueue", "booting"}

(* The stored block, and the one in RAM; and a block that a session whose  *)
(* end mark is left would not be resumed from.                             *)
Stored(p) ==
    p.resumeState \in OnceResumeStates /\ p.resumeMinutes >= -1 /\ ~p.isOUCMonitoring
NotTimed(p) == p.resumeMinutes = -1 \/ p.resumeState # D_TIMED_ON
NoMinutes == param.resumeMinutes = -1 /\ eeprom.resumeMinutes = -1

(* Blocks that differ in causes and settings only.                         *)
Alike(p, q) ==
    /\ q.resumeState = p.resumeState /\ q.resumeMinutes = p.resumeMinutes
    /\ ~q.isOUCMonitoring

(* The inductive invariant. A session that starts finds the minutes in RAM *)
(* and clears them in the store with them, so the store may have none that *)
(* RAM has not (OnceStoreInv). Only the end of a timed session clears RAM  *)
(* alone: then the store must have none, whether a minute has ended it     *)
(* (OnceCountInv) or a mark that it found (OnceEndInv). Both go through    *)
(* sleep, into which a session resumed in the heat may go with its outlets *)
(* on, its loss being stamped already (OnceStampInv).                      *)
OnceRunInv ==
    /\ runState \in OnceRunStates /\ busy \in OnceWaits
    /\ busy \in {"queue", "confirm"} => ~mains /\ runState = D_SLEEPING
    /\ runState \in WebStates => prevRunState # D_TIMED_ON
OnceStoreInv ==
    /\ Stored(param) /\ Stored(eeprom)
    /\ eeprom.resumeMinutes >= 0 => param.resumeMinutes >= 0
OnceCountInv ==
    /\ countdown => ~istimerCountdown_ended
    /\ countdown \/ isUpdateCountdown
       => /\ NoMinutes /\ runState \in {D_TIMED_ON} \cup ToSleep
          /\ runState # D_TIMED_ON
             => {param.resumeState, eeprom.resumeState} \subseteq {D_STARTUP, D_TIMED_ON}
OnceStampInv ==
    runState = D_TIMED_ON /\ mainsofftime # "zero"
    => {param.resumeState, eeprom.resumeState} \subseteq {D_STARTUP, D_TIMED_ON}
OnceEndInv ==
    istimerCountdown_ended
    => /\ NotTimed(param) /\ NotTimed(eeprom)
       /\ runState = D_TIMED_ON => eeprom.resumeMinutes = -1
       /\ runState = D_ALWAYS_ON => param.resumeState # D_TIMED_ON
OnceOutletsInv ==
    relays
    => /\ runState \in Sessions \cup AutoStates \cup ToSleep \cup {D_WEBGOTOSTANDBY}
       /\ runState \in Sessions => NoMinutes
       /\ runState \in ToSleep
          => NoMinutes \/ {param.resumeState, eeprom.resumeState} \subseteq AutoStates
       /\ runState = D_WEBGOTOSTANDBY => prevRunState \in AutoStates
OnceKept ==
    /\ OnceRunInv /\ OnceStoreInv /\ OnceCountInv /\ OnceStampInv /\ OnceEndInv
    /\ OnceOutletsInv
OnceInv == TypeOK /\ OnceKept

-----------------------------------------------------------------------------
(* Which run states these are, and are not.                                *)
LEMMA OnceStates ==
    /\ {D_CHARGED_ON, D_CHARGED_ON_USBC, D_GOTOCHARGED_ON, D_GOTOCHARGED_ON_USBC,
        D_CHARGED_ON_AUTO, D_CHARGED_ON_USBC_AUTO, D_WEBOUCAEXIT, D_WEBGOTOCHARGED,
        D_WEBOUCAUTO, D_GOTOCHARGED_ON_AUTO, D_GOTOCHARGED_ON_USBC_AUTO,
        D_WEBGOTOHARDRESTART, D_WEBGOTOCHARGEDUSBC} \cap OnceRunStates = {}
    /\ Sessions \cup AutoStates \cup ToSleep \cup OnceRequests
            \cup {D_STARTUP, D_STANDBY, D_RESTART, D_GOTOSTANDBY, D_GOTOTIMED_ON,
                  D_GOTOALWAYS_ON, D_GOTOAUTO} = OnceRunStates
    /\ OnceResumeStates \subseteq OnceRunStates
    /\ OnceRunStates \cap WebStates = OnceRequests
    /\ (Sessions \cup AutoStates)
            \cap (ToSleep \cup OnceRequests
                  \cup {D_STARTUP, D_STANDBY, D_RESTART, D_GOTOSTANDBY, D_GOTOTIMED_ON,
                        D_GOTOALWAYS_ON, D_GOTOAUTO}) = {}
    /\ Sessions \cap AutoStates = {} /\ D_TIMED_ON # D_ALWAYS_ON
    /\ ToSleep \cap (OnceRequests
                     \cup {D_STARTUP, D_STANDBY, D_RESTART, D_GOTOSTANDBY,
                           D_GOTOTIMED_ON, D_GOTOALWAYS_ON, D_GOTOAUTO}) = {}
    /\ D_GOTOSLEEP # D_SLEEPING
    /\ OnceRequests \cap {D_STARTUP, D_STANDBY, D_RESTART, D_GOTOSTANDBY,
                          D_GOTOTIMED_ON, D_GOTOALWAYS_ON, D_GOTOAUTO} = {}
    /\ D_WEBGOTOSTANDBY \notin {D_WEBGOTOTIMED, D_WEBGOTOON, D_WEBGOTOAUTO,
                                D_WEBGOTORESTART, D_WEBGOTOHIBERNATE}
    /\ D_TIMED_ON \notin {D_WEBGOTOTIMED, D_WEBGOTOON, AUTOANDOFF}
  BY DEF OnceRunStates, OnceResumeStates, OnceRequests, Sessions, ToSleep, AutoStates,
         D_STARTUP, D_STANDBY, D_TIMED_ON, AUTOANDOFF,
         D_AUTO_OFF, D_AUTO_ON, D_ALWAYS_ON, D_SLEEPING, D_CHARGED_ON, D_CHARGED_ON_USBC,
         D_GOTOSTANDBY, D_GOTOTIMED_ON, D_GOTOAUTO, D_GOTOALWAYS_ON, D_GOTOSLEEP,
         D_GOTOCHARGED_ON, D_GOTOCHARGED_ON_USBC, D_CHARGED_ON_AUTO,
         D_CHARGED_ON_USBC_AUTO, D_RESTART, D_GOTOCHARGED_ON_AUTO,
         D_GOTOCHARGED_ON_USBC_AUTO, D_WEBOUCAEXIT, D_WEBGOTORESTART,
         D_WEBGOTOHARDRESTART, D_WEBGOTOSTANDBY, D_WEBGOTOHIBERNATE, D_WEBGOTOAUTO,
         D_WEBGOTOCHARGED, D_WEBGOTOON, D_WEBGOTOTIMED, D_WEBOUCAUTO,
         D_WEBGOTOCHARGEDUSBC, WebStates

(* The run states no command selects.                                      *)
OnceQuiet ==
    {D_STARTUP, D_STANDBY, D_RESTART, D_GOTOSTANDBY, D_GOTOTIMED_ON, D_GOTOALWAYS_ON,
     D_GOTOAUTO} \cup Sessions \cup AutoStates \cup ToSleep
LEMMA OnceQuietStates ==
    \A s \in OnceQuiet : s \in OnceRunStates /\ s \notin WebStates
  BY OnceStates
  DEF OnceQuiet, OnceRunStates, OnceResumeStates, OnceRequests, Sessions, ToSleep, AutoStates,
         D_STARTUP, D_STANDBY, D_TIMED_ON, D_AUTO_OFF, D_AUTO_ON, D_ALWAYS_ON, D_SLEEPING,
         D_GOTOSTANDBY, D_GOTOTIMED_ON, D_GOTOAUTO, D_GOTOALWAYS_ON, D_GOTOSLEEP,
         D_RESTART, D_WEBOUCAEXIT, D_WEBGOTORESTART,
         D_WEBGOTOHARDRESTART, D_WEBGOTOSTANDBY, D_WEBGOTOHIBERNATE, D_WEBGOTOAUTO,
         D_WEBGOTOCHARGED, D_WEBGOTOON, D_WEBGOTOTIMED, D_WEBOUCAUTO,
         D_WEBGOTOCHARGEDUSBC, WebStates

(* The states a stored session is resumed in.                              *)
LEMMA OnceResumes ==
    /\ \A s \in OnceResumeStates :
          s > D_STANDBY <=> s \in Sessions \cup AutoStates
    /\ D_STARTUP \in OnceResumeStates /\ D_STANDBY \in OnceResumeStates
    /\ Sessions \subseteq OnceResumeStates /\ AutoStates \subseteq OnceResumeStates
    /\ D_TIMED_ON \in Sessions /\ D_ALWAYS_ON \in Sessions
    /\ D_STARTUP # D_TIMED_ON /\ D_STANDBY # D_TIMED_ON /\ D_TIMED_ON \notin AutoStates
  BY DEF OnceResumeStates, Sessions, AutoStates, D_STARTUP, D_STANDBY, D_TIMED_ON,
         D_AUTO_OFF, D_AUTO_ON, D_ALWAYS_ON

(* A session is not asleep, nor being stopped.                             *)
LEMMA SessionRuns ==
    \A s \in Sessions : s \notin ToSleep \cup AutoStates /\ s # D_WEBGOTOSTANDBY
  BY DEF Sessions, ToSleep, AutoStates, D_TIMED_ON, D_ALWAYS_ON, D_AUTO_ON, D_AUTO_OFF,
         D_GOTOSLEEP, D_SLEEPING, D_WEBGOTOSTANDBY

(* What is written keeps a block a stored one.                             *)
LEMMA OnceSessions ==
    ASSUME NEW p \in Params, Stored(p), NEW s \in OnceResumeStates, NEW m \in Int,
           m >= -1, NEW c
    PROVE /\ Stored(WithSession(p, s, m, c))
          /\ WithSession(p, s, m, c).resumeState = s
          /\ WithSession(p, s, m, c).resumeMinutes = m
  BY WrittenFields DEF Stored

(* And minutes that are written alone.                                     *)
LEMMA OnceMinutes ==
    ASSUME NEW p \in Params, Stored(p), NEW m \in Int, m >= -1, NEW c
    PROVE /\ Stored(WithMinutes(p, m, c))
          /\ WithMinutes(p, m, c).resumeState = p.resumeState
          /\ WithMinutes(p, m, c).resumeMinutes = m
  BY WrittenFields DEF Stored

(* A new cause changes nothing that matters.                               *)
LEMMA OnceCauses ==
    ASSUME NEW p \in Params, Stored(p), NEW c
    PROVE Alike(p, [p EXCEPT !.resumeCause = c])
  BY DEF Stored, Alike, Params

(* So does a session that is forgotten.                                    *)
LEMMA OnceCleaned ==
    ASSUME NEW p \in Params, Stored(p)
    PROVE /\ Stored(WithoutResumeData(p))
          /\ WithoutResumeData(p).resumeState = D_STARTUP
          /\ WithoutResumeData(p).resumeMinutes = -1
<1>1. -1 \in Int /\ -1 >= -1 /\ D_STARTUP \in OnceResumeStates
  BY OnceResumes
<1> QED
  BY <1>1, OnceSessions DEF WithoutResumeData

(* A step that only waits, or only moves the mains and the timers.         *)
LEMMA OnceSame ==
    ASSUME OnceInv, OnceRunInv',
           UNCHANGED <<runState, prevRunState, relays, paramVars, countdown,
                       istimerCountdown_ended>>,
           isUpdateCountdown' => countdown \/ isUpdateCountdown,
           mainsofftime' # "zero" => mainsofftime # "zero"
    PROVE OnceKept'
<1> USE DEF OnceInv, OnceKept, paramVars
<1>1. OnceStoreInv' /\ OnceStampInv' /\ OnceEndInv'
  BY DEF OnceStoreInv, Stored, OnceStampInv, OnceEndInv, NotTimed
<1>2. OnceCountInv' /\ OnceOutletsInv'
  BY DEF OnceCountInv, NoMinutes, OnceOutletsInv
<1> QED
  BY <1>1, <1>2

(* A step with the outlets off before and after and no session running,    *)
(* that leaves the blocks as they are, but for causes and settings.        *)
LEMMA OnceIdle ==
    ASSUME OnceInv, OnceRunInv', ~relays', runState' \notin Sessions,
           ~countdown /\ ~isUpdateCountdown,
           UNCHANGED <<countdown, isUpdateCountdown>>,
           istimerCountdown_ended' => istimerCountdown_ended,
           Alike(param, param'), Alike(param, eeprom') \/ eeprom' = eeprom
    PROVE OnceKept'
<1> USE DEF OnceInv, OnceKept, OnceStoreInv, Stored
<1>1. OnceStoreInv'
  BY DEF Alike
<1>2. OnceCountInv' /\ OnceStampInv' /\ OnceOutletsInv'
  BY OnceResumes DEF OnceCountInv, OnceStampInv, OnceOutletsInv
<1>3. OnceEndInv'
  BY OnceResumes DEF OnceEndInv, Alike, NotTimed
<1> QED
  BY <1>1, <1>2, <1>3

(* A step that leaves both blocks without minutes and runs no session.     *)
LEMMA OnceForgets ==
    ASSUME OnceInv, OnceRunInv', ~relays', runState' \notin Sessions,
           ~countdown' /\ ~isUpdateCountdown',
           Stored(param'), Stored(eeprom'),
           param'.resumeMinutes = -1, eeprom'.resumeMinutes = -1
    PROVE OnceKept'
<1>1. OnceStoreInv' /\ OnceCountInv' /\ OnceStampInv' /\ OnceEndInv' /\ OnceOutletsInv'
  BY OnceResumes
  DEF OnceStoreInv, Stored, OnceCountInv, OnceStampInv, OnceEndInv, NotTimed,
      OnceOutletsInv
<1> QED
  BY <1>1 DEF OnceKept

(* A reset reads what is stored.                                           *)
LEMMA OnceBooted ==
    ASSUME OnceInv, Booted
    PROVE OnceKept'
<1>1. /\ runState' = D_STARTUP /\ busy' = "no" /\ ~relays' /\ ~countdown'
      /\ ~isUpdateCountdown' /\ ~istimerCountdown_ended'
      /\ param' = eeprom /\ eeprom' = eeprom
  BY DEF Booted
<1>2. OnceStoreInv'
  BY <1>1 DEF OnceInv, OnceKept, OnceStoreInv, Stored
<1>3. OnceRunInv' /\ OnceCountInv' /\ OnceStampInv' /\ OnceEndInv' /\ OnceOutletsInv'
  BY <1>1, OnceStates, OnceResumes
  DEF OnceRunInv, OnceWaits, OnceCountInv, OnceStampInv, OnceEndInv, OnceOutletsInv,
      OnceRequests, Sessions
<1> QED
  BY <1>2, <1>3 DEF OnceKept

-----------------------------------------------------------------------------
(* Startup, standby and sleep: what is resumed is what is stored.          *)
LEMMA OnceStandbyAndSleep ==
    ASSUME ResumingOnly, OnceInv, StandbyAndSleepPass
    PROVE OnceKept'
<1> USE OnceStates, OnceResumes
    DEF OnceInv, OnceKept, OnceRunInv, OnceWaits, Sessions, ToSleep, OnceRequests,
        relayVars, countdownVars, paramVars, envVars, putParameters, Pass
<1>t. /\ param \in Params /\ eeprom \in Params /\ Stored(param) /\ Stored(eeprom)
      /\ relays \in BOOLEAN
  BY DEF TypeOK, StoreOK, OutletsOK, OnceStoreInv
<1>1. CASE startupController
  <2>1. powerOnStateSelection(PowerOnState, param.resumeState)
            \in {D_GOTOSTANDBY, D_GOTOTIMED_ON, D_GOTOALWAYS_ON, D_GOTOAUTO}
    <3>1. param.resumeState \notin SmartACStates \cup SmartUSBCStates
      BY <1>t DEF Stored, OnceResumeStates, SmartACStates, SmartUSBCStates, AutoStates
    <3> QED
      BY <3>1, SettingsAssumption
      DEF ResumingOnly, NoSmartCharging, powerOnStateSelection, LastStateSelection
  <2>2. ~relays /\ ~countdown /\ ~isUpdateCountdown
    BY <1>1 DEF startupController, OnceOutletsInv, OnceCountInv
  <2>3. OnceRunInv'
    <3>1. runState' \in {D_GOTOSTANDBY, D_GOTOTIMED_ON, D_GOTOALWAYS_ON, D_GOTOAUTO}
          /\ busy' = "no"
      BY <1>1, <2>1 DEF startupController
    <3> QED
      BY <3>1, OnceQuietStates DEF OnceQuiet
  <2>4. Alike(param, param') /\ Alike(param, eeprom')
    BY <1>1, <1>t DEF startupController, Alike, Stored
  <2> QED
    BY <1>1, <2>1, <2>2, <2>3, <2>4, OnceIdle DEF startupController
<1>2. CASE restartController
  <2>1. CASE Booted
    BY <2>1, OnceBooted
  <2>2. CASE ~Booted
    <3>1. UNCHANGED <<runState, prevRunState, busy, relays, countdownVars, paramVars, mains>>
          /\ runState = D_RESTART
      BY <1>2, <2>2 DEF restartController
    <3>2. ~relays /\ ~countdown /\ ~isUpdateCountdown
      BY <3>1 DEF OnceOutletsInv, OnceCountInv
    <3>3. OnceRunInv' /\ Alike(param, param')
      BY <1>t, <3>1 DEF Alike, Stored
    <3> QED
      BY <3>1, <3>2, <3>3, OnceIdle
  <2> QED
    BY <2>1, <2>2
<1>3. CASE goToStandbyController
  <2>1. /\ runState = D_GOTOSTANDBY /\ runState' \in {D_GOTOSLEEP, D_STANDBY}
        /\ UNCHANGED <<prevRunState, busy, relays, countdownVars, mains>> /\ busy = "no"
    BY <1>3 DEF goToStandbyController
  <2>2. ~relays /\ ~countdown /\ ~isUpdateCountdown /\ OnceRunInv'
    BY <2>1 DEF OnceOutletsInv, OnceCountInv
  <2>3. CASE UNCHANGED paramVars
    <3>1. Alike(param, param')
      BY <1>t, <2>3 DEF Alike, Stored
    <3> QED
      BY <2>1, <2>2, <2>3, <3>1, OnceIdle
  <2>4. CASE param' = WithMinutes(param, -1, 0) /\ eeprom' = param'
    <3>1. Stored(param') /\ param'.resumeMinutes = -1
      BY <1>t, <2>4, OnceMinutes
    <3> QED
      BY <2>1, <2>2, <2>4, <3>1, OnceForgets
  <2> QED
    BY <1>3, <2>3, <2>4 DEF goToStandbyController
<1>4. CASE standbyController
  <2>1. /\ runState = D_STANDBY /\ runState' \in {D_GOTOSLEEP, D_STANDBY} /\ busy = "no"
        /\ UNCHANGED <<busy, relays, countdownVars, mains>>
    BY <1>4 DEF standbyController
  <2>2. ~relays /\ ~countdown /\ ~isUpdateCountdown /\ OnceRunInv'
    BY <2>1 DEF OnceOutletsInv, OnceCountInv
  <2>3. CASE UNCHANGED paramVars
    <3>1. Alike(param, param')
      BY <1>t, <2>3 DEF Alike, Stored
    <3> QED
      BY <2>1, <2>2, <2>3, <3>1, OnceIdle
  <2>4. CASE param' = WithSession(param, D_STANDBY, -1, RESUME_MAINS_OFF) /\ eeprom' = param'
    <3>1. Stored(param') /\ param'.resumeMinutes = -1
      BY <1>t, <2>4, OnceSessions
    <3> QED
      BY <2>1, <2>2, <2>4, <3>1, OnceForgets
  <2> QED
    BY <1>4, <2>3, <2>4 DEF standbyController
<1>5. CASE goToSleepController
  <2>1. /\ runState = D_GOTOSLEEP /\ runState' = D_SLEEPING
        /\ UNCHANGED <<prevRunState, busy, relays, countdownVars, mains, param, eeprom>>
        /\ busy = "no"
    BY <1>5 DEF goToSleepController
  <2>2. OnceRunInv' /\ OnceStoreInv' /\ OnceStampInv'
    BY <2>1 DEF OnceStoreInv, Stored, OnceStampInv
  <2>3. OnceCountInv' /\ OnceEndInv' /\ OnceOutletsInv'
    BY <2>1 DEF OnceCountInv, NoMinutes, OnceEndInv, NotTimed, OnceOutletsInv
  <2> QED
    BY <2>2, <2>3
<1>6. CASE sleepingController
  <2>1. /\ runState = D_SLEEPING /\ busy = "no"
        /\ UNCHANGED <<prevRunState, relays, countdown, isUpdateCountdown,
                       istimerCountdown_ended, mainsofftime, mains>>
    BY <1>6 DEF sleepingController
  <2>2. CASE /\ UNCHANGED <<runState, paramVars>>
             /\ busy' = "no" \/ (busy' = "queue" /\ ~mains)
    <3>1. OnceRunInv'
      BY <2>1, <2>2
    <3> QED
      BY <2>1, <2>2, <3>1, OnceSame
  <2>3. CASE helperAfterSleep
    <3>1. /\ param' = eeprom /\ eeprom' = eeprom /\ busy' = busy
          /\ \/ runState' = D_SLEEPING
             \/ runState' = eeprom.resumeState /\ runState' \in Sessions \cup AutoStates
      BY <1>t, <2>1, <2>3 DEF helperAfterSleep, Stored
    <3>2. OnceRunInv' /\ OnceStoreInv'
      BY <2>1, <3>1 DEF OnceStoreInv, Stored
    <3>3. OnceStampInv' /\ OnceEndInv'
      BY <2>1, <3>1 DEF OnceStampInv, OnceEndInv, NotTimed
    <3>4. OnceCountInv'
      BY <2>1, <3>1 DEF OnceCountInv, NoMinutes
    <3>5. OnceOutletsInv'
      BY <2>1, <3>1 DEF OnceOutletsInv, NoMinutes
    <3> QED
      BY <3>2, <3>3, <3>4, <3>5
  <2>4. \/ UNCHANGED <<runState, paramVars>> /\ (busy' = "no" \/ (busy' = "queue" /\ ~mains))
        \/ helperAfterSleep
    BY <1>6, <2>1 DEF sleepingController, powerStateCheck, W_MAINS_OFF, W_MAINS_ON,
       W_CHARGING
  <2> QED
    BY <2>2, <2>3, <2>4
<1>7. CASE SleepQueueDone
  <2>1. /\ runState = D_SLEEPING /\ busy = "queue" /\ busy' = "confirm" /\ ~mains /\ ~mains'
        /\ UNCHANGED <<runState, prevRunState, relays, countdownVars>>
        /\ param' = [param EXCEPT !.resumeCause = RESUME_MAINS_OFF] /\ eeprom' = param'
    BY <1>7 DEF SleepQueueDone
  <2>2. /\ Stored(param') /\ param'.resumeState = param.resumeState
        /\ param'.resumeMinutes = param.resumeMinutes
    BY <1>t, <2>1, OnceCauses DEF Alike, Stored
  <2>3. OnceRunInv' /\ OnceStoreInv' /\ OnceStampInv'
    BY <2>1, <2>2 DEF OnceStoreInv, OnceStampInv
  <2>4. OnceCountInv' /\ OnceEndInv' /\ OnceOutletsInv'
    BY <2>1, <2>2 DEF OnceCountInv, NoMinutes, OnceEndInv, NotTimed, OnceOutletsInv
  <2> QED
    BY <2>3, <2>4
<1>8. CASE SleepConfirm
  <2>1. /\ busy = "confirm" /\ busy' = "hibernate" /\ runState = D_SLEEPING
        /\ UNCHANGED <<runState, prevRunState, relays, countdownVars, param, eeprom>>
    BY <1>8 DEF SleepConfirm
  <2>2. OnceRunInv' /\ OnceStoreInv' /\ OnceStampInv'
    BY <2>1 DEF OnceStoreInv, Stored, OnceStampInv
  <2>3. OnceCountInv' /\ OnceEndInv' /\ OnceOutletsInv'
    BY <2>1 DEF OnceCountInv, NoMinutes, OnceEndInv, NotTimed, OnceOutletsInv
  <2> QED
    BY <2>2, <2>3
<1>9. ~SleepWake /\ ~SleepStopped
  BY DEF SleepWake, SleepStopped
<1>10. CASE SleepBooted
  BY <1>10, OnceBooted DEF SleepBooted
<1> QED
  BY <1>1, <1>2, <1>3, <1>4, <1>5, <1>6, <1>7, <1>8, <1>9, <1>10
  DEF StandbyAndSleepPass

-----------------------------------------------------------------------------
(* A timed session: it starts with the minutes cleared, and ends with none *)
(* in the store.                                                           *)
LEMMA OnceTimedOn ==
    ASSUME OnceInv, timedOnController
    PROVE OnceKept'
<1> USE OnceResumes DEF OnceInv, OnceKept
<1>t. /\ param \in Params /\ eeprom \in Params /\ Stored(param) /\ Stored(eeprom)
      /\ param.resumeMinutes \in Int /\ eeprom.resumeMinutes \in Int
      /\ TimedMinutes \in Int /\ TimedMinutes >= -1 /\ -1 \in Int /\ -1 >= -1
  BY DEF TypeOK, StoreOK, MinutesOK, OnceStoreInv, Params, TimedMinutes, Counted
<1>1. /\ runState = D_TIMED_ON /\ busy = "no" /\ mains' = mains
      /\ prevRunState' = prevRunState
  BY DEF timedOnController, Pass, envVars
<1>2. CASE TimedOnStarts
  <2>1. /\ countdown' /\ ~istimerCountdown_ended' /\ ~isUpdateCountdown'
        /\ runState' = D_TIMED_ON /\ busy' = "timed"
    BY <1>1, <1>2 DEF TimedOnStarts, starttimerCountdown, ACRelaysOn
  <2>2. OnceRunInv'
    BY <1>1, <2>1, OnceQuietStates DEF OnceRunInv, OnceWaits, OnceQuiet, Sessions
  <2>3. CASE param.resumeMinutes >= 0
    <3>1. param' = WithoutResumeData(param) /\ eeprom' = param'
      BY <1>2, <2>3 DEF TimedOnStarts, helperCleanUpResumeData, putParameters
    <3>2. /\ Stored(param') /\ param'.resumeState = D_STARTUP
          /\ param'.resumeMinutes = -1
      BY <1>t, <3>1, OnceCleaned
    <3>3. OnceStoreInv' /\ OnceStampInv' /\ OnceEndInv'
      BY <2>1, <3>1, <3>2 DEF OnceStoreInv, OnceStampInv, OnceEndInv
    <3>4. OnceCountInv' /\ OnceOutletsInv'
      BY <2>1, <3>1, <3>2, SessionRuns DEF OnceCountInv, NoMinutes, OnceOutletsInv
    <3> QED
      BY <2>2, <3>3, <3>4
  <2>4. CASE ~(param.resumeMinutes >= 0)
    <3>1. param' = param /\ eeprom' = eeprom /\ mainsofftime' = mainsofftime
      BY <1>2, <2>4 DEF TimedOnStarts, paramVars
    <3>2. NoMinutes
      BY <1>t, <2>4 DEF OnceStoreInv, Stored, NoMinutes
    <3>3. OnceStoreInv' /\ OnceStampInv' /\ OnceEndInv'
      BY <1>1, <2>1, <3>1 DEF OnceStoreInv, Stored, OnceStampInv, OnceEndInv
    <3>4. OnceCountInv' /\ OnceOutletsInv'
      BY <2>1, <3>1, <3>2, SessionRuns DEF OnceCountInv, NoMinutes, OnceOutletsInv
    <3> QED
      BY <2>2, <3>3, <3>4
  <2> QED
    BY <2>3, <2>4
<1>3. CASE TimedOnContinues
  <2>1. /\ runState' \in {D_GOTOSLEEP, D_GOTOSTANDBY, D_TIMED_ON} /\ busy' = busy
        /\ ~isUpdateCountdown' /\ countdown' \in {FALSE, countdown}
    <3>1. countdown' \in {FALSE, countdown}
      BY <1>3 DEF TimedOnContinues, TypeOK, FlagsOK
    <3> QED
      BY <1>1, <1>3, <3>1 DEF TimedOnContinues
  <2>2. OnceRunInv'
    BY <1>1, <2>1, OnceQuietStates DEF OnceRunInv, OnceWaits, OnceQuiet, Sessions, ToSleep
  <2>3. CASE powerStateCheck = W_MAINS_OFF /\ mainsofftime = "zero"
    <3>1. /\ param' = WithSession(param, D_TIMED_ON, TimedMinutes, RESUME_MAINS_OFF)
          /\ eeprom' = param' /\ ~countdown' /\ ~istimerCountdown_ended' /\ ~relays'
      BY <1>3, <2>3 DEF TimedOnContinues, putParameters, ACRelaysOff
    <3>2. D_TIMED_ON \in OnceResumeStates
      OBVIOUS
    <3>3. Stored(param') /\ param'.resumeState = D_TIMED_ON
      BY <1>t, <3>1, <3>2, OnceSessions
    <3> QED
      BY <2>1, <2>2, <3>1, <3>3
      DEF OnceStoreInv, OnceStampInv, OnceEndInv, OnceCountInv, OnceOutletsInv
  <2>4. CASE /\ ~(powerStateCheck = W_MAINS_OFF /\ mainsofftime = "zero")
             /\ OverheatedNow /\ ~WasOverheatedNow
    <3>1. /\ param' = WithMinutes(param, TimedMinutes, RESUME_OVERHEAT)
          /\ eeprom' = param' /\ ~countdown' /\ ~istimerCountdown_ended' /\ ~relays'
          /\ mainsofftime' = mainsofftime
      BY <1>3, <2>4 DEF TimedOnContinues, putParameters, ACRelaysOff
    <3>2. Stored(param') /\ param'.resumeState = param.resumeState
      BY <1>t, <3>1, OnceMinutes
    <3> QED
      BY <1>1, <2>1, <2>2, <3>1, <3>2
      DEF OnceStoreInv, OnceStampInv, OnceEndInv, OnceCountInv, OnceOutletsInv
  <2>5. CASE /\ ~(powerStateCheck = W_MAINS_OFF /\ mainsofftime = "zero")
             /\ ~(OverheatedNow /\ ~WasOverheatedNow)
             /\ TimedEnded
    <3>1. /\ param' = WithMinutes(param, -1, 0) /\ eeprom' = eeprom /\ ~relays'
          /\ runState' \in {D_GOTOSLEEP, D_GOTOSTANDBY}
      BY <1>3, <2>5 DEF TimedOnContinues, ACRelaysOff
    <3>2. countdown' = (countdown /\ ~isUpdateCountdown)
      BY <1>3, <2>5 DEF TimedOnContinues
    <3>3. ~countdown'
      BY <2>5, <3>2 DEF TimedEnded, OnceCountInv
    <3>4. eeprom.resumeMinutes = -1
      BY <1>1, <2>5 DEF TimedEnded, OnceCountInv, NoMinutes, OnceEndInv
    <3>5. Stored(param') /\ param'.resumeMinutes = -1
      BY <1>t, <3>1, OnceMinutes
    <3>6. runState' \notin Sessions
      BY <3>1, OnceStates DEF ToSleep
    <3> QED
      BY <1>t, <2>1, <2>2, <3>1, <3>3, <3>4, <3>5, <3>6, OnceForgets
  <2>6. CASE /\ ~(powerStateCheck = W_MAINS_OFF /\ mainsofftime = "zero")
             /\ ~(OverheatedNow /\ ~WasOverheatedNow)
             /\ ~TimedEnded
    <3>1. /\ param' = param /\ eeprom' = eeprom /\ mainsofftime' = mainsofftime
          /\ ~istimerCountdown_ended' /\ relays' = relays
          /\ runState' \in {D_GOTOSLEEP, D_TIMED_ON}
      BY <1>1, <1>3, <2>6 DEF TimedOnContinues, RelaysUntouched
    <3>2. runState' = D_GOTOSLEEP => mainsofftime # "zero"
      BY <1>1, <1>3, <2>6, OnceStates DEF TimedOnContinues, ToSleep
    <3>3. OnceStoreInv' /\ OnceStampInv' /\ OnceEndInv'
      BY <1>1, <3>1 DEF OnceStoreInv, Stored, OnceStampInv, OnceEndInv
    <3>4. countdown' => countdown
      BY <2>1
    <3>5. OnceCountInv'
      BY <1>1, <2>1, <3>1, <3>2, <3>4
      DEF OnceCountInv, NoMinutes, OnceStampInv, ToSleep
    <3>6. OnceOutletsInv'
      <4>1. relays => NoMinutes
        BY <1>1 DEF OnceOutletsInv
      <4>2. runState' \in Sessions \cup ToSleep /\ runState' # D_WEBGOTOSTANDBY
        BY <3>1, OnceStates DEF ToSleep, OnceRequests
      <4> QED
        BY <3>1, <4>1, <4>2 DEF OnceOutletsInv, NoMinutes
    <3> QED
      BY <2>2, <3>3, <3>5, <3>6
  <2> QED
    BY <2>3, <2>4, <2>5, <2>6
<1> QED
  BY <1>2, <1>3 DEF timedOnController

(* Continuous charging; an end mark left by a timed session ends it.       *)
LEMMA OnceOn ==
    ASSUME OnceInv, onController
    PROVE OnceKept'
<1> USE OnceResumes DEF OnceInv, OnceKept
<1>t. /\ param \in Params /\ eeprom \in Params /\ Stored(param) /\ Stored(eeprom)
      /\ param.resumeMinutes \in Int /\ eeprom.resumeMinutes \in Int
      /\ OnMinutes \in Int /\ OnMinutes >= 0
  BY DEF TypeOK, StoreOK, MinutesOK, OnceStoreInv, Params, OnMinutes, Counted
<1>1. /\ runState = D_ALWAYS_ON /\ busy = "no" /\ mains' = mains
      /\ UNCHANGED <<countdown, isUpdateCountdown>>
      /\ istimerCountdown_ended' = OnEnded
  BY DEF onController, Pass, envVars, OnEnded
<1>2. ~countdown' /\ ~isUpdateCountdown'
  BY <1>1, OnceStates DEF OnceCountInv, ToSleep
<1>3. CASE OnStarts
  <2>1. /\ ~istimerCountdown_ended' /\ runState' = D_ALWAYS_ON /\ busy' = "on"
    BY <1>1, <1>3 DEF OnStarts, OnCanStart, ACRelaysOn
  <2>2. OnceRunInv'
    BY <1>1, <2>1, OnceQuietStates DEF OnceRunInv, OnceWaits, OnceQuiet, Sessions
  <2>3. Stored(param') /\ Stored(eeprom') /\ NoMinutes'
    <3>1. CASE param.resumeMinutes >= 0
      <4>1. param' = WithoutResumeData(param) /\ eeprom' = param'
        BY <1>3, <3>1 DEF OnStarts, helperCleanUpResumeData, putParameters
      <4> QED
        BY <1>t, <4>1, OnceCleaned DEF NoMinutes
    <3>2. CASE ~(param.resumeMinutes >= 0)
      <4>1. param' = param /\ eeprom' = eeprom
        BY <1>3, <3>2 DEF OnStarts, paramVars
      <4> QED
        BY <1>t, <3>2, <4>1 DEF OnceStoreInv, Stored, NoMinutes
    <3> QED
      BY <3>1, <3>2
  <2>4. OnceStoreInv' /\ OnceStampInv' /\ OnceEndInv' /\ OnceCountInv'
    BY <1>2, <2>1, <2>3, OnceStates
    DEF OnceStoreInv, OnceStampInv, OnceEndInv, OnceCountInv, NoMinutes
  <2>5. OnceOutletsInv'
    BY <2>1, <2>3, SessionRuns DEF OnceOutletsInv
  <2> QED
    BY <2>2, <2>4, <2>5
<1>4. CASE OnContinues
  <2>1. /\ runState' \in {D_GOTOSLEEP, D_GOTOSTANDBY, D_ALWAYS_ON} /\ busy' = busy
        /\ OnEnded => runState' # D_ALWAYS_ON
    <3>1. OnEnded => runState' \in {D_GOTOSLEEP, D_GOTOSTANDBY}
      BY <1>4 DEF OnContinues
    <3> QED
      BY <1>1, <1>4, <3>1, OnceStates DEF OnContinues, ToSleep
  <2>2. OnceRunInv' /\ runState' # D_TIMED_ON
    BY <1>1, <2>1, OnceStates, OnceQuietStates
    DEF OnceRunInv, OnceWaits, OnceQuiet, Sessions, ToSleep
  <2>3. OnceCountInv' /\ OnceStampInv'
    BY <1>2, <2>2 DEF OnceCountInv, OnceStampInv
  <2>4. CASE powerStateCheck = W_MAINS_OFF /\ param.resumeMinutes < 0
    <3>1. /\ param' = WithSession(param, D_ALWAYS_ON, OnMinutes, RESUME_MAINS_OFF)
          /\ eeprom' = param' /\ ~relays'
      BY <1>4, <2>4 DEF OnContinues, putParameters, ACRelaysOff
    <3>2. D_ALWAYS_ON \in OnceResumeStates /\ OnMinutes >= -1
      BY <1>t
    <3>3. Stored(param') /\ param'.resumeState = D_ALWAYS_ON
      BY <1>t, <3>1, <3>2, OnceSessions
    <3>4. OnceEndInv'
      BY <1>1, <2>1, <2>2, <3>1, <3>3, OnceStates DEF OnceEndInv, NotTimed
    <3> QED
      BY <2>2, <2>3, <3>1, <3>3, <3>4 DEF OnceStoreInv, OnceOutletsInv
  <2>5. CASE /\ ~(powerStateCheck = W_MAINS_OFF /\ param.resumeMinutes < 0)
             /\ OverheatedNow /\ ~WasOverheatedNow
    <3>1. /\ param' = WithMinutes(param, OnMinutes, RESUME_OVERHEAT)
          /\ eeprom' = eeprom /\ ~relays'
      BY <1>4, <2>5 DEF OnContinues, ACRelaysOff
    <3>2. /\ Stored(param') /\ param'.resumeState = param.resumeState
          /\ param'.resumeMinutes >= 0
      <4>1. OnMinutes >= -1
        BY <1>t
      <4> QED
        BY <1>t, <3>1, <4>1, OnceMinutes
    <3>3. OnceEndInv'
      BY <1>1, <2>1, <2>2, <3>1, <3>2, OnceStates DEF OnceEndInv, NotTimed, OnEnded
    <3> QED
      BY <1>t, <2>2, <2>3, <3>1, <3>2, <3>3 DEF OnceStoreInv, OnceOutletsInv
  <2>6. CASE /\ ~(powerStateCheck = W_MAINS_OFF /\ param.resumeMinutes < 0)
             /\ ~(OverheatedNow /\ ~WasOverheatedNow)
    <3>1. /\ param' = param /\ eeprom' = eeprom /\ relays' \in {FALSE, relays}
          /\ runState' = D_GOTOSTANDBY => ~relays'
      BY <1>1, <1>4, <2>6, OnceStates DEF OnContinues, ACRelaysOff, RelaysUntouched, ToSleep
    <3>2. OnceStoreInv' /\ OnceEndInv'
      BY <1>1, <2>1, <2>2, <3>1 DEF OnceStoreInv, Stored, OnceEndInv, NotTimed, OnEnded
    <3>3. relays' => NoMinutes
      <4>1. relays' => relays
        BY <3>1
      <4> QED
        BY <1>1, <4>1 DEF OnceOutletsInv
    <3>4. OnceOutletsInv'
      <4>1. relays' => runState' \in Sessions \cup ToSleep
        BY <2>1, <3>1 DEF ToSleep
      <4>2. runState' # D_WEBGOTOSTANDBY
        BY <2>1, OnceStates DEF ToSleep, OnceRequests
      <4> QED
        BY <3>1, <3>3, <4>1, <4>2 DEF OnceOutletsInv, NoMinutes
    <3> QED
      BY <2>2, <2>3, <3>2, <3>4
  <2> QED
    BY <2>4, <2>5, <2>6
<1> QED
  BY <1>3, <1>4 DEF onController

(* Their starts, and the end of the soft start.                            *)
LEMMA OnceTimedAndContinuous ==
    ASSUME OnceInv, TimedAndContinuousPass
    PROVE OnceKept'
<1> USE OnceResumes, OnceQuietStates DEF OnceInv, OnceKept, OnceRunInv, OnceWaits, OnceQuiet
<1>t. Alike(param, param)
  BY DEF OnceStoreInv, Stored, Alike
<1>1. CASE goToTimedOnController
  <2>1. /\ runState = D_GOTOTIMED_ON /\ busy = "no" /\ ~relays'
        /\ UNCHANGED <<busy, relays, prevRunState, param, eeprom, mains, isUpdateCountdown>>
    <3>1. /\ runState = D_GOTOTIMED_ON
          /\ UNCHANGED <<busy, relays, prevRunState, param, eeprom, mains,
                         isUpdateCountdown>>
      BY <1>1 DEF goToTimedOnController, Pass, initTimers, countdownVars, paramVars, envVars
    <3> QED
      BY <1>1, <3>1, OnceStates DEF goToTimedOnController, Pass, OnceOutletsInv, OnceRequests
  <2>2. ~countdown /\ ~isUpdateCountdown
    BY <2>1, OnceStates DEF OnceCountInv
  <2>3. CASE /\ ~countdown' /\ ~istimerCountdown_ended'
             /\ mainsofftime' = "zero" /\ runState' = D_TIMED_ON
    <3>1. OnceRunInv' /\ OnceStoreInv' /\ OnceStampInv' /\ OnceEndInv'
      BY <2>1, <2>3 DEF OnceStoreInv, Stored, OnceStampInv, OnceEndInv
    <3>2. OnceCountInv' /\ OnceOutletsInv'
      BY <2>1, <2>2, <2>3 DEF OnceCountInv, OnceOutletsInv
    <3> QED
      BY <3>1, <3>2
  <2>4. CASE /\ runState' = D_GOTOSTANDBY /\ UNCHANGED countdownVars
    <3>1. OnceRunInv' /\ runState' \notin Sessions
      BY <2>1, <2>4, OnceStates
    <3> QED
      BY <1>t, <2>1, <2>2, <2>4, <3>1, OnceIdle DEF countdownVars
  <2> QED
    BY <1>1, <2>3, <2>4 DEF goToTimedOnController, initTimers
<1>2. CASE timedOnController
  BY <1>2, OnceTimedOn
<1>3. CASE goToOnController
  <2>1. /\ runState = D_GOTOALWAYS_ON /\ busy = "no"
        /\ UNCHANGED <<busy, relays, prevRunState, param, eeprom, mains, isUpdateCountdown>>
    BY <1>3 DEF goToOnController, Pass, initTimers, countdownVars, paramVars, envVars
  <2>2. ~countdown /\ ~isUpdateCountdown /\ ~relays'
    BY <2>1, OnceStates DEF OnceCountInv, OnceOutletsInv, OnceRequests
  <2>3. CASE ~countdown' /\ ~istimerCountdown_ended' /\ runState' = D_ALWAYS_ON
    <3>1. OnceRunInv' /\ OnceStoreInv' /\ OnceStampInv' /\ OnceEndInv'
      BY <2>1, <2>3, OnceStates DEF OnceStoreInv, Stored, OnceStampInv, OnceEndInv
    <3>2. OnceCountInv' /\ OnceOutletsInv'
      BY <2>1, <2>2, <2>3 DEF OnceCountInv, OnceOutletsInv
    <3> QED
      BY <3>1, <3>2
  <2>4. CASE UNCHANGED <<runState, countdownVars>>
    <3>1. OnceRunInv' /\ runState' \notin Sessions
      BY <2>1, <2>4, OnceStates
    <3> QED
      BY <1>t, <2>1, <2>2, <2>4, <3>1, OnceIdle DEF countdownVars
  <2> QED
    BY <1>3, <2>3, <2>4 DEF goToOnController, initTimers
<1>4. CASE onController
  BY <1>4, OnceOn
<1>5. CASE TimedOrOnStarted
  <2>1. OnceRunInv'
    BY <1>5 DEF TimedOrOnStarted, envVars
  <2> QED
    BY <1>5, <2>1, OnceSame DEF TimedOrOnStarted, countdownVars
<1> QED
  BY <1>1, <1>2, <1>3, <1>4, <1>5 DEF TimedAndContinuousPass

-----------------------------------------------------------------------------
(* What automatic charging stores is its own run state.                    *)
LEMMA OnceAutoSaves ==
    ASSUME OnceInv, NEW p \in Params, Stored(p), NEW c, NEW b \in BOOLEAN
    PROVE /\ Stored(AutoSuspended(p, c, b))
          /\ AutoSuspended(p, c, b).resumeState \in AutoStates
          /\ Stored(AutoAsleep(p, b)) /\ AutoAsleep(p, b).resumeState \in AutoStates
<1>m. chargeMins \in Int /\ chargeMins >= -1
  BY DEF OnceInv, TypeOK, MinutesOK
<1>s. /\ (IF b THEN D_AUTO_ON ELSE D_AUTO_OFF) \in AutoStates
      /\ (IF b THEN D_AUTO_ON ELSE D_AUTO_OFF) \in OnceResumeStates
  BY OnceResumes DEF AutoStates
<1>1. Stored(AutoSuspended(p, c, b)) /\ AutoSuspended(p, c, b).resumeState \in AutoStates
  <2>1. PICK q : q = [p EXCEPT !.isAuto = p.isAuto /\ ~b]
    OBVIOUS
  <2>2. q \in Params
    BY <2>1, Zenon DEF Params
  <2>3. Stored(q)
    BY <2>1 DEF Stored, Params
  <2> QED
    BY <1>m, <1>s, <2>1, <2>2, <2>3, OnceSessions DEF AutoSuspended
<1>2. Stored(AutoAsleep(p, b)) /\ AutoAsleep(p, b).resumeState \in AutoStates
  <2>1. /\ (IF b THEN chargeMins ELSE p.resumeMinutes) \in Int
        /\ (IF b THEN chargeMins ELSE p.resumeMinutes) >= -1
    BY <1>m DEF Stored, Params
  <2> QED
    BY <1>s, <2>1, OnceSessions DEF AutoAsleep
<1> QED
  BY <1>1, <1>2

(* Automatic charging may leave its outlets on when it goes to sleep, with *)
(* its own run state stored.                                               *)
LEMMA OnceAutoSchedule ==
    ASSUME OnceInv, AutoSchedulePass
    PROVE OnceKept'
<1> USE OnceResumes, OnceQuietStates
    DEF OnceInv, OnceKept, OnceRunInv, OnceWaits, OnceQuiet
<1>t. /\ param \in Params /\ eeprom \in Params /\ Stored(param) /\ Stored(eeprom)
      /\ Alike(param, param)
  BY DEF TypeOK, StoreOK, OnceStoreInv, Stored, Alike
<1>1. ~checkScheduledStartUntilCharged
  BY <1>t DEF checkScheduledStartUntilCharged, ScheduledStart, ScheduleOver,
              ScheduleClock, StartIsDue, ScheduledCheckRuns, Stored
<1>2. CASE goToAutoController
  <2>1. /\ runState = D_GOTOAUTO /\ busy = "no" /\ runState' = D_AUTO_OFF
        /\ UNCHANGED <<busy, relays, param, eeprom, countdown, isUpdateCountdown,
                       istimerCountdown_ended>>
    BY <1>2 DEF goToAutoController, Pass, relayVars, countdownVars, paramVars
  <2>2. ~countdown /\ ~isUpdateCountdown /\ ~relays'
    BY <2>1, OnceStates DEF OnceCountInv, OnceOutletsInv, OnceRequests
  <2>3. OnceRunInv' /\ runState' \notin Sessions
    BY <2>1, SessionRuns DEF AutoStates
  <2> QED
    BY <1>t, <2>1, <2>2, <2>3, OnceIdle
<1>3. CASE autoController
  <2>1. /\ runState \in AutoStates /\ busy = "no"
        /\ UNCHANGED <<mains, countdown, isUpdateCountdown, istimerCountdown_ended>>
    BY <1>3 DEF autoController, Pass, countdownVars, envVars
  <2>2. ~countdown' /\ ~isUpdateCountdown'
    BY <2>1, OnceStates DEF OnceCountInv, Sessions
  <2>3. CASE AutoExpires
    <3>1. /\ runState' = D_GOTOSTANDBY /\ ~relays'
          /\ UNCHANGED <<busy, param, eeprom>>
      BY <2>3 DEF AutoExpires, ACRelaysOff, paramVars
    <3>2. OnceRunInv' /\ runState' \notin Sessions
      BY <2>1, <3>1, OnceStates
    <3> QED
      BY <1>t, <2>1, <2>2, <3>1, <3>2, OnceIdle
  <2>4. CASE AutoTimeInvalid
    <3>1. /\ runState' = runState /\ relays' \in {FALSE, relays}
          /\ UNCHANGED <<busy, param, eeprom>>
      BY <2>4 DEF AutoTimeInvalid, ACRelaysOff, RelaysUntouched, paramVars
    <3>2. OnceRunInv' /\ runState' \notin Sessions \cup ToSleep /\ runState' # D_WEBGOTOSTANDBY
      BY <2>1, <3>1, OnceStates DEF OnceRequests
    <3>3. OnceStoreInv' /\ OnceEndInv'
      BY <2>1, <3>1, <3>2 DEF OnceStoreInv, Stored, OnceEndInv, NotTimed
    <3>4. OnceCountInv' /\ OnceStampInv' /\ OnceOutletsInv'
      BY <2>1, <2>2, <3>1, <3>2 DEF OnceCountInv, OnceStampInv, OnceOutletsInv
    <3> QED
      BY <3>2, <3>3, <3>4
  <2>5. CASE AutoStarts \/ AutoIdles
    <3>1. /\ runState' \in AutoStates /\ busy' \in {"no", "auto"}
      BY <2>1, <2>5 DEF AutoStarts, AutoIdles, ACRelaysOn, AutoStates
    <3>2. \/ UNCHANGED paramVars
          \/ param' = WithoutResumeData(param) /\ eeprom' = param'
      BY <2>5 DEF AutoStarts, AutoIdles, AutoResumes, helperCleanUpResumeData, putParameters
    <3>3. OnceRunInv' /\ runState' \notin Sessions \cup ToSleep /\ runState' # D_WEBGOTOSTANDBY
      BY <2>1, <3>1, OnceStates DEF OnceRequests
    <3>4. OnceStoreInv' /\ OnceEndInv'
      <4>1. CASE UNCHANGED paramVars
        BY <2>1, <3>3, <4>1 DEF OnceStoreInv, Stored, OnceEndInv, NotTimed, paramVars
      <4>2. CASE param' = WithoutResumeData(param) /\ eeprom' = param'
        BY <1>t, <3>3, <4>2, OnceCleaned DEF OnceStoreInv, OnceEndInv, NotTimed
      <4> QED
        BY <3>2, <4>1, <4>2
    <3>5. OnceCountInv' /\ OnceStampInv' /\ OnceOutletsInv'
      BY <2>2, <3>1, <3>3 DEF OnceCountInv, OnceStampInv, OnceOutletsInv
    <3> QED
      BY <3>3, <3>4, <3>5
  <2>6. CASE AutoContinues
    <3>1. /\ runState' \in AutoStates \cup {D_GOTOSLEEP} /\ busy' = busy
          /\ relays' \in {FALSE, relays}
      BY <2>1, <2>6 DEF AutoContinues, AutoStates, ACRelaysOff, RelaysUntouched
    <3>2. PICK hot : hot = IF OverheatedNow /\ ~WasOverheatedNow
                           THEN AutoSuspended(param, RESUME_OVERHEAT, TRUE) ELSE param
      OBVIOUS
    <3>3. hot \in Params /\ Stored(hot)
      BY <1>t, <3>2, OnceAutoSaves, AutoSaves, ConstantNumbers DEF OnceInv
    <3>4. \/ /\ \/ param' = AutoSuspended(hot, RESUME_MAINS_OFF,
                              WasOverheatedNow \/ (OverheatedNow /\ ~WasOverheatedNow))
                \/ param' = AutoAsleep(hot, sched = "on")
                \/ param' = AutoSuspended(param, RESUME_OVERHEAT, TRUE)
             /\ eeprom' = param'
          \/ /\ param' = param /\ eeprom' = eeprom
             /\ runState' # D_GOTOSLEEP
      BY <2>1, <2>6, <3>2, OnceStates DEF AutoContinues, putParameters, ToSleep, AutoStates
    <3>5. OnceRunInv' /\ runState' \notin Sessions /\ runState' # D_WEBGOTOSTANDBY
      BY <2>1, <3>1, OnceStates DEF ToSleep, OnceRequests
    <3>6. CASE param' = param /\ eeprom' = eeprom /\ runState' # D_GOTOSLEEP
      <4>1. OnceStoreInv' /\ OnceEndInv'
        BY <2>1, <3>5, <3>6 DEF OnceStoreInv, Stored, OnceEndInv, NotTimed
      <4>2. runState' \notin ToSleep
        BY <3>1, <3>6, OnceStates
      <4>3. OnceCountInv' /\ OnceStampInv' /\ OnceOutletsInv'
        BY <2>2, <3>1, <3>5, <3>6, <4>2 DEF OnceCountInv, OnceStampInv, OnceOutletsInv
      <4> QED
        BY <3>5, <4>1, <4>3
    <3>7. CASE Stored(param') /\ param'.resumeState \in AutoStates /\ eeprom' = param'
      <4>1. OnceStoreInv' /\ OnceEndInv'
        BY <3>5, <3>7 DEF OnceStoreInv, OnceEndInv, NotTimed
      <4>2. OnceCountInv' /\ OnceStampInv'
        BY <2>2, <3>5 DEF OnceCountInv, OnceStampInv
      <4>3. OnceOutletsInv'
        <5>1. {param'.resumeState, eeprom'.resumeState} \subseteq AutoStates
          BY <3>7
        <5>2. runState' \in AutoStates \cup ToSleep
          BY <3>1 DEF ToSleep
        <5> QED
          BY <3>5, <5>1, <5>2 DEF OnceOutletsInv
      <4> QED
        BY <3>5, <4>1, <4>2, <4>3
    <3>8. /\ (sched = "on") \in BOOLEAN /\ TRUE \in BOOLEAN
          /\ (WasOverheatedNow \/ (OverheatedNow /\ ~WasOverheatedNow)) \in BOOLEAN
      BY HeatFlags
    <3> QED
      BY <1>t, <3>3, <3>4, <3>6, <3>7, <3>8, OnceAutoSaves
  <2> QED
    BY <1>3, <2>3, <2>4, <2>5, <2>6 DEF autoController
<1>4. CASE AutoStarted
  <2>1. OnceRunInv'
    BY <1>4 DEF AutoStarted, envVars
  <2> QED
    BY <1>4, <2>1, OnceSame DEF AutoStarted, countdownVars
<1> QED
  BY <1>1, <1>2, <1>3, <1>4 DEF AutoSchedulePass

(* No smart charging controller has anything to do.                        *)
LEMMA OnceSmartCharging == ASSUME OnceInv PROVE ~SmartChargingPass
<1>1. /\ runState \notin {D_CHARGED_ON, D_CHARGED_ON_USBC, D_GOTOCHARGED_ON,
        D_GOTOCHARGED_ON_USBC, D_CHARGED_ON_AUTO, D_CHARGED_ON_USBC_AUTO,
        D_GOTOCHARGED_ON_AUTO, D_GOTOCHARGED_ON_USBC_AUTO}
      /\ busy \notin SmartWaits
  BY OnceStates DEF OnceInv, OnceKept, OnceRunInv, OnceWaits, SmartWaits
<1> USE <1>1 DEF Pass, SmartWaits
<1>2. ~goToChargedOnAutoController /\ ~goToChargedOnUSBCAutoController
  BY DEF goToChargedOnAutoController, goToChargedOnUSBCAutoController, GoToSmart
<1>3. ~chargedOnController /\ ~chargedOnUSBCController
  BY DEF chargedOnController, chargedOnUSBCController, SmartACStates, SmartUSBCStates
<1>4. ~SmartStarted /\ ~SmartStartedAgain
  BY DEF SmartStarted, SmartStartedAgain
<1> QED
  BY <1>2, <1>3, <1>4 DEF SmartChargingPass

-----------------------------------------------------------------------------
(* What these run states are shown as.                                     *)
LEMMA OnceViews ==
    ASSUME NEW s \in OnceQuiet
    PROVE /\ onViewRunState(s) = W_STANDBY
             => s \in {D_STARTUP, D_STANDBY, D_RESTART, D_GOTOSTANDBY}
          /\ onViewRunState(s) \in {W_AUTO_ON, W_AUTO_OFF}
             => s \in {D_GOTOAUTO} \cup AutoStates
  BY DEF onViewRunState, OnceQuiet, Sessions, AutoStates, ToSleep,
       W_STANDBY, W_TIMED_ON, W_AUTO_OFF, W_AUTO_ON, W_ON, W_SLEEPING,
       D_STARTUP, D_STANDBY, D_TIMED_ON, D_AUTO_OFF, D_AUTO_ON, D_ALWAYS_ON, D_SLEEPING,
       D_GOTOSTANDBY, D_GOTOTIMED_ON, D_GOTOAUTO, D_GOTOALWAYS_ON, D_GOTOSLEEP, D_RESTART,
       D_WEBGOTOTIMED, D_WEBGOTOAUTO, D_WEBGOTOON, D_WEBGOTOHIBERNATE, D_WEBGOTOCHARGED,
       D_WEBGOTOCHARGEDUSBC, D_CHARGED_ON, D_GOTOCHARGED_ON, D_CHARGED_ON_USBC,
       D_GOTOCHARGED_ON_USBC, D_GOTOCHARGED_ON_AUTO, D_CHARGED_ON_AUTO,
       D_GOTOCHARGED_ON_USBC_AUTO, D_CHARGED_ON_USBC_AUTO

(* Commands: they start an activity from standby only, and end automatic   *)
(* charging.                                                               *)
LEMMA OnceRemoteAdmin ==
    ASSUME ResumingOnly, OnceInv, remoteAdmin
    PROVE OnceKept'
<1> USE DEF OnceInv, OnceKept
<1>t. /\ param \in Params /\ Stored(param) /\ Alike(param, param)
      /\ runState \in OnceQuiet
  <2>1. runState \in OnceRunStates /\ runState \notin WebStates
    BY DEF remoteAdmin, ResumingOnly, OnceRunInv
  <2>2. runState \in OnceQuiet
    BY <2>1, OnceStates DEF OnceQuiet
  <2> QED
    BY <2>2 DEF TypeOK, StoreOK, OnceStoreInv, Stored, Alike
<1>1. UNCHANGED <<busy, relays, mains, countdown, isUpdateCountdown,
                  istimerCountdown_ended, mainsofftime>>
  BY DEF remoteAdmin, relayVars, countdownVars, envVars
<1>2. busy \notin {"queue", "confirm"} \/ runState = D_SLEEPING
  BY DEF OnceRunInv
<1>3. ASSUME View = W_STANDBY, UNCHANGED paramVars,
             Accepted(D_WEBGOTORESTART) \/ Accepted(D_WEBGOTOTIMED)
             \/ Accepted(D_WEBGOTOON) \/ Accepted(D_WEBGOTOHIBERNATE)
             \/ Accepted(D_WEBGOTOAUTO)
      PROVE OnceKept'
  <2>1. runState \in {D_STARTUP, D_STANDBY, D_RESTART, D_GOTOSTANDBY}
    BY <1>3, <1>t, OnceViews DEF View
  <2>2. /\ prevRunState' = runState /\ param' = param /\ eeprom' = eeprom
        /\ runState' \in {D_WEBGOTORESTART, D_WEBGOTOTIMED, D_WEBGOTOON,
                          D_WEBGOTOHIBERNATE, D_WEBGOTOAUTO}
    BY <1>3 DEF Accepted, paramVars
  <2>3. /\ ~countdown /\ ~isUpdateCountdown /\ ~relays'
        /\ runState # D_TIMED_ON /\ runState # D_SLEEPING
    BY <1>1, <2>1, OnceStates DEF OnceCountInv, OnceOutletsInv, Sessions, ToSleep, OnceRequests
  <2>4. runState' \in OnceRunStates /\ runState' \notin Sessions
    BY <2>2, OnceStates DEF OnceRequests
  <2>5. OnceRunInv'
    BY <1>1, <1>2, <2>2, <2>3, <2>4 DEF OnceRunInv
  <2> QED
    BY <1>1, <1>t, <2>2, <2>3, <2>4, <2>5, OnceIdle
<1>4. CASE StandbyCommand /\ "stb" \in Commands
  BY <1>4 DEF ResumingOnly
<1>5. CASE \E c \in Commands \cap StandbyCommands : ActivityCommand(c)
  <2>1. PICK c \in {"rst", "tmc", "cnc", "hib"} : ActivityCommand(c)
    BY <1>5 DEF ResumingOnly, NoSmartCharging, StandbyCommands
  <2>2. Selected(c) \in {D_WEBGOTORESTART, D_WEBGOTOTIMED, D_WEBGOTOON,
                         D_WEBGOTOHIBERNATE}
    BY DEF Selected
  <2> QED
    BY <1>3, <2>1, <2>2 DEF ActivityCommand
<1>6. CASE AutoOnCommand
  BY <1>3, <1>6 DEF AutoOnCommand, ResumingOnly, NoSmartCharging
<1>7. CASE AutoOffCommand
  <2>1. /\ prevRunState' = runState /\ runState' = D_WEBGOTOSTANDBY
        /\ View \in {W_AUTO_ON, W_AUTO_OFF}
    BY <1>7 DEF AutoOffCommand, Accepted, ResumingOnly, NoSmartCharging
  <2>2. /\ param'.resumeState = param.resumeState
        /\ param'.resumeMinutes = param.resumeMinutes
        /\ ~param'.isOUCMonitoring /\ eeprom' = param'
    BY <1>7, <1>t DEF AutoOffCommand, putParameters, Params
  <2>3. runState \in {D_GOTOAUTO} \cup AutoStates
    BY <2>1, <1>t, OnceViews DEF View
  <2>4. /\ ~countdown /\ ~isUpdateCountdown /\ runState # D_SLEEPING
        /\ runState # D_TIMED_ON
    BY <2>3, OnceStates DEF OnceCountInv, Sessions, ToSleep
  <2>5. relays => runState \in AutoStates
    BY <2>3, OnceStates DEF OnceOutletsInv, OnceRequests
  <2>6. /\ runState' \in OnceRunStates
        /\ runState' \notin Sessions \cup AutoStates \cup ToSleep
    BY <2>1, OnceStates DEF OnceRequests
  <2>7. OnceRunInv'
    BY <1>1, <1>2, <2>1, <2>4, <2>6 DEF OnceRunInv
  <2>8. OnceStoreInv' /\ OnceEndInv'
    BY <1>1, <1>t, <2>2, <2>6, OnceResumes
    DEF OnceStoreInv, Stored, OnceEndInv, NotTimed
  <2>9. OnceCountInv' /\ OnceStampInv' /\ OnceOutletsInv'
    BY <1>1, <2>1, <2>4, <2>5, <2>6, OnceResumes
    DEF OnceCountInv, OnceStampInv, OnceOutletsInv
  <2> QED
    BY <2>7, <2>8, <2>9
<1> QED
  BY <1>4, <1>5, <1>6, <1>7 DEF remoteAdmin

(* The controllers that carry the commands out find no timed session.      *)
LEMMA OnceWebCommands ==
    ASSUME OnceInv, WebCommandsPass
    PROVE OnceKept'
<1> USE DEF OnceInv, OnceKept
<1>t. /\ param \in Params /\ Stored(param) /\ Alike(param, param)
  BY DEF TypeOK, StoreOK, OnceStoreInv, Stored, Alike
<1>1. ASSUME runState \in OnceRequests
      PROVE ~countdown /\ ~isUpdateCountdown
  BY <1>1, OnceStates DEF OnceCountInv, Sessions
<1>2. CASE StoppingController
  <2>1. /\ busy = "no" /\ busy' = "no" /\ previousStateHandler(prevRunState)
        /\ mains' = mains
        /\ runState \in {D_WEBGOTOTIMED, D_WEBGOTOON, D_WEBGOTOAUTO, D_WEBGOTOSTANDBY}
        /\ runState' \in {D_GOTOTIMED_ON, D_GOTOALWAYS_ON, D_GOTOAUTO, D_GOTOSTANDBY}
        /\ UNCHANGED paramVars \/ \E b \in BOOLEAN : SetAuto(b)
    <3>1. runState \notin {D_WEBOUCAEXIT, D_WEBGOTOCHARGED, D_WEBGOTOCHARGEDUSBC}
      BY OnceStates DEF OnceRunInv
    <3> QED
      BY <1>2, <3>1 DEF StoppingController, webOUCAExitController,
         webGoToTimedController, webGoToOnController, webGoToAutoController,
         webGoToChargedController, webGoToStandbyController, Pass, envVars
  <2>2. prevRunState # D_TIMED_ON
    BY <2>1, OnceStates DEF OnceRunInv, OnceRequests
  <2>3. UNCHANGED <<countdown, isUpdateCountdown, istimerCountdown_ended>>
    BY <2>1, <2>2 DEF previousStateHandler
  <2>4. ~countdown /\ ~isUpdateCountdown
    BY <1>1, <2>1 DEF OnceRequests
  <2>5. ~relays'
    <3>1. CASE relays
      <4>1. prevRunState \in AutoStates
        BY <2>1, <3>1, OnceStates DEF OnceOutletsInv, OnceRequests
      <4> QED
        BY <2>1, <4>1 DEF previousStateHandler, StopsCharging, AutoStates, ACRelaysOff
    <3>2. CASE ~relays
      BY <2>1, <3>2 DEF previousStateHandler, ACRelaysOff, relayVars
    <3> QED
      BY <3>1, <3>2
  <2>6. Alike(param, param') /\ (Alike(param, eeprom') \/ eeprom' = eeprom)
    <3>1. CASE UNCHANGED paramVars
      BY <1>t, <3>1 DEF paramVars
    <3>2. ASSUME NEW b \in BOOLEAN, SetAuto(b)
          PROVE Alike(param, param') /\ (Alike(param, eeprom') \/ eeprom' = eeprom)
      BY <1>t, <3>2 DEF SetAuto, putParameters, Alike, Stored, Params
    <3> QED
      BY <2>1, <3>1, <3>2
  <2>7. OnceRunInv' /\ runState' \notin Sessions
    BY <2>1, OnceStates, OnceQuietStates DEF OnceRunInv, OnceWaits, OnceQuiet
  <2> QED
    BY <2>3, <2>4, <2>5, <2>6, <2>7, OnceIdle
<1>3. CASE /\ \/ webGoToOUCAutoController \/ webGoToRestartController
              \/ webGoToFactoryResetController \/ webGoToHibernateController \/ QueueDone
           /\ UNCHANGED <<prevRunState, relayVars, heatVars, countdownVars, chargingVars,
                          mainsofftime, resetTimer, envVars, scheduleVars>>
  <2>1. ~webGoToOUCAutoController /\ ~webGoToFactoryResetController
    BY OnceStates
    DEF webGoToOUCAutoController, webGoToFactoryResetController, OnceRunInv, Pass
  <2>2. UNCHANGED <<prevRunState, relays, mains, countdown, isUpdateCountdown,
                    istimerCountdown_ended, mainsofftime>>
    BY <1>3 DEF relayVars, countdownVars, envVars
  <2>3. CASE webGoToRestartController \/ webGoToHibernateController
    <3>1. /\ busy = "no" /\ busy' \in {"no", "hibernateQueue"} /\ eeprom' = param'
          /\ runState \in {D_WEBGOTORESTART, D_WEBGOTOHIBERNATE}
          /\ runState' \in {D_RESTART, D_WEBGOTOHIBERNATE}
          /\ \/ param' = [param EXCEPT !.resumeCause = RESTART_WEBCMD]
             \/ param' = [param EXCEPT !.resumeCause = RESTART_HIBERNATE]
      BY <2>3 DEF webGoToRestartController, webGoToHibernateController, Pass, putParameters
    <3>2. ~countdown /\ ~isUpdateCountdown
      BY <1>1, <3>1 DEF OnceRequests
    <3>3. ~relays'
      BY <2>2, <3>1, OnceStates DEF OnceOutletsInv, OnceRequests
    <3>4. Alike(param, param') /\ Alike(param, eeprom')
      BY <1>t, <3>1, OnceCauses
    <3>5. prevRunState # D_TIMED_ON
      BY <3>1, OnceStates DEF OnceRunInv, OnceRequests
    <3>6. OnceRunInv' /\ runState' \notin Sessions
      BY <2>2, <3>1, <3>5, OnceStates DEF OnceRunInv, OnceWaits, OnceRequests
    <3> QED
      BY <2>2, <3>2, <3>3, <3>4, <3>6, OnceIdle
  <2>4. CASE QueueDone
    <3>1. busy' = "hibernate" /\ UNCHANGED <<runState, paramVars>>
      BY <2>4 DEF QueueDone, OnceRunInv, OnceWaits
    <3>2. OnceRunInv'
      BY <2>2, <3>1 DEF OnceRunInv, OnceWaits
    <3> QED
      BY <2>2, <3>1, <3>2, OnceSame
  <2> QED
    BY <1>3, <2>1, <2>3, <2>4
<1> QED
  BY <1>2, <1>3 DEF WebCommandsPass

(* The surroundings: the mains keeps still while the supply is checked.    *)
LEMMA OnceSurroundings ==
    ASSUME ResumingOnly, OnceInv, Surroundings
    PROVE OnceKept'
<1> USE DEF OnceInv, OnceKept
<1>1. CASE Reset
  BY <1>1, OnceBooted DEF Reset
<1>2. CASE ~Reset
  <2>1. /\ UNCHANGED <<runState, prevRunState, relays, paramVars, countdown,
                       istimerCountdown_ended>>
    BY <1>2 DEF Surroundings, MainsFails, MainsReturns, TemperatureChanges,
           ScheduleMoves, CountdownMinute, ChargingMinute, ResetTimerExpires,
           SleepDelayPasses, deviceVars, relayVars, countdownVars
  <2>2. isUpdateCountdown' => countdown \/ isUpdateCountdown
    <3>1. UNCHANGED isUpdateCountdown \/ countdown
      BY <1>2 DEF Surroundings, MainsFails, MainsReturns, TemperatureChanges,
             ScheduleMoves, CountdownMinute, ChargingMinute, ResetTimerExpires,
             SleepDelayPasses, countdownVars
    <3> QED
      BY <3>1
  <2>6. mainsofftime' # "zero" => mainsofftime # "zero"
    <3>1. UNCHANGED mainsofftime \/ mainsofftime = "recent"
      BY <1>2 DEF Surroundings, MainsFails, MainsReturns, TemperatureChanges,
             ScheduleMoves, CountdownMinute, ChargingMinute, ResetTimerExpires,
             SleepDelayPasses
    <3> QED
      BY <3>1
  <2>3. busy' \in {busy, "booting"}
    BY <1>2 DEF Surroundings, MainsFails, MainsReturns, TemperatureChanges,
           ScheduleMoves, CountdownMinute, ChargingMinute, ResetTimerExpires,
           SleepDelayPasses, OnceRunInv, OnceWaits
  <2>4. busy \in {"queue", "confirm"} => mains' = mains
    BY <1>2 DEF Surroundings, MainsFails, MainsReturns, TemperatureChanges,
           ScheduleMoves, CountdownMinute, ChargingMinute, ResetTimerExpires,
           SleepDelayPasses, envVars, ResumingOnly
  <2>5. OnceRunInv'
    BY <2>1, <2>3, <2>4 DEF OnceRunInv, OnceWaits
  <2> QED
    BY <2>1, <2>2, <2>5, <2>6, OnceSame
<1> QED
  BY <1>1, <1>2

-----------------------------------------------------------------------------
(* The invariant holds in every reachable state.                           *)
LEMMA OnceInvariant == ASSUME ResumingOnly PROVE Spec => []OnceInv
<1>1. Init => OnceInv
  <2> SUFFICES ASSUME Init PROVE OnceInv
    OBVIOUS
  <2>1. /\ runState = D_STARTUP /\ busy = "no" /\ ~relays /\ ~countdown
        /\ ~isUpdateCountdown /\ ~istimerCountdown_ended
        /\ param = DefaultParams /\ eeprom = DefaultParams
    BY DEF Init
  <2>2. Stored(DefaultParams)
    BY OnceResumes DEF Stored, DefaultParams
  <2>3. OnceRunInv
    BY <2>1, OnceQuietStates DEF OnceRunInv, OnceWaits, OnceQuiet
  <2>4. OnceStoreInv /\ OnceEndInv /\ OnceCountInv /\ OnceOutletsInv
    BY <2>1, <2>2 DEF OnceStoreInv, OnceEndInv, OnceCountInv, OnceOutletsInv
  <2>5. OnceStampInv
    BY <2>1, OnceResumes DEF OnceStampInv
  <2> QED
    BY <2>3, <2>4, <2>5, TypeInit DEF OnceInv, OnceKept
<1>2. OnceInv /\ [Next]_vars => OnceInv'
  <2> SUFFICES ASSUME OnceInv, [Next]_vars PROVE OnceInv'
    OBVIOUS
  <2>1. TypeOK'
    BY TypeStep DEF OnceInv
  <2>2. CASE LoopPass
    BY <2>1, <2>2, OnceStandbyAndSleep, OnceTimedAndContinuous, OnceAutoSchedule,
       OnceSmartCharging, OnceWebCommands
    DEF LoopPass, OnceInv
  <2>3. CASE remoteAdmin
    BY <2>1, <2>3, OnceRemoteAdmin DEF OnceInv
  <2>4. CASE Surroundings
    BY <2>1, <2>4, OnceSurroundings DEF OnceInv
  <2>5. CASE UNCHANGED vars
    <3>1. OnceRunInv'
      BY <2>5 DEF vars, envVars, OnceInv, OnceKept, OnceRunInv
    <3> QED
      BY <2>1, <2>5, <3>1, OnceSame DEF vars, relayVars, countdownVars, OnceInv
  <2> QED
    BY <2>2, <2>3, <2>4, <2>5 DEF Next
<1> QED
  BY <1>1, <1>2, PTL DEF Spec

(* While a timed or continuous session charges, EEPROM holds no minutes:   *)
(* a reset in the middle of it cannot resume the same minutes twice.       *)
THEOREM SessionResumedOnce == ASSUME ResumingOnly PROVE Spec => []ResumedOnce
<1>1. OnceInv => ResumedOnce
  BY DEF OnceInv, OnceKept, OnceOutletsInv, NoMinutes, Sessions, ResumedOnce
<1> QED
  BY <1>1, OnceInvariant, PTL

(* Outlets that are on belong to an activity, which none in standby is.    *)
LEMMA OnceStandby == OnceInv => StandbyIsOff
<1>1. D_STANDBY \notin Sessions \cup AutoStates \cup ToSleep \cup {D_WEBGOTOSTANDBY}
  BY DEF Sessions, AutoStates, ToSleep, D_STANDBY, D_TIMED_ON, D_ALWAYS_ON,
         D_AUTO_OFF, D_AUTO_ON, D_GOTOSLEEP, D_SLEEPING, D_WEBGOTOSTANDBY
<1> QED
  BY <1>1 DEF OnceInv, OnceKept, OnceOutletsInv, StandbyIsOff

(* In standby the outlets are off with any of these activities, also when  *)
(* one replaced another: what it left on is taken over or switched off.    *)
THEOREM MixedStandbyIsOff == ASSUME ResumingOnly PROVE Spec => []StandbyIsOff
  BY OnceStandby, OnceInvariant, PTL

-----------------------------------------------------------------------------
(* That the heat switches off. Only the controllers of standby and of      *)
(* charging look at the temperature, besides a boot, which forgets it.     *)
LEMMA HeatLooks ==
    ASSUME OnceInv, Next
    PROVE \/ isOverheated' \in {isOverheated, FALSE}
          \/ standbyController \/ timedOnController \/ onController \/ autoController
<1>1. CASE StandbyAndSleepPass
  BY <1>1
  DEF StandbyAndSleepPass, startupController, restartController, goToStandbyController,
      goToSleepController, sleepingController, SleepQueueDone, SleepConfirm, SleepWake,
      SleepStopped, SleepBooted, Booted, heatVars
<1>2. CASE TimedAndContinuousPass
  BY <1>2
  DEF TimedAndContinuousPass, goToTimedOnController, goToOnController, TimedOrOnStarted,
      heatVars
<1>3. CASE AutoSchedulePass
  BY <1>3
  DEF AutoSchedulePass, checkScheduledStartUntilCharged, goToAutoController, AutoStarted,
      heatVars
<1>4. CASE WebCommandsPass
  BY <1>4 DEF WebCommandsPass, StoppingController, heatVars
<1>5. CASE remoteAdmin
  BY <1>5 DEF remoteAdmin, heatVars
<1>6. CASE Surroundings
  BY <1>6
  DEF Surroundings, Reset, Booted, MainsFails, MainsReturns, TemperatureChanges,
      ScheduleMoves, CountdownMinute, ChargingMinute, ResetTimerExpires, SleepDelayPasses,
      deviceVars, heatVars
<1> QED
  BY <1>1, <1>2, <1>3, <1>4, <1>5, <1>6, OnceSmartCharging DEF Next, LoopPass

(* A controller of charging that finds the board overheated, with the      *)
(* outlets on and not flagged before, switches them off: for the heat, for *)
(* the mains or because the charge is over.                                *)
LEMMA HeatSwitches ==
    ASSUME relays, ~isOverheated, isOverheated',
           timedOnController \/ onController \/ autoController
    PROVE ~relays'
<1>1. isOverheated' = OverheatedNow => OverheatedNow /\ ~WasOverheatedNow
  BY DEF OverheatedNow, WasOverheatedNow, BecomesOverheated
<1>2. CASE timedOnController
  BY <1>1, <1>2
  DEF timedOnController, TimedOnStarts, TimedCanStart, TimedOnContinues, ACRelaysOff
<1>3. CASE onController
  BY <1>1, <1>3 DEF onController, OnStarts, OnCanStart, OnContinues, ACRelaysOff
<1>4. CASE autoController
  BY <1>1, <1>4
  DEF autoController, AutoStarts, AutoIdles, AutoCanRun, AutoContinues, ACRelaysOff
<1> QED
  BY <1>2, <1>3, <1>4

(* In timed, continuous and automatic charging, one after another, a pass  *)
(* that has found the board overheated leaves the outlets off, whatever    *)
(* was resumed, replaced, asleep or reset before. That outlets are never   *)
(* on in standby, where the temperature is looked at but nothing is        *)
(* switched, is what it takes from the resumed sessions.                   *)
THEOREM HotOutletsAreOff == ASSUME ResumingOnly PROVE Spec => []OverheatedIsOff
<1> DEFINE Cool == relays => ~isOverheated
<1>1. Init => Cool
  BY DEF Init
<1>2. OnceInv /\ PlainInv /\ Cool /\ [Next]_vars => Cool'
  <2> SUFFICES ASSUME OnceInv, PlainInv, Cool, [Next]_vars, relays', isOverheated'
               PROVE FALSE
    OBVIOUS
  <2>1. relays
    BY PlainNext DEF PlainStep, ResumingOnly
  <2>2. ~isOverheated
    BY <2>1
  <2>3. CASE Next
    <3>1. standbyController \/ timedOnController \/ onController \/ autoController
      BY <2>2, <2>3, HeatLooks
    <3>2. ~standbyController
      BY <2>1, OnceStandby DEF standbyController, Pass, StandbyIsOff
    <3> QED
      BY <2>1, <2>2, <3>1, <3>2, HeatSwitches
  <2>4. CASE UNCHANGED vars
    BY <2>2, <2>4 DEF vars, heatVars
  <2> QED
    BY <2>3, <2>4
<1>3. Cool => OverheatedIsOff
  BY DEF OverheatedIsOff
<1>4. NoSmartCharging
  BY DEF ResumingOnly
<1> QED
  BY <1>1, <1>2, <1>3, <1>4, OnceInvariant, PlainInvariant, PTL DEF Spec

-----------------------------------------------------------------------------
(* That outlets are counted when one activity follows another. Awake, each *)
(* has its own timer; and one that went to sleep with its outlets on is    *)
(* taken up under the timer that still runs.                               *)
Counting ==
    relays
    => /\ runState = D_TIMED_ON => countdown
       /\ runState \in {D_ALWAYS_ON} \cup AutoStates => charging
       /\ runState \in ToSleep
          => \/ countdown
             \/ charging /\ {param.resumeState, eeprom.resumeState} \subseteq AutoStates

(* The states it says nothing of.                                          *)
LEMMA CountingElsewhere ==
    ASSUME ~relays' \/ runState' \notin Sessions \cup AutoStates \cup ToSleep
    PROVE Counting'
  BY DEF Counting, Sessions

(* A step of something else.                                               *)
LEMMA CountingSame ==
    ASSUME Counting, UNCHANGED <<runState, relays, countdown, charging>>,
           param'.resumeState = param.resumeState,
           eeprom'.resumeState \in {eeprom.resumeState, param.resumeState}
    PROVE Counting'
  BY DEF Counting

(* Startup, standby and sleep. A countdown that runs in a sleep leads back *)
(* to timed charging, a charge timer to automatic charging.                *)
LEMMA CountingSleeps ==
    ASSUME OnceInv, Counting, StandbyAndSleepPass
    PROVE Counting'
<1> USE OnceStates, OnceResumes DEF OnceInv, OnceKept, Sessions, ToSleep, Pass
<1>1. CASE startupController \/ goToStandbyController \/ standbyController
  <2>1. /\ runState \in {D_STARTUP, D_GOTOSTANDBY, D_STANDBY} /\ relays' = relays
    BY <1>1
    DEF startupController, goToStandbyController, standbyController, relayVars
  <2>2. ~relays
    BY <2>1 DEF OnceOutletsInv, OnceRequests
  <2> QED
    BY <2>1, <2>2, CountingElsewhere
<1>2. CASE Booted
  BY <1>2, CountingElsewhere DEF Booted
<1>3. CASE restartController /\ ~Booted
  BY <1>3, CountingSame DEF restartController, relayVars, countdownVars, chargingVars, paramVars
<1>4. CASE goToSleepController
  BY <1>4 DEF goToSleepController, Counting, countdownVars, chargingVars, paramVars
<1>5. CASE sleepingController
  <2>1. runState = D_SLEEPING /\ UNCHANGED <<relays, countdown, charging>>
    BY <1>5 DEF sleepingController, countdownVars, chargingVars
  <2>2. CASE UNCHANGED <<runState, paramVars>>
    BY <2>1, <2>2, CountingSame DEF paramVars
  <2>3. CASE helperAfterSleep
    <3>1. /\ param' = eeprom /\ eeprom' = eeprom
          /\ \/ runState' = D_SLEEPING
             \/ runState' = eeprom.resumeState /\ runState' \in Sessions \cup AutoStates
      BY <2>1, <2>3 DEF helperAfterSleep, OnceStoreInv, Stored
    <3>2. CASE countdown
      <4>1. runState' \in {D_SLEEPING, D_TIMED_ON}
        BY <2>1, <3>1, <3>2 DEF OnceCountInv
      <4> QED
        BY <2>1, <3>2, <4>1 DEF Counting
    <3>3. CASE charging /\ {param.resumeState, eeprom.resumeState} \subseteq AutoStates
      <4>1. runState' \in {D_SLEEPING} \cup AutoStates
        BY <2>1, <3>1, <3>3
      <4> QED
        BY <2>1, <3>1, <3>3, <4>1 DEF Counting
    <3> QED
      BY <2>1, <3>2, <3>3, CountingElsewhere DEF Counting
  <2> QED
    BY <1>5, <2>2, <2>3 DEF sleepingController
<1>6. CASE SleepQueueDone \/ SleepConfirm
  <2>1. param'.resumeState = param.resumeState
    BY <1>6 DEF SleepQueueDone, SleepConfirm, TypeOK, StoreOK, Params, paramVars
  <2>2. eeprom' \in {eeprom, param'}
    BY <1>6 DEF SleepQueueDone, SleepConfirm, paramVars, putParameters
  <2> QED
    BY <1>6, <2>1, <2>2, CountingSame
    DEF SleepQueueDone, SleepConfirm, relayVars, countdownVars, chargingVars
<1>7. ~SleepWake /\ ~SleepStopped
  BY DEF SleepWake, SleepStopped, OnceRunInv, OnceWaits
<1> QED
  BY <1>1, <1>2, <1>3, <1>4, <1>5, <1>6, <1>7 DEF StandbyAndSleepPass, SleepBooted

(* Timed and continuous charging. The latter does not go to sleep with its *)
(* outlets on, as it has no minutes stored then and is suspended first.    *)
LEMMA CountingSessions ==
    ASSUME OnceInv, Counting, TimedAndContinuousPass
    PROVE Counting'
<1> USE OnceStates, OnceResumes DEF OnceInv, OnceKept, Sessions, ToSleep, Pass
<1>1. CASE goToTimedOnController \/ goToOnController
  <2>1. runState \in {D_GOTOTIMED_ON, D_GOTOALWAYS_ON} /\ relays' = relays
    BY <1>1 DEF goToTimedOnController, goToOnController
  <2>2. ~relays
    BY <2>1 DEF OnceOutletsInv, OnceRequests
  <2> QED
    BY <2>1, <2>2, CountingElsewhere
<1>2. CASE timedOnController
  <2>1. runState = D_TIMED_ON
    BY <1>2 DEF timedOnController
  <2>2. CASE TimedOnStarts
    BY <2>1, <2>2 DEF TimedOnStarts, starttimerCountdown, Counting
  <2>3. CASE TimedOnContinues
    <3>1. relays' => /\ relays /\ runState' \in {runState, D_GOTOSLEEP}
                     /\ countdown => countdown'
      BY <2>3 DEF TimedOnContinues, ACRelaysOff, RelaysUntouched
    <3> QED
      BY <2>1, <3>1 DEF Counting
  <2> QED
    BY <1>2, <2>2, <2>3 DEF timedOnController
<1>3. CASE onController
  <2>1. runState = D_ALWAYS_ON
    BY <1>3 DEF onController
  <2>2. CASE OnStarts
    BY <2>1, <2>2 DEF OnStarts, starttimerCharging, Counting
  <2>3. CASE OnContinues
    <3>1. relays' => relays /\ (charging => charging')
      BY <2>3 DEF OnContinues, ACRelaysOff, RelaysUntouched
    <3>2. relays => param.resumeMinutes < 0
      BY <2>1 DEF OnceOutletsInv, NoMinutes
    <3>3. relays' => runState' = runState
      BY <2>3, <3>1, <3>2 DEF OnContinues, ACRelaysOff
    <3> QED
      BY <2>1, <3>1, <3>3 DEF Counting
  <2> QED
    BY <1>3, <2>2, <2>3 DEF onController
<1>4. CASE TimedOrOnStarted
  BY <1>4, CountingSame DEF TimedOrOnStarted, countdownVars, chargingVars, paramVars
<1> QED
  BY <1>1, <1>2, <1>3, <1>4 DEF TimedAndContinuousPass

(* Automatic charging, which stores its own run state when it goes to      *)
(* sleep.                                                                  *)
LEMMA CountingAuto ==
    ASSUME OnceInv, Counting, AutoSchedulePass
    PROVE Counting'
<1> USE OnceStates, OnceResumes DEF OnceInv, OnceKept, Sessions, ToSleep, Pass
<1>t. param \in Params /\ Stored(param) /\ ~param.isOUCMonitoring
  BY DEF TypeOK, StoreOK, OnceStoreInv, Stored
<1>1. ~checkScheduledStartUntilCharged
  BY <1>t DEF checkScheduledStartUntilCharged, ScheduledStart, ScheduleOver,
              ScheduleClock, StartIsDue, ScheduledCheckRuns
<1>2. CASE goToAutoController
  <2>1. runState = D_GOTOAUTO /\ relays' = relays
    BY <1>2 DEF goToAutoController, relayVars
  <2>2. ~relays
    BY <2>1 DEF OnceOutletsInv, OnceRequests
  <2> QED
    BY <2>1, <2>2, CountingElsewhere
<1>3. CASE autoController
  <2>1. runState \in AutoStates
    BY <1>3 DEF autoController
  <2>2. CASE AutoExpires \/ AutoTimeInvalid
    <3>1. relays' => relays /\ runState' = runState /\ charging' = charging
      BY <2>2 DEF AutoExpires, AutoTimeInvalid, ACRelaysOff, RelaysUntouched, chargingVars
    <3> QED
      BY <2>1, <3>1 DEF Counting
  <2>3. CASE AutoStarts
    BY <2>3 DEF AutoStarts, starttimerCharging, Counting, AutoStates
  <2>4. CASE AutoIdles
    <3>1. relays' => relays /\ charging' = charging
      BY <2>4 DEF AutoIdles, ACRelaysOff, RelaysUntouched
    <3>2. runState' \in AutoStates
      BY <2>4 DEF AutoIdles, AutoStates
    <3> QED
      BY <2>1, <3>1, <3>2 DEF Counting
  <2>5. CASE AutoContinues
    <3>1. relays' => relays /\ (charging => charging')
      BY <2>5 DEF AutoContinues, ACRelaysOff, RelaysUntouched
    <3>2. runState' \in AutoStates \cup {D_GOTOSLEEP}
      BY <2>1, <2>5 DEF AutoContinues, AutoStates
    <3>3. relays' /\ runState' = D_GOTOSLEEP
          => param' = AutoAsleep(param, sched = "on") /\ eeprom' = param'
      BY <2>1, <2>5 DEF AutoContinues, ACRelaysOff, putParameters, AutoStates
    <3>4. AutoAsleep(param, sched = "on").resumeState \in AutoStates
      BY <1>t, OnceAutoSaves
    <3> QED
      BY <2>1, <3>1, <3>2, <3>3, <3>4 DEF Counting
  <2> QED
    BY <1>3, <2>2, <2>3, <2>4, <2>5 DEF autoController
<1>4. CASE AutoStarted
  BY <1>4, CountingSame DEF AutoStarted, countdownVars, paramVars
<1> QED
  BY <1>1, <1>2, <1>3, <1>4 DEF AutoSchedulePass

(* Commands select states it says nothing of, and their controllers switch *)
(* off or restart.                                                         *)
LEMMA CountingCommands ==
    ASSUME OnceInv, OnceInv', Counting, WebCommandsPass \/ remoteAdmin
    PROVE Counting'
<1> USE OnceStates DEF OnceInv, OnceKept, OnceRunInv, Pass
<1>1. CASE StoppingController
  <2>1. runState' \in {D_GOTOTIMED_ON, D_GOTOALWAYS_ON, D_GOTOAUTO, D_GOTOSTANDBY,
                       D_GOTOCHARGED_ON, D_GOTOCHARGED_ON_USBC}
    BY <1>1
    DEF StoppingController, webGoToTimedController, webGoToOnController,
        webGoToAutoController, webGoToChargedController, webGoToStandbyController,
        webOUCAExitController
  <2> QED
    BY <2>1, CountingElsewhere DEF ToSleep
<1>2. CASE QueueDone /\ UNCHANGED <<relayVars, countdownVars, chargingVars>>
  <2>1. CASE runState' = D_RESTART
    BY <2>1, CountingElsewhere
  <2>2. CASE UNCHANGED runState
    BY <1>2, <2>2, CountingSame
    DEF QueueDone, relayVars, countdownVars, chargingVars, paramVars
  <2> QED
    BY <1>2, <2>1, <2>2 DEF QueueDone
<1>3. CASE webGoToRestartController \/ webGoToHibernateController
  <2>1. runState' \in {D_RESTART, D_WEBGOTOHIBERNATE}
    BY <1>3 DEF webGoToRestartController, webGoToHibernateController
  <2> QED
    BY <2>1, CountingElsewhere DEF OnceRequests
<1>4. ~webGoToOUCAutoController /\ ~webGoToFactoryResetController
  BY DEF webGoToOUCAutoController, webGoToFactoryResetController
<1>5. CASE remoteAdmin
  <2>1. runState' \in WebStates
    BY <1>5
    DEF remoteAdmin, StandbyCommand, ActivityCommand, AutoOnCommand, AutoOffCommand,
        Accepted, Selected, StandbyCommands, WebStates
  <2> QED
    BY <2>1, CountingElsewhere
<1> QED
  BY <1>1, <1>2, <1>3, <1>4, <1>5 DEF WebCommandsPass

(* It holds in every reachable state.                                      *)
LEMMA CountingInvariant == ASSUME ResumingOnly PROVE Spec => []Counting
<1>1. Init => Counting
  BY DEF Init, Counting
<1>2. OnceInv /\ OnceInv' /\ Counting /\ [Next]_vars => Counting'
  <2> SUFFICES ASSUME OnceInv, OnceInv', Counting, [Next]_vars PROVE Counting'
    OBVIOUS
  <2>1. CASE LoopPass
    BY <2>1, CountingSleeps, CountingSessions, CountingAuto, CountingCommands,
       OnceSmartCharging
    DEF LoopPass
  <2>2. CASE remoteAdmin
    BY <2>2, CountingCommands
  <2>3. CASE Surroundings
    <3>1. CASE Reset
      BY <3>1, CountingElsewhere DEF Reset, Booted
    <3>2. CASE ~Reset
      <4>1. UNCHANGED <<runState, relays, countdown, charging, param, eeprom>>
        BY <2>3, <3>2
        DEF Surroundings, MainsFails, MainsReturns, TemperatureChanges, ScheduleMoves,
            CountdownMinute, ChargingMinute, ResetTimerExpires, SleepDelayPasses,
            deviceVars, relayVars, paramVars, countdownVars, chargingVars
      <4> QED
        BY <4>1, CountingSame
    <3> QED
      BY <3>1, <3>2
  <2>4. CASE UNCHANGED vars
    BY <2>4, CountingSame DEF vars, relayVars, paramVars, countdownVars, chargingVars
  <2> QED
    BY <2>1, <2>2, <2>3, <2>4 DEF Next
<1> QED
  BY <1>1, <1>2, OnceInvariant, PTL DEF Spec

(* A timed session charges only while its countdown runs, whatever the     *)
(* activities around it have left, also when it is resumed in the heat and *)
(* sleeps with its outlets on.                                             *)
THEOREM MixedTimedIsCounted == ASSUME ResumingOnly PROVE Spec => []TimedIsCounted
<1>1. Counting => TimedIsCounted
  BY DEF Counting, TimedIsCounted
<1> QED
  BY <1>1, CountingInvariant, PTL

(* And the charge timer runs while continuous or automatic charging holds  *)
(* the outlets on.                                                         *)
THEOREM MixedIsCounted == ASSUME ResumingOnly PROVE Spec => []ChargeIsCounted
<1>1. OnceInv /\ Counting => ChargeIsCounted
  <2>1. ASSUME OnceInv PROVE runState \notin SmartACStates
    BY <2>1, OnceStates DEF SmartACStates, OnceInv, OnceKept, OnceRunInv
  <2> QED
    BY <2>1 DEF Counting, ChargeIsCounted, AutoStates
<1> QED
  BY <1>1, CountingInvariant, OnceInvariant, PTL
=============================================================================
