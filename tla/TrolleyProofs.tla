--------------------------- MODULE TrolleyProofs ---------------------------
(***************************************************************************)
(* Theorems about the trolley for every value of the constants.            *)
(***************************************************************************)
EXTENDS TrolleyProperties, TLAPS

-----------------------------------------------------------------------------
(* The numbers of the firmware are what the type invariant allows.         *)
LEMMA RunStateNumbers ==
    /\ D_STARTUP \in DeviceRunStates /\ D_STANDBY \in DeviceRunStates
    /\ D_TIMED_ON \in DeviceRunStates /\ D_AUTO_OFF \in DeviceRunStates
    /\ D_AUTO_ON \in DeviceRunStates /\ D_ALWAYS_ON \in DeviceRunStates
    /\ D_SLEEPING \in DeviceRunStates /\ D_CHARGED_ON \in DeviceRunStates
    /\ D_CHARGED_ON_USBC \in DeviceRunStates /\ D_GOTOSTANDBY \in DeviceRunStates
    /\ D_GOTOTIMED_ON \in DeviceRunStates /\ D_GOTOAUTO \in DeviceRunStates
    /\ D_GOTOALWAYS_ON \in DeviceRunStates /\ D_GOTOSLEEP \in DeviceRunStates
    /\ D_GOTOCHARGED_ON \in DeviceRunStates
    /\ D_GOTOCHARGED_ON_USBC \in DeviceRunStates
    /\ D_CHARGED_ON_AUTO \in DeviceRunStates
    /\ D_CHARGED_ON_USBC_AUTO \in DeviceRunStates /\ D_RESTART \in DeviceRunStates
    /\ D_GOTOCHARGED_ON_AUTO \in DeviceRunStates
    /\ D_GOTOCHARGED_ON_USBC_AUTO \in DeviceRunStates
    /\ WebStates \subseteq DeviceRunStates /\ AUTOANDOFF \in DeviceRunStates
    /\ 0 \in DeviceRunStates
  BY DEF DeviceRunStates, ChargingStates, GotoStates, WebStates, AutoStates,
         SmartACStates, SmartUSBCStates, D_STARTUP, D_STANDBY, D_TIMED_ON, D_AUTO_OFF,
         D_AUTO_ON, D_ALWAYS_ON, D_SLEEPING, D_CHARGED_ON, D_CHARGED_ON_USBC,
         D_GOTOSTANDBY, D_GOTOTIMED_ON, D_GOTOAUTO, D_GOTOALWAYS_ON, D_GOTOSLEEP,
         D_GOTOCHARGED_ON, D_GOTOCHARGED_ON_USBC, D_CHARGED_ON_AUTO,
         D_CHARGED_ON_USBC_AUTO, D_RESTART, D_GOTOCHARGED_ON_AUTO,
         D_GOTOCHARGED_ON_USBC_AUTO, AUTOANDOFF, D_WEBOUCAUTO

(* So are the power states, charge states, phases, causes and waits.       *)
LEMMA ConstantNumbers ==
    /\ 0 \in PowerStates /\ W_MAINS_OFF \in PowerStates
    /\ W_MAINS_ON \in PowerStates /\ W_CHARGING \in PowerStates
    /\ C_NOT_CHARGING \in ChargeStates /\ C_CHARGING \in ChargeStates
    /\ C_CHARGING_FULL \in ChargeStates /\ C_RATE_CHARGING \in ChargeStates
    /\ C_CHARGING_DONE \in ChargeStates /\ C_CHARGING_ENDED \in ChargeStates
    /\ ON_UNTIL_OFF \in OucStates /\ ON_UNTIL_AUTO \in OucStates
    /\ ON_UNTIL_USBC \in OucStates /\ ON_UNTIL_SS \in OucStates
    /\ ON_UNTIL_WARM \in OucStates /\ ON_UNTIL_CHARGE \in OucStates
    /\ ON_UNTIL_END \in OucStates
    /\ 0 \in ResumeCauses /\ RESUME_MAINS_OFF \in ResumeCauses
    /\ RESUME_OVERHEAT \in ResumeCauses /\ RESTART_WEBCMD \in ResumeCauses
    /\ RESTART_HARD_RESET \in ResumeCauses /\ RESTART_HIBERNATE \in ResumeCauses
    /\ RESTART_DEEP_POWER_DOWN \in ResumeCauses
    /\ {"no", "scheduled", "confirm", "wake", "booting", "woken", "queue",
        "resetQueue", "hibernateQueue", "hibernate", "stop"} \subseteq Waits
    /\ {"timed", "on", "auto", "smart", "smartAuto", "smartAgain", "usbc",
        "usbcAuto", "usbcAgain"} \subseteq Waits
  BY DEF PowerStates, ChargeStates, OucStates, ResumeCauses, Waits, SoftStarts,
         QueueWaits, Asleep

(* Whatever was saved, the run state picked after a reset has a            *)
(* controller.                                                             *)
LEMMA PowerOnSelects ==
    ASSUME NEW p, NEW r
    PROVE powerOnStateSelection(p, r) \in DeviceRunStates
  BY RunStateNumbers DEF powerOnStateSelection, LastStateSelection

(* The supply check returns one of its three values.                       *)
LEMMA SupplyIsPowerState ==
    /\ powerStateCheck \in PowerStates
    /\ powerStateCheck \in {W_MAINS_OFF, W_MAINS_ON, W_CHARGING}
  BY ConstantNumbers DEF powerStateCheck

(* The overheat check leaves two flags.                                    *)
LEMMA HeatFlags == OverheatedNow \in BOOLEAN /\ WasOverheatedNow \in BOOLEAN
  BY DEF OverheatedNow, WasOverheatedNow

(* A minute more is still a count.                                         *)
LEMMA CountedIsNat == ASSUME NEW m \in Nat PROVE Counted(m) \in Nat
  BY DEF Counted

(* The mark for no saved minutes, -1, never becomes a count.               *)
LEMMA ResumedMinutesIsNat == ASSUME param \in Params PROVE ResumedMinutes \in Nat
  BY DEF Params, ResumedMinutes

(* The fields of a parameter block.                                        *)
LEMMA ParamsFields ==
    ASSUME NEW p \in Params
    PROVE /\ p.resumeState \in DeviceRunStates /\ p.resumeMinutes \in Int
          /\ p.resumeCause \in ResumeCauses
          /\ p.isAuto \in BOOLEAN /\ p.isOUCMonitoring \in BOOLEAN
  BY DEF Params

(* Saving a session keeps the block a parameter block.                     *)
LEMMA ParamsUpdates ==
    ASSUME NEW p \in Params, NEW s \in DeviceRunStates, NEW m \in Int,
           NEW c \in ResumeCauses
    PROVE /\ WithMinutes(p, m, c) \in Params
          /\ WithSession(p, s, m, c) \in Params
<1>1. WithMinutes(p, m, c) \in Params
  BY DEF Params, WithMinutes
<1> QED
  BY <1>1 DEF Params, WithSession

(* The factory settings are a parameter block.                             *)
LEMMA DefaultParamsType == DefaultParams \in Params
<1>1. /\ D_STARTUP \in DeviceRunStates /\ -1 \in Int
      /\ 0 \in ResumeCauses /\ FALSE \in BOOLEAN
  BY RunStateNumbers, ConstantNumbers
<1> QED
  BY <1>1, Zenon DEF DefaultParams, Params

(* So is a block whose session has been cleared.                           *)
LEMMA WithoutResumeDataType ==
    ASSUME NEW p \in Params
    PROVE WithoutResumeData(p) \in Params
  BY RunStateNumbers, ConstantNumbers, ParamsUpdates DEF WithoutResumeData

(* The fields of a written parameter block.                                *)
LEMMA WrittenFields ==
    ASSUME NEW p \in Params, NEW s, NEW m, NEW c
    PROVE /\ WithMinutes(p, m, c).resumeState = p.resumeState
          /\ WithMinutes(p, m, c).resumeMinutes = m
          /\ WithMinutes(p, m, c).isAuto = p.isAuto
          /\ WithMinutes(p, m, c).isOUCMonitoring = p.isOUCMonitoring
          /\ WithSession(p, s, m, c).resumeState = s
          /\ WithSession(p, s, m, c).resumeMinutes = m
          /\ WithSession(p, s, m, c).isAuto = p.isAuto
          /\ WithSession(p, s, m, c).isOUCMonitoring = p.isOUCMonitoring
  BY DEF Params, WithMinutes, WithSession

-----------------------------------------------------------------------------
(* A reset.                                                                *)
LEMMA BootedType ==
    ASSUME TypeOK, Booted
    PROVE TypeOK'
  BY RunStateNumbers, ConstantNumbers
  DEF TypeOK, RunStateOK, OutletsOK, MinutesOK, StoreOK, FlagsOK, SurroundingsOK,
      Booted, envVars

(* The controllers of startup, restart, standby and sleep.                 *)
LEMMA StandbyAndSleepType ==
    ASSUME TypeOK, StandbyAndSleepPass
    PROVE TypeOK'
<1> USE RunStateNumbers, ConstantNumbers, SupplyIsPowerState, HeatFlags
    DEF TypeOK, RunStateOK, OutletsOK, MinutesOK, StoreOK, FlagsOK, SurroundingsOK,
        relayVars, heatVars, countdownVars, chargingVars, paramVars, envVars,
        scheduleVars, putParameters
<1>1. CASE startupController
  BY <1>1, PowerOnSelects DEF startupController
<1>2. CASE restartController
  BY <1>2, BootedType DEF restartController
<1>3. CASE goToStandbyController
  <2>1. RunStateOK'
    BY <1>3 DEF goToStandbyController
  <2>2. OutletsOK'
    BY <1>3 DEF goToStandbyController
  <2>3. MinutesOK'
    BY <1>3 DEF goToStandbyController
  <2>4. StoreOK'
    BY <1>3, ParamsUpdates DEF goToStandbyController
  <2>5. FlagsOK'
    BY <1>3 DEF goToStandbyController
  <2>6. SurroundingsOK'
    BY <1>3 DEF goToStandbyController
  <2> QED
    BY <2>1, <2>2, <2>3, <2>4, <2>5, <2>6
<1>4. CASE standbyController
  <2>1. RunStateOK'
    BY <1>4 DEF standbyController
  <2>2. OutletsOK'
    BY <1>4 DEF standbyController
  <2>3. MinutesOK'
    BY <1>4 DEF standbyController
  <2>4. StoreOK'
    BY <1>4, ParamsUpdates DEF standbyController
  <2>5. FlagsOK'
    BY <1>4 DEF standbyController
  <2>6. SurroundingsOK'
    BY <1>4 DEF standbyController
  <2> QED
    BY <2>1, <2>2, <2>3, <2>4, <2>5, <2>6
<1>5. CASE goToSleepController
  BY <1>5 DEF goToSleepController
<1>6. CASE sleepingController
  <2>1. RunStateOK'
    BY <1>6, ParamsFields DEF sleepingController, helperAfterSleep
  <2>2. OutletsOK'
    BY <1>6 DEF sleepingController, helperAfterSleep
  <2>3. MinutesOK'
    BY <1>6 DEF sleepingController, helperAfterSleep
  <2>4. StoreOK'
    BY <1>6 DEF sleepingController, helperAfterSleep
  <2>5. FlagsOK'
    BY <1>6 DEF sleepingController, helperAfterSleep
  <2>6. SurroundingsOK'
    BY <1>6 DEF sleepingController, helperAfterSleep
  <2> QED
    BY <2>1, <2>2, <2>3, <2>4, <2>5, <2>6
<1>7. CASE SleepQueueDone
  <2>1. RunStateOK'
    BY <1>7 DEF SleepQueueDone
  <2>2. OutletsOK'
    BY <1>7 DEF SleepQueueDone
  <2>3. MinutesOK'
    BY <1>7 DEF SleepQueueDone
  <2>4. StoreOK'
    BY <1>7 DEF SleepQueueDone, Params
  <2>5. FlagsOK'
    BY <1>7 DEF SleepQueueDone
  <2>6. SurroundingsOK'
    BY <1>7 DEF SleepQueueDone
  <2> QED
    BY <2>1, <2>2, <2>3, <2>4, <2>5, <2>6
<1>8. CASE SleepConfirm
  BY <1>8 DEF SleepConfirm
<1>9. CASE SleepWake
  <2>1. RunStateOK'
    BY <1>9, ParamsFields DEF SleepWake, ResumeOrStandby
  <2>2. OutletsOK'
    BY <1>9 DEF SleepWake, ResumeOrStandby
  <2>3. MinutesOK'
    BY <1>9 DEF SleepWake, ResumeOrStandby
  <2>4. StoreOK'
    BY <1>9 DEF SleepWake, Params
  <2>5. FlagsOK'
    BY <1>9 DEF SleepWake, ResumeOrStandby
  <2>6. SurroundingsOK'
    BY <1>9 DEF SleepWake, ResumeOrStandby
  <2> QED
    BY <2>1, <2>2, <2>3, <2>4, <2>5, <2>6
<1>10. CASE SleepStopped
  <2>1. RunStateOK'
    BY <1>10, ParamsFields DEF SleepStopped, ResumeOrStandby
  <2>2. OutletsOK'
    BY <1>10 DEF SleepStopped, ResumeOrStandby
  <2>3. MinutesOK'
    BY <1>10 DEF SleepStopped, ResumeOrStandby
  <2>4. StoreOK'
    BY <1>10 DEF SleepStopped, ResumeOrStandby
  <2>5. FlagsOK'
    BY <1>10 DEF SleepStopped, ResumeOrStandby
  <2>6. SurroundingsOK'
    BY <1>10 DEF SleepStopped, ResumeOrStandby
  <2> QED
    BY <2>1, <2>2, <2>3, <2>4, <2>5, <2>6
<1>11. CASE SleepBooted
  BY <1>11, BootedType DEF SleepBooted
<1> QED
  BY <1>1, <1>2, <1>3, <1>4, <1>5, <1>6, <1>7, <1>8, <1>9, <1>10, <1>11
  DEF StandbyAndSleepPass

(* Timed and continuous charging.                                          *)
LEMMA TimedAndContinuousType ==
    ASSUME TypeOK, TimedAndContinuousPass
    PROVE TypeOK'
<1> USE RunStateNumbers, ConstantNumbers, SupplyIsPowerState, HeatFlags
    DEF TypeOK, RunStateOK, OutletsOK, MinutesOK, StoreOK, FlagsOK, SurroundingsOK,
        relayVars, heatVars, countdownVars, chargingVars, paramVars, envVars,
        scheduleVars, putParameters
<1>1. CASE goToTimedOnController
  <2>1. RunStateOK'
    BY <1>1 DEF goToTimedOnController, initTimers
  <2>2. OutletsOK'
    BY <1>1 DEF goToTimedOnController, initTimers
  <2>3. MinutesOK'
    BY <1>1, ResumedMinutesIsNat DEF goToTimedOnController, initTimers
  <2>4. StoreOK'
    BY <1>1 DEF goToTimedOnController, initTimers
  <2>5. FlagsOK'
    BY <1>1 DEF goToTimedOnController, initTimers
  <2>6. SurroundingsOK'
    BY <1>1 DEF goToTimedOnController, initTimers
  <2> QED
    BY <2>1, <2>2, <2>3, <2>4, <2>5, <2>6
<1>2. CASE timedOnController
  <2>1. TimedMinutes \in Nat
    BY CountedIsNat DEF TimedMinutes
  <2>2. RunStateOK'
    BY <1>2 DEF timedOnController, TimedOnStarts, TimedOnContinues, ACRelaysOn
  <2>3. OutletsOK'
    BY <1>2 DEF timedOnController, TimedOnStarts, TimedOnContinues, ACRelaysOn,
             ACRelaysOff, RelaysUntouched
  <2>4. MinutesOK'
    BY <1>2, <2>1 DEF timedOnController
  <2>5. StoreOK'
    BY <1>2, <2>1, ParamsUpdates, WithoutResumeDataType
    DEF timedOnController, TimedOnStarts, TimedOnContinues, helperCleanUpResumeData
  <2>6. FlagsOK'
    <3>1. CASE TimedOnStarts
      BY <1>2, <3>1 DEF timedOnController, TimedOnStarts, starttimerCountdown,
                     ResumedWasOverheated
    <3>2. CASE TimedOnContinues
      BY <1>2, <3>2 DEF timedOnController, TimedOnContinues
    <3> QED
      BY <1>2, <3>1, <3>2 DEF timedOnController
  <2>7. SurroundingsOK'
    BY <1>2 DEF timedOnController, TimedOnStarts, TimedOnContinues
  <2> QED
    BY <2>2, <2>3, <2>4, <2>5, <2>6, <2>7
<1>3. CASE goToOnController
  <2>1. RunStateOK'
    BY <1>3 DEF goToOnController, initTimers
  <2>2. OutletsOK'
    BY <1>3 DEF goToOnController, initTimers
  <2>3. MinutesOK'
    BY <1>3, ResumedMinutesIsNat DEF goToOnController, initTimers
  <2>4. StoreOK'
    BY <1>3 DEF goToOnController, initTimers
  <2>5. FlagsOK'
    BY <1>3 DEF goToOnController, initTimers
  <2>6. SurroundingsOK'
    BY <1>3 DEF goToOnController, initTimers
  <2> QED
    BY <2>1, <2>2, <2>3, <2>4, <2>5, <2>6
<1>4. CASE onController
  <2>1. OnMinutes \in Nat
    BY CountedIsNat DEF OnMinutes
  <2>2. RunStateOK'
    BY <1>4 DEF onController, OnStarts, OnContinues, ACRelaysOn
  <2>3. OutletsOK'
    BY <1>4 DEF onController, OnStarts, OnContinues, ACRelaysOn, ACRelaysOff,
             RelaysUntouched
  <2>4. MinutesOK'
    BY <1>4, <2>1, ParamsFields DEF onController, OnStarts, OnContinues
  <2>5. StoreOK'
    BY <1>4, <2>1, ParamsUpdates, WithoutResumeDataType
    DEF onController, OnStarts, OnContinues, helperCleanUpResumeData
  <2>6. FlagsOK'
    <3>1. CASE OnStarts
      BY <1>4, <3>1 DEF onController, OnStarts, starttimerCharging, ResumedWasOverheated
    <3>2. CASE OnContinues
      BY <1>4, <3>2 DEF onController, OnContinues
    <3> QED
      BY <1>4, <3>1, <3>2 DEF onController
  <2>7. SurroundingsOK'
    BY <1>4 DEF onController, OnStarts, OnContinues
  <2> QED
    BY <2>2, <2>3, <2>4, <2>5, <2>6, <2>7
<1>5. CASE TimedOrOnStarted
  BY <1>5 DEF TimedOrOnStarted
<1> QED
  BY <1>1, <1>2, <1>3, <1>4, <1>5
  DEF TimedAndContinuousPass

(* What automatic charging saves keeps the block a parameter block.        *)
LEMMA AutoSaves ==
    ASSUME TypeOK, NEW p \in Params, NEW c \in ResumeCauses, NEW b \in BOOLEAN
    PROVE AutoSuspended(p, c, b) \in Params /\ AutoAsleep(p, b) \in Params
<1> USE RunStateNumbers DEF TypeOK, MinutesOK
<1>1. AutoSuspended(p, c, b) \in Params
  <2> DEFINE q == [p EXCEPT !.isAuto = p.isAuto /\ ~b]
             s == IF b THEN D_AUTO_ON ELSE D_AUTO_OFF
  <2>1. q \in Params
    BY Zenon DEF Params
  <2>2. s \in DeviceRunStates /\ chargeMins \in Int
    OBVIOUS
  <2>3. AutoSuspended(p, c, b) = WithSession(q, s, chargeMins, c)
    BY DEF AutoSuspended
  <2> HIDE DEF q, s
  <2> QED
    BY <2>1, <2>2, <2>3, ParamsUpdates
<1>2. AutoAsleep(p, b) \in Params
  BY ParamsUpdates, ParamsFields DEF AutoAsleep
<1> QED
  BY <1>1, <1>2

(* Automatic charging and the schedule.                                    *)
LEMMA AutoScheduleType ==
    ASSUME TypeOK, AutoSchedulePass
    PROVE TypeOK'
<1> USE RunStateNumbers, ConstantNumbers, SupplyIsPowerState, HeatFlags
    DEF TypeOK, RunStateOK, OutletsOK, MinutesOK, StoreOK, FlagsOK, SurroundingsOK,
        relayVars, heatVars, countdownVars, chargingVars, paramVars, envVars,
        scheduleVars, putParameters
<1>1. CASE checkScheduledStartUntilCharged
  <2>1. RunStateOK'
    BY <1>1 DEF checkScheduledStartUntilCharged,
       ScheduledStart, ScheduleOver, ScheduleClock
  <2>2. OutletsOK'
    BY <1>1 DEF checkScheduledStartUntilCharged,
       ScheduledStart, ScheduleOver, ScheduleClock
  <2>3. MinutesOK'
    BY <1>1 DEF checkScheduledStartUntilCharged,
       ScheduledStart, ScheduleOver, ScheduleClock
  <2>4. StoreOK'
    BY <1>1 DEF checkScheduledStartUntilCharged,
       ScheduledStart, ScheduleOver, ScheduleClock, Params
  <2>5. FlagsOK'
    BY <1>1 DEF checkScheduledStartUntilCharged,
       ScheduledStart, ScheduleOver, ScheduleClock
  <2>6. SurroundingsOK'
    BY <1>1 DEF checkScheduledStartUntilCharged,
       ScheduledStart, ScheduleOver, ScheduleClock
  <2> QED
    BY <2>1, <2>2, <2>3, <2>4, <2>5, <2>6
<1>2. CASE goToAutoController
  <2>1. RunStateOK'
    BY <1>2 DEF goToAutoController
  <2>2. OutletsOK'
    BY <1>2 DEF goToAutoController
  <2>3. MinutesOK'
    BY <1>2 DEF goToAutoController
  <2>4. StoreOK'
    BY <1>2 DEF goToAutoController
  <2>5. FlagsOK'
    BY <1>2 DEF goToAutoController
  <2>6. SurroundingsOK'
    BY <1>2 DEF goToAutoController
  <2> QED
    BY <2>1, <2>2, <2>3, <2>4, <2>5, <2>6
<1>3. CASE autoController
  <2> USE DEF autoController
  <2>1. RunStateOK'
    BY <1>3 DEF AutoExpires, AutoTimeInvalid, AutoStarts, AutoIdles, AutoContinues, ACRelaysOn
  <2>2. OutletsOK'
    BY <1>3 DEF AutoExpires, AutoTimeInvalid, AutoStarts, AutoIdles, AutoContinues, ACRelaysOn,
             ACRelaysOff, RelaysUntouched
  <2>3. MinutesOK'
    <3>1. CASE AutoExpires \/ AutoTimeInvalid
      BY <1>3, <3>1 DEF AutoExpires, AutoTimeInvalid
    <3>2. CASE AutoStarts
      BY <1>3, <3>2, ParamsFields DEF AutoStarts
    <3>3. CASE AutoIdles
      BY <1>3, <3>3 DEF AutoIdles
    <3>4. CASE AutoContinues
      BY <1>3, <3>4, CountedIsNat DEF AutoContinues
    <3> QED
      BY <1>3, <3>1, <3>2, <3>3, <3>4
  <2>4. StoreOK'
    <3>1. CASE AutoContinues
      BY <3>1, AutoSaves DEF AutoContinues
    <3> QED
      BY <1>3, <3>1, WithoutResumeDataType
      DEF AutoExpires, AutoTimeInvalid, AutoStarts, AutoIdles, AutoResumes,
          helperCleanUpResumeData
  <2>5. FlagsOK'
    BY <1>3 DEF AutoExpires, AutoTimeInvalid, AutoStarts, AutoIdles, AutoResumes,
             AutoContinues, starttimerCharging
  <2>6. SurroundingsOK'
    BY <1>3 DEF AutoExpires, AutoTimeInvalid, AutoStarts, AutoIdles, AutoResumes, AutoContinues
  <2> QED
    BY <2>1, <2>2, <2>3, <2>4, <2>5, <2>6
<1>4. CASE AutoStarted
  <2>1. RunStateOK'
    BY <1>4 DEF AutoStarted
  <2>2. OutletsOK'
    BY <1>4 DEF AutoStarted
  <2>3. MinutesOK'
    BY <1>4, CountedIsNat DEF AutoStarted
  <2>4. StoreOK'
    BY <1>4 DEF AutoStarted
  <2>5. FlagsOK'
    BY <1>4 DEF AutoStarted
  <2>6. SurroundingsOK'
    BY <1>4 DEF AutoStarted
  <2> QED
    BY <2>1, <2>2, <2>3, <2>4, <2>5, <2>6
<1> QED
  BY <1>1, <1>2, <1>3, <1>4
  DEF AutoSchedulePass

(* The helpers of smart charging.                                          *)
LEMMA SmartHelpers ==
    ASSUME TypeOK
    PROVE /\ SmartMinutes \in Nat
          /\ \A cs \in ChargeStates : determineChargeState(cs) \subseteq ChargeStates
          /\ \A cs \in ChargeStates :
                \A look \in HubLooks(cs) : look[1] \in OucStates /\ look[2] \in ChargeStates
          /\ \A p \in Params, rs \in DeviceRunStates : SmartSuspended(p, rs) \in Params
<1> USE RunStateNumbers, ConstantNumbers DEF TypeOK, RunStateOK, MinutesOK
<1>1. SmartMinutes \in Nat
  BY CountedIsNat DEF SmartMinutes
<1>2. \A cs \in ChargeStates : determineChargeState(cs) \subseteq ChargeStates
  BY DEF determineChargeState
<1>3. ASSUME NEW cs \in ChargeStates, NEW look \in HubLooks(cs)
      PROVE look[1] \in OucStates /\ look[2] \in ChargeStates
  BY <1>3 DEF HubLooks
<1>4. ASSUME NEW p \in Params, NEW rs \in DeviceRunStates
      PROVE SmartSuspended(p, rs) \in Params
  <2>1. [p EXCEPT !.isAuto = FALSE] \in Params
    BY Zenon DEF Params
  <2>2. WithSession(p, rs, SmartMinutes, p.resumeCause) \in Params
    BY <1>1, ParamsUpdates, ParamsFields
  <2> QED
    BY <2>1, <2>2, Zenon DEF SmartSuspended
<1> QED
  BY <1>1, <1>2, <1>3, <1>4

(* Every smart charge starts in the same way.                              *)
LEMMA GoToSmartType ==
    ASSUME TypeOK, NEW requested, NEW scheduled, NEW ouc \in OucStates,
           NEW wait \in Waits, NEW waitAuto \in Waits,
           GoToSmart(requested, scheduled, ouc, wait, waitAuto)
    PROVE TypeOK'
<1> USE RunStateNumbers, ConstantNumbers, SupplyIsPowerState
    DEF TypeOK, RunStateOK, OutletsOK, MinutesOK, StoreOK, FlagsOK, SurroundingsOK,
        relayVars, heatVars, countdownVars, chargingVars, paramVars, envVars,
        scheduleVars, putParameters
<1> USE DEF GoToSmart
<1>1. RunStateOK'
  BY DEF ACRelaysOn
<1>2. OutletsOK'
  BY DEF ACRelaysOn
<1>3. MinutesOK'
  <2>1. CASE mains
    BY <2>1
  <2>2. CASE ~mains
    BY <2>2
  <2> QED
    BY <2>1, <2>2
<1>4. StoreOK'
  OBVIOUS
<1>5. FlagsOK'
  BY DEF StopReplaced, stoptimerCountdown, stoptimerCharging
<1>6. SurroundingsOK'
  OBVIOUS
<1> QED
  BY <1>1, <1>2, <1>3, <1>4, <1>5, <1>6

(* And a suspended one restarts in the same way.                           *)
LEMMA SmartRestartsType ==
    ASSUME TypeOK, NEW auto, NEW goToAuto \in DeviceRunStates,
           NEW goTo \in DeviceRunStates, NEW wait \in Waits,
           SmartRestarts(auto, goToAuto, goTo, wait),
           UNCHANGED <<isOverheated, countdownVars, resetTimer, envVars, scheduleVars>>
    PROVE TypeOK'
<1> USE RunStateNumbers, ConstantNumbers, SupplyIsPowerState
    DEF TypeOK, RunStateOK, OutletsOK, MinutesOK, StoreOK, FlagsOK, SurroundingsOK,
        relayVars, heatVars, countdownVars, chargingVars, paramVars, envVars,
        scheduleVars, putParameters
<1> USE DEF SmartRestarts
<1>1. RunStateOK'
  BY DEF ACRelaysOn
<1>2. OutletsOK'
  BY DEF ACRelaysOn
<1>3. MinutesOK'
  <2>1. SmartMinutes \in Nat /\ param.resumeMinutes \in Int
    BY SmartHelpers, ParamsFields
  <2>2. CASE param.resumeMinutes >= 0 /\ wasOverheated
    BY <2>1, <2>2
  <2>3. CASE ~(param.resumeMinutes >= 0 /\ wasOverheated)
    BY <2>1, <2>3
  <2> QED
    BY <2>2, <2>3
<1>4. StoreOK'
  BY WithoutResumeDataType DEF helperCleanUpResumeData
<1>5. FlagsOK'
  <2>1. wasOverheated' \in BOOLEAN
    OBVIOUS
  <2> QED
    BY <2>1 DEF starttimerCharging
<1>6. SurroundingsOK'
  OBVIOUS
<1> QED
  BY <1>1, <1>2, <1>3, <1>4, <1>5, <1>6

(* Smart charging.                                                         *)
LEMMA SmartChargingType ==
    ASSUME TypeOK, SmartChargingPass
    PROVE TypeOK'
<1> USE RunStateNumbers, ConstantNumbers, SupplyIsPowerState
    DEF TypeOK, RunStateOK, OutletsOK, MinutesOK, StoreOK, FlagsOK, SurroundingsOK,
        relayVars, heatVars, countdownVars, chargingVars, paramVars, envVars,
        scheduleVars, putParameters
<1>1. CASE goToChargedOnAutoController
  BY <1>1, GoToSmartType DEF goToChargedOnAutoController
<1>2. CASE chargedOnController
  <2>1. CASE ChargedOnContinues
    <3> USE <1>2, <2>1, SmartHelpers DEF chargedOnController, ChargedOnContinues
    <3>1. RunStateOK'
      OBVIOUS
    <3>2. OutletsOK'
      BY DEF ACRelaysOff
    <3>3. MinutesOK'
      OBVIOUS
    <3>4. StoreOK'
      <4>1. \A rs \in DeviceRunStates : WithSession(param, rs, 0, RESUME_MAINS_OFF) \in Params
        BY ParamsUpdates
      <4> QED
        BY <4>1
    <3>5. FlagsOK'
      OBVIOUS
    <3>6. SurroundingsOK'
      OBVIOUS
    <3> QED
      BY <3>1, <3>2, <3>3, <3>4, <3>5, <3>6
  <2> QED
    BY <1>2, <2>1, SmartRestartsType DEF chargedOnController
<1>3. CASE goToChargedOnUSBCAutoController
  BY <1>3, GoToSmartType DEF goToChargedOnUSBCAutoController
<1>4. CASE chargedOnUSBCController
  <2>1. CASE ChargedOnUSBCContinues
    <3>1. PICK look \in OucStates \X ChargeStates :
            /\ oucState' = look[1]
            /\ chargeState' \in {C_NOT_CHARGING, look[2]}
            /\ charging' \in BOOLEAN
      <4>1. \A cs \in ChargeStates : HubLooks(cs) \subseteq OucStates \X ChargeStates
        BY SmartHelpers DEF HubLooks
      <4> QED
        BY <2>1, <4>1 DEF ChargedOnUSBCContinues
    <3>2. RunStateOK'
      BY <1>4, <2>1, <3>1 DEF chargedOnUSBCController, ChargedOnUSBCContinues
    <3>3. OutletsOK'
      BY <2>1, <3>1 DEF ChargedOnUSBCContinues
    <3>4. MinutesOK'
      BY <1>4, <2>1, SmartHelpers DEF chargedOnUSBCController, ChargedOnUSBCContinues
    <3>5. StoreOK'
      <4>1. ASSUME NEW rs \in DeviceRunStates
            PROVE WithSession(param, rs, 0, param.resumeCause) \in Params
        BY ParamsUpdates, ParamsFields
      <4>2. ASSUME NEW rs \in DeviceRunStates
            PROVE SmartSuspended(WithSession(param, rs, param.resumeMinutes,
                                             param.resumeCause), rs) \in Params
        BY SmartHelpers, ParamsUpdates, ParamsFields
      <4> QED
        BY <2>1, <4>1, <4>2, SmartHelpers DEF ChargedOnUSBCContinues
    <3>6. FlagsOK'
      BY <1>4, <2>1, <3>1 DEF chargedOnUSBCController, ChargedOnUSBCContinues
    <3>7. SurroundingsOK'
      BY <1>4, <2>1 DEF chargedOnUSBCController, ChargedOnUSBCContinues
    <3> QED
      BY <3>2, <3>3, <3>4, <3>5, <3>6, <3>7
  <2> QED
    BY <1>4, <2>1, SmartRestartsType DEF chargedOnUSBCController
<1>5. CASE SmartStarted
  <2>1. RunStateOK'
    BY <1>5 DEF SmartStarted, starttimerCharging
  <2>2. OutletsOK'
    BY <1>5 DEF SmartStarted, starttimerCharging
  <2>3. MinutesOK'
    BY <1>5 DEF SmartStarted, starttimerCharging
  <2>4. StoreOK'
    BY <1>5 DEF SmartStarted, starttimerCharging
  <2>5. FlagsOK'
    BY <1>5 DEF SmartStarted, starttimerCharging
  <2>6. SurroundingsOK'
    BY <1>5 DEF SmartStarted, starttimerCharging
  <2> QED
    BY <2>1, <2>2, <2>3, <2>4, <2>5, <2>6
<1>6. CASE SmartStartedAgain
  BY <1>6 DEF SmartStartedAgain
<1> QED
  BY <1>1, <1>2, <1>3, <1>4, <1>5, <1>6
  DEF SmartChargingPass

(* Commands.                                                               *)
LEMMA CommandType ==
    ASSUME TypeOK, remoteAdmin
    PROVE TypeOK'
<1> USE RunStateNumbers, ConstantNumbers
    DEF TypeOK, RunStateOK, OutletsOK, MinutesOK, StoreOK, FlagsOK, SurroundingsOK,
        relayVars, heatVars, countdownVars, chargingVars, paramVars, envVars,
        scheduleVars, putParameters
<1>1. \A c \in StandbyCommands : Selected(c) \in DeviceRunStates
  BY DEF StandbyCommands, Selected, WebStates
<1>2. RunStateOK'
  <2>1. CASE \E c \in Commands \cap StandbyCommands : ActivityCommand(c)
    BY <1>1, <2>1 DEF remoteAdmin, ActivityCommand, Accepted
  <2> QED
    BY <2>1 DEF remoteAdmin, StandbyCommand, AutoOnCommand, AutoOffCommand, Accepted,
                WebStates
<1>3. StoreOK'
  <2>1. CASE AutoOffCommand
    <3> DEFINE q == [param EXCEPT !.isAuto = FALSE]
    <3>1. q \in Params
      BY Zenon DEF Params
    <3>2. [q EXCEPT !.isOUCMonitoring = FALSE] \in Params
      BY <3>1, Zenon DEF Params
    <3>3. param' = [q EXCEPT !.isOUCMonitoring = FALSE] /\ eeprom' = param'
      BY <2>1, Zenon DEF AutoOffCommand
    <3> QED
      BY <3>2, <3>3, Zenon
  <2> QED
    BY <2>1 DEF remoteAdmin, StandbyCommand, ActivityCommand, AutoOnCommand
<1> QED
  BY <1>2, <1>3 DEF remoteAdmin

(* The controllers that carry the commands out.                            *)
LEMMA WebCommandsType ==
    ASSUME TypeOK, WebCommandsPass
    PROVE TypeOK'
<1> USE RunStateNumbers, ConstantNumbers, SupplyIsPowerState
    DEF TypeOK, RunStateOK, OutletsOK, MinutesOK, StoreOK, FlagsOK, SurroundingsOK,
        relayVars, heatVars, countdownVars, chargingVars, paramVars, envVars,
        scheduleVars, putParameters
<1>1. CASE StoppingController
  <2>1. RunStateOK'
    BY <1>1 DEF StoppingController, webGoToTimedController, webGoToOnController,
             webGoToAutoController, webGoToChargedController, webGoToStandbyController,
             webOUCAExitController
  <2>2. /\ OutletsOK' /\ countdown' \in BOOLEAN /\ istimerCountdown_ended' \in BOOLEAN
        /\ isUpdateCountdown' \in BOOLEAN /\ charging' \in BOOLEAN
        /\ isUpdateTimer' \in BOOLEAN
    <3>1. previousStateHandler(prevRunState)
      BY <1>1 DEF StoppingController, webOUCAExitController
    <3> QED
      BY <3>1 DEF previousStateHandler, ACRelaysOff, stoptimerCountdown, stoptimerCharging
  <2>3. StoreOK'
    <3>1. ASSUME NEW b \in BOOLEAN, SetAuto(b)
          PROVE param' \in Params /\ eeprom' \in Params
      BY <3>1 DEF SetAuto, Params
    <3> QED
      BY <1>1, <3>1 DEF StoppingController, webGoToTimedController, webGoToOnController,
             webGoToAutoController, webGoToChargedController, webGoToStandbyController,
             webOUCAExitController
  <2> QED
    BY <1>1, <2>1, <2>2, <2>3 DEF StoppingController
<1>2. CASE /\ \/ webGoToOUCAutoController \/ webGoToRestartController
             \/ webGoToFactoryResetController \/ webGoToHibernateController
             \/ QueueDone
          /\ UNCHANGED <<prevRunState, relayVars, heatVars, countdownVars,
                         chargingVars, mainsofftime, resetTimer, envVars,
                         scheduleVars>>
  <2>1. RunStateOK'
    BY <1>2 DEF webGoToOUCAutoController, webGoToRestartController,
             webGoToFactoryResetController, webGoToHibernateController, QueueDone
  <2>2. StoreOK'
    <3>1. [DefaultParams EXCEPT !.resumeCause = RESTART_HARD_RESET] \in Params
      BY DefaultParamsType, Zenon DEF Params
    <3>2. CASE webGoToFactoryResetController
      BY <3>1, <3>2, Zenon DEF webGoToFactoryResetController
    <3> QED
      BY <1>2, <3>2 DEF webGoToOUCAutoController, webGoToRestartController,
                     webGoToHibernateController, QueueDone, Params
  <2> QED
    BY <1>2, <2>1, <2>2
<1> QED
  BY <1>1, <1>2
  DEF WebCommandsPass

(* The surroundings.                                                       *)
LEMMA SurroundingsType ==
    ASSUME TypeOK, Surroundings
    PROVE TypeOK'
<1> USE RunStateNumbers, ConstantNumbers
    DEF TypeOK, RunStateOK, OutletsOK, MinutesOK, StoreOK, FlagsOK, SurroundingsOK,
        relayVars, heatVars, countdownVars, chargingVars, paramVars, envVars,
        scheduleVars, putParameters
<1>1. CASE MainsFails
  <2>1. RunStateOK'
    BY <1>1 DEF MainsFails, deviceVars
  <2>2. OutletsOK'
    BY <1>1 DEF MainsFails, deviceVars
  <2>3. MinutesOK'
    BY <1>1 DEF MainsFails, deviceVars
  <2>4. StoreOK'
    BY <1>1 DEF MainsFails, deviceVars
  <2>5. FlagsOK'
    BY <1>1 DEF MainsFails, deviceVars
  <2>6. SurroundingsOK'
    BY <1>1 DEF MainsFails, deviceVars
  <2> QED
    BY <2>1, <2>2, <2>3, <2>4, <2>5, <2>6
<1>2. CASE MainsReturns
  BY <1>2 DEF MainsReturns, deviceVars
<1>3. CASE TemperatureChanges
  BY <1>3 DEF TemperatureChanges, deviceVars
<1>4. CASE ScheduleMoves
  <2>1. RunStateOK'
    BY <1>4 DEF ScheduleMoves, deviceVars
  <2>2. OutletsOK'
    BY <1>4 DEF ScheduleMoves, deviceVars
  <2>3. MinutesOK'
    BY <1>4 DEF ScheduleMoves, deviceVars
  <2>4. StoreOK'
    BY <1>4 DEF ScheduleMoves, deviceVars
  <2>5. FlagsOK'
    BY <1>4 DEF ScheduleMoves, deviceVars
  <2>6. SurroundingsOK'
    BY <1>4 DEF ScheduleMoves, deviceVars
  <2> QED
    BY <2>1, <2>2, <2>3, <2>4, <2>5, <2>6
<1>5. CASE CountdownMinute
  BY <1>5 DEF CountdownMinute, deviceVars
<1>6. CASE ChargingMinute
  BY <1>6 DEF ChargingMinute, deviceVars
<1>7. CASE ResetTimerExpires
  BY <1>7 DEF ResetTimerExpires, deviceVars
<1>8. CASE SleepDelayPasses
  BY <1>8 DEF SleepDelayPasses, deviceVars
<1>9. CASE Reset
  BY <1>9, BootedType DEF Reset
<1> QED
  BY <1>1, <1>2, <1>3, <1>4, <1>5, <1>6, <1>7, <1>8, <1>9
  DEF Surroundings

-----------------------------------------------------------------------------
(* A step keeps the types.                                                 *)
LEMMA TypeStep ==
    ASSUME TypeOK, [Next]_vars
    PROVE TypeOK'
<1>1. CASE LoopPass
  BY <1>1, StandbyAndSleepType, TimedAndContinuousType, AutoScheduleType,
     SmartChargingType, WebCommandsType
  DEF LoopPass
<1>2. CASE remoteAdmin
  BY <1>2, CommandType
<1>3. CASE Surroundings
  BY <1>3, SurroundingsType
<1>4. CASE UNCHANGED vars
  BY <1>4 DEF vars, TypeOK, RunStateOK, OutletsOK, MinutesOK, StoreOK, FlagsOK,
              SurroundingsOK, relayVars, heatVars, countdownVars, chargingVars,
              paramVars, envVars, scheduleVars
<1> QED
  BY <1>1, <1>2, <1>3, <1>4 DEF Next

(* The initial states have the types.                                      *)
LEMMA TypeInit ==
    ASSUME Init
    PROVE TypeOK
<1>1. RunStateOK
  BY RunStateNumbers, ConstantNumbers, DefaultParamsType DEF Init, RunStateOK
<1>2. OutletsOK
  BY RunStateNumbers, ConstantNumbers, DefaultParamsType DEF Init, OutletsOK
<1>3. MinutesOK
  BY RunStateNumbers, ConstantNumbers, DefaultParamsType DEF Init, MinutesOK
<1>4. StoreOK
  BY RunStateNumbers, ConstantNumbers, DefaultParamsType DEF Init, StoreOK
<1>5. FlagsOK
  BY RunStateNumbers, ConstantNumbers, DefaultParamsType DEF Init, FlagsOK
<1>6. SurroundingsOK
  BY RunStateNumbers, ConstantNumbers, DefaultParamsType DEF Init, SurroundingsOK
<1> QED
  BY <1>1, <1>2, <1>3, <1>4, <1>5, <1>6 DEF TypeOK

(* No step leaves the enumerations of the firmware, whatever the settings, *)
(* the mains, the temperature, the schedule and the commands do.           *)
THEOREM TypeCorrect == Spec => []TypeOK
<1>1. Init => TypeOK
  BY TypeInit
<1>2. TypeOK /\ [Next]_vars => TypeOK'
  BY TypeStep
<1> QED
  BY <1>1, <1>2, PTL DEF Spec
=============================================================================
