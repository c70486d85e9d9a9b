---------------------------- MODULE TimedProofs ----------------------------
(***************************************************************************)
(* Timed charging, for every value of the constants: the outlets are never *)
(* on in standby, asleep or uncounted; a session ends only when its        *)
(* minutes are over; a session that nobody stops is, whatever the mains    *)
(* does, the session of the abstract specification TimedSession; and a     *)
(* scheduled smart charge leaves no countdown of the session it replaces.  *)
(***************************************************************************)
EXTENDS TrolleyProofs

(* What the first theorems are about: the commands that start and stop a   *)
(* timed session, reset to factory settings or hibernate, each sent when   *)
(* the last one has been taken up; a board that does not get hot; a mains  *)
(* that does not change between the supply checks of a sleep; and power-on *)
(* settings that do not start another kind of charging. The restart        *)
(* command is not one of them: it overwrites the cause a suspended session *)
(* is resumed for.                                                         *)
TimedOnly ==
    /\ Commands \subseteq {"tmc", "stb", "hst", "hib"} /\ Patient
    /\ "hot" \notin Temperatures
    /\ {"queue", "confirm"} \subseteq SteadyWaits
    /\ PowerOnState \in {POS_LAST, POS_STANDBY, POS_TIMED_ON}

TimedRunStates ==
    {D_STARTUP, D_STANDBY, D_TIMED_ON, D_SLEEPING, D_RESTART, D_GOTOSTANDBY,
     D_GOTOTIMED_ON, D_GOTOSLEEP, D_WEBGOTOTIMED, D_WEBGOTOSTANDBY,
     D_WEBGOTOHARDRESTART, D_WEBGOTOHIBERNATE}
TimedWaits ==
    {"no", "timed", "queue", "confirm", "hibernate", "booting", "resetQueue",
     "hibernateQueue"}
TimedResumeStates == {D_STARTUP, D_STANDBY, D_TIMED_ON}

(* The controller of the session runs, or the one that carries out a stop  *)
(* command and knows what to stop.                                         *)
AtSession ==
    runState = D_TIMED_ON \/ (runState = D_WEBGOTOSTANDBY /\ prevRunState = D_TIMED_ON)

(* A stored session can be resumed, and forgets the mains loss then.       *)
Whole(p) ==
    p.resumeState = D_TIMED_ON
    => p.resumeMinutes >= 0 /\ p.resumeCause = RESUME_MAINS_OFF

(* The inductive invariant. That the outlets are off asleep needs the last *)
(* part: while the loss of the mains is stamped, the next loss would not   *)
(* suspend a session, so none may be running; the stamp is cleared only by *)
(* resuming a session that is stored whole, or by starting one.            *)
TimedRunInv ==
    /\ runState \in TimedRunStates /\ busy \in TimedWaits
    /\ busy \in {"queue", "confirm"} => ~mains
    /\ busy = "resetQueue" => runState = D_WEBGOTOHARDRESTART
    /\ ~isOverheated
TimedStoreInv ==
    /\ param.resumeState \in TimedResumeStates /\ eeprom.resumeState \in TimedResumeStates
    /\ ~param.isOUCMonitoring /\ ~eeprom.isOUCMonitoring
TimedOutletsInv ==
    /\ relays => /\ busy \in {"no", "timed"} /\ mainsofftime = "zero"
                 /\ AtSession /\ (runState = D_TIMED_ON => countdown)
    /\ countdown => relays /\ ~istimerCountdown_ended
    /\ chargeState # C_NOT_CHARGING => relays
    /\ busy = "timed" => relays
TimedKept ==
    /\ Whole(param) /\ Whole(eeprom)
    /\ runState = D_TIMED_ON => param.resumeState = D_TIMED_ON
    /\ runState = D_STANDBY => param.resumeState # D_TIMED_ON
    /\ param.resumeState = D_TIMED_ON => powerState = W_MAINS_OFF \/ AtSession
TimedLostInv ==
    mainsofftime # "zero"
    => /\ ~relays /\ ~countdown /\ ~isUpdateCountdown
       /\ \/ istimerCountdown_ended
          \/ busy \in {"hibernateQueue", "hibernate", "booting"}
          \/ TimedKept
TimedInv == TypeOK /\ TimedRunInv /\ TimedStoreInv /\ TimedOutletsInv /\ TimedLostInv

-----------------------------------------------------------------------------
(* Which controllers can run, and what their run states are not.           *)
LEMMA TimedStates ==
    /\ {D_ALWAYS_ON, D_AUTO_OFF, D_AUTO_ON, D_CHARGED_ON, D_CHARGED_ON_USBC,
        D_GOTOALWAYS_ON, D_GOTOAUTO, D_GOTOCHARGED_ON, D_GOTOCHARGED_ON_USBC,
        D_CHARGED_ON_AUTO, D_CHARGED_ON_USBC_AUTO, D_WEBOUCAEXIT,
        D_WEBGOTOAUTO, D_WEBGOTOCHARGED, D_WEBGOTOON, D_WEBOUCAUTO,
        D_GOTOCHARGED_ON_AUTO, D_GOTOCHARGED_ON_USBC_AUTO, D_WEBGOTORESTART,
        D_WEBGOTOCHARGEDUSBC} \cap TimedRunStates = {}
    /\ TimedResumeStates \subseteq TimedRunStates
    /\ {D_TIMED_ON, D_WEBGOTOSTANDBY}
            \cap {D_STARTUP, D_STANDBY, D_SLEEPING, D_RESTART, D_GOTOSTANDBY,
                  D_GOTOTIMED_ON, D_GOTOSLEEP, D_WEBGOTOTIMED,
                  D_WEBGOTOHARDRESTART, D_WEBGOTOHIBERNATE} = {}
    /\ D_STANDBY \notin {D_STARTUP, D_SLEEPING, D_RESTART, D_GOTOSTANDBY,
                         D_GOTOTIMED_ON, D_GOTOSLEEP, D_WEBGOTOTIMED,
                         D_WEBGOTOHARDRESTART, D_WEBGOTOHIBERNATE}
    /\ D_TIMED_ON # D_WEBGOTOSTANDBY
    /\ {D_WEBGOTOSTANDBY, D_WEBGOTOHARDRESTART} \subseteq WebStates
    /\ D_TIMED_ON > D_STANDBY /\ ~(D_STARTUP > D_STANDBY) /\ ~(D_STANDBY > D_STANDBY)
    /\ W_MAINS_OFF \notin {W_MAINS_ON, W_CHARGING} /\ W_MAINS_ON # W_CHARGING
  BY DEF TimedRunStates, TimedResumeStates, D_STARTUP, D_STANDBY, D_TIMED_ON, D_AUTO_OFF,
         D_AUTO_ON, D_ALWAYS_ON, D_SLEEPING, D_CHARGED_ON, D_CHARGED_ON_USBC,
         D_GOTOSTANDBY, D_GOTOTIMED_ON, D_GOTOAUTO, D_GOTOALWAYS_ON, D_GOTOSLEEP,
         D_GOTOCHARGED_ON, D_GOTOCHARGED_ON_USBC, D_CHARGED_ON_AUTO,
         D_CHARGED_ON_USBC_AUTO, D_RESTART, D_GOTOCHARGED_ON_AUTO,
         D_GOTOCHARGED_ON_USBC_AUTO, D_WEBOUCAEXIT, D_WEBGOTORESTART,
         D_WEBGOTOHARDRESTART, D_WEBGOTOSTANDBY, D_WEBGOTOHIBERNATE, D_WEBGOTOAUTO,
         D_WEBGOTOCHARGED, D_WEBGOTOON, D_WEBGOTOTIMED, D_WEBOUCAUTO,
         D_WEBGOTOCHARGEDUSBC, WebStates, W_MAINS_OFF, W_MAINS_ON, W_CHARGING

(* On a board that does not get hot the overheat check changes nothing.    *)
LEMMA TimedIsCool ==
    ASSUME TimedOnly, TimedInv
    PROVE ~OverheatedNow /\ (WasOverheatedNow <=> wasOverheated)
  BY DEF TimedOnly, TimedInv, TimedRunInv, TypeOK, SurroundingsOK, OverheatedNow,
         WasOverheatedNow, BecomesOverheated, HasCooled

(* The supply reads as charging only with the outlets on.                  *)
LEMMA TimedSupply ==
    ASSUME TimedInv
    PROVE /\ powerStateCheck = W_MAINS_OFF <=> ~mains
          /\ powerStateCheck = W_CHARGING => relays
          /\ ~relays /\ mains => powerStateCheck = W_MAINS_ON
<1>1. chargeState \in Int
  BY DEF TimedInv, TypeOK, OutletsOK, ChargeStates, C_NOT_CHARGING, C_CHARGING,
         C_CHARGING_FULL, C_RATE_CHARGING, C_CHARGING_DONE, C_CHARGING_ENDED
<1> QED
  BY <1>1, TimedStates
  DEF TimedInv, TimedOutletsInv, powerStateCheck, C_NOT_CHARGING

(* The fields of a stored session. *)
LEMMA SessionFields ==
    ASSUME NEW p \in Params, NEW s, NEW m, NEW c
    PROVE /\ WithSession(p, s, m, c).resumeCause = c
          /\ WithMinutes(p, m, c).resumeCause = c
  BY DEF Params, WithMinutes, WithSession

-----------------------------------------------------------------------------
(* A reset reads what is stored and switches the outlets off.              *)
LEMMA TimedBooted ==
    ASSUME TimedInv, Booted
    PROVE TimedRunInv' /\ TimedStoreInv' /\ TimedOutletsInv' /\ TimedLostInv'
  BY DEF TimedInv, TimedRunInv, TimedWaits, TimedStoreInv, TimedOutletsInv, TimedLostInv,
         TimedRunStates, Booted

(* The controllers of startup, restart, standby and sleep find the outlets *)
(* off, and what they store can be resumed.                                *)
LEMMA TimedStandbyAndSleep ==
    ASSUME TimedOnly, TimedInv, StandbyAndSleepPass
    PROVE TimedRunInv' /\ TimedStoreInv' /\ TimedOutletsInv' /\ TimedLostInv'
<1> USE TimedStates
    DEF TimedInv, TimedRunInv, TimedWaits, TimedStoreInv, TimedOutletsInv, TimedLostInv,
        TimedKept, AtSession, Whole, relayVars, heatVars, countdownVars, chargingVars,
        paramVars, envVars, putParameters, Pass
<1>1. CASE startupController
  <2>1. powerOnStateSelection(PowerOnState, param.resumeState)
            \in {D_GOTOSTANDBY, D_GOTOTIMED_ON}
    BY DEF TimedOnly, powerOnStateSelection, LastStateSelection, TimedResumeStates,
           POS_LAST, POS_STANDBY, POS_CONT_ON, POS_TIMED_ON, POS_SMART_AC, POS_SMART_USB,
           D_STARTUP, D_STANDBY, D_ALWAYS_ON, D_TIMED_ON, AutoStates, D_AUTO_OFF,
           D_AUTO_ON, SmartACStates, SmartUSBCStates, D_CHARGED_ON, D_CHARGED_ON_USBC,
           D_CHARGED_ON_AUTO, D_CHARGED_ON_USBC_AUTO
  <2> QED
    BY <1>1, <2>1 DEF startupController, TimedRunStates
<1>2. CASE restartController
  <2>1. CASE Booted
    BY <2>1, TimedBooted
  <2>2. CASE ~Booted
    BY <1>2, <2>2 DEF restartController
  <2> QED
    BY <2>1, <2>2
<1>3. CASE goToStandbyController
  <2>1. TimedRunInv' /\ ~relays /\ ~relays' /\ TimedOutletsInv'
    BY <1>3 DEF goToStandbyController, TimedRunStates
  <2>2. CASE powerState = W_MAINS_OFF
    <3>1. /\ runState' = D_GOTOSLEEP /\ powerState' = W_MAINS_OFF /\ busy' = "no"
          /\ busy = "no" /\ UNCHANGED <<paramVars, mainsofftime, countdownVars>>
      BY <1>3, <2>2 DEF goToStandbyController
    <3>2. TimedStoreInv'
      BY <3>1
    <3>3. TimedLostInv'
      BY <2>1, <3>1
    <3> QED
      BY <2>1, <3>2, <3>3
  <2>3. CASE powerState # W_MAINS_OFF
    <3>1. /\ param' = WithMinutes(param, -1, 0) /\ eeprom' = param'
          /\ param \in Params
      BY <1>3, <2>3 DEF goToStandbyController, TypeOK, StoreOK
    <3>2. TimedStoreInv'
      BY <3>1, WrittenFields
    <3>3. TimedLostInv'
      <4>1. param'.resumeState = param.resumeState
        BY <3>1, WrittenFields
      <4> QED
        BY <1>3, <2>1, <2>3, <3>1, <4>1 DEF goToStandbyController
    <3> QED
      BY <2>1, <3>2, <3>3
  <2> QED
    BY <2>2, <2>3
<1>4. CASE standbyController
  <2>1. ~relays /\ ~relays' /\ runState = D_STANDBY /\ powerStateCheck # W_CHARGING
    BY <1>4, TimedSupply DEF standbyController
  <2>2. TimedRunInv' /\ TimedOutletsInv'
    BY <1>4, <2>1, TimedIsCool DEF standbyController, TimedRunStates
  <2>3. CASE powerStateCheck = W_MAINS_ON
    BY <1>4, <2>1, <2>2, <2>3 DEF standbyController
  <2>4. CASE powerStateCheck = W_MAINS_OFF
    <3>1. /\ param' = WithSession(param, D_STANDBY, -1, RESUME_MAINS_OFF)
          /\ eeprom' = param' /\ param \in Params
      BY <1>4, <2>4 DEF standbyController, TypeOK, StoreOK
    <3>2. /\ param'.resumeState = D_STANDBY /\ eeprom'.resumeState = D_STANDBY
          /\ ~param'.isOUCMonitoring /\ ~eeprom'.isOUCMonitoring
      BY <3>1, WrittenFields
    <3> QED
      BY <1>4, <2>1, <2>2, <2>4, <3>2 DEF standbyController, TimedResumeStates
  <2> QED
    BY <2>1, <2>3, <2>4, SupplyIsPowerState
<1>5. CASE goToSleepController
  BY <1>5 DEF goToSleepController, TimedRunStates
<1>6. CASE sleepingController
  <2>1. ~relays /\ powerStateCheck # W_CHARGING
    BY <1>6, TimedSupply DEF sleepingController
  <2>2. CASE powerStateCheck = W_MAINS_OFF
    BY <1>6, <2>1, <2>2, TimedSupply DEF sleepingController
  <2>3. CASE powerStateCheck = W_MAINS_ON
    <3>1. /\ param' = eeprom /\ eeprom' = eeprom /\ busy' = "no" /\ runState = D_SLEEPING
          /\ IF eeprom.resumeState = D_TIMED_ON THEN runState' = D_TIMED_ON
             ELSE runState' = D_SLEEPING
      BY <1>6, <2>3 DEF sleepingController, helperAfterSleep, TimedResumeStates
    <3>2. TimedRunInv' /\ TimedStoreInv' /\ TimedOutletsInv'
      BY <1>6, <2>1, <3>1 DEF sleepingController, TimedRunStates
    <3>3. TimedLostInv'
      BY <1>6, <2>1, <2>3, <3>1 DEF sleepingController
    <3> QED
      BY <3>2, <3>3
  <2> QED
    BY <2>1, <2>2, <2>3, SupplyIsPowerState
<1>7. CASE SleepQueueDone
  <2>1. ~mains
    BY <1>7 DEF SleepQueueDone
  <2>2. /\ param'.resumeState = param.resumeState
        /\ param'.resumeMinutes = param.resumeMinutes
        /\ param'.resumeCause = RESUME_MAINS_OFF
        /\ param'.isOUCMonitoring = param.isOUCMonitoring
        /\ eeprom' = param'
    BY <1>7, <2>1 DEF SleepQueueDone, TypeOK, StoreOK, Params
  <2> QED
    BY <1>7, <2>1, <2>2 DEF SleepQueueDone
<1>8. CASE SleepConfirm
  BY <1>8 DEF SleepConfirm
<1>9. ~SleepWake /\ ~SleepStopped
  BY DEF SleepWake, SleepStopped
<1>10. CASE SleepBooted
  BY <1>10, TimedBooted DEF SleepBooted
<1> QED
  BY <1>1, <1>2, <1>3, <1>4, <1>5, <1>6, <1>7, <1>8, <1>9, <1>10
  DEF StandbyAndSleepPass

-----------------------------------------------------------------------------
(* The session itself: it starts with no loss stamped, is suspended by the *)
(* first loss it sees, and is switched off whenever it ends.               *)
LEMMA TimedSessionPass ==
    ASSUME TimedOnly, TimedInv, TimedAndContinuousPass
    PROVE TimedRunInv' /\ TimedStoreInv' /\ TimedOutletsInv' /\ TimedLostInv'
<1> USE TimedStates
    DEF TimedInv, TimedRunInv, TimedWaits, TimedStoreInv, TimedOutletsInv, TimedLostInv,
        TimedKept, AtSession, Whole, relayVars, heatVars, countdownVars, chargingVars,
        paramVars, envVars, putParameters, Pass
<1>1. ~goToOnController /\ ~onController
  BY DEF goToOnController, onController
<1>2. CASE goToTimedOnController
  <2>1. ~relays /\ powerStateCheck # W_CHARGING
    BY <1>2, TimedSupply DEF goToTimedOnController
  <2>2. CASE powerStateCheck = W_MAINS_ON
    BY <1>2, <2>1, <2>2 DEF goToTimedOnController, initTimers, TimedRunStates
  <2>3. CASE powerStateCheck # W_MAINS_ON
    <3>1. /\ powerState' = W_MAINS_OFF /\ runState' = D_GOTOSTANDBY
          /\ UNCHANGED <<countdownVars, mainsofftime, paramVars, relays, chargeState, busy,
                         mains, isOverheated>>
      BY <1>2, <2>1, <2>3, SupplyIsPowerState DEF goToTimedOnController
    <3>2. runState = D_GOTOTIMED_ON /\ busy = "no" /\ runState' # D_STANDBY
      BY <1>2, <3>1 DEF goToTimedOnController
    <3>3. TimedRunInv' /\ TimedStoreInv' /\ TimedOutletsInv'
      BY <2>1, <3>1, <3>2 DEF TimedRunStates
    <3>4. TimedLostInv'
      BY <2>1, <3>1, <3>2
    <3> QED
      BY <3>3, <3>4
  <2> QED
    BY <2>2, <2>3
<1>3. CASE timedOnController
  <2>1. /\ runState = D_TIMED_ON /\ busy = "no" /\ ~isOverheated' /\ mains' = mains
        /\ param \in Params
    BY <1>3, TimedIsCool DEF timedOnController, TypeOK, StoreOK
  <2>2. CASE TimedOnStarts
    <3>1. ~relays /\ ~countdown /\ ~TimedEnded
      BY <1>3, <2>1, <2>2 DEF TimedOnStarts, TimedCanStart
    <3>2. /\ relays' /\ countdown' /\ ~istimerCountdown_ended' /\ busy' = "timed"
          /\ runState' = D_TIMED_ON
      BY <2>1, <2>2 DEF TimedOnStarts, ACRelaysOn, starttimerCountdown
    <3>3. TimedStoreInv'
      BY <2>1, <2>2, WrittenFields
      DEF TimedOnStarts, helperCleanUpResumeData, WithoutResumeData, TimedResumeStates
    <3>4. mainsofftime' = "zero"
      <4>1. CASE mainsofftime = "zero"
        BY <2>2, <4>1 DEF TimedOnStarts
      <4>2. CASE mainsofftime # "zero"
        <5>1. ~istimerCountdown_ended
          BY <3>1, <4>2 DEF TimedEnded
        <5>2. param.resumeMinutes >= 0 /\ param.resumeCause = RESUME_MAINS_OFF
          BY <2>1, <4>2, <5>1
        <5> QED
          BY <2>2, <5>2 DEF TimedOnStarts
      <4> QED
        BY <4>1, <4>2
    <3> QED
      BY <2>1, <3>2, <3>3, <3>4
  <2>3. CASE TimedOnContinues
    <3> DEFINE ps == powerStateCheck
               suspends == ps = W_MAINS_OFF /\ mainsofftime = "zero"
               sleeps == ~suspends /\ ps = W_MAINS_OFF /\ SleepDelayOver
    <3>1. /\ countdown' = (countdown /\ ~(isUpdateCountdown /\ TimedEnded) /\ ~suspends)
          /\ istimerCountdown_ended' = (TimedEnded /\ ~suspends)
          /\ isUpdateCountdown' = FALSE
          /\ IF TimedEnded \/ suspends THEN ACRelaysOff(ps) ELSE RelaysUntouched(ps)
          /\ param' = IF suspends
                      THEN WithSession(param, D_TIMED_ON, TimedMinutes, RESUME_MAINS_OFF)
                      ELSE IF TimedEnded THEN WithMinutes(param, -1, 0) ELSE param
          /\ IF suspends THEN eeprom' = param' ELSE eeprom' = eeprom
          /\ mainsofftime' = IF suspends THEN "recent" ELSE mainsofftime
          /\ runState' = IF sleeps THEN D_GOTOSLEEP
                         ELSE IF TimedEnded THEN D_GOTOSTANDBY ELSE D_TIMED_ON
          /\ busy' = "no"
      BY <2>1, <2>3, TimedIsCool DEF TimedOnContinues
    <3>2. /\ suspends => ps = W_MAINS_OFF /\ mainsofftime = "zero"
          /\ sleeps => ps = W_MAINS_OFF /\ mainsofftime # "zero"
          /\ ps = W_MAINS_OFF => suspends \/ mainsofftime # "zero"
          /\ ~suspends /\ ps = W_MAINS_OFF => mainsofftime # "zero"
      OBVIOUS
    <3>3. ps \in {W_MAINS_OFF, W_MAINS_ON, W_CHARGING} /\ (ps = W_CHARGING => relays)
      BY SupplyIsPowerState, TimedSupply
    <3>4. /\ countdown => relays /\ ~istimerCountdown_ended
          /\ relays => mainsofftime = "zero" /\ countdown
          /\ mainsofftime # "zero" => ~isUpdateCountdown
      BY <2>1
    <3>5. ~isUpdateCountdown => (TimedEnded <=> istimerCountdown_ended)
      BY DEF TimedEnded, TypeOK, FlagsOK
    <3> HIDE DEF ps, suspends, sleeps
    <3>6. TimedRunInv'
      BY <2>1, <3>1 DEF TimedRunStates
    <3>7. TimedStoreInv'
      <4>1. CASE suspends
        BY <2>1, <3>1, <4>1, WrittenFields DEF TimedResumeStates
      <4>2. CASE ~suspends
        BY <2>1, <3>1, <4>2, WrittenFields
      <4> QED
        BY <4>1, <4>2
    <3>8. TimedOutletsInv'
      <4>1. CASE TimedEnded \/ suspends
        <5>1. ~relays' /\ chargeState' = C_NOT_CHARGING
          BY <3>1, <4>1 DEF ACRelaysOff
        <5>2. ~countdown'
          BY <3>1, <3>4, <3>5, <4>1
        <5> QED
          BY <3>1, <5>1, <5>2
      <4>2. CASE ~TimedEnded /\ ~suspends
        <5>1. relays' = relays /\ chargeState' = chargeState /\ countdown' = countdown
          BY <2>1, <3>1, <4>2 DEF RelaysUntouched, TypeOK, FlagsOK
        <5>2. ~istimerCountdown_ended' /\ mainsofftime' = mainsofftime
          BY <3>1, <4>2
        <5>3. relays => runState' = D_TIMED_ON
          BY <3>1, <3>2, <3>4, <4>2
        <5> QED
          BY <3>1, <3>4, <5>1, <5>2, <5>3
      <4> QED
        BY <4>1, <4>2
    <3>9. TimedLostInv'
      <4>1. CASE suspends
        <5>1. /\ ~relays' /\ powerState' = W_MAINS_OFF /\ ~countdown'
              /\ ~isUpdateCountdown'
          BY <3>1, <3>2, <4>1 DEF ACRelaysOff
        <5>2. /\ param'.resumeState = D_TIMED_ON /\ param'.resumeMinutes = TimedMinutes
              /\ param'.resumeCause = RESUME_MAINS_OFF /\ eeprom' = param'
          BY <2>1, <3>1, <4>1, WrittenFields, SessionFields
        <5>3. TimedMinutes >= 0
          BY CountedIsNat DEF TimedMinutes, TypeOK, MinutesOK
        <5>4. runState' # D_STANDBY
          BY <3>1
        <5> QED
          BY <5>1, <5>2, <5>3, <5>4
      <4>2. CASE ~suspends /\ mainsofftime # "zero"
        <5>1. /\ ~relays /\ ~countdown /\ ~isUpdateCountdown /\ runState' # D_STANDBY
              /\ TimedEnded <=> istimerCountdown_ended
          BY <2>1, <3>1, <3>4, <3>5, <4>2
        <5>2. ~relays' /\ ~countdown' /\ ~isUpdateCountdown'
          BY <3>1, <5>1 DEF ACRelaysOff, RelaysUntouched
        <5>3. CASE istimerCountdown_ended
          BY <3>1, <4>2, <5>1, <5>2, <5>3
        <5>4. CASE ~istimerCountdown_ended
          <6>1. /\ param' = param /\ eeprom' = eeprom /\ powerState' = ps
                /\ Whole(param) /\ Whole(eeprom) /\ param.resumeState = D_TIMED_ON
            BY <2>1, <3>1, <4>2, <5>1, <5>4 DEF RelaysUntouched
          <6>2. powerState' = W_MAINS_OFF \/ runState' = D_TIMED_ON
            BY <3>1, <3>2, <5>1, <5>4, <6>1
          <6> QED
            BY <3>1, <5>1, <5>2, <6>1, <6>2
        <5> QED
          BY <5>3, <5>4
      <4>3. CASE ~suspends /\ mainsofftime = "zero"
        BY <3>1, <4>3
      <4> QED
        BY <4>1, <4>2, <4>3
    <3> QED
      BY <3>6, <3>7, <3>8, <3>9
  <2> QED
    BY <1>3, <2>2, <2>3 DEF timedOnController
<1>4. CASE TimedOrOnStarted
  BY <1>4 DEF TimedOrOnStarted
<1> QED
  BY <1>1, <1>2, <1>3, <1>4 DEF TimedAndContinuousPass

(* No other kind of charging runs.                                         *)
LEMMA TimedNoOther ==
    ASSUME TimedInv
    PROVE ~AutoSchedulePass /\ ~SmartChargingPass
<1> USE TimedStates DEF TimedInv, TimedRunInv, TimedWaits, Pass, TimedStoreInv
<1>1. ~AutoSchedulePass
  BY DEF AutoSchedulePass, checkScheduledStartUntilCharged, ScheduledStart, ScheduleOver,
         ScheduleClock, StartIsDue, ScheduledCheckRuns, goToAutoController,
         autoController, AutoStates, AutoStarted
<1>2. ~SmartChargingPass
  BY DEF SmartChargingPass, goToChargedOnAutoController, GoToSmart, chargedOnController,
         SmartACStates, goToChargedOnUSBCAutoController, chargedOnUSBCController,
         SmartUSBCStates, SmartStarted, SmartStartedAgain
<1> QED
  BY <1>1, <1>2

-----------------------------------------------------------------------------
(* Commands: a stop is accepted with the session as the previous state, a  *)
(* start only with the outlets off.                                        *)
LEMMA TimedCommands ==
    ASSUME TimedOnly, TimedInv, remoteAdmin
    PROVE TimedRunInv' /\ TimedStoreInv' /\ TimedOutletsInv' /\ TimedLostInv'
<1> USE TimedStates
    DEF TimedInv, TimedRunInv, TimedStoreInv, TimedOutletsInv, TimedLostInv, TimedKept,
        AtSession, Whole, relayVars, heatVars, countdownVars, chargingVars, paramVars,
        envVars
<1>1. /\ runState \notin WebStates
      /\ \/ StandbyCommand
         \/ \E c \in {"tmc", "hst", "hib"} : ActivityCommand(c)
  BY DEF TimedOnly, remoteAdmin, StandbyCommands
<1>2. UNCHANGED <<busy, relayVars, heatVars, countdownVars, mainsofftime, envVars>>
  BY DEF remoteAdmin
<1>3. CASE StandbyCommand
  BY <1>1, <1>2, <1>3 DEF StandbyCommand, Accepted, TimedRunStates
<1>4. ASSUME NEW c \in {"tmc", "hst", "hib"}, ActivityCommand(c)
      PROVE TimedRunInv' /\ TimedStoreInv' /\ TimedOutletsInv' /\ TimedLostInv'
  <2>1. onViewRunState(D_TIMED_ON) # W_STANDBY
    BY DEF onViewRunState, W_STANDBY, W_TIMED_ON, D_GOTOSLEEP, D_SLEEPING,
           D_WEBGOTOHIBERNATE, D_WEBGOTOTIMED, D_TIMED_ON, D_GOTOTIMED_ON, D_WEBGOTOAUTO,
           D_GOTOAUTO, D_AUTO_OFF, D_AUTO_ON, D_WEBGOTOON, D_GOTOALWAYS_ON, D_ALWAYS_ON,
           D_WEBGOTOCHARGED, D_CHARGED_ON, D_GOTOCHARGED_ON, D_WEBGOTOCHARGEDUSBC,
           D_CHARGED_ON_USBC, D_GOTOCHARGED_ON_USBC, D_GOTOCHARGED_ON_AUTO,
           D_CHARGED_ON_AUTO, D_GOTOCHARGED_ON_USBC_AUTO, D_CHARGED_ON_USBC_AUTO
  <2>2. ~relays /\ runState # D_TIMED_ON
    BY <1>1, <1>4, <2>1 DEF ActivityCommand, View
  <2>3. Selected(c) \in TimedRunStates \ {D_TIMED_ON, D_STANDBY, D_WEBGOTOSTANDBY}
    BY DEF Selected, TimedRunStates
  <2>4. UNCHANGED paramVars /\ runState' = Selected(c)
    BY <1>4 DEF ActivityCommand, Accepted
  <2>5. TimedRunInv' /\ TimedStoreInv' /\ TimedOutletsInv'
    BY <1>1, <1>2, <2>2, <2>3, <2>4
  <2>6. TimedLostInv'
    BY <1>1, <1>2, <2>2, <2>3, <2>4
  <2> QED
    BY <2>5, <2>6
<1> QED
  BY <1>1, <1>3, <1>4

(* The controllers that carry the commands out: a stop finds the session   *)
(* in prevRunState, switches its outlets off and marks its end.            *)
LEMMA TimedWebCommands ==
    ASSUME TimedInv, WebCommandsPass
    PROVE TimedRunInv' /\ TimedStoreInv' /\ TimedOutletsInv' /\ TimedLostInv'
<1> USE TimedStates
    DEF TimedInv, TimedRunInv, TimedWaits, TimedStoreInv, TimedOutletsInv, TimedLostInv,
        TimedKept, AtSession, Whole, relayVars, heatVars, countdownVars, chargingVars,
        paramVars, envVars, putParameters, Pass
<1>1. CASE StoppingController
  <2>1. /\ ~webGoToOnController /\ ~webGoToAutoController
        /\ ~webGoToChargedController /\ ~webOUCAExitController
    BY DEF webGoToOnController, webGoToAutoController, webGoToChargedController,
           webOUCAExitController
  <2>2. /\ previousStateHandler(prevRunState)
        /\ UNCHANGED <<busy, isOverheated, mainsofftime, mains>>
    BY <1>1, <2>1 DEF StoppingController
  <2>3. CASE prevRunState = D_TIMED_ON
    <3>1. /\ ~relays' /\ chargeState' = C_NOT_CHARGING /\ ~countdown'
          /\ ~isUpdateCountdown' /\ istimerCountdown_ended'
      BY <2>2, <2>3 DEF previousStateHandler, ACRelaysOff, stoptimerCountdown
    <3>2. runState' \in {D_GOTOSTANDBY, D_GOTOTIMED_ON} /\ busy = "no"
      BY <1>1, <2>1 DEF StoppingController, webGoToTimedController,
                        webGoToStandbyController
    <3>3. TimedStoreInv'
      BY <1>1, <2>1 DEF StoppingController, webGoToTimedController,
                        webGoToStandbyController, SetAuto, TypeOK, StoreOK, Params
    <3> QED
      BY <2>2, <3>1, <3>2, <3>3 DEF TimedRunStates
  <2>4. CASE prevRunState # D_TIMED_ON
    <3>1. ~relays /\ ~countdown /\ chargeState = C_NOT_CHARGING /\ ~AtSession /\ busy = "no"
      BY <1>1, <2>1, <2>4 DEF StoppingController, webGoToTimedController,
                              webGoToStandbyController
    <3>2. /\ ~relays' /\ chargeState' = C_NOT_CHARGING
          /\ powerState = W_MAINS_OFF => powerState' = W_MAINS_OFF
          /\ UNCHANGED <<countdown, istimerCountdown_ended, isUpdateCountdown>>
      BY <2>2, <2>4, <3>1 DEF previousStateHandler, ACRelaysOff
    <3>3. /\ runState' \in {D_GOTOSTANDBY, D_GOTOTIMED_ON}
          /\ param'.resumeState = param.resumeState
          /\ param'.resumeMinutes = param.resumeMinutes
          /\ param'.resumeCause = param.resumeCause
          /\ param'.isOUCMonitoring = param.isOUCMonitoring
          /\ eeprom' = param' \/ eeprom' = eeprom
      BY <1>1, <2>1 DEF StoppingController, webGoToTimedController,
                        webGoToStandbyController, SetAuto, TypeOK, StoreOK, Params
    <3>4. TimedRunInv' /\ TimedOutletsInv'
      BY <2>2, <3>1, <3>2, <3>3 DEF TimedRunStates
    <3>5. TimedStoreInv'
      BY <3>3
    <3>6. TimedLostInv'
      BY <2>2, <3>1, <3>2, <3>3
    <3> QED
      BY <3>4, <3>5, <3>6
  <2> QED
    BY <2>3, <2>4
<1>2. ~webGoToOUCAutoController /\ ~webGoToRestartController
  BY DEF webGoToOUCAutoController, webGoToRestartController
<1>3. CASE /\ webGoToFactoryResetController \/ webGoToHibernateController \/ QueueDone
           /\ UNCHANGED <<prevRunState, relayVars, heatVars, countdownVars, mainsofftime,
                          envVars>>
  <2>1. CASE webGoToFactoryResetController
    <3>1. /\ param'.resumeState = D_STARTUP /\ ~param'.isOUCMonitoring
          /\ eeprom' = param' \/ eeprom' = eeprom
          /\ busy = "no" /\ busy' = "resetQueue"
          /\ runState = D_WEBGOTOHARDRESTART /\ runState' = runState
      BY <2>1 DEF webGoToFactoryResetController, DefaultParams
    <3>2. TimedRunInv' /\ TimedStoreInv' /\ TimedOutletsInv'
      BY <1>3, <3>1 DEF TimedResumeStates
    <3>3. TimedLostInv'
      BY <1>3, <3>1
    <3> QED
      BY <3>2, <3>3
  <2>2. CASE webGoToHibernateController
    BY <1>3, <2>2 DEF webGoToHibernateController, TypeOK, StoreOK, Params
  <2>3. CASE QueueDone
    BY <1>3, <2>3 DEF QueueDone, TimedRunStates
  <2> QED
    BY <1>3, <2>1, <2>2, <2>3
<1> QED
  BY <1>1, <1>2, <1>3 DEF WebCommandsPass

(* The surroundings do not touch the outlets, and the minutes pass only    *)
(* while the countdown runs.                                               *)
LEMMA TimedSurroundings ==
    ASSUME TimedOnly, TimedInv, Surroundings
    PROVE TimedRunInv' /\ TimedStoreInv' /\ TimedOutletsInv' /\ TimedLostInv'
<1> USE TimedStates
    DEF TimedInv, TimedRunInv, TimedWaits, TimedStoreInv, TimedOutletsInv, TimedLostInv,
        TimedKept, AtSession, Whole, relayVars, heatVars, countdownVars, chargingVars,
        paramVars, envVars, deviceVars
<1>1. CASE MainsFails
  BY <1>1 DEF MainsFails
<1>2. CASE MainsReturns
  BY <1>2 DEF MainsReturns, TimedOnly
<1>3. CASE TemperatureChanges
  BY <1>3 DEF TemperatureChanges
<1>4. CASE ScheduleMoves
  BY <1>4 DEF ScheduleMoves
<1>5. CASE CountdownMinute
  BY <1>5 DEF CountdownMinute
<1>6. CASE ChargingMinute
  BY <1>6 DEF ChargingMinute
<1>7. CASE ResetTimerExpires
  BY <1>7 DEF ResetTimerExpires
<1>8. CASE SleepDelayPasses
  BY <1>8 DEF SleepDelayPasses
<1>9. CASE Reset
  BY <1>9, TimedBooted DEF Reset
<1> QED
  BY <1>1, <1>2, <1>3, <1>4, <1>5, <1>6, <1>7, <1>8, <1>9 DEF Surroundings

-----------------------------------------------------------------------------
(* Every step preserves the inductive invariant.                           *)
LEMMA TimedStep ==
    ASSUME TimedOnly, TimedInv, [Next]_vars
    PROVE TimedInv'
<1>1. TypeOK'
  BY TypeStep DEF TimedInv
<1>2. CASE LoopPass
  BY <1>1, <1>2, TimedStandbyAndSleep, TimedSessionPass, TimedNoOther, TimedWebCommands
  DEF LoopPass, TimedInv
<1>3. CASE remoteAdmin
  BY <1>1, <1>3, TimedCommands DEF TimedInv
<1>4. CASE Surroundings
  BY <1>1, <1>4, TimedSurroundings DEF TimedInv
<1>5. CASE UNCHANGED vars
  BY <1>1, <1>5
  DEF TimedInv, TimedRunInv, TimedStoreInv, TimedOutletsInv, TimedLostInv, TimedKept,
      AtSession, Whole, vars, relayVars, heatVars, countdownVars, paramVars, envVars
<1> QED
  BY <1>2, <1>3, <1>4, <1>5 DEF Next

(* It holds in every reachable state.                                      *)
LEMMA TimedInvariant ==
    ASSUME TimedOnly
    PROVE Spec => []TimedInv
<1>1. Init => TimedInv
  <2>1. DefaultParams.resumeState = D_STARTUP /\ ~DefaultParams.isOUCMonitoring
    BY DEF DefaultParams
  <2> QED
    BY <2>1, TypeInit
    DEF Init, TimedInv, TimedRunInv, TimedWaits, TimedRunStates, TimedStoreInv,
        TimedOutletsInv, TimedLostInv, TimedResumeStates
<1>2. TimedInv /\ [Next]_vars => TimedInv'
  BY TimedStep
<1> QED
  BY <1>1, <1>2, PTL DEF Spec

(* In standby the outlets are off (goToStandbyController does not switch   *)
(* them): every way into it has.                                           *)
THEOREM TimedStandbyIsOff ==
    ASSUME TimedOnly
    PROVE Spec => []StandbyIsOff
<1>1. TimedInv => StandbyIsOff
  BY TimedStates DEF TimedInv, TimedOutletsInv, AtSession, StandbyIsOff
<1> QED
  BY <1>1, TimedInvariant, PTL

(* No session is left running when the trolley goes to sleep: the loss of  *)
(* the mains has suspended it.                                             *)
THEOREM TimedSleepIsOff ==
    ASSUME TimedOnly
    PROVE Spec => []SleepIsOff
<1>1. TimedInv => SleepIsOff
  BY TimedStates DEF TimedInv, TimedOutletsInv, AtSession, SleepIsOff, Asleep
<1> QED
  BY <1>1, TimedInvariant, PTL

(* A timed session charges only while its countdown runs.                  *)
THEOREM TimedSessionIsCounted ==
    ASSUME TimedOnly
    PROVE Spec => []TimedIsCounted
<1>1. TimedInv => TimedIsCounted
  BY DEF TimedInv, TimedOutletsInv, TimedIsCounted
<1> QED
  BY <1>1, TimedInvariant, PTL

-----------------------------------------------------------------------------
(* What the refinement is about: sessions nobody stops, on a trolley that  *)
(* may be told to hibernate, takes up a suspended session when it starts,  *)
(* and is not reset while it charges (a reset then forgets the session).   *)
SessionOnly ==
    /\ Commands \subseteq {"tmc", "hib"} /\ Patient
    /\ "hot" \notin Temperatures
    /\ {"queue", "confirm"} \subseteq SteadyWaits
    /\ PowerOnState \in {POS_LAST, POS_TIMED_ON}
    /\ ~CanReset

(* The inductive invariant of the refinement: the two copies of the stored *)
(* session agree, there is one exactly while the stored state is the timed *)
(* one, the count in RAM is the stored one or was cleared by a restart,    *)
(* and no way leads from a suspended session to a standby that erases it.  *)
SessionStoreInv ==
    /\ param.resumeMinutes = eeprom.resumeMinutes
    /\ param.resumeState = eeprom.resumeState
    /\ Suspended \/ eeprom.resumeMinutes = -1
    /\ Suspended <=> eeprom.resumeState = D_TIMED_ON
SessionCountInv ==
    /\ isUpdateCountdown => countdown
    /\ countdown => ~Suspended
    /\ runState = D_TIMED_ON => ~istimerCountdown_ended
    /\ runState = D_TIMED_ON /\ ~countdown /\ ~Suspended => timerMins = 0
    /\ Suspended => ~istimerCountdown_ended /\ timerMins \in {0, eeprom.resumeMinutes}
SessionWayInv ==
    /\ prevRunState # D_TIMED_ON
    /\ runState \notin {D_WEBGOTOSTANDBY, D_WEBGOTOHARDRESTART, D_RESTART}
    /\ Suspended => /\ runState # D_STANDBY
                    /\ runState = D_GOTOSTANDBY => powerState = W_MAINS_OFF
SessionInv == TimedInv /\ SessionStoreInv /\ SessionCountInv /\ SessionWayInv

(* What the refinement has to show of a step. *)
SessionStep == [Session!Next]_(Session!sessionVars)

-----------------------------------------------------------------------------
(* Which run states the way of a session can be told apart by. *)
LEMMA SessionStates ==
    /\ {D_STARTUP, D_SLEEPING, D_GOTOSLEEP, D_GOTOTIMED_ON, D_STANDBY, D_GOTOSTANDBY,
        D_TIMED_ON, D_WEBGOTOTIMED, D_WEBGOTOHIBERNATE}
            \cap {D_WEBGOTOSTANDBY, D_WEBGOTOHARDRESTART, D_RESTART} = {}
    /\ {D_STARTUP, D_SLEEPING, D_GOTOSLEEP, D_GOTOTIMED_ON, D_WEBGOTOTIMED,
        D_WEBGOTOHIBERNATE} \cap {D_TIMED_ON, D_STANDBY, D_GOTOSTANDBY} = {}
    /\ D_STANDBY \notin {D_TIMED_ON, D_GOTOSTANDBY} /\ D_TIMED_ON # D_GOTOSTANDBY
  BY DEF D_STARTUP, D_SLEEPING, D_GOTOSLEEP, D_GOTOTIMED_ON, D_STANDBY, D_GOTOSTANDBY,
         D_TIMED_ON, D_WEBGOTOTIMED, D_WEBGOTOHIBERNATE, D_WEBGOTOSTANDBY,
         D_WEBGOTOHARDRESTART, D_RESTART

(* The state of the abstract session, and when a step leaves it alone.     *)
LEMMA SessionUnchanged ==
    ASSUME UNCHANGED <<countdown, timerMins>>, eeprom'.resumeMinutes = eeprom.resumeMinutes
    PROVE SessionStep
  BY DEF SessionStep, Session!sessionVars, Suspended

(* So does a step with no countdown running, whatever it does to the count *)
(* in RAM.                                                                 *)
LEMMA SessionIdle ==
    ASSUME ~countdown, ~countdown', eeprom'.resumeMinutes = eeprom.resumeMinutes
    PROVE SessionStep
  BY DEF SessionStep, Session!sessionVars, Suspended

(* Or one after which still nothing is stored. *)
LEMMA SessionNone ==
    ASSUME ~countdown, ~countdown', ~Suspended, ~Suspended'
    PROVE SessionStep
  BY DEF SessionStep, Session!sessionVars, Suspended

(* The hypotheses of the theorems above hold. *)
LEMMA SessionIsTimed == SessionOnly => TimedOnly
  BY DEF SessionOnly, TimedOnly

(* The countdown runs only in the pass or the soft start of the session.   *)
LEMMA SessionCharging ==
    ASSUME SessionInv, countdown
    PROVE runState = D_TIMED_ON /\ busy \in {"no", "timed"} /\ mainsofftime = "zero"
  BY DEF SessionInv, SessionWayInv, TimedInv, TimedOutletsInv, AtSession

-----------------------------------------------------------------------------
(* Startup, standby and sleep keep what is stored of a suspended session.  *)
LEMMA SessionStandbyAndSleep ==
    ASSUME SessionOnly, SessionInv, StandbyAndSleepPass
    PROVE SessionStep /\ SessionStoreInv' /\ SessionCountInv' /\ SessionWayInv'
<1> USE TimedStates, SessionStates, SessionCharging, SessionIdle
    DEF SessionInv, SessionStoreInv, SessionCountInv, SessionWayInv, Suspended, relayVars,
        heatVars, countdownVars, chargingVars, paramVars, envVars, putParameters, Pass
<1>1. CASE startupController
  <2>1. powerOnStateSelection(PowerOnState, param.resumeState)
            \in {D_GOTOSTANDBY, D_GOTOTIMED_ON}
        /\ (param.resumeState = D_TIMED_ON
            => powerOnStateSelection(PowerOnState, param.resumeState) = D_GOTOTIMED_ON)
    BY DEF SessionOnly, TimedInv, TimedStoreInv, powerOnStateSelection, LastStateSelection,
           TimedResumeStates, POS_LAST, POS_STANDBY, POS_CONT_ON, POS_TIMED_ON,
           POS_SMART_AC, POS_SMART_USB, D_STARTUP, D_STANDBY, D_ALWAYS_ON, D_TIMED_ON,
           AutoStates, D_AUTO_OFF, D_AUTO_ON, SmartACStates, SmartUSBCStates,
           D_CHARGED_ON, D_CHARGED_ON_USBC, D_CHARGED_ON_AUTO, D_CHARGED_ON_USBC_AUTO
  <2>2. /\ runState' \in {D_GOTOSTANDBY, D_GOTOTIMED_ON} /\ eeprom' = param
        /\ param.resumeState = D_TIMED_ON => runState' = D_GOTOTIMED_ON
        /\ UNCHANGED <<param, countdownVars, prevRunState, powerState>>
    BY <1>1, <2>1 DEF startupController
  <2>3. SessionStep
    BY <2>2, SessionUnchanged
  <2> QED
    BY <2>2, <2>3
<1>2. ~restartController
  BY DEF restartController
<1>3. CASE goToStandbyController
  <2>1. runState = D_GOTOSTANDBY /\ busy = "no" /\ ~countdown /\ ~isUpdateCountdown
    BY <1>3 DEF goToStandbyController
  <2>2. UNCHANGED <<countdownVars, prevRunState, powerState>>
    BY <1>3 DEF goToStandbyController
  <2>3. CASE powerState = W_MAINS_OFF
    <3>1. runState' = D_GOTOSLEEP /\ UNCHANGED paramVars
      BY <1>3, <2>3 DEF goToStandbyController
    <3> QED
      BY <2>1, <2>2, <3>1
  <2>4. CASE powerState # W_MAINS_OFF
    <3>1. /\ runState' = D_STANDBY /\ param' = WithMinutes(param, -1, 0)
          /\ eeprom' = param' /\ param \in Params /\ ~Suspended
      BY <1>3, <2>1, <2>4 DEF goToStandbyController, TimedInv, TypeOK, StoreOK
    <3>2. /\ eeprom'.resumeMinutes = -1 /\ param'.resumeMinutes = -1
          /\ eeprom'.resumeState = eeprom.resumeState
          /\ param'.resumeState = param.resumeState
      BY <3>1, WrittenFields
    <3> QED
      BY <2>1, <2>2, <3>1, <3>2
  <2> QED
    BY <2>3, <2>4
<1>4. CASE standbyController
  <2>1. runState = D_STANDBY /\ ~countdown /\ ~isUpdateCountdown /\ ~Suspended
    BY <1>4 DEF standbyController
  <2>2. /\ UNCHANGED countdownVars /\ prevRunState' \in {D_STANDBY, prevRunState}
        /\ runState' \in {D_STANDBY, D_GOTOSLEEP}
    BY <1>4 DEF standbyController
  <2>3. CASE UNCHANGED paramVars
    BY <2>1, <2>2, <2>3
  <2>4. CASE /\ param' = WithSession(param, D_STANDBY, -1, RESUME_MAINS_OFF)
             /\ putParameters
    <3>1. /\ eeprom'.resumeMinutes = -1 /\ param'.resumeMinutes = -1
          /\ eeprom'.resumeState = D_STANDBY /\ param'.resumeState = D_STANDBY
      BY <2>4, WrittenFields DEF TimedInv, TypeOK, StoreOK
    <3> QED
      BY <2>1, <2>2, <3>1
  <2> QED
    BY <1>4, <2>3, <2>4 DEF standbyController
<1>5. CASE goToSleepController
  <2>1. /\ runState' = D_SLEEPING /\ ~countdown
        /\ UNCHANGED <<countdownVars, prevRunState, powerState, paramVars>>
    BY <1>5 DEF goToSleepController
  <2> QED
    BY <2>1
<1>6. CASE sleepingController
  <2>1. runState = D_SLEEPING /\ ~countdown /\ UNCHANGED <<countdownVars, prevRunState>>
    BY <1>6 DEF sleepingController
  <2>2. CASE UNCHANGED <<runState, paramVars>>
    BY <2>1, <2>2
  <2>3. CASE helperAfterSleep
    <3>1. /\ param' = eeprom /\ eeprom' = eeprom
          /\ runState' = IF Suspended THEN D_TIMED_ON ELSE D_SLEEPING
      BY <2>1, <2>3 DEF helperAfterSleep, TimedInv, TimedStoreInv, TimedResumeStates
    <3> QED
      BY <2>1, <3>1
  <2> QED
    BY <1>6, <2>2, <2>3 DEF sleepingController
<1>7. CASE SleepQueueDone
  <2>1. /\ param'.resumeMinutes = param.resumeMinutes
        /\ param'.resumeState = param.resumeState
        /\ eeprom'.resumeMinutes = eeprom.resumeMinutes
        /\ eeprom'.resumeState = eeprom.resumeState
    BY <1>7 DEF SleepQueueDone, TimedInv, TypeOK, StoreOK, Params
  <2>2. UNCHANGED <<runState, prevRunState, countdownVars, powerState>>
    BY <1>7 DEF SleepQueueDone
  <2> QED
    BY <2>1, <2>2, SessionUnchanged
<1>8. CASE SleepConfirm
  <2>1. UNCHANGED <<runState, prevRunState, countdownVars, powerState, paramVars>>
    BY <1>8 DEF SleepConfirm
  <2> QED
    BY <2>1, SessionUnchanged
<1>9. ~SleepWake /\ ~SleepStopped
  BY DEF TimedInv, TimedRunInv, TimedWaits, SleepWake, SleepStopped
<1>10. CASE SleepBooted
  <2>1. /\ ~countdown /\ ~countdown' /\ ~isUpdateCountdown' /\ ~istimerCountdown_ended'
        /\ timerMins' = 0 /\ param' = eeprom /\ eeprom' = eeprom
        /\ runState' = D_STARTUP /\ prevRunState' = D_STARTUP
    BY <1>10 DEF SleepBooted, Booted
  <2> QED
    BY <2>1
<1> QED
  BY <1>1, <1>2, <1>3, <1>4, <1>5, <1>6, <1>7, <1>8, <1>9, <1>10
  DEF StandbyAndSleepPass

(* The pass of the session: every outcome is a step of the abstract one.   *)
LEMMA SessionTimedPass ==
    ASSUME SessionOnly, SessionInv, TimedAndContinuousPass
    PROVE SessionStep /\ SessionStoreInv' /\ SessionCountInv' /\ SessionWayInv'
<1> USE TimedStates, SessionStates, SessionCharging, SessionIdle
    DEF SessionInv, SessionStoreInv, SessionCountInv, SessionWayInv, Suspended, relayVars,
        heatVars, countdownVars, chargingVars, paramVars, envVars, putParameters, Pass
<1>1. ~goToOnController /\ ~onController
  BY DEF TimedInv, TimedRunInv, goToOnController, onController
<1>2. CASE goToTimedOnController
  <2>1. /\ runState = D_GOTOTIMED_ON /\ ~countdown /\ ~isUpdateCountdown /\ ~relays
        /\ UNCHANGED <<prevRunState, paramVars>>
    BY <1>2 DEF goToTimedOnController, TimedInv, TimedOutletsInv, AtSession
  <2>2. CASE powerStateCheck = W_MAINS_ON
    <3>1. /\ runState' = D_TIMED_ON /\ ~countdown' /\ ~istimerCountdown_ended'
          /\ isUpdateCountdown' = isUpdateCountdown
          /\ timerMins' = IF param.resumeMinutes <= 0 THEN 0 ELSE param.resumeMinutes
      BY <1>2, <2>2 DEF goToTimedOnController, initTimers, ResumedMinutes
    <3>2. param.resumeMinutes \in Int
      BY DEF TimedInv, TypeOK, StoreOK, Params
    <3>3. Suspended => timerMins' = 0 \/ timerMins' = eeprom.resumeMinutes
      BY <3>1
    <3>4. ~Suspended => timerMins' = 0
      BY <3>1
    <3>5. SessionStep
      BY <2>1, <3>1, SessionIdle
    <3> QED
      BY <2>1, <3>1, <3>3, <3>4, <3>5
  <2>3. CASE powerStateCheck # W_MAINS_ON
    <3>1. powerStateCheck = W_MAINS_OFF
      BY <2>1, <2>3, SupplyIsPowerState, TimedSupply
    <3>2. /\ runState' = D_GOTOSTANDBY /\ powerState' = W_MAINS_OFF
          /\ UNCHANGED countdownVars
      BY <1>2, <3>1 DEF goToTimedOnController
    <3> QED
      BY <2>1, <3>2
  <2> QED
    BY <2>2, <2>3
<1>3. CASE timedOnController
  <2>1. /\ runState = D_TIMED_ON /\ timerMins' = TimedMinutes /\ ~istimerCountdown_ended
        /\ prevRunState' = prevRunState /\ param \in Params /\ timerMins \in Nat
        /\ countdown \in BOOLEAN
    BY <1>3 DEF timedOnController, TimedInv, TypeOK, StoreOK, MinutesOK, FlagsOK
  <2>2. /\ ~isUpdateCountdown => TimedMinutes = timerMins
        /\ isUpdateCountdown => TimedMinutes = Counted(timerMins)
        /\ TimedMinutes \in Nat
    BY <2>1, CountedIsNat DEF TimedMinutes
  <2>3. TimedEnded => isUpdateCountdown /\ countdown /\ TimerPeriod <= TimedMinutes
    BY <2>1 DEF TimedEnded
  <2>4. CASE TimedOnStarts
    <3>1. /\ ~countdown /\ countdown' /\ ~istimerCountdown_ended' /\ ~isUpdateCountdown'
          /\ runState' = runState /\ timerMins' = timerMins
      BY <2>1, <2>2, <2>4 DEF TimedOnStarts, TimedCanStart, starttimerCountdown
    <3>2. CASE Suspended
      <4>1. /\ eeprom'.resumeMinutes = -1 /\ param'.resumeMinutes = -1
            /\ eeprom'.resumeState = D_STARTUP /\ param'.resumeState = D_STARTUP
        BY <2>1, <2>4, <3>2, WrittenFields
        DEF TimedOnStarts, helperCleanUpResumeData, WithoutResumeData
      <4>2. timerMins' = 0 \/ timerMins' = eeprom.resumeMinutes
        BY <3>1, <3>2
      <4>3. SessionStep
        BY <3>1, <3>2, <4>1, <4>2
        DEF SessionStep, Session!Next, Session!Resume, Session!ResumeFromZero
      <4> QED
        BY <2>1, <3>1, <4>1, <4>3
    <3>3. CASE ~Suspended
      <4>1. UNCHANGED paramVars /\ timerMins' = 0
        BY <2>1, <2>4, <3>1, <3>3 DEF TimedOnStarts
      <4>2. SessionStep
        BY <3>1, <3>3, <4>1 DEF SessionStep, Session!Next, Session!Start
      <4> QED
        BY <2>1, <3>1, <3>3, <4>1, <4>2
    <3> QED
      BY <3>2, <3>3
  <2>5. CASE TimedOnContinues
    <3> DEFINE ps == powerStateCheck
               suspends == ps = W_MAINS_OFF /\ mainsofftime = "zero"
               sleeps == ~suspends /\ ps = W_MAINS_OFF /\ SleepDelayOver
    <3>1. /\ countdown' = (countdown /\ ~(isUpdateCountdown /\ TimedEnded) /\ ~suspends)
          /\ istimerCountdown_ended' = (TimedEnded /\ ~suspends)
          /\ isUpdateCountdown' = FALSE
          /\ IF TimedEnded \/ suspends THEN ACRelaysOff(ps) ELSE RelaysUntouched(ps)
          /\ param' = IF suspends
                      THEN WithSession(param, D_TIMED_ON, TimedMinutes, RESUME_MAINS_OFF)
                      ELSE IF TimedEnded THEN WithMinutes(param, -1, 0) ELSE param
          /\ IF suspends THEN eeprom' = param' ELSE eeprom' = eeprom
          /\ runState' = IF sleeps THEN D_GOTOSLEEP
                         ELSE IF TimedEnded THEN D_GOTOSTANDBY ELSE D_TIMED_ON
      BY <2>1, <2>5, SessionIsTimed, TimedIsCool DEF TimedOnContinues
    <3>2. suspends => ps = W_MAINS_OFF /\ ~sleeps
      OBVIOUS
    <3> HIDE DEF ps, suspends, sleeps
    <3>3. CASE suspends
      <4>1. /\ ~countdown' /\ ~istimerCountdown_ended' /\ ~isUpdateCountdown'
            /\ powerState' = W_MAINS_OFF /\ runState' \in {D_GOTOSTANDBY, D_TIMED_ON}
        BY <3>1, <3>2, <3>3 DEF ACRelaysOff
      <4>2. /\ eeprom'.resumeMinutes = TimedMinutes /\ param'.resumeMinutes = TimedMinutes
            /\ eeprom'.resumeState = D_TIMED_ON /\ param'.resumeState = D_TIMED_ON
            /\ Suspended'
        BY <2>1, <2>2, <3>1, <3>3, WrittenFields
      <4>3. SessionStep
        <5>1. CASE countdown
          <6>1. TimedMinutes \in {timerMins, Session!OneMore}
            BY <2>2, <5>1 DEF Session!OneMore, Counted
          <6> QED
            BY <4>1, <4>2, <5>1, <6>1 DEF SessionStep, Session!Next, Session!Suspend
        <5>2. CASE ~countdown /\ Suspended
          <6>1. TimedMinutes = 0 \/ TimedMinutes = eeprom.resumeMinutes
            BY <2>2, <5>2
          <6> QED
            BY <4>1, <4>2, <5>2, <6>1
            DEF SessionStep, Session!Next, Session!Forget, Session!sessionVars
        <5>3. CASE ~countdown /\ ~Suspended
          <6>1. TimedMinutes = 0
            BY <2>1, <2>2, <5>3
          <6> QED
            BY <4>1, <4>2, <5>3, <6>1 DEF SessionStep, Session!Next, Session!Start
        <5> QED
          BY <5>1, <5>2, <5>3
      <4> QED
        BY <2>1, <4>1, <4>2, <4>3
    <3>4. CASE ~suspends /\ TimedEnded
      <4>1. /\ countdown /\ isUpdateCountdown /\ TimedMinutes = Counted(timerMins)
            /\ TimerPeriod <= TimedMinutes /\ ~Suspended
        BY <2>2, <2>3, <3>4
      <4>2. /\ ~countdown' /\ ~isUpdateCountdown' /\ eeprom' = eeprom
            /\ param' = WithMinutes(param, -1, 0)
            /\ runState' \in {D_GOTOSLEEP, D_GOTOSTANDBY}
        BY <3>1, <3>4, <4>1
      <4>3. param'.resumeMinutes = -1 /\ param'.resumeState = param.resumeState
        BY <2>1, <4>2, WrittenFields
      <4>4. Session!OneMore >= TimerPeriod
        <5>1. Session!OneMore = TimedMinutes
          BY <4>1 DEF Session!OneMore, Counted
        <5> QED
          BY <2>2, <4>1, <5>1, TimesAssumption
      <4>5. SessionStep
        BY <4>1, <4>2, <4>4 DEF SessionStep, Session!Next, Session!Finish
      <4> QED
        BY <2>1, <4>1, <4>2, <4>3, <4>5
    <3>5. CASE ~suspends /\ ~TimedEnded
      <4>1. /\ countdown' = countdown /\ ~istimerCountdown_ended' /\ ~isUpdateCountdown'
            /\ UNCHANGED paramVars /\ runState' \in {D_GOTOSLEEP, D_TIMED_ON}
        BY <2>1, <3>1, <3>5
      <4>2. ~countdown => timerMins' = timerMins
        BY <2>1, <2>2
      <4>3. SessionStep
        <5>1. CASE isUpdateCountdown
          <6>1. timerMins' = Session!OneMore
            BY <2>1, <2>2, <5>1 DEF Session!OneMore, Counted
          <6> QED
            BY <4>1, <5>1, <6>1 DEF SessionStep, Session!Next, Session!Minute
        <5>2. CASE ~isUpdateCountdown
          BY <2>1, <2>2, <4>1, <5>2, SessionUnchanged
        <5> QED
          BY <5>1, <5>2
      <4> QED
        BY <2>1, <4>1, <4>2, <4>3
    <3> QED
      BY <3>3, <3>4, <3>5
  <2> QED
    BY <1>3, <2>4, <2>5 DEF timedOnController
<1>4. CASE TimedOrOnStarted
  <2>1. UNCHANGED <<runState, prevRunState, countdownVars, powerState, paramVars>>
    BY <1>4 DEF TimedOrOnStarted
  <2> QED
    BY <2>1, SessionUnchanged
<1> QED
  BY <1>1, <1>2, <1>3, <1>4 DEF TimedAndContinuousPass

-----------------------------------------------------------------------------
(* Commands, and the controllers that carry them out, start and end no     *)
(* session.                                                                *)
LEMMA SessionCommands ==
    ASSUME SessionOnly, SessionInv, remoteAdmin
    PROVE SessionStep /\ SessionStoreInv' /\ SessionCountInv' /\ SessionWayInv'
<1> USE TimedStates, SessionStates
    DEF SessionInv, SessionStoreInv, SessionCountInv, SessionWayInv, Suspended, relayVars,
        heatVars, countdownVars, chargingVars, paramVars, envVars
<1>1. PICK c \in {"tmc", "hib"} : ActivityCommand(c)
  BY DEF SessionOnly, remoteAdmin, StandbyCommands
<1>2. onViewRunState(D_TIMED_ON) # W_STANDBY
  BY DEF onViewRunState, W_STANDBY, W_TIMED_ON, D_GOTOSLEEP, D_SLEEPING,
         D_WEBGOTOHIBERNATE, D_WEBGOTOTIMED, D_TIMED_ON, D_GOTOTIMED_ON, D_WEBGOTOAUTO,
         D_GOTOAUTO, D_AUTO_OFF, D_AUTO_ON, D_WEBGOTOON, D_GOTOALWAYS_ON, D_ALWAYS_ON,
         D_WEBGOTOCHARGED, D_CHARGED_ON, D_GOTOCHARGED_ON, D_WEBGOTOCHARGEDUSBC,
         D_CHARGED_ON_USBC, D_GOTOCHARGED_ON_USBC, D_GOTOCHARGED_ON_AUTO,
         D_CHARGED_ON_AUTO, D_GOTOCHARGED_ON_USBC_AUTO, D_CHARGED_ON_USBC_AUTO
<1>3. runState # D_TIMED_ON /\ prevRunState' = runState
  BY <1>1, <1>2 DEF ActivityCommand, Accepted, View
<1>4. runState' \in {D_WEBGOTOTIMED, D_WEBGOTOHIBERNATE}
  BY <1>1 DEF ActivityCommand, Accepted, Selected
<1>5. UNCHANGED <<paramVars, countdownVars, powerState>>
  BY <1>1 DEF ActivityCommand, remoteAdmin
<1> QED
  BY <1>3, <1>4, <1>5, SessionUnchanged

(* So do the controllers that carry out the commands. *)
LEMMA SessionWebCommands ==
    ASSUME SessionInv, WebCommandsPass
    PROVE SessionStep /\ SessionStoreInv' /\ SessionCountInv' /\ SessionWayInv'
<1> USE TimedStates, SessionStates
    DEF SessionInv, SessionStoreInv, SessionCountInv, SessionWayInv, Suspended, relayVars,
        heatVars, countdownVars, chargingVars, paramVars, envVars, putParameters, Pass
<1>1. CASE StoppingController
  <2>1. webGoToTimedController /\ previousStateHandler(prevRunState)
        /\ UNCHANGED timerMins
    BY <1>1
    DEF StoppingController, webGoToOnController, webGoToAutoController,
        webGoToChargedController, webOUCAExitController, webGoToStandbyController,
        TimedInv, TimedRunInv
  <2>2. UNCHANGED <<countdown, istimerCountdown_ended, isUpdateCountdown>>
    BY <2>1 DEF previousStateHandler
  <2>3. /\ runState' = D_GOTOTIMED_ON /\ prevRunState' = D_WEBGOTOTIMED
        /\ param'.resumeMinutes = param.resumeMinutes
        /\ param'.resumeState = param.resumeState
        /\ eeprom' = param' \/ eeprom' = eeprom
    BY <2>1 DEF webGoToTimedController, SetAuto, TimedInv, TypeOK, StoreOK, Params
  <2> QED
    BY <2>1, <2>2, <2>3, SessionUnchanged
<1>2. /\ ~webGoToOUCAutoController /\ ~webGoToRestartController
      /\ ~webGoToFactoryResetController
  BY DEF webGoToOUCAutoController, webGoToRestartController,
         webGoToFactoryResetController, TimedInv, TimedRunInv
<1>3. CASE /\ webGoToHibernateController \/ QueueDone
           /\ UNCHANGED <<prevRunState, relayVars, countdownVars>>
  <2>1. CASE webGoToHibernateController
    <3>1. /\ param'.resumeMinutes = param.resumeMinutes
          /\ param'.resumeState = param.resumeState
          /\ eeprom' = param' /\ runState' = runState
      BY <2>1 DEF webGoToHibernateController, TimedInv, TypeOK, StoreOK, Params
    <3> QED
      BY <1>3, <3>1, SessionUnchanged
  <2>2. CASE QueueDone
    <3>1. UNCHANGED <<runState, paramVars>>
      BY <2>2 DEF QueueDone, TimedInv, TimedRunInv
    <3> QED
      BY <1>3, <3>1, SessionUnchanged
  <2> QED
    BY <1>3, <2>1, <2>2
<1> QED
  BY <1>1, <1>2, <1>3 DEF WebCommandsPass

(* The surroundings leave the session alone: a minute that has passed is   *)
(* counted by the next pass.                                               *)
LEMMA SessionSurroundings ==
    ASSUME SessionOnly, SessionInv, Surroundings
    PROVE SessionStep /\ SessionStoreInv' /\ SessionCountInv' /\ SessionWayInv'
<1>1. /\ UNCHANGED <<runState, prevRunState, countdown, istimerCountdown_ended, timerMins,
                     powerState, paramVars>>
      /\ isUpdateCountdown' = isUpdateCountdown \/ countdown
  BY DEF SessionOnly, Surroundings, MainsFails, MainsReturns, TemperatureChanges,
         ScheduleMoves, CountdownMinute, ChargingMinute, ResetTimerExpires,
         SleepDelayPasses, Reset, deviceVars, countdownVars, paramVars, relayVars
<1> QED
  BY <1>1, SessionUnchanged
  DEF SessionInv, SessionStoreInv, SessionCountInv, SessionWayInv, Suspended, paramVars

-----------------------------------------------------------------------------
(* Every step keeps the invariant and is a step of the session, or none.   *)
LEMMA SessionNext ==
    ASSUME SessionOnly, SessionInv, [Next]_vars
    PROVE SessionInv' /\ SessionStep
<1>1. TimedInv'
  BY SessionIsTimed, TimedStep DEF SessionInv
<1>2. CASE LoopPass
  <2>1. ~AutoSchedulePass /\ ~SmartChargingPass
    BY TimedNoOther DEF SessionInv
  <2> QED
    BY <1>1, <1>2, <2>1, SessionStandbyAndSleep, SessionTimedPass, SessionWebCommands
    DEF LoopPass, SessionInv
<1>3. CASE remoteAdmin
  BY <1>1, <1>3, SessionCommands DEF SessionInv
<1>4. CASE Surroundings
  BY <1>1, <1>4, SessionSurroundings DEF SessionInv
<1>5. CASE UNCHANGED vars
  BY <1>1, <1>5, SessionUnchanged
  DEF SessionInv, SessionStoreInv, SessionCountInv, SessionWayInv, Suspended, vars,
      relayVars, countdownVars, paramVars
<1> QED
  BY <1>2, <1>3, <1>4, <1>5 DEF Next

(* A timed session nobody stops is the session of TimedSession: it charges *)
(* its minutes, is suspended and resumed with the mains, awake or          *)
(* hibernating, is never forgotten while suspended and ends only when its  *)
(* minutes are over.                                                       *)
THEOREM TimedImplementsSession ==
    ASSUME SessionOnly
    PROVE Spec => SessionSpec
<1>1. Init => SessionInv /\ Session!Init
  <2>1. /\ DefaultParams.resumeState = D_STARTUP /\ DefaultParams.resumeMinutes = -1
        /\ ~DefaultParams.isOUCMonitoring
    BY DEF DefaultParams
  <2>2. Init => TimedInv
    BY <2>1, TypeInit
    DEF Init, TimedInv, TimedRunInv, TimedWaits, TimedRunStates, TimedStoreInv,
        TimedOutletsInv, TimedLostInv, TimedResumeStates
  <2>3. Init => SessionStoreInv /\ SessionCountInv /\ SessionWayInv
    <3>1. Init => ~Suspended /\ D_STARTUP # D_TIMED_ON
      <4>1. Init => eeprom.resumeMinutes = -1
        BY <2>1 DEF Init
      <4> QED
        BY <4>1 DEF Suspended, D_STARTUP, D_TIMED_ON
    <3>2. Init => SessionStoreInv
      BY <2>1, <3>1 DEF Init, SessionStoreInv
    <3>3. Init => SessionCountInv /\ SessionWayInv
      BY <2>1, <3>1, SessionStates DEF Init, SessionCountInv, SessionWayInv
    <3> QED
      BY <3>2, <3>3
  <2>4. Init => Session!Init
    BY <2>1 DEF Init, Session!Init, Suspended
  <2> QED
    BY <2>2, <2>3, <2>4 DEF SessionInv
<1>2. SessionInv /\ [Next]_vars => SessionInv' /\ [Session!Next]_(Session!sessionVars)
  BY SessionNext DEF SessionStep
<1> QED
  BY <1>1, <1>2, PTL DEF Spec, SessionSpec, Session!Spec

-----------------------------------------------------------------------------
(* What the last theorem is about: every command but the stop command, in  *)
(* any order, with any mains, temperature and resets, and no schedule that *)
(* starts a smart charge. A stop command, or a scheduled charge, leaves an *)
(* end mark that the next session may find.                                *)
NobodyStops == "stb" \notin Commands /\ ScheduleType # "O"

(* The states and waits of scheduled smart charging. *)
ScheduledStates ==
    {D_WEBOUCAUTO, D_WEBOUCAEXIT, D_GOTOCHARGED_ON_AUTO, D_CHARGED_ON_AUTO,
     D_GOTOCHARGED_ON_USBC_AUTO, D_CHARGED_ON_USBC_AUTO}
ScheduledWaits == {"scheduled", "smartAuto", "usbcAuto"}

(* The inductive invariant: nothing is scheduled, in RAM or stored, and a  *)
(* countdown marked as ended has counted its minutes, since nobody but its *)
(* own controller marks it: no command has it as the previous state.       *)
UnscheduledInv ==
    /\ runState \notin ScheduledStates /\ busy \notin ScheduledWaits
    /\ param.resumeState \notin ScheduledStates /\ eeprom.resumeState \notin ScheduledStates
    /\ ~param.isOUCMonitoring /\ ~eeprom.isOUCMonitoring
EndMarkInv ==
    /\ prevRunState # D_TIMED_ON
    /\ istimerCountdown_ended => timerMins >= TimerPeriod
    /\ runState = D_TIMED_ON => busy \in {"no", "timed"}
EndInv == TypeOK /\ UnscheduledInv /\ EndMarkInv

(* What the theorem says of a step. *)
EndStep ==
    runState = D_TIMED_ON /\ runState' = D_GOTOSTANDBY => timerMins' >= TimerPeriod

-----------------------------------------------------------------------------
(* Which states are not scheduled ones, nor the timed one.                 *)
LEMMA UnscheduledStates ==
    /\ {D_STARTUP, D_STANDBY, D_TIMED_ON, D_AUTO_OFF, D_AUTO_ON, D_ALWAYS_ON, D_SLEEPING,
        D_CHARGED_ON, D_CHARGED_ON_USBC, D_GOTOSTANDBY, D_GOTOTIMED_ON, D_GOTOAUTO,
        D_GOTOALWAYS_ON, D_GOTOSLEEP, D_GOTOCHARGED_ON, D_GOTOCHARGED_ON_USBC,
        D_RESTART, D_WEBGOTORESTART, D_WEBGOTOHARDRESTART, D_WEBGOTOSTANDBY,
        D_WEBGOTOHIBERNATE, D_WEBGOTOAUTO, D_WEBGOTOCHARGED, D_WEBGOTOON,
        D_WEBGOTOTIMED, D_WEBGOTOCHARGEDUSBC} \cap ScheduledStates = {}
    /\ D_TIMED_ON \notin
          {0, AUTOANDOFF, D_STARTUP, D_STANDBY, D_AUTO_OFF, D_AUTO_ON, D_ALWAYS_ON,
           D_SLEEPING, D_CHARGED_ON, D_CHARGED_ON_USBC, D_CHARGED_ON_AUTO,
           D_CHARGED_ON_USBC_AUTO, D_GOTOSTANDBY, D_GOTOTIMED_ON, D_GOTOAUTO,
           D_GOTOALWAYS_ON, D_GOTOSLEEP, D_GOTOCHARGED_ON, D_GOTOCHARGED_ON_USBC,
           D_RESTART, D_WEBGOTORESTART, D_WEBGOTOHARDRESTART, D_WEBGOTOSTANDBY,
           D_WEBGOTOHIBERNATE, D_WEBGOTOAUTO, D_WEBGOTOCHARGED, D_WEBGOTOON,
           D_WEBGOTOTIMED, D_WEBGOTOCHARGEDUSBC}
  BY DEF ScheduledStates, D_STARTUP, D_STANDBY, D_TIMED_ON, D_AUTO_OFF,
         D_AUTO_ON, D_ALWAYS_ON, D_SLEEPING, D_CHARGED_ON, D_CHARGED_ON_USBC,
         D_GOTOSTANDBY, D_GOTOTIMED_ON, D_GOTOAUTO, D_GOTOALWAYS_ON, D_GOTOSLEEP,
         D_GOTOCHARGED_ON, D_GOTOCHARGED_ON_USBC, D_CHARGED_ON_AUTO,
         D_CHARGED_ON_USBC_AUTO, D_RESTART, D_GOTOCHARGED_ON_AUTO,
         D_GOTOCHARGED_ON_USBC_AUTO, D_WEBOUCAEXIT, D_WEBGOTORESTART,
         D_WEBGOTOHARDRESTART, D_WEBGOTOSTANDBY, D_WEBGOTOHIBERNATE, D_WEBGOTOAUTO,
         D_WEBGOTOCHARGED, D_WEBGOTOON, D_WEBGOTOTIMED, D_WEBOUCAUTO,
         D_WEBGOTOCHARGEDUSBC, AUTOANDOFF

(* The scheduled states by name, and the waits of them. *)
LEMMA ScheduledNames ==
    /\ {D_WEBOUCAUTO, D_WEBOUCAEXIT, D_GOTOCHARGED_ON_AUTO, D_CHARGED_ON_AUTO,
        D_GOTOCHARGED_ON_USBC_AUTO, D_CHARGED_ON_USBC_AUTO} \subseteq ScheduledStates
    /\ {"no", "timed", "on", "auto", "smart", "smartAgain", "usbc", "usbcAgain", "queue",
        "confirm", "wake", "booting", "woken", "hibernate", "stop", "resetQueue",
        "hibernateQueue"} \cap ScheduledWaits = {}
  BY DEF ScheduledStates, ScheduledWaits

(* A reset reads what is stored. *)
LEMMA EndBooted ==
    ASSUME EndInv, Booted
    PROVE UnscheduledInv' /\ EndMarkInv'
  BY UnscheduledStates, ScheduledNames DEF EndInv, UnscheduledInv, EndMarkInv, Booted

(* Startup, standby and sleep. *)
LEMMA EndStandbyAndSleep ==
    ASSUME EndInv, StandbyAndSleepPass
    PROVE UnscheduledInv' /\ EndMarkInv' /\ EndStep
<1> USE UnscheduledStates, ScheduledNames
    DEF EndInv, UnscheduledInv, EndMarkInv, EndStep, heatVars, countdownVars,
        chargingVars, paramVars, envVars, scheduleVars, relayVars, putParameters, Pass
<1>1. CASE startupController
  <2>1. powerOnStateSelection(PowerOnState, param.resumeState)
            \in {D_GOTOSTANDBY, D_GOTOTIMED_ON, D_GOTOALWAYS_ON, D_GOTOAUTO,
                 D_GOTOCHARGED_ON, D_GOTOCHARGED_ON_USBC}
    BY DEF powerOnStateSelection, LastStateSelection
  <2> QED
    BY <1>1, <2>1 DEF startupController
<1>2. CASE restartController
  <2>1. CASE Booted
    BY <1>2, <2>1, EndBooted DEF restartController
  <2>2. CASE ~Booted
    BY <1>2, <2>2 DEF restartController
  <2> QED
    BY <2>1, <2>2
<1>3. CASE goToStandbyController
  <2>1. CASE UNCHANGED paramVars
    BY <1>3, <2>1 DEF goToStandbyController
  <2>2. CASE param' = WithMinutes(param, -1, 0) /\ putParameters
    BY <1>3, <2>2, WrittenFields DEF goToStandbyController, TypeOK, StoreOK
  <2> QED
    BY <1>3, <2>1, <2>2 DEF goToStandbyController
<1>4. CASE standbyController
  <2>1. CASE UNCHANGED paramVars
    BY <1>4, <2>1 DEF standbyController
  <2>2. CASE /\ param' = WithSession(param, D_STANDBY, -1, RESUME_MAINS_OFF)
             /\ putParameters
    BY <1>4, <2>2, WrittenFields DEF standbyController, TypeOK, StoreOK
  <2> QED
    BY <1>4, <2>1, <2>2 DEF standbyController
<1>5. CASE goToSleepController
  BY <1>5 DEF goToSleepController
<1>6. CASE sleepingController
  BY <1>6 DEF sleepingController, helperAfterSleep
<1>7. CASE SleepQueueDone
  <2>1. /\ param'.resumeState = param.resumeState
        /\ param'.isOUCMonitoring = param.isOUCMonitoring
        /\ eeprom' = param' \/ eeprom' = eeprom
    BY <1>7 DEF SleepQueueDone, TypeOK, StoreOK, Params
  <2> QED
    BY <1>7, <2>1 DEF SleepQueueDone
<1>8. CASE SleepConfirm
  BY <1>8 DEF SleepConfirm
<1>9. CASE SleepWake
  <2>1. /\ param'.resumeState = param.resumeState
        /\ param'.isOUCMonitoring = param.isOUCMonitoring
        /\ eeprom' = param' \/ eeprom' = eeprom
    BY <1>9 DEF SleepWake, TypeOK, StoreOK, Params
  <2> QED
    BY <1>9, <2>1 DEF SleepWake, ResumeOrStandby
<1>10. CASE SleepStopped
  BY <1>10 DEF SleepStopped, ResumeOrStandby
<1>11. CASE SleepBooted
  BY <1>11, EndBooted DEF SleepBooted, Booted
<1> QED
  BY <1>1, <1>2, <1>3, <1>4, <1>5, <1>6, <1>7, <1>8, <1>9, <1>10, <1>11
  DEF StandbyAndSleepPass

(* The timed session marks its countdown as ended when it has counted.     *)
LEMMA EndTimedAndContinuous ==
    ASSUME EndInv, TimedAndContinuousPass
    PROVE UnscheduledInv' /\ EndMarkInv' /\ EndStep
<1> USE UnscheduledStates, ScheduledNames
    DEF EndInv, UnscheduledInv, EndMarkInv, EndStep, heatVars, countdownVars,
        chargingVars, paramVars, envVars, scheduleVars, relayVars, putParameters, Pass
<1>1. CASE goToTimedOnController
  BY <1>1 DEF goToTimedOnController, initTimers
<1>2. CASE timedOnController
  <2>1. /\ runState = D_TIMED_ON /\ busy = "no" /\ prevRunState' = prevRunState
        /\ timerMins' = TimedMinutes /\ param \in Params
    BY <1>2 DEF timedOnController, TypeOK, StoreOK
  <2>2. TimedEnded => TimedMinutes >= TimerPeriod
    <3>1. TimedMinutes \in Nat
      BY CountedIsNat DEF TypeOK, MinutesOK, TimedMinutes
    <3> QED
      BY <3>1, TimesAssumption DEF TimedEnded, TimedMinutes
  <2>3. CASE TimedOnStarts
    <3>1. /\ runState' = D_TIMED_ON /\ busy' = "timed" /\ ~istimerCountdown_ended'
      BY <2>1, <2>3 DEF TimedOnStarts, ACRelaysOn, starttimerCountdown
    <3>2. /\ param'.resumeState \in {param.resumeState, D_STARTUP}
          /\ ~param'.isOUCMonitoring /\ (eeprom' = param' \/ eeprom' = eeprom)
      BY <2>1, <2>3, WrittenFields
      DEF TimedOnStarts, helperCleanUpResumeData, WithoutResumeData
    <3> QED
      BY <2>1, <3>1, <3>2
  <2>4. CASE TimedOnContinues
    <3>1. (istimerCountdown_ended' => TimedEnded) /\ busy' = "no"
      BY <2>1, <2>4 DEF TimedOnContinues
    <3>2. \/ runState' \in {D_GOTOSLEEP, D_TIMED_ON}
          \/ runState' = D_GOTOSTANDBY /\ TimedEnded
      BY <2>1, <2>4 DEF TimedOnContinues
    <3>3. runState' = D_GOTOSTANDBY => TimedEnded
      BY <3>2 DEF D_GOTOSLEEP, D_GOTOSTANDBY, D_TIMED_ON
    <3>4. /\ param'.resumeState \in {param.resumeState, D_TIMED_ON}
          /\ ~param'.isOUCMonitoring /\ (eeprom' = param' \/ eeprom' = eeprom)
      BY <2>1, <2>4, WrittenFields DEF TimedOnContinues
    <3> QED
      BY <2>1, <2>2, <3>1, <3>2, <3>3, <3>4
  <2> QED
    BY <1>2, <2>3, <2>4 DEF timedOnController
<1>3. CASE goToOnController
  BY <1>3 DEF goToOnController, initTimers
<1>4. CASE onController
  <2>1. /\ runState = D_ALWAYS_ON /\ prevRunState' = D_ALWAYS_ON /\ param \in Params
        /\ istimerCountdown_ended' => istimerCountdown_ended
        /\ timerMins' = timerMins
    BY <1>4 DEF onController, TypeOK, StoreOK
  <2>2. runState' \in {D_GOTOSLEEP, D_GOTOSTANDBY, D_ALWAYS_ON} /\ busy' \in {"no", "on"}
    BY <1>4, <2>1 DEF onController, OnStarts, OnContinues, ACRelaysOn
  <2>3. /\ param'.resumeState \in {param.resumeState, D_STARTUP, D_ALWAYS_ON}
        /\ ~param'.isOUCMonitoring /\ (eeprom' = param' \/ eeprom' = eeprom)
    <3>1. CASE OnStarts
      BY <2>1, <3>1, WrittenFields
      DEF OnStarts, helperCleanUpResumeData, WithoutResumeData
    <3>2. CASE OnContinues
      BY <2>1, <3>2, WrittenFields DEF OnContinues
    <3> QED
      BY <1>4, <3>1, <3>2 DEF onController
  <2> QED
    BY <2>1, <2>2, <2>3
<1>5. CASE TimedOrOnStarted
  BY <1>5 DEF TimedOrOnStarted
<1> QED
  BY <1>1, <1>2, <1>3, <1>4, <1>5 DEF TimedAndContinuousPass

(* The states automatic charging stores.                                   *)
LEMMA AutoWrites ==
    ASSUME TypeOK, AutoStarts \/ AutoIdles \/ AutoContinues
    PROVE /\ param'.resumeState \in {param.resumeState, D_STARTUP, D_AUTO_ON, D_AUTO_OFF}
          /\ param'.isOUCMonitoring = param.isOUCMonitoring
          /\ eeprom' = param' \/ eeprom' = eeprom
<1> USE DEF paramVars, putParameters
<1>t. param \in Params
  BY DEF TypeOK, StoreOK
<1>1. \A p \in Params, c \in ResumeCauses, b \in BOOLEAN :
        /\ AutoSuspended(p, c, b).resumeState \in {D_AUTO_ON, D_AUTO_OFF}
        /\ AutoSuspended(p, c, b).isOUCMonitoring = p.isOUCMonitoring
        /\ AutoAsleep(p, b).resumeState \in {D_AUTO_ON, D_AUTO_OFF}
        /\ AutoAsleep(p, b).isOUCMonitoring = p.isOUCMonitoring
  BY DEF AutoSuspended, AutoAsleep, WithSession, WithMinutes, Params
<1>2. CASE AutoStarts \/ AutoIdles
  BY <1>t, <1>2, WrittenFields
  DEF AutoStarts, AutoIdles, AutoResumes, helperCleanUpResumeData, WithoutResumeData
<1>3. CASE AutoContinues
  <2>1. OverheatedNow \in BOOLEAN /\ WasOverheatedNow \in BOOLEAN
    BY HeatFlags
  <2>2. RESUME_OVERHEAT \in ResumeCauses /\ RESUME_MAINS_OFF \in ResumeCauses
    BY ConstantNumbers
  <2>3. AutoSuspended(param, RESUME_OVERHEAT, TRUE) \in Params
    BY <1>t, <2>2, AutoSaves
  <2>4. PICK hot : hot = IF OverheatedNow /\ ~WasOverheatedNow
                         THEN AutoSuspended(param, RESUME_OVERHEAT, TRUE) ELSE param
    OBVIOUS
  <2>5. /\ hot \in Params /\ hot.resumeState \in {param.resumeState, D_AUTO_ON, D_AUTO_OFF}
        /\ hot.isOUCMonitoring = param.isOUCMonitoring
    BY <1>t, <1>1, <2>2, <2>3, <2>4
  <2>6. \/ param' = AutoSuspended(hot, RESUME_MAINS_OFF,
                      WasOverheatedNow \/ (OverheatedNow /\ ~WasOverheatedNow))
        \/ param' = AutoAsleep(hot, sched = "on")
        \/ param' = hot
    BY <1>3, <2>4 DEF AutoContinues
  <2>7. eeprom' = param' \/ eeprom' = eeprom
    BY <1>3 DEF AutoContinues
  <2>8. PICK was \in BOOLEAN, on \in BOOLEAN :
          \/ param' = AutoSuspended(hot, RESUME_MAINS_OFF, was)
          \/ param' = AutoAsleep(hot, on)
          \/ param' = hot
    BY <2>1, <2>6
  <2> QED
    BY <1>1, <2>2, <2>5, <2>7, <2>8
<1> QED
  BY <1>2, <1>3

(* The states smart charging stores.                                       *)
LEMMA SmartWrites ==
    ASSUME param \in Params,
           \/ ChargedOnContinues
           \/ ChargedOnUSBCContinues
           \/ \E s, t, r, w : SmartRestarts(s, t, r, w)
    PROVE /\ param'.resumeState \in {param.resumeState, runState, D_GOTOSTANDBY, D_STARTUP}
          /\ param'.isOUCMonitoring = param.isOUCMonitoring
          /\ eeprom' = param' \/ eeprom' = eeprom
<1> USE DEF paramVars, putParameters
<1>1. \A p \in Params : \A rs :
        /\ SmartSuspended(p, rs).resumeState \in {p.resumeState, rs}
        /\ SmartSuspended(p, rs).isOUCMonitoring = p.isOUCMonitoring
  BY DEF SmartSuspended, WithSession, WithMinutes, Params
<1>2. CASE ChargedOnContinues
  <2>1. PICK rs \in {D_GOTOSTANDBY, runState} :
          rs = IF ChargedStops THEN D_GOTOSTANDBY ELSE runState
    OBVIOUS
  <2>2. /\ \/ param' = SmartSuspended(param, rs)
           \/ param' = WithSession(param, rs, 0, RESUME_MAINS_OFF)
           \/ param' = param
        /\ eeprom' = param' \/ eeprom' = eeprom
    BY <1>2, <2>1 DEF ChargedOnContinues
  <2> QED
    BY <1>1, <2>2, WrittenFields
<1>3. CASE ChargedOnUSBCContinues
  <2>1. PICK rs \in {D_GOTOSTANDBY, runState} :
          rs = IF USBCStops THEN D_GOTOSTANDBY ELSE runState
    OBVIOUS
  <2>2. PICK p : p = WithSession(param, rs, param.resumeMinutes, param.resumeCause)
    OBVIOUS
  <2>3. /\ p \in [resumeState : {rs}, resumeMinutes : Int, resumeCause : ResumeCauses,
                  isAuto : BOOLEAN, isOUCMonitoring : BOOLEAN]
        /\ p.isOUCMonitoring = param.isOUCMonitoring
    BY <2>2 DEF WithSession, WithMinutes, Params
  <2>4. /\ SmartSuspended(p, rs).resumeState = rs
        /\ SmartSuspended(p, rs).isOUCMonitoring = param.isOUCMonitoring
    BY <2>3 DEF SmartSuspended, WithSession, WithMinutes
  <2>5. /\ \/ param' = SmartSuspended(p, rs) \/ param' = SmartSuspended(param, rs)
           \/ param' = WithSession(param, rs, 0, param.resumeCause)
           \/ param' = param
        /\ eeprom' = param' \/ eeprom' = eeprom
    BY <1>3, <2>1, <2>2 DEF ChargedOnUSBCContinues
  <2> QED
    BY <1>1, <2>4, <2>5, WrittenFields
<1>4. CASE \E s, t, r, w : SmartRestarts(s, t, r, w)
  BY <1>4, WrittenFields DEF SmartRestarts, helperCleanUpResumeData, WithoutResumeData
<1> QED
  BY <1>2, <1>3, <1>4

(* Automatic charging, with no scheduled smart charge to start.            *)
LEMMA EndAutoSchedule ==
    ASSUME EndInv, AutoSchedulePass
    PROVE UnscheduledInv' /\ EndMarkInv' /\ EndStep
<1> USE UnscheduledStates, ScheduledNames
    DEF EndInv, UnscheduledInv, EndMarkInv, EndStep, heatVars, countdownVars,
        chargingVars, paramVars, envVars, scheduleVars, relayVars, putParameters, Pass
<1>1. ~checkScheduledStartUntilCharged
  BY DEF checkScheduledStartUntilCharged, ScheduledStart, ScheduleOver, ScheduleClock,
         StartIsDue, ScheduledCheckRuns
<1>2. CASE goToAutoController
  BY <1>2 DEF goToAutoController
<1>3. CASE autoController
  <2>1. /\ runState \in {D_AUTO_OFF, D_AUTO_ON} /\ UNCHANGED countdownVars
        /\ param \in Params /\ busy = "no"
    BY <1>3 DEF autoController, AutoStates, TypeOK, StoreOK
  <2>2. AutoExpires \/ AutoTimeInvalid \/ AutoStarts \/ AutoIdles \/ AutoContinues
    BY <1>3 DEF autoController
  <2>3. /\ runState' \in {D_GOTOSTANDBY, D_AUTO_OFF, D_AUTO_ON, D_GOTOSLEEP}
        /\ busy' \in {"no", "auto"}
        /\ prevRunState' \in {prevRunState, 0, D_AUTO_OFF}
    BY <2>1, <2>2
    DEF AutoExpires, AutoTimeInvalid, AutoStarts, AutoIdles, AutoContinues, ACRelaysOn
  <2>4. /\ param'.resumeState \in {param.resumeState, D_STARTUP, D_AUTO_ON, D_AUTO_OFF}
        /\ ~param'.isOUCMonitoring /\ (eeprom' = param' \/ eeprom' = eeprom)
    <3>1. CASE AutoExpires \/ AutoTimeInvalid
      BY <3>1 DEF AutoExpires, AutoTimeInvalid
    <3>2. CASE AutoStarts \/ AutoIdles \/ AutoContinues
      BY <3>2, AutoWrites
    <3> QED
      BY <2>2, <3>1, <3>2
  <2> QED
    BY <2>1, <2>3, <2>4
<1>4. CASE AutoStarted
  BY <1>4 DEF AutoStarted
<1> QED
  BY <1>1, <1>2, <1>3, <1>4 DEF AutoSchedulePass

(* Requested smart charging: it stores only its own run state.             *)
LEMMA EndSmartCharging ==
    ASSUME EndInv, SmartChargingPass
    PROVE UnscheduledInv' /\ EndMarkInv' /\ EndStep
<1> USE UnscheduledStates, ScheduledNames
    DEF EndInv, UnscheduledInv, EndMarkInv, EndStep, heatVars, countdownVars,
        chargingVars, paramVars, envVars, scheduleVars, relayVars, putParameters, Pass
<1>1. CASE goToChargedOnAutoController
  BY <1>1 DEF goToChargedOnAutoController, GoToSmart, ACRelaysOn
<1>2. CASE goToChargedOnUSBCAutoController
  BY <1>2 DEF goToChargedOnUSBCAutoController, GoToSmart, ACRelaysOn
<1>3. param \in Params
  BY DEF TypeOK, StoreOK
<1>4. CASE chargedOnController
  <2>1. runState = D_CHARGED_ON /\ busy = "no" /\ UNCHANGED countdownVars /\ param \in Params
    BY <1>4 DEF chargedOnController, SmartACStates, TypeOK, StoreOK
  <2>2. CASE ChargedOnContinues
    <3>1. PICK rs \in {D_GOTOSTANDBY, D_CHARGED_ON} :
            rs = IF ChargedStops THEN D_GOTOSTANDBY ELSE runState
      BY <2>1
    <3>2. /\ runState' \in {D_GOTOSLEEP, D_GOTOSTANDBY, rs} /\ busy' = busy
          /\ prevRunState' \in {prevRunState, rs}
      BY <2>2, <3>1 DEF ChargedOnContinues
    <3> QED
      BY <1>3, <2>1, <2>2, <3>1, <3>2, SmartWrites
  <2>3. CASE SmartRestarts(D_CHARGED_ON_AUTO, D_GOTOCHARGED_ON_AUTO, D_GOTOCHARGED_ON,
                           "smartAgain")
    <3>1. /\ param'.resumeState \in {param.resumeState, runState, D_GOTOSTANDBY, D_STARTUP}
          /\ ~param'.isOUCMonitoring /\ (eeprom' = param' \/ eeprom' = eeprom)
      BY <1>3, <2>3, SmartWrites
    <3>2. /\ runState' \in {runState, D_GOTOCHARGED_ON} /\ busy' \in {busy, "smartAgain"}
          /\ prevRunState' = prevRunState
      BY <2>3 DEF SmartRestarts, ACRelaysOn
    <3> QED
      BY <2>1, <3>1, <3>2
  <2> QED
    BY <1>4, <2>2, <2>3 DEF chargedOnController
<1>5. CASE chargedOnUSBCController
  <2>1. /\ runState = D_CHARGED_ON_USBC /\ busy = "no" /\ UNCHANGED countdownVars
        /\ param \in Params
    BY <1>5 DEF chargedOnUSBCController, SmartUSBCStates, TypeOK, StoreOK
  <2>2. CASE ChargedOnUSBCContinues
    <3>1. PICK rs \in {D_GOTOSTANDBY, D_CHARGED_ON_USBC} :
            rs = IF USBCStops THEN D_GOTOSTANDBY ELSE runState
      BY <2>1
    <3>2. /\ runState' \in {D_GOTOSLEEP, D_GOTOSTANDBY, rs} /\ busy' = busy
          /\ prevRunState' = prevRunState
      BY <2>2, <3>1 DEF ChargedOnUSBCContinues
    <3> QED
      BY <1>3, <2>1, <2>2, <3>1, <3>2, SmartWrites
  <2>3. CASE SmartRestarts(D_CHARGED_ON_USBC_AUTO, D_GOTOCHARGED_ON_USBC_AUTO,
                           D_GOTOCHARGED_ON_USBC, "usbcAgain")
    <3>1. /\ param'.resumeState \in {param.resumeState, runState, D_GOTOSTANDBY, D_STARTUP}
          /\ ~param'.isOUCMonitoring /\ (eeprom' = param' \/ eeprom' = eeprom)
      BY <1>3, <2>3, SmartWrites
    <3>2. /\ runState' \in {runState, D_GOTOCHARGED_ON_USBC}
          /\ busy' \in {busy, "usbcAgain"} /\ prevRunState' = prevRunState
      BY <2>3 DEF SmartRestarts, ACRelaysOn
    <3> QED
      BY <2>1, <3>1, <3>2
  <2> QED
    BY <1>5, <2>2, <2>3 DEF chargedOnUSBCController
<1>6. CASE SmartStarted
  <2>1. /\ busy \in {"smart", "usbc"} /\ busy' = "no" /\ UNCHANGED <<paramVars, countdownVars>>
        /\ runState # D_TIMED_ON
    BY <1>6 DEF SmartStarted, ScheduledWaits
  <2>2. /\ runState' \in {runState, D_CHARGED_ON, D_CHARGED_ON_USBC}
        /\ prevRunState' \in {prevRunState, runState'}
    BY <1>6, <2>1 DEF SmartStarted
  <2> QED
    BY <2>1, <2>2
<1>7. CASE SmartStartedAgain
  BY <1>7 DEF SmartStartedAgain
<1> QED
  BY <1>1, <1>2, <1>4, <1>5, <1>6, <1>7 DEF SmartChargingPass

-----------------------------------------------------------------------------
(* Commands: none is accepted while a timed session runs.                  *)
LEMMA EndCommands ==
    ASSUME NobodyStops, EndInv, remoteAdmin
    PROVE UnscheduledInv' /\ EndMarkInv' /\ EndStep
<1> USE UnscheduledStates, ScheduledNames
    DEF EndInv, UnscheduledInv, EndMarkInv, EndStep, countdownVars, paramVars
<1>1. onViewRunState(D_TIMED_ON) = W_TIMED_ON
  BY DEF onViewRunState, W_TIMED_ON, D_GOTOSLEEP, D_SLEEPING, D_WEBGOTOHIBERNATE,
         D_WEBGOTOTIMED, D_TIMED_ON, D_GOTOTIMED_ON, D_WEBGOTOAUTO,
         D_GOTOAUTO, D_AUTO_OFF, D_AUTO_ON, D_WEBGOTOON, D_GOTOALWAYS_ON, D_ALWAYS_ON,
         D_WEBGOTOCHARGED, D_CHARGED_ON, D_GOTOCHARGED_ON, D_WEBGOTOCHARGEDUSBC,
         D_CHARGED_ON_USBC, D_GOTOCHARGED_ON_USBC, D_GOTOCHARGED_ON_AUTO,
         D_CHARGED_ON_AUTO, D_GOTOCHARGED_ON_USBC_AUTO, D_CHARGED_ON_USBC_AUTO
<1>2. UNCHANGED <<busy, countdownVars>>
  BY DEF remoteAdmin
<1>3. W_TIMED_ON \notin {W_STANDBY, W_AUTO_ON, W_AUTO_OFF}
  BY DEF W_TIMED_ON, W_STANDBY, W_AUTO_ON, W_AUTO_OFF
<1>4. CASE \E c \in Commands \cap StandbyCommands : ActivityCommand(c)
  <2>1. PICK c \in StandbyCommands : ActivityCommand(c)
    BY <1>4
  <2>2. /\ runState # D_TIMED_ON /\ prevRunState' = runState /\ runState' = Selected(c)
        /\ UNCHANGED paramVars
    BY <1>1, <1>3, <2>1 DEF ActivityCommand, Accepted, View
  <2>3. Selected(c) \in {D_WEBGOTORESTART, D_WEBGOTOHARDRESTART, D_WEBGOTOTIMED, D_WEBGOTOON,
                         D_WEBGOTOCHARGED, D_WEBGOTOCHARGEDUSBC, D_WEBGOTOHIBERNATE}
    BY DEF Selected, StandbyCommands
  <2> QED
    BY <1>2, <2>2, <2>3
<1>5. CASE AutoOnCommand
  <2>1. /\ runState # D_TIMED_ON /\ prevRunState' = runState /\ runState' = D_WEBGOTOAUTO
        /\ UNCHANGED paramVars
    BY <1>1, <1>3, <1>5 DEF AutoOnCommand, Accepted, View, NobodyStops
  <2> QED
    BY <1>2, <2>1
<1>6. CASE AutoOffCommand
  <2>1. /\ runState # D_TIMED_ON /\ prevRunState' = runState /\ runState' = D_WEBGOTOSTANDBY
    BY <1>1, <1>3, <1>6 DEF AutoOffCommand, Accepted, View, NobodyStops
  <2>2. /\ param'.resumeState = param.resumeState /\ ~param'.isOUCMonitoring
        /\ eeprom' = param'
    BY <1>6 DEF AutoOffCommand, putParameters, TypeOK, StoreOK, Params
  <2> QED
    BY <1>2, <2>1, <2>2
<1> QED
  BY <1>4, <1>5, <1>6 DEF remoteAdmin, NobodyStops

(* The controllers that carry them out mark no countdown as ended.         *)
LEMMA EndWebCommands ==
    ASSUME EndInv, WebCommandsPass
    PROVE UnscheduledInv' /\ EndMarkInv' /\ EndStep
<1> USE UnscheduledStates, ScheduledNames
    DEF EndInv, UnscheduledInv, EndMarkInv, EndStep, countdownVars, paramVars,
        putParameters, Pass
<1>1. CASE StoppingController
  <2>1. /\ ~webOUCAExitController
        /\ previousStateHandler(prevRunState) /\ UNCHANGED <<busy, timerMins>>
        /\ busy = "no" /\ runState # D_TIMED_ON
    BY <1>1 DEF StoppingController, webOUCAExitController, webGoToTimedController,
        webGoToOnController, webGoToAutoController, webGoToChargedController,
        webGoToStandbyController
  <2>2. istimerCountdown_ended' = istimerCountdown_ended
    BY <2>1 DEF previousStateHandler
  <2>3. /\ prevRunState' \in {prevRunState, D_WEBGOTOTIMED, D_WEBGOTOON, AUTOANDOFF}
        /\ runState' \in {D_GOTOTIMED_ON, D_GOTOALWAYS_ON, D_GOTOAUTO, D_GOTOCHARGED_ON,
                          D_GOTOCHARGED_ON_USBC, D_GOTOSTANDBY}
    BY <1>1, <2>1 DEF StoppingController, webGoToTimedController, webGoToOnController,
        webGoToAutoController, webGoToChargedController, webGoToStandbyController
  <2>4. \/ UNCHANGED paramVars
        \/ \E b \in BOOLEAN : SetAuto(b)
    BY <1>1, <2>1 DEF StoppingController, webGoToTimedController, webGoToOnController,
        webGoToAutoController, webGoToChargedController, webGoToStandbyController
  <2>5. /\ param'.resumeState = param.resumeState
        /\ param'.isOUCMonitoring = param.isOUCMonitoring
        /\ eeprom' = param' \/ eeprom' = eeprom
    BY <2>4 DEF SetAuto, TypeOK, StoreOK, Params
  <2> QED
    BY <2>1, <2>2, <2>3, <2>5
<1>2. ~webGoToOUCAutoController
  BY DEF webGoToOUCAutoController
<1>3. CASE /\ \/ webGoToRestartController \/ webGoToFactoryResetController
              \/ webGoToHibernateController \/ QueueDone
           /\ UNCHANGED <<prevRunState, countdownVars>>
  <2>1. /\ param'.resumeState \in {param.resumeState, D_STARTUP} /\ ~param'.isOUCMonitoring
        /\ eeprom' = param' \/ eeprom' = eeprom
    <3>1. CASE webGoToFactoryResetController
      BY <3>1 DEF webGoToFactoryResetController, DefaultParams
    <3>2. CASE webGoToRestartController \/ webGoToHibernateController \/ QueueDone
      BY <3>2 DEF webGoToRestartController, webGoToHibernateController, QueueDone, TypeOK,
                  StoreOK, Params
    <3> QED
      BY <1>3, <3>1, <3>2
  <2>2. /\ runState # D_TIMED_ON /\ runState' \in {runState, D_RESTART}
        /\ busy' \in {"no", "resetQueue", "hibernateQueue", "hibernate"}
    BY <1>3 DEF webGoToRestartController, webGoToFactoryResetController,
                webGoToHibernateController, QueueDone
  <2> QED
    BY <1>3, <2>1, <2>2
<1> QED
  BY <1>1, <1>2, <1>3 DEF WebCommandsPass

(* The surroundings. *)
LEMMA EndSurroundings ==
    ASSUME EndInv, Surroundings
    PROVE UnscheduledInv' /\ EndMarkInv' /\ EndStep
<1>1. CASE Reset
  <2>1. runState' # D_GOTOSTANDBY
    BY <1>1 DEF Reset, Booted, D_STARTUP, D_GOTOSTANDBY
  <2> QED
    BY <1>1, <2>1, EndBooted DEF Reset, EndStep
<1>2. CASE ~Reset
  <2>1. UNCHANGED <<runState, prevRunState, istimerCountdown_ended, timerMins, param, eeprom>>
    BY <1>2 DEF Surroundings, MainsFails, MainsReturns, TemperatureChanges,
           ScheduleMoves, CountdownMinute, ChargingMinute, ResetTimerExpires,
           SleepDelayPasses, deviceVars, countdownVars, paramVars
  <2>2. busy' = busy \/ (busy \in Asleep /\ busy' \in {"booting", "woken"})
    BY <1>2 DEF Surroundings, MainsFails, MainsReturns, TemperatureChanges,
           ScheduleMoves, CountdownMinute, ChargingMinute, ResetTimerExpires,
           SleepDelayPasses, Asleep
  <2> QED
    BY <2>1, <2>2, UnscheduledStates, ScheduledNames
    DEF EndInv, UnscheduledInv, EndMarkInv, EndStep, Asleep
<1> QED
  BY <1>1, <1>2

-----------------------------------------------------------------------------
(* Every step keeps the invariant, and ends no session early.              *)
LEMMA EndNext ==
    ASSUME NobodyStops, EndInv, [Next]_vars
    PROVE EndInv' /\ EndStep
<1>1. TypeOK'
  BY TypeStep DEF EndInv
<1>2. CASE LoopPass
  BY <1>1, <1>2, EndStandbyAndSleep, EndTimedAndContinuous, EndAutoSchedule,
     EndSmartCharging, EndWebCommands
  DEF LoopPass, EndInv
<1>3. CASE remoteAdmin
  BY <1>1, <1>3, EndCommands DEF EndInv
<1>4. CASE Surroundings
  BY <1>1, <1>4, EndSurroundings DEF EndInv
<1>5. CASE UNCHANGED vars
  BY <1>1, <1>5, UnscheduledStates
  DEF EndInv, UnscheduledInv, EndMarkInv, EndStep, vars, countdownVars, paramVars
<1> QED
  BY <1>2, <1>3, <1>4, <1>5 DEF Next

(* A timed session dismisses itself only when its minutes are over: no end *)
(* mark of an earlier session, and no other charging in between, ends it.  *)
THEOREM TimedEndsOnTime ==
    ASSUME NobodyStops
    PROVE Spec => EndsOnTime
<1>1. Init => EndInv
  <2>1. DefaultParams.resumeState = D_STARTUP /\ ~DefaultParams.isOUCMonitoring
    BY DEF DefaultParams
  <2> QED
    BY <2>1, TypeInit, UnscheduledStates, ScheduledNames
    DEF Init, EndInv, UnscheduledInv, EndMarkInv
<1>2. EndInv /\ [Next]_vars
      => EndInv' /\ [runState = D_TIMED_ON /\ runState' = D_GOTOSTANDBY
                     => timerMins' >= TimerPeriod]_vars
  BY EndNext DEF EndStep
<1> QED
  BY <1>1, <1>2, PTL DEF Spec, EndsOnTime

-----------------------------------------------------------------------------
(* What the theorem about replaced sessions assumes: stb is not sent, the  *)
(* others one at a time, and the mains does not come back in the two waits *)
(* before a hibernation. All kinds of charging, schedules, temperatures,   *)
(* resets and power-on settings are left free.                             *)
NoStopCommand ==
    /\ "stb" \notin Commands /\ Patient
    /\ {"queue", "confirm"} \subseteq SteadyWaits

Engaging == {D_WEBOUCAUTO, D_WEBOUCAEXIT}
AsleepSoon == {D_GOTOSLEEP, D_SLEEPING}
ScheduledStarts == {D_GOTOCHARGED_ON_AUTO, D_GOTOCHARGED_ON_USBC_AUTO}
ScheduledSoftStarts == {"smartAuto", "usbcAuto"}

(* The run states without a countdown, nor a way back to one. *)
Elsewhere ==
    DeviceRunStates \ ({D_TIMED_ON} \cup AsleepSoon \cup Engaging \cup ScheduledStarts)
LoopWaits ==
    {"no", "timed", "on", "auto", "smartAgain", "usbcAgain", "smart", "usbc",
     "resetQueue", "hibernateQueue", "hibernate", "booting"} \cup ScheduledSoftStarts

(* The run state that goes on when what interrupts it, a command for the   *)
(* schedule or a scheduled start, comes to nothing.                        *)
Interrupted ==
    IF runState \in Engaging \/ busy = "scheduled" THEN prevRunState ELSE runState

(* The inductive invariant. A countdown runs in the timed run state, or on *)
(* in a sleep that leads back to it and nowhere else. Such a sleep follows *)
(* a loss of the mains whose stamp was left by an earlier one, which a     *)
(* timed session has only if it was itself taken up from the store.        *)
TimedResumes == {D_STARTUP, D_STANDBY, D_TIMED_ON}
Resumes == TimedResumes \cup SmartACStates \cup SmartUSBCStates
               \cup {D_AUTO_OFF, D_AUTO_ON, D_ALWAYS_ON, D_GOTOSTANDBY}
TimedStored == param.resumeState \in TimedResumes /\ eeprom.resumeState \in TimedResumes
ReplaceCountInv ==
    countdown => /\ Interrupted \in {D_TIMED_ON} \cup AsleepSoon
                 /\ ~istimerCountdown_ended
                 /\ busy \in {"no", "timed", "scheduled", "queue", "confirm",
                              "hibernate", "booting"}
ReplaceStoreInv ==
    /\ param.resumeState \in Resumes /\ eeprom.resumeState \in Resumes
    /\ countdown /\ Interrupted \in AsleepSoon => TimedStored
    /\ Interrupted = D_TIMED_ON /\ mainsofftime # "zero" => TimedStored
    /\ Interrupted \in ScheduledStarts /\ busy \notin ScheduledSoftStarts => TimedStored
ReplaceWaitInv ==
    /\ busy = "scheduled" => /\ runState \in ScheduledStarts
                             /\ prevRunState \in {D_TIMED_ON, D_ALWAYS_ON, D_CHARGED_ON,
                                                  D_STANDBY}
    /\ busy \in {"queue", "confirm"} => ~mains
    /\ busy \notin {"wake", "stop", "woken"}
ReplaceKept == ReplaceCountInv /\ ReplaceStoreInv /\ ReplaceWaitInv
ReplaceInv == TypeOK /\ ReplaceKept

-----------------------------------------------------------------------------
(* The run states by where they belong.                                    *)
LEMMA ReplaceNames ==
    /\ {0, D_STARTUP, D_STANDBY, D_AUTO_OFF, D_AUTO_ON, D_ALWAYS_ON, D_CHARGED_ON,
        D_CHARGED_ON_USBC, D_CHARGED_ON_AUTO, D_CHARGED_ON_USBC_AUTO, D_GOTOSTANDBY,
        D_GOTOTIMED_ON, D_GOTOAUTO, D_GOTOALWAYS_ON, D_GOTOCHARGED_ON,
        D_GOTOCHARGED_ON_USBC, D_RESTART, D_WEBGOTORESTART, D_WEBGOTOHARDRESTART,
        D_WEBGOTOSTANDBY, D_WEBGOTOHIBERNATE, D_WEBGOTOAUTO, D_WEBGOTOCHARGED,
        D_WEBGOTOON, D_WEBGOTOTIMED, D_WEBGOTOCHARGEDUSBC} \subseteq Elsewhere
    /\ \A s \in Elsewhere :
         s # D_TIMED_ON /\ s \notin AsleepSoon /\ s \notin Engaging /\ s \notin ScheduledStarts
    /\ \A s \in AsleepSoon \cup {D_TIMED_ON} :
         s \notin Engaging /\ s \notin ScheduledStarts /\ s \notin WebStates
    /\ D_TIMED_ON \notin AsleepSoon
    /\ \A s \in ScheduledStarts :
         s # D_TIMED_ON /\ s \notin AsleepSoon /\ s \notin Engaging /\ s \notin WebStates
    /\ Engaging \subseteq WebStates
    /\ \A s \in Resumes : s \in Elsewhere \/ s = D_TIMED_ON
    /\ \A s \in TimedResumes : s > D_STANDBY => s = D_TIMED_ON
    /\ D_STANDBY \notin {D_TIMED_ON, D_ALWAYS_ON, D_CHARGED_ON}
    /\ AsleepSoon \cap {D_TIMED_ON, D_ALWAYS_ON, D_CHARGED_ON, D_STANDBY} = {}
  BY DEF Elsewhere, AsleepSoon, Engaging, ScheduledStarts, Resumes, TimedResumes,
         DeviceRunStates, ChargingStates, GotoStates, WebStates, AutoStates,
         SmartACStates, SmartUSBCStates, D_STARTUP, D_STANDBY, D_TIMED_ON, D_AUTO_OFF,
         D_AUTO_ON, D_ALWAYS_ON, D_SLEEPING, D_CHARGED_ON, D_CHARGED_ON_USBC,
         D_GOTOSTANDBY, D_GOTOTIMED_ON, D_GOTOAUTO, D_GOTOALWAYS_ON, D_GOTOSLEEP,
         D_GOTOCHARGED_ON, D_GOTOCHARGED_ON_USBC, D_CHARGED_ON_AUTO,
         D_CHARGED_ON_USBC_AUTO, D_RESTART, D_GOTOCHARGED_ON_AUTO,
         D_GOTOCHARGED_ON_USBC_AUTO, D_WEBOUCAEXIT, D_WEBGOTORESTART,
         D_WEBGOTOHARDRESTART, D_WEBGOTOSTANDBY, D_WEBGOTOHIBERNATE, D_WEBGOTOAUTO,
         D_WEBGOTOCHARGED, D_WEBGOTOON, D_WEBGOTOTIMED, D_WEBOUCAUTO,
         D_WEBGOTOCHARGEDUSBC

(* The stored states and waits by name.                                    *)
LEMMA ReplaceStored ==
    /\ {D_STARTUP, D_STANDBY, D_TIMED_ON} \subseteq TimedResumes
    /\ {D_STARTUP, D_STANDBY, D_TIMED_ON, D_AUTO_OFF, D_AUTO_ON, D_ALWAYS_ON,
        D_GOTOSTANDBY} \subseteq Resumes
    /\ SmartACStates \subseteq Resumes /\ SmartUSBCStates \subseteq Resumes
    /\ SmartACStates \subseteq Elsewhere /\ SmartUSBCStates \subseteq Elsewhere
    /\ {D_AUTO_OFF, D_AUTO_ON} = AutoStates
  BY ReplaceNames DEF TimedResumes, Resumes, SmartACStates, SmartUSBCStates, AutoStates

-----------------------------------------------------------------------------
(* A step that goes where no countdown runs and nothing leads back to one. *)
LEMMA ReplaceElsewhere ==
    ASSUME ~countdown', runState' \in Elsewhere \cup AsleepSoon,
           busy' \in LoopWaits \/ (busy' \in {"queue", "confirm"} /\ ~mains'),
           param'.resumeState \in Resumes, eeprom'.resumeState \in Resumes
    PROVE ReplaceKept'
<1>1. busy' \notin {"scheduled", "wake", "stop", "woken"}
  BY DEF LoopWaits, ScheduledSoftStarts
<1>2. runState' \notin Engaging /\ runState' # D_TIMED_ON /\ runState' \notin ScheduledStarts
  BY ReplaceNames
<1>3. Interrupted' = runState'
  BY <1>1, <1>2 DEF Interrupted
<1> QED
  BY <1>1, <1>2, <1>3
  DEF ReplaceKept, ReplaceCountInv, ReplaceStoreInv, ReplaceWaitInv, LoopWaits,
      ScheduledSoftStarts

(* In no other run state does a countdown run.                             *)
LEMMA ReplaceIdle ==
    ASSUME ReplaceInv, runState \in Elsewhere \cup ScheduledStarts, busy # "scheduled"
    PROVE ~countdown
<1>1. Interrupted = runState
  BY ReplaceNames DEF Interrupted
<1> QED
  BY <1>1, ReplaceNames DEF ReplaceInv, ReplaceKept, ReplaceCountInv

(* A step that leaves the charging, the run state and its wait alone.      *)
LEMMA ReplaceSame ==
    ASSUME ReplaceInv,
           UNCHANGED <<runState, prevRunState, countdown, istimerCountdown_ended>>,
           mainsofftime' = mainsofftime \/ mainsofftime # "zero",
           \/ busy' = busy
           \/ busy = "hibernate" /\ busy' = "booting",
           busy' \in {"queue", "confirm"} => ~mains',
           param'.resumeState = param.resumeState, eeprom'.resumeState = eeprom.resumeState
    PROVE ReplaceKept'
<1>1. Interrupted' = Interrupted
  BY DEF Interrupted
<1> QED
  BY <1>1
  DEF ReplaceInv, ReplaceKept, ReplaceCountInv, ReplaceStoreInv, TimedStored,
      ReplaceWaitInv, ScheduledSoftStarts

(* A reset reads what is stored.                                           *)
LEMMA ReplaceBooted ==
    ASSUME ReplaceInv, Booted
    PROVE ReplaceKept'
<1>1. /\ ~countdown' /\ runState' = D_STARTUP /\ busy' = "no"
      /\ param' = eeprom /\ eeprom' = eeprom
  BY DEF Booted
<1>2. eeprom.resumeState \in Resumes
  BY DEF ReplaceInv, ReplaceKept, ReplaceStoreInv
<1> QED
  BY <1>1, <1>2, ReplaceNames, ReplaceElsewhere DEF LoopWaits

-----------------------------------------------------------------------------
(* Startup, standby and sleep. A sleep with a countdown on leads back to   *)
(* the timed session, or ends in a hibernation and a reset.                *)
LEMMA ReplaceStandbyAndSleep ==
    ASSUME NoStopCommand, ReplaceInv, StandbyAndSleepPass
    PROVE ReplaceKept'
<1> USE ReplaceNames, ReplaceStored
    DEF heatVars, countdownVars, chargingVars, paramVars, envVars, scheduleVars, relayVars,
        putParameters, Pass
<1>t. /\ param \in Params /\ eeprom \in Params
      /\ ReplaceCountInv /\ ReplaceStoreInv /\ ReplaceWaitInv
  BY DEF ReplaceInv, ReplaceKept, TypeOK, StoreOK
<1>s. param.resumeState \in Resumes /\ eeprom.resumeState \in Resumes
  BY <1>t DEF ReplaceStoreInv
<1>1. CASE startupController
  <2>1. powerOnStateSelection(PowerOnState, param.resumeState)
            \in {D_GOTOSTANDBY, D_GOTOTIMED_ON, D_GOTOALWAYS_ON, D_GOTOAUTO,
                 D_GOTOCHARGED_ON, D_GOTOCHARGED_ON_USBC}
    BY DEF powerOnStateSelection, LastStateSelection
  <2>2. /\ runState = D_STARTUP /\ busy = "no" /\ busy' = "no" /\ countdown' = countdown
        /\ runState' \in Elsewhere /\ param' = param /\ eeprom' = param
    BY <1>1, <2>1 DEF startupController
  <2> QED
    BY <1>s, <2>2, ReplaceIdle, ReplaceElsewhere DEF LoopWaits
<1>2. CASE restartController
  <2>1. CASE Booted
    BY <2>1, ReplaceBooted
  <2>2. CASE ~Booted
    BY <1>2, <1>t, <2>2, ReplaceSame DEF restartController, ReplaceWaitInv
  <2> QED
    BY <2>1, <2>2
<1>3. CASE goToStandbyController
  <2>1. /\ runState = D_GOTOSTANDBY /\ busy = "no" /\ busy' = "no" /\ countdown' = countdown
        /\ runState' \in {D_GOTOSLEEP, D_STANDBY}
    BY <1>3 DEF goToStandbyController
  <2>2. /\ param'.resumeState = param.resumeState
        /\ eeprom' = eeprom \/ eeprom' = param'
    BY <1>3, <1>t, WrittenFields DEF goToStandbyController
  <2> QED
    BY <1>s, <2>1, <2>2, ReplaceIdle, ReplaceElsewhere DEF LoopWaits, AsleepSoon
<1>4. CASE standbyController
  <2>1. /\ runState = D_STANDBY /\ busy = "no" /\ busy' = "no" /\ countdown' = countdown
        /\ runState' \in {D_GOTOSLEEP, D_STANDBY}
    BY <1>4 DEF standbyController
  <2>2. /\ param'.resumeState \in {param.resumeState, D_STANDBY}
        /\ eeprom' = eeprom \/ eeprom' = param'
    BY <1>4, <1>t, WrittenFields DEF standbyController
  <2> QED
    BY <1>s, <2>1, <2>2, ReplaceIdle, ReplaceElsewhere DEF LoopWaits, AsleepSoon
<1>5. CASE goToSleepController
  <2>1. /\ runState = D_GOTOSLEEP /\ runState' = D_SLEEPING /\ busy = "no" /\ busy' = "no"
        /\ UNCHANGED <<countdown, istimerCountdown_ended, param, eeprom>>
    BY <1>5 DEF goToSleepController
  <2>2. Interrupted = D_GOTOSLEEP /\ Interrupted' = D_SLEEPING
    BY <2>1 DEF Interrupted, AsleepSoon
  <2> QED
    BY <1>t, <2>1, <2>2
    DEF ReplaceKept, ReplaceCountInv, ReplaceStoreInv, TimedStored, ReplaceWaitInv,
        AsleepSoon
<1>6. CASE sleepingController
  <2>1. /\ runState = D_SLEEPING /\ busy = "no" /\ Interrupted = D_SLEEPING
        /\ UNCHANGED <<countdown, istimerCountdown_ended, mains, eeprom>>
    BY <1>6 DEF sleepingController, Interrupted, AsleepSoon, helperAfterSleep
  <2>2. CASE busy' = "queue" /\ ~mains /\ UNCHANGED <<runState, paramVars>>
    <3>1. Interrupted' = D_SLEEPING
      BY <2>1, <2>2 DEF Interrupted, AsleepSoon
    <3> QED
      BY <1>t, <2>1, <2>2, <3>1
      DEF ReplaceKept, ReplaceCountInv, ReplaceStoreInv, TimedStored, ReplaceWaitInv,
          AsleepSoon
  <2>3. CASE helperAfterSleep
    <3>1. /\ param' = eeprom /\ eeprom' = eeprom /\ busy' = "no"
          /\ \/ runState' = D_SLEEPING
             \/ eeprom.resumeState > D_STANDBY /\ runState' = eeprom.resumeState
      BY <2>1, <2>3 DEF helperAfterSleep
    <3>2. /\ Interrupted' = runState'
          /\ runState' = D_SLEEPING \/ runState' = D_TIMED_ON \/ runState' \in Elsewhere
      BY <1>s, <3>1 DEF Interrupted, AsleepSoon
    <3>3. countdown => TimedStored
      BY <1>t, <2>1 DEF ReplaceCountInv, ReplaceStoreInv, AsleepSoon
    <3>4. countdown => runState' \in {D_SLEEPING, D_TIMED_ON}
      BY <3>1, <3>3 DEF TimedStored
    <3>5. runState' = D_TIMED_ON => eeprom.resumeState = D_TIMED_ON
      BY <3>1 DEF AsleepSoon
    <3>6. ReplaceCountInv' /\ ReplaceWaitInv'
      BY <1>t, <2>1, <3>1, <3>2, <3>4
      DEF ReplaceCountInv, ReplaceWaitInv, AsleepSoon
    <3>7. ReplaceStoreInv'
      BY <1>s, <2>1, <3>1, <3>2, <3>3, <3>5
      DEF ReplaceStoreInv, TimedStored, AsleepSoon
    <3> QED
      BY <3>6, <3>7 DEF ReplaceKept
  <2>4. CASE UNCHANGED <<runState, busy, paramVars>>
    BY <1>6, <1>t, <2>1, <2>4, ReplaceSame DEF sleepingController, ReplaceWaitInv
  <2>5. powerStateCheck = W_MAINS_OFF => ~mains
    BY DEF powerStateCheck, W_MAINS_OFF, W_CHARGING, W_MAINS_ON
  <2> QED
    BY <1>6, <2>2, <2>3, <2>4, <2>5 DEF sleepingController
<1>7. CASE SleepQueueDone
  <2>1. busy = "queue" /\ ~mains
    BY <1>7, <1>t DEF SleepQueueDone, ReplaceWaitInv
  <2>2. /\ busy' = "confirm" /\ param'.resumeState = param.resumeState
        /\ eeprom' = param'
        /\ UNCHANGED <<runState, prevRunState, countdown, istimerCountdown_ended,
                       mainsofftime, mains>>
    BY <1>7, <2>1 DEF SleepQueueDone, ReplaceInv, TypeOK, StoreOK, Params
  <2>3. Interrupted' = Interrupted
    BY <2>1, <2>2 DEF Interrupted
  <2> QED
    BY <1>t, <2>1, <2>2, <2>3
    DEF ReplaceKept, ReplaceCountInv, ReplaceStoreInv, TimedStored, ReplaceWaitInv,
        ScheduledSoftStarts
<1>8. CASE SleepConfirm
  <2>1. busy = "confirm" /\ ~mains
    BY <1>8, <1>t DEF SleepConfirm, ReplaceWaitInv
  <2>2. /\ busy' = "hibernate"
        /\ UNCHANGED <<runState, prevRunState, countdown, istimerCountdown_ended,
                       mainsofftime, mains, param, eeprom>>
    BY <1>8, <2>1 DEF SleepConfirm
  <2>3. Interrupted' = Interrupted
    BY <2>1, <2>2 DEF Interrupted
  <2> QED
    BY <1>t, <2>1, <2>2, <2>3
    DEF ReplaceKept, ReplaceCountInv, ReplaceStoreInv, TimedStored, ReplaceWaitInv,
        ScheduledSoftStarts
<1>9. ~SleepWake /\ ~SleepStopped
  BY <1>t DEF SleepWake, SleepStopped, ReplaceWaitInv
<1>10. CASE SleepBooted
  BY <1>10, ReplaceBooted DEF SleepBooted
<1> QED
  BY <1>1, <1>2, <1>3, <1>4, <1>5, <1>6, <1>7, <1>8, <1>9, <1>10 DEF StandbyAndSleepPass

(* Timed and continuous charging. The timed controller goes to sleep with  *)
(* its countdown on only when an earlier loss is stamped.                  *)
LEMMA ReplaceTimedAndContinuous ==
    ASSUME ReplaceInv, TimedAndContinuousPass
    PROVE ReplaceKept'
<1> USE ReplaceNames, ReplaceStored
    DEF heatVars, countdownVars, chargingVars, paramVars, envVars, scheduleVars, relayVars,
        putParameters, Pass
<1>t. /\ TypeOK /\ param \in Params /\ eeprom \in Params
      /\ ReplaceCountInv /\ ReplaceStoreInv /\ ReplaceWaitInv
  BY DEF ReplaceInv, ReplaceKept, TypeOK, StoreOK
<1>s. param.resumeState \in Resumes /\ eeprom.resumeState \in Resumes
  BY <1>t DEF ReplaceStoreInv
<1>1. CASE goToTimedOnController
  <2>1. /\ runState = D_GOTOTIMED_ON /\ busy = "no" /\ busy' = "no"
        /\ UNCHANGED <<param, eeprom>>
    BY <1>1 DEF goToTimedOnController
  <2>2. CASE ~countdown' /\ runState' = D_TIMED_ON /\ mainsofftime' = "zero"
    <3>1. Interrupted' = D_TIMED_ON
      BY <2>1, <2>2 DEF Interrupted
    <3> QED
      BY <1>s, <2>1, <2>2, <3>1
      DEF ReplaceKept, ReplaceCountInv, ReplaceStoreInv, ReplaceWaitInv
  <2>3. CASE countdown' = countdown /\ runState' = D_GOTOSTANDBY
    BY <1>s, <2>1, <2>3, ReplaceIdle, ReplaceElsewhere DEF LoopWaits
  <2> QED
    BY <1>1, <2>2, <2>3 DEF goToTimedOnController, initTimers
<1>2. CASE timedOnController
  <2>1. /\ runState = D_TIMED_ON /\ busy = "no" /\ prevRunState' = prevRunState
        /\ Interrupted = D_TIMED_ON
    BY <1>2 DEF timedOnController, Interrupted
  <2>2. CASE TimedOnStarts
    <3>1. /\ runState' = D_TIMED_ON /\ busy' = "timed" /\ ~istimerCountdown_ended'
          /\ Interrupted' = D_TIMED_ON
      BY <2>1, <2>2 DEF TimedOnStarts, ACRelaysOn, starttimerCountdown, Interrupted
    <3>2. \/ UNCHANGED <<mainsofftime, param, eeprom>>
          \/ param'.resumeState = D_STARTUP /\ eeprom' = param'
      BY <1>t, <2>2, WrittenFields
      DEF TimedOnStarts, helperCleanUpResumeData, WithoutResumeData
    <3>3. mainsofftime' # "zero" => TimedStored'
      BY <1>t, <2>1, <3>2 DEF ReplaceStoreInv, TimedStored
    <3>4. param'.resumeState \in Resumes /\ eeprom'.resumeState \in Resumes
      BY <1>s, <3>2
    <3> QED
      BY <3>1, <3>3, <3>4 DEF ReplaceKept, ReplaceCountInv, ReplaceStoreInv, ReplaceWaitInv
  <2>3. CASE TimedOnContinues
    <3>1. /\ busy' = "no"
          /\ param'.resumeState \in {param.resumeState, D_TIMED_ON}
          /\ eeprom' = param' \/ eeprom' = eeprom
      BY <1>t, <2>1, <2>3, WrittenFields DEF TimedOnContinues
    <3>2. param'.resumeState \in Resumes /\ eeprom'.resumeState \in Resumes
      BY <1>s, <3>1
    <3>3. countdown' => countdown /\ ~istimerCountdown_ended'
      BY <1>t, <2>3 DEF TimedOnContinues, TimedEnded, ReplaceCountInv
    <3>4. mainsofftime' # "zero" => TimedStored'
      <4>1. CASE mainsofftime # "zero"
        BY <1>t, <2>1, <3>1, <4>1 DEF ReplaceStoreInv, TimedStored
      <4>2. CASE mainsofftime = "zero" /\ mainsofftime' # "zero"
        BY <1>t, <2>3, <4>2, WrittenFields DEF TimedOnContinues, TimedStored
      <4> QED
        BY <4>1, <4>2
    <3>5. CASE runState' = D_GOTOSLEEP
      <4>1. mainsofftime # "zero" /\ mainsofftime' = mainsofftime
        BY <2>1, <2>3, <3>5
        DEF TimedOnContinues, D_GOTOSLEEP, D_GOTOSTANDBY, D_TIMED_ON
      <4>2. Interrupted' = D_GOTOSLEEP
        BY <3>1, <3>5 DEF Interrupted, AsleepSoon
      <4> QED
        BY <3>1, <3>2, <3>3, <3>4, <3>5, <4>1, <4>2
        DEF ReplaceKept, ReplaceCountInv, ReplaceStoreInv, ReplaceWaitInv, AsleepSoon
    <3>6. CASE runState' = D_GOTOSTANDBY
      <4>1. TimedEnded
        BY <2>1, <2>3, <3>6 DEF TimedOnContinues, D_GOTOSLEEP, D_GOTOSTANDBY, D_TIMED_ON
      <4>2. ~countdown'
        BY <1>t, <2>3, <4>1 DEF TimedOnContinues, TimedEnded, ReplaceCountInv
      <4> QED
        BY <3>1, <3>2, <3>6, <4>2, ReplaceElsewhere DEF LoopWaits
    <3>7. CASE runState' = D_TIMED_ON
      <4>1. Interrupted' = D_TIMED_ON
        BY <3>1, <3>7 DEF Interrupted
      <4> QED
        BY <3>1, <3>2, <3>3, <3>4, <3>7, <4>1
        DEF ReplaceKept, ReplaceCountInv, ReplaceStoreInv, ReplaceWaitInv
    <3> QED
      BY <2>1, <2>3, <3>5, <3>6, <3>7 DEF TimedOnContinues
  <2> QED
    BY <1>2, <2>2, <2>3 DEF timedOnController
<1>3. CASE goToOnController
  <2>1. /\ runState = D_GOTOALWAYS_ON /\ busy = "no" /\ busy' = "no"
        /\ UNCHANGED <<param, eeprom>> /\ runState' \in {D_GOTOALWAYS_ON, D_ALWAYS_ON}
    BY <1>3 DEF goToOnController
  <2>2. ~countdown'
    BY <1>3, <2>1, ReplaceIdle DEF goToOnController, initTimers
  <2> QED
    BY <1>s, <2>1, <2>2, ReplaceElsewhere DEF LoopWaits
<1>4. CASE onController
  <2>1. /\ runState = D_ALWAYS_ON /\ busy = "no" /\ countdown' = countdown
    BY <1>4 DEF onController
  <2>2. runState' \in {D_GOTOSLEEP, D_GOTOSTANDBY, D_ALWAYS_ON} /\ busy' \in {"no", "on"}
    BY <1>4, <2>1 DEF onController, OnStarts, OnContinues, ACRelaysOn
  <2>3. /\ param'.resumeState \in {param.resumeState, D_STARTUP, D_ALWAYS_ON}
        /\ eeprom' = param' \/ eeprom' = eeprom
    <3>1. CASE OnStarts
      BY <1>t, <3>1, WrittenFields DEF OnStarts, helperCleanUpResumeData, WithoutResumeData
    <3>2. CASE OnContinues
      BY <1>t, <3>2, WrittenFields DEF OnContinues
    <3> QED
      BY <1>4, <3>1, <3>2 DEF onController
  <2> QED
    BY <1>s, <2>1, <2>2, <2>3, ReplaceIdle, ReplaceElsewhere DEF LoopWaits, AsleepSoon
<1>5. CASE TimedOrOnStarted
  <2>1. /\ busy \in {"timed", "on"} /\ busy' = "no"
        /\ UNCHANGED <<runState, prevRunState, countdown, istimerCountdown_ended,
                       mainsofftime, param, eeprom>>
    BY <1>5 DEF TimedOrOnStarted
  <2>2. Interrupted' = Interrupted
    BY <2>1 DEF Interrupted
  <2> QED
    BY <1>t, <2>1, <2>2
    DEF ReplaceKept, ReplaceCountInv, ReplaceStoreInv, TimedStored, ReplaceWaitInv,
        ScheduledSoftStarts
<1> QED
  BY <1>1, <1>2, <1>3, <1>4, <1>5 DEF TimedAndContinuousPass

(* Automatic charging has no countdown; the check of the schedule remembers *)
(* what it interrupts.                                                     *)
LEMMA ReplaceAutoSchedule ==
    ASSUME ReplaceInv, AutoSchedulePass
    PROVE ReplaceKept'
<1> USE ReplaceNames, ReplaceStored
    DEF heatVars, countdownVars, chargingVars, paramVars, envVars, scheduleVars, relayVars,
        putParameters, Pass
<1>t. /\ TypeOK /\ param \in Params /\ eeprom \in Params
      /\ ReplaceCountInv /\ ReplaceStoreInv /\ ReplaceWaitInv
  BY DEF ReplaceInv, ReplaceKept, TypeOK, StoreOK
<1>s. param.resumeState \in Resumes /\ eeprom.resumeState \in Resumes
  BY <1>t DEF ReplaceStoreInv
<1>1. CASE checkScheduledStartUntilCharged
  <2>1. /\ busy = "no" /\ UNCHANGED <<countdown, istimerCountdown_ended, mainsofftime, mains>>
    BY <1>1 DEF checkScheduledStartUntilCharged
  <2>2. CASE ScheduledStart
    <3>1. runState \in {D_TIMED_ON, D_ALWAYS_ON, D_CHARGED_ON, D_STANDBY}
      BY <2>2 DEF ScheduledStart, StartIsDue, ScheduledCheckRuns
    <3>2. /\ busy' = "scheduled" /\ prevRunState' = runState
          /\ runState' \in ScheduledStarts /\ UNCHANGED <<param, eeprom>>
      BY <2>2 DEF ScheduledStart, ScheduledStarts
    <3>3. Interrupted = runState /\ Interrupted' = runState
      BY <2>1, <3>1, <3>2 DEF Interrupted
    <3> QED
      BY <1>t, <2>1, <3>1, <3>2, <3>3
      DEF ReplaceKept, ReplaceCountInv, ReplaceStoreInv, TimedStored, ReplaceWaitInv
  <2>3. CASE ScheduleOver
    <3>1. /\ UNCHANGED <<runState, prevRunState, busy>> /\ eeprom' = param'
          /\ param'.resumeState = param.resumeState
      BY <1>t, <2>3 DEF ScheduleOver, Params
    <3>2. Interrupted' = Interrupted
      BY <3>1 DEF Interrupted
    <3> QED
      BY <1>t, <2>1, <3>1, <3>2
      DEF ReplaceKept, ReplaceCountInv, ReplaceStoreInv, TimedStored, ReplaceWaitInv
  <2>4. CASE ScheduleClock
    BY <2>1, <2>4, ReplaceSame DEF ScheduleClock
  <2> QED
    BY <1>1, <2>2, <2>3, <2>4 DEF checkScheduledStartUntilCharged
<1>2. CASE goToAutoController
  <2>1. /\ runState = D_GOTOAUTO /\ busy = "no" /\ busy' = "no" /\ countdown' = countdown
        /\ runState' = D_AUTO_OFF /\ UNCHANGED <<param, eeprom>>
    BY <1>2 DEF goToAutoController
  <2> QED
    BY <1>s, <2>1, ReplaceIdle, ReplaceElsewhere DEF LoopWaits
<1>3. CASE autoController
  <2>1. runState \in {D_AUTO_OFF, D_AUTO_ON} /\ countdown' = countdown /\ busy = "no"
    BY <1>3 DEF autoController, AutoStates
  <2>2. AutoExpires \/ AutoTimeInvalid \/ AutoStarts \/ AutoIdles \/ AutoContinues
    BY <1>3 DEF autoController
  <2>3. /\ runState' \in {D_GOTOSTANDBY, D_AUTO_OFF, D_AUTO_ON, D_GOTOSLEEP}
        /\ busy' \in {"no", "auto"}
    BY <2>1, <2>2
    DEF AutoExpires, AutoTimeInvalid, AutoStarts, AutoIdles, AutoContinues, ACRelaysOn
  <2>4. /\ param'.resumeState \in {param.resumeState, D_STARTUP, D_AUTO_ON, D_AUTO_OFF}
        /\ eeprom' = param' \/ eeprom' = eeprom
    BY <1>t, <2>2, AutoWrites DEF AutoExpires, AutoTimeInvalid
  <2> QED
    BY <1>s, <2>1, <2>3, <2>4, ReplaceIdle, ReplaceElsewhere DEF LoopWaits, AsleepSoon
<1>4. CASE AutoStarted
  <2>1. /\ busy = "auto" /\ busy' = "no"
        /\ UNCHANGED <<runState, prevRunState, countdown, istimerCountdown_ended,
                       mainsofftime, param, eeprom>>
    BY <1>4 DEF AutoStarted
  <2>2. Interrupted' = Interrupted
    BY <2>1 DEF Interrupted
  <2> QED
    BY <1>t, <2>1, <2>2
    DEF ReplaceKept, ReplaceCountInv, ReplaceStoreInv, TimedStored, ReplaceWaitInv,
        ScheduledSoftStarts
<1> QED
  BY <1>1, <1>2, <1>3, <1>4 DEF AutoSchedulePass

(* The start of a smart charge. A scheduled one has stopped what it        *)
(* interrupts; without mains it goes back to that.                         *)
LEMMA ReplaceGoToSmart ==
    ASSUME ReplaceInv, NEW requested \in {D_GOTOCHARGED_ON, D_GOTOCHARGED_ON_USBC},
           NEW scheduled \in ScheduledStarts, NEW ouc,
           NEW wait \in {"smart", "usbc"}, NEW waitAuto \in ScheduledSoftStarts,
           GoToSmart(requested, scheduled, ouc, wait, waitAuto)
    PROVE ReplaceKept'
<1> USE ReplaceNames DEF paramVars, Pass
<1>t. ReplaceCountInv /\ ReplaceStoreInv /\ ReplaceWaitInv
  BY DEF ReplaceInv, ReplaceKept
<1>s. param.resumeState \in Resumes /\ eeprom.resumeState \in Resumes
  BY <1>t DEF ReplaceStoreInv
<1>0. /\ UNCHANGED <<prevRunState, mainsofftime, param, eeprom>>
      /\ \/ busy = "no" /\ runState \in {requested, scheduled}
         \/ busy = "scheduled" /\ runState = scheduled
      /\ requested \in Elsewhere /\ requested # scheduled
  BY DEF GoToSmart
<1>1. busy = "no" => ~countdown
  BY <1>0, ReplaceIdle
<1>2. busy = "scheduled" => Interrupted = prevRunState /\ prevRunState \notin AsleepSoon
  BY <1>t DEF Interrupted, ReplaceWaitInv
<1>3. CASE runState = scheduled /\ StopReplaced /\ ACRelaysOn(waitAuto) /\ UNCHANGED runState
  <2>1. ~countdown'
    <3>1. CASE prevRunState = D_TIMED_ON
      BY <1>3, <3>1 DEF StopReplaced, stoptimerCountdown
    <3>2. CASE prevRunState # D_TIMED_ON
      <4>1. ~countdown
        BY <1>t, <1>0, <1>1, <1>2, <3>2 DEF ReplaceCountInv
      <4> QED
        BY <1>3, <3>2, <4>1 DEF StopReplaced
    <3> QED
      BY <3>1, <3>2
  <2>2. /\ runState' = scheduled /\ busy' = waitAuto /\ busy' \in ScheduledSoftStarts
        /\ busy' # "scheduled"
    BY <1>3 DEF ACRelaysOn, ScheduledSoftStarts
  <2>3. Interrupted' = scheduled
    BY <2>2 DEF Interrupted
  <2> QED
    BY <1>s, <1>0, <2>1, <2>2, <2>3
    DEF ReplaceKept, ReplaceCountInv, ReplaceStoreInv, ReplaceWaitInv, ScheduledSoftStarts
<1>4. CASE /\ runState = requested /\ countdown' = countdown /\ ACRelaysOn(wait)
           /\ UNCHANGED runState
  BY <1>s, <1>0, <1>1, <1>4, ReplaceElsewhere DEF ACRelaysOn, LoopWaits
<1>5. CASE /\ runState = requested /\ runState' = D_GOTOSTANDBY /\ busy' = "no"
           /\ countdown' = countdown
  BY <1>s, <1>0, <1>1, <1>5, ReplaceElsewhere DEF LoopWaits
<1>6. CASE /\ runState = scheduled /\ runState' = prevRunState /\ busy' = "no"
           /\ UNCHANGED <<countdown, istimerCountdown_ended>>
  <2>1. Interrupted' = prevRunState
    BY <1>0, <1>6 DEF Interrupted
  <2>2. busy = "no" => Interrupted = scheduled
    BY <1>0, <1>6 DEF Interrupted
  <2>3. CASE busy = "no"
    <3>1. TimedStored
      BY <1>t, <2>2, <2>3 DEF ReplaceStoreInv, ScheduledSoftStarts
    <3> QED
      BY <1>s, <1>0, <1>1, <1>6, <2>1, <2>3, <3>1
      DEF ReplaceKept, ReplaceCountInv, ReplaceStoreInv, TimedStored, ReplaceWaitInv
  <2>4. CASE busy = "scheduled"
    <3>1. prevRunState \notin ScheduledStarts
      BY <1>t, <2>4 DEF ReplaceWaitInv
    <3> QED
      BY <1>t, <1>0, <1>2, <1>6, <2>1, <2>4, <3>1
      DEF ReplaceKept, ReplaceCountInv, ReplaceStoreInv, TimedStored, ReplaceWaitInv
  <2> QED
    BY <1>0, <2>3, <2>4
<1> QED
  BY <1>0, <1>3, <1>4, <1>5, <1>6 DEF GoToSmart

(* Smart charging. A suspended charge goes back to the start of a          *)
(* scheduled one only with its stored session cleared.                     *)
LEMMA ReplaceSmartCharging ==
    ASSUME ReplaceInv, SmartChargingPass
    PROVE ReplaceKept'
<1> USE ReplaceNames, ReplaceStored
    DEF heatVars, countdownVars, chargingVars, paramVars, envVars, scheduleVars, relayVars,
        putParameters, Pass
<1>t. /\ param \in Params /\ eeprom \in Params
      /\ ReplaceCountInv /\ ReplaceStoreInv /\ ReplaceWaitInv
  BY DEF ReplaceInv, ReplaceKept, TypeOK, StoreOK
<1>s. param.resumeState \in Resumes /\ eeprom.resumeState \in Resumes
  BY <1>t DEF ReplaceStoreInv
<1>1. CASE goToChargedOnAutoController \/ goToChargedOnUSBCAutoController
  BY <1>1, ReplaceGoToSmart
  DEF goToChargedOnAutoController, goToChargedOnUSBCAutoController, ScheduledStarts,
      ScheduledSoftStarts
<1>2. CASE chargedOnController \/ chargedOnUSBCController
  <2>1. /\ busy = "no" /\ countdown' = countdown
        /\ runState \in SmartACStates \cup SmartUSBCStates /\ ~countdown
    BY <1>2, ReplaceIdle DEF chargedOnController, chargedOnUSBCController
  <2>2. CASE ChargedOnContinues \/ ChargedOnUSBCContinues
    <3>1. busy' = "no" /\ runState' \in {D_GOTOSLEEP, D_GOTOSTANDBY, runState}
      BY <2>1, <2>2 DEF ChargedOnContinues, ChargedOnUSBCContinues
    <3>2. param'.resumeState \in Resumes /\ eeprom'.resumeState \in Resumes
      BY <1>t, <1>s, <2>1, <2>2, SmartWrites
    <3> QED
      BY <2>1, <3>1, <3>2, ReplaceElsewhere DEF LoopWaits, AsleepSoon
  <2>3. CASE \E s \in {D_CHARGED_ON_AUTO, D_CHARGED_ON_USBC_AUTO}, r \in ScheduledStarts,
                t \in {D_GOTOCHARGED_ON, D_GOTOCHARGED_ON_USBC},
                w \in {"smartAgain", "usbcAgain"} : SmartRestarts(s, r, t, w)
    <3>1. PICK s \in {D_CHARGED_ON_AUTO, D_CHARGED_ON_USBC_AUTO}, r \in ScheduledStarts,
               t \in {D_GOTOCHARGED_ON, D_GOTOCHARGED_ON_USBC},
               w \in {"smartAgain", "usbcAgain"} : SmartRestarts(s, r, t, w)
      BY <2>3
    <3>2. param'.resumeState \in Resumes /\ eeprom'.resumeState \in Resumes
      BY <1>t, <1>s, <2>1, <3>1, SmartWrites
    <3>3. CASE runState' \in ScheduledStarts
      <4>1. busy' = "no" /\ param'.resumeState = D_STARTUP /\ eeprom' = param'
        BY <1>t, <2>1, <3>1, <3>3, WrittenFields
        DEF SmartRestarts, helperCleanUpResumeData, WithoutResumeData
      <4>2. Interrupted' \in ScheduledStarts
        BY <3>3, <4>1 DEF Interrupted
      <4> QED
        BY <2>1, <3>2, <4>1, <4>2
        DEF ReplaceKept, ReplaceCountInv, ReplaceStoreInv, TimedStored, ReplaceWaitInv
    <3>4. CASE runState' \notin ScheduledStarts
      <4>1. runState' \in {runState, t} /\ busy' \in {"no", w}
        BY <2>1, <3>1, <3>4 DEF SmartRestarts, ACRelaysOn
      <4>2. runState' \in Elsewhere /\ busy' \in LoopWaits
        BY <2>1, <3>1, <4>1 DEF LoopWaits
      <4> QED
        BY <2>1, <3>2, <4>2, ReplaceElsewhere
    <3> QED
      BY <3>3, <3>4
  <2> QED
    BY <1>2, <2>2, <2>3, RunStateNumbers
    DEF chargedOnController, chargedOnUSBCController, ScheduledStarts
<1>3. CASE SmartStarted
  <2>1. /\ busy \in {"smart", "usbc", "smartAuto", "usbcAuto"} /\ busy' = "no"
        /\ UNCHANGED <<countdown, mainsofftime, param, eeprom>>
    BY <1>3 DEF SmartStarted
  <2>2. ~countdown
    BY <1>t, <2>1 DEF ReplaceCountInv
  <2>3. CASE runState' \in Elsewhere
    BY <1>s, <2>1, <2>2, <2>3, ReplaceElsewhere DEF LoopWaits
  <2>4. CASE runState' = runState /\ (prevRunState' = prevRunState \/ prevRunState' = runState')
             /\ busy \in {"smart", "usbc"}
    <3>1. Interrupted' = Interrupted \/ Interrupted' = runState
      BY <2>1, <2>4 DEF Interrupted
    <3>2. CASE Interrupted' = Interrupted
      BY <1>t, <2>1, <2>2, <2>4, <3>2
      DEF ReplaceKept, ReplaceCountInv, ReplaceStoreInv, TimedStored, ReplaceWaitInv,
          ScheduledSoftStarts
    <3>3. CASE Interrupted' = runState /\ Interrupted' # Interrupted
      <4>1. runState \in Engaging
        BY <2>1, <3>3 DEF Interrupted
      <4> QED
        BY <1>s, <2>1, <2>2, <3>3, <4>1
        DEF ReplaceKept, ReplaceCountInv, ReplaceStoreInv, TimedStored, ReplaceWaitInv
    <3> QED
      BY <3>1, <3>2, <3>3
  <2>5. CASE busy = "smart" \/ busy = "usbc"
    <3>1. /\ runState' \in {runState, D_CHARGED_ON, D_CHARGED_ON_USBC}
          /\ prevRunState' = prevRunState \/ prevRunState' = runState'
      BY <1>3, <2>5 DEF SmartStarted
    <3> QED
      BY <2>3, <2>4, <2>5, <3>1
  <2>6. CASE busy = "smartAuto" \/ busy = "usbcAuto"
    <3>1. runState' \in {D_CHARGED_ON_AUTO, D_CHARGED_ON_USBC_AUTO}
      BY <1>3, <2>6 DEF SmartStarted
    <3> QED
      BY <2>3, <3>1
  <2> QED
    BY <2>1, <2>5, <2>6
<1>4. CASE SmartStartedAgain
  <2>1. /\ busy \in {"smartAgain", "usbcAgain"} /\ busy' = "no"
        /\ UNCHANGED <<runState, prevRunState, countdown, istimerCountdown_ended,
                       mainsofftime, param, eeprom>>
    BY <1>4 DEF SmartStartedAgain
  <2>2. Interrupted' = Interrupted
    BY <2>1 DEF Interrupted
  <2> QED
    BY <1>t, <2>1, <2>2
    DEF ReplaceKept, ReplaceCountInv, ReplaceStoreInv, TimedStored, ReplaceWaitInv,
        ScheduledSoftStarts
<1> QED
  BY <1>1, <1>2, <1>3, <1>4 DEF SmartChargingPass

-----------------------------------------------------------------------------
(* Commands. While a countdown runs, only those for the schedule are       *)
(* accepted, and they remember the run state.                              *)
LEMMA ReplaceCommands ==
    ASSUME NoStopCommand, ReplaceInv, remoteAdmin
    PROVE ReplaceKept'
<1> USE ReplaceNames DEF paramVars, putParameters
<1>t. /\ param \in Params /\ eeprom \in Params
      /\ ReplaceCountInv /\ ReplaceStoreInv /\ ReplaceWaitInv
  BY DEF ReplaceInv, ReplaceKept, TypeOK, StoreOK
<1>s. param.resumeState \in Resumes /\ eeprom.resumeState \in Resumes
  BY <1>t DEF ReplaceStoreInv
<1>1. /\ UNCHANGED <<busy, countdown, istimerCountdown_ended, mainsofftime, mains>>
      /\ runState \notin WebStates
  BY DEF remoteAdmin, NoStopCommand, countdownVars, envVars
<1>2. busy \in {"no"} \cup SoftStarts \cup QueueWaits /\ busy # "scheduled"
  BY DEF remoteAdmin, ServesCommands, SoftStarts, QueueWaits
<1>3. Interrupted = runState
  BY <1>1, <1>2 DEF Interrupted
<1>4. busy' \in LoopWaits \/ (busy' = "queue" /\ ~mains')
  BY <1>t, <1>1, <1>2
  DEF ReplaceWaitInv, LoopWaits, SoftStarts, QueueWaits, ScheduledSoftStarts
<1>5. onViewRunState(D_TIMED_ON) = W_TIMED_ON /\ onViewRunState(D_GOTOSLEEP) = W_SLEEPING
      /\ onViewRunState(D_SLEEPING) = W_SLEEPING
  BY DEF onViewRunState, W_TIMED_ON, W_SLEEPING, D_GOTOSLEEP, D_SLEEPING, D_WEBGOTOHIBERNATE,
         D_WEBGOTOTIMED, D_TIMED_ON, D_GOTOTIMED_ON, D_WEBGOTOAUTO, D_GOTOAUTO, D_AUTO_OFF,
         D_AUTO_ON, D_WEBGOTOON, D_GOTOALWAYS_ON, D_ALWAYS_ON, D_WEBGOTOCHARGED,
         D_CHARGED_ON, D_GOTOCHARGED_ON, D_WEBGOTOCHARGEDUSBC, D_CHARGED_ON_USBC,
         D_GOTOCHARGED_ON_USBC, D_GOTOCHARGED_ON_AUTO, D_CHARGED_ON_AUTO,
         D_GOTOCHARGED_ON_USBC_AUTO, D_CHARGED_ON_USBC_AUTO
<1>6. View \in {W_STANDBY, W_AUTO_ON, W_AUTO_OFF} => ~countdown
  <2>1. {W_TIMED_ON, W_SLEEPING} \cap {W_STANDBY, W_AUTO_ON, W_AUTO_OFF} = {}
    BY DEF W_TIMED_ON, W_SLEEPING, W_STANDBY, W_AUTO_ON, W_AUTO_OFF
  <2> QED
    BY <1>t, <1>3, <1>5, <2>1 DEF View, ReplaceCountInv, AsleepSoon
<1>7. CASE /\ View \in {W_STANDBY, W_AUTO_ON, W_AUTO_OFF} /\ runState' \in Elsewhere
           /\ param'.resumeState = param.resumeState
           /\ eeprom' = param' \/ eeprom' = eeprom
  BY <1>s, <1>1, <1>4, <1>6, <1>7, ReplaceElsewhere
<1>8. CASE /\ prevRunState' = runState /\ runState' \in Engaging
           /\ param'.resumeState = param.resumeState
           /\ eeprom' = param' \/ eeprom' = eeprom
  <2>1. Interrupted' = Interrupted
    BY <1>3, <1>8 DEF Interrupted
  <2> QED
    BY <1>t, <1>1, <1>2, <1>8, <2>1
    DEF ReplaceKept, ReplaceCountInv, ReplaceStoreInv, TimedStored, ReplaceWaitInv
<1>9. CASE \E c \in Commands \cap StandbyCommands : ActivityCommand(c)
  <2>1. PICK c \in StandbyCommands : ActivityCommand(c)
    BY <1>9
  <2>2. Selected(c) \in {D_WEBGOTORESTART, D_WEBGOTOHARDRESTART, D_WEBGOTOTIMED, D_WEBGOTOON,
                         D_WEBGOTOCHARGED, D_WEBGOTOCHARGEDUSBC, D_WEBGOTOHIBERNATE}
    BY DEF Selected, StandbyCommands
  <2>3. /\ View = W_STANDBY /\ runState' = Selected(c) /\ UNCHANGED <<param, eeprom>>
    BY <2>1 DEF ActivityCommand, Accepted
  <2> QED
    BY <1>7, <2>2, <2>3
<1>10. CASE AutoOnCommand
  BY <1>7, <1>8, <1>10 DEF AutoOnCommand, Accepted, Engaging
<1>11. CASE AutoOffCommand
  <2>1. param'.resumeState = param.resumeState /\ eeprom' = param'
    BY <1>11, <1>t DEF AutoOffCommand, Params
  <2>2. \/ View \in {W_AUTO_ON, W_AUTO_OFF} /\ runState' = D_WEBGOTOSTANDBY
        \/ prevRunState' = runState /\ runState' = D_WEBOUCAEXIT
    BY <1>11 DEF AutoOffCommand, Accepted
  <2> QED
    BY <1>7, <1>8, <2>1, <2>2 DEF Engaging
<1> QED
  BY <1>9, <1>10, <1>11 DEF remoteAdmin, NoStopCommand

(* The controllers that carry them out. Those for the schedule go back to  *)
(* the run state they came from, or have stopped the timed session.        *)
LEMMA ReplaceWebCommands ==
    ASSUME ReplaceInv, WebCommandsPass
    PROVE ReplaceKept'
<1> USE ReplaceNames, ReplaceStored DEF countdownVars, paramVars, putParameters, Pass
<1>t. /\ param \in Params /\ eeprom \in Params
      /\ ReplaceCountInv /\ ReplaceStoreInv /\ ReplaceWaitInv
  BY DEF ReplaceInv, ReplaceKept, TypeOK, StoreOK
<1>s. param.resumeState \in Resumes /\ eeprom.resumeState \in Resumes
  BY <1>t DEF ReplaceStoreInv
<1>1. CASE StoppingController /\ ~webOUCAExitController
  <2>1. /\ webGoToTimedController \/ webGoToOnController \/ webGoToAutoController
           \/ webGoToChargedController \/ webGoToStandbyController
        /\ previousStateHandler(prevRunState) /\ UNCHANGED busy
    BY <1>1 DEF StoppingController
  <2>2. /\ busy = "no" /\ runState \in Elsewhere
        /\ runState' \in {D_GOTOTIMED_ON, D_GOTOALWAYS_ON, D_GOTOAUTO, D_GOTOCHARGED_ON,
                          D_GOTOCHARGED_ON_USBC, D_GOTOSTANDBY}
    BY <2>1 DEF webGoToTimedController, webGoToOnController, webGoToAutoController,
         webGoToChargedController, webGoToStandbyController
  <2>3. /\ param'.resumeState = param.resumeState
        /\ eeprom' = param' \/ eeprom' = eeprom
    <3>1. UNCHANGED paramVars \/ SetAuto(TRUE) \/ SetAuto(FALSE)
      BY <2>1 DEF webGoToTimedController, webGoToOnController, webGoToAutoController,
           webGoToChargedController, webGoToStandbyController
    <3> QED
      BY <1>t, <3>1 DEF SetAuto, Params
  <2>4. ~countdown'
    BY <2>1, <2>2, ReplaceIdle DEF previousStateHandler, stoptimerCountdown
  <2> QED
    BY <1>s, <2>1, <2>2, <2>3, <2>4, ReplaceElsewhere DEF LoopWaits
<1>2. CASE webOUCAExitController /\ StoppingController
  <2>1. /\ runState = D_WEBOUCAEXIT /\ busy = "no" /\ busy' = "no"
        /\ UNCHANGED <<prevRunState, mainsofftime, param, eeprom>>
        /\ Interrupted = prevRunState
    BY <1>2 DEF webOUCAExitController, StoppingController, Interrupted, Engaging
  <2>2. CASE prevRunState = D_TIMED_ON
    <3>1. ~countdown' /\ runState' = D_GOTOSTANDBY
      BY <1>2, <2>2 DEF webOUCAExitController, previousStateHandler, stoptimerCountdown
    <3> QED
      BY <1>s, <2>1, <3>1, ReplaceElsewhere DEF LoopWaits
  <2>3. CASE prevRunState # D_TIMED_ON
    <3>1. /\ UNCHANGED <<countdown, istimerCountdown_ended>>
          /\ \/ runState' = prevRunState
             \/ /\ runState' = D_GOTOSTANDBY
                /\ prevRunState \in {D_ALWAYS_ON, D_CHARGED_ON}
      BY <1>2, <2>3 DEF webOUCAExitController, previousStateHandler
    <3>2. CASE runState' = prevRunState
      <4>1. Interrupted' = Interrupted
        BY <2>1, <3>2 DEF Interrupted
      <4> QED
        BY <1>t, <2>1, <3>1, <4>1
        DEF ReplaceKept, ReplaceCountInv, ReplaceStoreInv, TimedStored, ReplaceWaitInv
    <3>3. CASE runState' = D_GOTOSTANDBY /\ prevRunState \in {D_ALWAYS_ON, D_CHARGED_ON}
      <4>1. ~countdown
        BY <1>t, <2>1, <3>3 DEF ReplaceCountInv
      <4> QED
        BY <1>s, <2>1, <3>1, <3>3, <4>1, ReplaceElsewhere DEF LoopWaits
    <3> QED
      BY <3>1, <3>2, <3>3
  <2> QED
    BY <2>2, <2>3
<1>3. CASE webGoToOUCAutoController /\ UNCHANGED <<prevRunState, countdownVars, mainsofftime>>
  <2>1. /\ runState = D_WEBOUCAUTO /\ busy = "no" /\ busy' = "no"
        /\ runState' = prevRunState
        /\ param'.resumeState = param.resumeState /\ eeprom' = param'
    BY <1>3, <1>t DEF webGoToOUCAutoController, Params
  <2>2. Interrupted' = Interrupted
    BY <1>3, <2>1 DEF Interrupted, Engaging
  <2> QED
    BY <1>3, <1>t, <2>1, <2>2
    DEF ReplaceKept, ReplaceCountInv, ReplaceStoreInv, TimedStored, ReplaceWaitInv
<1>4. CASE /\ \/ webGoToRestartController \/ webGoToFactoryResetController
              \/ webGoToHibernateController
           /\ UNCHANGED countdownVars
  <2>1. param'.resumeState \in {param.resumeState, D_STARTUP} /\ (eeprom' = param' \/ eeprom' = eeprom)
    <3>1. CASE webGoToFactoryResetController
      BY <3>1 DEF webGoToFactoryResetController, DefaultParams
    <3>2. CASE webGoToRestartController \/ webGoToHibernateController
      BY <1>t, <3>2 DEF webGoToRestartController, webGoToHibernateController, Params
    <3> QED
      BY <1>4, <3>1, <3>2
  <2>2. /\ runState \in Elsewhere /\ runState' \in Elsewhere /\ busy = "no"
        /\ busy' \in {"no", "resetQueue", "hibernateQueue"}
    BY <1>4 DEF webGoToRestartController, webGoToFactoryResetController,
                webGoToHibernateController
  <2> QED
    BY <1>4, <1>s, <2>1, <2>2, ReplaceIdle, ReplaceElsewhere DEF LoopWaits
<1>5. CASE QueueDone /\ UNCHANGED <<prevRunState, countdownVars, mainsofftime>>
  <2>1. /\ busy \in {"resetQueue", "hibernateQueue"} /\ UNCHANGED <<param, eeprom>>
        /\ ~countdown
    BY <1>5, <1>t DEF QueueDone, ReplaceCountInv
  <2>2. CASE busy' = "no" /\ runState' = D_RESTART
    BY <1>5, <1>s, <2>1, <2>2, ReplaceElsewhere DEF LoopWaits
  <2>3. CASE busy' = "hibernate" /\ runState' = runState
    <3>1. Interrupted' = Interrupted
      BY <1>5, <2>1, <2>3 DEF Interrupted
    <3> QED
      BY <1>5, <1>t, <2>1, <2>3, <3>1
      DEF ReplaceKept, ReplaceCountInv, ReplaceStoreInv, TimedStored, ReplaceWaitInv,
          ScheduledSoftStarts
  <2> QED
    BY <1>5, <2>2, <2>3 DEF QueueDone
<1> QED
  BY <1>1, <1>2, <1>3, <1>4, <1>5 DEF WebCommandsPass

(* The surroundings: the mains is steady in the two waits before the       *)
(* hibernation.                                                            *)
LEMMA ReplaceSurroundings ==
    ASSUME NoStopCommand, ReplaceInv, Surroundings
    PROVE ReplaceKept'
<1>t. ReplaceWaitInv
  BY DEF ReplaceInv, ReplaceKept
<1>1. CASE Reset
  BY <1>1, ReplaceBooted DEF Reset
<1>2. CASE ~Reset
  <2>1. /\ UNCHANGED <<runState, prevRunState, countdown, istimerCountdown_ended,
                       param, eeprom>>
        /\ mainsofftime' = mainsofftime \/ mainsofftime # "zero"
    BY <1>2 DEF Surroundings, MainsFails, MainsReturns, TemperatureChanges,
           ScheduleMoves, CountdownMinute, ChargingMinute, ResetTimerExpires,
           SleepDelayPasses, deviceVars, countdownVars, paramVars
  <2>2. busy' = busy \/ (busy = "hibernate" /\ busy' = "booting")
    BY <1>2, <1>t DEF Surroundings, MainsFails, MainsReturns, TemperatureChanges,
           ScheduleMoves, CountdownMinute, ChargingMinute, ResetTimerExpires,
           SleepDelayPasses, ReplaceWaitInv
  <2>3. busy' \in {"queue", "confirm"} => ~mains'
    <3>1. mains' = mains \/ busy \notin {"queue", "confirm"}
      BY <1>2 DEF Surroundings, MainsFails, MainsReturns, TemperatureChanges,
             ScheduleMoves, CountdownMinute, ChargingMinute, ResetTimerExpires,
             SleepDelayPasses, envVars, NoStopCommand
    <3> QED
      BY <1>t, <2>2, <3>1 DEF ReplaceWaitInv
  <2> QED
    BY <2>1, <2>2, <2>3, ReplaceSame
<1> QED
  BY <1>1, <1>2

-----------------------------------------------------------------------------
(* The invariant holds initially and is kept by every step.                *)
LEMMA ReplaceInvariant ==
    ASSUME NoStopCommand
    PROVE Spec => []ReplaceInv
<1>1. Init => ReplaceInv
  <2> SUFFICES ASSUME Init PROVE ReplaceInv
    OBVIOUS
  <2>1. DefaultParams.resumeState = D_STARTUP
    BY DEF DefaultParams
  <2>2. Interrupted = D_STARTUP
    BY ReplaceNames DEF Init, Interrupted
  <2> QED
    BY <2>1, <2>2, TypeInit, ReplaceNames, ReplaceStored
    DEF Init, ReplaceInv, ReplaceKept, ReplaceCountInv, ReplaceStoreInv, ReplaceWaitInv
<1>2. ReplaceInv /\ [Next]_vars => ReplaceInv'
  <2> SUFFICES ASSUME ReplaceInv, [Next]_vars PROVE ReplaceInv'
    OBVIOUS
  <2>1. TypeOK'
    BY TypeStep DEF ReplaceInv
  <2>2. CASE LoopPass
    BY <2>1, <2>2, ReplaceStandbyAndSleep, ReplaceTimedAndContinuous,
       ReplaceAutoSchedule, ReplaceSmartCharging, ReplaceWebCommands
    DEF LoopPass, ReplaceInv
  <2>3. CASE remoteAdmin
    BY <2>1, <2>3, ReplaceCommands DEF ReplaceInv
  <2>4. CASE Surroundings
    BY <2>1, <2>4, ReplaceSurroundings DEF ReplaceInv
  <2>5. CASE UNCHANGED vars
    <3>1. /\ UNCHANGED <<runState, prevRunState, countdown, istimerCountdown_ended,
                         mainsofftime, busy, mains, param, eeprom>>
      BY <2>5 DEF vars, countdownVars, paramVars, envVars
    <3> QED
      BY <2>1, <3>1, ReplaceSame DEF ReplaceInv, ReplaceKept, ReplaceWaitInv
  <2> QED
    BY <2>2, <2>3, <2>4, <2>5 DEF Next
<1> QED
  BY <1>1, <1>2, PTL DEF Spec

(* A scheduled smart charge has stopped the timed session it replaces:     *)
(* also when the session was suspended, taken up again, asleep, or         *)
(* interrupted by a command for the schedule.                              *)
THEOREM ReplacedStaysStopped ==
    ASSUME NoStopCommand
    PROVE Spec => []ReplacedIsStopped
<1>1. ReplaceInv => ReplacedIsStopped
  <2> SUFFICES ASSUME ReplaceInv, countdown
               PROVE runState \notin {D_CHARGED_ON_AUTO, D_CHARGED_ON_USBC_AUTO}
    BY DEF ReplacedIsStopped
  <2>1. Interrupted \in {D_TIMED_ON} \cup AsleepSoon
    BY DEF ReplaceInv, ReplaceKept, ReplaceCountInv
  <2>2. busy = "scheduled" => runState \in ScheduledStarts
    BY DEF ReplaceInv, ReplaceKept, ReplaceWaitInv
  <2> QED
    BY <2>1, <2>2, ReplaceNames DEF Interrupted
<1> QED
  BY <1>1, ReplaceInvariant, PTL
=============================================================================
