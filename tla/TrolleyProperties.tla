------------------------- MODULE TrolleyProperties -------------------------
(***************************************************************************)
(* What makes the trolley correct. Each property is checked by the runs    *)
(* that exercise the commands, the mains and the temperatures it is about. *)
(***************************************************************************)
EXTENDS Trolley

(* The web application has no command waiting for a pass from some point   *)
(* on. Liveness is stated for users who stop pressing buttons.             *)
CommandsEnd == <>[](runState \notin WebStates)
PowerStays == <>[](mains /\ temp = "cool")

-----------------------------------------------------------------------------
(* Outlets against run state. *)

(* In standby the outlets are off: goToStandbyController does not switch   *)
(* them, so every way into standby must have (stop commands, ended         *)
(* sessions, wake-ups).                                                    *)
StandbyIsOff == runState = D_STANDBY => ~relays

(* No session is left running when the trolley goes to sleep: whatever     *)
(* lost its supply has been suspended first, not just left switched on.    *)
SleepIsOff == (busy \in Asleep \/ runState = D_SLEEPING) => ~relays

(* A timed session charges only while its countdown runs; otherwise no     *)
(* minute would ever end it.                                               *)
TimedIsCounted == runState = D_TIMED_ON /\ relays => countdown

(* The charge timer runs while continuous or automatic charging holds the  *)
(* outlets on, and smart charging from the outlets, whose longest time is  *)
(* counted with it.                                                        *)
ChargeIsCounted ==
    /\ runState \in {D_ALWAYS_ON, D_AUTO_ON} \cup SmartACStates
    /\ relays /\ busy = "no"
    => charging

(* With automatic control off for this half hour, the outlets are off.     *)
AutoOffIsOff == runState = D_AUTO_OFF /\ busy = "no" => ~relays

-----------------------------------------------------------------------------
(* Temperature. *)

(* A pass that has found the board overheated leaves the outlets off in    *)
(* timed, continuous and automatic charging.                               *)
OverheatedIsOff ==
    /\ isOverheated /\ busy = "no"
    /\ runState \in {D_TIMED_ON, D_ALWAYS_ON} \cup AutoStates
    => ~relays

(* Timed, continuous and automatic charging do not switch the outlets on   *)
(* while the board is flagged overheated, whatever charged before.         *)
OverheatedStaysOff ==
    [][/\ ~relays /\ relays'
       /\ runState' \in {D_TIMED_ON, D_ALWAYS_ON} \cup AutoStates
       => ~isOverheated']_vars

(* What the comment on standby says of the flag (2265): it prevents the    *)
(* relays from being turned on. The code does not keep this: a smart       *)
(* charge starts without asking for the flag.                              *)
FlagKeepsOff == [][~relays /\ relays' => ~isOverheated']_vars

(* When the board gets hot and stays hot, the outlets go off for good.     *)
HotEndsCharging == <>[](temp = "hot") => <>[]~relays

-----------------------------------------------------------------------------
(* Suspended sessions and the parameter store. *)

(* A session that charges is no longer stored as suspended: a reset in the *)
(* middle of it must not resume the same minutes a second time.            *)
ResumedOnce ==
    relays /\ runState \in {D_TIMED_ON, D_ALWAYS_ON} => eeprom.resumeMinutes = -1

(* A stored session names an activity to resume. Otherwise waking up makes *)
(* its run state whatever is stored there.                                 *)
SavedIsResumable == eeprom.resumeMinutes >= 0 => eeprom.resumeState \in ChargingStates

(* What the user has switched on survives a reset at any moment: automatic *)
(* control and the scheduled smart charge are stored as they are in RAM.   *)
SettingsAreSaved ==
    /\ param.isAuto = eeprom.isAuto
    /\ param.isOUCMonitoring = eeprom.isOUCMonitoring

(* A timed session, however the mains comes and goes and whether the board *)
(* hibernates or not, is the session of the abstract specification.        *)
Suspended == eeprom.resumeMinutes >= 0
Session == INSTANCE TimedSession WITH
    Period <- TimerPeriod,
    Longest <- MaxMins,
    phase <- IF countdown THEN "charging" ELSE IF Suspended THEN "suspended" ELSE "none",
    elapsed <- IF countdown THEN timerMins
               ELSE IF Suspended THEN eeprom.resumeMinutes ELSE 0
SessionSpec == Session!Spec

(* A timed session dismisses itself only when its minutes are over, not by *)
(* an end mark left behind by the session before it.                       *)
EndsOnTime ==
    [][runState = D_TIMED_ON /\ runState' = D_GOTOSTANDBY
       => timerMins' >= TimerPeriod]_vars

-----------------------------------------------------------------------------
(* Smart charging. *)

(* The pass that counts the last minute of a smart charge switches the     *)
(* outlets off, whatever suspended and resumed it before: no pass leaves   *)
(* them on with the longest time reached. From the outlets the limit holds *)
(* once the warm-up is over.                                               *)
SmartIsBounded ==
    /\ relays /\ busy = "no"
    => /\ runState \in SmartACStates =>
             chargeMins < MaxTimeOn \/ chargeMins <= WarmupMins
       /\ runState \in SmartUSBCStates => chargeMins < MaxTimeOn

(* A scheduled smart charge has stopped the session it replaces: no        *)
(* countdown of a timed session goes on under it.                          *)
ReplacedIsStopped ==
    runState \in {D_CHARGED_ON_AUTO, D_CHARGED_ON_USBC_AUTO} => ~countdown

-----------------------------------------------------------------------------
(* Liveness of the whole. *)

(* Every charge that is limited in time ends, once the mains is there to   *)
(* stay, the board is cool and the user leaves the trolley alone.          *)
ChargingEnds == CommandsEnd /\ PowerStays => <>[]~relays

(* Without mains for good, the trolley sleeps before its battery is empty. *)
MainsLossSleeps == CommandsEnd /\ <>[]~mains => <>[](busy \in Asleep)

(* When no scheduled half hour comes any more, automatic charging ends,    *)
(* whatever the mains does meanwhile.                                      *)
ScheduleEndsCharging == CommandsEnd /\ <>[](sched = "off") => <>[]~relays

(* An accepted stop command switches the outlets off.                      *)
StopWorks == runState = D_WEBGOTOSTANDBY ~> ~relays

(* With the mains back for good no session stays suspended: whichever of   *)
(* the checks on the way to sleep or out of it sees the mains first, the   *)
(* session is taken up, or ended, sooner or later.                         *)
SessionResumes == CommandsEnd /\ <>[]mains => [](Suspended => <>~Suspended)

=============================================================================
