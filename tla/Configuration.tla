--------------------------- MODULE Configuration ----------------------------
(***************************************************************************)
(* The parameter block and where its settings come from: the configuration *)
(* the cloud keeps in a ledger, the commands of remoteParam, defaults and  *)
(* the copy in EEPROM.                                                     *)
(*                                                                         *)
(* The block is four settings: the serial number (key SN, which a          *)
(* configuration must have), the limit of a charge, which stands for the   *)
(* other keys and can be set by command too (mxo), the timer period, which *)
(* only commands set (tip), and the end of the schedule (sch). A value     *)
(* says who set it: 0 nobody, v version v of the configuration, Chosen a   *)
(* user.                                                                   *)
(*                                                                         *)
(* Applying a configuration is several steps: every value is looked up in  *)
(* the ledger as it is then, and the cloud may have synchronised a newer   *)
(* version meanwhile.                                                      *)
(***************************************************************************)
EXTENDS Naturals

CONSTANTS
    MaxVersion,         \* bound: versions the cloud sends
    Contents,           \* what a version may say of its keys
    Commands,           \* commands users send in this run
    ClockFails,         \* the battery of the RTC may lose the time in a reset
    ResetsWhileMarking  \* a reset may fall between mark and save

Keys == {"SN", "MXO"}
ASSUME ConfigurationAssumption ==
    /\ MaxVersion \in Nat
    /\ Contents \subseteq [Keys -> {"value", "null", "none"}]
    /\ Commands \subseteq {"mxo", "tip", "sch", "dpo", "rst"}
    /\ ClockFails \in BOOLEAN /\ ResetsWhileMarking \in BOOLEAN

VARIABLES
    param,      \* the block in RAM
    eeprom,     \* its copy
    contents,   \* what the versions say
    synced,     \* version in the device's copy of the ledger, 0 for none
    isConfigurationAvailable,
    done,       \* CVER in the status ledger
    at,         \* place in setup, loop or performConfiguration
    caller,     \* who has called performConfiguration
    ver,        \* version that is applied
    success,
    isResetPending,
    restarting, \* run state is D_RESTART
    timeValid,  \* Time.isValid()
    accepted,   \* timer period to be kept, 0 after what resets the settings
    defaulted   \* a factory reset since a version was marked as done

configVars == <<ver, success, caller>>
ledgerVars == <<contents, synced, isConfigurationAvailable>>
systemVars == <<isResetPending, restarting, timeValid>>
historyVars == <<accepted, defaulted>>
vars == <<param, eeprom, done, at, configVars, ledgerVars, systemVars, historyVars>>

Versions == 1..MaxVersion
Chosen == MaxVersion + 1
Default == [serial |-> 0, limit |-> 0, period |-> 0, validTo |-> 0]

-----------------------------------------------------------------------------
(* The store. *)

putParameters == eeprom' = param

(* The checksum is right, a block is written whole. *)
getParameters == param' = eeprom

(* The date of an event: with no valid clock the time settings are read    *)
(* back and the block, as it is in RAM, is saved.                          *)
getCreatedTime == IF timeValid THEN UNCHANGED eeprom ELSE putParameters

(* A controller saves its session, and the whole block with it. *)
SessionSaved ==
    /\ at = "running"
    /\ putParameters
    /\ UNCHANGED <<param, done, at, configVars, ledgerVars, systemVars, historyVars>>

helperAfterSleep ==
    /\ at = "running" /\ ~restarting
    /\ getParameters
    /\ UNCHANGED <<eeprom, done, at, configVars, ledgerVars, systemVars, historyVars>>

-----------------------------------------------------------------------------
(* Configuration by the cloud. *)

getValue(key) == IF synced = 0 THEN "none" ELSE contents[synced][key]

(* The cloud is connected after setup only; it also brings the time.       *)
syncCallback ==
    /\ at = "running" \/ caller # "setup"
    /\ synced < MaxVersion
    /\ synced' = synced + 1
    /\ isConfigurationAvailable' = TRUE
    /\ timeValid' = TRUE
    /\ UNCHANGED <<param, eeprom, contents, done, at, configVars, isResetPending,
                   restarting, historyVars>>

AfterCheck == IF caller' = "setup" THEN "restore" ELSE "running"

(* Setup asks once, the loop every 20 seconds.                             *)
MayCheck ==
    \/ at = "setup" /\ caller' = "setup"
    \/ at = "running" /\ isConfigurationAvailable /\ caller' = "loop"

checkForConfiguration ==
    /\ MayCheck
    /\ IF ~isResetPending /\ synced > done
       THEN at' = "serial" /\ ver' = synced
       ELSE at' = AfterCheck /\ UNCHANGED ver
    /\ UNCHANGED <<param, eeprom, success, done, ledgerVars, systemVars, historyVars>>

ReadSerial_Optional ==     \* mutant: success to begin with
    /\ at = "serial" /\ at' = "limit"
    /\ success' = (getValue("SN") # "null")
    /\ param' = IF getValue("SN") = "value" THEN [param EXCEPT !.serial = synced] ELSE param
    /\ UNCHANGED <<eeprom, done, ver, caller, ledgerVars, systemVars, historyVars>>
ReadSerial ==
    /\ at = "serial" /\ at' = "limit"
    /\ success' = (getValue("SN") = "value")
    /\ param' = IF getValue("SN") = "value" THEN [param EXCEPT !.serial = synced] ELSE param
    /\ UNCHANGED <<eeprom, done, ver, caller, ledgerVars, systemVars, historyVars>>

(* A key that is not there is no failure, one without a value is.          *)
ReadLimit ==
    /\ at = "limit" /\ at' = "performed"
    /\ success' = (success /\ getValue("MXO") # "null")
    /\ param' = IF getValue("MXO") = "value" THEN [param EXCEPT !.limit = synced] ELSE param
    /\ UNCHANGED <<eeprom, done, ver, caller, ledgerVars, systemVars, historyVars>>

performConfiguration == ReadSerial \/ ReadLimit

setConfigurationDone_Latest ==     \* mutant: marks what the ledger says now
    /\ at = "performed" /\ caller # "factory" /\ success
    /\ done' = synced /\ at' = "marked"
    /\ defaulted' = FALSE
    /\ UNCHANGED <<param, eeprom, configVars, ledgerVars, systemVars, accepted>>
setConfigurationDone_Next ==     \* mutant: marks the next version
    /\ at = "performed" /\ caller # "factory" /\ success
    /\ done' = ver + 1 /\ at' = "marked"
    /\ defaulted' = FALSE
    /\ UNCHANGED <<param, eeprom, configVars, ledgerVars, systemVars, accepted>>
setConfigurationDone ==
    /\ at = "performed" /\ caller # "factory" /\ success
    /\ done' = ver /\ at' = "marked"
    /\ defaulted' = FALSE
    /\ UNCHANGED <<param, eeprom, configVars, ledgerVars, systemVars, accepted>>

ConfigurationSaved_Once ==     \* mutant: the flag is taken back
    /\ at = "marked"
    /\ putParameters
    /\ UNCHANGED caller /\ at' = AfterCheck
    /\ isConfigurationAvailable' = FALSE
    /\ accepted' = IF caller = "setup" THEN 0 ELSE accepted
    /\ UNCHANGED <<param, done, ver, success, contents, synced, systemVars, defaulted>>
(* Setup has not read the block yet: with the configuration it saves the   *)
(* defaults of all other settings.                                         *)
ConfigurationSaved ==
    /\ at = "marked"
    /\ putParameters
    /\ UNCHANGED caller /\ at' = AfterCheck
    /\ accepted' = IF caller = "setup" THEN 0 ELSE accepted
    /\ UNCHANGED <<param, done, ver, success, ledgerVars, systemVars, defaulted>>

(* What it has changed in RAM stays there, and is tried again.             *)
ConfigurationRejected ==
    /\ at = "performed" /\ caller # "factory" /\ ~success
    /\ getCreatedTime
    /\ UNCHANGED caller /\ at' = AfterCheck
    /\ UNCHANGED <<param, done, ver, success, ledgerVars, systemVars, historyVars>>

-----------------------------------------------------------------------------
(* Commands: remoteParam, and the factory reset of remoteAdmin. They are   *)
(* served between the passes and in the delays of a restart.               *)

Command(c) == c \in Commands /\ at = "running"

SetLimit ==
    /\ Command("mxo")
    /\ param' = [param EXCEPT !.limit = Chosen]
    /\ eeprom' = param'
    /\ UNCHANGED <<done, at, configVars, ledgerVars, systemVars, historyVars>>

SetPeriod_NotSaved ==     \* mutant: in RAM only
    /\ Command("tip")
    /\ param' = [param EXCEPT !.period = Chosen]
    /\ accepted' = Chosen
    /\ UNCHANGED <<eeprom, done, at, configVars, ledgerVars, systemVars, defaulted>>
SetPeriod ==
    /\ Command("tip")
    /\ param' = [param EXCEPT !.period = Chosen]
    /\ eeprom' = param'
    /\ accepted' = Chosen
    /\ UNCHANGED <<done, at, configVars, ledgerVars, systemVars, defaulted>>

(* The end of the schedule is not saved.                                   *)
SetValidTo ==
    /\ Command("sch")
    /\ param' = [param EXCEPT !.validTo = Chosen]
    /\ UNCHANGED <<eeprom, done, at, configVars, ledgerVars, systemVars, historyVars>>

(* A list of too few values (dpo) is refused with some of them taken over. *)
RefusedInPart ==
    /\ Command("dpo")
    /\ param' = [param EXCEPT !.limit = Chosen]
    /\ UNCHANGED <<eeprom, done, at, configVars, ledgerVars, systemVars, historyVars>>

(* The serial number is kept, the rest reset, then performConfiguration.   *)
FactoryReset ==
    /\ Command("rst") /\ ~restarting
    /\ param' = [Default EXCEPT !.serial = param.serial]
    /\ at' = "serial" /\ caller' = "factory"
    /\ accepted' = 0 /\ defaulted' = TRUE
    /\ UNCHANGED <<eeprom, done, ver, success, ledgerVars, systemVars>>

FactoryResetDone ==
    /\ at = "performed" /\ caller = "factory"
    /\ IF success THEN putParameters ELSE getCreatedTime
    /\ at' = "running" /\ restarting' = TRUE
    /\ UNCHANGED <<param, done, configVars, ledgerVars, isResetPending, timeValid, historyVars>>

remoteParam == SetLimit \/ SetPeriod \/ SetValidTo \/ RefusedInPart

-----------------------------------------------------------------------------
(* Boots. *)

Boot ==
    /\ param' = Default
    /\ at' = "setup" /\ caller' = "setup" /\ ver' = 0 /\ success' = FALSE
    /\ isConfigurationAvailable' = FALSE
    /\ isResetPending' = FALSE /\ restarting' = FALSE
    /\ timeValid' \in {timeValid} \cup (IF ClockFails THEN {FALSE} ELSE {})
    /\ UNCHANGED <<eeprom, contents, synced, done, historyVars>>

(* A restart, a watchdog reset, the end of a hibernation. *)
Reset == (at = "marked" => ResetsWhileMarking) /\ Boot

restartController == restarting /\ at = "running" /\ Boot

(* Whichever way the block is read, all of it comes from EEPROM: the magic *)
(* number of this program is not of the kind that converts an older        *)
(* layout. The time settings are then taken from the RTC and all is saved. *)
restoreParameters ==
    /\ at = "restore" /\ at' = "running"
    /\ param' = eeprom
    /\ UNCHANGED <<eeprom, done, configVars, ledgerVars, systemVars, historyVars>>

TimeSynchronised ==
    /\ at = "running" /\ ~timeValid
    /\ timeValid' = TRUE
    /\ UNCHANGED <<param, eeprom, done, at, configVars, ledgerVars, isResetPending,
                   restarting, historyVars>>

(* A firmware update is complete: no configuration before its reset.       *)
UpdateComplete ==
    /\ at = "running" /\ ~isResetPending
    /\ putParameters
    /\ isResetPending' = TRUE
    /\ UNCHANGED <<param, done, at, configVars, ledgerVars, restarting, timeValid, historyVars>>

Init ==
    /\ param = Default /\ eeprom = Default
    /\ contents \in [Versions -> Contents]
    /\ synced = 0 /\ done = 0 /\ isConfigurationAvailable = FALSE
    /\ at = "setup" /\ caller = "setup" /\ ver = 0 /\ success = FALSE
    /\ isResetPending = FALSE /\ restarting = FALSE /\ timeValid = FALSE
    /\ accepted = 0 /\ defaulted = FALSE

ProgramStep ==
    \/ checkForConfiguration \/ performConfiguration
    \/ setConfigurationDone \/ ConfigurationSaved \/ ConfigurationRejected
    \/ FactoryResetDone \/ restoreParameters

Next ==
    \/ ProgramStep \/ restartController
    \/ SessionSaved \/ helperAfterSleep
    \/ remoteParam \/ FactoryReset
    \/ syncCallback \/ TimeSynchronised \/ UpdateComplete \/ Reset

Spec == Init /\ [][Next]_vars

(* The program goes on, and its restart timer expires.                     *)
FairSpec == Spec /\ WF_vars(ProgramStep) /\ WF_vars(restartController)

-----------------------------------------------------------------------------
(* Properties. *)

Value == 0..Chosen
Block == [serial : 0..MaxVersion, limit : Value, period : {0, Chosen}, validTo : {0, Chosen}]
ConfigTypeOK ==
    /\ param \in Block /\ eeprom \in Block
    /\ contents \in [Versions -> Contents]
    /\ synced \in 0..MaxVersion /\ done \in 0..synced /\ ver \in 0..synced
    /\ at \in {"setup", "serial", "limit", "performed", "marked", "restore", "running"}
    /\ caller \in {"setup", "loop", "factory"} /\ success \in BOOLEAN
    /\ isConfigurationAvailable \in BOOLEAN /\ isResetPending \in BOOLEAN
    /\ restarting \in BOOLEAN /\ timeValid \in BOOLEAN
    /\ accepted \in {0, Chosen} /\ defaulted \in BOOLEAN

Given(v, key) == v > 0 /\ contents[v][key] = "value"
AlwaysGiven(key) == \A v \in done..synced : Given(v, key)

(* What is marked as done is stored, or has since been replaced by a newer *)
(* version, a user or a factory reset: a version that changes under the    *)
(* reader, a rejected one and a restart leave no setting behind the mark.  *)
(* A setting the newer version does not have may be missed.                *)
DoneIsStored ==
    at # "marked" =>
        /\ AlwaysGiven("SN") => eeprom.serial >= done
        /\ AlwaysGiven("MXO") => eeprom.limit >= done \/ (defaulted /\ eeprom.limit = 0)

(* A device that has a serial number keeps one: no boot, no configuration  *)
(* and no factory reset stores a block without it.                         *)
IdentityKept == [][eeprom.serial # 0 => eeprom'.serial # 0]_vars

(* When versions, restarts and updates come to an end, the last version is *)
(* applied, if it can be.                                                  *)
Acceptable(v) == Given(v, "SN") /\ contents[v]["MXO"] # "null"
ConfigurationSettles ==
    /\ <>[][~Reset /\ ~FactoryReset]_vars /\ <>[]~isResetPending
    => <>[](Acceptable(synced) => done = synced)

(* A timer period a user has set, and was told is set, stays stored: no    *)
(* reset, wake-up, rejected configuration or command that is refused puts  *)
(* another one in its place. It ends with a factory reset and with a       *)
(* configuration applied by setup.                                         *)
AcceptedIsKept == accepted # 0 => eeprom.period = accepted
=============================================================================
