------------------------ MODULE ConfigurationProofs ------------------------
(***************************************************************************)
(* What Configuration promises of the stored block, proved for every       *)
(* number of versions, whatever they contain, and for every set of         *)
(* commands. Assumed is what the run assumes: the clock keeps its time,    *)
(* and no reset falls between the mark of a version and its save.          *)
(***************************************************************************)
EXTENDS Configuration, TLAPS

Undisturbed == ~ClockFails /\ ~ResetsWhileMarking

(* The block in RAM counts once setup has read it.                         *)
Loaded == at = "running" \/ caller # "setup"
Applying == at \in {"serial", "limit", "performed", "marked"} /\ caller # "factory"
SinceVer(key) == \A v \in ver..synced : Given(v, key)
BehindDone(block) ==
    /\ AlwaysGiven("SN") => block.serial >= done
    /\ AlwaysGiven("MXO") => block.limit >= done \/ (defaulted /\ block.limit = 0)

(* What is looked up while a version is applied is not older than it.      *)
ReadsOK ==
    /\ Applying => 0 < ver
    /\ Applying /\ at # "serial" /\ SinceVer("SN") => param.serial >= ver
    /\ Applying /\ at \in {"performed", "marked"} /\ SinceVer("MXO") => param.limit >= ver
    /\ at = "marked" => done = ver
    /\ at \in {"limit", "performed", "marked"} /\ success => param.serial # 0
    /\ at = "marked" => success /\ caller # "factory"
    /\ at = "setup" => caller = "setup"
    /\ at = "restore" => caller = "setup"

MarkOK ==
    at # "marked" => BehindDone(eeprom) /\ (Loaded => BehindDone(param))

RestOK ==
    /\ synced > 0 => timeValid
    /\ Loaded /\ eeprom.serial # 0 => param.serial # 0
    /\ accepted # 0 => eeprom.period = accepted /\ (Loaded => param.period = accepted)

ConfigInv == ConfigTypeOK /\ ReadsOK /\ MarkOK /\ RestOK

-----------------------------------------------------------------------------
(* Every version is a number, and so is what a user has chosen.            *)
LEMMA ChosenIsNewest == Chosen \in Nat /\ \A v \in 0..MaxVersion : v \in Nat /\ v < Chosen
  BY ConfigurationAssumption DEF Chosen

(* The next step, one disjunct an action.                                  *)
LEMMA Steps ==
    ASSUME [Next]_vars
    PROVE  \/ SessionSaved \/ helperAfterSleep \/ checkForConfiguration \/ ReadSerial
           \/ ReadLimit \/ setConfigurationDone \/ ConfigurationSaved \/ ConfigurationRejected
           \/ FactoryResetDone \/ restoreParameters \/ SetLimit \/ SetPeriod
           \/ SetValidTo \/ RefusedInPart \/ FactoryReset \/ syncCallback
           \/ TimeSynchronised \/ UpdateComplete \/ Reset \/ restartController
           \/ UNCHANGED vars
  BY DEF Next, ProgramStep, performConfiguration, remoteParam

(* A boot starts from the defaults.                                        *)
LEMMA BootTypes ==
    ASSUME ConfigTypeOK, Boot
    PROVE  ConfigTypeOK'
<1>1. Default \in Block
  BY ChosenIsNewest, ConfigurationAssumption DEF Default, Block, Value
<1>2. timeValid' \in BOOLEAN
  <2>1. timeValid \in BOOLEAN
    BY DEF ConfigTypeOK
  <2>2. timeValid' \in {timeValid} \cup {FALSE} \/ timeValid' \in {timeValid} \cup {}
    BY Zenon DEF Boot
  <2> QED
    BY <2>1, <2>2, Zenon
<1>3. ver' \in 0..synced
  BY ConfigurationAssumption DEF Boot, ConfigTypeOK
<1> QED
  BY <1>1, <1>2, <1>3 DEF Boot, historyVars, ConfigTypeOK

(* Types are kept by every action.                                         *)
LEMMA ConfigTypeStep ==
    ASSUME ConfigTypeOK, [Next]_vars
    PROVE  ConfigTypeOK'
<1> USE ConfigurationAssumption, ChosenIsNewest DEF configVars, ledgerVars, systemVars, historyVars,
        ConfigTypeOK, Block, Value, Versions
<1>1. CASE SessionSaved
  BY <1>1 DEF SessionSaved, putParameters
<1>2. CASE helperAfterSleep
  BY <1>2 DEF helperAfterSleep, getParameters
<1>3. CASE checkForConfiguration
  BY <1>3 DEF checkForConfiguration, MayCheck, AfterCheck
<1>4. CASE ReadSerial
  BY <1>4 DEF ReadSerial, getValue
<1>5. CASE ReadLimit
  <2>1. synced \in Value /\ success' \in BOOLEAN
    BY <1>5 DEF ReadLimit, ConfigTypeOK, Value
  <2>2. param' \in Block
    BY <2>1, <1>5 DEF ReadLimit, ConfigTypeOK, Block
  <2> QED
    BY <2>1, <2>2, <1>5 DEF ReadLimit, configVars, ledgerVars, systemVars, historyVars, ConfigTypeOK
<1>6. CASE setConfigurationDone
  BY <1>6 DEF setConfigurationDone
<1>7. CASE ConfigurationSaved
  BY <1>7 DEF ConfigurationSaved, putParameters, AfterCheck
<1>8. CASE ConfigurationRejected
  BY <1>8 DEF ConfigurationRejected, getCreatedTime, putParameters, AfterCheck
<1>9. CASE FactoryResetDone
  BY <1>9 DEF FactoryResetDone, getCreatedTime, putParameters
<1>10. CASE restoreParameters
  BY <1>10 DEF restoreParameters
<1>11. CASE SetLimit
  BY <1>11 DEF SetLimit, Command
<1>12. CASE SetPeriod
  BY <1>12 DEF SetPeriod, Command
<1>13. CASE SetValidTo
  BY <1>13 DEF SetValidTo, Command
<1>14. CASE RefusedInPart
  BY <1>14 DEF RefusedInPart, Command
<1>15. CASE FactoryReset
  BY <1>15 DEF FactoryReset, Command, Default
<1>16. CASE syncCallback
  BY <1>16 DEF syncCallback
<1>17. CASE TimeSynchronised
  BY <1>17 DEF TimeSynchronised
<1>18. CASE UpdateComplete
  BY <1>18 DEF UpdateComplete, putParameters
<1>19. CASE Reset
  BY <1>19, BootTypes DEF Reset
<1>20. CASE restartController
  BY <1>20, BootTypes DEF restartController
<1>21. CASE UNCHANGED vars
  BY <1>21 DEF vars
<1> QED
  BY Steps, <1>1, <1>2, <1>3, <1>4, <1>5, <1>6, <1>7, <1>8, <1>9, <1>10, <1>11, <1>12, <1>13, <1>14, <1>15, <1>16, <1>17, <1>18, <1>19, <1>20, <1>21

(* What is looked up while a version is applied is not older than it.      *)
LEMMA ReadsStep ==
    ASSUME Undisturbed, ConfigInv, [Next]_vars
    PROVE  ReadsOK'
<1> USE ConfigurationAssumption, ChosenIsNewest DEF configVars, ledgerVars, systemVars, historyVars,
        ConfigInv, ConfigTypeOK, Block, Value, Versions, Undisturbed, ReadsOK, Applying, SinceVer, Given, getValue
<1>1. CASE SessionSaved
  BY <1>1 DEF SessionSaved, putParameters
<1>2. CASE helperAfterSleep
  BY <1>2 DEF helperAfterSleep, getParameters
<1>3. CASE checkForConfiguration
  BY <1>3 DEF checkForConfiguration, MayCheck, AfterCheck
<1>4. CASE ReadSerial
  BY <1>4 DEF ReadSerial
<1>5. CASE ReadLimit
  BY <1>5 DEF ReadLimit
<1>6. CASE setConfigurationDone
  BY <1>6 DEF setConfigurationDone
<1>7. CASE ConfigurationSaved
  BY <1>7 DEF ConfigurationSaved, putParameters, AfterCheck
<1>8. CASE ConfigurationRejected
  BY <1>8 DEF ConfigurationRejected, getCreatedTime, putParameters, AfterCheck
<1>9. CASE FactoryResetDone
  BY <1>9 DEF FactoryResetDone, getCreatedTime, putParameters
<1>10. CASE restoreParameters
  BY <1>10 DEF restoreParameters
<1>11. CASE SetLimit
  BY <1>11 DEF SetLimit, Command
<1>12. CASE SetPeriod
  BY <1>12 DEF SetPeriod, Command
<1>13. CASE SetValidTo
  BY <1>13 DEF SetValidTo, Command
<1>14. CASE RefusedInPart
  BY <1>14 DEF RefusedInPart, Command
<1>15. CASE FactoryReset
  BY <1>15 DEF FactoryReset, Command, Default
<1>16. CASE syncCallback
  BY <1>16 DEF syncCallback
<1>17. CASE TimeSynchronised
  BY <1>17 DEF TimeSynchronised
<1>18. CASE UpdateComplete
  BY <1>18 DEF UpdateComplete, putParameters
<1>19. CASE Reset
  BY <1>19 DEF Reset, Boot, Default
<1>20. CASE restartController
  BY <1>20 DEF restartController, Boot, Default
<1>21. CASE UNCHANGED vars
  BY <1>21 DEF vars
<1> QED
  BY Steps, <1>1, <1>2, <1>3, <1>4, <1>5, <1>6, <1>7, <1>8, <1>9, <1>10, <1>11, <1>12, <1>13, <1>14, <1>15, <1>16, <1>17, <1>18, <1>19, <1>20, <1>21

(* No step leaves a setting behind the mark.                               *)
LEMMA MarkStep ==
    ASSUME Undisturbed, ConfigInv, [Next]_vars
    PROVE  MarkOK'
<1> USE ConfigurationAssumption, ChosenIsNewest DEF configVars, ledgerVars, systemVars, historyVars,
        ConfigInv, ConfigTypeOK, Block, Value, Versions, Undisturbed, ReadsOK, MarkOK, RestOK, Loaded,
        BehindDone, AlwaysGiven, Applying, SinceVer, Given
<1>1. CASE SessionSaved
  BY <1>1 DEF SessionSaved, putParameters
<1>2. CASE helperAfterSleep
  BY <1>2 DEF helperAfterSleep, getParameters
<1>3. CASE checkForConfiguration
  BY <1>3 DEF checkForConfiguration, MayCheck, AfterCheck
<1>4. CASE ReadSerial
  BY <1>4 DEF ReadSerial
<1>5. CASE ReadLimit
  BY <1>5 DEF ReadLimit
<1>6. CASE setConfigurationDone
  BY <1>6 DEF setConfigurationDone
<1>7. CASE ConfigurationSaved
  BY <1>7 DEF ConfigurationSaved, putParameters, AfterCheck
<1>8. CASE ConfigurationRejected
  BY <1>8 DEF ConfigurationRejected, getCreatedTime, putParameters, AfterCheck
<1>9. CASE FactoryResetDone
  BY <1>9 DEF FactoryResetDone, getCreatedTime, putParameters
<1>10. CASE restoreParameters
  BY <1>10 DEF restoreParameters
<1>11. CASE SetLimit
  BY <1>11 DEF SetLimit, Command
<1>12. CASE SetPeriod
  BY <1>12 DEF SetPeriod, Command
<1>13. CASE SetValidTo
  BY <1>13 DEF SetValidTo, Command
<1>14. CASE RefusedInPart
  BY <1>14 DEF RefusedInPart, Command
<1>15. CASE FactoryReset
  BY <1>15 DEF FactoryReset, Command, Default
<1>16. CASE syncCallback
  BY <1>16 DEF syncCallback
<1>17. CASE TimeSynchronised
  BY <1>17 DEF TimeSynchronised
<1>18. CASE UpdateComplete
  BY <1>18 DEF UpdateComplete, putParameters
<1>19. CASE Reset
  BY <1>19 DEF Reset, Boot, Default
<1>20. CASE restartController
  BY <1>20 DEF restartController, Boot, Default
<1>21. CASE UNCHANGED vars
  BY <1>21 DEF vars
<1> QED
  BY Steps, <1>1, <1>2, <1>3, <1>4, <1>5, <1>6, <1>7, <1>8, <1>9, <1>10, <1>11, <1>12, <1>13, <1>14, <1>15, <1>16, <1>17, <1>18, <1>19, <1>20, <1>21

(* The clock, the serial number and the timer period are kept.             *)
LEMMA RestStep ==
    ASSUME Undisturbed, ConfigInv, [Next]_vars
    PROVE  RestOK'
<1> USE ConfigurationAssumption, ChosenIsNewest DEF configVars, ledgerVars, systemVars, historyVars,
        ConfigInv, ConfigTypeOK, Block, Value, Versions, Undisturbed, ReadsOK, RestOK, Loaded,
        Applying, getValue
<1>1. CASE SessionSaved
  BY <1>1 DEF SessionSaved, putParameters
<1>2. CASE helperAfterSleep
  BY <1>2 DEF helperAfterSleep, getParameters
<1>3. CASE checkForConfiguration
  BY <1>3 DEF checkForConfiguration, MayCheck, AfterCheck
<1>4. CASE ReadSerial
  BY <1>4 DEF ReadSerial
<1>5. CASE ReadLimit
  BY <1>5 DEF ReadLimit
<1>6. CASE setConfigurationDone
  BY <1>6 DEF setConfigurationDone
<1>7. CASE ConfigurationSaved
  BY <1>7 DEF ConfigurationSaved, putParameters, AfterCheck
<1>8. CASE ConfigurationRejected
  BY <1>8 DEF ConfigurationRejected, getCreatedTime, putParameters, AfterCheck
<1>9. CASE FactoryResetDone
  BY <1>9 DEF FactoryResetDone, getCreatedTime, putParameters
<1>10. CASE restoreParameters
  BY <1>10 DEF restoreParameters
<1>11. CASE SetLimit
  BY <1>11 DEF SetLimit, Command
<1>12. CASE SetPeriod
  BY <1>12 DEF SetPeriod, Command
<1>13. CASE SetValidTo
  BY <1>13 DEF SetValidTo, Command
<1>14. CASE RefusedInPart
  BY <1>14 DEF RefusedInPart, Command
<1>15. CASE FactoryReset
  BY <1>15 DEF FactoryReset, Command, Default
<1>16. CASE syncCallback
  BY <1>16 DEF syncCallback
<1>17. CASE TimeSynchronised
  BY <1>17 DEF TimeSynchronised
<1>18. CASE UpdateComplete
  BY <1>18 DEF UpdateComplete, putParameters
<1>19. CASE Reset
  BY <1>19 DEF Reset, Boot, Default
<1>20. CASE restartController
  BY <1>20 DEF restartController, Boot, Default
<1>21. CASE UNCHANGED vars
  BY <1>21 DEF vars
<1> QED
  BY Steps, <1>1, <1>2, <1>3, <1>4, <1>5, <1>6, <1>7, <1>8, <1>9, <1>10, <1>11, <1>12, <1>13, <1>14, <1>15, <1>16, <1>17, <1>18, <1>19, <1>20, <1>21
-----------------------------------------------------------------------------
(* At the start nothing is applied, and the block is the default.          *)
LEMMA ConfigInit ==
    ASSUME Init
    PROVE  ConfigInv
<1> USE ConfigurationAssumption, ChosenIsNewest DEF Init, Default
<1>1. ConfigTypeOK
  <2>1. Default \in Block
    BY DEF Block, Value
  <2>2. param \in Block /\ eeprom \in Block
    BY <2>1 DEF Init
  <2>3. synced \in 0..MaxVersion /\ done \in 0..synced /\ ver \in 0..synced
    BY ConfigurationAssumption DEF Init
  <2>4. contents \in [Versions -> Contents]
    BY DEF Init
  <2>5. success \in BOOLEAN /\ isConfigurationAvailable \in BOOLEAN /\ isResetPending \in BOOLEAN
        /\ restarting \in BOOLEAN /\ timeValid \in BOOLEAN /\ defaulted \in BOOLEAN
    BY DEF Init
  <2> HIDE DEF Default
  <2> QED
    BY <2>2, <2>3, <2>4, <2>5 DEF ConfigTypeOK
<1>2. ReadsOK
  BY DEF ReadsOK, Applying
<1>3. MarkOK
  BY DEF MarkOK, Loaded, BehindDone
<1>4. RestOK
  BY DEF RestOK, Loaded
<1> QED
  BY <1>1, <1>2, <1>3, <1>4 DEF ConfigInv

(* The four parts hold together.                                           *)
LEMMA ConfigStep ==
    ASSUME Undisturbed, ConfigInv, [Next]_vars
    PROVE  ConfigInv'
<1>1. ConfigTypeOK'
  BY ConfigTypeStep DEF ConfigInv
<1> QED
  BY <1>1, ReadsStep, MarkStep, RestStep DEF ConfigInv

LEMMA ConfigAlways ==
    ASSUME Undisturbed
    PROVE  Spec => []ConfigInv
<1>1. Init => ConfigInv
  BY ConfigInit
<1>2. ConfigInv /\ [Next]_vars => ConfigInv'
  BY ConfigStep
<1> QED
  BY <1>1, <1>2, PTL DEF Spec

(* Types, with resets and clock failures wherever they fall.               *)
THEOREM ConfigTypeCorrect == Spec => []ConfigTypeOK
<1>1. Init => ConfigTypeOK
  BY ConfigInit DEF ConfigInv
<1>2. ConfigTypeOK /\ [Next]_vars => ConfigTypeOK'
  BY ConfigTypeStep
<1> QED
  BY <1>1, <1>2, PTL DEF Spec

(* However many versions the ledger brings, and whichever of them change   *)
(* while one is read: what is marked as done is stored.                    *)
THEOREM MarkedIsStored ==
    ASSUME Undisturbed
    PROVE  Spec => []DoneIsStored
<1>1. ConfigInv => DoneIsStored
  BY DEF ConfigInv, MarkOK, BehindDone, DoneIsStored
<1> QED
  BY <1>1, ConfigAlways, PTL

(* The timer period a user was told is set stays stored.                   *)
THEOREM PeriodIsKept ==
    ASSUME Undisturbed
    PROVE  Spec => []AcceptedIsKept
<1>1. ConfigInv => AcceptedIsKept
  BY DEF ConfigInv, RestOK, AcceptedIsKept
<1> QED
  BY <1>1, ConfigAlways, PTL

(* No step stores a block without serial number in place of one with it.   *)
LEMMA SerialStep ==
    ASSUME Undisturbed, ConfigInv, [Next]_vars, eeprom.serial # 0
    PROVE  eeprom'.serial # 0
<1> USE ConfigurationAssumption, ChosenIsNewest DEF configVars, ledgerVars, systemVars, historyVars,
        ConfigInv, ConfigTypeOK, Block, Value, Versions, Undisturbed, ReadsOK, RestOK, Loaded,
        Applying
<1>1. CASE SessionSaved
  BY <1>1 DEF SessionSaved, putParameters
<1>2. CASE helperAfterSleep
  BY <1>2 DEF helperAfterSleep, getParameters
<1>3. CASE checkForConfiguration
  BY <1>3 DEF checkForConfiguration, MayCheck, AfterCheck
<1>4. CASE ReadSerial
  BY <1>4 DEF ReadSerial
<1>5. CASE ReadLimit
  BY <1>5 DEF ReadLimit
<1>6. CASE setConfigurationDone
  BY <1>6 DEF setConfigurationDone
<1>7. CASE ConfigurationSaved
  BY <1>7 DEF ConfigurationSaved, putParameters, AfterCheck
<1>8. CASE ConfigurationRejected
  BY <1>8 DEF ConfigurationRejected, getCreatedTime, putParameters, AfterCheck
<1>9. CASE FactoryResetDone
  BY <1>9 DEF FactoryResetDone, getCreatedTime, putParameters
<1>10. CASE restoreParameters
  BY <1>10 DEF restoreParameters
<1>11. CASE SetLimit
  BY <1>11 DEF SetLimit, Command
<1>12. CASE SetPeriod
  BY <1>12 DEF SetPeriod, Command
<1>13. CASE SetValidTo
  BY <1>13 DEF SetValidTo, Command
<1>14. CASE RefusedInPart
  BY <1>14 DEF RefusedInPart, Command
<1>15. CASE FactoryReset
  BY <1>15 DEF FactoryReset, Command, Default
<1>16. CASE syncCallback
  BY <1>16 DEF syncCallback
<1>17. CASE TimeSynchronised
  BY <1>17 DEF TimeSynchronised
<1>18. CASE UpdateComplete
  BY <1>18 DEF UpdateComplete, putParameters
<1>19. CASE Reset
  BY <1>19 DEF Reset, Boot, Default
<1>20. CASE restartController
  BY <1>20 DEF restartController, Boot, Default
<1>21. CASE UNCHANGED vars
  BY <1>21 DEF vars
<1> QED
  BY Steps, <1>1, <1>2, <1>3, <1>4, <1>5, <1>6, <1>7, <1>8, <1>9, <1>10, <1>11, <1>12, <1>13, <1>14, <1>15, <1>16, <1>17, <1>18, <1>19, <1>20, <1>21

THEOREM SerialIsKept ==
    ASSUME Undisturbed
    PROVE  Spec => IdentityKept
<1>1. ConfigInv /\ [Next]_vars => [eeprom.serial # 0 => eeprom'.serial # 0]_vars
  BY SerialStep
<1> QED
  BY <1>1, ConfigAlways, PTL DEF Spec, IdentityKept
=============================================================================
