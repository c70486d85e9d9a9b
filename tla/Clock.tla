------------------------------- MODULE Clock -------------------------------
(***************************************************************************)
(* The clocks of the trolley and what keeps them together: the time of the *)
(* P2, the RTC (MCP7940) and its battery backed RAM, the settings of local *)
(* time in the EEPROM, and the cloud that knows the time. Any step may be  *)
(* followed by a reset or a loss of the power.                             *)
(***************************************************************************)
EXTENDS Calendar

CONSTANTS
    Hours,          \* the hours that are looked at, a union of intervals
    Starts,         \* where they begin
    Zones,          \* time zones a user chooses, in hours
    FirstValid,     \* Time.isValid: what is before is an unset clock
    MaxFaults,      \* bound: resets and losses of the power
    MaxWrong        \* bound: hours that pass while a clock is wrong

ASSUME ClockAssumption ==
    /\ Starts \subseteq Hours /\ Hours \subseteq Nat /\ Zones \subseteq Nat
    /\ FirstValid \in Nat /\ \A hour \in Hours : FirstValid <= hour
    /\ {MaxFaults, MaxWrong} \subseteq Nat

VARIABLES
    now,                \* the true time
    pc,                 \* "Off", the stages of setup, "Loop", or the write
                        \* to the RTC's RAM that a step has still to make
    time,               \* Time.now() of the P2, from 0 when not set
    zone, isDST,        \* Time.zone(), Time.isDST()
    param,              \* isDst and isAutoDst, always stored at once
    rtc,                \* the registers: the date, ST and VBATEN
    setting,            \* what MCP7940.adjust has still to write, or Nothing
    ram,                \* the timeData in the RTC's RAM
    connected, wasCloudConnected,
    lastSync,           \* "recent", or "old" after ONE_DAY_MILLIS
    updated,            \* clockTimeUpdate has run in this hour
    faults, wrong       \* count what MaxFaults and MaxWrong bound

localVars == <<zone, isDST, param, ram>>
rtcVars == <<rtc, setting>>
cloudVars == <<connected, wasCloudConnected, lastSync>>
bounds == <<faults, wrong>>
vars == <<now, pc, time, localVars, rtcVars, cloudVars, updated, bounds>>

Nothing == [left |-> <<>>]
Stages == {"Stop", "Start", "SetTime", "Battery", "Restore", "Startup"}
isValid == time >= FirstValid

---------------------------------------------------------------------------
(* The RTC. Its registers hold a date while it runs (ST); all of them are  *)
(* zero when it has been without power, and it counts from there.          *)
Registers(date, st, vbaten) == [y |-> date.y, m |-> date.m, d |-> date.d,
                                h |-> date.h, st |-> st, vbaten |-> vbaten]
Zero == [y |-> 0, m |-> 0, d |-> 0, h |-> 0]
Date(registers) == Registers(registers, TRUE, TRUE)
TrueDate == [hour \in Hours |-> Date(DateTime(hour))]
isRTCSet == rtc.st /\ ~(rtc.y \in {0, 1} /\ rtc.m = 0 /\ rtc.d = 0 /\ rtc.h = 0)

Tick(registers) ==
    IF ~registers.st THEN registers
    ELSE IF registers.h < 23 THEN [registers EXCEPT !.h = @ + 1]
    ELSE IF registers.m = 0 \/ registers.d = 0 THEN [registers EXCEPT !.h = 0]
    ELSE Registers(DateTime(unixtime(registers) + 1), TRUE, registers.vbaten)

deviceStop == rtc' = [rtc EXCEPT !.st = FALSE]
deviceStart == rtc' = [rtc EXCEPT !.st = TRUE]

(* adjust stops the RTC, writes one register after the other and starts it.*)
adjust(hours) ==
    /\ rtc' = [rtc EXCEPT !.st = FALSE]
    /\ setting' = [left |-> <<"h", "m", "d", "y">>, to |-> DateTime(hours)]
adjustGoesOn ==
    /\ pc /= "Off" /\ setting /= Nothing
    /\ IF setting.left = <<>>
       THEN deviceStart /\ setting' = Nothing
       ELSE /\ rtc' = [rtc EXCEPT ![setting.left[1]] = setting.to[setting.left[1]]]
            /\ setting' = [setting EXCEPT !.left = Tail(@)]
    /\ UNCHANGED <<now, pc, time, localVars, cloudVars, updated, bounds>>

(* The stages of setup, and a step of the loop: nothing is being written.  *)
At(stage) == pc = stage /\ setting = Nothing

---------------------------------------------------------------------------
(* Setup. setupMCP7940 stops and starts the RTC and takes its time. The    *)
(* P2 may have kept its own over a reset. The backup battery is switched   *)
(* on, but off when the charging battery reports a fault.                  *)
setupStops ==
    /\ At("Stop") /\ pc' = "Start"
    /\ deviceStop
    /\ UNCHANGED <<now, time, localVars, setting, cloudVars, updated, bounds>>
setupStarts ==
    /\ At("Start") /\ pc' = "SetTime"
    /\ deviceStart
    /\ UNCHANGED <<now, time, localVars, setting, cloudVars, updated, bounds>>

setBattery(state) == rtc' = [rtc EXCEPT !.vbaten = state]
setupMCP7940 ==
    /\ At("SetTime")
    /\ IF isRTCSet
       THEN /\ pc' = "Restore"
            /\ time' = unixtime(rtc)
            /\ \E isFault \in BOOLEAN : setBattery(~isFault)
            /\ UNCHANGED setting
       ELSE /\ pc' = "Battery"
            /\ time' = time
            /\ IF isValid THEN adjust(time) ELSE UNCHANGED rtcVars
    /\ UNCHANGED <<now, localVars, cloudVars, updated, bounds>>
setupSetsBattery ==
    /\ At("Battery") /\ pc' = "Restore"
    /\ setBattery(TRUE)
    /\ UNCHANGED <<now, time, localVars, setting, cloudVars, updated, bounds>>

(* Garbage in the RAM is a zone out of range and a flag that is not 1.     *)
restoreTimeSettingsFromRam ==
    /\ zone' = ram.zone /\ isDST' = ram.dst
    /\ param' = [param EXCEPT !.isDst = ram.dst]
    /\ time' = IF isRTCSet THEN unixtime(rtc) ELSE time
    /\ UNCHANGED <<ram, rtcVars>>

Restores ==
    /\ At("Restore") /\ pc' = "Startup"
    /\ restoreTimeSettingsFromRam
    /\ UNCHANGED <<now, cloudVars, updated, bounds>>

---------------------------------------------------------------------------
(* Daylight saving. Dates are local, the hour is of UTC.                   *)
European == zone \in {0, 1, 2}
isDSTactive ==
    LET local == time + zone + IF isDST THEN 1 ELSE 0
        date == DateTime(local)
    IN  /\ European
        /\ shouldDSTbeEnabled(date.m, date.d, weekday(local) - 1, time % 24) /= isDST

(* A mistake in clockTimeUpdate: the RAM of the RTC is not written.        *)
clockTimeUpdate_Unsaved ==
    /\ pc \in {"Startup", "Loop"} /\ setting = Nothing
    /\ updated' = TRUE
    /\ IF isValid
       THEN /\ pc' = "Loop"
            /\ isDST' = (isDST /= (param.isAutoDst /\ isDSTactive))
            /\ param' = [param EXCEPT !.isDst = IF param.isAutoDst /\ isDSTactive
                                                THEN ~isDST ELSE @]
            /\ UNCHANGED <<zone, time, ram, rtcVars>>
       ELSE restoreTimeSettingsFromRam /\ pc' = "Loop"
    /\ UNCHANGED <<now, cloudVars, bounds>>

(* Every CLOCKUPDATE, and once before the loop.                            *)
clockTimeUpdate ==
    /\ pc \in {"Startup", "Loop"} /\ setting = Nothing
    /\ updated' = TRUE
    /\ IF isValid
       THEN /\ IF param.isAutoDst /\ isDSTactive
               THEN /\ isDST' = ~isDST
                    /\ param' = [param EXCEPT !.isDst = ~isDST]
                    /\ pc' = "Save"
               ELSE UNCHANGED <<isDST, param>> /\ pc' = "Loop"
            /\ UNCHANGED <<zone, time, ram, rtcVars>>
       ELSE restoreTimeSettingsFromRam /\ pc' = "Loop"
    /\ UNCHANGED <<now, cloudVars, bounds>>

saveTimeSettingsToRam ==
    /\ At("Save") /\ pc' = "Loop"
    /\ ram' = [zone |-> zone, dst |-> isDST]
    /\ UNCHANGED <<now, time, zone, isDST, param, rtcVars, cloudVars, updated, bounds>>

---------------------------------------------------------------------------
(* The cloud. A connection brings the time, but not at once: checkNetworks *)
(* may see the one before it has the other.                                *)
ConnectionChanges ==
    /\ At("Loop")
    /\ connected' = ~connected
    /\ UNCHANGED <<now, pc, time, localVars, rtcVars, wasCloudConnected, lastSync,
                   updated, bounds>>
SyncArrives ==
    /\ connected /\ time /= now
    /\ time' = now /\ lastSync' = "recent" /\ updated' = FALSE
    /\ UNCHANGED <<now, pc, localVars, rtcVars, connected, wasCloudConnected, bounds>>
ADayPasses ==
    /\ connected /\ lastSync = "recent" /\ lastSync' = "old"
    /\ UNCHANGED <<now, pc, time, localVars, rtcVars, connected, wasCloudConnected,
                   updated, bounds>>

checkNetworks ==
    /\ At("Loop") /\ connected /= wasCloudConnected
    /\ wasCloudConnected' = connected
    /\ IF connected THEN adjust(time) ELSE UNCHANGED rtcVars
    /\ UNCHANGED <<now, pc, time, localVars, connected, lastSync, updated, bounds>>

(* A mistake in checkTimeSync: the RTC does not follow.                    *)
checkTimeSync_NoAdjust ==
    /\ At("Loop") /\ connected /\ lastSync = "old"
    /\ time' = now /\ lastSync' = "recent" /\ updated' = FALSE
    /\ UNCHANGED <<now, pc, localVars, rtcVars, connected, wasCloudConnected, bounds>>

(* It waits for the answer; if the connection is lost, nothing changes.    *)
checkTimeSync ==
    /\ At("Loop") /\ connected /\ lastSync = "old"
    /\ time' = now /\ lastSync' = "recent" /\ updated' = FALSE
    /\ adjust(now)
    /\ UNCHANGED <<now, pc, localVars, connected, wasCloudConnected, bounds>>

---------------------------------------------------------------------------
(* remoteParam: the settings are stored first, the RAM of the RTC last.    *)
dst(i) ==
    /\ param' = [isDst |-> IF i = 2 THEN param.isDst ELSE i = 1, isAutoDst |-> i = 2]
    /\ isDST' = IF i = 2 THEN isDST ELSE i = 1
    /\ zone' = zone
tzo(j) == zone' = j /\ UNCHANGED <<isDST, param>>

remoteParam ==
    /\ At("Loop") /\ connected
    /\ \/ \E i \in 0..2 : dst(i)
       \/ \E j \in Zones : tzo(j)
    /\ pc' = "Save"
    /\ updated' = FALSE
    /\ UNCHANGED <<now, time, ram, rtcVars, cloudVars, bounds>>

---------------------------------------------------------------------------
(* The hour changes in the loop or while the trolley is off: setup and the *)
(* writes take seconds. In the loop every check has run in each hour.      *)
HourPasses ==
    /\ now + 1 \in Hours /\ now' = now + 1
    /\ \/ At("Loop") /\ updated /\ connected = wasCloudConnected
       \/ pc = "Off"
    /\ ~(connected /\ lastSync = "old")
    /\ time' = IF pc = "Off" THEN time ELSE time + 1
    /\ rtc' = Tick(rtc)
    /\ wrong' = IF Date(rtc') = TrueDate[now'] /\ (pc = "Off" \/ time' = now')
                THEN wrong ELSE wrong + 1
    /\ wrong' <= MaxWrong
    /\ updated' = FALSE
    /\ UNCHANGED <<pc, localVars, setting, cloudVars, faults>>

(* A reset starts setup. The P2's time may survive it.                     *)
Reset ==
    /\ pc /= "Off" /\ faults < MaxFaults /\ faults' = faults + 1
    /\ pc' = "Stop" /\ setting' = Nothing
    /\ time' \in {time, 0}
    /\ zone' = 0 /\ isDST' = FALSE
    /\ connected' = FALSE /\ wasCloudConnected' = FALSE /\ lastSync' = "recent"
    /\ updated' = FALSE
    /\ UNCHANGED <<now, param, rtc, ram, wrong>>

(* Without its battery the RTC loses its registers and its RAM.            *)
PowerIsLost ==
    /\ pc /= "Off" /\ faults < MaxFaults /\ faults' = faults + 1
    /\ pc' = "Off" /\ setting' = Nothing /\ time' = 0
    /\ zone' = 0 /\ isDST' = FALSE
    /\ IF rtc.vbaten
       THEN UNCHANGED <<rtc, ram>>
       ELSE rtc' = Registers(Zero, FALSE, FALSE) /\ ram' = [zone |-> 0, dst |-> FALSE]
    /\ connected' = FALSE /\ wasCloudConnected' = FALSE /\ lastSync' = "recent"
    /\ updated' = FALSE
    /\ UNCHANGED <<now, param, wrong>>
PowerReturns ==
    /\ pc = "Off" /\ pc' = "Stop"
    /\ UNCHANGED <<now, time, localVars, rtcVars, cloudVars, updated, bounds>>

---------------------------------------------------------------------------
(* A new trolley, or one that has been in use and is switched on.          *)
Init ==
    /\ now \in Starts
    /\ pc = "Off" /\ setting = Nothing /\ time = 0
    /\ zone = 0 /\ isDST = FALSE
    /\ param \in [isDst : BOOLEAN, isAutoDst : BOOLEAN]
    /\ \/ /\ rtc = Registers(Zero, FALSE, FALSE)
          /\ ram = [zone |-> 0, dst |-> FALSE]
       \/ /\ rtc = Registers(DateTime(now), TRUE, TRUE)
          /\ ram \in [zone : Zones, dst : {param.isDst}]
    /\ connected = FALSE /\ wasCloudConnected = FALSE /\ lastSync = "recent"
    /\ updated = FALSE
    /\ faults = 0 /\ wrong = 0

Boot == setupStops \/ setupStarts \/ setupMCP7940 \/ setupSetsBattery \/ Restores
Program == \/ Boot \/ adjustGoesOn \/ clockTimeUpdate \/ saveTimeSettingsToRam
           \/ checkNetworks \/ checkTimeSync \/ remoteParam
World == \/ HourPasses \/ ConnectionChanges \/ SyncArrives \/ ADayPasses
         \/ Reset \/ PowerIsLost \/ PowerReturns
Next == Program \/ World

Spec == Init /\ [][Next]_vars

(* The program goes on, it comes to checkTimeSync in every pass in which   *)
(* nothing else keeps it, and days pass.                                   *)
Progress == \/ Boot \/ adjustGoesOn \/ saveTimeSettingsToRam
            \/ pc = "Startup" /\ clockTimeUpdate
FairSpec == Spec /\ WF_vars(Progress) /\ SF_vars(checkTimeSync) /\ WF_vars(ADayPasses)

---------------------------------------------------------------------------
(* What is promised.                                                       *)

(* In the loop, with nothing left to write, the RAM of the RTC and the     *)
(* EEPROM hold the local time the P2 uses: after a reset at any moment the *)
(* next boot finds the zone and the daylight saving that were in force.    *)
LocalTimeSurvives ==
    At("Loop") => ram = [zone |-> zone, dst |-> isDST] /\ param.isDst = isDST

(* The European rule, from scratch: from the last Sunday of March to the   *)
(* last Sunday of October, at 01:00 UTC.                                   *)
LastSunday ==
    [y \in 0..99 |-> [m \in {3, 10} |->
        CHOOSE hours \in {unixtime([y |-> y, m |-> m, d |-> d, h |-> 0]) : d \in 25..31} :
            weekday(hours) = 1]]
SwitchingNight ==
    \E m \in {3, 10} : LET sunday == LastSunday[TrueDate[now].y][m]
                       IN  now \in (sunday - 3)..(sunday + 1)
InSeason ==
    LET y == TrueDate[now].y
    IN  LastSunday[y][3] + 1 <= now /\ now < LastSunday[y][10] + 1

(* Outside the two switching nights, an hour in which the automatic change *)
(* has been looked for has summer time exactly when Europe has it, whoever *)
(* has changed zone, flag or clock before and whatever was lost.           *)
DaylightInSeason ==
    /\ At("Loop") /\ updated /\ time = now
    /\ param.isAutoDst /\ European /\ ~SwitchingNight
    => isDST = InSeason

(* The clocks are right: the P2 has the time or knows that it has not, the *)
(* RTC has the time and is set to no other.                                *)
ClocksRight ==
    /\ isValid => time = now
    /\ Date(rtc) = TrueDate[now]
    /\ setting /= Nothing => Date(setting.to) = TrueDate[now]

(* Clocks that are right stay right through resets, losses of the power,   *)
(* leap days and new years, but for a loss of the power that stops the RTC *)
(* or leaves it without battery.                                           *)
TimeStaysRight ==
    [][ClocksRight => \/ ClocksRight'
                      \/ pc' = "Off" /\ (~rtc.st \/ ~rtc.vbaten)]_vars

(* Whatever has happened to the clocks, a connection that lasts sets both. *)
ClocksRecover == <>[]connected => <>[](time = now /\ ClocksRight)
=============================================================================
