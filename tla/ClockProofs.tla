---------------------------- MODULE ClockProofs ----------------------------
(***************************************************************************)
(* What holds of the clock for all hours, zones and bounds, and of the     *)
(* arithmetic of registers and half hours for all values.                  *)
(***************************************************************************)
EXTENDS Clock, TLAPS

---------------------------------------------------------------------------
(* The registers hold two decimal digits each: what is written is read     *)
(* back, so that the model keeps numbers in them.                          *)
THEOREM RegistersKeepNumbers ==
    ASSUME NEW n \in 0..99
    PROVE  bcd2int(int2bcd(n)) = n
<1>1. PICK t \in 0..9, u \in 0..9 : n = 10 * t + u
  BY SMT
<1>2. n \div 10 = t /\ n % 10 = u
  BY <1>1, SMT
<1>3. (16 * t + u) \div 16 = t /\ (16 * t + u) % 16 = u
  BY <1>1, SMT
<1> QED BY <1>1, <1>2, <1>3, SMT DEF int2bcd, bcd2int

(* The half hour after (day, hour, half); the week ends with day 7.        *)
NextHalf(day, hour, half) ==
    IF half = 0 THEN <<day, hour, 1>>
    ELSE IF hour < 23 THEN <<day, hour + 1, 0>>
    ELSE <<IF day = 7 THEN 1 ELSE day + 1, 0, 0>>

(* checkIfChangedPeriod compares the products of two indices. Those of     *)
(* half hours that follow each other differ, all week and over its end, so *)
(* a new half hour is never taken for the one before it.                   *)
THEOREM NeighboursDiffer ==
    ASSUME NEW day \in 1..7, NEW hour \in 0..23, NEW half \in 0..1
    PROVE  LET next == NextHalf(day, hour, half)
           IN  Period(day, hour, half) /= Period(next[1], next[2], next[3])
<1> DEFINE block == hour \div 4
           of == hour % 4
<1>1. block \in 0..5 /\ of \in 0..3 /\ hour = 4 * block + of
  BY SMT
<1>2. CASE half = 0
  <2>1. Bit(hour, 0) + 1 = 8 - 2 * of /\ Bit(hour, 1) + 1 = 7 - 2 * of
    BY <1>1, SMT DEF Bit
  <2>2. Block(day, hour) + 1 \in 1..42
    BY <1>1, SMT DEF Block
  <2> QED BY <1>1, <1>2, <2>1, <2>2, SMT DEF Period, NextHalf
<1>3. CASE half = 1 /\ of < 3
  <2>1. (hour + 1) \div 4 = block /\ (hour + 1) % 4 = of + 1 /\ hour < 23
    BY <1>1, <1>3, SMT
  <2>2. Bit(hour, 1) + 1 = 7 - 2 * of /\ Bit(hour + 1, 0) + 1 = 6 - 2 * of
    BY <1>1, <1>3, <2>1, SMT DEF Bit
  <2>3. Block(day, hour + 1) = Block(day, hour) /\ Block(day, hour) + 1 \in 1..42
    BY <1>1, <2>1, SMT DEF Block
  <2> QED BY <1>1, <1>3, <2>1, <2>2, <2>3, SMT DEF Period, NextHalf
<1>4. CASE half = 1 /\ of = 3
  <2>1. Period(day, hour, 1) = 6 * (day - 1) + block + 1
    BY <1>1, <1>4, SMT DEF Period, Block, Bit
  <2>2. CASE hour < 23
    <3>1. (hour + 1) \div 4 = block + 1 /\ (hour + 1) % 4 = 0
      BY <1>1, <1>4, <2>2, SMT
    <3>2. Period(day, hour + 1, 0) = 8 * (6 * (day - 1) + block + 2)
      BY <1>1, <3>1, SMT DEF Period, Block, Bit
    <3> QED BY <1>1, <1>4, <2>1, <2>2, <3>2, SMT DEF NextHalf
  <2>3. CASE hour = 23
    <3>1. block = 5
      BY <1>1, <2>3, SMT
    <3>2. \A d \in 1..7 : Period(d, 0, 0) = 8 * (6 * (d - 1) + 1)
      BY SMT DEF Period, Block, Bit
    <3>3. Period(day, hour, 1) = 6 * day
      BY <2>1, <3>1, SMT
    <3> QED BY <1>4, <2>3, <3>2, <3>3, SMT DEF NextHalf
  <2> QED BY <2>2, <2>3, SMT
<1> QED BY <1>1, <1>2, <1>3, <1>4, SMT

(* Quotient and remainder of a number that is written with both.           *)
LEMMA ByFour ==
    ASSUME NEW q \in Nat, NEW r \in 0..3
    PROVE  (4 * q + r) \div 4 = q /\ (4 * q + r) % 4 = r
BY SMT
LEMMA BySixteen ==
    ASSUME NEW q \in Nat, NEW r \in 0..15
    PROVE  (16 * q + r) \div 16 = q /\ (16 * q + r) % 16 = r
BY SMT
LEMMA BySixtyFour ==
    ASSUME NEW q \in Nat, NEW r \in 0..63
    PROVE  (64 * q + r) \div 64 = q /\ (64 * q + r) % 64 = r
BY SMT
LEMMA ByThree ==
    ASSUME NEW q \in Nat, NEW r \in 0..2
    PROVE  (3 * q + r) \div 3 = q /\ (3 * q + r) % 3 = r
BY SMT
LEMMA Itself ==
    ASSUME NEW k \in {4, 16, 64, 256}, NEW n \in 0..(k - 1)
    PROVE  n % k = n
BY SMT

(* Every half hour of the week has a bit of the schedule of its own, which *)
(* the place of the byte and that of the bit tell together; their product, *)
(* which checkIfChangedPeriod compares, does not.                          *)
THEOREM HalfHoursHaveBits ==
    ASSUME NEW day \in 1..7, NEW hour \in 0..23, NEW half \in 0..1
    PROVE  /\ Block(day, hour) \in 0..41 /\ Bit(hour, half) \in 0..7
           /\ \A d \in 1..7, h \in 0..23, k \in 0..1 :
                 Block(d, h) = Block(day, hour) /\ Bit(h, k) = Bit(hour, half)
                 => d = day /\ h = hour /\ k = half
<1>1. \A h \in 0..23 : \E b \in 0..5, r \in 0..3 :
          h = 4 * b + r /\ h \div 4 = b /\ h % 4 = r
  <2> SUFFICES ASSUME NEW h \in 0..23
               PROVE  \E b \in 0..5, r \in 0..3 : h = 4 * b + r /\ h \div 4 = b /\ h % 4 = r
    OBVIOUS
  <2>1. PICK b \in 0..5, r \in 0..3 : h = 4 * b + r
    BY SMT
  <2> QED BY <2>1, ByFour
<1>2. PICK b \in 0..5, r \in 0..3 : hour = 4 * b + r /\ hour \div 4 = b /\ hour % 4 = r
  BY <1>1
<1>3. Block(day, hour) \in 0..41 /\ Bit(hour, half) \in 0..7
  BY <1>2, SMT DEF Block, Bit
<1>4. ASSUME NEW d \in 1..7, NEW h \in 0..23, NEW k \in 0..1,
             Block(d, h) = Block(day, hour), Bit(h, k) = Bit(hour, half)
      PROVE  d = day /\ h = hour /\ k = half
  <2>1. PICK b1 \in 0..5, r1 \in 0..3 : h = 4 * b1 + r1 /\ h \div 4 = b1 /\ h % 4 = r1
    BY <1>1
  <2>2. d = day /\ b1 = b
    BY <1>2, <1>4, <2>1, SMT DEF Block
  <2>3. r1 = r /\ k = half
    BY <1>2, <1>4, <2>1, SMT DEF Bit
  <2> QED BY <1>2, <2>1, <2>2, <2>3
<1> QED BY <1>3, <1>4

---------------------------------------------------------------------------
(* A schedule as the cloud packs it, four characters for three bytes.      *)
Packed(x, y, z) ==
    <<x \div 4, (16 * (x % 4)) + (y \div 16), (4 * (y % 16)) + (z \div 64), z % 64>>
packSchedule(schedule) ==
    [i \in 1..56 |->
        LET g == 3 * ((i - 1) \div 4)
        IN  Packed(schedule[g + 1], schedule[g + 2], schedule[g + 3])[((i - 1) % 4) + 1]]

LEMMA PackedAt ==
    ASSUME NEW schedule, NEW i \in 1..56
    PROVE  packSchedule(schedule)[i] =
               Packed(schedule[3 * ((i - 1) \div 4) + 1], schedule[3 * ((i - 1) \div 4) + 2],
                      schedule[3 * ((i - 1) \div 4) + 3])[((i - 1) % 4) + 1]
BY Zenon DEF packSchedule

LEMMA UnpackedIsPacked ==
    ASSUME NEW x \in 0..255, NEW y \in 0..255, NEW z \in 0..255
    PROVE  LET p == Packed(x, y, z)
           IN  Unpacked(p[1], p[2], p[3], p[4]) = <<x, y, z>>
<1>1. PICK x1 \in 0..63, x2 \in 0..3 :
          x = 4 * x1 + x2 /\ x \div 4 = x1 /\ x % 4 = x2
  <2>1. PICK q \in 0..63, r \in 0..3 : x = 4 * q + r
    BY SMT
  <2>2. (4 * q + r) \div 4 = q /\ (4 * q + r) % 4 = r
    <3>1. q \in Nat
      BY SMT
    <3> QED BY <3>1, ByFour, Zenon
  <2> QED BY <2>1, <2>2
<1>2. PICK y1 \in 0..15, y2 \in 0..15 :
          y = 16 * y1 + y2 /\ y \div 16 = y1 /\ y % 16 = y2
  <2>1. PICK q \in 0..15, r \in 0..15 : y = 16 * q + r
    BY SMT
  <2>2. (16 * q + r) \div 16 = q /\ (16 * q + r) % 16 = r
    <3>1. q \in Nat
      BY SMT
    <3> QED BY <3>1, BySixteen, Zenon
  <2> QED BY <2>1, <2>2
<1>3. PICK z1 \in 0..3, z2 \in 0..63 :
          z = 64 * z1 + z2 /\ z \div 64 = z1 /\ z % 64 = z2
  <2>1. PICK q \in 0..3, r \in 0..63 : z = 64 * q + r
    BY SMT
  <2>2. (64 * q + r) \div 64 = q /\ (64 * q + r) % 64 = r
    <3>1. q \in Nat
      BY SMT
    <3> QED BY <3>1, BySixtyFour, Zenon
  <2> QED BY <2>1, <2>2
<1>4. (4 * x1 + (((16 * x2 + y1) \div 16) % 4)) % 256 = x
  <2>1. ((16 * x2 + y1) \div 16) % 4 = x2
    BY BySixteen, Itself
  <2>2. x % 256 = x
    BY SMT
  <2>3. 4 * x1 + (((16 * x2 + y1) \div 16) % 4) = x
    BY <1>1, <2>1, Zenon
  <2> QED BY <2>2, <2>3, Zenon
<1>5. ((16 * ((16 * x2 + y1) % 16)) + (((4 * y2 + z1) \div 4) % 16)) % 256 = y
  <2>1. (16 * x2 + y1) % 16 = y1 /\ ((4 * y2 + z1) \div 4) % 16 = y2
    BY BySixteen, ByFour, Itself
  <2>2. y % 256 = y
    BY SMT
  <2>3. (16 * ((16 * x2 + y1) % 16)) + (((4 * y2 + z1) \div 4) % 16) = y
    BY <1>2, <2>1, Zenon
  <2> QED BY <2>2, <2>3, Zenon
<1>6. ((64 * ((4 * y2 + z1) % 4)) + (z2 % 64)) % 256 = z
  <2>1. (4 * y2 + z1) % 4 = z1 /\ z2 % 64 = z2
    BY ByFour, Itself
  <2>2. z % 256 = z
    BY SMT
  <2>3. (64 * ((4 * y2 + z1) % 4)) + (z2 % 64) = z
    BY <1>3, <2>1, Zenon
  <2> QED BY <2>2, <2>3, Zenon
<1> QED
  BY <1>1, <1>2, <1>3, <1>4, <1>5, <1>6 DEF Packed, Unpacked

(* unpackSchedule gives back every schedule: no bit of a week is lost or   *)
(* moved between the cloud and the parameter block.                        *)
THEOREM SchedulesArrive ==
    ASSUME NEW schedule \in [1..42 -> 0..255]
    PROVE  unpackSchedule(packSchedule(schedule)) = schedule
<1> DEFINE text == packSchedule(schedule)
<1>1. ASSUME NEW i \in 1..42
      PROVE  unpackSchedule(text)[i] = schedule[i]
  <2>1. PICK n \in 0..13, r \in 0..2 :
            i = 3 * n + r + 1 /\ (i - 1) \div 3 = n /\ (i - 1) % 3 = r
    <3>1. PICK n \in 0..13, r \in 0..2 : i - 1 = 3 * n + r
      BY SMT
    <3> QED BY <3>1, ByThree
  <2> DEFINE p == Packed(schedule[3 * n + 1], schedule[3 * n + 2], schedule[3 * n + 3])
  <2>2. \A k \in 1..4 : text[4 * n + k] = p[k]
    <3> SUFFICES ASSUME NEW k \in 1..4 PROVE text[4 * n + k] = p[k]
      OBVIOUS
    <3>1. 4 * n + k \in 1..56 /\ 4 * n + k - 1 = 4 * n + (k - 1) /\ k - 1 \in 0..3
      BY SMT
    <3>2. (4 * n + k - 1) \div 4 = n /\ ((4 * n + k - 1) % 4) + 1 = k
      BY <3>1, ByFour
    <3>3. text[4 * n + k] = Packed(schedule[3 * n + 1], schedule[3 * n + 2],
                                   schedule[3 * n + 3])[k]
      <4> DEFINE j == 4 * n + k
      <4>1. j \in 1..56 /\ (j - 1) \div 4 = n /\ ((j - 1) % 4) + 1 = k
        BY <3>1, <3>2
      <4>2. text[j] = Packed(schedule[3 * ((j - 1) \div 4) + 1],
                             schedule[3 * ((j - 1) \div 4) + 2],
                             schedule[3 * ((j - 1) \div 4) + 3])[((j - 1) % 4) + 1]
        <5> HIDE DEF j
        <5> QED BY <4>1, PackedAt
      <4> QED BY <4>1, <4>2, Zenon
    <3> QED BY <3>3
  <2>3. /\ schedule[3 * n + 1] \in 0..255 /\ schedule[3 * n + 2] \in 0..255
        /\ schedule[3 * n + 3] \in 0..255
    BY SMT
  <2>4. Unpacked(p[1], p[2], p[3], p[4]) =
            <<schedule[3 * n + 1], schedule[3 * n + 2], schedule[3 * n + 3]>>
    BY <2>3, UnpackedIsPacked
  <2>5. unpackSchedule(text)[i] =
            Unpacked(text[4 * n + 1], text[4 * n + 2], text[4 * n + 3], text[4 * n + 4])[r + 1]
    BY <2>1 DEF unpackSchedule
  <2>6. unpackSchedule(text)[i] = Unpacked(p[1], p[2], p[3], p[4])[r + 1]
    BY <2>2, <2>5
  <2>7. unpackSchedule(text)[i] =
            <<schedule[3 * n + 1], schedule[3 * n + 2], schedule[3 * n + 3]>>[r + 1]
    BY <2>4, <2>6
  <2> QED BY <2>1, <2>7, SMT
<1>2. unpackSchedule(text) = [i \in 1..42 |-> unpackSchedule(text)[i]]
  BY DEF unpackSchedule
<1> QED BY <1>1, <1>2

---------------------------------------------------------------------------
(* The inductive invariant. While a change has still to be written to the  *)
(* RAM of the RTC ("Save") the EEPROM already has it; a boot brings all    *)
(* three together in one step before it is in "Startup".                   *)
Settings == [isDst : BOOLEAN, isAutoDst : BOOLEAN]
TimeData == [zone : Zones \cup {0}, dst : BOOLEAN]
LocalTypeOK ==
    /\ param \in Settings /\ ram \in TimeData
    /\ zone \in Zones \cup {0} /\ isDST \in BOOLEAN
InStep == ram = [zone |-> zone, dst |-> isDST] /\ param.isDst = isDST
LocalInv ==
    /\ LocalTypeOK
    /\ pc \in {"Startup", "Loop"} => InStep
    /\ pc = "Save" => param.isDst = isDST

LEMMA Unpowered == [zone |-> 0, dst |-> FALSE] \in TimeData
  BY DEF TimeData

LEMMA InitInStep == Init => LocalInv
<1> SUFFICES ASSUME Init PROVE LocalInv
  OBVIOUS
<1>1. pc = "Off" /\ zone = 0 /\ isDST = FALSE /\ param \in Settings
  BY DEF Init, Settings
<1>2. ram = [zone |-> 0, dst |-> FALSE] \/ ram \in [zone : Zones, dst : {param.isDst}]
  BY DEF Init
<1>3. ram \in TimeData
  <2>1. CASE ram = [zone |-> 0, dst |-> FALSE]
    BY <2>1, Unpowered
  <2>2. CASE ram \in [zone : Zones, dst : {param.isDst}]
    BY <1>1, <2>2 DEF Settings, TimeData
  <2> QED BY <1>2, <2>1, <2>2
<1> QED BY <1>1, <1>3 DEF LocalTypeOK, LocalInv

(* A boot, and a pass without a valid time, take the settings of the RAM.  *)
LEMMA RestoredInStep ==
    ASSUME LocalInv, restoreTimeSettingsFromRam
    PROVE  LocalTypeOK' /\ InStep'
<1>1. ram' = ram /\ zone' = ram.zone /\ isDST' = ram.dst
  BY DEF restoreTimeSettingsFromRam
<1>2. ram = [zone |-> ram.zone, dst |-> ram.dst]
  BY DEF LocalInv, LocalTypeOK, TimeData
<1>3. param' \in Settings /\ param'.isDst = ram.dst
  BY DEF restoreTimeSettingsFromRam, LocalInv, LocalTypeOK, Settings, TimeData
<1> QED BY <1>1, <1>2, <1>3 DEF LocalInv, LocalTypeOK, InStep, TimeData

LEMMA UpdatedInStep ==
    ASSUME LocalInv, clockTimeUpdate
    PROVE  LocalInv'
<1>1. pc \in {"Startup", "Loop"} /\ InStep
  BY DEF clockTimeUpdate, LocalInv
<1>2. CASE isValid /\ param.isAutoDst /\ isDSTactive
  <2>1. /\ isDST' = ~isDST /\ param' = [param EXCEPT !.isDst = ~isDST] /\ pc' = "Save"
        /\ zone' = zone /\ ram' = ram
    BY <1>2 DEF clockTimeUpdate
  <2>2. param' \in Settings /\ param'.isDst = isDST'
    BY <2>1 DEF LocalInv, LocalTypeOK, Settings
  <2> QED BY <2>1, <2>2 DEF LocalInv, LocalTypeOK
<1>3. CASE isValid /\ ~(param.isAutoDst /\ isDSTactive)
  <2>1. UNCHANGED <<isDST, param, zone, ram>> /\ pc' = "Loop"
    BY <1>3 DEF clockTimeUpdate
  <2> QED BY <1>1, <2>1 DEF LocalInv, LocalTypeOK, InStep
<1>4. CASE ~isValid
  <2>1. restoreTimeSettingsFromRam /\ pc' = "Loop"
    BY <1>4 DEF clockTimeUpdate
  <2> QED BY <2>1, RestoredInStep DEF LocalInv
<1> QED BY <1>2, <1>3, <1>4

LEMMA CommandedInStep ==
    ASSUME LocalInv, remoteParam
    PROVE  LocalInv'
<1>1. pc' = "Save" /\ ram' = ram
  BY DEF remoteParam
<1>2. InStep
  BY DEF remoteParam, At, LocalInv
<1>3. CASE \E i \in 0..2 : dst(i)
  <2>1. PICK i \in 0..2 : dst(i)
    BY <1>3
  <2>2. param' \in Settings
    BY <2>1 DEF dst, LocalInv, LocalTypeOK, Settings
  <2>3. param'.isDst = isDST' /\ isDST' \in BOOLEAN
    BY <1>2, <2>1 DEF dst, LocalInv, LocalTypeOK, Settings, InStep
  <2> QED BY <1>1, <2>1, <2>2, <2>3 DEF dst, LocalInv, LocalTypeOK
<1>4. CASE \E j \in Zones : tzo(j)
  BY <1>1, <1>2, <1>4 DEF tzo, LocalInv, LocalTypeOK, InStep
<1> QED BY <1>3, <1>4 DEF remoteParam

LEMMA NextInStep == LocalInv /\ [Next]_vars => LocalInv'
<1> SUFFICES ASSUME LocalInv, [Next]_vars PROVE LocalInv'
  OBVIOUS
<1>1. CASE Boot
  <2>1. CASE Restores
    BY <2>1, RestoredInStep DEF Restores, LocalInv
  <2>2. CASE setupStops \/ setupStarts \/ setupMCP7940 \/ setupSetsBattery
    <3>1. UNCHANGED localVars /\ pc' \in {"Start", "SetTime", "Battery", "Restore"}
      BY <2>2 DEF setupStops, setupStarts, setupMCP7940, setupSetsBattery
    <3> QED BY <3>1 DEF localVars, LocalInv, LocalTypeOK
  <2> QED BY <1>1, <2>1, <2>2 DEF Boot
<1>2. CASE clockTimeUpdate
  BY <1>2, UpdatedInStep
<1>3. CASE saveTimeSettingsToRam
  <2>1. /\ pc = "Save" /\ pc' = "Loop" /\ ram' = [zone |-> zone, dst |-> isDST]
        /\ UNCHANGED <<zone, isDST, param>>
    BY <1>3 DEF saveTimeSettingsToRam, At
  <2> QED BY <2>1 DEF LocalInv, LocalTypeOK, InStep, TimeData
<1>4. CASE remoteParam
  BY <1>4, CommandedInStep
<1>5. CASE adjustGoesOn \/ checkNetworks \/ checkTimeSync
  <2>1. UNCHANGED <<pc, localVars>>
    BY <1>5 DEF adjustGoesOn, checkNetworks, checkTimeSync
  <2> QED BY <2>1 DEF localVars, LocalInv, LocalTypeOK, InStep
<1>6. CASE HourPasses \/ ConnectionChanges \/ SyncArrives \/ ADayPasses
  <2>1. UNCHANGED <<pc, localVars>>
    BY <1>6 DEF HourPasses, ConnectionChanges, SyncArrives, ADayPasses
  <2> QED BY <2>1 DEF localVars, LocalInv, LocalTypeOK, InStep
<1>7. CASE Reset
  BY <1>7 DEF Reset, LocalInv, LocalTypeOK
<1>8. CASE PowerIsLost
  <2>1. pc' = "Off" /\ zone' = 0 /\ isDST' = FALSE /\ param' = param
    BY <1>8 DEF PowerIsLost
  <2>2. ram' = ram \/ ram' = [zone |-> 0, dst |-> FALSE]
    BY <1>8 DEF PowerIsLost
  <2>3. ram' \in TimeData
    BY <2>2, Unpowered DEF LocalInv, LocalTypeOK
  <2> QED BY <2>1, <2>3 DEF LocalInv, LocalTypeOK
<1>9. CASE PowerReturns
  <2>1. pc' = "Stop" /\ UNCHANGED localVars
    BY <1>9 DEF PowerReturns
  <2> QED BY <2>1 DEF localVars, LocalInv, LocalTypeOK
<1>10. CASE UNCHANGED vars
  BY <1>10 DEF vars, localVars, LocalInv, LocalTypeOK, InStep
<1> QED BY <1>1, <1>2, <1>3, <1>4, <1>5, <1>6, <1>7, <1>8, <1>9, <1>10
        DEF Next, Program, World

(* In the loop, with nothing left to write, EEPROM, P2 and the RAM of the  *)
(* RTC agree on the local time, for all zones, hours and numbers of        *)
(* faults.                                                                 *)
THEOREM LocalTimeAlwaysSurvives == Spec => []LocalTimeSurvives
<1>1. LocalInv => LocalTimeSurvives
  BY DEF LocalInv, LocalTimeSurvives, At, InStep
<1> QED BY <1>1, InitInStep, NextInStep, PTL DEF Spec
---------------------------------------------------------------------------
(* Dates. The hours of the century that the registers of the RTC can hold. *)
Century == {hours \in Nat : hours < 24 * 36525}

(* The day of the year on which month m begins, from 0.                    *)
MonthStart(y, m) == daysBefore[m] + IF m > 2 /\ y % 4 = 0 THEN 1 ELSE 0

(* The table of the model is what date2days and the constructor count.     *)
LEMMA MonthsAddUp ==
    /\ daysBefore[0] = 0 /\ daysBefore[1] = 0
    /\ \A m \in 1..11 : daysBefore[m + 1] = daysBefore[m] + daysInMonth[m]
<1>1. /\ daysBefore[0] = 0 /\ daysBefore[1] = 0 /\ daysBefore[2] = 31 /\ daysBefore[3] = 59
      /\ daysBefore[4] = 90 /\ daysBefore[5] = 120 /\ daysBefore[6] = 151
      /\ daysBefore[7] = 181 /\ daysBefore[8] = 212 /\ daysBefore[9] = 243
      /\ daysBefore[10] = 273 /\ daysBefore[11] = 304 /\ daysBefore[12] = 334
  BY SMT DEF daysBefore
<1>2. \A m \in 1..11 : m \in {1, 2, 3, 4, 5, 6, 7, 8, 9, 10, 11}
  BY SMT
<1> QED BY <1>1, <1>2, SMT DEF daysInMonth

LEMMA DaysBefore ==
    /\ daysBefore[0] = 0 /\ daysBefore[1] = 0 /\ daysBefore[2] = 31 /\ daysBefore[3] = 59
    /\ daysBefore[4] = 90 /\ daysBefore[5] = 120 /\ daysBefore[6] = 151
    /\ daysBefore[7] = 181 /\ daysBefore[8] = 212 /\ daysBefore[9] = 243
    /\ daysBefore[10] = 273 /\ daysBefore[11] = 304 /\ daysBefore[12] = 334
BY SMT DEF daysBefore

(* Every day is in exactly one year.                                       *)
LEMMA FirstDays ==
    ASSUME NEW y \in Nat
    PROVE  /\ FirstDay(y) \in Nat
           /\ FirstDay(y + 1) = FirstDay(y) + IF y % 4 = 0 THEN 366 ELSE 365
           /\ 365 * y <= FirstDay(y) /\ FirstDay(y) <= 366 * y
<1>1. PICK q \in Nat, j \in 0..3 : y = 4 * q + j
  <2>1. y \div 4 \in Nat /\ y % 4 \in 0..3 /\ y = 4 * (y \div 4) + (y % 4)
    BY SMT
  <2> QED BY <2>1
<1>2. y % 4 = j
  BY <1>1, ByFour
<1>3. (y + 3) \div 4 = q + (IF j = 0 THEN 0 ELSE 1) /\ (y + 1 + 3) \div 4 = q + 1
  BY <1>1, SMT
<1> QED BY <1>1, <1>2, <1>3, SMT DEF FirstDay

LEMMA YearFound ==
    ASSUME NEW days \in Nat
    PROVE  /\ YearOf(days) \in Nat
           /\ FirstDay(YearOf(days)) <= days /\ days < FirstDay(YearOf(days) + 1)
<1>1. PICK q \in Nat, r \in 0..1460 : days = 1461 * q + r
  <2>1. /\ days \div 1461 \in Nat /\ days % 1461 \in 0..1460
        /\ days = 1461 * (days \div 1461) + (days % 1461)
    BY SMT
  <2> QED BY <2>1
<1>2. PICK j \in 0..3 : /\ 365 * j + ((j + 3) \div 4) <= r
                        /\ r < 365 * (j + 1) + ((j + 4) \div 4)
  <2>1. /\ (0 + 3) \div 4 = 0 /\ (1 + 3) \div 4 = 1 /\ (2 + 3) \div 4 = 1
        /\ (3 + 3) \div 4 = 1 /\ (0 + 4) \div 4 = 1 /\ (1 + 4) \div 4 = 1
        /\ (2 + 4) \div 4 = 1 /\ (3 + 4) \div 4 = 1
    BY SMT
  <2>2. CASE r < 366
    <3> WITNESS 0 \in 0..3
    <3> QED BY <2>1, <2>2, SMT
  <2>3. CASE 366 <= r /\ r < 731
    <3> WITNESS 1 \in 0..3
    <3> QED BY <2>1, <2>3, SMT
  <2>4. CASE 731 <= r /\ r < 1096
    <3> WITNESS 2 \in 0..3
    <3> QED BY <2>1, <2>4, SMT
  <2>5. CASE 1096 <= r
    <3> WITNESS 3 \in 0..3
    <3> QED BY <2>1, <2>5, SMT
  <2> QED BY <2>2, <2>3, <2>4, <2>5, SMT
<1> DEFINE c == 4 * q + j
<1>3. /\ c \in Nat /\ FirstDay(c) = 1461 * q + (365 * j + ((j + 3) \div 4))
      /\ FirstDay(c + 1) = 1461 * q + (365 * (j + 1) + ((j + 4) \div 4))
  BY SMT DEF FirstDay
<1>4. FirstDay(c) <= days /\ days < FirstDay(c + 1)
  BY <1>1, <1>2, <1>3, SMT
<1> HIDE DEF c
<1>5. c \in (days \div 366)..(days \div 365)
  <2>1. /\ FirstDay(c + 1) <= 366 * (c + 1) /\ 365 * c <= FirstDay(c)
        /\ FirstDay(c) \in Nat /\ FirstDay(c + 1) \in Nat
    BY <1>3, FirstDays
  <2> QED BY <1>3, <1>4, <2>1, SMT
<1>6. \A k \in (days \div 366)..(days \div 365) : k \in Nat
  BY SMT
<1> QED BY <1>4, <1>5, <1>6, SMT DEF YearOf

LEMMA YearIs ==
    ASSUME NEW y \in Nat, NEW z \in Nat, y < z
    PROVE  FirstDay(y + 1) <= FirstDay(z)
BY SMT DEF FirstDay

LEMMA Below ==
    ASSUME NEW k, k \in Nat, k < 100
    PROVE  k \in 0..99
BY SMT

LEMMA YearBounds ==
    ASSUME NEW days \in Nat, days < 36525
    PROVE  YearOf(days) \in 0..99
<1>1. /\ YearOf(days) \in Nat /\ FirstDay(YearOf(days)) <= days
      /\ FirstDay(YearOf(days)) \in Nat
  BY YearFound, FirstDays
<1>2. FirstDay(100) = 36525
  BY SMT DEF FirstDay
<1>4. ASSUME YearOf(days) >= 100 PROVE FALSE
  <2>1. FirstDay(YearOf(days)) >= 36525
    BY <1>1, <1>4, SMT DEF FirstDay
  <2> QED BY <1>1, <2>1, SMT
<1>5. YearOf(days) < 100
  BY <1>1, <1>4, SMT
<1> QED BY <1>1, <1>5, Below

(* The months of a year begin one after the other, and the last one ends   *)
(* with the year.                                                          *)
LEMMA MonthStarts ==
    ASSUME NEW y \in Nat
    PROVE  \E leap \in {0, 1} :
             /\ leap = (IF y % 4 = 0 THEN 1 ELSE 0)
             /\ FirstDay(y + 1) = FirstDay(y) + 365 + leap
             /\ MonthStart(y, 1) = 0 /\ MonthStart(y, 2) = 31
             /\ MonthStart(y, 3) = 59 + leap /\ MonthStart(y, 4) = 90 + leap
             /\ MonthStart(y, 5) = 120 + leap /\ MonthStart(y, 6) = 151 + leap
             /\ MonthStart(y, 7) = 181 + leap /\ MonthStart(y, 8) = 212 + leap
             /\ MonthStart(y, 9) = 243 + leap /\ MonthStart(y, 10) = 273 + leap
             /\ MonthStart(y, 11) = 304 + leap /\ MonthStart(y, 12) = 334 + leap
<1>0. FirstDay(y + 1) = FirstDay(y) + (IF y % 4 = 0 THEN 366 ELSE 365) /\ FirstDay(y) \in Nat
  BY FirstDays
<1>1. CASE y % 4 = 0
  <2> WITNESS 1 \in {0, 1}
  <2> QED BY <1>0, <1>1, DaysBefore, SMT DEF MonthStart
<1>2. CASE y % 4 /= 0
  <2> WITNESS 0 \in {0, 1}
  <2> QED BY <1>0, <1>2, DaysBefore, SMT DEF MonthStart
<1> QED BY <1>1, <1>2

MonthOf(y, ofYear) ==
    CHOOSE m \in 1..12 :
        MonthStart(y, m) <= ofYear /\ (m = 12 \/ ofYear < MonthStart(y, m + 1))

LEMMA MonthFound ==
    ASSUME NEW y \in Nat, NEW ofYear \in Nat, ofYear < FirstDay(y + 1) - FirstDay(y)
    PROVE  /\ MonthOf(y, ofYear) \in 1..12
           /\ MonthStart(y, MonthOf(y, ofYear)) <= ofYear
           /\ ofYear - MonthStart(y, MonthOf(y, ofYear)) <= 30
           /\ \/ MonthOf(y, ofYear) = 12
              \/ ofYear < MonthStart(y, MonthOf(y, ofYear) + 1)
<1> DEFINE At0(k) == MonthStart(y, k) <= ofYear /\ (k = 12 \/ ofYear < MonthStart(y, k + 1))
<1>1. PICK leap \in {0, 1} :
        /\ FirstDay(y + 1) = FirstDay(y) + 365 + leap
        /\ MonthStart(y, 1) = 0 /\ MonthStart(y, 2) = 31
        /\ MonthStart(y, 3) = 59 + leap /\ MonthStart(y, 4) = 90 + leap
        /\ MonthStart(y, 5) = 120 + leap /\ MonthStart(y, 6) = 151 + leap
        /\ MonthStart(y, 7) = 181 + leap /\ MonthStart(y, 8) = 212 + leap
        /\ MonthStart(y, 9) = 243 + leap /\ MonthStart(y, 10) = 273 + leap
        /\ MonthStart(y, 11) = 304 + leap /\ MonthStart(y, 12) = 334 + leap
  BY MonthStarts
<1>2. FirstDay(y) \in Nat /\ ofYear < 365 + leap
  BY <1>1, FirstDays, SMT
<1>3. \E k \in 1..12 : At0(k)
  <2>1. At0(1) \/ At0(2) \/ At0(3) \/ At0(4) \/ At0(5) \/ At0(6) \/ At0(7) \/ At0(8)
        \/ At0(9) \/ At0(10) \/ At0(11) \/ At0(12)
    BY <1>1, <1>2, SMT
  <2>2. {1, 2, 3, 4, 5, 6, 7, 8, 9, 10, 11, 12} \subseteq 1..12
    BY SMT
  <2> HIDE DEF At0
  <2> QED BY <2>1, <2>2, Zenon
<1>4. MonthOf(y, ofYear) \in 1..12 /\ At0(MonthOf(y, ofYear))
  BY <1>3, SMT DEF MonthOf
<1>5. \A k \in 1..12 : At0(k) => ofYear - MonthStart(y, k) <= 30
  <2>1. \A k \in 1..12 : k \in {1, 2, 3, 4, 5, 6, 7, 8, 9, 10, 11, 12}
    BY SMT
  <2> QED BY <1>1, <1>2, <2>1, SMT
<1> QED BY <1>4, <1>5, Zenon

(* The constructor gives every hour its date: the day is the one of the    *)
(* year, month and day of month it finds.                                  *)
LEMMA DateOfHour ==
    ASSUME NEW hours \in Nat
    PROVE  /\ DateTime(hours) = [y |-> DateTime(hours).y, m |-> DateTime(hours).m,
                                 d |-> DateTime(hours).d, h |-> hours % 24]
           /\ DateTime(hours).y \in Nat /\ DateTime(hours).m \in 1..12
           /\ DateTime(hours).d \in 1..31 /\ DateTime(hours).h \in 0..23
           /\ DateTime(hours).h = hours % 24
           /\ DateTime(hours).y = YearOf(hours \div 24)
           /\ hours \div 24 = FirstDay(DateTime(hours).y)
                              + MonthStart(DateTime(hours).y, DateTime(hours).m)
                              + DateTime(hours).d - 1
           /\ \/ DateTime(hours).m = 12
              \/ hours \div 24 < FirstDay(DateTime(hours).y)
                                 + MonthStart(DateTime(hours).y, DateTime(hours).m + 1)
<1> DEFINE days == hours \div 24
           y == YearOf(days)
           ofYear == days - FirstDay(y)
           m == MonthOf(y, ofYear)
<1>1. days \in Nat /\ hours % 24 \in 0..23
  BY SMT
<1>2. DateTime(hours) = [y |-> y, m |-> m, d |-> ofYear - MonthStart(y, m) + 1,
                         h |-> hours % 24]
  BY Zenon DEF DateTime, MonthOf, MonthStart
<1> HIDE DEF days
<1>3. y \in Nat /\ FirstDay(y) <= days /\ days < FirstDay(y + 1)
  BY <1>1, YearFound
<1> HIDE DEF y
<1>4. /\ FirstDay(y) \in Nat /\ FirstDay(y + 1) \in Nat /\ ofYear \in Nat
      /\ ofYear < FirstDay(y + 1) - FirstDay(y) /\ days = FirstDay(y) + ofYear
  <2>1. FirstDay(y) \in Nat /\ FirstDay(y + 1) \in Nat
    BY <1>3, FirstDays
  <2> QED BY <1>1, <1>3, <2>1, SMT
<1> HIDE DEF ofYear
<1>5. /\ m \in 1..12 /\ MonthStart(y, m) <= ofYear /\ ofYear - MonthStart(y, m) <= 30
      /\ m = 12 \/ ofYear < MonthStart(y, m + 1)
  BY <1>3, <1>4, MonthFound
<1> HIDE DEF m
<1>6. \A k \in 1..12 : MonthStart(y, k) \in Nat
  <2>1. \A k \in 1..12 : k \in {1, 2, 3, 4, 5, 6, 7, 8, 9, 10, 11, 12}
    BY SMT
  <2> QED BY <1>3, <2>1, DaysBefore, SMT DEF MonthStart
<1>7. /\ MonthStart(y, m) \in Nat /\ ofYear - MonthStart(y, m) + 1 \in 1..31
      /\ days = FirstDay(y) + MonthStart(y, m) + (ofYear - MonthStart(y, m) + 1) - 1
  BY <1>4, <1>5, <1>6, SMT
<1>8. m = 12 \/ days < FirstDay(y) + MonthStart(y, m + 1)
  <2>1. m /= 12 => m + 1 \in 1..12
    BY <1>5, SMT
  <2> QED BY <1>4, <1>5, <1>6, <2>1, SMT
<1>9. /\ DateTime(hours).y = y /\ DateTime(hours).m = m
      /\ DateTime(hours).d = ofYear - MonthStart(y, m) + 1 /\ DateTime(hours).h = hours % 24
  BY <1>2, SMT
<1>10. DateTime(hours) = [y |-> DateTime(hours).y, m |-> DateTime(hours).m,
                          d |-> DateTime(hours).d, h |-> hours % 24]
  BY <1>2, <1>9, Zenon
<1>11. y = YearOf(hours \div 24) /\ days = hours \div 24
  BY Zenon DEF y, days
<1> QED BY <1>1, <1>3, <1>5, <1>7, <1>8, <1>9, <1>10, <1>11, Zenon

(* The hours of a date of the century are those of its day, and its own.   *)
LEMMA HourOfDate ==
    ASSUME NEW date, NEW y \in 0..99, NEW m \in 1..12, NEW d \in 1..31, NEW h \in 0..23,
           date.y = y, date.m = m, date.d = d, date.h = h
    PROVE  /\ MonthStart(y, m) \in Nat /\ FirstDay(y) \in Nat
           /\ unixtime(date) = 24 * (FirstDay(y) + MonthStart(y, m) + d - 1) + h
<1> DEFINE days == FirstDay(y) + MonthStart(y, m) + d - 1
<1>0. y \in Nat /\ y < 100 /\ m \in Nat /\ d \in Nat /\ d >= 1 /\ d <= 31
      /\ h \in Nat /\ h <= 23
  BY SMT
<1>m. m \in {1, 2, 3, 4, 5, 6, 7, 8, 9, 10, 11, 12}
  BY SMT
<1>1. MonthStart(y, m) \in Nat /\ MonthStart(y, m) <= 335
  BY <1>m, DaysBefore, SMT DEF MonthStart
<1>2. FirstDay(y) \in Nat /\ FirstDay(y) <= 36200
  BY <1>0, SMT DEF FirstDay
<1>3. ~(y % 100 = 0 /\ y % 400 /= 0)
  BY <1>0, SMT
<1>4. date2days(y, m, d) = days
  <2>1. daysBefore[m] \in Nat
    BY <1>m, DaysBefore, SMT
  <2>2. (y + 3) \div 4 \in Nat
    BY <1>0, SMT
  <2>3. CASE m > 2 /\ y % 4 = 0
    BY <1>0, <1>3, <2>1, <2>2, <2>3, SMT DEF date2days, MonthStart, FirstDay
  <2>4. CASE ~(m > 2 /\ y % 4 = 0)
    BY <1>0, <1>3, <2>1, <2>2, <2>4, SMT DEF date2days, MonthStart, FirstDay
  <2> QED BY <2>3, <2>4
<1>5. days \in Nat /\ days < 36600
  BY <1>0, <1>1, <1>2, SMT
<1> HIDE DEF days
<1>6. (days + 65536) % 65536 = days /\ (24 * days + h) % 1193046 = 24 * days + h
  BY <1>0, <1>5, SMT
<1>7. unixtime(date) = 24 * days + h
  BY <1>4, <1>6, SMT DEF unixtime
<1> QED BY <1>1, <1>2, <1>7, SMT DEF days

LEMMA OfCentury ==
    ASSUME NEW hours \in Century
    PROVE  /\ hours \in Nat /\ hours < 876600
           /\ hours \div 24 \in Nat /\ hours \div 24 < 36525
           /\ hours % 24 \in 0..23
           /\ hours = 24 * (hours \div 24) + (hours % 24)
<1>1. hours \in Nat /\ hours < 876600
  BY SMT DEF Century
<1> QED BY <1>1, SMT

(* The constructor DateTime and unixtime are inverse for every hour of the *)
(* century of the RTC: leap days, new years and the 16 bits of its days    *)
(* lose nothing.                                                           *)
THEOREM DatesKeepHours ==
    ASSUME NEW hours \in Century
    PROVE  unixtime(DateTime(hours)) = hours
<1>1. /\ hours \in Nat /\ hours \div 24 \in Nat /\ hours \div 24 < 36525
      /\ hours % 24 \in 0..23 /\ hours = 24 * (hours \div 24) + (hours % 24)
  BY OfCentury, SMT
<1> DEFINE date == DateTime(hours)
           y == date.y
           m == date.m
           d == date.d
           h == date.h
<1>2. y = YearOf(hours \div 24) /\ YearOf(hours \div 24) \in 0..99
  BY <1>1, DateOfHour, YearBounds, SMT
<1>3. /\ m \in 1..12 /\ d \in 1..31 /\ h \in 0..23 /\ h = hours % 24
      /\ hours \div 24 = FirstDay(y) + MonthStart(y, m) + d - 1
  BY <1>1, DateOfHour, SMT
<1>4. unixtime(date) = 24 * (FirstDay(y) + MonthStart(y, m) + d - 1) + h
  BY <1>2, <1>3, HourOfDate, Zenon
<1> QED BY <1>1, <1>3, <1>4, SMT

---------------------------------------------------------------------------
(* The RTC: what its registers read as, and how they go on.                *)
SameDate(a, b) == a.y = b.y /\ a.m = b.m /\ a.d = b.d /\ a.h = b.h

LEMMA ReadAlike ==
    ASSUME NEW a, NEW b, SameDate(a, b)
    PROVE  unixtime(a) = unixtime(b)
BY SMT DEF SameDate, unixtime

RegisterValues == [y : Nat, m : 0..12, d : 0..31, h : 0..23, st : BOOLEAN, vbaten : BOOLEAN]

LEMMA ReadsANumber ==
    ASSUME NEW date, date.y \in Nat, date.m \in 0..12, date.d \in Nat, date.h \in Nat
    PROVE  /\ unixtime(date) \in Nat
           /\ \E days \in Nat : /\ days = (date2days(date.y, date.m, date.d) + 65536) % 65536
                                /\ unixtime(date) = (24 * days + date.h) % 1193046
<1> DEFINE count == date2days(date.y, date.m, date.d)
           days == (count + 65536) % 65536
<1>1. daysBefore[date.m] \in Nat
  <2>1. date.m \in {0, 1, 2, 3, 4, 5, 6, 7, 8, 9, 10, 11, 12}
    BY SMT
  <2> QED BY <2>1, DaysBefore, SMT
<1>2. count + 65536 \in Nat
  <2>1. (date.y + 3) \div 4 \in Nat
    BY SMT
  <2> QED BY <1>1, <2>1, SMT DEF date2days
<1> HIDE DEF count
<1>3. days \in Nat
  BY <1>2, SMT
<1>4. unixtime(date) = (24 * days + date.h) % 1193046
  BY SMT DEF unixtime, count
<1>5. days = (date2days(date.y, date.m, date.d) + 65536) % 65536
  BY SMT DEF count
<1> HIDE DEF days
<1>6. (24 * days + date.h) % 1193046 \in Nat
  BY <1>3, SMT
<1> QED BY <1>3, <1>4, <1>5, <1>6, SMT

(* The hours of a day have its date.                                       *)
LEMMA DateOfDay ==
    ASSUME NEW a \in Nat, NEW b \in Nat, a \div 24 = b \div 24
    PROVE  /\ DateTime(a).y = DateTime(b).y /\ DateTime(a).m = DateTime(b).m
           /\ DateTime(a).d = DateTime(b).d
<1>1. \A hours \in {a, b} :
        DateTime(hours) =
          [y |-> YearOf(hours \div 24),
           m |-> MonthOf(YearOf(hours \div 24),
                         (hours \div 24) - FirstDay(YearOf(hours \div 24))),
           d |-> (hours \div 24) - FirstDay(YearOf(hours \div 24))
                 - MonthStart(YearOf(hours \div 24),
                              MonthOf(YearOf(hours \div 24),
                                      (hours \div 24) - FirstDay(YearOf(hours \div 24)))) + 1,
           h |-> hours % 24]
  BY Zenon DEF DateTime, MonthOf, MonthStart
<1> QED BY <1>1, SMT

(* A running RTC that has the time has it an hour later, over midnight,    *)
(* the end of a month, leap days and new years.                            *)
LEMMA TicksToNextHour ==
    ASSUME NEW registers \in RegisterValues, registers.st,
           NEW hours \in Century, hours + 1 \in Century,
           SameDate(registers, DateTime(hours))
    PROVE  SameDate(Tick(registers), DateTime(hours + 1))
<1>1. /\ hours \in Nat /\ hours + 1 \in Nat /\ hours % 24 \in 0..23
      /\ (hours % 24 < 23 => (hours + 1) \div 24 = hours \div 24
                             /\ (hours + 1) % 24 = (hours % 24) + 1)
  BY OfCentury, SMT
<1>2. /\ registers.h = hours % 24 /\ registers.m \in 1..12 /\ registers.d \in 1..31
      /\ registers.h \in 0..23
  BY <1>1, DateOfHour, SMT DEF SameDate
<1>3. CASE registers.h < 23
  <2>1. /\ DateTime(hours + 1).y = DateTime(hours).y
        /\ DateTime(hours + 1).m = DateTime(hours).m
        /\ DateTime(hours + 1).d = DateTime(hours).d
        /\ DateTime(hours + 1).h = (hours % 24) + 1
    BY <1>1, <1>2, <1>3, DateOfDay, DateOfHour, SMT
  <2>2. Tick(registers) = [registers EXCEPT !.h = @ + 1]
    BY <1>3, Zenon DEF Tick
  <2> QED BY <1>2, <2>1, <2>2, SMT DEF SameDate, RegisterValues
<1>4. CASE ~(registers.h < 23)
  <2>1. unixtime(registers) = hours
    BY ReadAlike, DatesKeepHours, SMT
  <2>2. Tick(registers) = Registers(DateTime(hours + 1), TRUE, registers.vbaten)
    <3>1. ~(registers.m = 0 \/ registers.d = 0)
      BY <1>2, SMT
    <3> QED BY <1>4, <2>1, <3>1, Zenon DEF Tick
  <2> QED BY <2>2, SMT DEF SameDate, Registers
<1> QED BY <1>3, <1>4

(* A running RTC with a date, whatever it is, reads an hour more after an  *)
(* hour.                                                                   *)
LEMMA ReadsNextHour ==
    ASSUME NEW registers \in RegisterValues, registers.st, registers.m /= 0, registers.d /= 0,
           unixtime(registers) + 1 \in Century
    PROVE  unixtime(Tick(registers)) = unixtime(registers) + 1
<1> DEFINE hours == unixtime(registers)
<1>1. /\ registers.y \in Nat /\ registers.m \in 0..12 /\ registers.d \in Nat
      /\ registers.h \in Nat
  BY SMT DEF RegisterValues
<1>2. hours \in Nat /\ hours + 1 < 876600
  BY <1>1, ReadsANumber, SMT DEF Century
<1>3. CASE registers.h < 23
  <2>1. Tick(registers) = [registers EXCEPT !.h = @ + 1]
    BY <1>3, Zenon DEF Tick
  <2> DEFINE next == Tick(registers)
  <2>2. /\ next.y = registers.y /\ next.m = registers.m /\ next.d = registers.d
        /\ next.h = registers.h + 1 /\ next.h \in Nat
    BY <1>1, <2>1, SMT DEF RegisterValues
  <2> HIDE DEF next
  <2>3. PICK days \in Nat :
          /\ days = (date2days(registers.y, registers.m, registers.d) + 65536) % 65536
          /\ hours = (24 * days + registers.h) % 1193046
    BY <1>1, ReadsANumber, SMT
  <2>4. unixtime(next) = (24 * days + (registers.h + 1)) % 1193046
    BY <1>1, <2>2, <2>3, ReadsANumber, SMT
  <2> HIDE DEF hours
  <2> DEFINE sum == 24 * days + registers.h
  <2>5. sum \in Nat /\ sum + 1 = 24 * days + (registers.h + 1)
    BY <1>1, SMT
  <2> HIDE DEF sum
  <2>6. hours = sum % 1193046
    BY <2>3, SMT DEF sum
  <2>7. (sum + 1) % 1193046 = hours + 1
    BY <1>2, <2>5, <2>6, SMT
  <2> QED BY <2>4, <2>5, <2>7, SMT DEF next, hours
<1>4. CASE ~(registers.h < 23)
  <2>2. Tick(registers) = Registers(DateTime(hours + 1), TRUE, registers.vbaten)
    BY <1>4, Zenon DEF Tick
  <2>3. SameDate(Tick(registers), DateTime(hours + 1))
    BY <2>2, SMT DEF SameDate, Registers
  <2> QED BY <2>3, ReadAlike, DatesKeepHours, SMT
<1> QED BY <1>3, <1>4

---------------------------------------------------------------------------
(* The inductive invariant of the clocks.                                  *)
Dates == [y : Nat, m : 1..12, d : 1..31, h : 0..23]
Left == {<<"h", "m", "d", "y">>, <<"m", "d", "y">>, <<"d", "y">>, <<"y">>, <<>>}
TimeTypeOK ==
    /\ now \in Hours /\ time \in Nat /\ pc \in Stages \cup {"Off", "Save", "Loop"}
    /\ rtc \in RegisterValues
    /\ setting = Nothing \/ setting \in [left : Left, to : Dates]
    /\ connected \in BOOLEAN /\ updated \in BOOLEAN

(* What the stages are for: the RTC runs after setup has started it, but   *)
(* while it is being set.                                                  *)
Staged ==
    /\ pc = "Off" => setting = Nothing /\ time = 0
    /\ connected \/ updated => pc \in {"Loop", "Save"}
    /\ setting = Nothing /\ pc \notin {"Off", "Stop", "Start"} => rtc.st

(* adjust: the registers that are not left have been written. A reset      *)
(* between two of them leaves a date that nobody has set, but a day only   *)
(* after a month and a year only after a day.                              *)
Written ==
    /\ setting /= Nothing =>
         /\ setting.left = <<"h", "m", "d", "y">> \/ rtc.h = setting.to.h
         /\ setting.left \in {<<"d", "y">>, <<"y">>, <<>>} => rtc.m = setting.to.m
         /\ setting.left \in {<<"y">>, <<>>} => rtc.d = setting.to.d
         /\ setting.left = <<>> => rtc.y = setting.to.y
    /\ rtc.m = 0 => rtc.d = 0
    /\ rtc.d = 0 => rtc.y = 0

(* A P2 that does not know the time runs in step with an RTC that has a    *)
(* date and does not know the time either, or sets it to its own.          *)
LockStep ==
    pc \in {"Startup", "Save", "Loop"} /\ ~isValid =>
        /\ setting = Nothing => rtc.d = 0 \/ unixtime(rtc) = time
        /\ setting /= Nothing => setting.to = DateTime(time)

(* The registers one by one.                                             *)
Registers6(y, m, d, h, st, vbaten) ==
    [y |-> y, m |-> m, d |-> d, h |-> h, st |-> st, vbaten |-> vbaten]

LEMMA RegistersAre ==
    ASSUME NEW r \in RegisterValues
    PROVE  /\ r = Registers6(r.y, r.m, r.d, r.h, r.st, r.vbaten)
           /\ r.y \in Nat /\ r.m \in 0..12 /\ r.d \in 0..31 /\ r.h \in 0..23
           /\ r.st \in BOOLEAN /\ r.vbaten \in BOOLEAN
BY DEF RegisterValues, Registers6

LEMMA OneRegister ==
    ASSUME NEW r \in RegisterValues, NEW v
    PROVE  /\ [r EXCEPT !.st = v] = Registers6(r.y, r.m, r.d, r.h, v, r.vbaten)
           /\ [r EXCEPT !.vbaten = v] = Registers6(r.y, r.m, r.d, r.h, r.st, v)
           /\ [r EXCEPT !.y = v] = Registers6(v, r.m, r.d, r.h, r.st, r.vbaten)
           /\ [r EXCEPT !.m = v] = Registers6(r.y, v, r.d, r.h, r.st, r.vbaten)
           /\ [r EXCEPT !.d = v] = Registers6(r.y, r.m, v, r.h, r.st, r.vbaten)
           /\ [r EXCEPT !.h = v] = Registers6(r.y, r.m, r.d, v, r.st, r.vbaten)
BY DEF RegisterValues, Registers6

LEMMA HoursHaveDates ==
    ASSUME NEW hours \in Nat
    PROVE  DateTime(hours) \in Dates
BY DateOfHour, SMT DEF Dates

LEMMA DatesAreRead ==
    ASSUME TimeTypeOK
    PROVE  unixtime(rtc) \in Nat
<1>1. rtc.y \in Nat /\ rtc.m \in 0..12 /\ rtc.d \in Nat /\ rtc.h \in Nat
  BY SMT DEF TimeTypeOK, RegisterValues
<1> QED BY <1>1, ReadsANumber, SMT

LEMMA AtWork ==
    ASSUME NEW left, NEW date
    PROVE  [left |-> left, to |-> date] /= Nothing
BY SMT DEF Nothing

LEMMA Tails ==
    /\ Tail(<<"h", "m", "d", "y">>) = <<"m", "d", "y">>
    /\ Tail(<<"m", "d", "y">>) = <<"d", "y">>
    /\ Tail(<<"d", "y">>) = <<"y">> /\ Tail(<<"y">>) = <<>>
BY SMT

LEMMA Firsts ==
    /\ <<"h", "m", "d", "y">>[1] = "h" /\ <<"m", "d", "y">>[1] = "m"
    /\ <<"d", "y">>[1] = "d" /\ <<"y">>[1] = "y"
BY SMT

LEMMA Different ==
    /\ <<"h", "m", "d", "y">> /= <<"m", "d", "y">> /\ <<"h", "m", "d", "y">> /= <<"d", "y">>
    /\ <<"h", "m", "d", "y">> /= <<"y">> /\ <<"h", "m", "d", "y">> /= <<>>
    /\ <<"m", "d", "y">> /= <<"d", "y">> /\ <<"m", "d", "y">> /= <<"y">>
    /\ <<"m", "d", "y">> /= <<>> /\ <<"d", "y">> /= <<"y">> /\ <<"d", "y">> /= <<>>
    /\ <<"y">> /= <<>>
BY SMT

LEMMA Switched ==
    ASSUME NEW registers \in RegisterValues, NEW st \in BOOLEAN
    PROVE  /\ [registers EXCEPT !.st = st] \in RegisterValues
           /\ [registers EXCEPT !.st = st].st = st
           /\ SameDate([registers EXCEPT !.st = st], registers)
           /\ [registers EXCEPT !.vbaten = st] \in RegisterValues
           /\ [registers EXCEPT !.vbaten = st].st = registers.st
           /\ SameDate([registers EXCEPT !.vbaten = st], registers)
<1>1. /\ registers.y \in Nat /\ registers.m \in 0..12 /\ registers.d \in 0..31
      /\ registers.h \in 0..23 /\ registers.st \in BOOLEAN /\ registers.vbaten \in BOOLEAN
  BY RegistersAre
<1>2. PICK one : one = Registers6(registers.y, registers.m, registers.d, registers.h,
                                  st, registers.vbaten)
  OBVIOUS
<1>3. PICK two : two = Registers6(registers.y, registers.m, registers.d, registers.h,
                                  registers.st, st)
  OBVIOUS
<1>4. /\ one \in RegisterValues /\ one.st = st /\ SameDate(one, registers)
      /\ two \in RegisterValues /\ two.st = registers.st /\ SameDate(two, registers)
  <2>1. /\ one \in RegisterValues /\ one.y = registers.y /\ one.m = registers.m
        /\ one.d = registers.d /\ one.h = registers.h /\ one.st = st
    BY <1>1, <1>2 DEF RegisterValues, Registers6
  <2>2. /\ two \in RegisterValues /\ two.y = registers.y /\ two.m = registers.m
        /\ two.d = registers.d /\ two.h = registers.h /\ two.st = registers.st
    BY <1>1, <1>3 DEF RegisterValues, Registers6
  <2> QED BY <2>1, <2>2 DEF SameDate
<1>5. [registers EXCEPT !.st = st] = one /\ [registers EXCEPT !.vbaten = st] = two
  BY <1>2, <1>3, OneRegister, Zenon
<1> QED BY <1>4, <1>5, Zenon

LEMMA SettingBegins ==
    ASSUME TimeTypeOK, Written, NEW hours \in Nat, adjust(hours)
    PROVE  /\ setting' \in [left : Left, to : Dates] /\ setting' /= Nothing
           /\ setting'.to = DateTime(hours)
           /\ rtc' \in RegisterValues /\ SameDate(rtc', rtc) /\ Written'
<1>1. /\ setting' = [left |-> <<"h", "m", "d", "y">>, to |-> DateTime(hours)]
      /\ rtc' = [rtc EXCEPT !.st = FALSE]
  BY DEF adjust
<1>2. /\ setting' \in [left : Left, to : Dates] /\ setting' /= Nothing
      /\ setting'.to = DateTime(hours) /\ setting'.left = <<"h", "m", "d", "y">>
  BY <1>1, AtWork, HoursHaveDates, SMT DEF Left
<1>3. rtc' \in RegisterValues /\ SameDate(rtc', rtc)
  BY <1>1, Switched DEF TimeTypeOK
<1>4. Written'
  BY <1>2, <1>3, Different, SMT DEF Written, SameDate
<1> QED BY <1>2, <1>3, <1>4

(* A step of adjust writes one register, or starts the RTC with the date   *)
(* that has been set.                                                      *)
LEMMA SettingGoesOn ==
    ASSUME TimeTypeOK, Written, adjustGoesOn
    PROVE  /\ setting /= Nothing /\ setting \in [left : Left, to : Dates]
           /\ rtc' \in RegisterValues /\ Written'
           /\ \/ /\ setting' = Nothing
                 /\ rtc'.st /\ SameDate(rtc', setting.to) /\ SameDate(rtc', rtc)
              \/ /\ setting' \in [left : Left, to : Dates] /\ setting' /= Nothing
                 /\ setting'.to = setting.to
                 /\ SameDate(rtc, setting.to) => SameDate(rtc', setting.to)
<1>1. setting /= Nothing /\ setting \in [left : Left, to : Dates]
  BY DEF adjustGoesOn, TimeTypeOK
<1>2. PICK to \in Dates, left \in Left : setting = [left |-> left, to |-> to]
  BY <1>1, SMT
<1>3. setting.left = left /\ setting.to = to
  BY <1>2
<1>4. /\ rtc.y \in Nat /\ rtc.m \in 0..12 /\ rtc.d \in 0..31 /\ rtc.h \in 0..23
      /\ rtc.st \in BOOLEAN /\ rtc.vbaten \in BOOLEAN
      /\ rtc = [y |-> rtc.y, m |-> rtc.m, d |-> rtc.d, h |-> rtc.h, st |-> rtc.st,
                vbaten |-> rtc.vbaten]
  BY SMT DEF TimeTypeOK, RegisterValues
<1>5. to.y \in Nat /\ to.m \in 1..12 /\ to.d \in 1..31 /\ to.h \in 0..23
  BY <1>2, SMT DEF Dates
<1>6. CASE left = <<>>
  <2>1. setting' = Nothing /\ rtc' = [rtc EXCEPT !.st = TRUE]
    BY <1>3, <1>6 DEF adjustGoesOn, deviceStart
  <2>2. SameDate(rtc, to)
    BY <1>1, <1>3, <1>6, Different, SMT DEF Written, SameDate
  <2>3. rtc' \in RegisterValues /\ rtc'.st /\ SameDate(rtc', rtc)
    BY <2>1, Switched DEF TimeTypeOK
  <2>4. SameDate(rtc', setting.to)
    BY <1>3, <2>2, <2>3, SMT DEF SameDate
  <2>5. Written'
    BY <2>1, <2>3, SMT DEF Written, SameDate
  <2> QED BY <1>1, <2>1, <2>3, <2>4, <2>5
<1>7. CASE left /= <<>>
  <2>0. /\ rtc' = [rtc EXCEPT ![left[1]] = to[left[1]]]
        /\ setting' = [setting EXCEPT !.left = Tail(@)]
    BY <1>3, <1>7 DEF adjustGoesOn
  <2>1. setting' = [left |-> Tail(left), to |-> to]
    BY <1>2, <2>0
  <2>2. /\ left \in {<<"h", "m", "d", "y">>, <<"m", "d", "y">>, <<"d", "y">>, <<"y">>}
        /\ Tail(left) \in Left
    <3>1. left \in {<<"h", "m", "d", "y">>, <<"m", "d", "y">>, <<"d", "y">>, <<"y">>}
      BY <1>2, <1>7, Zenon DEF Left
    <3>2. Tail(left) \in {<<"m", "d", "y">>, <<"d", "y">>, <<"y">>, <<>>}
      BY <3>1, Tails, Zenon
    <3> QED BY <3>1, <3>2, Zenon DEF Left
  <2>3. setting' \in [left : Left, to : Dates] /\ setting' /= Nothing /\ setting'.to = to
        /\ setting'.left = Tail(left)
    BY <2>1, <2>2, AtWork, SMT
  <2>4. rtc' \in RegisterValues /\ (SameDate(rtc, to) => SameDate(rtc', to)) /\ Written'
    <3>1. CASE left = <<"h", "m", "d", "y">>
      <4>1. rtc' = [rtc EXCEPT !.h = to.h] /\ setting'.left = <<"m", "d", "y">>
        <5>1. left[1] = "h" /\ Tail(left) = <<"m", "d", "y">>
          BY <3>1, Firsts, Tails
        <5>2. rtc' = [rtc EXCEPT !["h"] = to["h"]]
          BY <2>0, <5>1
        <5> QED BY <2>3, <5>1, <5>2
      <4>2. rtc' = Registers6(rtc.y, rtc.m, rtc.d, to.h, rtc.st, rtc.vbaten)
        BY <4>1, OneRegister DEF TimeTypeOK
      <4>3. /\ rtc' \in RegisterValues
            /\ rtc'.y = rtc.y /\ rtc'.m = rtc.m /\ rtc'.d = rtc.d /\ rtc'.h = to.h
        <5>1. to.m \in 0..12 /\ to.d \in 0..31
          BY <1>5, SMT
        <5> QED BY <1>4, <1>5, <4>2, <5>1 DEF RegisterValues, Registers6
      <4> QED BY <1>1, <1>3, <1>4, <1>5, <2>3, <3>1, <4>1, <4>3, Different, SMT
              DEF Written, SameDate
    <3>2. CASE left = <<"m", "d", "y">>
      <4>1. rtc' = [rtc EXCEPT !.m = to.m] /\ setting'.left = <<"d", "y">>
        <5>1. left[1] = "m" /\ Tail(left) = <<"d", "y">>
          BY <3>2, Firsts, Tails
        <5>2. rtc' = [rtc EXCEPT !["m"] = to["m"]]
          BY <2>0, <5>1
        <5> QED BY <2>3, <5>1, <5>2
      <4>2. rtc' = Registers6(rtc.y, to.m, rtc.d, rtc.h, rtc.st, rtc.vbaten)
        BY <4>1, OneRegister DEF TimeTypeOK
      <4>3. /\ rtc' \in RegisterValues
            /\ rtc'.y = rtc.y /\ rtc'.m = to.m /\ rtc'.d = rtc.d /\ rtc'.h = rtc.h
        <5>1. to.m \in 0..12 /\ to.d \in 0..31
          BY <1>5, SMT
        <5> QED BY <1>4, <1>5, <4>2, <5>1 DEF RegisterValues, Registers6
      <4> QED BY <1>1, <1>3, <1>4, <1>5, <2>3, <3>2, <4>1, <4>3, Different, SMT
              DEF Written, SameDate
    <3>3. CASE left = <<"d", "y">>
      <4>1. rtc' = [rtc EXCEPT !.d = to.d] /\ setting'.left = <<"y">>
        <5>1. left[1] = "d" /\ Tail(left) = <<"y">>
          BY <3>3, Firsts, Tails
        <5>2. rtc' = [rtc EXCEPT !["d"] = to["d"]]
          BY <2>0, <5>1
        <5> QED BY <2>3, <5>1, <5>2
      <4>2. rtc' = Registers6(rtc.y, rtc.m, to.d, rtc.h, rtc.st, rtc.vbaten)
        BY <4>1, OneRegister DEF TimeTypeOK
      <4>3. /\ rtc' \in RegisterValues
            /\ rtc'.y = rtc.y /\ rtc'.m = rtc.m /\ rtc'.d = to.d /\ rtc'.h = rtc.h
        <5>1. to.m \in 0..12 /\ to.d \in 0..31
          BY <1>5, SMT
        <5> QED BY <1>4, <1>5, <4>2, <5>1 DEF RegisterValues, Registers6
      <4> QED BY <1>1, <1>3, <1>4, <1>5, <2>3, <3>3, <4>1, <4>3, Different, SMT
              DEF Written, SameDate
    <3>4. CASE left = <<"y">>
      <4>1. rtc' = [rtc EXCEPT !.y = to.y] /\ setting'.left = <<>>
        <5>1. left[1] = "y" /\ Tail(left) = <<>>
          BY <3>4, Firsts, Tails
        <5>2. rtc' = [rtc EXCEPT !["y"] = to["y"]]
          BY <2>0, <5>1
        <5> QED BY <2>3, <5>1, <5>2
      <4>2. rtc' = Registers6(to.y, rtc.m, rtc.d, rtc.h, rtc.st, rtc.vbaten)
        BY <4>1, OneRegister DEF TimeTypeOK
      <4>3. /\ rtc' \in RegisterValues
            /\ rtc'.y = to.y /\ rtc'.m = rtc.m /\ rtc'.d = rtc.d /\ rtc'.h = rtc.h
        <5>1. to.m \in 0..12 /\ to.d \in 0..31
          BY <1>5, SMT
        <5> QED BY <1>4, <1>5, <4>2, <5>1 DEF RegisterValues, Registers6
      <4>4. rtc.h = to.h /\ rtc.m = to.m /\ rtc.d = to.d
        <5>1. left /= <<"h", "m", "d", "y">>
          BY <3>4, Different
        <5> QED BY <1>1, <1>3, <3>4, <5>1, Zenon DEF Written
      <4>5. rtc'.h = to.h /\ rtc'.m = to.m /\ rtc'.d = to.d /\ rtc'.y = to.y
        BY <4>3, <4>4
      <4>6. rtc'.m /= 0 /\ rtc'.d /= 0
        BY <1>5, <4>5, SMT
      <4>7. Written'
        BY <2>3, <4>5, <4>6, Zenon DEF Written
      <4> QED BY <4>3, <4>5, <4>7, Zenon DEF SameDate
    <3> QED BY <2>2, <3>1, <3>2, <3>3, <3>4
  <2> QED BY <1>1, <1>3, <2>3, <2>4
<1> QED BY <1>6, <1>7

ClockInv == TimeTypeOK /\ Staged /\ Written /\ LockStep
ProvedHours == Hours \subseteq Century /\ FirstValid > 0

LEMMA WrittenStays ==
    ASSUME Written, setting' = setting, SameDate(rtc', rtc)
    PROVE  Written'
BY DEF Written, SameDate

LEMMA SameIsSame == rtc' = rtc => SameDate(rtc', rtc)
BY DEF SameDate

LEMMA TickKeeps ==
    ASSUME TimeTypeOK, Written
    PROVE  /\ Tick(rtc) \in RegisterValues /\ Tick(rtc).st = rtc.st
           /\ Tick(rtc).m = 0 => Tick(rtc).d = 0
           /\ Tick(rtc).d = 0 => Tick(rtc).y = 0
           /\ rtc.d = 0 => Tick(rtc).d = 0
<1> DEFINE next == Tick(rtc)
<1>1. /\ rtc = Registers6(rtc.y, rtc.m, rtc.d, rtc.h, rtc.st, rtc.vbaten)
      /\ rtc.y \in Nat /\ rtc.m \in 0..12 /\ rtc.d \in 0..31 /\ rtc.h \in 0..23
      /\ rtc.st \in BOOLEAN /\ rtc.vbaten \in BOOLEAN
  BY RegistersAre DEF TimeTypeOK
<1>2. (rtc.m = 0 => rtc.d = 0) /\ (rtc.d = 0 => rtc.y = 0)
  BY DEF Written
<1>3. CASE ~rtc.st
  <2>1. next = rtc
    BY <1>3 DEF Tick
  <2> QED BY <1>1, <1>2, <2>1 DEF TimeTypeOK
<1>4. CASE rtc.st /\ (rtc.h < 23 \/ rtc.m = 0 \/ rtc.d = 0)
  <2>1. PICK h \in 0..23 : next = [rtc EXCEPT !.h = h]
    <3>1. CASE rtc.h < 23
      <4>1. rtc.h + 1 \in 0..23
        BY <1>1, <3>1, SMT
      <4>2. next = [rtc EXCEPT !.h = rtc.h + 1]
        BY <1>4, <3>1 DEF Tick
      <4> QED BY <4>1, <4>2
    <3>2. CASE ~(rtc.h < 23)
      <4>1. next = [rtc EXCEPT !.h = 0]
        BY <1>4, <3>2, Zenon DEF Tick
      <4>2. 0 \in 0..23
        BY SMT
      <4> QED BY <4>1, <4>2
    <3> QED BY <3>1, <3>2
  <2>2. next = Registers6(rtc.y, rtc.m, rtc.d, h, rtc.st, rtc.vbaten)
    BY <2>1, OneRegister DEF TimeTypeOK
  <2>3. /\ next \in RegisterValues /\ next.st = rtc.st
        /\ next.y = rtc.y /\ next.m = rtc.m /\ next.d = rtc.d
    BY <1>1, <2>2 DEF RegisterValues, Registers6
  <2> QED BY <1>2, <2>3
<1>5. CASE rtc.st /\ ~(rtc.h < 23 \/ rtc.m = 0 \/ rtc.d = 0)
  <2> DEFINE date == DateTime(unixtime(rtc) + 1)
  <2>1. next = Registers(date, TRUE, rtc.vbaten)
    BY <1>5, Zenon DEF Tick
  <2>2. unixtime(rtc) + 1 \in Nat
    BY DatesAreRead, SMT
  <2>3. date.y \in Nat /\ date.m \in 1..12 /\ date.d \in 1..31 /\ date.h \in 0..23
    BY <2>2, DateOfHour
  <2> HIDE DEF date
  <2>4. /\ next = Registers6(date.y, date.m, date.d, date.h, TRUE, rtc.vbaten)
        /\ date.m \in 0..12 /\ date.d \in 0..31 /\ date.m /= 0 /\ date.d /= 0
    BY <2>1, <2>3, SMT DEF Registers, Registers6
  <2>5. next \in RegisterValues /\ next.st = TRUE /\ next.m /= 0 /\ next.d /= 0
    BY <1>1, <2>3, <2>4 DEF RegisterValues, Registers6
  <2>6. rtc.st = TRUE /\ rtc.d /= 0
    BY <1>1, <1>5
  <2> QED BY <2>5, <2>6
<1> QED BY <1>1, <1>3, <1>4, <1>5

LEMMA InitClock == ClockAssumption /\ Init => ClockInv
<1> SUFFICES ASSUME ClockAssumption, Init PROVE ClockInv
  OBVIOUS
<1>1. /\ now \in Hours /\ now \in Nat /\ pc = "Off" /\ setting = Nothing /\ time = 0
      /\ connected = FALSE /\ updated = FALSE
  BY DEF Init, ClockAssumption
<1>4. /\ now \in Hours /\ time \in Nat /\ pc \in Stages \cup {"Off", "Save", "Loop"}
      /\ setting = Nothing /\ connected \in BOOLEAN /\ updated \in BOOLEAN
      /\ Staged /\ LockStep
  <2>1. time \in Nat
    BY <1>1, SMT
  <2>2. Staged /\ LockStep
    BY <1>1, Zenon DEF Staged, LockStep
  <2> QED BY <1>1, <2>1, <2>2, Zenon
<1>2. CASE rtc = Registers(Zero, FALSE, FALSE)
  <2>1. rtc \in RegisterValues /\ rtc.m = 0 /\ rtc.d = 0 /\ rtc.y = 0
    BY <1>2, SMT DEF Registers, Zero, RegisterValues
  <2> QED BY <1>4, <2>1 DEF ClockInv, TimeTypeOK, Written
<1>3. CASE rtc = Registers(DateTime(now), TRUE, TRUE)
  <2> DEFINE date == DateTime(now)
  <2>1. /\ date.y \in Nat /\ date.m \in 1..12 /\ date.d \in 1..31 /\ date.h \in 0..23
    BY <1>1, DateOfHour
  <2> HIDE DEF date
  <2>2. rtc \in RegisterValues /\ rtc.m /= 0 /\ rtc.d /= 0
    BY <1>3, <2>1, SMT DEF Registers, RegisterValues, date
  <2> QED BY <1>4, <2>2 DEF ClockInv, TimeTypeOK, Written
<1> QED BY <1>2, <1>3 DEF Init

(* What setup and the loop take from the RTC: its time, if it has one.     *)
LEMMA Restored ==
    ASSUME ClockInv, setting = Nothing, rtc.st, restoreTimeSettingsFromRam
    PROVE  /\ rtc' = rtc /\ setting' = setting /\ time' \in Nat
           /\ rtc'.d = 0 \/ unixtime(rtc') = time'
<1>1. /\ rtc' = rtc /\ setting' = setting
      /\ time' = IF isRTCSet THEN unixtime(rtc) ELSE time
  BY DEF restoreTimeSettingsFromRam, rtcVars
<1>2. CASE isRTCSet
  BY <1>1, <1>2, DatesAreRead, Zenon DEF ClockInv
<1>3. CASE ~isRTCSet
  <2>1. rtc.d = 0
    BY <1>3, Zenon DEF isRTCSet
  <2> QED BY <1>1, <1>3, <2>1, Zenon DEF ClockInv, TimeTypeOK
<1> QED BY <1>2, <1>3

(* The steps of setup before the settings are restored.                    *)
LEMMA BootClock ==
    ASSUME ClockInv, setupStops \/ setupStarts \/ setupMCP7940 \/ setupSetsBattery
    PROVE  ClockInv'
<1>1. /\ setting = Nothing /\ rtc \in RegisterValues /\ time \in Nat
      /\ now' = now /\ connected' = connected /\ updated' = updated
  BY DEF ClockInv, TimeTypeOK, setupStops, setupStarts, setupMCP7940, setupSetsBattery,
         At, cloudVars
<1>2. connected' = FALSE /\ updated' = FALSE
  <2>1. pc \notin {"Loop", "Save"}
    BY DEF setupStops, setupStarts, setupMCP7940, setupSetsBattery, At
  <2>2. ~connected /\ ~updated
    BY <2>1, Zenon DEF ClockInv, Staged
  <2> QED BY <1>1, <2>2, Zenon DEF ClockInv, TimeTypeOK
<1>3. /\ pc' \in {"Start", "SetTime", "Battery", "Restore"} /\ time' \in Nat
      /\ rtc' \in RegisterValues /\ Written'
      /\ setting' = Nothing \/ setting' \in [left : Left, to : Dates]
      /\ setting' = Nothing /\ pc' /= "Start" => rtc'.st
  <2>1. CASE setupStops
    <3>1. /\ rtc' = [rtc EXCEPT !.st = FALSE] /\ pc' = "Start"
          /\ setting' = setting /\ time' = time
      BY <2>1 DEF setupStops, deviceStop
    <3>2. rtc' \in RegisterValues /\ SameDate(rtc', rtc)
      BY <1>1, <3>1, Switched
    <3> QED BY <1>1, <3>1, <3>2, WrittenStays DEF ClockInv
  <2>2. CASE setupStarts
    <3>1. /\ rtc' = [rtc EXCEPT !.st = TRUE] /\ pc' = "SetTime"
          /\ setting' = setting /\ time' = time
      BY <2>2 DEF setupStarts, deviceStart
    <3>2. rtc' \in RegisterValues /\ SameDate(rtc', rtc) /\ rtc'.st = TRUE
      BY <1>1, <3>1, Switched
    <3> QED BY <1>1, <3>1, <3>2, WrittenStays DEF ClockInv
  <2>3. CASE setupMCP7940 /\ isRTCSet
    <3>1. PICK isFault \in BOOLEAN : setBattery(~isFault)
      BY <2>3 DEF setupMCP7940
    <3>2. PICK state \in BOOLEAN : rtc' = [rtc EXCEPT !.vbaten = state]
      BY <3>1 DEF setBattery
    <3>3. pc' = "Restore" /\ time' = unixtime(rtc) /\ setting' = setting /\ rtc.st
      BY <2>3 DEF setupMCP7940, isRTCSet
    <3>4. rtc' \in RegisterValues /\ SameDate(rtc', rtc) /\ rtc'.st = rtc.st
      BY <1>1, <3>2, Switched
    <3> QED BY <1>1, <3>3, <3>4, WrittenStays, DatesAreRead DEF ClockInv
  <2>4. CASE setupMCP7940 /\ ~isRTCSet /\ isValid
    <3>1. adjust(time) /\ pc' = "Battery" /\ time' = time
      BY <2>4 DEF setupMCP7940
    <3> QED BY <1>1, <3>1, SettingBegins DEF ClockInv
  <2>5. CASE setupMCP7940 /\ ~isRTCSet /\ ~isValid
    <3>1. rtc' = rtc /\ setting' = setting /\ pc' = "Battery" /\ time' = time /\ pc = "SetTime"
      BY <2>5 DEF setupMCP7940, rtcVars, At
    <3>2. rtc.st
      BY <1>1, <3>1 DEF ClockInv, Staged
    <3> QED BY <1>1, <3>1, <3>2, WrittenStays, SameIsSame DEF ClockInv
  <2>6. CASE setupSetsBattery
    <3>1. /\ rtc' = [rtc EXCEPT !.vbaten = TRUE] /\ pc' = "Restore" /\ setting' = setting
          /\ time' = time /\ pc = "Battery"
      BY <2>6 DEF setupSetsBattery, setBattery, At
    <3>2. rtc' \in RegisterValues /\ SameDate(rtc', rtc) /\ rtc'.st = rtc.st
      BY <1>1, <3>1, Switched
    <3>3. rtc.st
      BY <1>1, <3>1 DEF ClockInv, Staged
    <3> QED BY <1>1, <3>1, <3>2, <3>3, WrittenStays DEF ClockInv
  <2> QED BY <2>1, <2>2, <2>3, <2>4, <2>5, <2>6
<1>4. TimeTypeOK'
  BY <1>1, <1>2, <1>3 DEF ClockInv, TimeTypeOK, Stages
<1>5. Staged' /\ LockStep'
  BY <1>2, <1>3 DEF Staged, LockStep
<1> QED BY <1>3, <1>4, <1>5 DEF ClockInv

(* The steps of the loop that leave the RTC alone.                         *)
LEMMA CalmClock ==
    ASSUME ClockAssumption, ClockInv,
           \/ Restores \/ clockTimeUpdate \/ saveTimeSettingsToRam \/ remoteParam
           \/ ConnectionChanges \/ SyncArrives \/ ADayPasses \/ PowerReturns
    PROVE  ClockInv'
<1>1. rtc' = rtc /\ setting' = setting /\ now' = now
  BY DEF Restores, clockTimeUpdate, saveTimeSettingsToRam, remoteParam, ConnectionChanges,
         SyncArrives, ADayPasses, PowerReturns, restoreTimeSettingsFromRam, rtcVars
<1>2. Written'
  BY <1>1, WrittenStays, SameIsSame DEF ClockInv
<1>3. now \in Nat /\ FirstValid \in Nat /\ FirstValid <= now
  BY DEF ClockAssumption, ClockInv, TimeTypeOK
<1>4. CASE Restores \/ (clockTimeUpdate /\ ~isValid)
  <2>1. /\ setting = Nothing /\ pc \in {"Restore", "Startup", "Loop"}
        /\ pc' \in {"Startup", "Loop"} /\ connected' = connected
        /\ restoreTimeSettingsFromRam
        /\ \/ Restores /\ updated' = updated
           \/ updated' = TRUE /\ pc' = "Loop"
    BY <1>4 DEF Restores, clockTimeUpdate, At, cloudVars
  <2>2. rtc.st
    BY <2>1 DEF ClockInv, Staged
  <2>3. time' \in Nat /\ (rtc'.d = 0 \/ unixtime(rtc') = time')
    BY <2>1, <2>2, Restored
  <2>4. connected' => pc' = "Loop"
    <3>1. CASE Restores
      <4>1. pc = "Restore"
        BY <3>1 DEF Restores, At
      <4> QED BY <2>1, <4>1 DEF ClockInv, Staged
    <3>2. CASE ~Restores
      BY <2>1, <3>2
    <3> QED BY <3>1, <3>2
  <2>5. updated' => pc' = "Loop"
    <3>1. CASE Restores
      <4>1. pc = "Restore" /\ updated' = updated
        BY <3>1 DEF Restores, At
      <4> QED BY <4>1 DEF ClockInv, Staged
    <3>2. CASE ~Restores
      BY <2>1, <3>2
    <3> QED BY <3>1, <3>2
  <2>6. updated' \in BOOLEAN
    BY <2>1 DEF ClockInv, TimeTypeOK
  <2>7. TimeTypeOK'
    BY <1>1, <2>1, <2>3, <2>6 DEF ClockInv, TimeTypeOK, Stages
  <2>8. Staged'
    BY <1>1, <2>1, <2>2, <2>4, <2>5 DEF Staged
  <2>9. LockStep'
    BY <1>1, <2>1, <2>3 DEF LockStep
  <2> QED BY <1>2, <2>7, <2>8, <2>9 DEF ClockInv
<1>5. CASE SyncArrives
  <2>1. /\ time' = now /\ pc' = pc /\ connected' = connected /\ updated' = FALSE /\ connected
    BY <1>5 DEF SyncArrives
  <2>2. isValid' /\ pc' \in {"Loop", "Save"}
    BY <1>3, <2>1 DEF isValid, ClockInv, Staged
  <2> QED BY <1>1, <1>2, <1>3, <2>1, <2>2 DEF ClockInv, TimeTypeOK, Staged, LockStep
<1>6. CASE \/ saveTimeSettingsToRam \/ remoteParam \/ ConnectionChanges \/ ADayPasses
           \/ (clockTimeUpdate /\ isValid)
  <2>1. /\ time' = time /\ pc' \in {"Loop", "Save"} /\ connected' \in BOOLEAN
        /\ updated' \in BOOLEAN
    BY <1>6 DEF saveTimeSettingsToRam, remoteParam, ConnectionChanges, ADayPasses, At,
                clockTimeUpdate, cloudVars, ClockInv, TimeTypeOK, Staged
  <2>2. setting' = Nothing => rtc'.st
    <3>1. pc \notin {"Off", "Stop", "Start"}
      BY <1>6 DEF saveTimeSettingsToRam, remoteParam, ConnectionChanges, ADayPasses, At,
                  clockTimeUpdate, ClockInv, Staged
    <3> QED BY <1>1, <3>1 DEF ClockInv, Staged
  <2>3. pc \in {"Startup", "Save", "Loop"}
    BY <1>6 DEF saveTimeSettingsToRam, remoteParam, ConnectionChanges, ADayPasses, At,
                clockTimeUpdate, ClockInv, Staged
  <2>4. LockStep'
    BY <1>1, <2>1, <2>3 DEF LockStep, isValid, ClockInv
  <2>5. TimeTypeOK'
    BY <1>1, <2>1 DEF ClockInv, TimeTypeOK
  <2>6. Staged'
    BY <2>1, <2>2 DEF Staged
  <2> QED BY <1>2, <2>4, <2>5, <2>6 DEF ClockInv
<1>7. CASE PowerReturns
  <2>1. /\ pc = "Off" /\ pc' = "Stop" /\ time' = time /\ connected' = connected
        /\ updated' = updated
    BY <1>7 DEF PowerReturns, cloudVars
  <2>2. TimeTypeOK'
    BY <1>1, <2>1 DEF ClockInv, TimeTypeOK, Stages
  <2> QED BY <1>2, <2>1, <2>2 DEF ClockInv, Staged, LockStep
<1> QED BY <1>4, <1>5, <1>6, <1>7

(* The steps that set the RTC.                                             *)
LEMMA SetClock ==
    ASSUME ClockAssumption, ProvedHours, ClockInv,
           adjustGoesOn \/ checkNetworks \/ checkTimeSync
    PROVE  ClockInv'
<1>1. /\ now' = now /\ now \in Nat /\ FirstValid \in Nat /\ FirstValid <= now /\ time \in Nat
      /\ now \in Century /\ pc' = pc /\ connected' = connected
      /\ updated' = updated \/ updated' = FALSE
  BY DEF adjustGoesOn, checkNetworks, checkTimeSync, ClockInv, TimeTypeOK, ClockAssumption,
         ProvedHours, cloudVars
<1>2. CASE adjustGoesOn
  <2>1. /\ setting /= Nothing /\ setting \in [left : Left, to : Dates]
        /\ rtc' \in RegisterValues /\ Written'
        /\ \/ /\ setting' = Nothing
              /\ rtc'.st /\ SameDate(rtc', setting.to) /\ SameDate(rtc', rtc)
           \/ /\ setting' \in [left : Left, to : Dates] /\ setting' /= Nothing
              /\ setting'.to = setting.to
    BY <1>2, SettingGoesOn DEF ClockInv
  <2>2. time' = time /\ pc /= "Off"
    BY <1>2 DEF adjustGoesOn
  <2>3. LockStep'
    <3> SUFFICES ASSUME pc \in {"Startup", "Save", "Loop"}, ~isValid
                 PROVE  /\ setting' = Nothing => unixtime(rtc') = time
                        /\ setting' /= Nothing => setting'.to = DateTime(time)
      BY <1>1, <2>2 DEF LockStep, isValid
    <3>1. setting.to = DateTime(time)
      BY <2>1 DEF ClockInv, LockStep
    <3>2. time \in Century
      BY <1>1, SMT DEF isValid, Century
    <3>3. unixtime(DateTime(time)) = time
      BY <3>2, DatesKeepHours
    <3>4. setting' = Nothing => unixtime(rtc') = time
      BY <2>1, <3>1, <3>3, ReadAlike
    <3> QED BY <2>1, <3>1, <3>4
  <2>4. TimeTypeOK'
    BY <1>1, <2>1, <2>2 DEF ClockInv, TimeTypeOK
  <2>5. Staged'
    BY <1>1, <2>1, <2>2 DEF ClockInv, Staged
  <2> QED BY <2>1, <2>3, <2>4, <2>5 DEF ClockInv
<1>3. CASE checkNetworks /\ connected
  <2>1. adjust(time) /\ pc = "Loop" /\ time' = time
    BY <1>3 DEF checkNetworks, At
  <2>2. /\ setting' \in [left : Left, to : Dates] /\ setting' /= Nothing
        /\ setting'.to = DateTime(time) /\ rtc' \in RegisterValues /\ Written'
    BY <1>1, <2>1, SettingBegins DEF ClockInv
  <2>3. TimeTypeOK'
    BY <1>1, <2>1, <2>2 DEF ClockInv, TimeTypeOK
  <2>4. Staged' /\ LockStep'
    BY <1>1, <2>1, <2>2 DEF Staged, LockStep
  <2> QED BY <2>2, <2>3, <2>4 DEF ClockInv
<1>4. CASE checkNetworks /\ ~connected
  <2>1. rtc' = rtc /\ setting' = setting /\ time' = time /\ updated' = updated
    BY <1>4 DEF checkNetworks, rtcVars
  <2>2. Written'
    BY <2>1, WrittenStays, SameIsSame DEF ClockInv
  <2> QED BY <1>1, <2>1, <2>2 DEF ClockInv, TimeTypeOK, Staged, LockStep, isValid
<1>5. CASE checkTimeSync
  <2>1. adjust(now) /\ pc = "Loop" /\ time' = now /\ updated' = FALSE
    BY <1>5 DEF checkTimeSync, At
  <2>2. /\ setting' \in [left : Left, to : Dates] /\ setting' /= Nothing
        /\ rtc' \in RegisterValues /\ Written'
    BY <1>1, <2>1, SettingBegins DEF ClockInv
  <2>3. isValid'
    BY <1>1, <2>1 DEF isValid
  <2>4. TimeTypeOK'
    BY <1>1, <2>1, <2>2 DEF ClockInv, TimeTypeOK
  <2>5. Staged' /\ LockStep'
    BY <1>1, <2>1, <2>2, <2>3 DEF Staged, LockStep
  <2> QED BY <2>2, <2>4, <2>5 DEF ClockInv
<1> QED BY <1>2, <1>3, <1>4, <1>5

LEMMA HourClock ==
    ASSUME ClockAssumption, ProvedHours, ClockInv, HourPasses
    PROVE  ClockInv'
<1>1. /\ now' = now + 1 /\ now' \in Hours /\ pc' = pc /\ setting' = setting
      /\ rtc' = Tick(rtc) /\ updated' = FALSE /\ connected' = connected
      /\ pc = "Off" \/ At("Loop")
      /\ time' = IF pc = "Off" THEN time ELSE time + 1
  BY DEF HourPasses, cloudVars
<1>2. setting = Nothing
  BY <1>1 DEF At, ClockInv, Staged
<1>3. /\ now \in Nat /\ FirstValid \in Nat /\ FirstValid <= now /\ time \in Nat
      /\ now \in Century
  BY DEF ClockInv, TimeTypeOK, ClockAssumption, ProvedHours
<1>4. time' \in Nat
  BY <1>1, <1>3, SMT
<1>5. /\ rtc' \in RegisterValues /\ rtc'.st = rtc.st
      /\ (rtc'.m = 0 => rtc'.d = 0) /\ (rtc'.d = 0 => rtc'.y = 0)
      /\ (rtc.d = 0 => rtc'.d = 0)
  BY <1>1, TickKeeps DEF ClockInv
<1>6. TimeTypeOK'
  BY <1>1, <1>4, <1>5 DEF ClockInv, TimeTypeOK
<1>7. Staged'
  BY <1>1, <1>2, <1>5 DEF ClockInv, Staged
<1>8. Written'
  BY <1>1, <1>2, <1>5, Zenon DEF Written
<1>9. LockStep'
  <2> SUFFICES ASSUME pc = "Loop", ~isValid', rtc'.d /= 0
               PROVE  unixtime(rtc') = time'
    BY <1>1, <1>2, Zenon DEF LockStep, At
  <2>1. time' = time + 1 /\ time + 1 < FirstValid
    <3>1. time' = time + 1
      BY <1>1, Zenon
    <3> QED BY <1>3, <3>1, SMT DEF isValid
  <2>2. ~isValid /\ time + 1 \in Century
    BY <1>3, <2>1, SMT DEF isValid, Century
  <2>3. rtc.d /= 0 /\ rtc.m /= 0
    BY <1>5, Zenon DEF ClockInv, Written
  <2>4. unixtime(rtc) = time
    BY <1>2, <2>2, <2>3, Zenon DEF ClockInv, LockStep
  <2>5. rtc.st /\ rtc \in RegisterValues
    BY <1>2, Zenon DEF ClockInv, Staged, TimeTypeOK
  <2>6. unixtime(Tick(rtc)) = unixtime(rtc) + 1
    BY <2>2, <2>3, <2>4, <2>5, ReadsNextHour
  <2> QED BY <1>1, <2>1, <2>4, <2>6
<1> QED BY <1>6, <1>7, <1>8, <1>9 DEF ClockInv

LEMMA FailClock ==
    ASSUME ClockInv, Reset \/ PowerIsLost
    PROVE  ClockInv'
<1>1. /\ now' = now /\ setting' = Nothing /\ connected' = FALSE /\ updated' = FALSE
      /\ pc' \in {"Off", "Stop"} /\ time' \in {time, 0} /\ (pc' = "Off" => time' = 0)
      /\ rtc' = rtc \/ rtc' = Registers(Zero, FALSE, FALSE)
  BY DEF Reset, PowerIsLost
<1>2. time' \in Nat
  BY <1>1, SMT DEF ClockInv, TimeTypeOK
<1>3. rtc' \in RegisterValues /\ Written'
  <2>1. CASE rtc' = rtc
    BY <1>1, <2>1, Zenon DEF ClockInv, TimeTypeOK, Written
  <2>2. CASE rtc' = Registers(Zero, FALSE, FALSE)
    <3>1. rtc' \in RegisterValues /\ rtc'.m = 0 /\ rtc'.d = 0 /\ rtc'.y = 0
      BY <2>2, SMT DEF Registers, Zero, RegisterValues
    <3> QED BY <1>1, <3>1, Zenon DEF Written
  <2> QED BY <1>1, <2>1, <2>2
<1> QED BY <1>1, <1>2, <1>3 DEF ClockInv, TimeTypeOK, Staged, LockStep, Stages

LEMMA NextClock ==
    ClockAssumption /\ ProvedHours /\ ClockInv /\ [Next]_vars => ClockInv'
<1> SUFFICES ASSUME ClockAssumption, ProvedHours, ClockInv, [Next]_vars PROVE ClockInv'
  OBVIOUS
<1>1. CASE UNCHANGED vars
  <2>1. UNCHANGED <<now, pc, time, rtc, setting, connected, updated>>
    BY <1>1 DEF vars, rtcVars, cloudVars
  <2>2. TimeTypeOK' /\ Staged'
    BY <2>1 DEF ClockInv, TimeTypeOK, Staged
  <2>3. Written' /\ LockStep'
    BY <2>1 DEF ClockInv, Written, LockStep, isValid
  <2> QED BY <2>2, <2>3 DEF ClockInv
<1>2. CASE setupStops \/ setupStarts \/ setupMCP7940 \/ setupSetsBattery
  BY <1>2, BootClock
<1>3. CASE \/ Restores \/ clockTimeUpdate \/ saveTimeSettingsToRam \/ remoteParam
           \/ ConnectionChanges \/ SyncArrives \/ ADayPasses \/ PowerReturns
  BY <1>3, CalmClock
<1>4. CASE adjustGoesOn \/ checkNetworks \/ checkTimeSync
  BY <1>4, SetClock
<1>5. CASE HourPasses
  BY <1>5, HourClock
<1>6. CASE Reset \/ PowerIsLost
  BY <1>6, FailClock
<1> QED BY <1>1, <1>2, <1>3, <1>4, <1>5, <1>6 DEF Next, Program, World, Boot

(* The clocks that are right have the date of the hour in their registers. *)
LEMMA RightDate ==
    ASSUME NEW date, NEW hour \in Hours
    PROVE  Date(date) = TrueDate[hour] <=> SameDate(date, DateTime(hour))
BY DEF Date, TrueDate, Registers, SameDate

Right ==
    /\ isValid => time = now
    /\ SameDate(rtc, DateTime(now))
    /\ setting /= Nothing => SameDate(setting.to, DateTime(now))

LEMMA RightIs ==
    /\ TimeTypeOK => (ClocksRight <=> Right)
    /\ TimeTypeOK' => (ClocksRight' <=> Right')
<1>1. ASSUME TimeTypeOK PROVE ClocksRight <=> Right
  <2>1. now \in Hours
    BY <1>1, Zenon DEF TimeTypeOK
  <2> QED BY <2>1, RightDate, Zenon DEF ClocksRight, Right
<1>2. ASSUME TimeTypeOK' PROVE ClocksRight' <=> Right'
  <2>1. now' \in Hours
    BY <1>2, Zenon DEF TimeTypeOK
  <2> QED BY <2>1, RightDate, Zenon DEF ClocksRight, Right
<1> QED BY <1>1, <1>2

LEMMA StepRight ==
    ASSUME ClockAssumption, ProvedHours, ClockInv, [Next]_vars, Right
    PROVE  Right' \/ (pc' = "Off" /\ (~rtc.st \/ ~rtc.vbaten))
<1>1. /\ now \in Nat /\ FirstValid \in Nat /\ FirstValid <= now /\ time \in Nat
      /\ now \in Century /\ rtc \in RegisterValues
  BY DEF ClockInv, TimeTypeOK, ClockAssumption, ProvedHours
<1>2. unixtime(rtc) = now
  BY <1>1, ReadAlike, DatesKeepHours, SMT DEF Right
<1>3. rtc.d /= 0
  <2>1. DateTime(now).d \in 1..31
    BY <1>1, DateOfHour
  <2>2. rtc.d = DateTime(now).d
    BY DEF Right, SameDate
  <2> QED BY <2>1, <2>2, SMT
<1>4. CASE HourPasses
  <2>1. /\ now' = now + 1 /\ now' \in Hours /\ pc' = pc /\ setting' = setting
        /\ rtc' = Tick(rtc)
        /\ pc = "Off" \/ At("Loop")
        /\ time' = IF pc = "Off" THEN time ELSE time + 1
    BY <1>4 DEF HourPasses
  <2>2. setting = Nothing
    BY <2>1 DEF At, ClockInv, Staged
  <2>3. CASE ~rtc.st
    <3>1. pc = "Off"
      BY <2>1, <2>2, <2>3 DEF At, ClockInv, Staged
    <3> QED BY <2>1, <2>3, <3>1
  <2>4. CASE rtc.st
    <3>1. now + 1 \in Century
      BY <2>1 DEF ProvedHours
    <3>2. SameDate(rtc', DateTime(now'))
      <4>1. SameDate(rtc, DateTime(now))
        BY DEF Right
      <4>2. SameDate(Tick(rtc), DateTime(now + 1))
        BY <1>1, <2>4, <3>1, <4>1, TicksToNextHour
      <4> QED BY <2>1, <4>2
    <3>3. isValid' => time' = now'
      <4>1. CASE pc = "Off"
        <5>1. time' = 0
          BY <2>1, <4>1 DEF ClockInv, Staged
        <5> QED BY <1>1, <5>1, SMT DEF isValid, ProvedHours
      <4>2. CASE pc /= "Off"
        <5>1. pc = "Loop" /\ time' = time + 1
          BY <2>1, <4>2, Zenon DEF At
        <5>2. ~isValid => time = now
          BY <1>2, <1>3, <2>2, <5>1, Zenon DEF ClockInv, LockStep
        <5>3. time = now
          BY <5>2 DEF Right
        <5> QED BY <2>1, <5>1, <5>3
      <4> QED BY <4>1, <4>2
    <3> QED BY <2>1, <2>2, <3>2, <3>3 DEF Right
  <2> QED BY <2>3, <2>4
<1>5. CASE adjustGoesOn
  <2>1. time' = time /\ now' = now
    BY <1>5 DEF adjustGoesOn
  <2>2. /\ setting /= Nothing
        /\ \/ setting' = Nothing /\ SameDate(rtc', rtc)
           \/ /\ setting'.to = setting.to
              /\ SameDate(rtc, setting.to) => SameDate(rtc', setting.to)
    BY <1>5, SettingGoesOn DEF ClockInv
  <2>3. SameDate(rtc, DateTime(now)) /\ SameDate(setting.to, DateTime(now))
    BY <2>2 DEF Right
  <2>4. SameDate(rtc', DateTime(now))
    BY <2>2, <2>3 DEF SameDate
  <2>5. setting' /= Nothing => SameDate(setting'.to, DateTime(now))
    BY <2>2, <2>3
  <2> QED BY <2>1, <2>4, <2>5 DEF Right, isValid
<1>6. ASSUME NEW hours \in Nat, adjust(hours), hours = now, now' = now, time' \in {time, now}
      PROVE  Right'
  <2>1. /\ setting'.to = DateTime(now) /\ SameDate(rtc', rtc)
    BY <1>6, SettingBegins DEF ClockInv
  <2> QED BY <1>6, <2>1 DEF Right, isValid, SameDate
<1>7. CASE checkNetworks
  <2>1. /\ time' = time /\ now' = now /\ pc = "Loop" /\ setting = Nothing
        /\ adjust(time) \/ UNCHANGED rtcVars
    BY <1>7 DEF checkNetworks, At
  <2>2. time = now
    <3>1. ~isValid => time = now
      BY <1>2, <1>3, <2>1, Zenon DEF ClockInv, LockStep
    <3> QED BY <3>1 DEF Right
  <2>3. CASE adjust(time)
    BY <1>1, <1>6, <2>1, <2>2, <2>3
  <2>4. CASE UNCHANGED rtcVars
    BY <2>1, <2>4 DEF rtcVars, Right, isValid
  <2> QED BY <2>1, <2>3, <2>4
<1>8. CASE checkTimeSync
  <2>1. adjust(now) /\ now' = now /\ time' = now
    BY <1>8 DEF checkTimeSync
  <2> QED BY <1>1, <1>6, <2>1
<1>9. CASE setupMCP7940
  <2>1. now' = now /\ setting = Nothing
    BY <1>9 DEF setupMCP7940, At
  <2>2. CASE isRTCSet
    <3>1. /\ time' = unixtime(rtc) /\ setting' = setting
          /\ \E isFault \in BOOLEAN : setBattery(~isFault)
      BY <1>9, <2>2 DEF setupMCP7940
    <3>2. PICK state \in BOOLEAN : rtc' = [rtc EXCEPT !.vbaten = state]
      BY <3>1 DEF setBattery
    <3>3. SameDate(rtc', rtc)
      BY <1>1, <3>2, Switched
    <3> QED BY <1>2, <2>1, <3>1, <3>3 DEF Right, SameDate
  <2>3. CASE ~isRTCSet /\ isValid
    <3>1. adjust(time) /\ time' = time /\ time = now
      BY <1>9, <2>3 DEF setupMCP7940, Right
    <3> QED BY <1>1, <1>6, <2>1, <3>1
  <2>4. CASE ~isRTCSet /\ ~isValid
    <3>1. UNCHANGED rtcVars /\ time' = time
      BY <1>9, <2>4 DEF setupMCP7940
    <3> QED BY <2>1, <3>1 DEF rtcVars, Right, isValid
  <2> QED BY <2>2, <2>3, <2>4
<1>10. CASE setupStops \/ setupStarts \/ setupSetsBattery
  <2>1. /\ now' = now /\ time' = time /\ setting' = setting
        /\ \E state \in BOOLEAN : \/ rtc' = [rtc EXCEPT !.st = state]
                                  \/ rtc' = [rtc EXCEPT !.vbaten = state]
    BY <1>10 DEF setupStops, setupStarts, setupSetsBattery, deviceStop, deviceStart, setBattery
  <2>2. PICK state \in BOOLEAN : \/ rtc' = [rtc EXCEPT !.st = state]
                                 \/ rtc' = [rtc EXCEPT !.vbaten = state]
    BY <2>1
  <2>3. SameDate(rtc', rtc)
    <3>1. CASE rtc' = [rtc EXCEPT !.st = state]
      BY <1>1, <3>1, Switched
    <3>2. CASE rtc' = [rtc EXCEPT !.vbaten = state]
      BY <1>1, <3>2, Switched
    <3> QED BY <2>2, <3>1, <3>2
  <2> QED BY <2>1, <2>3 DEF Right, isValid, SameDate
<1>11. ASSUME restoreTimeSettingsFromRam, now' = now
       PROVE  Right'
  <2>1. /\ rtc' = rtc /\ setting' = setting
        /\ time' = IF isRTCSet THEN unixtime(rtc) ELSE time
    BY <1>11 DEF restoreTimeSettingsFromRam, rtcVars
  <2> QED BY <1>2, <1>11, <2>1 DEF Right, isValid
<1>12. CASE Restores \/ clockTimeUpdate
  <2>1. /\ now' = now
        /\ restoreTimeSettingsFromRam \/ UNCHANGED <<time, rtcVars>>
    BY <1>12 DEF Restores, clockTimeUpdate
  <2>2. CASE UNCHANGED <<time, rtcVars>>
    BY <2>1, <2>2 DEF rtcVars, Right, isValid
  <2> QED BY <1>11, <2>1, <2>2
<1>13. CASE \/ saveTimeSettingsToRam \/ remoteParam \/ ConnectionChanges \/ SyncArrives
            \/ ADayPasses \/ PowerReturns \/ UNCHANGED vars
  <2>1. now' = now /\ rtc' = rtc /\ setting' = setting /\ time' \in {time, now}
    BY <1>13 DEF saveTimeSettingsToRam, remoteParam, ConnectionChanges, SyncArrives,
                 ADayPasses, PowerReturns, vars, rtcVars
  <2> QED BY <2>1 DEF Right, isValid
<1>14. CASE Reset \/ PowerIsLost
  <2>1. now' = now /\ setting' = Nothing /\ time' \in {time, 0}
    BY <1>14 DEF Reset, PowerIsLost
  <2>2. isValid' => time' = now'
    <3>1. CASE time' = time
      BY <2>1, <3>1 DEF Right, isValid
    <3>2. CASE time' = 0
      BY <1>1, <3>2, SMT DEF isValid, ProvedHours
    <3> QED BY <2>1, <3>1, <3>2
  <2>3. rtc' = rtc \/ (pc' = "Off" /\ ~rtc.vbaten)
    BY <1>14 DEF Reset, PowerIsLost
  <2> QED BY <2>1, <2>2, <2>3 DEF Right
<1> QED BY <1>4, <1>5, <1>7, <1>8, <1>9, <1>10, <1>12, <1>13, <1>14
        DEF Next, Program, World, Boot

(* Clocks that are right stay right, in every year of the century of the   *)
(* RTC, for all zones and numbers of faults: a reset between any two       *)
(* writes of the registers, a leap day, a new year or a connection before  *)
(* its time leaves no wrong time behind, but for a loss of the power that  *)
(* stops the RTC or leaves it without battery.                             *)
THEOREM ClocksStayRight ==
    ASSUME ProvedHours
    PROVE  Spec => TimeStaysRight
<1>1. ClockInv /\ [Next]_vars =>
        [ClocksRight => \/ ClocksRight'
                        \/ pc' = "Off" /\ (~rtc.st \/ ~rtc.vbaten)]_vars
  <2> SUFFICES ASSUME ClockInv, [Next]_vars, ClocksRight
               PROVE  ClocksRight' \/ (pc' = "Off" /\ (~rtc.st \/ ~rtc.vbaten))
    OBVIOUS
  <2>1. ClockInv' /\ Right
    BY ProvedHours, ClockAssumption, NextClock, RightIs DEF ClockInv
  <2>2. Right' \/ (pc' = "Off" /\ (~rtc.st \/ ~rtc.vbaten))
    BY <2>1, ProvedHours, ClockAssumption, StepRight
  <2> QED BY <2>1, <2>2, RightIs DEF ClockInv
<1>2. Init => ClockInv
  BY ClockAssumption, InitClock
<1>3. ClockInv /\ [Next]_vars => ClockInv'
  BY ProvedHours, ClockAssumption, NextClock
<1> QED BY <1>1, <1>2, <1>3, PTL DEF Spec, TimeStaysRight

---------------------------------------------------------------------------
(* The seasons. The last Sunday of March and of October.                   *)
LEMMA BySeven ==
    ASSUME NEW a \in Nat
    PROVE  \E k \in Nat, r \in 0..6 : a = 7 * k + r /\ a % 7 = r
<1>1. a \div 7 \in Nat /\ a % 7 \in 0..6 /\ a = 7 * (a \div 7) + (a % 7)
  BY SMT
<1> QED BY <1>1

(* Day D of the year y is the last Sunday of month m.                      *)
IsLastSunday(y, m, day) ==
    /\ day \in Nat
    /\ FirstDay(y) + MonthStart(y, m) + 24 <= day
    /\ day <= FirstDay(y) + MonthStart(y, m) + 30
    /\ \E k \in Nat : day + 6 = 7 * k

LEMMA LastSundayIs ==
    ASSUME NEW y \in 0..99, NEW m \in {3, 10}
    PROVE  \E day : IsLastSunday(y, m, day) /\ LastSunday[y][m] = 24 * day
<1> DEFINE before == FirstDay(y) + MonthStart(y, m)
           hour(d) == unixtime([y |-> y, m |-> m, d |-> d, h |-> 0])
           S == {hour(d) : d \in 25..31}
<1>0. m \in 1..12
  BY SMT
<1>1. \A d \in 25..31 : /\ before \in Nat /\ hour(d) = 24 * (before + d - 1)
                        /\ hour(d) \div 24 = before + d - 1
  <2> TAKE d \in 25..31
  <2>1. d \in 1..31 /\ 0 \in 0..23
    BY SMT
  <2>2. /\ MonthStart(y, m) \in Nat /\ FirstDay(y) \in Nat
        /\ hour(d) = 24 * (FirstDay(y) + MonthStart(y, m) + d - 1) + 0
    <3>1. PICK h \in 0..23 : h = 0
      BY <2>1
    <3>2. PICK date : date = [y |-> y, m |-> m, d |-> d, h |-> h]
      OBVIOUS
    <3>3. date.y = y /\ date.m = m /\ date.d = d /\ date.h = h
      BY <3>2
    <3>4. /\ MonthStart(y, m) \in Nat /\ FirstDay(y) \in Nat
          /\ unixtime(date) = 24 * (FirstDay(y) + MonthStart(y, m) + d - 1) + h
      BY <1>0, <2>1, <3>3, HourOfDate
    <3> QED BY <3>1, <3>2, <3>4, Zenon
  <2>3. before \in Nat /\ hour(d) = 24 * (before + d - 1)
    BY <2>1, <2>2, SMT
  <2> HIDE DEF before, hour
  <2>4. hour(d) \div 24 = before + d - 1
    BY <2>1, <2>3, SMT
  <2> QED BY <2>3, <2>4
<1>2. before \in Nat
  <2>1. 25 \in 25..31
    BY SMT
  <2> QED BY <1>1, <2>1
<1> HIDE DEF before
<1>3. \E d \in 25..31 : (before + d - 1 + 6) % 7 = 0
  <2>1. PICK k \in Nat, r \in 0..6 : before + 30 = 7 * k + r
    <3>1. before + 30 \in Nat
      BY <1>2, SMT
    <3> QED BY <3>1, BySeven
  <2>2. CASE r = 0
    <3> WITNESS 25 \in 25..31
    <3> QED BY <1>2, <2>1, <2>2, SMT
  <2>3. CASE r /= 0
    <3> DEFINE d == 32 - r
    <3>1. d \in 25..31 /\ before + d - 1 + 6 = 7 * (k + 1)
      BY <1>2, <2>1, <2>3, SMT
    <3>2. (7 * (k + 1)) % 7 = 0
      BY SMT
    <3>3. (before + d - 1 + 6) % 7 = 0
      BY <3>1, <3>2, Zenon
    <3> HIDE DEF d
    <3> QED BY <3>1, <3>3
  <2> QED BY <2>2, <2>3
<1> HIDE DEF hour
<1>4. \E hours \in S : weekday(hours) = 1
  <2>1. PICK d \in 25..31 : (before + d - 1 + 6) % 7 = 0
    BY <1>3
  <2>2. weekday(hour(d)) = ((before + d - 1 + 6) % 7) + 1
    BY <1>1, <2>1 DEF weekday
  <2>3. weekday(hour(d)) = 1
    BY <2>1, <2>2, SMT
  <2> QED BY <2>3
<1>5. LastSunday[y][m] = CHOOSE hours \in S : weekday(hours) = 1
  BY Zenon DEF LastSunday, hour, S
<1>6. LastSunday[y][m] \in S /\ weekday(LastSunday[y][m]) = 1
  <2> HIDE DEF S
  <2> QED BY <1>4, <1>5
<1>7. PICK d \in 25..31 : LastSunday[y][m] = hour(d)
  BY <1>6, Zenon
<1> DEFINE day == before + d - 1
<1>8. day \in Nat /\ before + 24 <= day /\ day <= before + 30
  <2>1. d \in 25..31
    BY <1>7, Zenon
  <2> QED BY <1>2, <2>1, SMT
<1>9. LastSunday[y][m] = 24 * day /\ LastSunday[y][m] \div 24 = day
  BY <1>1, <1>7
<1> HIDE DEF day
<1>10. (day + 6) % 7 = 0
  <2>1. ((day + 6) % 7) + 1 = 1
    BY <1>6, <1>9 DEF weekday
  <2>2. (day + 6) % 7 \in Nat
    BY <1>8, SMT
  <2> QED BY <2>1, <2>2, SMT
<1>11. PICK k \in Nat, r \in 0..6 : day + 6 = 7 * k + r /\ (day + 6) % 7 = r
  <2>1. day + 6 \in Nat
    BY <1>8, SMT
  <2> QED BY <2>1, BySeven
<1>12. day + 6 = 7 * k
  BY <1>10, <1>11, SMT
<1> QED BY <1>8, <1>9, <1>12 DEF IsLastSunday, before

(* The local day of an hour t of UTC, and the last Sundays of its year.    *)
IsPlaced(year, localYear, month, date, t, shift, today, thatDay, hourUTC, march, october,
         k3, k10, q, dow) ==
    /\ year \in Nat /\ localYear \in Nat /\ month \in 1..12 /\ date \in 1..31
    /\ t \in Nat /\ shift \in 0..3 /\ today \in Nat /\ thatDay \in Nat
    /\ hourUTC \in 0..23 /\ march \in Nat /\ october \in Nat
    /\ k3 \in Nat /\ k10 \in Nat /\ q \in Nat /\ dow \in 0..6
    /\ t = 24 * today + hourUTC
    /\ 24 * thatDay <= t + shift /\ t + shift < 24 * thatDay + 24
    /\ FirstDay(year) <= today /\ today < FirstDay(year + 1)
    /\ FirstDay(localYear) <= thatDay /\ thatDay < FirstDay(localYear + 1)
    /\ thatDay = FirstDay(localYear) + MonthStart(localYear, month) + date - 1
    /\ month = 12 \/ thatDay < FirstDay(localYear) + MonthStart(localYear, month + 1)
    /\ FirstDay(year) + MonthStart(year, 3) + 24 <= march
    /\ march <= FirstDay(year) + MonthStart(year, 3) + 30
    /\ FirstDay(year) + MonthStart(year, 10) + 24 <= october
    /\ october <= FirstDay(year) + MonthStart(year, 10) + 30
    /\ march + 6 = 7 * k3 /\ october + 6 = 7 * k10 /\ thatDay + 6 = 7 * q + dow
    /\ t < 24 * march - 3 \/ 24 * march + 1 < t
    /\ t < 24 * october - 3 \/ 24 * october + 1 < t

(* Out of the nights of the change the local date finds the season.        *)
LEMMA SeasonOfDay ==
    ASSUME NEW year, NEW localYear, NEW month, NEW date, NEW t, NEW shift, NEW today,
           NEW thatDay, NEW hourUTC, NEW march, NEW october, NEW k3, NEW k10, NEW q, NEW dow,
           IsPlaced(year, localYear, month, date, t, shift, today, thatDay, hourUTC, march,
                    october, k3, k10, q, dow)
    PROVE  shouldDSTbeEnabled(month, date, dow, hourUTC)
           <=> (24 * march + 1 <= t /\ t < 24 * october + 1)
<1> USE DEF IsPlaced
<1> DEFINE season == 24 * march + 1 <= t /\ t < 24 * october + 1
<1>1. PICK leap \in {0, 1} :
        /\ FirstDay(year + 1) = FirstDay(year) + 365 + leap
        /\ MonthStart(year, 1) = 0 /\ MonthStart(year, 2) = 31
        /\ MonthStart(year, 3) = 59 + leap /\ MonthStart(year, 4) = 90 + leap
        /\ MonthStart(year, 5) = 120 + leap /\ MonthStart(year, 6) = 151 + leap
        /\ MonthStart(year, 7) = 181 + leap /\ MonthStart(year, 8) = 212 + leap
        /\ MonthStart(year, 9) = 243 + leap /\ MonthStart(year, 10) = 273 + leap
        /\ MonthStart(year, 11) = 304 + leap /\ MonthStart(year, 12) = 334 + leap
  BY MonthStarts
<1>2. FirstDay(year) \in Nat /\ FirstDay(year + 1) \in Nat
  BY FirstDays
<1>3. \/ localYear = year
      \/ thatDay = FirstDay(localYear) /\ FirstDay(localYear) = FirstDay(year + 1)
  <2>1. /\ FirstDay(localYear) \in Nat /\ FirstDay(localYear + 1) \in Nat
        /\ today <= thatDay /\ thatDay <= today + 1
    <3>1. FirstDay(localYear) \in Nat /\ FirstDay(localYear + 1) \in Nat
      BY FirstDays
    <3> QED BY <3>1, SMT
  <2>2. CASE localYear < year
    <3>1. FirstDay(localYear + 1) <= FirstDay(year)
      BY <2>2, YearIs
    <3> QED BY <1>2, <2>1, <3>1, SMT
  <2>3. CASE year < localYear
    <3>1. FirstDay(year + 1) <= FirstDay(localYear)
      BY <2>3, YearIs
    <3> QED BY <1>2, <2>1, <3>1, SMT
  <2> QED BY <2>2, <2>3, SMT
<1>4. shouldDSTbeEnabled(month, date, dow, hourUTC)
       <=> \/ month \in 4..9
           \/ month = 3 /\ date > 24 + dow /\ (dow > 0 \/ hourUTC >= 1)
           \/ month = 10 /\ date <= 24 + dow
  BY DEF shouldDSTbeEnabled
<1>5. CASE localYear = year /\ month = 3
  <2>1. thatDay = FirstDay(year) + 59 + leap + date - 1
    <3>1. FirstDay(localYear) = FirstDay(year) /\ MonthStart(localYear, month) = 59 + leap
      BY <1>1, <1>5, Zenon
    <3> QED BY <1>2, <3>1, SMT
  <2>2. season <=> march <= thatDay
    BY <1>1, <1>2, <2>1, SMT
  <2>3. date > 24 + dow <=> march <= thatDay
    BY <1>1, <1>2, <2>1, SMT
  <2>4. march <= thatDay => dow > 0 \/ hourUTC >= 1
    BY <1>1, <1>2, <2>1, SMT
  <2> QED BY <1>4, <1>5, <2>2, <2>3, <2>4, SMT
<1>6. CASE localYear = year /\ month = 10
  <2>1. thatDay = FirstDay(year) + 273 + leap + date - 1
    <3>1. FirstDay(localYear) = FirstDay(year) /\ MonthStart(localYear, month) = 273 + leap
      BY <1>1, <1>6, Zenon
    <3> QED BY <1>2, <3>1, SMT
  <2>2. season <=> thatDay < october
    BY <1>1, <1>2, <2>1, SMT
  <2>3. date <= 24 + dow <=> thatDay < october
    BY <1>1, <1>2, <2>1, SMT
  <2> QED BY <1>4, <1>6, <2>2, <2>3, SMT
<1>7. CASE localYear = year /\ month < 3
  <2>1. thatDay < FirstDay(year) + 59 + leap
    BY <1>1, <1>2, <1>7, SMT
  <2>2. ~season
    BY <1>1, <1>2, <2>1, SMT
  <2> QED BY <1>4, <1>7, <2>2, SMT
<1>8. CASE localYear = year /\ 4 <= month /\ month <= 9
  <2>0. month \in {4, 5, 6, 7, 8, 9}
    BY <1>8, SMT
  <2>1. FirstDay(year) + 90 + leap <= thatDay /\ thatDay < FirstDay(year) + 273 + leap
    BY <1>1, <1>2, <1>8, <2>0, SMT
  <2>2. season
    BY <1>1, <1>2, <2>1, SMT
  <2> QED BY <1>4, <1>8, <2>2, SMT
<1>9. CASE localYear = year /\ month > 10
  <2>0. month \in {11, 12}
    BY <1>9, SMT
  <2>1. FirstDay(year) + 304 + leap <= thatDay
    BY <1>1, <1>2, <1>9, <2>0, SMT
  <2>2. ~season
    BY <1>1, <1>2, <2>1, SMT
  <2> QED BY <1>4, <1>9, <2>2, SMT
<1>10. CASE thatDay = FirstDay(localYear) /\ FirstDay(localYear) = FirstDay(year + 1)
  <2>1. FirstDay(localYear) \in Nat
    BY FirstDays
  <2>2. MonthStart(localYear, month) + date - 1 = 0 /\ MonthStart(localYear, month) \in Nat
    <3>1. MonthStart(localYear, month) \in Nat
      <4>1. month \in {1, 2, 3, 4, 5, 6, 7, 8, 9, 10, 11, 12}
        BY SMT
      <4> QED BY <4>1, DaysBefore, SMT DEF MonthStart
    <3> QED BY <1>10, <2>1, <3>1, SMT
  <2>3. month < 3
    <3>1. month \in {1, 2, 3, 4, 5, 6, 7, 8, 9, 10, 11, 12}
      BY SMT
    <3>2. month > 1 => MonthStart(localYear, month) >= 31
      BY <3>1, DaysBefore, SMT DEF MonthStart
    <3> QED BY <2>2, <3>2, SMT
  <2>4. ~season
    BY <1>1, <1>2, <1>10, SMT
  <2> QED BY <1>4, <2>3, <2>4, SMT
<1> QED BY <1>3, <1>5, <1>6, <1>7, <1>8, <1>9, <1>10, SMT

(* The rule of the code, for the local day and the hour of UTC, is the     *)
(* European one but for the nights of the change: a Sunday after the 24th  *)
(* is the last one of March and of October.                                *)
LEMMA SeasonIsFound ==
    ASSUME NEW t \in Century, NEW shift \in 0..3, NEW march, NEW october,
           IsLastSunday(DateTime(t).y, 3, march), IsLastSunday(DateTime(t).y, 10, october),
           t < 24 * march - 3 \/ 24 * march + 1 < t,
           t < 24 * october - 3 \/ 24 * october + 1 < t
    PROVE  shouldDSTbeEnabled(DateTime(t + shift).m, DateTime(t + shift).d,
                              weekday(t + shift) - 1, t % 24)
           <=> (24 * march + 1 <= t /\ t < 24 * october + 1)
<1>1. t \in Nat /\ t + shift \in Nat
  BY OfCentury, SMT
<1>2. PICK local : local = t + shift
  OBVIOUS
<1>3. PICK date : date = DateTime(local)
  OBVIOUS
<1>4. PICK year : year = DateTime(t).y
  OBVIOUS
<1>5. /\ t \div 24 \in Nat /\ t % 24 \in 0..23 /\ t = 24 * (t \div 24) + (t % 24)
      /\ local \div 24 \in Nat
      /\ 24 * (local \div 24) <= t + shift /\ t + shift < 24 * (local \div 24) + 24
  BY <1>1, <1>2, SMT
<1>6. year \in Nat /\ year = YearOf(t \div 24)
  BY <1>1, <1>4, DateOfHour
<1>7. /\ date.y \in Nat /\ date.y = YearOf(local \div 24)
      /\ date.m \in 1..12 /\ date.d \in 1..31
      /\ local \div 24 = FirstDay(date.y) + MonthStart(date.y, date.m) + date.d - 1
      /\ date.m = 12 \/ local \div 24 < FirstDay(date.y) + MonthStart(date.y, date.m + 1)
  BY <1>1, <1>2, <1>3, DateOfHour
<1>8. /\ FirstDay(year) <= t \div 24 /\ t \div 24 < FirstDay(year + 1)
      /\ FirstDay(date.y) <= local \div 24 /\ local \div 24 < FirstDay(date.y + 1)
  BY <1>5, <1>6, <1>7, YearFound
<1>9. /\ march \in Nat /\ october \in Nat
      /\ FirstDay(year) + MonthStart(year, 3) + 24 <= march
      /\ march <= FirstDay(year) + MonthStart(year, 3) + 30
      /\ FirstDay(year) + MonthStart(year, 10) + 24 <= october
      /\ october <= FirstDay(year) + MonthStart(year, 10) + 30
  BY <1>4 DEF IsLastSunday
<1>10. PICK k3 \in Nat : march + 6 = 7 * k3
  BY DEF IsLastSunday
<1>11. PICK k10 \in Nat : october + 6 = 7 * k10
  BY DEF IsLastSunday
<1>12. PICK thatDay : thatDay = local \div 24
  OBVIOUS
<1>13. PICK q \in Nat, dow \in 0..6 :
         thatDay + 6 = 7 * q + dow /\ (thatDay + 6) % 7 = dow
  <2>1. thatDay \in Nat
    BY <1>5, <1>12
  <2>2. thatDay + 6 \in Nat
    BY <2>1, SMT
  <2> QED BY <2>2, BySeven
<1>14. weekday(local) - 1 = dow
  <2>1. weekday(local) = dow + 1
    BY <1>13, <1>12, Zenon DEF weekday
  <2> QED BY <2>1, SMT
<1>15. PICK today : today = t \div 24
  OBVIOUS
<1>16. PICK hourUTC : hourUTC = t % 24
  OBVIOUS
<1>17. IsPlaced(year, date.y, date.m, date.d, t, shift, today, thatDay, hourUTC, march,
                october, k3, k10, q, dow)
  BY <1>1, <1>5, <1>6, <1>7, <1>8, <1>9, <1>10, <1>11, <1>13, <1>15, <1>12, <1>16, Zenon
     DEF IsPlaced
<1>18. shouldDSTbeEnabled(date.m, date.d, dow, hourUTC)
       <=> (24 * march + 1 <= t /\ t < 24 * october + 1)
  BY <1>17, SeasonOfDay, Zenon
<1> QED BY <1>2, <1>3, <1>14, <1>16, <1>18, Zenon

(* Summer time is the season when it has been looked for, at every stage.  *)
Looked ==
    /\ updated /\ time = now
    /\ param.isAutoDst /\ European /\ ~SwitchingNight
    => isDST = InSeason

LEMMA ChangeIsDue ==
    ASSUME now \in Hours, now \in Century, isDST \in BOOLEAN, time = now, European,
           ~SwitchingNight
    PROVE  isDSTactive <=> isDST /= InSeason
<1>1. PICK year : year = DateTime(now).y
  OBVIOUS
<1>2. year \in 0..99
  <2>1. now \in Nat /\ now \div 24 \in Nat /\ now \div 24 < 36525
    BY OfCentury, SMT
  <2> QED BY <1>1, <2>1, DateOfHour, YearBounds
<1>3. TrueDate[now].y = year
  BY <1>1 DEF TrueDate, Date, Registers
<1>4. PICK march : IsLastSunday(year, 3, march) /\ LastSunday[year][3] = 24 * march
  <2>1. 3 \in {3, 10}
    OBVIOUS
  <2> QED BY <1>2, <2>1, LastSundayIs
<1>5. PICK october : IsLastSunday(year, 10, october) /\ LastSunday[year][10] = 24 * october
  <2>1. 10 \in {3, 10}
    OBVIOUS
  <2> QED BY <1>2, <2>1, LastSundayIs
<1>6. march \in Nat /\ october \in Nat /\ now \in Nat
  BY <1>4, <1>5, OfCentury DEF IsLastSunday
<1>7. /\ now < 24 * march - 3 \/ 24 * march + 1 < now
      /\ now < 24 * october - 3 \/ 24 * october + 1 < now
  <2>1. /\ now \notin (LastSunday[year][3] - 3)..(LastSunday[year][3] + 1)
        /\ now \notin (LastSunday[year][10] - 3)..(LastSunday[year][10] + 1)
    BY <1>3 DEF SwitchingNight
  <2>2. /\ now \notin (24 * march - 3)..(24 * march + 1)
        /\ now \notin (24 * october - 3)..(24 * october + 1)
    BY <1>4, <1>5, <2>1
  <2> QED BY <1>6, <2>2, SMT
<1>8. InSeason <=> 24 * march + 1 <= now /\ now < 24 * october + 1
  BY <1>3, <1>4, <1>5, Zenon DEF InSeason
<1>9. PICK shift \in 0..3 : now + shift = time + zone + IF isDST THEN 1 ELSE 0
  <2>1. zone \in {0, 1, 2}
    BY DEF European
  <2>2. CASE isDST
    <3>1. zone + 1 \in 0..3 /\ now + (zone + 1) = now + zone + 1
      BY <1>6, <2>1, SMT
    <3> QED BY <2>2, <3>1
  <2>3. CASE ~isDST
    <3>1. zone \in 0..3 /\ now + zone = now + zone + 0
      BY <1>6, <2>1, SMT
    <3> QED BY <2>3, <3>1
  <2> QED BY <2>2, <2>3
<1>10. shouldDSTbeEnabled(DateTime(now + shift).m, DateTime(now + shift).d,
                          weekday(now + shift) - 1, now % 24) <=> InSeason
  BY <1>1, <1>4, <1>5, <1>7, <1>8, SeasonIsFound, Zenon
<1>11. shouldDSTbeEnabled(DateTime(now + shift).m, DateTime(now + shift).d,
                          weekday(now + shift) - 1, now % 24) \in BOOLEAN
       /\ InSeason \in BOOLEAN
  BY DEF shouldDSTbeEnabled, InSeason
<1>12. isDSTactive <=>
         shouldDSTbeEnabled(DateTime(now + shift).m, DateTime(now + shift).d,
                            weekday(now + shift) - 1, now % 24) /= isDST
  BY <1>9, Zenon DEF isDSTactive
<1> QED BY <1>10, <1>11, <1>12, Zenon

(* What an RTC reads as that has been without power and has no day yet: it *)
(* is 27 or 28 April 2043, or in the year 2000.                            *)
ReadsFromNoDay(hour) ==
    \E m \in 0..12, h \in 0..23 : hour = unixtime([y |-> 0, m |-> m, d |-> 0, h |-> h])
SetHours == \A hour \in Hours : ~ReadsFromNoDay(hour)

(* The time that a P2 without time takes from the RTC is not the true one. *)
LEMMA RestoredIsWrong ==
    ASSUME ClockAssumption, SetHours, ClockInv, ~isValid, setting = Nothing,
           pc \in {"Startup", "Save", "Loop"}, restoreTimeSettingsFromRam, now' = now
    PROVE  time' /= now'
<1>1. /\ now \in Hours /\ now \in Nat /\ FirstValid \in Nat /\ FirstValid <= now
      /\ time \in Nat
  BY DEF ClockInv, TimeTypeOK, ClockAssumption
<1>2. time /= now
  BY <1>1, SMT DEF isValid
<1>3. time' = IF isRTCSet THEN unixtime(rtc) ELSE time
  BY DEF restoreTimeSettingsFromRam
<1>4. rtc.d = 0 \/ unixtime(rtc) = time
  BY DEF ClockInv, LockStep
<1>5. ASSUME rtc.d = 0 PROVE unixtime(rtc) /= now
  <2>1. rtc.y = 0 /\ rtc.m \in 0..12 /\ rtc.h \in 0..23
    BY <1>5 DEF ClockInv, Written, TimeTypeOK, RegisterValues
  <2>2. PICK date : date = [y |-> 0, m |-> rtc.m, d |-> 0, h |-> rtc.h]
    OBVIOUS
  <2>3. SameDate(rtc, date)
    BY <1>5, <2>1, <2>2 DEF SameDate
  <2>4. unixtime(rtc) = unixtime(date)
    BY <2>3, ReadAlike
  <2>5. ReadsFromNoDay(unixtime(date))
    BY <2>1, <2>2 DEF ReadsFromNoDay
  <2> QED BY <1>1, <2>4, <2>5 DEF SetHours
<1> QED BY <1>2, <1>3, <1>4, <1>5

LEMMA NextLooked ==
    ASSUME ClockAssumption, ProvedHours, SetHours, ClockInv, ClockInv', LocalInv,
           Looked, [Next]_vars
    PROVE  Looked'
<1>1. /\ now \in Hours /\ now \in Century /\ isDST \in BOOLEAN
  BY DEF ClockInv, TimeTypeOK, ProvedHours, LocalInv, LocalTypeOK
<1>2. CASE clockTimeUpdate /\ isValid
  <2>1. now' = now /\ time' = time /\ zone' = zone
    BY <1>2 DEF clockTimeUpdate
  <2>2. SUFFICES ASSUME time = now, param'.isAutoDst, European, ~SwitchingNight
                 PROVE  isDST' = InSeason
    BY <2>1 DEF Looked, European, SwitchingNight, InSeason
  <2>3. isDSTactive <=> isDST /= InSeason
    BY <1>1, <2>2, ChangeIsDue
  <2>4. InSeason \in BOOLEAN
    BY DEF InSeason
  <2>5. CASE param.isAutoDst /\ isDSTactive
    <3>1. isDST' = ~isDST
      BY <1>2, <2>5 DEF clockTimeUpdate
    <3> QED BY <1>1, <2>3, <2>4, <2>5, <3>1
  <2>6. CASE ~(param.isAutoDst /\ isDSTactive)
    <3>1. isDST' = isDST /\ param' = param
      BY <1>2, <2>6 DEF clockTimeUpdate
    <3> QED BY <1>1, <2>2, <2>3, <2>4, <2>6, <3>1
  <2> QED BY <2>5, <2>6
<1>3. CASE clockTimeUpdate /\ ~isValid
  <2>1. /\ now' = now /\ setting = Nothing /\ pc \in {"Startup", "Loop"}
        /\ restoreTimeSettingsFromRam
    BY <1>3 DEF clockTimeUpdate
  <2>2. time' /= now'
    BY <1>3, <2>1, RestoredIsWrong
  <2> QED BY <2>2 DEF Looked
<1>4. CASE \/ Boot \/ PowerReturns \/ SyncArrives \/ checkTimeSync \/ remoteParam \/ HourPasses
           \/ Reset \/ PowerIsLost
  <2>1. CASE Boot \/ PowerReturns
    <3>1. pc' \notin {"Loop", "Save"}
      BY <2>1 DEF Boot, PowerReturns, setupStops, setupStarts, setupMCP7940, setupSetsBattery,
                  Restores
    <3>2. ~updated'
      BY <3>1 DEF ClockInv, Staged
    <3> QED BY <3>2 DEF Looked
  <2>2. CASE ~(Boot \/ PowerReturns)
    <3>1. updated' = FALSE
      BY <1>4, <2>2 DEF SyncArrives, checkTimeSync, remoteParam, HourPasses, Reset, PowerIsLost
    <3> QED BY <3>1 DEF Looked
  <2> QED BY <2>1, <2>2
<1>5. CASE \/ saveTimeSettingsToRam \/ adjustGoesOn \/ checkNetworks \/ ConnectionChanges
           \/ ADayPasses \/ UNCHANGED vars
  <2>1. UNCHANGED <<now, time, zone, isDST, param, updated>>
    BY <1>5 DEF saveTimeSettingsToRam, adjustGoesOn, checkNetworks, ConnectionChanges,
                ADayPasses, vars, localVars
  <2> QED BY <2>1 DEF Looked, European, SwitchingNight, InSeason
<1> QED BY <1>2, <1>3, <1>4, <1>5 DEF Next, Program, World

(* For all zones, bounds and hours of the century but those an RTC without *)
(* a day reads as: an hour in which the automatic change has been looked   *)
(* for has summer time exactly when Europe has it, in every year, whoever  *)
(* has changed zone, flag or clock before and whatever was lost.           *)
THEOREM DaylightIsInSeason ==
    ASSUME ProvedHours, SetHours
    PROVE  Spec => []DaylightInSeason
<1> DEFINE Inv == ClockInv /\ LocalInv /\ Looked
<1>1. Init => Inv
  <2> SUFFICES ASSUME Init PROVE Inv
    OBVIOUS
  <2>1. updated = FALSE
    BY DEF Init
  <2> QED BY <2>1, ClockAssumption, InitClock, InitInStep DEF Looked
<1>2. Inv /\ [Next]_vars => Inv'
  <2> SUFFICES ASSUME Inv, [Next]_vars PROVE Inv'
    OBVIOUS
  <2>1. ClockInv'
    BY ProvedHours, ClockAssumption, NextClock
  <2>2. LocalInv'
    BY NextInStep
  <2>3. Looked'
    BY <2>1, ProvedHours, SetHours, ClockAssumption, NextLooked
  <2> QED BY <2>1, <2>2, <2>3
<1>3. Inv => DaylightInSeason
  BY DEF Looked, DaylightInSeason
<1> QED BY <1>1, <1>2, <1>3, PTL DEF Spec
=============================================================================
