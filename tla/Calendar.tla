------------------------------ MODULE Calendar ------------------------------
(***************************************************************************)
(* Dates and the rules the firmware computes from them: the arithmetic of  *)
(* the RTC driver (MCP7940), daylight saving and the half hours of the     *)
(* weekly schedule. Time is in hours since 2000-01-01 00:00 UTC, a date is *)
(* a record of what the registers hold.                                    *)
(***************************************************************************)
EXTENDS Naturals, Sequences

daysInMonth == <<31, 28, 31, 30, 31, 30, 31, 31, 30, 31, 30, 31>>

(* The days of a year before month m, which date2days adds up in a loop;   *)
(* an unset RTC has month 0.                                               *)
daysBefore ==
    [m \in 0..12 |->
        IF m = 0 THEN 0
        ELSE <<0, 31, 59, 90, 120, 151, 181, 212, 243, 273, 304, 334>>[m]]

---------------------------------------------------------------------------
(* The driver. Its years are counted from 2000.                            *)

(* A mistake in date2days: the day of a leap year is added from February.  *)
date2days_Leap(y, m, d) ==
    daysBefore[m] + d
    + (IF m > 1 /\ y % 4 = 0 THEN 1 ELSE 0)
    - (IF y % 100 = 0 /\ y % 400 /= 0 THEN 1 ELSE 0)
    + 365 * y + (y + 3) \div 4 - 1

date2days(y, m, d) ==
    daysBefore[m] + d
    + (IF m > 2 /\ y % 4 = 0 THEN 1 ELSE 0)
    - (IF y % 100 = 0 /\ y % 400 /= 0 THEN 1 ELSE 0)
    + 365 * y + (y + 3) \div 4 - 1

(* The constructor DateTime(t): years and then months are counted off.     *)
FirstDay(y) == 365 * y + (y + 3) \div 4
YearOf(days) ==
    CHOOSE y \in (days \div 366)..(days \div 365) :
        FirstDay(y) <= days /\ days < FirstDay(y + 1)
DateTime(hours) ==
    LET days == hours \div 24
        y == YearOf(days)
        ofYear == days - FirstDay(y)
        Before(m) == daysBefore[m] + IF m > 2 /\ y % 4 = 0 THEN 1 ELSE 0
        m == CHOOSE m \in 1..12 :
                 /\ Before(m) <= ofYear
                 /\ m = 12 \/ ofYear < Before(m + 1)
    IN  [y |-> y, m |-> m, d |-> ofYear - Before(m) + 1, h |-> hours % 24]

(* Days are a uint16_t; 2^32 seconds are 1193046 hours and a half.         *)
unixtime(date) ==
    ((24 * ((date2days(date.y, date.m, date.d) + 65536) % 65536)) + date.h) % 1193046

(* The registers hold decimal digits.                                      *)
int2bcd(n) == (n \div 10) * 16 + (n % 10)
bcd2int(b) == (b \div 16) * 10 + (b % 16)

---------------------------------------------------------------------------
(* Local time of Device OS: Time.weekday() counts from Sunday, 1.          *)
weekday(hours) == ((hours \div 24 + 6) % 7) + 1

(* A mistake in shouldDSTbeEnabled: the last Sunday falls after the 25th.  *)
shouldDSTbeEnabled_After25(month, dayOfMonth, dayOfWeek, hour) ==
    \/ month \in 4..9
    \/ month = 3 /\ dayOfMonth > 25 + dayOfWeek /\ (dayOfWeek > 0 \/ hour >= 1)
    \/ month = 10 /\ dayOfMonth <= 25 + dayOfWeek

(* isDSTactive's decision, from the local date and the hour of UTC: the    *)
(* last Sunday of a month falls after the 24th, dayOfWeek is 0 on a Sunday.*)
(* On the last Sunday of October no hour switches it on.                   *)
shouldDSTbeEnabled(month, dayOfMonth, dayOfWeek, hour) ==
    \/ month \in 4..9
    \/ month = 3 /\ dayOfMonth > 24 + dayOfWeek /\ (dayOfWeek > 0 \/ hour >= 1)
    \/ month = 10 /\ dayOfMonth <= 24 + dayOfWeek

---------------------------------------------------------------------------
(* The weekly schedule: a byte for four hours, a bit for half an hour.     *)
Block(day, hour) == 6 * (day - 1) + hour \div 4
Bit(hour, half) == 7 - (2 * (hour % 4) + half)
Period(day, hour, half) == (Block(day, hour) + 1) * (Bit(hour, half) + 1)

(* A schedule is sent as 56 characters of base64, of which the model keeps *)
(* the places in the alphabet; decodeBase64 finds 64 for a character that  *)
(* is not in it. Four characters make three bytes.                         *)
Unpacked(a, b, c, d) == <<
    (4 * a + ((b \div 16) % 4)) % 256,
    ((16 * (b % 16)) + ((c \div 4) % 16)) % 256,
    ((64 * (c % 4)) + (d % 64)) % 256 >>
unpackSchedule(text) ==
    [i \in 1..42 |->
        LET g == 4 * ((i - 1) \div 3)
        IN  Unpacked(text[g + 1], text[g + 2], text[g + 3], text[g + 4])[((i - 1) % 3) + 1]]

(* The sum of 42 bytes fits into 16 bits: it is zero for no schedule only. *)
isEmpty(schedule) == \A i \in 1..42 : schedule[i] = 0
isOn(schedule, day, hour, half) ==
    (schedule[Block(day, hour) + 1] \div 2^Bit(hour, half)) % 2 = 1

(* The last day of a schedule is part of it; an unknown time is past it.   *)
hasScheduleExpired(valid, date, last) ==
    \/ ~valid
    \/ date.y > last.y
    \/ date.y = last.y /\ date.m > last.m
    \/ date.y = last.y /\ date.m = last.m /\ date.d > last.d
hasInvalidSchedule(valid, date, last, schedule) ==
    ~valid \/ hasScheduleExpired(valid, date, last) \/ isEmpty(schedule)
=============================================================================
