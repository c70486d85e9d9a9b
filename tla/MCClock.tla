------------------------------ MODULE MCClock ------------------------------
(***************************************************************************)
(* Instance of Clock: hours around the two changes of the season, one of   *)
(* them on a 25th, a Sunday that is not the last of its month, a leap      *)
(* day and a new year.                                                     *)
(***************************************************************************)
EXTENDS Clock

(* Days since 2000-01-01, the first hour and how many.                     *)
From(day, hour, hours) == (24 * day + hour)..(24 * day + hour + hours - 1)
Windows == {
    From(8825, 23, 2),   \* 2024-02-29
    From(8855, 20, 1),   \* 2024-03-30
    From(8855, 23, 4),   \* 2024-03-30
    From(9131, 23, 2),   \* 2024-12-31
    From(9787, 2, 1),   \* 2026-10-18
    From(9793, 20, 1),   \* 2026-10-24
    From(9793, 22, 5)}   \* 2026-10-24
MCHours == UNION Windows
MCStarts == {hour \in MCHours : hour - 1 \notin MCHours}
MCFirstValid == 24 * 6575     \* 2018-01-01
=============================================================================
