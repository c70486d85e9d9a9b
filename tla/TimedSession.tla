---------------------------- MODULE TimedSession ----------------------------
(***************************************************************************)
(* What a user is promised of a timed charging session, whatever the mains *)
(* does: it is asked for, charges for Period minutes, may be suspended and *)
(* resumed, is never forgotten while suspended, and ends only when its     *)
(* minutes are over. A restart may forget how many minutes were charged,   *)
(* never that there is a session.                                          *)
(***************************************************************************)
EXTENDS Naturals

CONSTANTS
    Period,     \* minutes of a session, a positive number
    Longest     \* bound: minutes are counted up to here, at least Period

VARIABLES
    phase,      \* "none", "charging" or "suspended"
    elapsed     \* minutes charged

sessionVars == <<phase, elapsed>>

-----------------------------------------------------------------------------
OneMore == IF elapsed < Longest THEN elapsed + 1 ELSE elapsed

Init == phase = "none" /\ elapsed = 0

(* A session is asked for; without mains it starts suspended.              *)
Start ==
    /\ phase = "none"
    /\ phase' \in {"charging", "suspended"}
    /\ elapsed' = 0

Minute ==
    /\ phase = "charging"
    /\ elapsed' = OneMore
    /\ UNCHANGED phase

(* The minute that has just passed may be counted on the way.              *)
Suspend ==
    /\ phase = "charging"
    /\ phase' = "suspended"
    /\ elapsed' \in {elapsed, OneMore}

Resume ==
    /\ phase = "suspended"
    /\ phase' = "charging"
    /\ UNCHANGED elapsed

Forget ==
    /\ phase = "suspended"
    /\ elapsed' = 0
    /\ UNCHANGED phase

ResumeFromZero ==
    /\ phase = "suspended"
    /\ phase' = "charging"
    /\ elapsed' = 0

Finish ==
    /\ phase = "charging"
    /\ OneMore >= Period
    /\ phase' = "none"
    /\ elapsed' = 0

Next == Start \/ Minute \/ Suspend \/ Resume \/ Forget \/ ResumeFromZero \/ Finish

Spec == Init /\ [][Next]_sessionVars
=============================================================================
