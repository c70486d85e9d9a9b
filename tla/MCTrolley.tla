----------------------------- MODULE MCTrolley -----------------------------
(***************************************************************************)
(* The instances of the trolley that TLC checks: named values for the      *)
(* constants of the configurations.                                        *)
(***************************************************************************)
EXTENDS TrolleyProperties

(* The waits between the first and the last supply check of a sleep.       *)
ArmingSleep == {"queue", "confirm", "wake"}
NoWaits == {}

(* No run needs "warm": the temperature changes at every step, and a warm  *)
(* board is taken for hot while the flag stands and for cool otherwise.    *)
Cool == {"cool"}
CoolAndHot == {"cool", "hot"}

NoSchedule == {"off"}
AlwaysOn == {"on"}
HalfHours == {"off", "on"}
AnySchedule == {"off", "on", "expired", "invalid"}
=============================================================================
