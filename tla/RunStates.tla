----------------------------- MODULE RunStates -----------------------------
(***************************************************************************)
(* The numbering the firmware gives to its run states, power states, smart *)
(* charging phases and charge states (the #defines and enums at the top of *)
(* zioxi-trolley2.cpp), and the two pure mappings over run states:         *)
(* onViewRunState, which is what the web application sees and what the     *)
(* command handler tests, and powerOnStateSelection, which picks the first *)
(* run state after a reset.                                                *)
(***************************************************************************)
EXTENDS Naturals

-----------------------------------------------------------------------------
(* Device run states. GOTO states prepare, WEBGOTO states follow a command. *)
D_STARTUP == 0
D_STANDBY == 1
D_TIMED_ON == 3
D_AUTO_OFF == 4
D_AUTO_ON == 5
D_ALWAYS_ON == 6
D_SLEEPING == 7
D_CHARGED_ON == 8
D_CHARGED_ON_USBC == 9
D_GOTOSTANDBY == 21
D_GOTOTIMED_ON == 23
D_GOTOAUTO == 25
D_GOTOALWAYS_ON == 26
D_GOTOSLEEP == 27
D_GOTOCHARGED_ON == 28
D_GOTOCHARGED_ON_USBC == 29
D_CHARGED_ON_AUTO == 78
D_CHARGED_ON_USBC_AUTO == 79
D_RESTART == 88
D_WEBOUCAEXIT == 90
D_WEBGOTORESTART == 91
D_WEBGOTOHARDRESTART == 92
D_WEBGOTOSTANDBY == 93
D_WEBGOTOHIBERNATE == 94
D_WEBGOTOAUTO == 95
D_WEBGOTOCHARGED == 96
D_WEBGOTOON == 97
D_WEBGOTOTIMED == 98
D_WEBOUCAUTO == 99
D_GOTOCHARGED_ON_AUTO == 178
D_GOTOCHARGED_ON_USBC_AUTO == 179
D_WEBGOTOCHARGEDUSBC == 196

(* Stored in prevRunState by the web auto command; not a run state.        *)
AUTOANDOFF == 99

GotoStates ==
    {D_GOTOSTANDBY, D_GOTOTIMED_ON, D_GOTOAUTO, D_GOTOALWAYS_ON, D_GOTOSLEEP,
     D_GOTOCHARGED_ON, D_GOTOCHARGED_ON_USBC, D_GOTOCHARGED_ON_AUTO,
     D_GOTOCHARGED_ON_USBC_AUTO}

WebStates ==
    {D_WEBOUCAEXIT, D_WEBGOTORESTART, D_WEBGOTOHARDRESTART, D_WEBGOTOSTANDBY,
     D_WEBGOTOHIBERNATE, D_WEBGOTOAUTO, D_WEBGOTOCHARGED, D_WEBGOTOON,
     D_WEBGOTOTIMED, D_WEBOUCAUTO, D_WEBGOTOCHARGEDUSBC}

SmartACStates == {D_CHARGED_ON, D_CHARGED_ON_AUTO}
SmartUSBCStates == {D_CHARGED_ON_USBC, D_CHARGED_ON_USBC_AUTO}
AutoStates == {D_AUTO_OFF, D_AUTO_ON}

(* The run states whose controller may hold the outlets on.                *)
ChargingStates ==
    {D_TIMED_ON, D_ALWAYS_ON} \cup AutoStates \cup SmartACStates \cup SmartUSBCStates

DeviceRunStates ==
    {D_STARTUP, D_STANDBY, D_SLEEPING, D_RESTART}
        \cup ChargingStates \cup GotoStates \cup WebStates

-----------------------------------------------------------------------------
(* Power states (0 is the value before the first check), charge states and *)
(* phases of a smart charge.                                               *)
W_MAINS_OFF == 100
W_MAINS_ON == 101
W_CHARGING == 105
PowerStates == {0, W_MAINS_OFF, W_MAINS_ON, W_CHARGING}

C_NOT_CHARGING == 0
C_CHARGING == 1
C_CHARGING_FULL == 2
C_RATE_CHARGING == 7
C_CHARGING_DONE == 9
C_CHARGING_ENDED == 10
ChargeStates == {C_NOT_CHARGING, C_CHARGING, C_CHARGING_FULL, C_RATE_CHARGING,
                 C_CHARGING_DONE, C_CHARGING_ENDED}

ON_UNTIL_OFF == 0
ON_UNTIL_AUTO == 1
ON_UNTIL_USBC == 3
ON_UNTIL_SS == 10
ON_UNTIL_WARM == 20
ON_UNTIL_CHARGE == 50
ON_UNTIL_END == 60
OucStates == {ON_UNTIL_OFF, ON_UNTIL_AUTO, ON_UNTIL_USBC, ON_UNTIL_SS,
              ON_UNTIL_WARM, ON_UNTIL_CHARGE, ON_UNTIL_END}

(* Reasons stored with a suspended session.                                *)
RESUME_MAINS_OFF == 3
RESUME_OVERHEAT == 4
RESTART_WEBCMD == 10
RESTART_HARD_RESET == 88
RESTART_HIBERNATE == 93
RESTART_DEEP_POWER_DOWN == 98
ResumeCauses == {0, RESUME_MAINS_OFF, RESUME_OVERHEAT, RESTART_WEBCMD,
                 RESTART_HARD_RESET, RESTART_HIBERNATE, RESTART_DEEP_POWER_DOWN}

(* The power-on settings (the "pos" parameter).                            *)
POS_LAST == 0
POS_STANDBY == 1
POS_TIMED_ON == 3
POS_CONT_ON == 6
POS_SMART_AC == 7
POS_SMART_USB == 8
PowerOnStates == {POS_LAST, POS_STANDBY, POS_TIMED_ON, POS_CONT_ON,
                  POS_SMART_AC, POS_SMART_USB}

-----------------------------------------------------------------------------
(* What the web application is shown.                                      *)
W_STANDBY == 1
W_TIMED_ON == 3
W_AUTO_OFF == 4
W_AUTO_ON == 5
W_ON == 6
W_SLEEPING == 7
W_CHARGED_ON == 8
W_CHARGED_ON_AUTO == 9
W_CHARGED_ON_USBC == 15
W_CHARGED_ON_USBC_AUTO == 16

onViewRunState(s) ==
    CASE s \in {D_GOTOSLEEP, D_SLEEPING, D_WEBGOTOHIBERNATE} -> W_SLEEPING
      [] s \in {D_WEBGOTOTIMED, D_TIMED_ON, D_GOTOTIMED_ON} -> W_TIMED_ON
      [] s \in {D_WEBGOTOAUTO, D_GOTOAUTO, D_AUTO_OFF} -> W_AUTO_OFF
      [] s = D_AUTO_ON -> W_AUTO_ON
      [] s \in {D_WEBGOTOON, D_GOTOALWAYS_ON, D_ALWAYS_ON} -> W_ON
      [] s \in {D_WEBGOTOCHARGED, D_CHARGED_ON, D_GOTOCHARGED_ON} -> W_CHARGED_ON
      [] s \in {D_WEBGOTOCHARGEDUSBC, D_CHARGED_ON_USBC, D_GOTOCHARGED_ON_USBC} ->
            W_CHARGED_ON_USBC
      [] s \in {D_GOTOCHARGED_ON_AUTO, D_CHARGED_ON_AUTO} -> W_CHARGED_ON_AUTO
      [] s \in {D_GOTOCHARGED_ON_USBC_AUTO, D_CHARGED_ON_USBC_AUTO} ->
            W_CHARGED_ON_USBC_AUTO
      [] OTHER -> W_STANDBY     \* also every state the switch does not list

(* The run state after a reset, from the power-on setting and, for "last   *)
(* state", from the run state saved with the suspended session.            *)
LastStateSelection(resumeState) ==
    CASE resumeState = D_TIMED_ON -> D_GOTOTIMED_ON
      [] resumeState = D_ALWAYS_ON -> D_GOTOALWAYS_ON
      [] resumeState \in AutoStates -> D_GOTOAUTO
      [] resumeState \in SmartACStates -> D_GOTOCHARGED_ON
      [] resumeState \in SmartUSBCStates -> D_GOTOCHARGED_ON_USBC
      [] OTHER -> D_GOTOSTANDBY

powerOnStateSelection(powerOnState, resumeState) ==
    CASE powerOnState = POS_LAST -> LastStateSelection(resumeState)
      [] powerOnState = POS_STANDBY -> D_GOTOSTANDBY
      [] powerOnState = POS_TIMED_ON -> D_GOTOTIMED_ON
      [] powerOnState = POS_SMART_AC -> D_GOTOCHARGED_ON
      [] powerOnState = POS_SMART_USB -> D_GOTOCHARGED_ON_USBC
      [] OTHER -> D_GOTOALWAYS_ON
=============================================================================
