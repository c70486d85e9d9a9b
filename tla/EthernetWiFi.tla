---------------------------- MODULE EthernetWiFi ----------------------------
(***************************************************************************)
(* The EthernetWiFi library: it tries Ethernet, falls back to Wi-Fi, goes  *)
(* back to Ethernet, and stays off in local mode. One operator per state   *)
(* handler; loop() runs the handler of the pass. Time is in minutes since  *)
(* stateTime was set.                                                      *)
(***************************************************************************)
EXTENDS Naturals, DeviceNetwork

CONSTANTS           \* timeouts, in minutes
    EthernetConnectTimeout, EthernetCloudConnectTimeout,
    WiFiConnectTimeout, WiFiCloudConnectTimeout, RetryEthernetPeriod

ASSUME TimeoutAssumption ==
    {EthernetConnectTimeout, EthernetCloudConnectTimeout,
     WiFiConnectTimeout, WiFiCloudConnectTimeout,
     RetryEthernetPeriod} \subseteq Nat

VARIABLES
    stateHandler,
    activeInterface,
    automaticSelection,
    ethernetPresent,    \* read in stateStart
    fitted,             \* an Ethernet adapter is fitted
    minutes             \* since stateTime

selectionVars == <<stateHandler, activeInterface, ethernetPresent, minutes>>

ActiveInterface == {"OFF", "NONE", "ETHERNET", "WIFI"}
StateHandlers ==
    {"Start", "TryEthernet", "WaitEthernetReady", "WaitEthernetCloud",
     "EthernetCloudConnected", "TryWiFi", "WaitWiFiReady", "WaitWiFiCloud",
     "WiFiCloudConnected", "WiFiWaitDisconnectedThenTryEthernet",
     "DoNotConnect"}

SelectionTypeOK ==
    /\ stateHandler \in StateHandlers
    /\ activeInterface \in ActiveInterface
    /\ automaticSelection \in BOOLEAN /\ ethernetPresent \in BOOLEAN
    /\ fitted \in BOOLEAN
    /\ minutes \in Nat

Goto(handler) == stateHandler' = handler
Report(interface) == activeInterface' = interface
ReportKept == activeInterface' = activeInterface
StateTimeNow == minutes' = 0
StateTimeKept == minutes' = minutes
Switches(on, off) ==
    Switched(on, off) /\ UNCHANGED <<ethernetPresent, connected, reach, credentials>>
NoSwitch == Switches({}, {})
TimedOut(timeout) == minutes >= timeout

(* A mistake in LeaveTo: the interface is reported as not connected.       *)
LeaveTo_NotOff(off) ==
    /\ Report("NONE") /\ Goto("DoNotConnect")
    /\ Switches({}, off) /\ StateTimeKept

(* The way into local mode from every handler that looks at the selection. *)
LeaveTo(off) ==
    /\ Report("OFF") /\ Goto("DoNotConnect")
    /\ Switches({}, off) /\ StateTimeKept

stateStart ==
    /\ ethernetPresent' = fitted
    /\ IF automaticSelection
       THEN Goto(IF fitted THEN "TryEthernet" ELSE "TryWiFi") /\ ReportKept
       ELSE Goto("DoNotConnect") /\ Report("OFF")
    /\ StateTimeKept
    /\ UNCHANGED networkVars

(* The two tries do not look at the selection: in local mode they still    *)
(* switch their adapter on, for the pass until the next handler.           *)
stateTryEthernet ==
    /\ Report("NONE") /\ StateTimeNow
    /\ Switches({"Ethernet"}, {"WiFi"}) /\ CloudKept
    /\ Goto("WaitEthernetReady")

(* A mistake in stateTryWiFi: Ethernet stays on.                           *)
stateTryWiFi_KeepsEthernet ==
    /\ Report("NONE") /\ StateTimeNow
    /\ Switches({"WiFi"}, {}) /\ CloudKept
    /\ Goto("WaitWiFiReady")

stateTryWiFi ==
    /\ Report("NONE") /\ StateTimeNow
    /\ Switches({"WiFi"}, {"Ethernet"}) /\ CloudKept
    /\ Goto("WaitWiFiReady")

Stays == UNCHANGED <<selectionVars, networkVars>>

(* A mistake in stateWaitEthernetReady: it waits for Ethernet for ever.    *)
stateWaitEthernetReady_Endless ==
    \/ /\ ~automaticSelection
       /\ LeaveTo({"Ethernet"}) /\ CloudKept
    \/ /\ automaticSelection /\ Ready("Ethernet")
       /\ Report("ETHERNET") /\ Goto("WaitEthernetCloud")
       /\ NoSwitch /\ CloudCalled(TRUE) /\ StateTimeKept
    \/ automaticSelection /\ ~Ready("Ethernet") /\ Stays

stateWaitEthernetReady ==
    \/ /\ ~automaticSelection
       /\ LeaveTo({"Ethernet"}) /\ CloudKept
    \/ /\ automaticSelection /\ Ready("Ethernet")
       /\ Report("ETHERNET") /\ Goto("WaitEthernetCloud")
       /\ NoSwitch /\ CloudCalled(TRUE) /\ StateTimeKept
    \/ /\ automaticSelection /\ ~Ready("Ethernet")
       /\ TimedOut(EthernetConnectTimeout)
       /\ Report("NONE") /\ Goto("TryWiFi")
       /\ NoSwitch /\ CloudKept /\ StateTimeKept
    \/ /\ automaticSelection /\ ~Ready("Ethernet")
       /\ ~TimedOut(EthernetConnectTimeout)
       /\ Stays

stateWaitEthernetCloud ==
    \/ /\ ~automaticSelection
       /\ LeaveTo({"Ethernet"}) /\ CloudKept
    \/ /\ automaticSelection /\ connected
       /\ Report("ETHERNET") /\ Goto("EthernetCloudConnected")
       /\ NoSwitch /\ CloudKept /\ StateTimeNow
    \/ /\ automaticSelection /\ ~connected
       /\ TimedOut(EthernetCloudConnectTimeout)
       /\ Goto("TryWiFi") /\ ReportKept
       /\ Switches({}, {"Ethernet"}) /\ CloudCalled(FALSE) /\ StateTimeKept
    \/ /\ automaticSelection /\ ~connected
       /\ ~TimedOut(EthernetCloudConnectTimeout)
       /\ Stays

stateEthernetCloudConnected ==
    \/ /\ ~automaticSelection
       /\ LeaveTo({"Ethernet"}) /\ CloudCalled(FALSE)
    \/ /\ automaticSelection /\ ~connected
       /\ Report("NONE") /\ Goto("WaitEthernetCloud")
       /\ NoSwitch /\ CloudKept /\ StateTimeNow
    \/ automaticSelection /\ connected /\ Stays

(* The adapter that was connecting stays switched on in local mode.        *)
stateWaitWiFiReady ==
    \/ /\ ~automaticSelection
       /\ LeaveTo({}) /\ CloudKept
    \/ /\ automaticSelection /\ Ready("WiFi")
       /\ Report("WIFI") /\ Goto("WaitWiFiCloud")
       /\ NoSwitch /\ CloudCalled(TRUE) /\ StateTimeKept
    \/ /\ automaticSelection /\ ~Ready("WiFi")
       /\ TimedOut(WiFiConnectTimeout) /\ ethernetPresent
       /\ Report("NONE") /\ Goto("TryEthernet")
       /\ NoSwitch /\ CloudKept /\ StateTimeKept
    \/ /\ automaticSelection /\ ~Ready("WiFi")
       /\ ~(TimedOut(WiFiConnectTimeout) /\ ethernetPresent)
       /\ Stays

stateWaitWiFiCloud ==
    \/ /\ ~automaticSelection
       /\ LeaveTo({"WiFi"}) /\ CloudCalled(FALSE)
    \/ /\ automaticSelection /\ connected
       /\ Report("WIFI") /\ Goto("WiFiCloudConnected")
       /\ NoSwitch /\ CloudKept /\ StateTimeNow
    \/ /\ automaticSelection /\ ~connected
       /\ TimedOut(WiFiCloudConnectTimeout) /\ ethernetPresent
       /\ Report("NONE") /\ Goto("TryEthernet")
       /\ NoSwitch /\ CloudCalled(FALSE) /\ StateTimeKept
    \/ /\ automaticSelection /\ ~connected
       /\ ~(TimedOut(WiFiCloudConnectTimeout) /\ ethernetPresent)
       /\ Stays

stateWiFiCloudConnected ==
    \/ /\ ~automaticSelection
       /\ LeaveTo({"WiFi"}) /\ CloudCalled(FALSE)
    \/ /\ automaticSelection /\ ~connected
       /\ Report("NONE") /\ Goto("WaitWiFiCloud")
       /\ NoSwitch /\ CloudKept /\ StateTimeNow
    \/ /\ automaticSelection /\ connected
       /\ TimedOut(RetryEthernetPeriod) /\ ethernetPresent
       /\ Report("NONE") /\ Goto("WiFiWaitDisconnectedThenTryEthernet")
       /\ NoSwitch /\ CloudCalled(FALSE) /\ StateTimeKept
    \/ /\ automaticSelection /\ connected
       /\ ~(TimedOut(RetryEthernetPeriod) /\ ethernetPresent)
       /\ Stays

stateWiFiWaitDisconnectedThenTryEthernet ==
    \/ /\ ~automaticSelection
       /\ LeaveTo({"WiFi"}) /\ CloudCalled(FALSE)
    \/ /\ automaticSelection /\ ~connected
       /\ Goto("TryEthernet") /\ ReportKept
       /\ NoSwitch /\ CloudKept /\ StateTimeKept
    \/ automaticSelection /\ connected /\ Stays

stateDoNotConnect ==
    \/ /\ automaticSelection
       /\ Report("NONE") /\ Goto("Start")
       /\ NoSwitch /\ CloudKept /\ StateTimeKept
    \/ ~automaticSelection /\ Stays

(* loop(): automaticSelection is only set from outside.                    *)
EthernetWiFiLoop ==
    /\ \/ stateHandler = "Start" /\ stateStart
       \/ stateHandler = "TryEthernet" /\ stateTryEthernet
       \/ stateHandler = "WaitEthernetReady" /\ stateWaitEthernetReady
       \/ stateHandler = "WaitEthernetCloud" /\ stateWaitEthernetCloud
       \/ stateHandler = "EthernetCloudConnected" /\ stateEthernetCloudConnected
       \/ stateHandler = "TryWiFi" /\ stateTryWiFi
       \/ stateHandler = "WaitWiFiReady" /\ stateWaitWiFiReady
       \/ stateHandler = "WaitWiFiCloud" /\ stateWaitWiFiCloud
       \/ stateHandler = "WiFiCloudConnected" /\ stateWiFiCloudConnected
       \/ /\ stateHandler = "WiFiWaitDisconnectedThenTryEthernet"
          /\ stateWiFiWaitDisconnectedThenTryEthernet
       \/ stateHandler = "DoNotConnect" /\ stateDoNotConnect
    /\ UNCHANGED <<automaticSelection, fitted>>

SelectionBoots ==
    /\ stateHandler = "Start" /\ activeInterface = "NONE"
    /\ ethernetPresent = FALSE /\ minutes = 0

(* The handler of the next pass waits for something still to come.         *)
Waiting ==
    \/ stateHandler = "WaitEthernetReady" /\ ~Ready("Ethernet")
    \/ stateHandler = "WaitWiFiReady" /\ ~Ready("WiFi")
    \/ stateHandler \in {"WaitEthernetCloud", "WaitWiFiCloud"} /\ ~connected
    \/ stateHandler = "WiFiCloudConnected" /\ connected

(* A minute passes, where a handler can tell.                              *)
TimeoutOf ==
    [h \in StateHandlers |->
        CASE h = "WaitEthernetReady" -> EthernetConnectTimeout
          [] h = "WaitEthernetCloud" -> EthernetCloudConnectTimeout
          [] h = "WaitWiFiReady" -> WiFiConnectTimeout
          [] h = "WaitWiFiCloud" -> WiFiCloudConnectTimeout
          [] h = "WiFiCloudConnected" -> RetryEthernetPeriod
          [] OTHER -> 0]
MinutePasses ==
    /\ minutes < TimeoutOf[stateHandler]
    /\ minutes' = minutes + 1
    /\ UNCHANGED <<stateHandler, activeInterface, automaticSelection,
                   ethernetPresent, fitted, networkVars>>
=============================================================================
