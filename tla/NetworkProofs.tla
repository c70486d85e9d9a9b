--------------------------- MODULE NetworkProofs ---------------------------
(***************************************************************************)
(* What holds of the trolley's connection for all timeouts, reaches,       *)
(* messages and bounds: the types, AdapterFollowsHandler, LocalSurvives    *)
(* and, if the watchdog outlasts both waits of the BLE manager,            *)
(* ManagerFitsWatchdog.                                                    *)
(***************************************************************************)
EXTENDS Network, TLAPS

---------------------------------------------------------------------------
(* The invariant.                                                          *)

(* A pass that parses a message has one.                                   *)
MessageIsThere ==
    /\ config_state = "PARSE_MSG" => device_receive_msg_queue > 0
    /\ pc = "Parse" => config_state = "PARSE_MSG"

(* What checkNetworks is about to store as the mode is the chosen one, or  *)
(* the library has just begun to try an adapter.                           *)
Agreed ==
    \/ activeInterface = "OFF" \/ automaticSelection
    \/ stateHandler \in {"WaitEthernetReady", "WaitWiFiReady"}
CheckAgrees == pc = "Check" => Agreed

Library == NetworkTypeOK /\ SelectionTypeOK /\ AdapterFollowsHandler
NetworkInv == NetworkOK /\ MessageIsThere /\ AdapterFollowsHandler /\ CheckAgrees

LEMMA InitNetwork == Init => NetworkInv
<1> SUFFICES ASSUME Init PROVE NetworkInv
  OBVIOUS
<1> USE DEF Init, Boots
<1>1. NetworkTypeOK
  BY DEF NetworkBoots, NetworkTypeOK
<1>2. SelectionTypeOK /\ AdapterFollowsHandler
  BY DEF SelectionBoots, SelectionTypeOK, StateHandlers, ActiveInterface,
     AdapterFollowsHandler, EthernetHandlers, WiFiHandlers
<1>3. SetupTypeOK /\ MessageIsThere /\ CheckAgrees
  <2>1. provision_state \in {"IDLE", "CREDENTIALS"}
    BY DEF SetupBoots
  <2>2. 0 \in 0..MaxMessages
    BY SetupAssumption
  <2> QED
    BY <2>1, <2>2 DEF SetupBoots, SetupTypeOK, Places, MessageIsThere, CheckAgrees
<1> QED
  BY <1>1, <1>2, <1>3 DEF NetworkInv, NetworkOK

---------------------------------------------------------------------------
(* The handlers switch adapters, and call the cloud, in few ways.          *)
LEMMA SwitchesAreTyped ==
    ASSUME NetworkTypeOK, NEW on \in SUBSET Adapters, NEW off \in SUBSET Adapters,
           Switches(on, off), CloudKept \/ CloudCalled(TRUE) \/ CloudCalled(FALSE)
    PROVE  NetworkTypeOK'
<1>1. reach' \in [Adapters -> Reaches] /\ wanted' \subseteq Adapters /\ up' \subseteq wanted'
  BY DEF NetworkTypeOK, Switches, Switched
<1>2. cloudWanted' \in BOOLEAN
  BY DEF NetworkTypeOK, CloudKept, CloudCalled
<1>3. connected' \in BOOLEAN /\ credentials' \in BOOLEAN
  BY DEF NetworkTypeOK, Switches
<1> QED
  BY <1>1, <1>2, <1>3 DEF NetworkTypeOK

LEMMA HandlersSwitch ==
    ASSUME NetworkTypeOK, EthernetWiFiLoop
    PROVE  NetworkTypeOK'
<1>1. \/ UNCHANGED networkVars
      \/ \E on \in SUBSET Adapters, off \in SUBSET Adapters :
            /\ Switches(on, off)
            /\ CloudKept \/ CloudCalled(TRUE) \/ CloudCalled(FALSE)
  BY DEF EthernetWiFiLoop, stateStart, stateTryEthernet, stateWaitEthernetReady,
     stateWaitEthernetCloud, stateEthernetCloudConnected, stateTryWiFi,
     stateWaitWiFiReady, stateWaitWiFiCloud, stateWiFiCloudConnected,
     stateWiFiWaitDisconnectedThenTryEthernet, stateDoNotConnect, Adapters,
     LeaveTo, NoSwitch, Stays
<1>2. CASE UNCHANGED networkVars
  BY <1>2 DEF networkVars, NetworkTypeOK
<1> QED
  BY <1>1, <1>2, SwitchesAreTyped

(* Every handler of the library keeps its types and AdapterFollowsHandler, *)
(* and leaves OFF or a begun try behind when local mode is chosen.         *)
LEMMA HandlersFollow ==
    ASSUME Library, EthernetWiFiLoop
    PROVE  Library' /\ Agreed'
<1> DEFINE Follows ==
      /\ stateHandler' \in StateHandlers /\ activeInterface' \in ActiveInterface
      /\ ethernetPresent' \in BOOLEAN /\ minutes' \in Nat
      /\ AdapterFollowsHandler' /\ Agreed'
<1>1. /\ automaticSelection' = automaticSelection /\ fitted' = fitted
      /\ SelectionTypeOK /\ AdapterFollowsHandler
  BY DEF EthernetWiFiLoop, Library
<1>2. Follows
  <2> USE DEF SelectionTypeOK, AdapterFollowsHandler, Agreed, StateHandlers,
              ActiveInterface, EthernetHandlers, WiFiHandlers, networkVars,
              selectionVars, Stays, NoSwitch, Switches, Switched, Goto, Report,
              ReportKept, StateTimeNow, StateTimeKept, LeaveTo
  <2>1. CASE stateHandler = "Start" /\ stateStart
    BY <1>1, <2>1 DEF stateStart
  <2>2. CASE stateHandler = "TryEthernet" /\ stateTryEthernet
    BY <1>1, <2>2 DEF stateTryEthernet
  <2>3. CASE stateHandler = "WaitEthernetReady" /\ stateWaitEthernetReady
    BY <1>1, <2>3 DEF stateWaitEthernetReady
  <2>4. CASE stateHandler = "WaitEthernetCloud" /\ stateWaitEthernetCloud
    <3>1. \/ ~automaticSelection /\ LeaveTo({"Ethernet"})
          \/ /\ automaticSelection /\ Report("ETHERNET") /\ Goto("EthernetCloudConnected")
             /\ NoSwitch /\ StateTimeNow
          \/ /\ automaticSelection /\ Goto("TryWiFi") /\ ReportKept
             /\ Switches({}, {"Ethernet"}) /\ StateTimeKept
          \/ automaticSelection /\ Stays
      BY <2>4, Zenon DEF stateWaitEthernetCloud
    <3> QED BY <1>1, <2>4, <3>1
  <2>5. CASE stateHandler = "EthernetCloudConnected" /\ stateEthernetCloudConnected
    <3>1. \/ ~automaticSelection /\ LeaveTo({"Ethernet"})
          \/ /\ automaticSelection /\ Report("NONE") /\ Goto("WaitEthernetCloud")
             /\ NoSwitch /\ StateTimeNow
          \/ automaticSelection /\ Stays
      BY <2>5, Zenon DEF stateEthernetCloudConnected
    <3> QED BY <1>1, <2>5, <3>1
  <2>6. CASE stateHandler = "TryWiFi" /\ stateTryWiFi
    BY <1>1, <2>6 DEF stateTryWiFi
  <2>7. CASE stateHandler = "WaitWiFiReady" /\ stateWaitWiFiReady
    BY <1>1, <2>7 DEF stateWaitWiFiReady
  <2>8. CASE stateHandler = "WaitWiFiCloud" /\ stateWaitWiFiCloud
    <3>1. \/ ~automaticSelection /\ LeaveTo({"WiFi"})
          \/ /\ automaticSelection /\ Report("WIFI") /\ Goto("WiFiCloudConnected")
             /\ NoSwitch /\ StateTimeNow
          \/ /\ automaticSelection /\ Report("NONE") /\ Goto("TryEthernet")
             /\ NoSwitch /\ StateTimeKept
          \/ automaticSelection /\ Stays
      BY <2>8, Zenon DEF stateWaitWiFiCloud
    <3> QED BY <1>1, <2>8, <3>1
  <2>9. CASE stateHandler = "WiFiCloudConnected" /\ stateWiFiCloudConnected
    <3>1. \/ ~automaticSelection /\ LeaveTo({"WiFi"})
          \/ /\ automaticSelection /\ Report("NONE") /\ Goto("WaitWiFiCloud")
             /\ NoSwitch /\ StateTimeNow
          \/ /\ automaticSelection /\ Report("NONE")
             /\ Goto("WiFiWaitDisconnectedThenTryEthernet")
             /\ NoSwitch /\ StateTimeKept
          \/ automaticSelection /\ Stays
      BY <2>9, Zenon DEF stateWiFiCloudConnected
    <3> QED BY <1>1, <2>9, <3>1
  <2>10. CASE /\ stateHandler = "WiFiWaitDisconnectedThenTryEthernet"
              /\ stateWiFiWaitDisconnectedThenTryEthernet
    BY <1>1, <2>10 DEF stateWiFiWaitDisconnectedThenTryEthernet
  <2>11. CASE stateHandler = "DoNotConnect" /\ stateDoNotConnect
    BY <1>1, <2>11 DEF stateDoNotConnect
  <2> QED
    BY <2>1, <2>2, <2>3, <2>4, <2>5, <2>6, <2>7, <2>8, <2>9, <2>10, <2>11
    DEF EthernetWiFiLoop
<1> QED
  BY <1>1, <1>2, HandlersSwitch DEF Library, SelectionTypeOK

(* Outside the library, the interface changes only with a reset; an        *)
(* adapter is switched only by the phone and the provisioning, and only    *)
(* Wi-Fi.                                                                  *)
LEMMA LibraryKept ==
    ASSUME Library, automaticSelection' \in BOOLEAN, SelectionTypeOK,
           UNCHANGED <<selectionVars, fitted>>, NetworkTypeOK',
           "Ethernet" \in wanted' <=> "Ethernet" \in wanted
    PROVE  Library'
BY DEF Library, SelectionTypeOK, AdapterFollowsHandler, selectionVars,
       EthernetHandlers, WiFiHandlers

LEMMA ConnectsAreTyped ==
    ASSUME NetworkTypeOK, ConnectWiFi \/ ConnectCloud \/ NetworkKept
    PROVE  NetworkTypeOK' /\ ("Ethernet" \in wanted' <=> "Ethernet" \in wanted)
BY DEF NetworkTypeOK, ConnectWiFi, ConnectCloud, NetworkKept, networkVars,
       Switched, Adapters

(* Where each kind of step leaves the place in the pass.                   *)
LEMMA ToManagerTyped ==
    ASSUME NetworkOK, MessageIsThere, ToManager,
           UNCHANGED device_receive_msg_queue
    PROVE  /\ pc' \in {"Parse", "Provision"} /\ waited' \in Nat /\ busy' \in Nat
           /\ config_state' \in {"SETUP", "IDLE", "PARSE_MSG"}
           /\ MessageIsThere'
BY DEF NetworkOK, SetupTypeOK, MessageIsThere, ToManager, GoOn

---------------------------------------------------------------------------
(* The steps.                                                              *)

LEMMA LoopFollows ==
    ASSUME NetworkInv, NEW checks \in BOOLEAN, LoopStarts(checks)
    PROVE  NetworkInv'
<1>1. Library' /\ Agreed'
  BY HandlersFollow DEF LoopStarts, NetworkInv, NetworkOK, Library
<1>2. SetupTypeOK' /\ MessageIsThere'
  <2>1. CASE checks
    BY <2>1 DEF LoopStarts, GoOn, NetworkInv, NetworkOK, SetupTypeOK,
                MessageIsThere, bleVars, Places
  <2>2. CASE ~checks
    BY <2>2, ToManagerTyped DEF LoopStarts, NetworkInv, NetworkOK, SetupTypeOK,
                bleVars, Places
  <2> QED BY <2>1, <2>2
<1> QED
  BY <1>1, <1>2 DEF NetworkInv, NetworkOK, Library, CheckAgrees, LoopStarts, checkVars

LEMMA CheckFollows == ASSUME NetworkInv, checkNetworks PROVE NetworkInv'
<1>1. NetworkTypeOK' /\ ("Ethernet" \in wanted' <=> "Ethernet" \in wanted)
  BY ConnectsAreTyped DEF checkNetworks, NetworkInv, NetworkOK, NetworkKept, networkVars
<1>2. Library'
  BY <1>1, LibraryKept DEF checkNetworks, SelectionKept, NetworkInv, NetworkOK,
     Library, SelectionTypeOK
<1>3. /\ pc' \in {"Parse", "Provision"} /\ SetupTypeOK' /\ MessageIsThere'
  BY ToManagerTyped DEF checkNetworks, NetworkInv, NetworkOK, SetupTypeOK,
     bleVars, Places
<1>4. {isLocalMode', wasNotCalledConnect'} \subseteq BOOLEAN
  BY DEF checkNetworks, NetworkInv, NetworkOK
<1> QED
  BY <1>2, <1>3, <1>4 DEF NetworkInv, NetworkOK, Library, CheckAgrees

LEMMA ParseFollows ==
    ASSUME NetworkInv, ManagerParses, UNCHANGED checkVars
    PROVE  NetworkInv'
<1> USE DEF NetworkInv, NetworkOK, SelectionKept, GoOn
<1>1. PICK m \in Messages : parse_message(m)
  BY DEF ManagerParses
<1>2. /\ UNCHANGED <<selectionVars, fitted>> /\ automaticSelection' \in BOOLEAN
      /\ pc' \in {"WapWait", "Provision"} /\ waited' = 0 /\ busy' = busy
      /\ provision_state' \in {provision_state, "PROVISIONED"}
  BY <1>1 DEF parse_message, SetCredentials, RefusedCredentials, ClearCredentials, SetMode,
     NetworkKept, SelectionTypeOK
<1>3. NetworkTypeOK' /\ ("Ethernet" \in wanted' <=> "Ethernet" \in wanted)
  BY <1>1 DEF parse_message, SetCredentials, RefusedCredentials, ClearCredentials, SetMode,
     NetworkKept, networkVars, NetworkTypeOK, Switched, Adapters
<1>4. Library'
  BY <1>2, <1>3, LibraryKept DEF Library
<1>5. device_receive_msg_queue' \in Nat
  BY SMT DEF ManagerParses, MessageIsThere, SetupTypeOK
<1>6. SetupTypeOK' /\ MessageIsThere'
  BY <1>2, <1>5 DEF ManagerParses, SetupTypeOK, MessageIsThere, Places, bleVars
<1> QED
  BY <1>2, <1>4, <1>6 DEF Library, CheckAgrees, checkVars

(* Steps of the waits and of wifiProvisioning.                             *)
LEMMA ProvisionFollows ==
    ASSUME NetworkInv, UNCHANGED checkVars, SelectionKept,
           ConnectWiFi \/ ConnectCloud \/ NetworkKept,
           UNCHANGED <<managerVars, sent, bleConnected>>,
           pc' \in Places \ {"Check", "Parse"},
           waited' \in Nat, busy' \in Nat,
           provision_state' \in {provision_state, "IDLE"},
           wasBLEConnected' \in BOOLEAN, wasBLEinformed' \in BOOLEAN
    PROVE  NetworkInv'
<1> USE DEF NetworkInv, NetworkOK
<1>1. NetworkTypeOK' /\ ("Ethernet" \in wanted' <=> "Ethernet" \in wanted)
  BY ConnectsAreTyped
<1>2. Library'
  BY <1>1, LibraryKept DEF SelectionKept, Library, SelectionTypeOK
<1>3. SetupTypeOK' /\ MessageIsThere'
  BY DEF SetupTypeOK, MessageIsThere, managerVars
<1> QED
  BY <1>2, <1>3 DEF Library, CheckAgrees, checkVars

LEMMA SetupFollows == ASSUME NetworkInv, SetupSteps PROVE NetworkInv'
<1> USE DEF GoOn, PassEnds, cloudConnected, Places, bleVars
<1>0. UNCHANGED checkVars /\ SetupTypeOK
  BY DEF SetupSteps, NetworkInv, NetworkOK
<1>1. CASE ManagerParses
  BY <1>0, <1>1, ParseFollows
<1>2. CASE ManagerWaitEnds
  <2>1. /\ pc' \in {"CloudWait", "Provision"} /\ waited' = 0 /\ busy' = busy
        /\ ConnectCloud \/ NetworkKept
    BY <1>2 DEF ManagerWaitEnds
  <2> QED
    BY <1>0, <1>2, <2>1, ProvisionFollows DEF ManagerWaitEnds, SetupTypeOK
<1>3. CASE wifiProvisioning(isLocalMode)
  <2>1. /\ pc' \in {"ConnectWait", "CredentialsWait", "Loop"}
        /\ waited' = 0 /\ busy' \in {busy, 0}
        /\ ConnectCloud \/ ConnectWiFi \/ NetworkKept
        /\ provision_state' \in {provision_state, "IDLE"}
    BY <1>3 DEF wifiProvisioning, ProvisionIdle, ProvisionProvisioned,
       ProvisionCredentials
  <2>2. wasBLEConnected' \in BOOLEAN /\ wasBLEinformed' \in BOOLEAN
    BY <1>0, <1>3 DEF wifiProvisioning, ProvisionIdle, ProvisionProvisioned,
       ProvisionCredentials, SetupTypeOK
  <2> QED
    BY <1>0, <1>3, <2>1, <2>2, ProvisionFollows DEF wifiProvisioning, SetupTypeOK
<1>4. CASE ProvisionWaitEnds
  <2>1. /\ pc' \in {"ConnectWait", "Loop"} /\ waited' = 0 /\ busy' \in {busy, 0}
        /\ ConnectCloud \/ NetworkKept
        /\ provision_state' \in {provision_state, "IDLE"}
    BY <1>4 DEF ProvisionWaitEnds
  <2> QED
    BY <1>0, <1>4, <2>1, ProvisionFollows DEF ProvisionWaitEnds, SetupTypeOK
<1> QED
  BY <1>1, <1>2, <1>3, <1>4 DEF SetupSteps

LEMMA WaitFollows == ASSUME NetworkInv, WaitGoesOn PROVE NetworkInv'
<1>1. SetupTypeOK /\ UNCHANGED <<checkVars, provision_state, bleVars>>
  BY DEF WaitGoesOn, Waits, NetworkInv, NetworkOK
<1>2. pc' \in Places \ {"Check", "Parse"} /\ waited' \in Nat /\ busy' \in Nat
  BY <1>1 DEF WaitGoesOn, Waits, WaitingPlaces, Places, SetupTypeOK
<1> QED
  BY <1>1, <1>2, ProvisionFollows DEF WaitGoesOn, Waits, SetupTypeOK, bleVars

LEMMA OutsideFollows ==
    ASSUME NetworkInv,
           \/ SystemSteps \/ Minute \/ LocalCommand \/ PhoneSends
           \/ PhoneComesOrGoes \/ ReachOfAdapterChanges
    PROVE  NetworkInv'
<1> USE DEF NetworkInv, NetworkOK, Library, setupVars, checkVars, managerVars,
            bleVars, networkVars, selectionVars, SetupTypeOK, SelectionTypeOK,
            MessageIsThere, CheckAgrees, Outside, WaitingPlaces, Places,
            AdapterFollowsHandler
<1>1. CASE SystemSteps
  <2>1. /\ up' \subseteq wanted /\ {connected'} \subseteq BOOLEAN
        /\ UNCHANGED <<reach, wanted, cloudWanted, credentials>>
    BY <1>1 DEF SystemSteps, SystemThread, LinkUp, LinkDown, CloudUp, CloudDown,
       NetworkTypeOK, Reachable
  <2> QED
    BY <1>1, <2>1 DEF SystemSteps, NetworkTypeOK
<1>2. CASE Minute
  BY <1>2 DEF Minute, MinutePasses, NetworkTypeOK
<1>3. CASE LocalCommand
  <2>1. /\ pc \in {"Loop"} \cup WaitingPlaces /\ sent < MaxMessages /\ sent' = sent + 1
        /\ automaticSelection' = FALSE /\ isLocalMode' = TRUE
        /\ UNCHANGED <<networkVars, selectionVars, fitted, pc, waited, busy,
                       managerVars, provision_state, bleConnected, bleVars,
                       wasNotCalledConnect>>
    BY <1>3, Zenon DEF LocalCommand
  <2>2. NetworkTypeOK'
    BY <2>1 DEF NetworkTypeOK
  <2>3. sent' \in 0..MaxMessages
    BY <2>1, SetupAssumption
  <2> QED
    BY <2>1, <2>2, <2>3
<1>4. CASE PhoneSends
  BY <1>4, SetupAssumption DEF PhoneSends, onDataReceived, NetworkTypeOK
<1>5. CASE PhoneComesOrGoes
  BY <1>5 DEF PhoneComesOrGoes, NetworkTypeOK
<1>6. CASE ReachOfAdapterChanges
  <2>1. reach' \in [Adapters -> Reaches]
        /\ UNCHANGED <<wanted, up, cloudWanted, connected, credentials>>
    BY <1>6 DEF ReachOfAdapterChanges, ReachChanges, NetworkTypeOK
  <2> QED
    BY <1>6, <2>1 DEF ReachOfAdapterChanges, NetworkTypeOK
<1> QED
  BY <1>1, <1>2, <1>3, <1>4, <1>5, <1>6

LEMMA RebootFollows == ASSUME NetworkInv, Reboot PROVE NetworkInv'
BY DEF Reboot, NetworkInv, NetworkOK, NetworkTypeOK, SelectionTypeOK, SetupTypeOK,
       MessageIsThere, AdapterFollowsHandler, CheckAgrees, StateHandlers,
       ActiveInterface, Places, EthernetHandlers, WiFiHandlers

LEMMA NextFollows == NetworkInv /\ [Next]_vars => NetworkInv'
<1> SUFFICES ASSUME NetworkInv, [Next]_vars PROVE NetworkInv'
  OBVIOUS
<1>1. CASE Application
  BY <1>1, LoopFollows, CheckFollows, SetupFollows, WaitFollows DEF Application
<1>2. CASE Reset \/ WatchdogExpires
  BY <1>2, RebootFollows DEF Reset, WatchdogExpires
<1>3. CASE UNCHANGED vars
  BY <1>3 DEF vars, NetworkInv, NetworkOK, NetworkTypeOK, SelectionTypeOK,
     SetupTypeOK, MessageIsThere, AdapterFollowsHandler, CheckAgrees, Agreed,
     setupVars, checkVars, managerVars, bleVars, networkVars, selectionVars
<1> QED
  BY <1>1, <1>2, <1>3, OutsideFollows DEF Next

LEMMA NetworkAlways == Spec => []NetworkInv
BY InitNetwork, NextFollows, PTL DEF Spec

---------------------------------------------------------------------------
(* Theorems.                                                               *)

(* Type correctness: every variable of the connection keeps its type; the  *)
(* manager never takes a message from an empty queue.                      *)
THEOREM NetworkTypeCorrect == Spec => [](NetworkOK /\ MessageIsThere)
<1>1. NetworkInv => NetworkOK /\ MessageIsThere
  BY DEF NetworkInv
<1> QED BY <1>1, NetworkAlways, PTL

(* AdapterFollowsHandler holds whatever the timeouts, the reach of the     *)
(* networks and the messages of phones and cloud.                          *)
THEOREM AdapterAlwaysFollows == Spec => []AdapterFollowsHandler
<1>1. NetworkInv => AdapterFollowsHandler
  BY DEF NetworkInv
<1> QED BY <1>1, NetworkAlways, PTL

(* Local mode survives likewise: checkNetworks alone gives it up in the    *)
(* parameters, and what it goes by was left by the handler of its pass.    *)
THEOREM LocalAlwaysSurvives == Spec => LocalSurvives
<1> DEFINE Survives ==
      isLocalMode /\ ~isLocalMode' =>
          automaticSelection \/ stateHandler \in {"WaitEthernetReady", "WaitWiFiReady"}
<1>1. NetworkInv /\ [Next]_vars => [Survives]_vars
  <2> SUFFICES ASSUME NetworkInv, Next, isLocalMode, ~isLocalMode'
               PROVE  Survives
    BY DEF vars, checkVars
  <2>1. checkNetworks
    BY DEF Next, Application, LoopStarts, SetupSteps, WaitGoesOn, SystemSteps,
       Minute, LocalCommand, PhoneSends, PhoneComesOrGoes,
       ReachOfAdapterChanges, Reset, WatchdogExpires, Reboot, checkVars
  <2> QED
    BY <2>1 DEF checkNetworks, NetworkInv, CheckAgrees, Agreed
<1> QED BY <1>1, NetworkAlways, PTL DEF Spec, LocalSurvives

---------------------------------------------------------------------------
(* The watchdog. What a pass has used of the watchdog's time, by place:    *)
(* only credentials just set lead to both waits of the manager, and then   *)
(* wifiProvisioning does not wait for credentials again.                   *)
PassFits ==
    /\ pc \in {"Loop", "Check", "Parse"} => busy = 0
    /\ pc = "WapWait" => busy = waited
    /\ pc = "CloudWait" => busy <= ConnectionTimeout + waited
    /\ pc \in {"WapWait", "CloudWait"} =>
          waited <= ConnectionTimeout /\ provision_state = "PROVISIONED"
    /\ pc = "Provision" =>
          /\ busy <= 2 * ConnectionTimeout
          /\ provision_state = "CREDENTIALS" => busy = 0
    /\ pc = "CredentialsWait" => busy = waited /\ waited <= 1

LEMMA SetupFits ==
    ASSUME SetupTypeOK, PassFits, SetupSteps \/ WaitGoesOn
    PROVE  PassFits'
<1> USE SetupAssumption DEF PassFits, SetupTypeOK, GoOn, PassEnds, cloudConnected
<1>1. CASE ManagerParses
  <2>1. pc = "Parse" /\ busy' = busy /\ waited' = 0
    BY <1>1 DEF ManagerParses, parse_message, SetCredentials, RefusedCredentials,
       ClearCredentials, SetMode
  <2>2. \/ pc' = "WapWait" /\ provision_state' = "PROVISIONED"
        \/ pc' = "Provision"
    BY <1>1 DEF ManagerParses, parse_message, SetCredentials, RefusedCredentials,
       ClearCredentials, SetMode
  <2> QED BY <2>1, <2>2
<1>2. CASE ManagerWaitEnds
  BY <1>2 DEF ManagerWaitEnds
<1>3. CASE wifiProvisioning(isLocalMode)
  <2>1. \/ pc' = "ConnectWait"
        \/ pc' = "Loop" /\ busy' = 0
        \/ /\ pc = "Provision" /\ provision_state = "CREDENTIALS"
           /\ pc' = "CredentialsWait" /\ waited' = 0 /\ busy' = busy
    BY <1>3 DEF wifiProvisioning, ProvisionIdle, ProvisionProvisioned,
       ProvisionCredentials
  <2> QED BY <2>1
<1>4. CASE ProvisionWaitEnds
  BY <1>4 DEF ProvisionWaitEnds
<1>5. CASE WaitGoesOn
  <2>1. /\ pc' = pc /\ waited' = waited + 1 /\ busy' = busy + 1
        /\ pc \in WaitingPlaces /\ waited < Limit(pc)
        /\ provision_state' = provision_state
    BY <1>5 DEF WaitGoesOn, Waits, WaitOver, Limit, WaitingPlaces
  <2> QED BY <2>1 DEF Limit, WaitingPlaces
<1> QED
  BY <1>1, <1>2, <1>3, <1>4, <1>5 DEF SetupSteps

LEMMA NextFits == NetworkInv /\ PassFits /\ [Next]_vars => PassFits'
<1> SUFFICES ASSUME NetworkInv, PassFits, [Next]_vars PROVE PassFits'
  OBVIOUS
<1>0. SetupTypeOK
  BY DEF NetworkInv, NetworkOK
<1>1. ASSUME NEW checks \in BOOLEAN, LoopStarts(checks) PROVE PassFits'
  <2>1. pc = "Loop" /\ pc' \in {"Check", "Parse", "Provision"} /\ busy' = busy
    BY <1>1 DEF LoopStarts, GoOn, ToManager
  <2> QED BY <2>1, SetupAssumption DEF PassFits
<1>2. CASE checkNetworks
  <2>1. pc = "Check" /\ pc' \in {"Parse", "Provision"} /\ busy' = busy
    BY <1>2 DEF checkNetworks, GoOn, ToManager
  <2> QED BY <2>1, SetupAssumption DEF PassFits
<1>3. CASE SetupSteps \/ WaitGoesOn
  BY <1>0, <1>3, SetupFits
<1>4. CASE Reset \/ WatchdogExpires
  BY <1>4 DEF Reset, WatchdogExpires, Reboot, PassFits
<1>5. CASE UNCHANGED <<pc, waited, busy, provision_state>>
  BY <1>5 DEF PassFits
<1> QED
  BY <1>1, <1>2, <1>3, <1>4, <1>5
  DEF Next, Application, SystemSteps, Minute, LocalCommand, PhoneSends,
      PhoneComesOrGoes, ReachOfAdapterChanges, vars, setupVars

LEMMA InitFits == Init => PassFits
BY DEF Init, Boots, SetupBoots, PassFits

(* If the watchdog outlasts both waits of the manager, ManagerFitsWatchdog *)
(* holds for every length of them: nothing before the wait that ends the   *)
(* pass can reset the trolley.                                             *)
THEOREM ManagerAlwaysFits ==
    ASSUME 0 < ConnectionTimeout, 2 * ConnectionTimeout < WatchdogTimeout
    PROVE  Spec => []ManagerFitsWatchdog
<1>1. NetworkInv /\ PassFits => ManagerFitsWatchdog
  BY SetupAssumption, NetworkAssumption
  DEF NetworkInv, NetworkOK, SetupTypeOK, Places, PassFits, ManagerFitsWatchdog, Alive
<1> QED
  BY <1>1, InitFits, NextFits, NetworkAlways, PTL DEF Spec
=============================================================================
