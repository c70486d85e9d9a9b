------------------------------ MODULE Network ------------------------------
(***************************************************************************)
(* The trolley's connection: the passes of the loop with the EthernetWiFi  *)
(* library, checkNetworks, the BLE manager and wifiProvisioning, the       *)
(* commands that choose local or connected mode, resets and the watchdog.  *)
(***************************************************************************)
EXTENDS WiFiSetup

CONSTANTS
    WatchdogTimeout,    \* units of 20 s the watchdog does not outlast: 90 s, 5
    Prompt              \* links and cloud come up within a minute

ASSUME NetworkAssumption == WatchdogTimeout \in Nat /\ Prompt \in BOOLEAN

VARIABLES
    isLocalMode,            \* param.isLocalMode, stored with every change
    wasNotCalledConnect

checkVars == <<isLocalMode, wasNotCalledConnect>>
setupVars == <<pc, waited, busy, managerVars, sent, provision_state,
               bleConnected, bleVars>>
vars == <<networkVars, selectionVars, automaticSelection, fitted, setupVars,
          checkVars>>

NetworkOK ==
    /\ NetworkTypeOK /\ SelectionTypeOK /\ SetupTypeOK
    /\ {isLocalMode, wasNotCalledConnect} \subseteq BOOLEAN

---------------------------------------------------------------------------
(* setupNetwork and the rest of setup that concerns the connection.        *)
Boots ==
    /\ NetworkBoots /\ SelectionBoots /\ SetupBoots
    /\ automaticSelection = ~isLocalMode
    /\ wasNotCalledConnect = TRUE

Init ==
    /\ fitted \in BOOLEAN /\ credentials \in BOOLEAN
    /\ reach \in [Adapters -> Reaches]
    /\ (~fitted => reach["Ethernet"] = "none")
    /\ isLocalMode \in BOOLEAN
    /\ sent = 0
    /\ Boots

(* A reset: the parameters and the credentials stay in flash.              *)
Reboot ==
    /\ wanted' = {} /\ up' = {} /\ cloudWanted' = FALSE /\ connected' = FALSE
    /\ stateHandler' = "Start" /\ activeInterface' = "NONE"
    /\ ethernetPresent' = FALSE /\ minutes' = 0
    /\ automaticSelection' = ~isLocalMode
    /\ pc' = "Loop" /\ waited' = 0 /\ busy' = 0
    /\ config_state' = "SETUP" /\ device_receive_msg_queue' = 0
    /\ provision_state' = IF credentials THEN "CREDENTIALS" ELSE "IDLE"
    /\ bleConnected' = FALSE /\ wasBLEConnected' = FALSE /\ wasBLEinformed' = FALSE
    /\ wasNotCalledConnect' = TRUE
    /\ UNCHANGED <<reach, credentials, fitted, sent, isLocalMode>>

Alive == busy < WatchdogTimeout
(* Everything else happens between two passes or in a wait: the rest of a  *)
(* pass takes milliseconds.                                                *)
Outside == Alive /\ pc \in {"Loop"} \cup WaitingPlaces
Reset == Outside /\ Reboot
WatchdogExpires == ~Alive /\ Reboot

---------------------------------------------------------------------------
(* One pass of the loop. It starts with Watchdog.refresh, and checks the   *)
(* network if NETWORK_CHECK_INTERVAL has passed.                           *)
LoopStarts(checks) ==
    /\ pc = "Loop"
    /\ EthernetWiFiLoop
    /\ IF checks THEN GoOn("Check") /\ config_state' = config_state ELSE ToManager
    /\ UNCHANGED <<device_receive_msg_queue, sent, provision_state,
                   bleConnected, bleVars, checkVars>>

(* A mistake in checkNetworks: connected mode is never stored again.       *)
checkNetworks_LocalOnly ==
    /\ pc = "Check" /\ ToManager
    /\ isLocalMode' = (isLocalMode \/ activeInterface = "OFF")
    /\ IF activeInterface /= "OFF" /\ up /= {} /\ ~connected /\ wasNotCalledConnect
       THEN wasNotCalledConnect' = FALSE /\ ConnectCloud
       ELSE UNCHANGED <<wasNotCalledConnect, networkVars>>
    /\ UNCHANGED <<device_receive_msg_queue, sent, provision_state,
                   bleConnected, bleVars>>
    /\ SelectionKept

(* The mode follows the library's interface and not the last command, and  *)
(* Particle.connect is called once after the boot.                         *)
checkNetworks ==
    /\ pc = "Check" /\ ToManager
    /\ isLocalMode' = (activeInterface = "OFF")
    /\ IF activeInterface /= "OFF" /\ up /= {} /\ ~connected /\ wasNotCalledConnect
       THEN wasNotCalledConnect' = FALSE /\ ConnectCloud
       ELSE UNCHANGED <<wasNotCalledConnect, networkVars>>
    /\ UNCHANGED <<device_receive_msg_queue, sent, provision_state,
                   bleConnected, bleVars>>
    /\ SelectionKept

SetupSteps ==
    /\ \/ ManagerParses
       \/ ManagerWaitEnds
       \/ wifiProvisioning(isLocalMode)
       \/ ProvisionWaitEnds
    /\ UNCHANGED <<checkVars>>

WaitGoesOn == Waits /\ UNCHANGED <<checkVars>>

Application ==
    /\ Alive
    /\ \/ \E checks \in BOOLEAN : LoopStarts(checks)
       \/ checkNetworks \/ SetupSteps \/ WaitGoesOn

---------------------------------------------------------------------------
(* From outside. The command is handled where the application handles its  *)
(* events, and needs the cloud.                                            *)
LocalCommand ==
    /\ Outside /\ connected /\ pc \in EventPlaces
    /\ sent < MaxMessages /\ sent' = sent + 1
    /\ automaticSelection' = FALSE /\ isLocalMode' = TRUE
    /\ UNCHANGED <<networkVars, selectionVars, fitted, pc, waited, busy,
                   managerVars, provision_state, bleConnected, bleVars,
                   wasNotCalledConnect>>

PhoneSends ==
    /\ Outside /\ onDataReceived
    /\ UNCHANGED <<networkVars, selectionVars, automaticSelection, fitted, pc,
                   waited, busy, config_state, provision_state, bleConnected,
                   bleVars, checkVars>>

PhoneComesOrGoes ==
    /\ Outside
    /\ bleConnected \/ sent < MaxMessages
    /\ bleConnected' = ~bleConnected
    /\ UNCHANGED <<networkVars, selectionVars, automaticSelection, fitted, pc,
                   waited, busy, managerVars, sent, provision_state, bleVars,
                   checkVars>>

SystemSteps ==
    /\ Outside /\ SystemThread
    /\ UNCHANGED <<selectionVars, automaticSelection, fitted, setupVars,
                   checkVars>>

ReachOfAdapterChanges ==
    /\ Outside /\ \E i \in Adapters : (i = "Ethernet" => fitted) /\ ReachChanges(i)
    /\ UNCHANGED <<selectionVars, automaticSelection, fitted, setupVars,
                   checkVars>>

(* With a prompt network, what can come up does within a minute, and a     *)
(* handler notices it.                                                     *)
Minute ==
    /\ Outside /\ MinutePasses
    /\ Prompt => Settled /\ Waiting
    /\ UNCHANGED <<setupVars, checkVars>>

Next ==
    \/ Application
    \/ SystemSteps \/ Minute
    \/ LocalCommand \/ PhoneSends \/ PhoneComesOrGoes \/ ReachOfAdapterChanges
    \/ Reset \/ WatchdogExpires

Spec == Init /\ [][Next]_vars

FairSpec ==
    /\ Spec
    /\ WF_vars(Application \/ WatchdogExpires)
    /\ SF_vars(Alive /\ LoopStarts(TRUE))
    /\ SF_vars(SystemSteps) /\ SF_vars(Minute)

---------------------------------------------------------------------------
(* Properties.                                                             *)

(* The library's handlers and what is switched on agree, whatever the      *)
(* phone and the provisioning switch: on the way to and on Ethernet the    *)
(* adapter is on, with Wi-Fi it is off, and in local mode the library      *)
(* reports OFF, which is what checkNetworks stores.                        *)
EthernetHandlers == {"WaitEthernetReady", "WaitEthernetCloud", "EthernetCloudConnected"}
WiFiHandlers == {"WaitWiFiReady", "WaitWiFiCloud", "WiFiCloudConnected",
                 "WiFiWaitDisconnectedThenTryEthernet"}
AdapterFollowsHandler ==
    /\ stateHandler \in EthernetHandlers => "Ethernet" \in wanted
    /\ stateHandler \in WiFiHandlers => "Ethernet" \notin wanted
    /\ stateHandler = "DoNotConnect" => activeInterface = "OFF"

(* Local mode is given up in the parameters only if connected mode was     *)
(* chosen, or in the one pass after the library began to try an adapter    *)
(* without looking at the choice (checkNetworks then undoes the command    *)
(* until its next check).                                                  *)
LocalSurvives ==
    [][isLocalMode /\ ~isLocalMode' =>
          automaticSelection \/ stateHandler \in {"WaitEthernetReady", "WaitWiFiReady"}]_vars

(* The two waits of the BLE manager fit into the watchdog's time, which is *)
(* what that time was chosen for; only the wait of wifiProvisioning that   *)
(* follows them in the same pass can outlast it.                           *)
ManagerFitsWatchdog == Alive \/ pc = "ConnectWait"

(* However local and connected mode were chosen, the stored mode is the    *)
(* chosen one in the end.                                                  *)
ModeSettles == <>[](isLocalMode = ~automaticSelection)

(* In connected mode and with a prompt network, an access point that       *)
(* reaches the internet and whose credentials are stored is enough to be   *)
(* connected again and again, whatever Ethernet does and whatever was      *)
(* lost before.                                                            *)
Served == automaticSelection /\ credentials /\ reach["WiFi"] = "internet"
Steady == <>[][~Reset /\ UNCHANGED reach]_vars
Reconnects == <>[]Served /\ Steady => []<>connected
=============================================================================
