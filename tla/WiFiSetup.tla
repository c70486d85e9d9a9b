----------------------------- MODULE WiFiSetup -----------------------------
(***************************************************************************)
(* Wi-Fi provisioning by a phone: BLEWiFiSetupManager, which parses one    *)
(* message in two passes, and wifiProvisioning, which waits for Wi-Fi and  *)
(* cloud after credentials were set or found at the boot. Both wait inside *)
(* a pass of the loop, so a pass has several steps; waits are counted in   *)
(* units of 20 seconds.                                                    *)
(***************************************************************************)
EXTENDS EthernetWiFi

CONSTANTS
    ConnectionTimeout,  \* of the manager's waits: 40 s, 2 units
    Messages,           \* the phone may send, in this instance
    MaxMessages         \* bound: messages sent

MessageTypes == {"set_creds", "clr_creds", "set_mode_local", "set_mode_conn", "other"}
ASSUME SetupAssumption ==
    /\ ConnectionTimeout \in Nat /\ MaxMessages \in Nat
    /\ Messages \subseteq MessageTypes

VARIABLES
    pc,                         \* place in the pass
    waited,                     \* units of the current wait
    busy,                       \* units since Watchdog.refresh
    config_state,
    device_receive_msg_queue,   \* messages waiting, their content is open
    sent,                       \* messages the phone has sent
    provision_state,
    bleConnected,               \* BLE.connected()
    wasBLEConnected, wasBLEinformed

managerVars == <<config_state, device_receive_msg_queue>>
bleVars == <<wasBLEConnected, wasBLEinformed>>

Places == {"Loop", "Check", "Parse", "WapWait", "CloudWait", "Provision",
           "CredentialsWait", "ConnectWait"}
WaitingPlaces == {"WapWait", "CloudWait", "CredentialsWait", "ConnectWait"}
(* waitFor runs the application's events while it waits, the manager's     *)
(* loops do not.                                                           *)
EventPlaces == {"Loop", "CredentialsWait", "ConnectWait"}

SetupTypeOK ==
    /\ pc \in Places /\ waited \in Nat /\ busy \in Nat
    /\ config_state \in {"SETUP", "IDLE", "PARSE_MSG"}
    /\ device_receive_msg_queue \in Nat /\ sent \in 0..MaxMessages
    /\ provision_state \in {"IDLE", "PROVISIONED", "CREDENTIALS"}
    /\ {bleConnected, wasBLEConnected, wasBLEinformed} \subseteq BOOLEAN

GoOn(place) == pc' = place /\ waited' = 0 /\ busy' = busy
NetworkKept == UNCHANGED networkVars
SelectionKept == UNCHANGED <<selectionVars, automaticSelection, fitted>>

(* WiFi.connect() and Particle.connect(), whatever the selection.          *)
ConnectWiFi ==
    Switched({"WiFi"}, {}) /\ UNCHANGED <<reach, cloudWanted, connected, credentials>>
ConnectCloud ==
    cloudWanted' = TRUE /\ UNCHANGED <<reach, wanted, up, connected, credentials>>

---------------------------------------------------------------------------
(* BLEWiFiSetupManager.                                                    *)

(* The callback of the BLE stack.                                          *)
onDataReceived ==
    /\ bleConnected /\ sent < MaxMessages
    /\ device_receive_msg_queue' = device_receive_msg_queue + 1
    /\ sent' = sent + 1

SetCredentials ==
    /\ credentials' = TRUE
    /\ provision_state' = "PROVISIONED"             \* provisionCb
    /\ Switched({"WiFi"}, {})
    /\ UNCHANGED <<reach, cloudWanted, connected>>
    /\ SelectionKept /\ GoOn("WapWait")

(* Device OS does not take the credentials and has none: the callback has  *)
(* been called all the same.                                               *)
RefusedCredentials ==
    /\ ~credentials
    /\ provision_state' = "PROVISIONED"
    /\ NetworkKept /\ SelectionKept /\ GoOn("Provision")

ClearCredentials ==
    /\ credentials' = FALSE
    /\ IF credentials
       THEN /\ cloudWanted' = IF connected THEN FALSE ELSE cloudWanted
            /\ Switched({}, IF Ready("WiFi") THEN {"WiFi"} ELSE {})
       ELSE UNCHANGED <<cloudWanted, wanted, up>>
    /\ UNCHANGED <<reach, connected, provision_state>>
    /\ SelectionKept /\ GoOn("Provision")

SetMode(automatic) ==
    /\ automaticSelection' = automatic
    /\ UNCHANGED <<selectionVars, fitted, provision_state>>
    /\ NetworkKept /\ GoOn("Provision")

parse_message(m) ==
    \/ m = "set_creds" /\ (SetCredentials \/ RefusedCredentials)
    \/ m = "clr_creds" /\ ClearCredentials
    \/ m = "set_mode_local" /\ SetMode(FALSE)
    \/ m = "set_mode_conn" /\ SetMode(TRUE)
    \/ /\ m = "other"                   \* scan, get_wap, get_mode, unknown
       /\ SelectionKept /\ NetworkKept /\ GoOn("Provision")
       /\ UNCHANGED provision_state

(* A mistake in ToManager: the queue is not looked at.                     *)
ToManager_Blind ==
    /\ config_state' = IF config_state = "PARSE_MSG" THEN config_state ELSE "PARSE_MSG"
    /\ GoOn(IF config_state = "PARSE_MSG" THEN "Parse" ELSE "Provision")

(* loop(): a message is taken from the queue in the pass after the one     *)
(* that found it.                                                          *)
ToManager ==
    /\ config_state' = IF config_state = "IDLE" /\ device_receive_msg_queue > 0
                       THEN "PARSE_MSG"
                       ELSE IF config_state = "SETUP" THEN "IDLE" ELSE config_state
    /\ GoOn(IF config_state = "PARSE_MSG" THEN "Parse" ELSE "Provision")

ManagerParses ==
    /\ pc = "Parse" /\ config_state' = "IDLE"
    /\ device_receive_msg_queue' = device_receive_msg_queue - 1
    /\ \E m \in Messages : parse_message(m)
    /\ UNCHANGED <<sent, bleConnected, bleVars>>

---------------------------------------------------------------------------
(* The waits.                                                              *)

(* A mistake in Limit: a third 20 seconds for the manager's waits.          *)
Limit_Longer(place) ==
    IF place \in {"WapWait", "CloudWait"} THEN ConnectionTimeout + 1 ELSE 1
Limit(place) == IF place \in {"WapWait", "CloudWait"} THEN ConnectionTimeout ELSE 1
Awaited(place) ==
    IF place \in {"WapWait", "CredentialsWait"} THEN Ready("WiFi") ELSE connected
WaitOver == Awaited(pc) \/ waited >= Limit(pc)

(* 20 seconds pass in a wait.                                              *)
Waits ==
    /\ pc \in WaitingPlaces /\ ~WaitOver
    /\ waited' = waited + 1 /\ busy' = busy + 1 /\ pc' = pc
    /\ UNCHANGED <<managerVars, sent, provision_state, bleConnected, bleVars>>
    /\ SelectionKept /\ NetworkKept

(* The manager goes on to the cloud if Wi-Fi is ready.                     *)
ManagerWaitEnds ==
    /\ pc \in {"WapWait", "CloudWait"} /\ WaitOver
    /\ IF pc = "WapWait" /\ Ready("WiFi")
       THEN ConnectCloud /\ GoOn("CloudWait")
       ELSE NetworkKept /\ GoOn("Provision")
    /\ UNCHANGED <<managerVars, sent, provision_state, bleConnected, bleVars>>
    /\ SelectionKept

---------------------------------------------------------------------------
(* wifiProvisioning. next_provision_state is what each case leaves in      *)
(* provision_state; cloudConnected() is ConnectCloud and the ConnectWait.  *)

PassEnds == NetworkKept /\ pc' = "Loop" /\ waited' = 0 /\ busy' = 0
cloudConnected == ConnectCloud /\ GoOn("ConnectWait")

ProvisionIdle ==
    /\ provision_state = "IDLE"
    /\ UNCHANGED provision_state
    /\ wasBLEConnected' = bleConnected
    /\ \/ /\ bleConnected /= wasBLEConnected
          /\ wasBLEinformed' = (wasBLEinformed /\ bleConnected)
          /\ PassEnds
       \/ /\ bleConnected /\ wasBLEConnected /\ ~wasBLEinformed /\ Ready("WiFi")
          /\ IF connected
             THEN wasBLEinformed' = TRUE /\ PassEnds
             ELSE wasBLEinformed' = FALSE /\ cloudConnected
       \/ /\ bleConnected = wasBLEConnected
          /\ ~(bleConnected /\ ~wasBLEinformed /\ Ready("WiFi"))
          /\ UNCHANGED wasBLEinformed /\ PassEnds

(* In local mode nothing is connected; in connected mode the cloud is.     *)
ProvisionProvisioned(local) ==
    /\ provision_state = "PROVISIONED"
    /\ provision_state' = "IDLE"
    /\ wasBLEinformed' = (wasBLEinformed /\ (local \/ (Ready("WiFi") /\ connected)))
    /\ IF ~local /\ Ready("WiFi") /\ ~connected THEN cloudConnected ELSE PassEnds
    /\ UNCHANGED wasBLEConnected

ProvisionCredentials(local) ==
    /\ provision_state = "CREDENTIALS"
    /\ wasBLEinformed' = (wasBLEinformed /\ local)
    /\ IF ~local /\ credentials /\ ~Ready("WiFi")
       THEN /\ ConnectWiFi /\ GoOn("CredentialsWait")
            /\ UNCHANGED provision_state
       ELSE /\ provision_state' = "IDLE"
            /\ IF ~local /\ Ready("WiFi") /\ ~connected THEN cloudConnected ELSE PassEnds
    /\ UNCHANGED wasBLEConnected

wifiProvisioning(local) ==
    /\ pc = "Provision"
    /\ \/ ProvisionIdle
       \/ ProvisionProvisioned(local)
       \/ ProvisionCredentials(local)
    /\ UNCHANGED <<managerVars, sent, bleConnected>> /\ SelectionKept

(* The credentials of the boot are tried in every pass until Wi-Fi is      *)
(* ready: such a pass takes 20 seconds.                                    *)
ProvisionWaitEnds ==
    /\ pc \in {"CredentialsWait", "ConnectWait"} /\ WaitOver
    /\ IF pc = "CredentialsWait" /\ Ready("WiFi")
       THEN provision_state' = "IDLE" /\ cloudConnected
       ELSE UNCHANGED provision_state /\ PassEnds
    /\ UNCHANGED <<managerVars, sent, bleConnected, bleVars>>
    /\ SelectionKept

SetupBoots ==
    /\ pc = "Loop" /\ waited = 0 /\ busy = 0
    /\ config_state = "SETUP" /\ device_receive_msg_queue = 0
    /\ provision_state = IF credentials THEN "CREDENTIALS" ELSE "IDLE"
    /\ bleConnected = FALSE /\ wasBLEConnected = FALSE /\ wasBLEinformed = FALSE
=============================================================================
