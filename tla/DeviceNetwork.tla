--------------------------- MODULE DeviceNetwork ---------------------------
(***************************************************************************)
(* What the firmware uses of Device OS: the Ethernet and Wi-Fi adapters,   *)
(* the cloud connection and the stored Wi-Fi credentials. The system       *)
(* thread of Device OS brings adapters and cloud up and down on its own,   *)
(* in between any two steps of the application.                            *)
(***************************************************************************)
CONSTANT Reaches    \* how far an adapter's network goes, in this instance

VARIABLES
    reach,          \* of each adapter: "none", "lan" or "internet"
    wanted,         \* adapters the application has connected
    up,             \* adapters that are ready()
    cloudWanted,    \* Particle.connect() was the last call
    connected,      \* Particle.connected()
    credentials     \* WiFi.hasCredentials(), in flash

ASSUME ReachAssumption == Reaches \subseteq {"none", "lan", "internet"}

networkVars == <<reach, wanted, up, cloudWanted, connected, credentials>>
Adapters == {"Ethernet", "WiFi"}

NetworkTypeOK ==
    /\ reach \in [Adapters -> Reaches]
    /\ wanted \subseteq Adapters /\ up \subseteq wanted
    /\ cloudWanted \in BOOLEAN /\ connected \in BOOLEAN
    /\ credentials \in BOOLEAN

NetworkBoots ==
    /\ wanted = {} /\ up = {}
    /\ cloudWanted = FALSE /\ connected = FALSE

(* Calls of the application.                                               *)
Switched(on, off) ==
    /\ wanted' = (wanted \ off) \cup on
    /\ up' = up \ off
CloudCalled(b) == cloudWanted' = b
CloudKept == cloudWanted' = cloudWanted

Ready(i) == i \in up

(* The system thread.                                                      *)
Reachable(i) ==
    /\ i \in wanted /\ reach[i] /= "none"
    /\ i = "WiFi" => credentials
Routed == \E i \in up : reach[i] = "internet"
Settled ==
    /\ \A i \in Adapters : Reachable(i) <=> i \in up
    /\ connected <=> (cloudWanted /\ Routed)

LinkUp(i) ==
    /\ Reachable(i) /\ i \notin up
    /\ up' = up \cup {i}
    /\ UNCHANGED <<reach, wanted, cloudWanted, connected, credentials>>
LinkDown(i) ==
    /\ i \in up /\ ~Reachable(i)
    /\ up' = up \ {i}
    /\ UNCHANGED <<reach, wanted, cloudWanted, connected, credentials>>
CloudUp ==
    /\ cloudWanted /\ Routed /\ ~connected
    /\ connected' = TRUE
    /\ UNCHANGED <<reach, wanted, up, cloudWanted, credentials>>
CloudDown ==
    /\ connected /\ ~(cloudWanted /\ Routed)
    /\ connected' = FALSE
    /\ UNCHANGED <<reach, wanted, up, cloudWanted, credentials>>
(* A cable is plugged or pulled, an access point appears or goes.          *)
ReachChanges(i) ==
    /\ \E r \in Reaches \ {reach[i]} : reach' = [reach EXCEPT ![i] = r]
    /\ UNCHANGED <<wanted, up, cloudWanted, connected, credentials>>

SystemThread ==
    \/ \E i \in Adapters : LinkUp(i) \/ LinkDown(i)
    \/ CloudUp \/ CloudDown
=============================================================================
