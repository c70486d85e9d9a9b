SPECIFICATION FairSpec
CONSTANTS
    Reaches = {"none", "internet"}
    EthernetConnectTimeout = 1
    EthernetCloudConnectTimeout = 1
    WiFiConnectTimeout = 1
    WiFiCloudConnectTimeout = 1
    RetryEthernetPeriod = 1
    ConnectionTimeout = 2
    Messages = {"set_creds", "set_mode_local", "set_mode_conn", "clr_creds", "other"}
    MaxMessages = 1
    WatchdogTimeout = 5
    Prompt = TRUE
INVARIANTS
    AdapterFollowsHandler
    ManagerFitsWatchdog
PROPERTIES
    LocalSurvives
    ModeSettles
    Reconnects
