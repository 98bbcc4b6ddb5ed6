SPECIFICATION Spec
CONSTANTS
    Dashboards = {"d1", "d2"}
    MaxCalls = 0
    MaxActs = 0
    Panels = {"p1", "p2"}
    NoDash = ""
    InitialRows <- ShellRows
    Visited = {"", "d2"}
    JobIds = {"j1", "j2"}
    Attr <- JobAttrs
    SearchTexts = {1}
    Used = {"status", "payload"}
    BrokerList <- OneBroker
    Topics <- TwoTopics
    commonSysTopics = {}
    Outbounds <- NoPicker
    Urls <- PlainAddress
    Queries = {}
    InitialStatus <- OneStatus
    InitialStores <- OneStore
    InitialQueues <- NoneQueued
    MaxPublish = 2
    TreeActs = 1
    Ids <- BrokerIds
    Initial <- BrokerRows
    FormTexts = {"x"}
    Requested = {"noid", "b2"}
    Stored = {24, 36}
    Values = {0, 2}
    Titles = {1, 2}
    Configs = {1, 2}
    Turned <- Switched
    PanelBrokers = {"b1"}
    OtherDashboards = {"d2"}
    IsVisual = FALSE
    TopicDetail = TRUE
    HasPayload = TRUE
    MaxMoves = 0
INVARIANT HearsAll
CHECK_DEADLOCK FALSE
