SPECIFICATION Spec
CONSTANTS
    Dashboards = {"d1", "d2"}
    MaxCalls = 2
    MaxActs = 2
    Panels = {"p1", "p2"}
    NoDash = ""
    InitialRows <- ShellRows
    Visited = {"", "d2"}
    JobIds = {"j1", "j2"}
    Attr <- JobAttrs
    SearchTexts = {1}
    Used = {"status", "payload"}
    BrokerList <- ListOfBrokers
    Topics <- TreeTopics
    commonSysTopics <- SysTopics
    Outbounds <- TreeOutbounds
    Urls <- TreeUrls
    Queries <- SomeQueries
    InitialStatus <- TreeStatus
    InitialStores <- TreeStores
    InitialQueues <- TreeQueues
    MaxPublish = 1
    TreeActs = 1
    Ids <- BrokerIds
    Initial <- BrokerRows
    FormTexts = {"x"}
    Requested = {"noid", "b2"}
    Stored = {24, 36}
    Values = {0, 2}
    Titles = {1, 2}
    Configs = {1, 2}
    Turned <- Switched
    PanelBrokers = {"b1"}
    OtherDashboards = {"d2"}
    IsVisual = FALSE
    TopicDetail = TRUE
    HasPayload = TRUE
    MaxMoves = 6
INVARIANTS
    TypeOK
    InStep
    OwnWindow
PROPERTIES
    OneChange
    NothingHangs
\* Dialogs and pages may be left alone for good, and budgets run out.
CHECK_DEADLOCK FALSE
