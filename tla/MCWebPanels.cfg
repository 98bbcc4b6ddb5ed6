SPECIFICATION Spec
CONSTANTS
    Brokers = {"b1", "b2"}
    Fallback = "b1"
    Wildcards = {"+"}
    Lower <- Lowered
    Truth <- Words
    Includes <- Within
    MaxEdits = 2
    MaxTrips = 1
    Listeners = {"l1", "l2"}
    WsFilters <- SomeFilters
    WsTopics <- SomeTopics
    MaxSockets = 3
    MaxMounts = 3
    MaxLosses = 2
    PreviewTopics = {"t", "u"}
    PreviewTexts <- SomeTexts
    PreviewMessages = 1
    EditorNumbers <- WindowNumbers
    EditorFilters <- WindowFilters
    EditorTargets <- WindowTargets
    EditorValues = {"30", "0x1E", "", "ON"}
    EditorFloats = {"30"}
    EditorCooldowns <- CooldownsTyped
    OfferedOperators = {"gt", "eq", "any"}
    EditorStored <- StoredRules
    MaxConditions = 2
    RuleNumbers <- PanelNumbers
    Conditions <- PanelConditions
    Match = "all"
    Mode = "sustained"
    Target = 1
    Tolerance = 0
    RuleMessages = 2
    MaxPolls = 2
    MaxTime = 1
    MaxEngine = 1
    MaxToggles = 1
    MaxLost = 1
    SwitchMessages = 1
    Configs <- Panels
    ToggleReports <- Reported
    MaxReports = 1
    MaxFlips = 2
    MaxSaves = 1
    Low = 50
    High = 240
    Step = 100
    Typed = {900}
    SliderReports = {150, 240}
    MaxGestures = 2
    MaxRemounts = 1
    ToggleTexts <- TypedStates
    ToggleValues = {"ON", "on", "OFF", ""}
    TogglePicks = {"s", "+"}
    ToggleConfigured <- Configured
    SliderTexts <- TypedTopics
    Number <- Read
    Infinite <- Endless
    SliderNumbers = {"0", "200", "1e999", ""}
    SliderPicks = {"t"}
    SliderConfigured <- StoredSliders
INVARIANTS
    TypeOK
    Served
    ShowsNewest
    WindowsKeep
    OneWrite
PROPERTIES
    AnnouncedIsSo
    SavedAsShown
    NothingHangs
\* Dialogs and pages may be left alone for good, and budgets run out.
CHECK_DEADLOCK FALSE
