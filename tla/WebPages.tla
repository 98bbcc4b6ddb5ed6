------------------------------- MODULE WebPages -------------------------------
(***************************************************************************)
(* The pages of the browser, one at a time: dashboards, automations, the   *)
(* explorer and both tabs of the settings.  The pages share no state here: *)
(* a behaviour is one of one page, the scene, with the variables of the    *)
(* others off.                                                             *)
(***************************************************************************)
EXTENDS Integers, Sequences

CONSTANTS Dashboards, MaxCalls, MaxActs,                           \* of several pages
          Panels, NoDash, InitialRows, Visited,                    \* DashboardShell
          JobIds, Attr, SearchTexts, Used,                         \* Automations
          BrokerList, Topics, commonSysTopics, Outbounds, Urls,    \* Explorer
          Queries, InitialStatus, InitialStores, InitialQueues, MaxPublish, TreeActs,
          Ids, Initial, FormTexts, Requested,                      \* BrokerSettings
          Stored, Values,                                          \* GeneralSettings
          Titles, Configs, Turned, PanelBrokers, OtherDashboards,  \* PanelCard
          IsVisual, TopicDetail, HasPayload, MaxMoves              \* PanelPopovers

VARIABLES scene,
          rows, home, path, query, dashboards, activeDashboardId, stored, dashboardsLoading,
          listCalls, editMode, panelLibraryOpen, dialogs, busy, panels, isLoadingLayout,
          layoutCall, calls, astray, overlapped, acts, server, jobs, loading, togglingIds,
          toast, selectedDashboardId, searchQuery, filters, sort, activeFilterCol, crossed,
          status, store, served, frames, pickerCtx, url, selectedBrokerId, pickerSelectedTopic,
          pickerInitialized, topics, selectedTopic, live, flash, showSysTopic,
          showExactTopicOnly, filterText, defaultExpanded, overrides, requests, returned,
          queue, published, unheard, late, overtaken, noticeDismissed, steps, created, requested, tab, brokers,
          selectedId, form, saving, reading, typed, settings, history, retentionValue,
          retentionUnit, showSysTopics, retentionSaving, historySize, showClearConfirm,
          clearingHistory, mcpEnabled, mcpSaving, copiedMcpKey, copyTimers, loaded, unsaved,
          early, panel, mounted, title, editingTitle, showConfig, capturedPicker,
          openConfigTimeout, pickerReturn, openConfigPanels, optimisticPinned, copyModalOpen,
          actionBusy, meddled, failed, pointer, hovered, leaving, isPinned, moves,
          raced, nowhere
dashboardShellVars == <<home, path, query, activeDashboardId, stored, dashboardsLoading,
                        listCalls, editMode, panelLibraryOpen, dialogs, busy, panels,
                        isLoadingLayout, layoutCall, raced, nowhere>>
automationsVars == <<jobs, loading, togglingIds, toast, selectedDashboardId, searchQuery,
                     filters, sort, activeFilterCol>>
explorerVars == <<status, store, served, frames, pickerCtx, url, selectedBrokerId,
                  pickerSelectedTopic, pickerInitialized, topics, selectedTopic, live, flash,
                  showSysTopic, showExactTopicOnly, filterText, defaultExpanded, overrides,
                  requests, returned, queue, published, unheard, late, overtaken,
                  noticeDismissed, steps>>
brokerSettingsVars == <<created, requested, tab, brokers, selectedId, form, saving, reading,
                        typed>>
generalSettingsVars == <<settings, history, retentionValue, retentionUnit, showSysTopics,
                         retentionSaving, historySize, showClearConfirm, clearingHistory,
                         mcpEnabled, mcpSaving, copiedMcpKey, copyTimers, loaded, unsaved, early>>
panelCardVars == <<panel, mounted, title, editingTitle, showConfig, capturedPicker,
                   openConfigTimeout, pickerReturn, openConfigPanels, optimisticPinned,
                   copyModalOpen, actionBusy, meddled, failed>>
panelPopoversVars == <<pointer, hovered, leaving, isPinned, moves>>
shared == <<rows, dashboards, calls, astray, overlapped, acts, server, crossed>>
vars == <<scene, dashboardShellVars, automationsVars, explorerVars, brokerSettingsVars,
           generalSettingsVars, panelCardVars, panelPopoversVars, shared>>

-----------------------------------------------------------------------------
Shell == INSTANCE DashboardShell
Jobs == INSTANCE Automations WITH Jobs <- JobIds, Texts <- SearchTexts
Tree == INSTANCE Explorer WITH MaxActs <- TreeActs
Settings == INSTANCE BrokerSettings WITH Texts <- FormTexts
General == INSTANCE GeneralSettings
Card == INSTANCE PanelCard WITH Brokers <- PanelBrokers, Dashboards <- OtherDashboards
Popovers == INSTANCE PanelPopovers

(* What the proofs about the pages assume of their constants. *)
PagesFit ==
    /\ Shell!ShellFit /\ Jobs!JobsFit /\ Tree!ExplorerFit /\ Settings!BrokersFit
    /\ General!SettingsFit /\ Card!CardFits
ASSUME PagesAssumption == PagesFit

(* The variables that are not those of the scene. *)
Off == "off"
dashboardShellVarsOff ==
    /\ home = Off /\ path = Off /\ query = Off /\ activeDashboardId = Off /\ stored = Off
    /\ dashboardsLoading = Off /\ listCalls = Off /\ editMode = Off /\ panelLibraryOpen = Off
    /\ dialogs = Off /\ busy = Off /\ panels = Off /\ isLoadingLayout = Off /\ layoutCall = Off
    /\ raced = Off /\ nowhere = Off
automationsVarsOff ==
    /\ jobs = Off /\ loading = Off /\ togglingIds = Off /\ toast = Off
    /\ selectedDashboardId = Off /\ searchQuery = Off /\ filters = Off /\ sort = Off
    /\ activeFilterCol = Off
explorerVarsOff ==
    /\ status = Off /\ store = Off /\ served = Off /\ frames = Off /\ pickerCtx = Off
    /\ url = Off /\ selectedBrokerId = Off /\ pickerSelectedTopic = Off
    /\ pickerInitialized = Off /\ topics = Off /\ selectedTopic = Off /\ live = Off
    /\ flash = Off /\ showSysTopic = Off /\ showExactTopicOnly = Off /\ filterText = Off
    /\ defaultExpanded = Off /\ overrides = Off /\ requests = Off /\ returned = Off
    /\ queue = Off /\ published = Off /\ late = Off
    /\ unheard = Off /\ overtaken = Off /\ noticeDismissed = Off /\ steps = Off
brokerSettingsVarsOff ==
    /\ created = Off /\ requested = Off /\ tab = Off /\ brokers = Off /\ selectedId = Off
    /\ form = Off /\ saving = Off /\ reading = Off /\ typed = Off
generalSettingsVarsOff ==
    /\ settings = Off /\ history = Off /\ retentionValue = Off /\ retentionUnit = Off
    /\ showSysTopics = Off /\ retentionSaving = Off /\ historySize = Off
    /\ showClearConfirm = Off /\ clearingHistory = Off /\ mcpEnabled = Off /\ mcpSaving = Off
    /\ copiedMcpKey = Off /\ copyTimers = Off /\ loaded = Off /\ unsaved = Off /\ early = Off
panelCardVarsOff ==
    /\ panel = Off /\ mounted = Off /\ title = Off /\ editingTitle = Off /\ showConfig = Off
    /\ capturedPicker = Off /\ openConfigTimeout = Off /\ pickerReturn = Off
    /\ openConfigPanels = Off /\ optimisticPinned = Off /\ copyModalOpen = Off
    /\ actionBusy = Off /\ meddled = Off /\ failed = Off
panelPopoversVarsOff ==
    /\ pointer = Off /\ hovered = Off /\ leaving = Off /\ isPinned = Off /\ moves = Off
Init ==
    \/ /\ scene = "shell" /\ Shell!Init
       /\ automationsVarsOff /\ explorerVarsOff /\ brokerSettingsVarsOff
       /\ generalSettingsVarsOff /\ panelCardVarsOff /\ panelPopoversVarsOff /\ server = Off
       /\ crossed = Off
    \/ /\ scene = "jobs" /\ Jobs!Init
       /\ dashboardShellVarsOff /\ explorerVarsOff /\ brokerSettingsVarsOff
       /\ generalSettingsVarsOff /\ panelCardVarsOff /\ panelPopoversVarsOff /\ rows = Off
       /\ astray = Off /\ overlapped = Off
    \/ /\ scene = "explorer" /\ Tree!Init
       /\ dashboardShellVarsOff /\ automationsVarsOff /\ brokerSettingsVarsOff
       /\ generalSettingsVarsOff /\ panelCardVarsOff /\ panelPopoversVarsOff /\ rows = Off
       /\ dashboards = Off /\ calls = Off /\ astray = Off /\ overlapped = Off /\ acts = Off
       /\ server = Off /\ crossed = Off
    \/ /\ scene = "brokers" /\ Settings!Init
       /\ dashboardShellVarsOff /\ automationsVarsOff /\ explorerVarsOff
       /\ generalSettingsVarsOff /\ panelCardVarsOff /\ panelPopoversVarsOff /\ dashboards = Off
       /\ server = Off
    \/ /\ scene = "general" /\ General!Init
       /\ dashboardShellVarsOff /\ automationsVarsOff /\ explorerVarsOff
       /\ brokerSettingsVarsOff /\ panelCardVarsOff /\ panelPopoversVarsOff /\ rows = Off
       /\ dashboards = Off /\ overlapped = Off /\ server = Off /\ crossed = Off
    \/ /\ scene = "card" /\ Card!Init
       /\ dashboardShellVarsOff /\ automationsVarsOff /\ explorerVarsOff
       /\ brokerSettingsVarsOff /\ generalSettingsVarsOff /\ panelPopoversVarsOff /\ rows = Off
       /\ dashboards = Off /\ astray = Off /\ overlapped = Off /\ crossed = Off
    \/ /\ scene = "popovers" /\ Popovers!Init
       /\ dashboardShellVarsOff /\ automationsVarsOff /\ explorerVarsOff
       /\ brokerSettingsVarsOff /\ generalSettingsVarsOff /\ panelCardVarsOff /\ rows = Off
       /\ dashboards = Off /\ calls = Off /\ astray = Off /\ overlapped = Off /\ acts = Off
       /\ server = Off /\ crossed = Off

ShellNext ==
    /\ scene = "shell" /\ Shell!Next
    /\ UNCHANGED <<scene, automationsVars, explorerVars, brokerSettingsVars,
                    generalSettingsVars, panelCardVars, panelPopoversVars, server, crossed>>
JobsNext ==
    /\ scene = "jobs" /\ Jobs!Next
    /\ UNCHANGED <<scene, dashboardShellVars, explorerVars, brokerSettingsVars,
                    generalSettingsVars, panelCardVars, panelPopoversVars, rows, astray,
                    overlapped>>
TreeNext ==
    /\ scene = "explorer" /\ Tree!Next
    /\ UNCHANGED <<scene, dashboardShellVars, automationsVars, brokerSettingsVars,
                    generalSettingsVars, panelCardVars, panelPopoversVars, rows, dashboards,
                    calls, astray, overlapped, acts, server, crossed>>
SettingsNext ==
    /\ scene = "brokers" /\ Settings!Next
    /\ UNCHANGED <<scene, dashboardShellVars, automationsVars, explorerVars,
                    generalSettingsVars, panelCardVars, panelPopoversVars, dashboards, server>>
GeneralNext ==
    /\ scene = "general" /\ General!Next
    /\ UNCHANGED <<scene, dashboardShellVars, automationsVars, explorerVars,
                    brokerSettingsVars, panelCardVars, panelPopoversVars, rows, dashboards,
                    overlapped, server, crossed>>
CardNext ==
    /\ scene = "card" /\ Card!Next
    /\ UNCHANGED <<scene, dashboardShellVars, automationsVars, explorerVars,
                    brokerSettingsVars, generalSettingsVars, panelPopoversVars, rows,
                    dashboards, astray, overlapped, crossed>>
PopoversNext ==
    /\ scene = "popovers" /\ Popovers!Next
    /\ UNCHANGED <<scene, dashboardShellVars, automationsVars, explorerVars,
                    brokerSettingsVars, generalSettingsVars, panelCardVars, rows, dashboards,
                    calls, astray, overlapped, acts, server, crossed>>
Next == \/ ShellNext \/ JobsNext \/ TreeNext \/ SettingsNext \/ GeneralNext \/ CardNext
        \/ PopoversNext

ShellVars == Shell!vars
JobsVars == Jobs!vars
TreeVars == Tree!vars
SettingsVars == Settings!vars
GeneralVars == General!vars
CardVars == Card!vars
PopoversVars == Popovers!vars
Fairness ==
    /\ WF_ShellVars(scene = "shell" /\ (\E i \in DOMAIN listCalls : Shell!ServeList(i) \/ Shell!ListAnswered(i)))
    /\ WF_ShellVars(scene = "shell" /\ Shell!ServeLayout)
    /\ WF_ShellVars(scene = "shell" /\ Shell!LayoutAnswered)
    /\ WF_JobsVars(scene = "jobs" /\ (\E c \in calls : Jobs!ServePut(c) \/ Jobs!ServeList(c) \/ Jobs!Answered(c)))
    /\ WF_TreeVars(scene = "explorer" /\ Tree!FlashTimer)
    /\ WF_TreeVars(scene = "explorer" /\ Tree!Frame)
    /\ WF_SettingsVars(scene = "brokers" /\ Settings!Answering)
    /\ WF_GeneralVars(scene = "general" /\ General!Answering)
    /\ WF_GeneralVars(scene = "general" /\ General!CopyTimer)
    /\ WF_CardVars(scene = "card" /\ (\E i \in DOMAIN calls : Card!Answer(i)))
    /\ \A part \in Popovers!Parts : WF_PopoversVars(scene = "popovers" /\ Popovers!Leave(part))
Spec == Init /\ [][Next]_vars /\ Fairness

-----------------------------------------------------------------------------
(* The shapes of each page; a dialog or a button that waits has one call   *)
(* under way, and what is open may be open.                                *)
TypeOK ==
    /\ scene = "shell" => Shell!TypeOK
    /\ scene = "jobs" => Jobs!TypeOK
    /\ scene = "explorer" => Tree!TypeOK
    /\ scene = "brokers" => Settings!TypeOK
    /\ scene = "general" => General!TypeOK
    /\ scene = "card" => Card!TypeOK
    /\ scene = "popovers" => Popovers!TypeOK
(* At rest a page shows what the server holds - the list of dashboards and *)
(* the panels of the selected one, the switches of the automations, the    *)
(* brokers in their order, the retention, a panel as its row has it -      *)
(* unless two requests crossed, one failed, or an answer came after the    *)
(* user had turned elsewhere; and an automation is hidden only if a filled *)
(* funnel, the search or the chosen dashboard says so.  The tree of the    *)
(* explorer has every topic stored of the broker shown and none of another *)
(* broker, but for those no frame was sent of and those that waited to be  *)
(* stored when it was read, and the row of the selected topic can be seen  *)
(* unless it was folded away by hand.                                      *)
InStep ==
    /\ scene = "shell" => Shell!ActiveKnown /\ Shell!ListInStep /\ Shell!PageInStep
    /\ scene = "jobs" => Jobs!SwitchesInStep /\ Jobs!SwitchHeld /\ Jobs!HiddenExplained
    /\ scene = "brokers" => Settings!ListInStep /\ Settings!OpenListed
    /\ scene = "general" => General!RetentionShown
    /\ scene = "card" => Card!RowInStep
    /\ scene = "explorer" => Tree!TreeComplete /\ Tree!TreeOfBroker /\ Tree!SelectedVisible /\ Tree!PickShown
(* What the server holds of a broker was there at first or entered while   *)
(* that broker was open, unless an answer came to another one's form, and  *)
(* it refuses nothing the general tab lets the user save.  What was picked *)
(* in the explorer is for one settings window and no other, the dashboard  *)
(* knows of every open window and of none that has gone, one copy or move  *)
(* is asked for at a time, and no popover closes under the pointer.        *)
OwnWindow ==
    /\ scene = "card" => Card!PickForOneWindow /\ Card!WindowKnown /\ Card!OneCopy
    /\ scene = "popovers" => Popovers!StaysUnderPointer
    /\ scene = "brokers" => Settings!OwnSettings
    /\ scene = "general" => General!SavesAccepted
(* A change of a panel moves no more of its row than it is about, unless   *)
(* two overlapped or one failed.                                           *)
OneChange == [][scene = "card" => Card!MovesOwnKeys]_vars
(* Every message of the broker shown is sent to the explorer. *)
HearsAll == scene = "explorer" => Tree!HearsAll
(* What the user waits for is there. *)
Rests ==
    /\ scene = "shell" => Shell!Still
    /\ scene = "jobs" => Jobs!ControlsFree
    /\ scene = "explorer" => ~Tree!Flashing
    /\ scene = "brokers" => ~saving
    /\ scene = "general" => General!ButtonsFree
    /\ scene = "card" => ~actionBusy
    /\ scene = "popovers" => Popovers!NoneLeft
(* No page loads for ever: the refresh button, the switches and the        *)
(* buttons that wait come back, a row lit by a message goes dark again,    *)
(* and once the pointer has gone for good what is not pinned closes.       *)
NothingHangs == []<>Rests
=============================================================================
