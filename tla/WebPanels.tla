------------------------------- MODULE WebPanels -------------------------------
(***************************************************************************)
(* What a dashboard's page in the browser is made of, a part at a time:    *)
(* the WebSocket manager, the preview of the topics typed in a dialog, a   *)
(* logic rule's window and its panel, a toggle, a slider, and the windows  *)
(* of both.  The parts share no state here: a behaviour is one of one      *)
(* part, the scene, with the variables of the others off.                  *)
(***************************************************************************)
EXTENDS Integers, Sequences

CONSTANTS Brokers, Fallback, Wildcards, Lower, Truth, Includes, MaxEdits, MaxTrips, \* of several parts
          Listeners, WsFilters, WsTopics, MaxSockets, MaxMounts, MaxLosses,   \* WsConnection
          PreviewTopics, PreviewTexts, PreviewMessages,                       \* TopicPreview
          EditorNumbers, EditorFilters, EditorTargets, EditorValues,          \* LogicRuleEditor
          EditorFloats, EditorCooldowns, OfferedOperators, EditorStored, MaxConditions,
          RuleNumbers, Conditions, Match, Mode, Target, Tolerance,            \* LogicRulePanel
          RuleMessages, MaxPolls, MaxTime, MaxEngine, MaxToggles, MaxLost,
          SwitchMessages,
          Configs, ToggleReports, MaxReports, MaxFlips, MaxSaves,             \* TogglePanel
          Low, High, Step, Typed, SliderReports, MaxGestures, MaxRemounts,    \* SliderPanel
          ToggleTexts, ToggleValues, TogglePicks, ToggleConfigured,           \* ToggleWindow
          SliderTexts, Number, Infinite, SliderNumbers, SliderPicks, SliderConfigured   \* SliderWindow

VARIABLES scene,
          sockets, socket, isConnecting, listeners, subscription, activeSubscriptions, retries,
          reconnectTimeout, closeTimeout, served, mounts, losses, brokerId, topics, state,
          timer, asked, sampleAsked, sample, history, live, edits, config, panelBroker, page,
          form, draft, picking, left, trips, sent, engine, on, frames, found, payloadCache,
          heard, subscribed, offered, enabled, polls, status, toggling, pulse, lastFired, now,
          began, matchStart, holdingElapsed, fired, late, lost, steps, log, hub, asks,
          updatedAt, pending, unconfirmed, error, timers, timeoutRef, posts, flips, reached,
          newest, stored, away, returned, remote, dragging, typed, focused, gestures, parted
wsConnectionVars == <<sockets, socket, isConnecting, listeners, activeSubscriptions, retries,
                      reconnectTimeout, closeTimeout, served, mounts, losses>>
topicPreviewVars == <<brokerId, topics, timer, asked, sampleAsked, sample, live>>
logicRuleEditorVars == <<panelBroker, page, form, picking, left, trips>>
logicRulePanelVars == <<sent, engine, on, payloadCache, heard, subscribed, offered, enabled,
                        polls, status, toggling, pulse, lastFired, now, began, matchStart,
                        holdingElapsed, fired, late, lost>>
togglePanelVars == <<log, hub, asks, updatedAt, flips, reached, newest>>
toggleWindowVars == <<returned>>
sliderPanelVars == <<remote, dragging, typed, focused, gestures>>
sliderWindowVars == <<parted>>
shared == <<subscription, state, history, edits, config, draft, frames, found, steps, pending,
            unconfirmed, error, timers, timeoutRef, posts, stored, away>>
vars == <<scene, wsConnectionVars, topicPreviewVars, logicRuleEditorVars, logicRulePanelVars,
           togglePanelVars, toggleWindowVars, sliderPanelVars, sliderWindowVars, shared>>

-----------------------------------------------------------------------------
Ws == INSTANCE WsConnection WITH Filters <- WsFilters, Topics <- WsTopics
Preview == INSTANCE TopicPreview WITH Topics <- PreviewTopics, Texts <- PreviewTexts,
        MaxMessages <- PreviewMessages
Editor == INSTANCE LogicRuleEditor WITH Numbers <- EditorNumbers, Filters <- EditorFilters,
        Targets <- EditorTargets, Values <- EditorValues, Floats <- EditorFloats,
        Cooldowns <- EditorCooldowns, Stored <- EditorStored
Rule == INSTANCE LogicRulePanel WITH Numbers <- RuleNumbers, MaxMessages <- RuleMessages
Toggle == INSTANCE TogglePanel WITH Reports <- ToggleReports
Slider == INSTANCE SliderPanel WITH Reports <- SliderReports
ToggleEdit == INSTANCE ToggleWindow WITH Texts <- ToggleTexts, Values <- ToggleValues, Picks <- TogglePicks,
        Configured <- ToggleConfigured
SliderEdit == INSTANCE SliderWindow WITH Texts <- SliderTexts, Numbers <- SliderNumbers, Picks <- SliderPicks,
        Configured <- SliderConfigured

(* What the proofs about the parts assume of their constants. *)
PartsFit ==
    /\ MaxSockets \in Nat /\ Ws!Unsub \notin WsFilters
    /\ Preview!TextsFit /\ Slider!NumbersFit /\ Toggle!ConfigsFit /\ ToggleEdit!WindowFits
    /\ SliderEdit!RangeFits /\ Editor!RulesFit /\ Rule!RuleFits /\ Rule!PlainTopics
ASSUME PartsAssumption == PartsFit

(* The bounds of a scene that has some of its own: the rule's panel is     *)
(* looked at with its conditions and with its switch.                      *)
RuleBound == steps'.toggles = 0
SwitchBound == now' = 0 /\ steps'.lost = 0 /\ \A k \in Rule!Keys : sent'[k] <= SwitchMessages

(* The variables that are not those of the scene. *)
Off == "off"
wsConnectionVarsOff ==
    /\ sockets = Off /\ socket = Off /\ isConnecting = Off /\ listeners = Off
    /\ activeSubscriptions = Off /\ retries = Off /\ reconnectTimeout = Off
    /\ closeTimeout = Off /\ served = Off /\ mounts = Off /\ losses = Off
topicPreviewVarsOff ==
    /\ brokerId = Off /\ topics = Off /\ timer = Off /\ asked = Off /\ sampleAsked = Off
    /\ sample = Off /\ live = Off
logicRuleEditorVarsOff ==
    /\ panelBroker = Off /\ page = Off /\ form = Off /\ picking = Off /\ left = Off
    /\ trips = Off
logicRulePanelVarsOff ==
    /\ sent = Off /\ engine = Off /\ on = Off /\ payloadCache = Off /\ heard = Off
    /\ subscribed = Off /\ offered = Off /\ enabled = Off /\ polls = Off /\ status = Off
    /\ toggling = Off /\ pulse = Off /\ lastFired = Off /\ now = Off /\ began = Off
    /\ matchStart = Off /\ holdingElapsed = Off /\ fired = Off /\ late = Off /\ lost = Off
togglePanelVarsOff ==
    /\ log = Off /\ hub = Off /\ asks = Off /\ updatedAt = Off /\ flips = Off /\ reached = Off
    /\ newest = Off
toggleWindowVarsOff ==
    /\ returned = Off
sliderPanelVarsOff ==
    /\ remote = Off /\ dragging = Off /\ typed = Off /\ focused = Off /\ gestures = Off
sliderWindowVarsOff ==
    /\ parted = Off
Init ==
    \/ /\ scene = "ws" /\ Ws!Init
       /\ topicPreviewVarsOff /\ logicRuleEditorVarsOff /\ logicRulePanelVarsOff
       /\ togglePanelVarsOff /\ toggleWindowVarsOff /\ sliderPanelVarsOff /\ sliderWindowVarsOff
       /\ state = Off /\ history = Off /\ edits = Off /\ config = Off /\ draft = Off
       /\ frames = Off /\ found = Off /\ steps = Off /\ pending = Off /\ unconfirmed = Off
       /\ error = Off /\ timers = Off /\ timeoutRef = Off /\ posts = Off /\ stored = Off
       /\ away = Off
    \/ /\ scene = "preview" /\ Preview!Init
       /\ wsConnectionVarsOff /\ logicRuleEditorVarsOff /\ logicRulePanelVarsOff
       /\ togglePanelVarsOff /\ toggleWindowVarsOff /\ sliderPanelVarsOff /\ sliderWindowVarsOff
       /\ config = Off /\ draft = Off /\ frames = Off /\ found = Off /\ steps = Off
       /\ pending = Off /\ unconfirmed = Off /\ error = Off /\ timers = Off /\ timeoutRef = Off
       /\ posts = Off /\ stored = Off /\ away = Off
    \/ /\ scene = "editor" /\ Editor!Init
       /\ wsConnectionVarsOff /\ topicPreviewVarsOff /\ logicRulePanelVarsOff
       /\ togglePanelVarsOff /\ toggleWindowVarsOff /\ sliderPanelVarsOff /\ sliderWindowVarsOff
       /\ subscription = Off /\ state = Off /\ history = Off /\ frames = Off /\ found = Off
       /\ steps = Off /\ pending = Off /\ unconfirmed = Off /\ error = Off /\ timers = Off
       /\ timeoutRef = Off /\ posts = Off /\ stored = Off /\ away = Off
    \/ /\ scene = "rule" /\ Rule!Init
       /\ wsConnectionVarsOff /\ topicPreviewVarsOff /\ logicRuleEditorVarsOff
       /\ togglePanelVarsOff /\ toggleWindowVarsOff /\ sliderPanelVarsOff /\ sliderWindowVarsOff
       /\ subscription = Off /\ state = Off /\ edits = Off /\ config = Off /\ draft = Off
       /\ pending = Off /\ unconfirmed = Off /\ error = Off /\ timers = Off /\ timeoutRef = Off
       /\ posts = Off /\ stored = Off /\ away = Off
    \/ /\ scene = "switch" /\ Rule!Init /\ \A k \in Rule!Keys : sent[k] <= SwitchMessages
       /\ wsConnectionVarsOff /\ topicPreviewVarsOff /\ logicRuleEditorVarsOff
       /\ togglePanelVarsOff /\ toggleWindowVarsOff /\ sliderPanelVarsOff /\ sliderWindowVarsOff
       /\ subscription = Off /\ state = Off /\ edits = Off /\ config = Off /\ draft = Off
       /\ pending = Off /\ unconfirmed = Off /\ error = Off /\ timers = Off /\ timeoutRef = Off
       /\ posts = Off /\ stored = Off /\ away = Off
    \/ /\ scene = "toggle" /\ Toggle!Init
       /\ wsConnectionVarsOff /\ topicPreviewVarsOff /\ logicRuleEditorVarsOff
       /\ logicRulePanelVarsOff /\ toggleWindowVarsOff /\ sliderPanelVarsOff
       /\ sliderWindowVarsOff /\ subscription = Off /\ edits = Off /\ draft = Off
       /\ stored = Off /\ away = Off
    \/ /\ scene = "togglewindow" /\ ToggleEdit!Init
       /\ wsConnectionVarsOff /\ topicPreviewVarsOff /\ logicRuleEditorVarsOff
       /\ logicRulePanelVarsOff /\ togglePanelVarsOff /\ sliderPanelVarsOff
       /\ sliderWindowVarsOff /\ subscription = Off /\ state = Off /\ history = Off
       /\ edits = Off /\ config = Off /\ frames = Off /\ found = Off /\ pending = Off
       /\ unconfirmed = Off /\ error = Off /\ timers = Off /\ timeoutRef = Off /\ posts = Off
    \/ /\ scene = "slider" /\ Slider!Init
       /\ wsConnectionVarsOff /\ topicPreviewVarsOff /\ logicRuleEditorVarsOff
       /\ logicRulePanelVarsOff /\ togglePanelVarsOff /\ toggleWindowVarsOff
       /\ sliderWindowVarsOff /\ subscription = Off /\ state = Off /\ edits = Off
       /\ config = Off /\ draft = Off /\ found = Off /\ stored = Off /\ away = Off
    \/ /\ scene = "sliderwindow" /\ SliderEdit!Init
       /\ wsConnectionVarsOff /\ topicPreviewVarsOff /\ logicRuleEditorVarsOff
       /\ logicRulePanelVarsOff /\ togglePanelVarsOff /\ toggleWindowVarsOff
       /\ sliderPanelVarsOff /\ subscription = Off /\ state = Off /\ history = Off
       /\ edits = Off /\ config = Off /\ frames = Off /\ found = Off /\ pending = Off
       /\ unconfirmed = Off /\ error = Off /\ timers = Off /\ timeoutRef = Off /\ posts = Off

WsNext ==
    /\ scene = "ws" /\ Ws!Next
    /\ UNCHANGED <<scene, topicPreviewVars, logicRuleEditorVars, logicRulePanelVars,
                    togglePanelVars, toggleWindowVars, sliderPanelVars, sliderWindowVars, state,
                    history, edits, config, draft, frames, found, steps, pending, unconfirmed,
                    error, timers, timeoutRef, posts, stored, away>>
PreviewNext ==
    /\ scene = "preview" /\ Preview!Next
    /\ UNCHANGED <<scene, wsConnectionVars, logicRuleEditorVars, logicRulePanelVars,
                    togglePanelVars, toggleWindowVars, sliderPanelVars, sliderWindowVars,
                    config, draft, frames, found, steps, pending, unconfirmed, error, timers,
                    timeoutRef, posts, stored, away>>
EditorNext ==
    /\ scene = "editor" /\ Editor!Next
    /\ UNCHANGED <<scene, wsConnectionVars, topicPreviewVars, logicRulePanelVars,
                    togglePanelVars, toggleWindowVars, sliderPanelVars, sliderWindowVars,
                    subscription, state, history, frames, found, steps, pending, unconfirmed,
                    error, timers, timeoutRef, posts, stored, away>>
RuleNext ==
    /\ scene = "rule" /\ Rule!Next /\ RuleBound
    /\ UNCHANGED <<scene, wsConnectionVars, topicPreviewVars, logicRuleEditorVars,
                    togglePanelVars, toggleWindowVars, sliderPanelVars, sliderWindowVars,
                    subscription, state, edits, config, draft, pending, unconfirmed, error,
                    timers, timeoutRef, posts, stored, away>>
SwitchNext ==
    /\ scene = "switch" /\ Rule!Next /\ SwitchBound
    /\ UNCHANGED <<scene, wsConnectionVars, topicPreviewVars, logicRuleEditorVars,
                    togglePanelVars, toggleWindowVars, sliderPanelVars, sliderWindowVars,
                    subscription, state, edits, config, draft, pending, unconfirmed, error,
                    timers, timeoutRef, posts, stored, away>>
ToggleNext ==
    /\ scene = "toggle" /\ Toggle!Next
    /\ UNCHANGED <<scene, wsConnectionVars, topicPreviewVars, logicRuleEditorVars,
                    logicRulePanelVars, toggleWindowVars, sliderPanelVars, sliderWindowVars,
                    subscription, edits, draft, stored, away>>
ToggleEditNext ==
    /\ scene = "togglewindow" /\ ToggleEdit!Next
    /\ UNCHANGED <<scene, wsConnectionVars, topicPreviewVars, logicRuleEditorVars,
                    logicRulePanelVars, togglePanelVars, sliderPanelVars, sliderWindowVars,
                    subscription, state, history, edits, config, frames, found, pending,
                    unconfirmed, error, timers, timeoutRef, posts>>
SliderNext ==
    /\ scene = "slider" /\ Slider!Next
    /\ UNCHANGED <<scene, wsConnectionVars, topicPreviewVars, logicRuleEditorVars,
                    logicRulePanelVars, togglePanelVars, toggleWindowVars, sliderWindowVars,
                    subscription, state, edits, config, draft, found, stored, away>>
SliderEditNext ==
    /\ scene = "sliderwindow" /\ SliderEdit!Next
    /\ UNCHANGED <<scene, wsConnectionVars, topicPreviewVars, logicRuleEditorVars,
                    logicRulePanelVars, togglePanelVars, toggleWindowVars, sliderPanelVars,
                    subscription, state, history, edits, config, frames, found, pending,
                    unconfirmed, error, timers, timeoutRef, posts>>
Next == \/ WsNext \/ PreviewNext \/ EditorNext \/ RuleNext \/ SwitchNext \/ ToggleNext
        \/ ToggleEditNext \/ SliderNext \/ SliderEditNext

WsVars == Ws!vars
PreviewVars == Preview!vars
RuleVars == Rule!vars
ToggleVars == Toggle!vars
SliderVars == Slider!vars
Fairness ==
    /\ \A s \in Ws!Sockets : WF_WsVars(scene = "ws" /\ Ws!Opened(s))
    /\ \A s \in Ws!Sockets : WF_WsVars(scene = "ws" /\ Ws!Closed(s))
    /\ WF_WsVars(scene = "ws" /\ Ws!Reconnect)
    /\ WF_WsVars(scene = "ws" /\ Ws!CloseTimer)
    /\ WF_PreviewVars(scene = "preview" /\ Preview!Debounced)
    /\ WF_PreviewVars(scene = "preview" /\ Preview!Answered)
    /\ WF_PreviewVars(scene = "preview" /\ Preview!SampleAnswered)
    /\ WF_RuleVars(scene = "switch" /\ Rule!Poll)
    /\ WF_RuleVars(scene = "switch" /\ Rule!OnMessage)
    /\ WF_RuleVars(scene = "switch" /\ Rule!ServeToggle)
    /\ WF_RuleVars(scene = "switch" /\ (\E ok \in BOOLEAN : Rule!OnToggled(ok)))
    /\ \A k \in Rule!Keys : WF_RuleVars(scene = "switch" /\ Rule!ServeHistory(k))
    /\ \A k \in Rule!Keys : WF_RuleVars(scene = "switch" /\ Rule!OnHistory(k))
    /\ \A i \in 1..MaxPolls : WF_RuleVars(scene = "switch" /\ i \in DOMAIN polls /\ Rule!ServePoll(i))
    /\ \A i \in 1..MaxPolls : WF_RuleVars(scene = "switch" /\ i \in DOMAIN polls /\ Rule!OnStatus(i))
    /\ WF_ToggleVars(scene = "toggle" /\ (\E t \in timers : Toggle!Timeout(t)))
    /\ WF_SliderVars(scene = "slider" /\ (\E t \in timers : Slider!Timeout(t)))
Spec == Init /\ [][Next]_vars /\ Fairness

-----------------------------------------------------------------------------
(* The shapes of each part; dialogs that wait stay open, and timers and    *)
(* requests fit what waits for them.                                       *)
TypeOK ==
    /\ scene = "ws" => Ws!TypeOK
    /\ scene = "preview" => Preview!TypeOK
    /\ scene = "editor" => Editor!TypeOK
    /\ scene = "rule" => Rule!TypeOK
    /\ scene = "switch" => Rule!TypeOK
    /\ scene = "toggle" => Toggle!TypeOK
    /\ scene = "togglewindow" => ToggleEdit!TypeOK
    /\ scene = "slider" => Slider!TypeOK
    /\ scene = "sliderwindow" => SliderEdit!TypeOK
(* While its socket is open a mounted hook hears each message its filter   *)
(* asks for and the hub serves nobody who has left; the manager never      *)
(* keeps a socket that has died, nor waits for one that nobody opens.      *)
Served == scene = "ws" => Ws!MountedServed /\ Ws!SocketAlive
(* The topic field calls a topic active only if the typed broker has sent  *)
(* something on it, and its history menu offers no message of another      *)
(* broker or topic; what the rule panel evaluates of a topic is never      *)
(* older than what it was handed live, and with history and subscription   *)
(* in it is the newest of each that either handed over; at rest a toggle   *)
(* shows the newest message of its topic, unless that was missed or an     *)
(* older one came last, and the switch of a rule stands as the server has  *)
(* it.                                                                     *)
ShowsNewest ==
    /\ scene = "preview" => Preview!Truthful /\ Preview!SampleFits
    /\ scene = "rule" => Rule!NeverBehind /\ Rule!CaughtUp
    /\ scene = "switch" => Rule!SwitchInStep
    /\ scene = "toggle" => Toggle!ShowsNewest
(* A topic picked in the explorer lands in the field it was picked for,    *)
(* and every other entry of the window comes back from the trip; what the  *)
(* rule window lets the user save the engine accepts, but for a target of  *)
(* commas, a blank or hexadecimal number, a negative cool-down and numbers *)
(* with a fraction, with the conditions combined as the AND and OR buttons *)
(* between them say; a slider that has no state topic reads the shape it   *)
(* writes.                                                                 *)
WindowsKeep ==
    /\ scene = "editor" => Editor!TripKeepsEntries /\ Editor!SavedAccepted /\ Editor!JoinsAsShown
    /\ scene = "togglewindow" => ToggleEdit!PickLands
    /\ scene = "sliderwindow" => SliderEdit!PickLands /\ SliderEdit!ReadsWhatItWrites
(* One adjustment of a slider is one message, of a value in the range and  *)
(* on its steps, but for the decimals that only its low end has, and a     *)
(* flip or a value waits with one timer, however quickly another follows   *)
(* and wherever the panel is pointed meanwhile.                            *)
OneWrite ==
    /\ scene = "toggle" => Toggle!OneTimer
    /\ scene = "slider" => Slider!OneTimer /\ Slider!OnGrid /\ Slider!OncePerGesture
(* A flip that ends with no complaint has gone where it was asked to go, a *)
(* value that does so was reported back to one step, and the page          *)
(* announces a firing of its own only after the rule has held long enough. *)
AnnouncedIsSo ==
    [][/\ scene = "toggle" => Toggle!EndsWell
       /\ scene = "slider" => Slider!EndsWell
       /\ scene = "rule" => Rule!FiresInTime]_vars
(* A saved toggle publishes and listens where the window showed and reads  *)
(* what it publishes as the state it stands for, unless its values differ  *)
(* in case only; the range of a saved slider, if its numbers are finite,   *)
(* is the one that was typed and the one the panel uses.                   *)
SavedAsShown ==
    [][/\ scene = "togglewindow" => ToggleEdit!AsShown /\ ToggleEdit!SavedReads
       /\ scene = "sliderwindow" => SliderEdit!RangeTaken]_vars
(* What the user waits for is there. *)
Rests ==
    /\ scene = "ws" => Ws!Connected
    /\ scene = "preview" => Preview!Settled
    /\ scene = "switch" => Rule!SwitchFree /\ Rule!ShowsTrip
    /\ scene = "toggle" => Toggle!AtRest
    /\ scene = "slider" => Slider!AtRest
(* A page with a mounted hook is connected again after every loss, the     *)
(* topic field does not keep saying that it is checking, the switch of a   *)
(* rule is never left waiting, a rule that tripped and stays so is shown   *)
(* as tripped, and neither a flip nor a value waits for ever.              *)
NothingHangs == []<>Rests
================================================================================
