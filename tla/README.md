# A TLA+ model of mqtt-dashboard

mqtt-dashboard is one Go process (`src/backend`) and a React application
(`src/frontend`).  The process keeps connections to MQTT brokers, stores every
message it sees in SQLite, forwards messages over WebSockets to the panels of
open pages, and runs automations: rules that react to messages (logic panels)
and scheduled publications (cron panels).  An optional MCP server exposes the
same data to assistants.

This directory states what makes that system correct where it is hard to test,
checks it with TLC on small instances, and proves part of it with TLAPS for all
instances.  Paths below are relative to `src/backend` unless they start with
`src/`; those of the browser are relative to `src/frontend/src` where they name
`hooks/`, `pages/` or `components/`.

To check a module: `tlc -config MCWsHubChurn.cfg MCWsHub`; to prove one:
`tlapm WsHubProofs.tla`.  `PROJECT.json` lists the runs, the mutants of the code
each property is known to detect, the source lines behind each definition, and
the hazards.

## 1. The system

| Component | State it keeps | Operations | Talks to |
|---|---|---|---|
| WebSocket hub `ws/hub.go`, `ws/handler.go` | clients, three indexes of who watches which (broker, topic), one handler per watched topic, a cache of panel titles | register, subscribe/unsubscribe a panel, unregister, close all, fan a message out | registry (subscribe), database (titles), browsers |
| Logic engine `logic/engine.go`, `logic/eval.go` | rules, per-rule state (hits, episode, timer, last firing), topic tables, last payloads | add, remove, toggle, clear, stop, prime; message and timer callbacks | registry (subscribe, publish), the trip callback of `main.go` |
| Cron scheduler `cron/scheduler.go` | job per panel, system jobs | add, toggle, remove, run | gocron, registry (publish) |
| Panel and dashboard handlers `handlers/layout.go`, `logic.go`, `cron.go`, `automations.go`, `dashboard.go`, loaders | rows of `dashboard_layouts` and `dashboards` | create, update, toggle, poll, copy, move, import, delete, cascade, load at start | database, engine, scheduler, hub's cache |
| MQTT manager `mqtt/client.go` | handlers per topic, connection status, what was published lately | connect, subscribe, unsubscribe, publish, callbacks of the client library | broker |
| Registry `mqtt/registry.go`, `mqtt/loader.go`, `handlers/config.go` | manager per broker, default broker, retained topics, history queue | create, edit, delete, reorder brokers; publish; history writer start/stop | managers, database |
| Settings `handlers/settings.go` | one row and its copies in registry and MCP server | put, patch | registry, MCP server |
| MCP server `mcp/` | enabled flag, SSE sessions | enable, open, close, call tools | database, engines |
| Demo reset `demo/reset.go` | none | reset everything | all of the above |
| Browser socket manager `hooks/useWebSocket.ts` | one socket, listeners, active subscriptions, timers | register, subscribe, unregister, reconnect | hub |
| Topic field `components/panels/config/TopicField.tsx`, `hooks/useTopicMessages.ts`, `hooks/usePayloadSample.ts` | what was heard on the typed topics, samples | type, query the history, hear | history queries, socket manager |
| Logic panel and its window `components/panels/LogicPanel.tsx`, `logicUtils.ts` | the form; values, clock and status of the rule | edit, pick a topic, save; evaluate, poll, toggle | engine's handlers, history, socket manager |
| Toggle and slider panels and windows `components/panels/TogglePanel.tsx`, `SliderPanel.tsx` | what is shown, what waits for confirmation, timers; the forms | flip, drag, type; confirm, give up; edit, pick, save | publish handler, history, socket manager |
| Panel frame `components/PanelWrapper.tsx` | the panel as the page last saw it, windows, popovers | rename, configure, pin, copy, move, delete | layout handlers |
| Dashboard shell `components/Layout.tsx`, `DashboardSelector.tsx`, `pages/DashboardPage.tsx` | list and selection of dashboards, panels on the page | select, create, copy, import, delete; add panels | dashboard and layout handlers |
| Automations page `pages/AutomationsPage.tsx` | rows, filters, sorting | load, switch, filter, sort | automations handlers |
| Explorer `pages/ExplorerPage.tsx`, `components/explorer/` | tree of topics, folds, selection, filter | choose a broker, select, fold, pick, publish | history queries, socket manager |
| Settings pages `pages/ConfigPage.tsx` | list of brokers, one form, general settings | edit, save, switch, reorder, delete, clear the history | broker and settings handlers |

The process is concurrent throughout: a goroutine per HTTP request, two per
WebSocket, a router per broker connection that calls the message handlers in
turn, a goroutine per expired timer, per publication and per trip, gocron's
workers, and the history writer.  The hub, the engine and the scheduler each
have one mutex; the database has one connection, which makes every statement
atomic and nothing larger unless a transaction says so.  No lock and no
transaction spans two components, and that is where most of the difficulty is.

The browser runs one thread, and its difficulty is of another kind: every request
is an `await`, and what follows it runs on a page that may have changed, with the
values of the render in which the function was made; requests are served and
answered in any order; timers, frames and answers come between any two.

### What is hard, and what makes each component correct

* **Hub.** Reference counts at two levels, edited by frames, departures and mass
  disconnection, while routers read them.  Correct: the indexes agree; a topic is
  subscribed at the broker exactly while somebody watches it; nobody watches who
  has gone; a slow browser delays nobody.
* **Logic engine.** Timers that expire while the lock is held, edits in the middle
  of an episode, shared topic handlers, trips.  Correct: the engine listens to
  exactly the topics of its active rules; a condition that holds long enough fires
  once; cool-down, ceiling and trips survive edits and toggles.
* **Panels and automations.** One automation lives in a row and in an engine, and
  every handler edits both in separate calls, with crashes, trips and other
  handlers between them.  Correct: the two stay in step when requests do not
  overlap, and what is deleted stays deleted even when they do.
* **MQTT manager.** `#` takes over from specific subscriptions and gives them back;
  reconnection subscribes again; an echo is attributed to the panel that published
  it by its topic and payload alone.  Correct: each handler is called once for each
  message it asked for, and no live message is taken for another panel's.
* **Locks held while a broker is waited for.** The hub and the engine ask a broker
  for a topic with their lock held, the loader with the database's connection; the
  callbacks that the answer waits behind take the same locks.  Correct: everybody
  gets on, at the cost of the five seconds a wait may last.
* **Registry and brokers.** Connecting takes seconds and happens outside every lock.
  Correct: with no request under way the enabled brokers are connected as their
  rows say, and no others; the default broker is the first of them; every
  message is stored once, in order, until shutdown.
* **Settings, MCP, demo reset.** Copies of one truth.  Correct: after quiescence
  they agree, a disabled MCP server has no session but of clients let in before,
  and nothing is sent on a closed channel.
* **Browser socket manager.** Correct: with panels on the page there is, again and
  again, one open socket, which carries exactly their subscriptions.
* **Panels in the browser.** History answers and live messages arrive in either order;
  a command waits for its report, its call and a timer.  Correct: the panel shows the
  newest message it was handed, one gesture is one message, what ends without a
  complaint was confirmed, and what a window stores is what it showed.
* **Pages in the browser.** Correct: at rest a page shows what the server holds,
  unless two requests crossed or one failed; an answer goes into the form that asked.

`PROJECT.json` lists the individual hazards at their lines, with the properties
that cover them.

## 2. Modules

Each component has a module of its own (`Init`, one action per operation or per
step between two locks, `Next`, `Spec`), an `MC…` module with the instances, one
`.cfg` per question and, where something is proved, a `…Proofs` module.

### WsHub and TopicSharing

`WsHub` models the hub together with the part of the registry and of the client
library that it drives.  `reader`, `clients`, `closed`, `queued` and `stamp` are a
connection: its reader goroutine, its entry in `Hub.clients`, its send channel
and the `panelID` stamped on frames.  `panelSubs`, `subscriptions`, `topicClients`
and `topicHandlers` are the maps of those names; `handlers` counts the hub's
closures in the manager of each broker; `fanout` is the router goroutine of each
broker, part way through one message.

`SubscribePanel` is several steps (`BeginSubscribe`, one `AddTopic` per topic,
`EndSubscribe`) with `Hub.mu` held, because brokers and routers move during it and
each subscription may fail by itself.  The other hub operations are one step each.
The fan-out takes its snapshot under the lock (`Snapshot`) and sends without it
(`Send`), so any operation may come between.  `CloseAllClients` lists and then
unregisters one by one.  A manager is `absent`, `fresh` (registered, `#` not yet
subscribed) or `ready`; replacing it forgets its handlers.

Abstracted: payloads, timestamps, the content of frames other than the stamp; a
frame is a unit of the channel.  Topics are opaque, so filters that overlap are
not told apart.  The cache of panel titles is in `PanelMetaCache`.

`TopicSharing` is what the hub promises, without tables, locks or calls: panels
watch keys, and a key is subscribed upstream exactly while somebody watches it.
`WsHub!SharesTopics` is `TopicSharing`'s specification with `watchers` read from
`subscriptions` and `upstream` from `handlers`, for the brokers that are never
replaced.

### LogicEngine

One action per method, since each runs under `e.mu`; the interleavings come from
outside the lock.  A timer is an object of the runtime: `phase` says whether it
runs or has expired with its callback waiting for the lock, when stopping it no
longer helps.  The callback knows its panel and not its timer, as in the code.  A
message is picked by the router (`Dispatch`) and handled later (`HandleMessage`),
and the handler that was picked runs even if the rule was removed meanwhile.
`Evaluate`, `Fires`, `Arm` and `TryFire` are `evaluate`, the arming that follows it
and `tryFireActionLocked`; an action the initial evaluation returns is discarded,
as it is in the code.

A topic stands for a (broker, topic) pair and a condition holds for the payload
`on`.  A firing is recorded when it is decided; the goroutine that publishes is
not modelled, nor are the templates of payloads.  `BrokerChanges` replaces or
removes the broker's manager.

### PanelAutomations

`row` is `dashboard_layouts`, reduced to a panel's dashboard, the body of its
configuration and its `enabled` flag; `live` is what the engine or the scheduler
holds for the panel.  `task` holds the requests and trip callbacks in progress,
each with the step it is at and the values it has read, so that any other request
may come between any two calls.  `UpdatePanel`, for instance, is `Fetch` (the
SELECT), `Store` (the UPDATE) and `Apply` (`AddRule`, whose error is ignored); a
save from the page continues with `Upsert` and `Rewrite` (`POST /api/logic/{id}`).
`Restart` is a crash at any point followed by the loaders.

The requests are those the pages make: `Save` is the chain of two requests of
`PanelWrapper.saveConfig` with one configuration, `Pin` sends the page's present
copy of the configuration back, `SaveTitle` leaves it out, toggles name the panel
and the flag.  Ids are uuids and are given out once (`used`).  A panel is of one
type (`cron`) for life.  A configuration is loadable (complete, with a source topic
or an expression) or not, and may be one that `AddRule` or `AddJob` refuses
(`Rejected`).  The `DELETE /api/logic/{id}` and `/api/cron/{id}` routes, which take
the rule away and leave the row enabled, are modelled and excuse the panel.

`excused` is a ghost: the panels on which two requests have overlapped since the
last start.  The code makes no promise for them that the rows and engines agree,
and the documentation makes none either; `InStep` is about the others, while
`DeletedForGood` is about all.

### MqttSubscriptions

One `MQTTManager` from the moment `AddBroker` connects it.  `subs` is the map of that
name, with the number of handlers of each filter; `held` is what the broker has
granted on the present connection; `routes` is the table by which the client
library finds the callbacks of a message.  `Subscribe`, `Unsubscribe` and the
on-connect callback are one action each, since they run under `m.mu`; the link is
lost and comes back between any two of them.  A call on a link that is down has no
effect, and its error is not looked at; sessions are clean, so `held` is empty after
a reconnection, while `routes` survive.  If the link changes in the middle of a
callback the outcome is that of a callback before or after the change, up to routes,
and the next on-connect callback asks for everything again.

`setup` follows `AddBroker`, which puts the manager into the registry, where the hub
and the engine find it, before it subscribes `#` and `$SYS/#`: that is the window
in which `#` really takes over from something.  `Runs` is `buildHandler`.  Filters and
topics are opaque and `Matches` is the relation `TopicMatches` computes.  `Refused` are
the filters a broker does not grant.  Which of several handlers of a filter is
removed is not modelled, nor are delivery and its quality of service: `Reached` and
`RunOnce` say what happens to a message if one arrives now.

### BrokerLifecycle

`rows` is `mqtt_brokers` reduced to order, enabled flag and a number for the
settings; `clients` and `default` are the registry's maps of brokers and its default
broker (`registry.go`), and a manager, one of `managers`, is its place in the sequence of those made since the start.  `tasks` are the requests
(`CreateBroker`, `UpdateBroker`, `DeleteBroker`, `ReorderBrokers`), the loader and the
demo's reset, each at one of its steps: read, write the row, take the connection
down, connect (which may succeed, fail, or succeed after the wait for it is over),
store, select the default from the table, set it.  Other tasks run between any two
steps.  A crash may come at any point, and `Boot` seeds and loads again.  The
loader keeps the database's one connection, so requests that need it wait.
`InStep` speaks of what no overlapping request and no failed half has touched;
`NoOrphans` of all.

### McpSwitch

The settings' row with its two copies (`saveSysTopics` in the registry, the flag of
the MCP server) and the sessions that live off the second.  A request is read,
update, set, close, in steps; a stream is let in (`Admit`), registered (`Register`),
fed (`Deliver`), ended; a message is let in and answered later, when its session may
be closed.  A patch whose SELECT fails goes on with the defaults (`Read`), as the code does:
it switches the MCP server off in the row and leaves the running one as it is (`unread`).
`NoSendOnClosed`, `OffMeansOff`, `AcceptedArrives` and `CopiesAgree` are
what could go wrong between those steps; `CopiesAgree` names that patch as its exception.

### HistoryWriter

Routers, the bounded queue, the worker, and the stop, as `registry.go` orders them:
`Asked` looks whether there is a worker, `HandOver` uses the queue later.  `OnePlace`
says that no record is in two places, `InOrder` that each router's records are
stored in its order, `Drained` that the worker leaves nothing behind.

### PublishCorrelation

`pendingPubs` with its time limit and its cap; `Match` takes the oldest entry of a
topic and payload.  Echoes keep their order per quality of service, as MQTT has it;
messages are lost with the connection or sent again; other clients publish the same.
The retained marks (`markRetained`, `MarkPublished`, `MarkRetainedPanel`, the replay
after a reconnection) are in the same module, since both come from one message.

### SubackWait

Who waits for whom.  A task takes its lock (`Hub.mu`, `Engine.mu`, or the database's
connection), asks a broker and waits; the router's callback of each message takes
locks in turn, and an answer is read only when at most `Depth` messages in front of it
have not been passed on.  A wait ends by its answer or after five seconds, and it
is only the latter that keeps the hub, the callbacks and the answer from waiting
for each other for ever (`Rested`; with the mutant `Expires_Never` TLC finds the
cycle).

### PanelMetaCache

The titles that messages carry.  A fan-out misses (`Miss`), asks the database (`Query`)
and stores what it found (`Store`), with anything in between; a request writes the row
(`Write`) and clears the entries of the panels it knows of, one by one
(`Invalidate`).  Deleting a dashboard, replacing its panels (an MCP tool) and the
demo's reset are such requests.  `CacheFresh` says that an entry is the row, a request
about to clear it aside.  Two ways in which the code leaves a stale title are
excused by ghosts, `crossed` (a lookup held the row while it was written) and `missed`
(a panel came to a dashboard after the panels to be deleted had been collected); both
last until the panel is changed again.

### The browser: panels

* `WsConnection`: the manager of `useWebSocket.ts`.  Sockets are numbered; each has a
  state of its own that opens and closes by the browser's events, whose handlers
  write the manager's fields whichever socket they belong to.  `served` is what the hub
  holds for each socket.
* `TopicPreview`: the two hooks below the topic field, with the debounce, answers for
  topics typed before, and live messages in between.  As in the other modules that ask
  the history, a message is stored by the queue's worker some time after it was sent, or not
  at all.
* `LogicUtils`, `LogicRuleEditor`, `LogicRulePanel`: how the browser reads a rule; the
  window that edits it, with the trip to the explorer that destroys the window and
  rebuilds it; and the panel, which evaluates for itself and corrects its clock by
  polls.  The history answers with any message sent so far or with none (`ServeHistory`), since
  it lags behind, leaves `$SYS` out, and is pruned and cleared; `offered` is the newest message
  that the panel could have learnt of.  The editor's `SavedAccepted` compares what the window lets
  through with what `ValidateRule` of `logic/eval.go` accepts (`Accepts`); `Lenient` lists what the
  window checks less of: a target of commas alone, numbers that JavaScript reads and Go does not
  (`Floats` are those Go reads), a cool-down below zero, and numbers that are not whole, of which
  `UpdatePanel` makes no rule.
* `ReadBack`, `TogglePanel`, `SliderPanel`: a command, what the panel shows before it is
  confirmed, and what ends the wait: a report, the failure of the call, a timer, a
  remount.  `ToggleWindow` and `SliderWindow` are their settings, with the trips.  Numbers of a
  slider are counted in hundredths (`One`), so that a step has up to two decimals: `clampToRange`
  snaps to a step and rounds to the step's decimals (`Fixed`), which moves a value off the steps
  when the low end has decimals that the step has not (`Slack`).  `IsNumber` is the window's test, by
  which `Infinity` and `1e999` are numbers (`Infinite`); `asNumber` stores the default for them.

### The browser: pages

* `DashboardShell`: list, selection and panels, each request sent, served and answered
  in three steps; what follows the `await` runs on whatever the page shows by then.  While the
  list is empty every change of it asks for it again (`AsksAgain`).  Each handler closes the dialog
  that is its own (`OwnDialog`).
* `Automations`: the table with a switch per row that is ahead of the server, and a new
  list after each.
* `Explorer`: the tree against stored and live topics, folding, selection, the filter,
  and picking a topic for a panel.  A message is sent on at once and stored later, by a queue
  (`Publish`, `Write`): what waited in it when the tree was read is in `late`.
* `BrokerSettings`, `GeneralSettings`: the two tabs of `ConfigPage.tsx` with the rows
  behind them.
* `PanelCard`, `PanelPopovers`: the frame of a panel, and what its header shows.  A rule's panel
  has a switch of its own (`handleToggle`), a request to another handler after which the card is
  told the configuration as the panel knew it when it asked (`Taken`).

### Composition into scenes

`WebPanels`, `WebPages` and `MCServer` put these modules together; the values of the
constants of the first two are in `MCWebPanels` and `MCWebPages`, and `PartsFit` and `PagesFit`
collect what their parts assume of theirs.  The parts of
one such module share no state, so a behaviour is one of a single part, its *scene*:
`Init` chooses the scene, `Next` is that part's, and the variables of the others stay
`Off`.  A property is a theme and names, for each scene, the invariants of the part's
own module that belong to it (`BooksInStep` is `InStep` of `BrokerLifecycle`,
`CopiesAgree` of `McpSwitch`, `RetainedKnown` of `PublishCorrelation` and `CacheFresh` of
`PanelMetaCache`).
`NothingHangs` says that a scene is at rest again and again.  This loses nothing, as
behaviours of parts that share no state do not constrain each other.  Where parts
do interact, they are in one module: hub and manager in `WsHub`, rows and engines in
`PanelAutomations`, page and hub in `WsConnection`, panel, hub and history in the
panels' modules, page and handlers in the pages'.

`Lists` has the few operators on sequences that the instantiated parts use.  Some of them are
SequencesExt's as well; a part that extended SequencesExt would bring it, and all that it
extends, into the composition once for each instance.

## 3. Runs

| Run | Question | Instance | Distinct states |
|---|---|---|---|
| `hub_churn` | Do the three indexes, the reference counts and the abstract specification hold when two pages with two panels come, go, subscribe and are closed, and a second broker is added, replaced and removed at any moment? | 2 clients, 2 panels, 2 brokers (one stable), 1 topic | 730 thousand |
| `hub_goes` | Does every message's fan-out finish, and does every closed client leave? | 2 clients, 1 broker that may be replaced | 280 thousand |
| `hub_broker_readd` | Is a watched topic of a connected broker served? **Violated**: see findings | 1 client | |
| `logic_tables` | Do tables, handlers and registry match the active rules through edits, toggles, removals, messages and broker changes? | 2 panels, 2 topics, 3 rule bodies | 110 thousand |
| `logic_timing` | Is a timer always armed for a condition that holds, does it fire, and once? Do counts, cool-down and ceiling survive edits, toggles and trips? | 1 panel, 5 rule bodies, clock to 5 | 440 thousand |
| `logic_stale_timer` | Has a sustained condition held for its duration when it fires? **Violated** | | |
| `panels_in_step` | Do rows and engines stay in step, and do deleted rows stay deleted? | 2 panels, 2 dashboards, 2 concurrent requests | 3.1 million |
| `mqtt_session` | Does the broker hold what the handlers need and nothing superfluous, is every handler reached, and run once? | 6 filters, 3 topics, up to 2 handlers each | 1 million |
| `web_panels` | Do panels hear their topics (`Served`), show the newest of what they heard (`ShowsNewest`), publish one message for a gesture (`OneWrite`) and announce only what was confirmed (`AnnouncedIsSo`)? Do windows keep what was entered and picked (`WindowsKeep`), and store what they showed (`SavedAsShown`)? Does anything wait for ever (`NothingHangs`)? | nine scenes | 940 thousand |
| `web_pages` | At rest, does a page show what the server holds (`InStep`)? Does an answer or a pick reach the window that asked for it (`OwnWindow`)? Does a change of a panel move more than it is about (`OneChange`)? Does a page load for ever (`NothingHangs`)? | seven scenes | 740 thousand |
| `explorer_tree_deaf` | Does the explorer hear every topic of its broker? **Violated** | the explorer of `WebPages`, 1 broker, 2 topics | |
| `server_parts` | Do registry, copies, retained marks and cached titles agree with table and broker (`BooksInStep`)? Is a connection, a session, a message of the history or its author lost or mistaken (`NothingAstray`)? Does everybody who waits get on (`NothingHangs`)? | eleven scenes | 1.2 million |

Every property of a passing run comes with a mutant of the code that violates it
under the same bounds, which shows that the bounds reach the case.

### Bounds

* `SendCap = 1` (64 in the code): the properties tell full, not full and closed
  apart; one slot reaches all three.
* Two clients and two panels: the reference counts distinguish first, another and
  last.  A second topic multiplies the states and adds no case, because a request
  over several topics is one over each.
* In `hub_churn` the topics of the broker that comes and goes are watched by one
  panel at a time and it dispatches nothing (`OneChurns`, `ChurnIsSilent`): what
  happens on it can disturb the tables and the stable broker, which is what the
  properties are about; `hub_goes` has a broker that is replaced in the middle of a
  dispatch.  The view leaves out `stamp`, which no guard reads.
* `Ceiling = 2`, `Second = 2` clock units (10 firings in 1 s): what matters is that
  the window is finite and can fill.
* `TimerIds = {1, 2}`: a stale callback and the present timer.  `Room` keeps one
  free for a message on its way, and calls are not made without it, so the bound
  delays calls and never drops an arming.
* `Horizon` stops new calls and messages so that the clock can run to `MaxTime`
  and timers armed last can expire: `MaxTime >= Horizon + hold` in the liveness
  run.
* `Workers`: two requests at once.  All the lost updates in the hazard list need
  two.
* `MaxHandlers = 2`: the code tells a first, another and a last handler apart.  The
  filters of `mqtt_session` are one of each kind the code or the properties tell
  apart: `#`, `$SYS/#`, one below it, a topic, a wildcard that overlaps with it, and
  one the broker refuses.
* `OverlapAlone`: states in which requests have overlapped on a panel are explored
  while the other panel's id is still unused.  `InStep` excuses those panels, so
  the constraint only limits `DeletedForGood`, which speaks of one panel at a time;
  the theorems of section 5 have neither bound.
* `web_panels`.  Socket manager: 2 listeners (first, another), 3 sockets and 2 losses,
  so that the handlers of a socket that was replaced meet its successor and that
  one's.  Topic field: 2 brokers, 2 topics, 2 edits: an answer for what was typed
  before, and for what was typed again.  Rule panel: 2 messages, 2 polls, a duration
  of one tick: an episode ends between two polls; the history answers with any message or none.  It is looked at in two scenes, one with
  conditions and no click on its switch, one with clicks while the clock stands still, no
  message is lost and a topic has one message at most (`RuleBound`, `SwitchBound`): the switch
  and the conditions share only the polls, and the theorems about `RuleRuns` have neither bound.  Rule's
  window: three of the operators are offered, one of each kind the window treats
  differently; texts are numbers for Go and JavaScript, for the latter alone (`0x1E`), or for
  neither; cool-downs are whole, fractional and negative.  Toggle: 2 flips, one report, and
  one change of what the panel is pointed at; slider: the range 0.5 to 2.4 in
  steps of 1, whose low end has a decimal that the step has not and whose high end is no step, 2 gestures and a remount; its window is given `1e999` too.
  Windows: 2 edits and one trip
  to the explorer, before and after which an edit may come.
* `web_pages`.  Two calls in flight (`MaxCalls = 2`) are what it takes for one answer to
  overtake another; two acts of the user make the page move on in between.  Shell: 2
  dashboards and 2 panels; automations: 2 jobs of different kinds; explorer: 2 brokers
  and 3 topics, one of them below another and one of `$SYS`, one message and stores and queues that have
  some, since one topic in the queue is late for a tree or is not; settings: 2 brokers and one
  to be created; popovers: 6 moves of the pointer.
* `server_parts`.  Brokers: 2 requests over 2 brokers, or one request with a reset and a
  crash.  Settings: 2 requests, a reset and a restart; sessions: one stream with room
  for one answer and 2 messages, so that the room is too small once.  History: 2
  routers with 2 messages each, and one with 3 and a crash, over a queue of 1.
  Publications: 2 of 2 panels and a foreign one, with room for one entry that lives
  for one tick; 2 retained ones with one lost connection.  Waits: a subscription of the hub
  and one of the engine at one broker, the loader at another, 2 messages of each
  broker and `Depth = 0`, the worst case.  Titles: 2 requests about one panel between 2
  dashboards with 2 fan-outs and a restart, and one request with a second panel created
  beside it.  Larger instances were explored beside the
  run without a violation: 3 requests about brokers, and 2 with a reset (17 million
  states), and 4 waiting tasks (2 million).

The specifications have no deadlock to look for: connections, clocks, calls and ids are
bounded, so the instances do stop, and `CHECK_DEADLOCK` is off for that reason.
Liveness properties say what must not stop.

### Fairness

`WsHub!StalledPeersSpec` assumes that a subscription returns (it waits for the
broker for at most 5 s, which `SubackWait` looks into) and that routers are scheduled.
Snapshots need `Hub.mu`, so routers get strong fairness: Go's `RWMutex` hands the lock
to waiters in turn.  Nothing is assumed of browsers or of the goroutines that write
to them, which is the point of `FanoutCompletes`.  `ClosedClientsLeave` further assumes
`WritersRun`, as its hypothesis: a write ends by its 10 s deadline, well or badly, and a
reader that ended runs its deferred `Unregister`.

`LogicEngine!FairSpec` assumes that the clock advances, timers that are due expire,
their goroutines run, and the router calls the handler it picked; each is weakly
fair.  No request is ever assumed to come.

In the scenes: goroutines of the server run on, its waits are bounded (5 s for an
answer of the broker, 10 s for a connection), and the broker need not answer at all.  The
browser settles every connection it was asked for, fires its timers, and delivers the
answers the code awaits, an error among them.  Nothing is assumed of the user, and
nothing of devices that might report.

## 4. Findings

Three runs end in a violation, each of a sentence in the documentation, of a comment or
of the user interface's own wording; `PROJECT.json` quotes it.

* A broker that is edited gets a new manager.  The hub's tables still say its
  topics are subscribed, so pages that were open stay silent until their panels
  subscribe again (`hub_broker_readd`).
* A sustained timer that expired while a message was being handled fires on an
  episode that began after it (`logic_stale_timer`).
* The log below the explorer's tree subscribes under the page's own panel id, and a
  subscription replaces the one before: once a topic is selected the tree hears nothing
  of the others (`explorer_tree_deaf`).

Seen while modelling, without a run of their own:

* All panels of a page share one connection, whose `panelID` is that of the last
  subscription, and every frame carries it (`ws/hub.go:64`).
* An episode ends up "fired" although the cool-down suppressed the publication
  (`logic/engine.go:569`).
* A toggle writes back the whole configuration it read, so a save in between is lost
  (`handlers/cron.go:120`); the page does the same with the pin of a panel
  (`components/PanelWrapper.tsx:178`).
* `#` is always subscribed and is taken to cover every filter outside `$SYS`, also those
  for other topics that begin with `$`, which it does not match (`mqtt/client.go:318`).
  The theorems about `MqttSubscriptions` name this as a hypothesis.
* Saving the retention sends the settings without the switch of the MCP server
  (`pages/ConfigPage.tsx:418`), and `PUT /api/settings` takes what is missing for off
  (`handlers/settings.go:56`): the MCP server is switched off.
* The demo's reset does not reset the registry's copy of `saveSysTopics`, though its comment
  speaks of resynchronising the registries in memory (`demo/reset.go:34`).
* A patch of the settings that cannot read their row writes defaults for what it leaves out
  (`handlers/settings.go:119`), although fields left out keep their values by its comment (`:100`):
  the MCP server is off in the row and goes on running, and the retention is one day.
* A slider from 0.5 in steps of 1 publishes 2 when it is dragged to 1.5, and its handle stands
  at 2.5, for what is published is rounded to the decimals of the step (`sliderUtils.ts:46`).  An
  infinite end passes the window's check and is stored as its default (`SliderPanel.tsx:149`).
* The window of a rule saves what the engine then refuses, without a word: a target of commas, a
  number such as `0x1E`, a cool-down below zero (`LogicPanel.tsx:328`, `logic/eval.go:79`).
* Two deletions at once can leave no dashboard (`handlers/dashboard.go:295`), and a panel can
  be moved to a dashboard that is being deleted (`handlers/layout.go:402`).
* `ToSQLLikePattern` is documented as a superset (`mqtt/topic.go:40`), but `sensors/%` leaves
  out the topic `sensors`, which `sensors/#` matches: the explorer's query adds it
  (`handlers/explorer.go:83`), the MCP tool's does not (`mcp/tools.go:492`).
* A title that was read before a panel was renamed and stored after the entry was cleared
  stays until the panel is changed again (`ws/hub.go:276`); a panel that comes to a
  dashboard while it is being deleted is deleted with it and not cleaned up after
  (`handlers/dashboard.go:300`).

Further places that are hard to test, which no property here covers: a subscription that
times out after its handler was noted (`ws/hub.go:223`), one the broker refuses
(`logic/engine.go:359`), a job that is edited while `ToggleJob` has let
the lock go (`cron/scheduler.go:181`), the status a replaced client still sets
(`mqtt/client.go:83`), and handlers compared by code pointer (`mqtt/client.go:346`).

## 5. Proofs

The theorems hold for all values of the constants, under the assumptions the
modules name (`HubAssumption`, `ConfigsAssumption`, `PanelsAssumption`, …), which TLC
evaluates in every run, or under those a theorem states itself.

* `WsHubProofs`: `TypeCorrect`, `BooksAlwaysAgree`, `NoGhostWatchers`,
  `ReferenceCounting` and `ImplementsSharing`.  The inductive invariant `WsHub!IInv` adds two
  facts to the properties: a subscription in progress belongs to a client whose reader made it
  (otherwise a topic could be added for a connection that has gone), and on a
  stable broker the record of handlers is exact (otherwise the last watcher could
  leave its handler behind).  The argument goes through the one helper all edits
  share, `RemoveTopicClient`, by lemmas on what it does to each index.
  `ImplementsSharing` is the refinement of `TopicSharing`.  Its state has two parts, who
  watches and what is subscribed at the broker; by `UpstreamFollows` the second is
  what the invariant makes of the first, so that each step of the hub has only to match
  what it does to the watchers (`DropPanelReleases`, `ForgetLeaves`, `AddTopicWatches`).
* `LogicEngineProofs`: `TypeCorrect`, `ListensToItsRules`, `TripsLatch` about the tables, and
  `EpisodesAreTimed`, `CountsInWindow`, `FiresOncePerEpisode`, `RespectsCooldown`,
  `PublishesUnderCeiling` about time.  The tables are a record
  passed from teardown to setup; the lemmas `TeardownFits` and `SetupFits` say what
  each does to "the tables fit this set of attached rules", and every operation is
  a composition of the two.  The invariant of the tables joins `Listening`, `Latched` and the
  types; `Timing` adds for each rule when its times were taken (`Dated`: no
  time lies ahead, kept message times are in order), how far apart its firings are
  (`SinceFired`), that an episode which has not fired holds a timer that is live and
  falls due when the delay has run, and that one which has fired holds none (`Waiting`), and
  that the message in flight had room under the ceiling.  Without the order of the kept
  times nothing says that those inside a window are a suffix of them: `InWindow` takes the suffix
  from the first time that is late enough (`WindowStarts`, by well-founded induction on finite
  sets through `LeastNumber`).  Without `Waiting` a timer's callback could meet an episode that has
  fired.  The three action properties compare a rule before and after: `Change` lists
  what a step can do to the runtime of a rule and `StepsPublish` what it can publish; each action property is
  read off that list.
* `PanelAutomationsProofs`: `TypeCorrect`, `LivesStayInStep` and
  `DeletedStaysDeleted`.  `InStep` says nothing of a panel that is being worked on, so
  the invariant adds `Progress`, which says for each step of each handler in which
  way the two lives of its panel may differ and that the value the handler has read
  is still the stored one; `Sole`, that a panel which is not excused has one handler;
  and `Shapes`, that ids are fresh, so that a deletion that has collected its panels
  meets no panel it did not collect but one that is in step.  Each step is shown to be
  local to its panel (`Works`) or a part of a deletion (`Sweeps`), each request to start
  from agreement or to excuse the panel (`Beginning`), and three lemmas turn that into
  the invariant.  TLC checked the invariant on the instance of `panels_in_step` before
  it was proved.
* `MqttProofs`, about `MqttSubscriptions`: `TypeCorrect`, `SessionAlwaysFits`,
  `EveryHandlerReached` and
  `EveryHandlerRunsOnce`, for any filters, topics and matching relation that satisfy
  `FiltersAssumption`.  The invariant adds that what is held is needed even before the
  on-connect callback has run, that it has its route, that AddBroker's handlers stay,
  and that on the first connection the routes are what was needed (`FirstRoutes`).  Two
  lemmas are the heart of it: `TakesOver` and `GivesBack`, which say that what a first
  and a last handler ask of the broker turn what fitted into what fits.  The last two
  theorems name, as hypotheses, what they need: the broker grants `#` and `$SYS/#`, and no
  topic outside `$SYS` begins with `$`.
* `MqttProofs`, about `PublishCorrelation` (the instance `Pub`): `PublicationsTyped`,
  `PublicationsAttributed` and `RetainedIsKnown`, for any panels, messages, limits, losses and
  other clients.  A message carries nothing that says whose it is, so `Attributed` rests on order,
  and the invariant `PubInv` says which order there is.  Of a content that cannot be mistaken (one
  outside `astray`), what the broker has sent back is older than what it has not taken, each queue is
  in the order of publication and of one quality of service (`Queues`), all of it was published by panels
  or none (`Alike`), and exactly what is on its way has an entry (`Entries`); so the oldest entry
  is that of the first message (`MatchFinds`, `MatchKeeps`).  Without `Alike` a message published
  without a panel would be taken for that of a panel.  `Holds` is the invariant of the retained marks: about
  a topic that is not `unsure`, either nothing is under way and the registry says what is held,
  or one publication is, and the registry will say what it leaves (`InFlight`).  Hypotheses (`MessagesFit`):
  messages have topics, payloads and a quality of service, "" is no panel, there are finitely
  many topics, and there is room for at least one entry.  The number of a publication, by which the
  invariant orders them, is read by nothing in the code.
* `WebProofs`, about `WebPanels` and the eight parts it shows: seven of the eight properties of
  `web_panels` (`PanelsKeepTypes`, `HooksAreServed`, `NewestIsShown`, `WindowsKeepEntries`,
  `EachGestureWritesOnce`, `WhatIsAnnouncedIsSo`, `SavedReadsAsShown`) for all values of the constants that
  satisfy `PartsFit`, which TLC evaluates on those of `MCWebPanels`.  Each part has a section with
  an inductive invariant of its own, proved of its runs without fairness (`WsRuns`, `RuleRuns`, …).  The
  last section carries the results over: either the scene is the part's and the page runs as
  the part would alone, or it never is (`WsAlone`, `RuleAlone`, …).
  *Manager*: `MountedServed` speaks of what the hub holds for one socket; `WsInv` adds that the
  manager's book is what each mounted hook last asked for (`Booked`) and that an open socket
  carries the book (`Carried`).
  *Topic field*: what is asked, heard and kept is of what is typed now once the timer is
  over, and of what was typed before until then.
  *Slider* and *toggle*: the value that waits and its timer come and go together
  (`SlideWaits`, `FlipWaits`), a value in hand has not been counted yet (`SlideCounted`), and the
  toggle shows the reading of the message it is said to be of; what has reached it is in the
  history's answer, on its way or applied.  That a published value is on a step of the range, or as
  far from one as rounding to the step's decimals takes it (`OnGridHolds`), is arithmetic for any
  range, minimum and step of two decimals at most.
  *Windows*: a draft that is away on a trip is what the return is measured by; that a saved
  toggle reads back what it publishes (`SavedIsReadBack`) goes through the shapes of `ReadBack`.
  *Rule's panel*: `RuleInv` says that what is on its way is what the server said at some time
  (`RuleServed`), which way the clock's marks follow each other (`Timed`), and, for the switch,
  that a poll that was served before a click is followed by one served after it
  (`Switched`).  `CatchesUp` needs `Follows` in addition: of each key, the newest message that the
  history's answer held or that was sent since the subscription is in the cache, on its way, or in
  that answer.
  *Rule's window*: `JoinsAsShown` compares a fold over the conditions with a recursive function; no
  rule of induction over an operator is available here, so `JoinsAreAsShown` takes the least
  position at which they would part (`LeastNumber`, from the well-foundedness of the naturals).
  Hypotheses, all in `PartsFit`: bounds are numbers, and "unsubscribe" is no filter.
  `NumbersFit`: the numbers of a slider, reports among them, have two decimals at most (they are
  integers, as hundredths), and the null is none.
  `ConfigsFit`: a configuration of a toggle has a topic of its own for the state exactly where
  it says so, and the words for on and off are words a state may have.  `TextsFit`: a topic field
  holds sequences of topics, and is one still when a topic is taken out; "no broker" is no broker.
  `WindowFits`: fields are typed out of `Names`, the empty field among them, stored toggles have
  their fields, the fallback is a broker, and lower case makes nothing only of nothing.
  `RangeFits`: finite numbers read are integers (hundredths), infinite ones are not among them, defaults
  are counts, and a stored slider without a
  topic of its own to read has no template to read it by.  `RuleFits`: a rule has a
  condition and there is room for a message and a poll.  `RulesFit`: the operators offered are
  operators, topics are sequences, and stored rules have the fields of a saved one.  `PlainTopics`, for `CatchesUp`
  alone: no topic of the rule matches another's filter.  With a wildcard among them one
  entry of the cache takes several topics, and its value is the last that came of any;
  `NeverBehind` does not need this.
* `ServerProofs` has five parts of the server as instances.
  *Registry* (`BrokerLifecycle`): `RegistryTyped`, `NoManagerLost` and `RegistryInStep`, for any
  brokers, seeds, requests, resets, crashes and late answers.  `InStep` speaks of the moment when
  nothing is under way; `BInv` adds, for a broker that no two tasks met at, which task is
  about it (one at most) and in which way row and registry may differ at each step
  of create, update, delete, boot and reset (`Places`, `RequestAlong`, `LoaderAlong`); for the default,
  that what a task selected last is right unless it is marked old (`Picks`), and that the default is right,
  or somebody will still set it (`DefaultFits`).  Every step is an instance of one
  scheme, in which a task gives way to what it becomes and the others stay (`Becomes`,
  `TaskStep`).  Hypotheses (`BrokersFit`): finitely many brokers; ids that are still to be created
  are not the seeded ones; the server starts with rows of the right shape; and a
  server whose demo mode resets it has seeds.  Without seeds a delete that fails half way
  while an update goes on leaves a default that the reset does not take away, since only
  the loader's first broker sets it: TLC shows this if `Seeds` is emptied.
  *Titles* (`PanelMetaCache`): `TitlesTyped` and `TitlesFresh`, by the one fact more that what a
  fan-out is about to store is the row (`Copies`).
  *Waits* (`SubackWait`): `OneHolder`, for any tasks that name a lock and a broker.
  *Sessions* (`McpSwitch`): `SwitchTyped`, `NothingSentOnClosed`, `OffStaysOff`,
  `AcceptedAnswersArrive` and `CopiesStayInStep`, for any streams, requests, resets and
  restarts and any room in a channel.  `SwitchInv` joins `SessionChannels` (a closed channel
  has left the map, and a stream that is on its way out and still in it lost its
  client), `LetIn` (with the server off and nobody about to close, whoever is in the map or
  on the way in was let in before), `Answers` (what was taken is delivered or still in the
  channel) and `Alone` (how row and copies may differ along the one request or reset
  that is at work, if no two overlapped and no patch went on without having read the
  row).
  *History* (`HistoryWriter`): `WriterTyped`, `WrittenInOrder`, `NothingTwice` and
  `StopLeavesNothing`, for any routers, messages, crashes and size of the queue.  `WriterInv`
  follows a message from its router to the table: all there is of a router is
  older than what it is handing over (`Past`), the queue has each router's messages in
  order (`Queued`), the worker holds an older one (`TakenFirst`), and the table has older
  ones still (`Written`), but for those a router wrote itself.

* `PageProofs` and `WebPagesProofs`, about `WebPages` and the seven parts it shows: all safety
  properties of `web_pages` (`PagesKeepTypes`, `PagesAreInStep`, `WindowsAreTheirOwn`,
  `EachChangeIsOne`), for all values of the constants that satisfy `PagesFit`, which TLC evaluates
  on those of `MCWebPages`.  Each part has a section with its inductive invariant, five in the
  first module and the settings' two in the second, which ends by carrying the results over to
  the composition as `WebProofs` does.  (They are two modules only because together they take
  the prover half an hour.)
  *Header* (`PanelPopovers`): `NothingClosesUnderPointer` and the types are inductive as they are.
  *Card* (`PanelCard`): `CardInv` adds to the properties that a card with a copy or a deletion under way is
  busy (`CopyInv`), and `RowInv`: as long as no two changes overlapped and none failed, one
  change at most is under way; until it is served, page and row agree and the request carries
  what it does not mean to change as both have it; from then on its answer is the row.
  `ChangesMoveTheirOwn` is read off that, since the pin sends the whole configuration back.
  *Automations*: `InStepInv` says for each call what it was made from: a list that has been
  answered is the server's (`AnswersFresh`), a switch that has not been taken is the only
  difference of its row (`SwitchOnly`), rows without a call agree (`OthersAgree`), and all do when no
  list is on its way (`AllAgree`).  `HidingExplained` speaks of any table and filters; it needs only
  their types.
  *Shell* (`DashboardShell`): `ListInv` says that the list and the server's rows differ by exactly the
  creations and deletions that were served and not answered (`SameSet`), and while changes come
  one by one also in which place (`SameOrder`); `PageInv` says the same of the panels of the
  selected dashboard since the last load that nothing crossed (`OwnCalls`, `PanelsFit`); `LoadInv` says
  that the page waits exactly for the load of what is selected.
  *Explorer*: `TreeWillBe` says that each topic stored or waiting to be stored of the broker shown is in
  the tree, promised by a request that is still meant, on its way as a frame, or one that no frame was
  sent of or that waited when the tree was read; `WireInv` says that one request at most is meant, that
  it is for that broker, and that answers and frames say what was published.  `SelectedIsVisible` is about which nodes a row's ancestors are,
  for topics of any depth.
  *General settings*: `GeneralInv` adds what each answer under way was read or written from
  (`AsServed`, `SavingShown`, `SavedShown`), a patch that could not read the row aside (`astray`), and that nothing is saved before the settings have come
  (`LoadedFirst`).  `RetentionIsShown` rests on `HoursShown`: hours shown as days are the same hours.
  *Brokers' settings*: `Owned` follows every value that was typed, with the broker it was typed for,
  through form, requests, rows and answers.  `Settled` says what page and server will agree on when the one
  call that is under way has been answered.
  Hypotheses, all in `PagesFit`.  `ShellFit`: the server starts with sequences of dashboards, and the words
  for none and for a failure are no dashboard or panel.  `JobsFit`: finitely many automations of the right
  shape, each with a place of its own in the server's list.  `ExplorerFit`: there is a broker, a topic has a
  level, and addresses and trips name brokers and topics.  `BrokersFit`: ids are given out once, and a
  broker with a certificate uses TLS.  `SettingsFit`: hours are numbers.  `CardFits`: there is a title.

Only model-checked:

* liveness (`HoldingFires`, `CarriesOut`, `FanoutCompletes`, `ClosedClientsLeave`, `NothingHangs`), for
  which this prover has no rules;
* the three safety properties of `server_parts`, in that form: they say of eleven instances with given
  constants what `ServerProofs` and `MqttProofs` prove of each part for all constants, `TypeOK` by
  `RegistryTyped`, `SwitchTyped`, `WriterTyped`, `PublicationsTyped`, `OneHolder` and `TitlesTyped`,
  `BooksInStep` by `RegistryInStep`, `CopiesStayInStep`, `RetainedIsKnown` and `TitlesFresh`, and
  `NothingAstray` by `NoManagerLost`, the three theorems about sessions, the three about the history and
  `PublicationsAttributed`.

What attempts to prove turned up, each shown by TLC on a larger instance than the one that was
checked before, and since then part of the models: after two changes of the dashboards that raced, the
list may be in another order than the server's (`raced`); when a panel's move is answered after its target was
deleted, the page selects a dashboard that is gone (`nowhere`); and a list with a broker twice in it, which
the page never sends, would be reordered by the last of its places.

## 6. Plan

Done, in the order of what matters most: `WsHub` with `TopicSharing`, `LogicEngine`,
`PanelAutomations`, `MqttSubscriptions`; `PublishCorrelation`, `HistoryWriter`,
`BrokerLifecycle`, `McpSwitch`, `SubackWait`, `PanelMetaCache`; `WsConnection` and the panels
and pages of the browser.

Left, each with the theorem worth proving:

1. `TopicFilters`: `TopicMatches`, the browser's `mqttTopicMatches` and the explorer's SQL
   pattern against one reference definition over bounded filters and topics.
2. The firing of jobs (`cron/scheduler.go`) against edits and removals, and the rest of the
   demo's reset composed with hub, engine and scheduler.

## Not modelled

* Payload templates (`payload/`), the shapes of payloads (`payloadShape.ts`) and the drawing of
  values: functions of their arguments, without state; the models treat a payload as a
  value that meets a condition or not.
* Display panels and graphs (`GraphPanel.tsx` and the like), and the button and input panels:
  they show what they are handed, or publish once for a click.  What they are handed is
  `WsConnection`'s, and the order of history and live messages is `LogicRulePanel`'s and the
  toggles'.
* Layout, drag and drop of panels, positions, wording, icons, themes: no property here is
  about them.  The positions a drag sends are one statement in a transaction.
* The statistics cache (`mqtt/stats.go`): one map of the last `$SYS` values, under one mutex.
* Parsing of configuration files and of the environment, the dashboards of a seed file, the
  SQL schema: sequential code that runs once, before anything else.
* Images: files on disk, written once and served.
* Read-only listings and queries, and the MCP tools that repeat the handlers' statements.
* The WebSocket library, the MQTT client library, gocron and SQLite, but for what the code
  above relies on; the `map` marks such definitions as external.
