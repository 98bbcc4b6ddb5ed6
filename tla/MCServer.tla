------------------------------- MODULE MCServer -------------------------------
(***************************************************************************)
(* Parts of the server the other models do not reach, one at a time: the   *)
(* connections of the brokers, the settings and the MCP server's sessions, *)
(* the worker that writes the history, what is remembered of what was      *)
(* published, who waits for whom around a subscription, and the cache of   *)
(* titles.  The parts share no state here: a behaviour is one of one part, *)
(* the scene, with the variables of the others off.                        *)
(***************************************************************************)
EXTENDS Integers, Sequences, TLC

FirstRow == [on |-> TRUE, order |-> 0, version |-> 100]
NoRow == [on |-> FALSE, order |-> -1, version |-> 0]
Tables == {[b1 |-> FirstRow, b2 |-> NoRow], [b1 |-> FirstRow, b2 |-> [on |-> FALSE, order |-> 1, version |-> 100]]}

Message(p, q, r) == [topic |-> "t", payload |-> p, qos |-> q, retain |-> r]
LiveMessages == {Message("x", 0, FALSE), Message("x", 2, FALSE)}
RetainedMessages == {Message("x", 0, TRUE), Message("x", 2, TRUE), Message("empty", 2, TRUE)}

WaitTasks == {[lock |-> "hub", broker |-> "b1", topic |-> "y"],
              [lock |-> "engine", broker |-> "b1", topic |-> "y"],
              [lock |-> "database", broker |-> "b2", topic |-> "#"]}
FannedOut == {<<"b1", "x">>, <<"b2", "x">>}

VARIABLES scene,
          rows, managers, clients, default, tasks, created, crossed, halved, stale, counts,
          stored, enabled, saveSysTopics, requests, reset, stream, sessions, channel, closed,
          messages, gone, accepted, delivered, straddling, overlapped, dropped, unread, started, stopCh,
          queue, worker, taken, router, arrived, stopper, table, lost, late, direct, crashes,
          link, now, pendingPubs, calls, outbox, inbox, held, retained, retainedPanels,
          handling, seen, author, astray, unsure, losses, others, step, holder, subs, asked,
          granted, line, answered, sent, row, dashboards, used, cache, writes, restarts, missed
brokerLifecycleVars == <<rows, managers, clients, default, created, halved, stale>>
mcpSwitchVars == <<stored, enabled, requests, reset, stream, sessions, channel, messages, gone,
                   accepted, delivered, straddling, overlapped, dropped, unread>>
historyWriterVars == <<started, stopCh, queue, worker, taken, arrived, stopper, table, lost,
                       late, direct, crashes>>
publishCorrelationVars == <<link, now, pendingPubs, calls, outbox, inbox, held, retained,
                            retainedPanels, handling, seen, author, astray, unsure, losses,
                            others>>
subackWaitVars == <<step, holder, subs, asked, granted, line, answered, sent>>
panelMetaCacheVars == <<row, dashboards, used, cache, writes, restarts, missed>>
shared == <<tasks, crossed, counts, saveSysTopics, closed, router>>
vars == <<scene, brokerLifecycleVars, mcpSwitchVars, historyWriterVars, publishCorrelationVars,
           subackWaitVars, panelMetaCacheVars, shared>>

-----------------------------------------------------------------------------
Requests == INSTANCE BrokerLifecycle WITH Brokers <- {"b1", "b2"}, Created <- {"b2"}, Seeds <- <<"b1">>, Initial <- Tables,
        MaxRequests <- 2, MaxResets <- 0, MaxCrashes <- 0
Resets == INSTANCE BrokerLifecycle WITH Brokers <- {"b1", "b2"}, Created <- {"b2"}, Seeds <- <<"b1">>, Initial <- Tables,
        MaxRequests <- 1, MaxResets <- 1, MaxCrashes <- 1
Settings == INSTANCE McpSwitch WITH Streams <- {}, queueSize <- 1,
        MaxRequests <- 2, MaxMessages <- 0, MaxResets <- 1, MaxRestarts <- 1
Sessions == INSTANCE McpSwitch WITH Streams <- {"s1"}, queueSize <- 1,
        MaxRequests <- 1, MaxMessages <- 2, MaxResets <- 0, MaxRestarts <- 0
History == INSTANCE HistoryWriter WITH Routers <- {"r1", "r2"}, historyQueueSize <- 1,
        MaxMessages <- 2, MaxCrashes <- 0
Crashes == INSTANCE HistoryWriter WITH Routers <- {"r1"}, historyQueueSize <- 1,
        MaxMessages <- 3, MaxCrashes <- 1
Authors == INSTANCE PublishCorrelation WITH Panels <- {"p", "q"}, Topics <- {"t"}, Messages <- LiveMessages,
        publishTTL <- 1, maxPendingPubs <- 1, MaxPublish <- 2, MaxForeign <- 1, MaxTime <- 1, MaxLosses <- 0
Held == INSTANCE PublishCorrelation WITH Panels <- {"p"}, Topics <- {"t"}, Messages <- RetainedMessages,
        publishTTL <- 1, maxPendingPubs <- 1, MaxPublish <- 2, MaxForeign <- 0, MaxTime <- 0, MaxLosses <- 1
Waits == INSTANCE SubackWait WITH Brokers <- {"b1", "b2"}, Tasks <- WaitTasks, Watched <- FannedOut,
        Depth <- 0, MaxMessages <- 2
Named == INSTANCE PanelMetaCache WITH Routers <- {"r1", "r2"}, Panels <- {"p"}, Dashboards <- {"d", "e"}, Default <- "d", Titles <- {"t", "u"},
        MaxWrites <- 2, MaxRestarts <- 1
Created == INSTANCE PanelMetaCache WITH Routers <- {"r1"}, Panels <- {"p", "q"}, Dashboards <- {"d", "e"}, Default <- "d", Titles <- {"t"},
        MaxWrites <- 1, MaxRestarts <- 0

(* The variables that are not those of the scene. *)
Off == "off"
brokerLifecycleVarsOff ==
    /\ rows = Off /\ managers = Off /\ clients = Off /\ default = Off /\ created = Off
    /\ halved = Off /\ stale = Off
mcpSwitchVarsOff ==
    /\ stored = Off /\ enabled = Off /\ requests = Off /\ reset = Off /\ stream = Off
    /\ sessions = Off /\ channel = Off /\ messages = Off /\ gone = Off /\ accepted = Off
    /\ delivered = Off /\ straddling = Off /\ overlapped = Off /\ dropped = Off /\ unread = Off
historyWriterVarsOff ==
    /\ started = Off /\ stopCh = Off /\ queue = Off /\ worker = Off /\ taken = Off
    /\ arrived = Off /\ stopper = Off /\ table = Off /\ lost = Off /\ late = Off /\ direct = Off
    /\ crashes = Off
publishCorrelationVarsOff ==
    /\ link = Off /\ now = Off /\ pendingPubs = Off /\ calls = Off /\ outbox = Off
    /\ inbox = Off /\ held = Off /\ retained = Off /\ retainedPanels = Off /\ handling = Off
    /\ seen = Off /\ author = Off /\ astray = Off /\ unsure = Off /\ losses = Off
    /\ others = Off
subackWaitVarsOff ==
    /\ step = Off /\ holder = Off /\ subs = Off /\ asked = Off /\ granted = Off /\ line = Off
    /\ answered = Off /\ sent = Off
panelMetaCacheVarsOff ==
    /\ row = Off /\ dashboards = Off /\ used = Off /\ cache = Off /\ writes = Off
    /\ restarts = Off /\ missed = Off
Init ==
    \/ /\ scene = "requests" /\ Requests!Init
       /\ mcpSwitchVarsOff /\ historyWriterVarsOff /\ publishCorrelationVarsOff
       /\ subackWaitVarsOff /\ panelMetaCacheVarsOff /\ saveSysTopics = Off /\ closed = Off
       /\ router = Off
    \/ /\ scene = "resets" /\ Resets!Init
       /\ mcpSwitchVarsOff /\ historyWriterVarsOff /\ publishCorrelationVarsOff
       /\ subackWaitVarsOff /\ panelMetaCacheVarsOff /\ saveSysTopics = Off /\ closed = Off
       /\ router = Off
    \/ /\ scene = "settings" /\ Settings!Init
       /\ brokerLifecycleVarsOff /\ historyWriterVarsOff /\ publishCorrelationVarsOff
       /\ subackWaitVarsOff /\ panelMetaCacheVarsOff /\ tasks = Off /\ crossed = Off
       /\ router = Off
    \/ /\ scene = "sessions" /\ Sessions!Init
       /\ brokerLifecycleVarsOff /\ historyWriterVarsOff /\ publishCorrelationVarsOff
       /\ subackWaitVarsOff /\ panelMetaCacheVarsOff /\ tasks = Off /\ crossed = Off
       /\ router = Off
    \/ /\ scene = "history" /\ History!Init
       /\ brokerLifecycleVarsOff /\ mcpSwitchVarsOff /\ publishCorrelationVarsOff
       /\ subackWaitVarsOff /\ panelMetaCacheVarsOff /\ tasks = Off /\ crossed = Off
       /\ counts = Off
    \/ /\ scene = "crash" /\ Crashes!Init
       /\ brokerLifecycleVarsOff /\ mcpSwitchVarsOff /\ publishCorrelationVarsOff
       /\ subackWaitVarsOff /\ panelMetaCacheVarsOff /\ tasks = Off /\ crossed = Off
       /\ counts = Off
    \/ /\ scene = "authors" /\ Authors!Init
       /\ brokerLifecycleVarsOff /\ mcpSwitchVarsOff /\ historyWriterVarsOff
       /\ subackWaitVarsOff /\ panelMetaCacheVarsOff /\ tasks = Off /\ crossed = Off
       /\ counts = Off /\ saveSysTopics = Off /\ closed = Off /\ router = Off
    \/ /\ scene = "held" /\ Held!Init
       /\ brokerLifecycleVarsOff /\ mcpSwitchVarsOff /\ historyWriterVarsOff
       /\ subackWaitVarsOff /\ panelMetaCacheVarsOff /\ tasks = Off /\ crossed = Off
       /\ counts = Off /\ saveSysTopics = Off /\ closed = Off /\ router = Off
    \/ /\ scene = "waits" /\ Waits!Init
       /\ brokerLifecycleVarsOff /\ mcpSwitchVarsOff /\ historyWriterVarsOff
       /\ publishCorrelationVarsOff /\ panelMetaCacheVarsOff /\ tasks = Off /\ crossed = Off
       /\ counts = Off /\ saveSysTopics = Off /\ closed = Off
    \/ /\ scene = "titles" /\ Named!Init
       /\ brokerLifecycleVarsOff /\ mcpSwitchVarsOff /\ historyWriterVarsOff
       /\ publishCorrelationVarsOff /\ subackWaitVarsOff /\ counts = Off /\ saveSysTopics = Off
       /\ closed = Off
    \/ /\ scene = "created" /\ Created!Init
       /\ brokerLifecycleVarsOff /\ mcpSwitchVarsOff /\ historyWriterVarsOff
       /\ publishCorrelationVarsOff /\ subackWaitVarsOff /\ counts = Off /\ saveSysTopics = Off
       /\ closed = Off

RequestsNext ==
    /\ scene = "requests" /\ Requests!Next
    /\ UNCHANGED <<scene, mcpSwitchVars, historyWriterVars, publishCorrelationVars,
                    subackWaitVars, panelMetaCacheVars, saveSysTopics, closed, router>>
ResetsNext ==
    /\ scene = "resets" /\ Resets!Next
    /\ UNCHANGED <<scene, mcpSwitchVars, historyWriterVars, publishCorrelationVars,
                    subackWaitVars, panelMetaCacheVars, saveSysTopics, closed, router>>
SettingsNext ==
    /\ scene = "settings" /\ Settings!Next
    /\ UNCHANGED <<scene, brokerLifecycleVars, historyWriterVars, publishCorrelationVars,
                    subackWaitVars, panelMetaCacheVars, tasks, crossed, router>>
SessionsNext ==
    /\ scene = "sessions" /\ Sessions!Next
    /\ UNCHANGED <<scene, brokerLifecycleVars, historyWriterVars, publishCorrelationVars,
                    subackWaitVars, panelMetaCacheVars, tasks, crossed, router>>
HistoryNext ==
    /\ scene = "history" /\ History!Next
    /\ UNCHANGED <<scene, brokerLifecycleVars, mcpSwitchVars, publishCorrelationVars,
                    subackWaitVars, panelMetaCacheVars, tasks, crossed, counts>>
CrashesNext ==
    /\ scene = "crash" /\ Crashes!Next
    /\ UNCHANGED <<scene, brokerLifecycleVars, mcpSwitchVars, publishCorrelationVars,
                    subackWaitVars, panelMetaCacheVars, tasks, crossed, counts>>
AuthorsNext ==
    /\ scene = "authors" /\ Authors!Next
    /\ UNCHANGED <<scene, brokerLifecycleVars, mcpSwitchVars, historyWriterVars,
                    subackWaitVars, panelMetaCacheVars, tasks, crossed, counts, saveSysTopics,
                    closed, router>>
HeldNext ==
    /\ scene = "held" /\ Held!Next
    /\ UNCHANGED <<scene, brokerLifecycleVars, mcpSwitchVars, historyWriterVars,
                    subackWaitVars, panelMetaCacheVars, tasks, crossed, counts, saveSysTopics,
                    closed, router>>
WaitsNext ==
    /\ scene = "waits" /\ Waits!Next
    /\ UNCHANGED <<scene, brokerLifecycleVars, mcpSwitchVars, historyWriterVars,
                    publishCorrelationVars, panelMetaCacheVars, tasks, crossed, counts,
                    saveSysTopics, closed>>
NamedNext ==
    /\ scene = "titles" /\ Named!Next
    /\ UNCHANGED <<scene, brokerLifecycleVars, mcpSwitchVars, historyWriterVars,
                    publishCorrelationVars, subackWaitVars, counts, saveSysTopics, closed>>
CreatedNext ==
    /\ scene = "created" /\ Created!Next
    /\ UNCHANGED <<scene, brokerLifecycleVars, mcpSwitchVars, historyWriterVars,
                    publishCorrelationVars, subackWaitVars, counts, saveSysTopics, closed>>
Next == \/ RequestsNext \/ ResetsNext \/ SettingsNext \/ SessionsNext \/ HistoryNext
        \/ CrashesNext \/ AuthorsNext \/ HeldNext \/ WaitsNext \/ NamedNext \/ CreatedNext

RequestsVars == Requests!vars
ResetsVars == Resets!vars
SettingsVars == Settings!vars
SessionsVars == Sessions!vars
HistoryVars == History!vars
CrashesVars == Crashes!vars
AuthorsVars == Authors!vars
HeldVars == Held!vars
WaitsVars == Waits!vars
NamedVars == Named!vars
CreatedVars == Created!vars
Fairness ==
    /\ WF_RequestsVars(scene = "requests" /\ (\E t \in tasks : Requests!Step(t)))
    /\ WF_ResetsVars(scene = "resets" /\ (\E t \in tasks : Resets!Step(t)))
    /\ WF_SettingsVars(scene = "settings" /\ (\E q \in requests : Settings!Progress(q)))
    /\ WF_SettingsVars(scene = "settings" /\ Settings!ResetStore)
    /\ WF_SettingsVars(scene = "settings" /\ Settings!ResetClose)
    /\ WF_SessionsVars(scene = "sessions" /\ (\E q \in requests : Sessions!Progress(q)))
    /\ WF_SessionsVars(scene = "sessions" /\ Sessions!Register("s1"))
    /\ WF_SessionsVars(scene = "sessions" /\ Sessions!Deliver("s1"))
    /\ WF_SessionsVars(scene = "sessions" /\ Sessions!Returns("s1"))
    /\ WF_SessionsVars(scene = "sessions" /\ Sessions!removeSession("s1"))
    /\ WF_SessionsVars(scene = "sessions" /\ (\E m \in messages : Sessions!Answer(m)))
    /\ WF_HistoryVars(scene = "history" /\ History!Take)
    /\ WF_HistoryVars(scene = "history" /\ History!Write)
    /\ WF_HistoryVars(scene = "history" /\ History!Ends)
    /\ WF_HistoryVars(scene = "history" /\ History!Stopped)
    /\ \A r \in {"r1", "r2"} : WF_HistoryVars(scene = "history" /\ History!HandOver(r))
    /\ WF_CrashesVars(scene = "crash" /\ Crashes!Take)
    /\ WF_CrashesVars(scene = "crash" /\ Crashes!Write)
    /\ WF_CrashesVars(scene = "crash" /\ Crashes!Ends)
    /\ WF_CrashesVars(scene = "crash" /\ Crashes!Stopped)
    /\ WF_CrashesVars(scene = "crash" /\ Crashes!HandOver("r1"))
    /\ WF_AuthorsVars(scene = "authors" /\ (\E c \in calls : Authors!CallStep(c)))
    /\ WF_AuthorsVars(scene = "authors" /\ Authors!Match)
    /\ WF_AuthorsVars(scene = "authors" /\ Authors!Handle)
    /\ WF_HeldVars(scene = "held" /\ (\E c \in calls : Held!CallStep(c)))
    /\ WF_HeldVars(scene = "held" /\ Held!Match)
    /\ WF_HeldVars(scene = "held" /\ Held!Handle)
    /\ \A k \in WaitTasks : WF_WaitsVars(scene = "waits" /\ Waits!Lock(k))
    /\ \A k \in WaitTasks : WF_WaitsVars(scene = "waits" /\ Waits!Subscribe(k))
    /\ \A k \in WaitTasks : WF_WaitsVars(scene = "waits" /\ (Waits!Answered(k) \/ Waits!TimedOut(k)))
    /\ \A b \in {"b1", "b2"} : WF_WaitsVars(scene = "waits" /\ (\E i \in DOMAIN line[b] : Waits!Reads(b, i)))
    /\ \A b \in {"b1", "b2"} : WF_WaitsVars(scene = "waits" /\ Waits!Route(b))
    /\ \A b \in {"b1", "b2"} : WF_WaitsVars(scene = "waits" /\ Waits!Callback(b))
    /\ \A r \in {"r1", "r2"} : WF_NamedVars(scene = "titles" /\ (Named!Query(r) \/ Named!Store(r)))
    /\ WF_NamedVars(scene = "titles" /\ (\E k \in tasks : Named!Step(k)))
    /\ WF_CreatedVars(scene = "created" /\ (Created!Query("r1") \/ Created!Store("r1")))
    /\ WF_CreatedVars(scene = "created" /\ (\E k \in tasks : Created!Step(k)))
Spec == Init /\ [][Next]_vars /\ Fairness

-----------------------------------------------------------------------------
(* The shapes of each part: queues keep their size, and what waits for a   *)
(* worker, a manager or an entry has one.                                  *)
TypeOK ==
    /\ scene = "requests" => Requests!TypeOK
    /\ scene = "resets" => Resets!TypeOK
    /\ scene = "settings" => Settings!TypeOK
    /\ scene = "sessions" => Sessions!TypeOK
    /\ scene = "history" => History!TypeOK
    /\ scene = "crash" => Crashes!TypeOK
    /\ scene = "authors" => Authors!TypeOK
    /\ scene = "held" => Held!TypeOK
    /\ scene = "waits" => Waits!TypeOK
    /\ scene = "titles" => Named!TypeOK
    /\ scene = "created" => Created!TypeOK
(* With nothing under way, what the server keeps in memory is what table   *)
(* and broker hold: a manager for each enabled broker with its settings    *)
(* and for no other, the first enabled one as the default, the copies of   *)
(* the settings, the topics with a retained message and the panel it is    *)
(* of, and the titles of panels - unless two requests or lookups of the    *)
(* same thing overlapped, half of one failed, or another client was at it. *)
BooksInStep ==
    /\ scene = "requests" => Requests!InStep
    /\ scene = "resets" => Resets!InStep
    /\ scene = "settings" => Settings!CopiesAgree
    /\ scene = "held" => Held!RetainedKnown
    /\ scene = "titles" => Named!CacheFresh
    /\ scene = "created" => Created!CacheFresh
(* Every connected client is the registry's or its task's unless it was    *)
(* late; nothing is sent on a closed channel, an MCP server that is off    *)
(* has no session but of a client let in before, and an answer a session   *)
(* took is delivered unless its client left; a message of the history is   *)
(* written once, in its broker's order, and none is left behind by the     *)
(* worker unless its router had asked before the stop; a live message is   *)
(* taken for that of the panel that published it.                          *)
NothingAstray ==
    /\ scene = "requests" => Requests!NoOrphans
    /\ scene = "resets" => Resets!NoOrphans
    /\ scene = "sessions" => Sessions!NoSendOnClosed /\ Sessions!OffMeansOff /\ Sessions!AcceptedArrives
    /\ scene = "history" => History!InOrder /\ History!OnePlace /\ History!Drained
    /\ scene = "crash" => Crashes!InOrder /\ Crashes!OnePlace /\ Crashes!Drained
    /\ scene = "authors" => Authors!Attributed
(* What the user waits for is there. *)
Rests ==
    /\ scene = "requests" => Requests!Rested
    /\ scene = "resets" => Resets!Rested
    /\ scene = "settings" => Settings!Rested
    /\ scene = "sessions" => Sessions!Rested
    /\ scene = "history" => History!Rested
    /\ scene = "crash" => Crashes!Rested
    /\ scene = "authors" => Authors!Rested
    /\ scene = "held" => Held!Rested
    /\ scene = "waits" => Waits!Rested
    /\ scene = "titles" => Named!Rested
    /\ scene = "created" => Created!Rested
(* Whoever asked for a lock gets it and gives it back, requests and resets *)
(* end, sessions that were closed end with their answers delivered, the    *)
(* queue of the history empties and its stop returns, and no publication   *)
(* waits for ever.                                                         *)
NothingHangs == []<>Rests
=============================================================================
