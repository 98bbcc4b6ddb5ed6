------------------------------- MODULE WsHub -------------------------------
(***************************************************************************)
(* The WebSocket hub (backend/ws/hub.go, backend/ws/handler.go) and the    *)
(* part of the broker registry it drives.                                  *)
(*                                                                         *)
(* Every browser tab is a client; its reader goroutine registers it, runs  *)
(* the subscribe and unsubscribe frames of the tab's panels, and           *)
(* unregisters it when the connection ends.  All panels of all clients     *)
(* that watch one (broker, topic) share one handler in the broker's        *)
(* manager, which the hub adds with the first watcher and removes with the *)
(* last.  The manager's router goroutine calls the handlers of a message:  *)
(* each takes a snapshot of the watching clients under the hub's lock and  *)
(* then hands the frame to each of them without holding it.                *)
(***************************************************************************)
EXTENDS Naturals

CONSTANTS Clients,        \* WebSocket connections; ids are fresh uuids, so each connects once
          Panels,         \* panel ids used in frames
          Brokers,        \* broker ids
          Topics,         \* topics and filters that panels subscribe to
          StableBrokers,  \* brokers that are registered at start and never removed or updated
          SendCap         \* capacity of a client's send channel (64 in the code)

ASSUME HubAssumption == /\ StableBrokers \subseteq Brokers
                        /\ SendCap \in Nat \ {0}

VARIABLES
  reader,         \* reader goroutine of each client
  clients,        \* Hub.clients
  closed,         \* Client.closed
  queued,         \* length of Client.send
  stamp,          \* Client.panelID, stamped on every frame sent to the client
  panelSubs,      \* Client.panelSubs
  subscriptions,  \* Client.subscriptions
  topicClients,   \* Hub.topicClients; the empty set stands for a missing entry
  topicHandlers,  \* keys of Hub.topicHandlers
  request,        \* the SubscribePanel call in progress, which holds Hub.mu and Client.mu
  closing,        \* clients CloseAllClients has listed and not yet unregistered
  manager,        \* BrokerRegistry.clients, and whether '#' is subscribed in the manager
  handlers,       \* hub handlers in the manager's subs, per broker and topic
  fanout          \* the message each broker's router goroutine is dispatching

clientVars == <<reader, clients, closed, queued, stamp>>
bookVars   == <<panelSubs, subscriptions, topicClients, topicHandlers>>
brokerVars == <<manager, handlers>>
vars == <<clientVars, bookVars, request, closing, brokerVars, fanout>>

Keys == Brokers \X Topics        \* brokerTopic

NoRequest == [active |-> FALSE]
Requests  == [active : {TRUE}, client : Clients, panel : Panels, left : SUBSET Keys]

\* A router goroutine at work: the handlers still to call for the key, and the
\* clients in the running handler's snapshot that have not been served.
Fanouts == [key : Keys, calls : Nat, left : SUBSET Clients]
Idle    == [calls |-> 0, left |-> {}]

TypeOK ==
  /\ reader \in [Clients -> {"none", "reading", "dropped", "gone"}]
  /\ clients \in SUBSET Clients
  /\ closed \in SUBSET Clients
  /\ queued \in [Clients -> 0..SendCap]
  /\ stamp \in [Clients -> SUBSET Panels]
  /\ panelSubs \in [Clients -> [Panels -> SUBSET Keys]]
  /\ subscriptions \in [Clients -> [Keys -> SUBSET Panels]]
  /\ topicClients \in [Keys -> SUBSET Clients]
  /\ topicHandlers \in SUBSET Keys
  /\ request \in Requests \cup {NoRequest}
  /\ closing \in SUBSET Clients
  /\ manager \in [Brokers -> {"absent", "fresh", "ready"}]
  /\ handlers \in [Keys -> Nat]
  /\ fanout \in [Brokers -> Fanouts \cup {Idle}]

Init ==
  /\ reader = [c \in Clients |-> "none"]
  /\ clients = {}
  /\ closed = {}
  /\ queued = [c \in Clients |-> 0]
  /\ stamp = [c \in Clients |-> {}]
  /\ panelSubs = [c \in Clients |-> [p \in Panels |-> {}]]
  /\ subscriptions = [c \in Clients |-> [k \in Keys |-> {}]]
  /\ topicClients = [k \in Keys |-> {}]
  /\ topicHandlers = {}
  /\ request = NoRequest
  /\ closing = {}
  /\ manager = [b \in Brokers |-> IF b \in StableBrokers THEN "ready" ELSE "absent"]
  /\ handlers = [k \in Keys |-> 0]
  /\ fanout = [b \in Brokers |-> Idle]

HubFree == ~request.active

-----------------------------------------------------------------------------
(* removeTopicClient, for every key of S at once.  The handler of a key     *)
(* that nobody watches any more is taken out of the broker's manager if it  *)
(* is still there: a replaced manager does not know it, and Unsubscribe     *)
(* removes no other handler in its place.                                   *)

Abandoned(c, S) == {k \in S : topicClients[k] # {} /\ topicClients[k] \subseteq {c}}

\* Mutant: the record of the handler is dropped without the Unsubscribe call.
RemoveTopicClient_KeepHandler(c, S) ==
  /\ topicClients' = [k \in Keys |-> IF k \in S THEN topicClients[k] \ {c} ELSE topicClients[k]]
  /\ topicHandlers' = topicHandlers \ Abandoned(c, S)
  /\ UNCHANGED handlers

RemoveTopicClient(c, S) ==
  /\ topicClients' = [k \in Keys |-> IF k \in S THEN topicClients[k] \ {c} ELSE topicClients[k]]
  /\ handlers' = [k \in Keys |->
                    IF k \in Abandoned(c, S) \cap topicHandlers /\ handlers[k] > 0
                      THEN handlers[k] - 1 ELSE handlers[k]]
  /\ topicHandlers' = topicHandlers \ Abandoned(c, S)

\* Mutant: a client leaves every key of the panel, its other panels forgotten.
OnlyThrough_AllKeys(c, p) == panelSubs[c][p]

\* The keys that client c watches only through panel p.
OnlyThrough(c, p) == {k \in panelSubs[c][p] : subscriptions[c][k] = {p}}

DropPanel(c, p) ==
  /\ panelSubs' = [panelSubs EXCEPT ![c][p] = {}]
  /\ subscriptions' = [subscriptions EXCEPT ![c] = [k \in Keys |-> subscriptions[c][k] \ {p}]]
  /\ RemoveTopicClient(c, OnlyThrough(c, p))

-----------------------------------------------------------------------------
(* The life of a connection.                                                *)

\* ServeWS: the reader goroutine registers the client and starts its writer.
Register(c) ==
  /\ reader[c] = "none"
  /\ HubFree
  /\ reader' = [reader EXCEPT ![c] = "reading"]
  /\ clients' = clients \cup {c}
  /\ UNCHANGED <<closed, queued, stamp, bookVars, request, closing, brokerVars, fanout>>

\* Unregister forgets the client and everything its panels watch.
Forget(c) ==
  /\ HubFree
  /\ clients' = clients \ {c}
  /\ closed' = closed \cup {c}
  /\ panelSubs' = [panelSubs EXCEPT ![c] = [p \in Panels |-> {}]]
  /\ subscriptions' = [subscriptions EXCEPT ![c] = [k \in Keys |-> {}]]
  /\ RemoveTopicClient(c, {k \in Keys : subscriptions[c][k] # {}})

\* Mutant: Unregister returns early for a client it no longer knows.
Unregister_OnlyOnce(c) ==
  /\ reader[c] = "dropped"
  /\ IF c \in clients THEN Forget(c) ELSE HubFree /\ UNCHANGED <<clients, closed, bookVars, handlers>>
  /\ reader' = [reader EXCEPT ![c] = "gone"]
  /\ UNCHANGED <<queued, stamp, request, closing, manager, fanout>>

\* The reader loop has ended; its deferred Unregister runs.
Unregister(c) ==
  /\ reader[c] = "dropped"
  /\ Forget(c)
  /\ reader' = [reader EXCEPT ![c] = "gone"]
  /\ UNCHANGED <<queued, stamp, request, closing, manager, fanout>>

\* The peer goes away, or stays silent past the pong deadline.
ConnectionLost(c) ==
  /\ reader[c] = "reading"
  /\ reader' = [reader EXCEPT ![c] = "dropped"]
  /\ UNCHANGED <<clients, closed, queued, stamp, bookVars, request, closing, brokerVars, fanout>>

\* A write misses its deadline: the writer goroutine closes the connection.
WriteFails(c) == queued[c] > 0 /\ ConnectionLost(c)

\* The writer goroutine takes a frame off the channel and writes it out.
WriteFrame(c) ==
  /\ reader[c] = "reading"
  /\ queued[c] > 0
  /\ queued' = [queued EXCEPT ![c] = @ - 1]
  /\ UNCHANGED <<reader, clients, closed, stamp, bookVars, request, closing, brokerVars, fanout>>

\* Mutant: the writer goroutine does not notice that the channel is closed.
WriterEnds_Unnoticed(c) ==
  /\ reader[c] = "reading" /\ c \in closed /\ queued[c] = 0
  /\ UNCHANGED vars

\* The writer goroutine finds the channel closed and drained: it closes the
\* connection, which ends the reader loop.
WriterEnds(c) ==
  /\ reader[c] = "reading"
  /\ c \in closed
  /\ queued[c] = 0
  /\ reader' = [reader EXCEPT ![c] = "dropped"]
  /\ UNCHANGED <<clients, closed, queued, stamp, bookVars, request, closing, brokerVars, fanout>>

\* CloseAllClients lists the clients under the lock, then unregisters them one
\* by one.
CloseAllClients ==
  /\ HubFree
  /\ closing = {}
  /\ clients # {}
  /\ closing' = clients
  /\ UNCHANGED <<clientVars, bookVars, request, brokerVars, fanout>>

CloseListed(c) ==
  /\ c \in closing
  /\ Forget(c)
  /\ closing' = closing \ {c}
  /\ UNCHANGED <<reader, queued, stamp, request, manager, fanout>>

-----------------------------------------------------------------------------
(* The frames of a client.  SubscribePanel keeps Hub.mu and Client.mu while *)
(* it adds one topic after the other, so the brokers and the routers, but   *)
(* no other hub operation, may move in between.                             *)

BeginSubscribe(c, p, b, ts) ==
  /\ reader[c] = "reading"
  /\ HubFree
  /\ stamp' = [stamp EXCEPT ![c] = {p}]
  /\ DropPanel(c, p)
  /\ request' = [active |-> TRUE, client |-> c, panel |-> p, left |-> {b} \X ts]
  /\ UNCHANGED <<reader, clients, closed, queued, closing, manager, fanout>>

\* The first watcher of key k: registry.Subscribe.
AddFirst(k) ==
  \/ /\ manager[k[1]] = "absent"       \* "broker not found"
     /\ UNCHANGED <<topicHandlers, handlers>>
  \/ /\ manager[k[1]] # "absent"
     /\ topicHandlers' = topicHandlers \cup {k}
     /\ handlers' = [handlers EXCEPT ![k] = @ + 1]
  \/ /\ manager[k[1]] = "fresh"        \* no '#' yet: the SUBSCRIBE is sent, and fails
     /\ handlers[k] = 0
     /\ handlers' = [handlers EXCEPT ![k] = 1]
     /\ UNCHANGED topicHandlers

AddTopic(k) ==
  LET c == request.client
      p == request.panel
  IN  /\ request.active
      /\ k \in request.left
      /\ request' = [request EXCEPT !.left = @ \ {k}]
      /\ panelSubs' = [panelSubs EXCEPT ![c][p] = @ \cup {k}]
      /\ subscriptions' = [subscriptions EXCEPT ![c][k] = @ \cup {p}]
      /\ topicClients' = [topicClients EXCEPT ![k] = @ \cup {c}]
      /\ IF topicClients[k] = {} THEN AddFirst(k) ELSE UNCHANGED <<topicHandlers, handlers>>
      /\ UNCHANGED <<clientVars, closing, manager, fanout>>

EndSubscribe ==
  /\ request.active
  /\ request.left = {}
  /\ request' = NoRequest
  /\ UNCHANGED <<clientVars, bookVars, closing, brokerVars, fanout>>

UnsubscribePanel(c, p) ==
  /\ reader[c] = "reading"
  /\ HubFree
  /\ DropPanel(c, p)
  /\ UNCHANGED <<clientVars, request, closing, manager, fanout>>

-----------------------------------------------------------------------------
(* The brokers.  A new manager starts with no handlers of the hub; it is    *)
(* visible in the registry before its '#' subscription is in place.         *)

AddBroker(b) ==
  /\ b \notin StableBrokers
  /\ manager' = [manager EXCEPT ![b] = "fresh"]
  /\ handlers' = [k \in Keys |-> IF k[1] = b THEN 0 ELSE handlers[k]]
  /\ UNCHANGED <<clientVars, bookVars, request, closing, fanout>>

SubscribeAll(b) ==
  /\ manager[b] = "fresh"
  /\ manager' = [manager EXCEPT ![b] = "ready"]
  /\ UNCHANGED <<clientVars, bookVars, request, closing, handlers, fanout>>

RemoveBroker(b) ==
  /\ b \notin StableBrokers
  /\ manager[b] # "absent"
  /\ manager' = [manager EXCEPT ![b] = "absent"]
  /\ handlers' = [k \in Keys |-> IF k[1] = b THEN 0 ELSE handlers[k]]
  /\ UNCHANGED <<clientVars, bookVars, request, closing, fanout>>

-----------------------------------------------------------------------------
(* Dispatch of a message, by the broker's router goroutine.                 *)

Done(f) == f.calls = 0 /\ f.left = {}
Settled(f) == IF Done(f) THEN Idle ELSE f

\* The manager copies the list of handlers, then calls them in turn.
Route(k) ==
  /\ manager[k[1]] # "absent"
  /\ handlers[k] > 0
  /\ Done(fanout[k[1]])
  /\ fanout' = [fanout EXCEPT ![k[1]] = [key |-> k, calls |-> handlers[k], left |-> {}]]
  /\ UNCHANGED <<clientVars, bookVars, request, closing, brokerVars>>

\* A handler starts: the registered clients among those that watch the key.
Snapshot(b) ==
  /\ fanout[b].calls > 0
  /\ fanout[b].left = {}
  /\ HubFree
  /\ LET f == fanout[b]
     IN  fanout' = [fanout EXCEPT ![b] =
                      Settled([key   |-> f.key,
                               calls |-> f.calls - 1,
                               left  |-> topicClients[f.key] \cap clients])]
  /\ UNCHANGED <<clientVars, bookVars, request, closing, brokerVars>>

\* Mutant: Client.Send waits until the channel has room.
Send_Blocking(b, c) ==
  /\ c \in fanout[b].left
  /\ request.active => request.client # c
  /\ c \in closed \/ queued[c] < SendCap
  /\ fanout' = [fanout EXCEPT ![b] = Settled([key |-> fanout[b].key, calls |-> fanout[b].calls,
                                             left |-> fanout[b].left \ {c}])]
  /\ queued' = IF c \notin closed THEN [queued EXCEPT ![c] = @ + 1] ELSE queued
  /\ UNCHANGED <<reader, clients, closed, stamp, bookVars, request, closing, brokerVars>>

\* Mutant: the capacity check is off by one.
Send_Overflow(b, c) ==
  /\ c \in fanout[b].left
  /\ request.active => request.client # c
  /\ fanout' = [fanout EXCEPT ![b] = Settled([key |-> fanout[b].key, calls |-> fanout[b].calls,
                                             left |-> fanout[b].left \ {c}])]
  /\ queued' = IF c \notin closed /\ queued[c] <= SendCap
                 THEN [queued EXCEPT ![c] = @ + 1] ELSE queued
  /\ UNCHANGED <<reader, clients, closed, stamp, bookVars, request, closing, brokerVars>>

\* Client.Send never waits for room: a full channel drops the frame.
Send(b, c) ==
  /\ c \in fanout[b].left
  /\ request.active => request.client # c
  /\ LET f == fanout[b]
     IN  fanout' = [fanout EXCEPT ![b] =
                      Settled([key |-> f.key, calls |-> f.calls, left |-> f.left \ {c}])]
  /\ queued' = IF c \notin closed /\ queued[c] < SendCap
                 THEN [queued EXCEPT ![c] = @ + 1] ELSE queued
  /\ UNCHANGED <<reader, clients, closed, stamp, bookVars, request, closing, brokerVars>>

-----------------------------------------------------------------------------
Router(b) == Snapshot(b) \/ \E c \in Clients : Send(b, c)

Subscribing == EndSubscribe \/ \E k \in Keys : AddTopic(k)

Next ==
  \/ \E c \in Clients : \/ Register(c) \/ Unregister(c) \/ ConnectionLost(c)
                        \/ WriteFrame(c) \/ WriteFails(c) \/ WriterEnds(c)
                        \/ CloseListed(c)
  \/ CloseAllClients
  \/ \E c \in Clients, p \in Panels :
       \/ UnsubscribePanel(c, p)
       \/ \E b \in Brokers, ts \in SUBSET Topics : BeginSubscribe(c, p, b, ts)
  \/ Subscribing
  \/ \E b \in Brokers : AddBroker(b) \/ SubscribeAll(b) \/ RemoveBroker(b) \/ Router(b)
  \/ \E k \in Keys : Route(k)

Writer(c) == WriteFrame(c) \/ WriteFails(c) \/ WriterEnds(c)

Spec == Init /\ [][Next]_vars

(* A subscribe call returns (its wait for the broker is limited to 5 s) and *)
(* router goroutines are scheduled.  Hub.mu is contended but serves every   *)
(* waiter: a waiting writer stops new readers, and a starved waiter is      *)
(* handed the lock, so the actions that need it get strong fairness.        *)
(* Nothing is assumed of the peers or of the goroutines that write to them. *)
LockFairness == /\ WF_vars(Subscribing)
                /\ \A b \in Brokers : SF_vars(Router(b))

StalledPeersSpec == Spec /\ LockFairness

(* A write ends within its 10 s deadline, one way or the other, and a       *)
(* reader that has ended runs its deferred Unregister.  Only the property   *)
(* that needs this assumes it.                                              *)
WritersRun == \A c \in Clients : WF_vars(Writer(c)) /\ SF_vars(Unregister(c))

-----------------------------------------------------------------------------
(* Safety.                                                                  *)

\* The three indexes of who watches what tell the same story between any two
\* steps: a panel's list of keys, a client's panels per key, the hub's clients
\* per key.  Resubscribing, leaving and mass disconnection all edit all three.
BooksAgree ==
  \A c \in Clients, k \in Keys :
    /\ \A p \in Panels : p \in subscriptions[c][k] <=> k \in panelSubs[c][p]
    /\ c \in topicClients[k] <=> subscriptions[c][k] # {}

\* A client counted as a watcher has a reader goroutine whose deferred
\* Unregister is still to come, even when frames arrive after CloseAllClients
\* has unregistered it: no topic is kept alive by a connection that is gone.
WatchersHaveReaders ==
  \A k \in Keys : \A c \in topicClients[k] : reader[c] \in {"reading", "dropped"}

\* Reference counting, on a broker that stays registered: the manager holds
\* exactly one hub handler for a key while some panel of some client watches
\* it, and none otherwise, so each message is fanned out exactly once.
SharedHandler ==
  \A k \in Keys : k[1] \in StableBrokers =>
    handlers[k] = IF topicClients[k] = {} THEN 0 ELSE 1

(* The strengthening that makes the three inductive.                        *)

\* A subscription in progress belongs to a client whose reader made the call.
RequestHasReader ==
  request.active => reader[request.client] \in {"reading", "dropped"}

\* A broker that stays registered stays covered by its '#' subscription, so
\* adding a handler to it cannot fail, and the hub's record of its handlers
\* is exact.
StableTracked ==
  /\ \A b \in StableBrokers : manager[b] = "ready"
  /\ \A k \in Keys : k[1] \in StableBrokers =>
       (k \in topicHandlers <=> topicClients[k] # {})

IInv == /\ TypeOK
        /\ BooksAgree
        /\ WatchersHaveReaders
        /\ RequestHasReader
        /\ StableTracked
        /\ SharedHandler

\* Seen through its stable brokers, the hub implements TopicSharing: every step
\* of its tables is one panel watching one more key, one panel releasing all of
\* its keys, one client leaving, or nothing.
StableKeys == StableBrokers \X Topics

Sharing == INSTANCE TopicSharing WITH
  Keys     <- StableKeys,
  watchers <- [k \in StableKeys |->
                 {w \in Clients \X Panels : w[2] \in subscriptions[w[1]][k]}],
  upstream <- {k \in StableKeys : handlers[k] > 0}

SharesTopics == Sharing!Spec

-----------------------------------------------------------------------------
(* What the documentation says and the code does not keep.                  *)

\* docs/websocket-protocol.md: the first panel on a key registers the shared
\* handler, and all panels that watch it are served.  Here: whenever a key has
\* watchers and its broker is up, the manager has the hub's handler.
WatchedTopicsServed ==
  \A k \in Keys :
    (topicClients[k] # {} /\ manager[k[1]] = "ready" /\ HubFree) => handlers[k] > 0

-----------------------------------------------------------------------------
(* Liveness.                                                                *)

\* The router goroutine always finishes a message, however slow the clients:
\* a full channel drops frames and never blocks the broker's other messages.
FanoutCompletes == \A b \in Brokers : ~Done(fanout[b]) ~> Done(fanout[b])

\* A client that CloseAllClients closed is eventually gone, with its watches,
\* whatever its peer does, provided its own goroutines run.
ClosedClientsLeave ==
  WritersRun =>
    \A c \in Clients :
      c \in closed ~> (reader[c] = "gone" /\ \A k \in Keys : c \notin topicClients[k])
=============================================================================
