---------------------------- MODULE WsHubProofs ----------------------------
(* Proofs about WsHub: the hub's tables agree, no topic is watched by a      *)
(* connection that is gone, and topics of a broker that stays registered    *)
(* are reference counted, for any clients, panels, brokers and topics; and  *)
(* the hub implements TopicSharing.                                          *)
EXTENDS WsHub, TLAPS

(* The four actions that take a client's panels out of the tables do so     *)
(* through RemoveTopicClient(c, S), where S holds only keys that c watches: *)
(* counting on the stable brokers survives it.                              *)
LEMMA RemovalTyped ==
  ASSUME TypeOK, NEW c \in Clients, NEW S \in SUBSET Keys, RemoveTopicClient(c, S)
  PROVE  /\ topicClients' \in [Keys -> SUBSET Clients]
         /\ topicHandlers' \in SUBSET Keys
         /\ handlers' \in [Keys -> Nat]
  BY DEF TypeOK, RemoveTopicClient, Abandoned

LEMMA RemovalCounts ==
  ASSUME TypeOK, StableTracked, SharedHandler,
         NEW c \in Clients, NEW S \in SUBSET Keys, RemoveTopicClient(c, S),
         NEW k \in Keys, k[1] \in StableBrokers
  PROVE  /\ k \in topicHandlers' <=> topicClients'[k] # {}
         /\ handlers'[k] = IF topicClients'[k] = {} THEN 0 ELSE 1
<1>1. CASE k \in Abandoned(c, S)
  <2>1. topicClients'[k] = {}
    BY <1>1 DEF RemoveTopicClient, Abandoned
  <2>2. k \in topicHandlers /\ handlers[k] = 1
    BY <1>1 DEF Abandoned, StableTracked, SharedHandler
  <2>3. k \notin topicHandlers' /\ handlers'[k] = 0
    BY <1>1, <2>2 DEF RemoveTopicClient
  <2> QED BY <2>1, <2>3
<1>2. CASE k \notin Abandoned(c, S)
  <2>1. topicClients'[k] = {} <=> topicClients[k] = {}
    BY <1>2 DEF RemoveTopicClient, Abandoned, TypeOK
  <2>2. handlers'[k] = handlers[k] /\ (k \in topicHandlers' <=> k \in topicHandlers)
    BY <1>2 DEF RemoveTopicClient
  <2> QED BY <2>1, <2>2 DEF StableTracked, SharedHandler
<1> QED BY <1>1, <1>2

-----------------------------------------------------------------------------
(* Type correctness, one lemma per group of actions.                        *)

LEMMA DropPanelTyped ==
  ASSUME TypeOK, NEW c \in Clients, NEW p \in Panels, DropPanel(c, p)
  PROVE  /\ panelSubs' \in [Clients -> [Panels -> SUBSET Keys]]
         /\ subscriptions' \in [Clients -> [Keys -> SUBSET Panels]]
         /\ topicClients' \in [Keys -> SUBSET Clients]
         /\ topicHandlers' \in SUBSET Keys
         /\ handlers' \in [Keys -> Nat]
<1>1. OnlyThrough(c, p) \in SUBSET Keys
  BY DEF TypeOK, OnlyThrough
<1>2. RemoveTopicClient(c, OnlyThrough(c, p))
  BY DEF DropPanel
<1>3. panelSubs' \in [Clients -> [Panels -> SUBSET Keys]]
  BY DEF DropPanel, TypeOK
<1>4. subscriptions' \in [Clients -> [Keys -> SUBSET Panels]]
  <2>1. [k \in Keys |-> subscriptions[c][k] \ {p}] \in [Keys -> SUBSET Panels]
    BY DEF TypeOK
  <2> QED BY <2>1 DEF DropPanel, TypeOK
<1> QED BY <1>1, <1>2, <1>3, <1>4, RemovalTyped

LEMMA ForgetTyped ==
  ASSUME TypeOK, NEW c \in Clients, Forget(c)
  PROVE  /\ clients' \in SUBSET Clients
         /\ closed' \in SUBSET Clients
         /\ panelSubs' \in [Clients -> [Panels -> SUBSET Keys]]
         /\ subscriptions' \in [Clients -> [Keys -> SUBSET Panels]]
         /\ topicClients' \in [Keys -> SUBSET Clients]
         /\ topicHandlers' \in SUBSET Keys
         /\ handlers' \in [Keys -> Nat]
<1>1. RemoveTopicClient(c, {k \in Keys : subscriptions[c][k] # {}})
  BY DEF Forget
<1>2. /\ clients' \in SUBSET Clients
      /\ closed' \in SUBSET Clients
      /\ panelSubs' \in [Clients -> [Panels -> SUBSET Keys]]
      /\ subscriptions' \in [Clients -> [Keys -> SUBSET Panels]]
  BY DEF Forget, TypeOK
<1> QED BY <1>1, <1>2, RemovalTyped

LEMMA AddTopicTyped ==
  ASSUME TypeOK, NEW k \in Keys, AddTopic(k)
  PROVE  /\ request.active /\ request \in Requests
         /\ request' \in Requests
         /\ panelSubs' \in [Clients -> [Panels -> SUBSET Keys]]
         /\ subscriptions' \in [Clients -> [Keys -> SUBSET Panels]]
         /\ topicClients' \in [Keys -> SUBSET Clients]
         /\ topicHandlers' \in SUBSET Keys
         /\ handlers' \in [Keys -> Nat]
<1>1. request.active /\ request \in Requests
  BY DEF AddTopic, TypeOK, NoRequest
<1>2. request.client \in Clients /\ request.panel \in Panels /\ request.left \in SUBSET Keys
  BY <1>1 DEF Requests
<1>3. request' \in Requests
  BY <1>1, <1>2 DEF AddTopic, Requests
<1>4. panelSubs' \in [Clients -> [Panels -> SUBSET Keys]]
  BY <1>2 DEF AddTopic, TypeOK
<1>5. subscriptions' \in [Clients -> [Keys -> SUBSET Panels]]
  BY <1>2 DEF AddTopic, TypeOK
<1>6. topicClients' \in [Keys -> SUBSET Clients]
  BY <1>2 DEF AddTopic, TypeOK
<1>7. topicHandlers' \in SUBSET Keys /\ handlers' \in [Keys -> Nat]
  <2>1. AddFirst(k) \/ UNCHANGED <<topicHandlers, handlers>>
    BY DEF AddTopic
  <2>2. ASSUME AddFirst(k)
        PROVE  /\ topicHandlers' \in {topicHandlers, topicHandlers \cup {k}}
               /\ handlers' \in {handlers, [handlers EXCEPT ![k] = handlers[k] + 1],
                                [handlers EXCEPT ![k] = 1]}
    BY <2>2 DEF AddFirst
  <2>3. /\ topicHandlers \cup {k} \in SUBSET Keys
        /\ [handlers EXCEPT ![k] = handlers[k] + 1] \in [Keys -> Nat]
        /\ [handlers EXCEPT ![k] = 1] \in [Keys -> Nat]
    BY DEF TypeOK
  <2>4. CASE AddFirst(k)
    BY <2>2, <2>3, <2>4 DEF TypeOK
  <2>5. CASE UNCHANGED <<topicHandlers, handlers>>
    BY <2>5 DEF TypeOK
  <2> QED BY <2>1, <2>4, <2>5
<1> QED BY <1>1, <1>3, <1>4, <1>5, <1>6, <1>7

LEMMA FanoutTyped ==
  ASSUME TypeOK, NEW b \in Brokers, fanout[b].calls > 0 \/ fanout[b].left # {}
  PROVE  fanout[b] \in Fanouts
  BY DEF TypeOK, Idle

(* Between any two steps every variable of the hub has its type.            *)
THEOREM TypeCorrect == Spec => []TypeOK
<1>1. Init => TypeOK
  BY HubAssumption DEF Init, TypeOK, Idle, Fanouts, Requests
<1>2. TypeOK /\ [Next]_vars => TypeOK'
  <2> SUFFICES ASSUME TypeOK, [Next]_vars PROVE TypeOK'
    OBVIOUS
  <2> USE HubAssumption
  <2>1. ASSUME NEW c \in Clients, Register(c) PROVE TypeOK'
    BY <2>1 DEF Register, TypeOK, bookVars, brokerVars
  <2>2. ASSUME NEW c \in Clients, Unregister(c) PROVE TypeOK'
    <3>1. Forget(c)
      BY <2>2 DEF Unregister
    <3> QED BY <2>2, <3>1, ForgetTyped DEF Unregister, TypeOK
  <2>3. ASSUME NEW c \in Clients, ConnectionLost(c) PROVE TypeOK'
    BY <2>3 DEF ConnectionLost, TypeOK, bookVars, brokerVars
  <2>4. ASSUME NEW c \in Clients, WriteFrame(c) PROVE TypeOK'
    BY <2>4 DEF WriteFrame, TypeOK, bookVars, brokerVars
  <2>5. ASSUME NEW c \in Clients, WriteFails(c) PROVE TypeOK'
    BY <2>3, <2>5 DEF WriteFails
  <2>6. ASSUME NEW c \in Clients, WriterEnds(c) PROVE TypeOK'
    BY <2>6 DEF WriterEnds, TypeOK, bookVars, brokerVars
  <2>7. ASSUME NEW c \in Clients, CloseListed(c) PROVE TypeOK'
    <3>1. Forget(c)
      BY <2>7 DEF CloseListed
    <3> QED BY <2>7, <3>1, ForgetTyped DEF CloseListed, TypeOK
  <2>8. CASE CloseAllClients
    BY <2>8 DEF CloseAllClients, TypeOK, clientVars, bookVars, brokerVars
  <2>9. ASSUME NEW c \in Clients, NEW p \in Panels, UnsubscribePanel(c, p) PROVE TypeOK'
    <3>1. DropPanel(c, p)
      BY <2>9 DEF UnsubscribePanel
    <3> QED BY <2>9, <3>1, DropPanelTyped DEF UnsubscribePanel, TypeOK, clientVars
  <2>10. ASSUME NEW c \in Clients, NEW p \in Panels, NEW b \in Brokers, NEW ts \in SUBSET Topics,
                BeginSubscribe(c, p, b, ts)
         PROVE  TypeOK'
    <3>1. DropPanel(c, p)
      BY <2>10 DEF BeginSubscribe
    <3>2. {b} \X ts \in SUBSET Keys
      BY DEF Keys
    <3>3. request' \in Requests
      BY <2>10, <3>2 DEF BeginSubscribe, Requests
    <3>4. stamp' \in [Clients -> SUBSET Panels]
      BY <2>10 DEF BeginSubscribe, TypeOK
    <3> QED BY <2>10, <3>1, <3>3, <3>4, DropPanelTyped DEF BeginSubscribe, TypeOK
  <2>11. ASSUME NEW k \in Keys, AddTopic(k) PROVE TypeOK'
    <3>1. UNCHANGED <<clientVars, closing, manager, fanout>>
      BY <2>11 DEF AddTopic
    <3> QED BY <2>11, <3>1, AddTopicTyped DEF TypeOK, clientVars
  <2>12. CASE EndSubscribe
    BY <2>12 DEF EndSubscribe, TypeOK, clientVars, bookVars, brokerVars
  <2>13. ASSUME NEW b \in Brokers, AddBroker(b) PROVE TypeOK'
    BY <2>13 DEF AddBroker, TypeOK, clientVars, bookVars
  <2>14. ASSUME NEW b \in Brokers, SubscribeAll(b) PROVE TypeOK'
    BY <2>14 DEF SubscribeAll, TypeOK, clientVars, bookVars
  <2>15. ASSUME NEW b \in Brokers, RemoveBroker(b) PROVE TypeOK'
    BY <2>15 DEF RemoveBroker, TypeOK, clientVars, bookVars
  <2>16. ASSUME NEW k \in Keys, Route(k) PROVE TypeOK'
    <3>1. k[1] \in Brokers /\ handlers[k] \in Nat
      BY DEF Keys, TypeOK
    <3>2. [key |-> k, calls |-> handlers[k], left |-> {}] \in Fanouts
      BY <3>1 DEF Fanouts
    <3> QED BY <2>16, <3>1, <3>2 DEF Route, TypeOK, clientVars, bookVars, brokerVars
  <2>17. ASSUME NEW b \in Brokers, Snapshot(b) PROVE TypeOK'
    <3>1. fanout[b] \in Fanouts
      BY <2>17, FanoutTyped DEF Snapshot
    <3> DEFINE next == [key   |-> fanout[b].key,
                        calls |-> fanout[b].calls - 1,
                        left  |-> topicClients[fanout[b].key] \cap clients]
    <3>2. next \in Fanouts
      <4>1. fanout[b].calls \in Nat \ {0} /\ fanout[b].key \in Keys
        BY <2>17, <3>1 DEF Snapshot, Fanouts
      <4>2. topicClients[fanout[b].key] \cap clients \in SUBSET Clients
        BY <4>1 DEF TypeOK
      <4> QED BY <4>1, <4>2 DEF Fanouts
    <3>3. Settled(next) \in Fanouts \cup {Idle}
      BY <3>2 DEF Settled
    <3>4. fanout' = [fanout EXCEPT ![b] = Settled(next)]
      BY <2>17 DEF Snapshot
    <3> HIDE DEF next
    <3>5. fanout' \in [Brokers -> Fanouts \cup {Idle}]
      BY <3>3, <3>4 DEF TypeOK
    <3> QED BY <2>17, <3>5 DEF Snapshot, TypeOK, clientVars, bookVars, brokerVars
  <2>18. ASSUME NEW b \in Brokers, NEW c \in Clients, Send(b, c) PROVE TypeOK'
    <3>1. fanout[b] \in Fanouts
      BY <2>18, FanoutTyped DEF Send
    <3> DEFINE next == [key |-> fanout[b].key, calls |-> fanout[b].calls,
                        left |-> fanout[b].left \ {c}]
    <3>2. next \in Fanouts
      BY <3>1 DEF Fanouts
    <3>3. Settled(next) \in Fanouts \cup {Idle}
      BY <3>2 DEF Settled
    <3>4. fanout' = [fanout EXCEPT ![b] = Settled(next)]
      BY <2>18 DEF Send
    <3>5. queued' \in [Clients -> 0..SendCap]
      BY <2>18 DEF Send, TypeOK
    <3> HIDE DEF next
    <3>6. fanout' \in [Brokers -> Fanouts \cup {Idle}]
      BY <3>3, <3>4 DEF TypeOK
    <3> QED BY <2>18, <3>5, <3>6 DEF Send, TypeOK, bookVars, brokerVars
  <2>19. CASE UNCHANGED vars
    BY <2>19 DEF vars, TypeOK, clientVars, bookVars, brokerVars
  <2> QED
    BY <2>1, <2>2, <2>3, <2>4, <2>5, <2>6, <2>7, <2>8, <2>9, <2>10, <2>11, <2>12,
       <2>13, <2>14, <2>15, <2>16, <2>17, <2>18, <2>19 DEF Next, Subscribing, Router
<1> QED BY <1>1, <1>2, PTL DEF Spec

-----------------------------------------------------------------------------
(* The tables agree.  DropPanel and Forget take a client out of a key       *)
(* exactly when its last panel leaves the key.                              *)

LEMMA DropPanelAgrees ==
  ASSUME TypeOK, BooksAgree, NEW c \in Clients, NEW p \in Panels, DropPanel(c, p)
  PROVE  BooksAgree'
<1> SUFFICES ASSUME NEW d \in Clients, NEW k \in Keys
             PROVE  /\ \A q \in Panels : (q \in subscriptions[d][k] <=> k \in panelSubs[d][q])'
                    /\ (d \in topicClients[k] <=> subscriptions[d][k] # {})'
  BY DEF BooksAgree
<1>1. /\ \A q \in Panels : q \in subscriptions[d][k] <=> k \in panelSubs[d][q]
      /\ d \in topicClients[k] <=> subscriptions[d][k] # {}
      /\ subscriptions[c][k] \in SUBSET Panels
  BY DEF BooksAgree, TypeOK
<1>2. subscriptions'[d][k] = IF d = c THEN subscriptions[c][k] \ {p} ELSE subscriptions[d][k]
  BY DEF DropPanel, TypeOK
<1>3. \A q \in Panels :
        panelSubs'[d][q] = IF d = c /\ q = p THEN {} ELSE panelSubs[d][q]
  BY DEF DropPanel, TypeOK
<1>4. topicClients'[k] = IF k \in OnlyThrough(c, p) THEN topicClients[k] \ {c} ELSE topicClients[k]
  BY DEF DropPanel, RemoveTopicClient
<1>5. k \in OnlyThrough(c, p) <=> subscriptions[c][k] = {p}
  <2>1. p \in subscriptions[c][k] <=> k \in panelSubs[c][p]
    BY DEF BooksAgree
  <2> QED BY <2>1 DEF OnlyThrough
<1>6. \A q \in Panels : (q \in subscriptions[d][k] <=> k \in panelSubs[d][q])'
  BY <1>1, <1>2, <1>3
<1>7. (d \in topicClients[k] <=> subscriptions[d][k] # {})'
  <2>1. CASE d = c
    BY <1>1, <1>2, <1>4, <1>5, <2>1
  <2>2. CASE d # c
    BY <1>1, <1>2, <1>4, <2>2
  <2> QED BY <2>1, <2>2
<1> QED BY <1>6, <1>7

LEMMA ForgetAgrees ==
  ASSUME TypeOK, BooksAgree, NEW c \in Clients, Forget(c)
  PROVE  BooksAgree' /\ \A k \in Keys : c \notin topicClients'[k]
<1>1. ASSUME NEW k \in Keys
      PROVE  topicClients'[k] = topicClients[k] \ {c}
  <2>1. topicClients'[k] = IF subscriptions[c][k] # {} THEN topicClients[k] \ {c} ELSE topicClients[k]
    BY DEF Forget, RemoveTopicClient
  <2>2. subscriptions[c][k] = {} => c \notin topicClients[k]
    BY DEF BooksAgree
  <2> QED BY <2>1, <2>2
<1>2. ASSUME NEW d \in Clients, NEW k \in Keys
      PROVE  /\ \A q \in Panels : (q \in subscriptions[d][k] <=> k \in panelSubs[d][q])'
             /\ (d \in topicClients[k] <=> subscriptions[d][k] # {})'
  <2>1. /\ \A q \in Panels : q \in subscriptions[d][k] <=> k \in panelSubs[d][q]
        /\ d \in topicClients[k] <=> subscriptions[d][k] # {}
    BY DEF BooksAgree
  <2>2. subscriptions'[d][k] = IF d = c THEN {} ELSE subscriptions[d][k]
    BY DEF Forget, TypeOK
  <2>3. \A q \in Panels : panelSubs'[d][q] = IF d = c THEN {} ELSE panelSubs[d][q]
    BY DEF Forget, TypeOK
  <2> QED BY <2>1, <2>2, <2>3, <1>1
<1> QED BY <1>1, <1>2 DEF BooksAgree

LEMMA AddTopicAgrees ==
  ASSUME TypeOK, BooksAgree, NEW j \in Keys, AddTopic(j)
  PROVE  BooksAgree'
<1> DEFINE c == request.client
           p == request.panel
<1>1. request \in Requests
  BY AddTopicTyped
<1>2. c \in Clients /\ p \in Panels
  BY <1>1 DEF Requests
<1>3. /\ panelSubs' = [panelSubs EXCEPT ![c][p] = panelSubs[c][p] \cup {j}]
      /\ subscriptions' = [subscriptions EXCEPT ![c][j] = subscriptions[c][j] \cup {p}]
      /\ topicClients' = [topicClients EXCEPT ![j] = topicClients[j] \cup {c}]
  BY DEF AddTopic
<1> HIDE DEF c, p
<1>4. ASSUME NEW d \in Clients, NEW k \in Keys
      PROVE  /\ \A q \in Panels : (q \in subscriptions[d][k] <=> k \in panelSubs[d][q])'
             /\ (d \in topicClients[k] <=> subscriptions[d][k] # {})'
  <2>1. /\ \A q \in Panels : q \in subscriptions[d][k] <=> k \in panelSubs[d][q]
        /\ d \in topicClients[k] <=> subscriptions[d][k] # {}
    BY DEF BooksAgree
  <2>2. subscriptions'[d][k] = IF d = c /\ k = j THEN subscriptions[d][k] \cup {p}
                                                ELSE subscriptions[d][k]
    BY <1>2, <1>3 DEF TypeOK
  <2>3. \A q \in Panels : panelSubs'[d][q] = IF d = c /\ q = p THEN panelSubs[d][q] \cup {j}
                                                              ELSE panelSubs[d][q]
    BY <1>2, <1>3 DEF TypeOK
  <2>4. topicClients'[k] = IF k = j THEN topicClients[k] \cup {c} ELSE topicClients[k]
    BY <1>2, <1>3 DEF TypeOK
  <2>5. \A q \in Panels : (q \in subscriptions[d][k] <=> k \in panelSubs[d][q])'
    BY <2>1, <2>2, <2>3
  <2>6. (d \in topicClients[k] <=> subscriptions[d][k] # {})'
    BY <2>1, <2>2, <2>4
  <2> QED BY <2>5, <2>6
<1> QED BY <1>4 DEF BooksAgree

-----------------------------------------------------------------------------
(* The inductive invariant.                                                 *)

Rest == WatchersHaveReaders /\ RequestHasReader /\ StableTracked /\ SharedHandler

\* Taking panels out of the tables keeps the rest of the invariant, provided no
\* subscribe call is in progress afterwards or its reader is still there.
LEMMA RemovalKeepsRest ==
  ASSUME TypeOK, Rest, NEW c \in Clients, NEW S \in SUBSET Keys, RemoveTopicClient(c, S),
         manager' = manager, RequestHasReader',
         \A d \in Clients : reader'[d] = reader[d]
                            \/ (reader'[d] = "gone" /\ \A k \in Keys : d \notin topicClients'[k])
  PROVE  Rest'
<1>1. \A k \in Keys : topicClients'[k] \subseteq topicClients[k]
  BY DEF RemoveTopicClient
<1>2. WatchersHaveReaders'
  <2> SUFFICES ASSUME NEW k \in Keys, NEW d \in topicClients'[k]
               PROVE  reader'[d] \in {"reading", "dropped"}
    BY DEF WatchersHaveReaders
  <2>1. d \in topicClients[k] /\ d \in Clients
    BY <1>1 DEF TypeOK
  <2>2. reader[d] \in {"reading", "dropped"}
    BY <2>1 DEF Rest, WatchersHaveReaders
  <2> QED BY <2>1, <2>2
<1>3. StableTracked' /\ SharedHandler'
  <2>1. \A k \in Keys : k[1] \in StableBrokers =>
          /\ k \in topicHandlers' <=> topicClients'[k] # {}
          /\ handlers'[k] = IF topicClients'[k] = {} THEN 0 ELSE 1
    BY RemovalCounts DEF Rest
  <2> QED BY <2>1 DEF Rest, StableTracked, SharedHandler
<1> QED BY <1>2, <1>3 DEF Rest

\* Steps that leave the tables, the handlers and the brokers alone.
LEMMA OthersKeepRest ==
  ASSUME Rest, UNCHANGED <<bookVars, brokerVars>>, RequestHasReader',
         \A k \in Keys : \A d \in topicClients[k] :
            reader[d] \in {"reading", "dropped"} => reader'[d] \in {"reading", "dropped"}
  PROVE  Rest'
<1>1. WatchersHaveReaders'
  BY DEF Rest, WatchersHaveReaders, bookVars
<1>2. StableTracked' /\ SharedHandler'
  BY DEF Rest, StableTracked, SharedHandler, bookVars, brokerVars
<1> QED BY <1>1, <1>2 DEF Rest

LEMMA AddTopicKeepsRest ==
  ASSUME TypeOK, Rest, NEW j \in Keys, AddTopic(j)
  PROVE  Rest'
<1> DEFINE c == request.client
<1>1. request.active /\ request \in Requests /\ request' \in Requests
  BY AddTopicTyped
<1>2. c \in Clients /\ reader[c] \in {"reading", "dropped"}
  BY <1>1 DEF Requests, Rest, RequestHasReader
<1>3. /\ topicClients' = [topicClients EXCEPT ![j] = topicClients[j] \cup {c}]
      /\ reader' = reader /\ manager' = manager
      /\ request' = [request EXCEPT !.left = request.left \ {j}]
      /\ IF topicClients[j] = {} THEN AddFirst(j) ELSE UNCHANGED <<topicHandlers, handlers>>
  BY DEF AddTopic, clientVars
<1>4. request'.client = c
  BY <1>1, <1>3 DEF Requests
<1> HIDE DEF c
<1>5. RequestHasReader'
  BY <1>2, <1>3, <1>4 DEF RequestHasReader
<1>6. \A k \in Keys : topicClients'[k] = IF k = j THEN topicClients[k] \cup {c} ELSE topicClients[k]
  BY <1>3 DEF TypeOK
<1>7. WatchersHaveReaders'
  BY <1>2, <1>3, <1>6 DEF Rest, WatchersHaveReaders
<1>8. ASSUME NEW k \in Keys, k[1] \in StableBrokers
      PROVE  /\ k \in topicHandlers' <=> topicClients'[k] # {}
             /\ handlers'[k] = IF topicClients'[k] = {} THEN 0 ELSE 1
  <2>1. /\ k \in topicHandlers <=> topicClients[k] # {}
        /\ handlers[k] = IF topicClients[k] = {} THEN 0 ELSE 1
        /\ manager[k[1]] = "ready"
    BY <1>8 DEF Rest, StableTracked, SharedHandler
  <2>2. CASE topicClients[j] # {}
    BY <1>3, <1>6, <2>1, <2>2
  <2>3. CASE topicClients[j] = {} /\ k # j
    <3>1. /\ k \in topicHandlers' <=> k \in topicHandlers
          /\ handlers'[k] = handlers[k]
      BY <1>3, <2>3 DEF AddFirst, TypeOK
    <3> QED BY <1>6, <2>1, <2>3, <3>1
  <2>4. CASE topicClients[j] = {} /\ k = j
    <3>1. topicHandlers' = topicHandlers \cup {j} /\ handlers' = [handlers EXCEPT ![j] = handlers[j] + 1]
      BY <1>3, <2>1, <2>4 DEF AddFirst
    <3>2. handlers[j] = 0
      BY <2>1, <2>4
    <3>3. j \in topicHandlers' /\ handlers'[j] = 1
      <4>1. DOMAIN handlers = Keys
        BY DEF TypeOK
      <4> QED BY <3>1, <3>2, <4>1
    <3>4. topicClients'[k] # {}
      BY <1>6, <2>4
    <3> QED BY <2>4, <3>3, <3>4
  <2> QED BY <2>2, <2>3, <2>4
<1>9. StableTracked' /\ SharedHandler'
  BY <1>3, <1>8 DEF Rest, StableTracked, SharedHandler
<1> QED BY <1>5, <1>7, <1>9 DEF Rest

LEMMA Invariance == Spec => []IInv
<1>1. Init => IInv
  <2> SUFFICES ASSUME Init PROVE IInv
    OBVIOUS
  <2>1. TypeOK
    BY HubAssumption DEF Init, TypeOK, Idle, Fanouts, Requests
  <2>2. BooksAgree
    BY DEF Init, BooksAgree
  <2>3. WatchersHaveReaders /\ RequestHasReader /\ SharedHandler
    BY DEF Init, WatchersHaveReaders, RequestHasReader, NoRequest, SharedHandler
  <2>4. StableTracked
    BY HubAssumption DEF Init, StableTracked
  <2> QED BY <2>1, <2>2, <2>3, <2>4 DEF IInv
<1>2. TypeOK' /\ IInv /\ [Next]_vars => IInv'
  <2> SUFFICES ASSUME TypeOK', IInv, [Next]_vars PROVE BooksAgree' /\ Rest'
    BY DEF IInv, Rest
  <2>0. TypeOK /\ BooksAgree /\ Rest
    BY DEF IInv, Rest
  <2>00. WatchersHaveReaders /\ RequestHasReader
    BY <2>0 DEF Rest
  <2>000. \A k \in Keys : topicClients[k] \subseteq Clients
    BY <2>0 DEF TypeOK
  <2>1. ASSUME NEW c \in Clients, Register(c) PROVE BooksAgree' /\ Rest'
    <3>1. BooksAgree'
      BY <2>0, <2>1 DEF Register, bookVars, BooksAgree
    <3>2. RequestHasReader'
      BY <2>00, <2>1, <2>0 DEF Register, RequestHasReader, HubFree
    <3> QED BY <2>0, <2>1, <2>000, <3>1, <3>2, OthersKeepRest DEF Register, TypeOK
  <2>2. ASSUME NEW c \in Clients, Unregister(c) PROVE BooksAgree' /\ Rest'
    <3>1. Forget(c)
      BY <2>2 DEF Unregister
    <3>2. BooksAgree' /\ \A k \in Keys : c \notin topicClients'[k]
      BY <2>0, <3>1, ForgetAgrees
    <3>3. RequestHasReader'
      BY <2>2, <3>1 DEF Unregister, Forget, HubFree, RequestHasReader
    <3>4. \A d \in Clients : reader'[d] = IF d = c THEN "gone" ELSE reader[d]
      BY <2>0, <2>2 DEF Unregister, TypeOK
    <3>5. RemoveTopicClient(c, {k \in Keys : subscriptions[c][k] # {}}) /\ manager' = manager
      BY <2>2, <3>1 DEF Unregister, Forget
    <3> QED BY <2>0, <3>2, <3>3, <3>4, <3>5, RemovalKeepsRest
  <2>3. ASSUME NEW c \in Clients, ConnectionLost(c) PROVE BooksAgree' /\ Rest'
    <3>1. BooksAgree'
      BY <2>0, <2>3 DEF ConnectionLost, bookVars, BooksAgree
    <3>2. \A d \in Clients : reader[d] \in {"reading", "dropped"} => reader'[d] \in {"reading", "dropped"}
      BY <2>0, <2>3 DEF ConnectionLost, TypeOK
    <3>3. RequestHasReader'
      <4>1. request' = request
        BY <2>3 DEF ConnectionLost
      <4>2. request.active => request.client \in Clients
        <5>1. request \in Requests \/ request = NoRequest
          BY <2>0 DEF TypeOK
        <5>2. CASE request \in Requests
          BY <5>2 DEF Requests
        <5>3. CASE request = NoRequest
          BY <5>3 DEF NoRequest
        <5> QED BY <5>1, <5>2, <5>3
      <4> QED BY <2>00, <3>2, <4>1, <4>2 DEF RequestHasReader
    <3> QED BY <2>0, <2>3, <2>000, <3>1, <3>2, <3>3, OthersKeepRest DEF ConnectionLost
  <2>4. ASSUME NEW c \in Clients, WriteFrame(c) PROVE BooksAgree' /\ Rest'
    BY <2>0, <2>00, <2>4, OthersKeepRest DEF WriteFrame, bookVars, BooksAgree, RequestHasReader
  <2>5. ASSUME NEW c \in Clients, WriteFails(c) PROVE BooksAgree' /\ Rest'
    BY <2>3, <2>5 DEF WriteFails
  <2>6. ASSUME NEW c \in Clients, WriterEnds(c) PROVE BooksAgree' /\ Rest'
    <3>1. ConnectionLost(c)
      BY <2>6 DEF WriterEnds, ConnectionLost
    <3> QED BY <2>3, <3>1
  <2>7. ASSUME NEW c \in Clients, CloseListed(c) PROVE BooksAgree' /\ Rest'
    <3>1. Forget(c)
      BY <2>7 DEF CloseListed
    <3>2. BooksAgree'
      BY <2>0, <3>1, ForgetAgrees
    <3>3. RequestHasReader' /\ reader' = reader
      BY <2>00, <2>7 DEF CloseListed, RequestHasReader
    <3>5. RemoveTopicClient(c, {k \in Keys : subscriptions[c][k] # {}}) /\ manager' = manager
      BY <2>7, <3>1 DEF CloseListed, Forget
    <3> QED BY <2>0, <3>2, <3>3, <3>5, RemovalKeepsRest
  <2>8. CASE CloseAllClients
    BY <2>0, <2>00, <2>8, OthersKeepRest DEF CloseAllClients, clientVars, bookVars, BooksAgree, RequestHasReader
  <2>9. ASSUME NEW c \in Clients, NEW p \in Panels, UnsubscribePanel(c, p)
        PROVE  BooksAgree' /\ Rest'
    <3>1. DropPanel(c, p)
      BY <2>9 DEF UnsubscribePanel
    <3>2. BooksAgree'
      BY <2>0, <3>1, DropPanelAgrees
    <3>3. RequestHasReader' /\ reader' = reader /\ manager' = manager
      BY <2>00, <2>9 DEF UnsubscribePanel, clientVars, RequestHasReader
    <3>4. RemoveTopicClient(c, OnlyThrough(c, p)) /\ OnlyThrough(c, p) \in SUBSET Keys
      BY <2>0, <3>1 DEF DropPanel, OnlyThrough, TypeOK
    <3> QED BY <2>0, <3>2, <3>3, <3>4, RemovalKeepsRest
  <2>10. ASSUME NEW c \in Clients, NEW p \in Panels, NEW b \in Brokers, NEW ts \in SUBSET Topics,
                BeginSubscribe(c, p, b, ts)
         PROVE  BooksAgree' /\ Rest'
    <3>1. DropPanel(c, p)
      BY <2>10 DEF BeginSubscribe
    <3>2. BooksAgree'
      BY <2>0, <3>1, DropPanelAgrees
    <3>3. RequestHasReader' /\ reader' = reader /\ manager' = manager
      BY <2>10 DEF BeginSubscribe, RequestHasReader
    <3>4. RemoveTopicClient(c, OnlyThrough(c, p)) /\ OnlyThrough(c, p) \in SUBSET Keys
      BY <2>0, <3>1 DEF DropPanel, OnlyThrough, TypeOK
    <3> QED BY <2>0, <3>2, <3>3, <3>4, RemovalKeepsRest
  <2>11. ASSUME NEW k \in Keys, AddTopic(k) PROVE BooksAgree' /\ Rest'
    BY <2>0, <2>11, AddTopicAgrees, AddTopicKeepsRest
  <2>12. CASE EndSubscribe
    BY <2>0, <2>12, OthersKeepRest DEF EndSubscribe, clientVars, bookVars, BooksAgree, RequestHasReader, NoRequest
  <2>13. ASSUME NEW b \in Brokers, b \notin StableBrokers,
                manager' \in {[manager EXCEPT ![b] = "fresh"], [manager EXCEPT ![b] = "absent"]},
                handlers' = [k \in Keys |-> IF k[1] = b THEN 0 ELSE handlers[k]],
                UNCHANGED <<clientVars, bookVars, request, closing, fanout>>
         PROVE  BooksAgree' /\ Rest'
    <3>1. BooksAgree'
      BY <2>0, <2>13 DEF bookVars, BooksAgree
    <3>2. WatchersHaveReaders' /\ RequestHasReader'
      BY <2>00, <2>13 DEF clientVars, bookVars, WatchersHaveReaders, RequestHasReader
    <3>3. \A a \in StableBrokers : manager'[a] = manager[a]
      BY <2>0, <2>13, HubAssumption DEF TypeOK
    <3>4. StableTracked' /\ SharedHandler'
      BY <2>0, <2>13, <3>3 DEF Rest, StableTracked, SharedHandler, bookVars
    <3> QED BY <3>1, <3>2, <3>4 DEF Rest
  <2>14. ASSUME NEW b \in Brokers, AddBroker(b) PROVE BooksAgree' /\ Rest'
    BY <2>13, <2>14 DEF AddBroker
  <2>15. ASSUME NEW b \in Brokers, RemoveBroker(b) PROVE BooksAgree' /\ Rest'
    BY <2>13, <2>15 DEF RemoveBroker
  <2>16. ASSUME NEW b \in Brokers, SubscribeAll(b) PROVE BooksAgree' /\ Rest'
    <3>1. BooksAgree'
      BY <2>0, <2>16 DEF SubscribeAll, bookVars, BooksAgree
    <3>2. WatchersHaveReaders' /\ RequestHasReader'
      BY <2>00, <2>16 DEF SubscribeAll, clientVars, bookVars, WatchersHaveReaders, RequestHasReader
    <3>3. \A a \in StableBrokers : manager'[a] = "ready"
      BY <2>0, <2>16, HubAssumption DEF SubscribeAll, TypeOK, Rest, StableTracked
    <3>4. StableTracked' /\ SharedHandler'
      BY <2>0, <2>16, <3>3 DEF SubscribeAll, Rest, StableTracked, SharedHandler, bookVars
    <3> QED BY <3>1, <3>2, <3>4 DEF Rest
  <2>17. ASSUME UNCHANGED <<reader, bookVars, request, brokerVars>> PROVE BooksAgree' /\ Rest'
    BY <2>0, <2>00, <2>17, OthersKeepRest DEF bookVars, BooksAgree, RequestHasReader
  <2>18. ASSUME NEW k \in Keys, Route(k) PROVE BooksAgree' /\ Rest'
    BY <2>17, <2>18 DEF Route, clientVars
  <2>19. ASSUME NEW b \in Brokers, Snapshot(b) PROVE BooksAgree' /\ Rest'
    BY <2>17, <2>19 DEF Snapshot, clientVars
  <2>20. ASSUME NEW b \in Brokers, NEW c \in Clients, Send(b, c) PROVE BooksAgree' /\ Rest'
    BY <2>17, <2>20 DEF Send
  <2>21. CASE UNCHANGED vars
    BY <2>17, <2>21 DEF vars, clientVars
  <2> QED
    BY <2>1, <2>2, <2>3, <2>4, <2>5, <2>6, <2>7, <2>8, <2>9, <2>10, <2>11, <2>12,
       <2>14, <2>15, <2>16, <2>18, <2>19, <2>20, <2>21 DEF Next, Subscribing, Router
<1> QED BY <1>1, <1>2, TypeCorrect, PTL DEF Spec

(* Whatever the clients, panels, brokers and frames, the hub's three tables *)
(* agree between any two steps.                                             *)
THEOREM BooksAlwaysAgree == Spec => []BooksAgree
<1>1. IInv => BooksAgree
  BY DEF IInv
<1> QED BY <1>1, Invariance, PTL

(* No key is ever watched by a client whose reader is gone.                 *)
THEOREM NoGhostWatchers == Spec => []WatchersHaveReaders
<1>1. IInv => WatchersHaveReaders
  BY DEF IInv
<1> QED BY <1>1, Invariance, PTL

(* On a broker that stays registered a key has exactly one hub handler      *)
(* while it is watched, and none otherwise.                                 *)
THEOREM ReferenceCounting == Spec => []SharedHandler
<1>1. IInv => SharedHandler
  BY DEF IInv
<1> QED BY <1>1, Invariance, PTL

-----------------------------------------------------------------------------
(* The refinement of TopicSharing.  Because a stable broker's handlers follow *)
(* the hub's clients, and those the panels, in every reachable state, each    *)
(* step only has to be matched on the watchers.                               *)
Watchers == [k \in StableKeys |-> {w \in Clients \X Panels : w[2] \in subscriptions[w[1]][k]}]
Upstream == {k \in StableKeys : handlers[k] > 0}

LEMMA UpstreamFollows == IInv => Upstream = {k \in StableKeys : Watchers[k] # {}}
<1> SUFFICES ASSUME IInv PROVE Upstream = {k \in StableKeys : Watchers[k] # {}}
  OBVIOUS
<1>1. ASSUME NEW k \in StableKeys PROVE handlers[k] > 0 <=> Watchers[k] # {}
  <2>1. k \in Keys /\ k[1] \in StableBrokers
    BY HubAssumption DEF StableKeys, Keys
  <2>2. handlers[k] > 0 <=> topicClients[k] # {}
    BY <2>1 DEF IInv, SharedHandler
  <2>3. topicClients[k] # {} <=> \E c \in Clients : subscriptions[c][k] # {}
    BY <2>1 DEF IInv, BooksAgree, TypeOK
  <2>4. \A c \in Clients : subscriptions[c][k] \subseteq Panels
    BY <2>1 DEF IInv, TypeOK
  <2>5. Watchers[k] # {} <=> \E c \in Clients : \E p \in Panels : p \in subscriptions[c][k]
    <3>1. ASSUME NEW c \in Clients, NEW p \in Panels, p \in subscriptions[c][k] PROVE Watchers[k] # {}
      <4>1. <<c, p>> \in Watchers[k]
        BY <3>1 DEF Watchers
      <4> QED BY <4>1
    <3>2. ASSUME NEW w \in Watchers[k] PROVE \E c \in Clients : \E p \in Panels : p \in subscriptions[c][k]
      BY <3>2 DEF Watchers
    <3> QED BY <3>1, <3>2
  <2> QED BY <2>2, <2>3, <2>4, <2>5
<1> QED BY <1>1 DEF Upstream

LEMMA DropPanelReleases ==
  ASSUME TypeOK, NEW c \in Clients, NEW p \in Panels, DropPanel(c, p)
  PROVE  Watchers' = [k \in StableKeys |-> Watchers[k] \ {<<c, p>>}]
<1>1. ASSUME NEW k \in StableKeys PROVE Watchers'[k] = Watchers[k] \ {<<c, p>>}
  <2>1. k \in Keys
    BY HubAssumption DEF StableKeys, Keys
  <2>2. \A d \in Clients : subscriptions'[d][k] = IF d = c THEN subscriptions[d][k] \ {p} ELSE subscriptions[d][k]
    BY <2>1 DEF DropPanel, TypeOK
  <2>3. \A w \in Clients \X Panels : w = <<c, p>> <=> w[1] = c /\ w[2] = p
    OBVIOUS
  <2>4. \A w \in Clients \X Panels :
          w[2] \in subscriptions'[w[1]][k] <=> w[2] \in subscriptions[w[1]][k] /\ w # <<c, p>>
    BY <2>2, <2>3
  <2> QED BY <2>4 DEF Watchers
<1> QED BY <1>1 DEF Watchers

LEMMA ForgetLeaves ==
  ASSUME TypeOK, NEW c \in Clients, Forget(c)
  PROVE  Watchers' = [k \in StableKeys |-> {w \in Watchers[k] : w[1] # c}]
<1>1. ASSUME NEW k \in StableKeys PROVE Watchers'[k] = {w \in Watchers[k] : w[1] # c}
  <2>1. k \in Keys
    BY HubAssumption DEF StableKeys, Keys
  <2>2. \A d \in Clients : subscriptions'[d][k] = IF d = c THEN {} ELSE subscriptions[d][k]
    BY <2>1 DEF Forget, TypeOK
  <2>3. \A w \in Clients \X Panels :
          w[2] \in subscriptions'[w[1]][k] <=> w[2] \in subscriptions[w[1]][k] /\ w[1] # c
    BY <2>2
  <2> QED BY <2>3 DEF Watchers
<1> QED BY <1>1 DEF Watchers

\* The next topic of a request is watched by its panel, as far as stable brokers go.
LEMMA AddTopicWatches ==
  ASSUME TypeOK, NEW j \in Keys, AddTopic(j)
  PROVE  /\ request.client \in Clients /\ request.panel \in Panels
         /\ j \notin StableKeys => Watchers' = Watchers
         /\ j \in StableKeys =>
              Watchers' = [Watchers EXCEPT ![j] = Watchers[j] \cup {<<request.client, request.panel>>}]
<1> DEFINE c == request.client
           p == request.panel
<1>1. c \in Clients /\ p \in Panels
  BY AddTopicTyped DEF Requests
<1>2. ASSUME NEW k \in StableKeys
      PROVE  Watchers'[k] = IF k = j THEN Watchers[k] \cup {<<c, p>>} ELSE Watchers[k]
  <2>1. k \in Keys
    BY HubAssumption DEF StableKeys, Keys
  <2>2. \A d \in Clients : subscriptions'[d][k] =
          IF d = c /\ k = j THEN subscriptions[d][k] \cup {p} ELSE subscriptions[d][k]
    BY <1>1, <2>1 DEF AddTopic, TypeOK
  <2> HIDE DEF c, p
  <2>3. \A w \in Clients \X Panels : w = <<c, p>> <=> w[1] = c /\ w[2] = p
    OBVIOUS
  <2>4. \A w \in Clients \X Panels :
          w[2] \in subscriptions'[w[1]][k] <=> w[2] \in subscriptions[w[1]][k] \/ (k = j /\ w = <<c, p>>)
    BY <2>2, <2>3
  <2>5. <<c, p>> \in Clients \X Panels
    BY <1>1
  <2> QED BY <2>4, <2>5 DEF Watchers
<1> HIDE DEF c, p
<1>3. j \notin StableKeys => Watchers' = Watchers
  BY <1>2 DEF Watchers
<1>4. j \in StableKeys => Watchers' = [Watchers EXCEPT ![j] = Watchers[j] \cup {<<c, p>>}]
  <2>1. Watchers = [k \in StableKeys |-> Watchers[k]] /\ Watchers' = [k \in StableKeys |-> Watchers'[k]]
    BY DEF Watchers
  <2> QED BY <1>2, <2>1
<1> QED BY <1>1, <1>3, <1>4 DEF c, p

LEMMA StepsShare ==
  ASSUME IInv, IInv', [Next]_vars
  PROVE  [Sharing!Next]_<<Watchers, Upstream>>
<1> USE HubAssumption
<1>0. TypeOK /\ Upstream' = {k \in StableKeys : Watchers'[k] # {}}
  <2>1. IInv' => (Upstream = {k \in StableKeys : Watchers[k] # {}})'
    BY UpstreamFollows, PTL
  <2> QED BY <2>1 DEF IInv
<1>1. ASSUME NEW c \in Clients, NEW p \in Panels, DropPanel(c, p) PROVE Sharing!Next
  BY <1>0, <1>1, DropPanelReleases DEF Sharing!Next, Sharing!Release, Sharing!Follow, Watchers, Upstream
<1>2. ASSUME NEW c \in Clients, Forget(c) PROVE Sharing!Next
  BY <1>0, <1>2, ForgetLeaves DEF Sharing!Next, Sharing!Leave, Sharing!Follow, Watchers, Upstream
<1>3. ASSUME UNCHANGED Watchers PROVE UNCHANGED <<Watchers, Upstream>>
  <2>1. Upstream = {k \in StableKeys : Watchers[k] # {}}
    BY UpstreamFollows
  <2> QED BY <1>0, <1>3, <2>1
<1>4. ASSUME UNCHANGED subscriptions PROVE UNCHANGED <<Watchers, Upstream>>
  <2>1. UNCHANGED Watchers
    BY <1>4 DEF Watchers
  <2> QED BY <1>3, <2>1
<1>5. ASSUME NEW k \in Keys, AddTopic(k) PROVE [Sharing!Next]_<<Watchers, Upstream>>
  <2>1. CASE k \notin StableKeys
    BY <1>0, <1>3, <1>5, <2>1, AddTopicWatches
  <2>2. CASE k \in StableKeys
    <3>1. Watchers' = [Watchers EXCEPT ![k] = @ \cup {<<request.client, request.panel>>}]
      BY <1>0, <1>5, <2>2, AddTopicWatches
    <3>2. request.client \in Clients /\ request.panel \in Panels
      BY <1>0, <1>5, AddTopicWatches
    <3>3. PICK c \in Clients, p \in Panels : c = request.client /\ p = request.panel
      BY <3>2
    <3>4. Sharing!Watch(c, p, k)
      BY <1>0, <3>1, <3>3 DEF Sharing!Watch, Sharing!Follow, Watchers, Upstream
    <3>5. Sharing!Next
      BY <2>2, <3>4 DEF Sharing!Next
    <3> QED BY <3>5
  <2> QED BY <2>1, <2>2
<1>6. ASSUME NEW c \in Clients, Unregister(c) \/ CloseListed(c) PROVE Sharing!Next
  BY <1>2, <1>6 DEF Unregister, CloseListed
<1>7. ASSUME NEW c \in Clients, NEW p \in Panels, UnsubscribePanel(c, p) PROVE Sharing!Next
  BY <1>1, <1>7 DEF UnsubscribePanel
<1>8. ASSUME NEW c \in Clients, NEW p \in Panels, NEW b \in Brokers, NEW ts \in SUBSET Topics,
             BeginSubscribe(c, p, b, ts)
      PROVE  Sharing!Next
  BY <1>1, <1>8 DEF BeginSubscribe
<1>9. ASSUME NEW c \in Clients,
             Register(c) \/ ConnectionLost(c) \/ WriteFrame(c) \/ WriteFails(c) \/ WriterEnds(c)
      PROVE  UNCHANGED subscriptions
  BY <1>9 DEF Register, ConnectionLost, WriteFrame, WriteFails, WriterEnds, bookVars
<1>10. ASSUME CloseAllClients \/ EndSubscribe PROVE UNCHANGED subscriptions
  BY <1>10 DEF CloseAllClients, EndSubscribe, bookVars
<1>11. ASSUME NEW b \in Brokers, AddBroker(b) \/ SubscribeAll(b) \/ RemoveBroker(b) \/ Router(b)
       PROVE  UNCHANGED subscriptions
  BY <1>11 DEF AddBroker, SubscribeAll, RemoveBroker, Router, Snapshot, Send, bookVars
<1>12. ASSUME NEW k \in Keys, Route(k) PROVE UNCHANGED subscriptions
  BY <1>12 DEF Route, bookVars
<1>13. ASSUME UNCHANGED vars PROVE UNCHANGED subscriptions
  BY <1>13 DEF vars, bookVars
<1> QED
  BY <1>4, <1>5, <1>6, <1>7, <1>8, <1>9, <1>10, <1>11, <1>12, <1>13 DEF Next, Subscribing

\* Seen through its stable brokers, the hub implements TopicSharing: its calls, frames,
\* disconnections and brokers that come and go add up to panels that watch, panels that
\* release, clients that leave, and an upstream subscription exactly while one is needed.
THEOREM ImplementsSharing == Spec => SharesTopics
<1>1. Init => Sharing!Init
  <2> SUFFICES ASSUME Init PROVE Sharing!Init
    OBVIOUS
  <2>1. \A k \in StableKeys : k \in Keys
    BY HubAssumption DEF StableKeys, Keys
  <2>2. \A k \in StableKeys : handlers[k] = 0 /\ \A c \in Clients : subscriptions[c][k] = {}
    BY <2>1 DEF Init
  <2>3. \A k \in StableKeys : {w \in Clients \X Panels : w[2] \in subscriptions[w[1]][k]} = {}
    BY <2>2
  <2>4. Watchers = [k \in StableKeys |-> {}]
    BY <2>3 DEF Watchers
  <2>5. Upstream = {}
    BY <2>2 DEF Upstream
  <2> QED BY <2>4, <2>5 DEF Sharing!Init, Watchers, Upstream
<1>2. IInv /\ IInv' /\ [Next]_vars => [Sharing!Next]_(Sharing!vars)
  BY StepsShare DEF Sharing!vars, Watchers, Upstream
<1> QED BY <1>1, <1>2, Invariance, PTL DEF Spec, SharesTopics, Sharing!Spec
=============================================================================
