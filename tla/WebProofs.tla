------------------------------- MODULE WebProofs -------------------------------
(***************************************************************************)
(* What the parts of a dashboard's page promise for every value of their   *)
(* constants: proofs about WsConnection, TopicPreview, LogicRuleEditor,    *)
(* LogicRulePanel, TogglePanel, SliderPanel and the windows of both, one   *)
(* section each, and about WebPanels, which shows them a part at a time.   *)
(***************************************************************************)
EXTENDS WebPanels, FiniteSets, NaturalsInduction, WellFoundedInduction, TLAPS


-----------------------------------------------------------------------------
(***************************************************************************)
(* The WebSocket manager (WsConnection).                                   *)
(*                                                                         *)
(* MountedServed looks at the hub's side of one socket and SocketAlive at  *)
(* the browser's; what links them is that the manager's own book is right  *)
(* (Booked) and that an open socket carries what the book says (Carried).  *)
(***************************************************************************)
Payloads == WsFilters \cup {Ws!NoSub, Ws!Unsub}

(* Its runs, with no fairness assumed. *)
WsRuns == Ws!Init /\ [][Ws!Next]_(Ws!vars)

WsTypes ==
    /\ sockets \in [Ws!Sockets -> {"none", "connecting", "open", "closing"}]
    /\ socket \in Ws!Sockets \cup {Ws!NoSocket}
    /\ listeners \subseteq Listeners
    /\ subscription \in [Listeners -> Payloads]
    /\ activeSubscriptions \in [Listeners -> Payloads]
    /\ served \in [Ws!Sockets -> [Listeners -> WsFilters \cup {Ws!NoSub}]]

(* What is sent again after a loss is what each mounted hook last asked    *)
(* for, and nothing for the others.                                        *)
Booked ==
    /\ activeSubscriptions = subscription
    /\ \A l \in Listeners \ listeners : subscription[l] = Ws!NoSub

(* The hub holds for the manager's open socket what the book says.         *)
Carried == Ws!IsOpen(socket) => \A l \in Listeners : served[socket][l] = Ws!Wire(activeSubscriptions[l])

WsInv == WsTypes /\ Booked /\ Carried /\ Ws!SocketAlive

LEMMA NumberOfNone == ASSUME MaxSockets \in Nat PROVE Ws!NoSocket \notin Ws!Sockets
BY DEF Ws!NoSocket, Ws!Sockets

LEMMA WireTyped ==
  ASSUME Ws!Unsub \notin WsFilters, NEW p \in Payloads
  PROVE  Ws!Wire(p) \in WsFilters \cup {Ws!NoSub}
BY DEF Ws!Wire, Payloads

LEMMA WireOfNone == Ws!Wire(Ws!NoSub) = Ws!NoSub
BY DEF Ws!Wire

-----------------------------------------------------------------------------
LEMMA WsStart == ASSUME MaxSockets \in Nat, Ws!Init PROVE WsInv
<1>1. WsTypes BY DEF Ws!Init, WsTypes, Ws!Nothing, Payloads
<1>2. Booked BY DEF Ws!Init, Booked, Ws!Nothing
<1>3. Carried /\ Ws!SocketAlive BY DEF Ws!Init, Carried, Ws!SocketAlive, Ws!IsOpen
<1> QED BY <1>1, <1>2, <1>3 DEF WsInv

\* A connection is asked for: the manager's socket is a new one, not open yet.
LEMMA ConnectStep ==
  ASSUME MaxSockets \in Nat, WsInv, NEW ls, Ws!connect(ls),
         Booked', subscription' \in [Listeners -> Payloads],
         activeSubscriptions' \in [Listeners -> Payloads], listeners' \subseteq Listeners,
         \A l \in Listeners : activeSubscriptions'[l] = activeSubscriptions[l]
  PROVE  WsInv'
<1>1. CASE Ws!NoConnect
  <2>1. WsTypes' BY <1>1 DEF WsInv, WsTypes, Ws!NoConnect
  <2>2. Carried' BY <1>1 DEF WsInv, Carried, Ws!NoConnect, Ws!IsOpen
  <2>3. Ws!SocketAlive' BY <1>1 DEF WsInv, Ws!SocketAlive, Ws!NoConnect
  <2> QED BY <2>1, <2>2, <2>3 DEF WsInv
<1>2. CASE Ws!NewSocket
  <2>1. PICK s \in Ws!Sockets :
          /\ sockets[s] = "none"
          /\ sockets' = [sockets EXCEPT ![s] = "connecting"]
          /\ served' = [served EXCEPT ![s] = Ws!Nothing]
          /\ socket' = s
          /\ isConnecting' = TRUE
    BY <1>2 DEF Ws!NewSocket
  <2>2. WsTypes' BY <2>1 DEF WsInv, WsTypes, Ws!Nothing
  <2>3. sockets'[s] = "connecting" BY <2>1 DEF WsInv, WsTypes
  <2>4. Carried' BY <2>1, <2>3 DEF Carried, Ws!IsOpen
  <2>5. Ws!SocketAlive' BY <2>1, <2>3 DEF Ws!SocketAlive
  <2> QED BY <2>2, <2>4, <2>5 DEF WsInv
<1> QED BY <1>1, <1>2 DEF Ws!connect

LEMMA OpenedStep ==
  ASSUME MaxSockets \in Nat, Ws!Unsub \notin WsFilters, WsInv, NEW s \in Ws!Sockets, Ws!Opened(s)
  PROVE  WsInv'
<1>1. /\ sockets[s] = "connecting" /\ sockets' = [sockets EXCEPT ![s] = "open"]
      /\ served' = [served EXCEPT ![s] = Ws!Resent] /\ isConnecting' = FALSE
      /\ UNCHANGED <<socket, listeners, subscription, activeSubscriptions>>
  BY DEF Ws!Opened
<1>2. \A l \in Listeners : Ws!Wire(activeSubscriptions[l]) \in WsFilters \cup {Ws!NoSub}
  BY WireTyped DEF WsInv, WsTypes
<1>3. Ws!Resent \in [Listeners -> WsFilters \cup {Ws!NoSub}]
  BY <1>2 DEF Ws!Resent
<1>4. WsTypes' BY <1>1, <1>3 DEF WsInv, WsTypes
<1>5. Booked' BY <1>1 DEF WsInv, Booked
<1>6. Carried'
  <2> SUFFICES ASSUME Ws!IsOpen(socket)', NEW l \in Listeners
               PROVE  served'[socket'][l] = Ws!Wire(activeSubscriptions'[l])
    BY DEF Carried, Ws!Wire
  <2>1. CASE socket = s
    <3>1. served'[socket'] = Ws!Resent BY <1>1, <2>1 DEF WsInv, WsTypes
    <3>2. Ws!Resent[l] = Ws!Wire(activeSubscriptions[l]) BY DEF Ws!Resent
    <3> QED BY <1>1, <3>1, <3>2 DEF Ws!Wire
  <2>2. CASE socket # s
    <3>1. socket # Ws!NoSocket /\ sockets'[socket] = "open" BY <1>1 DEF Ws!IsOpen
    <3>2. socket \in Ws!Sockets BY <3>1 DEF WsInv, WsTypes
    <3>3. sockets[socket] = "open" /\ served'[socket'] = served[socket]
      BY <1>1, <2>2, <3>1, <3>2 DEF WsInv, WsTypes
    <3> QED BY <1>1, <3>1, <3>3 DEF WsInv, Carried, Ws!IsOpen, Ws!Wire
  <2> QED BY <2>1, <2>2
<1>7. Ws!SocketAlive' BY <1>1 DEF WsInv, WsTypes, Ws!SocketAlive
<1> QED BY <1>4, <1>5, <1>6, <1>7 DEF WsInv

\* Whichever socket closes, the manager has none afterwards.
LEMMA CloseStep ==
  ASSUME MaxSockets \in Nat, WsInv, NEW s \in Ws!Sockets, Ws!onclose(s)
  PROVE  WsInv'
<1>1. /\ sockets' = [sockets EXCEPT ![s] = "none"] /\ served' = [served EXCEPT ![s] = Ws!Nothing]
      /\ socket' = Ws!NoSocket /\ isConnecting' = FALSE
      /\ UNCHANGED <<listeners, subscription, activeSubscriptions>>
  BY DEF Ws!onclose
<1>2. WsTypes' BY <1>1 DEF WsInv, WsTypes, Ws!Nothing
<1>3. Booked' BY <1>1 DEF WsInv, Booked
<1>4. Carried' /\ Ws!SocketAlive' BY <1>1 DEF Carried, Ws!IsOpen, Ws!SocketAlive
<1> QED BY <1>2, <1>3, <1>4 DEF WsInv

\* A frame about listener l changes the book and, if the socket is open, the hub alike.
LEMMA FrameStep ==
  ASSUME MaxSockets \in Nat, Ws!Unsub \notin WsFilters, WsInv,
         NEW l \in Listeners, NEW p \in Payloads,
         subscription' = [subscription EXCEPT ![l] = p],
         activeSubscriptions' = [activeSubscriptions EXCEPT ![l] = p],
         served' = IF Ws!IsOpen(socket) THEN [served EXCEPT ![socket][l] = Ws!Wire(p)] ELSE served,
         UNCHANGED <<sockets, socket, isConnecting>>,
         listeners' \subseteq Listeners, Booked'
  PROVE  WsInv'
<1>1. Ws!Wire(p) \in WsFilters \cup {Ws!NoSub} BY WireTyped
<1>2. CASE ~Ws!IsOpen(socket)
  <2>1. WsTypes' BY <1>2 DEF WsInv, WsTypes
  <2>2. Carried' /\ Ws!SocketAlive' BY <1>2 DEF WsInv, Carried, Ws!IsOpen, Ws!SocketAlive
  <2> QED BY <2>1, <2>2 DEF WsInv
<1>3. CASE Ws!IsOpen(socket)
  <2>1. socket \in Ws!Sockets BY <1>3 DEF WsInv, WsTypes, Ws!IsOpen
  <2>2. served' = [served EXCEPT ![socket] = [served[socket] EXCEPT ![l] = Ws!Wire(p)]]
    BY <1>3, <2>1 DEF WsInv, WsTypes
  <2>3. served[socket] \in [Listeners -> WsFilters \cup {Ws!NoSub}] BY <2>1 DEF WsInv, WsTypes
  <2>4. [served[socket] EXCEPT ![l] = Ws!Wire(p)] \in [Listeners -> WsFilters \cup {Ws!NoSub}]
    BY <1>1, <2>3
  <2>5. WsTypes' BY <2>1, <2>2, <2>4 DEF WsInv, WsTypes
  <2>6. served'[socket] = [served[socket] EXCEPT ![l] = Ws!Wire(p)] BY <2>1, <2>2 DEF WsInv, WsTypes
  <2>7. Carried'
    <3> SUFFICES ASSUME NEW k \in Listeners
                 PROVE  served'[socket'][k] = Ws!Wire(activeSubscriptions'[k])
      BY DEF Carried, Ws!Wire
    <3>1. CASE k = l
      <4>1. activeSubscriptions'[k] = p BY <3>1 DEF WsInv, WsTypes
      <4>2. served'[socket'][k] = Ws!Wire(p) BY <2>3, <2>6, <3>1
      <4> QED BY <4>1, <4>2
    <3>2. CASE k # l
      <4>1. activeSubscriptions'[k] = activeSubscriptions[k] BY <3>2 DEF WsInv, WsTypes
      <4>2. served'[socket'][k] = served[socket][k] BY <2>3, <2>6, <3>2
      <4>3. served[socket][k] = Ws!Wire(activeSubscriptions[k]) BY <1>3 DEF WsInv, Carried
      <4> QED BY <4>1, <4>2, <4>3
    <3> QED BY <3>1, <3>2
  <2>8. Ws!SocketAlive' BY DEF WsInv, Ws!SocketAlive
  <2> QED BY <2>5, <2>7, <2>8 DEF WsInv
<1> QED BY <1>2, <1>3

LEMMA PageStep ==
  ASSUME MaxSockets \in Nat, Ws!Unsub \notin WsFilters, WsInv, Ws!Page
  PROVE  WsInv'
<1>1. PICK l \in Listeners : Ws!Register(l) \/ Ws!Unregister(l)
                             \/ \E p \in WsFilters \cup {Ws!Unsub} : Ws!Subscribe(l, p)
  BY DEF Ws!Page
<1>2. CASE Ws!Register(l)
  <2>1. /\ l \notin listeners /\ listeners' = listeners \cup {l}
        /\ subscription' = [subscription EXCEPT ![l] = Ws!NoSub]
        /\ activeSubscriptions' = activeSubscriptions
        /\ Ws!connect(listeners')
    BY <1>2 DEF Ws!Register
  <2>2. subscription' \in [Listeners -> Payloads] BY <2>1 DEF WsInv, WsTypes, Payloads
  <2>3. subscription' = subscription BY <2>1 DEF WsInv, WsTypes, Booked
  <2>4. Booked' BY <2>1, <2>3 DEF WsInv, Booked
  <2> QED BY <2>1, <2>2, <2>4, ConnectStep DEF WsInv, WsTypes
<1>3. CASE Ws!Unregister(l)
  <2>1. /\ listeners' = listeners \ {l}
        /\ subscription' = [subscription EXCEPT ![l] = Ws!NoSub]
        /\ activeSubscriptions' = [activeSubscriptions EXCEPT ![l] = Ws!NoSub]
        /\ served' = IF Ws!IsOpen(socket) THEN [served EXCEPT ![socket][l] = Ws!Wire(Ws!NoSub)] ELSE served
        /\ UNCHANGED <<sockets, socket, isConnecting>>
    BY <1>3, WireOfNone DEF Ws!Unregister
  <2>2. Booked' BY <2>1 DEF WsInv, WsTypes, Booked
  <2>3. Ws!NoSub \in Payloads /\ listeners' \subseteq Listeners BY <2>1 DEF WsInv, WsTypes, Payloads
  <2> QED BY <2>1, <2>2, <2>3, FrameStep
<1>4. CASE \E p \in WsFilters \cup {Ws!Unsub} : Ws!Subscribe(l, p)
  <2>1. PICK p \in WsFilters \cup {Ws!Unsub} : Ws!Subscribe(l, p) BY <1>4
  <2>2. /\ l \in listeners
        /\ subscription' = [subscription EXCEPT ![l] = p]
        /\ activeSubscriptions' = [activeSubscriptions EXCEPT ![l] = p]
        /\ served' = IF Ws!IsOpen(socket) THEN [served EXCEPT ![socket][l] = Ws!Wire(p)] ELSE served
        /\ UNCHANGED <<sockets, socket, isConnecting, listeners>>
    BY <2>1 DEF Ws!Subscribe
  <2>3. Booked' BY <2>2 DEF WsInv, WsTypes, Booked
  <2>4. p \in Payloads /\ listeners' \subseteq Listeners BY <2>2 DEF WsInv, WsTypes, Payloads
  <2> QED BY <2>2, <2>3, <2>4, FrameStep
<1> QED BY <1>1, <1>2, <1>3, <1>4

\* The close timer gives the socket up; a connection it was waiting for ends in onclose.
LEMMA TimerStep ==
  ASSUME MaxSockets \in Nat, WsInv, Ws!CloseTimer
  PROVE  WsInv'
<1>1. /\ \/ socket' = socket /\ sockets' = sockets
         \/ socket' = Ws!NoSocket /\ sockets' = sockets
         \/ /\ socket' = Ws!NoSocket /\ socket # Ws!NoSocket
            /\ sockets' = [sockets EXCEPT ![socket] = "closing"]
      /\ UNCHANGED <<isConnecting, listeners, subscription, activeSubscriptions, served>>
  BY DEF Ws!CloseTimer
<1>2. WsTypes' BY <1>1 DEF WsInv, WsTypes
<1>3. Booked' BY <1>1 DEF WsInv, Booked
<1>4. Carried' BY <1>1 DEF WsInv, Carried, Ws!IsOpen
<1>5. Ws!SocketAlive' BY <1>1 DEF WsInv, WsTypes, Ws!SocketAlive
<1> QED BY <1>2, <1>3, <1>4, <1>5 DEF WsInv

-----------------------------------------------------------------------------
LEMMA WsStepKeeps ==
  ASSUME MaxSockets \in Nat, Ws!Unsub \notin WsFilters, WsInv, [Ws!Next]_(Ws!vars)
  PROVE  WsInv'
<1>1. CASE Ws!Network
  <2>1. PICK s \in Ws!Sockets : Ws!Opened(s) \/ Ws!Closed(s) \/ Ws!Lost(s) BY <1>1 DEF Ws!Network
  <2> QED BY <2>1, OpenedStep, CloseStep DEF Ws!Closed, Ws!Lost
<1>2. CASE Ws!Page BY <1>2, PageStep
<1>3. CASE Ws!Reconnect
  <2>1. Ws!connect(listeners) /\ UNCHANGED <<listeners, subscription, activeSubscriptions>>
    BY <1>3 DEF Ws!Reconnect
  <2>2. Booked' BY <2>1 DEF WsInv, Booked
  <2> QED BY <2>1, <2>2, ConnectStep DEF WsInv, WsTypes
<1>4. CASE Ws!CloseTimer BY <1>4, TimerStep
<1>5. CASE UNCHANGED Ws!vars
  <2>1. UNCHANGED <<sockets, socket, isConnecting, listeners, subscription,
                    activeSubscriptions, served>>
    BY <1>5 DEF Ws!vars, Ws!manager
  <2> QED BY <2>1 DEF WsInv, WsTypes, Booked, Carried, Ws!IsOpen, Ws!Wire, Ws!SocketAlive
<1> QED BY <1>1, <1>2, <1>3, <1>4, <1>5 DEF Ws!Next

LEMMA WsKept ==
  ASSUME MaxSockets \in Nat, Ws!Unsub \notin WsFilters
  PROVE  WsRuns => []WsInv
<1>1. Ws!Init => WsInv BY WsStart
<1>2. WsInv /\ [Ws!Next]_(Ws!vars) => WsInv' BY WsStepKeeps
<1> QED BY <1>1, <1>2, PTL DEF WsRuns

\* The flags, the timers and the counters; they do not depend on the sockets.
Flags == isConnecting \in BOOLEAN /\ reconnectTimeout \in BOOLEAN /\ closeTimeout \in BOOLEAN
Tallied == retries \in Nat /\ mounts \in Nat /\ losses \in Nat
Pending == reconnectTimeout => retries > 0

\* What each step does to them.
LEMMA TallyStep ==
  ASSUME [Ws!Next]_(Ws!vars)
  PROVE  /\ isConnecting' \in {isConnecting, TRUE, FALSE}
         /\ closeTimeout' \in {closeTimeout, TRUE, FALSE, closeTimeout \/ listeners' = {}}
         /\ mounts' \in {mounts, mounts + 1} /\ losses' \in {losses, losses + 1}
         /\ \/ UNCHANGED <<retries, reconnectTimeout>>
            \/ retries' = retries + 1 /\ reconnectTimeout' = TRUE
            \/ retries > 0 /\ retries' = retries - 1 /\ reconnectTimeout' = FALSE
            \/ retries > (IF reconnectTimeout THEN 1 ELSE 0) /\ retries' = retries - 1
               /\ reconnectTimeout' = reconnectTimeout
            \/ /\ retries' = IF reconnectTimeout THEN retries - 1 ELSE retries
               /\ reconnectTimeout' = FALSE
<1>1. ASSUME NEW ls, Ws!connect(ls) PROVE isConnecting' \in {isConnecting, TRUE}
  <2>1. CASE Ws!NoConnect BY <2>1 DEF Ws!NoConnect
  <2>2. CASE Ws!NewSocket BY <2>2 DEF Ws!NewSocket
  <2> QED BY <1>1, <2>1, <2>2 DEF Ws!connect
<1>2. CASE Ws!Network
  <2>1. PICK s \in Ws!Sockets : Ws!Opened(s) \/ Ws!Closed(s) \/ Ws!Lost(s) BY <1>2 DEF Ws!Network
  <2>2. CASE Ws!Opened(s) BY <2>2 DEF Ws!Opened
  <2>3. CASE Ws!Closed(s) BY <2>3 DEF Ws!Closed, Ws!onclose
  <2>4. CASE Ws!Lost(s) BY <2>4 DEF Ws!Lost, Ws!onclose
  <2> QED BY <2>1, <2>2, <2>3, <2>4
<1>3. CASE Ws!Page
  <2>1. PICK l \in Listeners : Ws!Register(l) \/ Ws!Unregister(l)
                               \/ \E p \in WsFilters \cup {Ws!Unsub} : Ws!Subscribe(l, p)
    BY <1>3 DEF Ws!Page
  <2>2. CASE Ws!Register(l) BY <1>1, <2>2 DEF Ws!Register
  <2>3. CASE Ws!Unregister(l) BY <2>3 DEF Ws!Unregister
  <2>4. CASE \E p \in WsFilters \cup {Ws!Unsub} : Ws!Subscribe(l, p) BY <2>4 DEF Ws!Subscribe
  <2> QED BY <2>1, <2>2, <2>3, <2>4
<1>4. CASE Ws!Reconnect BY <1>1, <1>4 DEF Ws!Reconnect
<1>5. CASE Ws!CloseTimer BY <1>5 DEF Ws!CloseTimer
<1>6. CASE UNCHANGED Ws!vars BY <1>6 DEF Ws!vars, Ws!manager
<1> QED BY <1>2, <1>3, <1>4, <1>5, <1>6 DEF Ws!Next

LEMMA TallyKept ==
  ASSUME Flags, Tallied, Pending, [Ws!Next]_(Ws!vars)
  PROVE  Flags' /\ Tallied' /\ Pending'
<1>1. Flags' BY TallyStep DEF Flags
<1>2. mounts' \in Nat /\ losses' \in Nat
  <2>1. mounts' \in {mounts, mounts + 1} /\ losses' \in {losses, losses + 1} BY TallyStep
  <2> QED BY <2>1 DEF Tallied
<1>3. retries' \in Nat /\ (reconnectTimeout' => retries' > 0)
  <2>1. CASE UNCHANGED <<retries, reconnectTimeout>> BY <2>1 DEF Tallied, Pending
  <2>2. CASE retries' = retries + 1 /\ reconnectTimeout' = TRUE BY <2>2 DEF Tallied
  <2>3. CASE retries > 0 /\ retries' = retries - 1 /\ reconnectTimeout' = FALSE BY <2>3 DEF Tallied
  <2>4. CASE retries > (IF reconnectTimeout THEN 1 ELSE 0) /\ retries' = retries - 1
             /\ reconnectTimeout' = reconnectTimeout
    BY <2>4 DEF Tallied
  <2>5. CASE /\ retries' = IF reconnectTimeout THEN retries - 1 ELSE retries
             /\ reconnectTimeout' = FALSE
    BY <2>5 DEF Tallied, Pending
  <2> QED BY <2>1, <2>2, <2>3, <2>4, <2>5, TallyStep
<1> QED BY <1>1, <1>2, <1>3 DEF Tallied, Pending

(* The manager's values have their types, and the reconnect timer that it  *)
(* remembers is one of those that run (hooks/useWebSocket.ts).             *)
THEOREM WsTypeHolds ==
  ASSUME MaxSockets \in Nat, Ws!Unsub \notin WsFilters
  PROVE  WsRuns => []Ws!TypeOK
<1> DEFINE Counts == Flags /\ Tallied /\ Pending
<1>1. Ws!Init => Counts
  <2>1. Ws!Init => Flags BY DEF Ws!Init, Flags
  <2>2. Ws!Init => Tallied BY DEF Ws!Init, Tallied
  <2>3. Ws!Init => Pending BY DEF Ws!Init, Pending
  <2> QED BY <2>1, <2>2, <2>3
<1>2. Counts /\ [Ws!Next]_(Ws!vars) => Counts' BY TallyKept
<1>3. WsInv /\ Counts => Ws!TypeOK
  <2>1. Flags => {isConnecting, reconnectTimeout, closeTimeout} \subseteq BOOLEAN BY DEF Flags
  <2>2. Tallied => {retries, mounts, losses} \subseteq Nat BY DEF Tallied
  <2> QED BY <2>1, <2>2 DEF WsInv, WsTypes, Payloads, Pending, Ws!TypeOK
<1> QED BY <1>1, <1>2, <1>3, WsKept, PTL DEF WsRuns

(* MountedServed holds for any panels, filters and topics and any number   *)
(* of sockets that overlap: whatever was lost, refused or given up before, *)
(* an open socket brings each mounted hook what it asked for, and nothing  *)
(* to those that left (hooks/useWebSocket.ts).  "unsubscribe" is no filter.*)
THEOREM MountedAreServed ==
  ASSUME MaxSockets \in Nat, Ws!Unsub \notin WsFilters
  PROVE  WsRuns => []Ws!MountedServed
<1>1. WsInv => Ws!MountedServed
  <2> SUFFICES ASSUME WsInv, Ws!IsOpen(socket), NEW l \in Listeners
               PROVE  /\ l \notin listeners => served[socket][l] = Ws!NoSub
                      /\ \A t \in WsTopics :
                           l \in listeners /\ subscription[l] \in WsFilters
                             /\ Ws!mqttTopicMatches(subscription[l], t) => Ws!Hears(l, socket, t)
    BY DEF Ws!MountedServed
  <2>1. served[socket][l] = Ws!Wire(subscription[l]) BY DEF WsInv, Carried, Booked
  <2>2. l \notin listeners => served[socket][l] = Ws!NoSub
    BY <2>1, WireOfNone DEF WsInv, Booked
  <2>3. ASSUME NEW t \in WsTopics, l \in listeners, subscription[l] \in WsFilters,
               Ws!mqttTopicMatches(subscription[l], t)
        PROVE  Ws!Hears(l, socket, t)
    <3>1. served[socket][l] = subscription[l] BY <2>1, <2>3 DEF Ws!Wire
    <3> QED BY <2>3, <3>1 DEF Ws!Hears, Ws!Hands
  <2> QED BY <2>2, <2>3
<1> QED BY <1>1, WsKept, PTL

(* SocketAlive holds under the same assumptions: the manager never waits   *)
(* on a socket that has died (hooks/useWebSocket.ts, onclose).             *)
THEOREM SocketStaysAlive ==
  ASSUME MaxSockets \in Nat, Ws!Unsub \notin WsFilters
  PROVE  WsRuns => []Ws!SocketAlive
<1>1. WsInv => Ws!SocketAlive BY DEF WsInv
<1> QED BY <1>1, WsKept, PTL


-----------------------------------------------------------------------------
(***************************************************************************)
(* The topic field of a dialog (TopicPreview).  Truthful speaks of what is *)
(* drawn; it follows from what is asked, listened to and kept being of     *)
(* what is typed now, once the timer is over (OfTyped).                    *)
(***************************************************************************)
(* Its runs, with no fairness assumed. *)
PreviewRuns == Preview!Init /\ [][Preview!Next]_(Preview!vars)

PreviewChosen == Preview!canSample(brokerId, topics)
PreviewShapes ==
    /\ brokerId \in Brokers \cup {Preview!NoBroker} /\ topics \in PreviewTexts /\ timer \in BOOLEAN
    /\ state \in [key : Preview!Keys, loading : BOOLEAN, byTopic : {state.byTopic}]
    /\ {asked, subscription} \subseteq (Brokers \X (PreviewTexts \ {<<>>})) \cup {Preview!Idle}
    /\ history \subseteq live
(* What is asked, listened to and shown is of what is typed, once the      *)
(* timer is over.                                                          *)
OfTyped ==
    /\ timer => PreviewChosen
    /\ asked # Preview!Idle => PreviewChosen /\ ~timer /\ asked = Preview!currentKey
    /\ PreviewChosen /\ ~timer => /\ subscription = Preview!currentKey /\ state.key = Preview!currentKey
                                  /\ ~state.loading =>
                                       \A t \in DOMAIN state.byTopic : state.byTopic[t] => <<brokerId, t>> \in live
(* A sample with a message in it is of a topic that had one. *)
Sampled == sample.payload \in BOOLEAN /\ (sample.payload => sample.source \in history)
PreviewInv == PreviewShapes /\ OfTyped /\ Sampled

LEMMA KeyFits ==
  ASSUME PreviewShapes
  PROVE  Preview!currentKey \in Preview!Keys /\ (PreviewChosen => Preview!currentKey \in Brokers \X (PreviewTexts \ {<<>>}) /\ Preview!currentKey # Preview!Idle)
BY DEF PreviewShapes, Preview!currentKey, Preview!Keys, PreviewChosen, Preview!canSample, Preview!Idle

LEMMA PreviewStartKeeps == ASSUME Preview!TextsFit, Preview!Init PROVE PreviewInv
<1>1. PreviewShapes
  <2>1. Preview!currentKey \in Preview!Keys BY DEF Preview!Init, Preview!currentKey, Preview!Keys
  <2>2. state \in [key : Preview!Keys, loading : BOOLEAN, byTopic : {state.byTopic}] BY <2>1 DEF Preview!Init
  <2>3. timer \in BOOLEAN BY DEF Preview!Init, Preview!canSample
  <2> QED BY <2>2, <2>3 DEF Preview!Init, PreviewShapes
<1>2. OfTyped BY DEF Preview!Init, OfTyped, PreviewChosen
<1>3. Sampled BY DEF Preview!Init, Sampled
<1> QED BY <1>1, <1>2, <1>3 DEF PreviewInv

LEMMA PreviewEditStep ==
  ASSUME Preview!TextsFit, PreviewInv, NEW b \in Brokers \cup {Preview!NoBroker}, NEW ts \in PreviewTexts, Preview!Edit(b, ts)
  PROVE  PreviewInv'
<1> USE DEF PreviewInv
<1>1. /\ brokerId' = b /\ topics' = ts /\ asked' = Preview!Idle /\ timer' = Preview!canSample(b, ts)
      /\ subscription' = (IF Preview!canSample(b, ts) THEN subscription ELSE Preview!Idle)
      /\ UNCHANGED <<state, sample, history, live>>
  BY DEF Preview!Edit
<1>2. Preview!canSample(b, ts) \in BOOLEAN BY DEF Preview!canSample
<1>3. PreviewShapes' BY <1>1, <1>2 DEF PreviewShapes
<1>4. PreviewChosen' = Preview!canSample(b, ts) BY <1>1 DEF PreviewChosen
<1>5. OfTyped' BY <1>1, <1>4 DEF OfTyped
<1>6. Sampled' BY <1>1 DEF Sampled
<1> QED BY <1>3, <1>5, <1>6

LEMMA DebouncedStep == ASSUME Preview!TextsFit, PreviewInv, Preview!Debounced PROVE PreviewInv'
<1> USE DEF PreviewInv
<1>1. /\ timer /\ timer' = FALSE /\ subscription' = Preview!currentKey /\ asked' = Preview!currentKey
      /\ UNCHANGED <<brokerId, topics, sample, history, live>>
  BY DEF Preview!Debounced
<1>2. PreviewChosen /\ Preview!currentKey \in Preview!Keys /\ Preview!currentKey \in Brokers \X (PreviewTexts \ {<<>>}) /\ Preview!currentKey' = Preview!currentKey /\ PreviewChosen'
  BY <1>1, KeyFits DEF OfTyped, Preview!currentKey, PreviewChosen
<1>3. /\ state' \in [key : Preview!Keys, loading : BOOLEAN, byTopic : {state'.byTopic}]
      /\ state'.key = Preview!currentKey /\ state'.loading = TRUE
  BY <1>2 DEF Preview!Debounced, PreviewShapes
<1>4. PreviewShapes' BY <1>1, <1>2, <1>3 DEF PreviewShapes
<1>5. OfTyped' BY <1>1, <1>2, <1>3 DEF OfTyped
<1>6. Sampled' BY <1>1 DEF Sampled
<1> QED BY <1>4, <1>5, <1>6

LEMMA PreviewAnsweredStep == ASSUME Preview!TextsFit, PreviewInv, Preview!Answered PROVE PreviewInv'
<1> USE DEF PreviewInv
<1>1. /\ asked # Preview!Idle /\ asked' = Preview!Idle
      /\ UNCHANGED <<brokerId, topics, timer, subscription, sample, history, live>>
  BY DEF Preview!Answered
<1>2. PreviewChosen /\ ~timer /\ asked = Preview!currentKey /\ Preview!currentKey' = Preview!currentKey /\ PreviewChosen' /\ Preview!currentKey \in Preview!Keys
  BY <1>1, KeyFits DEF OfTyped, Preview!currentKey, PreviewChosen
<1>3. PICK failed : state' = Preview!Result(failed) BY DEF Preview!Answered
<1>4. /\ state' \in [key : Preview!Keys, loading : BOOLEAN, byTopic : {state'.byTopic}]
      /\ state'.key = Preview!currentKey
  BY <1>2, <1>3 DEF Preview!Result
<1>5. \A t \in DOMAIN state'.byTopic : state'.byTopic[t] => <<brokerId, t>> \in live
  <2>1. asked[1] = brokerId BY <1>2 DEF Preview!currentKey
  <2>2. state'.byTopic = [t \in Preview!ToSet(asked[2]) |-> Preview!Stored(asked)[t] /\ t \notin failed] BY <1>3 DEF Preview!Result
  <2>3. \A t \in Preview!ToSet(asked[2]) : Preview!Stored(asked)[t] = (<<brokerId, t>> \in history) BY <2>1 DEF Preview!Stored
  <2> QED BY <2>2, <2>3 DEF PreviewShapes
<1>6. PreviewShapes' BY <1>1, <1>4 DEF PreviewShapes
<1>7. OfTyped' BY <1>1, <1>2, <1>4, <1>5 DEF OfTyped
<1>8. Sampled' BY <1>1 DEF Sampled
<1> QED BY <1>6, <1>7, <1>8

LEMMA PreviewMessageStep ==
  ASSUME Preview!TextsFit, PreviewInv, NEW b \in Brokers, NEW t \in PreviewTopics, Preview!onMessage(b, t)
  PROVE  PreviewInv'
<1> USE DEF PreviewInv
<1>1. /\ <<b, t>> \in live /\ Preview!Accepts(b) /\ state.key = Preview!currentKey
      /\ UNCHANGED <<brokerId, topics, timer, asked, subscription, sample, history, live>>
  BY DEF Preview!onMessage
<1>2. Preview!currentKey' = Preview!currentKey /\ PreviewChosen' = PreviewChosen BY <1>1 DEF Preview!currentKey, PreviewChosen
<1>3. /\ state' \in [key : Preview!Keys, loading : BOOLEAN, byTopic : {state'.byTopic}]
      /\ state'.key = state.key /\ state'.loading = state.loading
      /\ state'.byTopic = [u \in DOMAIN state.byTopic \cup {t} |-> u = t \/ state.byTopic[u]]
  BY DEF Preview!onMessage, PreviewShapes
<1>4. PreviewShapes' BY <1>1, <1>3 DEF PreviewShapes
<1>5. ASSUME PreviewChosen, ~timer, ~state.loading
      PROVE  \A u \in DOMAIN state'.byTopic : state'.byTopic[u] => <<brokerId, u>> \in live
  <2>1. subscription = Preview!currentKey /\ Preview!currentKey # Preview!Idle BY <1>5, KeyFits DEF OfTyped
  <2>2. b = brokerId BY <1>1, <2>1 DEF Preview!Accepts, Preview!currentKey
  <2>3. \A u \in DOMAIN state'.byTopic : state'.byTopic[u] = (u = t \/ state.byTopic[u]) BY <1>3
  <2>4. \A u \in DOMAIN state'.byTopic : u = t \/ u \in DOMAIN state.byTopic BY <1>3
  <2> QED BY <1>1, <1>5, <2>2, <2>3, <2>4 DEF OfTyped
<1>6. OfTyped' BY <1>1, <1>2, <1>3, <1>5 DEF OfTyped
<1>7. Sampled' BY <1>1 DEF Sampled
<1> QED BY <1>4, <1>6, <1>7

\* The sample comes, a message is sent, or one is stored.
LEMMA OtherStep ==
  ASSUME Preview!TextsFit, PreviewInv,
         Preview!SampleAnswered \/ (\E b \in Brokers, t \in PreviewTopics : Preview!Publish(b, t)) \/ (\E m \in live : Preview!Write(m))
  PROVE  PreviewInv'
<1> USE DEF PreviewInv
<1>1. /\ UNCHANGED <<brokerId, topics, state, timer, asked, subscription>>
      /\ history \subseteq history' /\ live \subseteq live' /\ history' \subseteq live'
  BY DEF Preview!SampleAnswered, Preview!Publish, Preview!Write, PreviewShapes
<1>2. PreviewShapes' BY <1>1 DEF PreviewShapes
<1>3. Preview!currentKey' = Preview!currentKey /\ PreviewChosen' = PreviewChosen BY <1>1 DEF Preview!currentKey, PreviewChosen
<1>4. OfTyped' BY <1>1, <1>3 DEF OfTyped
<1>5. Sampled'
  <2>1. CASE Preview!SampleAnswered
    <3>1. PICK q \in BOOLEAN : (q => sampleAsked \in history) /\ sample' = [source |-> sampleAsked, payload |-> q]
      BY <2>1 DEF Preview!SampleAnswered
    <3>2. sample'.payload = q /\ sample'.source = sampleAsked BY <3>1
    <3> QED BY <1>1, <3>1, <3>2 DEF Sampled
  <2>2. CASE sample' = sample BY <1>1, <2>2 DEF Sampled
  <2> QED BY <2>1, <2>2 DEF Preview!Publish, Preview!Write
<1> QED BY <1>2, <1>4, <1>5

LEMMA PreviewStepKeeps == ASSUME Preview!TextsFit, PreviewInv, [Preview!Next]_(Preview!vars) PROVE PreviewInv'
<1>1. CASE UNCHANGED Preview!vars BY <1>1 DEF Preview!vars, PreviewInv, PreviewShapes, OfTyped, Sampled, PreviewChosen, Preview!currentKey
<1>2. CASE \E b \in Brokers \union {Preview!NoBroker}, ts \in PreviewTexts : Preview!Edit(b, ts) BY <1>2, PreviewEditStep
<1>3. CASE \E i \in 1..2 : Preview!RemoveChip(i)
  <2>1. PICK i \in 1..2 : Preview!RemoveChip(i) BY <1>3
  <2>2. brokerId \in Brokers \cup {Preview!NoBroker} /\ topics \in PreviewTexts BY DEF PreviewInv, PreviewShapes
  <2>3. Preview!RemoveAt(topics, i) \in PreviewTexts BY <2>1, <2>2 DEF Preview!RemoveChip, Preview!TextsFit
  <2> QED BY <2>1, <2>2, <2>3, PreviewEditStep DEF Preview!RemoveChip
<1>4. CASE Preview!Debounced BY <1>4, DebouncedStep
<1>5. CASE Preview!Answered BY <1>5, PreviewAnsweredStep
<1>6. CASE \E b \in Brokers, t \in PreviewTopics : Preview!onMessage(b, t) BY <1>6, PreviewMessageStep
<1>7. CASE Preview!SampleAnswered \/ (\E b \in Brokers, t \in PreviewTopics : Preview!Publish(b, t)) \/ (\E m \in live : Preview!Write(m))
  BY <1>7, OtherStep
<1> QED BY <1>1, <1>2, <1>3, <1>4, <1>5, <1>6, <1>7 DEF Preview!Next

LEMMA PreviewKept ==
  ASSUME Preview!TextsFit
  PROVE  PreviewRuns => []PreviewInv
<1>1. Preview!Init => PreviewInv BY PreviewStartKeeps
<1>2. PreviewInv /\ [Preview!Next]_(Preview!vars) => PreviewInv' BY PreviewStepKeeps
<1> QED BY <1>1, <1>2, PTL DEF PreviewRuns

(* Whatever was typed, asked and answered before, the topic field calls a  *)
(* topic active only if the typed broker has sent something on it, and     *)
(* offers no sample of another topic (TopicPreview, usePayloadSample).     *)
THEOREM FieldIsTruthful ==
  ASSUME Preview!TextsFit
  PROVE  PreviewRuns => [](Preview!TypeOK /\ Preview!Truthful /\ Preview!SampleFits)
<1>1. ASSUME PreviewInv PROVE Preview!TypeOK /\ Preview!Truthful /\ Preview!SampleFits
  <2> USE <1>1 DEF PreviewInv
  <2>1. Preview!TypeOK BY KeyFits DEF PreviewShapes, Preview!TypeOK
  <2>2. ASSUME ~timer, ~Preview!Shown.loading, NEW t \in DOMAIN Preview!Shown.byTopic, Preview!Shown.byTopic[t]
        PROVE  <<brokerId, t>> \in live
    <3>1. PreviewChosen
      <4>1. ~PreviewChosen => DOMAIN Preview!Shown.byTopic = {} BY DEF Preview!Shown, PreviewChosen, Preview!Blank
      <4> QED BY <2>2, <4>1
    <3>2. state.key = Preview!currentKey BY <3>1, <2>2 DEF OfTyped
    <3>3. Preview!Shown.loading = state.loading /\ Preview!Shown.byTopic = state.byTopic BY <3>1, <3>2 DEF Preview!Shown, PreviewChosen
    <3> QED BY <2>2, <3>1, <3>3 DEF OfTyped
  <2>3. Preview!SampleFits BY DEF Preview!SampleFits, Preview!Offered, Sampled
  <2> QED BY <2>1, <2>2, <2>3 DEF Preview!Truthful
<1> QED BY <1>1, PreviewKept, PTL


-----------------------------------------------------------------------------
(***************************************************************************)
(* The slider (SliderPanel).  OnGrid needs arithmetic on the steps of any  *)
(* range; OneTimer that the pending value and its timer come and go        *)
(* together (SlideWaits); OncePerGesture that a value in hand has not been *)
(* counted yet (Counted).                                                  *)
(***************************************************************************)
(* Its runs, with no fairness assumed. *)
SlideRuns == Slider!Init /\ [][Slider!Next]_(Slider!vars)

OnStep(v) == \E k \in Slider!Steps : 2 * Slider!Apart(v, k) <= Slider!Slack
Grid == {v \in Slider!range.min..Slider!range.max : v = Slider!range.max \/ OnStep(v)}
Handed == SliderReports \cup {Slider!Nothing}
SlideShapes ==
    /\ remote \in Handed /\ frames \in Seq(Handed)
    /\ dragging \in Slider!Positions \cup {Slider!Nothing} /\ focused \in BOOLEAN
    /\ pending \in Grid \cup {Slider!Nothing} /\ unconfirmed \in BOOLEAN /\ error \in BOOLEAN
    /\ typed = <<>> \/ typed \in {<<v>> : v \in Typed \cup SliderReports \cup Grid \cup {Slider!Nothing}}
    /\ history \in {"asked", "done"}
    /\ gestures \in [made : Nat, sent : Nat] /\ steps \in [reports : Nat, remounts : Nat]
    /\ \A p \in posts : p.value \in Grid
SlideWaits ==
    IF pending = Slider!Nothing THEN timers = {} /\ timeoutRef = Slider!None
    ELSE timeoutRef \in {1, 2} /\ timers = {timeoutRef} /\ ~unconfirmed /\ ~error
Counted ==
    /\ ~focused => dragging = Slider!Nothing
    /\ IF dragging = Slider!Nothing THEN gestures.sent <= gestures.made ELSE gestures.sent < gestures.made
SlideInv == SlideShapes /\ SlideWaits /\ Counted

-----------------------------------------------------------------------------
LEMMA AtLeast == \A d \in Nat, m \in Int : (m >= 1 => d * m >= d) /\ (m <= -1 => d * m <= -d)
OBVIOUS
LEMMA Multiple ==
  ASSUME NEW d \in Nat \ {0}, NEW k \in Nat
  PROVE  (k * d) % d = 0
<1> DEFINE q == (k * d) \div d
           r == (k * d) % d
<1>1. q \in Int /\ r \in 0..(d - 1) /\ k * d = d * q + r OBVIOUS
<1>2. d * (k - q) = r BY <1>1
<1>3. ~(k - q >= 1) BY <1>1, <1>2, AtLeast
<1>4. ~(k - q <= -1) BY <1>1, <1>2, AtLeast
<1>5. k - q = 0 BY <1>1, <1>3, <1>4
<1> QED BY <1>2, <1>5

LEMMA LeastNumber ==
  ASSUME NEW S, S \subseteq Nat, S # {}
  PROVE  \E n \in S : \A m \in S : n <= m
<1> DEFINE R == {p \in Nat \X Nat : p[1] < p[2]}
<1>1. IsWellFoundedOn(R, Nat)
  BY NatLessThanWellFounded DEF OpToRel
<1>2. PICK n \in S : \A m \in S : ~(<<m, n>> \in R)
  <2> HIDE DEF R
  <2> QED BY <1>1, WFMin
<1>3. ASSUME NEW m \in S PROVE n <= m
  <2>1. m \in Nat /\ n \in Nat
    OBVIOUS
  <2>2. m < n => <<m, n>> \in R
    BY <2>1
  <2> HIDE DEF R
  <2> QED BY <2>1, <2>2, <1>2
<1> QED BY <1>2, <1>3

\* The range the panel uses can be dragged, whatever was configured.
LEMMA RangeIsProper ==
  ASSUME Slider!NumbersFit
  PROVE  /\ Slider!range.min = Low /\ Slider!range.min \in Int /\ Slider!range.max \in Int /\ Slider!range.min < Slider!range.max
         /\ Slider!range.step \in Nat \ {0}
BY DEF Slider!NumbersFit, Slider!range, Slider!normalizeRange, Slider!One

LEMMA SlackCounts ==
  ASSUME Slider!NumbersFit
  PROVE  /\ Slider!Grain(Slider!range.step) \in {1, 10, 100} /\ Slider!range.step % Slider!Grain(Slider!range.step) = 0
         /\ Slider!Slack \in Nat
<1>1. Slider!range.step \in Nat \ {0} BY RangeIsProper
<1>2. Slider!range.step % 1 = 0 BY <1>1
<1>3. /\ Slider!Grain(Slider!range.step) \in {1, 10, 100}
      /\ Slider!range.step % Slider!Grain(Slider!range.step) = 0
  BY <1>1, <1>2 DEF Slider!Grain, Slider!One
<1> QED BY <1>3 DEF Slider!Slack

LEMMA GridFits ==
  ASSUME Slider!NumbersFit
  PROVE  /\ Slider!Positions \subseteq Grid /\ Grid \subseteq Int /\ Slider!Nothing \in Int /\ Slider!Nothing \notin Grid
         /\ Slider!range.min \in Slider!Positions /\ Slider!range.max \in Grid
         /\ Grid \subseteq Slider!range.min..Slider!range.max
<1> USE RangeIsProper
<1>1. Grid \subseteq Int /\ Grid \subseteq Slider!range.min..Slider!range.max /\ Slider!range.max \in Grid
  <2> HIDE DEF OnStep
  <2> QED BY DEF Grid
<1>2. Slider!Nothing \in Int /\ Slider!Nothing < Slider!range.min BY DEF Slider!Nothing, Slider!NumbersFit
<1>3. Slider!range.min - Slider!range.min = 0 * Slider!range.step OBVIOUS
<1>4. Slider!range.min \in Slider!Positions
  <2>1. (0 * Slider!range.step) % Slider!range.step = 0 BY Multiple
  <2> QED BY <2>1, <1>3 DEF Slider!Positions
<1>5. ASSUME NEW v \in Slider!Positions PROVE v \in Grid
  <2>1. v \in Int /\ v \in Slider!range.min..Slider!range.max /\ v \in Slider!Steps BY DEF Slider!Positions, Slider!Steps
  <2>2. Slider!Apart(v, v) = 0 BY <2>1 DEF Slider!Apart
  <2>3. 2 * Slider!Apart(v, v) <= Slider!Slack BY <2>2, SlackCounts
  <2> QED BY <2>1, <2>3 DEF Grid, OnStep
<1> QED BY <1>1, <1>2, <1>4, <1>5

LEMMA Divided ==
  ASSUME NEW a \in Int, NEW b \in Nat \ {0}
  PROVE  a \div b \in Int /\ b * (a \div b) <= a /\ a < b * (a \div b) + b /\ (a >= 0 => a \div b >= 0)
OBVIOUS

\* The nearest step is at most half a step away.
LEMMA RoundedCounts ==
  ASSUME NEW n \in Nat, NEW d \in Nat \ {0}
  PROVE  Slider!Rounded(n, d) \in Nat /\ 2 * (Slider!Rounded(n, d) * d) <= 2 * n + d
<1>1. PICK a \in Nat, b \in Nat \ {0} : a = 2 * n + d /\ b = 2 * d OBVIOUS
<1>2. PICK k : k = Slider!Rounded(n, d) OBVIOUS
<1>3. k = a \div b BY <1>1, <1>2 DEF Slider!Rounded
<1>4. k \in Nat /\ b * k <= a BY <1>3, Divided
<1>5. b * k = 2 * (k * d) BY <1>1, <1>4
<1> QED BY <1>1, <1>2, <1>4, <1>5

\* toFixed moves a number by half a unit at most, and not one of that many decimals.
LEMMA FixedIsNear ==
  ASSUME NEW x \in Int, NEW unit \in {1, 10, 100}
  PROVE  /\ Slider!Fixed(x, unit) \in Int /\ 2 * Slider!Apart(Slider!Fixed(x, unit), x) <= unit
         /\ x % unit = 0 => Slider!Fixed(x, unit) = x
<1>1. CASE unit = 1 BY <1>1 DEF Slider!Fixed, Slider!Rounded, Slider!Apart
<1>2. CASE unit = 10 BY <1>2 DEF Slider!Fixed, Slider!Rounded, Slider!Apart
<1>3. CASE unit = 100 BY <1>3 DEF Slider!Fixed, Slider!Rounded, Slider!Apart
<1> QED BY <1>1, <1>2, <1>3

\* A low end and a step with no more decimals than the unit has make steps of the kind.
InUnits(x, unit) == x % unit = 0
LEMMA StepsKeepDecimals ==
  ASSUME NEW x \in Int, NEW d \in Nat, NEW k \in Nat, NEW m \in Nat, m = k * d,
         NEW unit \in {1, 10, 100}, InUnits(x, unit), InUnits(d, unit)
  PROVE  InUnits(x + m, unit)
<1>0. x % unit = 0 /\ d % unit = 0 BY DEF InUnits
<1>1. PICK y \in Int, e \in Int : x = unit * y /\ d = unit * e
  <2>1. x = unit * (x \div unit) /\ x \div unit \in Int
    <3>1. CASE unit = 1 BY <1>0, <3>1
    <3>2. CASE unit = 10 BY <1>0, <3>2
    <3>3. CASE unit = 100 BY <1>0, <3>3
    <3> QED BY <3>1, <3>2, <3>3
  <2>2. d = unit * (d \div unit) /\ d \div unit \in Int
    <3>1. CASE unit = 1 BY <1>0, <3>1
    <3>2. CASE unit = 10 BY <1>0, <3>2
    <3>3. CASE unit = 100 BY <1>0, <3>3
    <3> QED BY <3>1, <3>2, <3>3
  <2> QED BY <2>1, <2>2
<1>2. PICK n \in Int : n = k * e OBVIOUS
<1>3. m = unit * n
  <2>1. k * d = k * (unit * e) BY <1>1
  <2>2. k * (unit * e) = unit * (k * e) OBVIOUS
  <2> QED BY <1>2, <2>1, <2>2
<1>4. x + m = unit * y + unit * n BY <1>1, <1>3
<1>5. CASE unit = 1 BY <1>4, <1>5 DEF InUnits
<1>6. CASE unit = 10 BY <1>4, <1>6 DEF InUnits
<1>7. CASE unit = 100 BY <1>4, <1>7 DEF InUnits
<1> QED BY <1>5, <1>6, <1>7

\* What is published lies in the range, at its high end or near a step.
LEMMA SnappedFits ==
  ASSUME Slider!NumbersFit, NEW v \in Int
  PROVE  Slider!Snapped(v) \in Grid
<1> USE RangeIsProper
<1>1. CASE v <= Slider!range.min BY <1>1, GridFits DEF Slider!Snapped, Slider!clampToRange
<1>2. CASE v >= Slider!range.max BY <1>2, GridFits DEF Slider!Snapped, Slider!clampToRange
<1>3. CASE v > Slider!range.min /\ v < Slider!range.max
  <2>1. PICK k \in Nat : /\ k = Slider!Rounded(v - Slider!range.min, Slider!range.step)
                         /\ 2 * (k * Slider!range.step) <= 2 * (v - Slider!range.min) + Slider!range.step
    <3>1. v - Slider!range.min \in Nat BY <1>3
    <3> QED BY <3>1, RoundedCounts
  <2>2. PICK m \in Nat : m = k * Slider!range.step
    <3>1. k * Slider!range.step \in Nat OBVIOUS
    <3> QED BY <3>1
  <2>3. m % Slider!range.step = 0 BY <2>2, Multiple
  <2>4. PICK x \in Int : x = Slider!range.min + m OBVIOUS
  <2>5. x \in Slider!Steps
    <3>1. 2 * m <= 2 * (v - Slider!range.min) + Slider!range.step BY <2>1, <2>2
    <3>2. x \in Slider!range.min..(Slider!range.max + Slider!range.step) BY <1>3, <2>4, <3>1
    <3>3. x - Slider!range.min = m BY <2>4
    <3> QED BY <2>3, <3>2, <3>3 DEF Slider!Steps
  <2>6. PICK unit \in {1, 10, 100} : unit = Slider!Grain(Slider!range.step) BY SlackCounts
  <2>7. PICK y \in Int : /\ y = Slider!Fixed(x, unit) /\ 2 * Slider!Apart(y, x) <= unit
                         /\ x % unit = 0 => y = x
    BY FixedIsNear
  <2>8. 2 * Slider!Apart(y, x) <= Slider!Slack
    <3>1. CASE Slider!range.min % unit = 0
      <4>1. Slider!range.step % unit = 0 BY <2>6, SlackCounts
      <4>2. x % unit = 0
        <5>1. PICK a \in Int, d \in Nat : a = Slider!range.min /\ d = Slider!range.step OBVIOUS
        <5>2. InUnits(a, unit) /\ InUnits(d, unit) BY <3>1, <4>1, <5>1 DEF InUnits
        <5>3. m = k * d BY <2>2, <5>1
        <5>4. InUnits(a + m, unit) BY <5>2, <5>3, StepsKeepDecimals
        <5> QED BY <2>4, <5>1, <5>4 DEF InUnits
      <4>3. Slider!Apart(y, x) = 0 BY <2>7, <4>2 DEF Slider!Apart
      <4> QED BY <4>3, SlackCounts
    <3>2. CASE Slider!range.min % unit # 0 BY <2>6, <2>7, <3>2 DEF Slider!Slack
    <3> QED BY <3>1, <3>2
  <2>9. Slider!Snapped(v) = IF y < Slider!range.min THEN Slider!range.min ELSE IF y > Slider!range.max THEN Slider!range.max ELSE y
    BY <1>3, <2>1, <2>2, <2>4, <2>6, <2>7 DEF Slider!Snapped, Slider!clampToRange
  <2>10. OnStep(y) BY <2>5, <2>8 DEF OnStep
  <2> QED BY <2>9, <2>10, GridFits DEF Grid
<1> QED BY <1>1, <1>2, <1>3

LEMMA ApartCounts ==
  ASSUME NEW a \in Int, NEW b \in Int
  PROVE  Slider!Apart(a, b) \in Nat /\ (a = b + Slider!Apart(a, b) \/ a = b - Slider!Apart(a, b))
BY DEF Slider!Apart

\* The handle always finds a step to stand on.
LEMMA NearestFits ==
  ASSUME Slider!NumbersFit, NEW v \in Int
  PROVE  Slider!Nearest(v) \in Slider!Positions
<1> DEFINE Closest(p) == \A q \in Slider!Positions : Slider!Apart(p, v) < Slider!Apart(q, v) \/ (Slider!Apart(p, v) = Slider!Apart(q, v) /\ q <= p)
           S == {Slider!Apart(p, v) : p \in Slider!Positions}
<1>1. Slider!Positions \subseteq Int /\ Slider!range.min \in Slider!Positions BY GridFits
<1>2. S \subseteq Nat /\ S # {} BY <1>1, ApartCounts
<1>3. PICK d \in S : \A m \in S : d <= m
  <2> HIDE DEF S
  <2> QED BY <1>2, LeastNumber
<1>4. \A q \in Slider!Positions : d <= Slider!Apart(q, v) /\ Slider!Apart(q, v) \in Nat BY <1>2, <1>3
<1>5. d \in Nat BY <1>2, <1>3
<1>6. \A q \in Slider!Positions : Slider!Apart(q, v) = d => q = v + d \/ q = v - d BY <1>1, ApartCounts
<1>7. \E p \in Slider!Positions : Closest(p)
  <2>1. CASE v + d \in Slider!Positions
    <3>1. Slider!Apart(v + d, v) = d BY <1>5 DEF Slider!Apart
    <3>2. Closest(v + d)
      <4> SUFFICES ASSUME NEW q \in Slider!Positions
                   PROVE  Slider!Apart(v + d, v) < Slider!Apart(q, v) \/ (Slider!Apart(v + d, v) = Slider!Apart(q, v) /\ q <= v + d)
        OBVIOUS
      <4> QED BY <1>4, <1>5, <1>6, <3>1
    <3> QED BY <2>1, <3>2
  <2>2. CASE v + d \notin Slider!Positions
    <3>1. PICK p \in Slider!Positions : Slider!Apart(p, v) = d BY <1>3
    <3>2. p = v - d BY <3>1, <2>2, <1>6
    <3>3. Closest(p)
      <4> SUFFICES ASSUME NEW q \in Slider!Positions
                   PROVE  Slider!Apart(p, v) < Slider!Apart(q, v) \/ (Slider!Apart(p, v) = Slider!Apart(q, v) /\ q <= p)
        OBVIOUS
      <4>1. Slider!Apart(q, v) = d => q = p BY <3>2, <2>2, <1>6
      <4>2. p \in Int BY <1>1
      <4> QED BY <1>4, <1>5, <3>1, <4>1, <4>2
    <3> QED BY <3>3
  <2> QED BY <2>1, <2>2
<1>8. Closest(CHOOSE p \in Slider!Positions : Closest(p)) /\ (CHOOSE p \in Slider!Positions : Closest(p)) \in Slider!Positions
  <2> HIDE DEF Closest
  <2> QED BY <1>7
<1> QED BY <1>8 DEF Slider!Nearest

-----------------------------------------------------------------------------
LEMMA HandFits ==
  ASSUME Slider!NumbersFit, SlideShapes
  PROVE  Slider!displayed \in Handed \cup Grid /\ Slider!displayed \in Int /\ Slider!handlePosition \in Slider!Positions /\ Slider!handlePosition \in Int
<1>1. Slider!displayed \in Handed \cup Grid BY GridFits DEF SlideShapes, Slider!displayed, Handed
<1>2. Slider!displayed \in Int BY <1>1, GridFits DEF Handed, Slider!NumbersFit
<1>3. Slider!handlePosition \in Slider!Positions BY <1>2, GridFits, NearestFits DEF Slider!handlePosition
<1> QED BY <1>1, <1>2, <1>3, GridFits

\* A committed value is on the grid and waits with its own timer.
LEMMA CommitStep ==
  ASSUME Slider!NumbersFit, SlideShapes, SlideWaits, NEW raw \in Int, NEW adjustments \in Nat, Slider!commit(raw, adjustments)
  PROVE  /\ pending' \in Grid /\ SlideWaits' /\ unconfirmed' = FALSE /\ error' = FALSE /\ \A p \in posts' : p.value \in Grid
         /\ gestures' \in [made : Nat, sent : Nat]
         /\ gestures'.made = gestures.made + adjustments /\ gestures'.sent = gestures.sent + 1
<1>1. Slider!Snapped(raw) \in Grid BY SnappedFits
<1>2. pending' \in Grid /\ pending' # Slider!Nothing /\ unconfirmed' = FALSE /\ error' = FALSE
  BY <1>1, GridFits DEF Slider!commit
<1>3. Slider!Cleared = {} BY DEF SlideWaits, Slider!Cleared
<1>4. timeoutRef' \in {1, 2} /\ timers' = {timeoutRef'} BY <1>3 DEF Slider!commit
<1>5. \A p \in posts' : p.value \in Grid BY <1>1 DEF Slider!commit, SlideShapes
<1>6. /\ gestures' \in [made : Nat, sent : Nat]
      /\ gestures'.made = gestures.made + adjustments /\ gestures'.sent = gestures.sent + 1
  BY DEF Slider!commit, SlideShapes
<1> QED BY <1>2, <1>4, <1>5, <1>6 DEF SlideWaits

\* A report that has a number in it ends the wait.
LEMMA SlideApplyStep ==
  ASSUME Slider!NumbersFit, SlideShapes, SlideWaits, NEW v \in Handed, Slider!Apply(v)
  PROVE  /\ remote' \in Handed /\ pending' \in Grid \cup {Slider!Nothing} /\ unconfirmed' \in BOOLEAN /\ error' \in BOOLEAN
         /\ SlideWaits'
<1>1. CASE v = Slider!Nothing BY <1>1 DEF Slider!Apply, Slider!flip, SlideShapes, SlideWaits
<1>2. CASE v # Slider!Nothing /\ pending = Slider!Nothing BY <1>2 DEF Slider!Apply, Slider!flip, SlideShapes, SlideWaits
<1>3. CASE v # Slider!Nothing /\ pending # Slider!Nothing
  <2>1. Slider!Cleared = {} BY DEF SlideWaits, Slider!Cleared
  <2>2. Slider!Tolerated(v) \in BOOLEAN BY DEF Slider!Tolerated
  <2> QED BY <1>3, <2>1, <2>2 DEF Slider!Apply, SlideShapes, SlideWaits
<1> QED BY <1>1, <1>2, <1>3

LEMMA SlideStart == ASSUME Slider!NumbersFit, Slider!Init PROVE SlideInv
<1>1. SlideShapes
  <2>1. frames \in Seq(Handed) BY DEF Slider!Init
  <2>2. gestures \in [made : Nat, sent : Nat] /\ steps \in [reports : Nat, remounts : Nat] BY DEF Slider!Init
  <2>3. remote \in Handed /\ \A p \in posts : p.value \in Grid BY DEF Slider!Init, Handed
  <2> QED BY <2>1, <2>2, <2>3 DEF Slider!Init, SlideShapes
<1>2. SlideWaits BY DEF Slider!Init, SlideWaits
<1>3. Counted BY DEF Slider!Init, Counted
<1> QED BY <1>1, <1>2, <1>3 DEF SlideInv

LEMMA SlideMessageStep == ASSUME Slider!NumbersFit, SlideInv, Slider!OnMessage PROVE SlideInv'
<1> USE DEF SlideInv
<1>1. Head(frames) \in Handed /\ Tail(frames) \in Seq(Handed) BY DEF Slider!OnMessage, SlideShapes
<1>2. /\ remote' \in Handed /\ pending' \in Grid \cup {Slider!Nothing} /\ unconfirmed' \in BOOLEAN /\ error' \in BOOLEAN
      /\ SlideWaits'
  BY <1>1, SlideApplyStep DEF Slider!OnMessage
<1>3. SlideShapes' BY <1>1, <1>2 DEF Slider!OnMessage, SlideShapes, Slider!hand
<1>4. Counted' BY DEF Slider!OnMessage, Counted, Slider!hand
<1> QED BY <1>2, <1>3, <1>4

LEMMA SlideHistoryStep == ASSUME Slider!NumbersFit, SlideInv, NEW v \in Handed, Slider!OnHistory(v) PROVE SlideInv'
<1> USE DEF SlideInv
<1>1. /\ remote' \in Handed /\ pending' \in Grid \cup {Slider!Nothing} /\ unconfirmed' \in BOOLEAN /\ error' \in BOOLEAN
      /\ SlideWaits'
  BY SlideApplyStep DEF Slider!OnHistory
<1>2. SlideShapes' BY <1>1 DEF Slider!OnHistory, SlideShapes, Slider!hand
<1>3. Counted' BY DEF Slider!OnHistory, Counted, Slider!hand
<1> QED BY <1>1, <1>2, <1>3

LEMMA SlideReportStep == ASSUME Slider!NumbersFit, SlideInv, NEW v \in Handed, Slider!Report(v) PROVE SlideInv'
<1> USE DEF SlideInv
<1>1. Append(frames, v) \in Seq(Handed) BY DEF SlideShapes
<1>2. frames' \in Seq(Handed) /\ steps' \in [reports : Nat, remounts : Nat] BY <1>1 DEF Slider!Report, SlideShapes
<1>3. UNCHANGED <<remote, Slider!hand, Slider!flip, history, posts, gestures>> BY DEF Slider!Report
<1>4. SlideShapes' BY <1>2, <1>3 DEF SlideShapes, Slider!hand, Slider!flip
<1>5. SlideWaits' /\ Counted' BY <1>3 DEF SlideWaits, Counted, Slider!hand, Slider!flip
<1> QED BY <1>4, <1>5

LEMMA DragStep == ASSUME Slider!NumbersFit, SlideInv, NEW v \in Slider!Positions, Slider!Drag(v) PROVE SlideInv'
<1> USE DEF SlideInv
<1>1. UNCHANGED <<remote, typed, focused, Slider!flip, Slider!wire, posts, steps>> /\ dragging' = v /\ focused /\ v # Slider!Nothing
  BY GridFits DEF Slider!Drag
<1>2. /\ gestures' \in [made : Nat, sent : Nat] /\ gestures'.sent = gestures.sent
      /\ gestures'.made = IF dragging = Slider!Nothing THEN gestures.made + 1 ELSE gestures.made
  BY DEF Slider!Drag, SlideShapes
<1>3. SlideShapes' BY <1>1, <1>2 DEF SlideShapes, Slider!flip, Slider!wire
<1>4. SlideWaits' BY <1>1 DEF SlideWaits, Slider!flip
<1>5. gestures.made \in Nat /\ gestures.sent \in Nat BY DEF SlideShapes
<1>6. Counted' BY <1>1, <1>2, <1>5 DEF Counted
<1> QED BY <1>3, <1>4, <1>6

\* The pointer goes up, a key goes up, the handle loses the focus in a drag,
\* or an entry is confirmed: one adjustment, one message.
LEMMA LetGo ==
  ASSUME Slider!NumbersFit, SlideInv, NEW raw \in Int, NEW adjustments \in Nat, Slider!commit(raw, adjustments),
         adjustments = 0 => dragging # Slider!Nothing,
         dragging' = Slider!Nothing, UNCHANGED <<remote, frames, history, steps>>, focused' \in BOOLEAN,
         typed' = typed \/ typed' = <<>>
  PROVE  SlideInv'
<1> USE DEF SlideInv
<1>1. /\ pending' \in Grid /\ SlideWaits' /\ unconfirmed' = FALSE /\ error' = FALSE /\ \A p \in posts' : p.value \in Grid
      /\ gestures' \in [made : Nat, sent : Nat]
      /\ gestures'.made = gestures.made + adjustments /\ gestures'.sent = gestures.sent + 1
  BY CommitStep
<1>2. SlideShapes' BY <1>1 DEF SlideShapes
<1>3. gestures.made \in Nat /\ gestures.sent \in Nat BY DEF SlideShapes
<1>4. gestures'.sent <= gestures'.made BY <1>1, <1>3 DEF Counted
<1>5. Counted' BY <1>4 DEF Counted
<1> QED BY <1>1, <1>2, <1>5

\* What changes nothing but the focus and the readout.
LEMMA HandStep ==
  ASSUME Slider!NumbersFit, SlideInv, UNCHANGED <<remote, dragging, Slider!flip, Slider!wire, posts, gestures, steps>>, focused' \in BOOLEAN,
         typed' = typed \/ typed' = <<>> \/ typed' \in {<<v>> : v \in Typed \cup SliderReports \cup Grid \cup {Slider!Nothing}},
         ~focused' => dragging = Slider!Nothing
  PROVE  SlideInv'
<1> USE DEF SlideInv
<1>1. SlideShapes' BY DEF SlideShapes, Slider!flip, Slider!wire
<1>2. SlideWaits' /\ Counted' BY DEF SlideWaits, Counted, Slider!flip
<1> QED BY <1>1, <1>2

LEMMA HandleStep ==
  ASSUME Slider!NumbersFit, SlideInv, Slider!Focus \/ Slider!PointerUp \/ Slider!KeyUp \/ Slider!Blur
  PROVE  SlideInv'
<1> USE DEF SlideInv
<1>0. Slider!handlePosition \in Int /\ focused \in BOOLEAN BY HandFits DEF SlideShapes
<1>1. CASE Slider!Focus BY <1>1, HandStep DEF Slider!Focus
<1>2. CASE Slider!PointerUp
  <2>1. CASE dragging = Slider!Nothing BY <1>0, <1>2, <2>1, LetGo DEF Slider!PointerUp, Slider!wire
  <2>2. CASE dragging # Slider!Nothing BY <1>0, <1>2, <2>2, LetGo DEF Slider!PointerUp, Slider!wire
  <2> QED BY <2>1, <2>2
<1>3. CASE Slider!KeyUp BY <1>0, <1>3, LetGo DEF Slider!KeyUp, Slider!wire
<1>4. CASE Slider!Blur
  <2>1. CASE dragging = Slider!Nothing BY <1>4, <2>1, HandStep DEF Slider!Blur, Slider!AfterBlur
  <2>2. CASE dragging # Slider!Nothing BY <1>0, <1>4, <2>2, LetGo DEF Slider!Blur, Slider!AfterBlur, Slider!wire
  <2> QED BY <2>1, <2>2
<1> QED BY <1>1, <1>2, <1>3, <1>4

LEMMA ReadoutStep ==
  ASSUME Slider!NumbersFit, SlideInv, Slider!EditReadout \/ Slider!Escape \/ Slider!commitTyped \/ \E text \in Typed \cup {Slider!Nothing} : Slider!Type(text)
  PROVE  SlideInv'
<1> USE DEF SlideInv
<1>0. focused \in BOOLEAN /\ (~focused => dragging = Slider!Nothing) BY DEF SlideShapes, Counted
<1>1. CASE Slider!EditReadout
  <2>1. Slider!displayed \in Handed \cup Grid /\ Slider!range.min \in Grid BY HandFits, GridFits
  <2>2. typed' \in {<<v>> : v \in Typed \cup SliderReports \cup Grid \cup {Slider!Nothing}} BY <1>1, <2>1 DEF Slider!EditReadout, Handed
  <2> QED BY <1>0, <1>1, <2>2, HandStep DEF Slider!EditReadout
<1>2. CASE Slider!Escape BY <1>0, <1>2, HandStep DEF Slider!Escape
<1>3. CASE Slider!commitTyped
  <2>1. typed[1] \in Int BY <1>3, GridFits DEF SlideShapes, Slider!commitTyped, Slider!NumbersFit
  <2>2. CASE typed[1] = Slider!Nothing BY <1>0, <1>3, <2>2, HandStep DEF Slider!commitTyped
  <2>3. CASE typed[1] # Slider!Nothing
    <3>1. Slider!commit(typed[1], 1) /\ dragging' = Slider!Nothing /\ typed' = <<>> BY <1>3, <2>3 DEF Slider!commitTyped
    <3>2. UNCHANGED <<remote, frames, history, steps, focused>> BY <1>3 DEF Slider!commitTyped, Slider!wire
    <3> QED BY <1>0, <2>1, <3>1, <3>2, LetGo
  <2> QED BY <2>2, <2>3
<1>4. ASSUME NEW text \in Typed \cup {Slider!Nothing}, Slider!Type(text) PROVE SlideInv'
  <2>1. typed' \in {<<v>> : v \in Typed \cup SliderReports \cup Grid \cup {Slider!Nothing}} BY <1>4 DEF Slider!Type
  <2> QED BY <1>0, <1>4, <2>1, HandStep DEF Slider!Type
<1> QED BY <1>1, <1>2, <1>3, <1>4

LEMMA SlideAnsweredStep ==
  ASSUME Slider!NumbersFit, SlideInv, NEW p \in posts, NEW ok \in BOOLEAN, Slider!Answered(p, ok)
  PROVE  SlideInv'
<1> USE DEF SlideInv
<1>1. posts' \subseteq posts /\ UNCHANGED <<remote, Slider!hand, Slider!wire, gestures, steps>> BY DEF Slider!Answered
<1>2. Slider!Cleared = {} BY DEF SlideWaits, Slider!Cleared
<1>3. /\ pending' \in Grid \cup {Slider!Nothing} /\ unconfirmed' \in BOOLEAN /\ error' \in BOOLEAN /\ SlideWaits'
  <2>1. CASE ok \/ ~p.own BY <2>1 DEF Slider!Answered, Slider!flip, SlideShapes, SlideWaits
  <2>2. CASE ~(ok \/ ~p.own) BY <1>2, <2>2 DEF Slider!Answered, Slider!Unmarked, SlideShapes, SlideWaits
  <2> QED BY <2>1, <2>2
<1>4. SlideShapes' BY <1>1, <1>3 DEF SlideShapes, Slider!hand, Slider!wire
<1>5. Counted' BY <1>1 DEF Counted, Slider!hand
<1> QED BY <1>3, <1>4, <1>5

LEMMA SlideTimeoutStep == ASSUME Slider!NumbersFit, SlideInv, NEW t \in timers, Slider!Timeout(t) PROVE SlideInv'
<1> USE DEF SlideInv
<1>1. timers' = {} BY DEF Slider!Timeout, SlideWaits
<1>2. pending' = Slider!Nothing /\ timeoutRef' = Slider!None BY DEF Slider!Timeout, Slider!AfterTimeout
<1>3. UNCHANGED <<remote, Slider!hand, error, Slider!wire, posts, gestures, steps>> /\ unconfirmed' = TRUE BY DEF Slider!Timeout
<1>4. SlideShapes' BY <1>2, <1>3 DEF SlideShapes, Slider!hand, Slider!wire
<1>5. SlideWaits' BY <1>1, <1>2 DEF SlideWaits
<1>6. Counted' BY <1>3 DEF Counted, Slider!hand
<1> QED BY <1>4, <1>5, <1>6

LEMMA RemountStep == ASSUME Slider!NumbersFit, SlideInv, Slider!Remount PROVE SlideInv'
<1> USE DEF SlideInv
<1>1. /\ remote' = Slider!Nothing /\ dragging' = Slider!Nothing /\ pending' = Slider!Nothing /\ unconfirmed' = FALSE /\ error' = FALSE
      /\ typed' = <<>> /\ focused' = FALSE /\ timers' = {} /\ timeoutRef' = Slider!None
      /\ frames' = <<>> /\ history' = "asked" /\ gestures' = gestures
  BY DEF Slider!Remount, SlideWaits, Slider!Cleared
<1>2. \A p \in posts' : p.value \in Grid
  <2>1. \A p \in posts : [p EXCEPT !.own = FALSE].value = p.value OBVIOUS
  <2> QED BY <2>1 DEF Slider!Remount, SlideShapes
<1>3. frames' \in Seq(Handed) /\ steps' \in [reports : Nat, remounts : Nat] BY <1>1 DEF Slider!Remount, SlideShapes
<1>4. SlideShapes'
  <2> USE DEF SlideShapes, Handed
  <2> QED BY <1>1, <1>2, <1>3
<1>5. SlideWaits' BY <1>1 DEF SlideWaits
<1>6. gestures.made \in Nat /\ gestures.sent \in Nat BY DEF SlideShapes
<1>7. Counted' BY <1>1, <1>6 DEF Counted
<1> QED BY <1>4, <1>5, <1>7

LEMMA SlideStutter == ASSUME SlideInv, UNCHANGED Slider!vars PROVE SlideInv'
BY DEF SlideInv, SlideShapes, SlideWaits, Counted, Slider!vars, Slider!hand, Slider!flip, Slider!wire

LEMMA SlideStepKeeps == ASSUME Slider!NumbersFit, SlideInv, [Slider!Next]_(Slider!vars) PROVE SlideInv'
<1>1. CASE UNCHANGED Slider!vars BY <1>1, SlideStutter
<1>2. CASE Slider!OnMessage BY <1>2, SlideMessageStep
<1>3. CASE \E v \in SliderReports \cup {Slider!Nothing} : Slider!OnHistory(v) \/ Slider!Report(v) BY <1>3, SlideHistoryStep, SlideReportStep DEF Handed
<1>4. CASE Slider!Focus \/ Slider!PointerUp \/ Slider!KeyUp \/ Slider!Blur BY <1>4, HandleStep
<1>5. CASE \E v \in Slider!Positions : Slider!Drag(v) BY <1>5, DragStep
<1>6. CASE Slider!EditReadout \/ Slider!Escape \/ Slider!commitTyped \/ \E text \in Typed \cup {Slider!Nothing} : Slider!Type(text)
  BY <1>6, ReadoutStep
<1>7. CASE \E p \in posts, ok \in BOOLEAN : Slider!Answered(p, ok) BY <1>7, SlideAnsweredStep
<1>8. CASE \E t \in timers : Slider!Timeout(t) BY <1>8, SlideTimeoutStep
<1>9. CASE Slider!Remount BY <1>9, RemountStep
<1> QED BY <1>1, <1>2, <1>3, <1>4, <1>5, <1>6, <1>7, <1>8, <1>9 DEF Slider!Next

-----------------------------------------------------------------------------
LEMMA SlideKept ==
  ASSUME Slider!NumbersFit
  PROVE  SlideRuns => []SlideInv
<1>1. Slider!Init => SlideInv BY SlideStart
<1>2. SlideInv /\ [Slider!Next]_(Slider!vars) => SlideInv' BY SlideStepKeeps
<1> QED BY <1>1, <1>2, PTL DEF SlideRuns

(* The slider's values have their types, the value that waits among the    *)
(* positions of its range (SliderPanel.tsx).                               *)
THEOREM SliderTypeHolds ==
  ASSUME Slider!NumbersFit
  PROVE  SlideRuns => []Slider!TypeOK
<1>1. ASSUME SlideInv PROVE Slider!TypeOK
  <2>1. Grid \subseteq Slider!range.min..Slider!range.max BY GridFits
  <2>2. typed = <<>> \/ typed[1] \in Typed \cup SliderReports \cup (Slider!range.min..Slider!range.max) \cup {Slider!Nothing}
    <3>1. typed = <<>> \/ typed[1] \in Typed \cup SliderReports \cup Grid \cup {Slider!Nothing} BY <1>1 DEF SlideInv, SlideShapes
    <3> QED BY <2>1, <3>1
  <2>3. timeoutRef \in {Slider!None, 1, 2} /\ timers \subseteq {1, 2} BY <1>1 DEF SlideInv, SlideWaits
  <2> QED BY <1>1, <2>1, <2>2, <2>3 DEF SlideInv, SlideShapes, Slider!TypeOK, Handed
<1> QED BY <1>1, SlideKept, PTL

(* For any range and any reports, a value waits with exactly the one timer *)
(* that the panel would clear, and none runs when none waits: sendValue,   *)
(* the confirmation, the timeout and the unmount of SliderPanel.tsx all    *)
(* keep timeoutRef and the timers alike.                                   *)
THEOREM SliderOneTimerHolds ==
  ASSUME Slider!NumbersFit
  PROVE  SlideRuns => []Slider!OneTimer
<1>1. SlideInv => Slider!OneTimer BY DEF SlideInv, SlideWaits, Slider!OneTimer
<1> QED BY <1>1, SlideKept, PTL

(* For any configured range of two decimals at most, a reversed or a       *)
(* negative one included, and any text that is typed, what a slider        *)
(* publishes is in its range and is its high end or a step; when its low   *)
(* end has decimals that the step has not, it is as far from a step as     *)
(* rounding those away takes it (normalizeRange and clampToRange,          *)
(* sliderUtils.ts).                                                        *)
THEOREM OnGridHolds ==
  ASSUME Slider!NumbersFit
  PROVE  SlideRuns => []Slider!OnGrid
<1>1. SlideInv => Slider!OnGrid BY DEF SlideInv, SlideShapes, Slider!OnGrid, Grid, OnStep
<1> QED BY <1>1, SlideKept, PTL

(* However the pointer, the keys and the focus events of one adjustment    *)
(* follow each other, it is published once at most (commit,                *)
(* SliderPanel.tsx).                                                       *)
THEOREM OncePerGestureHolds ==
  ASSUME Slider!NumbersFit
  PROVE  SlideRuns => []Slider!OncePerGesture
<1>1. SlideInv => Slider!OncePerGesture
  BY DEF SlideInv, SlideShapes, Counted, Slider!OncePerGesture
<1> QED BY <1>1, SlideKept, PTL

(* A value stops waiting without a warning only when a report close to it  *)
(* has come (the effect on confirmed values, SliderPanel.tsx).             *)
THEOREM SliderEndsWellHolds ==
  ASSUME Slider!NumbersFit
  PROVE  SlideRuns => [][Slider!EndsWell]_(Slider!vars)
<1>1. ASSUME SlideInv, Slider!Next PROVE Slider!EndsWell
  <2> USE <1>1 DEF Slider!EndsWell, SlideInv
  <2>1. ASSUME NEW v \in Handed, Slider!Apply(v) PROVE Slider!EndsWell
    <3>1. CASE v = Slider!Nothing BY <2>1, <3>1 DEF Slider!Apply, Slider!flip
    <3>2. CASE v # Slider!Nothing BY <2>1, <3>2 DEF Slider!Apply, Slider!flip, Slider!Tolerated
    <3> QED BY <3>1, <3>2
  <2>2. ASSUME NEW raw \in Int, NEW adjustments \in Nat, Slider!commit(raw, adjustments) PROVE Slider!EndsWell
    BY <2>2, CommitStep, GridFits
  <2>3. UNCHANGED Slider!flip => Slider!EndsWell BY DEF Slider!flip
  <2>4. Slider!handlePosition \in Int BY HandFits
  <2>5. CASE Slider!OnMessage
    <3>1. Head(frames) \in Handed BY <2>5 DEF Slider!OnMessage, SlideShapes
    <3> QED BY <2>1, <2>5, <3>1 DEF Slider!OnMessage
  <2>6. CASE \E v \in SliderReports \cup {Slider!Nothing} : Slider!OnHistory(v) \/ Slider!Report(v)
    BY <2>1, <2>3, <2>6 DEF Slider!OnHistory, Slider!Report, Handed
  <2>7. CASE Slider!Focus \/ (\E v \in Slider!Positions : Slider!Drag(v)) \/ Slider!EditReadout \/ Slider!Escape
    BY <2>3, <2>7 DEF Slider!Focus, Slider!Drag, Slider!EditReadout, Slider!Escape
  <2>8. CASE Slider!PointerUp \/ Slider!KeyUp
    <3>1. (IF dragging = Slider!Nothing THEN 1 ELSE 0) \in Nat OBVIOUS
    <3> QED BY <2>2, <2>4, <2>8, <3>1 DEF Slider!PointerUp, Slider!KeyUp
  <2>9. CASE Slider!Blur BY <2>2, <2>3, <2>4, <2>9 DEF Slider!Blur, Slider!flip
  <2>10. CASE Slider!commitTyped
    <3>1. typed[1] \in Int BY <2>10, GridFits DEF SlideShapes, Slider!commitTyped, Slider!NumbersFit
    <3> QED BY <2>2, <2>3, <2>10, <3>1 DEF Slider!commitTyped, Slider!flip
  <2>11. CASE \E text \in Typed \cup {Slider!Nothing} : Slider!Type(text) BY <2>3, <2>11 DEF Slider!Type
  <2>12. CASE \E p \in posts, ok \in BOOLEAN : Slider!Answered(p, ok) BY <2>3, <2>12 DEF Slider!Answered, Slider!flip
  <2>13. CASE \E t \in timers : Slider!Timeout(t) BY <2>13 DEF Slider!Timeout
  <2>14. CASE Slider!Remount
    <3>1. steps'.remounts # steps.remounts BY <2>14 DEF Slider!Remount, SlideShapes
    <3> QED BY <3>1
  <2> QED BY <2>5, <2>6, <2>7, <2>8, <2>9, <2>10, <2>11, <2>12, <2>13, <2>14 DEF Slider!Next
<1> QED BY <1>1, SlideKept, PTL DEF SlideRuns


-----------------------------------------------------------------------------
(***************************************************************************)
(* The toggle (TogglePanel).  What is shown is the reading of the message  *)
(* it is said to be of (Shown), and what has reached the panel is in the   *)
(* answer of the history, on its way or applied (Caught).                  *)
(***************************************************************************)
(* Its runs, with no fairness assumed. *)
FlipRuns == Toggle!Init /\ [][Toggle!Next]_(Toggle!vars)

FlipMessages == ToggleReports \cup {Toggle!toggleWritePayload(Toggle!configured(c, s), c.payloadTemplate) : c \in Configs, s \in Toggle!States}
FlipKey == Toggle!Key(config)

FlipShapes ==
    /\ config \in Configs /\ log \in [Toggle!Keys -> Seq(FlipMessages)]
    /\ hub \in Toggle!Keys \cup {Toggle!NoKey} /\ asks \in Seq(Toggle!Keys \cup {Toggle!NoKey})
    /\ history \in {"asked", "answered", "done"}
    /\ pending \in Toggle!States \cup {Toggle!NoState} /\ unconfirmed \in BOOLEAN /\ error \in BOOLEAN
    /\ \A p \in posts : p.desired \in Toggle!States /\ p.config \in Configs
FlipFrames ==
    /\ frames \in Seq(Toggle!Keys \X Nat)
    /\ \A i \in DOMAIN frames : frames[i][2] \in 1..Toggle!Newest(frames[i][1])
FlipWaits ==
    IF pending = Toggle!NoState THEN timers = {} /\ timeoutRef = Toggle!None
    ELSE timeoutRef \in {1, 2} /\ timers = {timeoutRef} /\ ~unconfirmed /\ ~error
(* The state shown is that of the message it is said to be of. *)
Reading(n) == IF n = 0 THEN Toggle!NoState ELSE Toggle!parseToggleState(config, log[FlipKey][n])
Shown ==
    /\ updatedAt \in 0..newest /\ newest \in 0..Toggle!Newest(FlipKey) /\ reached \in 0..Toggle!Newest(FlipKey)
    /\ state = Reading(updatedAt)
(* What has reached the panel is on its way, in the answer, or applied. *)
FlipComing == found = reached /\ found # 0
OnItsWay == \E i \in DOMAIN frames : frames[i] = <<FlipKey, reached>>
Caught ==
    /\ found \in 0..Toggle!Newest(FlipKey) /\ (history # "answered" => found = 0)
    /\ reached = Toggle!Newest(FlipKey) => FlipComing \/ OnItsWay \/ newest = reached
FlipInv == FlipShapes /\ FlipFrames /\ FlipWaits /\ Shown /\ Caught

-----------------------------------------------------------------------------
LEMMA ParseFits ==
  ASSUME Toggle!ConfigsFit, NEW c, NEW m
  PROVE  Toggle!parseToggleState(c, m) \in Toggle!States \cup {Toggle!NoState}
BY DEF Toggle!ConfigsFit, Toggle!parseToggleState, Toggle!States

\* A panel that is the same one reads the same topic in the same way.
LEMMA SameReading ==
  ASSUME Toggle!ConfigsFit, NEW c \in Configs, NEW e \in Configs, Toggle!identity(c) = Toggle!identity(e)
  PROVE  Toggle!Key(c) = Toggle!Key(e) /\ Toggle!stateTopic(c) = Toggle!stateTopic(e) /\ \A m : Toggle!parseToggleState(c, m) = Toggle!parseToggleState(e, m)
<1>1. /\ c.broker = e.broker /\ c.topic = e.topic /\ c.stateTopic = e.stateTopic /\ c.stateBroker = e.stateBroker
      /\ c.readTemplate = e.readTemplate /\ c.on = e.on /\ c.off = e.off /\ c.payloadTemplate = e.payloadTemplate
  BY DEF Toggle!identity
<1>2. c.separateRead = e.separateRead BY <1>1 DEF Toggle!ConfigsFit
<1>3. Toggle!stateTopic(c) = Toggle!stateTopic(e) /\ Toggle!Key(c) = Toggle!Key(e)
  BY <1>1, <1>2 DEF Toggle!stateTopic, Toggle!commandTopic, Toggle!stateBroker, Toggle!Key
<1>4. Toggle!effectiveReadTemplate(c) = Toggle!effectiveReadTemplate(e) BY <1>1, <1>2 DEF Toggle!effectiveReadTemplate
<1>5. \A s : Toggle!configured(c, s) = Toggle!configured(e, s) BY <1>1 DEF Toggle!configured
<1>6. \A s : Toggle!stateReferences(c, s) = Toggle!stateReferences(e, s) BY <1>1, <1>4, <1>5 DEF Toggle!stateReferences
<1>7. ASSUME NEW m PROVE Toggle!parseToggleState(c, m) = Toggle!parseToggleState(e, m)
  <2>1. Toggle!stateReferences(c, "on") = Toggle!stateReferences(e, "on") /\ Toggle!stateReferences(c, "off") = Toggle!stateReferences(e, "off")
    BY <1>6
  <2>2. Toggle!extractPayloadValue(m, Toggle!effectiveReadTemplate(c)) = Toggle!extractPayloadValue(m, Toggle!effectiveReadTemplate(e))
    BY <1>4
  <2> QED BY <2>1, <2>2 DEF Toggle!parseToggleState
<1> QED BY <1>3, <1>7

LEMMA FlipKeysFit == ASSUME NEW c \in Configs PROVE Toggle!Key(c) \in Toggle!Keys /\ Toggle!CommandKey(c) \in Toggle!Keys
BY DEF Toggle!Keys

LEMMA Lengths == ASSUME FlipShapes, NEW k \in Toggle!Keys PROVE log[k] \in Seq(FlipMessages) /\ Toggle!Newest(k) \in Nat
BY DEF FlipShapes, Toggle!Newest

LEMMA FlipAppended ==
  ASSUME NEW S, NEW s \in Seq(S), NEW x \in S
  PROVE  /\ Append(s, x) \in Seq(S) /\ Len(Append(s, x)) = Len(s) + 1 /\ DOMAIN Append(s, x) = 1..(Len(s) + 1)
         /\ Append(s, x)[Len(s) + 1] = x /\ \A i \in 1..Len(s) : Append(s, x)[i] = s[i]
         /\ DOMAIN s = 1..Len(s) /\ Len(s) \in Nat
OBVIOUS

LEMMA Taken ==
  ASSUME NEW S, NEW s \in Seq(S), s # <<>>
  PROVE  /\ Head(s) \in S /\ Head(s) = s[1] /\ 1 \in DOMAIN s /\ Tail(s) \in Seq(S)
         /\ \A i \in DOMAIN Tail(s) : i + 1 \in DOMAIN s /\ Tail(s)[i] = s[i + 1]
         /\ \A i \in DOMAIN s : i = 1 \/ (i - 1 \in DOMAIN Tail(s) /\ Tail(s)[i - 1] = s[i])
OBVIOUS

-----------------------------------------------------------------------------
\* A message arrives: no older one changes, and the panel's own newest one
\* counts as having reached it only if it is on its way there.
LEMMA ArrivesStep ==
  ASSUME Toggle!ConfigsFit, FlipInv, NEW k \in Toggle!Keys, NEW m \in FlipMessages, Toggle!Arrives(k, m),
         UNCHANGED <<config, history, found, Toggle!shown>>
  PROVE  log' \in [Toggle!Keys -> Seq(FlipMessages)] /\ FlipFrames' /\ Shown' /\ Caught'
<1> USE DEF FlipInv
<1>0. config \in Configs /\ FlipKey \in Toggle!Keys /\ FlipKey' = FlipKey BY FlipKeysFit DEF FlipShapes, FlipKey
<1>1. \A j \in Toggle!Keys : log[j] \in Seq(FlipMessages) /\ Toggle!Newest(j) \in Nat /\ Toggle!Newest(j) = Len(log[j])
  BY Lengths DEF Toggle!Newest
<1>2. /\ log' \in [Toggle!Keys -> Seq(FlipMessages)]
      /\ \A j \in Toggle!Keys : /\ Toggle!Newest(j)' = IF j = k THEN Toggle!Newest(j) + 1 ELSE Toggle!Newest(j)
                                /\ \A n \in 1..Toggle!Newest(j) : log'[j][n] = log[j][n]
  <2>1. log[k] \in Seq(FlipMessages) BY <1>1
  <2>2. Append(log[k], m) \in Seq(FlipMessages) /\ Len(Append(log[k], m)) = Len(log[k]) + 1
        /\ \A i \in 1..Len(log[k]) : Append(log[k], m)[i] = log[k][i]
    BY <2>1, FlipAppended
  <2>3. log' \in [Toggle!Keys -> Seq(FlipMessages)] BY <2>2 DEF Toggle!Arrives, FlipShapes
  <2>4. \A j \in Toggle!Keys : log'[j] = IF j = k THEN Append(log[k], m) ELSE log[j] BY DEF Toggle!Arrives, FlipShapes
  <2>5. ASSUME NEW j \in Toggle!Keys
        PROVE  /\ Toggle!Newest(j)' = IF j = k THEN Toggle!Newest(j) + 1 ELSE Toggle!Newest(j)
               /\ \A n \in 1..Toggle!Newest(j) : log'[j][n] = log[j][n]
    <3>1. CASE j = k BY <2>2, <2>4, <3>1 DEF Toggle!Newest
    <3>2. CASE j # k BY <2>4, <3>2 DEF Toggle!Newest
    <3> QED BY <3>1, <3>2
  <2> QED BY <2>3, <2>5
<1>3. \A n \in 0..Toggle!Newest(FlipKey) : Reading(n)' = Reading(n)
  BY <1>0, <1>1, <1>2 DEF Reading
<1>4. FlipFrames'
  <2>1. frames \in Seq(Toggle!Keys \X Nat) BY DEF FlipFrames
  <2>2. <<k, Toggle!Newest(k) + 1>> \in Toggle!Keys \X Nat BY <1>1
  <2>3. frames' \in Seq(Toggle!Keys \X Nat) BY <2>1, <2>2, FlipAppended DEF Toggle!Arrives
  <2>4. \A i \in DOMAIN frames' : frames'[i] = <<k, Toggle!Newest(k) + 1>> \/ (i \in DOMAIN frames /\ frames'[i] = frames[i])
    <3>1. CASE hub = k BY <2>1, <2>2, <3>1, FlipAppended DEF Toggle!Arrives
    <3>2. CASE hub # k BY <3>2 DEF Toggle!Arrives
    <3> QED BY <3>1, <3>2
  <2>5. ASSUME NEW i \in DOMAIN frames' PROVE frames'[i][2] \in 1..Len(log'[frames'[i][1]])
    <3>1. CASE frames'[i] = <<k, Toggle!Newest(k) + 1>>
      <4>1. frames'[i][1] = k /\ frames'[i][2] = Toggle!Newest(k) + 1 BY <3>1
      <4>2. Toggle!Newest(k)' = Toggle!Newest(k) + 1 BY <1>2
      <4>3. Len(log'[frames'[i][1]]) = Toggle!Newest(k) + 1 BY <4>1, <4>2 DEF Toggle!Newest
      <4> QED BY <4>1, <4>3, <1>1
    <3>2. CASE i \in DOMAIN frames /\ frames'[i] = frames[i]
      <4>1. frames[i][1] \in Toggle!Keys /\ frames[i][2] \in 1..Toggle!Newest(frames[i][1]) BY <3>2, <2>1 DEF FlipFrames
      <4>2. PICK j \in Toggle!Keys : j = frames[i][1] BY <4>1
      <4>3. frames[i][2] \in 1..Toggle!Newest(j)'
        <5>1. Toggle!Newest(j)' = IF j = k THEN Toggle!Newest(j) + 1 ELSE Toggle!Newest(j) BY ONLY <4>2, <1>2
        <5>2. Toggle!Newest(j) \in Nat BY ONLY <4>2, <1>1
        <5>3. frames[i][2] \in 1..Toggle!Newest(j) BY ONLY <4>1, <4>2
        <5> QED BY ONLY <5>1, <5>2, <5>3
      <4> QED BY <3>2, <4>2, <4>3 DEF Toggle!Newest
    <3> QED BY <3>1, <3>2, <2>4
  <2> QED BY <2>3, <2>5 DEF FlipFrames, Toggle!Newest
<1>5. Toggle!Newest(FlipKey) \in Nat /\ Toggle!Newest(FlipKey)' >= Toggle!Newest(FlipKey) /\ Toggle!Newest(FlipKey)' \in Nat BY <1>0, <1>1, <1>2 DEF Toggle!Newest
<1>6. UNCHANGED <<found, history, state, updatedAt, newest>> BY DEF Toggle!shown
<1>7. CASE hub = k /\ k = FlipKey
  <2>1. reached' = Toggle!Newest(FlipKey) + 1 /\ Toggle!Newest(FlipKey)' = Toggle!Newest(FlipKey) + 1 BY <1>0, <1>2, <1>7 DEF Toggle!Arrives, FlipKey
  <2>2. Shown' BY <1>3, <1>5, <1>6, <2>1 DEF Shown
  <2>3. OnItsWay'
    <3>1. frames \in Seq(Toggle!Keys \X Nat) /\ <<k, Toggle!Newest(k) + 1>> \in Toggle!Keys \X Nat BY <1>1 DEF FlipFrames
    <3>2. Len(frames) + 1 \in DOMAIN frames' /\ frames'[Len(frames) + 1] = <<k, Toggle!Newest(k) + 1>>
      BY <1>7, <3>1, FlipAppended DEF Toggle!Arrives
    <3> QED BY <1>0, <1>7, <2>1, <3>2 DEF OnItsWay
  <2> QED BY <1>2, <1>4, <1>5, <1>6, <2>2, <2>3 DEF Caught
<1>8. CASE ~(hub = k /\ k = FlipKey)
  <2>1. reached' = reached BY <1>8 DEF Toggle!Arrives, FlipKey
  <2>2. Shown' BY <1>3, <1>5, <1>6, <2>1 DEF Shown
  <2>3. CASE k = FlipKey
    <3>1. reached' # Toggle!Newest(FlipKey)' BY <1>0, <1>1, <1>2, <2>1, <2>3 DEF Shown
    <3> QED BY <1>2, <1>4, <1>5, <1>6, <2>2, <3>1 DEF Caught
  <2>4. CASE k # FlipKey
    <3>1. Toggle!Newest(FlipKey)' = Toggle!Newest(FlipKey) BY <1>0, <1>2, <2>4
    <3>2. OnItsWay => OnItsWay'
      <4>1. frames \in Seq(Toggle!Keys \X Nat) /\ <<k, Toggle!Newest(k) + 1>> \in Toggle!Keys \X Nat BY <1>1 DEF FlipFrames
      <4>2. \A i \in DOMAIN frames : i \in DOMAIN frames' /\ frames'[i] = frames[i]
        <5>1. CASE hub = k BY <4>1, <5>1, FlipAppended DEF Toggle!Arrives
        <5>2. CASE hub # k BY <5>2 DEF Toggle!Arrives
        <5> QED BY <5>1, <5>2
      <4> QED BY <1>0, <2>1, <4>2 DEF OnItsWay
    <3> QED BY <1>2, <1>4, <1>5, <1>6, <2>1, <2>2, <3>1, <3>2 DEF Caught, FlipComing
  <2> QED BY <2>3, <2>4
<1> QED BY <1>7, <1>8

\* A message that is applied ends the wait, and is the one that is shown.
LEMMA FlipApplyStep ==
  ASSUME Toggle!ConfigsFit, FlipShapes, FlipWaits, Shown, NEW n \in 1..Toggle!Newest(FlipKey), Toggle!Apply(n), UNCHANGED <<config, log, reached>>
  PROVE  /\ Shown' /\ FlipWaits' /\ newest' >= n /\ newest' >= newest
         /\ pending' \in Toggle!States \cup {Toggle!NoState} /\ unconfirmed' \in BOOLEAN /\ error' \in BOOLEAN
<1>0. FlipKey \in Toggle!Keys /\ FlipKey' = FlipKey /\ Toggle!Newest(FlipKey) \in Nat /\ Toggle!Newest(FlipKey)' = Toggle!Newest(FlipKey)
  BY FlipKeysFit, Lengths DEF FlipShapes, FlipKey, Toggle!Newest
<1>1. n \in Nat /\ newest \in Nat /\ n # 0 BY <1>0 DEF Shown
<1>2. updatedAt' = n /\ newest' = (IF n > newest THEN n ELSE newest) BY DEF Toggle!Apply
<1>3. state' = Toggle!parseToggleState(config, log[FlipKey][n]) BY DEF Toggle!Apply, FlipKey
<1>4. state' = Reading(n)' BY <1>0, <1>1, <1>3 DEF Reading
<1>5. state' = Reading(updatedAt)'
  <2>1. Reading(updatedAt)' = IF updatedAt' = 0 THEN Toggle!NoState ELSE Toggle!parseToggleState(config, log[FlipKey][updatedAt'])
    BY <1>0 DEF Reading
  <2> QED BY <1>1, <1>2, <1>3, <2>1
<1>6. updatedAt' \in 0..newest' /\ newest' \in 0..Toggle!Newest(FlipKey)' /\ reached' \in 0..Toggle!Newest(FlipKey)' /\ newest' >= n /\ newest' >= newest
  BY <1>0, <1>1, <1>2 DEF Shown
<1>7. Shown' BY <1>5, <1>6 DEF Shown
<1>8. FlipWaits' /\ pending' \in Toggle!States \cup {Toggle!NoState} /\ unconfirmed' \in BOOLEAN /\ error' \in BOOLEAN
  <2>1. CASE pending = Toggle!NoState BY <2>1 DEF Toggle!Apply, Toggle!flip, FlipShapes, FlipWaits
  <2>2. CASE pending # Toggle!NoState
    <3>1. Toggle!Cleared = {} BY <2>2 DEF FlipWaits, Toggle!Cleared
    <3>2. \A x : Toggle!Mark(x) \in BOOLEAN BY DEF Toggle!Mark
    <3> QED BY <2>2, <3>1, <3>2 DEF Toggle!Apply, FlipShapes, FlipWaits
  <2> QED BY <2>1, <2>2
<1> QED BY <1>6, <1>7, <1>8

\* What is not about the flip keeps what the panel shows.
LEMMA Unmoved ==
  ASSUME FlipInv, UNCHANGED <<config, log, frames, history, found, Toggle!shown, reached>>
  PROVE  FlipFrames' /\ Shown' /\ Caught'
<1>1. FlipFrames' BY DEF FlipInv, FlipFrames, Toggle!Newest
<1>2. Shown' BY DEF FlipInv, Shown, FlipKey, Toggle!Newest, Reading, Toggle!shown
<1>3. Caught' BY DEF FlipInv, Caught, FlipKey, Toggle!Newest, FlipComing, OnItsWay, Toggle!shown
<1> QED BY <1>1, <1>2, <1>3

LEMMA NoNumber == Toggle!None \notin {1, 2} /\ Toggle!NoState \notin Toggle!States
BY DEF Toggle!None, Toggle!NoState, Toggle!States

LEMMA FlipStart == ASSUME Toggle!ConfigsFit, Toggle!Init PROVE FlipInv
<1>1. config \in Configs /\ FlipKey \in Toggle!Keys BY FlipKeysFit DEF Toggle!Init, FlipKey
<1>2. FlipShapes
  <2>1. asks \in Seq(Toggle!Keys \cup {Toggle!NoKey})
    <3>1. <<>> \in Seq(Toggle!Keys \cup {Toggle!NoKey}) /\ <<FlipKey>> \in Seq(Toggle!Keys \cup {Toggle!NoKey}) BY <1>1
    <3>2. asks = <<>> \/ asks = <<FlipKey>> BY DEF Toggle!Init, FlipKey
    <3> QED BY <3>1, <3>2
  <2>2. log \in [Toggle!Keys -> Seq(FlipMessages)] BY DEF Toggle!Init
  <2> QED BY <1>1, <2>1, <2>2 DEF Toggle!Init, FlipShapes
<1>3. Toggle!Newest(FlipKey) = 0 BY <1>1 DEF Toggle!Init, Toggle!Newest
<1>4. FlipFrames
  <2>1. frames = <<>> /\ frames \in Seq(Toggle!Keys \X Nat) /\ DOMAIN frames = {} BY DEF Toggle!Init
  <2> QED BY <2>1 DEF FlipFrames
<1>5. FlipWaits BY DEF Toggle!Init, FlipWaits
<1>6. Shown BY <1>3 DEF Toggle!Init, Shown, Reading
<1>7. Caught BY <1>3 DEF Toggle!Init, Caught
<1> QED BY <1>2, <1>4, <1>5, <1>6, <1>7 DEF FlipInv

LEMMA FlipReportStep == ASSUME Toggle!ConfigsFit, FlipInv, NEW m \in ToggleReports, Toggle!Report(m) PROVE FlipInv'
<1> USE DEF FlipInv
<1>1. Toggle!Arrives(FlipKey, m) /\ FlipKey \in Toggle!Keys /\ m \in FlipMessages /\ UNCHANGED <<config, history, found, Toggle!shown>>
  BY FlipKeysFit DEF Toggle!Report, FlipKey, FlipShapes, FlipMessages
<1>2. log' \in [Toggle!Keys -> Seq(FlipMessages)] /\ FlipFrames' /\ Shown' /\ Caught' BY <1>1, ArrivesStep
<1>3. UNCHANGED <<config, hub, asks, history, Toggle!flip, posts>> BY DEF Toggle!Report
<1>4. FlipShapes' BY <1>2, <1>3 DEF FlipShapes, Toggle!flip
<1>5. FlipWaits' BY <1>3 DEF FlipWaits, Toggle!flip
<1> QED BY <1>2, <1>4, <1>5

LEMMA HubStep == ASSUME Toggle!ConfigsFit, FlipInv, Toggle!HubServes PROVE FlipInv'
<1> USE DEF FlipInv
<1>1. hub' \in Toggle!Keys \cup {Toggle!NoKey} /\ asks' \in Seq(Toggle!Keys \cup {Toggle!NoKey})
  <2>1. asks \in Seq(Toggle!Keys \cup {Toggle!NoKey}) /\ asks # <<>> BY DEF Toggle!HubServes, FlipShapes
  <2>2. Head(asks) \in Toggle!Keys \cup {Toggle!NoKey} /\ Tail(asks) \in Seq(Toggle!Keys \cup {Toggle!NoKey}) BY <2>1, Taken
  <2> QED BY <2>2 DEF Toggle!HubServes
<1>2. UNCHANGED <<config, log, frames, history, found, Toggle!shown, Toggle!flip, posts, reached>> BY DEF Toggle!HubServes
<1>3. FlipShapes' BY <1>1, <1>2 DEF FlipShapes, Toggle!flip
<1>4. FlipWaits' BY <1>2 DEF FlipWaits, Toggle!flip
<1> QED BY <1>2, <1>3, <1>4, Unmoved

LEMMA ServeHistoryStep == ASSUME Toggle!ConfigsFit, FlipInv, Toggle!ServeHistory PROVE FlipInv'
<1> USE DEF FlipInv
<1>1. UNCHANGED <<config, log, hub, asks, frames, Toggle!shown, Toggle!flip, posts>> /\ history' = "answered"
  BY DEF Toggle!ServeHistory
<1>2. FlipKey' = FlipKey /\ FlipKey \in Toggle!Keys /\ Toggle!Newest(FlipKey) \in Nat /\ Toggle!Newest(FlipKey)' = Toggle!Newest(FlipKey)
  BY <1>1, FlipKeysFit, Lengths DEF FlipKey, Toggle!Newest, FlipShapes
<1>3. found' \in {Toggle!Newest(FlipKey), 0} /\ reached' = found' BY DEF Toggle!ServeHistory, FlipKey
<1>4. FlipShapes' BY <1>1 DEF FlipShapes, Toggle!flip
<1>5. FlipFrames' BY <1>1 DEF FlipFrames, Toggle!Newest
<1>6. FlipWaits' BY <1>1 DEF FlipWaits, Toggle!flip
<1>7. Shown'
  <2>1. UNCHANGED <<state, updatedAt, newest>> BY <1>1 DEF Toggle!shown
  <2>2. Reading(updatedAt)' = Reading(updatedAt) BY <1>1, <1>2, <2>1 DEF Reading
  <2> QED BY <1>2, <1>3, <2>1, <2>2 DEF Shown
<1>8. Caught'
  <2>1. newest' \in 0..Toggle!Newest(FlipKey) BY <1>1 DEF Toggle!shown, Shown
  <2>2. CASE found' = 0 BY <1>1, <1>2, <1>3, <2>1, <2>2 DEF Caught
  <2>3. CASE found' # 0 BY <1>1, <1>2, <1>3, <2>3 DEF Caught, FlipComing
  <2> QED BY <2>2, <2>3
<1> QED BY <1>4, <1>5, <1>6, <1>7, <1>8

LEMMA FlipMessageStep == ASSUME Toggle!ConfigsFit, FlipInv, Toggle!OnMessage PROVE FlipInv'
<1> USE DEF FlipInv
<1>1. UNCHANGED <<config, log, hub, asks, history, found, posts, reached>> /\ frames # <<>> /\ frames' = Tail(frames)
  BY DEF Toggle!OnMessage
<1>2. FlipKey' = FlipKey /\ FlipKey \in Toggle!Keys /\ Toggle!Newest(FlipKey) \in Nat /\ Toggle!Newest(FlipKey)' = Toggle!Newest(FlipKey)
  BY <1>1, FlipKeysFit, Lengths DEF FlipKey, Toggle!Newest, FlipShapes
<1>3. frames \in Seq(Toggle!Keys \X Nat) BY DEF FlipFrames
<1>4. /\ Head(frames) \in Toggle!Keys \X Nat /\ Head(frames) = frames[1] /\ 1 \in DOMAIN frames /\ frames' \in Seq(Toggle!Keys \X Nat)
      /\ \A i \in DOMAIN frames' : i + 1 \in DOMAIN frames /\ frames'[i] = frames[i + 1]
      /\ \A i \in DOMAIN frames : i = 1 \/ (i - 1 \in DOMAIN frames' /\ frames'[i - 1] = frames[i])
  BY <1>1, <1>3, Taken
<1>5. FlipFrames' BY <1>1, <1>4 DEF FlipFrames, Toggle!Newest
<1>6. CASE Toggle!Hears(Head(frames)[1])
  <2>1. PICK n \in 1..Toggle!Newest(FlipKey) : n = Head(frames)[2]
    BY <1>4, <1>6 DEF Toggle!Hears, FlipKey, FlipFrames
  <2>2. Toggle!Apply(n) BY <1>6, <2>1 DEF Toggle!OnMessage
  <2>3. /\ Shown' /\ FlipWaits' /\ newest' >= n /\ newest' >= newest
        /\ pending' \in Toggle!States \cup {Toggle!NoState} /\ unconfirmed' \in BOOLEAN /\ error' \in BOOLEAN
    BY <1>1, <2>2, FlipApplyStep
  <2>4. FlipShapes' BY <1>1, <2>3 DEF FlipShapes
  <2>5. newest' \in 0..Toggle!Newest(FlipKey) /\ newest \in Nat /\ reached \in 0..Toggle!Newest(FlipKey)
    BY <1>2, <2>3 DEF Shown
  <2>6. ASSUME OnItsWay, reached = Toggle!Newest(FlipKey) PROVE OnItsWay' \/ newest' = reached
    <3>1. PICK i \in DOMAIN frames : frames[i] = <<FlipKey, reached>> BY <2>6 DEF OnItsWay
    <3>2. CASE i = 1
      <4>1. n = reached BY <1>4, <2>1, <3>1, <3>2
      <4> QED BY <1>2, <2>3, <2>5, <2>6, <4>1
    <3>3. CASE i # 1
      <4>1. i - 1 \in DOMAIN frames' /\ frames'[i - 1] = <<FlipKey, reached>> BY <1>4, <3>1, <3>3
      <4>2. frames'[i - 1] = <<FlipKey', reached'>> BY <1>1, <1>2, <4>1
      <4>3. OnItsWay' BY <4>1, <4>2 DEF OnItsWay
      <4> QED BY <4>3
    <3> QED BY <3>2, <3>3
  <2>7. newest = reached /\ reached = Toggle!Newest(FlipKey) => newest' = reached BY <1>2, <2>3, <2>5
  <2>8. Caught' BY <1>1, <1>2, <2>6, <2>7 DEF Caught, FlipComing
  <2> QED BY <1>5, <2>3, <2>4, <2>8
<1>7. CASE ~Toggle!Hears(Head(frames)[1])
  <2>1. UNCHANGED <<Toggle!shown, Toggle!flip>> BY <1>7 DEF Toggle!OnMessage
  <2>2. FlipShapes' BY <1>1, <2>1 DEF FlipShapes, Toggle!flip
  <2>3. FlipWaits' BY <2>1 DEF FlipWaits, Toggle!flip
  <2>4. Shown'
    <3>1. UNCHANGED <<state, updatedAt, newest>> BY <2>1 DEF Toggle!shown
    <3>2. Reading(updatedAt)' = Reading(updatedAt) BY <1>1, <1>2, <3>1 DEF Reading
    <3> QED BY <1>1, <1>2, <3>1, <3>2 DEF Shown
  <2>5. OnItsWay => OnItsWay'
    <3>1. SUFFICES ASSUME NEW i \in DOMAIN frames, frames[i] = <<FlipKey, reached>> PROVE OnItsWay'
      BY DEF OnItsWay
    <3>2. i # 1 BY <1>4, <1>7, <3>1 DEF Toggle!Hears, FlipKey
    <3> QED BY ZenonT(40), <1>1, <1>2, <1>4, <3>1, <3>2 DEF OnItsWay
  <2>6. Caught' BY <1>1, <1>2, <2>1, <2>5 DEF Caught, FlipComing, Toggle!shown
  <2> QED BY <1>5, <2>2, <2>3, <2>4, <2>6
<1> QED BY <1>6, <1>7

LEMMA FlipHistoryStep == ASSUME Toggle!ConfigsFit, FlipInv, Toggle!OnHistory PROVE FlipInv'
<1> USE DEF FlipInv
<1>1. UNCHANGED <<config, log, hub, asks, frames, posts, reached>> /\ history' = "done" /\ found' = 0
  BY DEF Toggle!OnHistory
<1>2. FlipKey' = FlipKey /\ FlipKey \in Toggle!Keys /\ Toggle!Newest(FlipKey) \in Nat /\ Toggle!Newest(FlipKey)' = Toggle!Newest(FlipKey)
  BY <1>1, FlipKeysFit, Lengths DEF FlipKey, Toggle!Newest, FlipShapes
<1>3. FlipFrames' BY <1>1 DEF FlipFrames, Toggle!Newest
<1>4. OnItsWay => OnItsWay' BY <1>1, <1>2 DEF OnItsWay
<1>5. CASE found = 0
  <2>1. UNCHANGED <<Toggle!shown, Toggle!flip>> BY <1>5 DEF Toggle!OnHistory
  <2>2. FlipShapes' BY <1>1, <2>1 DEF FlipShapes, Toggle!flip
  <2>3. FlipWaits' BY <2>1 DEF FlipWaits, Toggle!flip
  <2>4. Shown'
    <3>1. UNCHANGED <<state, updatedAt, newest>> BY <2>1 DEF Toggle!shown
    <3>2. Reading(updatedAt)' = Reading(updatedAt) BY <1>1, <1>2, <3>1 DEF Reading
    <3> QED BY <1>1, <1>2, <3>1, <3>2 DEF Shown
  <2>5. Caught' BY <1>1, <1>2, <1>4, <1>5, <2>1 DEF Caught, FlipComing, Toggle!shown
  <2> QED BY <1>3, <2>2, <2>3, <2>4, <2>5
<1>6. CASE found # 0
  <2>1. PICK n \in 1..Toggle!Newest(FlipKey) : n = found BY <1>2, <1>6 DEF Caught
  <2>2. Toggle!Apply(n) BY <1>6, <2>1 DEF Toggle!OnHistory, Toggle!last
  <2>3. /\ Shown' /\ FlipWaits' /\ newest' >= n /\ newest' >= newest
        /\ pending' \in Toggle!States \cup {Toggle!NoState} /\ unconfirmed' \in BOOLEAN /\ error' \in BOOLEAN
    BY <1>1, <2>2, FlipApplyStep
  <2>4. FlipShapes' BY <1>1, <2>3 DEF FlipShapes
  <2>5. newest' \in 0..Toggle!Newest(FlipKey) /\ newest \in Nat /\ reached \in 0..Toggle!Newest(FlipKey)
    BY <1>2, <2>3 DEF Shown
  <2>6. reached = Toggle!Newest(FlipKey) => OnItsWay \/ newest' = reached
    BY <1>2, <2>1, <2>3, <2>5 DEF Caught, FlipComing
  <2>7. Caught' BY <1>1, <1>2, <1>4, <2>6 DEF Caught
  <2> QED BY <1>3, <2>3, <2>4, <2>7
<1> QED BY <1>5, <1>6

LEMMA FlipStep == ASSUME Toggle!ConfigsFit, FlipInv, Toggle!handleFlip PROVE FlipInv'
<1> USE DEF FlipInv
<1>1. pending' \in Toggle!States /\ unconfirmed' = FALSE /\ error' = FALSE
  BY DEF Toggle!handleFlip, Toggle!Opposite, Toggle!States
<1>2. Toggle!Cleared = {} BY DEF FlipWaits, Toggle!Cleared
<1>3. timeoutRef' \in {1, 2} /\ timers' = {timeoutRef'} BY <1>2 DEF Toggle!handleFlip
<1>4. FlipWaits' BY <1>1, <1>3, NoNumber DEF FlipWaits
<1>5. UNCHANGED <<config, Toggle!messages, Toggle!shown, reached>> BY DEF Toggle!handleFlip
<1>6. \A p \in posts' : p.desired \in Toggle!States /\ p.config \in Configs
  BY <1>1 DEF Toggle!handleFlip, FlipShapes
<1>7. FlipShapes' BY <1>1, <1>5, <1>6 DEF FlipShapes, Toggle!messages
<1> QED BY <1>4, <1>5, <1>7, Unmoved DEF Toggle!messages

LEMMA PostStep == ASSUME Toggle!ConfigsFit, FlipInv, NEW p \in posts, Toggle!ServePost(p) PROVE FlipInv'
<1> USE DEF FlipInv
<1>1. UNCHANGED <<config, hub, asks, history, found, Toggle!shown, Toggle!flip>> BY DEF Toggle!ServePost
<1>2. p.desired \in Toggle!States /\ p.config \in Configs BY DEF FlipShapes
<1>3. \A s : [p EXCEPT !.stage = s].desired = p.desired /\ [p EXCEPT !.stage = s].config = p.config OBVIOUS
<1>4. \A q \in posts' : q.desired \in Toggle!States /\ q.config \in Configs
  <2>1. \A q \in posts' : q \in posts \/ q = [p EXCEPT !.stage = "done"] \/ q = [p EXCEPT !.stage = "refused"]
    BY DEF Toggle!ServePost
  <2> QED BY <1>2, <1>3, <2>1 DEF FlipShapes
<1>5. log' \in [Toggle!Keys -> Seq(FlipMessages)] /\ FlipFrames' /\ Shown' /\ Caught'
  <2>1. CASE Toggle!Arrives(Toggle!CommandKey(p.config), Toggle!Written(p))
    <3>1. Toggle!CommandKey(p.config) \in Toggle!Keys /\ Toggle!Written(p) \in FlipMessages
      BY <1>2, FlipKeysFit DEF Toggle!Written, FlipMessages
    <3> QED BY <1>1, <2>1, <3>1, ArrivesStep
  <2>2. CASE UNCHANGED <<log, frames, reached>>
    BY <1>1, <2>2, Unmoved DEF FlipShapes
  <2> QED BY <2>1, <2>2 DEF Toggle!ServePost
<1>6. FlipShapes' BY <1>1, <1>4, <1>5 DEF FlipShapes, Toggle!flip
<1>7. FlipWaits' BY <1>1 DEF FlipWaits, Toggle!flip
<1> QED BY <1>5, <1>6, <1>7

LEMMA FlipAnsweredStep ==
  ASSUME Toggle!ConfigsFit, FlipInv, NEW p \in posts, NEW ok \in BOOLEAN, Toggle!Answered(p, ok)
  PROVE  FlipInv'
<1> USE DEF FlipInv
<1>1. posts' \subseteq posts /\ UNCHANGED <<config, Toggle!messages, Toggle!shown, reached>> BY DEF Toggle!Answered
<1>2. Toggle!Cleared = {} BY DEF FlipWaits, Toggle!Cleared
<1>3. /\ pending' \in Toggle!States \cup {Toggle!NoState} /\ unconfirmed' \in BOOLEAN /\ error' \in BOOLEAN /\ FlipWaits'
  <2>1. CASE ok \/ ~p.own BY <2>1 DEF Toggle!Answered, Toggle!flip, FlipShapes, FlipWaits
  <2>2. CASE ~(ok \/ ~p.own) BY <1>2, <2>2 DEF Toggle!Answered, FlipShapes, FlipWaits
  <2> QED BY <2>1, <2>2
<1>4. FlipShapes' BY <1>1, <1>3 DEF FlipShapes, Toggle!messages
<1> QED BY <1>1, <1>3, <1>4, Unmoved DEF Toggle!messages

LEMMA FlipTimeoutStep == ASSUME Toggle!ConfigsFit, FlipInv, NEW t \in timers, Toggle!Timeout(t) PROVE FlipInv'
<1> USE DEF FlipInv
<1>1. timers' = {} BY DEF Toggle!Timeout, FlipWaits
<1>2. pending' = Toggle!NoState /\ timeoutRef' = Toggle!None /\ unconfirmed' = TRUE BY DEF Toggle!Timeout, Toggle!AfterTimeout
<1>3. UNCHANGED <<config, Toggle!messages, Toggle!shown, error, posts, reached>> BY DEF Toggle!Timeout
<1>4. FlipShapes' BY <1>2, <1>3 DEF FlipShapes, Toggle!messages
<1>5. FlipWaits' BY <1>1, <1>2 DEF FlipWaits
<1> QED BY <1>3, <1>4, <1>5, Unmoved DEF Toggle!messages

LEMMA FlipSaveStep == ASSUME Toggle!ConfigsFit, FlipInv, NEW c \in Configs, Toggle!Save(c) PROVE FlipInv'
<1> USE DEF FlipInv
<1>0. config' = c /\ config \in Configs BY DEF Toggle!Save, FlipShapes
<1>1. CASE Toggle!identity(c) = Toggle!identity(config)
  <2>1. UNCHANGED <<Toggle!messages, Toggle!shown, Toggle!flip, posts, reached>> BY <1>1 DEF Toggle!Save
  <2>2. Toggle!Key(c) = Toggle!Key(config) /\ \A m : Toggle!parseToggleState(c, m) = Toggle!parseToggleState(config, m)
    BY <1>0, <1>1, SameReading
  <2>3. FlipKey' = FlipKey BY <1>0, <2>2 DEF FlipKey
  <2>4. FlipShapes' BY <1>0, <2>1 DEF FlipShapes, Toggle!messages, Toggle!flip
  <2>5. FlipFrames' BY <2>1 DEF FlipFrames, Toggle!Newest, Toggle!messages
  <2>6. FlipWaits' BY <2>1 DEF FlipWaits, Toggle!flip
  <2>7. Shown'
    <3>1. UNCHANGED <<state, updatedAt, newest, log, reached>> BY <2>1 DEF Toggle!shown, Toggle!messages
    <3>2. Reading(updatedAt)' = Reading(updatedAt)
      <4>1. Toggle!parseToggleState(c, log[FlipKey][updatedAt]) = Toggle!parseToggleState(config, log[FlipKey][updatedAt]) BY <2>2
      <4> QED BY <1>0, <2>3, <3>1, <4>1 DEF Reading
    <3>3. Toggle!Newest(FlipKey)' = Toggle!Newest(FlipKey) BY <2>3, <3>1 DEF Toggle!Newest
    <3> QED BY <3>1, <3>2, <3>3 DEF Shown
  <2>8. Caught' BY <2>1, <2>3 DEF Caught, FlipComing, OnItsWay, Toggle!Newest, Toggle!shown, Toggle!messages
  <2> QED BY <2>4, <2>5, <2>6, <2>7, <2>8
<1>2. CASE Toggle!identity(c) # Toggle!identity(config)
  <2>1. /\ state' = Toggle!NoState /\ updatedAt' = 0 /\ newest' = 0 /\ found' = 0 /\ reached' = 0
        /\ pending' = Toggle!NoState /\ unconfirmed' = FALSE /\ error' = FALSE /\ timeoutRef' = Toggle!None
        /\ history' \in {"asked", "done"} /\ UNCHANGED <<log, hub, frames>>
    BY <1>2 DEF Toggle!Save
  <2>2. timers' = {} BY <1>2 DEF Toggle!Save, Toggle!OnUnmount, Toggle!Cleared, FlipWaits
  <2>3. asks' \in Seq(Toggle!Keys \cup {Toggle!NoKey})
    <3>1. Toggle!Key(c) \in Toggle!Keys BY FlipKeysFit
    <3>2. asks' = asks \o (IF Toggle!stateTopic(config) = <<>> THEN <<>> ELSE <<Toggle!NoKey>>)
                       \o (IF Toggle!stateTopic(c) = <<>> THEN <<>> ELSE <<Toggle!Key(c)>>)
      BY <1>2 DEF Toggle!Save
    <3>3. asks \in Seq(Toggle!Keys \cup {Toggle!NoKey}) BY DEF FlipShapes
    <3>4. /\ <<>> \in Seq(Toggle!Keys \cup {Toggle!NoKey}) /\ <<Toggle!NoKey>> \in Seq(Toggle!Keys \cup {Toggle!NoKey})
          /\ <<Toggle!Key(c)>> \in Seq(Toggle!Keys \cup {Toggle!NoKey})
      BY <3>1
    <3>5. PICK r, t \in Seq(Toggle!Keys \cup {Toggle!NoKey}) : asks' = asks \o r \o t
      BY <3>2, <3>4
    <3> QED BY <3>3, <3>5
  <2>4. \A p \in posts' : p.desired \in Toggle!States /\ p.config \in Configs
    <3>1. \A p \in posts : [p EXCEPT !.own = FALSE].desired = p.desired /\ [p EXCEPT !.own = FALSE].config = p.config
      OBVIOUS
    <3>2. \A q \in posts' : \E p \in posts : q = [p EXCEPT !.own = FALSE] BY <1>2 DEF Toggle!Save
    <3> QED BY <3>1, <3>2 DEF FlipShapes
  <2>5. FlipShapes' BY <1>0, <2>1, <2>3, <2>4 DEF FlipShapes
  <2>6. FlipFrames' BY <2>1 DEF FlipFrames, Toggle!Newest
  <2>7. FlipWaits' BY <2>1, <2>2 DEF FlipWaits
  <2>8. Toggle!Newest(FlipKey)' \in Nat
    <3>1. Toggle!Key(c) \in Toggle!Keys BY FlipKeysFit
    <3>2. Toggle!Newest(Toggle!Key(c)) \in Nat BY <3>1, Lengths
    <3> QED BY <1>0, <2>1, <3>2 DEF Toggle!Newest, FlipKey
  <2>9. Shown' BY <2>1, <2>8 DEF Shown, Reading
  <2>10. Caught' BY <2>1, <2>8 DEF Caught
  <2> QED BY <2>5, <2>6, <2>7, <2>9, <2>10
<1> QED BY <1>1, <1>2

LEMMA FlipStutter == ASSUME FlipInv, UNCHANGED Toggle!vars PROVE FlipInv'
<1>1. UNCHANGED <<config, Toggle!messages, Toggle!shown, Toggle!flip, posts, reached>> BY DEF Toggle!vars
<1>2. FlipShapes' BY <1>1 DEF FlipInv, FlipShapes, Toggle!messages, Toggle!flip
<1>3. FlipWaits' BY <1>1 DEF FlipInv, FlipWaits, Toggle!flip
<1> QED BY <1>1, <1>2, <1>3, Unmoved DEF FlipInv, Toggle!messages

LEMMA FlipStepKeeps == ASSUME Toggle!ConfigsFit, FlipInv, [Toggle!Next]_(Toggle!vars) PROVE FlipInv'
<1>1. CASE UNCHANGED Toggle!vars BY <1>1, FlipStutter
<1>2. CASE \E m \in ToggleReports : Toggle!Report(m) BY <1>2, FlipReportStep
<1>3. CASE Toggle!HubServes \/ Toggle!ServeHistory \/ Toggle!OnMessage \/ Toggle!OnHistory
  BY <1>3, HubStep, ServeHistoryStep, FlipMessageStep, FlipHistoryStep
<1>4. CASE Toggle!handleFlip BY <1>4, FlipStep
<1>5. CASE \E p \in posts : Toggle!ServePost(p) \/ \E ok \in BOOLEAN : Toggle!Answered(p, ok) BY <1>5, PostStep, FlipAnsweredStep
<1>6. CASE \E t \in timers : Toggle!Timeout(t) BY <1>6, FlipTimeoutStep
<1>7. CASE \E c \in Configs : Toggle!Save(c) BY <1>7, FlipSaveStep
<1> QED BY <1>1, <1>2, <1>3, <1>4, <1>5, <1>6, <1>7 DEF Toggle!Next

-----------------------------------------------------------------------------
LEMMA FlipKept ==
  ASSUME Toggle!ConfigsFit
  PROVE  FlipRuns => []FlipInv
<1>1. Toggle!Init => FlipInv BY FlipStart
<1>2. FlipInv /\ [Toggle!Next]_(Toggle!vars) => FlipInv' BY FlipStepKeeps
<1> QED BY <1>1, <1>2, PTL DEF FlipRuns

(* The toggle's values have their types, the number of the message it      *)
(* shows among those of its topic (TogglePanel.tsx).                       *)
THEOREM ToggleTypeHolds ==
  ASSUME Toggle!ConfigsFit
  PROVE  FlipRuns => []Toggle!TypeOK
<1>1. ASSUME FlipInv PROVE Toggle!TypeOK
  <2>1. FlipKey \in Toggle!Keys /\ Toggle!Newest(FlipKey) \in Nat BY <1>1, FlipKeysFit, Lengths DEF FlipInv, FlipShapes, FlipKey
  <2>2. updatedAt \in 0..Toggle!Newest(FlipKey) BY <1>1, <2>1 DEF FlipInv, Shown
  <2>3. state \in Toggle!States \cup {Toggle!NoState} BY <1>1, ParseFits DEF FlipInv, Shown, Reading
  <2>4. timeoutRef \in {Toggle!None, 1, 2} /\ timers \subseteq {1, 2} /\ (pending = Toggle!NoState <=> timeoutRef = Toggle!None)
    BY <1>1, NoNumber DEF FlipInv, FlipWaits
  <2> QED BY <1>1, <2>2, <2>3, <2>4 DEF FlipInv, FlipShapes, Toggle!TypeOK, FlipKey
<1> QED BY <1>1, FlipKept, PTL

(* For any configurations and messages, a flip waits with exactly the one  *)
(* timer that the panel would clear, whatever was saved, answered or       *)
(* reported in between (TogglePanel.tsx, timeoutRef).                      *)
THEOREM ToggleOneTimerHolds ==
  ASSUME Toggle!ConfigsFit
  PROVE  FlipRuns => []Toggle!OneTimer
<1>1. FlipInv => Toggle!OneTimer BY DEF FlipInv, FlipWaits, Toggle!OneTimer
<1> QED BY <1>1, FlipKept, PTL

(* Whatever is flipped, reported and saved in between, a toggle whose      *)
(* messages and history have all come in shows the newest message of its   *)
(* topic, read the way its configuration says, if it was told of it and    *)
(* did not apply an older one after a newer (TogglePanel.tsx, onMessage    *)
(* and loadLatest).                                                        *)
THEOREM ToggleShowsNewest ==
  ASSUME Toggle!ConfigsFit
  PROVE  FlipRuns => []Toggle!ShowsNewest
<1>1. ASSUME FlipInv PROVE Toggle!ShowsNewest
  <2> USE <1>1 DEF FlipInv
  <2> SUFFICES ASSUME Toggle!Quiet, reached = Toggle!Newest(FlipKey), updatedAt = newest
               PROVE  /\ updatedAt = reached
                      /\ state = IF reached = 0 THEN Toggle!NoState ELSE Toggle!parseToggleState(config, log[FlipKey][reached])
    BY DEF Toggle!ShowsNewest, FlipKey
  <2>1. ~FlipComing /\ ~OnItsWay
    <3>1. DOMAIN frames = {} /\ history # "answered" BY DEF Toggle!Quiet
    <3> QED BY <3>1 DEF Caught, FlipComing, OnItsWay
  <2>2. updatedAt = reached BY <2>1 DEF Caught
  <2> QED BY <2>2 DEF Shown, Reading
<1> QED BY <1>1, FlipKept, PTL

(* A flip stops waiting without a warning only when the toggle reads the   *)
(* state that was asked for, unless another configuration was saved        *)
(* (TogglePanel.tsx).                                                      *)
THEOREM ToggleEndsWellHolds ==
  ASSUME Toggle!ConfigsFit
  PROVE  FlipRuns => [][Toggle!EndsWell]_(Toggle!vars)
<1>1. ASSUME FlipInv, Toggle!Next PROVE Toggle!EndsWell
  <2> USE <1>1 DEF Toggle!EndsWell, FlipInv
  <2>1. ASSUME NEW n, Toggle!Apply(n) PROVE Toggle!EndsWell BY <2>1 DEF Toggle!Apply, Toggle!flip, Toggle!Mark
  <2>2. UNCHANGED Toggle!flip => Toggle!EndsWell BY DEF Toggle!flip
  <2>3. CASE \E m \in ToggleReports : Toggle!Report(m) BY <2>2, <2>3 DEF Toggle!Report
  <2>4. CASE Toggle!HubServes \/ Toggle!ServeHistory BY <2>2, <2>4 DEF Toggle!HubServes, Toggle!ServeHistory
  <2>5. CASE Toggle!OnMessage BY <2>1, <2>2, <2>5 DEF Toggle!OnMessage
  <2>6. CASE Toggle!OnHistory BY <2>1, <2>2, <2>6 DEF Toggle!OnHistory
  <2>7. CASE Toggle!handleFlip BY <2>7 DEF Toggle!handleFlip, Toggle!disabled
  <2>8. ASSUME NEW p \in posts, Toggle!ServePost(p) PROVE Toggle!EndsWell BY <2>2, <2>8 DEF Toggle!ServePost
  <2>9. ASSUME NEW p \in posts, NEW ok \in BOOLEAN, Toggle!Answered(p, ok) PROVE Toggle!EndsWell BY <2>2, <2>9 DEF Toggle!Answered
  <2>10. CASE \E t \in timers : Toggle!Timeout(t) BY <2>10 DEF Toggle!Timeout
  <2>11. CASE \E c \in Configs : Toggle!Save(c)
    <3>1. config' # config BY <2>11 DEF Toggle!Save
    <3> QED BY <3>1
  <2> QED BY <2>3, <2>4, <2>5, <2>6, <2>7, <2>8, <2>9, <2>10, <2>11 DEF Toggle!Next
<1> QED BY <1>1, FlipKept, PTL DEF FlipRuns


-----------------------------------------------------------------------------
(***************************************************************************)
(* The toggle's window (ToggleWindow).  The draft is a configuration with  *)
(* a broker; one away on a trip is what the return is measured by.         *)
(***************************************************************************)
(* Its runs, with no fairness assumed. *)
ToggleEditRuns == ToggleEdit!Init /\ [][ToggleEdit!Next]_(ToggleEdit!vars)
ToggleEditDrafts == {c \in ToggleEdit!Config : c.broker \in Brokers}
ToggleEditWindowInv ==
    /\ stored \in ToggleEdit!Config /\ (draft = <<>> \/ draft \in {<<c>> : c \in ToggleEditDrafts})
    /\ away = <<>> \/ away \in {<<[target |-> t, draft |-> c]>> : t \in ToggleEdit!Targets, c \in ToggleEditDrafts}
    /\ draft = <<>> \/ away = <<>>
    /\ ToggleEdit!PickLands

LEMMA Chips == \A t \in ToggleEdit!Templates : ToggleEdit!OrChip(t) \in ToggleEdit!Templates
BY DEF ToggleEdit!OrChip, ToggleEdit!Templates

LEMMA ToggleEditChosen ==
  ASSUME ToggleEdit!WindowFits, NEW b \in Brokers \cup {""}, NEW c \in Brokers \cup {""}
  PROVE  ToggleEdit!OrBroker(b, c) \in Brokers /\ (b # "" => ToggleEdit!OrBroker(b, c) = b)
BY DEF ToggleEdit!WindowFits, ToggleEdit!OrBroker

LEMMA Fields ==
  ASSUME NEW c \in ToggleEdit!Config
  PROVE  /\ c.separateRead \in BOOLEAN /\ c.broker \in Brokers \cup {""} /\ c.stateBroker \in Brokers \cup {""}
         /\ c.topic \in ToggleTexts \cup {<<p>> : p \in TogglePicks} /\ c.stateTopic \in ToggleTexts \cup {<<p>> : p \in TogglePicks}
         /\ c.readTemplate \in ToggleEdit!Templates /\ c.payloadTemplate \in ToggleEdit!Templates /\ c.on \in ToggleValues /\ c.off \in ToggleValues
BY DEF ToggleEdit!Config

LEMMA ToggleEditClosed == ASSUME draft' = <<>>, returned' = <<>> PROVE ToggleEdit!PickLands'
BY DEF ToggleEdit!PickLands

LEMMA ToggleEditStartKeeps == ASSUME ToggleEdit!WindowFits, ToggleEdit!Init PROVE ToggleEditWindowInv
<1>1. stored \in ToggleEdit!Config /\ draft = <<>> /\ away = <<>> /\ returned = <<>> BY DEF ToggleEdit!Init, ToggleEdit!WindowFits
<1>2. ToggleEdit!PickLands BY <1>1 DEF ToggleEdit!PickLands
<1> QED BY <1>1, <1>2 DEF ToggleEditWindowInv

LEMMA ToggleEditEditStep ==
  ASSUME ToggleEdit!WindowFits, ToggleEditWindowInv, NEW field, NEW values, ToggleEdit!Edit(field, values),
         \A v \in values : [ToggleEdit!d EXCEPT ![field] = v] \in ToggleEditDrafts
  PROVE  ToggleEditWindowInv'
<1>1. draft' \in {<<c>> : c \in ToggleEditDrafts} /\ returned' = <<>> /\ UNCHANGED <<stored, away>> /\ draft # <<>>
  BY DEF ToggleEdit!Edit
<1> QED BY <1>1 DEF ToggleEditWindowInv, ToggleEdit!PickLands

LEMMA ToggleEditOneField ==
  ASSUME NEW c \in ToggleEditDrafts
  PROVE  /\ \A v \in ToggleTexts : [c EXCEPT !["topic"] = v] \in ToggleEditDrafts /\ [c EXCEPT !["stateTopic"] = v] \in ToggleEditDrafts
         /\ \A v \in Brokers : [c EXCEPT !["broker"] = v] \in ToggleEditDrafts /\ [c EXCEPT !["stateBroker"] = v] \in ToggleEditDrafts
         /\ \A v \in BOOLEAN : [c EXCEPT !["separateRead"] = v] \in ToggleEditDrafts
         /\ \A v \in ToggleEdit!Templates : [c EXCEPT !["payloadTemplate"] = v] \in ToggleEditDrafts /\ [c EXCEPT !["readTemplate"] = v] \in ToggleEditDrafts
         /\ \A v \in ToggleValues : [c EXCEPT !["on"] = v] \in ToggleEditDrafts /\ [c EXCEPT !["off"] = v] \in ToggleEditDrafts
BY DEF ToggleEditDrafts, ToggleEdit!Config

LEMMA EditsKeep ==
  ASSUME ToggleEdit!WindowFits, ToggleEditWindowInv, draft # <<>>,
         \/ ToggleEdit!Edit("topic", ToggleTexts) \/ ToggleEdit!Edit("broker", Brokers) \/ ToggleEdit!Edit("separateRead", BOOLEAN)
         \/ ToggleEdit!Edit("payloadTemplate", ToggleEdit!Templates) \/ ToggleEdit!Edit("on", ToggleValues) \/ ToggleEdit!Edit("off", ToggleValues)
         \/ ToggleEdit!EditStateTopic \/ ToggleEdit!EditStateBroker
  PROVE  ToggleEditWindowInv'
<1>1. ToggleEdit!d \in ToggleEditDrafts BY DEF ToggleEditWindowInv, ToggleEdit!d
<1>2. CASE ToggleEdit!Edit("topic", ToggleTexts) BY <1>1, <1>2, ToggleEditOneField, ToggleEditEditStep
<1>3. CASE ToggleEdit!Edit("broker", Brokers) BY <1>1, <1>3, ToggleEditOneField, ToggleEditEditStep
<1>4. CASE ToggleEdit!Edit("separateRead", BOOLEAN) BY <1>1, <1>4, ToggleEditOneField, ToggleEditEditStep
<1>5. CASE ToggleEdit!Edit("payloadTemplate", ToggleEdit!Templates) BY <1>1, <1>5, ToggleEditOneField, ToggleEditEditStep
<1>6. CASE ToggleEdit!Edit("on", ToggleValues) BY <1>1, <1>6, ToggleEditOneField, ToggleEditEditStep
<1>7. CASE ToggleEdit!Edit("off", ToggleValues) BY <1>1, <1>7, ToggleEditOneField, ToggleEditEditStep
<1>8. CASE ToggleEdit!EditStateTopic BY <1>1, <1>8, ToggleEditOneField, ToggleEditEditStep DEF ToggleEdit!EditStateTopic
<1>9. CASE ToggleEdit!EditStateBroker
  <2>1. ToggleEdit!Edit("stateBroker", Brokers \ {ToggleEdit!effectiveStateBroker}) BY <1>9 DEF ToggleEdit!EditStateBroker
  <2>2. \A v \in Brokers \ {ToggleEdit!effectiveStateBroker} : [ToggleEdit!d EXCEPT !["stateBroker"] = v] \in ToggleEditDrafts BY <1>1, ToggleEditOneField
  <2> QED BY <2>1, <2>2, ToggleEditEditStep
<1> QED BY <1>2, <1>3, <1>4, <1>5, <1>6, <1>7, <1>8, <1>9

LEMMA ToggleEditExploreStep == ASSUME ToggleEdit!WindowFits, ToggleEditWindowInv, NEW t \in ToggleEdit!Targets, ToggleEdit!Explore(t) PROVE ToggleEditWindowInv'
<1>1. ToggleEdit!d \in ToggleEditDrafts BY DEF ToggleEditWindowInv, ToggleEdit!d, ToggleEdit!Explore
<1>2. away' \in {<<[target |-> u, draft |-> c]>> : u \in ToggleEdit!Targets, c \in ToggleEditDrafts} BY <1>1 DEF ToggleEdit!Explore
<1>3. stored' = stored /\ draft' = <<>> /\ returned' = <<>> BY DEF ToggleEdit!Explore
<1>4. ToggleEdit!PickLands' BY <1>3, ToggleEditClosed
<1> QED BY <1>2, <1>3, <1>4 DEF ToggleEditWindowInv

LEMMA ToggleEditReturnStep == ASSUME ToggleEdit!WindowFits, ToggleEditWindowInv, NEW p \in TogglePicks, NEW b \in Brokers, ToggleEdit!Return(<<p>>, b) PROVE ToggleEditWindowInv'
<1>1. PICK t \in ToggleEdit!Targets, e \in ToggleEditDrafts : away = <<[target |-> t, draft |-> e]>> BY DEF ToggleEditWindowInv, ToggleEdit!Return
<1>2. away[1] = [target |-> t, draft |-> e] BY <1>1
<1>3. away[1].target = t /\ away[1].draft = e BY <1>2
<1>4. e \in ToggleEdit!Config /\ e.broker \in Brokers /\ e.broker # "" BY DEF ToggleEditDrafts, ToggleEdit!WindowFits
<1>5. stored.broker \in Brokers \cup {""}
  <2>1. stored \in ToggleEdit!Config BY DEF ToggleEditWindowInv
  <2> QED BY <2>1, Fields
<1>6. ToggleEdit!OrBroker(e.broker, stored.broker) = e.broker /\ ToggleEdit!OrBroker(b, stored.broker) = b
  <2>1. b # "" BY DEF ToggleEdit!WindowFits
  <2> QED BY <1>4, <1>5, <2>1, ToggleEditChosen
<1> DEFINE State == [e EXCEPT !.stateTopic = <<p>>, !.stateBroker = b, !.payloadTemplate = ToggleEdit!OrChip(@)]
           Command == [e EXCEPT !.topic = <<p>>, !.broker = b, !.payloadTemplate = ToggleEdit!OrChip(@)]
<1>7. State \in ToggleEditDrafts /\ Command \in ToggleEditDrafts
  <2>1. ToggleEdit!OrChip(e.payloadTemplate) \in ToggleEdit!Templates BY <1>4, Chips, Fields
  <2>2. <<p>> \in ToggleTexts \cup {<<q>> : q \in TogglePicks} OBVIOUS
  <2> QED BY <1>4, <2>1, <2>2 DEF ToggleEditDrafts, ToggleEdit!Config
<1>8. draft' = <<IF t = "stateTopic" THEN State ELSE Command>>
  <2>1. [e EXCEPT !.stateTopic = <<p>>, !.stateBroker = b, !.payloadTemplate = ToggleEdit!OrChip(@), !.broker = ToggleEdit!OrBroker(@, stored.broker)]
          = State
    <3>1. e.broker = ToggleEdit!OrBroker(e.broker, stored.broker) BY <1>6
    <3>2. [State EXCEPT !.broker = e.broker] = State BY <1>4 DEF ToggleEdit!Config
    <3> QED BY <1>4, <3>1, <3>2 DEF ToggleEdit!Config
  <2>2. [e EXCEPT !.topic = <<p>>, !.payloadTemplate = ToggleEdit!OrChip(@), !.broker = ToggleEdit!OrBroker(b, stored.broker)] = Command
    BY <1>4, <1>6 DEF ToggleEdit!Config
  <2>3. draft' = <<IF t = "stateTopic"
                   THEN [e EXCEPT !.stateTopic = <<p>>, !.stateBroker = b, !.payloadTemplate = ToggleEdit!OrChip(@),
                                  !.broker = ToggleEdit!OrBroker(@, stored.broker)]
                   ELSE [e EXCEPT !.topic = <<p>>, !.payloadTemplate = ToggleEdit!OrChip(@), !.broker = ToggleEdit!OrBroker(b, stored.broker)]>>
    BY <1>3 DEF ToggleEdit!Return, ToggleEdit!PickedFor
  <2> QED BY <2>1, <2>2, <2>3
<1>9. ToggleEdit!PickLands'
  <2>1. returned' = <<[topic |-> <<p>>, broker |-> b, trip |-> [target |-> t, draft |-> e]]>> BY <1>2 DEF ToggleEdit!Return
  <2>2. /\ returned'[1].topic = <<p>> /\ returned'[1].broker = b
        /\ returned'[1].trip.target = t /\ returned'[1].trip.draft = e
    BY <2>1
  <2>3. t = "topic" <=> t # "stateTopic" BY DEF ToggleEdit!Targets
  <2>4. ToggleEdit!d' = IF t = "topic" THEN Command ELSE State BY <1>8, <2>3 DEF ToggleEdit!d
  <2> QED BY <2>2, <2>4 DEF ToggleEdit!PickLands
<1>10. UNCHANGED stored /\ away' = <<>> BY DEF ToggleEdit!Return
<1>11. draft' \in {<<c>> : c \in ToggleEditDrafts} BY <1>7, <1>8
<1> QED BY <1>9, <1>10, <1>11 DEF ToggleEditWindowInv

LEMMA ToggleEditOpenStep == ASSUME ToggleEdit!WindowFits, ToggleEditWindowInv, ToggleEdit!Open PROVE ToggleEditWindowInv'
<1>1. stored \in ToggleEdit!Config BY DEF ToggleEditWindowInv
<1>2. ToggleEdit!OrChip(stored.payloadTemplate) \in ToggleEdit!Templates /\ ToggleEdit!OrBroker("", stored.broker) \in Brokers
  BY <1>1, Chips, ToggleEditChosen, Fields
<1>3. [stored EXCEPT !.payloadTemplate = ToggleEdit!OrChip(@), !.broker = ToggleEdit!OrBroker("", @)] \in ToggleEditDrafts
  BY <1>1, <1>2 DEF ToggleEditDrafts, ToggleEdit!Config
<1>4. draft' \in {<<c>> : c \in ToggleEditDrafts} /\ UNCHANGED <<stored, away>> /\ returned' = <<>> /\ away = <<>>
  BY <1>3 DEF ToggleEdit!Open
<1> QED BY <1>4 DEF ToggleEditWindowInv, ToggleEdit!PickLands

LEMMA ToggleEditSaveStep == ASSUME ToggleEdit!WindowFits, ToggleEditWindowInv, ToggleEdit!Save PROVE ToggleEditWindowInv'
<1>1. ToggleEdit!d \in ToggleEditDrafts /\ ToggleEdit!d \in ToggleEdit!Config BY DEF ToggleEditWindowInv, ToggleEdit!d, ToggleEdit!Save, ToggleEditDrafts
<1>2. /\ ToggleEdit!d.separateRead \in BOOLEAN /\ ToggleEdit!d.broker \in Brokers /\ ToggleEdit!d.broker # "" /\ ToggleEdit!d.stateBroker \in Brokers \cup {""}
      /\ <<>> \in ToggleTexts /\ ToggleEdit!Unset \in ToggleEdit!Templates /\ Fallback \in Brokers
  BY <1>1, Fields DEF ToggleEditDrafts, ToggleEdit!WindowFits, ToggleEdit!Unset, ToggleEdit!Templates
<1>3. ToggleEdit!SavedBroker \in Brokers \cup {""} BY <1>2 DEF ToggleEdit!SavedBroker, ToggleEdit!effectiveStateBroker
<1>4. stored' \in ToggleEdit!Config BY <1>1, <1>2, <1>3 DEF ToggleEdit!Save, ToggleEdit!Config
<1> QED BY <1>4, ToggleEditClosed DEF ToggleEditWindowInv, ToggleEdit!Save

LEMMA ToggleEditStepKeeps == ASSUME ToggleEdit!WindowFits, ToggleEditWindowInv, [ToggleEdit!Next]_(ToggleEdit!vars) PROVE ToggleEditWindowInv'
<1>1. CASE UNCHANGED ToggleEdit!vars BY <1>1 DEF ToggleEdit!vars, ToggleEditWindowInv, ToggleEdit!PickLands, ToggleEdit!d
<1>2. CASE ToggleEdit!Open BY <1>2, ToggleEditOpenStep
<1>3. CASE ToggleEdit!Forget BY <1>3 DEF ToggleEdit!Forget, ToggleEditWindowInv, ToggleEdit!PickLands, ToggleEdit!d
<1>4. CASE ToggleEdit!Save BY <1>4, ToggleEditSaveStep
<1>5. CASE ToggleEdit!Cancel BY <1>5, ToggleEditClosed DEF ToggleEdit!Cancel, ToggleEditWindowInv
<1>6. CASE draft # <<>> /\ \/ ToggleEdit!Edit("topic", ToggleTexts) \/ ToggleEdit!Edit("broker", Brokers) \/ ToggleEdit!Edit("separateRead", BOOLEAN)
                           \/ ToggleEdit!Edit("payloadTemplate", ToggleEdit!Templates) \/ ToggleEdit!Edit("on", ToggleValues) \/ ToggleEdit!Edit("off", ToggleValues)
                           \/ ToggleEdit!EditStateTopic \/ ToggleEdit!EditStateBroker
  BY <1>6, EditsKeep
<1>7. CASE \E t \in ToggleEdit!Targets : ToggleEdit!Explore(t) BY <1>7, ToggleEditExploreStep
<1>8. CASE \E p \in TogglePicks, b \in Brokers : ToggleEdit!Return(<<p>>, b) BY <1>8, ToggleEditReturnStep
<1> QED BY <1>1, <1>2, <1>3, <1>4, <1>5, <1>6, <1>7, <1>8 DEF ToggleEdit!Next

LEMMA ToggleEditKept ==
  ASSUME ToggleEdit!WindowFits
  PROVE  ToggleEditRuns => []ToggleEditWindowInv
<1>1. ToggleEdit!Init => ToggleEditWindowInv BY ToggleEditStartKeeps
<1>2. ToggleEditWindowInv /\ [ToggleEdit!Next]_(ToggleEdit!vars) => ToggleEditWindowInv' BY ToggleEditStepKeeps
<1> QED BY <1>1, <1>2, PTL DEF ToggleEditRuns

(* The toggle's window holds a configuration with a broker, and is never   *)
(* open while the explorer picks for it (ToggleConfigModal).               *)
THEOREM ToggleWindowTypeHolds ==
  ASSUME ToggleEdit!WindowFits
  PROVE  ToggleEditRuns => []ToggleEdit!TypeOK
<1>1. ASSUME ToggleEditWindowInv PROVE ToggleEdit!TypeOK
  <2>1. draft = <<>> \/ (ToggleEdit!d \in ToggleEdit!Config /\ ToggleEdit!d.broker \in Brokers) BY <1>1 DEF ToggleEditWindowInv, ToggleEditDrafts, ToggleEdit!d
  <2>2. away = <<>> \/ (away[1].target \in ToggleEdit!Targets /\ away[1].draft \in ToggleEdit!Config)
    BY <1>1 DEF ToggleEditWindowInv, ToggleEditDrafts
  <2> QED BY <1>1, <2>1, <2>2 DEF ToggleEditWindowInv, ToggleEdit!TypeOK
<1> QED BY <1>1, ToggleEditKept, PTL

(* A topic that was picked in the explorer lands in the field it was       *)
(* picked for with its broker, over any edits and trips, and no other      *)
(* entry changes (ToggleConfigModal, the draft that travels with the       *)
(* trip).                                                                  *)
THEOREM TogglePicksLand ==
  ASSUME ToggleEdit!WindowFits
  PROVE  ToggleEditRuns => []ToggleEdit!PickLands
<1>1. ToggleEditWindowInv => ToggleEdit!PickLands BY DEF ToggleEditWindowInv
<1> QED BY <1>1, ToggleEditKept, PTL

\* What Save stores, field by field.
LEMMA Saved ==
  ASSUME ToggleEdit!WindowFits, ToggleEditWindowInv, ToggleEdit!Save
  PROVE  /\ ToggleEdit!d \in ToggleEditDrafts /\ ToggleEdit!d \in ToggleEdit!Config /\ ToggleEdit!Accepted
         /\ stored'.topic = ToggleEdit!d.topic /\ stored'.separateRead = ToggleEdit!d.separateRead /\ stored'.broker = ToggleEdit!d.broker
         /\ stored'.stateTopic = (IF ToggleEdit!d.separateRead THEN ToggleEdit!d.stateTopic ELSE <<>>)
         /\ stored'.stateBroker = ToggleEdit!SavedBroker
         /\ stored'.readTemplate = (IF ToggleEdit!d.separateRead THEN ToggleEdit!d.readTemplate ELSE "blank")
         /\ stored'.payloadTemplate = ToggleEdit!d.payloadTemplate /\ stored'.on = ToggleEdit!d.on /\ stored'.off = ToggleEdit!d.off
<1>1. ToggleEdit!d \in ToggleEditDrafts /\ ToggleEdit!d \in ToggleEdit!Config BY DEF ToggleEditWindowInv, ToggleEdit!d, ToggleEdit!Save, ToggleEditDrafts
<1>2. ToggleEdit!d.broker # "" BY <1>1 DEF ToggleEditDrafts, ToggleEdit!WindowFits
<1> QED BY <1>1, <1>2 DEF ToggleEdit!Save, ToggleEdit!Config, ToggleEdit!Unset

LEMMA TopicsAreLists == ASSUME ToggleEdit!WindowFits, NEW c \in ToggleEdit!Config PROVE c.topic \in Seq(ToggleEdit!Names) /\ c.stateTopic \in Seq(ToggleEdit!Names)
<1>1. ASSUME NEW p \in TogglePicks PROVE <<p>> \in Seq(ToggleEdit!Names)
  <2>1. p \in ToggleEdit!Names BY DEF ToggleEdit!Names
  <2> QED BY <2>1
<1> QED BY <1>1, Fields DEF ToggleEdit!WindowFits

LEMMA One == ASSUME NEW s \in Seq(ToggleEdit!Names), Len(s) = 1 PROVE s # <<>> /\ <<Head(s)>> = s
OBVIOUS

(* What Save stores is read, by the panel's own rules, as the topics and   *)
(* brokers that the window showed (ToggleConfigModal onSave against        *)
(* stateTopic and stateBroker of toggleUtils.ts).                          *)
THEOREM SavedAsTheWindowShows ==
  ASSUME ToggleEdit!WindowFits
  PROVE  ToggleEditRuns => [][ToggleEdit!AsShown]_(ToggleEdit!vars)
<1>1. ASSUME ToggleEditWindowInv, ToggleEdit!Save PROVE ToggleEdit!AsShown
  <2>1. ToggleEdit!d \in ToggleEditDrafts /\ ToggleEdit!d \in ToggleEdit!Config /\ ToggleEdit!Accepted BY <1>1, Saved
  <2>2. ToggleEdit!d.topic \in Seq(ToggleEdit!Names) /\ ToggleEdit!d.stateTopic \in Seq(ToggleEdit!Names) /\ ToggleEdit!d.separateRead \in BOOLEAN
    BY <2>1, TopicsAreLists, Fields
  <2>3. ToggleEdit!d.topic # <<>> /\ <<Head(ToggleEdit!d.topic)>> = ToggleEdit!d.topic /\ (ToggleEdit!d.separateRead => ToggleEdit!d.stateTopic # <<>>)
    BY <2>1, <2>2, One DEF ToggleEdit!Accepted, ToggleEdit!TopicOk
  <2>4. ToggleEdit!commandTopic(stored') = ToggleEdit!d.topic /\ stored'.broker = ToggleEdit!d.broker
    BY <1>1, <2>3, Saved DEF ToggleEdit!commandTopic
  <2>5. ToggleEdit!stateTopic(stored') = IF ToggleEdit!d.separateRead THEN ToggleEdit!d.stateTopic ELSE ToggleEdit!d.topic
    BY <1>1, <2>2, <2>3, <2>4, Saved DEF ToggleEdit!stateTopic
  <2>6. ToggleEdit!effectiveStateBroker # "" BY <2>1 DEF ToggleEdit!effectiveStateBroker, ToggleEditDrafts, ToggleEdit!WindowFits
  <2>7. ToggleEdit!stateBroker(stored') = IF ToggleEdit!d.separateRead THEN ToggleEdit!effectiveStateBroker ELSE ToggleEdit!d.broker
    BY <1>1, <2>2, <2>6, Saved DEF ToggleEdit!stateBroker, ToggleEdit!SavedBroker
  <2> QED BY <2>4, <2>5, <2>7 DEF ToggleEdit!AsShown
<1>2. ToggleEditWindowInv => ToggleEdit!AsShown BY <1>1 DEF ToggleEdit!AsShown
<1> QED BY <1>2, ToggleEditKept, PTL DEF ToggleEditRuns

(* A toggle that the window let save, with values that differ by more than *)
(* case, recognises each of its two values when it comes back in the shape *)
(* it reads (toggleUtils.ts, parseToggleState of toggleWritePayload).      *)
THEOREM SavedIsReadBack ==
  ASSUME ToggleEdit!WindowFits
  PROVE  ToggleEditRuns => [][ToggleEdit!SavedReads]_(ToggleEdit!vars)
<1>1. ASSUME ToggleEditWindowInv, ToggleEdit!Save, Lower[ToggleEdit!d.on] # Lower[ToggleEdit!d.off] PROVE ToggleEdit!ReadsBack(stored')
  <2> DEFINE c == stored'
             template == IF c.separateRead THEN c.readTemplate ELSE c.payloadTemplate
  <2>1. ToggleEdit!d \in ToggleEdit!Config /\ ToggleEdit!Accepted /\ c.on = ToggleEdit!d.on /\ c.off = ToggleEdit!d.off /\ c.separateRead = ToggleEdit!d.separateRead
        /\ c.payloadTemplate = ToggleEdit!d.payloadTemplate /\ (ToggleEdit!d.separateRead => c.readTemplate = ToggleEdit!d.readTemplate)
    BY <1>1, Saved
  <2>2. template \in {"value", "object", "blank"} /\ ToggleEdit!effectiveReadTemplate(c) = template
    BY <2>1 DEF ToggleEdit!Accepted, ToggleEdit!WriteOk, ToggleEdit!ReadOk, ToggleEdit!hasToken, ToggleEdit!effectiveReadTemplate
  <2>3. /\ ToggleEdit!configured(c, "on") = ToggleEdit!d.on /\ ToggleEdit!configured(c, "off") = ToggleEdit!d.off
        /\ Lower[ToggleEdit!d.on] # "" /\ Lower[ToggleEdit!d.off] # ""
    BY <2>1, Fields DEF ToggleEdit!configured, ToggleEdit!Accepted, ToggleEdit!WindowFits
  <2> DEFINE Bare(v) == [shape |-> "value", value |-> Lower[v]]
  <2>4. \A v : ToggleEdit!InLower(ToggleEdit!extractPayloadValue(ToggleEdit!toggleWritePayload(v, template), template)) = Bare(v)
    BY <2>2 DEF ToggleEdit!InLower, ToggleEdit!extractPayloadValue, ToggleEdit!toggleWritePayload, ToggleEdit!renderPayload, ToggleEdit!hasToken
  <2>5. \A s \in ToggleEdit!States : Bare(ToggleEdit!configured(c, s)) \in ToggleEdit!stateReferences(c, s)
    BY DEF ToggleEdit!stateReferences, ToggleEdit!InLower, ToggleEdit!renderPayload
  <2>6. Bare(ToggleEdit!d.off) \notin ToggleEdit!stateReferences(c, "on")
    <3>1. \A t, v : /\ ToggleEdit!renderPayload(t, v).value = v /\ DOMAIN ToggleEdit!renderPayload(t, v) = {"shape", "value"}
                   /\ ToggleEdit!InLower(ToggleEdit!renderPayload(t, v)).value = Lower[v]
      BY DEF ToggleEdit!renderPayload, ToggleEdit!InLower
    <3>2. \A t : ToggleEdit!InLower(ToggleEdit!extractPayloadValue(ToggleEdit!renderPayload("value", ToggleEdit!d.on), t)).value = Lower[ToggleEdit!d.on]
      BY <3>1 DEF ToggleEdit!extractPayloadValue
    <3>3. \A t : ToggleEdit!InLower(ToggleEdit!toggleWritePayload(ToggleEdit!d.on, t)).value = Lower[ToggleEdit!d.on] BY <3>1 DEF ToggleEdit!toggleWritePayload
    <3>5. \A m \in ToggleEdit!stateReferences(c, "on") : m.value = Lower[ToggleEdit!d.on]
      <4> SUFFICES ASSUME NEW m \in ToggleEdit!stateReferences(c, "on") PROVE m.value = Lower[ToggleEdit!d.on]
        OBVIOUS
      <4> DEFINE bare == ToggleEdit!renderPayload("value", ToggleEdit!d.on)
      <4>1. \/ m = ToggleEdit!InLower(bare) \/ m = ToggleEdit!InLower(ToggleEdit!extractPayloadValue(bare, ToggleEdit!effectiveReadTemplate(c)))
            \/ m = ToggleEdit!InLower(ToggleEdit!toggleWritePayload(ToggleEdit!d.on, c.payloadTemplate))
        BY <2>3 DEF ToggleEdit!stateReferences
      <4> QED BY <4>1, <3>1, <3>2, <3>3
    <3>6. Bare(ToggleEdit!d.off).value = Lower[ToggleEdit!d.off] OBVIOUS
    <3> QED BY <1>1, <3>5, <3>6
  <2>7. ToggleEdit!renderPayload("value", "").value = "" BY DEF ToggleEdit!renderPayload
  <2>8. \A s \in ToggleEdit!States : ToggleEdit!parseToggleState(c, ToggleEdit!toggleWritePayload(ToggleEdit!configured(c, s), template)) = s
    <3>0. Bare(ToggleEdit!d.on).value # "" /\ Bare(ToggleEdit!d.off).value # "" BY <2>3
    <3>1. Bare(ToggleEdit!d.on) # ToggleEdit!renderPayload("value", "") /\ Bare(ToggleEdit!d.off) # ToggleEdit!renderPayload("value", "")
      <4> HIDE DEF Bare
      <4> QED BY <2>7, <3>0
    <3>2. ToggleEdit!parseToggleState(c, ToggleEdit!toggleWritePayload(ToggleEdit!d.on, template)) = "on"
      BY <2>2, <2>3, <2>4, <2>5, <3>1 DEF ToggleEdit!parseToggleState, ToggleEdit!States
    <3>3. ToggleEdit!parseToggleState(c, ToggleEdit!toggleWritePayload(ToggleEdit!d.off, template)) = "off"
      BY <2>2, <2>3, <2>4, <2>5, <2>6, <3>1 DEF ToggleEdit!parseToggleState, ToggleEdit!States
    <3> QED BY <2>3, <3>2, <3>3 DEF ToggleEdit!States
  <2> QED BY <2>8 DEF ToggleEdit!ReadsBack
<1>2. ToggleEditWindowInv => ToggleEdit!SavedReads BY <1>1 DEF ToggleEdit!SavedReads
<1> QED BY <1>2, ToggleEditKept, PTL DEF ToggleEditRuns


-----------------------------------------------------------------------------
(***************************************************************************)
(* The slider's window (SliderWindow).  Its draft holds texts where the    *)
(* configuration has numbers; a draft away on a trip holds them as numbers *)
(* (InNumbers), and what came back shows the same ones.                    *)
(***************************************************************************)
(* Its runs, with no fairness assumed. *)
SliderEditRuns == SliderEdit!Init /\ [][SliderEdit!Next]_(SliderEdit!vars)

Entered == DOMAIN Number \cup SliderNumbers
SliderEditDrafts ==
    [topic : SliderEdit!Names, stateTopic : SliderEdit!Names, separateRead : BOOLEAN, broker : Brokers, stateBroker : Brokers \cup {""},
     readTemplate : SliderEdit!Templates, payloadTemplate : SliderEdit!Templates, min : Entered, max : Entered, step : Entered]

SliderEditWindowInv ==
    /\ stored \in SliderEdit!Stored /\ (stored.separateRead \/ stored.readTemplate = "none")
    /\ draft = <<>> \/ draft \in {<<c>> : c \in SliderEditDrafts}
    /\ away = <<>> \/ \E t \in {"topic", "stateTopic"}, c \in SliderEditDrafts :
                          away = <<[target |-> t, draft |-> SliderEdit!InNumbers(c)]>> /\ parted = <<c>>
    /\ draft = <<>> \/ away = <<>>
    /\ SliderEdit!PickLands

LEMMA TextOf == ASSUME NEW n \in SliderEdit!Counts PROVE SliderEdit!Text(n) \in DOMAIN Number /\ Number[SliderEdit!Text(n)] = n
BY DEF SliderEdit!Counts, SliderEdit!Text

LEMMA Numbered ==
  ASSUME SliderEdit!RangeFits, NEW f \in SliderEdit!Fields, NEW t
  PROVE  SliderEdit!asNumber(f, t) \in SliderEdit!Counts
BY DEF SliderEdit!RangeFits, SliderEdit!asNumber, SliderEdit!Counts

LEMMA SliderEditChosen ==
  ASSUME SliderEdit!RangeFits, NEW b \in Brokers \cup {""}, NEW c \in Brokers \cup {""}
  PROVE  SliderEdit!OrBroker(b, c) \in Brokers /\ (b # "" => SliderEdit!OrBroker(b, c) = b)
BY DEF SliderEdit!RangeFits, SliderEdit!OrBroker

LEMMA NoneIsNone == "none" \notin SliderEdit!Templates
BY DEF SliderEdit!Templates

\* The window's entries for a configuration, field by field.
LEMMA ShownIs ==
  ASSUME NEW c \in SliderEdit!Stored, NEW b \in Brokers
  PROVE  LET s == SliderEdit!Shown(c, b) IN
         /\ s \in SliderEditDrafts
         /\ s.topic = c.topic /\ s.stateTopic = c.stateTopic /\ s.separateRead = c.separateRead
         /\ s.broker = b /\ s.stateBroker = c.stateBroker
         /\ c.readTemplate # "none" => s.readTemplate = c.readTemplate
         /\ c.payloadTemplate # "none" => s.payloadTemplate = c.payloadTemplate
         /\ Number[s.min] = c.min /\ Number[s.max] = c.max /\ Number[s.step] = c.step
<1> DEFINE r == SliderEdit!ReadShape(c)
           w == SliderEdit!WriteShape(c)
<1>1. w \in SliderEdit!Templates /\ (c.payloadTemplate # "none" => w = c.payloadTemplate) BY DEF SliderEdit!Stored, SliderEdit!WriteShape, SliderEdit!Templates
<1>2. r \in SliderEdit!Templates /\ (c.readTemplate # "none" => r = c.readTemplate) BY <1>1 DEF SliderEdit!Stored, SliderEdit!ReadShape
<1>3. c.min \in SliderEdit!Counts /\ c.max \in SliderEdit!Counts /\ c.step \in SliderEdit!Counts BY DEF SliderEdit!Stored
<1> DEFINE s == SliderEdit!Shown(c, b)
<1>4. /\ s \in [topic : SliderEdit!Names, stateTopic : SliderEdit!Names, separateRead : BOOLEAN, broker : Brokers, stateBroker : Brokers \cup {""},
                readTemplate : {r}, payloadTemplate : {w}, min : {SliderEdit!Text(c.min)}, max : {SliderEdit!Text(c.max)}, step : {SliderEdit!Text(c.step)}]
      /\ s.topic = c.topic /\ s.stateTopic = c.stateTopic /\ s.separateRead = c.separateRead
      /\ s.broker = b /\ s.stateBroker = c.stateBroker
  BY DEF SliderEdit!Shown, SliderEdit!Stored
<1>5. s.readTemplate = r /\ s.payloadTemplate = w /\ s.min = SliderEdit!Text(c.min) /\ s.max = SliderEdit!Text(c.max) /\ s.step = SliderEdit!Text(c.step)
  BY <1>4
<1>6. SliderEdit!Text(c.min) \in Entered /\ SliderEdit!Text(c.max) \in Entered /\ SliderEdit!Text(c.step) \in Entered
  BY <1>3, TextOf DEF Entered
<1>7. s \in SliderEditDrafts
  <2> HIDE DEF r, w, s
  <2> QED BY <1>1, <1>2, <1>4, <1>6 DEF SliderEditDrafts
<1> QED BY <1>1, <1>2, <1>3, <1>4, <1>5, <1>7, TextOf

\* A draft with its texts made numbers.
LEMMA InNumbersIs ==
  ASSUME SliderEdit!RangeFits, NEW c \in SliderEditDrafts
  PROVE  LET n == SliderEdit!InNumbers(c) IN
         /\ n \in SliderEdit!Stored
         /\ n.topic = c.topic /\ n.stateTopic = c.stateTopic /\ n.separateRead = c.separateRead
         /\ n.broker = c.broker /\ n.stateBroker = c.stateBroker
         /\ n.readTemplate = c.readTemplate /\ n.payloadTemplate = c.payloadTemplate
         /\ n.min = SliderEdit!asNumber("min", c.min) /\ n.max = SliderEdit!asNumber("max", c.max) /\ n.step = SliderEdit!asNumber("step", c.step)
<1>1. /\ SliderEdit!asNumber("min", c.min) \in SliderEdit!Counts /\ SliderEdit!asNumber("max", c.max) \in SliderEdit!Counts
      /\ SliderEdit!asNumber("step", c.step) \in SliderEdit!Counts
  BY Numbered DEF SliderEdit!Fields
<1> HIDE DEF SliderEdit!asNumber
<1> QED BY <1>1 DEF SliderEdit!InNumbers, SliderEdit!Stored, SliderEditDrafts

LEMMA SliderEditClosed == ASSUME draft' = <<>> \/ parted' = <<>> PROVE SliderEdit!PickLands'
BY DEF SliderEdit!PickLands

LEMMA SliderEditStartKeeps == ASSUME SliderEdit!RangeFits, SliderEdit!Init PROVE SliderEditWindowInv
<1>1. stored \in SliderEdit!Stored /\ (stored.separateRead \/ stored.readTemplate = "none") BY DEF SliderEdit!Init, SliderEdit!RangeFits
<1>2. draft = <<>> /\ away = <<>> BY DEF SliderEdit!Init
<1>3. SliderEdit!PickLands BY <1>2 DEF SliderEdit!PickLands
<1> QED BY <1>1, <1>2, <1>3 DEF SliderEditWindowInv

LEMMA InDraft == ASSUME SliderEditWindowInv, draft # <<>> PROVE SliderEdit!d \in SliderEditDrafts /\ draft = <<SliderEdit!d>> /\ away = <<>>
BY DEF SliderEditWindowInv, SliderEdit!d

LEMMA SliderEditOpenStep == ASSUME SliderEdit!RangeFits, SliderEditWindowInv, SliderEdit!Open PROVE SliderEditWindowInv'
<1>1. stored \in SliderEdit!Stored /\ stored.broker \in Brokers \cup {""} BY DEF SliderEditWindowInv, SliderEdit!Stored
<1>2. SliderEdit!OrBroker("", stored.broker) \in Brokers BY <1>1, SliderEditChosen
<1>3. SliderEdit!Shown(stored, SliderEdit!OrBroker("", stored.broker)) \in SliderEditDrafts BY <1>1, <1>2, ShownIs
<1>4. draft' \in {<<c>> : c \in SliderEditDrafts} /\ UNCHANGED <<stored, away>> /\ parted' = <<>> /\ away = <<>>
  BY <1>3 DEF SliderEdit!Open
<1> QED BY <1>4, SliderEditClosed DEF SliderEditWindowInv

LEMMA SliderEditChangeStep ==
  ASSUME SliderEdit!RangeFits, SliderEditWindowInv, draft # <<>>, NEW field, NEW v, SliderEdit!Change(field, v), [SliderEdit!d EXCEPT ![field] = v] \in SliderEditDrafts
  PROVE  SliderEditWindowInv'
<1>1. draft' \in {<<c>> : c \in SliderEditDrafts} /\ parted' = <<>> /\ UNCHANGED <<stored, away>> /\ away = <<>>
  BY InDraft DEF SliderEdit!Change
<1> QED BY <1>1, SliderEditClosed DEF SliderEditWindowInv

LEMMA SliderEditOneField ==
  ASSUME NEW c \in SliderEditDrafts
  PROVE  /\ \A v \in SliderTexts : [c EXCEPT !["topic"] = v] \in SliderEditDrafts /\ [c EXCEPT !["stateTopic"] = v] \in SliderEditDrafts
         /\ \A v \in Brokers : [c EXCEPT !["broker"] = v] \in SliderEditDrafts /\ [c EXCEPT !["stateBroker"] = v] \in SliderEditDrafts
         /\ [c EXCEPT !["separateRead"] = ~c.separateRead] \in SliderEditDrafts
         /\ \A v \in SliderEdit!Templates : [c EXCEPT !["payloadTemplate"] = v] \in SliderEditDrafts /\ [c EXCEPT !["readTemplate"] = v] \in SliderEditDrafts
         /\ \A f \in SliderEdit!Fields, v \in SliderNumbers : [c EXCEPT ![f] = v] \in SliderEditDrafts
         /\ [c EXCEPT !["readTemplate"] = c.payloadTemplate] \in SliderEditDrafts
<1>1. \A v \in SliderTexts : [c EXCEPT !["topic"] = v] \in SliderEditDrafts /\ [c EXCEPT !["stateTopic"] = v] \in SliderEditDrafts
  BY DEF SliderEditDrafts, SliderEdit!Names
<1>2. \A v \in Brokers : [c EXCEPT !["broker"] = v] \in SliderEditDrafts /\ [c EXCEPT !["stateBroker"] = v] \in SliderEditDrafts
  BY DEF SliderEditDrafts
<1>3. [c EXCEPT !["separateRead"] = ~c.separateRead] \in SliderEditDrafts BY DEF SliderEditDrafts
<1>4. \A v \in SliderEdit!Templates : [c EXCEPT !["payloadTemplate"] = v] \in SliderEditDrafts /\ [c EXCEPT !["readTemplate"] = v] \in SliderEditDrafts
  BY DEF SliderEditDrafts
<1>5. \A v \in SliderNumbers : /\ [c EXCEPT !["min"] = v] \in SliderEditDrafts /\ [c EXCEPT !["max"] = v] \in SliderEditDrafts
                               /\ [c EXCEPT !["step"] = v] \in SliderEditDrafts
  BY DEF SliderEditDrafts, Entered
<1>6. c.payloadTemplate \in SliderEdit!Templates BY DEF SliderEditDrafts
<1> QED BY <1>1, <1>2, <1>3, <1>4, <1>5, <1>6 DEF SliderEdit!Fields

LEMMA SliderEditEditStep == ASSUME SliderEdit!RangeFits, SliderEditWindowInv, SliderEdit!Edit \/ SliderEdit!SameAsMessage PROVE SliderEditWindowInv'
<1>1. SliderEdit!d \in SliderEditDrafts /\ draft # <<>> BY InDraft DEF SliderEdit!Edit, SliderEdit!SameAsMessage
<1>2. CASE \E t \in SliderTexts : SliderEdit!Change("topic", t) \/ SliderEdit!Change("stateTopic", t) BY <1>1, <1>2, SliderEditOneField, SliderEditChangeStep
<1>3. CASE \E b \in Brokers : SliderEdit!Change("broker", b) \/ SliderEdit!Change("stateBroker", b) BY <1>1, <1>3, SliderEditOneField, SliderEditChangeStep
<1>4. CASE SliderEdit!Change("separateRead", ~SliderEdit!d.separateRead) BY <1>1, <1>4, SliderEditOneField, SliderEditChangeStep
<1>5. CASE \E s \in SliderEdit!Templates : SliderEdit!Change("payloadTemplate", s) \/ SliderEdit!Change("readTemplate", s)
  BY <1>1, <1>5, SliderEditOneField, SliderEditChangeStep
<1>6. CASE \E f \in SliderEdit!Fields, n \in SliderNumbers : SliderEdit!Change(f, n) BY <1>1, <1>6, SliderEditOneField, SliderEditChangeStep
<1>7. CASE SliderEdit!SameAsMessage BY <1>1, <1>7, SliderEditOneField, SliderEditChangeStep DEF SliderEdit!SameAsMessage
<1> QED BY <1>2, <1>3, <1>4, <1>5, <1>6, <1>7 DEF SliderEdit!Edit

LEMMA SliderEditExploreStep == ASSUME SliderEdit!RangeFits, SliderEditWindowInv, NEW t \in {"topic", "stateTopic"}, SliderEdit!Explore(t) PROVE SliderEditWindowInv'
<1>1. SliderEdit!d \in SliderEditDrafts BY InDraft DEF SliderEdit!Explore
<1>2. away' = <<[target |-> t, draft |-> SliderEdit!InNumbers(SliderEdit!d)]>> /\ draft' = <<>> /\ parted' = <<SliderEdit!d>> /\ UNCHANGED stored
  BY DEF SliderEdit!Explore
<1>3. \E u \in {"topic", "stateTopic"}, c \in SliderEditDrafts :
        away' = <<[target |-> u, draft |-> SliderEdit!InNumbers(c)]>> /\ parted' = <<c>>
  BY <1>1, <1>2
<1>4. SliderEdit!PickLands' BY <1>2, SliderEditClosed
<1> QED BY <1>2, <1>3, <1>4 DEF SliderEditWindowInv

LEMMA SliderEditReturnStep ==
  ASSUME SliderEdit!RangeFits, SliderEditWindowInv, NEW p \in SliderPicks, NEW b \in Brokers, SliderEdit!Return(<<p>>, b)
  PROVE  SliderEditWindowInv'
<1>1. PICK t \in {"topic", "stateTopic"}, e \in SliderEditDrafts :
        away = <<[target |-> t, draft |-> SliderEdit!InNumbers(e)]>> /\ parted = <<e>>
  BY DEF SliderEditWindowInv, SliderEdit!Return
<1>2. away[1].target = t /\ away[1].draft = SliderEdit!InNumbers(e) /\ parted[1] = e BY <1>1
<1>3. PICK n : n = SliderEdit!InNumbers(e) OBVIOUS
<1>4. /\ n \in SliderEdit!Stored
      /\ n.topic = e.topic /\ n.stateTopic = e.stateTopic /\ n.separateRead = e.separateRead
      /\ n.broker = e.broker /\ n.stateBroker = e.stateBroker
      /\ n.readTemplate = e.readTemplate /\ n.payloadTemplate = e.payloadTemplate
      /\ n.min = SliderEdit!asNumber("min", e.min) /\ n.max = SliderEdit!asNumber("max", e.max) /\ n.step = SliderEdit!asNumber("step", e.step)
  BY <1>3, InNumbersIs
<1>5. <<p>> \in SliderEdit!Names /\ b # "" BY DEF SliderEdit!Names, SliderEdit!RangeFits
<1>6. stored.broker \in Brokers \cup {""} BY DEF SliderEditWindowInv, SliderEdit!Stored
<1>7. e.broker \in Brokers /\ e.broker # "" BY DEF SliderEditDrafts, SliderEdit!RangeFits
<1>8. SliderEdit!OrBroker(n.broker, stored.broker) = e.broker /\ SliderEdit!OrBroker(b, stored.broker) = b
  BY <1>4, <1>5, <1>6, <1>7, SliderEditChosen
<1>9. e.readTemplate # "none" /\ e.payloadTemplate # "none" BY NoneIsNone DEF SliderEditDrafts
<1>10. UNCHANGED stored /\ away' = <<>> /\ parted' = <<e, t, <<p>>, b>> BY <1>2 DEF SliderEdit!Return
<1>11. ASSUME NEW c \in SliderEdit!Stored, c.payloadTemplate = e.payloadTemplate, c.readTemplate = e.readTemplate,
              c.separateRead = e.separateRead, c.min = n.min, c.max = n.max, c.step = n.step,
              NEW broker \in Brokers, draft' = <<SliderEdit!Shown(c, broker)>>,
              IF t = "topic" THEN c.topic = <<p>> /\ broker = b /\ c.stateTopic = e.stateTopic /\ c.stateBroker = e.stateBroker
              ELSE c.stateTopic = <<p>> /\ c.stateBroker = b /\ c.topic = e.topic /\ broker = e.broker
       PROVE  SliderEditWindowInv'
  <2>1. PICK s : s = SliderEdit!Shown(c, broker) OBVIOUS
  <2>2. /\ s \in SliderEditDrafts
        /\ s.topic = c.topic /\ s.stateTopic = c.stateTopic /\ s.separateRead = c.separateRead
        /\ s.broker = broker /\ s.stateBroker = c.stateBroker
        /\ s.readTemplate = c.readTemplate /\ s.payloadTemplate = c.payloadTemplate
        /\ Number[s.min] = c.min /\ Number[s.max] = c.max /\ Number[s.step] = c.step
    BY <1>9, <1>11, <2>1, ShownIs
  <2>3. SliderEdit!d' = s /\ draft' = <<s>> BY <1>11, <2>1 DEF SliderEdit!d
  <2>4. parted'[1] = e /\ parted'[2] = t /\ parted'[3] = <<p>> /\ parted'[4] = b BY <1>10
  <2>5. \A f \in SliderEdit!Fields : Number[s[f]] = IF e[f] \in DOMAIN Number THEN Number[e[f]] ELSE SliderEdit!Default[f]
    BY <1>4, <1>11, <2>2 DEF SliderEdit!Fields, SliderEdit!asNumber
  <2>6. IF t = "topic" THEN s.topic = <<p>> /\ s.broker = b /\ s.stateTopic = e.stateTopic /\ s.stateBroker = e.stateBroker
        ELSE s.stateTopic = <<p>> /\ s.stateBroker = b /\ s.topic = e.topic /\ s.broker = e.broker
    BY <1>11, <2>2
  <2>7. s.payloadTemplate = e.payloadTemplate /\ s.readTemplate = e.readTemplate /\ s.separateRead = e.separateRead
    BY <1>11, <2>2
  <2>8. SliderEdit!PickLands' BY <2>3, <2>4, <2>5, <2>6, <2>7 DEF SliderEdit!PickLands
  <2>9. draft' \in {<<x>> : x \in SliderEditDrafts} BY <2>2, <2>3
  <2> QED BY <1>10, <2>8, <2>9 DEF SliderEditWindowInv
<1>12. CASE t = "stateTopic"
  <2>1. PICK c : c = [n EXCEPT !.stateTopic = <<p>>, !.stateBroker = b] OBVIOUS
  <2>2. /\ c \in SliderEdit!Stored /\ c.payloadTemplate = n.payloadTemplate /\ c.readTemplate = n.readTemplate
        /\ c.separateRead = n.separateRead /\ c.min = n.min /\ c.max = n.max /\ c.step = n.step
        /\ c.stateTopic = <<p>> /\ c.stateBroker = b /\ c.topic = n.topic
    BY <1>4, <1>5, <2>1 DEF SliderEdit!Stored
  <2>3. draft' = <<SliderEdit!Shown(c, e.broker)>> BY <1>2, <1>3, <1>8, <1>12, <2>1 DEF SliderEdit!Return, SliderEdit!Kept
  <2> QED BY <1>4, <1>7, <1>11, <1>12, <2>2, <2>3
<1>13. CASE t = "topic"
  <2>1. PICK c : c = [n EXCEPT !.topic = <<p>>] OBVIOUS
  <2>2. /\ c \in SliderEdit!Stored /\ c.payloadTemplate = n.payloadTemplate /\ c.readTemplate = n.readTemplate
        /\ c.separateRead = n.separateRead /\ c.min = n.min /\ c.max = n.max /\ c.step = n.step
        /\ c.stateTopic = n.stateTopic /\ c.stateBroker = n.stateBroker /\ c.topic = <<p>>
    BY <1>4, <1>5, <2>1 DEF SliderEdit!Stored
  <2>3. draft' = <<SliderEdit!Shown(c, b)>> BY <1>2, <1>3, <1>8, <1>13, <2>1 DEF SliderEdit!Return, SliderEdit!Kept
  <2> QED BY <1>4, <1>11, <1>13, <2>2, <2>3
<1> QED BY <1>12, <1>13

\* What Save stores: the numbers typed, or the defaults in the place of infinite ones.
LEMMA SaveIs ==
  ASSUME SliderEdit!RangeFits, SliderEditWindowInv, SliderEdit!Save
  PROVE  /\ SliderEdit!d \in SliderEditDrafts /\ SliderEdit!RangeOk /\ stored' \in SliderEdit!Stored
         /\ stored'.separateRead \/ stored'.readTemplate = "none"
         /\ stored'.min = SliderEdit!asNumber("min", SliderEdit!d.min) /\ stored'.max = SliderEdit!asNumber("max", SliderEdit!d.max)
         /\ stored'.step = SliderEdit!asNumber("step", SliderEdit!d.step)
<1>1. SliderEdit!d \in SliderEditDrafts /\ SliderEdit!RangeOk BY InDraft DEF SliderEdit!Save, SliderEdit!Accepted
<1>2. PICK n : n = SliderEdit!InNumbers(SliderEdit!d) OBVIOUS
<1>3. /\ n \in SliderEdit!Stored /\ n.separateRead = SliderEdit!d.separateRead
      /\ n.min = SliderEdit!asNumber("min", SliderEdit!d.min) /\ n.max = SliderEdit!asNumber("max", SliderEdit!d.max) /\ n.step = SliderEdit!asNumber("step", SliderEdit!d.step)
  BY <1>1, <1>2, InNumbersIs
<1>4. /\ SliderEdit!d.separateRead \in BOOLEAN /\ SliderEdit!d.broker \in Brokers /\ SliderEdit!d.stateBroker \in Brokers \cup {""} /\ <<>> \in SliderEdit!Names
      /\ SliderEdit!d.readTemplate \in SliderEdit!Templates
  BY <1>1 DEF SliderEditDrafts, SliderEdit!RangeFits, SliderEdit!Names
<1>5. SliderEdit!effectiveStateBroker \in Brokers BY <1>4 DEF SliderEdit!effectiveStateBroker
<1>6. SliderEdit!SavedShape \in SliderEdit!Templates \cup {"none"} /\ (SliderEdit!d.separateRead \/ SliderEdit!SavedShape = "none") BY <1>4 DEF SliderEdit!SavedShape
<1>7. stored' = [n EXCEPT !.stateTopic = IF SliderEdit!d.separateRead THEN @ ELSE <<>>,
                          !.stateBroker = IF SliderEdit!d.separateRead THEN SliderEdit!effectiveStateBroker ELSE "",
                          !.readTemplate = SliderEdit!SavedShape]
  BY <1>2 DEF SliderEdit!Save
<1>8. /\ stored' \in SliderEdit!Stored /\ stored'.separateRead = n.separateRead /\ stored'.readTemplate = SliderEdit!SavedShape
      /\ stored'.min = n.min /\ stored'.max = n.max /\ stored'.step = n.step
  BY <1>3, <1>4, <1>5, <1>6, <1>7 DEF SliderEdit!Stored
<1> QED BY <1>1, <1>3, <1>6, <1>8

LEMMA SliderEditSaveStep == ASSUME SliderEdit!RangeFits, SliderEditWindowInv, SliderEdit!Save PROVE SliderEditWindowInv'
<1>1. draft' = <<>> /\ away' = away /\ away = <<>> BY InDraft DEF SliderEdit!Save
<1> QED BY <1>1, SaveIs, SliderEditClosed DEF SliderEditWindowInv

LEMMA SliderEditStepKeeps == ASSUME SliderEdit!RangeFits, SliderEditWindowInv, [SliderEdit!Next]_(SliderEdit!vars) PROVE SliderEditWindowInv'
<1>1. CASE UNCHANGED SliderEdit!vars BY <1>1 DEF SliderEdit!vars, SliderEditWindowInv, SliderEdit!PickLands, SliderEdit!d
<1>2. CASE SliderEdit!Open BY <1>2, SliderEditOpenStep
<1>3. CASE SliderEdit!Edit \/ SliderEdit!SameAsMessage BY <1>3, SliderEditEditStep
<1>4. CASE SliderEdit!Forget
  <2>1. SliderEdit!PickLands' BY <1>4, SliderEditClosed DEF SliderEdit!Forget
  <2> QED BY <1>4, <2>1 DEF SliderEdit!Forget, SliderEditWindowInv
<1>5. CASE SliderEdit!Save BY <1>5, SliderEditSaveStep
<1>6. CASE SliderEdit!Cancel
  <2>1. SliderEdit!PickLands' BY <1>6, SliderEditClosed DEF SliderEdit!Cancel
  <2>2. away = <<>> BY <1>6, InDraft DEF SliderEdit!Cancel
  <2> QED BY <1>6, <2>1, <2>2 DEF SliderEdit!Cancel, SliderEditWindowInv
<1>7. CASE \E t \in {"topic", "stateTopic"} : SliderEdit!Explore(t) BY <1>7, SliderEditExploreStep
<1>8. CASE \E p \in SliderPicks, b \in Brokers : SliderEdit!Return(<<p>>, b) BY <1>8, SliderEditReturnStep
<1> QED BY <1>1, <1>2, <1>3, <1>4, <1>5, <1>6, <1>7, <1>8 DEF SliderEdit!Next

LEMMA WindowKept ==
  ASSUME SliderEdit!RangeFits
  PROVE  SliderEditRuns => []SliderEditWindowInv
<1>1. SliderEdit!Init => SliderEditWindowInv BY SliderEditStartKeeps
<1>2. SliderEditWindowInv /\ [SliderEdit!Next]_(SliderEdit!vars) => SliderEditWindowInv' BY SliderEditStepKeeps
<1> QED BY <1>1, <1>2, PTL DEF SliderEditRuns

(* The same for the slider's window, in which the numbers make the trip as *)
(* numbers and an unfinished one as its default; and a slider that has one *)
(* topic reads what it writes (SliderConfigModal).                         *)
THEOREM SliderPicksLand ==
  ASSUME SliderEdit!RangeFits
  PROVE  SliderEditRuns => [](SliderEdit!TypeOK /\ SliderEdit!PickLands /\ SliderEdit!ReadsWhatItWrites)
<1>1. ASSUME SliderEditWindowInv PROVE SliderEdit!TypeOK /\ SliderEdit!PickLands /\ SliderEdit!ReadsWhatItWrites
  <2>1. ~stored.separateRead => stored.readTemplate = "none" BY <1>1 DEF SliderEditWindowInv
  <2>2. SliderEdit!ReadsWhatItWrites BY <2>1 DEF SliderEdit!ReadsWhatItWrites, SliderEdit!effectiveReadTemplate, SliderEdit!ReadShape, SliderEdit!WriteShape
  <2>3. SliderEdit!TypeOK
    <3>1. draft # <<>> => SliderEdit!d \in SliderEditDrafts BY <1>1, InDraft
    <3>2. stored \in SliderEdit!Stored BY <1>1 DEF SliderEditWindowInv
    <3>3. \A f \in SliderEdit!Fields : stored[f] \in Int BY <3>2 DEF SliderEdit!Stored, SliderEdit!Counts, SliderEdit!RangeFits, SliderEdit!Fields
    <3>4. draft # <<>> => SliderEdit!d.readTemplate \in SliderEdit!Templates /\ SliderEdit!d.payloadTemplate \in SliderEdit!Templates /\ SliderEdit!d.broker \in Brokers
      BY <3>1 DEF SliderEditDrafts
    <3>5. {stored.broker, stored.stateBroker} \subseteq Brokers \cup {""} BY <3>2 DEF SliderEdit!Stored
    <3> QED BY <1>1, <3>3, <3>4, <3>5 DEF SliderEdit!TypeOK, SliderEditWindowInv
  <2> QED BY <1>1, <2>2, <2>3 DEF SliderEditWindowInv
<1> QED BY <1>1, WindowKept, PTL

(* The range that the slider's window saves is the one that was typed and  *)
(* one that the panel takes as it is, if its numbers are finite; in the    *)
(* place of an infinite one, which the window takes, stands its default    *)
(* (SliderConfigModal and rangeRules of useConfigValidation.ts against     *)
(* normalizeRange of sliderUtils.ts).                                      *)
THEOREM RangeIsTaken ==
  ASSUME SliderEdit!RangeFits
  PROVE  SliderEditRuns => [][SliderEdit!RangeTaken]_(SliderEdit!vars)
<1>1. ASSUME SliderEditWindowInv, SliderEdit!Save PROVE SliderEdit!RangeTaken
  <2>1. /\ SliderEdit!RangeOk /\ SliderEdit!d \in SliderEditDrafts
        /\ stored'.min = SliderEdit!asNumber("min", SliderEdit!d.min) /\ stored'.max = SliderEdit!asNumber("max", SliderEdit!d.max)
        /\ stored'.step = SliderEdit!asNumber("step", SliderEdit!d.step)
    BY <1>1, SaveIs
  <2>2. \A f \in SliderEdit!Fields : SliderEdit!IsNumber(SliderEdit!d[f])
    BY <2>1 DEF SliderEdit!RangeOk, SliderEdit!StepOk, SliderEdit!Fields
  <2>3. \A f \in SliderEdit!Fields :
          stored'[f] = IF SliderEdit!d[f] \in DOMAIN Number THEN Number[SliderEdit!d[f]] ELSE SliderEdit!Default[f]
    BY <2>1 DEF SliderEdit!asNumber, SliderEdit!Fields
  <2>4. ASSUME SliderEdit!Finite
        PROVE  SliderEdit!normalizeRange(stored'.min, stored'.max, stored'.step) =
                 [min |-> stored'.min, max |-> stored'.max, step |-> stored'.step]
    <3>1. \A f \in SliderEdit!Fields : SliderEdit!d[f] \in DOMAIN Number /\ SliderEdit!Sign(SliderEdit!d[f]) = 0
      BY <2>4 DEF SliderEdit!Finite, SliderEdit!Sign, SliderEdit!RangeFits
    <3>2. Number[SliderEdit!d.max] > Number[SliderEdit!d.min] /\ Number[SliderEdit!d.step] > 0
      BY <2>1, <3>1 DEF SliderEdit!RangeOk, SliderEdit!StepOk, SliderEdit!Above, SliderEdit!Fields
    <3>3. stored'.max > stored'.min /\ stored'.step > 0 BY <2>3, <3>1, <3>2 DEF SliderEdit!Fields
    <3> QED BY <3>3 DEF SliderEdit!normalizeRange
  <2> QED BY <2>2, <2>3, <2>4 DEF SliderEdit!RangeTaken
<1>2. SliderEditWindowInv => SliderEdit!RangeTaken BY <1>1 DEF SliderEdit!RangeTaken
<1> QED BY <1>2, WindowKept, PTL DEF SliderEditRuns


-----------------------------------------------------------------------------
(***************************************************************************)
(* The rule's panel (LogicRulePanel).  NeverBehind compares what is        *)
(* evaluated with what was handed over; both come from what the server has *)
(* said (RuleInv).  CaughtUp needs that a message is either still coming   *)
(* or was taken (Follows), and that a cache entry belongs to one topic     *)
(* (PlainTopics).                                                          *)
(***************************************************************************)
(* Its runs, with no fairness assumed. *)
RuleRuns == Rule!Init /\ [][Rule!Next]_(Rule!vars)

RuleTopics == {k[2] : k \in Rule!Keys}
Said == [state : Rule!States, fires : 0..MaxEngine, held : 0..now]
Asked == {<<>>} \cup {<<s>> : s \in Said}
RuleShapes ==
    /\ sent \in [Rule!Keys -> Rule!Messages] /\ payloadCache \in [Rule!Keys -> Rule!Messages]
    /\ heard \in [Rule!Keys -> Rule!Messages] /\ found \in [Rule!Keys -> Rule!Messages]
    /\ history \in [Rule!Keys -> {"asked", "answered", "done"}]
    /\ subscribed \in BOOLEAN /\ offered \in [Rule!Keys -> Rule!Messages]
    /\ frames \in Seq(RuleTopics \X (1..RuleMessages))
    /\ on \in BOOLEAN /\ enabled \in BOOLEAN /\ pulse \in BOOLEAN /\ lost \in BOOLEAN
RuleServed ==
    /\ now \in 0..MaxTime /\ engine \in [state : Rule!States, since : 0..now, fires : 0..MaxEngine]
    /\ engine.fires <= steps.engine
    /\ steps \in [engine : 0..MaxEngine, toggles : Nat, lost : Nat]
    /\ polls \in Seq(Asked) /\ Len(polls) <= MaxPolls
    /\ status \in {<<>>} \cup {<<s>> : s \in Said}
(* The page's clock starts no earlier than the match that it times, but    *)
(* for what a late status made of it.                                      *)
Timed ==
    /\ holdingElapsed \in 0..Target /\ fired \in BOOLEAN /\ late \in BOOLEAN
    /\ matchStart \in Rule!None..now /\ began \in Rule!None..now
    /\ late \/ matchStart = Rule!None \/ (began # Rule!None /\ matchStart >= began)
(* A live message stays until the next one. *)
Heard == \A k \in Rule!Keys : heard[k] # 0 => payloadCache[k] = heard[k]
(* A request that was carried out is what the server has until it answers. *)
Switched ==
    /\ toggling = <<>> \/ toggling \in BOOLEAN \X {"sent", "failed", "done"}
    /\ engine.state = "tripped" \/ lost
         \/ IF toggling # <<>> /\ toggling[2] = "done" THEN on = toggling[1] ELSE enabled = on
(* The newest message of a topic that was offered is on its way, in the    *)
(* panel or in the history's answer.                                       *)
LastOf(i, k) == frames[i][1] = k[2] /\ \A j \in DOMAIN frames : j > i => frames[j][1] # k[2]
RuleComing(k) == \E i \in DOMAIN frames : frames[i][1] = k[2]
Known(k) ==
    \/ RuleComing(k) \/ payloadCache[k] = offered[k]
    \/ payloadCache[k] = 0 /\ history[k] = "answered" /\ found[k] = offered[k]
(* What the panel was offered of a topic is no newer than what was sent,   *)
(* and is that as long as it comes over the subscription.                  *)
Offers(k) ==
    /\ found[k] <= offered[k] /\ offered[k] <= sent[k]
    /\ history[k] = "asked" => offered[k] \in {0, sent[k]}
    /\ RuleComing(k) => offered[k] = sent[k]
Follows ==
    /\ ~subscribed => frames = <<>> /\ \A k \in Rule!Keys : history[k] = "asked" => offered[k] = 0
    /\ \A k \in Rule!Keys, i \in DOMAIN frames : LastOf(i, k) => frames[i][2] = sent[k]
    /\ \A k \in Rule!Keys : Known(k) /\ Offers(k)
RuleInv == RuleShapes /\ RuleServed /\ Timed /\ Heard /\ Switched

-----------------------------------------------------------------------------
LEMMA RuleKeysFit ==
  ASSUME Rule!RuleFits
  PROVE  /\ 1 \in DOMAIN Conditions /\ DOMAIN Conditions \subseteq Nat /\ Rule!Key(Conditions[1]) \in Rule!Keys
         /\ Rule!Messages \subseteq Nat /\ 0 \in Rule!Messages /\ 1 \in Rule!Messages
         /\ \A k \in Rule!Keys : k[2] \in RuleTopics
<1>1. 1 \in DOMAIN Conditions /\ DOMAIN Conditions \subseteq Nat BY DEF Rule!RuleFits
<1>2. Rule!Messages \subseteq Nat /\ 0 \in Rule!Messages /\ 1 \in Rule!Messages BY DEF Rule!RuleFits, Rule!Messages
<1>3. Rule!Key(Conditions[1]) \in Rule!Keys BY <1>1 DEF Rule!Keys
<1>4. \A k \in Rule!Keys : k[2] \in RuleTopics BY DEF RuleTopics
<1> QED BY <1>1, <1>2, <1>3, <1>4

LEMMA Removed ==
  ASSUME NEW S, NEW s \in Seq(S), NEW i \in DOMAIN s
  PROVE  Rule!RemoveAt(s, i) \in Seq(S) /\ Len(Rule!RemoveAt(s, i)) = Len(s) - 1
<1>1. Len(s) \in Nat /\ i \in 1..Len(s) OBVIOUS
<1>2. SubSeq(s, 1, i - 1) \in Seq(S) /\ Len(SubSeq(s, 1, i - 1)) = i - 1
  BY <1>1
<1>3. SubSeq(s, i + 1, Len(s)) \in Seq(S) /\ Len(SubSeq(s, i + 1, Len(s))) = Len(s) - i
  <2>1. CASE i = Len(s) BY <1>1, <2>1
  <2>2. CASE i < Len(s) BY <1>1, <2>2
  <2> QED BY <1>1, <2>1, <2>2
<1>4. ASSUME NEW a \in Seq(S), NEW b \in Seq(S), Len(a) = i - 1, Len(b) = Len(s) - i
      PROVE  a \o b \in Seq(S) /\ Len(a \o b) = Len(s) - 1
  BY <1>1, <1>4
<1> QED BY <1>2, <1>3, <1>4 DEF Rule!RemoveAt

LEMMA SaidLater ==
  ASSUME NEW n \in Nat, NEW m \in Nat, n <= m, NEW S, NEW F,
         NEW P \in Seq({<<>>} \cup {<<s>> : s \in [state : S, fires : F, held : 0..n]})
  PROVE  /\ P \in Seq({<<>>} \cup {<<s>> : s \in [state : S, fires : F, held : 0..m]})
         /\ [state : S, fires : F, held : 0..n] \subseteq [state : S, fires : F, held : 0..m]
<1>1. [state : S, fires : F, held : 0..n] \subseteq [state : S, fires : F, held : 0..m]
  <2>1. 0..n \subseteq 0..m OBVIOUS
  <2> QED BY <2>1
<1>2. {<<>>} \cup {<<s>> : s \in [state : S, fires : F, held : 0..n]}
        \subseteq {<<>>} \cup {<<s>> : s \in [state : S, fires : F, held : 0..m]}
  BY <1>1
<1> QED BY <1>1, <1>2

LEMMA Queued ==
  ASSUME Rule!RuleFits, RuleServed, Rule!FetchStatus
  PROVE  polls' \in Seq(Asked) /\ Len(polls') <= MaxPolls
<1>1. <<>> \in Asked BY DEF Asked
<1>2. CASE Len(polls) < MaxPolls
  <2>1. Append(polls, <<>>) \in Seq(Asked) /\ Len(Append(polls, <<>>)) = Len(polls) + 1
    BY <1>1 DEF RuleServed
  <2> QED BY <1>2, <2>1 DEF Rule!FetchStatus, Rule!RuleFits, RuleServed
<1>3. CASE ~(Len(polls) < MaxPolls) BY <1>3 DEF Rule!FetchStatus, RuleServed
<1> QED BY <1>2, <1>3

\* The clock's effect, after a change that leaves the time alone.
LEMMA ClockStep ==
  ASSUME Rule!RuleFits, Timed, now \in Nat, NEW start \in Rule!None..now, NEW flag \in BOOLEAN, Rule!Clock(start, flag),
         UNCHANGED <<now, holdingElapsed>>, late' \in BOOLEAN, late => late',
         late' \/ start = matchStart \/ (status' # status /\ began # Rule!None /\ start >= began)
  PROVE  Timed'
<1>1. now' = now /\ holdingElapsed' = holdingElapsed /\ Rule!None \in Int /\ Rule!None < 0 BY DEF Rule!None
<1>2. CASE ~Rule!Holding(payloadCache', enabled', IF status' = <<>> THEN "none" ELSE status'[1].state)
  <2>1. began' = Rule!None /\ matchStart' = Rule!Cleared(start) /\ fired' \in BOOLEAN
    BY <1>2 DEF Rule!Clock
  <2>2. Rule!Cleared(start) \in {start, Rule!None} /\ (Rule!Cleared(start) # Rule!None => began = Rule!None /\ Rule!Cleared(start) = start)
    BY DEF Rule!Cleared
  <2>3. late' \/ matchStart' = Rule!None
    <3>1. SUFFICES ASSUME ~late', Rule!Cleared(start) # Rule!None PROVE FALSE BY <2>1
    <3>2. began = Rule!None /\ start # Rule!None BY <3>1, <2>2
    <3>3. start = matchStart /\ ~late BY <3>1, <3>2
    <3> QED BY <3>2, <3>3 DEF Timed
  <2>4. matchStart' \in Rule!None..now /\ began' \in Rule!None..now BY <1>1, <2>1, <2>2
  <2> QED BY <1>1, <2>1, <2>3, <2>4 DEF Timed
<1>3. CASE Rule!Holding(payloadCache', enabled', IF status' = <<>> THEN "none" ELSE status'[1].state)
  <2>1. /\ began' = (IF began = Rule!None THEN now ELSE began)
        /\ matchStart' = (IF start = Rule!None THEN now ELSE start) /\ fired' = flag
    BY <1>3 DEF Rule!Clock
  <2>2. began' \in 0..now /\ matchStart' \in 0..now BY <1>1, <2>1 DEF Timed, Rule!None
  <2>3. late' \/ matchStart' >= began'
    <3>1. SUFFICES ASSUME ~late' PROVE matchStart' >= began' OBVIOUS
    <3>2. ~late BY <3>1
    <3>3. CASE start = Rule!None
      <4>1. matchStart' = now BY <2>1, <3>3
      <4> QED BY <4>1, <2>2
    <3>4. CASE start # Rule!None
      <4>1. began # Rule!None /\ start >= began BY <3>1, <3>2, <3>4 DEF Timed
      <4> QED BY <2>1, <3>4, <4>1
    <3> QED BY <3>3, <3>4
  <2> QED BY <1>1, <2>1, <2>2, <2>3 DEF Timed
<1> QED BY <1>2, <1>3
LEMMA ServedStays ==
  ASSUME RuleServed, UNCHANGED <<now, engine, steps>>, status' \in {<<>>} \cup {<<s>> : s \in Said},
         polls' \in Seq(Asked), Len(polls') <= MaxPolls
  PROVE  RuleServed'
BY DEF RuleServed, Asked, Said

LEMMA TimedStays == ASSUME Timed, UNCHANGED Rule!clock PROVE Timed'
BY DEF Timed, Rule!clock

LEMMA SwitchedStays ==
  ASSUME Switched, UNCHANGED <<engine, toggling, on, enabled, lost>>
  PROVE  Switched'
BY DEF Switched

LEMMA Begun == ASSUME Rule!RuleFits, Rule!Init PROVE RuleInv
<1> USE RuleKeysFit
<1>1. RuleShapes
  <2>1. sent \in [Rule!Keys -> Rule!Messages] BY DEF Rule!Init
  <2>2. /\ payloadCache \in [Rule!Keys -> Rule!Messages] /\ heard \in [Rule!Keys -> Rule!Messages] /\ found \in [Rule!Keys -> Rule!Messages]
        /\ history \in [Rule!Keys -> {"asked", "answered", "done"}]
    BY DEF Rule!Init
  <2>3. frames \in Seq(RuleTopics \X (1..RuleMessages)) BY DEF Rule!Init
  <2>4. /\ subscribed \in BOOLEAN /\ offered \in [Rule!Keys -> Rule!Messages] /\ on \in BOOLEAN /\ enabled \in BOOLEAN
        /\ pulse \in BOOLEAN /\ lost \in BOOLEAN
    BY DEF Rule!Init
  <2> QED BY <2>1, <2>2, <2>3, <2>4 DEF RuleShapes
<1>2. RuleServed
  <2>1. <<>> \in Asked BY DEF Asked
  <2>2. <<<<>>>> \in Seq(Asked) /\ Len(<<<<>>>>) = 1 BY <2>1
  <2>3. 0 \in 0..MaxTime /\ 0 \in 0..MaxEngine /\ 1 <= MaxPolls BY DEF Rule!RuleFits
  <2>4. engine \in [state : Rule!States, since : 0..now, fires : 0..MaxEngine] /\ engine.fires = 0
    BY <2>3 DEF Rule!Init, Rule!States
  <2>5. steps \in [engine : 0..MaxEngine, toggles : Nat, lost : Nat] /\ steps.engine = 0
    BY <2>3 DEF Rule!Init
  <2> QED BY <2>2, <2>3, <2>4, <2>5 DEF Rule!Init, RuleServed
<1>3. Timed
  <2>1. 0 \in 0..Target /\ Rule!None \in Rule!None..0 BY DEF Rule!RuleFits, Rule!None
  <2> QED BY <2>1 DEF Rule!Init, Timed
<1>4. Heard BY DEF Rule!Init, Heard
<1>5. Switched BY DEF Rule!Init, Switched
<1> QED BY <1>1, <1>2, <1>3, <1>4, <1>5 DEF RuleInv

LEMMA PublishStep == ASSUME Rule!RuleFits, RuleInv, NEW k \in Rule!Keys, Rule!Publish(k) PROVE RuleInv'
<1> USE RuleKeysFit DEF RuleInv
<1>1. /\ sent[k] < RuleMessages /\ sent' = [sent EXCEPT ![k] = @ + 1]
      /\ frames' = IF subscribed /\ k[1] = Rule!HeardBroker THEN Append(frames, <<k[2], sent'[k]>>) ELSE frames
      /\ offered' = offered \/ offered' = [offered EXCEPT ![k] = sent'[k]]
      /\ UNCHANGED <<history, found, payloadCache, heard, subscribed, engine, on, enabled, polls, status, toggling,
                     pulse, lastFired, Rule!clock, lost, steps>>
  BY DEF Rule!Publish, RuleShapes
<1>2. sent[k] + 1 \in 1..RuleMessages /\ sent'[k] = sent[k] + 1
  BY SMTT(40), <1>1 DEF RuleShapes, Rule!Messages, Rule!RuleFits
<1>3. sent' \in [Rule!Keys -> Rule!Messages]
  <2>1. sent[k] + 1 \in Rule!Messages BY <1>2 DEF Rule!Messages
  <2> QED BY <1>1, <2>1 DEF RuleShapes
<1>4. frames' \in Seq(RuleTopics \X (1..RuleMessages))
  <2>1. <<k[2], sent'[k]>> \in RuleTopics \X (1..RuleMessages) BY <1>2
  <2> QED BY <1>1, <2>1 DEF RuleShapes
<1>o. offered' \in [Rule!Keys -> Rule!Messages]
  <2>1. sent'[k] \in Rule!Messages BY <1>3
  <2> QED BY <1>1, <2>1 DEF RuleShapes
<1>5. RuleShapes' BY <1>1, <1>3, <1>4, <1>o DEF RuleShapes
<1>6. RuleServed'
  <2>1. now' = now BY <1>1 DEF Rule!clock
  <2> QED BY <1>1, <2>1, ServedStays DEF RuleServed
<1>7. Timed' BY <1>1, TimedStays
<1>8. Heard' BY <1>1 DEF Heard
<1>9. Switched' BY <1>1, SwitchedStays
<1> QED BY <1>5, <1>6, <1>7, <1>8, <1>9

LEMMA FeedStep ==
  ASSUME Rule!RuleFits, RuleInv, Rule!Subscribed \/ (\E k \in Rule!Keys : Rule!ServeHistory(k))
  PROVE  RuleInv'
<1> USE RuleKeysFit DEF RuleInv
<1>1. /\ UNCHANGED <<sent, frames, payloadCache, heard, engine, on, enabled, polls, status, toggling,
                     pulse, lastFired, Rule!clock, lost, steps>>
      /\ subscribed' \in BOOLEAN
  BY DEF Rule!Subscribed, Rule!ServeHistory, RuleShapes
<1>2. /\ history' \in [Rule!Keys -> {"asked", "answered", "done"}]
      /\ found' \in [Rule!Keys -> Rule!Messages] /\ offered' \in [Rule!Keys -> Rule!Messages]
  <2>1. CASE Rule!Subscribed BY <2>1 DEF Rule!Subscribed, RuleShapes
  <2>2. ASSUME NEW k \in Rule!Keys, Rule!ServeHistory(k)
        PROVE  /\ history' \in [Rule!Keys -> {"asked", "answered", "done"}]
               /\ found' \in [Rule!Keys -> Rule!Messages] /\ offered' \in [Rule!Keys -> Rule!Messages]
    <3>1. PICK n \in 0..sent[k] : /\ found' = [found EXCEPT ![k] = n]
                                  /\ offered' = [offered EXCEPT ![k] = IF n > @ THEN n ELSE @]
      BY <2>2 DEF Rule!ServeHistory
    <3>2. sent[k] \in 0..RuleMessages BY DEF RuleShapes, Rule!Messages
    <3>3. n \in Rule!Messages BY <3>2 DEF Rule!Messages, Rule!RuleFits
    <3>4. history' = [history EXCEPT ![k] = "answered"] BY <2>2 DEF Rule!ServeHistory
    <3> QED BY <3>1, <3>3, <3>4 DEF RuleShapes
  <2> QED BY <2>1, <2>2
<1>3. RuleShapes' BY <1>1, <1>2 DEF RuleShapes
<1>4. RuleServed'
  <2>1. now' = now BY <1>1 DEF Rule!clock
  <2> QED BY <1>1, <2>1, ServedStays DEF RuleServed
<1>5. Timed' BY <1>1, TimedStays
<1>6. Heard' BY <1>1 DEF Heard
<1>7. Switched' BY <1>1, SwitchedStays
<1> QED BY <1>3, <1>4, <1>5, <1>6, <1>7

LEMMA RuleMessageStep == ASSUME Rule!RuleFits, RuleInv, Rule!OnMessage PROVE RuleInv'
<1> USE RuleKeysFit DEF RuleInv
<1>1. PICK f : f = Head(frames) OBVIOUS
<1>2. /\ frames # <<>> /\ frames' = Tail(frames)
      /\ payloadCache' = [k \in Rule!Keys |-> IF Rule!Takes(k, f[1]) THEN f[2] ELSE payloadCache[k]]
      /\ heard' = [k \in Rule!Keys |-> IF Rule!Takes(k, f[1]) THEN f[2] ELSE heard[k]]
      /\ IF enabled THEN Rule!FetchStatus ELSE polls' = polls
      /\ UNCHANGED <<enabled, status>> /\ Rule!Clock(matchStart, fired)
      /\ UNCHANGED <<Rule!feed, sent, history, found, engine, on, toggling, pulse, lastFired, now, holdingElapsed,
                     late, lost, steps>>
  BY <1>1 DEF Rule!OnMessage
<1>3. f \in RuleTopics \X (1..RuleMessages) /\ frames' \in Seq(RuleTopics \X (1..RuleMessages))
  BY <1>1, <1>2 DEF RuleShapes
<1>4. f[2] \in 1..RuleMessages BY <1>3
<1>5. payloadCache' \in [Rule!Keys -> Rule!Messages] /\ heard' \in [Rule!Keys -> Rule!Messages]
  <2>1. f[2] \in Rule!Messages BY <1>4 DEF Rule!Messages
  <2> QED BY <1>2, <2>1 DEF RuleShapes
<1>6. RuleShapes' BY <1>2, <1>3, <1>5 DEF RuleShapes, Rule!feed
<1>7. RuleServed'
  <2>1. polls' \in Seq(Asked) /\ Len(polls') <= MaxPolls BY <1>2, Queued DEF RuleServed
  <2> QED BY <1>2, <2>1, ServedStays DEF RuleServed
<1>8. Timed' BY <1>2, ClockStep DEF Timed, RuleServed
<1>9. Heard' BY <1>2 DEF Heard
<1>10. Switched' BY <1>2, SwitchedStays
<1> QED BY <1>6, <1>7, <1>8, <1>9, <1>10

LEMMA RuleHistoryStep == ASSUME Rule!RuleFits, RuleInv, NEW k \in Rule!Keys, Rule!OnHistory(k) PROVE RuleInv'
<1> USE RuleKeysFit DEF RuleInv
<1>1. /\ history' = [history EXCEPT ![k] = "done"] /\ found' = [found EXCEPT ![k] = 0]
      /\ payloadCache' = [payloadCache EXCEPT ![k] = Rule!FromHistory(k)]
      /\ UNCHANGED <<enabled, status>> /\ Rule!Clock(matchStart, fired)
      /\ UNCHANGED <<Rule!feed, sent, frames, heard, engine, on, polls, toggling, pulse, lastFired, now,
                     holdingElapsed, late, lost, steps>>
  BY DEF Rule!OnHistory
<1>2. Rule!FromHistory(k) \in Rule!Messages /\ (payloadCache[k] # 0 => Rule!FromHistory(k) = payloadCache[k])
  BY DEF Rule!FromHistory, RuleShapes
<1>3. RuleShapes' BY <1>1, <1>2 DEF RuleShapes, Rule!feed
<1>4. RuleServed' BY <1>1, ServedStays DEF RuleServed
<1>5. Timed' BY <1>1, ClockStep DEF Timed, RuleServed
<1>6. Heard'
  <2> SUFFICES ASSUME NEW l \in Rule!Keys, heard[l] # 0 PROVE payloadCache'[l] = heard[l]
    BY <1>1 DEF Heard
  <2>1. payloadCache[l] = heard[l] BY DEF Heard
  <2>2. CASE l = k BY <1>1, <1>2, <2>1, <2>2 DEF RuleShapes
  <2>3. CASE l # k BY <1>1, <2>1, <2>3 DEF RuleShapes
  <2> QED BY <2>2, <2>3
<1>7. Switched' BY <1>1, SwitchedStays
<1> QED BY <1>3, <1>4, <1>5, <1>6, <1>7

LEMMA EngineStep == ASSUME Rule!RuleFits, RuleInv, NEW to \in Rule!States, Rule!Engine(to) PROVE RuleInv'
<1> USE DEF RuleInv
<1>1. /\ steps.engine < MaxEngine /\ steps' = [steps EXCEPT !.engine = @ + 1]
      /\ \/ engine' = [engine EXCEPT !.state = to, !.since = now]
         \/ engine' = [engine EXCEPT !.state = to, !.fires = @ + 1]
         \/ engine' = [engine EXCEPT !.state = to]
      /\ on' = (on /\ to # "tripped") /\ (engine.state = "tripped" => FALSE)
      /\ UNCHANGED <<Rule!values, enabled, polls, status, toggling, pulse, lastFired, Rule!clock, lost>>
  BY DEF Rule!Engine
<1>2. RuleShapes' BY <1>1 DEF RuleShapes, Rule!values, Rule!feed
<1>3. RuleServed'
  <2>1. now' = now /\ now \in 0..now BY <1>1 DEF Rule!clock, RuleServed
  <2>2. engine.fires \in 0..MaxEngine /\ steps.engine \in 0..MaxEngine /\ engine.fires <= steps.engine
    BY DEF RuleServed
  <2>3. steps.engine + 1 \in 0..MaxEngine /\ engine.fires + 1 \in 0..MaxEngine BY SMTT(40), <1>1, <2>2, Rule!RuleFits DEF Rule!RuleFits
  <2>4. steps' \in [engine : 0..MaxEngine, toggles : Nat, lost : Nat] /\ steps'.engine = steps.engine + 1
    BY <1>1, <2>3 DEF RuleServed
  <2>5. engine' \in [state : Rule!States, since : 0..now, fires : 0..MaxEngine]
    BY <1>1, <2>1, <2>3 DEF RuleServed
  <2>6. engine'.fires \in {engine.fires, engine.fires + 1} BY <1>1 DEF RuleServed
  <2>7. engine'.fires <= steps'.engine BY <2>2, <2>4, <2>6
  <2>8. polls' = polls /\ status' = status BY <1>1
  <2> QED BY <2>1, <2>4, <2>5, <2>7, <2>8 DEF RuleServed, Asked, Said
<1>4. Timed' BY <1>1, TimedStays
<1>5. Heard' BY <1>1 DEF Heard, Rule!values, Rule!feed
<1>6. Switched'
  <2>1. engine'.state = to BY <1>1 DEF RuleServed
  <2>2. to # "tripped" => on' = on BY <1>1 DEF RuleShapes
  <2> QED BY <1>1, <2>1, <2>2 DEF Switched
<1> QED BY <1>2, <1>3, <1>4, <1>5, <1>6

\* A request for the status is made, served or lost; the pulse ends.
LEMMA PollStep ==
  ASSUME Rule!RuleFits, RuleInv, Rule!Poll \/ (\E i \in DOMAIN polls : Rule!ServePoll(i) \/ Rule!LosePoll(i)) \/ Rule!PulseEnds
  PROVE  RuleInv'
<1> USE DEF RuleInv
<1>1. /\ UNCHANGED <<Rule!values, engine, on, enabled, status, toggling, Rule!clock, lost>>
      /\ pulse' \in BOOLEAN /\ steps' \in {steps, [steps EXCEPT !.lost = @ + 1]}
  BY DEF Rule!Poll, Rule!ServePoll, Rule!LosePoll, Rule!PulseEnds, RuleShapes
<1>2. polls' \in Seq(Asked) /\ Len(polls') <= MaxPolls
  <2>1. CASE Rule!Poll BY <2>1, Queued DEF Rule!Poll
  <2>2. ASSUME NEW i \in DOMAIN polls, Rule!ServePoll(i) PROVE polls' \in Seq(Asked) /\ Len(polls') = Len(polls)
    <3>1. PICK s : s = [state |-> engine.state, fires |-> engine.fires,
                        held |-> IF engine.state = "holding" THEN now - engine.since ELSE 0]
      OBVIOUS
    <3>2. s \in Said
      <4>1. engine.since \in 0..now /\ now \in Nat BY DEF RuleServed
      <4>2. (IF engine.state = "holding" THEN now - engine.since ELSE 0) \in 0..now BY <4>1
      <4> QED BY <3>1, <4>2 DEF RuleServed, Said
    <3>3. <<s>> \in Asked BY <3>2 DEF Asked
    <3>4. polls' = [polls EXCEPT ![i] = <<s>>] BY <2>2, <3>1 DEF Rule!ServePoll
    <3> QED BY <3>3, <3>4 DEF RuleServed
  <2>3. ASSUME NEW i \in DOMAIN polls, Rule!LosePoll(i) PROVE polls' \in Seq(Asked) /\ Len(polls') = Len(polls) - 1
    BY <2>3, Removed DEF Rule!LosePoll, RuleServed
  <2>4. CASE Rule!PulseEnds BY <2>4 DEF Rule!PulseEnds, RuleServed
  <2>5. Len(polls) \in Nat /\ Len(polls) <= MaxPolls /\ MaxPolls \in Nat BY DEF RuleServed, Rule!RuleFits
  <2> QED BY <2>1, <2>2, <2>3, <2>4, <2>5
<1>3. RuleShapes' BY <1>1 DEF RuleShapes, Rule!values, Rule!feed
<1>4. RuleServed'
  <2>1. now' = now BY <1>1 DEF Rule!clock
  <2>2. steps' \in [engine : 0..MaxEngine, toggles : Nat, lost : Nat] /\ steps'.engine = steps.engine
    BY <1>1 DEF RuleServed
  <2> QED BY <1>1, <1>2, <2>1, <2>2 DEF RuleServed, Asked, Said
<1>5. Timed' BY <1>1, TimedStays
<1>6. Heard' BY <1>1 DEF Heard, Rule!values, Rule!feed
<1>7. Switched' BY <1>1, SwitchedStays
<1> QED BY <1>3, <1>4, <1>5, <1>6, <1>7

LEMMA StatusStep == ASSUME Rule!RuleFits, RuleInv, NEW i \in DOMAIN polls, Rule!OnStatus(i) PROVE RuleInv'
<1> USE DEF RuleInv
<1>1. PICK s : s = polls[i][1] OBVIOUS
<1>2. PICK news \in BOOLEAN : news = (status = <<>> \/ status[1].state # s.state \/ status[1].held # s.held)
  OBVIOUS
<1>3. /\ polls[i] # <<>> /\ polls' = Rule!RemoveAt(polls, i) /\ status' = <<s>>
      /\ pulse' \in BOOLEAN
      /\ UNCHANGED <<payloadCache, enabled>>
      /\ Rule!Clock(IF news THEN Rule!Resync(s) ELSE matchStart, fired \/ (news /\ Mode = "sustained" /\ s.state = "fired"))
      /\ late' = (late \/ (Mode = "sustained" /\ s.state = "holding" /\ (began = Rule!None \/ Rule!Start(s) < began)))
      /\ UNCHANGED <<Rule!feed, sent, frames, history, found, heard, engine, on, toggling, now, holdingElapsed, lost, steps>>
  BY <1>1, <1>2 DEF Rule!OnStatus, RuleShapes
<1>4. s \in Said
  <2>1. polls[i] \in Asked BY DEF RuleServed
  <2> QED BY <1>1, <1>3, <2>1 DEF Asked
<1>5. RuleShapes' BY <1>3 DEF RuleShapes, Rule!feed
<1>6. RuleServed'
  <2>1. polls' \in Seq(Asked) /\ Len(polls') = Len(polls) - 1 BY <1>3, Removed DEF RuleServed
  <2>2. Len(polls') <= MaxPolls
    <3>1. Len(polls) \in Nat /\ Len(polls) <= MaxPolls /\ MaxPolls \in Nat BY DEF RuleServed, Rule!RuleFits
    <3> QED BY <2>1, <3>1
  <2>3. status' \in {<<>>} \cup {<<r>> : r \in Said} BY <1>3, <1>4
  <2> QED BY <1>3, <2>1, <2>2, <2>3, ServedStays
<1>7. Timed'
  <2>1. PICK start : start = IF news THEN Rule!Resync(s) ELSE matchStart OBVIOUS
  <2>2. PICK flag : flag = (fired \/ (news /\ Mode = "sustained" /\ s.state = "fired")) OBVIOUS
  <2>3. flag \in BOOLEAN BY <2>2 DEF Timed
  <2>4. now \in Nat /\ s.held \in 0..now BY <1>4 DEF RuleServed, Said
  <2>5. Rule!Start(s) \in 0..now BY <2>4 DEF Rule!Start
  <2>6. start \in {matchStart, Rule!Start(s)} BY <2>1 DEF Rule!Resync
  <2>7. start \in Rule!None..now BY <2>5, <2>6 DEF Timed, Rule!None
  <2>8. late' \in BOOLEAN /\ (late => late') BY <1>3 DEF Timed
  <2>9. late' \/ start = matchStart \/ (status' # status /\ began # Rule!None /\ start >= began)
    <3>1. SUFFICES ASSUME ~late', start # matchStart PROVE status' # status /\ began # Rule!None /\ start >= began
      OBVIOUS
    <3>2. news /\ start = Rule!Start(s) /\ Mode = "sustained" /\ s.state = "holding"
      BY <2>1, <3>1 DEF Rule!Resync
    <3>3. began # Rule!None /\ ~(Rule!Start(s) < began) BY <1>3, <3>1, <3>2
    <3>4. ASSUME status = <<s>> PROVE FALSE
      <4>1. status # <<>> /\ status[1] = s BY <3>4
      <4> QED BY <1>2, <3>2, <4>1
    <3> QED BY <1>3, <2>5, <3>2, <3>3, <3>4 DEF Timed, Rule!None
  <2>10. Rule!Clock(start, flag) BY <1>3, <2>1, <2>2
  <2> QED BY <1>3, <2>3, <2>4, <2>7, <2>8, <2>9, <2>10, ClockStep
<1>8. Heard' BY <1>3 DEF Heard
<1>9. Switched' BY <1>3, SwitchedStays
<1> QED BY <1>5, <1>6, <1>7, <1>8, <1>9

LEMMA SwitchStep ==
  ASSUME Rule!RuleFits, RuleInv, Rule!handleToggle \/ Rule!ServeToggle
  PROVE  RuleInv'
<1> USE DEF RuleInv
<1>1. /\ UNCHANGED <<Rule!values, enabled, polls, status, pulse, lastFired, Rule!clock, lost>>
      /\ steps' \in {steps, [steps EXCEPT !.toggles = @ + 1]}
  BY DEF Rule!handleToggle, Rule!ServeToggle
<1>2. on' \in BOOLEAN /\ engine' \in {engine, [engine EXCEPT !.state = "idle"]}
  BY DEF Rule!handleToggle, Rule!ServeToggle, RuleShapes, Switched
<1>3. RuleShapes' BY <1>1, <1>2 DEF RuleShapes, Rule!values, Rule!feed
<1>4. RuleServed'
  <2>1. now' = now /\ polls' = polls /\ status' = status BY <1>1 DEF Rule!clock
  <2>2. steps' \in [engine : 0..MaxEngine, toggles : Nat, lost : Nat] /\ steps'.engine = steps.engine
    BY <1>1 DEF RuleServed
  <2>3. engine' \in [state : Rule!States, since : 0..now, fires : 0..MaxEngine] /\ engine'.fires = engine.fires
    BY <1>2 DEF RuleServed, Rule!States
  <2> QED BY <2>1, <2>2, <2>3 DEF RuleServed, Asked, Said
<1>5. Timed' BY <1>1, TimedStays
<1>6. Heard' BY <1>1 DEF Heard, Rule!values, Rule!feed
<1>7. Switched'
  <2>1. CASE Rule!handleToggle
    <3>1. toggling = <<>> /\ toggling' = <<~enabled, "sent">> /\ on' = on /\ engine' = engine
      BY <2>1 DEF Rule!handleToggle, Rule!SwitchOffered
    <3>2. toggling' \in BOOLEAN \X {"sent", "failed", "done"} /\ toggling'[2] # "done" BY <3>1 DEF RuleShapes
    <3> QED BY <1>1, <3>1, <3>2 DEF Switched
  <2>2. CASE Rule!ServeToggle
    <3>1. toggling \in BOOLEAN \X {"sent", "failed", "done"} /\ toggling # <<>> /\ toggling[2] = "sent"
      BY <2>2 DEF Rule!ServeToggle, Switched
    <3>2. CASE toggling' = <<toggling[1], "done">> /\ on' = toggling[1]
      <4>1. toggling' \in BOOLEAN \X {"sent", "failed", "done"} /\ toggling'[1] = toggling[1] /\ toggling'[2] = "done"
        BY <3>1, <3>2
      <4>2. on' = toggling'[1] /\ toggling' # <<>> BY <3>2, <4>1
      <4> QED BY <4>1, <4>2 DEF Switched
    <3>3. CASE toggling' = <<toggling[1], "failed">> /\ UNCHANGED <<on, engine>>
      <4>1. toggling' \in BOOLEAN \X {"sent", "failed", "done"} /\ toggling'[2] # "done" BY <3>1, <3>3
      <4> QED BY <1>1, <3>1, <3>3, <4>1 DEF Switched
    <3> QED BY <2>2, <3>2, <3>3 DEF Rule!ServeToggle
  <2> QED BY <2>1, <2>2
<1> QED BY <1>3, <1>4, <1>5, <1>6, <1>7

LEMMA ToggledStep == ASSUME Rule!RuleFits, RuleInv, NEW ok \in BOOLEAN, Rule!OnToggled(ok) PROVE RuleInv'
<1> USE DEF RuleInv
<1>1. /\ toggling # <<>> /\ toggling[2] \in {"done", "failed"} /\ (ok => toggling[2] = "done")
      /\ toggling' = <<>> /\ enabled' = (IF ok THEN toggling[1] ELSE enabled)
      /\ IF ok THEN Rule!FetchStatus ELSE polls' = polls
      /\ lost' = (lost \/ (~ok /\ toggling[2] = "done"))
      /\ UNCHANGED <<payloadCache, status>> /\ Rule!Clock(matchStart, fired)
      /\ UNCHANGED <<Rule!feed, sent, frames, history, found, heard, engine, on, pulse, lastFired, now,
                     holdingElapsed, late, steps>>
  BY DEF Rule!OnToggled, Rule!Waiting, Rule!Toggled
<1>2. toggling[1] \in BOOLEAN BY <1>1 DEF Switched
<1>3. RuleShapes' BY <1>1, <1>2 DEF RuleShapes, Rule!feed
<1>4. RuleServed'
  <2>1. polls' \in Seq(Asked) /\ Len(polls') <= MaxPolls BY <1>1, Queued DEF RuleServed
  <2> QED BY <1>1, <2>1, ServedStays DEF RuleServed
<1>5. Timed' BY <1>1, ClockStep DEF Timed, RuleServed
<1>6. Heard' BY <1>1 DEF Heard
<1>7. Switched' BY <1>1 DEF Switched
<1> QED BY <1>3, <1>4, <1>5, <1>6, <1>7

LEMMA TimeStep == ASSUME Rule!RuleFits, RuleInv, Rule!HoldTick \/ Rule!Tick PROVE RuleInv'
<1> USE DEF RuleInv
<1>1. /\ UNCHANGED <<Rule!values, engine, on, enabled, status, toggling, lastFired, began, matchStart, late, lost, steps>>
      /\ pulse' \in BOOLEAN /\ fired' \in BOOLEAN
  BY DEF Rule!HoldTick, Rule!Tick, RuleShapes, Timed
<1>2. polls' \in Seq(Asked) /\ Len(polls') <= MaxPolls
  BY Queued DEF Rule!HoldTick, Rule!Tick, RuleServed
<1>3. now' \in 0..MaxTime /\ now <= now' /\ now \in Nat
  <2>1. now \in 0..MaxTime /\ MaxTime \in Nat BY DEF RuleServed, Rule!RuleFits
  <2> QED BY <2>1 DEF Rule!HoldTick, Rule!Tick
<1>4. RuleShapes' BY <1>1 DEF RuleShapes, Rule!values, Rule!feed
<1>5. RuleServed'
  <2>1. polls' \in Seq(Asked)' BY <1>2, <1>3, SaidLater DEF Asked, Said
  <2>2. Said \subseteq Said' BY <1>3, SaidLater DEF Said
  <2>3. status' \in {<<>>} \cup {<<s>> : s \in Said'} BY <1>1, <2>2 DEF RuleServed
  <2>4. 0..now \subseteq 0..now' BY <1>3
  <2>5. engine' \in [state : Rule!States, since : 0..now', fires : 0..MaxEngine] BY <1>1, <2>4 DEF RuleServed
  <2> QED BY <1>1, <1>2, <1>3, <2>1, <2>3, <2>5 DEF RuleServed
<1>6. Timed'
  <2>1. holdingElapsed' \in 0..Target
    <3>1. CASE Rule!HoldTick
      <4>1. matchStart \in 0..now BY <3>1 DEF Rule!HoldTick, Timed, Rule!None
      <4>2. PICK n \in Nat : n = now - matchStart BY <1>3, <4>1
      <4>3. holdingElapsed' = Rule!Progress(n) BY <3>1, <4>2 DEF Rule!HoldTick
      <4> QED BY <4>3, Rule!RuleFits DEF Rule!Progress, Rule!RuleFits
    <3>2. CASE Rule!Tick BY <3>2 DEF Rule!Tick, Timed
    <3> QED BY <3>1, <3>2
  <2>2. Rule!None..now \subseteq Rule!None..now' BY <1>3 DEF Rule!None
  <2> QED BY <1>1, <2>1, <2>2 DEF Timed
<1>7. Heard' BY <1>1 DEF Heard, Rule!values, Rule!feed
<1>8. Switched' BY <1>1, SwitchedStays
<1> QED BY <1>4, <1>5, <1>6, <1>7, <1>8

LEMMA RuleStepKeeps == ASSUME Rule!RuleFits, RuleInv, [Rule!Next]_(Rule!vars) PROVE RuleInv'
<1>1. CASE UNCHANGED Rule!vars
  BY <1>1 DEF Rule!vars, Rule!values, Rule!feed, Rule!clock, RuleInv, RuleShapes, RuleServed, Said, Asked, Timed, Heard, Switched
<1>2. CASE \E k \in Rule!Keys : Rule!Publish(k) \/ Rule!ServeHistory(k) \/ Rule!OnHistory(k)
  BY <1>2, PublishStep, FeedStep, RuleHistoryStep
<1>3. CASE Rule!Subscribed \/ Rule!OnMessage \/ Rule!Poll BY <1>3, FeedStep, RuleMessageStep, PollStep
<1>4. CASE \E s \in Rule!States : Rule!Engine(s) BY <1>4, EngineStep
<1>5. CASE \E i \in DOMAIN polls : Rule!ServePoll(i) \/ Rule!OnStatus(i) \/ Rule!LosePoll(i) BY <1>5, PollStep, StatusStep
<1>6. CASE Rule!handleToggle \/ Rule!ServeToggle \/ \E ok \in BOOLEAN : Rule!OnToggled(ok) BY <1>6, SwitchStep, ToggledStep
<1>7. CASE Rule!HoldTick \/ Rule!Tick \/ Rule!PulseEnds BY <1>7, TimeStep, PollStep
<1> QED BY <1>1, <1>2, <1>3, <1>4, <1>5, <1>6, <1>7 DEF Rule!Next

LEMMA RuleKept ==
  ASSUME Rule!RuleFits
  PROVE  RuleRuns => []RuleInv
<1>1. Rule!Init => RuleInv BY Begun
<1>2. RuleInv /\ [Rule!Next]_(Rule!vars) => RuleInv' BY RuleStepKeeps
<1> QED BY <1>1, <1>2, PTL DEF RuleRuns

(* For any conditions, any messages and any order of answers, the rule's   *)
(* panel keeps values of their types, and what is on its way to it is what *)
(* the server has said (LogicRulePanel.tsx).                               *)
THEOREM RuleTypeHolds ==
  ASSUME Rule!RuleFits
  PROVE  RuleRuns => []Rule!TypeOK
<1>1. ASSUME RuleInv PROVE Rule!TypeOK
  <2> USE <1>1 DEF RuleInv
  <2>1. now \in 0..MaxTime /\ 0..now \subseteq 0..MaxTime
    <3>1. now \in 0..MaxTime /\ MaxTime \in Nat BY DEF RuleServed, Rule!RuleFits
    <3> QED BY <3>1
  <2>2. Said \subseteq [state : Rule!States, held : 0..MaxTime, fires : 0..MaxEngine] BY <2>1 DEF Said
  <2>3. status \in {<<>>} \cup {<<s>> : s \in [state : Rule!States, held : 0..MaxTime, fires : 0..MaxEngine]}
    BY <2>2 DEF RuleServed
  <2> QED BY <2>3 DEF RuleShapes, RuleServed, Timed, Rule!TypeOK
<1> QED BY <1>1, RuleKept, PTL

(* What the panel evaluates of a topic is never older than what it was     *)
(* handed live, whichever order history, subscription and messages come in *)
(* (LogicRulePanel.tsx, the history that must not overwrite a live value). *)
THEOREM NeverBehindHolds ==
  ASSUME Rule!RuleFits
  PROVE  RuleRuns => []Rule!NeverBehind
<1>1. ASSUME RuleInv PROVE Rule!NeverBehind
  <2> SUFFICES ASSUME NEW k \in Rule!Keys PROVE payloadCache[k] >= heard[k]
    BY DEF Rule!NeverBehind
  <2>1. payloadCache[k] \in Nat /\ heard[k] \in Nat BY <1>1, RuleKeysFit DEF RuleInv, RuleShapes
  <2> QED BY <1>1, <2>1 DEF RuleInv, Heard
<1> QED BY <1>1, RuleKept, PTL

(* With nothing on its way the rule's switch stands as the server has it,  *)
(* whatever polls, clicks and failures came before (LogicRulePanel.tsx,    *)
(* the polls that are skipped while a click waits).                        *)
THEOREM SwitchStaysInStep ==
  ASSUME Rule!RuleFits
  PROVE  RuleRuns => []Rule!SwitchInStep
<1>1. RuleInv => Rule!SwitchInStep BY DEF RuleInv, Switched, Rule!SwitchInStep
<1> QED BY <1>1, RuleKept, PTL

(* The panel announces a firing of its own, one that no poll brought, only *)
(* after the rule has held for as long as its mode asks                    *)
(* (LogicRulePanel.tsx, the effect that watches the deadline).             *)
THEOREM FiresInTimeHolds ==
  ASSUME Rule!RuleFits
  PROVE  RuleRuns => [][Rule!FiresInTime]_(Rule!vars)
<1>1. ASSUME RuleInv, Rule!Next PROVE Rule!FiresInTime
  <2> USE <1>1 DEF RuleInv, Rule!FiresInTime
  <2>1. fired \in BOOLEAN BY DEF Timed
  <2>2. ASSUME Rule!Clock(matchStart, fired), UNCHANGED status PROVE Rule!FiresInTime
    BY <2>1, <2>2 DEF Rule!Clock
  <2>3. ASSUME UNCHANGED fired PROVE Rule!FiresInTime BY <2>3
  <2>4. CASE \E k \in Rule!Keys : Rule!Publish(k) \/ Rule!ServeHistory(k) \/ Rule!OnHistory(k)
    BY <2>2, <2>3, <2>4 DEF Rule!Publish, Rule!ServeHistory, Rule!OnHistory, Rule!clock
  <2>5. CASE Rule!Subscribed \/ Rule!OnMessage \/ Rule!Poll
    BY <2>2, <2>3, <2>5 DEF Rule!Subscribed, Rule!OnMessage, Rule!Poll, Rule!clock
  <2>6. CASE \E s \in Rule!States : Rule!Engine(s) BY <2>3, <2>6 DEF Rule!Engine, Rule!clock
  <2>7. ASSUME NEW i \in DOMAIN polls, Rule!ServePoll(i) \/ Rule!LosePoll(i) PROVE Rule!FiresInTime
    BY <2>3, <2>7 DEF Rule!ServePoll, Rule!LosePoll, Rule!clock
  <2>8. ASSUME NEW i \in DOMAIN polls, Rule!OnStatus(i) PROVE Rule!FiresInTime
    <3>1. PICK s : s = polls[i][1] OBVIOUS
    <3>2. PICK news \in BOOLEAN : news = (status = <<>> \/ status[1].state # s.state \/ status[1].held # s.held)
      OBVIOUS
    <3>3. status' = <<s>> /\ Rule!Clock(IF news THEN Rule!Resync(s) ELSE matchStart, fired \/ (news /\ Mode = "sustained" /\ s.state = "fired"))
      BY <2>8, <3>1, <3>2 DEF Rule!OnStatus
    <3>4. ASSUME status' = status, news PROVE FALSE
      <4>1. status' = <<s>> BY <3>3
      <4>2. status = <<s>> BY <3>4, <4>1
      <4>3. status # <<>> /\ status[1] = s BY ONLY <4>2
      <4> QED BY <3>2, <3>4, <4>3
    <3>5. status' = status => Rule!Clock(matchStart, fired) BY <2>1, <3>3, <3>4
    <3> QED BY <2>2, <3>5
  <2>9. CASE Rule!handleToggle \/ Rule!ServeToggle \/ \E ok \in BOOLEAN : Rule!OnToggled(ok)
    BY <2>2, <2>3, <2>9 DEF Rule!handleToggle, Rule!ServeToggle, Rule!OnToggled, Rule!clock
  <2>10. CASE Rule!HoldTick
    <3>1. began # Rule!None /\ matchStart # Rule!None /\ ~fired BY <2>10 DEF Rule!HoldTick
    <3>2. fired' => fired \/ now - matchStart >= Target BY <2>10, <3>1 DEF Rule!HoldTick
    <3>3. late \/ matchStart >= began BY <3>1 DEF Timed
    <3>4. now \in Nat /\ matchStart \in 0..now /\ began \in 0..now BY <3>1 DEF Timed, RuleServed, Rule!None
    <3> QED BY <3>1, <3>2, <3>3, <3>4, Rule!RuleFits DEF Rule!RuleFits
  <2>11. CASE Rule!Tick \/ Rule!PulseEnds BY <2>3, <2>11 DEF Rule!Tick, Rule!PulseEnds, Rule!clock
  <2> QED BY <2>4, <2>5, <2>6, <2>7, <2>8, <2>9, <2>10, <2>11 DEF Rule!Next
<1> QED BY <1>1, RuleKept, PTL DEF RuleRuns

-----------------------------------------------------------------------------
LEMMA OneHeard ==
  ASSUME Rule!RuleFits, Rule!OneBroker
  PROVE  /\ \A k \in Rule!Keys : k[1] = Rule!HeardBroker
         /\ \A k, l \in Rule!Keys : k[2] = l[2] => k = l
<1>1. PICK b \in Rule!RuleBrokers : Rule!RuleBrokers = {b} BY DEF Rule!OneBroker
<1>2. \A k \in Rule!Keys : k[1] = b BY <1>1 DEF Rule!RuleBrokers
<1>3. 1 \in DOMAIN Conditions /\ DOMAIN Conditions \subseteq Nat /\ Rule!Key(Conditions[1]) \in Rule!Keys BY RuleKeysFit
<1>4. PICK i \in DOMAIN Conditions :
        i = CHOOSE n \in DOMAIN Conditions :
              Rule!Key(Conditions[n])[1] = b /\ \A j \in 1..(n - 1) : Rule!Key(Conditions[j])[1] # b
  <2>1. Rule!Key(Conditions[1])[1] = b /\ \A j \in 1..(1 - 1) : Rule!Key(Conditions[j])[1] # b BY <1>2, <1>3
  <2> QED BY <1>3, <2>1
<1>5. i \in Nat /\ i <= i BY <1>3, <1>4
<1>6. Rule!HeardBroker = b BY <1>1, <1>4, <1>5 DEF Rule!HeardBroker
<1>7. \A k \in Rule!Keys : k = <<k[1], k[2]>> BY DEF Rule!Keys, Rule!Key
<1> QED BY <1>2, <1>6, <1>7

LEMMA FollowsStays ==
  ASSUME Follows, UNCHANGED <<sent, frames, history, found, payloadCache, subscribed, offered>>
  PROVE  Follows'
BY DEF Follows, Known, Offers, RuleComing, LastOf

\* What the steps below reckon with.
LEMMA RuleNumbered ==
  ASSUME Rule!RuleFits, RuleInv, NEW k \in Rule!Keys
  PROVE  sent[k] \in Nat /\ found[k] \in Nat /\ offered[k] \in Nat /\ payloadCache[k] \in Nat
<1>1. /\ sent[k] \in Rule!Messages /\ found[k] \in Rule!Messages
      /\ offered[k] \in Rule!Messages /\ payloadCache[k] \in Rule!Messages
  BY DEF RuleInv, RuleShapes
<1> QED BY <1>1, RuleKeysFit

LEMMA RuleAppended ==
  ASSUME NEW S, NEW s \in Seq(S), NEW x \in S, NEW t, t = Append(s, x)
  PROVE  /\ DOMAIN t = 1..(Len(s) + 1) /\ DOMAIN s = 1..Len(s) /\ Len(s) \in Nat
         /\ t[Len(s) + 1] = x /\ \A i \in DOMAIN s : t[i] = s[i]
OBVIOUS

LEMMA PublishFollows ==
  ASSUME Rule!RuleFits, Rule!OneBroker, RuleInv, Follows, NEW k \in Rule!Keys, Rule!Publish(k)
  PROVE  Follows'
<1>1. /\ sent[k] < RuleMessages /\ sent' = [sent EXCEPT ![k] = @ + 1]
      /\ frames' = IF subscribed THEN Append(frames, <<k[2], sent'[k]>>) ELSE frames
      /\ offered' = IF subscribed THEN [offered EXCEPT ![k] = sent'[k]] ELSE offered
      /\ UNCHANGED <<history, found, payloadCache, subscribed>>
  BY OneHeard DEF Rule!Publish
<1>2. sent'[k] = sent[k] + 1 /\ sent'[k] \in 1..RuleMessages /\ \A l \in Rule!Keys : l # k => sent'[l] = sent[l]
  <2>1. sent \in [Rule!Keys -> Rule!Messages] /\ sent[k] \in Nat BY RuleKeysFit DEF RuleInv, RuleShapes
  <2> QED BY <1>1, <2>1 DEF Rule!RuleFits
<1>3. /\ \A l \in Rule!Keys : l # k => offered'[l] = offered[l]
      /\ subscribed => offered'[k] = sent'[k]
  BY <1>1 DEF RuleInv, RuleShapes
<1>4. ~subscribed' => frames' = <<>> /\ \A l \in Rule!Keys : history'[l] = "asked" => offered'[l] = 0
  BY <1>1 DEF Follows
<1>5. CASE subscribed
  <2>1. PICK n \in Nat : n = Len(frames) BY DEF RuleInv, RuleShapes
  <2>2. /\ DOMAIN frames' = 1..(n + 1) /\ DOMAIN frames = 1..n
        /\ frames'[n + 1] = <<k[2], sent'[k]>> /\ \A i \in 1..n : frames'[i] = frames[i]
    <3>1. <<k[2], sent'[k]>> \in RuleTopics \X (1..RuleMessages) BY <1>2, RuleKeysFit
    <3>2. frames' = Append(frames, <<k[2], sent'[k]>>) BY <1>1, <1>5
    <3> QED BY <2>1, <3>1, <3>2, RuleAppended DEF RuleInv, RuleShapes
  <2>3. \A l \in Rule!Keys : l # k => l[2] # k[2] BY OneHeard
  <2>4. ASSUME NEW l \in Rule!Keys, NEW i \in DOMAIN frames', LastOf(i, l)' PROVE frames'[i][2] = sent'[l]
    <3>1. frames'[i][1] = l[2] /\ \A j \in DOMAIN frames' : j > i => frames'[j][1] # l[2]
      BY <2>4 DEF LastOf
    <3>2. CASE i = n + 1
      <4>1. l = k BY <2>2, <2>3, <3>1, <3>2
      <4> QED BY <2>2, <3>2, <4>1
    <3>3. CASE i # n + 1
      <4>1. i \in 1..n /\ n + 1 > i /\ n + 1 \in DOMAIN frames' BY <2>2, <3>3
      <4>2. k[2] # l[2] BY <2>2, <3>1, <4>1
      <4>3. \A j \in DOMAIN frames : j > i => frames[j][1] # l[2] BY <2>2, <3>1
      <4>4. LastOf(i, l) BY <2>2, <3>1, <4>1, <4>3 DEF LastOf
      <4>5. frames[i][2] = sent[l] BY <2>2, <4>1, <4>4 DEF Follows
      <4> QED BY <1>2, <2>2, <4>1, <4>2, <4>5
    <3> QED BY <3>2, <3>3
  <2>5. ASSUME NEW l \in Rule!Keys PROVE Known(l)' /\ Offers(l)'
    <3>0. Known(l) /\ Offers(l) BY DEF Follows
    <3>1. CASE l = k
      <4>1. n + 1 \in DOMAIN frames' /\ frames'[n + 1][1] = k[2] BY <2>2
      <4>2. Known(l)' BY <3>1, <4>1 DEF Known, RuleComing
      <4>3. found[k] <= sent'[k] BY <1>2, <3>0, <3>1, RuleNumbered DEF Offers
      <4>4. offered'[k] = sent'[k] /\ sent'[k] <= sent'[k] BY <1>2, <1>3, <1>5
      <4>5. Offers(l)' BY <1>1, <3>1, <4>3, <4>4 DEF Offers
      <4> QED BY <4>2, <4>5
    <3>2. CASE l # k
      <4>1. l[2] # k[2] BY <2>3, <3>2
      <4>2. RuleComing(l)' <=> RuleComing(l) BY <2>2, <4>1 DEF RuleComing
      <4>3. Known(l)' BY <1>1, <1>3, <3>0, <3>2, <4>2 DEF Known
      <4>4. Offers(l)' BY <1>1, <1>2, <1>3, <3>0, <3>2, <4>2 DEF Offers
      <4> QED BY <4>3, <4>4
    <3> QED BY <3>1, <3>2
  <2> QED BY <1>4, <2>4, <2>5 DEF Follows
<1>6. CASE ~subscribed
  <2>1. frames = <<>> /\ frames' = <<>> /\ \A l \in Rule!Keys : history[l] = "asked" => offered[l] = 0
    BY <1>1, <1>6 DEF Follows
  <2>2. DOMAIN frames' = {} /\ DOMAIN frames = {} /\ offered' = offered BY <1>1, <1>6, <2>1
  <2>3. ASSUME NEW l \in Rule!Keys PROVE Known(l)' /\ Offers(l)'
    <3>1. Known(l) /\ Offers(l) BY DEF Follows
    <3>2. ~RuleComing(l) /\ ~RuleComing(l)' BY <2>2 DEF RuleComing
    <3>3. Known(l)' BY <1>1, <2>2, <3>1, <3>2 DEF Known
    <3>4. offered[l] <= sent'[l] BY <1>2, <3>1, RuleNumbered DEF Offers
    <3>5. Offers(l)' BY <1>1, <2>1, <2>2, <3>1, <3>2, <3>4 DEF Offers
    <3> QED BY <3>3, <3>5
  <2> QED BY <1>4, <2>2, <2>3 DEF Follows
<1> QED BY <1>5, <1>6

LEMMA Tailed ==
  ASSUME NEW S, NEW s \in Seq(S), s # <<>>, NEW t, t = Tail(s)
  PROVE  /\ Len(s) \in Nat \ {0} /\ DOMAIN s = 1..Len(s) /\ Head(s) = s[1]
         /\ DOMAIN t = 1..(Len(s) - 1) /\ \A i \in DOMAIN t : t[i] = s[i + 1]
OBVIOUS

LEMMA MessageFollows ==
  ASSUME Rule!RuleFits, Rule!OneBroker, Rule!PlainTopics, RuleInv, Follows, Rule!OnMessage
  PROVE  Follows'
<1>1. frames # <<>> /\ frames' = Tail(frames) /\ UNCHANGED <<sent, history, found, subscribed, offered>>
  BY DEF Rule!OnMessage, Rule!feed
<1>2. PICK n \in Nat \ {0} : /\ n = Len(frames) /\ DOMAIN frames = 1..n /\ Head(frames) = frames[1]
                             /\ DOMAIN frames' = 1..(n - 1) /\ \A i \in DOMAIN frames' : frames'[i] = frames[i + 1]
  BY <1>1, Tailed DEF RuleInv, RuleShapes
<1>3. PICK f : f = frames[1] OBVIOUS
<1>4. payloadCache' = [k \in Rule!Keys |-> IF Rule!Takes(k, f[1]) THEN f[2] ELSE payloadCache[k]]
  BY <1>2, <1>3 DEF Rule!OnMessage
<1>5. PICK l \in Rule!Keys : f[1] = l[2]
  <2>1. f \in RuleTopics \X (1..RuleMessages) BY <1>2, <1>3 DEF RuleInv, RuleShapes
  <2> QED BY <2>1 DEF RuleTopics
<1>6. \A k \in Rule!Keys : payloadCache'[k] = IF k = l THEN f[2] ELSE payloadCache[k]
  BY <1>4, <1>5, OneHeard DEF Rule!PlainTopics
<1>7. subscribed BY <1>1 DEF Follows
<1>8. ASSUME NEW k \in Rule!Keys, NEW i \in DOMAIN frames', LastOf(i, k)' PROVE frames'[i][2] = sent'[k]
  <2>1. i + 1 \in DOMAIN frames /\ frames'[i] = frames[i + 1] BY <1>2
  <2>2. ASSUME NEW j \in DOMAIN frames, j > i + 1 PROVE frames[j][1] # k[2]
    <3>1. j - 1 \in DOMAIN frames' /\ j - 1 > i /\ (j - 1) + 1 = j BY <1>2, <2>2
    <3> QED BY <1>2, <1>8, <3>1 DEF LastOf
  <2>3. LastOf(i + 1, k) BY <1>8, <2>1, <2>2 DEF LastOf
  <2> QED BY <1>1, <2>1, <2>3 DEF Follows
<1>9. ASSUME NEW k \in Rule!Keys PROVE Known(k)' /\ Offers(k)'
  <2>1. Known(k) /\ Offers(k) BY DEF Follows
  <2>o. Offers(k)'
    <3>1. RuleComing(k)' => RuleComing(k)
      <4>1. ASSUME NEW i \in DOMAIN frames', frames'[i][1] = k[2] PROVE RuleComing(k)
        <5>1. i + 1 \in DOMAIN frames /\ frames'[i] = frames[i + 1] BY <1>2
        <5> QED BY <4>1, <5>1 DEF RuleComing
      <4> QED BY <4>1 DEF RuleComing
    <3> QED BY <1>1, <2>1, <3>1 DEF Offers
  <2>2. ASSUME NEW i \in DOMAIN frames, i # 1, frames[i][1] = k[2] PROVE RuleComing(k)'
    <3>1. i - 1 \in DOMAIN frames' /\ frames'[i - 1] = frames[i] BY <1>2, <2>2
    <3> QED BY <2>2, <3>1 DEF RuleComing
  <2>3. CASE k = l
    <3>2. CASE \A i \in DOMAIN frames : i # 1 => frames[i][1] # k[2]
      <4>1. 1 \in DOMAIN frames /\ LastOf(1, k) BY <1>2, <1>3, <1>5, <2>3, <3>2 DEF LastOf
      <4>2. f[2] = sent[k] BY <1>3, <4>1 DEF Follows
      <4>3. RuleComing(k) BY <4>1 DEF RuleComing, LastOf
      <4>4. offered[k] = sent[k] BY <2>1, <4>3 DEF Offers
      <4>5. Known(k)' BY <1>1, <1>6, <2>3, <4>2, <4>4 DEF Known
      <4> QED BY <2>o, <4>5
    <3>3. CASE \E i \in DOMAIN frames : i # 1 /\ frames[i][1] = k[2] BY <2>2, <2>o, <3>3 DEF Known
    <3> QED BY <3>2, <3>3
  <2>4. CASE k # l
    <3>1. f[1] # k[2] BY <1>5, <2>4, OneHeard
    <3>2. RuleComing(k) => RuleComing(k)' BY <1>3, <2>2, <3>1 DEF RuleComing
    <3>3. Known(k)' BY <1>1, <1>6, <2>1, <2>4, <3>2 DEF Known
    <3> QED BY <2>o, <3>3
  <2> QED BY <2>3, <2>4
<1> QED BY <1>1, <1>7, <1>8, <1>9 DEF Follows

LEMMA HistoryFollows ==
  ASSUME Rule!RuleFits, RuleInv, Follows, NEW k \in Rule!Keys, Rule!ServeHistory(k) \/ Rule!OnHistory(k)
  PROVE  Follows'
<1>1. UNCHANGED <<sent, frames, subscribed>> BY DEF Rule!ServeHistory, Rule!OnHistory, Rule!feed
<1>2. \A l \in Rule!Keys : RuleComing(l)' = RuleComing(l) BY <1>1 DEF RuleComing
<1>3. \A l \in Rule!Keys, i \in DOMAIN frames' : LastOf(i, l)' => frames'[i][2] = sent'[l]
  BY <1>1 DEF Follows, LastOf
<1>4. /\ history'[k] # "asked"
      /\ \A l \in Rule!Keys : l # k => /\ history'[l] = history[l] /\ found'[l] = found[l]
                                      /\ payloadCache'[l] = payloadCache[l] /\ offered'[l] = offered[l]
  BY DEF Rule!ServeHistory, Rule!OnHistory, Rule!feed, RuleInv, RuleShapes
<1>5. Known(k) /\ Offers(k) BY DEF Follows
<1>6. ASSUME NEW l \in Rule!Keys, l # k PROVE Known(l)' /\ Offers(l)'
  <2>1. Known(l) /\ Offers(l) BY DEF Follows
  <2>2. Known(l)' BY <1>2, <1>4, <1>6, <2>1 DEF Known
  <2>3. Offers(l)' BY <1>1, <1>2, <1>4, <1>6, <2>1 DEF Offers
  <2> QED BY <2>2, <2>3
<1>7. Known(k)' /\ Offers(k)'
  <2>1. CASE Rule!ServeHistory(k)
    <3>1. PICK n \in 0..sent[k] : /\ found' = [found EXCEPT ![k] = n]
                                  /\ offered' = [offered EXCEPT ![k] = IF n > @ THEN n ELSE @]
      BY <2>1 DEF Rule!ServeHistory
    <3>2. n \in Nat /\ n <= sent[k] BY RuleNumbered
    <3>3. found'[k] = n /\ offered'[k] = (IF n > offered[k] THEN n ELSE offered[k])
      BY <3>1 DEF RuleInv, RuleShapes
    <3>4. history[k] = "asked" /\ history'[k] = "answered" /\ payloadCache'[k] = payloadCache[k]
      BY <2>1 DEF Rule!ServeHistory, RuleInv, RuleShapes
    <3>5. offered[k] \in {0, sent[k]} BY <1>5, <3>4 DEF Offers
    <3>6. offered[k] = sent[k] => offered'[k] = sent[k] BY <3>2, <3>3, RuleNumbered
    <3>7. offered[k] = 0 => offered'[k] = n BY <3>2, <3>3
    <3>8. Known(k)'
      <4>1. RuleComing(k) \/ payloadCache[k] = offered[k] BY <1>5, <3>4 DEF Known
      <4> QED BY <1>2, <3>3, <3>4, <3>5, <3>6, <3>7, <4>1 DEF Known
    <3>9. found'[k] <= offered'[k] /\ offered'[k] <= sent[k] BY <3>2, <3>3, <3>5, RuleNumbered
    <3>10. RuleComing(k) => offered'[k] = sent[k] BY <1>5, <3>6 DEF Offers
    <3>11. Offers(k)' BY <1>1, <1>2, <3>4, <3>9, <3>10 DEF Offers
    <3> QED BY <3>8, <3>11
  <2>2. CASE Rule!OnHistory(k)
    <3>1. history[k] = "answered" /\ history'[k] = "done" /\ found'[k] = 0 /\ offered'[k] = offered[k]
      BY <2>2 DEF Rule!OnHistory, Rule!feed, RuleInv, RuleShapes
    <3>2. payloadCache'[k] = IF payloadCache[k] # 0 THEN payloadCache[k] ELSE found[k]
      BY <2>2 DEF Rule!OnHistory, Rule!FromHistory, RuleInv, RuleShapes
    <3>3. RuleComing(k) \/ payloadCache'[k] = offered[k]
      <4>1. CASE payloadCache[k] = offered[k] /\ payloadCache[k] = 0
        <5>1. found[k] = 0 BY <1>5, <4>1, RuleNumbered DEF Offers
        <5> QED BY <3>2, <4>1, <5>1
      <4>2. CASE payloadCache[k] = offered[k] /\ payloadCache[k] # 0 BY <3>2, <4>2
      <4>3. CASE payloadCache[k] = 0 /\ found[k] = offered[k] BY <3>2, <4>3
      <4> QED BY <1>5, <4>1, <4>2, <4>3 DEF Known
    <3>4. Known(k)' BY <1>2, <3>1, <3>3 DEF Known
    <3>5. Offers(k)' BY <1>1, <1>2, <1>5, <3>1, RuleNumbered DEF Offers
    <3> QED BY <3>4, <3>5
  <2> QED BY <2>1, <2>2
<1>8. ~subscribed' => frames' = <<>> /\ \A l \in Rule!Keys : history'[l] = "asked" => offered'[l] = 0
  BY <1>1, <1>4 DEF Follows
<1> QED BY <1>3, <1>6, <1>7, <1>8 DEF Follows

LEMMA StepFollows ==
  ASSUME Rule!RuleFits, Rule!OneBroker, Rule!PlainTopics, RuleInv, Follows, [Rule!Next]_(Rule!vars)
  PROVE  Follows'
<1>1. CASE UNCHANGED Rule!vars BY <1>1, FollowsStays DEF Rule!vars, Rule!values, Rule!feed
<1>2. CASE \E k \in Rule!Keys : Rule!Publish(k) \/ Rule!ServeHistory(k) \/ Rule!OnHistory(k)
  BY <1>2, PublishFollows, HistoryFollows
<1>3. CASE Rule!OnMessage BY <1>3, MessageFollows
<1>4. CASE Rule!Subscribed
  <2>1. subscribed' /\ UNCHANGED <<sent, frames, history, found, payloadCache, offered>>
    BY <1>4 DEF Rule!Subscribed
  <2> QED BY <2>1 DEF Follows, Known, Offers, RuleComing, LastOf
<1>5. CASE Rule!Poll \/ \E s \in Rule!States : Rule!Engine(s) BY <1>5, FollowsStays DEF Rule!Poll, Rule!Engine, Rule!values, Rule!feed
<1>6. CASE \E i \in DOMAIN polls : Rule!ServePoll(i) \/ Rule!OnStatus(i) \/ Rule!LosePoll(i)
  BY <1>6, FollowsStays DEF Rule!ServePoll, Rule!OnStatus, Rule!LosePoll, Rule!values, Rule!feed
<1>7. CASE Rule!handleToggle \/ Rule!ServeToggle \/ \E ok \in BOOLEAN : Rule!OnToggled(ok)
  BY <1>7, FollowsStays DEF Rule!handleToggle, Rule!ServeToggle, Rule!OnToggled, Rule!values, Rule!feed
<1>8. CASE Rule!HoldTick \/ Rule!Tick \/ Rule!PulseEnds BY <1>8, FollowsStays DEF Rule!HoldTick, Rule!Tick, Rule!PulseEnds, Rule!values, Rule!feed
<1> QED BY <1>1, <1>2, <1>3, <1>4, <1>5, <1>6, <1>7, <1>8 DEF Rule!Next

(* Once history and subscription of every topic have come in, the panel    *)
(* evaluates the newest message of each that either gave it, however old   *)
(* or late the history's answer is (LogicPanel.tsx, prefetch and           *)
(* subscription).                                                          *)
THEOREM CatchesUp ==
  ASSUME Rule!RuleFits, Rule!PlainTopics
  PROVE  RuleRuns => []Rule!CaughtUp
<1>1. ASSUME Rule!OneBroker PROVE RuleRuns => []Rule!CaughtUp
  <2>1. Rule!Init => Follows
    <3> SUFFICES ASSUME Rule!Init PROVE Follows OBVIOUS
    <3>1. /\ frames = <<>> /\ \A k \in Rule!Keys : payloadCache[k] = 0 /\ found[k] = 0 /\ offered[k] = 0
          /\ \A k \in Rule!Keys : sent[k] \in {0, 1}
      BY DEF Rule!Init
    <3>2. \A k \in Rule!Keys : found[k] <= offered[k] /\ offered[k] <= sent[k] BY <3>1
    <3>3. DOMAIN frames = {} BY <3>1
    <3>4. \A k \in Rule!Keys : ~RuleComing(k) BY <3>3 DEF RuleComing
    <3> QED BY <3>1, <3>2, <3>3, <3>4 DEF Follows, Known, Offers
  <2>2. RuleInv /\ Follows /\ [Rule!Next]_(Rule!vars) => Follows' BY <1>1, StepFollows
  <2>3. ASSUME RuleInv, Follows PROVE Rule!CaughtUp
    <3> SUFFICES ASSUME frames = <<>>, \A k \in Rule!Keys : history[k] = "done", NEW k \in Rule!Keys
                 PROVE  payloadCache[k] = offered[k]
      BY DEF Rule!CaughtUp
    <3>1. Known(k) BY <2>3 DEF Follows
    <3>2. ~RuleComing(k) BY DEF RuleComing
    <3> QED BY <3>1, <3>2 DEF Known
  <2> QED BY <2>1, <2>2, <2>3, RuleKept, PTL DEF RuleRuns
<1>2. ASSUME ~Rule!OneBroker PROVE RuleRuns => []Rule!CaughtUp
  <2>1. Rule!CaughtUp BY <1>2 DEF Rule!CaughtUp
  <2> QED BY <2>1, PTL
<1> QED BY <1>1, <1>2


-----------------------------------------------------------------------------
(***************************************************************************)
(* The rule's window (LogicRuleEditor).  JoinsAsShown compares a fold over *)
(* the conditions with a recursion over them; it is proved along the       *)
(* conditions, by the least at which they could part (LeastNumber).        *)
(***************************************************************************)
(* Its runs, with no fairness assumed. *)
EditorRuns == Editor!Init /\ [][Editor!Next]_(Editor!vars)

Ends == Brokers \cup {Editor!NoBroker}
Entries == [conditions : Seq(Editor!FormConditions), sourceBrokerId : Ends, target : Seq(Editor!Topics), targetBrokerId : Ends,
            mode : Editor!Modes, count : Nat, cooldown : Int, match : {"all", "any"}, enabled : BOOLEAN]
Window(f) == f \in Entries /\ f.conditions # <<>> /\ Len(f.conditions) <= MaxConditions
Stands(c) == c \in Editor!Rules /\ Len(c.conditions) <= MaxConditions
EditorInv ==
    /\ Stands(config) /\ panelBroker \in Ends /\ Editor!SavedAccepted
    /\ page \in {"dashboard", "editor", "explorer"}
    /\ IF page = "editor" THEN Window(form) ELSE form = Editor!NoForm
    /\ picking \in {Editor!NoIndex, Editor!TargetEnd} \cup (1..MaxConditions)
    /\ page = "dashboard" => left = <<>> /\ draft = <<>>
    /\ page = "editor" => draft = <<>> /\ (left # <<>> => Editor!Kept(left[1], form))
    /\ page = "explorer" => /\ \E f \in Entries : Window(f) /\ left = <<f>> /\ draft = <<Editor!Config(f)>>
                            /\ picking \in {Editor!TargetEnd} \cup DOMAIN left[1].conditions

-----------------------------------------------------------------------------
LEMMA Dropped ==
  ASSUME NEW S, NEW s \in Seq(S), NEW i \in DOMAIN s
  PROVE  Editor!RemoveAt(s, i) \in Seq(S) /\ Len(Editor!RemoveAt(s, i)) = Len(s) - 1
<1>1. Len(s) \in Nat /\ i \in 1..Len(s) OBVIOUS
<1>2. SubSeq(s, 1, i - 1) \in Seq(S) /\ Len(SubSeq(s, 1, i - 1)) = i - 1
  BY <1>1
<1>3. SubSeq(s, i + 1, Len(s)) \in Seq(S) /\ Len(SubSeq(s, i + 1, Len(s))) = Len(s) - i
  <2>1. CASE i = Len(s) BY <1>1, <2>1
  <2>2. CASE i < Len(s) BY <1>1, <2>2
  <2> QED BY <1>1, <2>1, <2>2
<1>4. ASSUME NEW a \in Seq(S), NEW b \in Seq(S), Len(a) = i - 1, Len(b) = Len(s) - i
      PROVE  a \o b \in Seq(S) /\ Len(a \o b) = Len(s) - 1
  BY <1>1, <1>4
<1> QED BY <1>2, <1>3, <1>4 DEF Editor!RemoveAt

LEMMA Placed ==
  ASSUME NEW S, NEW s \in Seq(S), NEW i \in DOMAIN s, NEW x \in S
  PROVE  /\ [s EXCEPT ![i] = x] \in Seq(S) /\ Len([s EXCEPT ![i] = x]) = Len(s)
         /\ DOMAIN [s EXCEPT ![i] = x] = DOMAIN s
         /\ \A j \in DOMAIN s : j # i => [s EXCEPT ![i] = x][j] = s[j]
OBVIOUS

\* The window that is built on a rule and a pick, and what it takes over.
LEMMA FormFits ==
  ASSUME Editor!RulesFit, NEW c, Stands(c), panelBroker \in Ends, NEW at \in Int, NEW topic \in Editor!Topics, NEW broker \in Ends
  PROVE  Window(Editor!Form(c, at, topic, broker))
<1>1. /\ c.source \in Editor!Topics /\ c.sourceBroker \in Ends /\ c.targetBroker \in Ends
      /\ c.conditions \in Seq(Editor!FormConditions) /\ Len(c.conditions) <= MaxConditions /\ c.target \in Seq(Editor!Topics)
      /\ c.mode \in Editor!Modes /\ c.count \in Nat /\ c.cooldown \in Int /\ c.match \in {"all", "any"} /\ c.enabled \in BOOLEAN
  BY DEF Stands, Editor!Rules, Ends
<1>2. PICK s : s = Editor!StartConditions(c) OBVIOUS
<1>3. s \in Seq(Editor!FormConditions) /\ s # <<>> /\ Len(s) <= MaxConditions
  <2>1. CASE c.conditions = <<>>
    <3>1. Editor!Condition(c.source, c.sourceBroker, "") \in Editor!FormConditions BY <1>1 DEF Editor!Condition, Editor!FormConditions, Ends, Editor!Texts, Editor!Operators
    <3>2. s = <<Editor!Condition(c.source, c.sourceBroker, "")>> BY <1>2, <2>1 DEF Editor!StartConditions
    <3>3. PICK y \in Editor!FormConditions : s = <<y>> BY <3>1, <3>2
    <3>4. Len(s) = 1 /\ s \in Seq(Editor!FormConditions) /\ s # <<>> BY <3>3
    <3> QED BY <3>4 DEF Editor!RulesFit
  <2>2. CASE c.conditions # <<>>
    <3>1. 1 \in DOMAIN c.conditions /\ c.conditions[1] \in Editor!FormConditions BY <1>1, <2>2
    <3>2. PICK x : x = [c.conditions[1] EXCEPT !.topic = c.source, !.broker = Editor!Or(@, c.sourceBroker)] OBVIOUS
    <3>3. x \in Editor!FormConditions BY <1>1, <3>1, <3>2 DEF Editor!FormConditions, Editor!Or, Ends
    <3>4. s \in {c.conditions, [c.conditions EXCEPT ![1] = x]}
      BY <1>1, <1>2, <2>2, <3>1, <3>2 DEF Editor!StartConditions
    <3>5. /\ [c.conditions EXCEPT ![1] = x] \in Seq(Editor!FormConditions)
          /\ Len([c.conditions EXCEPT ![1] = x]) = Len(c.conditions)
      BY <1>1, <3>1, <3>3, Placed
    <3>6. Len(c.conditions) # 0 BY <1>1, <2>2
    <3> QED BY <1>1, <2>2, <3>4, <3>5, <3>6
  <2> QED BY <2>1, <2>2
<1>4. PICK p : p = Editor!Picked(s, at, topic, broker) OBVIOUS
<1>5. p \in Seq(Editor!FormConditions) /\ p # <<>> /\ Len(p) <= MaxConditions
  <2>1. CASE at \in DOMAIN s
    <3>1. PICK x : x = [s[at] EXCEPT !.topic = topic, !.broker = Editor!Or(broker, @)] OBVIOUS
    <3>a. s[at] \in Editor!FormConditions BY <1>3, <2>1
    <3>2. x \in Editor!FormConditions BY <3>a, <3>1 DEF Editor!FormConditions, Editor!Or, Ends
    <3>3. p = [s EXCEPT ![at] = x] BY <1>3, <1>4, <2>1, <3>1 DEF Editor!Picked
    <3>4. p \in Seq(Editor!FormConditions) /\ Len(p) = Len(s) BY <1>3, <2>1, <3>2, <3>3, Placed
    <3>5. Len(s) # 0 BY <1>3
    <3> QED BY <1>3, <3>4, <3>5
  <2>2. CASE at \notin DOMAIN s BY <1>3, <1>4, <2>2 DEF Editor!Picked
  <2> QED BY <2>1, <2>2
<1>6. PICK sb : sb = Editor!Or(panelBroker, Editor!Or(c.sourceBroker, Fallback)) OBVIOUS
<1>7. sb \in Ends BY <1>1, <1>6 DEF Editor!Or, Ends, Editor!RulesFit
<1>8. Editor!Form(c, at, topic, broker) =
      [conditions |-> p, sourceBrokerId |-> sb,
       target |-> IF at = Editor!TargetEnd THEN <<topic>> ELSE c.target,
       targetBrokerId |-> IF at = Editor!TargetEnd THEN Editor!Or(broker, Editor!Or(c.targetBroker, sb)) ELSE c.targetBroker,
       mode |-> c.mode, count |-> c.count, cooldown |-> c.cooldown, match |-> c.match, enabled |-> c.enabled]
  BY <1>2, <1>4, <1>6 DEF Editor!Form
<1>9. (IF at = Editor!TargetEnd THEN <<topic>> ELSE c.target) \in Seq(Editor!Topics)
  BY <1>1
<1>10. (IF at = Editor!TargetEnd THEN Editor!Or(broker, Editor!Or(c.targetBroker, sb)) ELSE c.targetBroker) \in Ends
  BY <1>1, <1>7 DEF Editor!Or
<1> QED BY <1>1, <1>5, <1>7, <1>8, <1>9, <1>10 DEF Window, Entries

\* The draft of a window is a rule, and the window built on it the same but for the pick.
LEMMA DraftFits ==
  ASSUME Editor!RulesFit, NEW f, Window(f)
  PROVE  Stands(Editor!Config(f)) /\ Editor!primaryBrokerId(f) \in Ends
<1>1. f \in Entries /\ 1 \in DOMAIN f.conditions /\ f.conditions[1] \in Editor!FormConditions
  BY DEF Window, Entries
<1>2. Editor!primaryTopic(f) \in Editor!Topics /\ Editor!primaryBrokerId(f) \in Ends
  BY <1>1 DEF Editor!FormConditions, Editor!primaryTopic, Editor!primaryBrokerId, Editor!Or, Ends, Entries, Editor!RulesFit
<1> QED BY <1>1, <1>2 DEF Editor!Config, Stands, Window, Editor!Rules, Entries, Ends

LEMMA TripKeeps ==
  ASSUME Editor!RulesFit, NEW f, Window(f), picking \in {Editor!TargetEnd} \cup DOMAIN f.conditions,
         NEW topic, NEW broker
  PROVE  Editor!Kept(f, Editor!Form(Editor!Config(f), picking, topic, broker))
<1>1. f \in Entries /\ 1 \in DOMAIN f.conditions /\ f.conditions # <<>> /\ DOMAIN f.conditions \subseteq Nat
  BY DEF Window, Entries
<1>2. Editor!StartConditions(Editor!Config(f)) = f.conditions
  BY <1>1 DEF Editor!StartConditions, Editor!Config, Editor!primaryTopic
<1>3. PICK g : g = Editor!Form(Editor!Config(f), picking, topic, broker) OBVIOUS
<1>4. g.conditions = Editor!Picked(f.conditions, picking, topic, broker) BY <1>2, <1>3 DEF Editor!Form
<1>5. /\ DOMAIN g.conditions = DOMAIN f.conditions /\ Len(g.conditions) = Len(f.conditions)
      /\ \A i \in DOMAIN f.conditions : i # picking => g.conditions[i] = f.conditions[i]
  <2>1. CASE picking \in DOMAIN f.conditions
    <3>1. PICK x : g.conditions = [f.conditions EXCEPT ![picking] = x]
      BY <1>4, <2>1 DEF Editor!Picked
    <3>2. f.conditions \in Seq(Editor!FormConditions) BY <1>1 DEF Entries
    <3> QED BY <2>1, <3>1, <3>2
  <2>2. CASE picking \notin DOMAIN f.conditions BY <1>4, <2>2 DEF Editor!Picked
  <2> QED BY <2>1, <2>2
<1>6. /\ g.mode = f.mode /\ g.count = f.count /\ g.cooldown = f.cooldown /\ g.enabled = f.enabled
      /\ picking = Editor!TargetEnd \/ (g.target = f.target /\ g.targetBrokerId = f.targetBrokerId)
  BY <1>3 DEF Editor!Form, Editor!Config
<1>7. Editor!Kept(f, g) BY <1>5, <1>6 DEF Editor!Kept, Editor!ShownMode
<1> QED BY <1>3, <1>7

-----------------------------------------------------------------------------
LEMMA EditorEditStep ==
  ASSUME Editor!RulesFit, EditorInv, NEW f, Editor!Edit(f), page = "editor" => Window(f)
  PROVE  EditorInv'
<1>1. /\ page = "editor" /\ page' = page /\ form' = f /\ left' = <<>>
      /\ UNCHANGED <<config, panelBroker, draft, picking>>
  BY DEF Editor!Edit
<1> QED BY <1>1 DEF EditorInv, Stands, Editor!SavedAccepted, Window

\* Another condition in the place of one.
LEMMA ChangeFits ==
  ASSUME NEW f, Window(f), NEW i \in DOMAIN f.conditions, NEW c \in Editor!FormConditions
  PROVE  Window([f EXCEPT !.conditions[i] = c])
<1>1. f \in Entries /\ f.conditions \in Seq(Editor!FormConditions) /\ f.conditions # <<>>
  BY DEF Window, Entries
<1>2. PICK s : s = [f.conditions EXCEPT ![i] = c] OBVIOUS
<1>3. s \in Seq(Editor!FormConditions) /\ Len(s) = Len(f.conditions) BY <1>1, <1>2, Placed
<1>4. s # <<>> BY <1>1, <1>3
<1>5. [f EXCEPT !.conditions[i] = c] = [f EXCEPT !.conditions = s] BY <1>1, <1>2 DEF Entries
<1>6. [f EXCEPT !.conditions = s] \in Entries /\ [f EXCEPT !.conditions = s].conditions = s
  BY <1>1, <1>3 DEF Entries
<1> QED BY <1>3, <1>4, <1>5, <1>6 DEF Window

LEMMA EditorChangeStep ==
  ASSUME Editor!RulesFit, EditorInv, NEW i \in DOMAIN form.conditions, page = "editor",
         NEW c \in Editor!FormConditions, Editor!handleConditionChange(i, c)
  PROVE  EditorInv'
<1>1. Window(form) BY DEF EditorInv
<1>2. PICK f : f = [form EXCEPT !.conditions[i] = c] OBVIOUS
<1>3. Window(f) BY <1>1, <1>2, ChangeFits
<1> QED BY <1>2, <1>3, EditorEditStep DEF Editor!handleConditionChange

LEMMA ListStep ==
  ASSUME Editor!RulesFit, EditorInv,
         Editor!handleAddCondition \/ \E i \in DOMAIN form.conditions : Editor!handleRemoveCondition(i)
  PROVE  EditorInv'
<1>1. page = "editor" BY DEF Editor!handleAddCondition, Editor!handleRemoveCondition, Editor!Edit
<1>2. Window(form) /\ form \in Entries /\ form.conditions \in Seq(Editor!FormConditions)
  BY <1>1 DEF EditorInv, Window, Entries
<1>3. ASSUME NEW s \in Seq(Editor!FormConditions), s # <<>>, Len(s) <= MaxConditions, Editor!Edit([form EXCEPT !.conditions = s])
      PROVE  EditorInv'
  <2>1. PICK f : f = [form EXCEPT !.conditions = s] OBVIOUS
  <2>2. f \in Entries /\ f.conditions = s BY <1>2, <2>1 DEF Entries
  <2>3. Window(f) BY <1>3, <2>2 DEF Window
  <2> QED BY <1>3, <2>1, <2>3, EditorEditStep
<1>4. CASE Editor!handleAddCondition
  <2>1. Editor!Condition(Editor!NoTopic, Editor!NoBroker, "and") \in Editor!FormConditions
    BY DEF Editor!Condition, Editor!FormConditions, Editor!Topics, Editor!Operators, Editor!Texts
  <2>2. PICK c \in Editor!FormConditions : c = Editor!Condition(Editor!NoTopic, Editor!NoBroker, "and") BY <2>1
  <2>3. PICK s : s = Append(form.conditions, c) OBVIOUS
  <2>4. s \in Seq(Editor!FormConditions) /\ Len(s) = Len(form.conditions) + 1 /\ s # <<>> BY <1>2, <2>3
  <2>5. Len(s) <= MaxConditions BY <1>2, <1>4, <2>4 DEF Editor!handleAddCondition, Editor!RulesFit
  <2>6. Editor!Edit([form EXCEPT !.conditions = s]) BY <1>2, <1>4, <2>2, <2>3 DEF Editor!handleAddCondition, Entries
  <2> QED BY <1>3, <2>4, <2>5, <2>6
<1>5. ASSUME NEW i \in DOMAIN form.conditions, Editor!handleRemoveCondition(i) PROVE EditorInv'
  <2>1. PICK r : r = Editor!RemoveAt(form.conditions, i) OBVIOUS
  <2>2. r \in Seq(Editor!FormConditions) /\ Len(r) = Len(form.conditions) - 1 BY <1>2, <2>1, Dropped
  <2>3. Len(form.conditions) > 1 /\ Len(form.conditions) \in Nat BY <1>2, <1>5 DEF Editor!handleRemoveCondition
  <2>4. 1 \in DOMAIN r /\ r[1] \in Editor!FormConditions BY <2>2, <2>3
  <2>5. PICK c : c = [r[1] EXCEPT !.join = ""] OBVIOUS
  <2>6. c \in Editor!FormConditions BY <2>4, <2>5 DEF Editor!FormConditions
  <2>7. PICK s : s = [r EXCEPT ![1] = c] OBVIOUS
  <2>8. s \in Seq(Editor!FormConditions) /\ Len(s) = Len(r) BY <2>2, <2>4, <2>6, <2>7, Placed
  <2>9. s # <<>> /\ Len(s) <= MaxConditions
    <3>1. Len(form.conditions) <= MaxConditions /\ MaxConditions \in Nat BY <1>2 DEF Window, Editor!RulesFit
    <3> QED BY <2>2, <2>3, <2>8, <3>1
  <2>10. Editor!Removed(form.conditions, i) = s BY <2>1, <2>4, <2>5, <2>7 DEF Editor!Removed
  <2>11. Editor!Edit([form EXCEPT !.conditions = s]) BY <1>2, <1>5, <2>10 DEF Editor!handleRemoveCondition, Entries
  <2> QED BY <1>3, <2>8, <2>9, <2>11
<1> QED BY <1>4, <1>5

LEMMA FieldStep ==
  ASSUME Editor!RulesFit, EditorInv, Editor!ChooseMode \/ Editor!TypeTarget \/ Editor!TypeCooldown \/ Editor!ChooseTargetBroker
         \/ Editor!ToggleEnabled
  PROVE  EditorInv'
<1>1. page = "editor" BY DEF Editor!ChooseMode, Editor!TypeTarget, Editor!TypeCooldown, Editor!ChooseTargetBroker, Editor!ToggleEnabled, Editor!Edit
<1>2. Window(form) /\ form \in Entries BY <1>1 DEF EditorInv, Window
<1>3. ASSUME NEW f \in Entries, f.conditions = form.conditions, Editor!Edit(f) PROVE EditorInv'
  BY <1>2, <1>3, EditorEditStep DEF Window
<1>4. CASE Editor!ChooseMode
  <2>1. PICK m \in Editor!Modes, n \in {Editor!DefaultCount, 75} : Editor!Edit([form EXCEPT !.mode = m, !.count = n])
    BY <1>4 DEF Editor!ChooseMode
  <2>2. n \in Nat BY DEF Editor!DefaultCount
  <2>3. PICK f : f = [form EXCEPT !.mode = m, !.count = n] OBVIOUS
  <2>4. f \in Entries /\ f.conditions = form.conditions BY <1>2, <2>2, <2>3 DEF Entries
  <2> QED BY <1>3, <2>1, <2>3, <2>4
<1>5. CASE Editor!TypeTarget
  <2>1. PICK t \in {<<x>> : x \in EditorTargets} \cup {<<Editor!EmptyEntry, Editor!EmptyEntry>>} :
          Editor!Edit([form EXCEPT !.target = t])
    BY <1>5 DEF Editor!TypeTarget
  <2>2. t \in Seq(Editor!Topics)
    <3>1. \A x \in Editor!Topics : <<x>> \in Seq(Editor!Topics) /\ <<x, x>> \in Seq(Editor!Topics) OBVIOUS
    <3>2. Editor!EmptyEntry \in Editor!Topics /\ EditorTargets \subseteq Editor!Topics BY DEF Editor!Topics
    <3> QED BY <3>1, <3>2
  <2>3. PICK f : f = [form EXCEPT !.target = t] OBVIOUS
  <2>4. f \in Entries /\ f.conditions = form.conditions BY <1>2, <2>2, <2>3 DEF Entries
  <2> QED BY <1>3, <2>1, <2>3, <2>4
<1>8. CASE Editor!TypeCooldown
  <2>1. PICK n \in EditorCooldowns : Editor!Edit([form EXCEPT !.cooldown = n]) BY <1>8 DEF Editor!TypeCooldown
  <2>2. n \in Int BY DEF Editor!RulesFit
  <2>3. PICK f : f = [form EXCEPT !.cooldown = n] OBVIOUS
  <2>4. f \in Entries /\ f.conditions = form.conditions BY <1>2, <2>2, <2>3 DEF Entries
  <2> QED BY <1>3, <2>1, <2>3, <2>4
<1>6. CASE Editor!ChooseTargetBroker
  <2>1. PICK b \in Brokers : Editor!Edit([form EXCEPT !.targetBrokerId = b]) BY <1>6 DEF Editor!ChooseTargetBroker
  <2>2. PICK f : f = [form EXCEPT !.targetBrokerId = b] OBVIOUS
  <2>3. f \in Entries /\ f.conditions = form.conditions BY <1>2, <2>2 DEF Entries, Ends
  <2> QED BY <1>3, <2>1, <2>2, <2>3
<1>7. CASE Editor!ToggleEnabled
  <2>1. PICK f : f = [form EXCEPT !.enabled = ~@] OBVIOUS
  <2>2. f \in Entries /\ f.conditions = form.conditions BY <1>2, <2>1 DEF Entries
  <2> QED BY <1>3, <1>7, <2>1, <2>2 DEF Editor!ToggleEnabled
<1> QED BY <1>4, <1>5, <1>6, <1>7, <1>8

LEMMA ConditionStep ==
  ASSUME Editor!RulesFit, EditorInv, NEW i \in DOMAIN form.conditions, Editor!EditCondition(i)
  PROVE  EditorInv'
<1>1. page = "editor"
  BY DEF Editor!EditCondition, Editor!handleRemoveCondition, Editor!ChooseJoin, Editor!ChooseBroker, Editor!TypeTopic, Editor!ChooseOperator,
         Editor!handleConditionChange, Editor!Edit
<1>2. Window(form) /\ form \in Entries /\ form.conditions[i] \in Editor!FormConditions
  BY <1>1 DEF EditorInv, Window, Entries
<1>3. CASE Editor!handleRemoveCondition(i) BY <1>3, ListStep
<1>4. CASE Editor!ChooseJoin(i)
  <2>1. PICK j \in {"and", "or"} : Editor!handleConditionChange(i, [form.conditions[i] EXCEPT !.join = j])
    BY <1>4 DEF Editor!ChooseJoin
  <2>2. PICK c : c = [form.conditions[i] EXCEPT !.join = j] OBVIOUS
  <2>3. c \in Editor!FormConditions BY <1>2, <2>2 DEF Editor!FormConditions
  <2> QED BY <1>1, <2>1, <2>2, <2>3, EditorChangeStep
<1>5. CASE Editor!ChooseBroker(i)
  <2>1. PICK b \in Brokers :
          Editor!Edit([form EXCEPT
                  !.conditions[i].broker = IF i # 1 /\ b = Editor!primaryBrokerId(form) THEN Editor!NoBroker ELSE b,
                  !.sourceBrokerId = IF i = 1 THEN b ELSE @])
    BY <1>5 DEF Editor!ChooseBroker
  <2>2. PICK e \in Ends : e = IF i # 1 /\ b = Editor!primaryBrokerId(form) THEN Editor!NoBroker ELSE b BY DEF Ends
  <2>3. PICK o \in Ends : o = IF i = 1 THEN b ELSE form.sourceBrokerId BY <1>2 DEF Ends, Entries
  <2>4. PICK c : c = [form.conditions[i] EXCEPT !.broker = e] OBVIOUS
  <2>5. c \in Editor!FormConditions BY <1>2, <2>4 DEF Editor!FormConditions, Ends
  <2>6. PICK g : g = [form EXCEPT !.conditions[i] = c] OBVIOUS
  <2>7. Window(g) BY <1>2, <2>5, <2>6, ChangeFits
  <2>8. PICK f : f = [g EXCEPT !.sourceBrokerId = o] OBVIOUS
  <2>9. Window(f) BY <2>7, <2>8 DEF Window, Entries
  <2>10. f = [form EXCEPT !.conditions[i].broker = e, !.sourceBrokerId = o]
    BY <1>2, <2>4, <2>6, <2>8 DEF Entries
  <2>11. Editor!Edit(f) BY <1>2, <2>1, <2>2, <2>3, <2>10 DEF Entries
  <2> QED BY <2>9, <2>11, EditorEditStep
<1>6. CASE Editor!TypeTopic(i)
  <2>1. PICK t \in EditorFilters \cup {Editor!NoTopic} : Editor!handleConditionChange(i, [form.conditions[i] EXCEPT !.topic = t])
    BY <1>6 DEF Editor!TypeTopic
  <2>2. PICK c : c = [form.conditions[i] EXCEPT !.topic = t] OBVIOUS
  <2>3. c \in Editor!FormConditions BY <1>2, <2>2 DEF Editor!FormConditions, Editor!Topics
  <2> QED BY <1>1, <2>1, <2>2, <2>3, EditorChangeStep
<1>7. CASE Editor!ChooseOperator(i)
  <2>1. PICK op \in OfferedOperators, v \in EditorValues :
          Editor!handleConditionChange(i, [form.conditions[i] EXCEPT !.op = op, !.value = v])
    BY <1>7 DEF Editor!ChooseOperator
  <2>2. PICK c : c = [form.conditions[i] EXCEPT !.op = op, !.value = v] OBVIOUS
  <2>3. c \in Editor!FormConditions BY <1>2, <2>2 DEF Editor!FormConditions, Editor!Texts, Editor!RulesFit
  <2> QED BY <1>1, <2>1, <2>2, <2>3, EditorChangeStep
<1> QED BY <1>3, <1>4, <1>5, <1>6, <1>7 DEF Editor!EditCondition

-----------------------------------------------------------------------------
\* A topic matches one without wildcards only when it is the same.
LEMMA PlainMatchesItself ==
  ASSUME Editor!RulesFit, NEW t \in Editor!Topics, NEW f \in Editor!Topics, ~Editor!HasWildcards(t), Editor!mqttTopicMatches(t, f)
  PROVE  t = f /\ Editor!mqttTopicMatches(f, t)
<1>1. /\ t \in Seq({t[i] : i \in DOMAIN t}) /\ f \in Seq({f[i] : i \in DOMAIN f})
  BY DEF Editor!RulesFit
<1>2. \A i \in DOMAIN t : t[i] # "+" /\ t[i] # "#" BY DEF Editor!HasWildcards
<1>3. Len(t) = Len(f) /\ \A i \in DOMAIN t : t[i] = f[i]
  BY <1>2 DEF Editor!mqttTopicMatches
<1>4. t = f
  <2>1. PICK n \in Nat : n = Len(t) /\ DOMAIN t = 1..n /\ DOMAIN f = 1..n BY <1>1, <1>3
  <2>2. t = [i \in 1..n |-> t[i]] /\ f = [i \in 1..n |-> f[i]] BY <1>1, <2>1
  <2> QED BY <1>3, <2>1, <2>2
<1> QED BY <1>4

\* What the window lets through.
LEMMA LetThrough ==
  ASSUME Editor!RulesFit, NEW f, Window(f), Editor!blockerReason(f) = "none"
  PROVE  Editor!Accepts(Editor!finalConfig(f)) \/ Editor!Lenient(Editor!finalConfig(f))
<1>1. /\ f \in Entries /\ f.conditions \in Seq(Editor!FormConditions) /\ f.target \in Seq(Editor!Topics)
      /\ 1 \in DOMAIN f.conditions /\ f.conditions[1] \in Editor!FormConditions
  BY DEF Window, Entries
<1>2. /\ Editor!primaryTopic(f) # Editor!NoTopic /\ f.target # <<>> /\ \A t \in DOMAIN f.target : ~Editor!HasWildcards(f.target[t])
      /\ ~Editor!loopConflict(f) /\ ~Editor!invalidNumericCondition(f)
  BY DEF Editor!blockerReason
<1>3. PICK c : c = Editor!finalConfig(f) OBVIOUS
<1>4. /\ c.source = Editor!primaryTopic(f) /\ c.sourceBroker = Editor!primaryBrokerId(f) /\ c.conditions = f.conditions
      /\ c.target = f.target /\ c.targetBroker = f.targetBrokerId
  BY <1>3 DEF Editor!finalConfig, Editor!Config
<1>5. Editor!primaryTopic(f) \in Editor!Topics BY <1>1 DEF Editor!primaryTopic, Editor!FormConditions
<1>6. ASSUME NEW i \in DOMAIN f.conditions, NEW t \in DOMAIN f.target, NEW filter,
             filter = IF f.conditions[i].topic = Editor!NoTopic THEN Editor!primaryTopic(f) ELSE f.conditions[i].topic,
             Editor!Or(f.targetBrokerId, Editor!primaryBrokerId(f)) = Editor!Or(f.conditions[i].broker, Editor!primaryBrokerId(f))
      PROVE  ~Editor!mqttTopicMatches(filter, f.target[t]) /\ ~Editor!mqttTopicMatches(f.target[t], filter)
  <2>a. f.conditions[i] \in Editor!FormConditions BY <1>1
  <2>b. f.conditions[i].topic \in Editor!Topics BY <2>a DEF Editor!FormConditions
  <2>1. filter \in Editor!Topics /\ filter # Editor!NoTopic BY <1>2, <1>5, <1>6, <2>b
  <2>2. f.target[t] \in Editor!Topics /\ ~Editor!HasWildcards(f.target[t]) BY <1>1, <1>2
  <2>3. ~Editor!mqttTopicMatches(filter, f.target[t]) BY <1>2, <1>6, <2>1 DEF Editor!loopConflict
  <2> QED BY <2>1, <2>2, <2>3, PlainMatchesItself
<1>7. Editor!Or(f.conditions[1].broker, Editor!primaryBrokerId(f)) = Editor!primaryBrokerId(f)
  BY DEF Editor!Or, Editor!primaryBrokerId
<1>8. \A i \in DOMAIN f.conditions : f.conditions[i].op \in Editor!Ordering => f.conditions[i].value \in DOMAIN EditorNumbers
  BY <1>2 DEF Editor!invalidNumericCondition
<1>9. ASSUME ~Editor!Lenient(c) PROVE Editor!Accepts(c)
  <2>1. \A i \in DOMAIN c.conditions : c.conditions[i].op \in Editor!Ordering => c.conditions[i].value \in EditorFloats
    BY <1>4, <1>8, <1>9 DEF Editor!Lenient
  <2>2. ASSUME NEW t \in DOMAIN f.target, Editor!Or(f.targetBrokerId, Editor!primaryBrokerId(f)) = Editor!primaryBrokerId(f)
        PROVE  ~Editor!mqttTopicMatches(Editor!primaryTopic(f), f.target[t]) /\ ~Editor!mqttTopicMatches(f.target[t], Editor!primaryTopic(f))
    <3>1. Editor!primaryTopic(f) = IF f.conditions[1].topic = Editor!NoTopic THEN Editor!primaryTopic(f) ELSE f.conditions[1].topic
      BY DEF Editor!primaryTopic
    <3> QED BY <1>1, <1>6, <1>7, <2>2, <3>1
  <2>3. ASSUME NEW t \in DOMAIN f.target, NEW i \in DOMAIN f.conditions,
               Editor!Or(f.targetBrokerId, Editor!primaryBrokerId(f)) = Editor!Or(f.conditions[i].broker, Editor!primaryBrokerId(f)),
               NEW filter, filter = IF f.conditions[i].topic = Editor!NoTopic THEN Editor!primaryTopic(f) ELSE f.conditions[i].topic
        PROVE  ~Editor!mqttTopicMatches(filter, f.target[t]) /\ ~Editor!mqttTopicMatches(f.target[t], filter)
    BY <1>6, <2>3
  <2>4. \E t \in DOMAIN c.target : c.target[t] # Editor!EmptyEntry BY <1>9 DEF Editor!Lenient
  <2>5. c.cooldown >= 0 /\ Editor!Whole(c.cooldown) /\ Editor!Whole(c.count)
    <3>1. c.cooldown = f.cooldown /\ f.cooldown \in Int BY <1>1, <1>3 DEF Editor!finalConfig, Editor!Config, Entries
    <3> QED BY <1>9, <3>1 DEF Editor!Lenient
  <2>6. PICK E : E = {c.target[t] : t \in DOMAIN c.target} \ {Editor!EmptyEntry} OBVIOUS
  <2>7. E # {} /\ \A x \in E : \E t \in DOMAIN f.target : x = f.target[t] BY <1>4, <2>4, <2>6
  <2>8. ASSUME NEW x \in E
        PROVE  /\ ~Editor!HasWildcards(x)
               /\ Editor!Or(c.targetBroker, c.sourceBroker) = c.sourceBroker =>
                    ~(Editor!mqttTopicMatches(c.source, x) \/ Editor!mqttTopicMatches(x, c.source))
               /\ \A i \in DOMAIN c.conditions :
                    Editor!Or(c.targetBroker, c.sourceBroker) = Editor!Or(c.conditions[i].broker, c.sourceBroker) =>
                      LET filter == IF c.conditions[i].topic = Editor!NoTopic THEN c.source ELSE c.conditions[i].topic
                      IN ~(Editor!mqttTopicMatches(filter, x) \/ Editor!mqttTopicMatches(x, filter))
    <3>1. PICK t \in DOMAIN f.target : x = f.target[t] BY <2>7
    <3> QED BY <1>2, <1>4, <2>2, <2>3, <3>1
  <2> QED BY <1>2, <1>4, <2>1, <2>5, <2>6, <2>7, <2>8 DEF Editor!Accepts
<1> QED BY <1>3, <1>9

LEMMA EditorSaveStep == ASSUME Editor!RulesFit, EditorInv, Editor!handleSave PROVE EditorInv'
<1>1. /\ page = "editor" /\ Editor!blockerReason(form) = "none"
      /\ config' = Editor!finalConfig(form) /\ panelBroker' = Editor!primaryBrokerId(form)
      /\ page' = "dashboard" /\ form' = Editor!NoForm /\ left' = <<>> /\ UNCHANGED <<draft, picking>>
  BY DEF Editor!handleSave, Editor!Close
<1>2. Window(form) /\ draft = <<>> BY <1>1 DEF EditorInv
<1>3. Stands(Editor!Config(form)) /\ Editor!primaryBrokerId(form) \in Ends BY <1>2, DraftFits
<1>4. Stands(Editor!finalConfig(form))
  <2>1. Editor!Config(form) \in Editor!Rules /\ form.count \in Nat /\ Editor!DefaultCount \in Nat
    BY <1>2, <1>3 DEF Stands, Window, Entries, Editor!DefaultCount
  <2>2. PICK n \in Nat : n = IF form.mode = "count" THEN form.count ELSE Editor!DefaultCount BY <2>1
  <2>3. Editor!finalConfig(form) = [Editor!Config(form) EXCEPT !.count = n] BY <2>2 DEF Editor!finalConfig
  <2> QED BY <1>3, <2>1, <2>2, <2>3 DEF Stands, Editor!Rules
<1>5. Editor!Accepts(Editor!finalConfig(form)) \/ Editor!Lenient(Editor!finalConfig(form)) BY <1>1, <1>2, LetThrough
<1>6. Editor!SavedAccepted'
  <2>1. Editor!Accepts(config)' = Editor!Accepts(config') /\ Editor!Lenient(config)' = Editor!Lenient(config') OBVIOUS
  <2> QED BY <1>1, <1>5, <2>1 DEF Editor!SavedAccepted
<1>7. Stands(config)' BY <1>1, <1>4 DEF Stands
<1> QED BY <1>1, <1>2, <1>3, <1>6, <1>7 DEF EditorInv

LEMMA TripStep ==
  ASSUME Editor!RulesFit, EditorInv,
         Editor!Open \/ Editor!Cancel \/ Editor!Abandon \/ Editor!Pick(Editor!TargetEnd) \/ \E i \in DOMAIN form.conditions : Editor!Pick(i)
  PROVE  EditorInv'
<1>1. config' = config /\ panelBroker' = panelBroker BY DEF Editor!Open, Editor!Cancel, Editor!Abandon, Editor!Pick
<1>2. Stands(config)' /\ Editor!SavedAccepted' BY <1>1 DEF EditorInv, Stands, Editor!SavedAccepted
<1>3. CASE Editor!Open
  <2>1. /\ page = "dashboard" /\ form' = Editor!Form(config, Editor!NoIndex, Editor!NoTopic, Editor!NoBroker) /\ page' = "editor"
        /\ UNCHANGED <<draft, picking, left>>
    BY <1>3 DEF Editor!Open
  <2>2. Window(Editor!Form(config, Editor!NoIndex, Editor!NoTopic, Editor!NoBroker)) BY FormFits DEF EditorInv, Editor!NoIndex, Editor!Topics, Ends
  <2>3. Window(form)' BY <2>1, <2>2 DEF Window
  <2> QED BY <1>1, <1>2, <2>1, <2>3 DEF EditorInv
<1>4. CASE Editor!Cancel \/ Editor!Abandon
  <2>1. page' = "dashboard" /\ form' = Editor!NoForm /\ left' = <<>> /\ draft' = <<>>
    BY <1>4 DEF Editor!Cancel, Editor!Abandon, Editor!Close, EditorInv
  <2>2. picking' \in {picking, Editor!NoIndex} BY <1>4 DEF Editor!Cancel, Editor!Abandon
  <2> QED BY <1>1, <1>2, <2>1, <2>2 DEF EditorInv
<1>5. ASSUME NEW at \in {Editor!TargetEnd} \cup DOMAIN form.conditions, Editor!Pick(at) PROVE EditorInv'
  <2>1. /\ page = "editor" /\ draft' = <<Editor!Config(form)>> /\ picking' = at /\ left' = <<form>>
        /\ page' = "explorer" /\ form' = Editor!NoForm
    BY <1>5 DEF Editor!Pick
  <2>2. Window(form) /\ form \in Entries BY <2>1 DEF EditorInv, Window
  <2>3. at \in {Editor!TargetEnd} \cup (1..MaxConditions) BY <2>2 DEF Window, Entries, Editor!RulesFit
  <2>4. picking' \in {Editor!TargetEnd} \cup DOMAIN (left'[1]).conditions BY <2>1
  <2>5. \E f \in Entries : Window(f) /\ left' = <<f>> /\ draft' = <<Editor!Config(f)>> BY <2>1, <2>2
  <2> QED BY <1>1, <1>2, <2>1, <2>3, <2>4, <2>5 DEF EditorInv, Window
<1> QED BY <1>3, <1>4, <1>5

LEMMA EditorReturnStep ==
  ASSUME Editor!RulesFit, EditorInv, NEW t \in EditorFilters \cup EditorTargets, NEW b \in Brokers, Editor!Return(t, b)
  PROVE  EditorInv'
<1>1. /\ page = "explorer" /\ form' = Editor!Form(draft[1], picking, t, b) /\ page' = "editor" /\ draft' = <<>>
      /\ UNCHANGED <<config, panelBroker, picking, left>>
  BY DEF Editor!Return
<1>2. PICK f \in Entries : Window(f) /\ left = <<f>> /\ draft = <<Editor!Config(f)>> BY <1>1 DEF EditorInv
<1>3. picking \in {Editor!TargetEnd} \cup DOMAIN f.conditions /\ left[1] = f BY <1>1, <1>2 DEF EditorInv
<1>4. form' = Editor!Form(Editor!Config(f), picking, t, b) BY <1>1, <1>2
<1>5. t \in Editor!Topics /\ b \in Ends /\ picking \in Int /\ panelBroker \in Ends /\ Stands(Editor!Config(f))
  BY <1>2, DraftFits DEF Editor!Topics, Ends, EditorInv, Editor!NoIndex, Editor!TargetEnd, Editor!RulesFit
<1>6. Window(form)' BY <1>4, <1>5, FormFits DEF Window
<1>7. Editor!Kept(left[1], form)'
  <2>1. Editor!Kept(f, Editor!Form(Editor!Config(f), picking, t, b)) BY <1>2, <1>3, TripKeeps
  <2> QED BY <1>1, <1>3, <1>4, <2>1 DEF Editor!Kept
<1>8. Stands(config)' /\ Editor!SavedAccepted' BY <1>1 DEF EditorInv, Stands, Editor!SavedAccepted
<1> QED BY <1>1, <1>5, <1>6, <1>7, <1>8 DEF EditorInv

LEMMA EditorKept ==
  ASSUME Editor!RulesFit
  PROVE  EditorRuns => []EditorInv
<1>1. Editor!Init => EditorInv
  <2> SUFFICES ASSUME Editor!Init PROVE EditorInv OBVIOUS
  <2>1. Stands(config) /\ config.sourceBroker \in Ends BY DEF Editor!Init, Editor!RulesFit, Stands, Editor!Rules, Ends
  <2> QED BY <2>1 DEF Editor!Init, EditorInv, Editor!SavedAccepted, Editor!NoIndex
<1>2. EditorInv /\ [Editor!Next]_(Editor!vars) => EditorInv'
  <2> SUFFICES ASSUME EditorInv, [Editor!Next]_(Editor!vars) PROVE EditorInv' OBVIOUS
  <2>1. CASE UNCHANGED Editor!vars BY <2>1 DEF Editor!vars, EditorInv, Stands, Window, Editor!SavedAccepted, Editor!Kept, Editor!ShownMode
  <2>2. CASE Editor!handleSave BY <2>2, EditorSaveStep
  <2>3. CASE Editor!Open \/ Editor!Cancel \/ Editor!Abandon \/ Editor!Pick(Editor!TargetEnd) BY <2>3, TripStep
  <2>4. CASE Editor!handleAddCondition \/ Editor!ChooseMode \/ Editor!TypeTarget \/ Editor!TypeCooldown
                \/ Editor!ChooseTargetBroker \/ Editor!ToggleEnabled
    BY <2>4, ListStep, FieldStep
  <2>5. CASE \E i \in DOMAIN form.conditions : Editor!EditCondition(i) \/ Editor!Pick(i) BY <2>5, ConditionStep, TripStep
  <2>6. CASE \E t \in EditorFilters \cup EditorTargets, b \in Brokers : Editor!Return(t, b) BY <2>6, EditorReturnStep
  <2> QED BY <2>1, <2>2, <2>3, <2>4, <2>5, <2>6 DEF Editor!Next
<1> QED BY <1>1, <1>2, PTL DEF EditorRuns

(* The window of a rule keeps an entry of the right kind in each of its    *)
(* fields, over any edits and trips to the explorer                        *)
(* (LogicRuleConfigModal).                                                 *)
THEOREM EntriesHold ==
  ASSUME Editor!RulesFit
  PROVE  EditorRuns => []Editor!TypeOK
<1>1. EditorInv => Editor!TypeOK
  <2> SUFFICES ASSUME EditorInv PROVE Editor!TypeOK OBVIOUS
  <2>1. CASE page = "editor"
    <3>1. form \in Entries /\ form.conditions \in Seq(Editor!FormConditions) /\ form.conditions # <<>>
          /\ Len(form.conditions) <= MaxConditions
      BY <2>1 DEF EditorInv, Window, Entries
    <3>2. \A i \in DOMAIN form.conditions : form.conditions[i] \in Editor!FormConditions BY <3>1
    <3>3. form.mode \in Editor!Modes /\ form.targetBrokerId \in Brokers \cup {Editor!NoBroker} BY <3>1 DEF Entries, Ends
    <3> QED BY <2>1, <3>1, <3>2, <3>3 DEF Editor!TypeOK, EditorInv, Editor!FormConditions
  <2>2. CASE page # "editor"
    <3>1. Editor!NoForm.conditions = <<>> /\ Editor!NoForm.mode \in Editor!Modes /\ Editor!NoForm.targetBrokerId \in Brokers \cup {Editor!NoBroker}
      BY DEF Editor!NoForm, Editor!Modes, Editor!NoBroker
    <3>2. form = Editor!NoForm BY <2>2 DEF EditorInv
    <3>3. DOMAIN <<>> = {} /\ Len(<<>>) = 0 OBVIOUS
    <3>4. page = "explorer" => draft # <<>>
      <4> SUFFICES ASSUME page = "explorer" PROVE draft # <<>> OBVIOUS
      <4>1. PICK f : draft = <<Editor!Config(f)>> BY DEF EditorInv
      <4> QED BY <4>1
    <3>5. page # "explorer" => draft = <<>> BY <2>2 DEF EditorInv
    <3>6. \A i \in DOMAIN form.conditions : FALSE BY <3>1, <3>2, <3>3
    <3>7. Len(form.conditions) <= MaxConditions BY <3>1, <3>2, <3>3 DEF Editor!RulesFit
    <3>8. form.conditions = <<>> /\ form.mode \in Editor!Modes /\ form.targetBrokerId \in Brokers \cup {Editor!NoBroker}
      BY <3>1, <3>2
    <3> QED BY <2>2, <3>4, <3>5, <3>6, <3>7, <3>8 DEF Editor!TypeOK, EditorInv
  <2> QED BY <2>1, <2>2
<1> QED BY <1>1, EditorKept, PTL

(* What the window lets the user save the engine accepts, but for a target *)
(* of commas only, a number to compare with that Go does not read, a       *)
(* negative cool-down and fractions (LogicConfigModal's validation against *)
(* the one of the server).                                                 *)
THEOREM SavedIsAccepted ==
  ASSUME Editor!RulesFit
  PROVE  EditorRuns => []Editor!SavedAccepted
<1>1. EditorInv => Editor!SavedAccepted BY DEF EditorInv
<1> QED BY <1>1, EditorKept, PTL

(* What comes back from a trip to the explorer is what was left, with the  *)
(* picked topic in the condition it was picked for (LogicRuleConfigModal,  *)
(* the draft that travels with the trip).                                  *)
THEOREM TripsKeepEntries ==
  ASSUME Editor!RulesFit
  PROVE  EditorRuns => []Editor!TripKeepsEntries
<1>1. EditorInv => Editor!TripKeepsEntries BY DEF EditorInv, Editor!TripKeepsEntries
<1> QED BY <1>1, EditorKept, PTL

Chain(g, h, O, i) == IF i = 1 THEN h[1] ELSE IF i \in O THEN g[i - 1] \/ h[i] ELSE g[i - 1] /\ h[i]
IsChain(g, n, h, O) == g = [i \in 1..n |-> Chain(g, h, O, i)]
HasChain(n, h, O) == \E g : IsChain(g, n, h, O)

LEMMA ChainThere ==
  ASSUME NEW n \in Nat, NEW h, NEW O
  PROVE  HasChain(n, h, O)
<1> DEFINE There(m) == \E g : g = [i \in 1..m |-> Chain(g, h, O, i)]
<1>1. There(0)
  <2>1. \E g : g = [i \in 1..0 |-> Chain(g, h, O, i)]
    <3>1. PICK g : g = [i \in {} |-> TRUE] OBVIOUS
    <3>2. [i \in 1..0 |-> Chain(g, h, O, i)] = [i \in {} |-> TRUE] OBVIOUS
    <3> QED BY <3>1, <3>2
  <2> QED BY <2>1
<1>2. ASSUME NEW m \in Nat, There(m) PROVE There(m + 1)
  <2>1. PICK g : g = [i \in 1..m |-> Chain(g, h, O, i)] BY <1>2
  <2>2. PICK f : f = [i \in 1..(m + 1) |-> IF i = m + 1 THEN Chain(g, h, O, m + 1) ELSE g[i]] OBVIOUS
  <2>3. \A i \in 1..(m + 1) : f[i] = Chain(f, h, O, i)
    <3> SUFFICES ASSUME NEW i \in 1..(m + 1) PROVE f[i] = Chain(f, h, O, i) OBVIOUS
    <3>1. f[i] = Chain(g, h, O, i)
      <4>1. CASE i = m + 1 BY <2>2, <4>1
      <4>2. CASE i # m + 1
        <5>1. i \in 1..m /\ f[i] = g[i] BY <2>2, <4>2
        <5> QED BY <2>1, <5>1
      <4> QED BY <4>1, <4>2
    <3>2. i # 1 => f[i - 1] = g[i - 1]
      <4> SUFFICES ASSUME i # 1 PROVE f[i - 1] = g[i - 1] OBVIOUS
      <4>1. i - 1 \in 1..(m + 1) /\ i - 1 # m + 1 OBVIOUS
      <4> QED BY <2>2, <4>1
    <3> QED BY <3>1, <3>2 DEF Chain
  <2>4. f = [i \in 1..(m + 1) |-> Chain(f, h, O, i)]
    <3>1. \A F, G : (F = [i \in 1..(m + 1) |-> F[i]] /\ G = [i \in 1..(m + 1) |-> G[i]]
                       /\ \A i \in 1..(m + 1) : F[i] = G[i]) => F = G
      OBVIOUS
    <3>2. f = [i \in 1..(m + 1) |-> f[i]] BY <2>2
    <3>3. PICK k : k = [i \in 1..(m + 1) |-> Chain(f, h, O, i)] OBVIOUS
    <3>4. k = [i \in 1..(m + 1) |-> k[i]] /\ \A i \in 1..(m + 1) : k[i] = f[i] BY <2>3, <3>3
    <3>5. f = k BY <3>1, <3>2, <3>4
    <3> QED BY <3>3, <3>5
  <2> QED BY <2>4
<1>3. There(n)
  <2> SUFFICES ASSUME ~There(n) PROVE FALSE OBVIOUS
  <2>1. PICK S : S = {m \in Nat : ~There(m)} OBVIOUS
  <2> HIDE DEF There
  <2>2. PICK m \in S : \A k \in S : m <= k BY <2>1, LeastNumber
  <2>3. m \in Nat /\ ~There(m) /\ m # 0 BY <1>1, <2>1, <2>2
  <2>4. m - 1 \in Nat /\ There(m - 1) BY <2>1, <2>2, <2>3
  <2>5. There((m - 1) + 1) BY <1>2, <2>4
  <2> QED BY <2>3, <2>4, <2>5
<1> QED BY <1>3 DEF HasChain, IsChain

LEMMA ChainSame ==
  ASSUME NEW n \in Nat, NEW h \in [1..n -> BOOLEAN], NEW O,
         NEW f, NEW g, IsChain(f, n, h, O), IsChain(g, n, h, O)
  PROVE  \A i \in 1..n : f[i] = g[i] /\ f[i] \in BOOLEAN
<1> SUFFICES ASSUME NEW i \in 1..n, ~(f[i] = g[i] /\ f[i] \in BOOLEAN) PROVE FALSE OBVIOUS
<1>1. PICK S : S = {j \in 1..n : ~(f[j] = g[j] /\ f[j] \in BOOLEAN)} OBVIOUS
<1>2. S \subseteq Nat /\ S # {} BY <1>1
<1>3. PICK j \in S : \A k \in S : j <= k BY <1>2, LeastNumber
<1>4. j \in 1..n /\ ~(f[j] = g[j] /\ f[j] \in BOOLEAN) /\ h[j] \in BOOLEAN BY <1>1, <1>3
<1>a. \A m : IsChain(f, n, h, O) /\ m \in 1..n => f[m] = Chain(f, h, O, m) BY DEF IsChain
<1>b. \A m : IsChain(g, n, h, O) /\ m \in 1..n => g[m] = Chain(g, h, O, m) BY DEF IsChain
<1>5. f[j] = Chain(f, h, O, j) /\ g[j] = Chain(g, h, O, j) BY <1>4, <1>a, <1>b
<1>6. CASE j = 1 BY <1>4, <1>5, <1>6 DEF Chain
<1>7. CASE j # 1
  <2>1. j - 1 \in 1..n /\ j - 1 \notin S BY <1>3, <1>4, <1>7
  <2>2. f[j - 1] = g[j - 1] /\ f[j - 1] \in BOOLEAN BY <1>1, <2>1
  <2> QED BY <1>4, <1>5, <1>7, <2>2 DEF Chain
<1> QED BY <1>6, <1>7

\* With no "or" at all every condition is asked for.
LEMMA ChainAll ==
  ASSUME NEW n \in Nat, NEW h \in [1..n -> BOOLEAN], NEW O, NEW f, IsChain(f, n, h, O),
         \A i \in 1..n : i # 1 => i \notin O
  PROVE  \A i \in 1..n : f[i] <=> \A j \in 1..i : h[j]
<1> SUFFICES ASSUME NEW i \in 1..n, ~(f[i] <=> \A j \in 1..i : h[j]) PROVE FALSE OBVIOUS
<1>1. PICK S : S = {k \in 1..n : ~(f[k] <=> \A j \in 1..k : h[j])} OBVIOUS
<1>2. S \subseteq Nat /\ S # {} BY <1>1
<1>3. PICK k \in S : \A m \in S : k <= m BY <1>2, LeastNumber
<1>4. k \in 1..n /\ ~(f[k] <=> \A j \in 1..k : h[j]) BY <1>1, <1>3
<1>a. f[k] = Chain(f, h, O, k)
  <2>1. \A m : IsChain(f, n, h, O) /\ m \in 1..n => f[m] = Chain(f, h, O, m) BY DEF IsChain
  <2> QED BY <1>4, <2>1
<1>b. k # 1 => k \notin O BY <1>4
<1>5. CASE k = 1
  <2>1. f[k] = h[1] BY <1>5, <1>a DEF Chain
  <2>2. (\A j \in 1..k : h[j]) <=> h[1] BY <1>5
  <2> QED BY <1>4, <2>1, <2>2
<1>6. CASE k # 1
  <2>1. k - 1 \in 1..n /\ k - 1 \notin S BY <1>3, <1>4, <1>6
  <2>2. f[k - 1] <=> \A j \in 1..(k - 1) : h[j] BY <1>1, <2>1
  <2>3. f[k] = (f[k - 1] /\ h[k]) BY <1>4, <1>6, <1>a, <1>b DEF Chain
  <2>4. (\A j \in 1..k : h[j]) <=> (\A j \in 1..(k - 1) : h[j]) /\ h[k]
    <3>1. \A j \in 1..k : j \in 1..(k - 1) \/ j = k BY <1>4
    <3>2. \A j \in 1..(k - 1) : j \in 1..k BY <1>4
    <3>3. k \in 1..k BY <1>4
    <3> QED BY <3>1, <3>2, <3>3
  <2> QED BY <1>4, <2>2, <2>3, <2>4
<1> QED BY <1>5, <1>6

\* How the conditions are combined, and how the window shows it.
LEMMA JoinedIsShown ==
  ASSUME NEW f, Window(f), f.match = "all", NEW h \in [DOMAIN f.conditions -> BOOLEAN]
  PROVE  LET g[i \in DOMAIN f.conditions] ==
                 IF i = 1 THEN h[1]
                 ELSE IF Editor!ShownJoin(f, i) = "or" THEN g[i - 1] \/ h[i] ELSE g[i - 1] /\ h[i]
         IN Editor!Combine(f.conditions, f.match, h) = g[Len(f.conditions)]
<1>1. f.conditions \in Seq(Editor!FormConditions) /\ f.conditions # <<>> BY DEF Window, Entries
<1>2. PICK n \in Nat \ {0} : n = Len(f.conditions) /\ DOMAIN f.conditions = 1..n BY <1>1
<1>3. h \in [1..n -> BOOLEAN] /\ n \in 1..n /\ n \in Nat BY <1>2
<1>4. PICK O : O = {i \in 1..n : f.conditions[i].join = "or"} OBVIOUS
<1>5. \A i \in 1..n : Editor!ShownJoin(f, i) = "or" <=> i \in O BY <1>4 DEF Editor!ShownJoin
<1>a. HasChain(n, h, O) BY <1>3, ChainThere
<1>6. \E g : g = [i \in 1..n |-> Chain(g, h, O, i)] BY <1>a DEF HasChain, IsChain
<1> DEFINE shown == CHOOSE g : g = [i \in DOMAIN f.conditions |->
                        IF i = 1 THEN h[1]
                        ELSE IF Editor!ShownJoin(f, i) = "or" THEN g[i - 1] \/ h[i] ELSE g[i - 1] /\ h[i]]
           combined == CHOOSE g : g = [i \in DOMAIN f.conditions |->
                        IF i = 1 THEN h[1]
                        ELSE IF f.conditions[i].join = "or" THEN g[i - 1] \/ h[i] ELSE g[i - 1] /\ h[i]]
<1>7. IsChain(shown, n, h, O)
  <2>1. \A g : [i \in DOMAIN f.conditions |->
                  IF i = 1 THEN h[1]
                  ELSE IF Editor!ShownJoin(f, i) = "or" THEN g[i - 1] \/ h[i] ELSE g[i - 1] /\ h[i]]
               = [i \in 1..n |-> Chain(g, h, O, i)]
    BY <1>2, <1>5 DEF Chain
  <2>2. \E g : g = [i \in DOMAIN f.conditions |->
                    IF i = 1 THEN h[1]
                    ELSE IF Editor!ShownJoin(f, i) = "or" THEN g[i - 1] \/ h[i] ELSE g[i - 1] /\ h[i]]
    BY <1>6, <2>1
  <2>3. shown = [i \in DOMAIN f.conditions |->
                  IF i = 1 THEN h[1]
                  ELSE IF Editor!ShownJoin(f, i) = "or" THEN shown[i - 1] \/ h[i] ELSE shown[i - 1] /\ h[i]]
    BY <2>2
  <2>4. shown = [i \in 1..n |-> Chain(shown, h, O, i)] BY <2>1, <2>3
  <2> QED BY <2>4 DEF IsChain
<1>8. IsChain(combined, n, h, O)
  <2>1. \A g : [i \in DOMAIN f.conditions |->
                  IF i = 1 THEN h[1]
                  ELSE IF f.conditions[i].join = "or" THEN g[i - 1] \/ h[i] ELSE g[i - 1] /\ h[i]]
               = [i \in 1..n |-> Chain(g, h, O, i)]
    BY <1>2, <1>4 DEF Chain
  <2>2. \E g : g = [i \in DOMAIN f.conditions |->
                    IF i = 1 THEN h[1]
                    ELSE IF f.conditions[i].join = "or" THEN g[i - 1] \/ h[i] ELSE g[i - 1] /\ h[i]]
    BY <1>6, <2>1
  <2>3. combined = [i \in DOMAIN f.conditions |->
                  IF i = 1 THEN h[1]
                  ELSE IF f.conditions[i].join = "or" THEN combined[i - 1] \/ h[i] ELSE combined[i - 1] /\ h[i]]
    BY <2>2
  <2>4. combined = [i \in 1..n |-> Chain(combined, h, O, i)] BY <2>1, <2>3
  <2> QED BY <2>4 DEF IsChain
<1>9. Editor!Combine(f.conditions, f.match, h) = shown[n]
  <2>1. Editor!Joined(f.conditions, h) = combined[n] BY <1>2 DEF Editor!Joined
  <2> HIDE DEF shown, combined
  <2>a. \A i \in 1..n : shown[i] = combined[i] /\ shown[i] \in BOOLEAN BY <1>3, <1>7, <1>8, ChainSame
  <2>2. shown[n] = combined[n] /\ shown[n] \in BOOLEAN BY <1>3, <2>a
  <2>3. CASE \E i \in DOMAIN f.conditions : i > 1 /\ f.conditions[i].join # ""
    BY <1>1, <2>1, <2>2, <2>3 DEF Editor!Combine
  <2>4. CASE ~\E i \in DOMAIN f.conditions : i > 1 /\ f.conditions[i].join # ""
    <3>1. \A i \in 1..n : i # 1 => i \notin O
      <4> SUFFICES ASSUME NEW i \in 1..n, i # 1 PROVE f.conditions[i].join # "or" BY <1>4
      <4>1. i \in DOMAIN f.conditions /\ i > 1 BY <1>2
      <4> QED BY <2>4, <4>1
    <3>2. shown[n] <=> \A j \in 1..n : h[j] BY <1>3, <1>7, <3>1, ChainAll
    <3>3. Editor!Combine(f.conditions, f.match, h) = (\A j \in 1..n : h[j]) BY <1>1, <1>2, <2>4 DEF Editor!Combine
    <3> QED BY <2>2, <3>2, <3>3
  <2> QED BY <2>3, <2>4
<1> QED BY <1>2, <1>9

(* For any number of conditions, the engine combines what was saved as the *)
(* AND and OR buttons between them say (evaluateConditions against the     *)
(* buttons of LogicRuleConfigModal).                                       *)
THEOREM JoinsAreAsShown ==
  ASSUME Editor!RulesFit
  PROVE  EditorRuns => []Editor!JoinsAsShown
<1>1. EditorInv => Editor!JoinsAsShown BY JoinedIsShown DEF EditorInv, Editor!JoinsAsShown
<1> QED BY <1>1, EditorKept, PTL


-----------------------------------------------------------------------------
(***************************************************************************)
(* The page, a part at a time (WebPanels).  Either the scene is a part's,  *)
(* and the part runs as it would alone, or it never is; what was proved of *)
(* the part's runs is then so of the page's.                               *)
(***************************************************************************)
In(s) == scene = s

LEMMA SceneStays == ASSUME NEW s PROVE [Next]_vars => In(s)' = In(s)
BY DEF Next, WsNext, PreviewNext, EditorNext, RuleNext, SwitchNext,
       ToggleNext, ToggleEditNext, SliderNext, SliderEditNext, vars, In

LEMMA WsAlone == Spec => WsRuns \/ []~In("ws")
<1>1. Init /\ In("ws") => Ws!Init BY DEF Init, In
<1>2. In("ws") /\ [Next]_vars => In("ws")' /\ [Ws!Next]_(Ws!vars)
  <2>1. In("ws") /\ Next => Ws!Next
    BY DEF Next, WsNext, PreviewNext, EditorNext, RuleNext, SwitchNext,
           ToggleNext, ToggleEditNext, SliderNext, SliderEditNext, In
  <2>2. UNCHANGED vars => UNCHANGED Ws!vars
    BY DEF vars, wsConnectionVars, topicPreviewVars, logicRuleEditorVars,
           logicRulePanelVars, togglePanelVars, toggleWindowVars, sliderPanelVars,
           sliderWindowVars, shared, Ws!vars, Ws!manager
  <2> QED BY <2>1, <2>2, SceneStays
<1>3. ~In("ws") /\ [Next]_vars => ~In("ws")' BY SceneStays
<1> QED BY <1>1, <1>2, <1>3, PTL DEF Spec, WsRuns

LEMMA PreviewAlone == Spec => PreviewRuns \/ []~In("preview")
<1>1. Init /\ In("preview") => Preview!Init BY DEF Init, In
<1>2. In("preview") /\ [Next]_vars => In("preview")' /\ [Preview!Next]_(Preview!vars)
  <2>1. In("preview") /\ Next => Preview!Next
    BY DEF Next, WsNext, PreviewNext, EditorNext, RuleNext, SwitchNext,
           ToggleNext, ToggleEditNext, SliderNext, SliderEditNext, In
  <2>2. UNCHANGED vars => UNCHANGED Preview!vars
    BY DEF vars, wsConnectionVars, topicPreviewVars, logicRuleEditorVars,
           logicRulePanelVars, togglePanelVars, toggleWindowVars, sliderPanelVars,
           sliderWindowVars, shared, Preview!vars
  <2> QED BY <2>1, <2>2, SceneStays
<1>3. ~In("preview") /\ [Next]_vars => ~In("preview")' BY SceneStays
<1> QED BY <1>1, <1>2, <1>3, PTL DEF Spec, PreviewRuns

LEMMA EditorAlone == Spec => EditorRuns \/ []~In("editor")
<1>1. Init /\ In("editor") => Editor!Init BY DEF Init, In
<1>2. In("editor") /\ [Next]_vars => In("editor")' /\ [Editor!Next]_(Editor!vars)
  <2>1. In("editor") /\ Next => Editor!Next
    BY DEF Next, WsNext, PreviewNext, EditorNext, RuleNext, SwitchNext,
           ToggleNext, ToggleEditNext, SliderNext, SliderEditNext, In
  <2>2. UNCHANGED vars => UNCHANGED Editor!vars
    BY DEF vars, wsConnectionVars, topicPreviewVars, logicRuleEditorVars,
           logicRulePanelVars, togglePanelVars, toggleWindowVars, sliderPanelVars,
           sliderWindowVars, shared, Editor!vars
  <2> QED BY <2>1, <2>2, SceneStays
<1>3. ~In("editor") /\ [Next]_vars => ~In("editor")' BY SceneStays
<1> QED BY <1>1, <1>2, <1>3, PTL DEF Spec, EditorRuns

LEMMA RuleAlone == Spec => RuleRuns \/ []~In("rule")
<1>1. Init /\ In("rule") => Rule!Init BY DEF Init, In
<1>2. In("rule") /\ [Next]_vars => In("rule")' /\ [Rule!Next]_(Rule!vars)
  <2>1. In("rule") /\ Next => Rule!Next
    BY DEF Next, WsNext, PreviewNext, EditorNext, RuleNext, SwitchNext,
           ToggleNext, ToggleEditNext, SliderNext, SliderEditNext, In
  <2>2. UNCHANGED vars => UNCHANGED Rule!vars
    BY DEF vars, wsConnectionVars, topicPreviewVars, logicRuleEditorVars,
           logicRulePanelVars, togglePanelVars, toggleWindowVars, sliderPanelVars,
           sliderWindowVars, shared, Rule!vars, Rule!values, Rule!clock, Rule!feed
  <2> QED BY <2>1, <2>2, SceneStays
<1>3. ~In("rule") /\ [Next]_vars => ~In("rule")' BY SceneStays
<1> QED BY <1>1, <1>2, <1>3, PTL DEF Spec, RuleRuns

LEMMA SwitchAlone == Spec => RuleRuns \/ []~In("switch")
<1>1. Init /\ In("switch") => Rule!Init BY DEF Init, In
<1>2. In("switch") /\ [Next]_vars => In("switch")' /\ [Rule!Next]_(Rule!vars)
  <2>1. In("switch") /\ Next => Rule!Next
    BY DEF Next, WsNext, PreviewNext, EditorNext, RuleNext, SwitchNext,
           ToggleNext, ToggleEditNext, SliderNext, SliderEditNext, In
  <2>2. UNCHANGED vars => UNCHANGED Rule!vars
    BY DEF vars, wsConnectionVars, topicPreviewVars, logicRuleEditorVars,
           logicRulePanelVars, togglePanelVars, toggleWindowVars, sliderPanelVars,
           sliderWindowVars, shared, Rule!vars, Rule!values, Rule!clock, Rule!feed
  <2> QED BY <2>1, <2>2, SceneStays
<1>3. ~In("switch") /\ [Next]_vars => ~In("switch")' BY SceneStays
<1> QED BY <1>1, <1>2, <1>3, PTL DEF Spec, RuleRuns

LEMMA ToggleAlone == Spec => FlipRuns \/ []~In("toggle")
<1>1. Init /\ In("toggle") => Toggle!Init BY DEF Init, In
<1>2. In("toggle") /\ [Next]_vars => In("toggle")' /\ [Toggle!Next]_(Toggle!vars)
  <2>1. In("toggle") /\ Next => Toggle!Next
    BY DEF Next, WsNext, PreviewNext, EditorNext, RuleNext, SwitchNext,
           ToggleNext, ToggleEditNext, SliderNext, SliderEditNext, In
  <2>2. UNCHANGED vars => UNCHANGED Toggle!vars
    BY DEF vars, wsConnectionVars, topicPreviewVars, logicRuleEditorVars,
           logicRulePanelVars, togglePanelVars, toggleWindowVars, sliderPanelVars,
           sliderWindowVars, shared, Toggle!vars, Toggle!messages, Toggle!shown,
           Toggle!flip
  <2> QED BY <2>1, <2>2, SceneStays
<1>3. ~In("toggle") /\ [Next]_vars => ~In("toggle")' BY SceneStays
<1> QED BY <1>1, <1>2, <1>3, PTL DEF Spec, FlipRuns

LEMMA ToggleEditAlone == Spec => ToggleEditRuns \/ []~In("togglewindow")
<1>1. Init /\ In("togglewindow") => ToggleEdit!Init BY DEF Init, In
<1>2. In("togglewindow") /\ [Next]_vars => In("togglewindow")' /\ [ToggleEdit!Next]_(ToggleEdit!vars)
  <2>1. In("togglewindow") /\ Next => ToggleEdit!Next
    BY DEF Next, WsNext, PreviewNext, EditorNext, RuleNext, SwitchNext,
           ToggleNext, ToggleEditNext, SliderNext, SliderEditNext, In
  <2>2. UNCHANGED vars => UNCHANGED ToggleEdit!vars
    BY DEF vars, wsConnectionVars, topicPreviewVars, logicRuleEditorVars,
           logicRulePanelVars, togglePanelVars, toggleWindowVars, sliderPanelVars,
           sliderWindowVars, shared, ToggleEdit!vars
  <2> QED BY <2>1, <2>2, SceneStays
<1>3. ~In("togglewindow") /\ [Next]_vars => ~In("togglewindow")' BY SceneStays
<1> QED BY <1>1, <1>2, <1>3, PTL DEF Spec, ToggleEditRuns

LEMMA SliderAlone == Spec => SlideRuns \/ []~In("slider")
<1>1. Init /\ In("slider") => Slider!Init BY DEF Init, In
<1>2. In("slider") /\ [Next]_vars => In("slider")' /\ [Slider!Next]_(Slider!vars)
  <2>1. In("slider") /\ Next => Slider!Next
    BY DEF Next, WsNext, PreviewNext, EditorNext, RuleNext, SwitchNext,
           ToggleNext, ToggleEditNext, SliderNext, SliderEditNext, In
  <2>2. UNCHANGED vars => UNCHANGED Slider!vars
    BY DEF vars, wsConnectionVars, topicPreviewVars, logicRuleEditorVars,
           logicRulePanelVars, togglePanelVars, toggleWindowVars, sliderPanelVars,
           sliderWindowVars, shared, Slider!vars, Slider!hand, Slider!flip,
           Slider!wire
  <2> QED BY <2>1, <2>2, SceneStays
<1>3. ~In("slider") /\ [Next]_vars => ~In("slider")' BY SceneStays
<1> QED BY <1>1, <1>2, <1>3, PTL DEF Spec, SlideRuns

LEMMA SliderEditAlone == Spec => SliderEditRuns \/ []~In("sliderwindow")
<1>1. Init /\ In("sliderwindow") => SliderEdit!Init BY DEF Init, In
<1>2. In("sliderwindow") /\ [Next]_vars => In("sliderwindow")' /\ [SliderEdit!Next]_(SliderEdit!vars)
  <2>1. In("sliderwindow") /\ Next => SliderEdit!Next
    BY DEF Next, WsNext, PreviewNext, EditorNext, RuleNext, SwitchNext,
           ToggleNext, ToggleEditNext, SliderNext, SliderEditNext, In
  <2>2. UNCHANGED vars => UNCHANGED SliderEdit!vars
    BY DEF vars, wsConnectionVars, topicPreviewVars, logicRuleEditorVars,
           logicRulePanelVars, togglePanelVars, toggleWindowVars, sliderPanelVars,
           sliderWindowVars, shared, SliderEdit!vars
  <2> QED BY <2>1, <2>2, SceneStays
<1>3. ~In("sliderwindow") /\ [Next]_vars => ~In("sliderwindow")' BY SceneStays
<1> QED BY <1>1, <1>2, <1>3, PTL DEF Spec, SliderEditRuns

LEMMA RuleWhole == ASSUME In("rule"), Next, UNCHANGED Rule!vars PROVE UNCHANGED vars
<1>1. RuleNext
  BY DEF Next, WsNext, PreviewNext, EditorNext, RuleNext, SwitchNext,
         ToggleNext, ToggleEditNext, SliderNext, SliderEditNext, In
<1> QED BY <1>1 DEF RuleNext, Rule!vars, Rule!values, Rule!clock, Rule!feed, vars,
                wsConnectionVars, topicPreviewVars,
                logicRuleEditorVars, logicRulePanelVars, togglePanelVars,
                toggleWindowVars, sliderPanelVars, sliderWindowVars, shared

LEMMA ToggleWhole == ASSUME In("toggle"), Next, UNCHANGED Toggle!vars PROVE UNCHANGED vars
<1>1. ToggleNext
  BY DEF Next, WsNext, PreviewNext, EditorNext, RuleNext, SwitchNext,
         ToggleNext, ToggleEditNext, SliderNext, SliderEditNext, In
<1> QED BY <1>1 DEF ToggleNext, Toggle!vars, Toggle!messages, Toggle!shown, Toggle!flip, vars,
                wsConnectionVars, topicPreviewVars,
                logicRuleEditorVars, logicRulePanelVars, togglePanelVars,
                toggleWindowVars, sliderPanelVars, sliderWindowVars, shared

LEMMA ToggleEditWhole == ASSUME In("togglewindow"), Next, UNCHANGED ToggleEdit!vars PROVE UNCHANGED vars
<1>1. ToggleEditNext
  BY DEF Next, WsNext, PreviewNext, EditorNext, RuleNext, SwitchNext,
         ToggleNext, ToggleEditNext, SliderNext, SliderEditNext, In
<1> QED BY <1>1 DEF ToggleEditNext, ToggleEdit!vars, vars,
                wsConnectionVars, topicPreviewVars,
                logicRuleEditorVars, logicRulePanelVars, togglePanelVars,
                toggleWindowVars, sliderPanelVars, sliderWindowVars, shared

LEMMA SliderWhole == ASSUME In("slider"), Next, UNCHANGED Slider!vars PROVE UNCHANGED vars
<1>1. SliderNext
  BY DEF Next, WsNext, PreviewNext, EditorNext, RuleNext, SwitchNext,
         ToggleNext, ToggleEditNext, SliderNext, SliderEditNext, In
<1> QED BY <1>1 DEF SliderNext, Slider!vars, Slider!hand, Slider!flip, Slider!wire, vars,
                wsConnectionVars, topicPreviewVars,
                logicRuleEditorVars, logicRulePanelVars, togglePanelVars,
                toggleWindowVars, sliderPanelVars, sliderWindowVars, shared

LEMMA SliderEditWhole == ASSUME In("sliderwindow"), Next, UNCHANGED SliderEdit!vars PROVE UNCHANGED vars
<1>1. SliderEditNext
  BY DEF Next, WsNext, PreviewNext, EditorNext, RuleNext, SwitchNext,
         ToggleNext, ToggleEditNext, SliderNext, SliderEditNext, In
<1> QED BY <1>1 DEF SliderEditNext, SliderEdit!vars, vars,
                wsConnectionVars, topicPreviewVars,
                logicRuleEditorVars, logicRulePanelVars, togglePanelVars,
                toggleWindowVars, sliderPanelVars, sliderWindowVars, shared

-----------------------------------------------------------------------------
(* Every part of the page keeps values of their types, for any brokers,    *)
(* topics, filters, configurations and bounds for which the windows let    *)
(* them be saved (all the files under hooks/, panels/ and config/ that     *)
(* WebPanels is made of).                                                  *)
THEOREM PanelsKeepTypes == Spec => []TypeOK
<1>1. Spec => [](In("ws") => Ws!TypeOK)
  <2>1. WsRuns => []Ws!TypeOK BY WsTypeHolds, PartsAssumption DEF PartsFit
  <2> QED BY <2>1, WsAlone, PTL
<1>2. Spec => [](In("preview") => Preview!TypeOK)
  <2>1. PreviewRuns => [](Preview!TypeOK /\ Preview!Truthful /\ Preview!SampleFits)
    BY FieldIsTruthful, PartsAssumption DEF PartsFit
  <2> QED BY <2>1, PreviewAlone, PTL
<1>3. Spec => [](In("editor") => Editor!TypeOK)
  <2>1. EditorRuns => []Editor!TypeOK BY EntriesHold, PartsAssumption DEF PartsFit
  <2> QED BY <2>1, EditorAlone, PTL
<1>4. Spec => [](In("rule") => Rule!TypeOK)
  <2>1. RuleRuns => []Rule!TypeOK BY RuleTypeHolds, PartsAssumption DEF PartsFit
  <2> QED BY <2>1, RuleAlone, PTL
<1>5. Spec => [](In("switch") => Rule!TypeOK)
  <2>1. RuleRuns => []Rule!TypeOK BY RuleTypeHolds, PartsAssumption DEF PartsFit
  <2> QED BY <2>1, SwitchAlone, PTL
<1>6. Spec => [](In("toggle") => Toggle!TypeOK)
  <2>1. FlipRuns => []Toggle!TypeOK BY ToggleTypeHolds, PartsAssumption DEF PartsFit
  <2> QED BY <2>1, ToggleAlone, PTL
<1>7. Spec => [](In("togglewindow") => ToggleEdit!TypeOK)
  <2>1. ToggleEditRuns => []ToggleEdit!TypeOK BY ToggleWindowTypeHolds, PartsAssumption DEF PartsFit
  <2> QED BY <2>1, ToggleEditAlone, PTL
<1>8. Spec => [](In("slider") => Slider!TypeOK)
  <2>1. SlideRuns => []Slider!TypeOK BY SliderTypeHolds, PartsAssumption DEF PartsFit
  <2> QED BY <2>1, SliderAlone, PTL
<1>9. Spec => [](In("sliderwindow") => SliderEdit!TypeOK)
  <2>1. SliderEditRuns => [](SliderEdit!TypeOK /\ SliderEdit!PickLands /\ SliderEdit!ReadsWhatItWrites)
    BY SliderPicksLand, PartsAssumption DEF PartsFit
  <2> QED BY <2>1, SliderEditAlone, PTL
<1>10. /\ (In("ws") => Ws!TypeOK)
       /\ (In("preview") => Preview!TypeOK)
       /\ (In("editor") => Editor!TypeOK)
       /\ (In("rule") => Rule!TypeOK)
       /\ (In("switch") => Rule!TypeOK)
       /\ (In("toggle") => Toggle!TypeOK)
       /\ (In("togglewindow") => ToggleEdit!TypeOK)
       /\ (In("slider") => Slider!TypeOK)
       /\ (In("sliderwindow") => SliderEdit!TypeOK)
    => TypeOK
  BY DEF In, TypeOK
<1> QED BY <1>1, <1>2, <1>3, <1>4, <1>5, <1>6, <1>7, <1>8, <1>9, <1>10, PTL

(* While its socket is open a mounted hook hears each message its filter   *)
(* asks for and the hub serves nobody who has left, and the manager never  *)
(* waits on a socket that has died (hooks/useWebSocket.ts).                *)
THEOREM HooksAreServed == Spec => []Served
<1>1. Spec => [](In("ws") => (Ws!MountedServed /\ Ws!SocketAlive))
  <2>1. WsRuns => []Ws!MountedServed BY MountedAreServed, PartsAssumption DEF PartsFit
  <2>2. WsRuns => []Ws!SocketAlive BY SocketStaysAlive, PartsAssumption DEF PartsFit
  <2> QED BY <2>1, <2>2, WsAlone, PTL
<1>2. (In("ws") => Ws!MountedServed /\ Ws!SocketAlive) => Served
  BY DEF In, Served
<1> QED BY <1>1, <1>2, PTL

(* A topic field calls active what was sent, a rule's panel evaluates and  *)
(* a toggle shows the newest message that it was handed or the history's   *)
(* answer held, and a rule's switch stands as was last answered, whichever *)
(* order subscription, history, polls and saves come in and whatever the   *)
(* history lacks (usePayloadSample.ts, LogicPanel.tsx, TogglePanel.tsx).   *)
THEOREM NewestIsShown == Spec => []ShowsNewest
<1>1. Spec => [](In("preview") => (Preview!Truthful /\ Preview!SampleFits))
  <2>1. PreviewRuns => [](Preview!TypeOK /\ Preview!Truthful /\ Preview!SampleFits)
    BY FieldIsTruthful, PartsAssumption DEF PartsFit
  <2> QED BY <2>1, PreviewAlone, PTL
<1>2. Spec => [](In("rule") => (Rule!NeverBehind /\ Rule!CaughtUp))
  <2>1. RuleRuns => []Rule!NeverBehind BY NeverBehindHolds, PartsAssumption DEF PartsFit
  <2>2. RuleRuns => []Rule!CaughtUp BY CatchesUp, PartsAssumption DEF PartsFit
  <2> QED BY <2>1, <2>2, RuleAlone, PTL
<1>3. Spec => [](In("switch") => Rule!SwitchInStep)
  <2>1. RuleRuns => []Rule!SwitchInStep BY SwitchStaysInStep, PartsAssumption DEF PartsFit
  <2> QED BY <2>1, SwitchAlone, PTL
<1>4. Spec => [](In("toggle") => Toggle!ShowsNewest)
  <2>1. FlipRuns => []Toggle!ShowsNewest BY ToggleShowsNewest, PartsAssumption DEF PartsFit
  <2> QED BY <2>1, ToggleAlone, PTL
<1>5. /\ (In("preview") => Preview!Truthful /\ Preview!SampleFits)
      /\ (In("rule") => Rule!NeverBehind /\ Rule!CaughtUp)
      /\ (In("switch") => Rule!SwitchInStep)
      /\ (In("toggle") => Toggle!ShowsNewest)
    => ShowsNewest
  BY DEF In, ShowsNewest
<1> QED BY <1>1, <1>2, <1>3, <1>4, <1>5, PTL

(* No trip to the explorer loses an entry of a window or lands its topic   *)
(* in another field, and what the rule's window saves is combined as its   *)
(* buttons say and accepted by the engine, but for blank targets, numbers  *)
(* that only JavaScript reads, fractions and cool-downs below zero, which  *)
(* the window lets through: for any number of conditions and trips         *)
(* (LogicConfigModal, ToggleConfigModal, SliderConfigModal, ValidateRule). *)
THEOREM WindowsKeepEntries == Spec => []WindowsKeep
<1>1. Spec => [](In("editor") => (Editor!TripKeepsEntries /\ Editor!SavedAccepted /\ Editor!JoinsAsShown))
  <2>1. EditorRuns => []Editor!TripKeepsEntries BY TripsKeepEntries, PartsAssumption DEF PartsFit
  <2>2. EditorRuns => []Editor!SavedAccepted BY SavedIsAccepted, PartsAssumption DEF PartsFit
  <2>3. EditorRuns => []Editor!JoinsAsShown BY JoinsAreAsShown, PartsAssumption DEF PartsFit
  <2> QED BY <2>1, <2>2, <2>3, EditorAlone, PTL
<1>2. Spec => [](In("togglewindow") => ToggleEdit!PickLands)
  <2>1. ToggleEditRuns => []ToggleEdit!PickLands BY TogglePicksLand, PartsAssumption DEF PartsFit
  <2> QED BY <2>1, ToggleEditAlone, PTL
<1>3. Spec => [](In("sliderwindow") => (SliderEdit!PickLands /\ SliderEdit!ReadsWhatItWrites))
  <2>1. SliderEditRuns => [](SliderEdit!TypeOK /\ SliderEdit!PickLands /\ SliderEdit!ReadsWhatItWrites)
    BY SliderPicksLand, PartsAssumption DEF PartsFit
  <2> QED BY <2>1, SliderEditAlone, PTL
<1>4. /\ (In("editor") => Editor!TripKeepsEntries /\ Editor!SavedAccepted /\ Editor!JoinsAsShown)
      /\ (In("togglewindow") => ToggleEdit!PickLands)
      /\ (In("sliderwindow") => SliderEdit!PickLands /\ SliderEdit!ReadsWhatItWrites)
    => WindowsKeep
  BY DEF In, WindowsKeep
<1> QED BY <1>1, <1>2, <1>3, <1>4, PTL

(* However pointer, keys, focus, reports and saves follow each other, one  *)
(* adjustment of a slider is one message of a value in its range, at its   *)
(* high end, on a step, or as far from one as rounding to the decimals of  *)
(* the step takes it, and a flip or a value waits with one timer           *)
(* (SliderPanel.tsx, TogglePanel.tsx).                                     *)
THEOREM EachGestureWritesOnce == Spec => []OneWrite
<1>1. Spec => [](In("toggle") => Toggle!OneTimer)
  <2>1. FlipRuns => []Toggle!OneTimer BY ToggleOneTimerHolds, PartsAssumption DEF PartsFit
  <2> QED BY <2>1, ToggleAlone, PTL
<1>2. Spec => [](In("slider") => (Slider!OneTimer /\ Slider!OnGrid /\ Slider!OncePerGesture))
  <2>1. SlideRuns => []Slider!OneTimer BY SliderOneTimerHolds, PartsAssumption DEF PartsFit
  <2>2. SlideRuns => []Slider!OnGrid BY OnGridHolds, PartsAssumption DEF PartsFit
  <2>3. SlideRuns => []Slider!OncePerGesture BY OncePerGestureHolds, PartsAssumption DEF PartsFit
  <2> QED BY <2>1, <2>2, <2>3, SliderAlone, PTL
<1>3. /\ (In("toggle") => Toggle!OneTimer)
      /\ (In("slider") => Slider!OneTimer /\ Slider!OnGrid /\ Slider!OncePerGesture)
    => OneWrite
  BY DEF In, OneWrite
<1> QED BY <1>1, <1>2, <1>3, PTL

(* A flip or a value stops waiting without a complaint only when it was    *)
(* reported back, and the page announces a firing of its own only after    *)
(* the rule has held for as long as its mode asks (TogglePanel.tsx,        *)
(* SliderPanel.tsx, LogicRulePanel.tsx).                                   *)
THEOREM WhatIsAnnouncedIsSo == Spec => AnnouncedIsSo
<1>1. Spec => [][In("toggle") => Toggle!EndsWell]_vars
  <2>1. FlipRuns => [][Toggle!EndsWell]_(Toggle!vars)
    BY ToggleEndsWellHolds, PartsAssumption DEF PartsFit
  <2>2. [Toggle!EndsWell]_(Toggle!vars) /\ [Next]_vars => [In("toggle") => Toggle!EndsWell]_vars
    BY ToggleWhole
  <2>3. ~In("toggle") => [In("toggle") => Toggle!EndsWell]_vars OBVIOUS
  <2> QED BY <2>1, <2>2, <2>3, ToggleAlone, PTL DEF Spec
<1>2. Spec => [][In("slider") => Slider!EndsWell]_vars
  <2>1. SlideRuns => [][Slider!EndsWell]_(Slider!vars)
    BY SliderEndsWellHolds, PartsAssumption DEF PartsFit
  <2>2. [Slider!EndsWell]_(Slider!vars) /\ [Next]_vars => [In("slider") => Slider!EndsWell]_vars
    BY SliderWhole
  <2>3. ~In("slider") => [In("slider") => Slider!EndsWell]_vars OBVIOUS
  <2> QED BY <2>1, <2>2, <2>3, SliderAlone, PTL DEF Spec
<1>3. Spec => [][In("rule") => Rule!FiresInTime]_vars
  <2>1. RuleRuns => [][Rule!FiresInTime]_(Rule!vars)
    BY FiresInTimeHolds, PartsAssumption DEF PartsFit
  <2>2. [Rule!FiresInTime]_(Rule!vars) /\ [Next]_vars => [In("rule") => Rule!FiresInTime]_vars
    BY RuleWhole
  <2>3. ~In("rule") => [In("rule") => Rule!FiresInTime]_vars OBVIOUS
  <2> QED BY <2>1, <2>2, <2>3, RuleAlone, PTL DEF Spec
<1>4. /\ [In("toggle") => Toggle!EndsWell]_vars
      /\ [In("slider") => Slider!EndsWell]_vars
      /\ [In("rule") => Rule!FiresInTime]_vars
    => [/\ scene = "toggle" => Toggle!EndsWell
        /\ scene = "slider" => Slider!EndsWell
        /\ scene = "rule" => Rule!FiresInTime]_vars
  BY DEF In
<1> QED BY <1>1, <1>2, <1>3, <1>4, PTL DEF AnnouncedIsSo

(* What the windows save publishes, listens and reads where and as they    *)
(* showed, and a range of finite numbers is the one typed and used; in the *)
(* place of an infinite one stands its default (ToggleConfigModal,         *)
(* SliderConfigModal).                                                     *)
THEOREM SavedReadsAsShown == Spec => SavedAsShown
<1>1. Spec => [][In("togglewindow") => ToggleEdit!AsShown /\ ToggleEdit!SavedReads]_vars
  <2>1. ToggleEditRuns => [][ToggleEdit!AsShown]_(ToggleEdit!vars)
    BY SavedAsTheWindowShows, PartsAssumption DEF PartsFit
  <2>2. ToggleEditRuns => [][ToggleEdit!SavedReads]_(ToggleEdit!vars)
    BY SavedIsReadBack, PartsAssumption DEF PartsFit
  <2>3. [ToggleEdit!AsShown]_(ToggleEdit!vars) /\ [ToggleEdit!SavedReads]_(ToggleEdit!vars) /\ [Next]_vars
        => [In("togglewindow") => ToggleEdit!AsShown /\ ToggleEdit!SavedReads]_vars
    BY ToggleEditWhole
  <2>4. ~In("togglewindow") => [In("togglewindow") => ToggleEdit!AsShown /\ ToggleEdit!SavedReads]_vars OBVIOUS
  <2> QED BY <2>1, <2>2, <2>3, <2>4, ToggleEditAlone, PTL DEF Spec
<1>2. Spec => [][In("sliderwindow") => SliderEdit!RangeTaken]_vars
  <2>1. SliderEditRuns => [][SliderEdit!RangeTaken]_(SliderEdit!vars)
    BY RangeIsTaken, PartsAssumption DEF PartsFit
  <2>2. [SliderEdit!RangeTaken]_(SliderEdit!vars) /\ [Next]_vars
        => [In("sliderwindow") => SliderEdit!RangeTaken]_vars
    BY SliderEditWhole
  <2>3. ~In("sliderwindow") => [In("sliderwindow") => SliderEdit!RangeTaken]_vars OBVIOUS
  <2> QED BY <2>1, <2>2, <2>3, SliderEditAlone, PTL DEF Spec
<1>3. /\ [In("togglewindow") => ToggleEdit!AsShown /\ ToggleEdit!SavedReads]_vars
      /\ [In("sliderwindow") => SliderEdit!RangeTaken]_vars
    => [/\ scene = "togglewindow" => ToggleEdit!AsShown /\ ToggleEdit!SavedReads
        /\ scene = "sliderwindow" => SliderEdit!RangeTaken]_vars
  BY DEF In
<1> QED BY <1>1, <1>2, <1>3, PTL DEF SavedAsShown

=============================================================================
