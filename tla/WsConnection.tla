---------------------------- MODULE WsConnection ----------------------------
(***************************************************************************)
(* The browser's WebSocket manager (hooks/useWebSocket.ts): one object of  *)
(* the page, through which every hook of every panel listens and           *)
(* subscribes.  A WebSocket of the browser opens and closes by events that *)
(* arrive later than the call that asked for them, and the handlers of all *)
(* sockets the manager ever made write the same fields.                    *)
(*                                                                         *)
(* A listener stands for one use of the hook and for the panel id it       *)
(* subscribes under.  A filter or topic is its sequence of levels.         *)
(* Left out: the delay of a retry (the timers fire in any order), and the  *)
(* broker id of a payload.                                                 *)
(***************************************************************************)
EXTENDS Naturals, FiniteSets, Sequences

CONSTANTS Listeners,    \* uses of the hook
          Filters,      \* filters a listener may subscribe to
          Topics,       \* topics of the messages
          MaxSockets,   \* sockets that exist at a time
          MaxMounts,    \* bound on mounts of the hook
          MaxLosses     \* bound on connections refused or lost

Sockets == 1..MaxSockets
NoSocket == 0
(* A payload is its filter; these two are no filters. *)
NoSub == <<>>
Unsub == <<"unsubscribe">>

VARIABLES sockets,               \* readyState of each browser socket
          socket,                \* this.socket
          isConnecting,
          listeners,
          subscription,          \* listener.subscription
          activeSubscriptions,
          retries,               \* pending reconnect timers
          reconnectTimeout,      \* TRUE: the manager's handle is one of them
          closeTimeout,
          served,                \* what the hub holds of each socket
          mounts, losses

manager == <<socket, isConnecting, listeners, subscription, activeSubscriptions,
             retries, reconnectTimeout, closeTimeout>>
vars == <<sockets, manager, served, mounts, losses>>

-----------------------------------------------------------------------------
(* mqttTopicMatches: "#" takes the rest, even if there is none; filters    *)
(* that do not begin with "$" do not see the topics that do.               *)
Control(t) == t[1] = "$"
Level(f, t, i) == i <= Len(t) /\ f[i] \in {"+", t[i]}
mqttTopicMatches(f, t) ==
    \/ f = t
    \/ /\ Control(t) => Control(f)
       /\ \/ \E i \in DOMAIN f : f[i] = "#" /\ \A j \in 1..(i - 1) : Level(f, t, j)
          \/ Len(f) = Len(t) /\ \A i \in DOMAIN f : Level(f, t, i)

IsOpen(s) == s # NoSocket /\ sockets[s] = "open"
Nothing == [l \in Listeners |-> NoSub]
Wire_Kept(p) == p
Wire(p) == IF p = Unsub THEN NoSub ELSE p

(* onmessage: a listener without topics is handed every frame. *)
Hands(l, t) ==
    /\ l \in listeners
    /\ subscription[l] \in Filters => mqttTopicMatches(subscription[l], t)

(* A frame of topic t on socket s reaches listener l. *)
Hears(l, s, t) ==
    /\ IsOpen(s)
    /\ \E k \in Listeners : served[s][k] \in Filters /\ mqttTopicMatches(served[s][k], t)
    /\ Hands(l, t)

-----------------------------------------------------------------------------
Init ==
    /\ sockets = [s \in Sockets |-> "none"]
    /\ socket = NoSocket
    /\ isConnecting = FALSE
    /\ listeners = {}
    /\ subscription = Nothing
    /\ activeSubscriptions = Nothing
    /\ retries = 0
    /\ reconnectTimeout = FALSE
    /\ closeTimeout = FALSE
    /\ served = [s \in Sockets |-> Nothing]
    /\ mounts = 0
    /\ losses = 0

(* connect, given the listeners there are: a new socket, or nothing to do. *)
NewSocket ==
    \E s \in Sockets :
        /\ sockets[s] = "none"
        /\ \A r \in Sockets : sockets[r] = "none" => s <= r
        /\ sockets' = [sockets EXCEPT ![s] = "connecting"]
        /\ served' = [served EXCEPT ![s] = Nothing]
        /\ socket' = s
        /\ isConnecting' = TRUE
NoConnect == UNCHANGED <<sockets, socket, isConnecting, served>>
connect_Waits(ls) ==
    IF socket # NoSocket \/ isConnecting \/ reconnectTimeout \/ ls = {} THEN NoConnect ELSE NewSocket
connect(ls) == IF socket # NoSocket \/ isConnecting \/ ls = {} THEN NoConnect ELSE NewSocket

(* onopen: the subscriptions of all panels are sent again. *)
Resent_None == Nothing
Resent == [l \in Listeners |-> Wire(activeSubscriptions[l])]
Opened(s) ==
    /\ sockets[s] = "connecting"
    /\ sockets' = [sockets EXCEPT ![s] = "open"]
    /\ isConnecting' = FALSE
    /\ served' = [served EXCEPT ![s] = Resent]
    /\ UNCHANGED <<socket, listeners, subscription, activeSubscriptions, retries,
                   reconnectTimeout, closeTimeout, mounts, losses>>

(* onclose of any socket the manager made, the present one or not. *)
onclose(s) ==
    /\ sockets' = [sockets EXCEPT ![s] = "none"]
    /\ isConnecting' = FALSE
    /\ socket' = NoSocket
    /\ served' = [served EXCEPT ![s] = Nothing]
    /\ IF listeners # {}
       THEN retries' = retries + 1 /\ reconnectTimeout' = TRUE
       ELSE UNCHANGED <<retries, reconnectTimeout>>
    /\ UNCHANGED <<listeners, subscription, activeSubscriptions, closeTimeout, mounts>>

Closed(s) == sockets[s] = "closing" /\ onclose(s) /\ UNCHANGED losses

(* The server refuses or drops the connection. *)
Lost(s) ==
    /\ sockets[s] \in {"connecting", "open"}
    /\ losses < MaxLosses
    /\ losses' = losses + 1
    /\ onclose(s)

(* A reconnect timer fires: the one the manager remembers, or an older one. *)
Reconnect ==
    /\ retries > 0
    /\ retries' = retries - 1
    /\ \/ reconnectTimeout /\ reconnectTimeout' = FALSE
       \/ retries > (IF reconnectTimeout THEN 1 ELSE 0) /\ UNCHANGED reconnectTimeout
    /\ connect(listeners)
    /\ UNCHANGED <<listeners, subscription, activeSubscriptions, closeTimeout, mounts, losses>>

(* register: the hook mounts. *)
Register(l) ==
    /\ l \notin listeners
    /\ mounts < MaxMounts
    /\ mounts' = mounts + 1
    /\ closeTimeout' = FALSE
    /\ listeners' = listeners \union {l}
    /\ subscription' = [subscription EXCEPT ![l] = NoSub]
    /\ connect(listeners')
    /\ UNCHANGED <<activeSubscriptions, retries, reconnectTimeout, losses>>

(* subscribe: remembered for reconnections, whatever the payload asks. *)
Subscribe(l, p) ==
    /\ l \in listeners
    /\ subscription' = [subscription EXCEPT ![l] = p]
    /\ activeSubscriptions' = [activeSubscriptions EXCEPT ![l] = p]
    /\ served' = IF IsOpen(socket) THEN [served EXCEPT ![socket][l] = Wire(p)] ELSE served
    /\ UNCHANGED <<sockets, socket, isConnecting, listeners, retries, reconnectTimeout,
                   closeTimeout, mounts, losses>>

(* unregister: the hook unmounts; the last one out starts the close timer. *)
Unregister(l) ==
    /\ l \in listeners
    /\ listeners' = listeners \ {l}
    /\ subscription' = [subscription EXCEPT ![l] = NoSub]
    /\ activeSubscriptions' = [activeSubscriptions EXCEPT ![l] = NoSub]
    /\ served' = IF IsOpen(socket) THEN [served EXCEPT ![socket][l] = NoSub] ELSE served
    /\ closeTimeout' = (closeTimeout \/ listeners' = {})
    /\ UNCHANGED <<sockets, socket, isConnecting, retries, reconnectTimeout, mounts, losses>>

(* The close timer fires 100 ms after the last hook has gone. *)
CloseTimer ==
    /\ closeTimeout
    /\ closeTimeout' = FALSE
    /\ IF listeners = {}
       THEN /\ retries' = IF reconnectTimeout THEN retries - 1 ELSE retries
            /\ reconnectTimeout' = FALSE
            /\ socket' = NoSocket
            /\ sockets' = IF socket # NoSocket
                          THEN [sockets EXCEPT ![socket] = "closing"] ELSE sockets
       ELSE UNCHANGED <<retries, reconnectTimeout, socket, sockets>>
    /\ UNCHANGED <<isConnecting, listeners, subscription, activeSubscriptions, served,
                   mounts, losses>>

Network == \E s \in Sockets : Opened(s) \/ Closed(s) \/ Lost(s)
Page == \E l \in Listeners :
            \/ Register(l)
            \/ Unregister(l)
            \/ \E p \in Filters \union {Unsub} : Subscribe(l, p)
Next == Network \/ Page \/ Reconnect \/ CloseTimer

(* The browser settles every connection it was asked to open or close, and *)
(* runs its timers; panels come and go as they like.                       *)
Fairness ==
    /\ \A s \in Sockets : WF_vars(Opened(s)) /\ WF_vars(Closed(s))
    /\ WF_vars(Reconnect)
    /\ WF_vars(CloseTimer)

Spec == Init /\ [][Next]_vars /\ Fairness

-----------------------------------------------------------------------------
TypeOK ==
    /\ sockets \in [Sockets -> {"none", "connecting", "open", "closing"}]
    /\ socket \in Sockets \union {NoSocket}
    /\ listeners \subseteq Listeners
    /\ subscription \in [Listeners -> Filters \union {NoSub, Unsub}]
    /\ activeSubscriptions \in [Listeners -> Filters \union {NoSub, Unsub}]
    /\ served \in [Sockets -> [Listeners -> Filters \union {NoSub}]]
    /\ {isConnecting, reconnectTimeout, closeTimeout} \subseteq BOOLEAN
    /\ {retries, mounts, losses} \subseteq Nat
    /\ reconnectTimeout => retries > 0

(* Whatever connections were lost, refused or replaced, and whenever its   *)
(* hook mounted: while the manager's socket is open, a listener hears each *)
(* message its filter asks for, and the hub serves nobody who has left.    *)
MountedServed ==
    IsOpen(socket) =>
        \A l \in Listeners :
            /\ l \notin listeners => served[socket][l] = NoSub
            /\ \A t \in Topics :
                  l \in listeners /\ subscription[l] \in Filters
                      /\ mqttTopicMatches(subscription[l], t) => Hears(l, socket, t)

(* The manager never takes a socket that has died for its own, so that it  *)
(* cannot wait for a connection that nobody is making.                     *)
SocketAlive ==
    /\ socket # NoSocket => sockets[socket] \in {"connecting", "open"}
    /\ isConnecting => \E s \in Sockets : sockets[s] \in {"connecting", "closing"}

(* A page with a mounted hook gets a connection again after every loss.    *)
Connected == IsOpen(socket) \/ listeners = {}
=============================================================================
