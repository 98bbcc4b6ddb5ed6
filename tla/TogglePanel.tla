------------------------------- MODULE TogglePanel -------------------------------
(***************************************************************************)
(* A toggle on the dashboard (TogglePanel and ToggleRuntime in             *)
(* components/panels/TogglePanel.tsx): a flip is published and shown at    *)
(* once, then confirmed by the next message of the state topic, given up   *)
(* after a while, or taken back when the call fails.  A change of what the *)
(* panel is pointed at starts it afresh.                                   *)
(*                                                                         *)
(* The messages of a topic are numbered in the order the broker had them;  *)
(* a message is stored and sent to the subscribers in one step.  Answers   *)
(* may overtake frames and each other, frames of the one socket do not.    *)
(* How long the wait is, sizes and animation are left out.                 *)
(***************************************************************************)
EXTENDS ReadBack

CONSTANTS Configs,      \* what the panel may be configured as
          Reports,      \* the messages a device sends on the state topic
          MaxReports, MaxFlips, MaxSaves

Key(c) == <<stateBroker(c), stateTopic(c)>>
CommandKey(c) == <<c.broker, commandTopic(c)>>
Keys == {Key(c) : c \in Configs} \cup {CommandKey(c) : c \in Configs}
NoKey == <<"", <<>>>>
(* TogglePanel: the runtime is another one when one of these differs. *)
identity(c) == <<c.broker, c.topic, c.stateTopic, c.stateBroker, c.readTemplate, c.on, c.off, c.payloadTemplate>>

(* What a window stores: a state topic exactly where the panel has one of  *)
(* its own; and the words for on and off are words for on and off.         *)
ConfigsFit ==
    /\ \A c \in Configs : c.separateRead \in BOOLEAN /\ (c.separateRead <=> c.stateTopic # <<>>)
    /\ \A w \in DOMAIN Truth : Truth[w] \in States

VARIABLES config,
          log,          \* the messages of each topic
          hub,          \* the topic the hub sends on to the panel, or NoKey
          asks,         \* the panel's subscriptions on their way to the hub
          frames,       \* messages on their way to the page: topic and number
          history,      \* the history's answer: "asked", "answered" or "done"
          found,        \* and the number of the message in it
          state, updatedAt,   \* updatedAt: the number of the message, or 0
          pending, unconfirmed, error,
          timers, timeoutRef, \* the timers running, and the one that is known
          posts,        \* publish calls in flight
          flips,        \* flips so far
          reached,      \* last message that was sent to, or read by, the panel
          newest,       \* newest message that was applied
          steps
messages == <<log, hub, asks, frames, history, found>>
shown == <<state, updatedAt, newest>>
flip == <<pending, unconfirmed, error, timers, timeoutRef>>
vars == <<config, messages, shown, flip, posts, flips, reached, steps>>

None == 0
Newest(k) == Len(log[k])

Init ==
    /\ config \in Configs
    /\ log = [k \in Keys |-> <<>>] /\ frames = <<>> /\ hub = NoKey
    /\ asks = IF stateTopic(config) = <<>> THEN <<>> ELSE <<Key(config)>>
    /\ history = IF stateTopic(config) = <<>> THEN "done" ELSE "asked"
    /\ found = 0
    /\ state = NoState /\ updatedAt = 0 /\ newest = 0
    /\ pending = NoState /\ unconfirmed = FALSE /\ error = FALSE
    /\ timers = {} /\ timeoutRef = None
    /\ posts = {} /\ flips = 0 /\ reached = 0
    /\ steps = [reports |-> 0, saves |-> 0]

-----------------------------------------------------------------------------
(* The broker, the server and the socket; a history call that fails finds  *)
(* nothing.                                                                *)
Arrives(k, m) ==
    /\ log' = [log EXCEPT ![k] = Append(@, m)]
    /\ frames' = IF hub = k THEN Append(frames, <<k, Newest(k) + 1>>) ELSE frames
    /\ reached' = IF hub = k /\ k = Key(config) THEN Newest(k) + 1 ELSE reached
Report(m) ==
    /\ steps.reports < MaxReports /\ steps' = [steps EXCEPT !.reports = @ + 1]
    /\ stateTopic(config) # <<>> /\ Arrives(Key(config), m)
    /\ UNCHANGED <<config, hub, asks, history, found, shown, flip, posts, flips>>
HubServes ==
    /\ asks # <<>> /\ hub' = Head(asks) /\ asks' = Tail(asks)
    /\ UNCHANGED <<config, log, frames, history, found, shown, flip, posts, flips, reached, steps>>
ServeHistory ==
    /\ history = "asked" /\ history' = "answered"
    /\ found' \in {Newest(Key(config)), 0} /\ reached' = found'
    /\ UNCHANGED <<config, log, hub, asks, frames, shown, flip, posts, flips, steps>>

-----------------------------------------------------------------------------
(* clearPendingTimer: what is left running. *)
Cleared == timers \ {timeoutRef}

(* applyIncomingState. *)
Mark(next) == next # pending
Apply(n) ==
    LET next == parseToggleState(config, log[Key(config)][n]) IN
    /\ state' = next /\ updatedAt' = n /\ newest' = (IF n > newest THEN n ELSE newest)
    /\ IF pending = NoState THEN UNCHANGED flip
       ELSE /\ timers' = Cleared /\ timeoutRef' = None
            /\ pending' = NoState /\ unconfirmed' = Mark(next) /\ UNCHANGED error

Hears(k) == k = Key(config)
OnMessage ==
    /\ frames # <<>> /\ frames' = Tail(frames)
    /\ IF Hears(Head(frames)[1]) THEN Apply(Head(frames)[2]) ELSE UNCHANGED <<shown, flip>>
    /\ UNCHANGED <<config, log, hub, asks, history, found, posts, flips, reached, steps>>

(* The newest record, which may be older than what came live meanwhile. *)
last(n) == n
OnHistory ==
    /\ history = "answered" /\ history' = "done" /\ found' = 0
    /\ IF found = 0 THEN UNCHANGED <<shown, flip>> ELSE Apply(last(found))
    /\ UNCHANGED <<config, log, hub, asks, frames, posts, flips, reached, steps>>

-----------------------------------------------------------------------------
(* handleFlip, offered while the button is not disabled. *)
displayed == IF pending # NoState THEN pending ELSE state
disabled == commandTopic(config) = <<>> \/ hasWildcard(config) \/ pending # NoState
Opposite == IF displayed = "on" THEN "off" ELSE "on"
handleFlip ==
    /\ ~disabled /\ flips < MaxFlips /\ flips' = flips + 1
    /\ unconfirmed' = FALSE /\ error' = FALSE /\ pending' = Opposite
    /\ \E t \in {1, 2} \ timers : timeoutRef' = t /\ timers' = Cleared \cup {t}
    /\ posts' = posts \cup {[flip |-> flips', desired |-> pending', config |-> config, own |-> TRUE, stage |-> "sent"]}
    /\ UNCHANGED <<config, messages, shown, reached, steps>>

(* The server publishes the bytes or refuses; an answer that is lost is an *)
(* error too.                                                              *)
Written(p) == toggleWritePayload(configured(p.config, p.desired), p.config.payloadTemplate)
ServePost(p) ==
    /\ p.stage = "sent"
    /\ \/ /\ Arrives(CommandKey(p.config), Written(p))
          /\ posts' = (posts \ {p}) \cup {[p EXCEPT !.stage = "done"]}
       \/ /\ posts' = (posts \ {p}) \cup {[p EXCEPT !.stage = "refused"]}
          /\ UNCHANGED <<log, frames, reached>>
    /\ UNCHANGED <<config, hub, asks, history, found, shown, flip, flips, steps>>
(* The catch of a flip that was given up takes back the flip made since. *)
Answered(p, ok) ==
    /\ p.stage # "sent" /\ (ok => p.stage = "done") /\ posts' = posts \ {p}
    /\ IF ok \/ ~p.own THEN UNCHANGED flip
       ELSE /\ timers' = Cleared /\ timeoutRef' = None
            /\ pending' = NoState /\ error' = TRUE /\ UNCHANGED unconfirmed
    /\ UNCHANGED <<config, messages, shown, flips, reached, steps>>

AfterTimeout == NoState
Timeout(t) ==
    /\ t \in timers /\ timers' = timers \ {t}
    /\ timeoutRef' = None /\ pending' = AfterTimeout /\ unconfirmed' = TRUE
    /\ UNCHANGED <<config, messages, shown, error, posts, flips, reached, steps>>

OnUnmount == Cleared
(* The panel is saved with another configuration: on a change of identity  *)
(* the runtime is thrown away, its timer cleared, its history answer and   *)
(* its calls' answers ignored, and its subscription taken back first.      *)
Save(c) ==
    /\ steps.saves < MaxSaves /\ steps' = [steps EXCEPT !.saves = @ + 1]
    /\ c # config /\ config' = c
    /\ IF identity(c) = identity(config) THEN UNCHANGED <<messages, shown, flip, posts, reached>>
       ELSE /\ state' = NoState /\ updatedAt' = 0 /\ newest' = 0
            /\ pending' = NoState /\ unconfirmed' = FALSE /\ error' = FALSE
            /\ timers' = OnUnmount /\ timeoutRef' = None
            /\ posts' = {[p EXCEPT !.own = FALSE] : p \in posts}
            /\ asks' = asks \o (IF stateTopic(config) = <<>> THEN <<>> ELSE <<NoKey>>)
                            \o (IF stateTopic(c) = <<>> THEN <<>> ELSE <<Key(c)>>)
            /\ history' = (IF stateTopic(c) = <<>> THEN "done" ELSE "asked") /\ found' = 0
            /\ reached' = 0 /\ UNCHANGED <<log, hub, frames>>
    /\ UNCHANGED flips

Next ==
    \/ \E m \in Reports : Report(m)
    \/ HubServes \/ ServeHistory \/ OnMessage \/ OnHistory
    \/ handleFlip
    \/ \E p \in posts : ServePost(p) \/ \E ok \in BOOLEAN : Answered(p, ok)
    \/ \E t \in timers : Timeout(t)
    \/ \E c \in Configs : Save(c)
(* Timers fire. *)
Fairness == WF_vars(\E t \in timers : Timeout(t))
Spec == Init /\ [][Next]_vars /\ Fairness

-----------------------------------------------------------------------------
TypeOK ==
    /\ state \in States \cup {NoState} /\ pending \in States \cup {NoState}
    /\ timeoutRef \in {None, 1, 2} /\ timers \subseteq {1, 2} /\ (pending = NoState <=> timeoutRef = None)
    /\ history \in {"asked", "answered", "done"} /\ hub \in Keys \cup {NoKey}
    /\ updatedAt \in 0..Newest(Key(config))

(* A flip waits with one timer, the one the panel knows; with no flip none *)
(* is running.  No verdict on an older flip stands while one waits.        *)
OneTimer ==
    /\ timers = IF pending = NoState THEN {} ELSE {timeoutRef}
    /\ pending # NoState => ~unconfirmed /\ ~error

(* Once the history is in and nothing is on its way, the panel shows the   *)
(* newest message of its topic, unless that fell between the history and   *)
(* the subscription, or an older one was applied after it.                 *)
Quiet == frames = <<>> /\ asks = <<>> /\ history = "done"
ShowsNewest ==
    Quiet /\ stateTopic(config) # <<>> /\ reached = Newest(Key(config)) /\ updatedAt = newest =>
        /\ updatedAt = reached
        /\ state = IF reached = 0 THEN NoState ELSE parseToggleState(config, log[Key(config)][reached])

(* A flip that ends with no complaint has left the panel where it was      *)
(* asked to go.                                                            *)
EndsWell == pending # NoState /\ pending' = NoState /\ config' = config /\ ~unconfirmed' /\ ~error' =>
    state' = pending

(* A flip does not wait for ever. *)
AtRest == pending = NoState
================================================================================
