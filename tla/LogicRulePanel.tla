---------------------------- MODULE LogicRulePanel -----------------------------
(***************************************************************************)
(* A logic rule on the dashboard (LogicPanel in                            *)
(* components/panels/LogicPanel.tsx): it evaluates the rule itself, from   *)
(* the history and the live messages of the rule's topics, asks the server *)
(* now and then what the engine makes of it, and has a switch.             *)
(*                                                                         *)
(* Messages of a topic are numbered from 1; an odd one holds a value that  *)
(* meets the conditions.  Time passes in ticks, and a sustained rule has   *)
(* to hold for Target of them.  Answers may overtake each other, frames of *)
(* the one socket do not.  Left out: layout, colours and how long ago.     *)
(***************************************************************************)
EXTENDS LogicUtils, SequencesExt

CONSTANTS Conditions,    \* the rule's conditions
          Match,         \* and how they are combined
          Mode, Target,
          Tolerance,     \* two seconds, in whole ticks
          MaxMessages,   \* messages of each topic
          MaxPolls,      \* status requests in flight
          MaxTime, MaxEngine, MaxToggles,
          MaxLost        \* status requests that get no answer

Or(broker, other) == IF broker = NoBroker THEN other ELSE broker
primaryTopic == Conditions[1].topic
primaryBroker == Conditions[1].broker
Key(c) == <<Or(c.broker, primaryBroker), IF c.topic = NoTopic THEN primaryTopic ELSE c.topic>>
Keys == {Key(Conditions[i]) : i \in DOMAIN Conditions}
None == -1

(* A rule has a condition, and there is room for a message and a request. *)
RuleFits ==
    /\ Conditions \in Seq({Conditions[i] : i \in DOMAIN Conditions}) /\ Conditions # <<>>
    /\ MaxMessages \in Nat \ {0} /\ MaxPolls \in Nat \ {0}
    /\ MaxTime \in Nat /\ MaxEngine \in Nat /\ Target \in Nat /\ Tolerance \in Nat

VARIABLES sent,        \* last message published on each topic
          engine,      \* what the engine would say of the rule
          on,          \* whether the server has it enabled
          frames,      \* frames on their way to the page
          history,     \* history requests: "asked", "answered" or "done"
          found,       \* and the message each answer holds
          payloadCache,
          heard,       \* last live message of each topic
          subscribed,  \* the hub has the panel's subscription
          offered,     \* ghost: newest message of each topic that the panel was sent or the history's answer held
          enabled,     \* config.enabled, as the page has it
          polls,       \* status requests: <<>> on the way, <<status>> served
          status,      \* <<>> before the first answer
          toggling,    \* the switch's request: <<>>, or its value and stage
          pulse, lastFired,
          now, began,  \* began: when the match the page sees began, or None
          matchStart, holdingElapsed, fired,
          late,        \* a status of another episode has set the clock
          lost,        \* a toggle was carried out and its answer lost
          steps        \* the engine's changes, toggles, lost requests
clock == <<now, began, matchStart, holdingElapsed, fired, late>>
feed == <<subscribed, offered>>
values == <<sent, frames, history, found, payloadCache, heard, feed>>
vars == <<values, engine, on, enabled, polls, status, toggling, pulse, lastFired, clock, lost, steps>>

Payload(n) == IF n = 0 THEN NoPayload ELSE [x \in {""} |-> IF n % 2 = 1 THEN "30" ELSE "20"]
(* The rule is evaluated on every rendering. *)
isMatch(cache) ==
    LET payloads == [k \in DOMAIN cache |-> Payload(cache[k])] IN
    evaluateAllConditions(Cached(payloads, primaryBroker, primaryTopic), Conditions, Match, payloads,
                          primaryBroker, primaryTopic)

State == IF status = <<>> THEN "none" ELSE status[1].state
isTripped == State = "tripped"
isCoolingDown == State = "cooling"
Holding(cache, on_, state) ==
    on_ /\ Mode = "sustained" /\ isMatch(cache) /\ state \notin {"cooling", "tripped"}

-----------------------------------------------------------------------------
Init ==
    /\ sent \in [Keys -> {0, 1}] /\ frames = <<>>
    /\ history = [k \in Keys |-> "asked"] /\ found = [k \in Keys |-> 0]
    /\ payloadCache = [k \in Keys |-> 0] /\ heard = [k \in Keys |-> 0]
    /\ subscribed = FALSE /\ offered = [k \in Keys |-> 0]
    /\ on \in BOOLEAN /\ enabled = on
    /\ \E s \in {"idle", "holding"} : (on \/ s = "idle") /\ engine = [state |-> s, since |-> 0, fires |-> 0]
    /\ polls = <<<<>>>> /\ status = <<>> /\ toggling = <<>>
    /\ pulse = FALSE /\ lastFired = None
    /\ now = 0 /\ began = None /\ matchStart = None /\ holdingElapsed = 0 /\ fired = FALSE
    /\ late = FALSE /\ lost = FALSE /\ steps = [engine |-> 0, toggles |-> 0, lost |-> 0]

(* The effect that starts and stops the page's clock, after a change of    *)
(* the values, the switch or the status.                                   *)
Cleared(start) == IF began = None /\ status' # status THEN start ELSE None
Clock(start, flag) ==
    IF ~Holding(payloadCache', enabled', IF status' = <<>> THEN "none" ELSE status'[1].state)
    THEN /\ began' = None
         /\ matchStart' = Cleared(start)
         /\ fired' = IF began = None /\ status' # status THEN flag ELSE FALSE
    ELSE /\ began' = IF began = None THEN now ELSE began
         /\ matchStart' = IF start = None THEN now ELSE start
         /\ fired' = flag

-----------------------------------------------------------------------------
(* The topics.  Every subscription of a panel replaces the one before it,  *)
(* and the panel makes one for each broker.                                *)
RuleBrokers == {k[1] : k \in Keys}
HeardBroker ==
    LET First(b) == CHOOSE i \in DOMAIN Conditions :
                        Key(Conditions[i])[1] = b /\ \A j \in 1..(i - 1) : Key(Conditions[j])[1] # b
    IN CHOOSE b \in RuleBrokers : \A c \in RuleBrokers : First(c) <= First(b)

Publish(k) ==
    /\ sent[k] < MaxMessages /\ sent' = [sent EXCEPT ![k] = @ + 1]
    /\ IF subscribed /\ k[1] = HeardBroker
       THEN frames' = Append(frames, <<k[2], sent'[k]>>) /\ offered' = [offered EXCEPT ![k] = sent'[k]]
       ELSE UNCHANGED <<frames, offered>>
    /\ UNCHANGED <<history, found, payloadCache, heard, subscribed, engine, on, enabled, polls, status, toggling,
                   pulse, lastFired, clock, lost, steps>>

Subscribed ==
    /\ ~subscribed /\ subscribed' = TRUE
    /\ UNCHANGED <<sent, frames, history, found, payloadCache, heard, offered, engine, on, enabled, polls,
                   status, toggling, pulse, lastFired, clock, lost, steps>>

(* A status is asked for 300 ms after a message that is the rule's. *)
FetchStatus == polls' = IF Len(polls) < MaxPolls THEN Append(polls, <<>>) ELSE polls
(* onMessage: every condition whose filter matches takes the payload. *)
Takes(k, topic) == mqttTopicMatches(k[2], topic)
(* The rule's topics are topics, none with + or # in it. *)
PlainTopics == \A k, l \in Keys : Takes(k, l[2]) <=> k[2] = l[2]
OnMessage ==
    /\ frames # <<>> /\ frames' = Tail(frames)
    /\ LET f == Head(frames) IN
       /\ payloadCache' = [k \in Keys |-> IF Takes(k, f[1]) THEN f[2] ELSE payloadCache[k]]
       /\ heard' = [k \in Keys |-> IF Takes(k, f[1]) THEN f[2] ELSE heard[k]]
    /\ IF enabled THEN FetchStatus ELSE polls' = polls
    /\ UNCHANGED <<enabled, status>> /\ Clock(matchStart, fired)
    /\ UNCHANGED <<feed, sent, history, found, engine, on, toggling, pulse, lastFired, now, holdingElapsed,
                   late, lost, steps>>

(* The last message of the explorer's history, which is written behind the *)
(* sending, drops what it cannot take, and is pruned and cleared: any      *)
(* message that was sent, or none.  The answer counts where nothing live   *)
(* has come.                                                               *)
ServeHistory(k) ==
    /\ history[k] = "asked" /\ history' = [history EXCEPT ![k] = "answered"]
    /\ \E n \in 0..sent[k] :
           /\ found' = [found EXCEPT ![k] = n]
           /\ offered' = [offered EXCEPT ![k] = IF n > @ THEN n ELSE @]
    /\ UNCHANGED <<subscribed, sent, frames, payloadCache, heard, engine, on, enabled, polls, status, toggling,
                   pulse, lastFired, clock, lost, steps>>
FromHistory_Always(k) == IF found[k] # 0 THEN found[k] ELSE payloadCache[k]
FromHistory(k) == IF payloadCache[k] # 0 THEN payloadCache[k] ELSE found[k]
OnHistory(k) ==
    /\ history[k] = "answered" /\ history' = [history EXCEPT ![k] = "done"]
    /\ found' = [found EXCEPT ![k] = 0]
    /\ payloadCache' = [payloadCache EXCEPT ![k] = FromHistory(k)]
    /\ UNCHANGED <<enabled, status>> /\ Clock(matchStart, fired)
    /\ UNCHANGED <<feed, sent, frames, heard, engine, on, polls, toggling, pulse, lastFired, now,
                   holdingElapsed, late, lost, steps>>

-----------------------------------------------------------------------------
(* The engine: what it says of the rule changes with messages the page may *)
(* or may not have seen.                                                   *)
States == {"idle", "holding", "fired", "cooling", "tripped"}
Engine(state) ==
    /\ steps.engine < MaxEngine /\ (on \/ state = "idle")
    /\ steps' = [steps EXCEPT !.engine = @ + 1]
    /\ \/ state = "holding" /\ engine.state = "idle" /\ engine' = [engine EXCEPT !.state = state, !.since = now]
       \/ state \in {"fired", "cooling"} /\ engine.state = "holding"
          /\ engine' = [engine EXCEPT !.state = state, !.fires = @ + 1]
       \/ state = "fired" /\ engine.state = "cooling" /\ engine' = [engine EXCEPT !.state = state]
       \/ state \in {"idle", "tripped"} /\ engine.state \notin {"tripped", state}
          /\ engine' = [engine EXCEPT !.state = state]
    /\ on' = (on /\ state # "tripped")
    /\ UNCHANGED <<values, enabled, polls, status, toggling, pulse, lastFired, clock, lost>>

(* The status: asked for when the panel appears, every ten seconds while   *)
(* it is enabled, after messages and toggles.                              *)
Poll ==
    /\ enabled /\ Len(polls) < MaxPolls /\ FetchStatus
    /\ UNCHANGED <<values, engine, on, enabled, status, toggling, pulse, lastFired, clock, lost, steps>>
ServePoll(i) ==
    /\ polls[i] = <<>>
    /\ polls' = [polls EXCEPT ![i] = <<[state |-> engine.state, fires |-> engine.fires,
                                       held |-> IF engine.state = "holding" THEN now - engine.since ELSE 0]>>]
    /\ UNCHANGED <<values, engine, on, enabled, status, toggling, pulse, lastFired, clock, lost, steps>>
(* The first status is where firings are counted from; a change of it      *)
(* makes the panel flash.  A status that says how long the rule has held   *)
(* sets the clock if that is off by more than Tolerance, also one that is  *)
(* late.                                                                   *)
Start(s) == now - s.held
Resync_Total(s) == IF Mode = "sustained" /\ s.state = "holding" THEN now - Target ELSE matchStart
Resync(s) ==
    IF /\ Mode = "sustained" /\ s.state = "holding"
       /\ matchStart = None \/ matchStart \notin (Start(s) - Tolerance)..(Start(s) + Tolerance)
    THEN Start(s) ELSE matchStart
OnStatus(i) ==
    LET s == polls[i][1]
        news == status = <<>> \/ status[1].state # s.state \/ status[1].held # s.held
    IN
    /\ polls[i] # <<>> /\ polls' = RemoveAt(polls, i)
    /\ status' = <<s>>
    /\ lastFired' = IF s.fires > 0 THEN s.fires ELSE lastFired
    /\ pulse' = (pulse \/ (s.fires > 0 /\ lastFired \notin {None, s.fires}))
    /\ UNCHANGED <<payloadCache, enabled>>
    /\ Clock(IF news THEN Resync(s) ELSE matchStart, fired \/ (news /\ Mode = "sustained" /\ s.state = "fired"))
    /\ late' = (late \/ (Mode = "sustained" /\ s.state = "holding" /\ (began = None \/ Start(s) < began)))
    /\ UNCHANGED <<feed, sent, frames, history, found, heard, engine, on, toggling, now, holdingElapsed, lost, steps>>
LosePoll(i) ==
    /\ steps.lost < MaxLost /\ steps' = [steps EXCEPT !.lost = @ + 1]
    /\ polls' = RemoveAt(polls, i)
    /\ UNCHANGED <<values, engine, on, enabled, status, toggling, pulse, lastFired, clock, lost>>

-----------------------------------------------------------------------------
(* handleToggle. *)
SwitchOffered == toggling = <<>> /\ ~isTripped
handleToggle ==
    /\ SwitchOffered /\ steps.toggles < MaxToggles
    /\ steps' = [steps EXCEPT !.toggles = @ + 1] /\ toggling' = <<~enabled, "sent">>
    /\ UNCHANGED <<values, engine, on, enabled, polls, status, pulse, lastFired, clock, lost>>
ServeToggle ==
    /\ toggling # <<>> /\ toggling[2] = "sent"
    /\ \/ /\ on' = toggling[1] /\ toggling' = <<toggling[1], "done">>
          /\ engine' = IF toggling[1] /\ engine.state # "tripped" THEN engine
                       ELSE [engine EXCEPT !.state = "idle"]
       \/ toggling' = <<toggling[1], "failed">> /\ UNCHANGED <<on, engine>>
    /\ UNCHANGED <<values, enabled, polls, status, pulse, lastFired, clock, lost, steps>>
(* A lost answer is an error as a refusal is. *)
Toggled(ok) == IF ok THEN toggling[1] ELSE enabled
Waiting(ok) == <<>>
OnToggled(ok) ==
    /\ toggling # <<>> /\ toggling[2] \in {"done", "failed"} /\ (ok => toggling[2] = "done")
    /\ toggling' = Waiting(ok)
    /\ enabled' = Toggled(ok)
    /\ IF ok THEN FetchStatus ELSE polls' = polls
    /\ lost' = (lost \/ (~ok /\ toggling[2] = "done"))
    /\ UNCHANGED <<payloadCache, status>> /\ Clock(matchStart, fired)
    /\ UNCHANGED <<feed, sent, frames, history, found, heard, engine, on, pulse, lastFired, now,
                   holdingElapsed, late, steps>>

(* The page's own clock, four times a second while the rule holds. *)
Progress(elapsed) == IF elapsed >= Target THEN Target ELSE elapsed
HoldTick ==
    /\ began # None /\ matchStart # None /\ ~fired
    /\ LET elapsed == now - matchStart IN
       /\ holdingElapsed' = Progress(elapsed)
       /\ IF elapsed >= Target THEN fired' = TRUE /\ pulse' = TRUE /\ FetchStatus
          ELSE holdingElapsed' # holdingElapsed /\ UNCHANGED <<fired, pulse, polls>>
    /\ UNCHANGED <<values, engine, on, enabled, status, toggling, lastFired, now, began, matchStart,
                   late, lost, steps>>
Tick ==
    /\ now < MaxTime /\ now' = now + 1
    /\ UNCHANGED <<values, engine, on, enabled, polls, status, toggling, pulse, lastFired, began,
                   matchStart, holdingElapsed, fired, late, lost, steps>>
PulseEnds ==
    /\ pulse /\ pulse' = FALSE
    /\ UNCHANGED <<values, engine, on, enabled, polls, status, toggling, lastFired, clock, lost, steps>>

(* firingStatus: what the panel says. *)
Label ==
    IF ~enabled THEN "Paused"
    ELSE IF isTripped THEN "Tripped"
    ELSE IF isCoolingDown THEN "Cooldown"
    ELSE IF pulse THEN "Fired!"
    ELSE IF ~isMatch(payloadCache) THEN "Idle"
    ELSE CASE Mode = "sustained" -> IF State = "fired" \/ holdingElapsed >= Target THEN "Sustained" ELSE "Holding"
           [] Mode = "count" -> "Counting"
           [] Mode = "on_change" -> "Armed"
           [] OTHER -> "Firing"

Next ==
    \/ \E k \in Keys : Publish(k) \/ ServeHistory(k) \/ OnHistory(k)
    \/ Subscribed \/ OnMessage \/ Poll
    \/ \E s \in States : Engine(s)
    \/ \E i \in DOMAIN polls : ServePoll(i) \/ OnStatus(i) \/ LosePoll(i)
    \/ handleToggle \/ ServeToggle \/ \E ok \in BOOLEAN : OnToggled(ok)
    \/ HoldTick \/ Tick \/ PulseEnds
Fairness ==
    /\ WF_vars(Poll) /\ WF_vars(OnMessage) /\ WF_vars(ServeToggle)
    /\ WF_vars(\E ok \in BOOLEAN : OnToggled(ok))
    /\ \A k \in Keys : WF_vars(ServeHistory(k)) /\ WF_vars(OnHistory(k))
    /\ \A i \in 1..MaxPolls : WF_vars(i \in DOMAIN polls /\ ServePoll(i)) /\ WF_vars(i \in DOMAIN polls /\ OnStatus(i))
Spec == Init /\ [][Next]_vars /\ Fairness

-----------------------------------------------------------------------------
Messages == 0..MaxMessages
TypeOK ==
    /\ payloadCache \in [Keys -> Messages] /\ heard \in [Keys -> Messages] /\ found \in [Keys -> Messages]
    /\ Len(polls) <= MaxPolls /\ status \in {<<>>} \cup {<<s>> : s \in
         [state : States, held : 0..MaxTime, fires : 0..MaxEngine]}
    /\ holdingElapsed \in 0..Target /\ matchStart \in None..now /\ fired \in BOOLEAN
    /\ enabled \in BOOLEAN /\ pulse \in BOOLEAN

(* What the panel evaluates of a topic is never older than the last        *)
(* message it was handed of it, whenever the history answers.              *)
NeverBehind == \A k \in Keys : payloadCache[k] >= heard[k]

(* Once the history has answered and nothing is on its way, a rule with    *)
(* topics of one broker is evaluated from the newest message of each that  *)
(* the history's answer held or that was sent since the subscription: no   *)
(* answer that is late or old takes its place, and none is lost.           *)
OneBroker == \E b \in RuleBrokers : RuleBrokers = {b}
CaughtUp ==
    OneBroker /\ subscribed /\ frames = <<>> /\ (\A k \in Keys : history[k] = "done") =>
        \A k \in Keys : payloadCache[k] = offered[k]

(* The page's own clock announces a firing only when the page has seen the *)
(* rule hold for as long as the rule asks; a status of another episode     *)
(* that was late may have set it wrong, and one that says fired is taken   *)
(* at its word.                                                            *)
FiresInTime == fired' /\ ~fired /\ status' = status => late \/ now - began >= Target

(* With no request in flight the switch stands as the server has it,       *)
(* unless the rule tripped, or the answer to a toggle was lost.            *)
SwitchInStep == toggling = <<>> /\ engine.state # "tripped" /\ ~lost => enabled = on

(* The switch is never left waiting, and a rule that trips and stays so is *)
(* shown as tripped as long as the page takes it for enabled.              *)
SwitchFree == toggling = <<>>
Tripped == engine.state = "tripped"
ShowsTrip == ~Tripped \/ ~enabled \/ Label = "Tripped"
================================================================================
