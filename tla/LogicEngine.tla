----------------------------- MODULE LogicEngine -----------------------------
(* The automation engine: logic.Engine and the pure evaluate of eval.go.      *)
(* Every operation runs under e.mu and is one action here.  The interleavings *)
(* come from what runs outside the lock: a sustained rule's timer, whose      *)
(* goroutine may already be waiting for e.mu when the timer is stopped, and   *)
(* the MQTT router, which picks a message's handlers before it calls them.    *)
(* A topic stands for a (broker, topic) pair whose broker is resolved, and    *)
(* every condition holds for the payload "on" and not for "off".              *)
EXTENDS Integers, Sequences, FiniteSets, SequencesExt

CONSTANTS Panels, Topics,
          Configs,        \* the rule bodies AddRule may be given
          Ceiling,        \* fires a second that trip a rule (10 in the code)
          Second,         \* clock units of the ceiling's window
          TimerIds,       \* bound: timers of one panel alive at a time
          MaxTime,        \* bound: the clock stops here
          Horizon,        \* bound: no call after this time, and messages are delivered by it
          BrokerComesAndGoes  \* whether the broker may be replaced or removed

Never == 0                \* the zero time.Time; the clock starts at 1
NoTimer == 0
NoRule == [mode |-> "absent"]
Modes == {"every", "on_change", "count", "sustained"}
Payloads == {"on", "off"}
Times == Never .. MaxTime
Config == [mode : Modes, source : Topics, conds : SUBSET Topics, any : BOOLEAN,
           cooldown : Nat, need : Nat \ {0}, window : Nat \ {0}, hold : Nat \ {0}]

ASSUME ConfigsAssumption == Configs \subseteq Config
ASSUME ClockAssumption == /\ Ceiling \in Nat \ {0} /\ Second \in Nat \ {0}
                          /\ MaxTime \in Nat \ {0} /\ Horizon \in Nat
ASSUME TimerAssumption == TimerIds \subseteq Nat \ {NoTimer} /\ IsFiniteSet(TimerIds)
ASSUME SwitchAssumption == BrokerComesAndGoes \in BOOLEAN

VARIABLES rules, enabled,  \* e.rules: the body of each rule and its Enabled flag
          states, tripped, \* e.ruleStates; the tripped flag apart
          topicRules,      \* which rules listen to a topic
          topicHandlers,   \* the topics the engine holds a handler for
          subs,            \* how many of the engine's handlers the registry holds
          cache,           \* e.guardCache: the last payload seen on each topic
          phase, due,      \* the runtime's view of every timer
          inflight,        \* the message the router is delivering
          online,          \* whether the registry knows the broker
          stopped, now
tables == <<topicRules, topicHandlers, subs>>
timers == <<phase, due>>
outside == <<inflight, online, now>>
vars == <<rules, enabled, states, tripped, tables, cache, timers, outside, stopped>>

RuleState == [lastMatched : BOOLEAN, hits : Seq(Times), trueSince : Times,
              sustainedFired : BOOLEAN, timer : TimerIds \cup {NoTimer},
              lastFired : Times, fires : Seq(Times)]
Fresh == [lastMatched |-> FALSE, hits |-> <<>>, trueSince |-> Never,
          sustainedFired |-> FALSE, timer |-> NoTimer, lastFired |-> Never,
          fires |-> <<>>]
NoMessage == [topic |-> "none"]

TypeOK ==
  /\ rules \in [Panels -> Configs \cup {NoRule}]
  /\ enabled \in [Panels -> BOOLEAN]
  /\ states \in [Panels -> RuleState] /\ tripped \in [Panels -> BOOLEAN]
  /\ topicRules \in [Topics -> SUBSET Panels]
  /\ topicHandlers \subseteq Topics
  /\ subs \in [Topics -> Nat]
  /\ cache \in [Topics -> Payloads \cup {"unknown"}]
  /\ phase \in [Panels -> [TimerIds -> {"free", "running", "expired"}]]
  /\ due \in [Panels -> [TimerIds -> Nat]]
  /\ inflight \in [topic : Topics, payload : Payloads] \cup {NoMessage}
  /\ online \in BOOLEAN /\ stopped \in BOOLEAN /\ now \in 1 .. MaxTime

Init ==
  /\ rules = [p \in Panels |-> NoRule] /\ enabled = [p \in Panels |-> FALSE]
  /\ states = [p \in Panels |-> Fresh] /\ tripped = [p \in Panels |-> FALSE]
  /\ topicRules = [t \in Topics |-> {}] /\ topicHandlers = {}
  /\ subs = [t \in Topics |-> 0] /\ cache = [t \in Topics |-> "unknown"]
  /\ phase = [p \in Panels |-> [i \in TimerIds |-> "free"]]
  /\ due = [p \in Panels |-> [i \in TimerIds |-> 0]]
  /\ inflight = NoMessage /\ online = TRUE /\ stopped = FALSE /\ now = 1

Exists(p) == rules[p] # NoRule
RuleTopics(c) == {c.source} \cup c.conds

-----------------------------------------------------------------------------
(* The subscription tables, as a record so that a teardown and a setup can be *)
(* composed in one step.  Subscribe stores nothing while the broker is absent *)
(* and the engine records the handler all the same.                           *)
Tables == [rules |-> topicRules, handlers |-> topicHandlers, subs |-> subs]
SetTables(b) == topicRules' = b.rules /\ topicHandlers' = b.handlers /\ subs' = b.subs

\* Mutant: a teardown drops the topic for every rule that listens to it.
Left_Nobody(b, leaving, t) == IF \E p \in leaving : t \in RuleTopics(rules[p]) THEN {} ELSE b.rules[t]
Left(b, leaving, t) == b.rules[t] \ {p \in leaving : t \in RuleTopics(rules[p])}
Deserted(b, leaving) == {t \in Topics : b.rules[t] # {} /\ Left(b, leaving, t) = {}}
\* Mutant: a handler is taken from the registry without looking whether it is there.
Teardown_Blind(b, leaving) ==
  [rules    |-> [t \in Topics |-> Left(b, leaving, t)],
   handlers |-> b.handlers \ Deserted(b, leaving),
   subs     |-> [t \in Topics |-> IF t \in Deserted(b, leaving) \cap b.handlers
                                  THEN b.subs[t] - 1 ELSE b.subs[t]]]
Teardown(b, leaving) ==
  [rules    |-> [t \in Topics |-> Left(b, leaving, t)],
   handlers |-> b.handlers \ Deserted(b, leaving),
   subs     |-> [t \in Topics |-> IF t \in Deserted(b, leaving) \cap b.handlers /\ b.subs[t] > 0
                                  THEN b.subs[t] - 1 ELSE b.subs[t]]]
Setup(b, p, c) ==
  [rules    |-> [t \in Topics |-> IF t \in RuleTopics(c) THEN b.rules[t] \cup {p} ELSE b.rules[t]],
   handlers |-> b.handlers \cup RuleTopics(c),
   subs     |-> [t \in Topics |-> IF t \in RuleTopics(c) \ b.handlers /\ online
                                  THEN b.subs[t] + 1 ELSE b.subs[t]]]

-----------------------------------------------------------------------------
(* evaluate, the timer arming that follows it, and tryFireActionLocked; they  *)
(* are only reached for a rule that is enabled and not tripped.               *)
Matches(c, known) ==
  IF c.any /\ c.conds # {} THEN \E t \in c.conds : known[t] = "on"
                           ELSE \A t \in c.conds : known[t] = "on"

\* The times that are kept are in order, so that those of the window are the last.
WindowStart(times, width) ==
  CHOOSE k \in 1 .. Len(times) + 1 : \A i \in 1 .. Len(times) : times[i] > now - width <=> i >= k
InWindow(times, width) == SubSeq(times, WindowStart(times, width), Len(times))

Counted(c, s) == InWindow(Append(s.hits, now), c.window)

Evaluate(c, s, known) ==
  LET matched == Matches(c, known)
      seen == [s EXCEPT !.lastMatched = matched] IN
  CASE c.mode \in {"every", "on_change"} -> seen
    [] c.mode = "count" ->
         IF ~matched THEN seen
         ELSE [seen EXCEPT !.hits = IF Len(Counted(c, s)) >= c.need THEN <<>> ELSE Counted(c, s)]
    [] c.mode = "sustained" ->
         IF ~matched
         THEN [seen EXCEPT !.timer = NoTimer, !.trueSince = Never, !.sustainedFired = FALSE]
         ELSE IF s.trueSince = Never
         THEN [seen EXCEPT !.trueSince = now, !.sustainedFired = FALSE] ELSE seen

\* Whether evaluate returns an action; a sustained rule's comes from its timer.
Fires(c, s, known) ==
  /\ Matches(c, known)
  /\ \/ c.mode = "every"
     \/ c.mode = "on_change" /\ ~s.lastMatched
     \/ c.mode = "count" /\ Len(Counted(c, s)) >= c.need

FreeTimer(p) == CHOOSE i \in TimerIds : phase[p][i] = "free"
Arm(p, c, s) ==
  IF c.mode = "sustained" /\ s.lastMatched /\ s.timer = NoTimer /\ ~s.sustainedFired
  THEN [s EXCEPT !.timer = FreeTimer(p)] ELSE s

Cooling(c, s) == c.cooldown > 0 /\ s.lastFired # Never /\ now - s.lastFired < c.cooldown
\* (The mutant's ceiling is one higher.)
Trips_OneMore(c, s) == ~Cooling(c, s) /\ Len(InWindow(s.fires, Second)) > Ceiling
Trips(c, s) == ~Cooling(c, s) /\ Len(InWindow(s.fires, Second)) >= Ceiling
TryFire(c, s) ==
  LET recent == InWindow(s.fires, Second) IN
  IF Cooling(c, s) THEN s
  ELSE IF Trips(c, s)
  THEN [s EXCEPT !.fires = recent, !.timer = NoTimer]
  ELSE [s EXCEPT !.fires = Append(recent, now), !.lastFired = now]

\* A rule that is switched on looks at the payload cached for its source topic;
\* an action this evaluation produces is discarded.
\* (The mutant forgets to arm the timer of a condition that holds already.)
EvaluateInitial_Unarmed(p, c, s, known) ==
  IF known[c.source] = "unknown" THEN s ELSE Evaluate(c, s, known)
EvaluateInitial(p, c, s, known) ==
  IF known[c.source] = "unknown" THEN s ELSE Arm(p, c, Evaluate(c, s, known))

\* What the handles kept after a step mean for the timers: a handle given up is
\* stopped, which is too late for a timer whose goroutine waits for the lock.
Retime(kept, bodies) ==
  /\ phase' = [p \in Panels |-> [i \in TimerIds |->
       IF i = kept[p].timer /\ i # states[p].timer THEN "running"
       ELSE IF i = states[p].timer /\ i # kept[p].timer /\ phase[p][i] = "running" THEN "free"
       ELSE phase[p][i]]]
  /\ due' = [p \in Panels |-> [i \in TimerIds |->
       IF i = kept[p].timer /\ i # states[p].timer THEN now + bodies[p].hold ELSE due[p][i]]]

\* The bounds on calls and messages; one timer is kept for a message in flight.
Room(p) == Cardinality({i \in TimerIds : phase[p][i] = "free"})
Open == /\ now <= Horizon
        /\ \A p \in Panels : Room(p) > IF inflight = NoMessage THEN 0 ELSE 1

-----------------------------------------------------------------------------
(* The operations of the API.                                                 *)
Idle(p) == [states[p] EXCEPT !.lastMatched = FALSE, !.hits = <<>>, !.trueSince = Never,
                                 !.sustainedFired = FALSE]
\* Mutants: an edit keeps the hits; an edit forgets the publications.
Edited_KeepsHits(p) == [Fresh EXCEPT !.lastFired = states[p].lastFired, !.fires = states[p].fires,
                                     !.hits = states[p].hits]
Edited_Forgets(p) == Fresh
Edited(p) == [Fresh EXCEPT !.lastFired = states[p].lastFired, !.fires = states[p].fires]
Store(p, s, bodies) == states' = [states EXCEPT ![p] = s] /\ Retime([states EXCEPT ![p] = s], bodies)

AddRule(p, c, on) ==
  /\ Open /\ ~stopped
  /\ LET b == IF Exists(p) THEN Teardown(Tables, {p}) ELSE Tables IN
       SetTables(IF on THEN Setup(b, p, c) ELSE b)
  /\ rules' = [rules EXCEPT ![p] = c]
  /\ enabled' = [enabled EXCEPT ![p] = on]
  /\ tripped' = [tripped EXCEPT ![p] = FALSE]
  /\ Store(p, IF on THEN EvaluateInitial(p, c, Edited(p), cache) ELSE Edited(p),
           [rules EXCEPT ![p] = c])
  /\ UNCHANGED <<cache, outside, stopped>>

RemoveRule(p) ==
  /\ Exists(p)
  /\ SetTables(Teardown(Tables, {p}))
  /\ rules' = [rules EXCEPT ![p] = NoRule]
  /\ enabled' = [enabled EXCEPT ![p] = FALSE]
  /\ tripped' = [tripped EXCEPT ![p] = FALSE]
  /\ Store(p, Fresh, rules)
  /\ UNCHANGED <<cache, outside, stopped>>

ClearAllRules ==
  /\ \E p \in Panels : Exists(p)
  /\ SetTables(Teardown(Tables, {p \in Panels : Exists(p)}))
  /\ rules' = [p \in Panels |-> NoRule]
  /\ enabled' = [p \in Panels |-> FALSE]
  /\ tripped' = [p \in Panels |-> FALSE]
  /\ states' = [p \in Panels |-> Fresh]
  /\ Retime([p \in Panels |-> Fresh], rules)
  /\ cache' = [t \in Topics |-> "unknown"]
  /\ UNCHANGED <<outside, stopped>>

DisableRule(p) ==
  /\ Exists(p) /\ enabled[p]
  /\ SetTables(Teardown(Tables, {p}))
  /\ enabled' = [enabled EXCEPT ![p] = FALSE]
  /\ Store(p, [Idle(p) EXCEPT !.timer = NoTimer], rules)
  /\ UNCHANGED <<rules, tripped, cache, outside, stopped>>

\* (The mutant leaves the rule tripped.)
EnableRule_StillTripped(p) ==
  /\ Open /\ Exists(p) /\ ~enabled[p]
  /\ SetTables(Setup(Tables, p, rules[p]))
  /\ enabled' = [enabled EXCEPT ![p] = TRUE]
  /\ Store(p, EvaluateInitial(p, rules[p], Idle(p), cache), rules)
  /\ UNCHANGED <<rules, tripped, cache, outside, stopped>>
EnableRule(p) ==
  /\ Open /\ Exists(p) /\ ~enabled[p]
  /\ SetTables(Setup(Tables, p, rules[p]))
  /\ enabled' = [enabled EXCEPT ![p] = TRUE]
  /\ tripped' = [tripped EXCEPT ![p] = FALSE]
  /\ Store(p, EvaluateInitial(p, rules[p], Idle(p), cache), rules)
  /\ UNCHANGED <<rules, cache, outside, stopped>>

PrimeCache(t, v) ==
  /\ Open /\ ~stopped
  /\ cache' = [cache EXCEPT ![t] = v]
  /\ UNCHANGED <<rules, enabled, states, tripped, tables, timers, outside, stopped>>

Stop ==
  /\ ~stopped
  /\ stopped' = TRUE
  /\ SetTables([rules |-> [t \in Topics |-> {}], handlers |-> {},
                subs |-> [t \in Topics |-> IF t \in topicHandlers /\ subs[t] > 0
                                           THEN subs[t] - 1 ELSE subs[t]]])
  /\ states' = [p \in Panels |-> [states[p] EXCEPT !.timer = NoTimer]]
  /\ Retime([p \in Panels |-> [states[p] EXCEPT !.timer = NoTimer]], rules)
  /\ cache' = [t \in Topics |-> "unknown"]
  /\ UNCHANGED <<rules, enabled, tripped, outside>>

-----------------------------------------------------------------------------
(* Messages, timers, time and the broker.                                     *)
Dispatch(t, v) ==
  /\ Open /\ now < Horizon /\ inflight = NoMessage /\ subs[t] > 0
  /\ inflight' = [topic |-> t, payload |-> v]
  /\ UNCHANGED <<rules, enabled, states, tripped, tables, cache, timers, online, stopped, now>>

Active(p) == Exists(p) /\ enabled[p] /\ ~tripped[p]

React(p, known) ==
  LET c == rules[p]
      s == Arm(p, c, Evaluate(c, states[p], known)) IN
  IF Fires(c, states[p], known) THEN TryFire(c, s) ELSE s

HandleMessage ==
  /\ inflight # NoMessage
  /\ inflight' = NoMessage
  /\ IF stopped THEN UNCHANGED <<states, enabled, tripped, cache, timers>>
     ELSE LET known == [cache EXCEPT ![inflight.topic] = inflight.payload]
              heard == {p \in topicRules[inflight.topic] : Active(p)}
              after == [p \in Panels |-> IF p \in heard THEN React(p, known) ELSE states[p]]
              trips == {p \in heard : /\ Fires(rules[p], states[p], known)
                                      /\ Trips(rules[p], states[p])} IN
          /\ cache' = known
          /\ states' = after
          /\ enabled' = [p \in Panels |-> enabled[p] /\ p \notin trips]
          /\ tripped' = [p \in Panels |-> tripped[p] \/ p \in trips]
          /\ Retime(after, rules)
  /\ UNCHANGED <<rules, tables, online, stopped, now>>

Expire(p, i) ==
  /\ phase[p][i] = "running" /\ due[p][i] <= now
  /\ phase' = [phase EXCEPT ![p] = [phase[p] EXCEPT ![i] = "expired"]]
  /\ UNCHANGED <<rules, enabled, states, tripped, tables, cache, due, outside, stopped>>

\* The callback knows its panel and not its timer: any callback of a panel whose
\* episode has begun and has not fired acts, and drops the handle.
\* (The mutant does not look whether the episode has fired.)
CallbackApplies_Again(p) ==
  ~stopped /\ Active(p) /\ rules[p].mode = "sustained" /\ states[p].trueSince # Never
CallbackApplies(p) ==
  /\ ~stopped /\ Active(p) /\ rules[p].mode = "sustained"
  /\ ~states[p].sustainedFired /\ states[p].trueSince # Never
\* Mutant: the callback leaves the handle.
Sustained_KeepsHandle(p) == TryFire(rules[p], [states[p] EXCEPT !.sustainedFired = TRUE])
Sustained(p) == TryFire(rules[p], [states[p] EXCEPT !.sustainedFired = TRUE, !.timer = NoTimer])
OnSustainedTimer(p, i) ==
  /\ phase[p][i] = "expired"
  /\ phase' = [phase EXCEPT ![p] = [phase[p] EXCEPT ![i] = "free"]]
  /\ IF CallbackApplies(p)
     THEN /\ states' = [states EXCEPT ![p] = Sustained(p)]
          /\ enabled' = [enabled EXCEPT ![p] = ~Trips(rules[p], states[p])]
          /\ tripped' = [tripped EXCEPT ![p] = Trips(rules[p], states[p])]
     ELSE UNCHANGED <<states, enabled, tripped>>
  /\ UNCHANGED <<rules, tables, cache, due, outside, stopped>>

Tick == /\ now < MaxTime /\ (now < Horizon \/ inflight = NoMessage) /\ now' = now + 1
        /\ UNCHANGED <<rules, enabled, states, tripped, tables, cache, timers, inflight, online, stopped>>

BrokerChanges(up) ==
  /\ BrokerComesAndGoes /\ (up \/ online) /\ now <= Horizon
  /\ online' = up /\ subs' = [t \in Topics |-> 0]
  /\ UNCHANGED <<rules, enabled, states, tripped, topicRules, topicHandlers, cache, timers, inflight,
                 stopped, now>>

Next ==
  \/ \E p \in Panels :
       \/ \E c \in Configs, on \in BOOLEAN : AddRule(p, c, on)
       \/ RemoveRule(p) \/ DisableRule(p) \/ EnableRule(p)
       \/ \E i \in TimerIds : Expire(p, i) \/ OnSustainedTimer(p, i)
  \/ \E t \in Topics, v \in Payloads : PrimeCache(t, v) \/ Dispatch(t, v)
  \/ HandleMessage \/ ClearAllRules \/ Stop \/ Tick
  \/ \E up \in BOOLEAN : BrokerChanges(up)

Spec == Init /\ [][Next]_vars

\* The clock, the runtime's timers, the goroutines they start and the router run.
FairSpec ==
  /\ Spec /\ WF_vars(Tick) /\ WF_vars(HandleMessage)
  /\ \A p \in Panels, i \in TimerIds : WF_vars(Expire(p, i)) /\ WF_vars(OnSustainedTimer(p, i))

-----------------------------------------------------------------------------
(* Properties.                                                                *)

\* A tripped rule is switched off without a teardown and stays in the tables.
Attached(p) == Exists(p) /\ (enabled[p] \/ tripped[p])

\* The engine's tables list a rule under exactly the topics of its present body,
\* while it is enabled or tripped, through every edit, toggle, trip and removal;
\* it holds a handler for the topics that are listed and for no other, and the
\* registry holds at most that one: exactly that one if no broker is ever replaced.
Registered(n, t, handlers) ==
  /\ n <= IF t \in handlers THEN 1 ELSE 0
  /\ ~BrokerComesAndGoes => n = IF t \in handlers THEN 1 ELSE 0
Listening ==
  ~stopped =>
    \A t \in Topics :
      /\ topicRules[t] = {p \in Panels : Attached(p) /\ t \in RuleTopics(rules[p])}
      /\ t \in topicHandlers <=> topicRules[t] # {}
      /\ Registered(subs[t], t, topicHandlers)

\* Only a registered rule is enabled or tripped, and none is both: every way to
\* switch a rule on clears the trip, and every trip switches it off.
Latched == \A p \in Panels : /\ enabled[p] \/ tripped[p] => Exists(p)
                              /\ ~(enabled[p] /\ tripped[p])

Holding(p) == /\ ~stopped /\ Active(p) /\ rules[p].mode = "sustained"
              /\ states[p].lastMatched /\ ~states[p].sustainedFired

\* A sustained rule whose condition holds and that has not fired always has a live
\* timer, due when the condition has held long enough, whatever stale callbacks,
\* edits and toggles came before; a handle never names a timer that is gone.
Armed ==
  \A p \in Panels : LET s == states[p] IN
    /\ Holding(p) => s.timer # NoTimer
    /\ s.timer # NoTimer => /\ phase[p][s.timer] # "free" /\ s.trueSince # Never
                            /\ due[p][s.timer] = s.trueSince + rules[p].hold

\* A count rule waits with fewer hits than it needs, all of them of its window and
\* in order, also after an edit that asked for fewer (evaluate, AddRule).
CountWaits ==
  \A p \in Panels : LET h == states[p].hits IN
    /\ h # <<>> => /\ Exists(p) /\ rules[p].mode = "count" /\ Len(h) < rules[p].need
                   /\ h[Len(h)] - h[1] < rules[p].window
    /\ \A i \in 1 .. Len(h) - 1 : h[i] <= h[i + 1]

\* A step in which rule p publishes.
Fired(p) == /\ Exists(p) /\ rules'[p] # NoRule
            /\ states'[p].fires = Append(InWindow(states[p].fires, Second), now)

\* A sustained rule publishes at most once while its condition goes on holding: its
\* last publication is never inside the episode, whichever timers are left over.
OncePerEpisode ==
  [][\A p \in Panels : Fired(p) /\ rules[p].mode = "sustained"
       => states[p].lastFired <= states[p].trueSince]_vars

\* No rule publishes within its cool-down, and no edit, toggle or trip makes the
\* engine forget when the rule last published.
CooldownKept ==
  [][\A p \in Panels : Exists(p) /\ rules'[p] # NoRule
       => /\ states'[p].lastFired >= states[p].lastFired
          /\ Fired(p) /\ states[p].lastFired # Never
               => now - states[p].lastFired >= rules[p].cooldown]_vars

\* A rule publishes at most Ceiling times in any second of its life: no edit, toggle
\* or trip makes the engine forget a publication of the last second.
CeilingHolds ==
  [][\A p \in Panels : Exists(p) /\ rules'[p] # NoRule
       => /\ Len(InWindow(states'[p].fires, Second)) <= Ceiling
          /\ IsPrefix(InWindow(states[p].fires, Second), InWindow(states'[p].fires, Second))]_vars

\* A sustained rule whose condition goes on holding fires, or is edited, switched
\* off or removed: no sequence of calls leaves it waiting without a timer.
HoldingFires == \A p \in Panels : Holding(p) ~> ~Holding(p)

\* "Fires once conditions hold continuously for target duration" (LogicPanel): a
\* sustained rule publishes only after its condition has held that long.
SustainedHeld ==
  [][\A p \in Panels : Fired(p) /\ rules[p].mode = "sustained"
       => now - states[p].trueSince >= rules[p].hold]_vars
=============================================================================
