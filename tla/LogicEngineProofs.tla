-------------------------- MODULE LogicEngineProofs --------------------------
(* The automation engine's tables, timers and publications, for any panels,   *)
(* topics, rules, timers and clock bounds: first the tables (IInv), then what  *)
(* the states of the rules say of the past (Timing), on top of it.             *)
EXTENDS LogicEngine, FiniteSetTheorems, WellFoundedInduction, TLAPS

Booked ==
  /\ rules \in [Panels -> Configs \cup {NoRule}]
  /\ enabled \in [Panels -> BOOLEAN] /\ tripped \in [Panels -> BOOLEAN]
  /\ topicRules \in [Topics -> SUBSET Panels]
  /\ topicHandlers \subseteq Topics /\ subs \in [Topics -> Nat]
  /\ stopped \in BOOLEAN
  /\ ~BrokerComesAndGoes => online
IInv == Booked /\ Latched /\ Listening

\* Tables b list exactly the panels of listed, with one handler a listed topic.
Typed(b) == /\ b.rules \in [Topics -> SUBSET Panels]
            /\ b.handlers \subseteq Topics /\ b.subs \in [Topics -> Nat]
Fits(b, listed) ==
  \A t \in Topics :
    /\ b.rules[t] = listed[t]
    /\ t \in b.handlers <=> listed[t] # {}
    /\ Registered(b.subs[t], t, b.handlers)
Listed == [t \in Topics |-> {p \in Panels : Attached(p) /\ t \in RuleTopics(rules[p])}]
Without(listed, leaving) ==
  [t \in Topics |-> listed[t] \ {p \in leaving : t \in RuleTopics(rules[p])}]
Plus(listed, p, c) == [t \in Topics |-> IF t \in RuleTopics(c) THEN listed[t] \cup {p} ELSE listed[t]]

\* A rule body names topics only.
LEMMA BodyTopics == ASSUME NEW c \in Configs PROVE RuleTopics(c) \subseteq Topics
  BY ConfigsAssumption DEF RuleTopics, Config

\* A body is not the mark of an absent rule.
LEMMA BodyIsRule == ASSUME NEW c \in Configs PROVE c # NoRule
<1>1. c.mode \in Modes
  BY ConfigsAssumption DEF Config
<1>2. NoRule.mode \notin Modes
  BY DEF NoRule, Modes
<1> QED BY <1>1, <1>2

\* A teardown keeps the tables well typed.
LEMMA TeardownTyped ==
  ASSUME NEW b, Typed(b), NEW leaving
  PROVE  Typed(Teardown(b, leaving))
<1>1. \A t \in Topics : Left(b, leaving, t) \in SUBSET Panels
  BY DEF Typed, Left
<1>2. \A t \in Topics : (IF t \in Deserted(b, leaving) \cap b.handlers /\ b.subs[t] > 0
                         THEN b.subs[t] - 1 ELSE b.subs[t]) \in Nat
  BY DEF Typed
<1> QED BY <1>1, <1>2 DEF Typed, Teardown

\* A teardown takes the leaving panels off their topics and off nothing else, and
\* releases exactly the handlers that are left without a listener.
LEMMA TeardownFits ==
  ASSUME NEW b, Typed(b), NEW listed, Fits(b, listed), NEW leaving
  PROVE  Fits(Teardown(b, leaving), Without(listed, leaving))
<1> DEFINE a == Teardown(b, leaving)
           w == Without(listed, leaving)
<1> SUFFICES ASSUME NEW t \in Topics
             PROVE  /\ a.rules[t] = w[t]
                    /\ t \in a.handlers <=> w[t] # {}
                    /\ Registered(a.subs[t], t, a.handlers)
  BY DEF Fits
<1>1. /\ b.rules[t] = listed[t]
      /\ t \in b.handlers <=> listed[t] # {}
      /\ Registered(b.subs[t], t, b.handlers)
      /\ b.subs[t] \in Nat
  BY DEF Fits, Typed
<1>2. /\ a.rules[t] = Left(b, leaving, t)
      /\ a.handlers = b.handlers \ Deserted(b, leaving)
      /\ a.subs[t] = IF t \in Deserted(b, leaving) \cap b.handlers /\ b.subs[t] > 0
                     THEN b.subs[t] - 1 ELSE b.subs[t]
  BY DEF Teardown
<1>3. w[t] = Left(b, leaving, t)
  BY <1>1 DEF Without, Left
<1>4. t \in Deserted(b, leaving) <=> b.rules[t] # {} /\ Left(b, leaving, t) = {}
  BY DEF Deserted
<1>5. b.rules[t] = {} => Left(b, leaving, t) = {}
  BY DEF Left
<1>6. t \in a.handlers <=> w[t] # {}
  BY <1>1, <1>2, <1>3, <1>4, <1>5
<1>7. Registered(a.subs[t], t, a.handlers)
  <2> HIDE DEF a, w
  <2> QED BY <1>1, <1>2 DEF Registered
<1> QED BY <1>2, <1>3, <1>6, <1>7

\* A setup keeps the tables well typed.
LEMMA SetupTyped ==
  ASSUME NEW b, Typed(b), NEW p \in Panels, NEW c \in Configs
  PROVE  Typed(Setup(b, p, c))
<1>1. \A t \in Topics : (IF t \in RuleTopics(c) \ b.handlers /\ online
                         THEN b.subs[t] + 1 ELSE b.subs[t]) \in Nat
  BY DEF Typed
<1>2. \A t \in Topics : (IF t \in RuleTopics(c) THEN b.rules[t] \cup {p} ELSE b.rules[t])
                          \in SUBSET Panels
  BY DEF Typed
<1> QED BY <1>1, <1>2, BodyTopics DEF Typed, Setup

\* A setup lists the panel under the topics of its body, with a handler for each.
LEMMA SetupFits ==
  ASSUME NEW b, Typed(b), NEW listed, Fits(b, listed), NEW p \in Panels, NEW c \in Configs,
         ~BrokerComesAndGoes => online
  PROVE  Fits(Setup(b, p, c), Plus(listed, p, c))
<1> SUFFICES ASSUME NEW t \in Topics
             PROVE  /\ Setup(b, p, c).rules[t] = Plus(listed, p, c)[t]
                    /\ t \in Setup(b, p, c).handlers <=> Plus(listed, p, c)[t] # {}
                    /\ Registered(Setup(b, p, c).subs[t], t, Setup(b, p, c).handlers)
  BY DEF Fits
<1> DEFINE d == Setup(b, p, c)
<1>1. /\ b.rules[t] = listed[t]
      /\ t \in b.handlers <=> listed[t] # {}
      /\ Registered(b.subs[t], t, b.handlers) /\ b.subs[t] \in Nat
  BY DEF Fits, Typed
<1>2. /\ d.rules[t] = IF t \in RuleTopics(c) THEN b.rules[t] \cup {p} ELSE b.rules[t]
      /\ d.handlers = b.handlers \cup RuleTopics(c)
      /\ d.subs[t] = IF t \in RuleTopics(c) \ b.handlers /\ online
                      THEN b.subs[t] + 1 ELSE b.subs[t]
  BY DEF Setup
<1> HIDE DEF d
<1>3. d.rules[t] = Plus(listed, p, c)[t] /\ (t \in d.handlers <=> Plus(listed, p, c)[t] # {})
  BY <1>1, <1>2 DEF Plus
<1>4. Registered(d.subs[t], t, d.handlers)
  <2>1. b.subs[t] <= (IF t \in b.handlers THEN 1 ELSE 0)
    BY <1>1 DEF Registered
  <2>2. ~BrokerComesAndGoes => online /\ b.subs[t] = IF t \in b.handlers THEN 1 ELSE 0
    BY <1>1 DEF Registered
  <2>3. CASE t \in RuleTopics(c) \ b.handlers
    BY <2>1, <2>2, <2>3, <1>1, <1>2 DEF Registered
  <2>4. CASE t \notin RuleTopics(c) \ b.handlers
    BY <2>1, <2>2, <2>4, <1>1, <1>2 DEF Registered
  <2> QED BY <2>3, <2>4
<1> QED BY <1>3, <1>4 DEF d

\* The invariant says that the tables fit the rules.
LEMMA ListeningFits ==
  /\ Listening <=> (~stopped => Fits(Tables, Listed))
  /\ Booked => Typed(Tables)
  BY DEF Listening, Fits, Tables, Listed, Booked, Typed, Registered

\* A step that installs tables which fit the rules it leaves keeps Listening.
LEMMA Applied ==
  ASSUME NEW STATE b, Typed(b), SetTables(b),
         NEW STATE listed, ~stopped' => Fits(b, listed), listed = Listed'
  PROVE  /\ Listening'
         /\ topicRules' \in [Topics -> SUBSET Panels]
         /\ topicHandlers' \subseteq Topics /\ subs' \in [Topics -> Nat]
<1>1. ~stopped' => Fits(Tables', Listed')
  BY DEF SetTables, Tables, Fits
<1>2. Listening' <=> (~stopped' => Fits(Tables', Listed'))
  BY DEF Listening, Fits, Tables, Listed
<1> QED BY <1>1, <1>2 DEF Typed, SetTables

LEMMA AddRuleKeeps ==
  ASSUME IInv, NEW p \in Panels, NEW c \in Configs, NEW on \in BOOLEAN, AddRule(p, c, on)
  PROVE  IInv'
<1> DEFINE b == IF Exists(p) THEN Teardown(Tables, {p}) ELSE Tables
           d == IF on THEN Setup(b, p, c) ELSE b
           w == Without(Listed, {p})
           v == IF on THEN Plus(w, p, c) ELSE w
<1>1. /\ SetTables(d) /\ ~stopped /\ UNCHANGED <<stopped, online>>
      /\ rules' = [rules EXCEPT ![p] = c] /\ enabled' = [enabled EXCEPT ![p] = on]
      /\ tripped' = [tripped EXCEPT ![p] = FALSE]
  BY DEF AddRule, outside
<1>2. Booked /\ Latched /\ Typed(Tables) /\ Fits(Tables, Listed) /\ ~(BrokerComesAndGoes = FALSE /\ ~online)
  BY <1>1, ListeningFits DEF IInv, Booked
<1>3. Typed(b) /\ Fits(b, w)
  <2>1. CASE Exists(p)
    BY <2>1, <1>2, TeardownTyped, TeardownFits
  <2>2. CASE ~Exists(p)
    <3>1. ~Attached(p)
      BY <2>2 DEF Attached
    <3>2. w = Listed
      BY <3>1 DEF Without, Listed
    <3> QED BY <2>2, <3>2, <1>2
  <2> QED BY <2>1, <2>2
<1>4. Typed(d) /\ Fits(d, v)
  <2> HIDE DEF b, w
  <2>1. CASE on
    BY <2>1, <1>3, <1>2, SetupTyped, SetupFits DEF Booked
  <2>2. CASE ~on
    BY <2>2, <1>3
  <2> QED BY <2>1, <2>2
<1>5. v = Listed'
  <2>1. \A q \in Panels : q # p => (Attached(q)' <=> Attached(q)) /\ rules'[q] = rules[q]
    BY <1>1, <1>2 DEF Booked, Attached, Exists
  <2>2. (Attached(p)' <=> on) /\ rules'[p] = c
    BY <1>1, <1>2, BodyIsRule DEF Booked, Attached, Exists
  <2>3. ASSUME NEW t \in Topics
        PROVE  {q \in Panels : Attached(q)' /\ t \in RuleTopics(rules'[q])}
               = IF on /\ t \in RuleTopics(c) THEN w[t] \cup {p} ELSE w[t]
    <3>1. w[t] = {q \in Panels : q # p /\ Attached(q) /\ t \in RuleTopics(rules[q])}
      BY DEF Without, Listed
    <3> HIDE DEF w
    <3> QED BY <2>1, <2>2, <3>1
  <2>4. Listed' = [t \in Topics |-> {q \in Panels : Attached(q)' /\ t \in RuleTopics(rules'[q])}]
    BY DEF Listed, RuleTopics
  <2>5. v = [t \in Topics |-> IF on /\ t \in RuleTopics(c) THEN w[t] \cup {p} ELSE w[t]]
    BY DEF Plus, Without
  <2> QED BY <2>3, <2>4, <2>5
<1>6. /\ Listening' /\ topicRules' \in [Topics -> SUBSET Panels]
      /\ topicHandlers' \subseteq Topics /\ subs' \in [Topics -> Nat]
  <2> HIDE DEF d, v
  <2> QED BY <1>1, <1>4, <1>5, Applied
<1>7. Booked'
  BY <1>1, <1>2, <1>6 DEF Booked
<1>8. Latched'
  BY <1>1, <1>2, BodyIsRule DEF Latched, Booked, Exists
<1> QED BY <1>6, <1>7, <1>8 DEF IInv

\* Panels that leave and are no longer attached are off the list.
LEMMA LeavingList ==
  ASSUME NEW leaving, leaving \subseteq Panels,
         \A p \in leaving : ~Attached(p)',
         \A p \in Panels \ leaving : (Attached(p)' <=> Attached(p)) /\ rules'[p] = rules[p]
  PROVE  Without(Listed, leaving) = Listed'
<1>1. ASSUME NEW t \in Topics
      PROVE  {p \in Panels : Attached(p)' /\ t \in RuleTopics(rules'[p])}
             = Listed[t] \ {p \in leaving : t \in RuleTopics(rules[p])}
  <2>1. Listed[t] = {p \in Panels : Attached(p) /\ t \in RuleTopics(rules[p])}
    BY DEF Listed
  <2> QED BY <2>1
<1>2. Listed' = [t \in Topics |-> {p \in Panels : Attached(p)' /\ t \in RuleTopics(rules'[p])}]
  BY DEF Listed, RuleTopics
<1> QED BY <1>1, <1>2 DEF Without

\* A teardown of panels that are then detached keeps Listening.
LEMMA TeardownStep ==
  ASSUME IInv, NEW leaving, leaving \subseteq Panels, SetTables(Teardown(Tables, leaving)),
         UNCHANGED stopped,
         \A p \in leaving : ~Attached(p)',
         \A p \in Panels \ leaving : (Attached(p)' <=> Attached(p)) /\ rules'[p] = rules[p]
  PROVE  /\ Listening' /\ topicRules' \in [Topics -> SUBSET Panels]
         /\ topicHandlers' \subseteq Topics /\ subs' \in [Topics -> Nat]
<1> DEFINE b == Teardown(Tables, leaving)
           w == Without(Listed, leaving)
<1>1. Typed(Tables) /\ (~stopped' => Fits(Tables, Listed))
  BY ListeningFits DEF IInv
<1>2. Typed(b) /\ (~stopped' => Fits(b, w))
  BY <1>1, TeardownTyped, TeardownFits
<1>3. w = Listed'
  BY LeavingList
<1> HIDE DEF b, w
<1>4. SetTables(b)
  BY DEF b
<1> QED BY <1>2, <1>3, <1>4, Applied

LEMMA RemoveRuleKeeps ==
  ASSUME IInv, NEW p \in Panels, RemoveRule(p) PROVE IInv'
<1>1. /\ SetTables(Teardown(Tables, {p})) /\ UNCHANGED <<stopped, online>>
      /\ rules' = [rules EXCEPT ![p] = NoRule] /\ enabled' = [enabled EXCEPT ![p] = FALSE]
      /\ tripped' = [tripped EXCEPT ![p] = FALSE]
  BY DEF RemoveRule, outside
<1>2. Booked /\ Latched
  BY DEF IInv
<1>3. /\ ~Attached(p)'
      /\ \A q \in Panels \ {p} : (Attached(q)' <=> Attached(q)) /\ rules'[q] = rules[q]
  BY <1>1, <1>2 DEF Booked, Attached, Exists
<1>4. /\ Listening' /\ topicRules' \in [Topics -> SUBSET Panels]
      /\ topicHandlers' \subseteq Topics /\ subs' \in [Topics -> Nat]
  BY <1>1, <1>3, TeardownStep
<1>5. Booked' /\ Latched'
  BY <1>1, <1>2, <1>4 DEF Booked, Latched, Exists
<1> QED BY <1>4, <1>5 DEF IInv

LEMMA DisableRuleKeeps ==
  ASSUME IInv, NEW p \in Panels, DisableRule(p) PROVE IInv'
<1>1. /\ SetTables(Teardown(Tables, {p})) /\ UNCHANGED <<stopped, online, rules, tripped>>
      /\ enabled' = [enabled EXCEPT ![p] = FALSE] /\ enabled[p]
  BY DEF DisableRule, outside
<1>2. Booked /\ Latched
  BY DEF IInv
<1>3. /\ ~Attached(p)'
      /\ \A q \in Panels \ {p} : (Attached(q)' <=> Attached(q)) /\ rules'[q] = rules[q]
  BY <1>1, <1>2 DEF Booked, Latched, Attached, Exists
<1>4. /\ Listening' /\ topicRules' \in [Topics -> SUBSET Panels]
      /\ topicHandlers' \subseteq Topics /\ subs' \in [Topics -> Nat]
  BY <1>1, <1>3, TeardownStep
<1>5. Booked' /\ Latched'
  BY <1>1, <1>2, <1>4 DEF Booked, Latched, Exists
<1> QED BY <1>4, <1>5 DEF IInv

LEMMA ClearAllRulesKeeps ==
  ASSUME IInv, ClearAllRules PROVE IInv'
<1> DEFINE leaving == {p \in Panels : Exists(p)}
<1>1. /\ SetTables(Teardown(Tables, leaving)) /\ UNCHANGED <<stopped, online>>
      /\ rules' = [p \in Panels |-> NoRule] /\ enabled' = [p \in Panels |-> FALSE]
      /\ tripped' = [p \in Panels |-> FALSE]
  BY DEF ClearAllRules, outside
<1>2. Booked /\ Latched
  BY DEF IInv
<1>3. /\ \A p \in leaving : ~Attached(p)'
      /\ \A q \in Panels \ leaving : (Attached(q)' <=> Attached(q)) /\ rules'[q] = rules[q]
  BY <1>1 DEF Attached, Exists
<1>4. /\ Listening' /\ topicRules' \in [Topics -> SUBSET Panels]
      /\ topicHandlers' \subseteq Topics /\ subs' \in [Topics -> Nat]
  BY <1>1, <1>3, TeardownStep
<1>5. Booked' /\ Latched'
  BY <1>1, <1>2, <1>4 DEF Booked, Latched, Exists
<1> QED BY <1>4, <1>5 DEF IInv

LEMMA EnableRuleKeeps ==
  ASSUME IInv, NEW p \in Panels, EnableRule(p) PROVE IInv'
<1> DEFINE b == Setup(Tables, p, rules[p])
           v == Plus(Listed, p, rules[p])
<1>1. /\ SetTables(b) /\ UNCHANGED <<stopped, online, rules>> /\ Exists(p)
      /\ enabled' = [enabled EXCEPT ![p] = TRUE] /\ tripped' = [tripped EXCEPT ![p] = FALSE]
  BY DEF EnableRule, outside
<1>2. Booked /\ Latched /\ Typed(Tables) /\ (~stopped' => Fits(Tables, Listed))
  BY <1>1, ListeningFits DEF IInv
<1>3. rules[p] \in Configs
  BY <1>1, <1>2 DEF Booked, Exists
<1>4. Typed(b) /\ (~stopped' => Fits(b, v))
  BY <1>2, <1>3, SetupTyped, SetupFits DEF Booked
<1>5. v = Listed'
  <2>1. \A q \in Panels : (Attached(q)' <=> Attached(q) \/ q = p)
    BY <1>1, <1>2 DEF Booked, Attached, Exists
  <2>2. ASSUME NEW t \in Topics
        PROVE  {q \in Panels : Attached(q)' /\ t \in RuleTopics(rules[q])}
               = IF t \in RuleTopics(rules[p]) THEN Listed[t] \cup {p} ELSE Listed[t]
    <3>1. Listed[t] = {q \in Panels : Attached(q) /\ t \in RuleTopics(rules[q])}
      BY DEF Listed
    <3> QED BY <2>1, <3>1
  <2>3. Listed' = [t \in Topics |-> {q \in Panels : Attached(q)' /\ t \in RuleTopics(rules[q])}]
    BY <1>1 DEF Listed, RuleTopics
  <2> QED BY <2>2, <2>3 DEF Plus
<1>6. /\ Listening' /\ topicRules' \in [Topics -> SUBSET Panels]
      /\ topicHandlers' \subseteq Topics /\ subs' \in [Topics -> Nat]
  <2> HIDE DEF b, v
  <2> QED BY <1>1, <1>4, <1>5, Applied
<1>7. Booked' /\ Latched'
  BY <1>1, <1>2, <1>6 DEF Booked, Latched, Exists
<1> QED BY <1>6, <1>7 DEF IInv

LEMMA StopKeeps ==
  ASSUME IInv, Stop PROVE IInv'
<1>1. /\ stopped' /\ UNCHANGED <<rules, enabled, tripped, online>>
      /\ topicRules' = [t \in Topics |-> {}] /\ topicHandlers' = {}
      /\ subs' = [t \in Topics |-> IF t \in topicHandlers /\ subs[t] > 0
                                   THEN subs[t] - 1 ELSE subs[t]]
  BY DEF Stop, SetTables, outside
<1>2. subs' \in [Topics -> Nat]
  BY <1>1 DEF IInv, Booked
<1>3. stopped' \in BOOLEAN
  BY DEF Stop
<1> QED BY <1>1, <1>2, <1>3 DEF IInv, Booked, Latched, Listening, Exists

\* A trip leaves the rule attached, so the tables need not move.
LEMMA TripKeeps ==
  ASSUME IInv, UNCHANGED <<rules, tables, stopped, online>>,
         enabled' \in [Panels -> BOOLEAN], tripped' \in [Panels -> BOOLEAN],
         \A p \in Panels : \/ enabled'[p] = enabled[p] /\ tripped'[p] = tripped[p]
                           \/ enabled[p] /\ Exists(p) /\ ~enabled'[p] /\ tripped'[p]
  PROVE  IInv'
<1>1. Booked /\ Latched
  BY DEF IInv
<1>2. \A p \in Panels : Attached(p)' <=> Attached(p)
  BY <1>1 DEF Attached, Exists, Booked, Latched
<1>3. Listening'
  <2>1. ASSUME NEW t \in Topics
        PROVE  {p \in Panels : Attached(p)' /\ t \in RuleTopics(rules'[p])}
               = {p \in Panels : Attached(p) /\ t \in RuleTopics(rules[p])}
    BY <1>2
  <2> QED BY <2>1 DEF IInv, Listening, tables
<1>4. Booked' /\ Latched'
  BY <1>1 DEF Booked, Latched, Exists, tables
<1> QED BY <1>3, <1>4 DEF IInv

LEMMA HandleMessageKeeps ==
  ASSUME IInv, HandleMessage PROVE IInv'
<1>1. UNCHANGED <<rules, tables, stopped, online>> /\ Booked
  BY DEF HandleMessage, IInv
<1>2. CASE stopped
  <2>1. UNCHANGED <<enabled, tripped>>
    BY <1>2 DEF HandleMessage
  <2> QED BY <1>1, <2>1, TripKeeps DEF Booked
<1>3. CASE ~stopped
  <2>1. PICK trips : /\ \A p \in trips : Active(p)
                     /\ enabled' = [p \in Panels |-> enabled[p] /\ p \notin trips]
                     /\ tripped' = [p \in Panels |-> tripped[p] \/ p \in trips]
    BY <1>3 DEF HandleMessage
  <2>2. /\ enabled' \in [Panels -> BOOLEAN] /\ tripped' \in [Panels -> BOOLEAN]
    BY <2>1
  <2>3. \A p \in Panels : \/ enabled'[p] = enabled[p] /\ tripped'[p] = tripped[p]
                          \/ enabled[p] /\ Exists(p) /\ ~enabled'[p] /\ tripped'[p]
    BY <1>1, <2>1 DEF Active, Booked
  <2> QED BY <1>1, <2>2, <2>3, TripKeeps
<1> QED BY <1>2, <1>3

LEMMA OnSustainedTimerKeeps ==
  ASSUME IInv, NEW p \in Panels, NEW i \in TimerIds, OnSustainedTimer(p, i) PROVE IInv'
<1>1. UNCHANGED <<rules, tables, stopped, online>> /\ Booked
  BY DEF OnSustainedTimer, IInv, outside
<1>2. CASE ~CallbackApplies(p)
  <2>1. UNCHANGED <<enabled, tripped>>
    BY <1>2 DEF OnSustainedTimer
  <2> QED BY <1>1, <2>1, TripKeeps DEF Booked
<1>3. CASE CallbackApplies(p)
  <2>1. PICK trip \in BOOLEAN : /\ enabled' = [enabled EXCEPT ![p] = ~trip]
                                /\ tripped' = [tripped EXCEPT ![p] = trip]
    BY <1>3 DEF OnSustainedTimer, Trips, Cooling
  <2>2. enabled[p] /\ ~tripped[p] /\ Exists(p)
    BY <1>3 DEF CallbackApplies, Active
  <2>3. /\ enabled' \in [Panels -> BOOLEAN] /\ tripped' \in [Panels -> BOOLEAN]
    BY <1>1, <2>1 DEF Booked
  <2>4. \A q \in Panels : \/ enabled'[q] = enabled[q] /\ tripped'[q] = tripped[q]
                          \/ enabled[q] /\ Exists(q) /\ ~enabled'[q] /\ tripped'[q]
    BY <1>1, <2>1, <2>2 DEF Booked
  <2> QED BY <1>1, <2>3, <2>4, TripKeeps
<1> QED BY <1>2, <1>3

LEMMA BrokerChangesKeeps ==
  ASSUME IInv, NEW up \in BOOLEAN, BrokerChanges(up) PROVE IInv'
<1>1. /\ BrokerComesAndGoes /\ subs' = [t \in Topics |-> 0]
      /\ UNCHANGED <<rules, enabled, tripped, topicRules, topicHandlers, stopped>>
  BY DEF BrokerChanges
<1> QED BY <1>1 DEF IInv, Booked, Latched, Listening, Registered, Attached, Exists

\* The invariant holds at the start and every step keeps it.
LEMMA Initially == Init => IInv
<1> SUFFICES ASSUME Init PROVE IInv
  OBVIOUS
<1>1. Booked /\ Latched
  BY DEF Init, Booked, Latched, Exists
<1>2. \A p \in Panels : ~Attached(p)
  BY DEF Init, Attached
<1>3. \A t \in Topics : topicRules[t] = {} /\ t \notin topicHandlers
                          /\ Registered(subs[t], t, topicHandlers)
  BY DEF Init, Registered
<1> QED BY <1>1, <1>2, <1>3 DEF IInv, Listening

LEMMA Invariance == IInv /\ [Next]_vars => IInv'
<1> SUFFICES ASSUME IInv, [Next]_vars PROVE IInv'
  OBVIOUS
<1>1. ASSUME UNCHANGED <<rules, enabled, tripped, tables, stopped, online>> PROVE IInv'
  BY <1>1, TripKeeps DEF IInv, Booked
<1>2. ASSUME NEW p \in Panels, NEW c \in Configs, NEW on \in BOOLEAN, AddRule(p, c, on) PROVE IInv'
  BY <1>2, AddRuleKeeps
<1>3. ASSUME NEW p \in Panels, RemoveRule(p) \/ DisableRule(p) \/ EnableRule(p) PROVE IInv'
  BY <1>3, RemoveRuleKeeps, DisableRuleKeeps, EnableRuleKeeps
<1>4. ASSUME NEW p \in Panels, NEW i \in TimerIds, OnSustainedTimer(p, i) PROVE IInv'
  BY <1>4, OnSustainedTimerKeeps
<1>5. ASSUME NEW p \in Panels, NEW i \in TimerIds, Expire(p, i) PROVE IInv'
  BY <1>5, <1>1 DEF Expire, outside
<1>6. ASSUME NEW t \in Topics, NEW v \in Payloads, PrimeCache(t, v) \/ Dispatch(t, v) PROVE IInv'
  BY <1>6, <1>1 DEF PrimeCache, Dispatch, outside
<1>7. ASSUME Tick PROVE IInv'
  BY <1>7, <1>1 DEF Tick
<1>8. ASSUME UNCHANGED vars PROVE IInv'
  BY <1>8, <1>1 DEF vars, outside
<1>9. ASSUME NEW up \in BOOLEAN, BrokerChanges(up) PROVE IInv'
  BY <1>9, BrokerChangesKeeps
<1> QED
  BY <1>2, <1>3, <1>4, <1>5, <1>6, <1>7, <1>8, <1>9, HandleMessageKeeps, ClearAllRulesKeeps,
     StopKeeps DEF Next

\* For any panels, topics and rules, through any edits, toggles, trips, removals and
\* changes of the broker: the engine listens to exactly the topics of the rules that
\* are enabled or tripped (setupRuleSubscriptionsLocked, teardownRuleLocked).
THEOREM ListensToItsRules == Spec => []Listening
<1>1. IInv => Listening
  BY DEF IInv
<1> QED BY Initially, Invariance, <1>1, PTL DEF Spec

\* A rule is never enabled and tripped at once, and an absent one is neither
\* (ToggleRule, AddRule, tryFireActionLocked).
THEOREM TripsLatch == Spec => []Latched
<1>1. IInv => Latched
  BY DEF IInv
<1> QED BY Initially, Invariance, <1>1, PTL DEF Spec

-----------------------------------------------------------------------------
(* Lists of past times: the part of the window is the end of the list.        *)
Ordered(times) == \A i, j \in 1 .. Len(times) : i <= j => times[i] <= times[j]
Past(times) ==
  times \in Seq(Times) /\ Ordered(times) /\ \A i \in 1 .. Len(times) : times[i] <= now

\* A set of numbers that is not empty has a least one.
LEMMA LeastNumber ==
  ASSUME NEW S, S \subseteq Nat, S # {}
  PROVE  \E n \in S : \A m \in S : n <= m
<1> DEFINE R == {p \in Nat \X Nat : p[1] < p[2]}
<1>1. IsWellFoundedOn(R, Nat)
  BY NatLessThanWellFounded DEF OpToRel
<1>2. PICK n \in S : \A m \in S : ~(<<m, n>> \in R)
  <2> HIDE DEF R
  <2> QED BY <1>1, WFMin
<1>3. ASSUME NEW m \in S PROVE n <= m
  <2>1. m \in Nat /\ n \in Nat
    OBVIOUS
  <2>2. m < n => <<m, n>> \in R
    BY <2>1
  <2> HIDE DEF R
  <2> QED BY <1>2, <2>1, <2>2
<1> QED BY <1>3

\* In a list that is in order, the times of the window begin somewhere.
LEMMA WindowStarts ==
  ASSUME NEW times \in Seq(Times), Ordered(times), NEW width \in Nat, now \in Nat
  PROVE  /\ WindowStart(times, width) \in 1 .. Len(times) + 1
         /\ \A i \in 1 .. Len(times) : times[i] > now - width <=> i >= WindowStart(times, width)
<1> DEFINE S == {n \in 1 .. Len(times) + 1 : n = Len(times) + 1 \/ times[n] > now - width}
           Starts(k) == \A i \in 1 .. Len(times) : times[i] > now - width <=> i >= k
<1>1. S \subseteq Nat /\ Len(times) + 1 \in S
  OBVIOUS
<1>2. PICK k \in S : \A m \in S : k <= m
  BY <1>1, LeastNumber
<1>3. ASSUME NEW i \in 1 .. Len(times) PROVE times[i] > now - width <=> i >= k
  <2>1. times[i] \in Nat /\ (k \in 1 .. Len(times) => times[k] \in Nat)
    BY ClockAssumption DEF Times, Never
  <2>2. CASE i >= k
    <3>1. k \in 1 .. Len(times) /\ times[k] > now - width /\ times[k] <= times[i]
      BY <2>2 DEF Ordered
    <3> QED BY <2>1, <2>2, <3>1
  <2>3. CASE ~(i >= k)
    <3>1. i \notin S
      BY <2>3, <1>2
    <3> QED BY <2>1, <2>3, <3>1
  <2> QED BY <2>2, <2>3
<1>4. k \in 1 .. Len(times) + 1 /\ Starts(k)
  BY <1>3
<1>5. WindowStart(times, width) = CHOOSE n \in 1 .. Len(times) + 1 : Starts(n)
  BY DEF WindowStart
<1> HIDE DEF Starts
<1>6. WindowStart(times, width) \in 1 .. Len(times) + 1 /\ Starts(WindowStart(times, width))
  BY <1>4, <1>5
<1> QED BY <1>6 DEF Starts

\* What is left of a list of past times is one too, no longer, and in the window.
LEMMA WindowPast ==
  ASSUME NEW times, Past(times), NEW width \in Nat, now \in Nat
  PROVE  LET recent == InWindow(times, width) IN
         /\ Past(recent) /\ Len(recent) <= Len(times)
         /\ \A i \in 1 .. Len(recent) : recent[i] > now - width
<1> DEFINE k == WindowStart(times, width)
           recent == InWindow(times, width)
<1>1. times \in Seq(Times) /\ Ordered(times) /\ \A i \in 1 .. Len(times) : times[i] <= now
  BY DEF Past
<1>2. k \in 1 .. Len(times) + 1 /\ \A i \in 1 .. Len(times) : times[i] > now - width <=> i >= k
  BY <1>1, WindowStarts
<1>3. recent = SubSeq(times, k, Len(times))
  BY DEF InWindow
<1> HIDE DEF k, recent
<1>4. /\ recent \in Seq(Times) /\ Len(recent) = Len(times) + 1 - k
      /\ \A i \in 1 .. Len(recent) : recent[i] = times[k + i - 1]
  BY <1>1, <1>2, <1>3
<1>5. \A i \in 1 .. Len(recent) : k + i - 1 \in 1 .. Len(times) /\ k + i - 1 >= k
  BY <1>2, <1>4
<1>6. Ordered(recent)
  BY SMTT(40), <1>1, <1>2, <1>4, <1>5 DEF Ordered
<1>7. \A i \in 1 .. Len(recent) : recent[i] <= now /\ recent[i] > now - width
  BY <1>1, <1>2, <1>4, <1>5
<1> QED BY <1>1, <1>2, <1>4, <1>6, <1>7 DEF Past, recent

\* A list whose times are all in the window is left as it is.
LEMMA WindowWhole ==
  ASSUME NEW times, Past(times), NEW width \in Nat, now \in Nat,
         \A i \in 1 .. Len(times) : times[i] > now - width
  PROVE  InWindow(times, width) = times
<1> DEFINE k == WindowStart(times, width)
<1>1. times \in Seq(Times) /\ Ordered(times)
  BY DEF Past
<1>2. k \in 1 .. Len(times) + 1 /\ \A i \in 1 .. Len(times) : times[i] > now - width <=> i >= k
  BY <1>1, WindowStarts
<1> HIDE DEF k
<1>3. k = 1
  <2>1. CASE Len(times) = 0
    BY <2>1, <1>2
  <2>2. CASE Len(times) # 0
    <3>1. 1 \in 1 .. Len(times)
      BY <1>1, <2>2
    <3> QED BY <3>1, <1>2
  <2> QED BY <2>1, <2>2
<1>4. SubSeq(times, 1, Len(times)) = times
  BY <1>1
<1> QED BY <1>3, <1>4 DEF InWindow, k

\* The present joins the past.
LEMMA PastAppended ==
  ASSUME NEW times, Past(times), now \in Times
  PROVE  Past(Append(times, now))
<1> DEFINE a == Append(times, now)
<1>1. /\ times \in Seq(Times) /\ Len(times) \in Nat
      /\ \A i, j \in 1 .. Len(times) : i <= j => times[i] <= times[j]
      /\ \A i \in 1 .. Len(times) : times[i] <= now
  BY DEF Past, Ordered
<1>2. /\ a \in Seq(Times) /\ Len(a) = Len(times) + 1 /\ a[Len(times) + 1] = now
      /\ \A i \in 1 .. Len(times) : a[i] = times[i]
  BY <1>1
<1> HIDE DEF a
<1>3. \A i \in 1 .. Len(a) : i \in 1 .. Len(times) \/ i = Len(times) + 1
  BY <1>1, <1>2
<1>4. now <= now
  BY ClockAssumption DEF Times, Never
<1>5. \A i \in 1 .. Len(a) : a[i] <= now
  BY <1>1, <1>2, <1>3, <1>4
<1>6. Ordered(a)
  <2> SUFFICES ASSUME NEW i \in 1 .. Len(a), NEW j \in 1 .. Len(a), i <= j PROVE a[i] <= a[j]
    BY DEF Ordered
  <2>1. CASE j = Len(times) + 1
    BY <2>1, <1>2, <1>5
  <2>2. CASE j \in 1 .. Len(times)
    <3>1. i \in 1 .. Len(times)
      BY <2>2
    <3> QED BY <3>1, <2>2, <1>1, <1>2
  <2> QED BY <2>1, <2>2, <1>3
<1> QED BY <1>2, <1>5, <1>6 DEF Past, a

-----------------------------------------------------------------------------
(* One rule's state: evaluate, the arming of its timer, tryFireActionLocked.  *)
Dated(s) == /\ s \in RuleState /\ Past(s.hits) /\ Past(s.fires) /\ Len(s.fires) <= Ceiling
            /\ s.lastFired <= now /\ s.trueSince <= now
Episode(s) == s.trueSince # Never /\ ~s.sustainedFired
Waiting(s, c) ==
  /\ s.hits # <<>> => /\ c.mode = "count" /\ Len(s.hits) < c.need
                      /\ s.hits[Len(s.hits)] - s.hits[1] < c.window
  /\ s.trueSince # Never => c.mode = "sustained"
  /\ c.mode = "sustained" /\ s.lastMatched => s.trueSince # Never

LEMMA StateUpdate ==
  ASSUME NEW s \in RuleState, NEW v
  PROVE  /\ v \in BOOLEAN => [s EXCEPT !.lastMatched = v] \in RuleState
         /\ v \in BOOLEAN => [s EXCEPT !.sustainedFired = v] \in RuleState
         /\ v \in Seq(Times) => /\ [s EXCEPT !.hits = v] \in RuleState
                                /\ [s EXCEPT !.fires = v] \in RuleState
         /\ v \in Times => /\ [s EXCEPT !.trueSince = v] \in RuleState
                           /\ [s EXCEPT !.lastFired = v] \in RuleState
         /\ v \in TimerIds \cup {NoTimer} => [s EXCEPT !.timer = v] \in RuleState
  BY DEF RuleState

\* What evaluate does to each field of a rule's state.
LEMMA EvaluateFields ==
  ASSUME NEW c \in Configs, NEW s \in RuleState, NEW known
  PROVE  LET a == Evaluate(c, s, known)
             matched == Matches(c, known)
             counted == Counted(c, s) IN
         /\ a.lastMatched = matched /\ a.lastFired = s.lastFired /\ a.fires = s.fires
         /\ a.hits = IF c.mode = "count" /\ matched
                     THEN IF Len(counted) >= c.need THEN <<>> ELSE counted ELSE s.hits
         /\ c.mode # "sustained" => /\ a.timer = s.timer /\ a.trueSince = s.trueSince
                                    /\ a.sustainedFired = s.sustainedFired
         /\ c.mode = "sustained" /\ ~matched => a.timer = NoTimer /\ a.trueSince = Never /\ ~a.sustainedFired
         /\ c.mode = "sustained" /\ matched =>
              /\ a.timer = s.timer
              /\ s.trueSince = Never => a.trueSince = now /\ ~a.sustainedFired
              /\ s.trueSince # Never => a.trueSince = s.trueSince /\ a.sustainedFired = s.sustainedFired
<1>1. c.mode \in Modes
  BY ConfigsAssumption DEF Config
<1> QED BY <1>1 DEF RuleState, Evaluate, Modes

LEMMA EvaluateTyped ==
  ASSUME NEW c \in Configs, NEW s \in RuleState, NEW known, Counted(c, s) \in Seq(Times), now \in Times
  PROVE  Evaluate(c, s, known) \in RuleState
<1> DEFINE matched == Matches(c, known)
           seen == [s EXCEPT !.lastMatched = matched]
<1>1. matched \in BOOLEAN
  BY DEF Matches
<1>2. seen \in RuleState
  <2> HIDE DEF matched
  <2> QED BY <1>1, StateUpdate
<1>0. Never \in Times
  BY ClockAssumption DEF Times, Never
<1>3. CASE c.mode \in {"every", "on_change"}
  BY <1>2, <1>3 DEF Evaluate
<1>4. CASE c.mode = "count"
  <2> DEFINE v == IF Len(Counted(c, s)) >= c.need THEN <<>> ELSE Counted(c, s)
  <2>1. v \in Seq(Times)
    OBVIOUS
  <2>2. Evaluate(c, s, known) = IF matched THEN [seen EXCEPT !.hits = v] ELSE seen
    BY <1>4 DEF Evaluate
  <2> HIDE DEF seen, v, matched
  <2> QED BY <1>2, <2>1, <2>2, StateUpdate
<1>5. CASE c.mode = "sustained"
  <2> HIDE DEF seen, matched
  <2>1. /\ [[[seen EXCEPT !.timer = NoTimer] EXCEPT !.trueSince = Never]
              EXCEPT !.sustainedFired = FALSE] \in RuleState
        /\ [[seen EXCEPT !.trueSince = now] EXCEPT !.sustainedFired = FALSE] \in RuleState
    BY <1>0, <1>2, StateUpdate
  <2>2. /\ [seen EXCEPT !.timer = NoTimer, !.trueSince = Never, !.sustainedFired = FALSE]
           = [[[seen EXCEPT !.timer = NoTimer] EXCEPT !.trueSince = Never]
                EXCEPT !.sustainedFired = FALSE]
        /\ [seen EXCEPT !.trueSince = now, !.sustainedFired = FALSE]
           = [[seen EXCEPT !.trueSince = now] EXCEPT !.sustainedFired = FALSE]
    BY <1>2 DEF RuleState
  <2>3. Evaluate(c, s, known) \in {seen,
           [seen EXCEPT !.timer = NoTimer, !.trueSince = Never, !.sustainedFired = FALSE],
           [seen EXCEPT !.trueSince = now, !.sustainedFired = FALSE]}
    BY <1>5 DEF Evaluate, seen, matched
  <2> QED BY <1>2, <2>1, <2>2, <2>3
<1>6. c.mode \in Modes
  BY ConfigsAssumption DEF Config
<1> QED BY <1>3, <1>4, <1>5, <1>6 DEF Modes

\* The hits that count are past, and of the window.
LEMMA CountedPast ==
  ASSUME NEW c \in Configs, NEW s, Past(s.hits), now \in 1 .. MaxTime
  PROVE  LET h == Counted(c, s) IN
         /\ Past(h)
         /\ h # <<>> => h[Len(h)] - h[1] < c.window
<1> DEFINE h == Counted(c, s)
<1>1. c.window \in Nat \ {0} /\ now \in Times /\ now \in Nat
  BY ConfigsAssumption, ClockAssumption DEF Config, Times, Never
<1>2. Past(Append(s.hits, now))
  BY <1>1, PastAppended
<1>3. Past(h) /\ \A i \in 1 .. Len(h) : h[i] > now - c.window
  BY <1>1, <1>2, WindowPast DEF Counted
<1> HIDE DEF h
<1>4. h \in Seq(Times) /\ \A i \in 1 .. Len(h) : h[i] \in Nat /\ h[i] <= now
  BY <1>3, ClockAssumption DEF Past, Times, Never
<1>5. h # <<>> => h[Len(h)] - h[1] < c.window
  <2> SUFFICES ASSUME h # <<>> PROVE h[Len(h)] - h[1] < c.window
    OBVIOUS
  <2>1. Len(h) \in 1 .. Len(h) /\ 1 \in 1 .. Len(h)
    BY <1>4
  <2> QED BY <2>1, <1>1, <1>3, <1>4
<1> QED BY <1>3, <1>5 DEF h

Handled(s, c) == s.timer # NoTimer <=> c.mode = "sustained" /\ Episode(s)
SinceFired(s) == Episode(s) => s.lastFired <= s.trueSince
\* The timer of a new state is the old one of the same episode, or one armed now.
Carried(a, s, p) ==
  \/ a.timer = NoTimer
  \/ a.timer = s.timer /\ a.trueSince = s.trueSince
  \/ a.timer \in TimerIds /\ phase[p][a.timer] = "free" /\ a.trueSince = now

\* A state that a message or a switching on has been evaluated in, with its timer.
LEMMA EvaluatedSound ==
  ASSUME NEW p \in Panels, NEW c \in Configs, NEW s, NEW known, now \in 1 .. MaxTime,
         Dated(s), Waiting(s, c), SinceFired(s), Handled(s, c),
         \E i \in TimerIds : phase[p][i] = "free"
  PROVE  LET a == Arm(p, c, Evaluate(c, s, known)) IN
         /\ Dated(a) /\ Waiting(a, c) /\ SinceFired(a) /\ Handled(a, c) /\ Carried(a, s, p)
         /\ a.fires = s.fires /\ a.lastFired = s.lastFired
<1> DEFINE e == Evaluate(c, s, known)
           a == Arm(p, c, e)
           matched == Matches(c, known)
           counted == Counted(c, s)
<1>1. /\ s \in RuleState /\ Past(s.hits) /\ Past(s.fires) /\ Len(s.fires) <= Ceiling
      /\ s.lastFired <= now /\ s.trueSince <= now
      /\ now \in Times /\ now \in Nat /\ now # Never
  BY ClockAssumption DEF Dated, Times, Never
<1>2. Past(counted) /\ counted \in Seq(Times) /\ (counted # <<>> => counted[Len(counted)] - counted[1] < c.window)
  BY <1>1, CountedPast DEF Past
<1>3. /\ e \in RuleState
      /\ e.lastMatched = matched /\ e.lastFired = s.lastFired /\ e.fires = s.fires
      /\ e.hits = IF c.mode = "count" /\ matched
                  THEN IF Len(counted) >= c.need THEN <<>> ELSE counted ELSE s.hits
      /\ c.mode # "sustained" => /\ e.timer = s.timer /\ e.trueSince = s.trueSince
                                 /\ e.sustainedFired = s.sustainedFired
      /\ c.mode = "sustained" /\ ~matched => e.timer = NoTimer /\ e.trueSince = Never /\ ~e.sustainedFired
      /\ c.mode = "sustained" /\ matched =>
           /\ e.timer = s.timer
           /\ s.trueSince = Never => e.trueSince = now /\ ~e.sustainedFired
           /\ s.trueSince # Never => e.trueSince = s.trueSince /\ e.sustainedFired = s.sustainedFired
  BY <1>1, <1>2, EvaluateFields, EvaluateTyped
<1>4. FreeTimer(p) \in TimerIds /\ phase[p][FreeTimer(p)] = "free" /\ FreeTimer(p) # NoTimer
  BY TimerAssumption DEF FreeTimer
<1>5. /\ a \in RuleState
      /\ a.lastMatched = e.lastMatched /\ a.hits = e.hits /\ a.trueSince = e.trueSince
      /\ a.sustainedFired = e.sustainedFired /\ a.lastFired = e.lastFired /\ a.fires = e.fires
      /\ a.timer = IF c.mode = "sustained" /\ e.lastMatched /\ e.timer = NoTimer /\ ~e.sustainedFired
                   THEN FreeTimer(p) ELSE e.timer
  <2> HIDE DEF e
  <2>1. [e EXCEPT !.timer = FreeTimer(p)] \in RuleState
    BY <1>3, <1>4, StateUpdate
  <2> QED BY <1>3, <2>1 DEF Arm, RuleState
<1> HIDE DEF e, a, matched, counted
<1>6. Past(<<>>)
  BY DEF Past, Ordered
<1>7. Past(a.hits) /\ Past(a.fires) /\ Len(a.fires) <= Ceiling
  BY <1>1, <1>2, <1>3, <1>5, <1>6
<1>8. a.lastFired <= now /\ a.trueSince <= now
  BY <1>1, <1>3, <1>5, ClockAssumption DEF Never
<1>9. Waiting(a, c)
  BY <1>1, <1>2, <1>3, <1>5, ClockAssumption, ConfigsAssumption DEF Waiting, Never, Config, Past
<1>10. SinceFired(a)
  BY <1>1, <1>3, <1>5 DEF SinceFired, Episode
<1>11. Handled(a, c)
  BY <1>1, <1>3, <1>4, <1>5 DEF Handled, Episode, Waiting
<1>12. Carried(a, s, p)
  BY <1>1, <1>3, <1>4, <1>5 DEF Handled, Episode, Waiting, Carried
<1>13. a.fires = s.fires /\ a.lastFired = s.lastFired
  BY <1>3, <1>5
<1> QED BY <1>5, <1>7, <1>8, <1>9, <1>10, <1>11, <1>12, <1>13 DEF Dated, a, e

\* A publication that is due, suppressed by the cool-down, or trips the rule.
LEMMA TryFireSound ==
  ASSUME NEW c \in Configs, NEW s, now \in 1 .. MaxTime,
         Dated(s), Waiting(s, c), s.timer = NoTimer, ~Episode(s)
  PROVE  LET a == TryFire(c, s) IN
         /\ Dated(a) /\ Waiting(a, c) /\ ~Episode(a) /\ a.timer = NoTimer
         /\ \/ a.fires = s.fires /\ a.lastFired = s.lastFired
            \/ a.fires = InWindow(s.fires, Second) /\ a.lastFired = s.lastFired
            \/ /\ a.fires = Append(InWindow(s.fires, Second), now) /\ a.lastFired = now
               /\ ~Cooling(c, s)
<1> DEFINE a == TryFire(c, s)
           recent == InWindow(s.fires, Second)
           after == [s EXCEPT !.fires = recent]
           fired == [s EXCEPT !.fires = Append(recent, now)]
<1>1. /\ s \in RuleState /\ Past(s.hits) /\ Past(s.fires) /\ Len(s.fires) <= Ceiling
      /\ s.lastFired <= now /\ s.trueSince <= now
      /\ now \in Times /\ now \in Nat /\ now # Never /\ Second \in Nat
  BY ClockAssumption DEF Dated, Times, Never
<1>2. Past(recent) /\ recent \in Seq(Times) /\ Len(recent) <= Len(s.fires)
  BY <1>1, WindowPast DEF Past
<1>3. Past(Append(recent, now)) /\ Append(recent, now) \in Seq(Times) /\ Len(Append(recent, now)) = Len(recent) + 1
  BY <1>1, <1>2, PastAppended DEF Past
<1> HIDE DEF recent
<1>4. CASE Cooling(c, s)
  <2>1. a = s
    BY <1>4 DEF TryFire
  <2> QED BY <2>1 DEF a
<1>5. CASE ~Cooling(c, s) /\ Trips(c, s)
  <2>1. a = [s EXCEPT !.fires = recent, !.timer = NoTimer]
    BY <1>5 DEF TryFire, recent
  <2>2. /\ a.lastMatched = s.lastMatched /\ a.hits = s.hits /\ a.trueSince = s.trueSince
        /\ a.sustainedFired = s.sustainedFired /\ a.lastFired = s.lastFired
        /\ a.fires = recent /\ a.timer = NoTimer
    BY <1>1, <2>1 DEF RuleState
  <2>3. a \in RuleState
    <3>1. [after EXCEPT !.timer = NoTimer] \in RuleState
      BY <1>1, <1>2, StateUpdate
    <3>2. a = [after EXCEPT !.timer = NoTimer]
      BY <1>1, <2>1 DEF RuleState
    <3> QED BY <3>1, <3>2
  <2> HIDE DEF a
  <2>4. Len(recent) <= Ceiling
    BY <1>1, <1>2, ClockAssumption DEF Past
  <2>5. Dated(a) /\ Waiting(a, c) /\ ~Episode(a)
    BY <1>1, <1>2, <2>2, <2>3, <2>4 DEF Dated, Waiting, Episode
  <2> QED BY <2>2, <2>5 DEF a, recent
<1>6. CASE ~Cooling(c, s) /\ ~Trips(c, s)
  <2>1. a = [s EXCEPT !.fires = Append(recent, now), !.lastFired = now]
    BY <1>6 DEF TryFire, recent
  <2>2. /\ a.lastMatched = s.lastMatched /\ a.hits = s.hits /\ a.trueSince = s.trueSince
        /\ a.sustainedFired = s.sustainedFired /\ a.lastFired = now
        /\ a.fires = Append(recent, now) /\ a.timer = NoTimer
    BY <1>1, <2>1 DEF RuleState
  <2>3. a \in RuleState
    <3>1. [fired EXCEPT !.lastFired = now] \in RuleState
      BY <1>1, <1>3, StateUpdate
    <3>2. a = [fired EXCEPT !.lastFired = now]
      BY <1>1, <2>1 DEF RuleState
    <3> QED BY <3>1, <3>2
  <2>4. Len(a.fires) <= Ceiling
    <3>1. ~(Len(recent) >= Ceiling)
      BY <1>6 DEF Trips, recent
    <3>2. Len(recent) \in Nat /\ Ceiling \in Nat
      BY <1>2, ClockAssumption
    <3> HIDE DEF a
    <3> QED BY <1>3, <2>2, <3>1, <3>2
  <2> HIDE DEF a
  <2>5. Dated(a) /\ Waiting(a, c) /\ ~Episode(a)
    BY <1>1, <1>3, <2>2, <2>3, <2>4 DEF Dated, Waiting, Episode
  <2> QED BY <1>6, <2>2, <2>5 DEF a, recent
<1> QED BY <1>4, <1>5, <1>6

-----------------------------------------------------------------------------
(* The invariant.  A rule's hits and publications are past and in order, the  *)
(* last publication is never inside an episode, and the handle is set exactly  *)
(* while a live sustained rule is in an episode that has not fired; its timer   *)
(* is then due when the condition has held long enough.                        *)
Blank(s) == s.hits = <<>> /\ s.trueSince = Never /\ ~s.lastMatched
Lives(a, c) == Dated(a) /\ SinceFired(a) /\ Waiting(a, c) /\ Handled(a, c)

Sound(p) ==
  LET s == states[p] IN
  /\ Dated(s) /\ SinceFired(s)
  /\ IF Exists(p) THEN Waiting(s, rules[p]) ELSE s.hits = <<>> /\ s.trueSince = Never
  /\ s.timer # NoTimer <=> ~stopped /\ Active(p) /\ Episode(s)
  /\ s.timer # NoTimer => phase[p][s.timer] # "free" /\ due[p][s.timer] = s.trueSince + rules[p].hold
HasRoom(p) == \E i \in TimerIds : phase[p][i] = "free"
Timing ==
  /\ TypeOK
  /\ stopped => \A t \in Topics : cache[t] = "unknown"
  /\ inflight # NoMessage => \A p \in Panels : HasRoom(p)
  /\ \A p \in Panels : Sound(p)

\* The state a that a step leaves panel p in, whose timers follow bodies.
Keeps(p, a, bodies) ==
  /\ Dated(a) /\ SinceFired(a)
  /\ IF Exists(p)' THEN Waiting(a, rules'[p]) ELSE a.hits = <<>> /\ a.trueSince = Never
  /\ a.timer # NoTimer <=> ~stopped' /\ Active(p)' /\ Episode(a)
  /\ Carried(a, states[p], p)
  /\ a.timer # NoTimer => /\ bodies[p] = rules'[p] /\ rules'[p].hold \in Nat
                          /\ a.timer = states[p].timer => rules'[p].hold = rules[p].hold

\* What Retime does to the timers of a panel.
LEMMA RetimeFacts ==
  ASSUME NEW kept, NEW bodies, Retime(kept, bodies), NEW p \in Panels, NEW i \in TimerIds
  PROVE  /\ i # kept[p].timer /\ phase[p][i] = "free" => phase'[p][i] = "free"
         /\ i = kept[p].timer /\ i = states[p].timer => phase'[p][i] = phase[p][i] /\ due'[p][i] = due[p][i]
         /\ i = kept[p].timer /\ i # states[p].timer =>
              phase'[p][i] = "running" /\ due'[p][i] = now + bodies[p].hold
  BY DEF Retime

LEMMA RetimeTyped ==
  ASSUME TypeOK, NEW kept, NEW bodies, Retime(kept, bodies),
         \A p \in Panels : kept[p].timer \in TimerIds => bodies[p].hold \in Nat
  PROVE  /\ phase' \in [Panels -> [TimerIds -> {"free", "running", "expired"}]]
         /\ due' \in [Panels -> [TimerIds -> Nat]]
<1>1. /\ phase \in [Panels -> [TimerIds -> {"free", "running", "expired"}]]
      /\ due \in [Panels -> [TimerIds -> Nat]] /\ now \in Nat
  BY DEF TypeOK
<1>2. ASSUME NEW p \in Panels, NEW i \in TimerIds
      PROVE  (IF i = kept[p].timer /\ i # states[p].timer THEN now + bodies[p].hold ELSE due[p][i]) \in Nat
  BY <1>1
<1>3. due' \in [Panels -> [TimerIds -> Nat]]
  BY <1>2 DEF Retime
<1>4. phase' \in [Panels -> [TimerIds -> {"free", "running", "expired"}]]
  BY <1>1 DEF Retime
<1> QED BY <1>3, <1>4

\* A step that stops, keeps or arms timers along with the states of the panels.
LEMMA StepKeeps ==
  ASSUME Timing, Booked', NEW kept, NEW bodies, states' = kept, kept \in [Panels -> RuleState],
         Retime(kept, bodies), UNCHANGED now, online' \in BOOLEAN,
         cache' \in [Topics -> Payloads \cup {"unknown"}],
         inflight' \in [topic : Topics, payload : Payloads] \cup {NoMessage},
         stopped' => \A t \in Topics : cache'[t] = "unknown",
         \A p \in Panels : Keeps(p, kept[p], bodies),
         inflight' # NoMessage => \A p \in Panels : HasRoom(p)'
  PROVE  Timing'
<1>1. TypeOK /\ \A p \in Panels : Sound(p)
  BY DEF Timing
<1>2. TypeOK'
  <2>1. \A p \in Panels : kept[p].timer \in TimerIds => bodies[p].hold \in Nat
    BY TimerAssumption DEF Keeps
  <2>2. /\ phase' \in [Panels -> [TimerIds -> {"free", "running", "expired"}]]
        /\ due' \in [Panels -> [TimerIds -> Nat]]
    BY <1>1, <2>1, RetimeTyped
  <2> QED BY <1>1, <2>2 DEF TypeOK, Booked
<1>3. ASSUME NEW p \in Panels PROVE Sound(p)'
  <2> DEFINE a == kept[p]
             s == states[p]
  <2>1. states'[p] = a /\ Keeps(p, a, bodies) /\ Sound(p) /\ a \in RuleState /\ s \in RuleState
    BY <1>1 DEF TypeOK
  <2>2. Dated(states[p])' /\ SinceFired(states[p])' /\ (Waiting(states[p], rules[p])' <=> Waiting(a, rules'[p]))
    BY <2>1 DEF Keeps, Dated, SinceFired, Past, Ordered, Episode, Waiting, Times
  <2>3. a.timer # NoTimer => phase'[p][a.timer] # "free" /\ due'[p][a.timer] = a.trueSince + rules'[p].hold
    <3> SUFFICES ASSUME a.timer # NoTimer
                 PROVE  phase'[p][a.timer] # "free" /\ due'[p][a.timer] = a.trueSince + rules'[p].hold
      OBVIOUS
    <3>1. a.timer \in TimerIds
      BY <2>1 DEF RuleState
    <3>2. CASE a.timer = s.timer /\ a.trueSince = s.trueSince
      <4>1. phase'[p][a.timer] = phase[p][a.timer] /\ due'[p][a.timer] = due[p][a.timer]
        BY <3>1, <3>2, RetimeFacts
      <4> QED BY <2>1, <3>2, <4>1 DEF Sound, Keeps
    <3>3. CASE phase[p][a.timer] = "free" /\ a.trueSince = now
      <4>1. a.timer # s.timer
        BY <2>1, <3>3 DEF Sound
      <4>2. phase'[p][a.timer] = "running" /\ due'[p][a.timer] = now + bodies[p].hold
        BY <3>1, <4>1, RetimeFacts
      <4> QED BY <2>1, <3>3, <4>2 DEF Keeps
    <3> QED BY <2>1, <3>2, <3>3 DEF Keeps, Carried
  <2>4. (Episode(states[p])' <=> Episode(a))
    BY <2>1 DEF Episode
  <2> HIDE DEF a
  <2> QED BY <2>1, <2>2, <2>3, <2>4 DEF Sound, Keeps
<1> QED BY <1>2, <1>3 DEF Timing

\* A panel that the step does not touch.
LEMMA Untouched ==
  ASSUME Timing, NEW p \in Panels, NEW bodies, bodies[p] = rules[p], UNCHANGED stopped,
         rules'[p] = rules[p], enabled'[p] = enabled[p], tripped'[p] = tripped[p]
  PROVE  Keeps(p, states[p], bodies)
<1>1. Sound(p) /\ rules[p] \in Configs \cup {NoRule}
  BY DEF Timing, TypeOK
<1>2. Exists(p) => rules[p].hold \in Nat
  BY <1>1, ConfigsAssumption DEF Exists, Config
<1>3. (Exists(p)' <=> Exists(p)) /\ (Active(p)' <=> Active(p))
  BY DEF Exists, Active
<1>4. states[p].timer # NoTimer => Exists(p)
  BY <1>1 DEF Sound, Active
<1> QED BY <1>1, <1>2, <1>3, <1>4 DEF Sound, Keeps, Carried

-----------------------------------------------------------------------------
(* Each operation keeps the invariant.                                         *)
\* A step that stores the state of one panel and leaves the others alone.
LEMMA StoreKeeps ==
  ASSUME Timing, Booked', NEW p \in Panels, NEW a, NEW bodies, Store(p, a, bodies),
         Keeps(p, a, bodies), UNCHANGED <<cache, outside, stopped>>,
         \A q \in Panels \ {p} : /\ bodies[q] = rules[q] /\ rules'[q] = rules[q]
                                 /\ enabled'[q] = enabled[q] /\ tripped'[q] = tripped[q],
         inflight # NoMessage => HasRoom(p)'
  PROVE  Timing'
<1> DEFINE kept == [states EXCEPT ![p] = a]
<1>1. TypeOK /\ a \in RuleState
  BY DEF Timing, Keeps, Dated
<1>2. states' = kept /\ kept \in [Panels -> RuleState] /\ Retime(kept, bodies)
  BY <1>1 DEF Store, TypeOK
<1>3. ASSUME NEW q \in Panels PROVE Keeps(q, kept[q], bodies)
  <2>1. CASE q = p
    BY <2>1, <1>1 DEF TypeOK
  <2>2. CASE q # p
    <3>1. Keeps(q, states[q], bodies)
      BY <2>2, Untouched
    <3> QED BY <3>1, <2>2, <1>1 DEF TypeOK
  <2> QED BY <2>1, <2>2
<1>4. ASSUME inflight' # NoMessage, NEW q \in Panels PROVE HasRoom(q)'
  <2>1. CASE q = p
    BY <2>1, <1>4 DEF outside
  <2>2. CASE q # p
    <3>1. PICK i \in TimerIds : phase[q][i] = "free"
      BY <1>4 DEF Timing, HasRoom, outside
    <3>2. kept[q] = states[q] /\ Sound(q)
      BY <1>1, <2>2 DEF TypeOK, Timing
    <3>3. i # kept[q].timer
      BY <3>1, <3>2, TimerAssumption DEF Sound
    <3> HIDE DEF kept
    <3>4. phase'[q][i] = "free"
      BY <1>2, <3>1, <3>3, RetimeFacts
    <3> QED BY <3>4 DEF HasRoom
  <2> QED BY <2>1, <2>2
<1>5. /\ online' \in BOOLEAN /\ cache' \in [Topics -> Payloads \cup {"unknown"}]
      /\ inflight' \in [topic : Topics, payload : Payloads] \cup {NoMessage}
      /\ stopped' => \A t \in Topics : cache'[t] = "unknown"
  BY <1>1 DEF TypeOK, Timing, outside
<1> HIDE DEF kept
<1> QED BY <1>2, <1>3, <1>4, <1>5, StepKeeps DEF outside

\* A panel with more than one free timer has one left when one is armed.
LEMMA TwoFree ==
  ASSUME NEW p \in Panels, Room(p) > 1, NEW j
  PROVE  \E i \in TimerIds : phase[p][i] = "free" /\ i # j
<1> DEFINE S == {i \in TimerIds : phase[p][i] = "free"}
<1>1. IsFiniteSet(S)
  BY TimerAssumption, FS_Subset
<1>2. Cardinality(S) > 1
  BY DEF Room
<1>3. S # {} /\ S # {j}
  <2>1. Cardinality({}) = 0 /\ Cardinality({j}) = 1
    BY FS_EmptySet, FS_Singleton
  <2> HIDE DEF S
  <2> QED BY <1>2, <2>1
<1>4. \E i \in S : i # j
  BY <1>3
<1> QED BY <1>4

\* The bound on calls leaves a timer for each panel.
LEMMA OneFree ==
  ASSUME NEW p \in Panels, Open
  PROVE  HasRoom(p)
<1> DEFINE S == {i \in TimerIds : phase[p][i] = "free"}
<1>1. Cardinality(S) \in Nat
  BY TimerAssumption, FS_Subset, FS_CardinalityType
<1>2. Room(p) = Cardinality(S) /\ Room(p) > IF inflight = NoMessage THEN 0 ELSE 1
  BY DEF Room, Open
<1>3. Cardinality(S) > 0
  <2> HIDE DEF S
  <2> QED BY <1>1, <1>2
<1>4. S # {}
  BY <1>3, FS_EmptySet
<1> QED BY <1>4 DEF HasRoom

\* A call that may arm a timer leaves one for the message in flight.
LEMMA RoomLeft ==
  ASSUME NEW p \in Panels, NEW a, NEW bodies, Open, TypeOK, Store(p, a, bodies), inflight # NoMessage
  PROVE  HasRoom(p)'
<1> DEFINE kept == [states EXCEPT ![p] = a]
<1>1. Retime(kept, bodies) /\ kept[p] = a
  BY DEF Store, TypeOK
<1>2. Room(p) > 1
  BY DEF Open
<1>3. PICK i \in TimerIds : phase[p][i] = "free" /\ i # a.timer
  BY <1>2, TwoFree
<1> HIDE DEF kept
<1>4. phase'[p][i] = "free"
  BY <1>1, <1>3, RetimeFacts
<1> QED BY <1>4 DEF HasRoom

\* A call that arms none leaves the free ones free.
LEMMA RoomKept ==
  ASSUME NEW p \in Panels, NEW a, NEW bodies, Timing, Store(p, a, bodies), inflight # NoMessage,
         a.timer = NoTimer
  PROVE  HasRoom(p)'
<1> DEFINE kept == [states EXCEPT ![p] = a]
<1>1. Retime(kept, bodies) /\ kept[p] = a
  BY DEF Store, TypeOK, Timing
<1>2. PICK i \in TimerIds : phase[p][i] = "free"
  BY DEF Timing, HasRoom
<1>3. i # a.timer
  BY TimerAssumption
<1> HIDE DEF kept
<1>4. phase'[p][i] = "free"
  BY <1>1, <1>2, <1>3, RetimeFacts
<1> QED BY <1>4 DEF HasRoom

\* A rule that waits for nothing suits any body.
LEMMA BlankLives ==
  ASSUME NEW s, Dated(s), Blank(s), s.timer = NoTimer, NEW c \in Configs
  PROVE  Lives(s, c) /\ ~Episode(s)
  BY DEF Blank, Lives, Waiting, Handled, SinceFired, Episode

LEMMA FreshBlank ==
  ASSUME now \in 1 .. MaxTime
  PROVE  /\ Dated(Fresh) /\ Blank(Fresh) /\ Fresh.timer = NoTimer
         /\ ~Episode(Fresh) /\ SinceFired(Fresh)
<1>1. Fresh \in RuleState
  BY ClockAssumption DEF Fresh, RuleState, Times, Never
<1>2. Past(<<>>)
  BY DEF Past, Ordered
<1>3. Dated(Fresh)
  BY <1>1, <1>2, ClockAssumption DEF Dated, Fresh, Never
<1> QED BY <1>3 DEF Blank, Fresh, Episode, SinceFired

\* What is kept of a rule that is edited, switched off or switched on.
LEMMA KeptBlank ==
  ASSUME now \in 1 .. MaxTime, NEW p \in Panels, Dated(states[p])
  PROVE  /\ Dated(Edited(p)) /\ Blank(Edited(p)) /\ Edited(p).timer = NoTimer
         /\ Edited(p).fires = states[p].fires /\ Edited(p).lastFired = states[p].lastFired
         /\ Dated(Idle(p)) /\ Blank(Idle(p)) /\ Idle(p).timer = states[p].timer
         /\ Idle(p).fires = states[p].fires /\ Idle(p).lastFired = states[p].lastFired
<1> DEFINE s == states[p]
           e1 == [Fresh EXCEPT !.lastFired = s.lastFired]
           i1 == [s EXCEPT !.lastMatched = FALSE]
           i2 == [i1 EXCEPT !.hits = <<>>]
           i3 == [i2 EXCEPT !.trueSince = Never]
<1>1. /\ s \in RuleState /\ Past(s.fires) /\ Len(s.fires) <= Ceiling /\ s.lastFired <= now
      /\ s.fires \in Seq(Times) /\ s.lastFired \in Times /\ Never \in Times /\ <<>> \in Seq(Times)
  BY ClockAssumption DEF Dated, Past, RuleState, Times, Never
<1>2. Fresh \in RuleState /\ Past(<<>>) /\ Never <= now
  BY FreshBlank, ClockAssumption DEF Dated, Past, Ordered, Never
<1>3. e1 \in RuleState
  BY <1>1, <1>2, StateUpdate
<1>4. [e1 EXCEPT !.fires = s.fires] \in RuleState
  <2> HIDE DEF e1
  <2> QED BY <1>1, <1>3, StateUpdate
<1>5. Edited(p) = [e1 EXCEPT !.fires = s.fires]
  BY <1>2 DEF Edited, RuleState
<1>6. i1 \in RuleState
  BY <1>1, StateUpdate
<1>7. i2 \in RuleState
  <2> HIDE DEF i1
  <2> QED BY <1>1, <1>6, StateUpdate
<1>8. i3 \in RuleState
  <2> HIDE DEF i2
  <2> QED BY <1>1, <1>7, StateUpdate
<1>9. [i3 EXCEPT !.sustainedFired = FALSE] \in RuleState
  <2> HIDE DEF i3
  <2> QED BY <1>8, StateUpdate
<1>10. Idle(p) = [i3 EXCEPT !.sustainedFired = FALSE]
  BY <1>1 DEF Idle, RuleState
<1>11. /\ Edited(p).hits = <<>> /\ Edited(p).trueSince = Never /\ ~Edited(p).lastMatched
       /\ Edited(p).timer = NoTimer /\ Edited(p).fires = s.fires /\ Edited(p).lastFired = s.lastFired
  BY DEF Edited, Fresh
<1>12. /\ Idle(p).hits = <<>> /\ Idle(p).trueSince = Never /\ ~Idle(p).lastMatched
       /\ Idle(p).timer = s.timer /\ Idle(p).fires = s.fires /\ Idle(p).lastFired = s.lastFired
  BY <1>1 DEF Idle, RuleState
<1>13. Dated(Edited(p))
  BY <1>1, <1>2, <1>4, <1>5, <1>11 DEF Dated
<1>14. Dated(Idle(p))
  BY <1>1, <1>2, <1>9, <1>10, <1>12 DEF Dated
<1> QED BY <1>11, <1>12, <1>13, <1>14 DEF Blank

\* A rule that is switched on waits for nothing, or has armed its timer just now.
LEMMA InitialSound ==
  ASSUME NEW p \in Panels, NEW c \in Configs, NEW s, NEW known, now \in 1 .. MaxTime,
         Dated(s), Blank(s), s.timer = NoTimer, HasRoom(p)
  PROVE  LET a == EvaluateInitial(p, c, s, known) IN
         /\ Lives(a, c) /\ a.fires = s.fires /\ a.lastFired = s.lastFired
         /\ \/ a.timer = NoTimer
            \/ a.timer \in TimerIds /\ phase[p][a.timer] = "free" /\ a.trueSince = now
<1> DEFINE a == EvaluateInitial(p, c, s, known)
<1>1. Lives(s, c)
  BY BlankLives
<1>2. CASE known[c.source] = "unknown"
  BY <1>1, <1>2 DEF EvaluateInitial
<1>3. CASE known[c.source] # "unknown"
  <2>1. a = Arm(p, c, Evaluate(c, s, known))
    BY <1>3 DEF EvaluateInitial
  <2>2. /\ Dated(a) /\ Waiting(a, c) /\ SinceFired(a) /\ Handled(a, c) /\ Carried(a, s, p)
        /\ a.fires = s.fires /\ a.lastFired = s.lastFired
    BY <1>1, <2>1, EvaluatedSound DEF Lives, HasRoom
  <2> QED BY <2>2 DEF Lives, Carried
<1> QED BY <1>2, <1>3

\* A rule's state as the invariant has it, while the rule is enabled.
LEMMA SoundFacts ==
  ASSUME Timing, NEW p \in Panels
  PROVE  /\ Dated(states[p]) /\ SinceFired(states[p]) /\ now \in 1 .. MaxTime /\ Sound(p)
         /\ Exists(p) => rules[p] \in Configs
         /\ states[p].timer # NoTimer => phase[p][states[p].timer] # "free" /\ Active(p)
         /\ Active(p) /\ ~stopped => Lives(states[p], rules[p])
<1>1. Sound(p) /\ rules[p] \in Configs \cup {NoRule} /\ now \in 1 .. MaxTime
  BY DEF Timing, TypeOK
<1>2. Active(p) => Exists(p)
  BY DEF Active
<1> QED BY <1>1, <1>2 DEF Sound, Lives, Handled, Exists, Waiting, Episode

LEMMA BodyHolds == ASSUME NEW c \in Configs PROVE c.hold \in Nat
  BY ConfigsAssumption DEF Config

LEMMA AddRuleTimes ==
  ASSUME Timing, IInv', NEW p \in Panels, NEW c \in Configs, NEW on \in BOOLEAN, AddRule(p, c, on)
  PROVE  Timing'
<1> DEFINE a == IF on THEN EvaluateInitial(p, c, Edited(p), cache) ELSE Edited(p)
           bodies == [rules EXCEPT ![p] = c]
<1>1. /\ Open /\ ~stopped /\ rules' = bodies /\ enabled' = [enabled EXCEPT ![p] = on]
      /\ tripped' = [tripped EXCEPT ![p] = FALSE] /\ Store(p, a, bodies)
      /\ UNCHANGED <<cache, outside, stopped>>
  BY DEF AddRule
<1>2. TypeOK /\ Booked' /\ Dated(states[p]) /\ now \in 1 .. MaxTime
  BY SoundFacts DEF Timing, IInv
<1>3. HasRoom(p)
  BY <1>1, OneFree
<1>4. Dated(Edited(p)) /\ Blank(Edited(p)) /\ Edited(p).timer = NoTimer
  BY <1>2, KeptBlank
<1>5. /\ Lives(a, c) /\ (~on => ~Episode(a))
      /\ \/ a.timer = NoTimer
         \/ a.timer \in TimerIds /\ phase[p][a.timer] = "free" /\ a.trueSince = now
  BY <1>2, <1>3, <1>4, InitialSound, BlankLives
<1> HIDE DEF a
<1>6. Keeps(p, a, bodies)
  <2>1. rules'[p] = c /\ bodies[p] = c /\ enabled'[p] = on /\ ~tripped'[p]
    BY <1>1, <1>2 DEF TypeOK
  <2>2. Exists(p)' /\ (Active(p)' <=> on)
    BY <2>1, BodyIsRule DEF Exists, Active
  <2>3. Carried(a, states[p], p)
    BY <1>5 DEF Carried
  <2>4. a.timer # NoTimer => a.timer # states[p].timer
    BY <1>5, SoundFacts
  <2>5. a.timer # NoTimer <=> on /\ Episode(a)
    BY <1>5 DEF Lives, Handled, Waiting, Episode
  <2> QED BY <1>1, <1>5, <2>1, <2>2, <2>3, <2>4, <2>5, BodyHolds DEF Keeps, Lives
<1>7. \A q \in Panels \ {p} : /\ bodies[q] = rules[q] /\ rules'[q] = rules[q]
                              /\ enabled'[q] = enabled[q] /\ tripped'[q] = tripped[q]
  BY <1>1, <1>2 DEF TypeOK
<1>8. inflight # NoMessage => HasRoom(p)'
  BY <1>1, <1>2, RoomLeft
<1> HIDE DEF bodies
<1> QED BY <1>1, <1>2, <1>6, <1>7, <1>8, StoreKeeps

LEMMA EnableRuleTimes ==
  ASSUME Timing, IInv', NEW p \in Panels, EnableRule(p)
  PROVE  Timing'
<1> DEFINE c == rules[p]
           a == EvaluateInitial(p, c, Idle(p), cache)
<1>1. /\ Open /\ Exists(p) /\ ~enabled[p] /\ enabled' = [enabled EXCEPT ![p] = TRUE]
      /\ tripped' = [tripped EXCEPT ![p] = FALSE] /\ Store(p, a, rules)
      /\ UNCHANGED <<rules, cache, outside, stopped>>
  BY DEF EnableRule
<1>2. /\ TypeOK /\ Booked' /\ Dated(states[p]) /\ now \in 1 .. MaxTime /\ c \in Configs
      /\ states[p].timer = NoTimer
  BY <1>1, SoundFacts DEF Timing, IInv, Active
<1>3. HasRoom(p)
  BY <1>1, OneFree
<1>4. Dated(Idle(p)) /\ Blank(Idle(p)) /\ Idle(p).timer = NoTimer
  BY <1>2, KeptBlank
<1>5. /\ Lives(a, c)
      /\ \/ a.timer = NoTimer
         \/ a.timer \in TimerIds /\ phase[p][a.timer] = "free" /\ a.trueSince = now
  BY <1>2, <1>3, <1>4, InitialSound
<1>6. stopped => a = Idle(p) /\ ~Episode(a) /\ a.timer = NoTimer
  <2>1. c.source \in Topics
    BY <1>2, ConfigsAssumption DEF Config
  <2>2. stopped => cache[c.source] = "unknown"
    BY <2>1 DEF Timing
  <2> QED BY <1>2, <1>4, <2>2, BlankLives DEF EvaluateInitial
<1> HIDE DEF a
<1>7. Keeps(p, a, rules)
  <2>1. rules'[p] = c /\ enabled'[p] /\ ~tripped'[p]
    BY <1>1, <1>2 DEF TypeOK
  <2>2. Exists(p)' /\ Active(p)'
    BY <1>1, <2>1 DEF Exists, Active
  <2>3. Carried(a, states[p], p)
    BY <1>5 DEF Carried
  <2>5. a.timer # NoTimer <=> ~stopped /\ Episode(a)
    BY <1>5, <1>6 DEF Lives, Handled, Waiting, Episode
  <2> QED BY <1>1, <1>2, <1>5, <2>1, <2>2, <2>3, <2>5, BodyHolds DEF Keeps, Lives
<1>8. \A q \in Panels \ {p} : /\ rules'[q] = rules[q]
                              /\ enabled'[q] = enabled[q] /\ tripped'[q] = tripped[q]
  BY <1>1, <1>2 DEF TypeOK
<1>9. inflight # NoMessage => HasRoom(p)'
  BY <1>1, <1>2, RoomLeft
<1> QED BY <1>1, <1>2, <1>7, <1>8, <1>9, StoreKeeps

LEMMA RemoveRuleTimes ==
  ASSUME Timing, IInv', NEW p \in Panels, RemoveRule(p)
  PROVE  Timing'
<1>1. /\ rules' = [rules EXCEPT ![p] = NoRule] /\ enabled' = [enabled EXCEPT ![p] = FALSE]
      /\ tripped' = [tripped EXCEPT ![p] = FALSE] /\ Store(p, Fresh, rules)
      /\ UNCHANGED <<cache, outside, stopped>>
  BY DEF RemoveRule
<1>2. /\ TypeOK /\ Booked' /\ Dated(Fresh) /\ Blank(Fresh) /\ Fresh.timer = NoTimer
      /\ ~Episode(Fresh) /\ SinceFired(Fresh)
  BY SoundFacts, FreshBlank DEF Timing, IInv
<1>3. Keeps(p, Fresh, rules)
  <2>1. ~Exists(p)'
    BY <1>1, <1>2 DEF TypeOK, Exists
  <2> QED BY <1>2, <2>1 DEF Keeps, Carried, Blank
<1>4. \A q \in Panels \ {p} : /\ rules'[q] = rules[q]
                              /\ enabled'[q] = enabled[q] /\ tripped'[q] = tripped[q]
  BY <1>1, <1>2 DEF TypeOK
<1>5. inflight # NoMessage => HasRoom(p)'
  BY <1>1, <1>2, RoomKept
<1> QED BY <1>1, <1>2, <1>3, <1>4, <1>5, StoreKeeps

LEMMA DisableRuleTimes ==
  ASSUME Timing, IInv', NEW p \in Panels, DisableRule(p)
  PROVE  Timing'
<1> DEFINE a == [Idle(p) EXCEPT !.timer = NoTimer]
<1>1. /\ Exists(p) /\ enabled' = [enabled EXCEPT ![p] = FALSE] /\ Store(p, a, rules)
      /\ UNCHANGED <<rules, tripped, cache, outside, stopped>>
  BY DEF DisableRule
<1>2. /\ TypeOK /\ Booked' /\ now \in 1 .. MaxTime /\ rules[p] \in Configs
      /\ Dated(Idle(p)) /\ Blank(Idle(p))
  BY <1>1, SoundFacts, KeptBlank DEF Timing, IInv
<1>3. Dated(a) /\ Blank(a) /\ a.timer = NoTimer
  <2>1. a \in RuleState
    BY <1>2, StateUpdate DEF Dated
  <2>2. /\ a.hits = Idle(p).hits /\ a.fires = Idle(p).fires /\ a.lastFired = Idle(p).lastFired
        /\ a.trueSince = Idle(p).trueSince /\ a.lastMatched = Idle(p).lastMatched /\ a.timer = NoTimer
    BY <1>2 DEF Dated, RuleState
  <2> HIDE DEF a
  <2> QED BY <1>2, <2>1, <2>2 DEF Dated, Blank
<1> HIDE DEF a
<1>4. Lives(a, rules[p]) /\ ~Episode(a)
  BY <1>2, <1>3, BlankLives
<1>5. Keeps(p, a, rules)
  BY <1>1, <1>3, <1>4 DEF Keeps, Carried, Lives, Exists
<1>6. \A q \in Panels \ {p} : /\ rules'[q] = rules[q]
                              /\ enabled'[q] = enabled[q] /\ tripped'[q] = tripped[q]
  BY <1>1, <1>2 DEF TypeOK
<1>7. inflight # NoMessage => HasRoom(p)'
  BY <1>1, <1>3, RoomKept
<1> QED BY <1>1, <1>2, <1>5, <1>6, <1>7, StoreKeeps

\* A step that arms no timer frees none that a message could need.
LEMMA NoneArmed ==
  ASSUME Timing, NEW kept, NEW bodies, Retime(kept, bodies), NEW p \in Panels, inflight # NoMessage,
         kept[p].timer = NoTimer
  PROVE  HasRoom(p)'
<1>1. PICK i \in TimerIds : phase[p][i] = "free"
  BY DEF Timing, HasRoom
<1>2. i # kept[p].timer
  BY TimerAssumption
<1>3. phase'[p][i] = "free"
  BY <1>1, <1>2, RetimeFacts
<1> QED BY <1>3 DEF HasRoom

LEMMA ClearAllRulesTimes ==
  ASSUME Timing, IInv', ClearAllRules
  PROVE  Timing'
<1> DEFINE kept == [p \in Panels |-> Fresh]
<1>1. /\ rules' = [p \in Panels |-> NoRule] /\ states' = kept /\ Retime(kept, rules)
      /\ cache' = [t \in Topics |-> "unknown"] /\ UNCHANGED <<outside, stopped>>
  BY DEF ClearAllRules
<1>2. /\ TypeOK /\ Booked' /\ Dated(Fresh) /\ Blank(Fresh) /\ Fresh.timer = NoTimer
      /\ ~Episode(Fresh) /\ SinceFired(Fresh)
  BY FreshBlank DEF Timing, IInv, TypeOK
<1>3. kept \in [Panels -> RuleState]
  BY <1>2 DEF Dated
<1>4. ASSUME NEW p \in Panels PROVE Keeps(p, kept[p], rules)
  <2>1. ~Exists(p)'
    BY <1>1 DEF Exists
  <2> QED BY <1>2, <2>1 DEF Keeps, Carried, Blank
<1>5. ASSUME inflight' # NoMessage, NEW p \in Panels PROVE HasRoom(p)'
  <2>1. kept[p].timer = NoTimer /\ inflight # NoMessage
    BY <1>1, <1>2, <1>5 DEF outside
  <2> HIDE DEF kept
  <2> QED BY <1>1, <2>1, NoneArmed
<1>6. /\ online' \in BOOLEAN /\ cache' \in [Topics -> Payloads \cup {"unknown"}]
      /\ inflight' \in [topic : Topics, payload : Payloads] \cup {NoMessage}
      /\ \A t \in Topics : cache'[t] = "unknown"
  BY <1>1, <1>2 DEF TypeOK, outside
<1> HIDE DEF kept
<1> QED BY <1>1, <1>2, <1>3, <1>4, <1>5, <1>6, StepKeeps DEF outside

LEMMA StopTimes ==
  ASSUME Timing, IInv', Stop
  PROVE  Timing'
<1> DEFINE kept == [p \in Panels |-> [states[p] EXCEPT !.timer = NoTimer]]
<1>1. /\ states' = kept /\ Retime(kept, rules) /\ stopped'
      /\ cache' = [t \in Topics |-> "unknown"] /\ UNCHANGED <<rules, enabled, tripped, outside>>
  BY DEF Stop
<1>2. TypeOK /\ Booked'
  BY DEF Timing, IInv
<1>3. ASSUME NEW p \in Panels PROVE kept[p] \in RuleState /\ Keeps(p, kept[p], rules)
  <2> DEFINE s == states[p]
             a == [s EXCEPT !.timer = NoTimer]
  <2>1. s \in RuleState /\ Sound(p) /\ a \in RuleState
    BY <1>2, StateUpdate DEF TypeOK, Timing
  <2>2. /\ a.hits = s.hits /\ a.fires = s.fires /\ a.lastFired = s.lastFired /\ a.timer = NoTimer
        /\ a.trueSince = s.trueSince /\ a.lastMatched = s.lastMatched /\ a.sustainedFired = s.sustainedFired
    BY <2>1 DEF RuleState
  <2>3. kept[p] = a
    OBVIOUS
  <2>4. Exists(p)' <=> Exists(p)
    BY <1>1 DEF Exists
  <2> HIDE DEF a, kept
  <2> QED BY <1>1, <2>1, <2>2, <2>3, <2>4 DEF Sound, Keeps, Carried, Dated, SinceFired, Episode, Waiting
<1>4. kept \in [Panels -> RuleState]
  BY <1>3
<1>5. ASSUME inflight' # NoMessage, NEW p \in Panels PROVE HasRoom(p)'
  <2>1. inflight # NoMessage
    BY <1>1, <1>5 DEF outside
  <2>2. kept[p].timer = NoTimer
    BY <1>2 DEF TypeOK, RuleState
  <2> HIDE DEF kept
  <2> QED BY <1>1, <2>1, <2>2, NoneArmed
<1>6. /\ online' \in BOOLEAN /\ cache' \in [Topics -> Payloads \cup {"unknown"}]
      /\ inflight' \in [topic : Topics, payload : Payloads] \cup {NoMessage}
      /\ \A t \in Topics : cache'[t] = "unknown"
  BY <1>1, <1>2 DEF TypeOK, outside
<1> HIDE DEF kept
<1> QED BY <1>1, <1>2, <1>3, <1>4, <1>5, <1>6, StepKeeps DEF outside

\* A message that a live rule hears leaves it sound; a publication follows it only
\* outside the cool-down, and never for a sustained rule.
LEMMA ReactSound ==
  ASSUME Timing, NEW p \in Panels, Active(p), ~stopped, inflight # NoMessage, NEW known
  PROVE  LET a == React(p, known)
             s == states[p] IN
         /\ Lives(a, rules[p]) /\ Carried(a, s, p)
         /\ Fires(rules[p], s, known) => a.timer = NoTimer /\ ~Episode(a)
         /\ \/ a.fires = s.fires /\ a.lastFired = s.lastFired
            \/ a.fires = InWindow(s.fires, Second) /\ a.lastFired = s.lastFired
            \/ /\ a.fires = Append(InWindow(s.fires, Second), now) /\ a.lastFired = now
               /\ ~Cooling(rules[p], s) /\ rules[p].mode # "sustained"
<1> DEFINE c == rules[p]
           s == states[p]
           e == Arm(p, c, Evaluate(c, s, known))
           a == React(p, known)
<1>1. c \in Configs /\ Lives(s, c) /\ now \in 1 .. MaxTime /\ HasRoom(p)
  BY SoundFacts DEF Active, Timing
<1>2. Lives(e, c) /\ Carried(e, s, p) /\ e.fires = s.fires /\ e.lastFired = s.lastFired
  BY <1>1, EvaluatedSound DEF Lives, HasRoom
<1> HIDE DEF e
<1>3. CASE Fires(c, s, known)
  <2>1. c.mode # "sustained" /\ a = TryFire(c, e)
    BY <1>3 DEF Fires, React, e
  <2>2. e.timer = NoTimer /\ ~Episode(e) /\ Dated(e) /\ Waiting(e, c)
    BY <1>2, <2>1 DEF Lives, Handled, Waiting, Episode
  <2>3. /\ Dated(a) /\ Waiting(a, c) /\ ~Episode(a) /\ a.timer = NoTimer
        /\ \/ a.fires = e.fires /\ a.lastFired = e.lastFired
           \/ a.fires = InWindow(e.fires, Second) /\ a.lastFired = e.lastFired
           \/ /\ a.fires = Append(InWindow(e.fires, Second), now) /\ a.lastFired = now
              /\ ~Cooling(c, e)
    BY <1>1, <2>1, <2>2, TryFireSound
  <2>4. Cooling(c, e) <=> Cooling(c, s)
    BY <1>2 DEF Cooling
  <2> HIDE DEF a
  <2>5. Lives(a, c) /\ Carried(a, s, p)
    BY <2>1, <2>3 DEF Lives, Handled, SinceFired, Carried
  <2> QED BY <1>2, <2>1, <2>3, <2>4, <2>5 DEF a
<1>4. CASE ~Fires(c, s, known)
  <2>1. a = e
    BY <1>4 DEF React, e
  <2> QED BY <1>2, <1>4, <2>1
<1> QED BY <1>3, <1>4

LEMMA HandleMessageTimes ==
  ASSUME Timing, IInv', HandleMessage
  PROVE  Timing'
<1> DEFINE known == [cache EXCEPT ![inflight.topic] = inflight.payload]
           heard == {p \in topicRules[inflight.topic] : Active(p)}
           kept == [p \in Panels |-> IF p \in heard THEN React(p, known) ELSE states[p]]
           trips == {p \in heard : /\ Fires(rules[p], states[p], known)
                                   /\ Trips(rules[p], states[p])}
<1>1. inflight # NoMessage /\ inflight' = NoMessage /\ UNCHANGED <<rules, online, stopped, now>>
  BY DEF HandleMessage
<1>2. TypeOK /\ Booked' /\ inflight.topic \in Topics /\ inflight.payload \in Payloads
  BY <1>1 DEF Timing, IInv, TypeOK
<1>3. known \in [Topics -> Payloads \cup {"unknown"}]
  BY <1>2 DEF TypeOK
<1>4. CASE stopped
  <2>1. UNCHANGED <<states, enabled, tripped, cache, timers>>
    BY <1>4 DEF HandleMessage
  <2>2. TypeOK'
    BY <1>1, <1>2, <2>1 DEF TypeOK, Booked, timers
  <2>3. ASSUME NEW p \in Panels PROVE Sound(p)'
    <3>1. Sound(p)
      BY DEF Timing
    <3> QED BY <1>1, <2>1, <3>1 DEF Sound, Dated, SinceFired, Exists, Active, Episode, Waiting, Past,
                                    Ordered, timers
  <2> QED BY <1>1, <2>1, <2>2, <2>3 DEF Timing
<1>5. CASE ~stopped
  <2>1. /\ cache' = known /\ states' = kept /\ Retime(kept, rules)
        /\ enabled' = [p \in Panels |-> enabled[p] /\ p \notin trips]
        /\ tripped' = [p \in Panels |-> tripped[p] \/ p \in trips]
    BY <1>5 DEF HandleMessage
  <2>2. ASSUME NEW p \in Panels PROVE kept[p] \in RuleState /\ Keeps(p, kept[p], rules)
    <3>1. Exists(p)' <=> Exists(p)
      BY <1>1 DEF Exists
    <3>2. CASE p \in heard
      <4> DEFINE a == React(p, known)
      <4>1. kept[p] = a /\ Active(p) /\ Exists(p)
        BY <3>2 DEF Active
      <4>2. /\ Lives(a, rules[p]) /\ Carried(a, states[p], p)
            /\ Fires(rules[p], states[p], known) => a.timer = NoTimer /\ ~Episode(a)
        BY <1>1, <1>5, <4>1, ReactSound
      <4>3. Active(p)' <=> p \notin trips
        BY <1>1, <2>1, <3>1, <4>1 DEF Active
      <4>4. rules[p] \in Configs
        BY <4>1, SoundFacts
      <4>5. p \in trips => Fires(rules[p], states[p], known)
        OBVIOUS
      <4> HIDE DEF a, kept, trips, known
      <4>6. a.timer # NoTimer <=> Active(p)' /\ Episode(a)
        BY <4>2, <4>3, <4>5 DEF Lives, Handled, Waiting, Episode
      <4> QED BY <1>1, <1>5, <3>1, <4>1, <4>2, <4>4, <4>6, BodyHolds DEF Keeps, Lives, Dated
    <3>3. CASE p \notin heard
      <4>1. kept[p] = states[p] /\ enabled'[p] = enabled[p] /\ tripped'[p] = tripped[p]
        BY <1>2, <2>1, <3>3 DEF TypeOK
      <4>2. Keeps(p, states[p], rules)
        BY <1>1, <4>1, Untouched
      <4> QED BY <1>2, <4>1, <4>2 DEF TypeOK
    <3> QED BY <3>2, <3>3
  <2>3. kept \in [Panels -> RuleState]
    BY <2>2
  <2>4. inflight' = NoMessage /\ online' \in BOOLEAN /\ ~stopped'
    BY <1>1, <1>2, <1>5 DEF TypeOK
  <2> HIDE DEF kept, known, trips
  <2> QED BY <1>1, <1>2, <1>3, <2>1, <2>2, <2>3, <2>4, StepKeeps
<1> QED BY <1>4, <1>5

\* A panel whose rule, state and timer a step leaves alone stays sound as time passes.
LEMMA SoundKept ==
  ASSUME TypeOK, now' \in Nat, now <= now', NEW p \in Panels, Sound(p), UNCHANGED <<rules, stopped>>,
         states'[p] = states[p], enabled'[p] = enabled[p], tripped'[p] = tripped[p],
         states[p].timer # NoTimer => /\ phase'[p][states[p].timer] # "free"
                                      /\ due'[p][states[p].timer] = due[p][states[p].timer]
  PROVE  Sound(p)'
<1> DEFINE s == states[p]
<1>1. Dated(s) /\ now \in Nat
  BY DEF Sound, TypeOK
<1>2. Past(s.hits)'
  <2>1. \A i \in 1 .. Len(s.hits) : s.hits[i] \in Nat
    BY <1>1, ClockAssumption DEF Dated, Past, Times, Never
  <2> QED BY <1>1, <2>1 DEF Dated, Past, Ordered, Times
<1>3. Past(s.fires)'
  <2>1. \A i \in 1 .. Len(s.fires) : s.fires[i] \in Nat
    BY <1>1, ClockAssumption DEF Dated, Past, Times, Never
  <2> QED BY <1>1, <2>1 DEF Dated, Past, Ordered, Times
<1>4. Dated(s)'
  <2>1. s.lastFired \in Nat /\ s.trueSince \in Nat
    BY <1>1, ClockAssumption DEF Dated, RuleState, Times, Never
  <2>2. s' = s
    OBVIOUS
  <2> HIDE DEF s
  <2> QED BY <1>1, <1>2, <1>3, <2>1, <2>2 DEF Dated, RuleState, Times
<1> QED BY <1>4 DEF Sound, SinceFired, Exists, Active, Episode, Waiting

LEMMA OnSustainedTimerTimes ==
  ASSUME Timing, IInv', NEW p \in Panels, NEW i \in TimerIds, OnSustainedTimer(p, i)
  PROVE  Timing'
<1> DEFINE s == states[p]
           c == rules[p]
           s1 == [s EXCEPT !.sustainedFired = TRUE, !.timer = NoTimer]
           a == Sustained(p)
<1>1. /\ phase' = [phase EXCEPT ![p] = [phase[p] EXCEPT ![i] = "free"]]
      /\ UNCHANGED <<rules, cache, due, inflight, online, now, stopped>>
  BY DEF OnSustainedTimer, outside
<1>2. TypeOK /\ Booked' /\ Sound(p) /\ now \in 1 .. MaxTime /\ now \in Nat
  BY DEF Timing, IInv, TypeOK
<1>3. \A q \in Panels \ {p} : /\ states'[q] = states[q] /\ enabled'[q] = enabled[q]
                              /\ tripped'[q] = tripped[q] /\ phase'[q] = phase[q]
  BY <1>1, <1>2 DEF OnSustainedTimer, TypeOK
<1>4. ASSUME NEW q \in Panels, q # p PROVE Sound(q)'
  BY <1>1, <1>2, <1>3, <1>4, SoundKept DEF Sound, Timing
<1>5. CASE ~CallbackApplies(p)
  <2>1. s.timer = NoTimer
    BY <1>2, <1>5 DEF Sound, CallbackApplies, Waiting, Episode, Active
  <2>2. UNCHANGED <<states, enabled, tripped>>
    BY <1>5 DEF OnSustainedTimer
  <2> QED BY <1>1, <1>2, <2>1, <2>2, SoundKept, <1>4 DEF Timing, HasRoom, TypeOK, Booked
<1>6. CASE CallbackApplies(p)
  <2>1. states' = [states EXCEPT ![p] = a] /\ Active(p) /\ c.mode = "sustained" /\ Exists(p)
    BY <1>6 DEF OnSustainedTimer, CallbackApplies, Active
  <2>2. c \in Configs /\ s \in RuleState /\ Dated(s) /\ Waiting(s, c)
    BY <1>2, <2>1, SoundFacts DEF Sound, Dated
  <2>3. /\ s1.hits = s.hits /\ s1.fires = s.fires /\ s1.lastFired = s.lastFired
        /\ s1.trueSince = s.trueSince /\ s1.lastMatched = s.lastMatched
        /\ s1.timer = NoTimer /\ s1.sustainedFired
    BY <2>2 DEF RuleState
  <2>4. s1 \in RuleState
    <3> DEFINE s0 == [s EXCEPT !.sustainedFired = TRUE]
    <3>1. s0 \in RuleState
      BY <2>2, StateUpdate
    <3>2. [s0 EXCEPT !.timer = NoTimer] \in RuleState
      <4> HIDE DEF s0
      <4> QED BY <3>1, StateUpdate
    <3>3. s1 = [s0 EXCEPT !.timer = NoTimer]
      BY <2>2 DEF RuleState
    <3> QED BY <3>2, <3>3
  <2>5. a = TryFire(c, s1)
    BY DEF Sustained
  <2> HIDE DEF s1, a
  <2>6. Dated(s1) /\ Waiting(s1, c) /\ ~Episode(s1)
    BY <2>2, <2>3, <2>4 DEF Dated, Waiting, Episode
  <2>7. Dated(a) /\ Waiting(a, c) /\ ~Episode(a) /\ a.timer = NoTimer
    BY <1>2, <2>2, <2>3, <2>5, <2>6, TryFireSound
  <2>8. states'[p] = a /\ (Exists(p)' <=> Exists(p)) /\ a \in RuleState
    BY <1>1, <1>2, <2>1, <2>7 DEF TypeOK, Exists, Dated
  <2>9. Sound(p)'
    <3>1. Dated(states[p])' /\ (Waiting(states[p], rules[p])' <=> Waiting(a, c))
      BY <1>1, <2>7, <2>8 DEF Dated, Past, Ordered, Waiting, Times, RuleState
    <3> QED BY <1>1, <2>1, <2>7, <2>8, <3>1 DEF Sound, SinceFired, Episode
  <2>10. TypeOK'
    BY <1>1, <1>2, <2>1, <2>8 DEF TypeOK, Booked
  <2>11. ASSUME inflight' # NoMessage, NEW q \in Panels PROVE HasRoom(q)'
    BY <1>1, <1>2, <2>11 DEF Timing, HasRoom, TypeOK
  <2> QED BY <1>1, <1>4, <2>9, <2>10, <2>11 DEF Timing
<1> QED BY <1>5, <1>6

LEMMA ExpireTimes ==
  ASSUME Timing, IInv', NEW p \in Panels, NEW i \in TimerIds, Expire(p, i)
  PROVE  Timing'
<1>1. /\ phase[p][i] = "running"
      /\ phase' = [phase EXCEPT ![p] = [phase[p] EXCEPT ![i] = "expired"]]
      /\ UNCHANGED <<rules, enabled, states, tripped, cache, due, inflight, online, now, stopped>>
  BY DEF Expire, outside
<1>2. TypeOK /\ Booked' /\ now \in Nat
  BY DEF Timing, IInv, TypeOK
<1>3. TypeOK'
  BY <1>1, <1>2 DEF TypeOK, Booked
<1>4. \A q \in Panels, j \in TimerIds : /\ phase[q][j] = "free" => phase'[q][j] = "free"
                                        /\ phase[q][j] # "free" => phase'[q][j] # "free"
  BY <1>1, <1>2 DEF TypeOK
<1>5. ASSUME NEW q \in Panels PROVE Sound(q)'
  <2>1. Sound(q) /\ states[q].timer \in TimerIds \cup {NoTimer}
    BY <1>2 DEF Timing, TypeOK, RuleState
  <2> QED BY <1>1, <1>2, <1>4, <2>1, SoundKept DEF Sound
<1> QED BY <1>1, <1>3, <1>4, <1>5 DEF Timing, HasRoom

\* A step that only moves the clock, what the router holds, or what is remembered.
LEMMA OutsideTimes ==
  ASSUME Timing, IInv', UNCHANGED <<rules, enabled, states, tripped, timers, stopped>>,
         now' \in 1 .. MaxTime, now <= now', online' \in BOOLEAN,
         cache' \in [Topics -> Payloads \cup {"unknown"}],
         stopped => cache' = cache,
         inflight' \in [topic : Topics, payload : Payloads] \cup {NoMessage},
         inflight' # NoMessage => inflight # NoMessage \/ \A p \in Panels : HasRoom(p)
  PROVE  Timing'
<1>1. TypeOK /\ Booked' /\ now \in Nat
  BY DEF Timing, IInv, TypeOK
<1>2. TypeOK'
  BY <1>1 DEF TypeOK, Booked, timers
<1>3. ASSUME NEW q \in Panels PROVE Sound(q)'
  <2>1. Sound(q)
    BY DEF Timing
  <2> QED BY <1>1, <2>1, SoundKept DEF Sound, timers
<1>4. inflight' # NoMessage => \A p \in Panels : HasRoom(p)'
  BY DEF Timing, HasRoom, timers
<1> QED BY <1>2, <1>3, <1>4 DEF Timing

LEMMA PrimeCacheTimes ==
  ASSUME Timing, IInv', NEW t \in Topics, NEW v \in Payloads, PrimeCache(t, v)
  PROVE  Timing'
<1>1. ~stopped /\ cache' = [cache EXCEPT ![t] = v]
      /\ UNCHANGED <<rules, enabled, states, tripped, timers, inflight, online, now, stopped>>
  BY DEF PrimeCache, outside
<1>2. now \in 1 .. MaxTime /\ online \in BOOLEAN /\ cache \in [Topics -> Payloads \cup {"unknown"}]
      /\ inflight \in [topic : Topics, payload : Payloads] \cup {NoMessage}
  BY DEF Timing, TypeOK
<1>3. cache' \in [Topics -> Payloads \cup {"unknown"}] /\ now <= now'
  BY <1>1, <1>2
<1> QED BY <1>1, <1>2, <1>3, OutsideTimes

LEMMA DispatchTimes ==
  ASSUME Timing, IInv', NEW t \in Topics, NEW v \in Payloads, Dispatch(t, v)
  PROVE  Timing'
<1>1. /\ Open /\ inflight' = [topic |-> t, payload |-> v]
      /\ UNCHANGED <<rules, enabled, states, tripped, cache, timers, online, now, stopped>>
  BY DEF Dispatch
<1>2. now \in 1 .. MaxTime /\ online \in BOOLEAN /\ cache \in [Topics -> Payloads \cup {"unknown"}]
  BY DEF Timing, TypeOK
<1>3. \A p \in Panels : HasRoom(p)
  BY <1>1, OneFree
<1>4. inflight' \in [topic : Topics, payload : Payloads] /\ now <= now'
  BY <1>1, <1>2
<1> QED BY <1>1, <1>2, <1>3, <1>4, OutsideTimes

LEMMA TickTimes ==
  ASSUME Timing, IInv', Tick
  PROVE  Timing'
<1>1. /\ now < MaxTime /\ now' = now + 1
      /\ UNCHANGED <<rules, enabled, states, tripped, cache, timers, inflight, online, stopped>>
  BY DEF Tick
<1>2. now \in 1 .. MaxTime /\ online \in BOOLEAN /\ cache \in [Topics -> Payloads \cup {"unknown"}]
      /\ inflight \in [topic : Topics, payload : Payloads] \cup {NoMessage}
  BY DEF Timing, TypeOK
<1>3. now' \in 1 .. MaxTime /\ now <= now'
  BY <1>1, <1>2, ClockAssumption
<1> QED BY <1>1, <1>2, <1>3, OutsideTimes

LEMMA StutterTimes ==
  ASSUME Timing, IInv', UNCHANGED <<rules, enabled, states, tripped, cache, timers, inflight, now, stopped>>,
         online' \in BOOLEAN
  PROVE  Timing'
<1>1. now \in 1 .. MaxTime /\ cache \in [Topics -> Payloads \cup {"unknown"}]
      /\ inflight \in [topic : Topics, payload : Payloads] \cup {NoMessage}
  BY DEF Timing, TypeOK
<1>2. now <= now'
  BY <1>1
<1> QED BY <1>1, <1>2, OutsideTimes

LEMMA InitiallyTimed == Init => Timing
<1> SUFFICES ASSUME Init PROVE Timing
  OBVIOUS
<1>1. now = 1 /\ now \in 1 .. MaxTime
  BY ClockAssumption DEF Init
<1>2. Dated(Fresh) /\ Blank(Fresh) /\ Fresh.timer = NoTimer /\ ~Episode(Fresh) /\ SinceFired(Fresh)
  BY <1>1, FreshBlank
<1>3. TypeOK
  BY <1>1, <1>2 DEF Init, TypeOK, Dated
<1>4. ASSUME NEW p \in Panels PROVE Sound(p)
  <2>1. states[p] = Fresh /\ ~Exists(p)
    BY DEF Init, Exists
  <2> QED BY <1>2, <2>1 DEF Sound, Blank
<1> QED BY <1>3, <1>4 DEF Timing, Init

LEMMA TimingKept == Timing /\ IInv' /\ [Next]_vars => Timing'
<1> SUFFICES ASSUME Timing, IInv', [Next]_vars PROVE Timing'
  OBVIOUS
<1>1. ASSUME NEW p \in Panels, NEW c \in Configs, NEW on \in BOOLEAN, AddRule(p, c, on) PROVE Timing'
  BY <1>1, AddRuleTimes
<1>2. ASSUME NEW p \in Panels, RemoveRule(p) \/ DisableRule(p) \/ EnableRule(p) PROVE Timing'
  BY <1>2, RemoveRuleTimes, DisableRuleTimes, EnableRuleTimes
<1>3. ASSUME NEW p \in Panels, NEW i \in TimerIds, Expire(p, i) \/ OnSustainedTimer(p, i) PROVE Timing'
  BY <1>3, ExpireTimes, OnSustainedTimerTimes
<1>4. ASSUME NEW t \in Topics, NEW v \in Payloads, PrimeCache(t, v) \/ Dispatch(t, v) PROVE Timing'
  BY <1>4, PrimeCacheTimes, DispatchTimes
<1>5. ASSUME NEW up \in BOOLEAN, BrokerChanges(up) PROVE Timing'
  BY <1>5, StutterTimes DEF BrokerChanges
<1>6. CASE UNCHANGED vars
  <2>1. online' \in BOOLEAN
    BY <1>6 DEF vars, outside, Timing, TypeOK
  <2> QED BY <1>6, <2>1, StutterTimes DEF vars, outside
<1> QED
  BY <1>1, <1>2, <1>3, <1>4, <1>5, <1>6, HandleMessageTimes, ClearAllRulesTimes, StopTimes, TickTimes
     DEF Next

LEMMA AlwaysTimed == Spec => [](IInv /\ Timing)
<1>1. Init => IInv /\ Timing
  BY Initially, InitiallyTimed
<1>2. (IInv /\ Timing) /\ [Next]_vars => (IInv /\ Timing)'
  BY Invariance, TimingKept
<1> QED BY <1>1, <1>2, PTL DEF Spec

\* The engine's state has its shape through every call, message, timer and trip; in
\* particular there is a timer for each episode that begins.
THEOREM TypeCorrect == Spec => []TypeOK
<1>1. Timing => TypeOK
  BY DEF Timing
<1> QED BY <1>1, AlwaysTimed, PTL

\* Whatever stale callbacks, edits and toggles came before, a sustained rule whose
\* condition holds and that has not fired has a live timer, due at the right time.
THEOREM EpisodesAreTimed == Spec => []Armed
<1>1. ASSUME Timing PROVE Armed
  <2> SUFFICES ASSUME NEW p \in Panels
               PROVE  /\ Holding(p) => states[p].timer # NoTimer
                      /\ states[p].timer # NoTimer =>
                           /\ phase[p][states[p].timer] # "free" /\ states[p].trueSince # Never
                           /\ due[p][states[p].timer] = states[p].trueSince + rules[p].hold
    BY DEF Armed
  <2>1. Sound(p)
    BY <1>1 DEF Timing
  <2> QED BY <2>1 DEF Sound, Holding, Episode, Waiting, Active
<1> QED BY <1>1, AlwaysTimed, PTL

\* A count rule waits with fewer hits than it needs, all of its window and in order.
THEOREM CountsInWindow == Spec => []CountWaits
<1>1. ASSUME Timing PROVE CountWaits
  <2> SUFFICES ASSUME NEW p \in Panels
               PROVE  LET h == states[p].hits IN
                      /\ h # <<>> => /\ Exists(p) /\ rules[p].mode = "count" /\ Len(h) < rules[p].need
                                     /\ h[Len(h)] - h[1] < rules[p].window
                      /\ \A i \in 1 .. Len(h) - 1 : h[i] <= h[i + 1]
    BY DEF CountWaits
  <2>1. Sound(p) /\ Past(states[p].hits)
    BY <1>1 DEF Timing, Sound, Dated
  <2>2. \A i \in 1 .. Len(states[p].hits) - 1 : states[p].hits[i] <= states[p].hits[i + 1]
    BY <2>1 DEF Past, Ordered
  <2> QED BY <2>1, <2>2 DEF Sound, Waiting
<1> QED BY <1>1, AlwaysTimed, PTL

-----------------------------------------------------------------------------
(* What each operation does to a rule's publications.                          *)
\* What a step may do to the publications of a rule: nothing, forget the old ones, or
\* add one, outside the cool-down and, for a sustained rule, in an episode.
Change(p) ==
  LET s == states[p]
      a == states'[p]
      recent == InWindow(s.fires, Second) IN
  \/ a.fires = s.fires /\ a.lastFired = s.lastFired
  \/ a.fires = recent /\ a.lastFired = s.lastFired
  \/ /\ a.fires = Append(recent, now) /\ a.lastFired = now
     /\ ~Cooling(rules[p], s) /\ (rules[p].mode = "sustained" => Episode(s))

\* A panel whose state a step leaves alone.
LEMMA Still ==
  ASSUME NEW p \in Panels, states'[p] = states[p]
  PROVE  Change(p)
  BY DEF Change

LEMMA AddRuleChange ==
  ASSUME Timing, NEW q \in Panels, NEW c \in Configs, NEW on \in BOOLEAN, AddRule(q, c, on),
         NEW p \in Panels
  PROVE  Change(p)
<1> DEFINE a == IF on THEN EvaluateInitial(q, c, Edited(q), cache) ELSE Edited(q)
<1>1. states' = [states EXCEPT ![q] = a] /\ Open
  BY DEF AddRule, Store
<1>2. TypeOK /\ now \in 1 .. MaxTime /\ HasRoom(q) /\ Dated(states[q])
  BY <1>1, OneFree DEF Timing, TypeOK, Sound
<1>3. /\ Dated(Edited(q)) /\ Blank(Edited(q)) /\ Edited(q).timer = NoTimer
      /\ Edited(q).fires = states[q].fires /\ Edited(q).lastFired = states[q].lastFired
  BY <1>2, KeptBlank
<1>4. a.fires = states[q].fires /\ a.lastFired = states[q].lastFired
  BY <1>2, <1>3, InitialSound
<1> HIDE DEF a
<1>5. CASE p = q
  <2>1. states'[p] = a
    BY <1>1, <1>2, <1>5 DEF TypeOK
  <2> QED BY <1>4, <1>5, <2>1 DEF Change
<1>6. CASE p # q
  BY <1>1, <1>2, <1>6, Still DEF TypeOK
<1> QED BY <1>5, <1>6

LEMMA EnableRuleChange ==
  ASSUME Timing, NEW q \in Panels, EnableRule(q), NEW p \in Panels
  PROVE  Change(p)
<1> DEFINE a == EvaluateInitial(q, rules[q], Idle(q), cache)
<1>1. states' = [states EXCEPT ![q] = a] /\ Open /\ Exists(q) /\ ~enabled[q]
  BY DEF EnableRule, Store
<1>2. TypeOK /\ now \in 1 .. MaxTime /\ HasRoom(q) /\ Dated(states[q]) /\ rules[q] \in Configs
      /\ states[q].timer = NoTimer
  BY <1>1, OneFree DEF Timing, TypeOK, Sound, Exists, Active
<1>3. /\ Dated(Idle(q)) /\ Blank(Idle(q)) /\ Idle(q).timer = NoTimer
      /\ Idle(q).fires = states[q].fires /\ Idle(q).lastFired = states[q].lastFired
  BY <1>2, KeptBlank
<1>4. a.fires = states[q].fires /\ a.lastFired = states[q].lastFired
  BY <1>2, <1>3, InitialSound
<1> HIDE DEF a
<1>5. CASE p = q
  <2>1. states'[p] = a
    BY <1>1, <1>2, <1>5 DEF TypeOK
  <2> QED BY <1>4, <1>5, <2>1 DEF Change
<1>6. CASE p # q
  BY <1>1, <1>2, <1>6, Still DEF TypeOK
<1> QED BY <1>5, <1>6

LEMMA DisableRuleChange ==
  ASSUME Timing, NEW q \in Panels, DisableRule(q), NEW p \in Panels
  PROVE  Change(p)
<1>1. states' = [states EXCEPT ![q] = [Idle(q) EXCEPT !.timer = NoTimer]]
  BY DEF DisableRule, Store
<1>2. TypeOK /\ now \in 1 .. MaxTime /\ Dated(states[q])
  BY DEF Timing, TypeOK, Sound
<1>3. /\ Idle(q) \in RuleState
      /\ Idle(q).fires = states[q].fires /\ Idle(q).lastFired = states[q].lastFired
  BY <1>2, KeptBlank DEF Dated
<1>4. CASE p = q
  <2>1. states'[p] = [Idle(q) EXCEPT !.timer = NoTimer]
    BY <1>1, <1>2, <1>4 DEF TypeOK
  <2>2. states'[p].fires = Idle(q).fires /\ states'[p].lastFired = Idle(q).lastFired
    BY <1>3, <2>1 DEF RuleState
  <2> QED BY <1>3, <1>4, <2>2 DEF Change
<1>5. CASE p # q
  BY <1>1, <1>2, <1>5, Still DEF TypeOK
<1> QED BY <1>4, <1>5

LEMMA StopChange ==
  ASSUME Timing, Stop, NEW p \in Panels
  PROVE  Change(p)
<1>1. states'[p] = [states[p] EXCEPT !.timer = NoTimer] /\ states[p] \in RuleState
  BY DEF Stop, Timing, TypeOK
<1>2. states'[p].fires = states[p].fires /\ states'[p].lastFired = states[p].lastFired
  BY <1>1 DEF RuleState
<1> QED BY <1>2 DEF Change

LEMMA HandleMessageChange ==
  ASSUME Timing, HandleMessage, NEW p \in Panels
  PROVE  Change(p)
<1> DEFINE known == [cache EXCEPT ![inflight.topic] = inflight.payload]
           heard == {q \in topicRules[inflight.topic] : Active(q)}
<1>1. CASE stopped \/ p \notin heard
  <2>1. states'[p] = states[p]
    BY <1>1 DEF HandleMessage
  <2> QED BY <2>1, Still
<1>2. CASE ~stopped /\ p \in heard
  <2>1. states'[p] = React(p, known) /\ Active(p) /\ inflight # NoMessage
    BY <1>2 DEF HandleMessage
  <2> HIDE DEF known
  <2> QED BY <1>2, <2>1, ReactSound DEF Change
<1> QED BY <1>1, <1>2

LEMMA OnSustainedTimerChange ==
  ASSUME Timing, NEW q \in Panels, NEW i \in TimerIds, OnSustainedTimer(q, i), NEW p \in Panels
  PROVE  Change(p)
<1>1. TypeOK
  BY DEF Timing
<1>2. CASE ~CallbackApplies(q) \/ p # q
  <2>1. states'[p] = states[p]
    BY <1>1, <1>2 DEF OnSustainedTimer, TypeOK
  <2> QED BY <2>1, Still
<1>3. CASE CallbackApplies(q) /\ p = q
  <2> DEFINE s == states[p]
             c == rules[p]
             s0 == [s EXCEPT !.sustainedFired = TRUE]
             s1 == [s EXCEPT !.sustainedFired = TRUE, !.timer = NoTimer]
  <2>1. c \in Configs /\ Dated(s) /\ Waiting(s, c) /\ s \in RuleState /\ Episode(s) /\ now \in 1 .. MaxTime
    BY <1>3 DEF CallbackApplies, Active, Exists, Timing, TypeOK, Sound, Dated, Episode
  <2>2. states'[p] = TryFire(c, s1)
    BY <1>1, <1>3 DEF OnSustainedTimer, Sustained, TypeOK
  <2>3. /\ s1.hits = s.hits /\ s1.fires = s.fires /\ s1.lastFired = s.lastFired
        /\ s1.trueSince = s.trueSince /\ s1.lastMatched = s.lastMatched
        /\ s1.timer = NoTimer /\ s1.sustainedFired
    BY <2>1 DEF RuleState
  <2>4. s1 \in RuleState
    <3>1. s0 \in RuleState
      BY <2>1, StateUpdate
    <3>2. [s0 EXCEPT !.timer = NoTimer] \in RuleState
      <4> HIDE DEF s0
      <4> QED BY <3>1, StateUpdate
    <3>3. s1 = [s0 EXCEPT !.timer = NoTimer]
      BY <2>1 DEF RuleState
    <3> QED BY <3>2, <3>3
  <2> HIDE DEF s1
  <2>5. Dated(s1) /\ Waiting(s1, c) /\ ~Episode(s1) /\ (Cooling(c, s1) <=> Cooling(c, s))
    BY <2>1, <2>3, <2>4 DEF Dated, Waiting, Episode, Cooling
  <2>6. LET a == TryFire(c, s1) IN
        \/ a.fires = s1.fires /\ a.lastFired = s1.lastFired
        \/ a.fires = InWindow(s1.fires, Second) /\ a.lastFired = s1.lastFired
        \/ /\ a.fires = Append(InWindow(s1.fires, Second), now) /\ a.lastFired = now
           /\ ~Cooling(c, s1)
    BY <2>1, <2>3, <2>5, TryFireSound
  <2> QED BY <2>1, <2>2, <2>3, <2>5, <2>6 DEF Change
<1> QED BY <1>2, <1>3

\* Every step leaves the publications of a rule that survives it alone, or adds one
\* that is due.
LEMMA StepsPublish ==
  ASSUME Timing, [Next]_vars, NEW p \in Panels, Exists(p), rules'[p] # NoRule
  PROVE  Change(p)
<1>1. CASE \E q \in Panels, c \in Configs, on \in BOOLEAN : AddRule(q, c, on)
  BY <1>1, AddRuleChange
<1>2. CASE \E q \in Panels : RemoveRule(q)
  <2>1. PICK q \in Panels : RemoveRule(q)
    BY <1>2
  <2>2. p # q
    BY <2>1 DEF RemoveRule, Timing, TypeOK
  <2> QED BY <2>1, <2>2, Still DEF RemoveRule, Store, Timing, TypeOK
<1>3. CASE \E q \in Panels : DisableRule(q) \/ EnableRule(q)
  BY <1>3, DisableRuleChange, EnableRuleChange
<1>4. CASE \E q \in Panels, i \in TimerIds : OnSustainedTimer(q, i)
  BY <1>4, OnSustainedTimerChange
<1>5. CASE UNCHANGED states
  BY <1>5, Still
<1>6. CASE ClearAllRules
  BY <1>6 DEF ClearAllRules
<1>7. CASE HandleMessage \/ Stop
  BY <1>7, HandleMessageChange, StopChange
<1> QED
  BY <1>1, <1>2, <1>3, <1>4, <1>5, <1>6, <1>7
     DEF Next, Expire, PrimeCache, Dispatch, Tick, BrokerChanges, vars

\* A step that adds no publication is not mistaken for one.
LEMMA NotAppended ==
  ASSUME NEW times, Past(times), now \in 1 .. MaxTime, NEW after,
         after = times \/ after = InWindow(times, Second)
  PROVE  after # Append(InWindow(times, Second), now)
<1> DEFINE k == WindowStart(times, Second)
           recent == InWindow(times, Second)
<1>1. /\ times \in Seq(Times) /\ Ordered(times) /\ \A i \in 1 .. Len(times) : times[i] <= now
      /\ Second \in Nat \ {0} /\ now \in Nat /\ now \in Times
  BY ClockAssumption DEF Past, Times, Never
<1>2. k \in 1 .. Len(times) + 1 /\ \A i \in 1 .. Len(times) : times[i] > now - Second <=> i >= k
  BY <1>1, WindowStarts
<1>3. recent = SubSeq(times, k, Len(times))
  BY DEF InWindow
<1> HIDE DEF k, recent
<1>4. recent \in Seq(Times) /\ Len(recent) = Len(times) + 1 - k
  BY <1>1, <1>2, <1>3
<1>5. Len(Append(recent, now)) = Len(recent) + 1 /\ Append(recent, now)[Len(recent) + 1] = now
  BY <1>1, <1>4
<1>6. after = recent => after # Append(recent, now)
  BY <1>4, <1>5
<1>7. ASSUME after = times, times = Append(recent, now) PROVE FALSE
  <2>1. Len(times) = Len(recent) + 1 /\ k = 2 /\ Len(times) \in Nat
    BY <1>1, <1>2, <1>4, <1>5, <1>7
  <2>2. 1 \in 1 .. Len(times) /\ times[1] \in Nat /\ ~(times[1] > now - Second)
    BY <1>1, <1>2, <2>1, ClockAssumption DEF Times, Never
  <2>3. Len(times) = 1 => times[1] = now
    BY <1>5, <1>7, <2>1
  <2>4. Len(times) > 1 => times[1] = recent[1] /\ recent[1] = times[2] /\ times[2] > now - Second
    <3> SUFFICES ASSUME Len(times) > 1
                 PROVE  times[1] = recent[1] /\ recent[1] = times[2] /\ times[2] > now - Second
      OBVIOUS
    <3>1. 1 \in 1 .. Len(recent) /\ 2 \in 1 .. Len(times)
      BY <2>1
    <3>2. recent[1] = times[2]
      BY <1>1, <1>3, <2>1, <3>1
    <3>3. Append(recent, now)[1] = recent[1]
      BY <1>1, <1>4, <3>1
    <3> QED BY <1>2, <1>7, <2>1, <3>1, <3>2, <3>3
  <2> QED BY <1>1, <2>1, <2>2, <2>3, <2>4
<1>8. after # Append(recent, now)
  BY <1>6, <1>7 DEF recent
<1> QED BY <1>8 DEF recent

\* A rule that publishes in a step is outside its cool-down, and in an episode if it
\* is a sustained one.
LEMMA FiredDue ==
  ASSUME Timing, [Next]_vars, NEW p \in Panels, Fired(p)
  PROVE  ~Cooling(rules[p], states[p]) /\ (rules[p].mode = "sustained" => Episode(states[p]))
<1>1. Past(states[p].fires) /\ now \in 1 .. MaxTime
  BY DEF Timing, Sound, Dated, TypeOK
<1>2. Exists(p) /\ rules'[p] # NoRule /\ states'[p].fires = Append(InWindow(states[p].fires, Second), now)
  BY DEF Fired
<1>3. Change(p)
  BY <1>2, StepsPublish
<1> QED BY <1>1, <1>2, <1>3, NotAppended DEF Change

\* A sustained rule publishes at most once while its condition goes on holding,
\* whichever timers earlier episodes left over.
THEOREM FiresOncePerEpisode == Spec => OncePerEpisode
<1>1. ASSUME Timing, [Next]_vars
      PROVE  [\A p \in Panels : Fired(p) /\ rules[p].mode = "sustained"
                => states[p].lastFired <= states[p].trueSince]_vars
  <2>1. ASSUME NEW p \in Panels, Fired(p), rules[p].mode = "sustained"
        PROVE  states[p].lastFired <= states[p].trueSince
    BY <1>1, <2>1, FiredDue DEF Timing, Sound, SinceFired
  <2> QED BY <2>1
<1> QED BY <1>1, AlwaysTimed, PTL DEF Spec, OncePerEpisode

\* No rule publishes within its cool-down, and no edit, toggle or trip makes the
\* engine forget when it last published.
THEOREM RespectsCooldown == Spec => CooldownKept
<1>1. ASSUME Timing, [Next]_vars, NEW p \in Panels, Exists(p), rules'[p] # NoRule
      PROVE  /\ states'[p].lastFired >= states[p].lastFired
             /\ Fired(p) /\ states[p].lastFired # Never
                  => now - states[p].lastFired >= rules[p].cooldown
  <2>1. /\ states[p].lastFired \in Nat /\ now \in Nat /\ states[p].lastFired <= now
        /\ rules[p].cooldown \in Nat
    BY <1>1, ClockAssumption, ConfigsAssumption
       DEF Timing, Sound, Dated, RuleState, Times, Never, TypeOK, Exists, Config
  <2>2. Change(p)
    BY <1>1, StepsPublish
  <2>3. states'[p].lastFired >= states[p].lastFired
    BY <2>1, <2>2 DEF Change
  <2>4. Fired(p) => ~Cooling(rules[p], states[p])
    BY <1>1, FiredDue
  <2> QED BY <2>1, <2>3, <2>4 DEF Cooling
<1>2. Timing /\ [Next]_vars
      => [\A p \in Panels : Exists(p) /\ rules'[p] # NoRule
            => /\ states'[p].lastFired >= states[p].lastFired
               /\ Fired(p) /\ states[p].lastFired # Never
                    => now - states[p].lastFired >= rules[p].cooldown]_vars
  BY <1>1
<1> QED BY <1>2, AlwaysTimed, PTL DEF Spec, CooldownKept

\* A rule publishes at most Ceiling times in any second, through every edit and toggle.
THEOREM PublishesUnderCeiling == Spec => CeilingHolds
<1>1. ASSUME Timing, Timing', [Next]_vars, NEW p \in Panels, Exists(p), rules'[p] # NoRule
      PROVE  /\ Len(InWindow(states'[p].fires, Second)) <= Ceiling
             /\ IsPrefix(InWindow(states[p].fires, Second), InWindow(states'[p].fires, Second))
  <2> DEFINE f == states[p].fires
             g == states'[p].fires
             recent == InWindow(f, Second)
  <2>1. /\ Past(f) /\ Len(f) <= Ceiling /\ Len(g) <= Ceiling /\ Ceiling \in Nat
        /\ Second \in Nat \ {0} /\ now \in Nat /\ now \in Times
    BY <1>1, ClockAssumption DEF Timing, Sound, Dated, TypeOK, Times, Never
  <2>2. Past(recent) /\ Len(recent) <= Len(f) /\ \A i \in 1 .. Len(recent) : recent[i] > now - Second
    BY <2>1, WindowPast
  <2>3. f \in Seq(Times) /\ recent \in Seq(Times)
    BY <2>1, <2>2 DEF Past
  <2>4. g = f \/ g = recent \/ g = Append(recent, now)
    BY <1>1, StepsPublish DEF Change
  <2>5. InWindow(recent, Second) = recent
    BY <2>1, <2>2, WindowWhole
  <2>6. InWindow(Append(recent, now), Second) = Append(recent, now)
    <3>1. Past(Append(recent, now))
      BY <2>1, <2>2, PastAppended
    <3> HIDE DEF recent
    <3>2. \A i \in 1 .. Len(Append(recent, now)) : Append(recent, now)[i] > now - Second
      BY <2>1, <2>2, <2>3
    <3> QED BY <2>1, <3>1, <3>2, WindowWhole
  <2> HIDE DEF f, g, recent
  <2>7. SubSeq(recent, 1, Len(recent)) = SubSeq(Append(recent, now), 1, Len(recent))
    BY <2>1, <2>3
  <2>8. Len(Append(recent, now)) = Len(recent) + 1
    BY <2>3
  <2>9. /\ IsPrefix(recent, recent) /\ IsPrefix(recent, Append(recent, now))
    BY <2>3, <2>7, <2>8 DEF IsPrefix
  <2>10. \/ InWindow(g, Second) = recent
         \/ InWindow(g, Second) = Append(recent, now) /\ g = Append(recent, now)
    <3>1. InWindow(f, Second) = recent
      BY DEF recent
    <3> QED BY <2>4, <2>5, <2>6, <3>1
  <2>11. Len(recent) <= Ceiling
    BY <2>1, <2>2, <2>3 DEF Past
  <2>12. Len(InWindow(g, Second)) <= Ceiling /\ IsPrefix(recent, InWindow(g, Second))
    BY <2>1, <2>9, <2>10, <2>11
  <2> QED BY <2>12 DEF f, g, recent
<1>2. Timing /\ Timing' /\ [Next]_vars
      => [\A p \in Panels : Exists(p) /\ rules'[p] # NoRule
            => /\ Len(InWindow(states'[p].fires, Second)) <= Ceiling
               /\ IsPrefix(InWindow(states[p].fires, Second), InWindow(states'[p].fires, Second))]_vars
  BY <1>1
<1> QED BY <1>2, AlwaysTimed, PTL DEF Spec, CeilingHolds
=============================================================================
