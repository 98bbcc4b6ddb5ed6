---------------------------- MODULE LogicRuleEditor ----------------------------
(***************************************************************************)
(* The window in which a logic rule is edited (LogicConfigModal in         *)
(* components/panels/LogicPanel.tsx, with the cards it is made of), and    *)
(* its trip to the explorer to pick a topic: the window goes, its draft    *)
(* travels through the session storage, and the window is built anew from  *)
(* the draft and the topic that was picked.                                *)
(*                                                                         *)
(* The target is its list of topics, of which one may be empty: a comma    *)
(* with nothing before or after it.  The count and the cool-down are in    *)
(* tenths of the unit that is typed, so that a fraction is one.  Left out: *)
(* texts and previews, the payload, QoS and retain, which travel as the    *)
(* enabled switch does, and the two durations, which do so as the count.   *)
(***************************************************************************)
EXTENDS LogicUtils, SequencesExt

CONSTANTS Brokers,        \* broker ids; the first of a page's list is Fallback
          Fallback,
          Filters,        \* topics and filters to type as a condition's
          Targets,        \* topics to type as a target
          Values,         \* texts to compare with
          Floats,         \* those that Go's ParseFloat reads as numbers
          Cooldowns,      \* numbers to type as the cool-down
          OfferedOperators, \* operators to choose
          Stored,         \* configurations a panel may have to begin with
          MaxConditions, MaxEdits, MaxTrips

Modes == {"on_change", "count"}
NoIndex == 0
TargetEnd == -1

VARIABLES config,         \* the panel's stored configuration
          panelBroker,    \* and broker
          page,           \* "dashboard", "editor" or "explorer"
          form,           \* the fields of the open window
          draft,          \* topicPickerOutbound: the configuration drafted
          picking,        \* its _picking: a condition, TargetEnd, or NoIndex
          left,           \* the form as it was when the user went to pick, or <<>>
          edits, trips
vars == <<config, panelBroker, page, form, draft, picking, left, edits, trips>>

Or(broker, other) == IF broker = NoBroker THEN other ELSE broker
Condition(topic, broker, join) ==
    [topic |-> topic, broker |-> broker, op |-> "gt", value |-> "30", field |-> "", join |-> join]

(* Topics are sequences of levels, and a stored rule has the fields that a  *)
(* saved one has, or no conditions, as one of before there were any.       *)
EmptyEntry == <<"">>
Topics == Filters \cup Targets \cup {NoTopic, EmptyEntry}
StoredTexts ==
    UNION {{r.conditions[i].value : i \in DOMAIN r.conditions}
             \cup {r.conditions[i].field : i \in DOMAIN r.conditions} : r \in Stored}
Texts == Values \cup {"30", ""} \cup StoredTexts
Operators == {"eq", "ne", "gt", "gte", "lt", "lte", "contains", "any", "exists"}
FormConditions == [topic : Topics, broker : Brokers \cup {NoBroker}, op : Operators, value : Texts,
               field : Texts, join : {"", "and", "or"}]
Rules == [source : Topics, sourceBroker : Brokers \cup {NoBroker}, conditions : Seq(FormConditions),
          target : Seq(Topics), targetBroker : Brokers \cup {NoBroker}, mode : Modes, count : Nat,
          cooldown : Int, match : {"all", "any"}, enabled : BOOLEAN]
RulesFit ==
    /\ OfferedOperators \subseteq Operators
    /\ MaxConditions \in Nat \ {0} /\ Cooldowns \subseteq Int /\ Fallback \in Brokers \cup {NoBroker}
    /\ \A t \in Topics : t \in Seq({t[i] : i \in DOMAIN t})
    /\ \A r \in Stored : r \in Rules /\ Len(r.conditions) <= MaxConditions

-----------------------------------------------------------------------------
(* The state a window starts with: from the configuration, in which a      *)
(* draft has replaced the stored keys, and from what was picked.           *)
StartConditions(c) ==
    IF c.conditions = <<>> THEN <<Condition(c.source, c.sourceBroker, "")>>
    ELSE IF c.conditions[1].topic = NoTopic /\ c.source # NoTopic
    THEN [c.conditions EXCEPT ![1].topic = c.source, ![1].broker = Or(@, c.sourceBroker)]
    ELSE c.conditions
Picked(conditions, at, topic, broker) ==
    IF at \in DOMAIN conditions
    THEN [conditions EXCEPT ![at].topic = topic, ![at].broker = Or(broker, @)]
    ELSE conditions
Form(c, at, topic, broker) ==
    LET sb == Or(panelBroker, Or(c.sourceBroker, Fallback)) IN
    [conditions |-> Picked(StartConditions(c), at, topic, broker),
     sourceBrokerId |-> sb,
     target |-> IF at = TargetEnd THEN <<topic>> ELSE c.target,
     targetBrokerId |-> IF at = TargetEnd THEN Or(broker, Or(c.targetBroker, sb)) ELSE c.targetBroker,
     mode |-> c.mode, count |-> c.count, cooldown |-> c.cooldown, match |-> c.match, enabled |-> c.enabled]

primaryTopic(f) == f.conditions[1].topic
primaryBrokerId(f) == Or(f.conditions[1].broker, Or(f.sourceBrokerId, Fallback))

(* What the cards show and offer. *)
ShownJoin(f, i) == IF f.conditions[i].join = "" THEN "and" ELSE f.conditions[i].join
ShownMode(f) == [mode |-> f.mode, count |-> IF f.mode = "count" THEN f.count ELSE 0]

-----------------------------------------------------------------------------
(* Validation, in the order in which the footer names the first broken     *)
(* rule.                                                                   *)
HasWildcards(topic) == \E i \in DOMAIN topic : topic[i] \in {"+", "#"}
loopConflict(f) ==
    \E i \in DOMAIN f.conditions :
        LET c == f.conditions[i]
            filter == IF c.topic = NoTopic THEN primaryTopic(f) ELSE c.topic
        IN /\ Or(f.targetBrokerId, primaryBrokerId(f)) = Or(c.broker, primaryBrokerId(f))
           /\ filter # NoTopic
           /\ \E t \in DOMAIN f.target : mqttTopicMatches(filter, f.target[t])
Ordering == {"gt", "lt", "gte", "lte"}
invalidNumericCondition(f) ==
    \E i \in DOMAIN f.conditions :
        f.conditions[i].op \in Ordering /\ f.conditions[i].value \notin DOMAIN Numbers
blockerReason(f) ==
    IF Brokers = {} THEN "brokers"
    ELSE IF primaryTopic(f) = NoTopic THEN "condition topic"
    ELSE IF f.target = <<>> THEN "target topic"
    ELSE IF \E t \in DOMAIN f.target : HasWildcards(f.target[t]) THEN "wildcard"
    ELSE IF loopConflict(f) THEN "loop"
    ELSE IF invalidNumericCondition(f) THEN "numeric" ELSE "none"
(* The configuration the form amounts to. *)
Config(f) ==
    [source |-> primaryTopic(f), sourceBroker |-> primaryBrokerId(f), conditions |-> f.conditions,
     target |-> f.target, targetBroker |-> f.targetBrokerId, mode |-> f.mode,
     count |-> f.count, cooldown |-> f.cooldown, match |-> f.match, enabled |-> f.enabled]
DefaultCount == 50
finalConfig(f) == [Config(f) EXCEPT !.count = IF f.mode = "count" THEN f.count ELSE DefaultCount]

-----------------------------------------------------------------------------
NoForm == [conditions |-> <<>>, sourceBrokerId |-> "", target |-> <<>>, targetBrokerId |-> "",
           mode |-> "on_change", count |-> DefaultCount, cooldown |-> 0, match |-> "all", enabled |-> FALSE]
Init ==
    /\ config \in Stored /\ panelBroker = config.sourceBroker
    /\ page = "dashboard" /\ form = NoForm
    /\ draft = <<>> /\ picking = NoIndex /\ left = <<>>
    /\ edits = 0 /\ trips = 0

(* A dashboard that is opened after an abandoned pick knows nothing of it. *)
Open ==
    /\ page = "dashboard"
    /\ form' = Form(config, NoIndex, NoTopic, NoBroker)
    /\ page' = "editor"
    /\ UNCHANGED <<config, panelBroker, draft, picking, left, edits, trips>>

Edit(f) ==
    /\ page = "editor" /\ edits < MaxEdits /\ f # form
    /\ form' = f /\ edits' = edits + 1 /\ left' = <<>>
    /\ UNCHANGED <<config, panelBroker, page, draft, picking, trips>>
handleConditionChange(i, c) == Edit([form EXCEPT !.conditions[i] = c])

handleAddCondition ==
    /\ Len(form.conditions) < MaxConditions
    /\ Edit([form EXCEPT !.conditions = Append(@, Condition(NoTopic, NoBroker, "and"))])
Removed(conditions, i) ==
    LET next == RemoveAt(conditions, i) IN [next EXCEPT ![1].join = ""]
handleRemoveCondition(i) ==
    /\ Len(form.conditions) > 1
    /\ Edit([form EXCEPT !.conditions = Removed(@, i)])

ChooseJoin(i) == \E j \in {"and", "or"} :
    i > 1 /\ handleConditionChange(i, [form.conditions[i] EXCEPT !.join = j])
(* The first condition's broker is the rule's; another that names the same *)
(* one names none.                                                         *)
ChooseBroker(i) == \E b \in Brokers :
    Edit([form EXCEPT
            !.conditions[i].broker = IF i # 1 /\ b = primaryBrokerId(form) THEN NoBroker ELSE b,
            !.sourceBrokerId = IF i = 1 THEN b ELSE @])
TypeTopic(i) == \E t \in Filters \cup {NoTopic} :
    handleConditionChange(i, [form.conditions[i] EXCEPT !.topic = t])
ChooseOperator(i) == \E op \in OfferedOperators, v \in Values :
    /\ op \in {"exists", "any"} => v = form.conditions[i].value
    /\ handleConditionChange(i, [form.conditions[i] EXCEPT !.op = op, !.value = v])
ChooseMode == \E m \in Modes, n \in {DefaultCount, 75} :
    /\ m # "count" => n = form.count
    /\ Edit([form EXCEPT !.mode = m, !.count = n])
TypeTarget == \E t \in {<<x>> : x \in Targets} \cup {<<EmptyEntry, EmptyEntry>>} :
    Edit([form EXCEPT !.target = t])
TypeCooldown == \E n \in Cooldowns : Edit([form EXCEPT !.cooldown = n])
ChooseTargetBroker == \E b \in Brokers : Edit([form EXCEPT !.targetBrokerId = b])
ToggleEnabled == Edit([form EXCEPT !.enabled = ~@])
EditCondition(i) ==
    \/ handleRemoveCondition(i) \/ ChooseJoin(i) \/ ChooseBroker(i) \/ TypeTopic(i)
    \/ ChooseOperator(i)

Close == page' = "dashboard" /\ form' = NoForm /\ left' = <<>>
(* Cancel, Escape and the backdrop. *)
Cancel == page = "editor" /\ Close /\ UNCHANGED <<config, panelBroker, draft, picking, edits, trips>>
handleSave ==
    /\ page = "editor" /\ blockerReason(form) = "none"
    /\ config' = finalConfig(form) /\ panelBroker' = primaryBrokerId(form)
    /\ Close /\ UNCHANGED <<draft, picking, edits, trips>>

(* onPickTopic: the draft goes with the user. *)
Pick(at) ==
    /\ page = "editor" /\ trips < MaxTrips /\ trips' = trips + 1
    /\ draft' = <<Config(form)>> /\ picking' = at /\ left' = <<form>>
    /\ page' = "explorer" /\ form' = NoForm
    /\ UNCHANGED <<config, panelBroker, edits>>
(* Confirm & Return: the dashboard opens the window on the draft. *)
Return(topic, broker) ==
    /\ page = "explorer" /\ draft # <<>>
    /\ form' = Form(draft[1], picking, topic, broker)
    /\ page' = "editor" /\ draft' = <<>>
    /\ UNCHANGED <<config, panelBroker, picking, left, edits, trips>>
(* Cancel Picker, and leaving the explorer by the menu. *)
Abandon ==
    /\ page = "explorer" /\ Close /\ draft' = <<>> /\ picking' = NoIndex
    /\ UNCHANGED <<config, panelBroker, edits, trips>>

Next ==
    \/ Open \/ Cancel \/ handleSave \/ Abandon
    \/ handleAddCondition \/ ChooseMode \/ TypeTarget \/ TypeCooldown \/ ChooseTargetBroker \/ ToggleEnabled
    \/ \E i \in DOMAIN form.conditions : EditCondition(i) \/ Pick(i)
    \/ Pick(TargetEnd)
    \/ \E t \in Filters \cup Targets, b \in Brokers : Return(t, b)
Spec == Init /\ [][Next]_vars

-----------------------------------------------------------------------------
(* The engine's ValidateRule (logic/eval.go), for the rule that UpdatePanel *)
(* makes of a configuration; one whose numbers are not whole it does not   *)
(* make a rule of.                                                         *)
Whole(n) == n % 10 = 0
Accepts(c) ==
    LET Matched(f, t) == mqttTopicMatches(f, t) \/ mqttTopicMatches(t, f)
        target == Or(c.targetBroker, c.sourceBroker)
        entries == {c.target[t] : t \in DOMAIN c.target} \ {EmptyEntry}
    IN /\ c.source # NoTopic /\ entries # {}
       /\ \A t \in entries :
            /\ ~HasWildcards(t)
            /\ target = c.sourceBroker => ~Matched(c.source, t)
            /\ \A i \in DOMAIN c.conditions :
                 target = Or(c.conditions[i].broker, c.sourceBroker) =>
                   ~Matched(IF c.conditions[i].topic = NoTopic THEN c.source ELSE c.conditions[i].topic, t)
       /\ \A i \in DOMAIN c.conditions : c.conditions[i].op \in Ordering => c.conditions[i].value \in Floats
       /\ c.cooldown >= 0 /\ Whole(c.cooldown) /\ Whole(c.count)

(* What the window checks less of than the engine: a target of nothing but *)
(* commas, a number to compare with that only JavaScript takes (a blank,   *)
(* or 0x1E), a cool-down below zero, and fractions.                        *)
Lenient(c) ==
    \/ \A t \in DOMAIN c.target : c.target[t] = EmptyEntry
    \/ \E i \in DOMAIN c.conditions :
         c.conditions[i].op \in Ordering /\ c.conditions[i].value \in DOMAIN Numbers \ Floats
    \/ c.cooldown < 0 \/ ~Whole(c.cooldown) \/ ~Whole(c.count)

TypeOK ==
    /\ page \in {"dashboard", "editor", "explorer"} /\ (page = "editor") = (form.conditions # <<>>)
    /\ Len(form.conditions) <= MaxConditions
    /\ \A i \in DOMAIN form.conditions :
         /\ form.conditions[i].topic \in Topics
         /\ form.conditions[i].broker \in Brokers \cup {NoBroker}
         /\ form.conditions[i].join \in {"", "and", "or"}
    /\ form.mode \in Modes /\ form.targetBrokerId \in Brokers \cup {NoBroker}
    /\ (page = "explorer") = (draft # <<>>)
    /\ picking \in {NoIndex, TargetEnd} \cup 1..MaxConditions

(* The window and the engine each have rules of their own for what a rule  *)
(* may be, a loop back to its own conditions among them.  What the window  *)
(* lets through the engine takes, but for what Lenient names.              *)
SavedAccepted == config \in Stored \/ Accepts(config) \/ Lenient(config)

(* The conditions of a saved rule are combined as the AND and OR buttons   *)
(* between them say, whatever was added, removed and picked in between;    *)
(* rules that say match any without a join are shown as AND.               *)
JoinsAsShown ==
    page = "editor" /\ form.match = "all" =>
        \A holds \in [DOMAIN form.conditions -> BOOLEAN] :
            LET f[i \in DOMAIN form.conditions] ==
                    IF i = 1 THEN holds[1]
                    ELSE IF ShownJoin(form, i) = "or" THEN f[i - 1] \/ holds[i] ELSE f[i - 1] /\ holds[i]
            IN Combine(form.conditions, form.match, holds) = f[Len(form.conditions)]

(* A trip to the explorer changes the end that was picked and none of the  *)
(* other entries of the window.                                            *)
Kept(before, after) ==
    /\ \A i \in DOMAIN before.conditions :
         i = picking \/ ~(i \in DOMAIN after.conditions) \/ before.conditions[i] = after.conditions[i]
    /\ Len(before.conditions) = Len(after.conditions)
    /\ picking = TargetEnd \/ (after.target = before.target /\ after.targetBrokerId = before.targetBrokerId)
    /\ ShownMode(before) = ShownMode(after) /\ before.cooldown = after.cooldown
    /\ before.enabled = after.enabled
TripKeepsEntries ==
    page = "editor" /\ left # <<>> /\ form # NoForm => Kept(left[1], form)
================================================================================
