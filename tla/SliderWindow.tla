------------------------------ MODULE SliderWindow -------------------------------
(***************************************************************************)
(* The window in which a slider is configured (SliderConfigModal in        *)
(* components/panels/SliderPanel.tsx): the two topics as in ToggleWindow,  *)
(* the range as three texts, and the shapes it writes and reads, the       *)
(* latter at first and on request the same as the former.                  *)
(*                                                                         *)
(* A configuration in which a shape is missing has "none" for it; after a  *)
(* trip to the explorer the numbers are those that the texts stood for.    *)
(* The unit, quality of service and retain are left out.                   *)
(***************************************************************************)
EXTENDS ReadBack

CONSTANTS Brokers, Fallback, Texts,
          Number,               \* function: the texts that are finite numbers, to them
          Infinite,             \* function: those that are infinite (1e999), to 1 or -1
          Numbers,              \* texts typed for the range
          Picks, Configured, MaxEdits, MaxTrips

VARIABLES stored, draft, away,
          parted,     \* the draft with which the user left and the pick, after the return
          steps
vars == <<stored, draft, away, parted, steps>>

d == draft[1]
Fields == {"min", "max", "step"}
Default == [min |-> 0, max |-> 100 * One, step |-> One]
(* The texts of numbers, those of the default among them; a broker has a   *)
(* name; and a stored slider with one topic has one shape.                 *)
Names == Texts \cup {<<p>> : p \in Picks} \cup {c.topic : c \in Configured} \cup {c.stateTopic : c \in Configured}
Counts == {Number[t] : t \in DOMAIN Number}
Stored ==
    [topic : Names, stateTopic : Names, separateRead : BOOLEAN, broker : Brokers \cup {""}, stateBroker : Brokers \cup {""},
     readTemplate : Templates \cup {"none"}, payloadTemplate : Templates \cup {"none"},
     min : Counts, max : Counts, step : Counts]
RangeFits ==
    /\ \A t \in DOMAIN Number : Number[t] \in Int
    /\ \A f \in Fields : Default[f] \in Counts
    /\ \A t \in DOMAIN Infinite : t \notin DOMAIN Number /\ Infinite[t] \in {1, -1}
    /\ "" \notin Brokers /\ Fallback \in Brokers /\ <<>> \in Texts
    /\ Configured \subseteq {c \in Stored : c.separateRead \/ c.readTemplate = "none"}

(* asNumber: a text that is no finite number stands for the default. *)
asNumber(f, text) == IF text \in DOMAIN Number THEN Number[text] ELSE Default[f]
Text(n) == CHOOSE t \in DOMAIN Number : Number[t] = n
effectiveStateBroker == IF d.separateRead /\ d.stateBroker # "" THEN d.stateBroker ELSE d.broker

Init == stored \in Configured /\ draft = <<>> /\ away = <<>> /\ parted = <<>> /\ steps = [edits |-> 0, trips |-> 0]

(* What the window shows of a configuration. *)
WriteShape(c) == IF c.payloadTemplate = "none" THEN "value" ELSE c.payloadTemplate
ReadShape(c) == IF c.readTemplate = "none" THEN WriteShape(c) ELSE c.readTemplate
Shown(c, broker) ==
    [c EXCEPT !.readTemplate = ReadShape(c), !.payloadTemplate = WriteShape(c), !.broker = broker,
              !.min = Text(c.min), !.max = Text(c.max), !.step = Text(c.step)]
OrBroker(b, c) == IF b # "" THEN b ELSE IF c # "" THEN c ELSE Fallback
Open ==
    /\ draft = <<>> /\ away = <<>> /\ parted' = <<>>
    /\ draft' = <<Shown(stored, OrBroker("", stored.broker))>> /\ UNCHANGED <<stored, away, steps>>

Change(field, v) ==
    /\ steps.edits < MaxEdits /\ steps' = [steps EXCEPT !.edits = @ + 1]
    /\ v # d[field] /\ draft' = <<[d EXCEPT ![field] = v]>> /\ parted' = <<>> /\ UNCHANGED <<stored, away>>
Edit ==
    /\ draft # <<>>
    /\ \/ \E t \in Texts : Change("topic", t) \/ (d.separateRead /\ Change("stateTopic", t))
       \/ \E b \in Brokers : Change("broker", b) \/ (d.separateRead /\ b # effectiveStateBroker /\ Change("stateBroker", b))
       \/ Change("separateRead", ~d.separateRead)
       \/ \E s \in Templates : Change("payloadTemplate", s) \/ (d.separateRead /\ Change("readTemplate", s))
       \/ \E f \in Fields, n \in Numbers : Change(f, n)
SameAsMessage == draft # <<>> /\ d.separateRead /\ Change("readTemplate", d.payloadTemplate)

-----------------------------------------------------------------------------
InNumbers(c) == [c EXCEPT !.min = asNumber("min", @), !.max = asNumber("max", @), !.step = asNumber("step", @)]
Explore(target) ==
    /\ draft # <<>> /\ steps.trips < MaxTrips /\ steps' = [steps EXCEPT !.trips = @ + 1]
    /\ target = "stateTopic" => d.separateRead
    /\ away' = <<[target |-> target, draft |-> InNumbers(d)]>>
    /\ draft' = <<>> /\ parted' = <<d>> /\ UNCHANGED stored
Kept(c) == c
Return(topic, broker) ==
    /\ away # <<>> /\ away' = <<>>
    /\ LET e == Kept(away[1].draft) IN
       draft' = IF away[1].target = "stateTopic"
                THEN <<Shown([e EXCEPT !.stateTopic = topic, !.stateBroker = broker], OrBroker(e.broker, stored.broker))>>
                ELSE <<Shown([e EXCEPT !.topic = topic], OrBroker(broker, stored.broker))>>
    /\ parted' = <<parted[1], away[1].target, topic, broker>> /\ UNCHANGED <<stored, steps>>
Forget == away # <<>> /\ away' = <<>> /\ parted' = <<>> /\ UNCHANGED <<stored, draft, steps>>

-----------------------------------------------------------------------------
(* rangeRules and the others: an infinite number is a number, above or     *)
(* below all others.                                                       *)
IsNumber(text) == text \in DOMAIN Number \cup DOMAIN Infinite
Sign(text) == IF text \in DOMAIN Infinite THEN Infinite[text] ELSE 0
Above(text, other) ==
    Sign(text) > Sign(other) \/ (Sign(text) = 0 /\ Sign(other) = 0 /\ Number[text] > Number[other])
StepOk == IsNumber(d.step) /\ (Sign(d.step) > 0 \/ (Sign(d.step) = 0 /\ Number[d.step] > 0))
RangeOk == IsNumber(d.min) /\ IsNumber(d.max) /\ Above(d.max, d.min) /\ StepOk
Accepted ==
    /\ TopicOk(d.topic, FALSE) /\ RangeOk /\ WriteOk(d.payloadTemplate)
    /\ d.separateRead => TopicOk(d.stateTopic, TRUE) /\ ReadOk(d.readTemplate, FALSE)
SavedShape == IF d.separateRead THEN d.readTemplate ELSE "none"
Save ==
    /\ draft # <<>> /\ Accepted
    /\ stored' = [InNumbers(d) EXCEPT !.stateTopic = IF d.separateRead THEN @ ELSE <<>>,
                                      !.stateBroker = IF d.separateRead THEN effectiveStateBroker ELSE "",
                                      !.readTemplate = SavedShape]
    /\ draft' = <<>> /\ parted' = <<>> /\ UNCHANGED <<away, steps>>
Cancel == draft # <<>> /\ draft' = <<>> /\ parted' = <<>> /\ UNCHANGED <<stored, away, steps>>

Next ==
    \/ Open \/ Edit \/ SameAsMessage \/ Forget \/ Save \/ Cancel
    \/ \E t \in {"topic", "stateTopic"} : Explore(t)
    \/ \E p \in Picks, b \in Brokers : Return(<<p>>, b)
Spec == Init /\ [][Next]_vars

-----------------------------------------------------------------------------
TypeOK ==
    /\ {stored.broker, stored.stateBroker} \subseteq Brokers \cup {""}
    /\ draft = <<>> \/ (d.readTemplate \in Templates /\ d.payloadTemplate \in Templates /\ d.broker \in Brokers)
    /\ \A f \in Fields : stored[f] \in Int
    /\ draft = <<>> \/ away = <<>>

(* A picked topic and its broker land in the field that they were picked   *)
(* for, and the other entries come back as they were, an unfinished or an  *)
(* infinite number as the default it stood for.                            *)
PickLands ==
    draft # <<>> /\ parted # <<>> =>
        LET e == parted[1] IN
        /\ IF parted[2] = "topic" THEN d.topic = parted[3] /\ d.broker = parted[4] /\ d.stateTopic = e.stateTopic
                                       /\ d.stateBroker = e.stateBroker
           ELSE d.stateTopic = parted[3] /\ d.stateBroker = parted[4] /\ d.topic = e.topic /\ d.broker = e.broker
        /\ d.payloadTemplate = e.payloadTemplate /\ d.readTemplate = e.readTemplate /\ d.separateRead = e.separateRead
        /\ \A f \in Fields : Number[d[f]] = IF e[f] \in DOMAIN Number THEN Number[e[f]] ELSE Default[f]

(* Of finite numbers, the range that Save takes is the one that was typed  *)
(* and the one the panel uses, with nothing in it to be mended.  In the    *)
(* place of an infinite number, which the window takes, the default is     *)
(* saved, and the panel may have to mend that range.                       *)
Finite == \A f \in Fields : d[f] \in DOMAIN Number
RangeTaken ==
    Save => /\ \A f \in Fields : IsNumber(d[f])
            /\ \A f \in Fields : stored'[f] = IF d[f] \in DOMAIN Number THEN Number[d[f]] ELSE Default[f]
            /\ Finite => normalizeRange(stored'.min, stored'.max, stored'.step) =
                            [min |-> stored'.min, max |-> stored'.max, step |-> stored'.step]

(* A slider without a state topic of its own reads what it writes.  When   *)
(* it gets one later, the window proposes the shape that it writes then.   *)
ReadsWhatItWrites ==
    ~stored.separateRead => /\ effectiveReadTemplate(stored) = stored.payloadTemplate
                            /\ ReadShape(stored) = WriteShape(stored)
================================================================================
