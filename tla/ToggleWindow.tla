------------------------------ MODULE ToggleWindow -------------------------------
(***************************************************************************)
(* The window in which a toggle is configured (ToggleConfigModal in        *)
(* components/panels/TogglePanel.tsx): two topics, each with a broker and  *)
(* a shape, the two values, and a trip to the explorer to pick either      *)
(* topic, for which the window closes and its draft travels along.         *)
(*                                                                         *)
(* A configuration stored without the switch of the state topic is one     *)
(* with it where it has a state topic: window and panel both say so.       *)
(* Spaces, quality of service and retain are left out.                     *)
(***************************************************************************)
EXTENDS ReadBack

CONSTANTS Brokers, Fallback,   \* the brokers, and the one taken for none
          Texts, Values,       \* what is typed as a topic and as a value
          Picks,               \* what can be picked in the explorer
          Configured,          \* what the panel may be stored as
          MaxEdits, MaxTrips

VARIABLES stored,    \* the panel as the server has it
          draft,     \* the window's entries, or <<>> when it is closed
          away,      \* the trip: the field it is for and the draft, or <<>>
          returned,  \* the pick that opened the window, and that trip, or <<>>
          steps
vars == <<stored, draft, away, returned, steps>>

Targets == {"topic", "stateTopic"}
Init == stored \in Configured /\ draft = <<>> /\ away = <<>> /\ returned = <<>> /\ steps = [edits |-> 0, trips |-> 0]

d == draft[1]
effectiveStateBroker == IF d.separateRead /\ d.stateBroker # "" THEN d.stateBroker ELSE d.broker

(* The window opens with what is stored. *)
OrChip(template) == IF template = "blank" THEN "value" ELSE template
OrBroker(b, c) == IF b # "" THEN b ELSE IF c # "" THEN c ELSE Fallback
Open ==
    /\ draft = <<>> /\ away = <<>>
    /\ draft' = <<[stored EXCEPT !.payloadTemplate = OrChip(@), !.broker = OrBroker("", @)]>>
    /\ returned' = <<>> /\ UNCHANGED <<stored, away, steps>>

Edit(field, values) ==
    /\ draft # <<>> /\ steps.edits < MaxEdits /\ steps' = [steps EXCEPT !.edits = @ + 1]
    /\ \E v \in values \ {d[field]} : draft' = <<[d EXCEPT ![field] = v]>>
    /\ returned' = <<>> /\ UNCHANGED <<stored, away>>
EditStateTopic == d.separateRead /\ (Edit("stateTopic", Texts) \/ Edit("readTemplate", Templates))
EditStateBroker == d.separateRead /\ Edit("stateBroker", Brokers \ {effectiveStateBroker})

-----------------------------------------------------------------------------
(* draft(): the entries travel with the field they are picked for. *)
Explore(target) ==
    /\ draft # <<>> /\ steps.trips < MaxTrips /\ steps' = [steps EXCEPT !.trips = @ + 1]
    /\ target = "stateTopic" => d.separateRead
    /\ away' = <<[target |-> target, draft |-> d]>> /\ draft' = <<>> /\ returned' = <<>>
    /\ UNCHANGED stored
(* The pick is handed back as the window's first topic and broker, to be   *)
(* put where it belongs.                                                   *)
PickedFor_Command(trip) == "topic"
PickedFor(trip) == trip.target
Return(topic, broker) ==
    /\ away # <<>> /\ away' = <<>> /\ UNCHANGED <<stored, steps>>
    /\ LET e == away[1].draft IN
       draft' = <<IF PickedFor(away[1]) = "stateTopic"
                  THEN [e EXCEPT !.stateTopic = topic, !.stateBroker = broker,
                                 !.payloadTemplate = OrChip(@), !.broker = OrBroker(@, stored.broker)]
                  ELSE [e EXCEPT !.topic = topic, !.payloadTemplate = OrChip(@), !.broker = OrBroker(broker, stored.broker)]>>
    /\ returned' = <<[topic |-> topic, broker |-> broker, trip |-> away[1]]>>
(* Cancelled, or left for another page. *)
Forget == away # <<>> /\ away' = <<>> /\ UNCHANGED <<stored, draft, returned, steps>>

-----------------------------------------------------------------------------
(* The rules, all of which must hold for Save. *)
Accepted ==
    /\ TopicOk(d.topic, FALSE) /\ WriteOk(d.payloadTemplate)
    /\ d.on # "" /\ d.off # "" /\ d.on # d.off
    /\ d.separateRead => TopicOk(d.stateTopic, TRUE) /\ ReadOk(d.readTemplate, TRUE)
Unset == "blank"
SavedBroker == IF d.separateRead THEN effectiveStateBroker ELSE ""
Save ==
    /\ draft # <<>> /\ Accepted
    /\ stored' = [d EXCEPT !.stateTopic = IF d.separateRead THEN @ ELSE <<>>,
                           !.stateBroker = SavedBroker,
                           !.readTemplate = IF d.separateRead THEN @ ELSE Unset,
                           !.broker = IF @ = "" THEN Fallback ELSE @]
    /\ draft' = <<>> /\ returned' = <<>> /\ UNCHANGED <<away, steps>>
Cancel == draft # <<>> /\ draft' = <<>> /\ returned' = <<>> /\ UNCHANGED <<stored, away, steps>>

Next ==
    \/ Open \/ Forget \/ Save \/ Cancel
    \/ draft # <<>> /\ \/ Edit("topic", Texts) \/ Edit("broker", Brokers) \/ Edit("separateRead", BOOLEAN)
                       \/ Edit("payloadTemplate", Templates) \/ Edit("on", Values) \/ Edit("off", Values)
                       \/ EditStateTopic \/ EditStateBroker
    \/ \E t \in Targets : Explore(t)
    \/ \E p \in Picks, b \in Brokers : Return(<<p>>, b)
Spec == Init /\ [][Next]_vars

-----------------------------------------------------------------------------
Config == [topic : Texts \cup {<<p>> : p \in Picks}, stateTopic : Texts \cup {<<p>> : p \in Picks}, separateRead : BOOLEAN,
           broker : Brokers \cup {""}, stateBroker : Brokers \cup {""}, readTemplate : Templates,
           payloadTemplate : Templates, on : Values, off : Values]
(* Typed topics are lists of names and may be none; a broker has a name,   *)
(* and lower case makes nothing of nothing only.                           *)
Names == (UNION {{t[i] : i \in DOMAIN t} : t \in Texts}) \cup Picks
WindowFits ==
    /\ Texts \subseteq Seq(Names) /\ <<>> \in Texts
    /\ "" \notin Brokers /\ Fallback \in Brokers /\ Configured \subseteq Config
    /\ Lower[""] = "" /\ \A v \in Values : Lower[v] = "" => v = ""

TypeOK ==
    /\ stored \in Config /\ (draft = <<>> \/ (d \in Config /\ d.broker \in Brokers))
    /\ away = <<>> \/ (away[1].target \in Targets /\ away[1].draft \in Config)
    /\ draft = <<>> \/ away = <<>>

(* A topic picked for one field lands there with its broker, and every     *)
(* other entry is as it was when the user left for the explorer.           *)
PickLands ==
    returned # <<>> =>
        LET r == returned[1]
            e == r.trip.draft
        IN d = IF r.trip.target = "topic" THEN [e EXCEPT !.topic = r.topic, !.broker = r.broker, !.payloadTemplate = OrChip(@)]
               ELSE [e EXCEPT !.stateTopic = r.topic, !.stateBroker = r.broker, !.payloadTemplate = OrChip(@)]

(* The panel that is saved publishes and listens on the topics and brokers *)
(* that the window showed.                                                 *)
AsShown ==
    Save => /\ commandTopic(stored') = d.topic /\ stored'.broker = d.broker
            /\ stateTopic(stored') = IF d.separateRead THEN d.stateTopic ELSE d.topic
            /\ stateBroker(stored') = IF d.separateRead THEN effectiveStateBroker ELSE d.broker

(* What a saved toggle publishes, when it comes back on the command topic, *)
(* and its two values in the shape that a device reports, it reads as the  *)
(* state they stand for; values that differ in case only are one to it.    *)
ReadsBack(c) ==
    \A s \in States :
        parseToggleState(c, IF c.separateRead THEN toggleWritePayload(configured(c, s), c.readTemplate)
                            ELSE toggleWritePayload(configured(c, s), c.payloadTemplate)) = s
SavedReads == Save /\ Lower[d.on] # Lower[d.off] => ReadsBack(stored')
================================================================================
