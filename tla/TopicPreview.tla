----------------------------- MODULE TopicPreview -----------------------------
(***************************************************************************)
(* What a configuration dialog shows about the topics being typed into it: *)
(* whether anything was ever heard on them (hooks/useTopicMessages.ts) and *)
(* what the last message looked like (hooks/usePayloadSample.ts), as drawn *)
(* by config/TopicField.tsx and config/MessageHistory.tsx.                 *)
(*                                                                         *)
(* The typed text is its list of topics; a topic is matched as it stands.  *)
(* Times and the wording of ages are left out.                             *)
(***************************************************************************)
EXTENDS Naturals, FiniteSets, Sequences, SequencesExt

CONSTANTS Brokers, Topics,
          Texts,        \* texts the field may hold
          MaxEdits,     \* bound on edits of broker and topics
          MaxMessages   \* bound on different messages of the brokers

NoBroker == "nobroker"
Idle == <<"idle">>
Keys == (Brokers \union {NoBroker}) \X Texts

(* A field without one of its chips is a field; no broker is called none.  *)
TextsFit ==
    /\ Texts \subseteq Seq(Topics) /\ NoBroker \notin Brokers
    /\ \A ts \in Texts, i \in 1..2 : Len(ts) > 1 => RemoveAt(ts, i) \in Texts

VARIABLES brokerId, topics,     \* the props, as edited in the dialog
          state,                \* useTopicMessages: key, loading, byTopic
          timer,                \* its 300 ms debounce
          asked,                \* key of its request that is not cancelled
          subscription,         \* what its listener and the hub hold
          sampleAsked, sample,  \* usePayloadSample: its request, its result
          history,              \* messages stored: pairs of broker and topic
          live,                 \* messages the broker has sent
          edits
vars == <<brokerId, topics, state, timer, asked, subscription, sampleAsked, sample,
          history, live, edits>>

currentKey == <<brokerId, topics>>
source == <<brokerId, IF topics = <<>> THEN NoBroker ELSE Head(topics)>>
canSample(b, ts) == b # NoBroker /\ ts # <<>>
Blank == [t \in {} |-> FALSE]

(* The topics of a key on which messages are stored. *)
Stored(key) == [t \in ToSet(key[2]) |-> <<key[1], t>> \in history]

-----------------------------------------------------------------------------
(* What the hooks return and the field draws. *)
Shown ==
    IF ~canSample(brokerId, topics) THEN [loading |-> FALSE, byTopic |-> Blank]
    ELSE IF state.key # currentKey THEN [loading |-> TRUE, byTopic |-> Blank]
    ELSE [loading |-> state.loading, byTopic |-> state.byTopic]

(* The icon beside the field: all, some or none of the topics are active. *)
statusIcon ==
    LET n == {t \in DOMAIN Shown.byTopic : Shown.byTopic[t]}
    IN IF brokerId = NoBroker \/ topics = <<>> THEN "none"
       ELSE IF Shown.loading THEN "checking"
       ELSE IF n = {} THEN "silent"
       ELSE IF n = ToSet(topics) THEN "active" ELSE "some"

(* The message the history menu offers, if its result is the topic's own. *)
Offered == IF sample.source = source THEN sample.payload ELSE FALSE

-----------------------------------------------------------------------------
Init ==
    /\ brokerId \in Brokers \union {NoBroker}
    /\ topics \in Texts
    /\ state = [key |-> currentKey, loading |-> FALSE, byTopic |-> Blank]
    /\ timer = canSample(brokerId, topics)
    /\ asked = Idle
    /\ subscription = Idle
    /\ sampleAsked = IF canSample(brokerId, topics) THEN source ELSE Idle
    /\ sample = [source |-> Idle, payload |-> FALSE]
    /\ history = {}
    /\ live = {}
    /\ edits = 0

(* onChange of the dropdown or the field, or a chip's remove: the effects  *)
(* clean up after the old key and start over.                              *)
Edit(b, ts) ==
    /\ edits < MaxEdits
    /\ edits' = edits + 1
    /\ <<b, ts>> # currentKey
    /\ brokerId' = b
    /\ topics' = ts
    /\ asked' = Idle
    /\ timer' = canSample(b, ts)
    /\ subscription' = IF canSample(b, ts) THEN subscription ELSE Idle
    /\ sampleAsked' = IF ~canSample(b, ts) THEN Idle
                      ELSE IF source' = source THEN sampleAsked ELSE source'
    /\ UNCHANGED <<state, sample, history, live>>

RemoveChip(i) ==
    /\ Len(topics) > 1
    /\ Edit(brokerId, RemoveAt(topics, i))

(* 300 ms later: loading, with the last key's details still there. *)
Debounced ==
    /\ timer
    /\ timer' = FALSE
    /\ state' = [state EXCEPT !.key = currentKey, !.loading = TRUE]
    /\ subscription' = currentKey
    /\ asked' = currentKey
    /\ UNCHANGED <<brokerId, topics, sampleAsked, sample, history, live, edits>>

(* The histories of all topics have been answered; one that fails counts   *)
(* as silent.                                                              *)
Result(failed) ==
    [key |-> asked, loading |-> FALSE, byTopic |-> [t \in ToSet(asked[2]) |-> Stored(asked)[t] /\ t \notin failed]]
Answered ==
    /\ asked # Idle
    /\ asked' = Idle
    /\ \E failed \in SUBSET ToSet(asked[2]) : state' = Result(failed)
    /\ UNCHANGED <<brokerId, topics, timer, subscription, sampleAsked, sample, history,
                   live, edits>>

(* A frame reaches the listener: of its own subscription, or of any broker *)
(* as long as it has none.                                                 *)
Accepts(b) == subscription = Idle \/ subscription[1] = b
onMessage(b, t) ==
    /\ <<b, t>> \in live
    /\ Accepts(b)
    /\ t \in ToSet(topics)
    /\ state.key = currentKey
    /\ ~(t \in DOMAIN state.byTopic /\ state.byTopic[t])
    /\ state' = [state EXCEPT !.byTopic =
                    [u \in DOMAIN @ \union {t} |-> u = t \/ @[u]]]
    /\ UNCHANGED <<brokerId, topics, timer, asked, subscription, sampleAsked, sample,
                   history, live, edits>>

(* The sample's request is answered, or fails and leaves an empty one. *)
SampleAnswered ==
    /\ sampleAsked # Idle
    /\ sampleAsked' = Idle
    /\ \E p \in BOOLEAN : /\ p => sampleAsked \in history
                          /\ sample' = [source |-> sampleAsked, payload |-> p]
    /\ UNCHANGED <<brokerId, topics, state, timer, asked, subscription, history, live, edits>>

(* A broker sends a message, and the history writer stores it later. *)
Publish(b, t) ==
    /\ <<b, t>> \notin live
    /\ Cardinality(live) < MaxMessages
    /\ live' = live \union {<<b, t>>}
    /\ UNCHANGED <<brokerId, topics, state, timer, asked, subscription, sampleAsked,
                   sample, history, edits>>
Write(m) ==
    /\ m \in live
    /\ history' = history \union {m}
    /\ UNCHANGED <<brokerId, topics, state, timer, asked, subscription, sampleAsked,
                   sample, live, edits>>

Next ==
    \/ \E b \in Brokers \union {NoBroker}, ts \in Texts : Edit(b, ts)
    \/ \E i \in 1..2 : RemoveChip(i)
    \/ Debounced \/ Answered \/ SampleAnswered
    \/ \E b \in Brokers, t \in Topics : onMessage(b, t) \/ Publish(b, t)
    \/ \E m \in live : Write(m)

(* The timer fires and the server answers. *)
Fairness == WF_vars(Debounced) /\ WF_vars(Answered) /\ WF_vars(SampleAnswered)
Spec == Init /\ [][Next]_vars /\ Fairness

-----------------------------------------------------------------------------
TypeOK ==
    /\ currentKey \in Keys
    /\ state.key \in Keys /\ state.loading \in BOOLEAN
    /\ {asked, subscription} \subseteq (Brokers \X (Texts \ {<<>>})) \union {Idle}
    /\ history \subseteq live

(* Once the answer for the typed topics is in, the field calls a topic     *)
(* active only if the typed broker has sent something on it, whatever was  *)
(* asked, answered or heard for what had been typed before.                *)
Truthful ==
    ~timer /\ ~Shown.loading =>
        \A t \in DOMAIN Shown.byTopic : Shown.byTopic[t] => <<brokerId, t>> \in live

(* The history menu never offers a message of another broker or topic. *)
SampleFits == Offered => source \in history

(* The field does not keep saying that it is checking. *)
Settled == statusIcon # "checking"
=============================================================================
