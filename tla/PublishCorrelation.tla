--------------------------- MODULE PublishCorrelation ---------------------------
(***************************************************************************)
(* Which panel a message came from (mqtt/client.go, mqtt/registry.go).  An *)
(* MQTT message does not say who published it: the manager remembers for a *)
(* while what each panel published and takes the next message of the same  *)
(* topic and payload for it.  And which topics the broker holds a retained *)
(* message of: live messages do not say so, the registry notes what is     *)
(* published through it and what is replayed when '#' is subscribed again. *)
(*                                                                         *)
(* One broker and one manager.  Messages keep their order among those of   *)
(* one quality of service.  A publication has a number, which nothing but  *)
(* the properties reads.  Left out: the other handlers of a message, which *)
(* MqttSubscriptions has.                                                  *)
(***************************************************************************)
EXTENDS Integers, FiniteSets, FiniteSetsExt, Sequences, SequencesExt

CONSTANTS Panels, Topics,
          Messages,         \* what may be published: topic, payload, qos, retain
          publishTTL, maxPendingPubs,
          MaxPublish, MaxForeign, MaxTime, MaxLosses

NoPanel == ""
Empty == "empty"            \* the payload that clears a retained message
Foreign == 0                \* the number of what other clients publish
None == [topic |-> "none", payload |-> Empty, qos |-> 0, retain |-> FALSE, number |-> Foreign]
Numbered(m, n) == [topic |-> m.topic, payload |-> m.payload, qos |-> m.qos, retain |-> m.retain, number |-> n]
Content(m) == <<m.topic, m.payload>>
Contents(s) == {Content(x) : x \in ToSet(s)}

VARIABLES link,             \* FALSE: the client is reconnecting
          now,
          pendingPubs,
          calls,            \* BrokerRegistry.Publish in progress
          outbox, inbox,    \* between client and broker
          held,             \* the broker's retained messages
          retained, retainedPanels,
          handling,         \* <<>>, or a message, its entry's number and the panel found
          seen,             \* what the handler of '#' was told
          author,           \* the panels of the publications so far
          astray,           \* ghost: contents of which an echo was or may be mistaken
          unsure,           \* ghost: topics whose retained message changed unseen
          losses, others
vars == <<link, now, pendingPubs, calls, outbox, inbox, held, retained, retainedPanels, handling, seen, author, astray, unsure, losses, others>>

Init ==
    /\ link = TRUE /\ now = 0 /\ pendingPubs = <<>> /\ calls = {} /\ outbox = <<>> /\ inbox = <<>>
    /\ held = [t \in Topics |-> None]
    /\ retained = {} /\ retainedPanels = [t \in Topics |-> NoPanel]
    /\ handling = <<>> /\ seen = {} /\ author = <<>> /\ astray = {} /\ unsure = {}
    /\ losses = 0 /\ others = 0

-----------------------------------------------------------------------------
Fresh(p) == p.at > now - publishTTL
prunePendingPubs(pubs) ==
    LET valid[i \in 0..Len(pubs)] ==
            IF i = 0 THEN <<>> ELSE IF Fresh(pubs[i]) THEN Append(valid[i - 1], pubs[i]) ELSE valid[i - 1]
    IN valid[Len(pubs)]
(* Mutant: there is room for one entry too many. *)
Capped_Late(pubs) == IF Len(pubs) > maxPendingPubs THEN Tail(pubs) ELSE pubs
(* The youngest entries, with room for one more. *)
Capped(pubs) ==
    IF Len(pubs) >= maxPendingPubs
    THEN SubSeq(pubs, Len(pubs) - maxPendingPubs + 2, Len(pubs))
    ELSE pubs
trackOutgoing(m, panel) ==
    IF panel = NoPanel THEN pendingPubs
    ELSE Append(Capped(prunePendingPubs(pendingPubs)),
                [topic |-> m.topic, payload |-> m.payload, panel |-> panel, at |-> now, number |-> m.number])
(* The oldest entry with the message's content. *)
Matching(m, pubs) == {i \in DOMAIN pubs : Content(pubs[i]) = Content(m)}
Unmatched(m, pubs) == IF Matching(m, pubs) = {} THEN pubs ELSE RemoveAt(pubs, Min(Matching(m, pubs)))

(* Entries that were given up while their message is on its way. *)
Forgotten(old, new) == {Content(p) : p \in ToSet(old) \ ToSet(new)}
OnTheWay == ToSet(outbox) \cup ToSet(inbox) \cup {c.message : c \in calls} \cup {h.message : h \in ToSet(handling)}
RetainedOnTheWay == {m.topic : m \in {n \in OnTheWay : n.retain}}

(* MQTTManager.Publish: a client that is reconnecting counts as connected; *)
(* it throws away what has no quality of service and keeps the rest.       *)
Publish(panel, message) ==
    LET m == Numbered(message, Len(author) + 1)
        twins == {n \in OnTheWay : Content(n) = Content(m)}
        sent == link \/ m.qos > 0
    IN  /\ Len(author) < MaxPublish
        /\ author' = Append(author, panel)
        /\ pendingPubs' = trackOutgoing(m, panel)
        /\ outbox' = IF sent THEN Append(outbox, m) ELSE outbox
        /\ calls' = calls \cup {[message |-> m, step |-> "waits"]}
        /\ astray' = astray
              \cup Forgotten(pendingPubs, pendingPubs')
              \cup IF sent /\ \A n \in twins : n.qos = m.qos /\ n.number # Foreign
                             /\ (panel = NoPanel <=> author[n.number] = NoPanel)
                   THEN {} ELSE {Content(m)}
        /\ unsure' = IF m.retain /\ (~sent \/ m.topic \in RetainedOnTheWay)
                     THEN unsure \cup {m.topic} ELSE unsure
        /\ UNCHANGED <<link, now, inbox, held, retained, retainedPanels, handling, seen, losses, others>>

(* The wait for the broker ends: what has no quality of service needs no   *)
(* answer.                                                                 *)
Acknowledged(c) ==
    /\ c.step = "waits" /\ (c.message.qos = 0 \/ c.message \notin ToSet(outbox))
    /\ calls' = (calls \ {c}) \cup IF c.message.retain THEN {[c EXCEPT !.step = "published"]} ELSE {}
    /\ UNCHANGED <<link, now, pendingPubs, outbox, inbox, held, retained, retainedPanels, handling, seen, author, astray, unsure, losses, others>>
TimedOut(c) ==
    /\ c.step = "waits" /\ calls' = calls \ {c}
    /\ unsure' = IF c.message.retain THEN unsure \cup {c.message.topic} ELSE unsure
    /\ UNCHANGED <<link, now, pendingPubs, outbox, inbox, held, retained, retainedPanels, handling, seen, author, astray, losses, others>>

markRetained(t, hasPayload) ==
    IF hasPayload THEN retained' = retained \cup {t} /\ retainedPanels' = retainedPanels
    ELSE retained' = retained \ {t} /\ retainedPanels' = [retainedPanels EXCEPT ![t] = NoPanel]

(* BrokerRegistry.Publish, after the manager's. *)
MarkPublished(c) ==
    /\ c.step = "published" /\ markRetained(c.message.topic, c.message.payload # Empty)
    /\ calls' = (calls \ {c}) \cup IF c.message.payload # Empty THEN {[c EXCEPT !.step = "marked"]} ELSE {}
    /\ UNCHANGED <<link, now, pendingPubs, outbox, inbox, held, handling, seen, author, astray, unsure, losses, others>>
MarkRetainedPanel(c) ==
    /\ c.step = "marked" /\ calls' = calls \ {c}
    /\ retainedPanels' = [retainedPanels EXCEPT ![c.message.topic] = author[c.message.number]]
    /\ UNCHANGED <<link, now, pendingPubs, outbox, inbox, held, retained, handling, seen, author, astray, unsure, losses, others>>

-----------------------------------------------------------------------------
(* The callback of '#': first the panel, then the handler of AddBroker.    *)
Match ==
    LET m == Head(inbox)
        pubs == prunePendingPubs(pendingPubs)
        found == Matching(m, pubs)
        entry == IF found = {} THEN [panel |-> NoPanel, number |-> Foreign, at |-> now] ELSE pubs[Min(found)]
    IN  /\ handling = <<>> /\ inbox # <<>>
        /\ inbox' = Tail(inbox)
        /\ pendingPubs' = Unmatched(m, pubs)
        /\ handling' = <<[message |-> m, panel |-> entry.panel, entry |-> entry.number, age |-> now - entry.at]>>
        /\ astray' = astray \cup Forgotten(pendingPubs, pubs)
                            \cup IF found # {} /\ (m.number = Foreign \/ m.retain) THEN {Content(m)} ELSE {}
        /\ UNCHANGED <<link, now, calls, outbox, held, retained, retainedPanels, seen, author, unsure, losses, others>>
Handle ==
    LET h == handling[1]  m == h.message  t == m.topic
        told == IF h.panel = NoPanel /\ m.retain THEN retainedPanels[t] ELSE h.panel
    IN  /\ handling # <<>> /\ handling' = <<>>
        /\ IF ~m.retain THEN UNCHANGED <<retained, retainedPanels>>
           ELSE /\ retained' = IF m.payload # Empty THEN retained \cup {t} ELSE retained \ {t}
                /\ retainedPanels' = IF h.panel # NoPanel THEN [retainedPanels EXCEPT ![t] = h.panel] ELSE retainedPanels
        /\ seen' = seen \cup {[number |-> m.number, content |-> Content(m), replay |-> m.retain,
                               panel |-> told, entry |-> h.entry, age |-> h.age]}
        /\ UNCHANGED <<link, now, pendingPubs, calls, outbox, inbox, held, author, astray, unsure, losses, others>>

-----------------------------------------------------------------------------
(* The broker: takes a message, keeps it if it is to be retained, and      *)
(* sends it on, when nothing says so any more.                             *)
Kept(m) == IF ~m.retain THEN held ELSE [held EXCEPT ![m.topic] = IF m.payload = Empty THEN None ELSE m]
Forward(m) == inbox' = Append(inbox, [m EXCEPT !.retain = FALSE])
Taken(i) ==
    LET m == outbox[i] IN
    /\ link /\ \A j \in 1..(i - 1) : outbox[j].qos # m.qos
    /\ held' = Kept(m) /\ Forward(m) /\ outbox' = RemoveAt(outbox, i)
    /\ UNCHANGED <<link, now, pendingPubs, calls, retained, retainedPanels, handling, seen, author, astray, unsure, losses, others>>
Elsewhere(message) ==
    LET m == Numbered(message, Foreign) IN
    /\ others < MaxForeign /\ others' = others + 1
    /\ held' = Kept(m)
    /\ IF link THEN Forward(m) ELSE inbox' = inbox
    /\ unsure' = IF m.retain THEN unsure \cup {m.topic} ELSE unsure
    /\ UNCHANGED <<link, now, pendingPubs, calls, outbox, retained, retainedPanels, handling, seen, author, astray, losses>>

(* A lost connection takes along what the broker has sent; what it has not *)
(* answered is sent again, or lost where it has no quality of service.     *)
ConnectionLost ==
    LET unanswered == {c.message : c \in {d \in calls : d.step = "waits"}} \cup ToSet(outbox)
    IN  /\ link /\ losses < MaxLosses /\ losses' = losses + 1
        /\ link' = FALSE /\ inbox' = <<>>
        /\ \E again \in SUBSET {m \in unanswered : m.qos > 0} :
               outbox' \in {s \in SetToSeqs(again) : \A i, j \in DOMAIN s : i < j => s[i].number < s[j].number}
        /\ astray' = astray \cup Contents(inbox) \cup {Content(m) : m \in unanswered}
        /\ unsure' = unsure \cup {m.topic : m \in {n \in unanswered : n.retain}}
        /\ UNCHANGED <<now, pendingPubs, calls, held, retained, retainedPanels, handling, seen, author, others>>
(* '#' is subscribed again, and the broker replays what it holds. *)
Reconnected ==
    /\ ~link /\ link' = TRUE
    /\ inbox' \in SetToSeqs({held[t] : t \in Topics} \ {None})
    /\ unsure' = unsure \cup RetainedOnTheWay
    /\ UNCHANGED <<now, pendingPubs, calls, outbox, held, retained, retainedPanels, handling, seen, author, astray, losses, others>>

Tick ==
    /\ now < MaxTime /\ now' = now + 1
    /\ UNCHANGED <<link, pendingPubs, calls, outbox, inbox, held, retained, retainedPanels, handling, seen, author, astray, unsure, losses, others>>

CallStep(c) == Acknowledged(c) \/ TimedOut(c) \/ MarkPublished(c) \/ MarkRetainedPanel(c)
Next ==
    \/ \E panel \in Panels \cup {NoPanel}, m \in Messages : Publish(panel, m)
    \/ \E c \in calls : CallStep(c)
    \/ Match \/ Handle
    \/ \E i \in DOMAIN outbox : Taken(i)
    \/ \E m \in Messages : Elsewhere(m)
    \/ ConnectionLost \/ Reconnected \/ Tick

(* A call waits for five seconds and not longer, and callbacks run. *)
Fairness ==
    /\ WF_vars(\E c \in calls : CallStep(c))
    /\ WF_vars(Match) /\ WF_vars(Handle)
Spec == Init /\ [][Next]_vars /\ Fairness

-----------------------------------------------------------------------------
(* The shapes of the books; there are never more entries than the limit. *)
TypeOK ==
    /\ link \in BOOLEAN /\ now \in 0..MaxTime
    /\ Len(pendingPubs) <= maxPendingPubs
    /\ \A p \in ToSet(pendingPubs) : p.panel \in Panels /\ author[p.number] = p.panel
    /\ \A c \in calls : c.step \in {"waits", "published", "marked"} /\ c.message.number \in DOMAIN author
    /\ \A m \in ToSet(outbox) : m.number \in DOMAIN author
    /\ \A m \in ToSet(inbox) : m.retain => m.payload # Empty
    /\ held \in [Topics -> {None} \cup {Numbered(m, n) : m \in Messages, n \in 0..MaxPublish}]
    /\ retained \subseteq Topics /\ retainedPanels \in [Topics -> Panels \cup {NoPanel}]
    /\ author \in Seq(Panels \cup {NoPanel})
    /\ unsure \subseteq Topics

(* client.go:251: a live message is taken for that of the panel that       *)
(* published it, and of nobody else, unless the same content is published  *)
(* with another quality of service or without a panel at the same time, by *)
(* somebody else in the few seconds an entry lives, or an echo was lost or *)
(* came after the entry had gone.  No publication is found twice, and none *)
(* that is older than the limit.                                           *)
Attributed ==
    /\ \A s \in seen :
        /\ ~s.replay /\ s.number # Foreign /\ s.content \notin astray => s.panel = author[s.number]
        /\ ~s.replay /\ s.panel # NoPanel => s.entry # Foreign /\ s.panel = author[s.entry]
        /\ s.entry # Foreign => s.age < publishTTL
    /\ \A r, s \in seen : r.entry = s.entry /\ r.entry # Foreign => r = s

(* The registry between two publications, with nothing under way. *)
Settled(t) ==
    /\ ~ \E c \in calls : c.message.topic = t /\ c.message.retain
    /\ ~ \E m \in ToSet(outbox) \cup ToSet(inbox) : m.topic = t /\ m.retain
    /\ handling = <<>> \/ ~handling[1].message.retain
(* registry.go:369: the registry knows of which topics the broker holds a  *)
(* message, and of which panel it is, unless another client put it there,  *)
(* two publications overlapped, or one was not answered.                   *)
RetainedKnown ==
    \A t \in Topics \ unsure :
        Settled(t) =>
            /\ t \in retained <=> held[t] # None
            /\ t \in retained /\ Content(held[t]) \notin astray => retainedPanels[t] = author[held[t].number]
            /\ t \notin retained => retainedPanels[t] = NoPanel

(* Nobody waits for the broker, and what came was handled. *)
Rested == calls = {} /\ handling = <<>> /\ inbox = <<>>
================================================================================
