------------------------------- MODULE LogicUtils -------------------------------
(***************************************************************************)
(* How the browser reads a logic rule (components/panels/logicUtils.ts):   *)
(* which topics a filter matches, what a payload holds, and whether the    *)
(* conditions of a rule are met.                                           *)
(*                                                                         *)
(* A filter or topic is the sequence of its levels, <<>> when it is not    *)
(* given.  A text is a string, of which Numbers names those that           *)
(* JavaScript reads as numbers.  A payload is a function from its fields   *)
(* to texts; the field "" is the payload as a whole.                       *)
(***************************************************************************)
EXTENDS Integers, Sequences

CONSTANTS Numbers,   \* Number(text), for the texts that are numbers
          Includes   \* the pairs of texts of which the first has the second in it

NoTopic == <<>>
NoBroker == ""
NoPayload == <<>>
Numeric(text) == text # "" /\ text \in DOMAIN Numbers

Control(topic) == topic # <<>> /\ Head(topic) = "$"

(* Level by level; "#" takes all that is left, "+" any one level. *)
mqttTopicMatches(f, t) ==
    /\ ~(~Control(f) /\ Control(t))
    /\ LET hash == {i \in DOMAIN f : f[i] = "#"}
           Level(i) == i <= Len(t) /\ f[i] \in {"+", t[i]}
       IN \/ \E i \in hash : \A j \in 1..(i - 1) : Level(j)
          \/ hash = {} /\ Len(f) = Len(t) /\ \A i \in DOMAIN f : Level(i)

(* extractTrackedValue: no value when there is no such field. *)
NoValue == "null"
extractTrackedValue(payload, field) ==
    IF payload # NoPayload /\ field \in DOMAIN payload THEN payload[field] ELSE NoValue

Compares(raw, operator, target) ==
    LET r == Numbers[raw]  t == Numbers[target] IN
    CASE operator = "eq" -> r = t
      [] operator = "ne" -> r # t
      [] operator = "gt" -> r > t
      [] operator = "gte" -> r >= t
      [] operator = "lt" -> r < t
      [] operator = "lte" -> r <= t

(* Numbers where both are; only equality and containment are left to other *)
(* texts.                                                                  *)
evaluateClientCondition(raw, operator, target) ==
    \/ operator = "any"
    \/ /\ raw # NoValue
       /\ \/ operator = "exists"
          \/ operator = "contains" /\ <<raw, target>> \in Includes
          \/ /\ operator \in {"eq", "ne", "gt", "gte", "lt", "lte"}
             /\ IF Numeric(raw) /\ Numeric(target)
                THEN Compares(raw, operator, target)
                ELSE \/ operator = "eq" /\ raw = target
                     \/ operator = "ne" /\ raw # target

(* From left to right, no join being an "and"; when no condition has a     *)
(* join, the rule's match says how all are combined.                       *)
Joined(conditions, holds) ==
    LET f[i \in DOMAIN conditions] ==
            IF i = 1 THEN holds[1]
            ELSE IF conditions[i].join = "or" THEN f[i - 1] \/ holds[i]
            ELSE f[i - 1] /\ holds[i]
    IN f[Len(conditions)]
Combine(conditions, match, holds) ==
    IF conditions = <<>> THEN TRUE
    ELSE IF \E i \in DOMAIN conditions : i > 1 /\ conditions[i].join # "" THEN Joined(conditions, holds)
    ELSE IF match = "any" THEN \E i \in DOMAIN conditions : holds[i]
    ELSE \A i \in DOMAIN conditions : holds[i]

(* evaluateAllConditions: nothing is met before there is a payload of the  *)
(* rule's own topic; those of other topics are looked up in the cache,     *)
(* which maps brokers and topics to payloads.                              *)
Cached(cache, broker, topic) ==
    IF <<broker, topic>> \in DOMAIN cache THEN cache[<<broker, topic>>] ELSE NoPayload
evaluateAllConditions(payload, conditions, match, cache, broker, topic) ==
    LET Message(c) ==
            IF c.topic \in {NoTopic, topic} /\ c.broker \in {NoBroker, broker} THEN payload
            ELSE Cached(cache,
                        IF c.broker = NoBroker THEN broker ELSE c.broker,
                        IF c.topic = NoTopic THEN topic ELSE c.topic)
        Holds(c) ==
            /\ Message(c) # NoPayload
            /\ evaluateClientCondition(extractTrackedValue(Message(c), c.field), c.op, c.value)
    IN \/ conditions = <<>>
       \/ payload # NoPayload
          /\ Combine(conditions, match, [i \in DOMAIN conditions |-> Holds(conditions[i])])
================================================================================
