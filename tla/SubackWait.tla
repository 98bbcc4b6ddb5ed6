------------------------------- MODULE SubackWait -------------------------------
(***************************************************************************)
(* Who waits for whom around a subscription.  SubscribePanel (ws/hub.go)   *)
(* and AddRule (logic/engine.go) ask a broker with their lock held, and    *)
(* the loader (mqtt/loader.go) with the one connection of the database;    *)
(* Subscribe (mqtt/client.go) waits for the answer, five seconds at most.  *)
(* The callbacks of messages take the same locks, one callback after the   *)
(* other, and the library reads no answer that is behind a message it      *)
(* cannot pass on.  Once a manager has '#' it asks for no other topic.     *)
(*                                                                         *)
(* A lock that is taken for a moment is a guard.  Left out: lost           *)
(* connections, and what becomes of a subscription that was given up,      *)
(* which MqttSubscriptions and WsHub have.                                 *)
(***************************************************************************)
EXTENDS Naturals, FiniteSets, Sequences, SequencesExt

CONSTANTS Brokers,
          Tasks,        \* lock, broker and topic
          Watched,      \* broker and topic: fan-outs made before
          Depth,        \* messages the library reads ahead
          MaxMessages   \* of each broker

All == "#"
Nobody == [lock |-> "none", broker |-> "none", topic |-> "none"]
Locks == {"hub", "engine", "database"}

VARIABLES step,         \* of a task: "new", "queued", "locked", "waits" or "done"
          holder,
          subs,         \* the managers' handlers: topic and the lock they take
          asked,        \* what was sent to a broker and not answered
          granted,
          line,         \* messages and answers on their way from a broker
          router,       \* what the callbacks of the message still take
          answered,
          sent
vars == <<step, holder, subs, asked, granted, line, router, answered, sent>>

Init ==
    /\ step = [k \in Tasks |-> "new"] /\ holder = [l \in Locks |-> Nobody]
    /\ subs = [b \in Brokers |-> {[topic |-> w[2], lock |-> "hub"] : w \in {v \in Watched : v[1] = b}}]
    /\ granted = [b \in Brokers |-> {w[2] : w \in {v \in Watched : v[1] = b}}]
    /\ asked = [b \in Brokers |-> <<>>] /\ line = [b \in Brokers |-> <<>>]
    /\ router = [b \in Brokers |-> <<>>] /\ answered = {} /\ sent = [b \in Brokers |-> 0]

Topics(b) == {s.topic : s \in subs[b]}
Handler(k) == [topic |-> k.topic, lock |-> k.lock]

-----------------------------------------------------------------------------
Arrives(k) ==
    /\ step[k] = "new" /\ step' = [step EXCEPT ![k] = "queued"]
    /\ UNCHANGED <<holder, subs, asked, granted, line, router, answered, sent>>
Lock(k) ==
    /\ step[k] = "queued" /\ holder[k.lock] = Nobody
    /\ step' = [step EXCEPT ![k] = "locked"] /\ holder' = [holder EXCEPT ![k.lock] = k]
    /\ UNCHANGED <<subs, asked, granted, line, router, answered, sent>>
Unlock(k) ==
    step' = [step EXCEPT ![k] = "done"] /\ holder' = [holder EXCEPT ![k.lock] = Nobody]

(* Subscribe: the handler is noted; the broker is asked for a topic's      *)
(* first one, unless '#' covers it.                                        *)
NeedsAsking(k) == k.topic \notin Topics(k.broker) /\ All \notin Topics(k.broker)
Subscribe(k) ==
    /\ step[k] = "locked"
    /\ subs' = [subs EXCEPT ![k.broker] = @ \cup {Handler(k)}]
    /\ IF NeedsAsking(k)
       THEN /\ step' = [step EXCEPT ![k] = "waits"] /\ holder' = holder
            /\ asked' = [asked EXCEPT ![k.broker] = Append(@, k)]
       ELSE Unlock(k) /\ asked' = asked
    /\ UNCHANGED <<granted, line, router, answered, sent>>
Answered(k) ==
    /\ step[k] = "waits" /\ k \in answered /\ Unlock(k)
    /\ UNCHANGED <<subs, asked, granted, line, router, answered, sent>>
(* Mutant: the wait has no limit. *)
Expires_Never(k) == FALSE
Expires(k) == step[k] = "waits"
TimedOut(k) ==
    /\ Expires(k) /\ Unlock(k)
    /\ UNCHANGED <<subs, asked, granted, line, router, answered, sent>>

-----------------------------------------------------------------------------
(* The broker answers, or does not, and sends messages of what it granted. *)
Grants(b) ==
    LET k == Head(asked[b]) IN
    /\ asked[b] # <<>> /\ asked' = [asked EXCEPT ![b] = Tail(@)]
    /\ granted' = [granted EXCEPT ![b] = @ \cup {k.topic}]
    /\ line' = [line EXCEPT ![b] = Append(@, [answer |-> TRUE, to |-> k, topic |-> k.topic])]
    /\ UNCHANGED <<step, holder, subs, router, answered, sent>>
Sends(b, t) ==
    /\ sent[b] < MaxMessages /\ sent' = [sent EXCEPT ![b] = @ + 1]
    /\ t \in granted[b] \/ All \in granted[b]
    /\ line' = [line EXCEPT ![b] = Append(@, [answer |-> FALSE, to |-> Nobody, topic |-> t])]
    /\ UNCHANGED <<step, holder, subs, asked, granted, router, answered>>

(* The library reads in order, and a few messages further than the one it  *)
(* has passed to the callbacks.                                            *)
InFront(b, i) == {j \in 1..(i - 1) : ~line[b][j].answer}
Reads(b, i) ==
    /\ line[b][i].answer /\ Cardinality(InFront(b, i)) <= Depth
    /\ answered' = answered \cup {line[b][i].to} /\ line' = [line EXCEPT ![b] = RemoveAt(@, i)]
    /\ UNCHANGED <<step, holder, subs, asked, granted, router, sent>>

(* The callback of a message runs the handlers in turn; that of '#' hands  *)
(* the message to the history's worker and takes nothing.  A fan-out may   *)
(* have to look in the database for the panel the message came from.       *)
Takes(lock) == IF lock = "hub" THEN {<<"hub">>, <<"hub", "database">>} ELSE {<<"engine">>}
Route(b) ==
    /\ line[b] # <<>> /\ ~Head(line[b]).answer /\ router[b] = <<>> /\ line' = [line EXCEPT ![b] = Tail(@)]
    /\ LET mine == {s \in subs[b] : s.topic = Head(line[b]).topic}
           taken(l) == IF [topic |-> Head(line[b]).topic, lock |-> l] \in mine THEN Takes(l) ELSE {<<>>}
       IN  \E f \in taken("hub"), r \in taken("engine") : router' \in {[router EXCEPT ![b] = f \o r], [router EXCEPT ![b] = r \o f]}
    /\ UNCHANGED <<step, holder, subs, asked, granted, answered, sent>>
Callback(b) ==
    /\ router[b] # <<>> /\ holder[Head(router[b])] = Nobody
    /\ router' = [router EXCEPT ![b] = Tail(@)]
    /\ UNCHANGED <<step, holder, subs, asked, granted, line, answered, sent>>

Next ==
    \/ \E k \in Tasks : Arrives(k) \/ Lock(k) \/ Subscribe(k) \/ Answered(k) \/ TimedOut(k)
    \/ \E b \in Brokers : \/ Grants(b) \/ Route(b) \/ Callback(b)
                          \/ \E i \in DOMAIN line[b] : Reads(b, i)
                          \/ \E t \in {s.topic : s \in UNION {subs[c] : c \in Brokers}} \ {All} : Sends(b, t)

(* Goroutines run on, and a wait lasts five seconds and no longer; the     *)
(* broker need not answer.                                                 *)
Fairness ==
    /\ \A k \in Tasks : WF_vars(Lock(k)) /\ WF_vars(Subscribe(k)) /\ WF_vars(Answered(k) \/ TimedOut(k))
    /\ \A b \in Brokers : WF_vars(\E i \in DOMAIN line[b] : Reads(b, i)) /\ WF_vars(Route(b)) /\ WF_vars(Callback(b))
Spec == Init /\ [][Next]_vars /\ Fairness

-----------------------------------------------------------------------------
(* The shapes of tasks and packets; a lock is held by the task that is at  *)
(* work with it, and by no other.                                          *)
TypeOK ==
    /\ step \in [Tasks -> {"new", "queued", "locked", "waits", "done"}]
    /\ \A l \in Locks : holder[l] # Nobody => holder[l].lock = l
    /\ \A k \in Tasks : holder[k.lock] = k <=> step[k] \in {"locked", "waits"}
    /\ \A b \in Brokers : \A i \in DOMAIN router[b] : router[b][i] \in Locks
    /\ answered \subseteq Tasks

(* hub.go:222: whoever asked for a lock gets it, gives it back, and leaves *)
(* nobody waiting; callbacks that wait for a lock run on, and every answer *)
(* behind them is read.                                                    *)
Rested ==
    /\ \A k \in Tasks : step[k] \in {"new", "done"}
    /\ \A b \in Brokers : line[b] = <<>> /\ router[b] = <<>>
================================================================================
