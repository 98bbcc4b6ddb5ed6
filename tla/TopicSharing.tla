---------------------------- MODULE TopicSharing ----------------------------
(***************************************************************************)
(* What the hub promises about a broker's topics (docs/websocket-          *)
(* protocol.md, "Reference Counting & Topic Multiplexing"), without its    *)
(* tables, locks and calls: panels of clients watch topics, and the topic  *)
(* is subscribed upstream exactly while somebody watches it.               *)
(***************************************************************************)
CONSTANTS Clients, Panels, Keys

VARIABLES watchers,   \* who watches each key: <<client, panel>> pairs
          upstream    \* the keys subscribed at the broker's manager

vars == <<watchers, upstream>>

Init == /\ watchers = [k \in Keys |-> {}]
        /\ upstream = {}

\* The upstream subscriptions follow the watchers in the same step.
Follow == upstream' = {k \in Keys : watchers'[k] # {}}

Watch(c, p, k) ==
  /\ watchers' = [watchers EXCEPT ![k] = @ \cup {<<c, p>>}]
  /\ Follow

Release(c, p) ==
  /\ watchers' = [k \in Keys |-> watchers[k] \ {<<c, p>>}]
  /\ Follow

Leave(c) ==
  /\ watchers' = [k \in Keys |-> {w \in watchers[k] : w[1] # c}]
  /\ Follow

Next == \E c \in Clients :
          \/ Leave(c)
          \/ \E p \in Panels : Release(c, p) \/ \E k \in Keys : Watch(c, p, k)

Spec == Init /\ [][Next]_vars
=============================================================================
