------------------------------ MODULE MCWsHub ------------------------------
(* Instances of WsHub for TLC: clients and panels are interchangeable.      *)
EXTENDS WsHub, TLC

Symmetry == Permutations(Clients) \cup Permutations(Panels)

\* The panel stamped on frames steers nothing: without it the states are fewer.
Unstamped == <<reader, clients, closed, queued, bookVars, request, closing, brokerVars, fanout>>

\* Bounds: of the topics of a broker that comes and goes one panel watches any at a
\* time, and such a broker dispatches nothing (hub_goes has one that does).
Churns(c, p)  == \E k \in panelSubs[c][p] : k[1] \notin StableBrokers
OneChurns     == \A c, d \in Clients, p, q \in Panels :
                   Churns(c, p) /\ Churns(d, q) => c = d /\ p = q
ChurnIsSilent == \A b \in Brokers \ StableBrokers : fanout[b] = Idle
=============================================================================
