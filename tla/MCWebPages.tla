------------------------------ MODULE MCWebPages ------------------------------
(***************************************************************************)
(* The values with which the pages of the browser are checked.             *)
(***************************************************************************)
EXTENDS WebPages, TLC

ShellRows == {<<"d1", "d2">>}

JobAttr(at, d, t, a, to, p, q, r, tr, b, due) ==
    [at |-> at, dashboard |-> d, type |-> t, automation |-> a, topic |-> to, payload |-> p, qos |-> q,
     retain |-> r, trigger |-> tr, broker |-> b, due |-> due]
JobAttrs == [j1 |-> JobAttr(1, "d1", "cron", 1, 2, 1, 0, TRUE, 1, 1, "soon"),
             j2 |-> JobAttr(2, "d2", "logic", 2, 1, 1, 1, FALSE, 2, 2, "none")]

TreeTopics == {<<"a">>, <<"a", "b">>, <<"$SYS", "v">>}
TreeUrls == {[topic |-> <<>>, broker |-> "nobroker"], [topic |-> <<"a", "b">>, broker |-> "b2"]}
TreeOutbounds == {[broker |-> "b1", topics |-> <<<<"a">>>>], [broker |-> "b1", topics |-> <<>>]}
TreeStores == {[b1 |-> {<<"a">>}, b2 |-> {<<"a", "b">>}]}

TreeQueues == {{}, {<<"b1", <<"a", "b">>>>}}

BrokerIds == <<"b1", "b2", "b3">>
BrokerRow(id, p, on, a) ==
    [text |-> id, port |-> p, enabled |-> TRUE, tls |-> on, auth |-> a, secret |-> "kept", id |-> id]
BrokerRows == <<BrokerRow("b1", "1883", FALSE, "none"), BrokerRow("b2", "8883", TRUE, "certificate")>>
TreeStatus == [b1 |-> "connected", b2 |-> "connected"]
SysTopics == {<<"$SYS", "v">>}
ListOfBrokers == <<"b1", "b2">>
SomeQueries == {<<"b">>}

(* A logic panel's configuration, off and on. *)
Switched == [c \in {1, 2} |-> [on \in BOOLEAN |-> IF on THEN 2 ELSE 1]]

(* The explorer alone, with one broker that has two topics. *)
OneBroker == <<"b1">>
TwoTopics == {<<"a">>, <<"b">>}
NoPicker == {[broker |-> "b1", topics |-> <<>>]}
PlainAddress == {[topic |-> <<>>, broker |-> "nobroker"]}
OneStatus == [b1 |-> "connected"]
OneStore == {[b1 |-> TwoTopics]}
NoneQueued == {{}}
=============================================================================
