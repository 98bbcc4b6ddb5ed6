------------------------- MODULE MCMqttSubscriptions -------------------------
(* Instances of MqttSubscriptions for TLC.                                  *)
EXTENDS MqttSubscriptions

\* Two filters of the application that overlap, one that the broker does not grant,
\* and one of the system.
PlainFilters == {All, SysAll, "a", "+", "no", "$SYS/x"}
PlainTopics  == {"a", "b", "$SYS/x"}
PlainMatches == {<<All, "a">>, <<All, "b">>, <<"a", "a">>, <<"+", "a">>, <<"+", "b">>,
                 <<SysAll, "$SYS/x">>, <<"$SYS/x", "$SYS/x">>}
SysNames     == {SysAll, "$SYS/x"}
=============================================================================
