----------------------------- MODULE MCWebPanels ------------------------------
(***************************************************************************)
(* The values with which the parts of a dashboard's page are checked.      *)
(***************************************************************************)
EXTENDS WebPanels, TLC

SomeFilters == {<<"a", "#">>, <<"+", "b">>}
SomeTopics == {<<"a", "b">>, <<"a", "c">>, <<"$", "b">>, <<"c", "b">>}

SomeTexts == {<<>>, <<"t">>, <<"u">>, <<"t", "u">>}

WindowNumbers == ("" :> 0) @@ ("30" :> 30) @@ ("0x1E" :> 30)
WindowFilters == {<<"a", "#">>, <<"b">>}
WindowTargets == {<<"a", "x">>, <<"+">>}
ConditionOf(t, b, j) == [topic |-> t, broker |-> b, op |-> "gt", value |-> "30", field |-> "", join |-> j]
RuleOf(s, cs, t, tb, m) ==
    [source |-> s, sourceBroker |-> "b1", conditions |-> cs, target |-> t, targetBroker |-> tb,
     mode |-> "on_change", count |-> 50, cooldown |-> 0, match |-> m, enabled |-> TRUE]
CooldownsTyped == {10, 15, -10}
StoredRules ==
    {RuleOf(<<"b">>, <<ConditionOf(<<"b">>, "b1", ""), ConditionOf(<<"b">>, "", "or")>>,
                <<>>, "", "all"),
     RuleOf(<<"b">>, <<ConditionOf(<<>>, "", ""), ConditionOf(<<"b">>, "b2", "")>>,
                <<<<"a", "x">>>>, "b2", "any")}

Lowered == [v \in {"ON", "OFF", "on", "off", ""} |->
               CASE v = "ON" -> "on" [] v = "OFF" -> "off" [] OTHER -> v]
Words == ("on" :> "on") @@ ("off" :> "off")
ToggleOf(b, t, s, st, sb, rt, pt) ==
    [broker |-> b, topic |-> t, separateRead |-> s, stateTopic |-> st, stateBroker |-> sb,
     readTemplate |-> rt, payloadTemplate |-> pt, on |-> "ON", off |-> "OFF"]
EchoToggle == ToggleOf("b1", <<"t">>, FALSE, <<>>, "", "blank", "object")
StateToggle == ToggleOf("b1", <<"t">>, TRUE, <<"s">>, "b2", "object", "value")
NewToggle == ToggleOf("", <<>>, FALSE, <<>>, "", "blank", "blank")
Reported == {[shape |-> "object", value |-> "on"], [shape |-> "value", value |-> "OFF"]}
TypedTopics == {<<>>, <<"t">>, <<"+">>, <<"t", "s">>}
TypedStates == TypedTopics \cup {<<"s">>}
Configured == {NewToggle, EchoToggle, StateToggle}
Panels == {EchoToggle, StateToggle}
SliderOf(b, t, s, st, sb, rt, pt) ==
    [broker |-> b, topic |-> t, separateRead |-> s, stateTopic |-> st, stateBroker |-> sb,
     readTemplate |-> rt, payloadTemplate |-> pt, min |-> 0, max |-> 10000, step |-> 100]
StoredSliders == {SliderOf("", <<>>, FALSE, <<>>, "", "none", "none"), SliderOf("b1", <<"t">>, FALSE, <<>>, "", "none", "object"),
                  SliderOf("b1", <<"t">>, TRUE, <<"s">>, "b2", "object", "none")}
Read == ("0" :> 0) @@ ("100" :> 10000) @@ ("1" :> 100) @@ ("200" :> 20000)
Endless == "1e999" :> 1

Within == {<<"30", "30">>, <<"30", "3">>, <<"20", "2">>}
PanelNumbers == ("20" :> 20) @@ ("25" :> 25) @@ ("30" :> 30)
PanelConditions == <<[topic |-> <<"a">>, broker |-> "b1", op |-> "gt", value |-> "25", field |-> "", join |-> ""]>>
================================================================================
