---------------------------- MODULE MCLogicEngine ----------------------------
EXTENDS LogicEngine
Rule(mode, source, conds) ==
  [mode |-> mode, source |-> source, conds |-> conds, any |-> FALSE,
   cooldown |-> 0, need |-> 1, window |-> 1, hold |-> 1]
TwoTopics == {"s", "t"}
\* Rules that differ in the topics they listen to.
TableRules == {Rule("on_change", "s", {"s"}), Rule("every", "t", {"s", "t"}),
               [Rule("on_change", "t", {"s"}) EXCEPT !.any = TRUE]}
SustainedRules == {[Rule("sustained", "s", {"s"}) EXCEPT !.hold = 2],
                   [Rule("sustained", "s", {"s", "t"}) EXCEPT !.hold = 1]}
TimedRules == SustainedRules \cup
  {[Rule("every", "s", {}) EXCEPT !.cooldown = 2],
   [Rule("count", "s", {"s"}) EXCEPT !.need = 2, !.window = 2],
   [Rule("count", "s", {"s"}) EXCEPT !.need = 3, !.window = 2]}
=============================================================================
