SPECIFICATION Spec
CONSTANTS
  Panels = {p1, p2}
  Topics <- TwoTopics
  Configs <- TableRules
  Ceiling = 2
  Second = 2
  TimerIds = {1, 2}
  MaxTime = 1
  Horizon = 2
  BrokerComesAndGoes = TRUE
INVARIANTS TypeOK Listening Latched
CHECK_DEADLOCK FALSE
