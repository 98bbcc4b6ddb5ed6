SPECIFICATION Spec
CONSTANTS
  Panels = {p1}
  Topics <- TwoTopics
  Configs <- SustainedRules
  Ceiling = 2
  Second = 2
  TimerIds = {1, 2}
  MaxTime = 5
  Horizon = 4
  BrokerComesAndGoes = FALSE
PROPERTIES SustainedHeld
CHECK_DEADLOCK FALSE
