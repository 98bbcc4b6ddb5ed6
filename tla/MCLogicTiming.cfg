SPECIFICATION FairSpec
CONSTANTS
  Panels = {p1}
  Topics <- TwoTopics
  Configs <- TimedRules
  Ceiling = 2
  Second = 2
  TimerIds = {1, 2}
  MaxTime = 5
  Horizon = 3
  BrokerComesAndGoes = FALSE
INVARIANTS Armed CountWaits
PROPERTIES OncePerEpisode HoldingFires CooldownKept CeilingHolds
CHECK_DEADLOCK FALSE
