SPECIFICATION Spec
CONSTANTS
  Clients = {c1}
  Panels = {p1}
  Brokers = {b1}
  Topics = {t1}
  StableBrokers = {}
  SendCap = 1
INVARIANT WatchedTopicsServed
CHECK_DEADLOCK FALSE
