SPECIFICATION StalledPeersSpec
CONSTANTS
  Clients = {c1, c2}
  Panels = {p1}
  Brokers = {b1}
  Topics = {t1}
  StableBrokers = {}
  SendCap = 1
PROPERTIES FanoutCompletes ClosedClientsLeave
CHECK_DEADLOCK FALSE
