SPECIFICATION Spec
CONSTANTS
  Clients = {c1, c2}
  Panels = {p1, p2}
  Brokers = {b1, b2}
  Topics = {t1}
  StableBrokers = {b1}
  SendCap = 1
SYMMETRY Symmetry
VIEW Unstamped
CONSTRAINTS OneChurns ChurnIsSilent
INVARIANTS TypeOK BooksAgree WatchersHaveReaders SharedHandler
PROPERTY SharesTopics
CHECK_DEADLOCK FALSE
