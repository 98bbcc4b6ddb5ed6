SPECIFICATION Spec
CONSTANTS
  Filters <- PlainFilters
  Topics <- PlainTopics
  Sys <- SysNames
  Dollar = {"$SYS/x"}
  Matches <- PlainMatches
  Refused = {"no"}
  MaxHandlers = 2
INVARIANTS TypeOK SessionFits Reached RunOnce
CHECK_DEADLOCK FALSE
