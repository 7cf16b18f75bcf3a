CONSTANTS
  Dashboards = {d1}
  Connections = {c1}
  None = None
  MaxEvents = 2
  MaxServerRestarts = 0
SPECIFICATION FeedSpec
INVARIANT VerdictsStreamed
CHECK_DEADLOCK FALSE
