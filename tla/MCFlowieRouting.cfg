SPECIFICATION RoutingSpec
CONSTANTS
  Session = {"c1", "c2", "c3"}
  Persistent = {"c1"}
  Old = {"c2"}
  Denied <- MCDenied
  Dollar <- MCDollar
  MaxSubs = 2
  MaxRetained = 2
  Persistence = TRUE
  MaxFaults = 1
  Scenarios <- MCScenarios
INVARIANTS
  RoutesFollowOwners
  IndexAgreesWithOwners
  RetainedDurable
  SubscribeAnswered
CHECK_DEADLOCK FALSE
