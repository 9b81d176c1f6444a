SPECIFICATION Spec
CONSTANTS
  Tickets <- MCTickets
  Plan <- MCPlan
  Following <- MCFollowing
  WindowSize = 20
  MaxDuplicates = 3
  Threshold = 2
  Rounds = TRUE
  Beginnings <- MCOrders
INVARIANTS TypeOK CloseAfterApproval
PROPERTIES GateLeftOnlyByRace ClosesWhatIsApproved
CHECK_DEADLOCK FALSE
