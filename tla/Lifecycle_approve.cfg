SPECIFICATION Spec
CONSTANTS
  Tickets <- MCTickets
  Plan <- MCPlan
  Following <- MCFollowing
  WindowSize = 20
  MaxDuplicates = 3
  Threshold = 2
  Rounds = TRUE
  Beginnings <- MCApproval
PROPERTY ApprovesWhatIsReady
CHECK_DEADLOCK FALSE
