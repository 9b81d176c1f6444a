SPECIFICATION Spec
CONSTANTS
  Tickets <- MCTickets
  Plan <- MCPlan
  Following <- MCFollowing
  WindowSize = 20
  MaxDuplicates = 3
  Threshold = 4
  Rounds = TRUE
  Beginnings <- MCFourthRound
INVARIANT CountsEveryRejection
CHECK_DEADLOCK FALSE
