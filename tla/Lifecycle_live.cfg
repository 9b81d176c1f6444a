SPECIFICATION FairSpec
CONSTANTS
  Tickets <- MCTickets
  Plan <- MCPlan
  Following <- MCFollowing
  WindowSize = 20
  MaxDuplicates = 3
  Threshold = 2
  Rounds = TRUE
  Beginnings <- MCReview
INVARIANTS NextAfterClose CompletedIsClosed
PROPERTIES FilesFollowBus ConfirmedCloses NextActivated
CHECK_DEADLOCK FALSE
