SPECIFICATION FairSpec
CONSTANTS
  Loopers <- Supervisor
  Rescuers <- Bridge
  MaxChanges = 1
  Budgets <- QuietScene
PROPERTY ChangesTriggerRequeue
CHECK_DEADLOCK FALSE
