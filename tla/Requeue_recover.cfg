SPECIFICATION Spec
CONSTANTS
  Loopers <- Supervisor
  Rescuers <- Bridge
  MaxChanges = 1
  Budgets <- ExpiredScene
INVARIANT RecoveredOnce
CHECK_DEADLOCK FALSE
