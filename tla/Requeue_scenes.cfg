SPECIFICATION Spec
CONSTANTS
  Loopers <- Supervisor
  Rescuers <- Bridge
  MaxChanges = 2
  Budgets <- Scenes
INVARIANTS TypeOK LaunchedOncePerClaim OneRelauncher LaunchedIsRemembered
PROPERTY WatermarkGrows
CHECK_DEADLOCK FALSE
