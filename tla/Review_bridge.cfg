SPECIFICATION Spec
CONSTANTS
  Ticket = T1
  Bridges = {b1, b2}
  First = b1
  Threshold = 2
  Failures = {"REVIEW_ROLE_MODELS_BLOCKED", "REVIEW_EVIDENCE_BLOCKED", "REVIEW_TRANSPORT_FAILED"}
  Beginnings <- MCBeginnings
INVARIANTS TypeOK ParkedForAReason DecidedOnce ClosedTakesNoRejection
PROPERTIES HandoffServed
CHECK_DEADLOCK FALSE
