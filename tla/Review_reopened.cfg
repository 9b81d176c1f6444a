SPECIFICATION Spec
CONSTANTS
  Ticket = T1
  Bridges = {b1}
  First = b1
  Threshold = 2
  Failures = {"REVIEW_ROLE_MODELS_BLOCKED", "REVIEW_EVIDENCE_BLOCKED", "REVIEW_TRANSPORT_FAILED"}
  Beginnings <- MCClosed
INVARIANT ReopenedIsReviewed
CHECK_DEADLOCK FALSE
