CONSTANTS
  w1 = w1
  w2 = w2
  NoCall = NoCall
  Writers = {w1, w2}
  Tickets = {"T1"}
  Requests <- MCRequests
  WindowSize = 4
  MaxDuplicates = 2
  MaxLog = 5
SPECIFICATION Spec
SYMMETRY WriterSymmetry
CHECK_DEADLOCK FALSE
INVARIANTS
  TypeOK
  ReopenOnlyByRace
  DuplicatesBounded
  SeqWithinHistory
  GapOncePerWriter
