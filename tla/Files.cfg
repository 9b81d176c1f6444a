CONSTANTS
  Processes = {p1, p2, p3}
  Nobody = Nobody
  Blind = Blind
  SaveAttempts = 3
  OldRow = old
  Threshold = 0
  RowAttempts = 4
  Readings = 2
  Worktrees = {"here", "there"}
  Common = "slot"
  Here = "here"
  Homes <- MCHomes
  Escalations = {e1, e2}
  Expirers = {x1, x2}
  Tickets = {"T1", "T2"}
  WindowSize = 4
  MaxDuplicates = 2
  ArchivedRequests <- MCArchivedRequests
  BusProcesses = {b1, b2}
  MaxEvents = 3
  MaxRotations = 2
  MaxCrashes = 1
  Writer = w
  WriterRequests <- MCWriterRequests
  NoCall = NoCall
  MaxLog = 5
  Scenes = {"writer", "rotation", "supervisor", "session", "artifact", "scorecard", "approvals", "suites"}
SPECIFICATION SceneSpec
SYMMETRY Symmetry
CHECK_DEADLOCK FALSE
INVARIANTS
  FilesTypeOK
  LostOnlyByRace
  LiveSequenceGrows
  ArchivesSeparate
  UnionIsChronological
  LiveLockNotStolen
  SnapshotSound
  RequestsKept
  ExpiryServedOnce
  GateWatched
  AbortedIsDead
PROPERTIES
  EmitIsAtomic
  IsAdvisory
  SaveIsAtomic
  RowsKept
