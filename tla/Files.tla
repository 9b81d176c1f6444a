-------------------------------- MODULE Files --------------------------------
(***************************************************************************)
(* The files that processes share, one to a scene: three lock files, those *)
(* of the test runner, the scorecard, the approval store, the bus's files  *)
(* under rotation, and the bus with a single writer.  The first state says *)
(* which of them is looked at.  Variables of the same name are shared; the *)
(* ones a scene has no use for keep a dummy, those of BusArchive and of     *)
(* ApprovalStore their first value, where their properties hold.           *)
(***************************************************************************)
EXTENDS ApprovalStore, BrokenLocks

CONSTANTS
  Processes, Nobody,
  Blind, SaveAttempts,                                  \* ArtifactWrite
  OldRow, Threshold, RowAttempts, Readings,             \* Scorecard
  Worktrees, Common,                                    \* SuiteRunner
  Here,             \* the worktree whose lock is looked at
  Homes,            \* where the runs may be started
  Tickets, WindowSize, MaxDuplicates,                   \* BusRules
  BusProcesses, ArchivedRequests,                       \* BusArchive
  MaxEvents, MaxRotations, MaxCrashes,
  Writer, WriterRequests, NoCall, MaxLog,               \* EventBus
  Scenes            \* the files that are looked at

(* Every process has a name of its own, a worktree is not the shared slot, *)
(* and the calls are ones that emit can be given.                          *)
ASSUME FilesAssumption ==
  /\ Nobody \notin Processes /\ OldRow \notin Processes
  /\ Common \notin Worktrees /\ Here \in Worktrees
  /\ Homes \subseteq [Processes -> Worktrees]
  /\ Escalations \cap Expirers = {}
  /\ { WindowSize, MaxDuplicates, MaxRotations, MaxCrashes, MaxLog } \subseteq Nat
  /\ NoCall \notin WriterRequests

VARIABLES
  scene, at,
  live, archive, pass, draft, rotations, written,          \* BusArchive
  outrun, stranded, overtaken, contended, torn, overlapped, crashes,
  log, pc, call, trail,             \* EventBus
  lock, seen,                       \* all locks
  dir, kept, marker, mine, lapsed,  \* SessionLock
  file, expect, tries,              \* ArtifactWrite
  files, active, archives, temps, summaries,
  handle, owns, failed, reader,     \* Scorecard
  home, mode, prev, lastRun, broken \* SuiteRunner

ofBus == << log, pc, call, trail >>
ofLocks == << lock, seen, causes >>
ofSession == << dir, kept, marker, mine, lapsed >>
ofArtifact == << file, expect, tries >>
ofScorecard == << files, active, archives, temps, summaries, handle, owns,
                  failed, reader >>
ofArchive == << live, archive, pass, draft, rotations, written, outrun, stranded,
                overtaken, contended, torn, overlapped, crashes >>
ofApprovals == vars
ofSuites == << home, mode, prev, lastRun, broken >>

ofFiles == << ofBus, ofLocks, ofSession, ofArtifact, ofScorecard, ofApprovals,
              ofSuites, at >>

allVars == << scene, ofArchive, ofFiles >>

Supervisor == INSTANCE SupervisorLock
Session == INSTANCE SessionLock
Artifact == INSTANCE ArtifactWrite WITH Attempts <- SaveAttempts
Rows == INSTANCE Scorecard WITH Attempts <- RowAttempts
Suites == INSTANCE SuiteRunner
Archive == INSTANCE BusArchive WITH
  Processes <- BusProcesses, Requests <- ArchivedRequests
Bus == INSTANCE EventBus WITH
  Writers <- { Writer }, Requests <- WriterRequests

ASSUME RequestsAssumption ==
  ArchivedRequests \subseteq Archive!Request /\ WriterRequests \subseteq Bus!Request

Unused == "unused"

NoBus == log = Unused /\ pc = Unused /\ call = Unused /\ trail = Unused

NoLocks == lock = Unused /\ seen = Unused /\ causes = {}
NoSession == /\ dir = Unused /\ kept = Unused /\ marker = Unused
             /\ mine = Unused /\ lapsed = Unused
NoArtifact == file = Unused /\ expect = Unused /\ tries = Unused
NoScorecard ==
  /\ files = Unused /\ active = Unused /\ archives = Unused /\ temps = Unused
  /\ summaries = Unused /\ handle = Unused /\ owns = Unused
  /\ failed = Unused /\ reader = Unused
NoSuites == /\ home = Unused /\ mode = Unused /\ prev = Unused
            /\ lastRun = Unused /\ broken = Unused

NoFiles == /\ at = Unused
           /\ NoLocks /\ NoSession /\ NoArtifact /\ NoScorecard

SceneInit ==
  /\ scene \in Scenes
  /\ Archive!Init
  /\ Init
  /\ scene # "writer" => NoBus
  /\ scene # "suites" => NoSuites
  /\ \/ scene = "rotation" /\ NoFiles
     \/ scene = "writer" /\ Bus!Init /\ at = Unused /\ lock = Unused /\ causes = {}
        /\ NoSession /\ NoArtifact /\ NoScorecard
     \/ scene = "supervisor" /\ Supervisor!Init
        /\ NoSession /\ NoArtifact /\ NoScorecard
     \/ scene = "session" /\ Session!Init
        /\ NoArtifact /\ NoScorecard
     \/ scene = "artifact" /\ Artifact!Init
        /\ NoSession /\ NoScorecard
     \/ scene = "scorecard" /\ Rows!Init
        /\ NoLocks /\ NoSession /\ NoArtifact
     \/ scene = "approvals" /\ at = Unused
        /\ NoLocks /\ NoSession /\ NoArtifact /\ NoScorecard
     \/ scene = "suites" /\ Suites!Init /\ home \in Homes
        /\ NoSession /\ NoArtifact /\ NoScorecard

SceneNext ==
  /\ scene' = scene
  /\ \/ scene = "rotation" /\ Archive!Next /\ UNCHANGED ofFiles
     \/ scene = "writer" /\ Bus!Next
        /\ UNCHANGED << ofArchive, at, lock, causes, ofSession, ofArtifact, ofScorecard,
                        ofApprovals, ofSuites >>
     \/ scene = "supervisor" /\ Supervisor!Next
        /\ UNCHANGED << ofArchive, ofBus, ofSession, ofArtifact, ofScorecard,
                        ofApprovals, ofSuites >>
     \/ scene = "session" /\ Session!Next
        /\ UNCHANGED << ofArchive, ofBus, ofArtifact, ofScorecard, ofApprovals, ofSuites >>
     \/ scene = "artifact" /\ Artifact!Next
        /\ UNCHANGED << ofArchive, ofBus, ofSession, ofScorecard, ofApprovals, ofSuites >>
     \/ scene = "scorecard" /\ Rows!Next
        /\ UNCHANGED << ofArchive, ofBus, ofLocks, ofSession, ofArtifact, ofApprovals,
                        ofSuites >>
     \/ scene = "approvals" /\ Next
        /\ UNCHANGED << ofArchive, ofBus, ofLocks, ofSession, ofArtifact, ofScorecard,
                        ofSuites, at >>
     \/ scene = "suites" /\ Suites!Next
        /\ UNCHANGED << ofArchive, ofBus, ofSession, ofArtifact, ofScorecard, ofApprovals >>

SceneSpec == SceneInit /\ [][SceneNext]_allVars
-----------------------------------------------------------------------------
(* Type correctness of the bus's files, of supervisor_lock.txt and of the  *)
(* test runner's files.                                                    *)
FilesTypeOK ==
  /\ Archive!TypeOK
  /\ scene = "supervisor" => Supervisor!TypeOK
  /\ scene = "suites" => Suites!TypeOK

(* The bus's files under rotation.  An event is lost only by a race: it    *)
(* was written to a replaced file or while a rotation held its read, or    *)
(* its archive was rewritten by two rotations or by one that was killed.   *)
LostOnlyByRace == Archive!LostOnlyByRace

(* In the live file the order of the numbers is the order of writing,      *)
(* up to calls of emit that numbered their event by an outdated read.      *)
LiveSequenceGrows == Archive!LiveSequenceGrows

(* An archive has events of its ticket only, the live file none twice.     *)
ArchivesSeparate == Archive!ArchivesSeparate

(* Archived and live events joined are in the order they were written.     *)
UnionIsChronological == Archive!UnionIsChronological

Holders ==
  CASE scene = "supervisor" -> Supervisor!Holders
    [] scene = "session" -> Session!Holders
    [] scene = "artifact" -> Artifact!Holders
    [] scene = "suites" -> Suites!Holders(Here)
    [] OTHER -> {}

Advisory == INSTANCE AdvisoryLock WITH
  holders <- Holders,
  broken <- IF scene = "suites" THEN Suites!Broken(Here) ELSE causes # {}

(* The second lock of the session, and of the test runner. *)
SecondHolders ==
  CASE scene = "session" -> Session!Takers
    [] scene = "suites" -> Suites!Holders(Common)
    [] OTHER -> {}

Second == INSTANCE AdvisoryLock WITH
  holders <- SecondHolders,
  broken <- CASE scene = "session" -> lapsed
              [] scene = "suites" -> Suites!Broken(Common)
              [] OTHER -> FALSE

Atomic == INSTANCE AtomicBus WITH Requests <- WriterRequests

(* With a single writer every call of emit appears to run in one step.     *)
EmitIsAtomic == [][scene = "writer" => [Atomic!Next]_log]_allVars

(* Each lock file keeps the promise of AdvisoryLock, and so do the         *)
(* takeover marker of the session and the slot that the worktrees' suites  *)
(* share: two processes hold one at once only after it was taken from a    *)
(* process that lives.                                                     *)
IsAdvisory == Advisory!Spec /\ Second!Spec

Whole == INSTANCE AtomicSave WITH
  file <- IF scene = "artifact" THEN file ELSE Blind,
  expect <- IF scene = "artifact" THEN expect ELSE [p \in Processes |-> Blind],
  broken <- scene = "artifact" /\ causes # {}

(* write_artifact_atomic loses an update only after the lock of a live     *)
(* writer was broken.                                                      *)
SaveIsAtomic == Whole!Spec

(* The row of an append that returned stays where readers look for it, and *)
(* no row is added to an archive, whatever handles are still open.         *)
RowsKept == [][scene = "scorecard" => Rows!RowsStep]_allVars

(* A reader's result has every row that was there when it began; twice it  *)
(* has rows only of a file that was rotated and has outgrown its old size. *)
SnapshotSound == scene = "scorecard" => Rows!SnapshotSound

(* A suite is recorded as aborted only when it is dead or has released its *)
(* lock, unless that lock was taken from a live one.                       *)
AbortedIsDead == scene = "suites" => Suites!AbortedIsDead
=============================================================================
