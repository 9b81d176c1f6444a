# Formal model of the ticket orchestrator

The repository runs a *ticket* through a builder, a manager and a human. Each of
them is a process of its own (a command of `agent_controller.py`, a bridge to a
model, a supervisor that polls), none of them talks to another, and they meet in
files: an append-only bus of events, a state file, claim files and markdown
projections. Most of what can go wrong is therefore an interleaving of file
accesses, or a process that dies between two of them. This directory holds TLA+
modules of that core, TLC configurations that check them, and TLAPS proofs.

Run in this directory:

    tlc -config EventBus_concurrent.cfg MCEventBus
    tlapm EventBusProofs.tla

`PROJECT.json` maps every definition to the lines it translates, and lists the
runs, the hazards each property is for, and the theorems.

## 1. Inventory

| part | state it keeps | operations that change it | what is hard |
|---|---|---|---|
| Event bus (`bus/event_bus.py`) | `events.jsonl` | `emit`, `emit_contract_gap` | no lock: reads, guard and append are separate accesses |
| State derivation (`bus/state_machine.py`, guard inside the bus) | none | pure | two derivations that must agree |
| Rotation (`archive_ticket_events`, `scripts/archive_event_bus.py`) | live file, one archive per ticket | `--all-terminal` | no lock: rotations and appends overlap, a handle outlives the file it was opened on, kills during the rewrite |
| Controller (`.agent/agent_controller.py`) | bus, TURN.md, execution_log.md, approvals | `--bootstrap-ticket`, `--mark-ready`, `--request-changes`, `--manager-approve`, `--escalate-human-gate`, `--resume-human-gate`, `--reopen-terminal-ticket`, `--pause`, `--resume`, `--abort` | one look, then minutes of gates, then a sequence of effects |
| Supervisor (`bus/supervisor.py`, `bus/builder_lifecycle.py`) | supervisor_state.json | `bootstrap`, `reconcile_state`, `run_once`, close and advance | crash windows; optimistic concurrency; other processes write its file |
| Requeue (`bus/builder_lifecycle.py`, `builder_locks.py`, `builder_relaunch.py`) | claim and takeover files, watermark, builder lock | `requeue_ticket`, `_claim_requeue`, `_relaunch_builder` | supervisor and bridge requeue together; TTL takeover; a close takes claims and watermark away |
| Review bridge (`scripts/manager_review_bridge.py`, `bus/review_bridge.py`) | manager_bridge_state.json, bridge_checkpoint.json | `_tick`, `run_manager_review_cycle`; the supervisor's watchdog starts another | a review takes minutes; its answer, its command and its checkpoint are separate |
| Approval store (`bus/approval.py`) | approvals/store.json | `save`, `check_and_expire_all` | read-modify-write without a lock; saved before or after the event it belongs to; failures that nobody is told |
| Artifact writes (`write_artifact_atomic`) | a `*.lock` beside any artifact | compare and replace | lock broken after 30 s |
| Supervisor lock (`_acquire_supervisor_lock`) | supervisor_lock.txt | acquire, break, release | empty file read as corrupt; two breakers; a probe of the owner that gets no answer |
| Session lock (`scripts/init_session_scratch.py`) | lock.json, `.takeover`, the directory itself | `init`, takeover, `archive` | a marker with a TTL of its own; the directory moves away |
| Test runner (`scripts/run_pytest_safe.py`) | pytest.lock and last-run.json per worktree, one slot for all | acquire, force, reconcile a dead run, release | a record judged by a lock that changes meanwhile |
| Scorecard (`scripts/ensemble_dispatch.py`) | scorecard.jsonl, its archives and their summaries | append, rotate, snapshot | rotation under open handles; a reader without a lock |
| Forced close (`scripts/reconcile_ticket.py`) | bus, supervisor_state.json, the locks | `reconcile_ticket` | asks for no pid, no revision and no approval |
| Closeout, batch controller | git, backlog | end-of-session sequences | resumption after partial failure |
| Gates, checkers, hooks, renderers, installers, memory tools | none, or one document | stateless checks and text transformations | none of it concurrent |

How they interact: every command and the bridge emit to the bus; the supervisor polls
it once a second, keeps a cursor and a watermark in supervisor_state.json, and
rewrites the markdown projections; commands read either the bus or execution_log.md;
`--manager-approve` removes supervisor_state.json, and with it the watermark. The
manager's commands are also there for whoever runs them by hand, beside a bridge that
is reviewing the same ticket. After a rejection the bridge runs one round of a
supervisor, under the supervisor's lock, and after every review it moves the
supervisor's cursor, without it. `reconcile_ticket` closes a ticket by force, whoever
is at work on it, and takes its locks. A supervisor that starts launches a bridge when
the heartbeat of the last one is old. Every one of these processes may be killed at
any time and started again.

What makes each part correct:

- *bus*: a closed ticket is not reopened by accident, duplicates are bounded,
  numbers never run ahead of the file, a gap is recorded once;
- *rotation*: an event is lost only in one of four ways (written to a file that had
  been replaced, or while a rotation held its read; its archive rewritten by two
  rotations at once, or by one that was killed), none changes ticket, and without
  kills and overlaps the union of both files is in order;
- *commands and supervisor*: no close without approval and confirmation but by
  force, no next ticket before the close, a confirmed close is finished, files come to
  agree with the bus, a human gate is left by a human;
- *requeue*: one rejection launches one builder for each claim file, whoever finds it
  and whoever dies; what was launched is remembered until a close clears the state
  file;
- *bridge*: a handoff is reviewed, and decided once; a closed ticket takes no
  rejection;
- *locks*: one holder at a time until the file was taken from a live holder, and
  who looked at a readable lock and learnt that its owner lives does not take it;
- *artifacts*: no update is lost while the lock is kept;
- *approvals*: no request is lost but to an older or an empty copy, an expiry is
  served once, a gate has somebody who times it out unless its escalation failed or
  died or its request was overwritten;
- *scorecard*: an appended row stays visible, a snapshot misses none;
- *test runner*: only a dead run is recorded as aborted.

`PROJECT.json` lists all components, modelled or not, and every hazard at its line.

## 2. Modules

    TicketStates <- BusRules <- EventBus <- MCEventBus, EventBusProofs
        |               ^---- AtomicBus    (refined by EventBus, one writer)
        |               ^---- BusArchive
        |               ^---- TicketLifecycle <- MCTicketLifecycle, TicketLifecycleProofs
        ^---- ReviewBridge <- MCReviewBridge, ReviewBridgeProofs
    Requeue <- MCRequeue, RequeueProofs
    BrokenLocks <- SupervisorLock, SessionLock, ArtifactWrite, SuiteRunner
    AdvisoryLock   (refined by the four lock modules)
    AtomicSave     (refined by ArtifactWrite)
    Files          one of EventBus, BusArchive, ApprovalStore, Scorecard and the
                   four lock modules to a behaviour
      <- MCFiles
      <- LockProofs   SupervisorLock, SessionLock, ArtifactWrite
         SuiteProofs  SuiteRunner
         StoreProofs  ApprovalStore, Scorecard
      <- FilesProofs  (of those three) the rotation and the whole

**TicketStates** has the two derivations of a state from events: that of
`StateMachine` (`EventState`, `DerivedState`) and that of the reentry guard
(`GuardState`, `GuardDerivedState`). A payload is reduced to the one field they
read (`arg`).

**BusRules** has the rules of `emit` as operators on a sequence of records:
duplicate window, reentry guard, gap check, next number; `Emitted` is a whole
call that nothing interrupts. `rest` stands for the remainder of a payload, the
texts in it, which only the duplicate count compares.

**EventBus** takes a call apart: `Begin`, `CheckGap` (emit_contract_gap's scan),
`ReadRecords` (first read: number and duplicates), `Guard` (second read),
`AppendRecord`. `trail` is a history of who appended and how much of the file the
guard had read.

**AtomicBus** is the promise: each call appends one record or nothing, decided on
the log as it is. EventBus with one writer implements it (`EmitIsAtomic`).

**BusArchive** has every process emit and rotate. A rotation
(`archive_ticket_events`) is a read of the live file, a read of the archive, its
truncation, its write and the replacement of the live file; several overlap, and any
may be killed. An emit is the read that gives its number (`Number`), the open and the
write, which goes to the file that was opened (`detached` once that was replaced).
`written` is the history of what was written, `stranded`, `overtaken`, `contended` and
`torn` those of the four ways to lose it, `outrun` that of numbers from an outdated read.

**TicketLifecycle** has a process each for builder, manager, bridge, human, supervisor
and launcher (who closes by force). The manager's commands are those run by hand; the
bridge decides on its own (`Review`), on what it saw minutes before, and then runs
commands too. `late` is the history of rejections that were decided on before the
ticket was ready to close and written after; `looked` is how much of the bus a command
saw. A command looks once and decides; `work[p]` then holds the effects it has still
to perform, in the order of the code (events, files, approvals). Effects that read the
bus again (`SyncReady`, `DecideChanges`, `Backfill`, `Advance`) are entries of their
own. The supervisor's round is `expire`, `project`, `advance`; a close is `COMPLETED`,
`SUPERVISOR_CLOSED`, save, activation of the next ticket. `StartSupervisor`, `Adopt` and
`Retire` are reconcile_state. `Reconcile` is the forced close: it emits what one read
found missing and then writes the state file from an earlier read (`LoadState`,
`OverwriteState`). A beginning is a bus this program can have left behind: `Orderly`
says what that is, TLC evaluates it of the beginnings of the runs, and the proofs show
that every step keeps it.

**Requeue** has one step per access to supervisor_state.json, the claim and the
takeover file. A rejection is a numbered trigger. `Loopers` are supervisors,
which start and then loop; `Rescuers` start for one round, as the bridge does,
and afterwards read, load and save the supervisor's state to move its cursor
(`SyncRead`, `SyncLoad`, `SyncSave`). Closes of the ticket are there with what they take
away: `Approve` and `ClearAuxiliary` (the state file is unlinked, and the watermark reads
as 0), `ForceClose`, `DiscardClaims` and `ResetState` (reconcile_ticket), `ClearTerminal`
(a supervisor that starts). `removed` and `cleared` count the claims and state files
that went.

**ReviewBridge** has the bridges' watch loop: `Tick` chooses what to review by
cursor and checkpoint, the guards and failures of a review, `Decide` (the event),
`Approve`, `RequestChanges` and `Escalate` (what the command does to the bus),
`Save` (checkpoint and state file), `Watchdog` (a supervisor launches a second
bridge). Builder, human and closing supervisor are there by their events.

**SupervisorLock**, **SessionLock**, **SuiteRunner** and **ArtifactWrite** have one
step per access to a lock file: create, fill, read, judge, unlink. What they share is
in **BrokenLocks**: `causes` is a history of how live processes lost their files. In
SupervisorLock a process may also be a run of reconcile_ticket (`Visit`, `Remove`),
and a check may take a live owner for dead (`guess`: tasklist is missing or does not
answer). **AdvisoryLock** is what each of them promises; SessionLock implements it
twice (lock.json, and the takeover marker, which can lapse), SuiteRunner twice (the
shared slot, and the lock of each worktree). **AtomicSave** is the one-step save that
TicketLifecycle and Requeue use of supervisor_state.json; ArtifactWrite implements it
until the lock of a live writer was broken.

**ApprovalStore** has the unlocked read and write of store.json by escalations,
which move the ticket first, and by expiring rounds, which save first. `Inspect` is the
bridge's decision, which moves the ticket before its command runs; `Fail` a command or a
creation of the request that fails, of which nobody is told; `Contents` what a read
can give, the empty store when it fails.

**Scorecard** has appends, rotation and a reader, with files told apart by their
inode, so that a handle opened before a rotation goes on writing to the archive.

**Files** looks at one of these per behaviour: the first state picks the scene.
Variables of the same name are shared between scenes and the rest idles. **MCFiles**
has the small instance for TLC.

What is abstracted, and why it changes no answer asked here:

- redaction, the JSONL files of blocked calls, messages and timestamps: no
  decision reads them;
- the gates of `--mark-ready` (scope, evidence, hygiene, breaker) and the suite
  gate of `--manager-approve` pass or fail by choice; a failure before the first
  effect is a command that does nothing;
- in TicketLifecycle an emit is one step (EventBus has its inside), TURN.md and
  execution_log.md are written together (`Show`), `from_state` is what the command
  read first, and the loop's cursor and requeue part is in Requeue; the archive is
  not rotated (BusArchive does that);
- in Requeue the supervisor's active ticket does not change, so `requeue_ticket`
  never gives up because the ticket is another; READY_TO_CLOSE and COMPLETED are
  both "no relaunch", and the supervisor's lock, which two can hold, keeps nobody
  away. The model may therefore launch where the code would not. reconcile_ticket's
  removal of the claims, a loop over the directory, is one step;
- in ReviewBridge a sequence number is a position in the log of one ticket, and the
  prompt and the attempts at one answer are one choice of an answer;
- a pid is never used again by another process; a lock's age is a choice wherever
  the code compares it with a limit, so every timing is allowed;
- PermissionError and its retries (Windows), the contents of scorecard rows and
  summaries, run_history.jsonl (telemetry that may fail), the session commands
  `add`, `audit`, `list` and `gc`.

## 3. Runs

All runs set `CHECK_DEADLOCK FALSE`: the number of calls, commands or processes is
bounded, and when they are used up the system may stop. The longest take two to
three minutes with two workers.

| run | asks | bounds | states |
|---|---|---|---|
| bus_concurrent | two writers: type, reopening only by a race, duplicates, numbers, gaps | 5 records, window 4, threshold 2 | 732,000 |
| lifecycle_orders | builder, manager, human on a new ticket; a bridge beside manager and supervisor in a first review, and beside the supervisor in the second review of a reopened ticket; manager, supervisor on such a second review; a launcher with the supervisor, or with builder and manager: approval before close, gates left only by a race, an old confirmation closes nothing | 3 commands, no kill; bridge: 2 or 1 commands, no kill; supervisor with manager or launcher: 1 command, 1 kill; launcher with builder and manager: 2 commands, 1 kill | 502,000 |
| lifecycle_live | manager, supervisor on a ticket in review; launcher, human, supervisor on a half-done close: order of the close; with fairness, files follow the bus, closes finish, the next ticket starts | 2 commands, 1 kill | 192,000 |
| requeue_scenes | supervisor alone, supervisor and bridge, closes among them: a claim for each launch, one relauncher, remembered | alone: 2 rejections with 1 kill and 1 expiry of each claim, or with 1 close and 1 reopening; 1 rejection with all of these and 2 kills. With a bridge: 2 rejections and 1 visit; 1 rejection and 2 visits with 1 kill, or with 1 expiry; 1 rejection, 1 visit and 1 close | 3,046,000 |
| review_bridge | one bridge, two bridges, a reopened ticket: handoffs parked, decided twice, served | threshold 2; 3 commands, 1 kill, 1 timeout; 1 command, 1 kill and a second bridge; 2 commands after a reopening | 90,000 |
| files | eight scenes, see below | 3 processes, 2 worktrees; on the bus 2 processes | 1,319,000 |
| lifecycle_count, lifecycle_approve | two sentences, refuted | 3 and 2 commands, no kill | |
| requeue_recover, requeue_missed | two sentences, refuted | 1 rejection | |
| review_forgets, review_reopened | two sentences, refuted | 2 commands | |

The scenes of `files`: *writer* (one writer of the bus, 5 records), *rotation* (2
processes, 3 events of 2 tickets, 2 rotations, 1 kill), *supervisor*, *session*,
*artifact* (3 attempts), *scorecard* (every append rotates, 4 attempts, 2 readings),
*approvals* (2 escalations, 2 rounds), *suites* (2 worktrees). Three processes and any
number of kills of them in the lock and scorecard scenes, where a process that starts
again is another one. The processes of a scene differ only by their names, so the run
uses symmetry; all its properties are safety properties.

A lifecycle or review run begins at one of the `Beginnings` of its cfg: a bus, who
takes part, and how many commands and kills are still to come (the variable `left`).

Why the bounds are enough. The duplicate window is 4 with a threshold of 2, so five
records fill it, hit the threshold and slide past it; the repository's values (20 and
3) are used in TicketLifecycle. A race in `emit` needs two writers; its bound grows
with their number, which the proofs cover. Two rotations and an emit between them need
two processes; an archive with something in it takes an earlier rotation of its
ticket, and mixing up takes a second ticket: three events, two rotations. Longer
histories, and three processes at once, are left to the proofs. A lifecycle run starts
where its question starts: a new ticket, one in review, one reopened, or the fourth
round (the log is built with `Calls` by the same rules), so two or three commands are
enough to overlap, and one kill to leave something half done. Two rejections are
needed for a watermark to go back, a close and a reopening for a rejection to be
launched twice. A lock is lost by a late verdict when one process holds it, a second
breaks it and a third creates it anew: three processes; the proofs cover any number.
Two rounds of expiry and two requests are the least that can undo each other. A
scorecard row is lost, if at all, by a rotation, a writer that recreates the file and
a third with an old handle.

Fairness. `FairSpec` of TicketLifecycle is weak fairness of each process's next
effect and of the supervisor's round: a command runs to its end unless it is
killed, and `run_loop` calls `run_once` and sleeps a second for ever. A supervisor
that ended is not assumed to be started again, and no command is assumed to be
issued. `Spec` of ReviewBridge is weak fairness of each bridge: the watch loop
runs for ever, and the manager's process and the commands it calls have time
limits. Nothing is assumed of the environment, nor of the modules of `files`.

What the properties say:

- `ReopenOnlyByRace`: an event that takes a ticket back from a terminal state comes from a
  call that had passed the guard before the close was written. With one writer
  nothing reopens (`SingleWriterKeepsClosed`), and a call is one step
  (`EmitIsAtomic`, scene *writer*).
- `DuplicatesBounded`, `SeqWithinHistory`, `GapOncePerWriter`: what is left of the
  other rules under concurrency: one more duplicate per further writer, numbers
  no larger than positions, no writer records a gap it has recorded before.
- `LostOnlyByRace`: an event disappears only when it was written to a file that had
  been replaced, or while a rotation held its read, or when its archive was rewritten
  by two rotations at once or by one that was killed. `LiveSequenceGrows`: numbers that
  do not grow are the work of a call whose read was outdated when it wrote; a
  rotation alone never disturbs them. That numbering starts again at 1 once the live
  file is empty, below the cursors, is what the code does, and no property denies
  it. `ArchivesSeparate` and `UnionIsChronological` are what readers of either file or
  both rely on.
- `CloseAfterApproval`, `NextAfterClose`, `CompletedIsClosed`,
  `ClosesWhatIsApproved`, `GateLeftOnlyByRace`: the order of review, close and
  the next ticket, across commands, supervisor and kills. Only `reconcile_ticket`
  closes without approval and confirmation, and its events name it; a bridge that
  finds an old close repeats it (`Repeated`).
  `ClosesWhatIsApproved` asks that nobody has taken the *readiness to close* back.
  The approval itself may be older than a return to work: when a human reopens a
  ticket while an approval's cascade is under way, the rest of the cascade makes
  it ready to close again, and the supervisor closes it. And a rejection that a
  bridge or a second manager decided before the ticket was ready to close, and wrote
  after, stops nothing: `close_active_ticket` looks at the latest STATE_CHANGED and for
  a CLOSE_CONFIRMED. The property excuses these (`late`) and no other rejection.
- `FilesFollowBus`, `ConfirmedCloses`, `NextActivated`: what the loop ensures.
- `LaunchedOncePerClaim`: a rejection is launched again only after the claim file of
  the launch before is gone, removed by the takeover of a stale claim or with a finished
  ticket. `OneRelauncher`: two processes are past the claim of one rejection only then.
  `LaunchedIsRemembered`: what the supervisor launched it does not launch again,
  even when the claim has expired, unless a close took the state file away in
  between: an approval unlinks it, so that a ticket that is reopened has its last
  rejection launched once more. `WatermarkGrows`: nor does anything else bring an
  older watermark back. The last two are claimed of one supervisor without a visit of
  the bridge: with one, a slow holder of the first trigger may save its number after
  the second, and with two supervisors as well.
- `ParkedForAReason`: a handoff that the checkpoint covers though it was not
  decided was made while a bridge worked, or ended in a recorded failure.
  `DecidedOnce`: one handoff is decided twice only after a timeout or with a second
  bridge. `ClosedTakesNoRejection`: no rejection takes a closed ticket back.
  `HandoffServed`: a handoff made while the bridge is idle is taken up, unless the
  bridge dies.
- `IsAdvisory`: each lock file implements AdvisoryLock: two holders at once only
  after the file was taken from a live one. `LiveLockNotStolen`: and that is never
  done by one who looked at the readable lock of a live process and learnt that it
  lives, within the rules of the code: a suite may take the slot of a run in its own
  worktree, a forced close takes the supervisor's lock of its ticket from whoever has it,
  and on Windows a supervisor takes a live owner for dead when tasklist is missing or does
  not answer.
  `SaveIsAtomic`: an update is lost only after the lock of a live writer was broken.
- `RowsKept`: the row of an append that returned stays where readers look, and
  archives take no further row. `SnapshotSound`: a snapshot has every row that was
  there when it began, and has rows twice only of a file that was rotated and has
  outgrown its old size meanwhile.
- `RequestsKept`, `ExpiryServedOnce`: a request is gone, an expiry served twice only
  when an older copy of the store was written back, or the empty one of a read that
  failed. `GateWatched`: a ticket is at the human gate without a timeout only when the
  escalation that took it there failed or died, its request was overwritten, or the
  round that expired it died. The failures are silent in the code: the bridge ignores
  the return code of its command, the command an error while it creates the request.
- `AbortedIsDead`: a run recorded as aborted is dead or past its release, unless
  its lock was taken from it.

## 4. Where code and text disagree

The runs with `"expect": "violation"` state one sentence each of a docstring,
comment or test, and TLC finds an execution of the code that breaks it; `findings`
in PROJECT.json quotes the sentence. In short:

- the fourth rejection in a window is dropped as a duplicate, so the count that
  escalates stays behind (`lifecycle_count`);
- the approval trusts execution_log.md and approves a ticket that is at a human
  gate or blocked by its contract (`lifecycle_approve`);
- a stale claim can be recovered twice (`requeue_recover`);
- a rejection between the two reads of one round is passed over (`requeue_missed`);
- what a review learned for the next one is erased by the bridge's own save of the
  same file (`review_forgets`);
- a reopened and repaired ticket is completed without a review, because the guard
  finds the close from before the reopening (`review_reopened`).

One more disagreement is plain enough to need no run: the docstrings of `emit` and of its
guard (`event_bus.py:157-159, 286-291`) promise that no event takes a ticket back from
COMPLETED or READY_TO_CLOSE, while the guard asks `is_approved_or_terminal`, which leaves
READY_TO_CLOSE out on purpose (`state_machine.py:41-46`). The modules follow the code, and
what is stated of closed tickets is stated of the terminal states only.

## 5. Proofs

Every theorem holds for all values of the constants that satisfy the assumptions
named, which TLC evaluates for the values of the runs. Every safety invariant and
every action property that a run checks is a theorem. A refinement theorem has the
abstract specification instantiated in the module it is about, and the runs check the
same instance.

`EventBusProofs` (assumptions `BusAssumption`, `WriterAssumption`):

- `TypeCorrect`;
- `ReopeningIsARace` (`ReopenOnlyByRace`). Not inductive by itself: the
  invariant `GuardInv` adds that a writer about to append has a guarded prefix in
  which its event was not blocked, and that this holds of every appended event's
  prefix;
- `SequenceNumbersBounded` (`SeqWithinHistory`), with `SeqInv`: the last number a
  writer remembers is at most the length of the log, which only grows;
- `CopiesBounded` (`DuplicatesBounded`). `CopiesInv` counts, beside the copies in the
  window, the writers that may still add one; a writer joins them only when it counted
  fewer than the threshold, and a copy it writes takes it out of their number;
- `GapsRecordedOnce` (`GapOncePerWriter`). `GapInv` adds that a writer past its scan
  has no record of this gap in the log;
- for one writer, `SingleWriterSequence` (`SeqIsPosition`), `SingleWriterKeepsClosed`
  (`NoReopen`) and `SingleWriterIsAtomic` (the refinement of AtomicBus), with
  `SingleInv`: what the only writer has read is still the log.

`TicketLifecycleProofs`, for any number of commands, kills and rounds, and any beginnings
with an orderly bus (`LifecycleAssumption`, `BeginningAssumption`): `TypeCorrect`,
`NoUnapprovedClose` (`CloseAfterApproval`), `NextWaits` (`NextAfterClose`),
`CompletedFollowsBus` (`CompletedIsClosed`), `GateHolds` (`GateLeftOnlyByRace`) and
`ClosesOnlyApproved` (`ClosesWhatIsApproved`). They share one invariant, `LifeInv`,
because a command's effects are decided long before they are performed: every effect
still to come finds in the bus what has to come before it, or an earlier effect of
the same process writes it (`WorkInv`); the files name as closed only what the bus
has closed (`FilesInv`); whoever rejects looked at a ticket that was not ready to close
(`DecidersInv`), so that a rejection after the readiness to close is `late`
(`NotTakenBack`); the builder hands off what was at no
human gate when it looked (`BuilderInv`). `Orderly` of the bus is part of it: without
it a beginning could hold a close that nobody approved.

`RequeueProofs`, for any finite sets of supervisors and bridges, rejections and kills
(`RequeueAssumption`):

- `TypeCorrect`;
- `ClaimsAccount` (`Accounted`): the launches of a rejection and the processes that are
  about to launch it (`Owners`) are no more than its claim files, the one that is there
  and those that were removed; whoever has launched and not yet reported
  (`Reporters`) is among the launches. Each takeover, each close and each clean-up that
  removes a claim pays for one launch more. `LaunchedOncePerClaimAlways` and
  `OneRelauncherAlways` follow;
- `RemembersAlways` (`Remembers`): until a bridge comes by, one supervisor's launches,
  and the launch that is on its way, are behind the watermark but for one for each
  time the state file was cleared; from the check of the watermark to its save the
  trigger is above it; and whoever has found no state file has written none since
  (`Absent`), which is why a save that compares no revision does no harm.
  `WatermarkOnlyGrows` (`WatermarkGrows`) and `LaunchedIsRememberedAlways`
  (`LaunchedIsRemembered`) follow.

None of them has a hypothesis: kills, expired claims, closes and reopenings may come
in any number, and what bounds a property is written in it: the removals of a
claim, the clearings of the state file, and, for the watermark, that one supervisor
works and no bridge came by.

`ReviewBridgeProofs`, for any number of bridges, kills, timeouts and commands, from any
log in which decisions and closes are in order (`BridgeAssumption`): `TypeCorrect`,
`NothingParkedUnexcused` (`ParkedForAReason`), `HandoffDecidedOnce` (`DecidedOnce`) and
`ClosedStaysClosed` (`ClosedTakesNoRejection`). `BridgeInv` adds that every
SUPERVISOR_CLOSED follows its COMPLETED (`Sealed`), so that the bus says closed to who
looks after it; that a bridge alone has a handoff no decision follows whenever it
looks at one or reviews (`Alone`), which is what keeps it from deciding twice; and
that the checkpoint passes over a handoff only with a reason (`ParkInv`).

`LockProofs` and `SuiteProofs`, for any processes (`Nobody` is none of them):

- SupervisorLock (with probes that get no answer): `TypeCorrect`, `LiveLockKept`,
  `SupervisorReleaseIsSecond`, `SupervisorLockIsAdvisory`. `LockInv` adds that until a
  live lock was lost the lock names every holder (`SupervisorHolderNamed`), and that
  whoever is about to break a readable lock, and had an answer about its creator, judged
  one whose creator is dead and stays dead (`DeadJudged`).
- SessionLock: `LiveSessionKept`, `SessionLockIsAdvisory`,
  `TakeoverMarkerIsAdvisory`. `SessionInv` adds the same of the marker
  (`TakerNamed`), that a file is filled by its creator (`WrittenOnce`), and that
  a taker who has revalidated is about to remove a lock that is not live
  (`LiveOneGone`).
- ArtifactWrite: `WriteLockIsAdvisory`, `ArtifactReleaseIsSecond`, `WriteIsAtomic`.
  `WriteInv` adds `ComparedStill`: between comparison and replacement the file does not
  change while no live lock was broken.
- SuiteRunner (the shared slot is no worktree): `LiveSlotKept`,
  `AbortedIsDeadAlways`, `SuiteLocksAreAdvisory`. `SuiteInv` adds that records are
  true (`RecordsTrue`: a run was where its record says), that whoever marks a
  record found its run without a lock (`MarkedIsDead`), and what a run that clears
  the slot knows of its owner (`SlotJudged`).

`StoreProofs`:

- ApprovalStore (escalations and rounds are different processes):
  `RequestsKeptAlways`, `ExpiryServedOnceAlways`, `GateWatchedAlways`, with failures
  of commands, creations and reads at any time. `StoreInv`
  adds `ServesAfterSave` (who serves a request has saved it as expired),
  `NotYetCreated` and `OneServes` (while nothing was undone one round serves it).
- Scorecard: `RowsKeptAlways` and `SnapshotSoundAlways`. `RowsInv` adds that one process
  owns an inode (`OneOwner`), that an owner past its check has the active file open
  (`HasOpen`, `OnActive`), that no inode has two names (`OneName`), and that
  appended rows are visible (`AppendsVisible`). `ReaderInv` follows the reader: after
  each of its accesses, where the rows are that were there when it began, and that rows
  it has twice come from an inode that is an archive by now.

`FilesProofs`, for the whole of Files (`FilesAssumption`, `RequestsAssumption`):
`FilesTypeCorrect`, and each property of the run `files` under its own name.
`FilesInv` is the invariant of each component in its scene. New in it is that of
BusArchive, `ArchiveInv`, for any number of processes that emit and rotate, from which
`EventsLostOnlyByRace`, `LiveNumbersGrow`, `ArchivesStaySeparate` and
`UnionStaysChronological` follow. Every record anywhere is one that was written
(`AllGenuine`); an archive and a rotation's part of it have only their own ticket
(`Sorted`); the live file, and whatever may replace it, are in the order of writing, and
a number from a read that is not outdated is the next one (`Numbered`); an event that
no race excused is in the live file or in its archive, and every rotation under way
knows where (`NoneLost`, `Knows`); and until a rotation is killed or overlaps another an
archive comes before what the live file has of its ticket (`Chronological`). The
selection of a ticket's records is written with positions (`Extract`), without recursion.

Only model-checked: liveness (`FilesFollowBus`, `ConfirmedCloses`, `NextActivated`,
`HandoffServed`), which is out of the prover's reach as ENABLED is. No module declares
a recursive operator or needs an induction over data: a state is derived from the last
positions of events in the log.

## 6. Not modelled

Whole components, with the reason for each in PROJECT.json: session closeout and
the batch controller (sequences around git or around the commands modelled here,
one process); projections, gates, checkers, the prompt's
transport, memory, backlog, installer and hooks (pure, or one document and one
process); the rounds and receipts of the ensemble and the flight tools (outside
the ticket's flow). They are most of the repository's lines, and none of them has
an interleaving or a protocol for a model checker to explore.

Of modelled components:

- `--abort-paused-ticket`, which writes an artifact of its own; `--pause-ticket` and
  `--resume-ticket`, whose call of `emit` lacks the required `actor`, so that no event
  of theirs ever reaches the bus;
- the builder's lock, which the launcher scripts write after they have started the
  shell, and the circuit breaker: both are a choice in TicketLifecycle;
- what a forced close does besides: the removal of the builder's lock and session, and
  of the bridge's files;
- a tasklist that fails with an error code, for the probe of the test runner
  (`run_pytest_safe.py`), which is taken as exact;
- `run_reactive`; the inside of a review's prompt.

## 7. Plan

1. The builder's lock and its launcher in place of the choice.
2. A forced close beside a bridge (its checkpoint removed under it); the batch
   controller's launch order against its graph.
3. ReviewBridge composed with ApprovalStore and with commands run by hand: today the
   first has the whole review, ApprovalStore and TicketLifecycle have its decision.
4. Proofs: a bound on the launches of a rejection by the expiries and closes there
   were; the round trip of the bridge's two files.

A new file protocol belongs in Files as a scene, a new command in a beginning of
TicketLifecycle: the runs are meant to stay few and short.
