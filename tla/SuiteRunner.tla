---------------------------- MODULE SuiteRunner ----------------------------
(***************************************************************************)
(* main of scripts/run_pytest_safe.py: each worktree has a pytest.lock and *)
(* a last-run.json, all worktrees of the repository share one slot.  A     *)
(* step is one access to one file.  Every run is a process of its own.     *)
(***************************************************************************)
EXTENDS BrokenLocks

CONSTANTS
  Processes,  \* the runs
  Worktrees,  \* the checkouts they are started in
  Common,     \* names the shared slot, pytest-canonical.lock; no worktree
  Nobody      \* the owner of a lock that is not there

VARIABLES
  home,     \* home[p]: the worktree of p
  at,       \* at[p]: where p is
  mode,     \* mode[p]: how p stands with the slot
  lock,     \* lock[f]: creator of the lock file f, and whether it has its JSON
  seen,     \* seen[p]: the lock p judged last
  prev,     \* prev[p]: the run whose record p reconciles
  lastRun,  \* lastRun[w]: last-run.json, whose it is and its status
  broken    \* history: lock files that were removed under live runs

history == << broken, causes >>

vars == << home, at, mode, lock, seen, prev, lastRun, history >>

NoLock == [ by |-> Nobody, filled |-> FALSE ]

Alive(p) == at[p] \notin { "unborn", "gone" }

(* The file p is about: first the slot, then the lock of its worktree. *)
File(p) == IF mode[p] \in { "granted", "forced" } THEN home[p] ELSE Common

Init ==
  /\ home \in [Processes -> Worktrees]
  /\ at = [p \in Processes |-> "unborn"]
  /\ mode = [p \in Processes |-> "seeking"]
  /\ lock = [f \in Worktrees \cup { Common } |-> NoLock]
  /\ seen = [p \in Processes |-> NoLock]
  /\ prev = [p \in Processes |-> Nobody]
  /\ lastRun = [w \in Worktrees |-> [ by |-> Nobody, status |-> "none" ]]
  /\ broken = {}
  /\ causes = {}

GoTo(p, where) == at' = [at EXCEPT ![p] = where]

(* What a process knew goes with it; its locks stay. *)
End(p) == GoTo(p, "gone") /\ mode' = [mode EXCEPT ![p] = "seeking"]

locks == << mode, lock, seen, history >>
records == << prev, lastRun >>

(* _reconcile_dead_run looks at the record of the last run ... *)
Begin(p) ==
  /\ at[p] = "unborn"
  /\ LET last == lastRun[home[p]] IN
     IF last.status = "started"
     THEN GoTo(p, "probe") /\ prev' = [prev EXCEPT ![p] = last.by]
     ELSE GoTo(p, "look") /\ UNCHANGED prev
  /\ UNCHANGED << home, locks, lastRun >>

(* A mutation: the pid is not looked up. *)
NeverLive(l) == FALSE

(* A lock that is absent or empty names no process. *)
Live(l) == l.filled /\ Alive(l.by)

(* ... and at the lock, only then: the record names no process. *)
Probe(p) ==
  /\ at[p] = "probe"
  /\ IF Live(lock[home[p]])
     THEN GoTo(p, "look") /\ prev' = [prev EXCEPT ![p] = Nobody]
     ELSE GoTo(p, "mark") /\ UNCHANGED prev
  /\ UNCHANGED << home, locks, lastRun >>

Row(p, status) == [ by |-> p, status |-> status ]

(* The record as it was read goes back, over what is there by now. *)
Mark(p) ==
  /\ at[p] = "mark"
  /\ lastRun' = [lastRun EXCEPT ![home[p]] = Row(prev[p], "aborted")]
  /\ prev' = [prev EXCEPT ![p] = Nobody]
  /\ GoTo(p, "look")
  /\ UNCHANGED << home, locks >>
-----------------------------------------------------------------------------
(* Both locks are taken the same way: exists, read, unlink, create, write. *)
Look(p) ==
  /\ at[p] = "look"
  /\ GoTo(p, IF lock[File(p)] = NoLock THEN "create" ELSE "read")
  /\ UNCHANGED << home, locks, records >>

(* The lock is another's.  A run without the slot fails, tries again until *)
(* --wait-lock is over, or goes on (--force-parallel); one without the     *)
(* lock of its worktree ends, and the slot it has stays taken.             *)
Refuse(p) ==
  \/ End(p)
  \/ /\ mode[p] \in { "seeking", "waiting" }
     /\ mode' = [mode EXCEPT ![p] = "waiting"]
     /\ GoTo(p, "look")
  \/ /\ mode[p] = "seeking"
     /\ mode' = [mode EXCEPT ![p] = "forced"]
     /\ GoTo(p, "look")

(* The lock of a dead process; the slot of a run in the same worktree. *)
Stale(p, l) == Live(l) => File(p) = Common /\ home[l.by] = home[p]

(* With --force-unlock the lock of the worktree goes in any case. *)
Read(p) ==
  /\ at[p] = "read"
  /\ LET l == lock[File(p)] IN
     \/ /\ Stale(p, l) \/ File(p) # Common
        /\ seen' = [seen EXCEPT ![p] = l]
        /\ GoTo(p, "clear")
        /\ UNCHANGED mode
     \/ ~Stale(p, l) /\ Refuse(p) /\ UNCHANGED seen
  /\ UNCHANGED << home, lock, history, records >>

(* Why p, removing the file f, takes it from a live process: p releases    *)
(* what is no longer its own, judged another lock or this one while it was *)
(* empty, has the same worktree, or was told to.                           *)
Why(p, f) ==
  IF at[p] # "clear"                 THEN "release"
  ELSE IF seen[p].by # lock[f].by    THEN "late"
  ELSE IF ~seen[p].filled            THEN "empty"
  ELSE IF f # Common                 THEN "forced"
  ELSE IF home[lock[f].by] = home[p] THEN "displaced"
  ELSE "stolen"

Remove(p, f) ==
  /\ IF lock[f] = NoLock \/ lock[f].by = p \/ ~Alive(lock[f].by)
     THEN UNCHANGED history
     ELSE /\ broken' = broken \cup { f }
          /\ causes' = causes \cup { Why(p, f) }
  /\ lock' = [lock EXCEPT ![f] = NoLock]

Clear(p) ==
  /\ at[p] = "clear"
  /\ Remove(p, File(p))
  /\ seen' = [seen EXCEPT ![p] = NoLock]
  /\ GoTo(p, "create")
  /\ UNCHANGED << home, mode, records >>

(* O_CREAT | O_EXCL *)
Create(p) ==
  /\ at[p] = "create"
  /\ \/ /\ lock[File(p)] = NoLock
        /\ lock' = [lock EXCEPT ![File(p)] = [ by |-> p, filled |-> FALSE ]]
        /\ GoTo(p, "fill")
        /\ UNCHANGED mode
     \/ lock[File(p)] # NoLock /\ Refuse(p) /\ UNCHANGED lock
  /\ UNCHANGED << home, seen, history, records >>

(* The JSON goes to the file p created, which may be unlinked by now. *)
Fill(p) ==
  /\ at[p] = "fill"
  /\ lock' = IF lock[File(p)].by = p
             THEN [lock EXCEPT ![File(p)].filled = TRUE] ELSE lock
  /\ IF File(p) = Common
     THEN mode' = [mode EXCEPT ![p] = "granted"] /\ GoTo(p, "look")
     ELSE UNCHANGED mode /\ GoTo(p, "start")
  /\ UNCHANGED << home, seen, history, records >>
-----------------------------------------------------------------------------
Start(p) ==
  /\ at[p] = "start"
  /\ lastRun' = [lastRun EXCEPT ![home[p]] = Row(p, "started")]
  /\ GoTo(p, "run")
  /\ UNCHANGED << home, locks, prev >>

(* An interrupted run leaves the status as it was. *)
Finish(p) ==
  /\ at[p] = "run"
  /\ \E status \in { "finished", "started" } :
       lastRun' = [lastRun EXCEPT ![home[p]] = Row(p, status)]
  /\ GoTo(p, "release")
  /\ UNCHANGED << home, locks, prev >>

(* release_lock does not look whose lock it is; release_cross_worktree_lock *)
(* does, before.                                                           *)
Release(p) ==
  /\ at[p] = "release"
  /\ Remove(p, home[p])
  /\ GoTo(p, "leave")
  /\ UNCHANGED << home, mode, seen, records >>

Leave(p) ==
  /\ at[p] = "leave"
  /\ IF lock[Common].by = p /\ lock[Common].filled
     THEN GoTo(p, "yield") /\ UNCHANGED << mode, prev >>
     ELSE End(p) /\ UNCHANGED prev
  /\ UNCHANGED << home, lock, seen, history, lastRun >>

Yield(p) ==
  /\ at[p] = "yield"
  /\ Remove(p, Common)
  /\ End(p)
  /\ UNCHANGED << home, seen, records >>

Crash(p) ==
  /\ Alive(p)
  /\ End(p)
  /\ seen' = [seen EXCEPT ![p] = NoLock]
  /\ prev' = [prev EXCEPT ![p] = Nobody]
  /\ UNCHANGED << home, lock, history, lastRun >>

Next == \E p \in Processes :
          \/ Begin(p) \/ Probe(p) \/ Mark(p)
          \/ Look(p) \/ Read(p) \/ Clear(p) \/ Create(p) \/ Fill(p)
          \/ Start(p) \/ Finish(p) \/ Release(p) \/ Leave(p) \/ Yield(p)
          \/ Crash(p)

Spec == Init /\ [][Next]_vars
-----------------------------------------------------------------------------
Places == { "unborn", "probe", "mark", "look", "read", "clear", "create",
            "fill", "start", "run", "release", "leave", "yield", "gone" }

LockStates == [ by : Processes, filled : BOOLEAN ] \cup { NoLock }

Whys == { "release", "late", "empty", "forced", "displaced", "stolen" }

Files == Worktrees \cup { Common }

Records == [ by : Processes, status : { "started", "finished", "aborted" } ]
             \cup { [ by |-> Nobody, status |-> "none" ] }

(* Type correctness; whose record is reconciled is known.                  *)
TypeOK ==
  /\ home \in [Processes -> Worktrees]
  /\ at \in [Processes -> Places]
  /\ mode \in [Processes -> { "seeking", "waiting", "granted", "forced" }]
  /\ lock \in [Files -> LockStates]
  /\ seen \in [Processes -> LockStates]
  /\ prev \in [Processes -> Processes \cup { Nobody }]
  /\ \A p \in Processes : at[p] \in { "probe", "mark" } => prev[p] \in Processes
  /\ lastRun \in [Worktrees -> Records]
  /\ broken \subseteq Files
  /\ causes \subseteq Whys

(* The lock file f of a live run was taken away. *)
Broken(f) == f \in broken

(* Whose file f is: p created it, or has been told that the slot is its    *)
(* own, or is past taking the lock of its worktree.                        *)
Owns(p, f) ==
  \/ at[p] = "fill" /\ File(p) = f
  \/ f = Common /\ mode[p] = "granted"
  \/ f = home[p] /\ at[p] \in { "start", "run", "release" }

Holders(f) == { p \in Processes : Owns(p, f) }

Shared(f) == INSTANCE AdvisoryLock WITH
  holders <- Holders(f), broken <- Broken(f)

(* The slot, and the lock of each worktree, keep the promise of            *)
(* AdvisoryLock: two runs have one at once only after it was taken from a  *)
(* live run.                                                               *)
IsAdvisory == \A f \in Files : Shared(f)!Spec

(* A run is recorded as aborted only when it is dead, or has released its  *)
(* lock, unless that lock was taken from a live run.                       *)
AbortedIsDead ==
  \A w \in Worktrees :
    lastRun[w].status = "aborted"
      => Broken(w) \/ at[lastRun[w].by] \in { "leave", "yield", "gone" }
=============================================================================
