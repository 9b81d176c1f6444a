----------------------------- MODULE SessionLock -----------------------------
(***************************************************************************)
(* One session of scripts/init_session_scratch.py: cmd_init, which makes   *)
(* the session's directory or resumes it, its lock.json with the takeover  *)
(* marker, and cmd_archive, which moves the directory away.  Each command  *)
(* is a process with a pid of its own, and a step is one file access.      *)
(***************************************************************************)
EXTENDS BrokenLocks

CONSTANTS
  Processes,  \* the commands issued
  Nobody      \* nobody's pid

VARIABLES
  dir,      \* the directory: absent, without state file, or ready
  kept,     \* the archive has a directory of this session
  lock,     \* lock.json: the file, the pid written in it, readable, expired
  marker,   \* who created .takeover
  at,       \* at[p]: where process p is
  mine,     \* mine[p]: the file that p has open for writing
  seen,     \* history: seen[p]: the lock when p got the takeover marker
  lapsed    \* history: a takeover marker was removed because of its age

vars == << dir, kept, lock, marker, at, mine, seen, causes, lapsed >>

NoLock == [ file |-> Nobody, by |-> Nobody, filled |-> FALSE, expired |-> FALSE ]

Alive(p) == at[p] \notin { "unborn", "gone" }

(* Who has the lock: from the creation of the file to the end of the       *)
(* command, which leaves the lock where it is.                             *)
Holders == { p \in Processes : at[p] \in { "fill", "refill", "keep", "held" } }

(* Who has the takeover marker. *)
Takers == { p \in Processes :
              at[p] \in { "revalidate", "unlink", "recreate", "refill", "keep",
                          "drop" } }

Init ==
  /\ dir = "none"
  /\ kept = FALSE
  /\ lock = NoLock
  /\ marker = Nobody
  /\ at = [p \in Processes |-> "unborn"]
  /\ mine = [p \in Processes |-> Nobody]
  /\ seen = [p \in Processes |-> NoLock]
  /\ causes = {}
  /\ lapsed = FALSE

GoTo(p, where) == at' = [at EXCEPT ![p] = where]

folder == << dir, kept >>
memory == << mine, seen, causes, lapsed >>

(* A lock that lock_is_live and whose pid is alive. *)
Live(l) == l.filled /\ ~l.expired /\ Alive(l.by)

(* What an access by p costs a process that is alive and has the lock. *)
Cause(p, how) ==
  IF lock = NoLock \/ lock.by = p \/ ~Alive(lock.by) THEN {}
  ELSE IF lock.expired THEN { "expired" } ELSE { how }

(* cmd_init: a directory without its state file is refused. *)
Begin(p) ==
  /\ at[p] = "unborn"
  /\ \/ dir = "none" /\ GoTo(p, "mkdir")
     \/ dir = "made" /\ GoTo(p, "gone")
     \/ dir = "ready" /\ GoTo(p, "acquire")
  /\ UNCHANGED << folder, lock, marker, memory >>

Mkdir(p) ==
  /\ at[p] = "mkdir"
  /\ IF dir = "none"
     THEN dir' = "made" /\ GoTo(p, "state")
     ELSE dir' = dir /\ GoTo(p, "gone")
  /\ UNCHANGED << kept, lock, marker, memory >>

WriteState(p) ==
  /\ at[p] = "state"
  /\ dir' = "ready"
  /\ GoTo(p, "write")
  /\ UNCHANGED << kept, lock, marker, memory >>

(* _write_lock truncates whatever lock.json is there; Fill writes it.  It  *)
(* fails when the directory was moved.                                     *)
WriteLock(p) ==
  /\ at[p] = "write"
  /\ IF dir = "none"
     THEN GoTo(p, "gone") /\ UNCHANGED << lock, mine, causes >>
     ELSE LET file == IF lock = NoLock THEN p ELSE lock.file
          IN  /\ lock' = [ file |-> file, by |-> p, filled |-> FALSE,
                           expired |-> FALSE ]
              /\ mine' = [mine EXCEPT ![p] = file]
              /\ causes' = causes \cup Cause(p, "overwritten")
              /\ GoTo(p, "fill")
  /\ UNCHANGED << folder, marker, seen, lapsed >>

(* The JSON goes to the file that was opened, unlinked or not. *)
Filled(p) ==
  IF lock # NoLock /\ lock.file = mine[p]
  THEN [lock EXCEPT !.by = p, !.filled = TRUE] ELSE lock

Fill(p) ==
  /\ at[p] \in { "fill", "refill" }
  /\ lock' = Filled(p)
  /\ GoTo(p, IF at[p] = "fill" THEN "held" ELSE "keep")
  /\ UNCHANGED << folder, marker, memory >>

(* _acquire_lock: a missing lock is created, ... *)
Acquire(p) ==
  /\ at[p] = "acquire"
  /\ GoTo(p, IF lock = NoLock THEN "create" ELSE "judge")
  /\ UNCHANGED << folder, lock, marker, memory >>

(* A mutation: without O_EXCL. *)
CreatableAnyway == dir # "none"

(* _try_create_lock_exclusive: O_EXCL, in a directory that is there. *)
Creatable == dir # "none" /\ lock = NoLock

Create(p) ==
  /\ at[p] \in { "create", "recreate" }
  /\ IF Creatable
     THEN /\ lock' = [NoLock EXCEPT !.file = p, !.by = p]
          /\ mine' = [mine EXCEPT ![p] = p]
          /\ GoTo(p, IF at[p] = "create" THEN "fill" ELSE "refill")
     ELSE /\ UNCHANGED << lock, mine >>
          /\ GoTo(p, IF at[p] = "create" THEN "gone" ELSE "drop")
  /\ UNCHANGED << folder, marker, seen, causes, lapsed >>

(* ... a live one refused, any other taken over.                           *)
Judge(p) ==
  /\ at[p] = "judge"
  /\ GoTo(p, IF Live(lock) THEN "gone" ELSE "mark")
  /\ UNCHANGED << folder, lock, marker, memory >>

(* _takeover_lock: the marker is created with O_EXCL; one that is older    *)
(* than 60 s is removed first, whoever's it is.                            *)
Mark(p) ==
  /\ at[p] \in { "mark", "remark" }
  /\ \/ /\ marker = Nobody /\ dir # "none"
        /\ marker' = p
        /\ seen' = [seen EXCEPT ![p] = lock]
        /\ GoTo(p, "revalidate")
     \/ /\ marker # Nobody \/ dir = "none"
        /\ UNCHANGED << marker, seen >>
        /\ \/ GoTo(p, "gone")
           \/ at[p] = "mark" /\ marker # Nobody /\ GoTo(p, "lapse")
  /\ UNCHANGED << folder, lock, mine, causes, lapsed >>

Lapse(p) ==
  /\ at[p] = "lapse"
  /\ marker' = Nobody
  /\ lapsed' = (lapsed \/ marker \in Takers)
  /\ GoTo(p, "remark")
  /\ UNCHANGED << folder, lock, mine, seen, causes >>

(* _revalidate_before_unlink *)
Verdict(p) == IF Live(lock) THEN "drop" ELSE "unlink"

Revalidate(p) ==
  /\ at[p] = "revalidate"
  /\ GoTo(p, Verdict(p))
  /\ UNCHANGED << folder, lock, marker, memory >>

(* The lock was empty and is taken for a stale one; or it was live when    *)
(* the takeover began; or it is newer than that.                           *)
Mistake(p) ==
  IF ~lock.filled THEN "empty"
  ELSE IF seen[p] = lock THEN "stolen" ELSE "late"

Unlink(p) ==
  /\ at[p] = "unlink"
  /\ lock' = NoLock
  /\ causes' = causes \cup Cause(p, Mistake(p))
  /\ GoTo(p, "recreate")
  /\ UNCHANGED << folder, marker, mine, seen, lapsed >>

(* finally: the marker goes, whoever's it is. *)
Unmark(p) ==
  /\ at[p] \in { "drop", "keep" }
  /\ marker' = Nobody
  /\ lapsed' = (lapsed \/ (marker # p /\ marker \in Takers))
  /\ GoTo(p, IF at[p] = "keep" THEN "held" ELSE "gone")
  /\ UNCHANGED << folder, lock, mine, seen, causes >>

(* cmd_archive: a live lock is refused; the audit; os.replace takes the    *)
(* directory and all its files away, unless the archive has one already.   *)
CheckArchive(p) ==
  /\ at[p] = "unborn"
  /\ dir # "none"
  /\ ~Live(lock)
  /\ ~kept
  /\ GoTo(p, "move")
  /\ UNCHANGED << folder, lock, marker, memory >>

Move(p) ==
  /\ at[p] = "move"
  /\ GoTo(p, "gone")
  /\ IF dir = "none" \/ kept
     THEN UNCHANGED << folder, lock, marker, causes, lapsed >>
     ELSE /\ dir' = "none"
          /\ kept' = TRUE
          /\ lock' = NoLock
          /\ marker' = Nobody
          /\ causes' = causes \cup Cause(p, "moved")
          /\ lapsed' = (lapsed \/ Takers # {})
  /\ UNCHANGED << mine, seen >>

(* 900 s pass. *)
Expire ==
  /\ lock.filled /\ ~lock.expired
  /\ lock' = [lock EXCEPT !.expired = TRUE]
  /\ UNCHANGED << folder, marker, at, memory >>

(* The command ends, or is killed: its files stay. *)
End(p) ==
  /\ Alive(p)
  /\ GoTo(p, "gone")
  /\ UNCHANGED << folder, lock, marker, memory >>

Next == \/ Expire
        \/ \E p \in Processes :
             \/ Begin(p) \/ Mkdir(p) \/ WriteState(p) \/ WriteLock(p) \/ Fill(p)
             \/ Acquire(p) \/ Create(p) \/ Judge(p) \/ Mark(p) \/ Lapse(p)
             \/ Revalidate(p) \/ Unlink(p) \/ Unmark(p)
             \/ CheckArchive(p) \/ Move(p) \/ End(p)

Spec == Init /\ [][Next]_vars
-----------------------------------------------------------------------------
(* lock.json keeps the promise of AdvisoryLock: two commands have the      *)
(* session only after one of them lost its lock to the other.              *)
Advisory == INSTANCE AdvisoryLock WITH
  holders <- Holders, broken <- causes # {}

IsAdvisory == Advisory!Spec

(* So does the takeover marker: two takeovers run at once only after the   *)
(* marker of a live one was removed, by its age or with the directory.     *)
Takeovers == INSTANCE AdvisoryLock WITH
  holders <- Takers, broken <- lapsed

TakeoverIsAdvisory == Takeovers!Spec
=============================================================================
