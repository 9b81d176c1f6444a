--------------------------- MODULE SupervisorLock ---------------------------
(***************************************************************************)
(* supervisor_lock.txt: _acquire_supervisor_lock, _is_supervisor_lock_stale *)
(* and _release_supervisor_lock of bus/supervisor.py, one file access a    *)
(* step, and scripts/reconcile_ticket.py, which removes the lock of the    *)
(* ticket it closes.  Every process that ever runs has a name of its own:  *)
(* a restarted supervisor, or the bridge's next rescue, is another one.    *)
(***************************************************************************)
EXTENDS BrokenLocks

CONSTANTS
  Processes,  \* all that try to supervise, ticket_supervisor and the bridge,
              \* and runs of reconcile_ticket
  Nobody      \* the owner of a lock that is not there

VARIABLES
  lock,    \* the lock file: its creator, and whether its JSON is written
  at,      \* at[p]: where process p is
  seen     \* history: seen[p]: the lock p judged stale

vars == << lock, at, seen, causes >>

NoLock == [ by |-> Nobody, filled |-> FALSE ]

Alive(p) == at[p] \notin { "unborn", "gone" }

(* O_CREAT | O_EXCL makes p the owner before a byte is written. *)
Holders == { p \in Processes : at[p] \in { "fill", "held" } }

Init ==
  /\ lock = NoLock
  /\ at = [p \in Processes |-> "unborn"]
  /\ seen = [p \in Processes |-> NoLock]
  /\ causes = {}

GoTo(p, where) == at' = [at EXCEPT ![p] = where]

Start(p) ==
  /\ at[p] = "unborn"
  /\ GoTo(p, "open")
  /\ UNCHANGED << lock, seen, causes >>

Open(p) ==
  /\ at[p] = "open"
  /\ IF lock = NoLock
     THEN /\ lock' = [ by |-> p, filled |-> FALSE ]
          /\ GoTo(p, "fill")
     ELSE /\ lock' = lock
          /\ GoTo(p, "check")
  /\ UNCHANGED << seen, causes >>

(* The JSON goes to the file p created, which may be unlinked by now. *)
Fill(p) ==
  /\ at[p] = "fill"
  /\ lock' = IF lock.by = p THEN [lock EXCEPT !.filled = TRUE] ELSE lock
  /\ GoTo(p, "held")
  /\ UNCHANGED << seen, causes >>

(* A mutation: the pid is not looked up. *)
VerdictsByAge(l) ==
  IF l = NoLock \/ ~l.filled THEN { "break" } ELSE { "break", "gone" }

(* What the staleness check can lead to: a missing or unreadable lock is   *)
(* stale, that of a live process is not, that of a dead one is after 900 s *)
(* (the bootstrap is refused before).  On Windows a live process passes    *)
(* for dead when tasklist is missing or does not answer: "guess".          *)
Verdicts(l) ==
  IF l = NoLock \/ ~l.filled THEN { "break" }
  ELSE IF Alive(l.by) THEN { "gone", "guess" }
  ELSE { "break", "gone" }

Check(p) ==
  /\ at[p] = "check"
  /\ seen' = [seen EXCEPT ![p] = lock]
  /\ \E verdict \in Verdicts(lock) : GoTo(p, verdict)
  /\ UNCHANGED << lock, causes >>

(* A run of reconcile_ticket looks at the lock: _remove_lock_if_owned      *)
(* removes one of its ticket, or one it cannot read.  Nobody asks whether  *)
(* its owner lives.                                                        *)
Visit(p) ==
  /\ at[p] = "unborn"
  /\ \/ GoTo(p, "remove") /\ lock # NoLock
     \/ GoTo(p, "gone") /\ (lock = NoLock \/ lock.filled)
  /\ UNCHANGED << lock, seen, causes >>

(* Why an unlink by p hits the lock of a live process: p judged another    *)
(* lock, or this one while it was empty, or without an answer about the    *)
(* process, or wrongly.                                                    *)
Cause(p) ==
  IF lock = NoLock \/ lock.by = p \/ ~Alive(lock.by) THEN {}
  ELSE IF at[p] = "held" THEN { "release" }
  ELSE IF at[p] = "remove" THEN { "reconcile" }
  ELSE IF seen[p].by # lock.by THEN { "late" }
  ELSE IF ~seen[p].filled THEN { "empty" }
  ELSE IF at[p] = "guess" THEN { "unanswered" }
  ELSE { "stolen" }

Break(p) ==
  /\ at[p] \in { "break", "guess" }
  /\ lock' = NoLock
  /\ causes' = causes \cup Cause(p)
  /\ GoTo(p, "open")
  /\ UNCHANGED seen

(* The file goes, whoever created it. *)
Release(p) ==
  /\ at[p] = "held"
  /\ lock' = NoLock
  /\ causes' = causes \cup Cause(p)
  /\ GoTo(p, "gone")
  /\ UNCHANGED seen

Remove(p) ==
  /\ at[p] = "remove"
  /\ lock' = NoLock
  /\ causes' = causes \cup Cause(p)
  /\ GoTo(p, "gone")
  /\ UNCHANGED seen

Crash(p) ==
  /\ Alive(p)
  /\ GoTo(p, "gone")
  /\ UNCHANGED << lock, seen, causes >>

Next == \E p \in Processes :
          \/ Start(p) \/ Open(p) \/ Fill(p) \/ Check(p) \/ Break(p)
          \/ Release(p) \/ Crash(p) \/ Visit(p) \/ Remove(p)

Spec == Init /\ [][Next]_vars
-----------------------------------------------------------------------------
Places == { "unborn", "open", "fill", "held", "check", "break", "guess", "remove",
            "gone" }

(* Type correctness; an absent lock is not filled. *)
TypeOK ==
  /\ lock \in [ by : Processes, filled : BOOLEAN ] \cup { NoLock }
  /\ at \in [Processes -> Places]
  /\ seen \in [Processes -> [ by : Processes, filled : BOOLEAN ] \cup { NoLock }]
  /\ causes \subseteq { "release", "reconcile", "empty", "late", "unanswered", "stolen" }

(* The lock file keeps the promise of AdvisoryLock: two supervisors run at *)
(* once only after one of them lost its file to another.                   *)
Advisory == INSTANCE AdvisoryLock WITH
  holders <- Holders, broken <- causes # {}

IsAdvisory == Advisory!Spec

(* _release_supervisor_lock does not look whose lock it removes.  It never *)
(* removes that of another supervisor unless locks were broken before: by  *)
(* the check that finds the file empty or learns nothing of the process,   *)
(* by a verdict that came late, or by reconcile_ticket.                    *)
ReleaseFollowsBreak == "release" \in causes => causes # { "release" }
=============================================================================
