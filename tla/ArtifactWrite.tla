---------------------------- MODULE ArtifactWrite ----------------------------
(***************************************************************************)
(* write_artifact_atomic of bus/supervisor.py: a save of a file by several *)
(* processes, with the lock file that protects the comparison and the      *)
(* replacement, one file access a step.  Each process makes one call; the  *)
(* contents it writes are named after it.                                  *)
(***************************************************************************)
EXTENDS Naturals, BrokenLocks

CONSTANTS
  Processes,  \* the calls
  Nobody,     \* the owner of a lock that is not there
  Blind,      \* expected_revision None; also: the file does not exist
  Attempts    \* max_retries

VARIABLES
  file,    \* the artifact
  lock,    \* who created the .lock file
  at,      \* at[p]: where process p is
  expect,  \* expect[p]: what p has loaded, or Blind
  tries,   \* tries[p]: attempts that failed
  seen     \* history: seen[p]: the owner of the lock p found old

vars == << file, lock, at, expect, tries, seen, causes >>

Alive(p) == at[p] \notin { "unborn", "gone" }

Holders == { p \in Processes :
               at[p] \in { "compare", "replace", "unlock" } }

Init ==
  /\ file = Blind
  /\ lock = Nobody
  /\ at = [p \in Processes |-> "unborn"]
  /\ expect = [p \in Processes |-> Blind]
  /\ tries = [p \in Processes |-> 0]
  /\ seen = [p \in Processes |-> Nobody]
  /\ causes = {}

GoTo(p, where) == at' = [at EXCEPT ![p] = where]

(* load_state; a caller may also not care what it replaces. *)
Load(p) ==
  /\ at[p] = "unborn"
  /\ \E e \in { file, Blind } : expect' = [expect EXCEPT ![p] = e]
  /\ GoTo(p, "try")
  /\ UNCHANGED << file, lock, tries, seen, causes >>

(* O_CREAT | O_EXCL *)
Try(p) ==
  /\ at[p] = "try"
  /\ IF lock = Nobody
     THEN lock' = p /\ GoTo(p, "compare")
     ELSE lock' = lock /\ GoTo(p, "age")
  /\ UNCHANGED << file, expect, tries, seen, causes >>

(* The next attempt, or ConcurrentStateError after the last. *)
FailAttempt(p) ==
  /\ tries' = [tries EXCEPT ![p] = @ + 1]
  /\ GoTo(p, IF tries[p] + 1 < Attempts THEN "try" ELSE "gone")

(* A lock that is there may be older than 30 seconds, also when its owner  *)
(* is alive and slow.                                                      *)
Age(p) ==
  /\ at[p] = "age"
  /\ \/ /\ FailAttempt(p)
        /\ seen' = seen
     \/ /\ lock # Nobody
        /\ seen' = [seen EXCEPT ![p] = lock]
        /\ GoTo(p, "break")
        /\ tries' = tries
  /\ UNCHANGED << file, lock, expect, causes >>

(* Why an unlink by p takes the lock from a live process. *)
Cause(p) ==
  IF lock = Nobody \/ lock = p \/ ~Alive(lock) THEN {}
  ELSE IF at[p] = "unlock" THEN { "release" }
  ELSE IF seen[p] = lock THEN { "slow" }
  ELSE { "late" }

(* The old lock goes; that was an attempt. *)
Break(p) ==
  /\ at[p] = "break"
  /\ lock' = Nobody
  /\ causes' = causes \cup Cause(p)
  /\ FailAttempt(p)
  /\ UNCHANGED << file, expect, seen >>

(* A mutation: the revision is not compared again under the lock. *)
MatchesAnything(p) == TRUE

(* The revision under the lock is the expected one, if one is expected. *)
Matches(p) == expect[p] \in { Blind, file }

Compare(p) ==
  /\ at[p] = "compare"
  /\ GoTo(p, IF Matches(p) THEN "replace" ELSE "unlock")
  /\ UNCHANGED << file, lock, expect, tries, seen, causes >>

(* A temporary file is written and takes the artifact's place, or not. *)
Replace(p) ==
  /\ at[p] = "replace"
  /\ file' \in { p, file }
  /\ GoTo(p, "unlock")
  /\ UNCHANGED << lock, expect, tries, seen, causes >>

(* finally: the lock file goes, whoever's it is. *)
Unlock(p) ==
  /\ at[p] = "unlock"
  /\ lock' = Nobody
  /\ causes' = causes \cup Cause(p)
  /\ GoTo(p, "gone")
  /\ UNCHANGED << file, expect, tries, seen >>

Crash(p) ==
  /\ Alive(p)
  /\ GoTo(p, "gone")
  /\ UNCHANGED << file, lock, expect, tries, seen, causes >>

Next == \E p \in Processes :
          \/ Load(p) \/ Try(p) \/ Age(p) \/ Break(p)
          \/ Compare(p) \/ Replace(p) \/ Unlock(p) \/ Crash(p)

Spec == Init /\ [][Next]_vars
-----------------------------------------------------------------------------
(* The lock file keeps the promise of AdvisoryLock. *)
Advisory == INSTANCE AdvisoryLock WITH
  holders <- Holders, broken <- causes # {}

IsAdvisory == Advisory!Spec

(* The call is a save in one step, as Requeue and TicketLifecycle have it: *)
(* an update is lost only after the lock of a live writer was broken.      *)
Save == INSTANCE AtomicSave WITH broken <- causes # {}

SaveIsAtomic == Save!Spec

(* The lock of another process is removed at the end of a call only when   *)
(* the call had lost its own before, because it took more than 30 seconds  *)
(* or another judged an older lock.                                        *)
ReleaseFollowsBreak == "release" \in causes => causes # { "release" }
=============================================================================
