---------------------------- MODULE BrokenLocks ----------------------------
(***************************************************************************)
(* What the lock files of the repository have in common: each is broken    *)
(* when it looks abandoned, so a live process may lose its own.  A history *)
(* of how that came about, each module with the causes its code allows.    *)
(***************************************************************************)
VARIABLE causes  \* how lock files of live processes were removed

(* A lock that could be read, of a process that lives, is not broken by    *)
(* one who looked at it: every live process that loses its lock file loses *)
(* it to a release, to a verdict about another file or an empty one, to a  *)
(* probe of the process that got no answer, or to a rule that allows it.   *)
LiveLockNotStolen == "stolen" \notin causes
=============================================================================
