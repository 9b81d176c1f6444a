---------------------------- MODULE AdvisoryLock ----------------------------
(***************************************************************************)
(* What a lock file promises: one holder at a time, until somebody takes   *)
(* the file from a holder that is alive.  From then on it promises         *)
(* nothing.  SupervisorLock, SessionLock, ArtifactWrite and SuiteRunner    *)
(* implement it.                                                           *)
(***************************************************************************)
CONSTANT Processes

VARIABLES
  holders,  \* the processes that believe they hold the lock
  broken    \* the lock of a live holder was taken away

vars == << holders, broken >>

Init == holders = {} /\ broken = FALSE

(* With one holder already, only by taking its lock away. *)
Acquire(p) ==
  /\ holders = {} \/ broken'
  /\ holders' = holders \cup { p }

(* Released, or the holder died. *)
Leave(p) == holders' = holders \ { p }

Next ==
  /\ broken' \in { broken, TRUE }
  /\ \/ holders' = holders
     \/ \E p \in Processes : Acquire(p) \/ Leave(p)

Spec == Init /\ [][Next]_vars

(* Two holders at once are the consequence of a broken lock. *)
OneHolder == broken \/ \A p, q \in holders : p = q
=============================================================================
