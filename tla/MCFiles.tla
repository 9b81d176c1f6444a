------------------------------- MODULE MCFiles -------------------------------
(***************************************************************************)
(* Values of the constants of Files for TLC.                               *)
(***************************************************************************)
EXTENDS Files, TLC

Req(type, ticket, arg, reentry) ==
  [ type |-> type, ticket |-> ticket, actor |-> "SUPERVISOR", arg |-> arg,
    rest |-> << >>, reentry |-> reentry ]

(* Two tickets that share the bus's file: the first closes, the second     *)
(* waits at a human gate, which the rotation archives too.                 *)
MCArchivedRequests ==
  { Req("STATE_CHANGED", "T1", "COMPLETED", FALSE),
    Req("STATE_CHANGED", "T2", "HUMAN_GATE", FALSE) }

(* One writer, an expired approval and a contract gap.                     *)
MCWriterRequests ==
  { Req("APPROVAL_RESOLVED", "T1", "expired", FALSE),
    Req("CLOSE_CONFIRMED", "T1", "none", FALSE),
    Req("STATE_CHANGED", "T1", "IN_PROGRESS", TRUE),
    Req("STATE_CHANGED", "T2", "IN_PROGRESS", FALSE),
    Req("STATE_CHANGED", "T2", "COMPLETED", FALSE),
    Req("CONTRACT_GAP", "T2", "premise_false", FALSE) }

(* One run elsewhere, the others in one worktree. *)
MCHomes == { [p \in Processes |-> IF p = stranger THEN "there" ELSE "here"] :
             stranger \in Processes }

(* The processes of a scene differ in nothing but their names.             *)
Symmetry == Permutations(Processes) \cup Permutations(BusProcesses)
=============================================================================
