----------------------------- MODULE MCEventBus -----------------------------
(***************************************************************************)
(* Values of the constants of EventBus for TLC.                            *)
(***************************************************************************)
EXTENDS EventBus, TLC

CONSTANTS w1, w2

Req(type, ticket, actor, arg, reentry) ==
  [ type |-> type, ticket |-> ticket, actor |-> actor, arg |-> arg,
    rest |-> << >>, reentry |-> reentry ]

(* A review decision, the close, a human reopening, and a contract gap:    *)
(* one call of each kind the rules tell apart.                             *)
MCRequests ==
  { Req("REVIEW_DECISION", "T1", "MANAGER", "changes", FALSE),
    Req("CLOSE_CONFIRMED", "T1", "MANAGER", "none", FALSE),
    Req("STATE_CHANGED", "T1", "HUMAN", "IN_PROGRESS", TRUE),
    Req("CONTRACT_GAP", "T1", "BUILDER", "premise_false", FALSE) }

WriterSymmetry == Permutations(Writers)
=============================================================================
