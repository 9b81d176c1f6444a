-------------------------- MODULE MCTicketLifecycle --------------------------
(***************************************************************************)
(* Values of the constants of TicketLifecycle for TLC.                     *)
(***************************************************************************)
EXTENDS TicketLifecycle

MCTickets == { "WT-2026-001", "WT-2026-002" }
MCPlan == "WT-2026-001"
MCFollowing == "WT-2026-002"

(* A bus without events, and one whose ticket awaits review: --bootstrap-  *)
(* ticket, then --mark-ready.                                              *)
Empty == << >>

Past(type, actor, arg, rest) ==
  [ type |-> type, ticket |-> MCPlan, actor |-> actor, arg |-> arg,
    rest |-> rest, reentry |-> FALSE ]

Declare(round, from) ==
  << Past("BUILDER_EXIT", "BUILDER", "", << "done" >> \o round),
     Past("STATE_CHANGED", "BUILDER", "READY_FOR_REVIEW", << from >> \o round),
     Past("STATE_CHANGED", "SUPERVISOR", "READY_FOR_REVIEW", << from >> \o round) >>

Reject(n) ==
  << Past("REVIEW_DECISION", "MANAGER", "changes", << "agent_controller" >>),
     Past("STATE_CHANGED", "SUPERVISOR", "IN_PROGRESS", << "READY_FOR_REVIEW" >> \o n) >>

Confirmed ==
  << Past("REVIEW_DECISION", "MANAGER", "approve", << "manager-approve" >>),
     Past("STATE_CHANGED", "SUPERVISOR", "READY_TO_CLOSE", << "manager-approve" >>),
     Past("CLOSE_CONFIRMED", "SUPERVISOR", "", << "manager_closeout" >>) >>

Finished ==
  << Past("STATE_CHANGED", "SUPERVISOR", "COMPLETED", << "manager-approve" >>),
     Past("SUPERVISOR_CLOSED", "SUPERVISOR", "", << "manager-approve" >>) >>

Written(requests) == FoldLeft(Emitted, << >>, requests)

Bootstrapped ==
  << Past("STATE_CHANGED", "SUPERVISOR", "IN_PROGRESS", << "bootstrap" >>) >>

MCInReview == Written(Bootstrapped \o Declare(Tally(0), "IN_PROGRESS"))

(* Approved, closed and reopened, the ticket awaits its second review; the *)
(* CLOSE_CONFIRMED of the first is still in the bus.                       *)
SecondReview ==
  Written(Bootstrapped \o Declare(Tally(0), "IN_PROGRESS")
        \o Confirmed \o Finished
        \o << [ Past("STATE_CHANGED", "SUPERVISOR", "IN_PROGRESS", << "COMPLETED", "reopen" >>)
                  EXCEPT !.reentry = TRUE ] >>
        \o Declare(Tally(1), "IN_PROGRESS"))

(* The builder works on the fourth round, three rejections behind it. *)
FourthRound ==
  Written(Bootstrapped \o Declare(Tally(0), "IN_PROGRESS") \o Reject(Tally(1))
                     \o Declare(Tally(1), "IN_PROGRESS") \o Reject(Tally(2))
                     \o Declare(Tally(2), "IN_PROGRESS") \o Reject(Tally(3)))

Begin(bus, who, commands, kills) ==
  [ bus |-> bus, left |-> [ who |-> who, commands |-> commands, kills |-> kills ] ]

(* A new ticket before its supervisor starts, a second review under one,   *)
(* closes by force, and a bridge whose decision meets a manager's.         *)
MCOrders == { Begin(MCInReview, { "bridge", "manager", "supervisor" }, 2, 0),
              Begin(SecondReview, { "bridge", "supervisor" }, 1, 0),
              Begin(Empty, { "builder", "manager", "human" }, 3, 0),
              Begin(SecondReview, { "manager", "supervisor" }, 1, 1),
              Begin(SecondReview, { "launcher", "supervisor" }, 1, 1),
              Begin(MCInReview, { "builder", "manager", "launcher" }, 2, 1) }

(* The manager was killed between CLOSE_CONFIRMED and COMPLETED.           *)
HalfClosed ==
  Written(Bootstrapped \o Declare(Tally(0), "IN_PROGRESS") \o Confirmed)

MCReview == { Begin(MCInReview, { "manager", "supervisor" }, 2, 1),
              Begin(HalfClosed, { "launcher", "human", "supervisor" }, 2, 1) }

MCFourthRound == { Begin(FourthRound, { "builder", "manager" }, 3, 0) }

MCApproval ==
  { Begin(MCInReview, { "builder", "manager", "human", "supervisor" }, 2, 0) }
=============================================================================
