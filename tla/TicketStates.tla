---------------------------- MODULE TicketStates ----------------------------
(***************************************************************************)
(* The ticket states, the sets of states the code consults, and the two    *)
(* derivations of a state from an event: the one of StateMachine           *)
(* (bus/state_machine.py), which every consumer of the bus uses, and the   *)
(* one of the reentry guard inside EventBus (bus/event_bus.py).            *)
(*                                                                         *)
(* An event is a record with a type, a ticket and an arg among its fields; *)
(* arg is the one payload field the derivations look at: to_state of       *)
(* STATE_CHANGED, decision of REVIEW_DECISION, status of                   *)
(* APPROVAL_RESOLVED, gap_type of CONTRACT_GAP.                            *)
(***************************************************************************)
EXTENDS Naturals, Sequences

(* Results of a derivation; NoState is Python's None. *)
NoState == "none"

TicketState ==
  { "IN_PROGRESS", "READY_FOR_REVIEW", "BLOCKED", "HUMAN_GATE",
    "READY_TO_CLOSE", "COMPLETED", "PAUSED", "CONTRACT_BLOCKED",
    "SUPERSEDED", "BLOCKED_FINAL", "UNKNOWN" }

(* IRREVERSIBLE_TERMINAL_STATES *)
TerminalStates == { "COMPLETED", "SUPERSEDED", "BLOCKED_FINAL" }

(* TicketState.is_work_state *)
WorkStates == { "IN_PROGRESS", "READY_FOR_REVIEW", "BLOCKED", "HUMAN_GATE",
                "CONTRACT_BLOCKED", "PAUSED" }

(* The payloads of the derivations that map through a dictionary. *)
ReviewOutcome == [ changes |-> "IN_PROGRESS",
                   approve |-> "READY_TO_CLOSE",
                   inspect |-> "HUMAN_GATE" ]

ApprovalOutcome == [ expired   |-> "BLOCKED",
                     approved  |-> "READY_FOR_REVIEW",
                     rejected  |-> "BLOCKED",
                     cancelled |-> "BLOCKED" ]

Lookup(table, key, default) ==
  IF key \in DOMAIN table THEN table[key] ELSE default

(* What an event says of its ticket when its payload is recognised, and    *)
(* "default" when it is not.                                               *)
PayloadState(e, default) ==
  CASE e.type = "STATE_CHANGED"     -> IF e.arg \in TicketState THEN e.arg ELSE default
    [] e.type = "REVIEW_DECISION"   -> Lookup(ReviewOutcome, e.arg, default)
    [] e.type = "APPROVAL_RESOLVED" -> Lookup(ApprovalOutcome, e.arg, default)
    [] OTHER                        -> default
-----------------------------------------------------------------------------
(* StateMachine.derive_state_from_events *)
DerivingTypes == { "STATE_CHANGED", "CLOSE_CONFIRMED", "SUPERVISOR_CLOSED",
                   "REVIEW_DECISION", "APPROVAL_RESOLVED", "CONTRACT_GAP" }

EventState(e) ==
  CASE e.type \in { "CLOSE_CONFIRMED", "SUPERVISOR_CLOSED" } -> "COMPLETED"
    [] e.type = "CONTRACT_GAP"                               -> "CONTRACT_BLOCKED"
    [] OTHER                                                 -> PayloadState(e, "UNKNOWN")

(* EventBus._get_current_state *)
GuardTypes == { "STATE_CHANGED", "CLOSE_CONFIRMED", "REVIEW_DECISION",
                "APPROVAL_RESOLVED" }

GuardState(e) ==
  IF e.type = "CLOSE_CONFIRMED" THEN "COMPLETED" ELSE PayloadState(e, NoState)

(* EventBus._reentry_target_state: the state an event would produce. *)
ReentryTarget(e) == PayloadState(e, NoState)
-----------------------------------------------------------------------------
(* i is the last event of ticket t in log whose type is in types: the      *)
(* event a scan in reversed order stops at.                                *)
LastOf(log, t, types, i) ==
  /\ i \in DOMAIN log
  /\ log[i].ticket = t
  /\ log[i].type \in types
  /\ \A j \in DOMAIN log :
        j > i => ~(log[j].ticket = t /\ log[j].type \in types)

DerivedState(log, t) ==
  LET relevant == { i \in DOMAIN log : log[i].ticket = t /\ log[i].type \in DerivingTypes }
  IN IF relevant = {} THEN "UNKNOWN"
     ELSE EventState(log[CHOOSE i \in relevant : \A j \in relevant : j <= i])
=============================================================================
