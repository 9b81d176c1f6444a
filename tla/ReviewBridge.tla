---------------------------- MODULE ReviewBridge ----------------------------
(***************************************************************************)
(* The manager's review of a ticket: the watch loop of                     *)
(* scripts/manager_review_bridge.py and run_manager_review_cycle of        *)
(* bus/review_bridge.py.  A bridge looks for a handoff that its checkpoint *)
(* does not cover, asks the manager, emits the decision, lets a command    *)
(* apply it and then moves the checkpoint.  No lock keeps bridges apart:   *)
(* a supervisor that starts finds the heartbeat of a long review stale and *)
(* launches another one.  Builder, human and closing supervisor are here   *)
(* only by their events; TicketLifecycle has the rest of them.             *)
(*                                                                         *)
(* A sequence number is a position in the log of one ticket.  A step that  *)
(* reads some files and decides is one action, and so is an emit.          *)
(***************************************************************************)
EXTENDS TicketStates, FiniteSets

CONSTANTS
  Ticket,
  Bridges,     \* the bridge processes
  First,       \* the one that runs at first
  Threshold,   \* rejections before HUMAN_GATE
  Failures,    \* the events a review ends with instead of a decision
  Beginnings   \* where the model begins: the log, and the bounds: commands
               \* of builder and human, kills, commands that time out,
               \* bridges launched by the watchdog

Event(type, arg) == [ type |-> type, ticket |-> Ticket, arg |-> arg ]
Change(to) == Event("STATE_CHANGED", to)
Decision(d) == Event("REVIEW_DECISION", d)

Decisions == { "approve", "changes", "inspect" }

(* What is written about the ticket. *)
Events ==
  { Change(to) : to \in TicketState } \cup { Decision(d) : d \in Decisions }
  \cup { Event(type, "") : type \in Failures \cup
          { "MANAGER_REVIEWING", "MANAGER_STALE", "CLOSE_CONFIRMED", "SUPERVISOR_CLOSED" } }

(* Between two decisions there is a handoff.                               *)
Separated(s) ==
  \A i, j \in DOMAIN s :
    i < j /\ s[i].type = "REVIEW_DECISION" /\ s[j].type = "REVIEW_DECISION"
      => \E h \in DOMAIN s : i < h /\ h < j /\ s[h] = Change("READY_FOR_REVIEW")

(* What follows a close is a reopening or the rest of an approval.         *)
StaysClosed(s) ==
  \A c, n \in DOMAIN s :
    /\ s[c].type = "SUPERVISOR_CLOSED"
    /\ c < n /\ s[n].type \in DerivingTypes
    /\ \A k \in DOMAIN s : c < k /\ k < n => s[k].type \notin DerivingTypes
    => s[n] \in { Change("IN_PROGRESS"), Change("READY_TO_CLOSE"),
                  Change("COMPLETED"), Decision("approve") }

(* The end of a close. *)
Sealed(s) ==
  \A c \in DOMAIN s :
    s[c].type = "SUPERVISOR_CLOSED" => c > 1 /\ s[c-1] = Change("COMPLETED")

(* The log the model begins with is one of this ticket, without a warning  *)
(* of the watchdog, in which decisions and closes were in order.           *)
ASSUME BridgeAssumption ==
  /\ Failures \subseteq { "REVIEW_ROLE_MODELS_BLOCKED", "REVIEW_EVIDENCE_BLOCKED",
                         "REVIEW_TRANSPORT_FAILED" }
  /\ \A b \in Beginnings :
       /\ b.log \in Seq(Events \ { Event("MANAGER_STALE", "") })
       /\ Separated(b.log) /\ StaysClosed(b.log) /\ Sealed(b.log)

VARIABLES
  log,         \* the ticket's events
  shown,       \* the status in execution_log.md
  file,        \* manager_bridge_state.json: the cursor, and whether it has
               \* the adaptive_review section
  checkpoint,  \* bridge_checkpoint.json
  warned,      \* last_manager_stale_trigger_sequence of the supervisor
  at,          \* at[b]: where bridge b is
  left,        \* what may still come of each of these
  learned,     \* history: an adaptive review state was saved
  disturbed,   \* history: a command timed out, or a second bridge runs
  late         \* history: handoffs that were made while a bridge worked

vars == << log, shown, file, checkpoint, warned, at,
           left, learned, disturbed, late >>

State == DerivedState(log, Ticket)

(* Positions of the events of a type, and of the handoffs. *)
Of(type) == { i \in DOMAIN log : log[i].type = type }
Handoffs == { i \in DOMAIN log : log[i] = Change("READY_FOR_REVIEW") }

Latest(positions) ==
  IF positions = {} THEN 0
  ELSE CHOOSE i \in positions : \A j \in positions : j <= i

(* _latest_state: the last STATE_CHANGED, whatever was decided since *)
LastChange ==
  IF Of("STATE_CHANGED") = {} THEN "IN_PROGRESS"
  ELSE log[Latest(Of("STATE_CHANGED"))].arg

(* A mutation: the guard as it was before WP-2026-116's follow-up. *)
RefusedChange(event) ==
  /\ event.type = "STATE_CHANGED"
  /\ ReentryTarget(event) \in WorkStates
  /\ DerivedState(log, Ticket) \in { "READY_TO_CLOSE", "COMPLETED" }

(* emit, with the reentry guard of the bus *)
Refused(event) ==
  /\ ReentryTarget(event) \in WorkStates
  /\ LET states == { i \in DOMAIN log : log[i].type \in GuardTypes }
     IN states # {} /\ GuardState(log[Latest(states)]) \in { "READY_TO_CLOSE", "COMPLETED" }

Emit(event) == log' = IF Refused(event) THEN log ELSE Append(log, event)

Init ==
  /\ \E b \in Beginnings :
       /\ log = b.log
       /\ left = b.left
  /\ shown = State
  /\ file = [ seq |-> 0, adaptive |-> FALSE ]
  /\ checkpoint = 0
  /\ warned = 0
  /\ at = [b \in Bridges |-> IF b = First THEN "idle" ELSE "off"]
  /\ learned = FALSE
  /\ disturbed = FALSE
  /\ late = {}

Working(b) == at[b] \notin { "off", "idle", "dead" }

GoTo(b, where) == at' = [at EXCEPT ![b] = where]

files == << file, checkpoint >>
world == << shown, warned >>
-----------------------------------------------------------------------------
(* _ticket_state: execution_log.md speaks where the bus says IN_PROGRESS.  *)
TicketStatus ==
  IF State = "IN_PROGRESS" /\ shown \in { "READY_FOR_REVIEW", "READY_TO_CLOSE", "COMPLETED" }
  THEN shown ELSE State

(* _latest_reviewable_sequence *)
Reviewable == IF Handoffs = {} THEN Len(log) ELSE Latest(Handoffs)

(* _load_state: the larger of the two cursors *)
Cursor == IF checkpoint > file.seq THEN checkpoint ELSE file.seq

(* A mutation: what was reviewed is never covered. *)
CoveredNever == FALSE

(* _checkpoint_blocks_review *)
Covered ==
  /\ Reviewable <= Cursor
  /\ ~(Cursor \in DOMAIN log /\ log[Cursor].type = "MANAGER_STALE")

ToReview == TicketStatus = "READY_FOR_REVIEW" /\ ~Covered

(* The watch loop saves its heartbeat before and after a tick: what the    *)
(* file has besides the fields of BridgeState is gone.                     *)
Beaten == [ seq |-> Cursor, adaptive |-> FALSE ]

(* The heartbeat, then _tick: there is something to review. *)
Tick(b) ==
  /\ at[b] = "idle"
  /\ ToReview
  /\ file' = Beaten
  /\ GoTo(b, "cycle")
  /\ UNCHANGED << log, checkpoint, world, left, learned, disturbed, late >>

(* The packet has no diff: _emit_packaging_changes. *)
RejectEmpty(b) ==
  /\ at[b] = "cycle"
  /\ Emit(Decision("changes"))
  /\ GoTo(b, "save")
  /\ UNCHANGED << files, world, left, learned, disturbed, late >>

(* run_manager_review_cycle looks at the bus anew.  A ticket that was      *)
(* closed, at any time, ...                                                *)
GuardClosed(b) ==
  /\ at[b] = "cycle"
  /\ Of("SUPERVISOR_CLOSED") # {}
  /\ IF LastChange = "COMPLETED" THEN UNCHANGED log ELSE Emit(Change("COMPLETED"))
  /\ GoTo(b, "save")
  /\ UNCHANGED << files, world, left, learned, disturbed, late >>

(* ... or has left the review is not reviewed; ... *)
GuardLeft(b) ==
  /\ at[b] = "cycle"
  /\ Of("SUPERVISOR_CLOSED") = {}
  /\ LastChange # "READY_FOR_REVIEW"
  /\ GoTo(b, "save")
  /\ UNCHANGED << log, files, world, left, learned, disturbed, late >>

(* ... or it is, with what the last review has learned.                    *)
Guard(b) ==
  /\ at[b] = "cycle"
  /\ Of("SUPERVISOR_CLOSED") = {}
  /\ LastChange = "READY_FOR_REVIEW"
  /\ Emit(Event("MANAGER_REVIEWING", ""))
  /\ GoTo(b, "review")
  /\ UNCHANGED << files, world, left, learned, disturbed, late >>

(* A mutation: the failure is only printed. *)
FailSilently(b, type) ==
  /\ UNCHANGED log
  /\ GoTo(b, "save")

(* The cycle ends with an event instead of a decision. *)
Fail(b, type) ==
  /\ Emit(Event(type, ""))
  /\ GoTo(b, "save")

(* Builder and reviewer are the same model, before there is a review; the  *)
(* evidence gate rejects; every attempt failed in transport.               *)
NotReviewed(b) ==
  /\ \E type \in Failures :
       /\ IF type = "REVIEW_ROLE_MODELS_BLOCKED"
          THEN /\ at[b] = "cycle"
               /\ Of("SUPERVISOR_CLOSED") = {}
               /\ LastChange = "READY_FOR_REVIEW"
          ELSE at[b] = "review"
       /\ Fail(b, type)
  /\ UNCHANGED << files, world, left, learned, disturbed, late >>

(* The manager has decided; nobody looks at the ticket again. *)
Decide(b) ==
  /\ at[b] = "review"
  /\ \E d \in Decisions : Emit(Decision(d)) /\ GoTo(b, d)
  /\ UNCHANGED << files, world, left, learned, disturbed, late >>

(* The decision is applied, and save_adaptive_state adds its section. *)
Learn(b) ==
  /\ file' = [file EXCEPT !.adaptive = TRUE]
  /\ learned' = TRUE
  /\ GoTo(b, "save")

(* supervisor.transition_ticket *)
Approve(b) ==
  /\ at[b] = "approve"
  /\ Emit(Change("READY_TO_CLOSE"))
  /\ Learn(b)
  /\ UNCHANGED << checkpoint, world, left, disturbed, late >>

Rejections ==
  Cardinality({ i \in Of("REVIEW_DECISION") :
    \A j \in Of("REVIEW_DECISION") : j >= i => log[j] = Decision("changes") })

Consequence(rejections) ==
  Change(IF rejections >= Threshold THEN "HUMAN_GATE" ELSE "IN_PROGRESS")

(* --request-changes: the decision just emitted is the latest event, or it *)
(* rejects the ticket that is in review, or it refuses.                    *)
RequestChanges(b) ==
  /\ at[b] = "changes"
  /\ \/ /\ State = "IN_PROGRESS"
        /\ log[Len(log)] = Decision("changes")
        /\ Emit(Consequence(Rejections))
     \/ /\ State = "READY_FOR_REVIEW"
        /\ log' = log \o << Decision("changes"), Consequence(Rejections + 1) >>
     \/ /\ State # "READY_FOR_REVIEW"
        /\ State = "IN_PROGRESS" => log[Len(log)] # Decision("changes")
        /\ UNCHANGED log
  /\ Learn(b)
  /\ UNCHANGED << checkpoint, world, left, disturbed, late >>

(* --escalate-human-gate *)
Escalate(b) ==
  /\ at[b] = "inspect"
  /\ Emit(Change("HUMAN_GATE"))
  /\ Learn(b)
  /\ UNCHANGED << checkpoint, world, left, disturbed, late >>

(* The command exceeds its time: _tick gives up, without a checkpoint. *)
CommandTimesOut(b) ==
  /\ at[b] \in { "changes", "inspect" }
  /\ left.timeouts > 0
  /\ left' = [left EXCEPT !.timeouts = @ - 1]
  /\ GoTo(b, "idle")
  /\ file' = Beaten
  /\ disturbed' = TRUE
  /\ UNCHANGED << log, checkpoint, world, learned, late >>

(* A mutation: the next event counts as processed. *)
ProcessedNext == Len(log) + 1

(* _sync_ticket_checkpoint: the latest event of the ticket.  Requeue has    *)
(* its write to the supervisor's state.                                    *)
Processed == Len(log)

(* _save_state and _save_checkpoint *)
Save(b) ==
  /\ at[b] = "save"
  /\ checkpoint' = Processed
  /\ file' = [ seq |-> Processed, adaptive |-> FALSE ]
  /\ GoTo(b, "idle")
  /\ UNCHANGED << log, world, left, learned, disturbed, late >>

Die(b) ==
  /\ Working(b) \/ at[b] = "idle"
  /\ left.kills > 0
  /\ left' = [left EXCEPT !.kills = @ - 1]
  /\ GoTo(b, "dead")
  /\ UNCHANGED << log, files, world, learned, disturbed, late >>
-----------------------------------------------------------------------------
(* The supervisor's reconcile at its start,                                *)
(* _bootstrap_watchdog_manager_if_needed; a bridge between two reviews has *)
(* a fresh heartbeat.                                                      *)
Watchdog(b) ==
  /\ at[b] = "off"
  /\ Latest(Handoffs) > warned
  /\ State = "READY_FOR_REVIEW"
  /\ \A c \in Bridges : at[c] # "idle"
  /\ left.bridges > 0
  /\ left' = [left EXCEPT !.bridges = @ - 1]
  /\ Emit(Event("MANAGER_STALE", ""))
  /\ warned' = Latest(Handoffs)
  /\ GoTo(b, "idle")
  /\ disturbed' = TRUE
  /\ UNCHANGED << files, shown, learned, late >>

Bridge(b) ==
  \/ Tick(b) \/ RejectEmpty(b) \/ GuardClosed(b) \/ GuardLeft(b) \/ Guard(b)
  \/ NotReviewed(b) \/ Decide(b) \/ Approve(b) \/ RequestChanges(b)
  \/ Escalate(b) \/ Save(b)

Command ==
  /\ left.commands > 0
  /\ left' = [left EXCEPT !.commands = @ - 1]

HandOff ==
  /\ Emit(Change("READY_FOR_REVIEW"))
  /\ late' = IF \E b \in Bridges : Working(b) THEN late \cup { Len(log) + 1 } ELSE late

(* --mark-ready; the event of the builder and the one of the supervisor    *)
(* that follows it are one.                                                *)
MarkReady ==
  /\ State = "IN_PROGRESS"
  /\ Command
  /\ HandOff
  /\ shown' = "READY_FOR_REVIEW"
  /\ UNCHANGED << files, warned, at, learned, disturbed >>

(* --resume-human-gate *)
Resume ==
  /\ State = "HUMAN_GATE"
  /\ Command
  /\ HandOff
  /\ UNCHANGED << shown, files, warned, at, learned, disturbed >>

(* --reopen-terminal-ticket, which the reentry guard lets pass *)
Reopen ==
  /\ State = "COMPLETED"
  /\ Command
  /\ log' = Append(log, Change("IN_PROGRESS"))
  /\ shown' = "IN_PROGRESS"
  /\ UNCHANGED << files, warned, at, learned, disturbed, late >>

Closing == << Event("CLOSE_CONFIRMED", ""), Change("COMPLETED"),
              Event("SUPERVISOR_CLOSED", "") >>

(* The close of an approved ticket. *)
Close ==
  /\ State = "READY_TO_CLOSE"
  /\ log' = log \o Closing
  /\ shown' = "COMPLETED"
  /\ UNCHANGED << files, warned, at, left, learned, disturbed, late >>

(* A round of the supervisor's loop copies the state to execution_log.md. *)
Refresh ==
  /\ shown # State
  /\ shown' = State
  /\ UNCHANGED << log, files, warned, at, left, learned, disturbed, late >>

Next ==
  \/ \E b \in Bridges : Bridge(b) \/ CommandTimesOut(b) \/ Die(b) \/ Watchdog(b)
  \/ MarkReady \/ Resume \/ Reopen \/ Close \/ Refresh

(* A bridge goes on until it is killed: the manager and the commands have  *)
(* a time limit.  Nothing else need ever happen.                           *)
Spec == Init /\ [][Next]_vars /\ \A b \in Bridges : WF_vars(Bridge(b))
-----------------------------------------------------------------------------
TypeOK ==
  /\ log \in Seq(Events)
  /\ State \in TicketState /\ shown \in TicketState
  /\ { file.seq, checkpoint, warned } \cup late \subseteq 0..Len(log)

(* A handoff that nobody will look at: the checkpoint covers it.           *)
Parked == /\ State = "READY_FOR_REVIEW" /\ Covered
          /\ \A b \in Bridges : ~Working(b)

(* Why: the bus tells that the review failed, or the handoff was made      *)
(* while a bridge worked, whose checkpoint passed over it.                 *)
Excused == \/ Latest(Handoffs) \in late
           \/ \E i \in DOMAIN log : i > Latest(Handoffs) /\ log[i].type \in Failures

(* No handoff is left lying without one of these reasons. *)
ParkedForAReason == Parked => Excused

(* BridgeState, "to avoid duplicate reviews": one bridge decides a handoff *)
(* once, killed or not; between two decisions there is a handoff.          *)
DecidedOnce ==
  disturbed \/ Separated(log)

(* A late result does not take a ticket back that was closed meanwhile:    *)
(* what follows the close is a reopening or the rest of an approval.       *)
ClosedTakesNoRejection == StaysClosed(log)

(* A handoff is served or left for a reason, while a bridge lives. *)
HandoffServed ==
  State = "READY_FOR_REVIEW" ~>
    \/ State # "READY_FOR_REVIEW"
    \/ Excused
    \/ \A b \in Bridges : at[b] \in { "off", "dead" }

(* review_bridge.py: the adaptive state is saved "so the next cycle can    *)
(* detect repeated blockers".                                              *)
RemembersBlockers ==
  \A b \in Bridges : at[b] = "review" /\ learned => file.adaptive

(* --reopen-terminal-ticket is for a "canonical repair cycle": a reopened  *)
(* ticket is completed again only by a decision on it.                     *)
Reopenings ==
  { i \in DOMAIN log \ { 1 } : /\ log[i] = Change("IN_PROGRESS")
                              /\ log[i-1].type = "SUPERVISOR_CLOSED" }

ReopenedIsReviewed ==
  \A r \in Reopenings, i \in DOMAIN log :
    i > r /\ log[i] = Change("COMPLETED")
      => \E j \in r..i : log[j].type = "REVIEW_DECISION"
=============================================================================
