--------------------------- MODULE TicketLifecycle ---------------------------
(***************************************************************************)
(* The life of a ticket: the commands of .agent/agent_controller.py that   *)
(* the builder, the manager and a human run, the forced close of           *)
(* scripts/reconcile_ticket.py, and the part of the supervisor's loop      *)
(* (bus/builder_lifecycle.py, bus/supervisor.py) that expires human gates, *)
(* refreshes the markdown files and closes tickets.                        *)
(*                                                                         *)
(* Besides, a bridge that has reviewed the ticket decides on it            *)
(* (bus/review_bridge.py; the review itself is in ReviewBridge).           *)
(*                                                                         *)
(* Every command reads the bus or execution_log.md once, decides, and then *)
(* performs a sequence of effects: events, projections, files.  The        *)
(* commands are processes of their own, so effects of several commands     *)
(* interleave, and a process may die between two effects.  work[p] is what *)
(* process p has still to do; an effect that reads the bus again before it *)
(* acts is an entry of its own.  A single emit is one step here, see       *)
(* EventBus for its inside.                                                *)
(***************************************************************************)
EXTENDS BusRules, SequencesExt

CONSTANTS
  Plan,         \* the ticket of work_plan.md, the one commands act on
  Following,    \* the ticket _next_ticket_id names after it
  Threshold,    \* manager_review.max_attempts: rejections before HUMAN_GATE
  Rounds,       \* TRUE if the builder's shell knows its round number
  Beginnings    \* where the model begins: the bus, who takes part, and the
                \* bounds: how many commands and how many kills

NoTicket == "no ticket"

Processes == { "builder", "manager", "bridge", "human", "supervisor", "launcher" }

(* Who decides on a review: a bridge, and beside it whoever runs the       *)
(* manager's commands by hand.                                             *)
Deciders == { "manager", "bridge" }

(* The vocabulary of the events. *)
EventTypes ==
  DerivingTypes \cup { "BUILDER_EXIT", "STALE_BUILDER_ORPHAN", "HANDOFF_BLOCKED",
                      "HANDOFF_REQUESTED", "SUPERVISOR_RECONCILED" }

Words ==
  TicketState \cup DOMAIN ReviewOutcome \cup Tickets \cup
  { NoTicket, "", "expired", "premise_false", "1", "manager-approve",
    "manager_closeout", "bootstrap", "stale", "done", "blocked", "already",
    "agent_controller", "resume", "reopen", "backfill", "supervisor",
    "BUILDER", "reconcile_ticket", "bridge", "manager-review-guard" }

Actors == { "BUILDER", "MANAGER", "SUPERVISOR" }

Calls == [ type : EventTypes, ticket : Tickets, actor : Actors, arg : Words,
           rest : Seq(Words), reentry : BOOLEAN ]

Records == [ type : EventTypes, ticket : Tickets, actor : Actors, arg : Words,
             rest : Seq(Words), seq : Nat ]

ASSUME LifecycleAssumption ==
  /\ Tickets = { Plan, Following }
  /\ Plan # Following
  /\ NoTicket \notin Tickets
  /\ MaxDuplicates > 0
  /\ Threshold \in Nat \ {0}
  /\ \A b \in Beginnings :
       /\ b.bus \in Seq(Records)
       /\ b.left \in [ who : SUBSET Processes, commands : Nat, kills : Nat ]

(* How reconcile_ticket signs its events. *)
Forced == << "reconcile_ticket" >>

(* How a bridge's guard signs the close it repeats. *)
Repeated == << "manager-review-guard" >>

Closes(e, t) ==
  /\ e.ticket = t
  /\ \/ e.type = "STATE_CHANGED" /\ e.arg = "COMPLETED"
     \/ e.type = "SUPERVISOR_CLOSED"

IsChanges(e) == e.type = "REVIEW_DECISION" /\ e.arg = "changes"

RejectsPlan(e) == e.ticket = Plan /\ IsChanges(e)

(* What has to be in the bus before event e: a ticket is ready to close    *)
(* after an approval, it closes after the confirmation (unless by force),  *)
(* a close is repeated after it, and the next ticket waits for it.         *)
Kind(e) == << e.ticket, e.type, e.arg >>

Approval == << Plan, "REVIEW_DECISION", "approve" >>
Confirmation == << Plan, "CLOSE_CONFIRMED", "" >>
Closed(t) == << t, "SUPERVISOR_CLOSED", "" >>

Precedents(e) ==
  (IF Closes(e, Plan) /\ e.rest \notin { Forced, Repeated }
   THEN { Approval, Confirmation } ELSE {})
  \cup (IF Closes(e, Plan) /\ e.rest = Repeated THEN { Closed(Plan) } ELSE {})
  \cup (IF Kind(e) = << Plan, "STATE_CHANGED", "READY_TO_CLOSE" >>
        THEN { Approval } ELSE {})
  \cup (IF e.ticket = Following THEN { Closed(Plan) } ELSE {})

(* The payloads this program writes. *)
WellFormed(e) ==
  /\ e.type = "STATE_CHANGED" => e.arg \in TicketState
  /\ e.type = "REVIEW_DECISION" => e.arg \in DOMAIN ReviewOutcome
  /\ e.type = "APPROVAL_RESOLVED" => e.arg = "expired"
  /\ e.type \in { "CLOSE_CONFIRMED", "SUPERVISOR_CLOSED" } => e.arg = ""

(* No rejection since the ticket is ready to close, but for the excused.   *)
NotTakenBack(s, excused) ==
  \A k \in DOMAIN s :
     LastOf(s, Plan, { "STATE_CHANGED" }, k) /\ s[k].arg = "READY_TO_CLOSE" =>
       \A j \in DOMAIN s : j > k /\ RejectsPlan(s[j]) => j \in excused

(* A bus this program can have left behind: what the beginnings of the     *)
(* model are taken from, the empty bus being one.                          *)
Orderly(s) ==
  \A i \in DOMAIN s :
    /\ WellFormed(s[i])
    /\ \A k \in Precedents(s[i]) : \E j \in 1..(i - 1) : Kind(s[j]) = k

ASSUME BeginningAssumption ==
  \A b \in Beginnings : Orderly(b.bus) /\ NotTakenBack(b.bus, {})

VARIABLES
  log,        \* the live bus
  view,       \* the markdown files: the ticket a reader finds in TURN.md
              \* (after a close in its text), the status of execution_log.md
  gates,      \* pending HUMAN_GATE requests in the ApprovalStore
  sup,        \* supervisor_state.json
  up,         \* the supervisor process runs
  work,       \* work[p]: effects p has still to perform
  looked,     \* history: looked[p]: length of the bus that p's command
              \* decided on, where p is the builder or a decider
  late,       \* history: rejections that were decided on before the ticket
              \* was ready to close, and written after
  left,       \* who takes part, commands and kills still to come
  rejections  \* history: rejections given since the last approval

vars == << log, view, gates, sup, up, work, looked, late, left, rejections >>

NoFile == [ active |-> NoTicket, completed |-> {}, saved |-> FALSE ]

(* The state derived for a ticket, and Python's None when it has no event. *)
State(t) == DerivedState(log, t)
BusState == IF \E i \in DOMAIN log : log[i].ticket = Plan
            THEN State(Plan) ELSE NoState

(* to_state of the ticket's latest STATE_CHANGED *)
LastChangeIn(s, t) ==
  IF \E i \in DOMAIN s : LastOf(s, t, { "STATE_CHANGED" }, i)
  THEN s[CHOOSE i \in DOMAIN s : LastOf(s, t, { "STATE_CHANGED" }, i)].arg
  ELSE NoState

LastChange(t) == LastChangeIn(log, t)

(* The bus p's command decided on. *)
Seen(p) == SubSeq(log, 1, looked[p])

HasEvent(t, type) ==
  \E i \in DOMAIN log : log[i].ticket = t /\ log[i].type = type

LatestIsChanges ==
  \E i \in DOMAIN log : /\ log[i].ticket = Plan
                        /\ IsChanges(log[i])
                        /\ \A j \in DOMAIN log : j > i => log[j].ticket # Plan

(* bus.utils.count_trailing_changes *)
TrailingChanges ==
  Cardinality({ i \in DOMAIN log :
     /\ log[i].ticket = Plan
     /\ IsChanges(log[i])
     /\ \A j \in DOMAIN log :
          /\ j > i
          /\ log[j].ticket = Plan
          /\ log[j].type = "REVIEW_DECISION"
          => IsChanges(log[j]) })
-----------------------------------------------------------------------------
(* Effects.  "rest" is the part of a payload that distinguishes repeated   *)
(* events: from_state, reason, round, approval id.                         *)
Event4(t, type, actor, arg, rest) ==
  [ do |-> "emit",
    event |-> [ type |-> type, ticket |-> t, actor |-> actor, arg |-> arg,
                rest |-> rest, reentry |-> FALSE ] ]

Change(t, actor, to, rest) == Event4(t, "STATE_CHANGED", actor, to, rest)

(* Show: TURN.md and execution_log.md.  Log: execution_log.md alone. *)
Show(status) == [ do |-> "show", status |-> status ]
(* LogAnew is a mutation: the log gets a status no state machine knows.    *)
LogAnew(status) == [ do |-> "log", status |-> "REOPENED" ]
Log(status) == [ do |-> "log", status |-> status ]
Do(name) == [ do |-> name ]

(* The contents of supervisor_state.json, and all effects there are.       *)
SupervisorState ==
  [ active : Tickets \cup { NoTicket }, completed : SUBSET Tickets,
    saved : BOOLEAN ]

Effects ==
  [ do : { "emit" }, event : Calls ]
  \cup [ do : { "show", "log" }, status : TicketState ]
  \cup [ do : { "ready", "decide", "gate", "backfill", "clear", "load", "expire",
                "project", "advance", "activate" } ]
  \cup [ do : { "adopt" }, read : SupervisorState, ticket : Tickets ]
  \cup [ do : { "retire" }, read : SupervisorState ]
  \cup [ do : { "save" }, read : SupervisorState, closed : Tickets ]
  \cup [ do : { "overwrite" }, read : SupervisorState ]

(* A number in a payload, as a tally. *)
Tally(n) == [ i \in 1..n |-> "1" ]

Round == IF Rounds THEN Tally(rejections) ELSE << >>
BuilderExit(why) == Event4(Plan, "BUILDER_EXIT", "BUILDER", "", << why >> \o Round)

(* A mutation: the close is not confirmed. *)
CascadeUnconfirmed == <<
  Event4(Plan, "REVIEW_DECISION", "MANAGER", "approve", << "manager-approve" >>),
  Change(Plan, "SUPERVISOR", "READY_TO_CLOSE", << "manager-approve" >>),
  Change(Plan, "SUPERVISOR", "COMPLETED", << "manager-approve" >>),
  Event4(Plan, "SUPERVISOR_CLOSED", "SUPERVISOR", "", << "manager-approve" >>) >>

(* _emit_manager_approve_cascade *)
Cascade == <<
  Event4(Plan, "REVIEW_DECISION", "MANAGER", "approve", << "manager-approve" >>),
  Change(Plan, "SUPERVISOR", "READY_TO_CLOSE", << "manager-approve" >>),
  Event4(Plan, "CLOSE_CONFIRMED", "SUPERVISOR", "", << "manager_closeout" >>),
  Change(Plan, "SUPERVISOR", "COMPLETED", << "manager-approve" >>),
  Event4(Plan, "SUPERVISOR_CLOSED", "SUPERVISOR", "", << "manager-approve" >>) >>
-----------------------------------------------------------------------------
Init ==
  /\ \E b \in Beginnings : log = b.bus /\ left = b.left
  /\ view \in [ turn : {Plan},
                status : IF log = << >>
                  THEN { "IN_PROGRESS", "READY_FOR_REVIEW", "COMPLETED" }
                  ELSE { State(Plan) } ]
  /\ gates = {}
  /\ sup = [ active |-> Plan, completed |-> {}, saved |-> TRUE ]
  /\ up = ("supervisor" \in left.who)
  /\ work = [p \in Processes |-> << >>]
  /\ looked = [p \in Processes |-> 0]
  /\ late = {}
  /\ rejections = TrailingChanges

(* Process p starts a command that has the given effects. *)
Start(p, effects) ==
  /\ p \in left.who
  /\ work[p] = << >>
  /\ left.commands > 0
  /\ left' = [left EXCEPT !.commands = @ - 1]
  /\ work' = [work EXCEPT ![p] = effects]
  /\ looked' = IF p \in Deciders \cup { "builder" }
               THEN [looked EXCEPT ![p] = Len(log)] ELSE looked
  /\ UNCHANGED << log, view, gates, sup, up, late >>

(* --bootstrap-ticket *)
Bootstrap ==
  /\ LastChange(Plan) = NoState
  /\ Start("human", << Change(Plan, "SUPERVISOR", "IN_PROGRESS", << "bootstrap" >>) >>)
  /\ UNCHANGED rejections

(* _is_bus_state_post_success; --mark-ready from the shell of an earlier   *)
(* round leaves only a note in the bus.                                    *)
PostSuccess == { "READY_FOR_REVIEW", "READY_TO_CLOSE", "HUMAN_GATE", "COMPLETED" }

StaleShell ==
  /\ Start("builder",
       << Event4(Plan, IF BusState \in PostSuccess THEN "STALE_BUILDER_ORPHAN"
                       ELSE "HANDOFF_BLOCKED", "BUILDER", "", << "stale" >> \o Round) >>)
  /\ UNCHANGED rejections

(* A mutation: an escalated ticket is not refused. *)
ReadyNotRefused == BusState \in { "READY_TO_CLOSE", "COMPLETED" }

(* HUMAN_GATE refuses; an approved or closed ticket is left alone. *)
ReadyRefused == BusState \in { "HUMAN_GATE", "READY_TO_CLOSE", "COMPLETED" }

(* The gates (breaker, evidence, hygiene, scope) pass or not; when the     *)
(* archive of closed documents leaves renames behind, the command stops    *)
(* after BUILDER_EXIT.                                                     *)
ReadyEffects == {
  << BuilderExit("done"), Do("ready") >>,
  << BuilderExit("done") >>,
  << Event4(Plan, "HANDOFF_BLOCKED", "BUILDER", "", Round),
     BuilderExit("blocked") >> }

(* --mark-ready.  A ticket in review only gets its projections refreshed;  *)
(* a ticket without events is judged by execution_log.md.                  *)
MarkReady ==
  /\ ~ReadyRefused
  /\ \/ /\ BusState = "READY_FOR_REVIEW"
        /\ Start("builder", << Do("ready") >>)
     \/ /\ BusState # "READY_FOR_REVIEW"
        /\ BusState = NoState =>
             view.status \notin { "HUMAN_GATE", "READY_FOR_REVIEW" }
        /\ \E effects \in ReadyEffects : Start("builder", effects)
     \/ /\ BusState = NoState
        /\ view.status = "READY_FOR_REVIEW"
        /\ Start("builder",
             << BuilderExit("done"),
                Change(Plan, "BUILDER", "READY_FOR_REVIEW", << "already" >> \o Round) >>)
  /\ UNCHANGED rejections

(* emit_contract_gap, issued by the builder *)
ContractGap ==
  /\ ~HasEvent(Plan, "CONTRACT_GAP")
  /\ Start("builder",
       << Event4(Plan, "CONTRACT_GAP", "BUILDER", "premise_false", << >>) >>)
  /\ UNCHANGED rejections

(* --request-changes *)
RequestChanges(p) ==
  /\ \/ BusState = "READY_FOR_REVIEW"
     \/ BusState = "IN_PROGRESS" /\ LatestIsChanges
     \/ BusState \in { NoState, "UNKNOWN" } /\ view.status = "READY_FOR_REVIEW"
  /\ Start(p,
       (IF LatestIsChanges THEN << >>
        ELSE << Event4(Plan, "REVIEW_DECISION", "MANAGER", "changes",
                       << "agent_controller" >>) >>)
       \o << Do("decide") >>)
  /\ rejections' = IF LatestIsChanges THEN rejections ELSE rejections + 1

(* The bridge finds a ticket in review. *)
InReview ==
  \/ BusState = "READY_FOR_REVIEW"
  \/ BusState = "IN_PROGRESS" /\ view.status = "READY_FOR_REVIEW"

(* run_manager_review_cycle, from its guard to its decision, which comes   *)
(* minutes later; the texts of two reviews differ.  It applies an approval *)
(* itself, and runs --request-changes or --escalate-human-gate for the     *)
(* others.                                                                 *)
Review ==
  /\ InReview
  /\ LastChange(Plan) = "READY_FOR_REVIEW"
  /\ ~HasEvent(Plan, "SUPERVISOR_CLOSED")
  /\ \E decision \in DOMAIN ReviewOutcome :
       /\ Start("bridge",
            << Event4(Plan, "REVIEW_DECISION", "MANAGER", decision,
                      << "bridge" >> \o Tally(left.commands)) >>
            \o (IF decision = "approve"
                THEN << Change(Plan, "SUPERVISOR", "READY_TO_CLOSE", << "bridge" >>) >>
                ELSE << >>))
       /\ rejections' = CASE decision = "changes" -> rejections + 1
                          [] decision = "approve" -> 0
                          [] OTHER -> rejections

(* Its guard repeats the close of a ticket that was closed at any time. *)
RepeatClose ==
  /\ InReview
  /\ HasEvent(Plan, "SUPERVISOR_CLOSED")
  /\ Start("bridge", << Change(Plan, "SUPERVISOR", "COMPLETED", Repeated) >>)
  /\ UNCHANGED rejections

(* --manager-approve, once the test suite and the last commit are accepted *)
AlreadyClosed == HasEvent(Plan, "SUPERVISOR_CLOSED") /\ State(Plan) = "COMPLETED"

ManagerApprove ==
  /\ \/ /\ AlreadyClosed
        /\ Start("manager", << Do("backfill"), Show("COMPLETED") >>)
     \/ /\ ~AlreadyClosed
        /\ view.status = "COMPLETED"
        /\ Start("manager", << Do("backfill") >> \o Cascade
                              \o << Show("COMPLETED") >>)
     \/ /\ ~AlreadyClosed
        /\ view.status = "READY_FOR_REVIEW"
        /\ Start("manager", Cascade \o << Show("COMPLETED"), Do("clear") >>)
  /\ rejections' = 0

(* --escalate-human-gate does not look at the ticket's state. *)
Escalate(p) ==
  /\ Start(p,
       << Change(Plan, "SUPERVISOR", "HUMAN_GATE", << view.status, "inspect" >>),
          Do("gate") >>)
  /\ UNCHANGED rejections

(* --resume-human-gate *)
ResumeHumanGate ==
  /\ BusState = "HUMAN_GATE"
  /\ Start("human",
       << Change(Plan, "SUPERVISOR", "READY_FOR_REVIEW", << view.status, "resume" >>) >>)
  /\ UNCHANGED rejections

(* --reopen-terminal-ticket *)
Reopen ==
  /\ BusState = "COMPLETED"
  /\ Start("human",
       << [ Change(Plan, "SUPERVISOR", "IN_PROGRESS", << view.status, "reopen" >>)
              EXCEPT !.event.reentry = TRUE ],
          Log("IN_PROGRESS") >>)
  /\ UNCHANGED rejections

(* scripts/reconcile_ticket.py, run by the launcher or by hand: a close    *)
(* without a review.  One read of the bus decides which of its events are  *)
(* missing.                                                                *)
Missing ==
  LET open == State(Plan) \notin TerminalStates /\ LastChange(Plan) # "COMPLETED"
      exited == HasEvent(Plan, "BUILDER_EXIT")
      closed == HasEvent(Plan, "SUPERVISOR_CLOSED")
  IN (IF open /\ ~exited
      THEN << Event4(Plan, "BUILDER_EXIT", "BUILDER", "", Forced) >> ELSE << >>)
     \o (IF open THEN << Change(Plan, "SUPERVISOR", "COMPLETED", Forced) >> ELSE << >>)
     \o (IF closed THEN << >>
         ELSE << Event4(Plan, "SUPERVISOR_CLOSED", "SUPERVISOR", "", Forced) >>)

Reconcile ==
  /\ Start("launcher", Missing \o << Do("load") >>)
  /\ UNCHANGED rejections

Command == \/ Bootstrap \/ StaleShell \/ MarkReady \/ ContractGap
           \/ \E p \in Deciders : RequestChanges(p) \/ Escalate(p)
           \/ ManagerApprove \/ Review \/ RepeatClose
           \/ ResumeHumanGate \/ Reopen \/ Reconcile

(* Mutations of the loop: the files are not refreshed; nothing is closed. *)
LoopWithoutProjection == << Do("expire"), Do("advance") >>
LoopWithoutAdvance == << Do("expire"), Do("project") >>

(* One round of the supervisor's loop: run_once. *)
LoopBody == << Do("expire"), Do("project"), Do("advance") >>

RunOnce ==
  /\ up
  /\ work["supervisor"] = << >>
  /\ work' = [work EXCEPT !["supervisor"] = LoopBody]
  /\ UNCHANGED << log, view, gates, sup, up, looked, late, left, rejections >>
-----------------------------------------------------------------------------
(* The effects.  GoOn(p, more) goes on with "more" and what p had to do.   *)
Doing(p, name) == work[p] # << >> /\ Head(work[p]).do = name

GoOn(p, more) == work' = [work EXCEPT ![p] = more \o Tail(@)]

EmitEvent(p) ==
  /\ Doing(p, "emit")
  /\ log' = Emitted(log, Head(work[p]).event)
  /\ late' = IF /\ log' # log
                /\ RejectsPlan(Head(work[p]).event)
                /\ LastChangeIn(Seen(p), Plan) # "READY_TO_CLOSE"
             THEN late \cup { Len(log') } ELSE late
  /\ GoOn(p, << >>)
  /\ UNCHANGED << view, gates, sup, up, looked, left, rejections >>

ShowStatus(p) ==
  /\ Doing(p, "show") \/ Doing(p, "log")
  /\ view' = [ turn |-> IF Doing(p, "show") THEN Plan ELSE view.turn,
               status |-> Head(work[p]).status ]
  /\ GoOn(p, << >>)
  /\ UNCHANGED << log, gates, sup, up, looked, late, left, rejections >>

(* _sync_mark_ready_targets: the bus is read again; the projections are    *)
(* written whether or not the bus took the events.                         *)
SyncReady(p) ==
  /\ Doing(p, "ready")
  /\ LET from == IF State(Plan) # "UNKNOWN" THEN State(Plan) ELSE view.status
         last == LastChange(Plan)
         fromLast == IF last # NoState THEN last ELSE view.status
     IN GoOn(p,
          (IF last # "READY_FOR_REVIEW" \/ from = "IN_PROGRESS"
           THEN << Change(Plan, "BUILDER", "READY_FOR_REVIEW", << from >> \o Round),
                   Change(Plan, "SUPERVISOR", "READY_FOR_REVIEW", << fromLast >> \o Round) >>
           ELSE << >>)
          \o << Show("READY_FOR_REVIEW") >>)
  /\ UNCHANGED << log, view, gates, sup, up, looked, late, left, rejections >>

(* The end of --request-changes: count the rejections now in the bus. *)
DecideChanges(p) ==
  /\ Doing(p, "decide")
  /\ LET to == IF TrailingChanges >= Threshold THEN "HUMAN_GATE" ELSE "IN_PROGRESS"
     IN GoOn(p, << Change(Plan, "SUPERVISOR", to,
                          << view.status >> \o Tally(TrailingChanges)) >>
                \o (IF to = "HUMAN_GATE" THEN << Do("gate") >> ELSE << >>))
  /\ UNCHANGED << log, view, gates, sup, up, looked, late, left, rejections >>

(* _create_human_gate_approval_request; ids are fresh. *)
CreateGate(p) ==
  /\ Doing(p, "gate")
  /\ gates' = gates \cup { left.commands }
  /\ GoOn(p, << >>)
  /\ UNCHANGED << log, view, sup, up, looked, late, left, rejections >>

(* _backfill_builder_exit; reconcile_ticket's exit does not count. *)
RealExit ==
  \E i \in DOMAIN log : /\ log[i].ticket = Plan
                        /\ log[i].type = "BUILDER_EXIT"
                        /\ log[i].rest # Forced

Backfill(p) ==
  /\ Doing(p, "backfill")
  /\ GoOn(p, IF RealExit THEN << >>
             ELSE << Event4(Plan, "BUILDER_EXIT", "BUILDER", "", << "backfill" >>) >>)
  /\ UNCHANGED << log, view, gates, sup, up, looked, late, left, rejections >>

(* _clear_auxiliary_states unlinks supervisor_state.json. *)
ClearState(p) ==
  /\ Doing(p, "clear")
  /\ sup' = NoFile
  /\ GoOn(p, << >>)
  /\ UNCHANGED << log, view, gates, up, looked, late, left, rejections >>

(* _update_runtime_state: the file is read, and written whole, without the *)
(* lock and the revision of save_state.                                    *)
LoadState(p) ==
  /\ Doing(p, "load")
  /\ GoOn(p, << [ do |-> "overwrite", read |-> sup ] >>)
  /\ UNCHANGED << log, view, gates, sup, up, looked, late, left, rejections >>

OverwriteState(p) ==
  /\ Doing(p, "overwrite")
  /\ sup' = [ active |-> NoTicket,
              completed |-> Head(work[p]).read.completed \cup { Plan },
              saved |-> TRUE ]
  /\ GoOn(p, << >>)
  /\ UNCHANGED << log, view, gates, up, looked, late, left, rejections >>

(* check_and_expire_all and the events run_once emits for what expired;    *)
(* the store is rewritten before any event.                                *)
Expire(p) ==
  /\ Doing(p, "expire")
  /\ \E n \in 0..Cardinality(gates) : \E ids \in [ 1..n -> gates ] :
       /\ IsInjective(ids)
       /\ gates' = gates \ Range(ids)
       /\ GoOn(p, [ i \in 1..(2 * n) |->
            LET id == Tally(ids[(i + 1) \div 2])
            IN IF i % 2 = 1
               THEN Change(Plan, "SUPERVISOR", "BLOCKED", << State(Plan) >> \o id)
               ELSE Event4(Plan, "APPROVAL_RESOLVED", "SUPERVISOR", "expired", id) ])
  /\ UNCHANGED << log, view, sup, up, looked, late, left, rejections >>

(* _materialize_ticket_projection of the active ticket *)
Project(p) ==
  /\ Doing(p, "project")
  /\ view' = IF sup.active # NoTicket /\ State(sup.active) # "UNKNOWN"
             THEN [ turn |-> sup.active, status |-> State(sup.active) ]
             ELSE view
  /\ GoOn(p, << >>)
  /\ UNCHANGED << log, gates, sup, up, looked, late, left, rejections >>

(* Mutations of the close: SUPERVISOR_CLOSED is not emitted; the file is   *)
(* saved before the events; the next ticket is forgotten.                  *)
CloseSilently(t) ==
  << Change(t, "SUPERVISOR", "COMPLETED", << "supervisor" >>),
     [ do |-> "save", read |-> sup, closed |-> t ] >>
  \o (IF t = Plan THEN << Do("activate") >> ELSE << >>)

SaveFirst(t) ==
  << [ do |-> "save", read |-> sup, closed |-> t ],
     Change(t, "SUPERVISOR", "COMPLETED", << "supervisor" >>),
     Event4(t, "SUPERVISOR_CLOSED", "SUPERVISOR", "", << "supervisor" >>) >>
  \o (IF t = Plan THEN << Do("activate") >> ELSE << >>)

CloseOnly(t) ==
  << Change(t, "SUPERVISOR", "COMPLETED", << "supervisor" >>),
     Event4(t, "SUPERVISOR_CLOSED", "SUPERVISOR", "", << "supervisor" >>),
     [ do |-> "save", read |-> sup, closed |-> t ] >>

(* advance_if_review_ready and close_active_ticket.  The state saved at    *)
(* the end is the one loaded here, guarded by its revision.                *)
CloseSteps(t) ==
  << Change(t, "SUPERVISOR", "COMPLETED", << "supervisor" >>),
     Event4(t, "SUPERVISOR_CLOSED", "SUPERVISOR", "", << "supervisor" >>),
     [ do |-> "save", read |-> sup, closed |-> t ] >>
  \o (IF t = Plan THEN << Do("activate") >> ELSE << >>)

(* A mutation: any ticket with a confirmed close is closed. *)
ClosingOnConfirmation == /\ sup.active # NoTicket
                         /\ HasEvent(sup.active, "CLOSE_CONFIRMED")

(* The active ticket awaits its close, and the close is confirmed. *)
Closing == /\ sup.active # NoTicket
           /\ LastChange(sup.active) = "READY_TO_CLOSE"
           /\ HasEvent(sup.active, "CLOSE_CONFIRMED")

Advance(p) ==
  /\ Doing(p, "advance")
  /\ GoOn(p, IF Closing THEN CloseSteps(sup.active) ELSE << >>)
  /\ UNCHANGED << log, view, gates, sup, up, looked, late, left, rejections >>

(* save_state; a revision that changed raises ConcurrentStateError, which  *)
(* ends the supervisor.  Where there was no file there is none to compare. *)
Save(p, read, new, more) ==
  IF sup = read \/ ~read.saved
  THEN sup' = new /\ GoOn(p, more) /\ up' = up
  ELSE sup' = sup /\ work' = [work EXCEPT ![p] = << >>] /\ up' = FALSE

SaveClosed(p) ==
  /\ Doing(p, "save")
  /\ LET e == Head(work[p])
     IN Save(p, e.read, [ active |-> NoTicket,
                          completed |-> e.read.completed \cup { e.closed },
                          saved |-> TRUE ], << >>)
  /\ UNCHANGED << log, view, gates, looked, late, left, rejections >>

(* The next ticket becomes active; its events come after the save. *)
ActivateNext(p) ==
  /\ Doing(p, "activate")
  /\ sup' = [ sup EXCEPT !.active = Following, !.saved = TRUE ]
  /\ GoOn(p, << Event4(Following, "HANDOFF_REQUESTED", "SUPERVISOR", "", << "BUILDER" >>),
                Change(Following, "SUPERVISOR", "IN_PROGRESS", << "supervisor" >>) >>)
  /\ UNCHANGED << log, view, gates, up, looked, late, left, rejections >>

(* _bus_active_non_terminal_ticket and the fallbacks of reconcile_state *)
Zombie(t) ==
  /\ \E i \in DOMAIN log : /\ log[i].ticket = t
                           /\ log[i].type = "REVIEW_DECISION"
                           /\ log[i].arg = "approve"
  /\ ~HasEvent(t, "SUPERVISOR_CLOSED")

BusActive(t) == /\ State(t) \notin TerminalStates \cup { "UNKNOWN" }
                /\ ~(State(t) = "READY_TO_CLOSE" /\ Zombie(t))

(* A supervisor starts: reconcile_state.  The later of two active tickets  *)
(* wins, and TURN.md names the ticket when the bus has none.  (Its zombie  *)
(* guard concerns a ticket before the one of work_plan.md, which is Plan.) *)
StartSupervisor ==
  /\ "supervisor" \in left.who
  /\ ~up
  /\ up' = TRUE
  /\ LET target == CASE BusActive(Following) -> Following
                     [] BusActive(Plan) /\ ~BusActive(Following) -> Plan
                     [] OTHER -> view.turn
     IN work' = [ work EXCEPT !["supervisor"] =
          << IF sup.active = target THEN [ do |-> "retire", read |-> sup ]
             ELSE [ do |-> "adopt", read |-> sup, ticket |-> target ] >> ]
  /\ UNCHANGED << log, view, gates, sup, looked, late, left, rejections >>

(* The ticket is saved as the active one, and the change told once. *)
Adopt(p) ==
  /\ Doing(p, "adopt")
  /\ LET e == Head(work[p])
         new == [ e.read EXCEPT !.active = e.ticket, !.saved = TRUE ]
         told == \E i \in DOMAIN log : /\ log[i].type = "SUPERVISOR_RECONCILED"
                                       /\ log[i].ticket = e.ticket
                                       /\ log[i].rest = << e.read.active >>
     IN Save(p, e.read, new,
          (IF e.read.active = NoTicket \/ told THEN << >>
           ELSE << Event4(e.ticket, "SUPERVISOR_RECONCILED", "SUPERVISOR", "",
                          << e.read.active >>) >>)
          \o << [ do |-> "retire", read |-> new ] >>)
  /\ UNCHANGED << log, view, gates, looked, late, left, rejections >>

(* _bootstrap_clear_terminal_ticket; the heading of execution_log.md names *)
(* Plan.                                                                   *)
Retire(p) ==
  /\ Doing(p, "retire")
  /\ LET read == Head(work[p]).read
     IN IF /\ read.active = Plan
           /\ view.status = "COMPLETED"
           /\ State(Plan) \in TerminalStates \cup { "UNKNOWN" }
        THEN Save(p, read, [ read EXCEPT !.active = NoTicket ], << >>)
        ELSE GoOn(p, << >>) /\ UNCHANGED << sup, up >>
  /\ UNCHANGED << log, view, gates, looked, late, left, rejections >>

(* A process is killed between two effects. *)
Crash(p) ==
  /\ work[p] # << >>
  /\ left.kills > 0
  /\ left' = [left EXCEPT !.kills = @ - 1]
  /\ work' = [work EXCEPT ![p] = << >>]
  /\ up' = IF p = "supervisor" THEN FALSE ELSE up
  /\ UNCHANGED << log, view, gates, sup, looked, late, rejections >>

Effect(p) == \/ EmitEvent(p) \/ ShowStatus(p) \/ SyncReady(p) \/ DecideChanges(p)
             \/ CreateGate(p) \/ Backfill(p) \/ ClearState(p) \/ Expire(p)
             \/ Project(p) \/ Advance(p) \/ SaveClosed(p) \/ ActivateNext(p)
             \/ Adopt(p) \/ Retire(p) \/ LoadState(p) \/ OverwriteState(p)

Next == \/ Command
        \/ RunOnce
        \/ StartSupervisor
        \/ \E p \in Processes : Effect(p) \/ Crash(p)

Spec == Init /\ [][Next]_vars

(* A started process goes on unless it is killed; the supervisor polls     *)
(* once a second for as long as it runs.                                   *)
Fairness == /\ \A p \in Processes : WF_vars(Effect(p))
            /\ WF_vars(RunOnce)

FairSpec == Spec /\ Fairness
-----------------------------------------------------------------------------
(* Type correctness: the bus, the files and the supervisor's state stay    *)
(* what their readers can parse.                                           *)
TypeOK ==
  /\ log \in Seq(Records)
  /\ view \in [ turn : Tickets, status : TicketState ]
  /\ gates \subseteq Nat
  /\ sup \in SupervisorState
  /\ up \in BOOLEAN
  /\ work \in [ Processes -> Seq(Effects) ]
  /\ looked \in [ Processes -> 0..Len(log) ]
  /\ late \subseteq 1..Len(log)
  /\ left \in [ who : SUBSET Processes, commands : Nat, kills : Nat ]
  /\ rejections \in Nat

Earlier(i, type, arg) ==
  \E j \in 1..(i - 1) : /\ log[j].ticket = Plan
                        /\ log[j].type = type
                        /\ log[j].arg = arg

(* No ticket closes that was not approved and confirmed: whether the       *)
(* manager's cascade closes it, the supervisor that finds it half done, or *)
(* a retry after a crash, an approval and CLOSE_CONFIRMED are in the bus   *)
(* before the first event of the close.  Only reconcile_ticket closes      *)
(* without, and its events say so; a bridge's guard repeats a close only.  *)
CloseAfterApproval ==
  \A i \in DOMAIN log :
     Closes(log[i], Plan) /\ log[i].rest # Forced =>
       IF log[i].rest = Repeated THEN Earlier(i, "SUPERVISOR_CLOSED", "")
       ELSE /\ Earlier(i, "REVIEW_DECISION", "approve")
            /\ Earlier(i, "CLOSE_CONFIRMED", "")

(* The supervisor decides to close a ticket only on a readiness to close   *)
(* that an approval came before and that no return to work has followed:   *)
(* a CLOSE_CONFIRMED left by an earlier cycle, which stays in the bus when *)
(* the ticket is reopened, closes nothing.  It does close what a rejection *)
(* has followed, but only one that a bridge, or another manager, decided   *)
(* on while the ticket was not yet ready to close, and wrote when it was.  *)
ClosesWhatIsApproved ==
  [][ (Advance("supervisor") /\ Closing /\ sup.active = Plan) =>
        \E k \in DOMAIN log :
           /\ Kind(log[k]) = << Plan, "STATE_CHANGED", "READY_TO_CLOSE" >>
           /\ Earlier(k, "REVIEW_DECISION", "approve")
           /\ \A j \in DOMAIN log :
                j > k => /\ Kind(log[j]) # << Plan, "STATE_CHANGED", "IN_PROGRESS" >>
                         /\ RejectsPlan(log[j]) => j \in late
    ]_vars

(* The supervisor activates the next ticket only when the present one is   *)
(* closed in the bus, however the closing events and the saves interleave  *)
(* with a crash.                                                           *)
NextAfterClose ==
  \A i \in DOMAIN log :
     log[i].ticket = Following /\ log[i].type = "STATE_CHANGED" =>
       \E j \in 1..(i - 1) : /\ log[j].ticket = Plan
                             /\ log[j].type = "SUPERVISOR_CLOSED"

(* What supervisor_state.json lists as completed is closed in the bus.     *)
CompletedIsClosed == \A t \in sup.completed : HasEvent(t, "SUPERVISOR_CLOSED")

(* --mark-ready cannot leave HUMAN_GATE except when the escalation reached *)
(* the bus after --mark-ready had looked.                                  *)
GateLeftOnlyByRace ==
  [][ (/\ EmitEvent("builder")
         /\ Head(work["builder"]).event.type = "STATE_CHANGED"
         /\ State(Plan) = "HUMAN_GATE"
         /\ log' # log)
      => DerivedState(Seen("builder"), Plan) # "HUMAN_GATE"
    ]_vars

(* Once the commands are over, the files show what the bus says of the     *)
(* active ticket, as long as the supervisor runs.                          *)
FilesFollowBus ==
  <>[](up /\ sup.active = Plan /\ State(Plan) # "UNKNOWN"
         => view.status = State(Plan))

(* A close the manager confirmed and did not finish is finished by the     *)
(* supervisor.                                                             *)
ConfirmedCloses ==
  (/\ up
   /\ sup.active = Plan
   /\ LastChange(Plan) = "READY_TO_CLOSE"
   /\ HasEvent(Plan, "CLOSE_CONFIRMED"))
  ~> (~up \/ sup.active # Plan \/ LastChange(Plan) # "READY_TO_CLOSE")

(* A ticket the supervisor closes is followed by the next one, which       *)
(* becomes IN_PROGRESS in the bus, unless the supervisor ends in between.  *)
NextActivated ==
  (up /\ Doing("supervisor", "save") /\ Head(work["supervisor"]).closed = Plan)
  ~> (~up \/ LastChange(Following) = "IN_PROGRESS")
-----------------------------------------------------------------------------
(* What comments and docstrings say of the program, and the code does not. *)

(* "HUMAN_GATE if N >= threshold": the count --request-changes decides on  *)
(* is the number of rejections given.                                      *)
CountsEveryRejection ==
  \A p \in Processes : Doing(p, "decide") => TrailingChanges >= rejections

(* "Ticket must be in READY_FOR_REVIEW state": an approval that finds the  *)
(* ticket in another state of review or work emits nothing.                *)
ApprovesWhatIsReady ==
  [][ (ManagerApprove /\ BusState \in { "HUMAN_GATE", "CONTRACT_BLOCKED" })
      => work'["manager"] = << >> ]_vars

=============================================================================
