------------------------------- MODULE Requeue -------------------------------
(***************************************************************************)
(* How a rejection brings the builder back: bus/builder_lifecycle.py,      *)
(* bus/builder_locks.py and the end of bus/builder_relaunch.py.            *)
(*                                                                         *)
(* A REVIEW_DECISION "changes" in the bus is a trigger.  The supervisor    *)
(* finds it when it starts (reconcile_state) or in its loop (run_once).    *)
(* The review bridge, when no supervisor seems to run, starts one of its   *)
(* own for one round; after each review it saves supervisor_state.json     *)
(* with the cursor at the end of the bus.  Whoever finds a trigger claims  *)
(* it with a file, remembers it in the state file, and launches a builder. *)
(* The commands that close a ticket take both away: --manager-approve      *)
(* unlinks the state file, reconcile_ticket removes the claims and resets  *)
(* the file, and a supervisor that starts removes the claims of a ticket   *)
(* that is finished.  Left out: active_ticket, without which the code does *)
(* not requeue, and the supervisor's lock, which two can hold (module      *)
(* SupervisorLock); so the model launches where the code may not.          *)
(*                                                                         *)
(* One ticket.  Only its triggers are numbered: trigger n is the n-th      *)
(* rejection, and the sequence numbers in the files are such numbers.      *)
(***************************************************************************)
EXTENDS Naturals, FiniteSets

CONSTANTS
  Loopers,      \* supervisors: they start, and then run the loop
  Rescuers,     \* they start for one round of the loop: the review bridge
  MaxChanges,   \* bound of the model: rejections
  Budgets       \* bounds of the model: how many of the rejections there are,
                \* how many processes are killed, how often a claim outlives
                \* its TTL, the ticket is closed, a human reopens it, and the
                \* bridge comes by; a behaviour has one of them

ASSUME RequeueAssumption ==
  /\ Loopers \cap Rescuers = {}
  /\ IsFiniteSet(Loopers) /\ IsFiniteSet(Rescuers)
  /\ MaxChanges \in Nat
  /\ Budgets \subseteq
       [ rejections : 0..MaxChanges,
         crashes : Nat, expiries : Nat, closes : Nat, reopens : Nat, visits : Nat ]

Processes == Loopers \cup Rescuers
Triggers == 1..MaxChanges

VARIABLES
  changes,   \* rejections in the bus
  ticket,    \* the state the bus gives the ticket
  handoff,   \* rejections in the bus when HANDOFF_BLOCKED came last
  builder,   \* builder_alive: the builder's lock is fresh, no BUILDER_EXIT
  closing,   \* what the commands that close the ticket still have to do
  file,      \* supervisor_state.json; not there, it reads as its defaults
  claim,     \* claim[n]: the claim file of trigger n
  marker,    \* marker[n]: its .claim.takeover file exists
  told,      \* told[n]: BUILDER_RELAUNCH_ATTEMPTED for trigger n in the bus
  at,        \* at[p]: where process p is
  boots,     \* boots[p]: p is in reconcile_state, not in run_once
  todo,      \* todo[p]: the trigger p works on
  read,      \* read[p]: the supervisor_state.json p has loaded
  budget,    \* the bounds of this behaviour
  crashes,   \* processes killed
  closes,    \* commands that close the ticket
  reopens,   \* reopenings by a human
  visits,    \* times the bridge came by
  launched,  \* history: launched[n]: launches for trigger n
  expired,   \* history: expired[n]: times the claim outlived its TTL
  recovered, \* history: recovered[n]: times a claim was taken over
  removed,   \* history: removed[n]: times the claim file was removed
  cleared    \* history: times the state file was unlinked or reset

world == << changes, ticket, handoff, builder, closing >>
files == << file, claim, marker, told >>
history == << launched, expired, recovered, removed, cleared >>
processes == << at, boots, todo, read >>
bounds == << budget, crashes, closes, reopens, visits >>
vars == << world, files, processes, bounds, history >>

(* load_state without a file: the defaults of SupervisorState. *)
Missing == [ there |-> FALSE, cursor |-> 0, watermark |-> 0, round |-> 0 ]

(* RELAUNCH_BLOCKED_STATES, as far as this ticket goes there *)
Blocked == { "HUMAN_GATE", "COMPLETED" }

Init ==
  /\ changes = 0
  /\ ticket = "READY_FOR_REVIEW"
  /\ handoff = 0
  /\ builder = FALSE
  /\ closing = {}
  /\ file = Missing
  /\ claim = [n \in Triggers |-> "none"]
  /\ marker = [n \in Triggers |-> FALSE]
  /\ told = [n \in Triggers |-> FALSE]
  /\ at = [p \in Processes |-> "down"]
  /\ boots = [p \in Processes |-> FALSE]
  /\ todo = [p \in Processes |-> 0]
  /\ read = [p \in Processes |-> file]
  /\ budget \in Budgets
  /\ crashes = 0
  /\ closes = 0
  /\ reopens = 0
  /\ visits = 0
  /\ launched = [n \in Triggers |-> 0]
  /\ expired = [n \in Triggers |-> 0]
  /\ recovered = [n \in Triggers |-> 0]
  /\ removed = [n \in Triggers |-> 0]
  /\ cleared = 0
-----------------------------------------------------------------------------
(* What the others do: the manager, the builder, a human. *)
Reject ==
  /\ ticket = "READY_FOR_REVIEW"
  /\ changes < budget.rejections
  /\ changes' = changes + 1
  /\ ticket' = "IN_PROGRESS"
  /\ UNCHANGED << handoff, builder, closing, files, processes, bounds, history >>

(* BUILDER_EXIT and READY_FOR_REVIEW; the exit ends builder_alive. *)
MarkReady ==
  /\ ticket = "IN_PROGRESS"
  /\ ticket' = "READY_FOR_REVIEW"
  /\ builder' = FALSE
  /\ UNCHANGED << changes, handoff, closing, files, processes, bounds, history >>

(* The bridge's inspect, --escalate-human-gate *)
Escalate ==
  /\ ticket \in { "IN_PROGRESS", "READY_FOR_REVIEW" }
  /\ ticket' = "HUMAN_GATE"
  /\ UNCHANGED << changes, handoff, builder, closing, files, processes, bounds,
                  history >>

(* --resume-human-gate *)
Resume ==
  /\ ticket = "HUMAN_GATE"
  /\ ticket' = "READY_FOR_REVIEW"
  /\ UNCHANGED << changes, handoff, builder, closing, files, processes, bounds,
                  history >>

(* One more command that closes the ticket; its files follow later, or     *)
(* never: it may be killed.                                                *)
Close(rest) ==
  /\ closes < budget.closes
  /\ closes' = closes + 1
  /\ ticket' = "COMPLETED"
  /\ closing' = closing \cup { rest }
  /\ UNCHANGED << changes, handoff, files, processes, budget, crashes, reopens,
                  visits, history >>

(* --manager-approve goes by execution_log.md: its cascade finishes the    *)
(* ticket wherever the bus is.                                             *)
Approve ==
  /\ ticket # "COMPLETED"
  /\ Close("clear")
  /\ builder' = builder

(* _clear_auxiliary_states: the state file is unlinked. *)
ClearAuxiliary ==
  /\ "clear" \in closing
  /\ closing' = closing \ { "clear" }
  /\ file' = Missing
  /\ cleared' = cleared + 1
  /\ UNCHANGED << changes, ticket, handoff, builder, claim, marker, told, processes,
                  bounds, launched, expired, recovered, removed >>

(* The forced close of scripts/reconcile_ticket.py, of any ticket. *)
ForceClose ==
  /\ Close("discard")
  /\ builder' = FALSE

(* A claim file that is there is removed once more. *)
Standing(n) == IF claim[n] = "none" THEN 0 ELSE 1

(* Every file of the ticket in the claims directory goes, the takeover     *)
(* files too.                                                              *)
RemoveClaims ==
  /\ claim' = [n \in Triggers |-> "none"]
  /\ marker' = [n \in Triggers |-> FALSE]
  /\ removed' = [n \in Triggers |-> removed[n] + Standing(n)]

(* _cleanup_runtime_artifacts ... *)
DiscardClaims ==
  /\ "discard" \in closing
  /\ closing' = (closing \ { "discard" }) \cup { "reset" }
  /\ RemoveClaims
  /\ UNCHANGED << changes, ticket, handoff, builder, file, told, processes, bounds,
                  launched, expired, recovered, cleared >>

(* ... and _update_runtime_state, which asks for no revision. *)
ResetState ==
  /\ "reset" \in closing
  /\ closing' = closing \ { "reset" }
  /\ file' = [ there |-> TRUE, cursor |-> changes, watermark |-> 0, round |-> 0 ]
  /\ cleared' = cleared + 1
  /\ UNCHANGED << changes, ticket, handoff, builder, claim, marker, told, processes,
                  bounds, launched, expired, recovered, removed >>

(* --reopen-terminal-ticket *)
Reopen ==
  /\ ticket = "COMPLETED"
  /\ reopens < budget.reopens
  /\ reopens' = reopens + 1
  /\ ticket' = "IN_PROGRESS"
  /\ UNCHANGED << changes, handoff, builder, closing, files, processes, budget,
                  crashes, closes, visits, history >>

HandoffBlocked ==
  /\ ticket = "IN_PROGRESS"
  /\ handoff < changes
  /\ handoff' = changes
  /\ UNCHANGED << changes, ticket, builder, closing, files, processes, bounds,
                  history >>

(* The builder dies; its lock ages. *)
BuilderLost ==
  /\ builder
  /\ builder' = FALSE
  /\ UNCHANGED << changes, ticket, handoff, closing, files, processes, bounds,
                  history >>

(* A claim gets older than TICKET_SUPERVISOR_REQUEUE_CLAIM_TTL_SECONDS. *)
Expire(n) ==
  /\ claim[n] = "fresh"
  /\ expired[n] < budget.expiries
  /\ claim' = [claim EXCEPT ![n] = "stale"]
  /\ expired' = [expired EXCEPT ![n] = @ + 1]
  /\ UNCHANGED << world, file, marker, told, processes, bounds, launched,
                  recovered, removed, cleared >>

Closing == \/ Approve \/ ClearAuxiliary
           \/ ForceClose \/ DiscardClaims \/ ResetState

Environment == \/ Reject \/ MarkReady \/ Escalate \/ Resume \/ Reopen
               \/ HandoffBlocked \/ BuilderLost \/ Closing
               \/ \E n \in Triggers : Expire(n)
-----------------------------------------------------------------------------
GoTo(p, where) == at' = [at EXCEPT ![p] = where]

(* After a round the supervisor polls again, the bridge's rescue is over. *)
AfterRound(p) == IF p \in Loopers THEN "loop" ELSE "down"

(* The end of a requeue: on with reconcile_state, or with the loop. *)
Leave(p) == GoTo(p, IF boots[p] THEN "clear" ELSE AfterRound(p))

(* An exception no caller catches ends the process. *)
Raise(p) == GoTo(p, "down")

(* A trigger of the bus the cursor has not passed. *)
Unread(cursor) == IF changes > cursor THEN changes ELSE 0

(* A mutation: the rest of the file is written from its defaults. *)
CaughtUpFromDefaults(f) == [Missing EXCEPT !.there = TRUE, !.cursor = changes]

(* A mutation: the cursor points at the event to come. *)
CaughtUpPastTheEnd(f) == [f EXCEPT !.there = TRUE, !.cursor = changes + 1]

(* The state file with the cursor at the end of the bus. *)
CaughtUp(f) == [f EXCEPT !.there = TRUE, !.cursor = changes]

(* A save of supervisor_state.json by p: save_state raises                 *)
(* ConcurrentStateError when the file is no longer the one p has loaded,   *)
(* and asks nothing when p has found no file to load.                      *)
SaveFile(p, f, next) ==
  IF file = read[p] \/ ~read[p].there
  THEN /\ file' = f
       /\ GoTo(p, next)
  ELSE /\ file' = file
       /\ Raise(p)

(* A visit of the bridge is bounded, a start of the supervisor is not. *)
ComesBy(p) ==
  /\ p \in Rescuers => visits < budget.visits
  /\ visits' = IF p \in Rescuers THEN visits + 1 ELSE visits
  /\ UNCHANGED << budget, crashes, closes, reopens >>

(* reconcile_state loads the file ... *)
Start(p) ==
  /\ at[p] = "down"
  /\ ComesBy(p)
  /\ read' = [read EXCEPT ![p] = file]
  /\ boots' = [boots EXCEPT ![p] = TRUE]
  /\ GoTo(p, "boot")
  /\ UNCHANGED << world, files, todo, history >>

(* ... and _bootstrap_reconcile_sequence saves a new cursor, if it is new. *)
Reconcile(p) ==
  /\ at[p] = "boot"
  /\ IF read[p].cursor = changes
     THEN /\ file' = file
          /\ GoTo(p, "look")
     ELSE SaveFile(p, CaughtUp(read[p]), "look")
  /\ UNCHANGED << world, claim, marker, told, boots, todo, read, bounds, history >>

(* _bootstrap_requeue_if_needed *)
BootRequeue(p) ==
  /\ at[p] = "look"
  /\ \/ /\ changes > file.watermark
        /\ \/ ticket = "IN_PROGRESS"
           \/ ticket = "READY_FOR_REVIEW" /\ changes > file.cursor
        /\ ~builder
        /\ handoff < changes
        /\ todo' = [todo EXCEPT ![p] = changes]
        /\ GoTo(p, "claim")
     \/ /\ \/ changes <= file.watermark
           \/ ticket \in Blocked
           \/ ticket = "READY_FOR_REVIEW" /\ changes <= file.cursor
           \/ builder
           \/ handoff >= changes
        /\ todo' = todo
        /\ Leave(p)
  /\ UNCHANGED << world, files, boots, read, bounds, history >>

(* _bootstrap_clear_terminal_ticket ends reconcile_state: the claims of a  *)
(* finished ticket go when execution_log.md agrees that it is finished;    *)
(* the save that follows may meet another writer and raise.                *)
ClearTerminal(p) ==
  /\ at[p] = "clear"
  /\ \/ /\ UNCHANGED << claim, marker, removed >>
        /\ GoTo(p, "loop")
     \/ /\ ticket = "COMPLETED"
        /\ RemoveClaims
        /\ GoTo(p, "loop") \/ Raise(p)
  /\ boots' = [boots EXCEPT ![p] = FALSE]
  /\ UNCHANGED << world, file, told, todo, read, bounds, launched, expired,
                  recovered, cleared >>

(* run_once loads the state and reads the bus: the latest trigger among    *)
(* the events above the cursor, 0 if there is none.                        *)
LoopRead(p) ==
  /\ at[p] = "loop"
  /\ read' = [read EXCEPT ![p] = file]
  /\ todo' = [todo EXCEPT ![p] = Unread(file.cursor)]
  /\ GoTo(p, "process")
  /\ UNCHANGED << world, files, boots, bounds, history >>

(* _process_new_events loads the state again, ...                          *)
ProcessLoad(p) ==
  /\ at[p] = "process"
  /\ read' = [read EXCEPT ![p] = file]
  /\ GoTo(p, "advance")
  /\ UNCHANGED << world, files, boots, todo, bounds, history >>

(* ... reads the bus again and saves the cursor.                           *)
ProcessSave(p) ==
  /\ at[p] = "advance"
  /\ IF read[p].cursor = changes
     THEN /\ file' = file
          /\ GoTo(p, "decide")
     ELSE SaveFile(p, CaughtUp(read[p]), "decide")
  /\ UNCHANGED << world, claim, marker, told, boots, todo, read, bounds, history >>

(* run_once decides on the trigger it read before the cursor was saved.    *)
LoopDecide(p) ==
  /\ at[p] = "decide"
  /\ IF todo[p] > file.watermark /\ handoff < todo[p]
     THEN GoTo(p, "claim")
     ELSE Leave(p)
  /\ UNCHANGED << world, files, boots, todo, read, bounds, history >>
-----------------------------------------------------------------------------
(* _sync_ticket_checkpoint: after a review the bridge reads where the bus  *)
(* ends, loads the state file and moves the supervisor's cursor there.     *)
SyncRead(p) ==
  /\ p \in Rescuers
  /\ at[p] = "down"
  /\ ComesBy(p)
  /\ todo' = [todo EXCEPT ![p] = changes]
  /\ GoTo(p, "sync")
  /\ UNCHANGED << world, files, boots, read, history >>

SyncLoad(p) ==
  /\ at[p] = "sync"
  /\ read' = [read EXCEPT ![p] = file]
  /\ GoTo(p, IF todo[p] > file.cursor THEN "synced" ELSE "down")
  /\ UNCHANGED << world, files, boots, todo, bounds, history >>

(* The saved state: only the cursor moves. *)
Synced(f, n) == [f EXCEPT !.there = TRUE, !.cursor = n]

SyncSave(p) ==
  /\ at[p] = "synced"
  /\ SaveFile(p, Synced(read[p], todo[p]), "down")
  /\ UNCHANGED << world, claim, marker, told, boots, todo, read, bounds, history >>
-----------------------------------------------------------------------------
(* A mutation: the claim file is opened without O_EXCL. *)
ClaimableTwice(n) == claim[n] # "stale"

(* _claim_requeue.  Each access to the claim and the takeover file is a    *)
(* step.  O_CREAT | O_EXCL: the claim is created only if there is none.    *)
Claimable(n) == claim[n] = "none"

Create(p) ==
  /\ at[p] = "claim"
  /\ IF Claimable(todo[p])
     THEN /\ claim' = [claim EXCEPT ![todo[p]] = "fresh"]
          /\ GoTo(p, "won")
     ELSE /\ claim' = claim
          /\ GoTo(p, "stat")
  /\ UNCHANGED << world, file, marker, told, boots, todo, read, bounds, history >>

(* A missing claim, a claim within its TTL: denied. *)
Stat(p) ==
  /\ at[p] = "stat"
  /\ IF claim[todo[p]] = "stale" THEN GoTo(p, "check") ELSE Leave(p)
  /\ UNCHANGED << world, files, boots, todo, read, bounds, history >>

(* _has_relaunched_for_trigger *)
Check(p) ==
  /\ at[p] = "check"
  /\ IF told[todo[p]] THEN Leave(p) ELSE GoTo(p, "mark")
  /\ UNCHANGED << world, files, boots, todo, read, bounds, history >>

Mark(p) ==
  /\ at[p] = "mark"
  /\ IF marker[todo[p]]
     THEN /\ marker' = marker
          /\ Leave(p)
     ELSE /\ marker' = [marker EXCEPT ![todo[p]] = TRUE]
          /\ GoTo(p, "unlink")
  /\ UNCHANGED << world, file, claim, told, boots, todo, read, bounds, history >>

Unlink(p) ==
  /\ at[p] = "unlink"
  /\ claim' = [claim EXCEPT ![todo[p]] = "none"]
  /\ removed' = [removed EXCEPT ![todo[p]] = @ + Standing(todo[p])]
  /\ GoTo(p, IF claim[todo[p]] = "none" THEN "fail" ELSE "recreate")
  /\ UNCHANGED << world, file, marker, told, boots, todo, read, bounds, launched,
                  expired, recovered, cleared >>

Recreate(p) ==
  /\ at[p] = "recreate"
  /\ IF claim[todo[p]] = "none"
     THEN /\ claim' = [claim EXCEPT ![todo[p]] = "fresh"]
          /\ recovered' = [recovered EXCEPT ![todo[p]] = @ + 1]
          /\ GoTo(p, "unmark")
     ELSE /\ claim' = claim
          /\ recovered' = recovered
          /\ GoTo(p, "fail")
  /\ UNCHANGED << world, file, marker, told, boots, todo, read, bounds, launched,
                  expired, removed, cleared >>

(* finally: the takeover file goes, on success and on an exception. *)
Unmark(p) ==
  /\ at[p] \in { "unmark", "fail" }
  /\ marker' = [marker EXCEPT ![todo[p]] = FALSE]
  /\ IF at[p] = "unmark" THEN GoTo(p, "won") ELSE Raise(p)
  /\ UNCHANGED << world, file, claim, told, boots, todo, read, bounds, history >>
-----------------------------------------------------------------------------
(* requeue_ticket, after the claim.  The claim stays whatever follows. *)
Load(p) ==
  /\ at[p] = "won"
  /\ read' = [read EXCEPT ![p] = file]
  /\ IF ticket \in Blocked THEN Leave(p) ELSE GoTo(p, "save")
  /\ UNCHANGED << world, files, boots, todo, bounds, history >>

(* A mutation: the round is saved, the watermark is not. *)
RequeuedUnmarked(f, n) == [f EXCEPT !.there = TRUE, !.round = @ + 1]

(* The state file that remembers trigger n, one round later. *)
Requeued(f, n) ==
  [f EXCEPT !.there = TRUE, !.watermark = n, !.round = @ + 1]

Save(p) ==
  /\ at[p] = "save"
  /\ SaveFile(p, Requeued(read[p], todo[p]), "relaunch")
  /\ UNCHANGED << world, claim, marker, told, boots, todo, read, bounds, history >>

(* _relaunch_builder: a builder that is alive counts as relaunched; the    *)
(* topology or the launcher may be missing; the launcher may start a       *)
(* builder or not.                                                         *)
Relaunch(p) ==
  /\ at[p] = "relaunch"
  /\ \/ /\ told' = [told EXCEPT ![todo[p]] = TRUE]
        /\ Leave(p)
        /\ UNCHANGED << builder, launched >>
     \/ /\ ~builder
        /\ builder' \in BOOLEAN
        /\ launched' = [launched EXCEPT ![todo[p]] = @ + 1]
        /\ GoTo(p, "report")
        /\ told' = told
  /\ UNCHANGED << changes, ticket, handoff, closing, file, claim, marker, boots,
                  todo, read, bounds, expired, recovered, removed, cleared >>

(* BUILDER_RELAUNCH_ATTEMPTED with the outcome *)
Report(p) ==
  /\ at[p] = "report"
  /\ told' = [told EXCEPT ![todo[p]] = TRUE]
  /\ Leave(p)
  /\ UNCHANGED << world, file, claim, marker, boots, todo, read, bounds, history >>

Crash(p) ==
  /\ at[p] # "down"
  /\ crashes < budget.crashes
  /\ crashes' = crashes + 1
  /\ GoTo(p, "down")
  /\ UNCHANGED << world, files, boots, todo, read, budget, closes, reopens, visits,
                  history >>

Work(p) == \/ Reconcile(p) \/ BootRequeue(p) \/ ClearTerminal(p)
           \/ LoopRead(p) \/ ProcessLoad(p) \/ ProcessSave(p) \/ LoopDecide(p)
           \/ SyncLoad(p) \/ SyncSave(p)
           \/ Create(p) \/ Stat(p) \/ Check(p) \/ Mark(p) \/ Unlink(p)
           \/ Recreate(p) \/ Unmark(p) \/ Load(p) \/ Save(p)
           \/ Relaunch(p) \/ Report(p)

Next == \/ Environment
        \/ \E p \in Processes : Start(p) \/ SyncRead(p) \/ Work(p) \/ Crash(p)

Spec == Init /\ [][Next]_vars

(* A running process goes on; run_loop polls for ever. *)
FairSpec == Spec /\ \A p \in Processes : WF_vars(Work(p))
-----------------------------------------------------------------------------
Places == { "down", "boot", "look", "clear", "loop", "process", "advance",
            "decide", "claim", "stat", "check", "mark", "unlink", "recreate",
            "unmark", "fail", "won", "save", "relaunch", "report",
            "sync", "synced" }

StateFile ==
  [ there : BOOLEAN, cursor : 0..MaxChanges, watermark : 0..MaxChanges, round : Nat ]

(* Type correctness: the cursor and the watermark never run ahead of the   *)
(* rejections the model allows, the claims stay claims.                    *)
TypeOK ==
  /\ changes \in 0..MaxChanges
  /\ ticket \in { "IN_PROGRESS", "READY_FOR_REVIEW" } \cup Blocked
  /\ handoff \in 0..MaxChanges
  /\ builder \in BOOLEAN
  /\ closing \subseteq { "clear", "discard", "reset" }
  /\ file \in StateFile
  /\ claim \in [Triggers -> { "none", "fresh", "stale" }]
  /\ marker \in [Triggers -> BOOLEAN]
  /\ told \in [Triggers -> BOOLEAN]
  /\ at \in [Processes -> Places]
  /\ boots \in [Processes -> BOOLEAN]
  /\ todo \in [Processes -> 0..MaxChanges]
  /\ read \in [Processes -> StateFile]
  /\ budget \in Budgets
  /\ crashes \in 0..budget.crashes
  /\ closes \in 0..budget.closes
  /\ reopens \in 0..budget.reopens
  /\ visits \in 0..budget.visits
  /\ launched \in [Triggers -> Nat]
  /\ expired \in [Triggers -> Nat]
  /\ recovered \in [Triggers -> Nat]
  /\ removed \in [Triggers -> Nat]
  /\ cleared \in Nat

(* A rejection brings one builder for each claim file: whoever finds it,   *)
(* the loop, a restart after a crash anywhere, the bridge, a second launch *)
(* needs the first's claim file to be gone, taken over as stale or cleaned *)
(* up with a finished ticket.                                              *)
LaunchedOncePerClaim ==
  \A n \in Triggers : launched[n] <= removed[n] + Standing(n)

(* No two processes are between their claim and the end of the launch for  *)
(* the same trigger, unless its claim file was taken away from one.        *)
Relaunching(p, n) == at[p] \in { "save", "relaunch", "report" } /\ todo[p] = n

OneRelauncher ==
  \A n \in Triggers : \A p, q \in Processes :
     Relaunching(p, n) /\ Relaunching(q, n) /\ removed[n] = 0 => p = q

(* One supervisor, and no bridge came by. *)
Undivided == visits = 0 /\ \A p, q \in Loopers : p = q

(* A trigger that was requeued is behind the watermark for good: no save   *)
(* of the one supervisor, before or after a crash, brings an older         *)
(* watermark back; only a command that closes the ticket does.             *)
WatermarkGrows ==
  [][ Undivided /\ cleared' = cleared => file'.watermark >= file.watermark ]_vars

(* What the one supervisor launched is behind the watermark, also after a  *)
(* crash between the launch and its report, and even if the claim has      *)
(* outlived its TTL: no restart launches it again, unless a close of the   *)
(* ticket took the state file away in between (the ticket may be reopened).*)
Behind(n) == IF n <= file.watermark THEN 1 ELSE 0

LaunchedIsRemembered ==
  Undivided => \A n \in Triggers : launched[n] <= cleared + Behind(n)
-----------------------------------------------------------------------------
(* What tests say of the program, and the code does not keep.              *)

(* "Solo un supervisor puede recuperar un stale claim (takeover atomico)": *)
(* a claim that outlived its TTL is recovered once.                        *)
RecoveredOnce == \A n \in Triggers : recovered[n] <= expired[n]

(* "REVIEW_DECISION with decision=CHANGES must trigger requeue": while the *)
(* ticket waits for its builder, the supervisor takes up the rejection.    *)
ChangesTriggerRequeue ==
  \A n \in Triggers :
     (changes = n /\ at["supervisor"] \in { "loop", "process", "advance", "decide" })
     ~> (\/ told[n]
         \/ changes > n
         \/ handoff >= n
         \/ ticket # "IN_PROGRESS"
         \/ at["supervisor"] = "down")
=============================================================================
