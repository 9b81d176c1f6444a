---------------------------- MODULE ApprovalStore ----------------------------
(***************************************************************************)
(* The requests of HUMAN_GATE in approvals/store.json, which is read,      *)
(* changed in memory and replaced without a lock: by every escalation      *)
(* (agent_controller.py), after it has moved the ticket, and by the expiry *)
(* in a round of the supervisor or of the bridge's rescue                  *)
(* (builder_lifecycle.py), before it moves the ticket.  A review that ends *)
(* with "inspect" moves the ticket by its REVIEW_DECISION already, and     *)
(* asks for the escalation then (review_bridge.py).  One ticket, whose     *)
(* events are the state they derive.                                       *)
(***************************************************************************)
EXTENDS Naturals

CONSTANTS
  Escalations,  \* the escalations; each names its request
  Expirers      \* the rounds that look for expired requests

VARIABLES
  state,   \* the ticket's state in the bus
  mover,   \* history: the escalation that moved it to the gate last
  store,   \* store[r]: "pending" or "expired"; requests not in it: "none"
  due,     \* the requests whose timeout has passed
  step,    \* step[p]: where process p is
  base,    \* base[p]: the store p has read
  todo,    \* todo[p]: expired requests whose events p has to emit
  served,  \* history: served[r]: rounds that moved the ticket for r
  undone   \* history: requests whose entry another process overwrote

vars == << state, mover, store, due, step, base, todo, served, undone >>

Parties == Escalations \cup Expirers

Empty == [r \in Escalations |-> "none"]

Init ==
  /\ state = "IN_PROGRESS"
  /\ mover = {}
  /\ store = Empty
  /\ due = {}
  /\ step = [p \in Parties |-> "unborn"]
  /\ base = [p \in Parties |-> Empty]
  /\ todo = [p \in Expirers |-> {}]
  /\ served = [r \in Escalations |-> 0]
  /\ undone = {}

GoTo(p, where) == step' = [step EXCEPT ![p] = where]

status == << state, mover >>
history == << served, undone >>

(* The bus refuses a work state for a closed ticket. *)
Derive(to) == state' = IF state = "COMPLETED" THEN state ELSE to

(* It may also refuse an escalation that it takes for a duplicate. *)
ToGate(p) ==
  \/ state # "COMPLETED" /\ state' = "HUMAN_GATE" /\ mover' = { p }
  \/ UNCHANGED status

(* The bridge's REVIEW_DECISION inspect. *)
Inspect(p) ==
  /\ step[p] = "unborn"
  /\ ToGate(p)
  /\ GoTo(p, "asked")
  /\ UNCHANGED << store, due, base, todo, history >>

(* _materialize_state_transition: the event, then the request.  The        *)
(* command is the bridge's, a human's or the end of --request-changes.     *)
Escalate(p) ==
  /\ step[p] \in { "unborn", "asked" }
  /\ ToGate(p)
  /\ GoTo(p, "read")
  /\ UNCHANGED << store, due, base, todo, history >>

(* The command refuses, and the bridge ignores its return code; or         *)
(* _create_human_gate_approval_request fails, which the command ignores.   *)
Fail(p) ==
  /\ step[p] \in { "asked", "read", "write" }
  /\ GoTo(p, "failed")
  /\ UNCHANGED << status, store, due, base, todo, history >>

(* _read_store: an error makes it empty. *)
Contents == { store, Empty }

Read(p) ==
  /\ step[p] = "read"
  /\ \E copy \in Contents : base' = [base EXCEPT ![p] = copy]
  /\ GoTo(p, "write")
  /\ UNCHANGED << status, store, due, todo, history >>

(* Entries that are not as p read them, and are overwritten. *)
Overwritten(p) == { r \in Escalations : base[p][r] # store[r] }

(* A mutation: the other requests are not written back. *)
SavedAlone(p) == [Empty EXCEPT ![p] = "pending"]

(* save *)
Saved(p) == [base[p] EXCEPT ![p] = "pending"]

Save(p) ==
  /\ step[p] = "write"
  /\ store' = Saved(p)
  /\ undone' = undone \cup Overwritten(p)
  /\ GoTo(p, "done")
  /\ UNCHANGED << status, due, base, todo, served >>

(* The timeout of a request that was created passes. *)
Lapse(r) ==
  /\ store[r] = "pending"
  /\ r \notin due
  /\ due' = due \cup { r }
  /\ UNCHANGED << status, store, step, base, todo, history >>
-----------------------------------------------------------------------------
(* run_once begins *)
Begin(p) ==
  /\ step[p] = "unborn"
  /\ GoTo(p, "check")
  /\ UNCHANGED << status, store, due, base, todo, history >>

(* A mutation: also requests that are resolved. *)
ExpiredAgain(requests) == { r \in due : requests[r] # "none" }

(* check_and_expire_all: the pending requests of a store that are due. *)
Expired(requests) == { r \in due : requests[r] = "pending" }

(* A mutation: the call returns nothing. *)
ReportedNone(p) == {}

(* What check_and_expire_all returns. *)
Reported(p) == Expired(base[p])

Check(p) ==
  /\ step[p] = "check"
  /\ \E copy \in Contents :
       /\ base' = [base EXCEPT ![p] = copy]
       /\ GoTo(p, IF Expired(copy) = {} THEN "done" ELSE "expire")
  /\ UNCHANGED << status, store, due, todo, history >>

(* All are saved before the first event. *)
SaveExpired(p) ==
  /\ step[p] = "expire"
  /\ store' = [r \in Escalations |->
                 IF r \in Expired(base[p]) THEN "expired" ELSE base[p][r]]
  /\ undone' = undone \cup Overwritten(p)
  /\ todo' = [todo EXCEPT ![p] = Reported(p)]
  /\ GoTo(p, "serve")
  /\ UNCHANGED << status, due, base, served >>

(* The ticket goes to BLOCKED wherever it is now, ... *)
Block(p) ==
  /\ step[p] = "serve"
  /\ \E r \in todo[p] :
       /\ Derive("BLOCKED")
       /\ todo' = [todo EXCEPT ![p] = @ \ { r }]
       /\ served' = [served EXCEPT ![r] = @ + 1]
  /\ GoTo(p, "resolve")
  /\ UNCHANGED << store, due, base, undone, mover >>

(* ... and again by APPROVAL_RESOLVED. *)
Resolve(p) ==
  /\ step[p] = "resolve"
  /\ Derive("BLOCKED")
  /\ GoTo(p, "serve")
  /\ UNCHANGED << mover, store, due, base, todo, history >>

End(p) ==
  /\ step[p] = "serve"
  /\ todo[p] = {}
  /\ GoTo(p, "done")
  /\ UNCHANGED << status, store, due, base, todo, history >>
-----------------------------------------------------------------------------
(* --resume-human-gate leaves the request as it is. *)
Resume ==
  /\ state = "HUMAN_GATE"
  /\ state' = "READY_FOR_REVIEW"
  /\ UNCHANGED << mover, store, due, step, base, todo, history >>

(* The other commands, which need no approval. *)
Move ==
  /\ state \in { "READY_FOR_REVIEW", "IN_PROGRESS", "BLOCKED" }
  /\ state' \in { "READY_FOR_REVIEW", "IN_PROGRESS", "COMPLETED" } \ { state }
  /\ UNCHANGED << mover, store, due, step, base, todo, history >>

(* Killed, or stopped by an exception. *)
Die(p) ==
  /\ step[p] \notin { "unborn", "done", "failed", "dead" }
  /\ GoTo(p, "dead")
  /\ UNCHANGED << status, store, due, base, todo, history >>

Next ==
  \/ Resume \/ Move
  \/ \E p \in Escalations :
       Inspect(p) \/ Escalate(p) \/ Fail(p) \/ Read(p) \/ Save(p) \/ Lapse(p)
  \/ \E p \in Expirers :
       Begin(p) \/ Check(p) \/ SaveExpired(p) \/ Block(p) \/ Resolve(p) \/ End(p)
  \/ \E p \in Parties : Die(p)

Spec == Init /\ [][Next]_vars
-----------------------------------------------------------------------------
(* create_request returned: the request is in the store, and is gone only  *)
(* when another process overwrote it, with an older copy or with the empty *)
(* one that a failed read gives.                                           *)
RequestsKept ==
  \A r \in Escalations : step[r] = "done" /\ store[r] = "none" => r \in undone

(* An expiry is carried out once, also by supervisor and bridge together,  *)
(* unless one of them overwrote what the other had changed.                *)
ExpiryServedOnce ==
  \A r \in Escalations : served[r] > 1 => r \in undone

(* "The approval request persists across restarts and can be expired by    *)
(* the supervisor": of a ticket at the human gate, the request of the      *)
(* escalation that brought it there is pending, or still to come, or a     *)
(* round has it to serve.  What leaves the gate without a timeout: the     *)
(* escalation has failed, which nobody is told, or has died; its request   *)
(* was overwritten; or the round that had it died.                         *)
GateWatched ==
  state = "HUMAN_GATE" =>
    \E r \in mover :
       \/ store[r] = "pending"
       \/ step[r] \in { "asked", "read", "write" }
       \/ \E p \in Expirers : r \in todo[p]
       \/ step[r] \in { "failed", "dead" }
       \/ r \in undone
=============================================================================
