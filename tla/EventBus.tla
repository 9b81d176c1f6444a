------------------------------ MODULE EventBus ------------------------------
(***************************************************************************)
(* bus/event_bus.py: several processes append to one file, events.jsonl.   *)
(*                                                                         *)
(* EventBus.emit takes no lock.  It reads the file once for the duplicate  *)
(* count and for the next sequence number, a second time for the reentry   *)
(* guard, and then appends; emit_contract_gap reads it once more before.   *)
(* Each of these file accesses is an action, so that the calls of several  *)
(* writers interleave between them.                                        *)
(***************************************************************************)
EXTENDS BusRules

CONSTANTS
  Requests,       \* the calls of emit that may be made
  Writers,        \* processes that emit: supervisor, bridge, controller calls
  NoCall,         \* what call[w] is outside emit
  MaxLog          \* bound of the model: length of the log

ASSUME WriterAssumption ==
  /\ Requests \subseteq Request
  /\ IsFiniteSet(Writers)
  /\ NoCall \notin Requests
  /\ MaxLog \in Nat

VARIABLES
  log,     \* events.jsonl: a sequence of Event
  pc,      \* pc[w]: where writer w is inside emit
  call,    \* call[w]: the call w is executing
  seen,    \* seen[w]: what w keeps of its first read of the file
  trail    \* history: for each event, its writer and how much of the log the
           \* guard had read when it let the event pass

vars == << log, pc, call, seen, trail >>

NothingSeen == [ lastSeq |-> 0, dups |-> 0, guarded |-> 0 ]
-----------------------------------------------------------------------------
(* Calls that may still append; the bound of the log counts them. *)
Pending == { w \in Writers : pc[w] # "idle" }

(* A mutation: the call is forgotten, the program goes on. *)
ReturnHalfway(w) == /\ pc' = pc
                    /\ call' = [call EXCEPT ![w] = NoCall]
                    /\ seen' = [seen EXCEPT ![w] = NothingSeen]

(* The end of a call. *)
Return(w) == /\ pc' = [pc EXCEPT ![w] = "idle"]
             /\ call' = [call EXCEPT ![w] = NoCall]
             /\ seen' = [seen EXCEPT ![w] = NothingSeen]
-----------------------------------------------------------------------------
Init ==
  /\ log = << >>
  /\ pc = [w \in Writers |-> "idle"]
  /\ call = [w \in Writers |-> NoCall]
  /\ seen = [w \in Writers |-> NothingSeen]
  /\ trail = << >>

(* The caller enters emit, or emit_contract_gap for a CONTRACT_GAP. *)
Begin(w, r) ==
  /\ pc[w] = "idle"
  /\ Len(log) + Cardinality(Pending) < MaxLog
  /\ call' = [call EXCEPT ![w] = r]
  /\ pc' = [pc EXCEPT ![w] = IF r.type = "CONTRACT_GAP" THEN "gap" ELSE "read"]
  /\ UNCHANGED << log, seen, trail >>

(* emit_contract_gap looks for the gap before it calls emit. *)
CheckGap(w) ==
  /\ pc[w] = "gap"
  /\ \/ /\ GapRecorded(log, call[w])
        /\ Return(w)
     \/ /\ ~GapRecorded(log, call[w])
        /\ pc' = [pc EXCEPT ![w] = "read"]
        /\ UNCHANGED << call, seen >>
  /\ UNCHANGED << log, trail >>

(* records = self._read_raw_events() *)
ReadRecords(w) ==
  /\ pc[w] = "read"
  /\ seen' = [seen EXCEPT ![w] =
               [ lastSeq |-> LastSeq(log),
                 dups    |-> DuplicateCount(log, call[w]),
                 guarded |-> 0 ] ]
  /\ pc' = [pc EXCEPT ![w] = "guard"]
  /\ UNCHANGED << log, call, trail >>

(* A mutation: one duplicate more is let through. *)
AboveThreshold(w) == seen[w].dups > MaxDuplicates

(* duplicate_count >= MAX_DUPLICATES_IN_WINDOW *)
AtThreshold(w) == seen[w].dups >= MaxDuplicates

(* The guard reads the file again; the duplicate count is that of the      *)
(* first read.                                                             *)
Guard(w) ==
  /\ pc[w] = "guard"
  /\ \/ /\ \/ ReentryBlocked(log, call[w])
           \/ AtThreshold(w)
        /\ Return(w)
     \/ /\ ~ReentryBlocked(log, call[w])
        /\ ~AtThreshold(w)
        /\ pc' = [pc EXCEPT ![w] = "append"]
        /\ seen' = [seen EXCEPT ![w].guarded = Len(log)]
        /\ UNCHANGED call
  /\ UNCHANGED << log, trail >>

(* One write in append mode, with the sequence number of the first read. *)
AppendRecord(w) ==
  /\ pc[w] = "append"
  /\ log' = Append(log, Stamp(call[w], seen[w].lastSeq + 1))
  /\ trail' = Append(trail, [ by |-> w, guarded |-> seen[w].guarded,
                              reentry |-> call[w].reentry ])
  /\ Return(w)

Emit(w) == \/ \E r \in Requests : Begin(w, r)
           \/ CheckGap(w)
           \/ ReadRecords(w)
           \/ Guard(w)
           \/ AppendRecord(w)

Next == \E w \in Writers : Emit(w)

Spec == Init /\ [][Next]_vars
-----------------------------------------------------------------------------
(* Type correctness of the bus and of the writers' local state. *)
TypeOK ==
  /\ log \in Seq(Event)
  /\ pc \in [Writers -> {"idle", "gap", "read", "guard", "append"}]
  /\ call \in [Writers -> Requests \cup {NoCall}]
  /\ seen \in [Writers -> [lastSeq : Nat, dups : Nat, guarded : Nat]]
  /\ trail \in Seq([by : Writers, guarded : Nat, reentry : BOOLEAN])
  /\ Len(trail) = Len(log)
  /\ \A w \in Writers : pc[w] # "idle" => call[w] \in Requests

(* Event i takes ticket t back to a work state: the event before it that   *)
(* the guard looks at left t terminal, and the writer had not been allowed *)
(* to reopen.                                                              *)
Reopens(i, j, t) ==
  /\ j < i
  /\ log[i].ticket = t
  /\ ReentryTarget(log[i]) \in WorkStates
  /\ ~trail[i].reentry
  /\ log[j].ticket = t
  /\ log[j].type \in GuardTypes
  /\ GuardState(log[j]) \in TerminalStates
  /\ \A k \in (j + 1)..(i - 1) :
        ~(log[k].ticket = t /\ log[k].type \in GuardTypes)

(* emit cannot promise that a terminal ticket stays closed, because its    *)
(* guard and its append are two accesses to the file.  What it does        *)
(* promise: an event that reopens a ticket comes from a call that was past *)
(* the guard before the terminal event was written, so it is never issued  *)
(* by a process that had seen the ticket closed.                           *)
ReopenOnlyByRace ==
  \A i \in DOMAIN log, j \in DOMAIN log, t \in Tickets :
     Reopens(i, j, t) => trail[i].guarded < j

(* A writer that runs alone never takes a ticket back from a terminal      *)
(* state, unless the caller allows it.  This is less than emit's docstring *)
(* says, which names READY_TO_CLOSE as well: is_approved_or_terminal       *)
(* leaves that state out, so that a rejection may still revert it.         *)
NoReopen ==
  \A i \in DOMAIN log, j \in DOMAIN log, t \in Tickets : ~Reopens(i, j, t)

(* The duplicate threshold under concurrency: every window holds at most   *)
(* MaxDuplicates copies of an event, plus one for each further writer      *)
(* whose first read came before the threshold was reached.                 *)
DuplicatesBounded ==
  \A r \in Requests :
     DuplicateCount(log, r) <= MaxDuplicates + Cardinality(Writers) - 1

(* Sequence numbers are handed out from a stale read, so two events may    *)
(* carry the same number or decreasing ones; but no event carries a number *)
(* larger than its position, so a consumer's cursor never runs ahead of    *)
(* the number of events written.                                           *)
SeqWithinHistory == \A i \in DOMAIN log : log[i].seq \in 1..i

(* A writer that runs alone numbers the events 1, 2, 3, ... without gap or *)
(* repetition.                                                             *)
SeqIsPosition == \A i \in DOMAIN log : log[i].seq = i

(* emit_contract_gap records a gap of a ticket at most once per writer:    *)
(* two records of the same gap are always two processes that both looked   *)
(* before either wrote.                                                    *)
GapOncePerWriter ==
  \A i \in DOMAIN log, j \in DOMAIN log :
     /\ i # j
     /\ log[i].type = "CONTRACT_GAP"
     /\ SameEvent([log[i] EXCEPT !.actor = log[j].actor], log[j])
     => trail[i].by # trail[j].by

(* One writer implements the atomic bus: its accesses to the file can be   *)
(* taken for one.                                                          *)
Atomic == INSTANCE AtomicBus

(* With a single writer every call of emit appears to run in one step on   *)
(* the log as it is when the record is written: no decision was taken on a *)
(* stale read.                                                             *)
EmitIsAtomic == Atomic!Spec
=============================================================================
