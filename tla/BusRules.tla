------------------------------ MODULE BusRules ------------------------------
(***************************************************************************)
(* The rules EventBus.emit applies to the records it has read              *)
(* (bus/event_bus.py): the duplicate window, the reentry guard, the        *)
(* contract gap check and the next sequence number, as operators on a      *)
(* sequence of events.  EventBus interleaves them between processes,       *)
(* AtomicBus applies them in one step.                                     *)
(***************************************************************************)
EXTENDS TicketStates, Integers, FiniteSets

CONSTANTS
  Tickets,        \* ticket ids
  WindowSize,     \* EventBus.DUPLICATE_WINDOW_SIZE
  MaxDuplicates   \* EventBus.MAX_DUPLICATES_IN_WINDOW

ASSUME BusAssumption == WindowSize \in Nat /\ MaxDuplicates \in Nat

(* A call of emit: the fields of the event and the allow_reentry flag.     *)
(* "arg" is the payload field the state derivations read, "rest" stands    *)
(* for the rest of the payload, the texts in it, which only the duplicate  *)
(* count compares.                                                         *)
Request == [ type : STRING, ticket : Tickets, actor : STRING, arg : STRING,
             rest : Seq(STRING), reentry : BOOLEAN ]

Event == [ type : STRING, ticket : Tickets, actor : STRING, arg : STRING,
           rest : Seq(STRING), seq : Nat ]

(* Mutations of LastSeq: numbering from 1, and by the number of lines.     *)
LastSeqFromOne(s) == IF Len(s) = 0 THEN 1 ELSE s[Len(s)].seq
LastSeqByLines(s) == Len(s)

(* records[-1].sequence_number if records else 0 *)
LastSeq(s) == IF Len(s) = 0 THEN 0 ELSE s[Len(s)].seq

SameEvent(e, f) ==
  /\ e.type = f.type
  /\ e.ticket = f.ticket
  /\ e.actor = f.actor
  /\ e.arg = f.arg
  /\ e.rest = f.rest

(* _count_recent_duplicates: identical events among the last WindowSize. *)
RecentCopies(s, r) ==
  { i \in DOMAIN s : i > Len(s) - WindowSize /\ SameEvent(s[i], r) }

DuplicateCount(s, r) == Cardinality(RecentCopies(s, r))

(* A mutation: the guard derives the state from STATE_CHANGED alone. *)
ReentryBlockedByChanges(s, r) ==
  /\ ~r.reentry
  /\ ReentryTarget(r) \in WorkStates
  /\ \E i \in DOMAIN s : /\ LastOf(s, r.ticket, { "STATE_CHANGED" }, i)
                         /\ GuardState(s[i]) \in TerminalStates

(* The condition under which emit returns None for reentry. *)
ReentryBlocked(s, r) ==
  /\ ~r.reentry
  /\ ReentryTarget(r) \in WorkStates
  /\ \E i \in DOMAIN s : /\ LastOf(s, r.ticket, GuardTypes, i)
                         /\ GuardState(s[i]) \in TerminalStates

(* A mutation: only the last event of the bus is looked at. *)
GapRecordedLast(s, r) ==
  /\ Len(s) > 0
  /\ s[Len(s)].type = "CONTRACT_GAP"
  /\ s[Len(s)].ticket = r.ticket
  /\ s[Len(s)].arg = r.arg

(* emit_contract_gap: this gap of this ticket is already in the bus. *)
GapRecorded(s, r) ==
  \E i \in DOMAIN s : /\ s[i].type = "CONTRACT_GAP"
                      /\ s[i].ticket = r.ticket
                      /\ s[i].arg = r.arg

(* The event a call appends. *)
Stamp(r, n) ==
  [ type |-> r.type, ticket |-> r.ticket, actor |-> r.actor, arg |-> r.arg,
    rest |-> r.rest, seq |-> n ]

(* What the whole call of emit makes of the records when nothing else      *)
(* writes meanwhile: None for a blocked call, else one more record.        *)
Refused(s, r) == \/ ReentryBlocked(s, r)
                 \/ DuplicateCount(s, r) >= MaxDuplicates

Emitted(s, r) == IF Refused(s, r) THEN s
                 ELSE Append(s, Stamp(r, LastSeq(s) + 1))
=============================================================================
