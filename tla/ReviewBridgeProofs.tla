------------------------ MODULE ReviewBridgeProofs -------------------------
(***************************************************************************)
(* Proofs about the manager's review, for any number of bridges, commands, *)
(* kills and handoffs.                                                     *)
(***************************************************************************)
EXTENDS ReviewBridge, FiniteSetTheorems, WellFoundedInduction, TLAPS

Places == { "off", "idle", "cycle", "review", "approve", "changes", "inspect",
            "save", "dead" }

Rejected == Decision("changes")
HandedOff == Change("READY_FOR_REVIEW")
Rework == { Change("IN_PROGRESS"), Change("HUMAN_GATE") }
AfterClose == { Change("IN_PROGRESS"), Change("READY_TO_CLOSE"),
                Change("COMPLETED"), Decision("approve") }

(* The events that are appended one by one. *)
Emissions ==
  { Change(to) : to \in { "IN_PROGRESS", "READY_FOR_REVIEW", "HUMAN_GATE",
                          "READY_TO_CLOSE", "COMPLETED" } }
  \cup { Decision(d) : d \in Decisions }
  \cup { Event(type, "") : type \in Failures \cup { "MANAGER_REVIEWING", "MANAGER_STALE" } }

Typed ==
  /\ log \in Seq(Events)
  /\ shown \in TicketState
  /\ at \in [Bridges -> Places]
  /\ file \in [ seq : Nat, adaptive : BOOLEAN ] /\ file.seq = checkpoint
  /\ checkpoint \in 0..Len(log) /\ warned \in 0..Len(log)
  /\ late \subseteq 1..Len(log)

ClosedInv == StaysClosed(log) /\ Sealed(log)

(* A handoff that no decision follows. *)
Undecided == \E h \in Handoffs : \A d \in Of("REVIEW_DECISION") : d < h

(* Alone, a bridge that looks for work or reviews has a handoff to decide. *)
Alone ==
  /\ Separated(log)
  /\ Of("MANAGER_STALE") = {}
  /\ shown = "READY_FOR_REVIEW" => Handoffs # {}
  /\ \A b \in Bridges \ { First } : at[b] = "off"
  /\ \A b \in Bridges :
       /\ at[b] \in { "cycle", "review" } => Undecided
       /\ at[b] = "idle" =>
            \/ \A d \in Of("REVIEW_DECISION") : d <= checkpoint
            \/ "READY_FOR_REVIEW" \in { shown, State } => Undecided

DecideInv == disturbed \/ Alone

(* The checkpoint passes over a handoff only when there is a reason. *)
ParkInv ==
  State = "READY_FOR_REVIEW" =>
    /\ Excused \/ Latest(Handoffs) > checkpoint
    /\ \A b \in Bridges : at[b] = "save" => Excused

(* The inductive invariant. *)
BridgeInv == Typed /\ ClosedInv /\ DecideInv /\ ParkInv
-----------------------------------------------------------------------------
LEMMA Appended ==
  ASSUME NEW S, NEW s \in Seq(S), NEW e \in S
  PROVE  /\ Append(s, e) \in Seq(S) /\ Len(s) \in Nat
         /\ Len(Append(s, e)) = Len(s) + 1
         /\ DOMAIN s = 1..Len(s)
         /\ DOMAIN Append(s, e) = DOMAIN s \cup { Len(s) + 1 }
         /\ Append(s, e)[Len(s) + 1] = e
         /\ \A i \in DOMAIN s : Append(s, e)[i] = s[i]
OBVIOUS

(* Positions of a log have a last one. *)
LEMMA LastPosition ==
  ASSUME NEW n \in Nat, NEW T \in SUBSET (1..n), T # {}
  PROVE  \E k \in T : \A j \in T : j <= k
<1> DEFINE D == { n - k : k \in T }
<1>0. \A k \in T : k \in Nat /\ k <= n /\ n - k \in Nat
  OBVIOUS
<1>1. D \subseteq Nat /\ D # {}
  BY <1>0
<1>2. PICK d \in D : \A c \in D : << c, d >> \notin OpToRel(<, Nat)
  BY <1>1, NatLessThanWellFounded, WFMin, Zenon
<1>3. \A c \in D : ~(c < d)
  BY <1>1, <1>2 DEF OpToRel
<1>4. PICK k \in T : d = n - k
  OBVIOUS
<1>5. ASSUME NEW j \in T PROVE j <= k
  <2>1. ~(n - j < n - k)
    BY <1>3, <1>4
  <2> QED BY <1>0, <2>1
<1> QED BY <1>5

LEMMA LatestIs ==
  ASSUME NEW n \in Nat, NEW T \in SUBSET (1..n)
  PROVE  /\ Latest(T) \in 0..n
         /\ T = {} => Latest(T) = 0
         /\ T # {} => Latest(T) \in T /\ \A j \in T : j <= Latest(T)
<1>1. CASE T = {}
  BY <1>1 DEF Latest
<1>2. CASE T # {}
  <2>1. \E k \in T : \A j \in T : j <= k
    BY <1>2, LastPosition
  <2>2. Latest(T) = CHOOSE i \in T : \A j \in T : j <= i
    BY <1>2 DEF Latest
  <2>3. Latest(T) \in T /\ \A j \in T : j <= Latest(T)
    BY <2>1, <2>2
  <2>4. Latest(T) \in 0..n
    <3>1. \A k \in T : k \in 0..n
      OBVIOUS
    <3> QED BY <2>3, <3>1
  <2> QED BY <1>2, <2>3, <2>4
<1> QED BY <1>1, <1>2

LEMMA LatestGrows ==
  ASSUME NEW n \in Nat, NEW T \in SUBSET (1..n)
  PROVE  Latest(T \cup { n + 1 }) = n + 1
<1>1. T \cup { n + 1 } \in SUBSET (1..(n + 1)) /\ n + 1 \in Nat
  OBVIOUS
<1>2. /\ Latest(T \cup { n + 1 }) \in T \cup { n + 1 }
      /\ n + 1 <= Latest(T \cup { n + 1 })
  <2> HIDE DEF Latest
  <2>1. T \cup { n + 1 } # {}
    OBVIOUS
  <2> QED BY <1>1, <2>1, LatestIs
<1>3. \A k \in T : k \in Nat /\ k <= n
  OBVIOUS
<1> DEFINE k == Latest(T \cup { n + 1 })
<1> HIDE DEF k
<1>4. k \notin T
  <2>1. k \in T => k \in Nat /\ k <= n
    BY <1>3
  <2>2. n + 1 <= k
    BY <1>2 DEF k
  <2> QED BY <2>1, <2>2
<1> QED BY <1>2, <1>4 DEF k
-----------------------------------------------------------------------------
(* What the events say. *)

LEMMA EventIs ==
  ASSUME NEW e \in Events
  PROVE  /\ e.ticket = Ticket
         /\ e.type = "STATE_CHANGED" => e = Change(e.arg) /\ e.arg \in TicketState
         /\ e.type = "REVIEW_DECISION" => e = Decision(e.arg) /\ e.arg \in Decisions
         /\ e.type \in DerivingTypes =>
              e.type \in { "STATE_CHANGED", "REVIEW_DECISION", "CLOSE_CONFIRMED",
                           "SUPERVISOR_CLOSED" }
<1>1. CASE e \in { Change(to) : to \in TicketState }
  BY <1>1 DEF Event, Change
<1>2. CASE e \in { Decision(d) : d \in Decisions }
  BY <1>2 DEF Event, Decision
<1>3. CASE e \in { Event(type, "") : type \in Failures \cup
          { "MANAGER_REVIEWING", "MANAGER_STALE", "CLOSE_CONFIRMED", "SUPERVISOR_CLOSED" } }
  <2>1. PICK type \in { "REVIEW_ROLE_MODELS_BLOCKED", "REVIEW_EVIDENCE_BLOCKED",
                        "REVIEW_TRANSPORT_FAILED", "MANAGER_REVIEWING", "MANAGER_STALE",
                        "CLOSE_CONFIRMED", "SUPERVISOR_CLOSED" } : e = Event(type, "")
    BY <1>3, BridgeAssumption
  <2> QED BY <2>1 DEF Event, DerivingTypes
<1> QED BY <1>1, <1>2, <1>3 DEF Events

LEMMA EventTells ==
  ASSUME NEW e \in Events
  PROVE  /\ e.type = "STATE_CHANGED" =>
              EventState(e) = e.arg /\ GuardState(e) = e.arg /\ ReentryTarget(e) = e.arg
         /\ e.type = "REVIEW_DECISION" =>
              /\ EventState(e) = ReviewOutcome[e.arg] /\ GuardState(e) = ReviewOutcome[e.arg]
              /\ ReentryTarget(e) = ReviewOutcome[e.arg]
         /\ e.type \in { "CLOSE_CONFIRMED", "SUPERVISOR_CLOSED" } =>
              EventState(e) = "COMPLETED"
<1>1. /\ e.type = "STATE_CHANGED" => e.arg \in TicketState
      /\ e.type = "REVIEW_DECISION" => e.arg \in Decisions
  BY EventIs
<1>2. Decisions \subseteq DOMAIN ReviewOutcome
  BY DEF Decisions, ReviewOutcome
<1>3. CASE e.type = "STATE_CHANGED"
  BY <1>1, <1>3 DEF EventState, GuardState, ReentryTarget, PayloadState
<1>4. CASE e.type = "REVIEW_DECISION"
  BY <1>1, <1>2, <1>4 DEF EventState, GuardState, ReentryTarget, PayloadState, Lookup
<1>5. CASE e.type \in { "CLOSE_CONFIRMED", "SUPERVISOR_CLOSED" }
  BY <1>5 DEF EventState
<1> QED BY <1>3, <1>4, <1>5

(* Only the handoff brings a ticket into review. *)
LEMMA HandoffTells ==
  ASSUME NEW e \in Events, e.type \in DerivingTypes
  PROVE  EventState(e) = "READY_FOR_REVIEW" <=> e = HandedOff
<1>1. e.type \in { "STATE_CHANGED", "REVIEW_DECISION", "CLOSE_CONFIRMED",
                   "SUPERVISOR_CLOSED" }
  BY EventIs
<1>2. CASE e.type = "STATE_CHANGED"
  BY <1>2, EventIs, EventTells DEF HandedOff, Change, Event
<1>3. CASE e.type = "REVIEW_DECISION"
  <2>1. EventState(e) \in { "IN_PROGRESS", "READY_TO_CLOSE", "HUMAN_GATE" }
    BY <1>3, EventIs, EventTells DEF Decisions, ReviewOutcome
  <2> QED BY <1>3, <2>1 DEF HandedOff, Change, Event
<1>4. CASE e.type \in { "CLOSE_CONFIRMED", "SUPERVISOR_CLOSED" }
  BY <1>4, EventTells DEF HandedOff, Change, Event
<1> QED BY <1>1, <1>2, <1>3, <1>4

LEMMA EventStateTyped ==
  ASSUME NEW e
  PROVE  EventState(e) \in TicketState
BY DEF EventState, PayloadState, Lookup, ReviewOutcome, ApprovalOutcome, TicketState

LEMMA StateTyped ==
  ASSUME NEW s
  PROVE  DerivedState(s, Ticket) \in TicketState
BY EventStateTyped DEF DerivedState, TicketState

(* The state is that of the last event that has one. *)
LEMMA StateFrom ==
  ASSUME NEW s \in Seq(Events), DerivedState(s, Ticket) # "UNKNOWN"
  PROVE  \E k \in DOMAIN s :
           /\ s[k].type \in DerivingTypes
           /\ \A j \in DOMAIN s : j > k => s[j].type \notin DerivingTypes
           /\ DerivedState(s, Ticket) = EventState(s[k])
<1> DEFINE T == { i \in DOMAIN s : s[i].ticket = Ticket /\ s[i].type \in DerivingTypes }
           c == CHOOSE i \in T : \A j \in T : j <= i
<1>1. Len(s) \in Nat /\ DOMAIN s = 1..Len(s) /\ T \in SUBSET (1..Len(s))
  OBVIOUS
<1>2. T # {} /\ DerivedState(s, Ticket) = EventState(s[c])
  BY DEF DerivedState
<1>3. \E k \in T : \A j \in T : j <= k
  <2> HIDE DEF T
  <2> QED BY <1>1, <1>2, LastPosition
<1>4. c \in T /\ \A j \in T : j <= c
  BY <1>3
<1>5. \A j \in DOMAIN s : s[j].ticket = Ticket
  BY EventIs
<1>6. \A j \in DOMAIN s : j > c => j \notin T
  <2> HIDE DEF T, c
  <2> QED BY <1>1, <1>4
<1>7. c \in DOMAIN s /\ s[c].type \in DerivingTypes
  BY <1>4
<1> HIDE DEF c
<1> QED BY <1>2, <1>5, <1>6, <1>7

LEMMA StateAt ==
  ASSUME NEW s \in Seq(Events), NEW k \in DOMAIN s, s[k].type \in DerivingTypes,
         \A j \in DOMAIN s : j > k => s[j].type \notin DerivingTypes
  PROVE  DerivedState(s, Ticket) = EventState(s[k])
<1> DEFINE T == { i \in DOMAIN s : s[i].ticket = Ticket /\ s[i].type \in DerivingTypes }
           c == CHOOSE i \in T : \A j \in T : j <= i
<1>1. DOMAIN s \subseteq Nat
  OBVIOUS
<1>2. k \in T /\ \A j \in T : j <= k
  <2>1. s[k].ticket = Ticket
    BY EventIs
  <2> QED BY <1>1, <2>1
<1>3. c \in T /\ \A j \in T : j <= c
  BY <1>2
<1>4. T \subseteq Nat
  BY <1>1
<1>5. c = k
  <2> HIDE DEF T, c
  <2>1. c \in Nat /\ k \in Nat /\ c <= k /\ k <= c
    BY <1>2, <1>3, <1>4
  <2> QED BY <2>1
<1>6. T # {}
  BY <1>2
<1> QED BY <1>5, <1>6 DEF DerivedState

LEMMA StateGrows ==
  ASSUME NEW s \in Seq(Events), NEW e \in Events
  PROVE  DerivedState(Append(s, e), Ticket) =
           IF e.type \in DerivingTypes THEN EventState(e) ELSE DerivedState(s, Ticket)
<1> DEFINE t == Append(s, e)
<1>1. /\ t \in Seq(Events) /\ Len(s) \in Nat /\ DOMAIN s = 1..Len(s)
      /\ DOMAIN t = DOMAIN s \cup { Len(s) + 1 }
      /\ t[Len(s) + 1] = e /\ \A i \in DOMAIN s : t[i] = s[i]
  BY Appended
<1> HIDE DEF t
<1>2. CASE e.type \in DerivingTypes
  <2>1. Len(s) + 1 \in DOMAIN t /\ \A j \in DOMAIN t : ~(j > Len(s) + 1)
    BY <1>1
  <2> QED BY <1>1, <1>2, <2>1, StateAt DEF t
<1>3. CASE e.type \notin DerivingTypes /\ DerivedState(s, Ticket) # "UNKNOWN"
  <2>1. PICK k \in DOMAIN s :
           /\ s[k].type \in DerivingTypes
           /\ \A j \in DOMAIN s : j > k => s[j].type \notin DerivingTypes
           /\ DerivedState(s, Ticket) = EventState(s[k])
    BY <1>3, StateFrom
  <2>2. /\ k \in DOMAIN t /\ t[k].type \in DerivingTypes /\ t[k] = s[k]
        /\ \A j \in DOMAIN t : j > k => t[j].type \notin DerivingTypes
    BY <1>1, <1>3, <2>1
  <2>3. DerivedState(t, Ticket) = EventState(t[k])
    BY <1>1, <2>2, StateAt
  <2> QED BY <1>3, <2>1, <2>2, <2>3 DEF t
<1>4. CASE e.type \notin DerivingTypes /\ DerivedState(s, Ticket) = "UNKNOWN"
  <2>1. SUFFICES ASSUME DerivedState(t, Ticket) # "UNKNOWN" PROVE FALSE
    BY <1>4 DEF t
  <2>2. PICK k \in DOMAIN t :
           /\ t[k].type \in DerivingTypes
           /\ \A j \in DOMAIN t : j > k => t[j].type \notin DerivingTypes
           /\ DerivedState(t, Ticket) = EventState(t[k])
    BY <1>1, <2>1, StateFrom
  <2>3. /\ k \in DOMAIN s /\ s[k] = t[k]
        /\ \A j \in DOMAIN s : j > k => s[j].type \notin DerivingTypes
    BY <1>1, <1>4, <2>2
  <2>4. DerivedState(s, Ticket) = EventState(s[k])
    BY <2>2, <2>3, StateAt
  <2> QED BY <1>4, <2>1, <2>2, <2>3, <2>4
<1> QED BY <1>2, <1>3, <1>4
-----------------------------------------------------------------------------
(* When the reentry guard refuses an event. *)

Guarding == { i \in DOMAIN log : log[i].type \in GuardTypes }

LEMMA GuardSees ==
  ASSUME log \in Seq(Events), NEW k \in Guarding, \A j \in Guarding : j <= k
  PROVE  \A e : Refused(e) <=> /\ ReentryTarget(e) \in WorkStates
                               /\ GuardState(log[k]) \in { "READY_TO_CLOSE", "COMPLETED" }
<1>1. Guarding \in SUBSET (1..Len(log)) /\ Len(log) \in Nat /\ Guarding # {}
  BY DEF Guarding
<1>2. Latest(Guarding) \in Guarding /\ k <= Latest(Guarding) /\ Latest(Guarding) <= k
  BY <1>1, LatestIs
<1>3. Latest(Guarding) = k
  <2>1. \A i \in Guarding : i \in Nat
    BY <1>1
  <2> QED BY <1>2, <2>1
<1> QED BY <1>1, <1>3 DEF Refused, Guarding

(* Nothing is refused while the ticket is worked on. *)
LEMMA WorkPasses ==
  ASSUME log \in Seq(Events), State \in { "IN_PROGRESS", "READY_FOR_REVIEW", "HUMAN_GATE" },
         NEW e
  PROVE  ~Refused(e)
<1>1. PICK k \in DOMAIN log :
           /\ log[k].type \in DerivingTypes
           /\ \A j \in DOMAIN log : j > k => log[j].type \notin DerivingTypes
           /\ State = EventState(log[k])
  BY StateFrom DEF State
<1>2. log[k] \in Events
  OBVIOUS
<1>3. log[k].type \in { "STATE_CHANGED", "REVIEW_DECISION" }
  BY <1>1, <1>2, EventIs, EventTells
<1>4. k \in Guarding /\ GuardState(log[k]) = State
  BY <1>1, <1>2, <1>3, EventTells DEF Guarding, GuardTypes
<1>5. \A j \in Guarding : j <= k
  <2>1. \A j \in Guarding : j \in DOMAIN log /\ ~(j > k)
    BY <1>1 DEF Guarding, GuardTypes, DerivingTypes
  <2> QED BY <2>1
<1>6. GuardState(log[k]) \notin { "READY_TO_CLOSE", "COMPLETED" }
  BY <1>4
<1> QED BY <1>4, <1>5, <1>6, GuardSees

(* Events that are not work are not refused. *)
LEMMA OthersPass ==
  ASSUME NEW e, ReentryTarget(e) \notin WorkStates
  PROVE  ~Refused(e)
BY DEF Refused

(* Something happened after every close. *)
Open(s) == \A c \in DOMAIN s : s[c].type = "SUPERVISOR_CLOSED" =>
             \E k \in DOMAIN s : c < k /\ s[k].type \in DerivingTypes

LEMMA OpenUnlessCompleted ==
  ASSUME NEW s \in Seq(Events), DerivedState(s, Ticket) # "COMPLETED"
  PROVE  Open(s)
<1> SUFFICES ASSUME NEW c \in DOMAIN s, s[c].type = "SUPERVISOR_CLOSED",
                    \A k \in DOMAIN s : c < k => s[k].type \notin DerivingTypes
             PROVE  FALSE
  BY DEF Open
<1>1. s[c] \in Events /\ s[c].type \in DerivingTypes
  BY DEF DerivingTypes
<1>2. \A k \in DOMAIN s : k > c => s[k].type \notin DerivingTypes
  OBVIOUS
<1>3. DerivedState(s, Ticket) = EventState(s[c])
  BY <1>1, <1>2, StateAt
<1> QED BY <1>1, <1>3, EventTells

(* What would put a ticket back to work is refused right after a close. *)
LEMMA WorkNeedsOpen ==
  ASSUME log \in Seq(Events), Sealed(log), NEW e,
         ReentryTarget(e) \in WorkStates, ~Refused(e)
  PROVE  Open(log)
<1> SUFFICES ASSUME NEW c \in DOMAIN log, log[c].type = "SUPERVISOR_CLOSED",
                    \A k \in DOMAIN log : c < k => log[k].type \notin DerivingTypes
             PROVE  FALSE
  BY DEF Open
<1>1. c - 1 \in DOMAIN log /\ log[c - 1] = Change("COMPLETED") /\ log[c - 1] \in Events
  <2>1. c > 1 /\ log[c - 1] = Change("COMPLETED")
    BY DEF Sealed
  <2>2. c - 1 \in DOMAIN log
    BY <2>1
  <2> QED BY <2>1, <2>2
<1>2. c - 1 \in Guarding /\ GuardState(log[c - 1]) = "COMPLETED"
  <2>1. log[c - 1].type = "STATE_CHANGED" /\ log[c - 1].arg = "COMPLETED"
    BY <1>1 DEF Change, Event
  <2> QED BY <1>1, <2>1, EventTells DEF Guarding, GuardTypes
<1>3. \A j \in Guarding : j <= c - 1
  <2>1. \A j \in Guarding : j \in DOMAIN log /\ ~(c < j) /\ j # c
    BY DEF Guarding, GuardTypes, DerivingTypes
  <2>2. \A j \in Guarding : j \in Nat /\ c \in Nat
    BY <2>1
  <2> QED BY <2>1, <2>2
<1> QED BY <1>2, <1>3, GuardSees
-----------------------------------------------------------------------------
(* What one more event does to the orders. *)

LEMMA StaysClosedGrows ==
  ASSUME NEW s \in Seq(Events), NEW e \in Events, StaysClosed(s), Sealed(s),
         e.type = "SUPERVISOR_CLOSED" => Len(s) > 0 /\ s[Len(s)] = Change("COMPLETED"),
         e \in AfterClose \/ e.type \notin DerivingTypes \/ Open(s)
  PROVE  StaysClosed(Append(s, e)) /\ Sealed(Append(s, e))
<1> DEFINE t == Append(s, e)
<1>1. /\ Len(s) \in Nat /\ DOMAIN s = 1..Len(s)
      /\ DOMAIN t = DOMAIN s \cup { Len(s) + 1 }
      /\ t[Len(s) + 1] = e /\ \A i \in DOMAIN s : t[i] = s[i]
  BY Appended
<1> HIDE DEF t
<1>2. Sealed(t)
  <2> SUFFICES ASSUME NEW c \in DOMAIN t, t[c].type = "SUPERVISOR_CLOSED"
               PROVE  c > 1 /\ t[c - 1] = Change("COMPLETED")
    BY DEF Sealed
  <2>1. CASE c \in DOMAIN s
    <3>1. c > 1 /\ s[c - 1] = Change("COMPLETED")
      BY <1>1, <2>1 DEF Sealed
    <3>2. c - 1 \in DOMAIN s
      BY <1>1, <2>1, <3>1
    <3> QED BY <1>1, <3>1, <3>2
  <2>2. CASE c = Len(s) + 1
    <3>1. Len(s) > 0 /\ s[Len(s)] = Change("COMPLETED") /\ Len(s) \in DOMAIN s
      BY <1>1, <2>2
    <3>2. c - 1 = Len(s) /\ c > 1
      BY <1>1, <2>2, <3>1
    <3> QED BY <1>1, <3>1, <3>2
  <2> QED BY <1>1, <2>1, <2>2
<1>3. StaysClosed(t)
  <2> SUFFICES ASSUME NEW c \in DOMAIN t, NEW n \in DOMAIN t,
                      t[c].type = "SUPERVISOR_CLOSED",
                      c < n, t[n].type \in DerivingTypes,
                      \A k \in DOMAIN t : c < k /\ k < n => t[k].type \notin DerivingTypes
               PROVE  t[n] \in AfterClose
    BY DEF StaysClosed, AfterClose
  <2>1. c \in DOMAIN s /\ t[c] = s[c] /\ c \in Nat
    BY <1>1
  <2>2. CASE n \in DOMAIN s
    <3>1. \A k \in DOMAIN s : c < k /\ k < n => s[k].type \notin DerivingTypes
      BY <1>1
    <3> QED BY <1>1, <2>1, <2>2, <3>1 DEF StaysClosed, AfterClose
  <2>3. CASE n = Len(s) + 1
    <3>1. \A k \in DOMAIN s : c < k => s[k].type \notin DerivingTypes
      <4>1. \A k \in DOMAIN s : k < n
        BY <1>1, <2>3
      <4> QED BY <1>1, <4>1
    <3>2. ~Open(s)
      BY <2>1, <3>1 DEF Open
    <3> QED BY <1>1, <2>3, <3>2
  <2> QED BY <1>1, <2>2, <2>3
<1> QED BY <1>2, <1>3 DEF t

LEMMA OpenGrows ==
  ASSUME NEW s \in Seq(Events), NEW e \in Events,
         e.type \in DerivingTypes \ { "SUPERVISOR_CLOSED" }
  PROVE  Open(Append(s, e))
<1> DEFINE t == Append(s, e)
<1>1. /\ Len(s) \in Nat /\ DOMAIN s = 1..Len(s)
      /\ DOMAIN t = DOMAIN s \cup { Len(s) + 1 }
      /\ t[Len(s) + 1] = e /\ \A i \in DOMAIN s : t[i] = s[i]
  BY Appended
<1> HIDE DEF t
<1>2. \A c \in DOMAIN s : c < Len(s) + 1
  BY <1>1
<1> QED BY <1>1, <1>2 DEF Open, t

(* Each decision has a handoff of its own. *)
LEMMA SeparatedGrows ==
  ASSUME NEW s \in Seq(Events), NEW e \in Events, Separated(s),
         e.type = "REVIEW_DECISION" =>
           \E h \in DOMAIN s : /\ s[h] = HandedOff
                               /\ \A d \in DOMAIN s : s[d].type = "REVIEW_DECISION" => d < h
  PROVE  Separated(Append(s, e))
<1> DEFINE t == Append(s, e)
<1>1. /\ Len(s) \in Nat /\ DOMAIN s = 1..Len(s)
      /\ DOMAIN t = DOMAIN s \cup { Len(s) + 1 }
      /\ t[Len(s) + 1] = e /\ \A i \in DOMAIN s : t[i] = s[i]
  BY Appended
<1> HIDE DEF t
<1> SUFFICES ASSUME NEW i \in DOMAIN t, NEW j \in DOMAIN t, i < j,
                    t[i].type = "REVIEW_DECISION", t[j].type = "REVIEW_DECISION"
             PROVE  \E h \in DOMAIN t : i < h /\ h < j /\ t[h] = HandedOff
  BY DEF Separated, HandedOff, t
<1>2. i \in DOMAIN s
  BY <1>1
<1>3. CASE j \in DOMAIN s
  <2>1. \E h \in DOMAIN s : i < h /\ h < j /\ s[h] = HandedOff
    BY <1>1, <1>2, <1>3 DEF Separated, HandedOff
  <2> QED BY <1>1, <2>1
<1>4. CASE j = Len(s) + 1
  <2>1. PICK h \in DOMAIN s : /\ s[h] = HandedOff
                              /\ \A d \in DOMAIN s : s[d].type = "REVIEW_DECISION" => d < h
    BY <1>1, <1>4
  <2>2. i < h /\ h < j /\ t[h] = HandedOff
    BY <1>1, <1>2, <1>4, <2>1
  <2> QED BY <1>1, <2>2
<1> QED BY <1>1, <1>3, <1>4
-----------------------------------------------------------------------------
(* What a step appends. *)

ClosesLog ==
  /\ State = "READY_TO_CLOSE"
  /\ log' = Append(Append(Append(log, Event("CLOSE_CONFIRMED", "")), Change("COMPLETED")),
                   Event("SUPERVISOR_CLOSED", ""))

RejectsLog ==
  /\ State = "READY_FOR_REVIEW"
  /\ \E c \in Rework : log' = Append(Append(log, Rejected), c)

Appends(e) ==
  /\ log' = Append(log, e)
  /\ ~Refused(e) \/ (State = "COMPLETED" /\ e = Change("IN_PROGRESS"))
  /\ e = HandedOff => MarkReady \/ Resume

LEMMA EmissionsAreEvents ==
  /\ Emissions \subseteq Events /\ Rejected \in Events /\ Rework \subseteq Emissions
  /\ HandedOff \in Emissions /\ HandedOff \notin Rework
  /\ { Event("CLOSE_CONFIRMED", ""), Change("COMPLETED"),
       Event("SUPERVISOR_CLOSED", "") } \subseteq Events
<1>1. { Change(to) : to \in { "IN_PROGRESS", "READY_FOR_REVIEW", "HUMAN_GATE",
                              "READY_TO_CLOSE", "COMPLETED" } } \subseteq Events
  BY DEF Events, TicketState
<1>2. { Decision(d) : d \in Decisions } \subseteq Events
  BY DEF Events
<1>3. { Event(type, "") : type \in Failures \cup
          { "MANAGER_REVIEWING", "MANAGER_STALE", "CLOSE_CONFIRMED", "SUPERVISOR_CLOSED" } }
        \subseteq Events
  BY DEF Events
<1>4. { Event(type, "") : type \in Failures \cup { "MANAGER_REVIEWING", "MANAGER_STALE" } }
        \subseteq Events
  BY DEF Events
<1>5. Emissions \subseteq Events
  BY <1>1, <1>2, <1>4 DEF Emissions
<1>6. Rejected \in Events
  BY <1>2 DEF Rejected, Decisions
<1>7. Rework \subseteq Emissions /\ HandedOff \in Emissions
  BY DEF Rework, Emissions, HandedOff
<1>8. HandedOff \notin Rework
  BY DEF HandedOff, Rework, Change, Event
<1>9. { Event("CLOSE_CONFIRMED", ""), Change("COMPLETED"),
        Event("SUPERVISOR_CLOSED", "") } \subseteq Events
  BY <1>1, <1>3
<1> QED BY <1>5, <1>6, <1>7, <1>8, <1>9

LEMMA EmitAppends ==
  ASSUME NEW e \in Emissions, Emit(e), e # HandedOff
  PROVE  log' = log \/ \E c \in Emissions : Appends(c)
BY DEF Emit, Appends

(* Events that are not the handoff. *)
LEMMA OtherEmissions ==
  /\ \A d \in Decisions : Decision(d) \in Emissions \ { HandedOff }
  /\ \A to \in { "IN_PROGRESS", "HUMAN_GATE", "READY_TO_CLOSE", "COMPLETED" } :
        Change(to) \in Emissions \ { HandedOff }
  /\ \A type \in Failures \cup { "MANAGER_REVIEWING", "MANAGER_STALE" } :
        Event(type, "") \in Emissions \ { HandedOff }
<1>1. \A d \in Decisions : Decision(d) \in Emissions /\ Decision(d) # HandedOff
  BY DEF Emissions, HandedOff, Decision, Change, Event
<1>2. \A to \in { "IN_PROGRESS", "HUMAN_GATE", "READY_TO_CLOSE", "COMPLETED" } :
        Change(to) \in Emissions /\ Change(to) # HandedOff
  BY DEF Emissions, HandedOff, Change, Event
<1>3. \A type \in Failures \cup { "MANAGER_REVIEWING", "MANAGER_STALE" } :
        Event(type, "") \in Emissions /\ Event(type, "") # HandedOff
  <2>1. \A type \in Failures \cup { "MANAGER_REVIEWING", "MANAGER_STALE" } :
          Event(type, "") \in Emissions
    BY DEF Emissions
  <2>2. "STATE_CHANGED" \notin Failures \cup { "MANAGER_REVIEWING", "MANAGER_STALE" }
    BY BridgeAssumption
  <2> QED BY <2>1, <2>2 DEF HandedOff, Change, Event
<1> QED BY <1>1, <1>2, <1>3

LEMMA ConsequenceIs ==
  ASSUME NEW n
  PROVE  Consequence(n) \in Rework
BY DEF Consequence, Rework

LEMMA LogSteps ==
  ASSUME Typed, [Next]_vars
  PROVE  \/ log' = log
         \/ \E e \in Emissions : Appends(e)
         \/ ClosesLog
         \/ RejectsLog
<1>1. CASE UNCHANGED vars
  BY <1>1 DEF vars
<1>2. ASSUME NEW b \in Bridges, Bridge(b) \/ CommandTimesOut(b) \/ Die(b) \/ Watchdog(b)
      PROVE  \/ log' = log \/ (\E e \in Emissions : Appends(e)) \/ RejectsLog
  <2>1. CASE Tick(b) \/ GuardLeft(b) \/ Save(b) \/ CommandTimesOut(b) \/ Die(b)
    BY <2>1 DEF Tick, GuardLeft, Save, CommandTimesOut, Die
  <2>2. CASE RejectEmpty(b) \/ Decide(b)
    <3>1. \E d \in Decisions : Emit(Decision(d))
      BY <2>2 DEF RejectEmpty, Decide, Decisions
    <3> QED BY <3>1, EmitAppends, OtherEmissions
  <2>3. CASE GuardClosed(b) \/ Approve(b) \/ Escalate(b)
    <3>1. log' = log \/ \E to \in { "COMPLETED", "READY_TO_CLOSE", "HUMAN_GATE" } :
             Emit(Change(to))
      BY <2>3 DEF GuardClosed, Approve, Escalate
    <3> QED BY <3>1, EmitAppends, OtherEmissions
  <2>4. CASE Guard(b) \/ NotReviewed(b) \/ Watchdog(b)
    <3>1. \E type \in Failures \cup { "MANAGER_REVIEWING", "MANAGER_STALE" } :
             Emit(Event(type, ""))
      BY <2>4 DEF Guard, NotReviewed, Fail, Watchdog
    <3> QED BY <3>1, EmitAppends, OtherEmissions
  <2>5. CASE RequestChanges(b)
    <3>1. CASE Emit(Consequence(Rejections))
      <4>1. Consequence(Rejections) \in Emissions \ { HandedOff }
        BY ConsequenceIs, EmissionsAreEvents
      <4> HIDE DEF Consequence, Rejections
      <4> QED BY <3>1, <4>1, EmitAppends
    <3>2. CASE State = "READY_FOR_REVIEW" /\
               log' = log \o << Decision("changes"), Consequence(Rejections + 1) >>
      <4> DEFINE c == Consequence(Rejections + 1)
      <4>1. c \in Rework
        BY ConsequenceIs
      <4>2. log \in Seq(Events) /\ Rejected \in Events /\ c \in Events
        BY <4>1, EmissionsAreEvents DEF Typed
      <4> HIDE DEF c
      <4>3. log \o << Rejected, c >> = Append(Append(log, Rejected), c)
        <5> HIDE DEF Rejected
        <5> QED BY <4>2
      <4> QED BY <3>2, <4>1, <4>3 DEF RejectsLog, c, Rejected
    <3>3. CASE UNCHANGED log
      BY <3>3
    <3> QED BY <2>5, <3>1, <3>2, <3>3 DEF RequestChanges
  <2> QED BY <1>2, <2>1, <2>2, <2>3, <2>4, <2>5 DEF Bridge
<1>3. CASE MarkReady \/ Resume
  <2>1. Emit(HandedOff)
    BY <1>3 DEF MarkReady, Resume, HandOff, HandedOff
  <2>2. HandedOff \in Emissions
    BY EmissionsAreEvents
  <2> QED BY <1>3, <2>1, <2>2 DEF Emit, Appends
<1>4. CASE Reopen
  <2>1. State = "COMPLETED" /\ log' = Append(log, Change("IN_PROGRESS"))
    BY <1>4 DEF Reopen
  <2> QED BY <2>1, OtherEmissions DEF Appends
<1>5. CASE Close
  <2> DEFINE x == Event("CLOSE_CONFIRMED", "")
             y == Change("COMPLETED")
             z == Event("SUPERVISOR_CLOSED", "")
  <2>1. log \in Seq(Events) /\ x \in Events /\ y \in Events /\ z \in Events
    BY EmissionsAreEvents DEF Typed
  <2>2. State = "READY_TO_CLOSE" /\ log' = log \o << x, y, z >>
    BY <1>5 DEF Close, Closing
  <2> HIDE DEF x, y, z
  <2>3. log \o << x, y, z >> = Append(Append(Append(log, x), y), z)
    BY <2>1
  <2> QED BY <2>2, <2>3 DEF ClosesLog, x, y, z
<1>6. CASE Refresh
  BY <1>6 DEF Refresh
<1> QED BY <1>1, <1>2, <1>3, <1>4, <1>5, <1>6 DEF Next
-----------------------------------------------------------------------------
(* The order of closes. *)
LEMMA ClosedStep ==
  ASSUME Typed, ClosedInv, [Next]_vars
  PROVE  log' \in Seq(Events) /\ Len(log) <= Len(log') /\ ClosedInv'
<1>1. log \in Seq(Events) /\ StaysClosed(log) /\ Sealed(log) /\ Len(log) \in Nat
  BY DEF Typed, ClosedInv
<1>2. CASE log' = log
  BY <1>1, <1>2 DEF ClosedInv, StaysClosed, Sealed
<1>3. ASSUME NEW e \in Emissions, Appends(e)
      PROVE  log' \in Seq(Events) /\ Len(log) <= Len(log') /\ ClosedInv'
  <2>1. e \in Events /\ log' = Append(log, e)
    BY <1>3, EmissionsAreEvents DEF Appends
  <2>2. e.type # "SUPERVISOR_CLOSED"
    <3>1. CASE e \in { Event(type, "") : type \in Failures \cup
                         { "MANAGER_REVIEWING", "MANAGER_STALE" } }
      <4>1. PICK type \in Failures \cup { "MANAGER_REVIEWING", "MANAGER_STALE" } :
              e = Event(type, "")
        BY <3>1
      <4>2. type # "SUPERVISOR_CLOSED"
        BY BridgeAssumption
      <4> QED BY <4>1, <4>2 DEF Event
    <3>2. CASE e \in { Decision(d) : d \in Decisions }
      BY <3>2 DEF Decision, Event
    <3>3. CASE e \in { Change(to) : to \in { "IN_PROGRESS", "READY_FOR_REVIEW",
                         "HUMAN_GATE", "READY_TO_CLOSE", "COMPLETED" } }
      BY <3>3 DEF Change, Event
    <3> QED BY <3>1, <3>2, <3>3 DEF Emissions
  <2>3. e \in AfterClose \/ e.type \notin DerivingTypes \/ Open(log)
    <3> SUFFICES ASSUME e \notin AfterClose, e.type \in DerivingTypes
                 PROVE  Open(log)
      OBVIOUS
    <3>1. ~Refused(e)
      BY <1>3 DEF Appends, AfterClose
    <3>2. e \in { Change("READY_FOR_REVIEW"), Change("HUMAN_GATE"), Decision("changes"),
                  Decision("inspect") }
      <4>1. CASE e \in { Event(type, "") : type \in Failures \cup
                           { "MANAGER_REVIEWING", "MANAGER_STALE" } }
        <5>1. PICK type \in Failures \cup { "MANAGER_REVIEWING", "MANAGER_STALE" } :
                e = Event(type, "")
          BY <4>1
        <5>2. type \in { "REVIEW_ROLE_MODELS_BLOCKED", "REVIEW_EVIDENCE_BLOCKED",
                         "REVIEW_TRANSPORT_FAILED", "MANAGER_REVIEWING", "MANAGER_STALE" }
          BY BridgeAssumption
        <5>3. type \notin DerivingTypes
          BY <5>2 DEF DerivingTypes
        <5> QED BY <5>1, <5>3 DEF Event
      <4>2. CASE e \in { Decision(d) : d \in Decisions }
        BY <4>2 DEF Decisions, AfterClose
      <4>3. CASE e \in { Change(to) : to \in { "IN_PROGRESS", "READY_FOR_REVIEW",
                           "HUMAN_GATE", "READY_TO_CLOSE", "COMPLETED" } }
        BY <4>3 DEF AfterClose
      <4> QED BY <4>1, <4>2, <4>3 DEF Emissions
    <3>3. ReentryTarget(e) \in WorkStates
      BY <3>2 DEF ReentryTarget, PayloadState, Lookup, ReviewOutcome, Change, Decision,
                  Event, WorkStates, TicketState
    <3> QED BY <1>1, <3>1, <3>3, WorkNeedsOpen
  <2>4. StaysClosed(Append(log, e)) /\ Sealed(Append(log, e))
    BY <1>1, <2>1, <2>2, <2>3, StaysClosedGrows
  <2>5. log' \in Seq(Events) /\ Len(log') = Len(log) + 1
    BY <1>1, <2>1
  <2> QED BY <1>1, <2>1, <2>4, <2>5 DEF ClosedInv, StaysClosed, Sealed
<1>4. CASE ClosesLog
  <2> DEFINE x == Event("CLOSE_CONFIRMED", "")
             y == Change("COMPLETED")
             z == Event("SUPERVISOR_CLOSED", "")
             s == Append(log, x)
             t == Append(s, y)
             u == Append(t, z)
  <2>1. x \in Events /\ y \in Events /\ z \in Events
    BY EmissionsAreEvents
  <2>2. /\ x.type = "CLOSE_CONFIRMED" /\ y.type = "STATE_CHANGED"
        /\ z.type = "SUPERVISOR_CLOSED" /\ y \in AfterClose
    BY DEF Event, Change, AfterClose
  <2>3. Open(log)
    BY <1>1, <1>4, OpenUnlessCompleted DEF ClosesLog, State
  <2>4. log' = u
    BY <1>4 DEF ClosesLog
  <2> HIDE DEF x, y, z
  <2>5. s \in Seq(Events) /\ StaysClosed(s) /\ Sealed(s)
    BY <1>1, <2>1, <2>2, <2>3, StaysClosedGrows
  <2> HIDE DEF s
  <2>6. /\ t \in Seq(Events) /\ StaysClosed(t) /\ Sealed(t)
        /\ Len(t) > 0 /\ t[Len(t)] = y
    BY <2>1, <2>2, <2>5, StaysClosedGrows, Appended
  <2>7. Open(t)
    BY <2>1, <2>2, <2>5, OpenGrows DEF DerivingTypes
  <2> HIDE DEF t
  <2>8. u \in Seq(Events) /\ StaysClosed(u) /\ Sealed(u)
    BY <2>1, <2>2, <2>6, <2>7, StaysClosedGrows DEF y
  <2>9. Len(u) = Len(log) + 3
    BY <1>1, <2>1, <2>5, <2>6 DEF s, t
  <2> HIDE DEF u
  <2> QED BY <1>1, <2>4, <2>8, <2>9 DEF ClosedInv, StaysClosed, Sealed
<1>5. CASE RejectsLog
  <2>1. PICK c \in Rework : log' = Append(Append(log, Rejected), c)
    BY <1>5 DEF RejectsLog
  <2> DEFINE s == Append(log, Rejected)
             t == Append(s, c)
  <2>2. Rejected \in Events /\ c \in Events
    BY EmissionsAreEvents
  <2>3. Rejected.type = "REVIEW_DECISION" /\ c.type = "STATE_CHANGED"
    BY DEF Rejected, Rework, Decision, Change, Event
  <2>4. Open(log)
    BY <1>1, <1>5, OpenUnlessCompleted DEF RejectsLog, State
  <2>5. s \in Seq(Events) /\ StaysClosed(s) /\ Sealed(s)
    BY <1>1, <2>2, <2>3, <2>4, StaysClosedGrows
  <2>6. Open(s)
    BY <1>1, <2>2, <2>3, OpenGrows DEF DerivingTypes
  <2> HIDE DEF s
  <2>7. t \in Seq(Events) /\ StaysClosed(t) /\ Sealed(t)
    BY <2>2, <2>3, <2>5, <2>6, StaysClosedGrows
  <2>8. Len(t) = Len(log) + 2 /\ log' = t
    BY <1>1, <2>1, <2>2, <2>5 DEF s
  <2> HIDE DEF t
  <2> QED BY <1>1, <2>7, <2>8 DEF ClosedInv, StaysClosed, Sealed
<1> QED BY <1>2, <1>3, <1>4, <1>5, LogSteps
-----------------------------------------------------------------------------
(* Positions of events of a set. *)
At(s, E) == { i \in DOMAIN s : s[i] \in E }

LEMMA AtGrows ==
  ASSUME NEW s \in Seq(Events), NEW e \in Events, NEW E
  PROVE  At(Append(s, e), E) = At(s, E) \cup (IF e \in E THEN { Len(s) + 1 } ELSE {})
<1> DEFINE t == Append(s, e)
<1>1. /\ Len(s) \in Nat /\ DOMAIN s = 1..Len(s)
      /\ DOMAIN t = DOMAIN s \cup { Len(s) + 1 }
      /\ t[Len(s) + 1] = e /\ \A i \in DOMAIN s : t[i] = s[i]
  BY Appended
<1> HIDE DEF t
<1>2. At(t, E) = At(s, E) \cup (IF e \in E THEN { Len(s) + 1 } ELSE {})
  BY <1>1 DEF At
<1> QED BY <1>2 DEF t

LEMMA AtStays ==
  ASSUME NEW s \in Seq(Events), NEW e \in Events, NEW E, e \notin E
  PROVE  At(Append(s, e), E) = At(s, E)
<1>1. At(Append(s, e), E) = At(s, E) \cup {}
  BY AtGrows
<1>2. \A T : T \cup {} = T
  OBVIOUS
<1> QED BY <1>1, <1>2

Typeds(type) == { e \in Events : e.type = type }

LEMMA PositionsAre ==
  ASSUME NEW s \in Seq(Events)
  PROVE  /\ { i \in DOMAIN s : s[i] = Change("READY_FOR_REVIEW") } = At(s, { HandedOff })
         /\ \A type : { i \in DOMAIN s : s[i].type = type } = At(s, Typeds(type))
<1>1. \A i \in DOMAIN s : s[i] \in Events
  OBVIOUS
<1> QED BY <1>1 DEF At, Typeds, HandedOff

LEMMA Positions ==
  ASSUME log \in Seq(Events), log' \in Seq(Events)
  PROVE  /\ Handoffs = At(log, { HandedOff }) /\ Handoffs' = At(log', { HandedOff })
         /\ \A type : /\ Of(type) = At(log, Typeds(type))
                      /\ Of(type)' = At(log', Typeds(type))
BY PositionsAre DEF Handoffs, Of

(* What is written stays written. *)
LEMMA Grown ==
  ASSUME Typed, ClosedInv, [Next]_vars
  PROVE  /\ \A i \in DOMAIN log : i \in DOMAIN log' /\ log'[i] = log[i]
         /\ Len(log) \in Nat /\ Len(log') \in Nat /\ Len(log) <= Len(log')
         /\ log \in Seq(Events) /\ log' \in Seq(Events)
         /\ DOMAIN log = 1..Len(log) /\ DOMAIN log' = 1..Len(log')
<1>1. log \in Seq(Events) /\ log' \in Seq(Events) /\ Len(log) <= Len(log')
  BY ClosedStep DEF Typed
<1>2. \A i \in DOMAIN log : i \in DOMAIN log' /\ log'[i] = log[i]
  <2>1. CASE log' = log
    BY <2>1
  <2>2. ASSUME NEW e \in Emissions, Appends(e)
        PROVE  \A i \in DOMAIN log : i \in DOMAIN log' /\ log'[i] = log[i]
    <3>1. e \in Events /\ log' = Append(log, e)
      BY <2>2, EmissionsAreEvents DEF Appends
    <3> QED BY <1>1, <3>1, Appended
  <2>3. CASE RejectsLog
    <3>1. PICK c \in Rework : log' = Append(Append(log, Rejected), c)
      BY <2>3 DEF RejectsLog
    <3>2. Rejected \in Events /\ c \in Events
      BY EmissionsAreEvents
    <3> DEFINE s == Append(log, Rejected)
    <3>3. s \in Seq(Events) /\ \A i \in DOMAIN log : i \in DOMAIN s /\ s[i] = log[i]
      BY <1>1, <3>2, Appended
    <3> HIDE DEF s
    <3>4. \A i \in DOMAIN s : i \in DOMAIN Append(s, c) /\ Append(s, c)[i] = s[i]
      BY <3>2, <3>3, Appended
    <3> QED BY <3>1, <3>3, <3>4 DEF s
  <2>4. CASE ClosesLog
    <3> DEFINE x == Event("CLOSE_CONFIRMED", "")
               y == Change("COMPLETED")
               z == Event("SUPERVISOR_CLOSED", "")
               s == Append(log, x)
               t == Append(s, y)
    <3>1. x \in Events /\ y \in Events /\ z \in Events
      BY EmissionsAreEvents
    <3>2. log' = Append(t, z)
      BY <2>4 DEF ClosesLog
    <3> HIDE DEF x, y, z
    <3>3. s \in Seq(Events) /\ \A i \in DOMAIN log : i \in DOMAIN s /\ s[i] = log[i]
      BY <1>1, <3>1, Appended
    <3> HIDE DEF s
    <3>4. t \in Seq(Events) /\ \A i \in DOMAIN s : i \in DOMAIN t /\ t[i] = s[i]
      BY <3>1, <3>3, Appended
    <3> HIDE DEF t
    <3>5. \A i \in DOMAIN t : i \in DOMAIN Append(t, z) /\ Append(t, z)[i] = t[i]
      BY <3>1, <3>4, Appended
    <3> QED BY <3>2, <3>3, <3>4, <3>5
  <2> QED BY <2>1, <2>2, <2>3, <2>4, LogSteps
<1> QED BY <1>1, <1>2

(* Only a command brings a ticket into review. *)
LEMMA Quiet ==
  ASSUME Typed, ClosedInv, [Next]_vars, ~(MarkReady \/ Resume)
  PROVE  /\ Handoffs' = Handoffs
         /\ State' = "READY_FOR_REVIEW" => State = "READY_FOR_REVIEW"
<1>1. log \in Seq(Events) /\ log' \in Seq(Events)
  BY Grown
<1>2. Handoffs = At(log, { HandedOff }) /\ Handoffs' = At(log', { HandedOff })
  BY <1>1, Positions
<1>3. State = DerivedState(log, Ticket) /\ State' = DerivedState(log', Ticket)
  BY DEF State
<1>4. CASE log' = log
  BY <1>2, <1>3, <1>4
<1>5. ASSUME NEW e \in Emissions, Appends(e)
      PROVE  /\ Handoffs' = Handoffs
             /\ State' = "READY_FOR_REVIEW" => State = "READY_FOR_REVIEW"
  <2>1. e \in Events /\ e # HandedOff /\ log' = Append(log, e)
    BY <1>5, EmissionsAreEvents DEF Appends
  <2>2. At(log', { HandedOff }) = At(log, { HandedOff })
    BY <1>1, <2>1, AtStays
  <2>3. e.type \in DerivingTypes => EventState(e) # "READY_FOR_REVIEW"
    BY <2>1, HandoffTells
  <2> QED BY <1>1, <1>2, <1>3, <2>1, <2>2, <2>3, StateGrows
<1>6. CASE RejectsLog
  <2>1. PICK c \in Rework : log' = Append(Append(log, Rejected), c)
    BY <1>6 DEF RejectsLog
  <2> DEFINE s == Append(log, Rejected)
  <2>2. Rejected \in Events /\ c \in Events
    BY EmissionsAreEvents
  <2>3. s \in Seq(Events) /\ log' = Append(s, c)
    BY <1>1, <2>1, <2>2
  <2>4. Rejected # HandedOff /\ c # HandedOff
    BY DEF Rejected, HandedOff, Rework, Decision, Change, Event
  <2>5. At(s, { HandedOff }) = At(log, { HandedOff })
    BY <1>1, <2>2, <2>4, AtStays
  <2> HIDE DEF s
  <2>6. At(log', { HandedOff }) = At(s, { HandedOff })
    BY <2>2, <2>3, <2>4, AtStays
  <2>7. State = "READY_FOR_REVIEW"
    BY <1>6 DEF RejectsLog
  <2> QED BY <1>2, <2>5, <2>6, <2>7
<1>7. CASE ClosesLog
  <2> DEFINE x == Event("CLOSE_CONFIRMED", "")
             y == Change("COMPLETED")
             z == Event("SUPERVISOR_CLOSED", "")
             s == Append(log, x)
             t == Append(s, y)
  <2>1. x \in Events /\ y \in Events /\ z \in Events
    BY EmissionsAreEvents
  <2>2. log' = Append(t, z)
    BY <1>7 DEF ClosesLog
  <2>3. x # HandedOff /\ y # HandedOff /\ z # HandedOff /\ z.type = "SUPERVISOR_CLOSED"
    BY DEF HandedOff, Change, Event
  <2> HIDE DEF x, y, z
  <2>4. s \in Seq(Events) /\ At(s, { HandedOff }) = At(log, { HandedOff })
    BY <1>1, <2>1, <2>3, AtStays
  <2> HIDE DEF s
  <2>5. t \in Seq(Events) /\ At(t, { HandedOff }) = At(s, { HandedOff })
    BY <2>1, <2>3, <2>4, AtStays
  <2> HIDE DEF t
  <2>6. At(log', { HandedOff }) = At(t, { HandedOff })
    BY <2>1, <2>2, <2>3, <2>5, AtStays
  <2>7. State' = EventState(z)
    BY <1>3, <2>1, <2>2, <2>3, <2>5, StateGrows DEF DerivingTypes
  <2>8. EventState(z) = "COMPLETED"
    BY <2>3 DEF EventState
  <2> QED BY <1>2, <2>4, <2>5, <2>6, <2>7, <2>8
<1> QED BY <1>4, <1>5, <1>6, <1>7, LogSteps

(* A handoff that is emitted is not refused. *)
LEMMA Handed ==
  ASSUME Typed, MarkReady \/ Resume
  PROVE  /\ log' = Append(log, HandedOff) /\ State' = "READY_FOR_REVIEW"
         /\ Handoffs' = Handoffs \cup { Len(log) + 1 }
         /\ Latest(Handoffs') = Len(log) + 1
         /\ \A type : type # "STATE_CHANGED" => Of(type)' = Of(type)
<1>0. HandedOff \in Events
  BY EmissionsAreEvents
<1>1. log \in Seq(Events) /\ HandedOff \in Events /\ Len(log) \in Nat
  BY <1>0 DEF Typed
<1>2. State \in { "IN_PROGRESS", "HUMAN_GATE" } /\ Emit(HandedOff)
  BY DEF MarkReady, Resume, HandOff, HandedOff
<1>3. log' = Append(log, HandedOff)
  BY <1>1, <1>2, WorkPasses DEF Emit
<1>4. log' \in Seq(Events)
  BY <1>1, <1>3
<1>5. State' = "READY_FOR_REVIEW"
  <2>1. HandedOff.type \in DerivingTypes
    BY DEF HandedOff, Change, Event, DerivingTypes
  <2>2. State' = EventState(HandedOff)
    BY <1>1, <1>3, <2>1, StateGrows DEF State
  <2> QED BY <1>1, <2>1, <2>2, HandoffTells
<1>6. Handoffs' = Handoffs \cup { Len(log) + 1 }
  BY <1>1, <1>3, <1>4, Positions, AtGrows
<1>7. \A type : type # "STATE_CHANGED" => Of(type)' = Of(type)
  <2> SUFFICES ASSUME NEW type, type # "STATE_CHANGED"
               PROVE  Of(type)' = Of(type)
    OBVIOUS
  <2>1. HandedOff \notin Typeds(type)
    BY DEF HandedOff, Change, Event, Typeds
  <2>2. At(log', Typeds(type)) = At(log, Typeds(type))
    BY <1>1, <1>3, <2>1, AtStays
  <2> QED BY <1>1, <1>4, <2>2, Positions
<1>8. Handoffs \in SUBSET (1..Len(log))
  BY <1>1 DEF Handoffs
<1> QED BY <1>1, <1>3, <1>5, <1>6, <1>7, <1>8, LatestGrows
-----------------------------------------------------------------------------
LEMMA TypedStep ==
  ASSUME Typed, ClosedInv, [Next]_vars
  PROVE  Typed'
<1>1. /\ log' \in Seq(Events) /\ Len(log) \in Nat /\ Len(log') \in Nat
      /\ Len(log) <= Len(log')
  BY Grown
<1>2. \A n \in 0..Len(log) : n \in 0..Len(log')
  BY <1>1
<1>3. late \subseteq 1..Len(log')
  BY <1>1 DEF Typed
<1>4. State \in TicketState /\ Latest(Handoffs) \in 0..Len(log)
  <2>1. Handoffs \in SUBSET (1..Len(log))
    BY DEF Handoffs, Typed
  <2> QED BY <1>1, <2>1, LatestIs, StateTyped DEF State
<1>5. Cursor = checkpoint /\ checkpoint \in Nat
  BY <1>1 DEF Cursor, Typed
<1>6. { "READY_FOR_REVIEW", "IN_PROGRESS", "COMPLETED" } \subseteq TicketState
  BY DEF TicketState
<1>7. shown' \in TicketState
  BY <1>4, <1>6 DEF Typed, Next, vars, Bridge, MarkReady, Resume, Reopen, Close, Refresh,
     Tick, RejectEmpty, GuardClosed, GuardLeft, Guard, NotReviewed, Decide, Approve,
     RequestChanges, Escalate, Save, CommandTimesOut, Die, Watchdog, world
<1>8. at' \in [Bridges -> Places]
  <2>1. at' = at \/ \E b \in Bridges, w \in Places : GoTo(b, w)
    BY DEF Next, vars, Bridge, MarkReady, Resume, Reopen, Close, Refresh,
     Tick, RejectEmpty, GuardClosed, GuardLeft, Guard, NotReviewed, Fail, Decide,
     Decisions, Approve, RequestChanges, Escalate, Learn, Save, CommandTimesOut, Die,
     Watchdog, Places
  <2> QED BY <2>1 DEF GoTo, Typed
<1>9. /\ file' \in [ seq : Nat, adaptive : BOOLEAN ] /\ file'.seq = checkpoint'
      /\ checkpoint' \in 0..Len(log')
  <2>1. \/ UNCHANGED << file, checkpoint >>
        \/ file' = Beaten /\ checkpoint' = checkpoint
        \/ file' = [file EXCEPT !.adaptive = TRUE] /\ checkpoint' = checkpoint
        \/ /\ file' = [ seq |-> Len(log), adaptive |-> FALSE ]
           /\ checkpoint' = Len(log)
    BY DEF Next, vars, Bridge, MarkReady, Resume, Reopen, Close, Refresh,
     Tick, RejectEmpty, GuardClosed, GuardLeft, Guard, NotReviewed, Decide,
     Approve, RequestChanges, Escalate, Learn, Save, Processed, CommandTimesOut, Die,
     Watchdog, files
  <2>2. checkpoint \in 0..Len(log') /\ Len(log) \in 0..Len(log')
    <3>1. checkpoint \in 0..Len(log) /\ Len(log) \in 0..Len(log)
      BY <1>1 DEF Typed
    <3> QED BY <1>2, <3>1
  <2>3. file \in [ seq : Nat, adaptive : BOOLEAN ] /\ file.seq = checkpoint
    BY DEF Typed
  <2>4. CASE UNCHANGED << file, checkpoint >>
    BY <2>2, <2>3, <2>4
  <2>5. CASE file' = Beaten /\ checkpoint' = checkpoint
    BY <1>5, <2>2, <2>5 DEF Beaten
  <2>6. CASE file' = [file EXCEPT !.adaptive = TRUE] /\ checkpoint' = checkpoint
    BY <2>2, <2>3, <2>6
  <2>7. CASE file' = [ seq |-> Len(log), adaptive |-> FALSE ] /\ checkpoint' = Len(log)
    BY <1>1, <2>2, <2>7
  <2> QED BY <2>1, <2>4, <2>5, <2>6, <2>7
<1>10. warned' \in 0..Len(log')
  <2>1. warned' = warned \/ warned' = Latest(Handoffs)
    BY DEF Next, vars, Bridge, MarkReady, Resume, Reopen, Close, Refresh,
     Tick, RejectEmpty, GuardClosed, GuardLeft, Guard, NotReviewed, Decide,
     Approve, RequestChanges, Escalate, Save, CommandTimesOut, Die,
     Watchdog, world
  <2> QED BY <1>2, <1>4, <2>1 DEF Typed
<1>11. late' \subseteq 1..Len(log')
  <2>1. CASE MarkReady \/ Resume
    <3>1. Len(log) + 1 \in 1..Len(log')
      <4>1. log' = Append(log, HandedOff)
        BY <2>1, Handed
      <4>2. HandedOff \in Events /\ log \in Seq(Events)
        BY EmissionsAreEvents DEF Typed
      <4>3. Len(log') = Len(log) + 1
        BY <4>1, <4>2, Appended
      <4> QED BY <1>1, <4>3
    <3>2. late' \subseteq late \cup { Len(log) + 1 }
      BY <2>1 DEF MarkReady, Resume, HandOff
    <3> QED BY <1>3, <3>1, <3>2
  <2>2. CASE ~(MarkReady \/ Resume)
    <3>1. late' = late
      BY <2>2 DEF Next, vars, Bridge, Reopen, Close, Refresh,
       Tick, RejectEmpty, GuardClosed, GuardLeft, Guard, NotReviewed, Decide,
       Approve, RequestChanges, Escalate, Save, CommandTimesOut, Die, Watchdog
    <3> QED BY <1>3, <3>1
  <2> QED BY <2>1, <2>2
<1> QED BY <1>1, <1>7, <1>8, <1>9, <1>10, <1>11 DEF Typed
-----------------------------------------------------------------------------
(* A reason stays one as long as there is no other handoff. *)
LEMMA ExcusedStays ==
  ASSUME Typed, ClosedInv, [Next]_vars, Handoffs' = Handoffs, late \subseteq late', Excused
  PROVE  Excused'
<1>1. \A i \in DOMAIN log : i \in DOMAIN log' /\ log'[i] = log[i]
  BY Grown
<1>2. Latest(Handoffs)' = Latest(Handoffs)
  BY DEF Latest
<1>3. CASE Latest(Handoffs) \in late
  BY <1>2, <1>3 DEF Excused
<1>4. CASE \E i \in DOMAIN log : i > Latest(Handoffs) /\ log[i].type \in Failures
  BY <1>1, <1>2, <1>4 DEF Excused
<1> QED BY <1>3, <1>4 DEF Excused

(* A bridge comes to the end of a cycle only with a ticket out of review,  *)
(* or with a failure on record.                                            *)
LEMMA EntersSave ==
  ASSUME Typed, ClosedInv, NEW b \in Bridges, Bridge(b), at[b] # "save",
         at'[b] = "save", State' = "READY_FOR_REVIEW"
  PROVE  Excused'
<1>0. [Next]_vars /\ ~(MarkReady \/ Resume)
  <2>1. at' # at
    OBVIOUS
  <2>2. Next
    BY DEF Next
  <2> QED BY <2>1, <2>2 DEF MarkReady, Resume
<1>1. State = "READY_FOR_REVIEW" /\ Handoffs' = Handoffs
  BY <1>0, Quiet
<1>2. log \in Seq(Events) /\ State' = DerivedState(log', Ticket)
  BY DEF Typed, State
<1>3. \A e : ~Refused(e)
  BY <1>1, <1>2, WorkPasses
<1>4. ASSUME NEW e \in Emissions \ { HandedOff }, e.type \in DerivingTypes, Emit(e)
      PROVE  FALSE
  <2>1. e \in Events /\ log' = Append(log, e)
    BY <1>3, <1>4, EmissionsAreEvents DEF Emit
  <2>2. State' = EventState(e)
    BY <1>2, <1>4, <2>1, StateGrows
  <2> QED BY <1>4, <2>1, <2>2, HandoffTells
<1>5. PICK k \in DOMAIN log :
           /\ log[k].type \in DerivingTypes
           /\ \A j \in DOMAIN log : j > k => log[j].type \notin DerivingTypes
           /\ State = EventState(log[k])
  BY <1>1, <1>2, StateFrom DEF State
<1>6. log[k] = HandedOff
  BY <1>1, <1>2, <1>5, HandoffTells
<1>7. LastChange = "READY_FOR_REVIEW"
  <2>1. /\ Of("STATE_CHANGED") \in SUBSET (1..Len(log)) /\ Len(log) \in Nat
        /\ k \in Of("STATE_CHANGED")
    BY <1>2, <1>6 DEF Of, HandedOff, Change, Event
  <2>2. \A j \in Of("STATE_CHANGED") : ~(j > k) /\ j \in Nat
    BY <1>2, <1>5 DEF Of, DerivingTypes
  <2>3. Latest(Of("STATE_CHANGED")) = k
    <3>1. /\ Latest(Of("STATE_CHANGED")) \in Of("STATE_CHANGED")
          /\ k <= Latest(Of("STATE_CHANGED"))
      BY <2>1, LatestIs
    <3> QED BY <2>1, <2>2, <3>1
  <2> QED BY <1>6, <2>1, <2>3 DEF LastChange, HandedOff, Change, Event
<1>8. CASE RejectEmpty(b)
  <2>1. Emit(Decision("changes"))
    BY <1>8 DEF RejectEmpty
  <2>2. Decision("changes") \in Emissions \ { HandedOff }
    BY OtherEmissions DEF Decisions
  <2>3. Decision("changes").type \in DerivingTypes
    BY DEF Decision, Event, DerivingTypes
  <2> QED BY <1>4, <2>1, <2>2, <2>3
<1>9. CASE GuardClosed(b) \/ Approve(b) \/ Escalate(b)
  <2>1. PICK to \in { "COMPLETED", "READY_TO_CLOSE", "HUMAN_GATE" } : Emit(Change(to))
    BY <1>7, <1>9 DEF GuardClosed, Approve, Escalate
  <2>2. Change(to) \in Emissions \ { HandedOff }
    BY OtherEmissions
  <2>3. Change(to).type \in DerivingTypes
    BY DEF Change, Event, DerivingTypes
  <2> QED BY <1>4, <2>1, <2>2, <2>3
<1>10. CASE GuardLeft(b)
  BY <1>7, <1>10 DEF GuardLeft
<1>11. CASE NotReviewed(b)
  <2>1. PICK type \in Failures : Emit(Event(type, ""))
    BY <1>11 DEF NotReviewed, Fail
  <2>2. Event(type, "") \in Events
    BY OtherEmissions, EmissionsAreEvents
  <2> DEFINE e == Event(type, "")
  <2>3. log' = Append(log, e) /\ e.type = type
    BY <1>3, <2>1 DEF Emit, Event
  <2>7. e \in Events
    BY <2>2
  <2> HIDE DEF e
  <2>4. /\ Len(log) + 1 \in DOMAIN log' /\ log'[Len(log) + 1].type \in Failures
        /\ Len(log) \in Nat
    BY <1>2, <2>7, <2>3, Appended
  <2>5. Latest(Handoffs)' \in 0..Len(log)
    <3>1. Handoffs \in SUBSET (1..Len(log))
      BY <1>2 DEF Handoffs
    <3>2. Latest(Handoffs)' = Latest(Handoffs)
      BY <1>1 DEF Latest
    <3> QED BY <2>4, <3>1, <3>2, LatestIs
  <2>6. Len(log) + 1 > Latest(Handoffs)'
    BY <2>4, <2>5
  <2> QED BY <2>4, <2>6 DEF Excused
<1>12. CASE RequestChanges(b)
  <2>1. log' = log \o << Decision("changes"), Consequence(Rejections + 1) >>
    BY <1>1, <1>12 DEF RequestChanges
  <2> DEFINE c == Consequence(Rejections + 1)
  <2>2. c \in Rework
    BY ConsequenceIs
  <2>3. Rejected \in Events /\ c \in Events
    BY <2>2, EmissionsAreEvents
  <2>4. c.type \in DerivingTypes /\ c # HandedOff
    BY <2>2 DEF Rework, HandedOff, Change, Event, DerivingTypes
  <2> HIDE DEF c
  <2>5. log \o << Rejected, c >> = Append(Append(log, Rejected), c)
    <3> HIDE DEF Rejected
    <3> QED BY <1>2, <2>3
  <2>6. Append(log, Rejected) \in Seq(Events)
    BY <1>2, <2>3
  <2>7. State' = EventState(c)
    BY <1>2, <2>1, <2>3, <2>4, <2>5, <2>6, StateGrows DEF c, Rejected
  <2> QED BY <2>3, <2>4, <2>7, HandoffTells
<1>13. CASE Tick(b) \/ Guard(b) \/ Decide(b) \/ Save(b)
  BY <1>13 DEF Tick, Guard, Decide, Decisions, Save, GoTo, Typed
<1> QED BY <1>8, <1>9, <1>10, <1>11, <1>12, <1>13 DEF Bridge


(* The checkpoint and the handoffs. *)
LEMMA ParkStep ==
  ASSUME Typed, ClosedInv, ParkInv, [Next]_vars
  PROVE  ParkInv'
<1>0. Typed' /\ Len(log) \in Nat
  BY TypedStep, Grown
<1>1. CASE MarkReady \/ Resume
  <2>1. Latest(Handoffs)' = Len(log) + 1
    BY <1>1, Handed DEF Latest
  <2>2. checkpoint' = checkpoint /\ at' = at
    BY <1>1 DEF MarkReady, Resume, files
  <2>3. Latest(Handoffs)' > checkpoint'
    BY <1>0, <2>1, <2>2 DEF Typed
  <2>4. ASSUME NEW b \in Bridges, at[b] = "save"
        PROVE  Excused'
    <3>1. Working(b)
      BY <2>4 DEF Working
    <3>2. Len(log) + 1 \in late'
      BY <1>1, <3>1 DEF MarkReady, Resume, HandOff
    <3> QED BY <2>1, <3>2 DEF Excused
  <2> QED BY <2>2, <2>3, <2>4 DEF ParkInv
<1>2. CASE ~(MarkReady \/ Resume)
  <2> SUFFICES ASSUME State' = "READY_FOR_REVIEW"
               PROVE  /\ Excused' \/ Latest(Handoffs)' > checkpoint'
                      /\ \A b \in Bridges : at'[b] = "save" => Excused'
    BY DEF ParkInv
  <2>1. State = "READY_FOR_REVIEW" /\ Handoffs' = Handoffs
    BY <1>2, Quiet
  <2>2. Latest(Handoffs)' = Latest(Handoffs)
    BY <2>1 DEF Latest
  <2>3. late' = late
    BY <1>2 DEF Next, vars, Bridge, Reopen, Close, Refresh,
     Tick, RejectEmpty, GuardClosed, GuardLeft, Guard, NotReviewed, Decide,
     Approve, RequestChanges, Escalate, Save, CommandTimesOut, Die, Watchdog
  <2>4. Excused => Excused'
    BY <2>1, <2>3, ExcusedStays
  <2>5. checkpoint' = checkpoint \/ \E b \in Bridges : at[b] = "save"
    BY <1>2 DEF Next, vars, Bridge, Reopen, Close, Refresh,
     Tick, RejectEmpty, GuardClosed, GuardLeft, Guard, NotReviewed, Decide,
     Approve, RequestChanges, Escalate, Save, CommandTimesOut, Die, Watchdog, files
  <2>6. Excused' \/ Latest(Handoffs)' > checkpoint'
    BY <2>1, <2>2, <2>4, <2>5 DEF ParkInv
  <2>7. ASSUME NEW b \in Bridges, at'[b] = "save", at[b] # "save"
        PROVE  Excused'
    <3>1. \E c \in Bridges : Bridge(c) \/ CommandTimesOut(c) \/ Die(c) \/ Watchdog(c)
      BY <1>2, <2>7 DEF Next, vars, Reopen, Close, Refresh
    <3>2. PICK c \in Bridges : Bridge(c) \/ CommandTimesOut(c) \/ Die(c) \/ Watchdog(c)
      BY <3>1
    <3>3. \E w \in Places : GoTo(c, w)
      BY <3>2 DEF Bridge, Tick, RejectEmpty, GuardClosed, GuardLeft, Guard, NotReviewed,
         Fail, Decide, Decisions, Approve, RequestChanges, Escalate, Learn, Save,
         CommandTimesOut, Die, Watchdog, Places
    <3>4. c = b
      BY <2>7, <3>3 DEF GoTo, Typed
    <3>5. Bridge(b)
      BY <2>7, <3>2, <3>4 DEF CommandTimesOut, Die, Watchdog, GoTo, Typed
    <3> QED BY <2>7, <3>5, EntersSave
  <2>8. \A b \in Bridges : at'[b] = "save" => Excused'
    BY <2>1, <2>4, <2>7 DEF ParkInv
  <2> QED BY <2>6, <2>8
<1> QED BY <1>1, <1>2
-----------------------------------------------------------------------------
(* What a step of a bridge does to the decisions, and of everybody else.   *)
LEMMA OthersDecideNothing ==
  ASSUME Typed, ClosedInv, [Next]_vars,
         \A b \in Bridges : ~(RejectEmpty(b) \/ Decide(b) \/ RequestChanges(b) \/ Watchdog(b))
  PROVE  /\ Of("REVIEW_DECISION")' = Of("REVIEW_DECISION")
         /\ Of("MANAGER_STALE")' = Of("MANAGER_STALE")
         /\ Separated(log) => Separated(log)'
<1> DEFINE E == Typeds("REVIEW_DECISION")
           F == Typeds("MANAGER_STALE")
           Same(s) == /\ s \in Seq(Events) /\ At(s, E) = At(log, E) /\ At(s, F) = At(log, F)
                      /\ Separated(log) => Separated(s)
<1>1. log \in Seq(Events) /\ log' \in Seq(Events) /\ Same(log)
  BY Grown
<1>2. ASSUME Same(log')
      PROVE  /\ Of("REVIEW_DECISION")' = Of("REVIEW_DECISION")
             /\ Of("MANAGER_STALE")' = Of("MANAGER_STALE")
             /\ Separated(log) => Separated(log)'
  <2>1. Separated(log') <=> Separated(log)'
    BY DEF Separated
  <2> QED BY <1>1, <1>2, <2>1, Positions
<1>3. ASSUME NEW s, Same(s), NEW e \in Events,
             e.type \notin { "REVIEW_DECISION", "MANAGER_STALE" }
      PROVE  Same(Append(s, e))
  <2>1. e \notin E /\ e \notin F
    BY <1>3 DEF Typeds
  <2> HIDE DEF E, F
  <2>2. At(Append(s, e), E) = At(s, E) /\ At(Append(s, e), F) = At(s, F)
    BY <1>3, <2>1, AtStays
  <2>3. Separated(s) => Separated(Append(s, e))
    BY <1>3, SeparatedGrows
  <2>4. Append(s, e) \in Seq(Events)
    BY <1>3
  <2> QED BY <1>3, <2>2, <2>3, <2>4
<1>4. \/ log' = log
      \/ \E e \in Events : /\ log' = Append(log, e)
                           /\ e.type \notin { "REVIEW_DECISION", "MANAGER_STALE" }
      \/ ClosesLog
  <2>1. CASE MarkReady \/ Resume
    <3>1. log' = Append(log, HandedOff) /\ HandedOff \in Events
      BY <2>1, Handed, EmissionsAreEvents
    <3> QED BY <3>1 DEF HandedOff, Change, Event
  <2>2. CASE Reopen
    <3>1. log' = Append(log, Change("IN_PROGRESS")) /\ Change("IN_PROGRESS") \in Events
      BY <2>2, OtherEmissions, EmissionsAreEvents DEF Reopen
    <3> QED BY <3>1 DEF Change, Event
  <2>3. CASE Close
    <3> DEFINE x == Event("CLOSE_CONFIRMED", "")
               y == Change("COMPLETED")
               z == Event("SUPERVISOR_CLOSED", "")
    <3>1. x \in Events /\ y \in Events /\ z \in Events
      BY EmissionsAreEvents
    <3>2. State = "READY_TO_CLOSE" /\ log' = log \o << x, y, z >>
      BY <2>3 DEF Close, Closing
    <3> HIDE DEF x, y, z
    <3>3. log \o << x, y, z >> = Append(Append(Append(log, x), y), z)
      BY <1>1, <3>1
    <3> QED BY <3>2, <3>3 DEF ClosesLog, x, y, z
  <2>4. ASSUME NEW b \in Bridges, GuardClosed(b) \/ Approve(b) \/ Escalate(b)
        PROVE  \/ log' = log
               \/ \E e \in Events : /\ log' = Append(log, e)
                                    /\ e.type \notin { "REVIEW_DECISION", "MANAGER_STALE" }
    <3>1. log' = log \/ \E to \in { "COMPLETED", "READY_TO_CLOSE", "HUMAN_GATE" } :
             Emit(Change(to))
      BY <2>4 DEF GuardClosed, Approve, Escalate
    <3>2. \A to \in { "COMPLETED", "READY_TO_CLOSE", "HUMAN_GATE" } :
            Change(to) \in Events /\ Change(to).type = "STATE_CHANGED"
      BY OtherEmissions, EmissionsAreEvents DEF Change, Event
    <3> QED BY <3>1, <3>2 DEF Emit
  <2>5. ASSUME NEW b \in Bridges, Guard(b) \/ NotReviewed(b)
        PROVE  \/ log' = log
               \/ \E e \in Events : /\ log' = Append(log, e)
                                    /\ e.type \notin { "REVIEW_DECISION", "MANAGER_STALE" }
    <3>1. \E type \in Failures \cup { "MANAGER_REVIEWING" } : Emit(Event(type, ""))
      BY <2>5 DEF Guard, NotReviewed, Fail
    <3>2. PICK type \in Failures \cup { "MANAGER_REVIEWING" } : Emit(Event(type, ""))
      BY <3>1
    <3>3. Event(type, "") \in Events
      BY OtherEmissions, EmissionsAreEvents
    <3>4. type \notin { "REVIEW_DECISION", "MANAGER_STALE" } /\ Event(type, "").type = type
      BY BridgeAssumption DEF Event
    <3> QED BY <3>2, <3>3, <3>4 DEF Emit
  <2>6. ASSUME NEW b \in Bridges,
               Tick(b) \/ GuardLeft(b) \/ Save(b) \/ CommandTimesOut(b) \/ Die(b)
        PROVE  log' = log
    BY <2>6 DEF Tick, GuardLeft, Save, CommandTimesOut, Die
  <2>7. CASE Refresh \/ UNCHANGED vars
    BY <2>7 DEF Refresh, vars
  <2> QED BY <2>1, <2>2, <2>3, <2>4, <2>5, <2>6, <2>7 DEF Next, Bridge
<1>5. CASE log' = log
  <2> HIDE DEF Same
  <2> QED BY <1>1, <1>2, <1>5
<1>6. CASE \E e \in Events : /\ log' = Append(log, e)
                             /\ e.type \notin { "REVIEW_DECISION", "MANAGER_STALE" }
  <2> HIDE DEF Same
  <2> QED BY <1>1, <1>2, <1>3, <1>6
<1>7. CASE ClosesLog
  <2> DEFINE x == Event("CLOSE_CONFIRMED", "")
             y == Change("COMPLETED")
             z == Event("SUPERVISOR_CLOSED", "")
  <2>1. x \in Events /\ y \in Events /\ z \in Events
    BY EmissionsAreEvents
  <2>2. /\ x.type = "CLOSE_CONFIRMED" /\ y.type = "STATE_CHANGED"
        /\ z.type = "SUPERVISOR_CLOSED"
    BY DEF Event, Change
  <2>3. log' = Append(Append(Append(log, x), y), z)
    BY <1>7 DEF ClosesLog
  <2> HIDE DEF Same, x, y, z
  <2>4. Same(Append(log, x))
    BY <1>1, <1>3, <2>1, <2>2
  <2>5. Same(Append(Append(log, x), y))
    BY <1>3, <2>1, <2>2, <2>4
  <2>6. Same(log')
    BY <1>3, <2>1, <2>2, <2>3, <2>5
  <2> QED BY <1>2, <2>6
<1> QED BY <1>4, <1>5, <1>6, <1>7


LEMMA UndecidedStays ==
  ASSUME Undecided, Handoffs \subseteq Handoffs',
         Of("REVIEW_DECISION")' = Of("REVIEW_DECISION")
  PROVE  Undecided'
BY DEF Undecided

(* A ticket in review has a handoff to decide. *)
LEMMA InReviewUndecided ==
  ASSUME Typed, State = "READY_FOR_REVIEW"
  PROVE  Undecided
<1>1. log \in Seq(Events)
  BY DEF Typed
<1>2. PICK k \in DOMAIN log :
           /\ log[k].type \in DerivingTypes
           /\ \A j \in DOMAIN log : j > k => log[j].type \notin DerivingTypes
           /\ State = EventState(log[k])
  BY <1>1, StateFrom DEF State
<1>3. log[k] = HandedOff /\ k \in Nat
  BY <1>1, <1>2, HandoffTells
<1>4. k \in Handoffs /\ log[k].type = "STATE_CHANGED"
  BY <1>3 DEF Handoffs, HandedOff, Change, Event
<1>5. \A d \in Of("REVIEW_DECISION") : d \in Nat /\ ~(d > k) /\ d # k
  BY <1>1, <1>2, <1>4 DEF Of, DerivingTypes
<1>6. \A d \in Of("REVIEW_DECISION") : d < k
  BY <1>3, <1>5
<1> QED BY <1>4, <1>6 DEF Undecided

(* One bridge decides an undecided handoff. *)
LEMMA DecisionKeeps ==
  ASSUME Typed, Undecided, Separated(log), Of("MANAGER_STALE") = {},
         NEW d \in Decisions, Emit(Decision(d))
  PROVE  Separated(log)' /\ Of("MANAGER_STALE")' = {}
<1>1. log \in Seq(Events) /\ Decision(d) \in Events /\ Decision(d).type = "REVIEW_DECISION"
  BY OtherEmissions, EmissionsAreEvents DEF Typed, Decision, Event
<1>2. CASE log' = log
  BY <1>2 DEF Separated, Of
<1>3. CASE log' = Append(log, Decision(d))
  <2> DEFINE e == Decision(d)
  <2>1. \E h \in DOMAIN log : /\ log[h] = HandedOff
                              /\ \A i \in DOMAIN log : log[i].type = "REVIEW_DECISION" => i < h
    BY DEF Undecided, Handoffs, Of, HandedOff
  <2>2. e \in Events /\ e.type = "REVIEW_DECISION" /\ log' = Append(log, e)
    BY <1>1, <1>3
  <2> HIDE DEF e
  <2>3. Separated(log') /\ log' \in Seq(Events)
    BY <1>1, <2>1, <2>2, SeparatedGrows
  <2>4. e \notin Typeds("MANAGER_STALE")
    BY <2>2 DEF Typeds
  <2>5. Of("MANAGER_STALE")' = Of("MANAGER_STALE")
    BY <1>1, <2>2, <2>3, <2>4, AtStays, Positions
  <2> QED BY <2>3, <2>5 DEF Separated
<1> QED BY <1>2, <1>3 DEF Emit

LEMMA RejectionKeeps ==
  ASSUME Typed, ClosedInv, Separated(log), Of("MANAGER_STALE") = {},
         NEW b \in Bridges, RequestChanges(b)
  PROVE  Separated(log)' /\ Of("MANAGER_STALE")' = {}
<1>1. log \in Seq(Events)
  BY DEF Typed
<1>2. ASSUME NEW s \in Seq(Events), NEW c \in Rework, Separated(s),
             At(s, Typeds("MANAGER_STALE")) = {}
      PROVE  /\ Append(s, c) \in Seq(Events) /\ Separated(Append(s, c))
             /\ At(Append(s, c), Typeds("MANAGER_STALE")) = {}
  <2>1. c \in Events /\ c.type = "STATE_CHANGED"
    <3>1. c \in Events
      BY EmissionsAreEvents
    <3> QED BY <3>1 DEF Rework, Change, Event
  <2>2. c \notin Typeds("MANAGER_STALE")
    BY <2>1 DEF Typeds
  <2> QED BY <1>2, <2>1, <2>2, SeparatedGrows, AtStays, Appended
<1>3. ASSUME NEW s \in Seq(Events), log' = s, Separated(s),
             At(s, Typeds("MANAGER_STALE")) = {}
      PROVE  Separated(log)' /\ Of("MANAGER_STALE")' = {}
  BY <1>1, <1>3, Positions DEF Separated
<1>4. At(log, Typeds("MANAGER_STALE")) = {}
  BY <1>1, PositionsAre DEF Of
<1>5. CASE UNCHANGED log
  BY <1>1, <1>3, <1>4, <1>5
<1>6. CASE Emit(Consequence(Rejections))
  <2> DEFINE c == Consequence(Rejections)
  <2>1. c \in Rework /\ (log' = log \/ log' = Append(log, c))
    BY <1>6, ConsequenceIs DEF Emit
  <2> HIDE DEF c
  <2> QED BY <1>1, <1>2, <1>3, <1>4, <2>1
<1>7. CASE State = "READY_FOR_REVIEW" /\
           log' = log \o << Decision("changes"), Consequence(Rejections + 1) >>
  <2> DEFINE c == Consequence(Rejections + 1)
             s == Append(log, Rejected)
  <2>1. c \in Rework
    BY ConsequenceIs
  <2>2. Rejected \in Events /\ c \in Events /\ Rejected.type = "REVIEW_DECISION"
    BY <2>1, EmissionsAreEvents DEF Rejected, Decision, Event
  <2>3. log' = log \o << Rejected, c >>
    BY <1>7 DEF Rejected
  <2>4. \E h \in DOMAIN log : /\ log[h] = HandedOff
                              /\ \A i \in DOMAIN log : log[i].type = "REVIEW_DECISION" => i < h
    BY <1>7, InReviewUndecided DEF Undecided, Handoffs, Of, HandedOff
  <2> HIDE DEF c
  <2>5. log \o << Rejected, c >> = Append(s, c)
    <3> HIDE DEF Rejected
    <3> QED BY <1>1, <2>2
  <2>6. s \in Seq(Events) /\ Separated(s)
    BY <1>1, <2>2, <2>4, SeparatedGrows
  <2>7. At(s, Typeds("MANAGER_STALE")) = {}
    <3>1. Rejected \notin Typeds("MANAGER_STALE")
      BY <2>2 DEF Typeds
    <3> QED BY <1>1, <1>4, <2>2, <3>1, AtStays
  <2> HIDE DEF s
  <2>8. /\ Append(s, c) \in Seq(Events) /\ Separated(Append(s, c))
        /\ At(Append(s, c), Typeds("MANAGER_STALE")) = {}
    BY <1>2, <2>1, <2>6, <2>7
  <2> QED BY <1>3, <2>3, <2>5, <2>8
<1> QED BY <1>5, <1>6, <1>7 DEF RequestChanges

(* What a look finds to review is undecided. *)
LEMMA FoundIsUndecided ==
  ASSUME Typed, Alone, NEW b \in Bridges, at[b] = "idle", ToReview
  PROVE  Undecided
<1>1. log \in Seq(Events) /\ Len(log) \in Nat /\ DOMAIN log = 1..Len(log)
      /\ checkpoint \in 0..Len(log)
  BY DEF Typed
<1>2. Cursor = checkpoint
  BY <1>1 DEF Cursor, Typed
<1>3. "READY_FOR_REVIEW" \in { shown, State }
  BY DEF ToReview, TicketStatus
<1>4. CASE \A d \in Of("REVIEW_DECISION") : d <= checkpoint
  <2>1. Handoffs # {}
    <3>1. CASE State = "READY_FOR_REVIEW"
      BY <3>1, InReviewUndecided DEF Undecided
    <3>2. CASE shown = "READY_FOR_REVIEW"
      BY <3>2 DEF Alone
    <3> QED BY <1>3, <3>1, <3>2
  <2>2. Handoffs \in SUBSET (1..Len(log))
    BY <1>1 DEF Handoffs
  <2>3. Latest(Handoffs) \in Handoffs
    BY <1>1, <2>1, <2>2, LatestIs
  <2>4. ~(Latest(Handoffs) <= checkpoint)
    <3>1. ~(checkpoint \in DOMAIN log /\ log[checkpoint].type = "MANAGER_STALE")
      BY DEF Alone, Of
    <3> QED BY <1>2, <2>1, <3>1 DEF ToReview, Covered, Reviewable
  <2>5. \A d \in Of("REVIEW_DECISION") : d < Latest(Handoffs)
    <3>0. \A h \in Handoffs : h \in Nat
      BY <1>1, <2>2
    <3>1. Latest(Handoffs) \in Nat /\ checkpoint \in Nat
      BY <1>1, <2>3, <3>0
    <3>2. \A d \in Of("REVIEW_DECISION") : d \in Nat
      BY <1>1 DEF Of
    <3> QED BY <1>4, <2>4, <3>1, <3>2
  <2> QED BY <2>3, <2>5 DEF Undecided
<1>5. CASE Undecided
  BY <1>5
<1> QED BY <1>3, <1>4, <1>5 DEF Alone


LEMMA AloneStep ==
  ASSUME Typed, ClosedInv, Alone, [Next]_vars, disturbed' = disturbed, ~disturbed
  PROVE  Alone'
<1>0. /\ \A b \in Bridges \ { First } : at[b] = "off"
      /\ log \in Seq(Events) /\ Len(log) \in Nat /\ at \in [Bridges -> Places]
      /\ Typed'
  BY TypedStep DEF Typed, Alone
<1>1. \A b \in Bridges : ~Watchdog(b) /\ ~CommandTimesOut(b)
  BY DEF Watchdog, CommandTimesOut
<1>2. CASE MarkReady \/ Resume
  <2>1. /\ Of("REVIEW_DECISION")' = Of("REVIEW_DECISION") /\ Of("MANAGER_STALE")' = {}
        /\ Handoffs' = Handoffs \cup { Len(log) + 1 }
    BY <1>2, Handed DEF Alone
  <2>2. Separated(log)'
    <3>1. \A b \in Bridges : ~(RejectEmpty(b) \/ Decide(b) \/ RequestChanges(b))
      BY <1>2 DEF MarkReady, Resume, RejectEmpty, Decide, Decisions, RequestChanges, Learn,
         GoTo, Typed
    <3> QED BY <1>1, <3>1, OthersDecideNothing DEF Alone
  <2>3. \A d \in Of("REVIEW_DECISION") : d < Len(log) + 1
    BY <1>0 DEF Of
  <2>4. Undecided'
    BY <2>1, <2>3 DEF Undecided
  <2>5. at' = at
    BY <1>2 DEF MarkReady, Resume
  <2> QED BY <1>0, <2>1, <2>2, <2>4, <2>5 DEF Alone
<1>3. CASE ~(MarkReady \/ Resume) /\ at' = at
  <2>1. \A b \in Bridges : ~Bridge(b) /\ ~Die(b)
    BY <1>0, <1>3 DEF Bridge, Die, Tick, RejectEmpty, GuardClosed, GuardLeft, Guard,
       NotReviewed, Fail, Decide, Decisions, Approve, RequestChanges, Escalate, Learn,
       Save, GoTo, Working
  <2>2. /\ Of("REVIEW_DECISION")' = Of("REVIEW_DECISION") /\ Of("MANAGER_STALE")' = {}
        /\ Separated(log)' /\ Handoffs' = Handoffs
    BY <1>1, <1>3, <2>1, OthersDecideNothing, Quiet DEF Alone, Bridge
  <2>3. Undecided => Undecided'
    BY <2>2, UndecidedStays
  <2>4. State' = "READY_FOR_REVIEW" => State = "READY_FOR_REVIEW"
    BY <1>3, Quiet
  <2>5. checkpoint' = checkpoint
    BY <1>1, <1>3, <2>1 DEF Next, vars, Reopen, Close, Refresh, files
  <2>6. shown' = "READY_FOR_REVIEW" => "READY_FOR_REVIEW" \in { shown, State }
    BY <1>1, <1>3, <2>1 DEF Next, vars, Reopen, Close, Refresh
  <2>7. State = "READY_FOR_REVIEW" => Handoffs # {}
    BY InReviewUndecided DEF Undecided
  <2>8. shown' = "READY_FOR_REVIEW" => Handoffs' # {}
    BY <2>2, <2>6, <2>7 DEF Alone
  <2>9. \A b \in Bridges :
          /\ at'[b] \in { "cycle", "review" } => Undecided'
          /\ at'[b] = "idle" =>
               \/ \A d \in Of("REVIEW_DECISION")' : d <= checkpoint'
               \/ "READY_FOR_REVIEW" \in { shown', State' } => Undecided'
    BY <1>3, <2>2, <2>3, <2>4, <2>5, <2>6 DEF Alone
  <2> QED BY <1>3, <2>2, <2>8, <2>9 DEF Alone
<1>4. CASE ~(MarkReady \/ Resume) /\ at' # at
  <2>1. PICK b \in Bridges : Bridge(b) \/ Die(b)
    BY <1>1, <1>4 DEF Next, vars, Reopen, Close, Refresh
  <2>2. at[b] # "off" /\ \E w \in Places : GoTo(b, w)
    BY <2>1 DEF Bridge, Die, Tick, RejectEmpty, GuardClosed, GuardLeft, Guard,
       NotReviewed, Fail, Decide, Decisions, Approve, RequestChanges, Escalate, Learn,
       Save, Working, Places
  <2>3. b = First /\ \A c \in Bridges : c # b => at'[c] = at[c] /\ at[c] = "off"
    BY <1>0, <2>2 DEF GoTo
  <2>4. \A c \in Bridges \ { First } : at'[c] = "off"
    BY <1>0, <2>3
  <2>5. shown' = shown /\ Handoffs' = Handoffs
    <3>1. Handoffs' = Handoffs
      BY <1>4, Quiet
    <3>2. shown' = shown
      BY <2>1 DEF Bridge, Die, Tick, RejectEmpty, GuardClosed, GuardLeft, Guard,
         NotReviewed, Decide, Approve, RequestChanges, Escalate, Save, world
    <3> QED BY <3>1, <3>2
  <2>6. /\ Separated(log)' /\ Of("MANAGER_STALE")' = {}
        /\ at'[b] \in { "cycle", "review" } => Undecided'
        /\ at'[b] = "idle" => \A d \in Of("REVIEW_DECISION")' : d <= checkpoint'
    <3>1. CASE RejectEmpty(b) \/ Decide(b)
      <4>1. Undecided /\ \E d \in Decisions : Emit(Decision(d))
        BY <3>1 DEF RejectEmpty, Decide, Decisions, Alone
      <4>2. at'[b] \in { "save" } \cup Decisions
        BY <1>0, <3>1 DEF RejectEmpty, Decide, Decisions, GoTo
      <4>3. Separated(log)' /\ Of("MANAGER_STALE")' = {}
        BY <4>1, DecisionKeeps DEF Alone
      <4> QED BY <4>2, <4>3 DEF Decisions
    <3>2. CASE RequestChanges(b)
      <4>1. at'[b] = "save"
        BY <1>0, <3>2 DEF RequestChanges, Learn, GoTo
      <4> QED BY <3>2, <4>1, RejectionKeeps DEF Alone
    <3>3. CASE ~(RejectEmpty(b) \/ Decide(b) \/ RequestChanges(b))
      <4>1. \A c \in Bridges :
              ~(RejectEmpty(c) \/ Decide(c) \/ RequestChanges(c))
        BY <2>3, <3>3 DEF RejectEmpty, Decide, RequestChanges
      <4>2. /\ Of("REVIEW_DECISION")' = Of("REVIEW_DECISION")
            /\ Of("MANAGER_STALE")' = {} /\ Separated(log)'
        BY <1>1, <4>1, OthersDecideNothing DEF Alone
      <4>3. CASE Tick(b) \/ Guard(b)
        <5>1. Undecided
          BY <4>3, FoundIsUndecided DEF Tick, Guard, Alone
        <5>2. at'[b] \in { "cycle", "review" }
          BY <1>0, <4>3 DEF Tick, Guard, GoTo
        <5>3. Undecided'
          BY <2>5, <4>2, <5>1, UndecidedStays
        <5> QED BY <4>2, <5>2, <5>3
      <4>4. CASE Save(b)
        <5>1. at'[b] = "idle" /\ checkpoint' = Len(log)
          BY <1>0, <4>4 DEF Save, Processed, GoTo
        <5>2. \A d \in Of("REVIEW_DECISION") : d <= Len(log)
          BY <1>0 DEF Of
        <5> QED BY <4>2, <5>1, <5>2
      <4>5. CASE GuardClosed(b) \/ GuardLeft(b) \/ NotReviewed(b) \/ Approve(b)
                 \/ Escalate(b) \/ Die(b)
        <5>1. at'[b] \in { "save", "dead" }
          BY <1>0, <4>5 DEF GuardClosed, GuardLeft, NotReviewed, Fail, Approve, Escalate,
             Learn, Die, GoTo
        <5> QED BY <4>2, <5>1
      <4> QED BY <2>1, <3>3, <4>3, <4>4, <4>5 DEF Bridge
    <3> QED BY <3>1, <3>2, <3>3
  <2> QED BY <2>3, <2>4, <2>5, <2>6 DEF Alone
<1> QED BY <1>2, <1>3, <1>4
-----------------------------------------------------------------------------
LEMMA DecideStep ==
  ASSUME Typed, ClosedInv, DecideInv, [Next]_vars
  PROVE  DecideInv'
<1>1. disturbed' = disturbed \/ disturbed' = TRUE
  BY DEF Next, vars, Bridge, MarkReady, Resume, Reopen, Close, Refresh,
     Tick, RejectEmpty, GuardClosed, GuardLeft, Guard, NotReviewed, Decide,
     Approve, RequestChanges, Escalate, Save, CommandTimesOut, Die, Watchdog
<1>2. CASE disturbed' = disturbed /\ ~disturbed
  BY <1>2, AloneStep DEF DecideInv
<1>3. CASE disturbed' = disturbed /\ disturbed
  BY <1>3, Zenon DEF DecideInv
<1>4. CASE disturbed' = TRUE
  BY <1>4, Zenon DEF DecideInv
<1> QED BY <1>1, <1>2, <1>3, <1>4

LEMMA PartOf ==
  ASSUME NEW S, NEW T \in SUBSET S, NEW s \in Seq(T)
  PROVE  s \in Seq(S) /\ Len(s) \in Nat /\ \A i \in DOMAIN s : s[i] \in T
OBVIOUS

LEMMA InitBridgeInv ==
  ASSUME Init
  PROVE  BridgeInv
<1>1. PICK b \in Beginnings : log = b.log
  BY DEF Init
<1>2. /\ log \in Seq(Events \ { Event("MANAGER_STALE", "") })
      /\ Separated(log) /\ ClosedInv
  BY <1>1, BridgeAssumption DEF ClosedInv
<1> DEFINE T == Events \ { Event("MANAGER_STALE", "") }
<1>0. /\ log \in Seq(Events) /\ Len(log) \in Nat
      /\ \A i \in DOMAIN log : log[i] \in Events /\ log[i] # Event("MANAGER_STALE", "")
  <2>1. T \in SUBSET Events /\ log \in Seq(T)
    BY <1>2
  <2>2. \A e \in T : e \in Events /\ e # Event("MANAGER_STALE", "")
    OBVIOUS
  <2> HIDE DEF T
  <2>3. log \in Seq(Events) /\ Len(log) \in Nat /\ \A i \in DOMAIN log : log[i] \in T
    BY <2>1, PartOf
  <2> QED BY <2>2, <2>3
<1> HIDE DEF T
<1>3. log \in Seq(Events) /\ Len(log) \in Nat
  BY <1>0
<1>4. Typed
  <2>1. shown \in TicketState
    BY StateTyped DEF Init, State
  <2>2. at \in [Bridges -> Places]
    BY DEF Init, Places
  <2>3. file \in [ seq : Nat, adaptive : BOOLEAN ] /\ file.seq = checkpoint
    BY DEF Init
  <2>4. checkpoint = 0 /\ warned = 0 /\ late = {}
    BY DEF Init
  <2> QED BY <1>3, <2>1, <2>2, <2>3, <2>4 DEF Typed
<1>5. Alone
  <2>1. Of("MANAGER_STALE") = {}
    <3> SUFFICES ASSUME NEW i \in DOMAIN log, log[i].type = "MANAGER_STALE"
                 PROVE  FALSE
      BY DEF Of
    <3> DEFINE e == log[i]
    <3>1. e \in Events /\ e # Event("MANAGER_STALE", "") /\ e.type = "MANAGER_STALE"
      BY <1>0
    <3> HIDE DEF e
    <3>2. CASE e \in { Change(to) : to \in TicketState }
      <4>1. PICK to : e = Change(to)
        BY <3>2
      <4> QED BY <3>1, <4>1 DEF Change, Event
    <3>3. CASE e \in { Decision(d) : d \in Decisions }
      <4>1. PICK d : e = Decision(d)
        BY <3>3
      <4> QED BY <3>1, <4>1 DEF Decision, Event
    <3>4. CASE e \in { Event(type, "") : type \in Failures \cup
          { "MANAGER_REVIEWING", "MANAGER_STALE", "CLOSE_CONFIRMED", "SUPERVISOR_CLOSED" } }
      <4>1. PICK type : e = Event(type, "")
        BY <3>4
      <4> QED BY <3>1, <4>1 DEF Event
    <3> QED BY <3>1, <3>2, <3>3, <3>4 DEF Events
  <2>2. State = "READY_FOR_REVIEW" => Undecided
    BY <1>4, InReviewUndecided
  <2>3. /\ shown = State
        /\ \A c \in Bridges : at[c] = IF c = First THEN "idle" ELSE "off"
    BY DEF Init
  <2> QED BY <1>2, <2>1, <2>2, <2>3 DEF Alone, Undecided
<1>6. ParkInv
  <2>1. CASE State = "READY_FOR_REVIEW"
    <3>1. Handoffs # {} /\ Handoffs \in SUBSET (1..Len(log))
      BY <1>3, <1>4, <2>1, InReviewUndecided DEF Undecided, Handoffs
    <3>2. Latest(Handoffs) \in Handoffs
      BY <1>3, <3>1, LatestIs
    <3>3. \A h \in Handoffs : h > 0
      BY <1>3, <3>1
    <3>4. checkpoint = 0 /\ \A c \in Bridges : at[c] # "save"
      BY DEF Init
    <3> QED BY <3>2, <3>3, <3>4 DEF ParkInv
  <2>2. CASE State # "READY_FOR_REVIEW"
    BY <2>2 DEF ParkInv
  <2> QED BY <2>1, <2>2
<1> QED BY <1>2, <1>4, <1>5, <1>6 DEF BridgeInv, DecideInv

LEMMA BridgeInvStep ==
  ASSUME BridgeInv, [Next]_vars
  PROVE  BridgeInv'
<1>1. Typed /\ ClosedInv /\ DecideInv /\ ParkInv
  BY DEF BridgeInv
<1>2. Typed' /\ ClosedInv' /\ DecideInv' /\ ParkInv'
  BY <1>1, TypedStep, ClosedStep, DecideStep, ParkStep
<1> QED BY <1>2 DEF BridgeInv

LEMMA BridgeInvImplies ==
  ASSUME BridgeInv
  PROVE  TypeOK /\ ParkedForAReason /\ DecidedOnce /\ ClosedTakesNoRejection
<1>1. TypeOK
  <2>1. State \in TicketState
    BY StateTyped DEF State
  <2>2. /\ checkpoint \in 0..Len(log) /\ warned \in 0..Len(log)
        /\ file.seq = checkpoint /\ late \subseteq 0..Len(log)
    BY DEF BridgeInv, Typed
  <2> QED BY <2>1, <2>2 DEF BridgeInv, Typed, TypeOK
<1>2. ParkedForAReason
  <2> SUFFICES ASSUME Parked PROVE Excused
    BY DEF ParkedForAReason
  <2>1. /\ log \in Seq(Events) /\ Len(log) \in Nat /\ checkpoint \in 0..Len(log)
        /\ State = "READY_FOR_REVIEW"
    BY DEF BridgeInv, Typed, Parked
  <2>2. Cursor = checkpoint /\ checkpoint \in Nat
    BY <2>1 DEF Cursor, BridgeInv, Typed
  <2>3. Handoffs # {} /\ Handoffs \in SUBSET (1..Len(log))
    BY <2>1, InReviewUndecided DEF Undecided, Handoffs, BridgeInv
  <2>4. Latest(Handoffs) <= checkpoint /\ Latest(Handoffs) \in Nat
    <3>1. Latest(Handoffs) \in Nat
      <4>1. Latest(Handoffs) \in 0..Len(log)
        BY <2>1, <2>3, LatestIs
      <4> QED BY <2>1, <4>1
    <3> QED BY <2>2, <2>3, <3>1 DEF Parked, Covered, Reviewable
  <2> QED BY <2>1, <2>2, <2>4 DEF BridgeInv, ParkInv
<1>3. DecidedOnce
  BY Zenon DEF BridgeInv, DecideInv, Alone, DecidedOnce
<1>4. ClosedTakesNoRejection
  BY DEF BridgeInv, ClosedInv, ClosedTakesNoRejection
<1> QED BY <1>1, <1>2, <1>3, <1>4

(* The inductive invariant holds in every state. *)
THEOREM BridgeInvAlways == Spec => []BridgeInv
BY InitBridgeInv, BridgeInvStep, PTL DEF Spec

(* The log, the cursors and the states keep their types.                   *)
THEOREM TypeCorrect == Spec => []TypeOK
BY BridgeInvAlways, BridgeInvImplies, PTL

(* However many bridges run, are killed and time out: a ticket is left in  *)
(* review, its handoff covered by the checkpoint, only when the review has *)
(* failed on record or the handoff was made while a bridge worked.         *)
THEOREM NothingParkedUnexcused == Spec => []ParkedForAReason
BY BridgeInvAlways, BridgeInvImplies, PTL

(* One bridge, killed or not, decides a handoff once, for any number of    *)
(* handoffs, resumed gates and reopenings.                                 *)
THEOREM HandoffDecidedOnce == Spec => []DecidedOnce
BY BridgeInvAlways, BridgeInvImplies, PTL

(* However many bridges are late with their decisions: none takes a closed *)
(* ticket back to work.                                                    *)
THEOREM ClosedStaysClosed == Spec => []ClosedTakesNoRejection
BY BridgeInvAlways, BridgeInvImplies, PTL
=============================================================================
