----------------------- MODULE TicketLifecycleProofs -----------------------
(***************************************************************************)
(* Proofs about TicketLifecycle, for any beginning with an orderly bus,    *)
(* and any number of commands and kills.                                   *)
(***************************************************************************)
EXTENDS TicketLifecycle, FiniteSetTheorems, WellFoundedInduction, TLAPS

(* The next ticket waits for the close of this one. *)
Waits(t) == IF t = Following THEN { Closed(Plan) } ELSE {}

(* What has to be in the bus by the time an effect is performed. *)
Needs(e) ==
  CASE e.do = "emit" -> Precedents(e.event)
    [] e.do \in { "activate", "load" } -> { Closed(Plan) }
    [] e.do = "save" -> { Closed(t) : t \in e.read.completed \cup { e.closed } }
    [] e.do = "overwrite" -> { Closed(t) : t \in e.read.completed \cup { Plan } }
    [] e.do = "adopt" -> { Closed(t) : t \in e.read.completed } \cup Waits(e.ticket)
    [] e.do = "retire" -> { Closed(t) : t \in e.read.completed }
    [] OTHER -> {}

Evidence == { Approval, Confirmation } \cup { Closed(t) : t \in Tickets }

Occurs(s, k) == \E i \in DOMAIN s : Kind(s[i]) = k

Emits(e, k) == e.do = "emit" /\ Kind(e.event) = k

(* Each effect of w finds what it needs in s, or an effect before it       *)
(* writes it.                                                              *)
Fulfilled(s, w) ==
  \A i \in DOMAIN w : \A k \in Needs(w[i]) :
     Occurs(s, k) \/ \E j \in 1..(i - 1) : Emits(w[j], k)

(* Effects that write well-formed events, ...                              *)
Fair == { e \in Effects : e.do = "emit" => WellFormed(e.event) }

(* ... that reject nothing, that hand nothing off.                         *)
Rejects(e) == Emits(e, << Plan, "REVIEW_DECISION", "changes" >>)

Modest == { e \in Fair : ~Rejects(e) }
Keeping == { e \in Fair : e.do = "emit" /\ e.event.type # "STATE_CHANGED" }

(* Effects nothing is wanting for in s. *)
Provided(s) == { e \in Modest : \A k \in Needs(e) : Occurs(s, k) }

WorkInv == \A p \in Processes : Fulfilled(log, work[p])

(* The supervisor's file and the markdown follow the bus. *)
FilesInv ==
  /\ Following \in { sup.active, view.turn } => Occurs(log, Closed(Plan))
  /\ \A t \in sup.completed : Occurs(log, Closed(t))

(* What rejects was decided on when the ticket was not ready to close. *)
DecidersInv ==
  \A p \in Processes :
    \/ work[p] \in Seq(Modest)
    \/ /\ work[p] \in Seq(Fair)
       /\ LastChangeIn(Seen(p), Plan) # "READY_TO_CLOSE"

(* The builder hands off what was not at a human gate when it looked. *)
BuilderInv ==
  \/ work["builder"] \in Seq(Keeping)
  \/ DerivedState(Seen("builder"), Plan) # "HUMAN_GATE"

(* The inductive invariant. *)
LifeInv == /\ TypeOK /\ Orderly(log) /\ NotTakenBack(log, late)
           /\ WorkInv /\ FilesInv /\ DecidersInv /\ BuilderInv
-----------------------------------------------------------------------------
(* Sequences of effects: what holds of the parts holds of the whole. *)

LEMMA GrownKeeps ==
  ASSUME NEW s, NEW t, NEW w,
         \A i \in DOMAIN s : i \in DOMAIN t /\ t[i] = s[i],
         Fulfilled(s, w)
  PROVE  Fulfilled(t, w)
BY DEF Fulfilled, Occurs

LEMMA RestFulfilled ==
  ASSUME NEW s, NEW S, NEW w \in Seq(S), w # << >>,
         Fulfilled(s, w),
         \A k \in Evidence : Emits(Head(w), k) => Occurs(s, k),
         \A i \in DOMAIN w : Needs(w[i]) \subseteq Evidence
  PROVE  Fulfilled(s, Tail(w))
<1> SUFFICES ASSUME NEW i \in DOMAIN Tail(w), NEW k \in Needs(Tail(w)[i]),
                    ~Occurs(s, k)
             PROVE  \E j \in 1..(i - 1) : Emits(Tail(w)[j], k)
  BY DEF Fulfilled
<1>1. i + 1 \in DOMAIN w /\ Tail(w)[i] = w[i + 1]
  OBVIOUS
<1>2. PICK j \in 1..i : Emits(w[j], k)
  BY <1>1 DEF Fulfilled
<1>3. k \in Evidence
  BY <1>1
<1>4. j # 1
  BY <1>2, <1>3
<1>5. j - 1 \in 1..(i - 1) /\ Tail(w)[j - 1] = w[j]
  BY <1>4
<1> QED BY <1>2, <1>5

LEMMA JoinFulfilled ==
  ASSUME NEW s, NEW S, NEW v \in Seq(S), NEW w \in Seq(S),
         Fulfilled(s, v), Fulfilled(s, w)
  PROVE  Fulfilled(s, v \o w)
<1> SUFFICES ASSUME NEW i \in DOMAIN (v \o w), NEW k \in Needs((v \o w)[i]),
                    ~Occurs(s, k)
             PROVE  \E j \in 1..(i - 1) : Emits((v \o w)[j], k)
  BY DEF Fulfilled
<1>1. CASE i <= Len(v)
  <2>1. (v \o w)[i] = v[i] /\ i \in DOMAIN v
    BY <1>1
  <2>2. PICK j \in 1..(i - 1) : Emits(v[j], k)
    BY <2>1 DEF Fulfilled
  <2> QED BY <1>1, <2>2
<1>2. CASE i > Len(v)
  <2>1. (v \o w)[i] = w[i - Len(v)] /\ i - Len(v) \in DOMAIN w
    BY <1>2
  <2>2. PICK j \in 1..(i - Len(v) - 1) : Emits(w[j], k)
    BY <2>1 DEF Fulfilled
  <2>3. (v \o w)[j + Len(v)] = w[j] /\ j + Len(v) \in 1..(i - 1)
    BY <2>2
  <2> QED BY <2>2, <2>3
<1> QED BY <1>1, <1>2

LEMMA NothingNeeded ==
  ASSUME NEW s, NEW w, \A i \in DOMAIN w : Needs(w[i]) = {}
  PROVE  Fulfilled(s, w)
BY DEF Fulfilled

(* What effects need is evidence, which the bus never refuses. *)
LEMMA NeedsEvidence ==
  ASSUME NEW e \in Effects
  PROVE  Needs(e) \subseteq Evidence
<1>1. { Closed(Plan), Approval, Confirmation } \subseteq Evidence
  BY LifecycleAssumption DEF Evidence
<1>2. \A t \in Tickets : Closed(t) \in Evidence
  BY DEF Evidence
<1>3. CASE e.do = "emit"
  BY <1>1, <1>3 DEF Needs, Precedents
<1>4. CASE e.do # "emit"
  <2>1. e.do \in { "save", "overwrite", "adopt", "retire" } => e.read.completed \subseteq Tickets
    BY <1>4 DEF Effects, SupervisorState
  <2>2. e.do = "save" => e.closed \in Tickets
    BY <1>4 DEF Effects
  <2> QED BY <1>1, <1>2, <1>4, <2>1, <2>2, LifecycleAssumption DEF Needs, Waits
<1> QED BY <1>3, <1>4

LEMMA Typings ==
  ASSUME NEW S, NEW v \in Seq(S), NEW w \in Seq(S)
  PROVE  v \o w \in Seq(S) /\ (v # << >> => Tail(v) \in Seq(S) /\ Head(v) \in S)
OBVIOUS
-----------------------------------------------------------------------------
(* What the derivations of the state return. *)

LEMMA EventStateTyped ==
  ASSUME NEW e
  PROVE  EventState(e) \in TicketState
BY DEF EventState, PayloadState, Lookup, ReviewOutcome, ApprovalOutcome, TicketState

LEMMA StateTyped ==
  ASSUME NEW s, NEW t
  PROVE  DerivedState(s, t) \in TicketState
BY EventStateTyped DEF DerivedState, TicketState

LEMMA TrailingTyped ==
  ASSUME TypeOK
  PROVE  TrailingChanges \in Nat
<1> DEFINE S == { i \in DOMAIN log :
     /\ log[i].ticket = Plan
     /\ IsChanges(log[i])
     /\ \A j \in DOMAIN log :
          /\ j > i
          /\ log[j].ticket = Plan
          /\ log[j].type = "REVIEW_DECISION"
          => IsChanges(log[j]) }
<1>1. S \subseteq 1..Len(log) /\ Len(log) \in Nat
  BY DEF TypeOK
<1> HIDE DEF S
<1>2. IsFiniteSet(1..Len(log))
  BY <1>1, FS_Interval
<1>3. Cardinality(S) \in Nat
  BY <1>1, <1>2, FS_Subset, FS_CardinalityType
<1> USE DEF S
<1> QED BY <1>3 DEF TrailingChanges

(* The last change, once one is known to be it. *)
LEMMA LastChangeIs ==
  ASSUME TypeOK, NEW t, NEW i, LastOf(log, t, { "STATE_CHANGED" }, i)
  PROVE  LastChange(t) = log[i].arg
<1> DEFINE c == CHOOSE j \in DOMAIN log : LastOf(log, t, { "STATE_CHANGED" }, j)
<1>1. i \in DOMAIN log
  BY DEF LastOf
<1>2. LastOf(log, t, { "STATE_CHANGED" }, c)
  BY <1>1
<1>3. c = i
  BY <1>2 DEF LastOf, TypeOK
<1> QED BY <1>1, <1>3 DEF LastChange, LastChangeIn

LEMMA LastChangeFrom ==
  ASSUME NEW t, LastChange(t) # NoState
  PROVE  \E i : LastOf(log, t, { "STATE_CHANGED" }, i) /\ LastChange(t) = log[i].arg
BY DEF LastChange, LastChangeIn

LEMMA LastChangeTyped ==
  ASSUME TypeOK, NEW t
  PROVE  LastChange(t) \in Words \cup { NoState }
<1> SUFFICES ASSUME LastChange(t) # NoState
             PROVE  LastChange(t) \in Words
  OBVIOUS
<1>1. PICK i : LastOf(log, t, { "STATE_CHANGED" }, i) /\ LastChange(t) = log[i].arg
  BY LastChangeFrom
<1>2. i \in DOMAIN log /\ log \in Seq(Records)
  BY <1>1 DEF LastOf, TypeOK
<1>3. log[i] \in Records
  BY <1>2
<1> QED BY <1>1, <1>3 DEF Records

(* A set of positions of a sequence has a last one. *)
LEMMA LastPosition ==
  ASSUME NEW S, NEW s \in Seq(S), NEW T \in SUBSET (DOMAIN s), T # {}
  PROVE  \E k \in T : \A j \in T : j <= k
<1> DEFINE D == { Len(s) - k : k \in T }
<1>1. Len(s) \in Nat /\ T \subseteq 1..Len(s)
  OBVIOUS
<1>2. D \subseteq Nat /\ D # {}
  BY <1>1
<1>3. PICK d \in D : \A c \in D : << c, d >> \notin OpToRel(<, Nat)
  BY <1>2, NatLessThanWellFounded, WFMin, Zenon
<1>4. \A c \in D : ~(c < d)
  BY <1>2, <1>3 DEF OpToRel
<1>5. PICK k \in T : d = Len(s) - k
  OBVIOUS
<1>6. ASSUME NEW j \in T PROVE j <= k
  <2>1. Len(s) - j \in D
    OBVIOUS
  <2>2. ~(Len(s) - j < Len(s) - k)
    BY <2>1, <1>4, <1>5
  <2> QED BY <2>2, <1>1
<1> QED BY <1>6

(* The state is the one the last of the deriving events says. *)
LEMMA StateFrom ==
  ASSUME TypeOK, NEW t,
         \E i \in DOMAIN log : log[i].ticket = t /\ log[i].type \in DerivingTypes
  PROVE  \E k \in DOMAIN log : /\ LastOf(log, t, DerivingTypes, k)
                              /\ State(t) = EventState(log[k])
<1> DEFINE T == { i \in DOMAIN log : log[i].ticket = t /\ log[i].type \in DerivingTypes }
           c == CHOOSE i \in T : \A j \in T : j <= i
<1>1. T \in SUBSET (DOMAIN log) /\ T # {} /\ log \in Seq(Records)
  BY DEF TypeOK
<1>2. \E k \in T : \A j \in T : j <= k
  BY <1>1, LastPosition
<1>3. c \in T /\ \A j \in T : j <= c
  BY <1>2
<1>4. LastOf(log, t, DerivingTypes, c)
  BY <1>1, <1>3 DEF LastOf
<1>5. State(t) = EventState(log[c])
  BY <1>1 DEF State, DerivedState
<1> QED BY <1>1, <1>3, <1>4, <1>5

LEMMA StateKnown ==
  ASSUME NEW t, State(t) # "UNKNOWN"
  PROVE  \E i \in DOMAIN log : log[i].ticket = t /\ log[i].type \in DerivingTypes
BY DEF State, DerivedState
-----------------------------------------------------------------------------
(* What a call of emit makes of the bus: nothing, or one more event. *)

LEMMA EmittedTyped ==
  ASSUME NEW s \in Seq(Records), NEW r \in Calls
  PROVE  \/ Emitted(s, r) = s
         \/ \E e \in Records : /\ Emitted(s, r) = Append(s, e)
                               /\ Kind(e) = Kind(r) /\ e.rest = r.rest
                               /\ e.type = r.type /\ e.ticket = r.ticket
                               /\ e.arg = r.arg
<1>1. LastSeq(s) \in Nat
  <2>1. CASE Len(s) = 0
    BY <2>1 DEF LastSeq
  <2>2. CASE Len(s) # 0
    <3>1. s[Len(s)] \in Records
      BY <2>2
    <3> QED BY <2>2, <3>1 DEF LastSeq, Records
  <2> QED BY <2>1, <2>2
<1> DEFINE e == Stamp(r, LastSeq(s) + 1)
<1>2. /\ e \in Records
      /\ e.type = r.type /\ e.ticket = r.ticket /\ e.arg = r.arg /\ e.rest = r.rest
  BY <1>1 DEF Stamp, Calls, Records
<1>3. Kind(e) = Kind(r)
  BY <1>2 DEF Kind
<1> HIDE DEF e
<1>4. Emitted(s, r) = s \/ Emitted(s, r) = Append(s, e)
  BY DEF Emitted, e
<1> QED BY <1>2, <1>3, <1>4

(* Evidence is no work, so the reentry guard lets it pass, and a call that *)
(* is counted as a duplicate has its like in the bus.                      *)
LEMMA EvidencePasses ==
  ASSUME NEW s \in Seq(Records), NEW r \in Calls, Kind(r) \in Evidence
  PROVE  Occurs(Emitted(s, r), Kind(r))
<1>1. ReentryTarget(r) \notin WorkStates
  <2>1. \/ r.type = "REVIEW_DECISION" /\ r.arg = "approve"
        \/ r.type \in { "CLOSE_CONFIRMED", "SUPERVISOR_CLOSED" }
    BY DEF Kind, Evidence, Approval, Confirmation, Closed
  <2>2. CASE r.type = "REVIEW_DECISION" /\ r.arg = "approve"
    BY <2>2 DEF ReentryTarget, PayloadState, Lookup, ReviewOutcome, WorkStates
  <2>3. CASE r.type \in { "CLOSE_CONFIRMED", "SUPERVISOR_CLOSED" }
    BY <2>3 DEF ReentryTarget, PayloadState, WorkStates, NoState
  <2> QED BY <2>1, <2>2, <2>3
<1>2. CASE Emitted(s, r) = s
  <2>1. \/ DuplicateCount(s, r) >= MaxDuplicates
        \/ s = Append(s, Stamp(r, LastSeq(s) + 1))
    BY <1>1, <1>2 DEF Emitted, Refused, ReentryBlocked
  <2>2. s # Append(s, Stamp(r, LastSeq(s) + 1))
    OBVIOUS
  <2>3. RecentCopies(s, r) # {}
    <3>1. Cardinality({}) = 0
      BY FS_EmptySet
    <3>2. DuplicateCount(s, r) # 0
      BY <2>1, <2>2, LifecycleAssumption, BusAssumption
    <3> QED BY <3>1, <3>2 DEF DuplicateCount
  <2>4. PICK i \in DOMAIN s : SameEvent(s[i], r)
    BY <2>3 DEF RecentCopies
  <2>5. Kind(s[i]) = Kind(r)
    BY <2>4 DEF SameEvent, Kind
  <2> QED BY <1>2, <2>5 DEF Occurs
<1>3. CASE Emitted(s, r) # s
  <2>1. PICK e \in Records : Emitted(s, r) = Append(s, e) /\ Kind(e) = Kind(r)
    BY <1>3, EmittedTyped
  <2>2. /\ Len(s) + 1 \in DOMAIN Append(s, e)
        /\ Append(s, e)[Len(s) + 1] = e
    OBVIOUS
  <2> QED BY <2>1, <2>2 DEF Occurs
<1> QED BY <1>2, <1>3

(* Effects of emit. *)
LEMMA EmitsTyped ==
  ASSUME NEW t \in Tickets, NEW type \in EventTypes, NEW actor \in Actors,
         NEW arg \in Words, NEW rest \in Seq(Words)
  PROVE  LET e == Event4(t, type, actor, arg, rest)
         IN /\ e \in Effects
            /\ e.do = "emit" /\ e.event \in Calls
            /\ e.event.type = type /\ e.event.ticket = t
            /\ e.event.arg = arg /\ e.event.rest = rest
BY DEF Event4, Effects, Calls
-----------------------------------------------------------------------------
(* Effects that do no harm: what most steps give a process to do. *)

LEMMA NeedsIs ==
  ASSUME NEW e
  PROVE  /\ e.do = "emit" => Needs(e) = Precedents(e.event)
         /\ e.do \in { "activate", "load" } => Needs(e) = { Closed(Plan) }
         /\ e.do = "save" =>
              Needs(e) = { Closed(t) : t \in e.read.completed \cup { e.closed } }
         /\ e.do = "overwrite" =>
              Needs(e) = { Closed(t) : t \in e.read.completed \cup { Plan } }
         /\ e.do = "adopt" =>
              Needs(e) = { Closed(t) : t \in e.read.completed } \cup Waits(e.ticket)
         /\ e.do = "retire" =>
              Needs(e) = { Closed(t) : t \in e.read.completed }
         /\ e.do \notin { "emit", "activate", "load", "save", "overwrite", "adopt",
                           "retire" } => Needs(e) = {}
BY DEF Needs

LEMMA ModestOther ==
  ASSUME NEW e \in Effects, e.do # "emit"
  PROVE  e \in Modest
BY DEF Modest, Fair, Rejects, Emits

LEMMA ModestEvent ==
  ASSUME NEW t \in Tickets, NEW type \in EventTypes, NEW actor \in Actors,
         NEW arg \in Words, NEW rest \in Seq(Words),
         WellFormed(Event4(t, type, actor, arg, rest).event),
         type = "REVIEW_DECISION" => arg # "changes"
  PROVE  Event4(t, type, actor, arg, rest) \in Modest
<1> DEFINE e == Event4(t, type, actor, arg, rest)
<1>1. /\ e \in Effects /\ e.do = "emit"
      /\ e.event.type = type /\ e.event.arg = arg
  BY EmitsTyped
<1> HIDE DEF e
<1>2. ~Rejects(e)
  BY <1>1 DEF Rejects, Emits, Kind
<1>3. WellFormed(e.event)
  BY DEF e
<1>4. e \in Modest
  BY <1>1, <1>2, <1>3 DEF Modest, Fair
<1> QED BY <1>4 DEF e

(* Notes and changes of work: what they need is that the next ticket       *)
(* waits for the close of this one.                                        *)
LEMMA PlainEvent ==
  ASSUME NEW s, NEW t \in Tickets, NEW type \in EventTypes, NEW actor \in Actors,
         NEW arg \in Words, NEW rest \in Seq(Words),
         type = "STATE_CHANGED" =>
           arg \in TicketState \ { "READY_TO_CLOSE", "COMPLETED" },
         type \notin { "REVIEW_DECISION", "CLOSE_CONFIRMED", "SUPERVISOR_CLOSED" },
         type = "APPROVAL_RESOLVED" => arg = "expired",
         t = Following => Occurs(s, Closed(Plan))
  PROVE  Event4(t, type, actor, arg, rest) \in Provided(s)
<1> DEFINE e == Event4(t, type, actor, arg, rest)
<1>1. /\ e \in Effects /\ e.do = "emit"
      /\ e.event.type = type /\ e.event.arg = arg /\ e.event.ticket = t
  BY EmitsTyped
<1> HIDE DEF e
<1>2. WellFormed(e.event)
  BY <1>1 DEF WellFormed
<1>3. e \in Modest
  BY <1>2, ModestEvent DEF e
<1>4. Precedents(e.event) \subseteq (IF t = Following THEN { Closed(Plan) } ELSE {})
  BY <1>1 DEF Precedents, Closes, Kind
<1>5. \A k \in Needs(e) : Occurs(s, k)
  BY <1>1, <1>4, NeedsIs
<1>6. e \in Provided(s)
  BY <1>3, <1>5 DEF Provided
<1> QED BY <1>6 DEF e

LEMMA PlainOther ==
  ASSUME NEW s, NEW e \in Effects,
         e.do \notin { "emit", "activate", "load", "save", "overwrite", "adopt", "retire" }
  PROVE  e \in Provided(s)
BY ModestOther, NeedsIs DEF Provided

LEMMA ProvidedFulfilled ==
  ASSUME NEW s, NEW w \in Seq(Provided(s))
  PROVE  w \in Seq(Modest) /\ Fulfilled(s, w)
<1>1. \A i \in DOMAIN w : w[i] \in Modest /\ \A k \in Needs(w[i]) : Occurs(s, k)
  <2>1. \A i \in DOMAIN w : w[i] \in Provided(s)
    OBVIOUS
  <2> QED BY <2>1 DEF Provided
<1>2. w \in Seq(Modest)
  BY <1>1
<1> QED BY <1>1, <1>2 DEF Fulfilled
-----------------------------------------------------------------------------
(* What each effect gives its process to do next. *)

LEMMA Vocabulary ==
  /\ TicketState \subseteq Words /\ Tickets \subseteq Words
  /\ Plan \in Tickets /\ Following \in Tickets /\ Plan # Following
  /\ \A n \in Nat : Tally(n) \in Seq(Words)
  /\ \A a \in Words : << a >> \in Seq(Words)
<1>1. TicketState \subseteq Words /\ Tickets \subseteq Words /\ "1" \in Words
  BY DEF Words
<1>2. ASSUME NEW n \in Nat PROVE Tally(n) \in Seq(Words)
  <2>1. \A i \in 1..n : "1" \in Words
    BY <1>1
  <2>2. Tally(n) \in [ 1..n -> Words ]
    BY <2>1 DEF Tally
  <2> QED BY <2>2
<1>3. ASSUME NEW a \in Words PROVE << a >> \in Seq(Words)
  OBVIOUS
<1> QED BY <1>1, <1>2, <1>3, LifecycleAssumption

LEMMA RoundTyped ==
  ASSUME TypeOK
  PROVE  Round \in Seq(Words)
BY Vocabulary DEF Round, TypeOK

LEMMA NoteTyped ==
  ASSUME TypeOK, NEW a \in Words
  PROVE  << a >> \o Round \in Seq(Words)
BY RoundTyped, Vocabulary

LEMMA StatesTyped ==
  ASSUME TypeOK
  PROVE  /\ \A t : State(t) \in TicketState
         /\ view.status \in TicketState /\ view.turn \in Tickets
         /\ sup.active \in Tickets \cup { NoTicket }
         /\ sup.completed \subseteq Tickets
BY StateTyped DEF State, TypeOK, SupervisorState

LEMMA PlanEvent ==
  ASSUME TypeOK, NEW type \in EventTypes, NEW actor \in Actors,
         NEW arg \in Words, NEW rest \in Seq(Words),
         type = "STATE_CHANGED" =>
           arg \in TicketState \ { "READY_TO_CLOSE", "COMPLETED" },
         type \notin { "REVIEW_DECISION", "CLOSE_CONFIRMED", "SUPERVISOR_CLOSED" },
         type = "APPROVAL_RESOLVED" => arg = "expired"
  PROVE  Event4(Plan, type, actor, arg, rest) \in Provided(log)
BY PlainEvent, Vocabulary

LEMMA PlanChange ==
  ASSUME TypeOK, NEW actor \in Actors, NEW rest \in Seq(Words),
         NEW to \in TicketState \ { "READY_TO_CLOSE", "COMPLETED" }
  PROVE  Change(Plan, actor, to, rest) \in Provided(log)
<1>1. "STATE_CHANGED" \in EventTypes /\ to \in Words
  BY Vocabulary DEF EventTypes, DerivingTypes
<1> QED BY <1>1, PlanEvent DEF Change

LEMMA Shown ==
  ASSUME NEW s, NEW status \in TicketState
  PROVE  Show(status) \in Provided(s) /\ Log(status) \in Provided(s)
<1>1. /\ Show(status) \in Effects /\ Show(status).do = "show"
      /\ Log(status) \in Effects /\ Log(status).do = "log"
  BY DEF Show, Log, Effects
<1> QED BY <1>1, PlainOther

LEMMA Done ==
  ASSUME NEW s,
         NEW name \in { "ready", "decide", "gate", "backfill", "clear", "expire",
                        "project", "advance" }
  PROVE  Do(name) \in Provided(s)
<1>1. Do(name) \in Effects /\ Do(name).do = name
  BY DEF Do, Effects
<1> QED BY <1>1, PlainOther

LEMMA SyncMore ==
  ASSUME TypeOK, NEW p \in Processes, SyncReady(p)
  PROVE  \E more \in Seq(Provided(log)) : GoOn(p, more)
<1> DEFINE from == IF State(Plan) # "UNKNOWN" THEN State(Plan) ELSE view.status
           last == LastChange(Plan)
           fromLast == IF last # NoState THEN last ELSE view.status
           a == Change(Plan, "BUILDER", "READY_FOR_REVIEW", << from >> \o Round)
           b == Change(Plan, "SUPERVISOR", "READY_FOR_REVIEW", << fromLast >> \o Round)
           c == Show("READY_FOR_REVIEW")
           some == IF last # "READY_FOR_REVIEW" \/ from = "IN_PROGRESS"
                   THEN << a, b >> ELSE << >>
<1>1. from \in Words /\ fromLast \in Words
  BY StatesTyped, LastChangeTyped, Vocabulary
<1> HIDE DEF from, fromLast, last
<1>2. << from >> \o Round \in Seq(Words) /\ << fromLast >> \o Round \in Seq(Words)
  BY <1>1, RoundTyped, Vocabulary
<1>3. a \in Provided(log) /\ b \in Provided(log)
  BY <1>2, PlanChange DEF Actors, TicketState
<1>4. c \in Provided(log)
  BY Shown DEF TicketState
<1>5. GoOn(p, some \o << c >>)
  BY DEF SyncReady, from, fromLast, last
<1> HIDE DEF a, b, c
<1>6. some \o << c >> \in Seq(Provided(log))
  BY <1>3, <1>4
<1> QED BY <1>5, <1>6

LEMMA DecideMore ==
  ASSUME TypeOK, NEW p \in Processes, DecideChanges(p)
  PROVE  \E more \in Seq(Provided(log)) : GoOn(p, more)
<1> DEFINE to == IF TrailingChanges >= Threshold THEN "HUMAN_GATE" ELSE "IN_PROGRESS"
           rest == << view.status >> \o Tally(TrailingChanges)
           a == Change(Plan, "SUPERVISOR", to, rest)
           g == Do("gate")
           some == IF to = "HUMAN_GATE" THEN << g >> ELSE << >>
<1>1. rest \in Seq(Words)
  BY StatesTyped, TrailingTyped, Vocabulary
<1>2. to \in TicketState \ { "READY_TO_CLOSE", "COMPLETED" }
  BY DEF TicketState
<1>3. GoOn(p, << a >> \o some)
  BY DEF DecideChanges
<1> HIDE DEF to, rest
<1>4. a \in Provided(log)
  BY <1>1, <1>2, PlanChange DEF Actors
<1>5. g \in Provided(log)
  BY Done
<1> HIDE DEF a, g
<1>6. << a >> \o some \in Seq(Provided(log))
  BY <1>4, <1>5
<1> QED BY <1>3, <1>6

LEMMA BackfillMore ==
  ASSUME TypeOK, NEW p \in Processes, Backfill(p)
  PROVE  \E more \in Seq(Provided(log)) : GoOn(p, more)
<1> DEFINE a == Event4(Plan, "BUILDER_EXIT", "BUILDER", "", << "backfill" >>)
           some == IF RealExit THEN << >> ELSE << a >>
<1>0. /\ "BUILDER_EXIT" \in EventTypes /\ "BUILDER" \in Actors
      /\ "" \in Words /\ "backfill" \in Words
  BY DEF EventTypes, Actors, Words
<1>1. a \in Provided(log)
  BY <1>0, PlanEvent, Vocabulary
<1>2. GoOn(p, some)
  BY DEF Backfill
<1> HIDE DEF a
<1>3. some \in Seq(Provided(log))
  BY <1>1
<1> QED BY <1>2, <1>3

(* For every gate that expires: a change and a note, which carry its id. *)
LEMMA ExpireMore ==
  ASSUME TypeOK, NEW p \in Processes, Expire(p)
  PROVE  /\ \E more \in Seq(Provided(log)) : GoOn(p, more)
         /\ gates' \subseteq gates
<1>1. PICK n \in 0..Cardinality(gates) : \E ids \in [ 1..n -> gates ] :
         /\ gates' = gates \ Range(ids)
         /\ GoOn(p, [ i \in 1..(2 * n) |->
              LET id == Tally(ids[(i + 1) \div 2])
              IN IF i % 2 = 1
                 THEN Change(Plan, "SUPERVISOR", "BLOCKED", << State(Plan) >> \o id)
                 ELSE Event4(Plan, "APPROVAL_RESOLVED", "SUPERVISOR", "expired", id) ])
  BY DEF Expire
<1>2. PICK ids \in [ 1..n -> gates ] :
         /\ gates' = gates \ Range(ids)
         /\ GoOn(p, [ i \in 1..(2 * n) |->
              LET id == Tally(ids[(i + 1) \div 2])
              IN IF i % 2 = 1
                 THEN Change(Plan, "SUPERVISOR", "BLOCKED", << State(Plan) >> \o id)
                 ELSE Event4(Plan, "APPROVAL_RESOLVED", "SUPERVISOR", "expired", id) ])
  BY <1>1
<1> DEFINE Id(i) == Tally(ids[(i + 1) \div 2])
           c(i) == Change(Plan, "SUPERVISOR", "BLOCKED", << State(Plan) >> \o Id(i))
           a(i) == Event4(Plan, "APPROVAL_RESOLVED", "SUPERVISOR", "expired", Id(i))
           more == [ i \in 1..(2 * n) |-> IF i % 2 = 1 THEN c(i) ELSE a(i) ]
<1>3. GoOn(p, more)
  BY <1>2
<1>4. n \in Int
  OBVIOUS
<1>5. ASSUME NEW i \in 1..(2 * n) PROVE c(i) \in Provided(log) /\ a(i) \in Provided(log)
  <2>1. (i + 1) \div 2 \in 1..n
    BY <1>4
  <2>2. ids[(i + 1) \div 2] \in Nat
    BY <2>1 DEF TypeOK
  <2>3. Id(i) \in Seq(Words)
    BY <2>2, Vocabulary
  <2> HIDE DEF Id
  <2>4. << State(Plan) >> \o Id(i) \in Seq(Words)
    BY <2>3, StatesTyped, Vocabulary
  <2>5. /\ "APPROVAL_RESOLVED" \in EventTypes /\ "SUPERVISOR" \in Actors
        /\ "BLOCKED" \in TicketState /\ "expired" \in Words
    BY DEF EventTypes, DerivingTypes, Actors, TicketState, Words
  <2> QED BY <2>3, <2>4, <2>5, PlanChange, PlanEvent
<1> HIDE DEF c, a
<1>6. more \in [ 1..(2 * n) -> Provided(log) ]
  BY <1>5
<1>7. more \in Seq(Provided(log))
  BY <1>4, <1>6
<1> QED BY <1>2, <1>3, <1>7

LEMMA ActivateMore ==
  ASSUME TypeOK, NEW p \in Processes, ActivateNext(p), Occurs(log, Closed(Plan))
  PROVE  \E more \in Seq(Provided(log)) : GoOn(p, more)
<1> DEFINE a == Event4(Following, "HANDOFF_REQUESTED", "SUPERVISOR", "", << "BUILDER" >>)
           b == Event4(Following, "STATE_CHANGED", "SUPERVISOR", "IN_PROGRESS", << "supervisor" >>)
<1>1. /\ { "HANDOFF_REQUESTED", "STATE_CHANGED" } \subseteq EventTypes
      /\ "SUPERVISOR" \in Actors
      /\ { "", "BUILDER", "IN_PROGRESS", "supervisor" } \subseteq Words
  BY DEF EventTypes, DerivingTypes, Actors, TicketState, Words
<1>2. a \in Provided(log) /\ b \in Provided(log)
  BY <1>1, PlainEvent, Vocabulary DEF TicketState
<1>3. GoOn(p, << a, b >>)
  BY DEF ActivateNext, Change
<1> HIDE DEF a, b
<1>4. << a, b >> \in Seq(Provided(log))
  BY <1>2
<1> QED BY <1>3, <1>4

LEMMA LoadMore ==
  ASSUME TypeOK, NEW p \in Processes, LoadState(p), Occurs(log, Closed(Plan)), FilesInv
  PROVE  \E more \in Seq(Provided(log)) : GoOn(p, more)
<1> DEFINE e == [ do |-> "overwrite", read |-> sup ]
<1>1. e \in Effects /\ e.do = "overwrite" /\ e.read = sup
  BY DEF Effects, TypeOK
<1>2. GoOn(p, << e >>)
  BY DEF LoadState
<1> HIDE DEF e
<1>3. \A k \in Needs(e) : Occurs(log, k)
  BY <1>1, NeedsIs DEF FilesInv
<1>4. e \in Provided(log)
  BY <1>1, <1>3, ModestOther DEF Provided
<1>5. << e >> \in Seq(Provided(log))
  BY <1>4
<1> QED BY <1>2, <1>5
-----------------------------------------------------------------------------
(* What an orderly bus tells of its past. *)

LEMMA ClosedIs ==
  ASSUME Orderly(log), NEW t
  PROVE  HasEvent(t, "SUPERVISOR_CLOSED") <=> Occurs(log, Closed(t))
BY DEF HasEvent, Occurs, Closed, Kind, Orderly, WellFormed

LEMMA ConfirmedIs ==
  ASSUME Orderly(log), HasEvent(Plan, "CLOSE_CONFIRMED")
  PROVE  Occurs(log, Confirmation)
BY DEF HasEvent, Occurs, Confirmation, Kind, Orderly, WellFormed

LEMMA ApprovedIs ==
  ASSUME TypeOK, Orderly(log), LastChange(Plan) = "READY_TO_CLOSE"
  PROVE  \E k \in DOMAIN log :
           /\ LastOf(log, Plan, { "STATE_CHANGED" }, k)
           /\ Kind(log[k]) = << Plan, "STATE_CHANGED", "READY_TO_CLOSE" >>
           /\ \E j \in 1..(k - 1) : Kind(log[j]) = Approval
<1>1. PICK k : LastOf(log, Plan, { "STATE_CHANGED" }, k) /\ LastChange(Plan) = log[k].arg
  BY LastChangeFrom DEF NoState
<1>2. k \in DOMAIN log /\ Kind(log[k]) = << Plan, "STATE_CHANGED", "READY_TO_CLOSE" >>
  BY <1>1 DEF LastOf, Kind
<1>3. Approval \in Precedents(log[k])
  BY <1>2 DEF Precedents
<1>4. \E j \in 1..(k - 1) : Kind(log[j]) = Approval
  BY <1>2, <1>3 DEF Orderly
<1> QED BY <1>1, <1>2, <1>4

LEMMA FollowingIs ==
  ASSUME TypeOK, Orderly(log), NEW i \in DOMAIN log, log[i].ticket = Following
  PROVE  \E j \in 1..(i - 1) : Kind(log[j]) = Closed(Plan)
<1>1. Closed(Plan) \in Precedents(log[i])
  BY DEF Precedents
<1> QED BY <1>1 DEF Orderly

LEMMA EarlierOccurs ==
  ASSUME TypeOK, NEW i \in DOMAIN log, NEW k, \E j \in 1..(i - 1) : Kind(log[j]) = k
  PROVE  Occurs(log, k)
<1>1. \A j \in 1..(i - 1) : j \in DOMAIN log
  BY DEF TypeOK
<1> QED BY <1>1 DEF Occurs

(* The supervisor closes the next ticket when this one is closed, and this *)
(* one when it is approved and confirmed.                                  *)
LEMMA AdvanceMore ==
  ASSUME TypeOK, Orderly(log), FilesInv, NEW p \in Processes, Advance(p)
  PROVE  \E more \in Seq(Modest) : Fulfilled(log, more) /\ GoOn(p, more)
<1>1. CASE ~Closing
  <2>1. GoOn(p, << >>)
    BY <1>1 DEF Advance
  <2>2. << >> \in Seq(Modest) /\ Fulfilled(log, << >>)
    BY DEF Fulfilled
  <2> QED BY <2>1, <2>2
<1>2. CASE Closing
  <2> DEFINE t == sup.active
             a == Change(t, "SUPERVISOR", "COMPLETED", << "supervisor" >>)
             b == Event4(t, "SUPERVISOR_CLOSED", "SUPERVISOR", "", << "supervisor" >>)
             c == [ do |-> "save", read |-> sup, closed |-> t ]
             d == Do("activate")
             last == IF t = Plan THEN << d >> ELSE << >>
             more == << a, b, c >> \o last
  <2>1. GoOn(p, more)
    BY <1>2 DEF Advance, CloseSteps
  <2>2. t \in Tickets /\ sup.completed \subseteq Tickets
    BY <1>2, StatesTyped DEF Closing
  <2>3. /\ "SUPERVISOR_CLOSED" \in EventTypes /\ "STATE_CHANGED" \in EventTypes
        /\ "SUPERVISOR" \in Actors
        /\ "" \in Words /\ "COMPLETED" \in Words /\ "supervisor" \in Words
    BY DEF EventTypes, DerivingTypes, Actors, TicketState, Words
  <2>4. /\ a \in Effects /\ a.do = "emit" /\ Kind(a.event) = << t, "STATE_CHANGED", "COMPLETED" >>
        /\ WellFormed(a.event) /\ a.event.rest = << "supervisor" >>
    <3>1. << "supervisor" >> \in Seq(Words)
      BY <2>3, Vocabulary
    <3>2. /\ a \in Effects /\ a.do = "emit" /\ a.event.ticket = t
          /\ a.event.type = "STATE_CHANGED" /\ a.event.arg = "COMPLETED"
          /\ a.event.rest = << "supervisor" >>
      BY <2>2, <2>3, <3>1 DEF Change, Event4, Effects, Calls
    <3> QED BY <3>2 DEF Kind, WellFormed, TicketState
  <2>5. /\ b \in Effects /\ b.do = "emit" /\ Kind(b.event) = Closed(t)
        /\ WellFormed(b.event) /\ b.event.rest = << "supervisor" >>
    <3>1. << "supervisor" >> \in Seq(Words)
      BY <2>3, Vocabulary
    <3>2. /\ b \in Effects /\ b.do = "emit" /\ b.event.ticket = t
          /\ b.event.type = "SUPERVISOR_CLOSED" /\ b.event.arg = ""
          /\ b.event.rest = << "supervisor" >>
      BY <2>2, <2>3, <3>1 DEF Event4, Effects, Calls
    <3> QED BY <3>2 DEF Kind, WellFormed, Closed
  <2>6. a \in Modest /\ b \in Modest
    BY <2>2, <2>3, <2>4, <2>5, ModestEvent, Vocabulary DEF Change
  <2>7. c \in Effects /\ c.do = "save" /\ d \in Effects /\ d.do = "activate"
    BY <2>2 DEF Effects, TypeOK, Do
  <2>8. c \in Modest /\ d \in Modest
    BY <2>7, ModestOther
  <2>9. \A k \in Precedents(a.event) \cup Precedents(b.event) : Occurs(log, k)
    <3>1. CASE t = Plan
      <4>1. Occurs(log, Confirmation)
        BY <1>2, <3>1, ConfirmedIs DEF Closing
      <4>2. Occurs(log, Approval)
        BY <1>2, <3>1, ApprovedIs, EarlierOccurs DEF Closing
      <4>3. a.event.ticket = Plan /\ b.event.ticket = Plan
        BY <2>4, <2>5, <3>1 DEF Kind, Closed
      <4>4. Precedents(a.event) \cup Precedents(b.event) \subseteq { Approval, Confirmation }
        <5>0. << "supervisor" >> # Repeated
          BY DEF Repeated
        <5>1. a.event.rest # Repeated /\ b.event.rest # Repeated
          BY <2>4, <2>5, <5>0
        <5> QED BY <2>4, <2>5, <4>3, <5>1, Vocabulary DEF Precedents, Kind, Closed
      <4> QED BY <4>1, <4>2, <4>4
    <3>2. CASE t = Following
      <4>1. Occurs(log, Closed(Plan))
        BY <3>2 DEF FilesInv
      <4>2. a.event.ticket = Following /\ b.event.ticket = Following
        BY <2>4, <2>5, <3>2 DEF Kind, Closed
      <4>3. Precedents(a.event) \cup Precedents(b.event) \subseteq { Closed(Plan) }
        BY <4>2, Vocabulary DEF Precedents, Kind, Closes
      <4> QED BY <4>1, <4>3
    <3> QED BY <2>2, <3>1, <3>2, LifecycleAssumption
  <2>10. \A k \in Needs(c) : Occurs(log, k) \/ k = Closed(t)
    <3>1. Needs(c) = { Closed(u) : u \in sup.completed \cup { t } }
      BY <2>7, NeedsIs
    <3> QED BY <3>1 DEF FilesInv
  <2>11. t = Plan => Needs(d) = { Closed(t) }
    BY <2>7, NeedsIs
  <2>12. Needs(a) = Precedents(a.event) /\ Needs(b) = Precedents(b.event)
    BY <2>4, <2>5, NeedsIs
  <2>13. Emits(b, Closed(t))
    BY <2>5 DEF Emits
  <2> HIDE DEF a, b, c, d, t
  <2>14. more \in Seq(Modest)
    BY <2>6, <2>8
  <2>15. Fulfilled(log, more)
    <3> SUFFICES ASSUME NEW i \in DOMAIN more, NEW k \in Needs(more[i])
                 PROVE  Occurs(log, k) \/ \E j \in 1..(i - 1) : Emits(more[j], k)
      BY DEF Fulfilled
    <3>1. \/ i \in 1..2 /\ more[i] \in { a, b }
          \/ i = 3 /\ more[i] = c
          \/ i = 4 /\ more[i] = d /\ t = Plan
      OBVIOUS
    <3>2. more[2] = b
      OBVIOUS
    <3> HIDE DEF more
    <3>3. CASE i \in 1..2 /\ more[i] \in { a, b }
      BY <3>3, <2>9, <2>12
    <3>4. CASE i = 3 /\ more[i] = c
      BY <3>4, <2>10, <3>2, <2>13
    <3>5. CASE i = 4 /\ more[i] = d /\ t = Plan
      BY <3>5, <2>11, <3>2, <2>13
    <3> QED BY <3>1, <3>3, <3>4, <3>5
  <2> QED BY <2>1, <2>14, <2>15
<1> QED BY <1>1, <1>2
-----------------------------------------------------------------------------
(* What an effect does to the list of effects it is the head of. *)

GoesOn(p) ==
  \E more \in Seq(Modest) : /\ Fulfilled(log, more)
                            /\ Doing(p, "emit") => more = << >>
                            /\ GoOn(p, more)

Quits(p) == work' = [work EXCEPT ![p] = << >>]

LEMMA HeadTyped ==
  ASSUME TypeOK, NEW p \in Processes, work[p] # << >>
  PROVE  Head(work[p]) \in Effects /\ work[p] \in Seq(Effects)
<1>1. work[p] \in Seq(Effects)
  BY DEF TypeOK
<1> QED BY <1>1

LEMMA HeadNeeds ==
  ASSUME TypeOK, WorkInv, NEW p \in Processes, work[p] # << >>,
         NEW k \in Needs(Head(work[p]))
  PROVE  Occurs(log, k)
<1>1. 1 \in DOMAIN work[p] /\ work[p][1] = Head(work[p])
  BY HeadTyped
<1>2. ~ \E j \in 1..(1 - 1) : Emits(work[p][j], k)
  OBVIOUS
<1> QED BY <1>1, <1>2 DEF WorkInv, Fulfilled

LEMMA ProvidedGoesOn ==
  ASSUME NEW p \in Processes, ~Doing(p, "emit"),
         \E more \in Seq(Provided(log)) : GoOn(p, more)
  PROVE  GoesOn(p)
BY ProvidedFulfilled DEF GoesOn

LEMMA NothingGoesOn ==
  ASSUME NEW p \in Processes, GoOn(p, << >>)
  PROVE  GoesOn(p)
<1>1. << >> \in Seq(Modest) /\ Fulfilled(log, << >>)
  BY DEF Fulfilled
<1> QED BY <1>1 DEF GoesOn

(* A save goes on with what is next, or finds another revision and quits.  *)
LEMMA SaveMore ==
  ASSUME NEW p \in Processes, ~Doing(p, "emit"),
         NEW read, NEW new, NEW more \in Seq(Provided(log)), Save(p, read, new, more)
  PROVE  GoesOn(p) \/ Quits(p)
<1>1. GoOn(p, more) => GoesOn(p)
  BY ProvidedGoesOn
<1> QED BY <1>1 DEF Save, Quits

LEMMA AdoptMore ==
  ASSUME LifeInv, NEW p \in Processes, Adopt(p)
  PROVE  /\ GoesOn(p) \/ Quits(p)
         /\ \E new \in SupervisorState :
              /\ sup' \in { sup, new }
              /\ \A t \in new.completed : Occurs(log, Closed(t))
              /\ new.active = Following => Occurs(log, Closed(Plan))
         /\ up' \in { up, FALSE }
<1> DEFINE e == Head(work[p])
           new == [ e.read EXCEPT !.active = e.ticket, !.saved = TRUE ]
           told == \E i \in DOMAIN log : /\ log[i].type = "SUPERVISOR_RECONCILED"
                                         /\ log[i].ticket = e.ticket
                                         /\ log[i].rest = << e.read.active >>
           quiet == e.read.active = NoTicket \/ told
           a == Event4(e.ticket, "SUPERVISOR_RECONCILED", "SUPERVISOR", "", << e.read.active >>)
           r == [ do |-> "retire", read |-> new ]
           more == (IF quiet THEN << >> ELSE << a >>) \o << r >>
<1>1. Save(p, e.read, new, more)
  BY DEF Adopt
<1>2. work[p] # << >> /\ e.do = "adopt" /\ ~Doing(p, "emit")
  BY DEF Adopt, Doing
<1>3. e \in Effects /\ \A k \in Needs(e) : Occurs(log, k)
  BY <1>2, HeadTyped, HeadNeeds DEF LifeInv
<1>4. /\ \A t \in e.read.completed : Occurs(log, Closed(t))
      /\ e.ticket = Following => Occurs(log, Closed(Plan))
  BY <1>2, <1>3, NeedsIs DEF Waits
<1>5. e.read \in SupervisorState /\ e.ticket \in Tickets
  BY <1>2, <1>3 DEF Effects
<1>6. << e.read.active >> \in Seq(Words)
  <2>1. e.read.active \in Words
    BY <1>5, Vocabulary DEF SupervisorState, Words
  <2> QED BY <2>1
<1> HIDE DEF e, quiet
<1>7. /\ new \in SupervisorState /\ new.active = e.ticket
      /\ new.completed = e.read.completed
  BY <1>5 DEF SupervisorState
<1> HIDE DEF new
<1>8. /\ "SUPERVISOR_RECONCILED" \in EventTypes /\ "SUPERVISOR" \in Actors
      /\ "" \in Words
  BY DEF EventTypes, Actors, Words
<1>9. a \in Provided(log)
  BY <1>4, <1>5, <1>6, <1>8, PlainEvent
<1>10. r \in Effects /\ r.do = "retire" /\ r.read = new
  BY <1>7 DEF Effects
<1> HIDE DEF a, r
<1>11. r \in Provided(log)
  BY <1>4, <1>7, <1>10, NeedsIs, ModestOther DEF Provided
<1>12. more \in Seq(Provided(log))
  BY <1>9, <1>11
<1> HIDE DEF more
<1>13. sup' \in { sup, new } /\ up' \in { up, FALSE }
  BY <1>1 DEF Save
<1> QED BY <1>1, <1>2, <1>4, <1>7, <1>12, <1>13, SaveMore

LEMMA RetireMore ==
  ASSUME LifeInv, NEW p \in Processes, Retire(p)
  PROVE  /\ GoesOn(p) \/ Quits(p)
         /\ \E new \in SupervisorState :
              /\ sup' \in { sup, new }
              /\ \A t \in new.completed : Occurs(log, Closed(t))
              /\ new.active = Following => Occurs(log, Closed(Plan))
         /\ up' \in { up, FALSE }
<1> DEFINE e == Head(work[p])
           new == [ e.read EXCEPT !.active = NoTicket ]
<1>1. \/ Save(p, e.read, new, << >>)
      \/ GoOn(p, << >>) /\ UNCHANGED << sup, up >>
  BY DEF Retire
<1>2. work[p] # << >> /\ e.do = "retire" /\ ~Doing(p, "emit")
  BY DEF Retire, Doing
<1>3. e \in Effects /\ \A k \in Needs(e) : Occurs(log, k)
  BY <1>2, HeadTyped, HeadNeeds DEF LifeInv
<1>4. \A t \in e.read.completed : Occurs(log, Closed(t))
  BY <1>2, <1>3, NeedsIs
<1>5. e.read \in SupervisorState
  BY <1>2, <1>3 DEF Effects
<1> HIDE DEF e
<1>6. /\ new \in SupervisorState /\ new.active # Following
      /\ new.completed = e.read.completed
  BY <1>5, Vocabulary, LifecycleAssumption DEF SupervisorState
<1> HIDE DEF new
<1>7. << >> \in Seq(Provided(log))
  OBVIOUS
<1>8. GoesOn(p) \/ Quits(p)
  BY <1>1, <1>2, <1>7, SaveMore, NothingGoesOn
<1>9. sup' \in { sup, new } /\ up' \in { up, FALSE }
  BY <1>1 DEF Save
<1> QED BY <1>4, <1>6, <1>8, <1>9

LEMMA SavedMore ==
  ASSUME LifeInv, NEW p \in Processes, SaveClosed(p)
  PROVE  /\ GoesOn(p) \/ Quits(p)
         /\ \E new \in SupervisorState :
              /\ sup' \in { sup, new }
              /\ \A t \in new.completed : Occurs(log, Closed(t))
              /\ new.active = Following => Occurs(log, Closed(Plan))
         /\ up' \in { up, FALSE }
<1> DEFINE e == Head(work[p])
           done == e.read.completed \cup { e.closed }
           new == [ active |-> NoTicket, completed |-> done, saved |-> TRUE ]
<1>1. Save(p, e.read, new, << >>)
  BY DEF SaveClosed
<1>2. work[p] # << >> /\ e.do = "save" /\ ~Doing(p, "emit")
  BY DEF SaveClosed, Doing
<1>3. e \in Effects /\ \A k \in Needs(e) : Occurs(log, k)
  BY <1>2, HeadTyped, HeadNeeds DEF LifeInv
<1>4. \A t \in done : Occurs(log, Closed(t))
  BY <1>2, <1>3, NeedsIs
<1>5. done \in SUBSET Tickets
  BY <1>2, <1>3 DEF Effects, SupervisorState
<1> HIDE DEF e, done
<1>6. /\ new \in SupervisorState /\ new.active # Following /\ new.completed = done
  BY <1>5, Vocabulary, LifecycleAssumption DEF SupervisorState
<1> HIDE DEF new
<1>7. << >> \in Seq(Provided(log))
  OBVIOUS
<1>8. sup' \in { sup, new } /\ up' \in { up, FALSE }
  BY <1>1 DEF Save
<1> QED BY <1>1, <1>2, <1>4, <1>6, <1>7, <1>8, SaveMore

LEMMA EffectSteps ==
  ASSUME LifeInv, NEW p \in Processes, Effect(p)
  PROVE  /\ work[p] # << >>
         /\ GoesOn(p) \/ Quits(p)
         /\ UNCHANGED << looked, left, rejections >>
         /\ EmitEvent(p) \/ (log' = log /\ late' = late /\ ~Doing(p, "emit"))
<1> USE DEF LifeInv
<1>1. CASE \/ EmitEvent(p) \/ ShowStatus(p) \/ CreateGate(p) \/ ClearState(p)
           \/ Project(p) \/ OverwriteState(p)
  BY <1>1, NothingGoesOn
     DEF EmitEvent, ShowStatus, CreateGate, ClearState, Project, OverwriteState, Doing
<1>2. CASE SyncReady(p)
  BY <1>2, SyncMore, ProvidedGoesOn DEF SyncReady, Doing
<1>3. CASE DecideChanges(p)
  BY <1>3, DecideMore, ProvidedGoesOn DEF DecideChanges, Doing
<1>4. CASE Backfill(p)
  BY <1>4, BackfillMore, ProvidedGoesOn DEF Backfill, Doing
<1>5. CASE Expire(p)
  BY <1>5, ExpireMore, ProvidedGoesOn DEF Expire, Doing
<1>6. CASE Advance(p)
  BY <1>6, AdvanceMore DEF Advance, Doing, GoesOn
<1>7. CASE SaveClosed(p)
  BY <1>7, SavedMore DEF SaveClosed, Doing
<1>8. CASE ActivateNext(p)
  <2>1. Closed(Plan) \in Needs(Head(work[p])) /\ work[p] # << >>
    BY <1>8, NeedsIs DEF ActivateNext, Doing
  <2> QED BY <1>8, <2>1, HeadNeeds, ActivateMore, ProvidedGoesOn DEF ActivateNext, Doing
<1>9. CASE LoadState(p)
  <2>1. Closed(Plan) \in Needs(Head(work[p])) /\ work[p] # << >>
    BY <1>9, NeedsIs DEF LoadState, Doing
  <2> QED BY <1>9, <2>1, HeadNeeds, LoadMore, ProvidedGoesOn DEF LoadState, Doing
<1>10. CASE Adopt(p)
  BY <1>10, AdoptMore DEF Adopt, Doing
<1>11. CASE Retire(p)
  BY <1>11, RetireMore DEF Retire, Doing
<1> QED BY <1>1, <1>2, <1>3, <1>4, <1>5, <1>6, <1>7, <1>8, <1>9, <1>10, <1>11 DEF Effect
-----------------------------------------------------------------------------
(* What the commands give their processes to do. *)

Sound(p, w) ==
  /\ Fulfilled(log, w)
  /\ \/ w \in Seq(Modest)
     \/ p \in Deciders /\ w \in Seq(Fair) /\ LastChange(Plan) # "READY_TO_CLOSE"
  /\ p = "builder" => w \in Seq(Keeping) \/ State(Plan) # "HUMAN_GATE"

LEMMA ModestParts ==
  ASSUME NEW w \in Seq(Modest)
  PROVE  w \in Seq(Fair)
BY DEF Modest

LEMMA ProvidedSound ==
  ASSUME NEW p \in Processes, NEW w \in Seq(Provided(log)),
         p = "builder" => w \in Seq(Keeping) \/ State(Plan) # "HUMAN_GATE"
  PROVE  Sound(p, w)
BY ProvidedFulfilled DEF Sound

(* Python's None is no state. *)
LEMMA BusStateIs ==
  ASSUME TypeOK, BusState # "HUMAN_GATE"
  PROVE  State(Plan) # "HUMAN_GATE"
BY StateKnown DEF BusState

LEMMA ReopenTyped ==
  ASSUME NEW rest \in Seq(Words)
  PROVE  [ Change(Plan, "SUPERVISOR", "IN_PROGRESS", rest) EXCEPT !.event.reentry = TRUE ]
           \in Provided(log)
<1> DEFINE c == Change(Plan, "SUPERVISOR", "IN_PROGRESS", rest)
           e == [ c EXCEPT !.event.reentry = TRUE ]
<1>1. /\ "STATE_CHANGED" \in EventTypes /\ "SUPERVISOR" \in Actors
      /\ "IN_PROGRESS" \in Words
  BY DEF EventTypes, DerivingTypes, Actors, TicketState, Words
<1>2. /\ e.do = "emit" /\ e \in Effects
      /\ e.event.type = "STATE_CHANGED" /\ e.event.arg = "IN_PROGRESS"
      /\ e.event.ticket = Plan
  BY <1>1, Vocabulary DEF Change, Event4, Effects, Calls
<1> HIDE DEF c, e
<1>3. WellFormed(e.event)
  BY <1>2 DEF WellFormed, TicketState
<1>4. ~Rejects(e)
  BY <1>2 DEF Rejects, Emits, Kind
<1>5. e \in Modest
  BY <1>2, <1>3, <1>4 DEF Modest, Fair
<1>6. Precedents(e.event) = {}
  BY <1>2, Vocabulary DEF Precedents, Closes, Kind
<1>7. e \in Provided(log)
  BY <1>2, <1>5, <1>6, NeedsIs DEF Provided
<1> QED BY <1>7 DEF e, c

LEMMA HumanStarts ==
  ASSUME TypeOK, Bootstrap \/ ResumeHumanGate \/ Reopen
  PROVE  \E w : Sound("human", w) /\ Start("human", w)
<1>1. /\ "SUPERVISOR" \in Actors /\ "human" \in Processes
      /\ "bootstrap" \in Words /\ "reopen" \in Words /\ "resume" \in Words
      /\ "IN_PROGRESS" \in TicketState /\ "READY_FOR_REVIEW" \in TicketState
      /\ view.status \in Words
  BY StatesTyped, Vocabulary DEF Actors, Words, Processes, TicketState
<1>2. CASE Bootstrap
  <2> DEFINE a == Change(Plan, "SUPERVISOR", "IN_PROGRESS", << "bootstrap" >>)
  <2>1. << "bootstrap" >> \in Seq(Words)
    BY <1>1, Vocabulary
  <2>2. a \in Provided(log)
    BY <1>1, <2>1, PlanChange
  <2>3. Start("human", << a >>)
    BY <1>2 DEF Bootstrap
  <2> HIDE DEF a
  <2>4. << a >> \in Seq(Provided(log))
    BY <2>2
  <2> QED BY <1>1, <2>3, <2>4, ProvidedSound
<1>3. CASE ResumeHumanGate
  <2> DEFINE a == Change(Plan, "SUPERVISOR", "READY_FOR_REVIEW", << view.status, "resume" >>)
  <2>1. << view.status, "resume" >> \in Seq(Words)
    BY <1>1
  <2>2. a \in Provided(log)
    BY <1>1, <2>1, PlanChange
  <2>3. Start("human", << a >>)
    BY <1>3 DEF ResumeHumanGate
  <2> HIDE DEF a
  <2>4. << a >> \in Seq(Provided(log))
    BY <2>2
  <2> QED BY <1>1, <2>3, <2>4, ProvidedSound
<1>4. CASE Reopen
  <2> DEFINE a == [ Change(Plan, "SUPERVISOR", "IN_PROGRESS", << view.status, "reopen" >>)
                      EXCEPT !.event.reentry = TRUE ]
             b == Log("IN_PROGRESS")
  <2>1. << view.status, "reopen" >> \in Seq(Words)
    BY <1>1
  <2>2. a \in Provided(log) /\ b \in Provided(log)
    BY <1>1, <2>1, ReopenTyped, Shown
  <2>3. Start("human", << a, b >>)
    BY <1>4 DEF Reopen
  <2> HIDE DEF a, b
  <2>4. << a, b >> \in Seq(Provided(log))
    BY <2>2
  <2> QED BY <1>1, <2>3, <2>4, ProvidedSound
<1> QED BY <1>2, <1>3, <1>4

LEMMA BuilderNote ==
  ASSUME TypeOK, NEW type \in EventTypes, NEW arg \in Words, NEW rest \in Seq(Words),
         type \notin { "STATE_CHANGED", "REVIEW_DECISION", "CLOSE_CONFIRMED",
                       "SUPERVISOR_CLOSED", "APPROVAL_RESOLVED" }
  PROVE  Event4(Plan, type, "BUILDER", arg, rest) \in Provided(log) \cap Keeping
<1> DEFINE e == Event4(Plan, type, "BUILDER", arg, rest)
<1>1. "BUILDER" \in Actors
  BY DEF Actors
<1>2. e \in Provided(log)
  BY <1>1, PlanEvent
<1>3. e.do = "emit" /\ e.event.type = type
  BY DEF Event4
<1> HIDE DEF e
<1>4. e \in Keeping
  BY <1>2, <1>3 DEF Provided, Modest, Keeping
<1>5. e \in Provided(log) \cap Keeping
  BY <1>2, <1>4
<1> QED BY <1>5 DEF e

LEMMA ExitTyped ==
  ASSUME TypeOK, NEW why \in Words
  PROVE  BuilderExit(why) \in Provided(log)
<1>1. << why >> \o Round \in Seq(Words)
  BY RoundTyped, Vocabulary
<1>2. "BUILDER_EXIT" \in EventTypes /\ "" \in Words
  BY DEF EventTypes, Words
<1> QED BY <1>1, <1>2, BuilderNote DEF BuilderExit

LEMMA BuilderStarts ==
  ASSUME TypeOK, StaleShell \/ MarkReady \/ ContractGap
  PROVE  \E w : Sound("builder", w) /\ Start("builder", w)
<1>1. /\ "builder" \in Processes /\ "BUILDER" \in Actors
      /\ "stale" \in Words /\ "done" \in Words /\ "blocked" \in Words
      /\ "already" \in Words /\ "premise_false" \in Words /\ "" \in Words
      /\ "READY_FOR_REVIEW" \in TicketState \ { "READY_TO_CLOSE", "COMPLETED" }
  BY DEF Actors, Words, Processes, TicketState
<1>2. CASE StaleShell
  <2> DEFINE type == IF BusState \in PostSuccess THEN "STALE_BUILDER_ORPHAN"
                     ELSE "HANDOFF_BLOCKED"
             a == Event4(Plan, type, "BUILDER", "", << "stale" >> \o Round)
  <2>1. << "stale" >> \o Round \in Seq(Words)
    BY <1>1, NoteTyped
  <2>2. type \in EventTypes \ { "STATE_CHANGED", "REVIEW_DECISION", "CLOSE_CONFIRMED",
                                "SUPERVISOR_CLOSED", "APPROVAL_RESOLVED" }
    BY DEF EventTypes
  <2>3. Start("builder", << a >>)
    BY <1>2 DEF StaleShell
  <2> HIDE DEF type
  <2>4. a \in Provided(log) /\ a \in Keeping
    BY <1>1, <2>1, <2>2, BuilderNote
  <2> HIDE DEF a
  <2>5. << a >> \in Seq(Provided(log)) /\ << a >> \in Seq(Keeping)
    BY <2>4
  <2> QED BY <1>1, <2>3, <2>5, ProvidedSound
<1>3. CASE ContractGap
  <2> DEFINE a == Event4(Plan, "CONTRACT_GAP", "BUILDER", "premise_false", << >>)
  <2>1. << >> \in Seq(Words) /\ "CONTRACT_GAP" \in EventTypes
    BY DEF EventTypes, DerivingTypes
  <2>2. a \in Provided(log) /\ a \in Keeping
    BY <1>1, <2>1, BuilderNote
  <2>3. Start("builder", << a >>)
    BY <1>3 DEF ContractGap
  <2> HIDE DEF a
  <2>4. << a >> \in Seq(Provided(log)) /\ << a >> \in Seq(Keeping)
    BY <2>2
  <2> QED BY <1>1, <2>3, <2>4, ProvidedSound
<1>4. CASE MarkReady
  <2> DEFINE r == Do("ready")
             d == BuilderExit("done")
             b == BuilderExit("blocked")
             h == Event4(Plan, "HANDOFF_BLOCKED", "BUILDER", "", Round)
             c == Change(Plan, "BUILDER", "READY_FOR_REVIEW", << "already" >> \o Round)
  <2>1. r \in Provided(log) /\ d \in Provided(log) /\ b \in Provided(log)
    BY <1>1, Done, ExitTyped
  <2>2. "HANDOFF_BLOCKED" \in EventTypes
    BY DEF EventTypes
  <2>3. h \in Provided(log)
    BY <1>1, <2>2, RoundTyped, BuilderNote
  <2>4. << "already" >> \o Round \in Seq(Words)
    BY <1>1, NoteTyped
  <2>5. c \in Provided(log)
    BY <1>1, <2>4, PlanChange
  <2>6. \E w \in { << r >>, << d, r >>, << d >>, << h, b >>, << d, c >> } : Start("builder", w)
    BY <1>4 DEF MarkReady, ReadyEffects
  <2> HIDE DEF r, d, b, h, c
  <2>7. /\ << r >> \in Seq(Provided(log)) /\ << d, r >> \in Seq(Provided(log))
        /\ << d >> \in Seq(Provided(log)) /\ << h, b >> \in Seq(Provided(log))
        /\ << d, c >> \in Seq(Provided(log))
    BY <2>1, <2>3, <2>5
  <2>8. State(Plan) # "HUMAN_GATE"
    BY <1>4, BusStateIs DEF MarkReady, ReadyRefused
  <2>9. \E w \in Seq(Provided(log)) : Start("builder", w)
    BY <2>6, <2>7
  <2> QED BY <1>1, <2>8, <2>9, ProvidedSound
<1> QED BY <1>2, <1>3, <1>4

LEMMA OthersSay ==
  ASSUME NEW e, WellFormed(e), e.type \in DerivingTypes, e.type # "STATE_CHANGED"
  PROVE  EventState(e) \notin { "READY_FOR_REVIEW", "UNKNOWN" }
<1>1. CASE e.type \in { "CLOSE_CONFIRMED", "SUPERVISOR_CLOSED" }
  BY <1>1 DEF EventState
<1>2. CASE e.type = "CONTRACT_GAP"
  BY <1>2 DEF EventState
<1>3. CASE e.type = "REVIEW_DECISION"
  <2>1. e.arg \in DOMAIN ReviewOutcome
    BY <1>3 DEF WellFormed
  <2>2. EventState(e) = ReviewOutcome[e.arg]
    BY <1>3, <2>1 DEF EventState, PayloadState, Lookup
  <2> QED BY <2>1, <2>2 DEF ReviewOutcome
<1>4. CASE e.type = "APPROVAL_RESOLVED"
  <2>1. e.arg = "expired"
    BY <1>4 DEF WellFormed
  <2>2. EventState(e) = "BLOCKED"
    BY <1>4, <2>1 DEF EventState, PayloadState, Lookup, ApprovalOutcome
  <2> QED BY <2>2
<1> QED BY <1>1, <1>2, <1>3, <1>4 DEF DerivingTypes

(* A ticket that waits for its review, or has no events, is not ready to   *)
(* close: only its last change says that it waits.                         *)
LEMMA AwaitsReview ==
  ASSUME TypeOK, Orderly(log), BusState \in { "READY_FOR_REVIEW", NoState, "UNKNOWN" }
  PROVE  LastChange(Plan) # "READY_TO_CLOSE"
<1> SUFFICES ASSUME LastChange(Plan) = "READY_TO_CLOSE" PROVE FALSE
  OBVIOUS
<1>1. PICK i : /\ LastOf(log, Plan, { "STATE_CHANGED" }, i)
               /\ log[i].arg = "READY_TO_CLOSE"
  BY LastChangeFrom DEF NoState
<1>2. i \in DOMAIN log /\ log[i].ticket = Plan /\ log[i].type = "STATE_CHANGED"
  BY <1>1 DEF LastOf
<1>3. log[i].type \in DerivingTypes
  BY <1>2 DEF DerivingTypes
<1>4. PICK k \in DOMAIN log : /\ LastOf(log, Plan, DerivingTypes, k)
                              /\ State(Plan) = EventState(log[k])
  BY <1>2, <1>3, StateFrom
<1>5. EventState(log[k]) \in { "READY_FOR_REVIEW", "UNKNOWN" }
  <2>1. BusState = State(Plan)
    BY <1>2 DEF BusState
  <2>2. EventState(log[k]) \in TicketState
    BY EventStateTyped
  <2> QED BY <1>4, <2>1, <2>2 DEF TicketState, NoState
<1>6. log[k].ticket = Plan /\ log[k].type \in DerivingTypes /\ WellFormed(log[k])
  BY <1>4 DEF LastOf, Orderly
<1>7. log[k].type = "STATE_CHANGED"
  BY <1>5, <1>6, OthersSay
<1>8. EventState(log[k]) = log[k].arg
  BY <1>6, <1>7 DEF EventState, PayloadState, WellFormed
<1>9. k = i
  <2>1. ~(i > k)
    BY <1>2, <1>3, <1>4 DEF LastOf
  <2>2. ~(k > i)
    BY <1>1, <1>4, <1>6, <1>7 DEF LastOf
  <2> QED BY <1>2, <1>4, <2>1, <2>2 DEF TypeOK
<1> QED BY <1>1, <1>5, <1>8, <1>9

(* A decision on the ticket. *)
LEMMA DecisionTyped ==
  ASSUME NEW decision \in DOMAIN ReviewOutcome, NEW rest \in Seq(Words)
  PROVE  LET e == Event4(Plan, "REVIEW_DECISION", "MANAGER", decision, rest)
         IN /\ e \in Fair /\ Needs(e) = {}
            /\ Emits(e, << Plan, "REVIEW_DECISION", decision >>)
<1> DEFINE e == Event4(Plan, "REVIEW_DECISION", "MANAGER", decision, rest)
<1>1. /\ "REVIEW_DECISION" \in EventTypes /\ "MANAGER" \in Actors /\ decision \in Words
      /\ Plan \in Tickets
  BY Vocabulary DEF EventTypes, DerivingTypes, Actors, Words
<1>2. /\ e \in Effects /\ e.do = "emit" /\ e.event.ticket = Plan
      /\ e.event.type = "REVIEW_DECISION" /\ e.event.arg = decision
  BY <1>1, EmitsTyped
<1> HIDE DEF e
<1>3. e \in Fair /\ Emits(e, << Plan, "REVIEW_DECISION", decision >>)
  BY <1>2 DEF Fair, WellFormed, Emits, Kind
<1>4. Needs(e) = {}
  BY <1>2, NeedsIs, Vocabulary DEF Precedents, Closes, Kind
<1> QED BY <1>3, <1>4 DEF e

(* The cascade approves before it says so, and closes after both.          *)
LEMMA CascadeSound ==
  ASSUME NEW s
  PROVE  Cascade \in Seq(Modest) /\ Fulfilled(s, Cascade)
<1> DEFINE a == Event4(Plan, "REVIEW_DECISION", "MANAGER", "approve", << "manager-approve" >>)
           b == Change(Plan, "SUPERVISOR", "READY_TO_CLOSE", << "manager-approve" >>)
           c == Event4(Plan, "CLOSE_CONFIRMED", "SUPERVISOR", "", << "manager_closeout" >>)
           d == Change(Plan, "SUPERVISOR", "COMPLETED", << "manager-approve" >>)
           e == Event4(Plan, "SUPERVISOR_CLOSED", "SUPERVISOR", "", << "manager-approve" >>)
<1>0. Cascade = << a, b, c, d, e >>
  BY DEF Cascade
<1>1. /\ "STATE_CHANGED" \in EventTypes /\ "REVIEW_DECISION" \in EventTypes
      /\ "CLOSE_CONFIRMED" \in EventTypes /\ "SUPERVISOR_CLOSED" \in EventTypes
      /\ "SUPERVISOR" \in Actors /\ "MANAGER" \in Actors
      /\ "approve" \in Words /\ "READY_TO_CLOSE" \in Words /\ "" \in Words
      /\ "COMPLETED" \in Words
      /\ << "manager-approve" >> \in Seq(Words) /\ << "manager_closeout" >> \in Seq(Words)
      /\ Plan \in Tickets
  <2>1. "manager-approve" \in Words /\ "manager_closeout" \in Words
    BY DEF Words
  <2>2. << "manager-approve" >> \in Seq(Words)
    BY <2>1, Vocabulary
  <2>3. << "manager_closeout" >> \in Seq(Words)
    BY <2>1, Vocabulary
  <2> QED BY <2>2, <2>3, Vocabulary
          DEF EventTypes, DerivingTypes, Actors, Words, TicketState, ReviewOutcome
<1>2. /\ a \in Effects /\ a.do = "emit" /\ a.event.ticket = Plan
      /\ a.event.type = "REVIEW_DECISION" /\ a.event.arg = "approve"
  BY <1>1 DEF Event4, Effects, Calls
<1>3. /\ b \in Effects /\ b.do = "emit" /\ b.event.ticket = Plan
      /\ b.event.type = "STATE_CHANGED" /\ b.event.arg = "READY_TO_CLOSE"
  BY <1>1 DEF Change, Event4, Effects, Calls
<1>4. /\ c \in Effects /\ c.do = "emit" /\ c.event.ticket = Plan
      /\ c.event.type = "CLOSE_CONFIRMED" /\ c.event.arg = ""
  BY <1>1 DEF Event4, Effects, Calls
<1>5. /\ d \in Effects /\ d.do = "emit" /\ d.event.ticket = Plan
      /\ d.event.type = "STATE_CHANGED" /\ d.event.arg = "COMPLETED"
      /\ d.event.rest = << "manager-approve" >>
  BY <1>1 DEF Change, Event4, Effects, Calls
<1>6. /\ e \in Effects /\ e.do = "emit" /\ e.event.ticket = Plan
      /\ e.event.type = "SUPERVISOR_CLOSED" /\ e.event.arg = ""
      /\ e.event.rest = << "manager-approve" >>
  BY <1>1 DEF Event4, Effects, Calls
<1> HIDE DEF a, b, c, d, e
<1>7. a \in Modest /\ b \in Modest /\ c \in Modest /\ d \in Modest /\ e \in Modest
  BY <1>2, <1>3, <1>4, <1>5, <1>6
     DEF Modest, Fair, WellFormed, Rejects, Emits, Kind, TicketState, ReviewOutcome
<1>8. Cascade \in Seq(Modest)
  BY <1>0, <1>7
<1>9. Needs(a) = {} /\ Needs(b) = { Approval } /\ Needs(c) = {}
  BY <1>2, <1>3, <1>4, NeedsIs, Vocabulary DEF Precedents, Closes, Kind
<1>10. /\ Needs(d) \subseteq { Approval, Confirmation }
       /\ Needs(e) \subseteq { Approval, Confirmation }
  <2>0. << "manager-approve" >> # Repeated
    BY DEF Repeated
  <2>1. d.event.rest # Repeated /\ e.event.rest # Repeated
    BY <1>5, <1>6, <2>0
  <2> QED BY <1>5, <1>6, <2>1, NeedsIs, Vocabulary DEF Precedents, Closes, Kind
<1>11. Emits(a, Approval) /\ Emits(c, Confirmation)
  BY <1>2, <1>4 DEF Emits, Kind, Approval, Confirmation
<1>12. Fulfilled(s, Cascade)
  <2> SUFFICES ASSUME NEW i \in DOMAIN Cascade, NEW k \in Needs(Cascade[i])
               PROVE  \E j \in 1..(i - 1) : Emits(Cascade[j], k)
    BY DEF Fulfilled
  <2>1. \/ i = 1 /\ Cascade[i] = a
        \/ i = 2 /\ Cascade[i] = b
        \/ i = 3 /\ Cascade[i] = c
        \/ i \in 4..5 /\ Cascade[i] \in { d, e }
    BY <1>0
  <2>2. Cascade[1] = a /\ Cascade[3] = c
    BY <1>0
  <2>3. CASE i = 2 /\ Cascade[i] = b
    BY <2>3, <2>2, <1>9, <1>11
  <2>4. CASE i \in 4..5 /\ Cascade[i] \in { d, e }
    BY <2>4, <2>2, <1>10, <1>11
  <2> QED BY <2>1, <2>3, <2>4, <1>9
<1> QED BY <1>8, <1>12

LEMMA RejectStarts ==
  ASSUME TypeOK, Orderly(log), NEW p \in Deciders, RequestChanges(p)
  PROVE  \E w : Sound(p, w) /\ Start(p, w)
<1> DEFINE r == Event4(Plan, "REVIEW_DECISION", "MANAGER", "changes",
                       << "agent_controller" >>)
           d == Do("decide")
           w == (IF LatestIsChanges THEN << >> ELSE << r >>) \o << d >>
<1>0. p \in Processes /\ p # "builder"
  BY DEF Processes, Deciders
<1>1. Start(p, w)
  BY DEF RequestChanges
<1>2. d \in Provided(log)
  BY Done
<1>3. CASE LatestIsChanges
  <2>1. Start(p, << >> \o << d >>)
    BY <1>1, <1>3
  <2> HIDE DEF d
  <2>2. << >> \o << d >> \in Seq(Provided(log))
    BY <1>2
  <2> QED BY <1>0, <2>1, <2>2, ProvidedSound
<1>4. CASE ~LatestIsChanges
  <2>1. LastChange(Plan) # "READY_TO_CLOSE"
    BY <1>4, AwaitsReview DEF RequestChanges
  <2>2. << "agent_controller" >> \in Seq(Words)
    <3>1. "agent_controller" \in Words
      BY DEF Words
    <3> QED BY <3>1, Vocabulary
  <2>3. r \in Fair /\ Needs(r) = {}
    BY <2>2, DecisionTyped DEF ReviewOutcome
  <2>4. Start(p, << r >> \o << d >>)
    BY <1>1, <1>4
  <2> HIDE DEF r, d
  <2>5. d \in Fair /\ \A k \in Needs(d) : Occurs(log, k)
    BY <1>2 DEF Provided, Modest
  <2>6. << r >> \o << d >> \in Seq(Fair) /\ Fulfilled(log, << r >> \o << d >>)
    BY <2>3, <2>5 DEF Fulfilled
  <2> QED BY <1>0, <2>1, <2>4, <2>6 DEF Sound
<1> QED BY <1>3, <1>4

LEMMA EscalateStarts ==
  ASSUME TypeOK, NEW p \in Deciders, Escalate(p)
  PROVE  \E w : Sound(p, w) /\ Start(p, w)
<1> DEFINE a == Change(Plan, "SUPERVISOR", "HUMAN_GATE", << view.status, "inspect" >>)
           g == Do("gate")
<1>0. p \in Processes /\ p # "builder"
  BY DEF Processes, Deciders
<1>1. << view.status, "inspect" >> \in Seq(Words)
  <2>1. view.status \in Words /\ "inspect" \in Words
    BY StatesTyped, Vocabulary DEF Words, ReviewOutcome
  <2> QED BY <2>1
<1>2. a \in Provided(log) /\ g \in Provided(log)
  BY <1>1, PlanChange, Done DEF Actors, TicketState
<1>3. Start(p, << a, g >>)
  BY DEF Escalate
<1> HIDE DEF a, g
<1>4. << a, g >> \in Seq(Provided(log))
  BY <1>2
<1> QED BY <1>0, <1>3, <1>4, ProvidedSound

LEMMA ApproveStarts ==
  ASSUME TypeOK, ManagerApprove
  PROVE  \E w : Sound("manager", w) /\ Start("manager", w)
<1>0. "manager" \in Processes /\ "COMPLETED" \in TicketState
  BY DEF Processes, TicketState
<1> DEFINE b == Do("backfill")
           s == Show("COMPLETED")
           c == Do("clear")
<1>1. b \in Provided(log) /\ s \in Provided(log) /\ c \in Provided(log)
  BY <1>0, Done, Shown
<1>2. \/ Start("manager", << b, s >>)
      \/ Start("manager", << b >> \o Cascade \o << s >>)
      \/ Start("manager", Cascade \o << s, c >>)
  BY DEF ManagerApprove
<1> HIDE DEF b, s, c
<1>3. /\ << b, s >> \in Seq(Provided(log)) /\ << b >> \in Seq(Provided(log))
      /\ << s >> \in Seq(Provided(log)) /\ << s, c >> \in Seq(Provided(log))
  BY <1>1
<1>4. /\ << b >> \in Seq(Modest) /\ Fulfilled(log, << b >>)
      /\ << s >> \in Seq(Modest) /\ Fulfilled(log, << s >>)
      /\ << s, c >> \in Seq(Modest) /\ Fulfilled(log, << s, c >>)
  BY <1>3, ProvidedFulfilled
<1>5. Cascade \in Seq(Modest) /\ Fulfilled(log, Cascade)
  BY CascadeSound
<1>6. /\ << b >> \o Cascade \in Seq(Modest)
      /\ Fulfilled(log, << b >> \o Cascade)
  BY <1>4, <1>5, Typings, JoinFulfilled
<1>7. /\ (<< b >> \o Cascade) \o << s >> \in Seq(Modest)
      /\ Fulfilled(log, (<< b >> \o Cascade) \o << s >>)
  BY <1>4, <1>6, Typings, JoinFulfilled
<1>8. /\ Cascade \o << s, c >> \in Seq(Modest)
      /\ Fulfilled(log, Cascade \o << s, c >>)
  BY <1>4, <1>5, Typings, JoinFulfilled
<1>9. CASE Start("manager", << b, s >>)
  BY <1>0, <1>9, <1>3, ProvidedSound
<1> QED BY <1>2, <1>7, <1>8, <1>9 DEF Sound

(* A bridge's decision finds the ticket in review; its approval is written *)
(* before the readiness to close.                                          *)
LEMMA ReviewStarts ==
  ASSUME TypeOK, Review
  PROVE  \E w : Sound("bridge", w) /\ Start("bridge", w)
<1> DEFINE note == << "bridge" >> \o Tally(left.commands)
           a(decision) == Event4(Plan, "REVIEW_DECISION", "MANAGER", decision, note)
           b == Change(Plan, "SUPERVISOR", "READY_TO_CLOSE", << "bridge" >>)
<1>1. PICK decision \in DOMAIN ReviewOutcome :
        Start("bridge", << a(decision) >> \o (IF decision = "approve" THEN << b >> ELSE << >>))
  BY DEF Review
<1>2. LastChange(Plan) # "READY_TO_CLOSE" /\ "bridge" \in Deciders
  BY DEF Review, Deciders
<1>3. "bridge" \in Words
  BY DEF Words
<1>4. note \in Seq(Words) /\ << "bridge" >> \in Seq(Words)
  <2>1. left.commands \in Nat
    BY DEF TypeOK
  <2>2. Tally(left.commands) \in Seq(Words) /\ << "bridge" >> \in Seq(Words)
    BY <1>3, <2>1, Vocabulary
  <2> QED BY <2>2
<1> HIDE DEF note
<1>5. /\ a(decision) \in Fair /\ Needs(a(decision)) = {}
      /\ Emits(a(decision), << Plan, "REVIEW_DECISION", decision >>)
  BY <1>4, DecisionTyped
<1>6. /\ b \in Effects /\ b.do = "emit" /\ b.event.ticket = Plan
      /\ b.event.type = "STATE_CHANGED" /\ b.event.arg = "READY_TO_CLOSE"
  <2>1. /\ "STATE_CHANGED" \in EventTypes /\ "SUPERVISOR" \in Actors
        /\ "READY_TO_CLOSE" \in Words
    BY DEF EventTypes, DerivingTypes, Actors, TicketState, Words
  <2> QED BY <1>4, <2>1, Vocabulary DEF Change, Event4, Effects, Calls
<1> DEFINE c == a(decision)
<1> HIDE DEF a, b
<1>7. CASE decision = "approve"
  <2>1. /\ c \in Modest /\ Emits(c, Approval)
    BY <1>5, <1>7 DEF Modest, Rejects, Emits, Approval
  <2>2. b \in Modest /\ Needs(b) = { Approval }
    BY <1>6, NeedsIs, Vocabulary
       DEF Modest, Fair, WellFormed, Rejects, Emits, Kind, TicketState, Precedents, Closes
  <2>3. Start("bridge", << c >> \o << b >>)
    BY <1>1, <1>7
  <2>4. Needs(c) = {}
    BY <1>5
  <2> HIDE DEF c
  <2>5. << c >> \o << b >> \in Seq(Modest) /\ Fulfilled(log, << c >> \o << b >>)
    BY <2>1, <2>2, <2>4 DEF Fulfilled
  <2> QED BY <2>3, <2>5 DEF Sound
<1>8. CASE decision # "approve"
  <2>1. Start("bridge", << c >> \o << >>)
    BY <1>1, <1>8
  <2>2. c \in Fair /\ Needs(c) = {}
    BY <1>5
  <2> HIDE DEF c
  <2>3. << c >> \o << >> \in Seq(Fair) /\ Fulfilled(log, << c >> \o << >>)
    BY <2>2 DEF Fulfilled
  <2> QED BY <1>2, <2>1, <2>3 DEF Sound
<1> QED BY <1>7, <1>8

(* The close a bridge repeats is in the bus.                               *)
LEMMA RepeatStarts ==
  ASSUME TypeOK, Orderly(log), RepeatClose
  PROVE  \E w : Sound("bridge", w) /\ Start("bridge", w)
<1> DEFINE a == Change(Plan, "SUPERVISOR", "COMPLETED", Repeated)
<1>1. Start("bridge", << a >>)
  BY DEF RepeatClose
<1>2. Occurs(log, Closed(Plan))
  BY ClosedIs DEF RepeatClose
<1>3. /\ a \in Effects /\ a.do = "emit" /\ a.event.ticket = Plan
      /\ a.event.type = "STATE_CHANGED" /\ a.event.arg = "COMPLETED"
      /\ a.event.rest = Repeated
  <2>1. /\ "STATE_CHANGED" \in EventTypes /\ "SUPERVISOR" \in Actors
        /\ "COMPLETED" \in Words /\ "manager-review-guard" \in Words
    BY DEF EventTypes, DerivingTypes, Actors, TicketState, Words
  <2>2. Repeated \in Seq(Words)
    BY <2>1, Vocabulary DEF Repeated
  <2> QED BY <2>1, <2>2, Vocabulary DEF Change, Event4, Effects, Calls
<1> HIDE DEF a
<1>4. a \in Modest
  BY <1>3 DEF Modest, Fair, WellFormed, Rejects, Emits, Kind, TicketState
<1>5. Needs(a) = { Closed(Plan) }
  BY <1>3, NeedsIs, Vocabulary DEF Precedents, Closes, Kind
<1>6. << a >> \in Seq(Modest) /\ Fulfilled(log, << a >>)
  BY <1>2, <1>4, <1>5 DEF Fulfilled
<1> QED BY <1>1, <1>6 DEF Sound

(* A close by force needs no approval, and the load waits for the close.   *)
LEMMA LauncherStarts ==
  ASSUME TypeOK, Orderly(log), Reconcile
  PROVE  \E w : Sound("launcher", w) /\ Start("launcher", w)
<1> DEFINE open == State(Plan) \notin TerminalStates /\ LastChange(Plan) # "COMPLETED"
           closed == HasEvent(Plan, "SUPERVISOR_CLOSED")
           x == Event4(Plan, "BUILDER_EXIT", "BUILDER", "", Forced)
           y == Change(Plan, "SUPERVISOR", "COMPLETED", Forced)
           z == Event4(Plan, "SUPERVISOR_CLOSED", "SUPERVISOR", "", Forced)
           l == Do("load")
           xs == IF open /\ ~HasEvent(Plan, "BUILDER_EXIT") THEN << x >> ELSE << >>
           ys == IF open THEN << y >> ELSE << >>
           zs == IF closed THEN << >> ELSE << z >>
<1>0. /\ "launcher" \in Processes
      /\ "BUILDER_EXIT" \in EventTypes /\ "STATE_CHANGED" \in EventTypes
      /\ "SUPERVISOR_CLOSED" \in EventTypes
      /\ "BUILDER" \in Actors /\ "SUPERVISOR" \in Actors
      /\ "" \in Words /\ "COMPLETED" \in Words /\ "reconcile_ticket" \in Words
  BY DEF Processes, EventTypes, DerivingTypes, Actors, Words, TicketState
<1>1. Forced \in Seq(Words)
  BY <1>0, Vocabulary DEF Forced
<1>2. Start("launcher", (xs \o ys \o zs) \o << l >>)
  BY DEF Reconcile, Missing
<1>3. x \in Provided(log)
  BY <1>0, <1>1, BuilderNote
<1>4. /\ y \in Effects /\ y.do = "emit" /\ y.event.ticket = Plan
      /\ y.event.type = "STATE_CHANGED" /\ y.event.arg = "COMPLETED"
      /\ y.event.rest = Forced
  BY <1>0, <1>1, Vocabulary DEF Change, Event4, Effects, Calls
<1>5. /\ z \in Effects /\ z.do = "emit" /\ z.event.ticket = Plan
      /\ z.event.type = "SUPERVISOR_CLOSED" /\ z.event.arg = ""
      /\ z.event.rest = Forced
  BY <1>0, <1>1, Vocabulary DEF Event4, Effects, Calls
<1>6. l \in Effects /\ l.do = "load"
  BY DEF Do, Effects
<1> HIDE DEF x, y, z, l, open
<1>7. y \in Modest /\ z \in Modest /\ l \in Modest
  BY <1>4, <1>5, <1>6, ModestOther
     DEF Modest, Fair, WellFormed, Rejects, Emits, Kind, TicketState
<1>8. Needs(y) = {} /\ Needs(z) = {} /\ Needs(l) = { Closed(Plan) }
  <2>1. Forced # Repeated
    BY DEF Forced, Repeated
  <2> QED BY <1>4, <1>5, <1>6, <2>1, NeedsIs, Vocabulary DEF Precedents, Kind
<1>9. y \in Provided(log) /\ z \in Provided(log)
  BY <1>7, <1>8 DEF Provided
<1>10. xs \o ys \in Seq(Provided(log))
  BY <1>3, <1>9
<1>11. xs \o ys \in Seq(Modest) /\ Fulfilled(log, xs \o ys)
  BY <1>10, ProvidedFulfilled
<1>12. zs \o << l >> \in Seq(Modest)
  BY <1>7
<1>13. Fulfilled(log, zs \o << l >>)
  <2>1. CASE closed
    <3>1. Occurs(log, Closed(Plan))
      BY <2>1, ClosedIs
    <3>2. zs \o << l >> = << l >>
      BY <2>1
    <3> QED BY <1>8, <3>1, <3>2 DEF Fulfilled
  <2>2. CASE ~closed
    <3>0. << z >> \in Seq(Modest) /\ << l >> \in Seq(Modest)
      BY <1>7
    <3>1. /\ DOMAIN (zs \o << l >>) = 1..2
          /\ (zs \o << l >>)[1] = z /\ (zs \o << l >>)[2] = l
      BY <2>2, <3>0
    <3>2. Emits(z, Closed(Plan))
      BY <1>5 DEF Emits, Kind, Closed
    <3>3. 1 \in 1..(2 - 1)
      OBVIOUS
    <3> QED BY <1>8, <3>1, <3>2, <3>3 DEF Fulfilled
  <2> QED BY <2>1, <2>2
<1> HIDE DEF xs, ys, zs
<1>14. (xs \o ys) \o (zs \o << l >>) \in Seq(Modest)
  BY <1>11, <1>12, Typings
<1>15. Fulfilled(log, (xs \o ys) \o (zs \o << l >>))
  BY <1>11, <1>12, <1>13, JoinFulfilled
<1>16. (xs \o ys \o zs) \o << l >> = (xs \o ys) \o (zs \o << l >>)
  <2>1. xs \o ys \in Seq(Modest) /\ zs \in Seq(Modest) /\ << l >> \in Seq(Modest)
    BY <1>7, <1>11 DEF zs
  <2> QED BY <2>1
<1> QED BY <1>0, <1>2, <1>14, <1>15, <1>16 DEF Sound

LEMMA LoopStarts ==
  ASSUME TypeOK, RunOnce
  PROVE  \E w : Sound("supervisor", w) /\ work' = [work EXCEPT !["supervisor"] = w]
<1>1. LoopBody \in Seq(Provided(log))
  <2> DEFINE a == Do("expire")
             b == Do("project")
             c == Do("advance")
  <2>1. a \in Provided(log) /\ b \in Provided(log) /\ c \in Provided(log)
    BY Done
  <2> HIDE DEF a, b, c
  <2>2. << a, b, c >> \in Seq(Provided(log))
    BY <2>1
  <2> QED BY <2>2 DEF LoopBody, a, b, c
<1>2. "supervisor" \in Processes
  BY DEF Processes
<1> QED BY <1>1, <1>2, ProvidedSound DEF RunOnce

(* A supervisor that starts on the next ticket finds it in the bus, or in  *)
(* TURN.md.                                                                *)
LEMMA SupervisorStarts ==
  ASSUME TypeOK, Orderly(log), FilesInv, StartSupervisor
  PROVE  \E w : Sound("supervisor", w) /\ work' = [work EXCEPT !["supervisor"] = w]
<1> DEFINE target == CASE BusActive(Following) -> Following
                       [] BusActive(Plan) /\ ~BusActive(Following) -> Plan
                       [] OTHER -> view.turn
           a == [ do |-> "adopt", read |-> sup, ticket |-> target ]
           r == [ do |-> "retire", read |-> sup ]
           e == IF sup.active = target THEN r ELSE a
<1>1. work' = [ work EXCEPT !["supervisor"] = << e >> ]
  BY DEF StartSupervisor
<1>2. BusActive(Following) => Occurs(log, Closed(Plan))
  <2> SUFFICES ASSUME BusActive(Following) PROVE Occurs(log, Closed(Plan))
    OBVIOUS
  <2>1. PICK i \in DOMAIN log : log[i].ticket = Following
    BY StateKnown DEF BusActive
  <2> QED BY <2>1, FollowingIs, EarlierOccurs
<1>3. \/ target = Following /\ BusActive(Following)
      \/ target = Plan
      \/ target = view.turn
  OBVIOUS
<1>4. target \in Tickets
  BY <1>3, StatesTyped, Vocabulary
<1>5. target = Following => Occurs(log, Closed(Plan))
  BY <1>2, <1>3, Vocabulary DEF FilesInv
<1> HIDE DEF target
<1>6. /\ a \in Effects /\ a.do = "adopt" /\ a.read = sup /\ a.ticket = target
      /\ r \in Effects /\ r.do = "retire" /\ r.read = sup
  BY <1>4 DEF Effects, TypeOK
<1> HIDE DEF a, r
<1>7. a \in Provided(log) /\ r \in Provided(log)
  BY <1>5, <1>6, NeedsIs, ModestOther DEF Provided, FilesInv, Waits
<1>8. << e >> \in Seq(Provided(log)) /\ "supervisor" \in Processes
  BY <1>7 DEF Processes
<1> HIDE DEF e
<1> QED BY <1>1, <1>8, ProvidedSound

LEMMA CommandStarts ==
  ASSUME LifeInv, Command
  PROVE  \E p \in Processes : \E w : Sound(p, w) /\ Start(p, w)
<1> USE DEF LifeInv
<1>1. CASE Bootstrap \/ ResumeHumanGate \/ Reopen
  BY <1>1, HumanStarts DEF Processes
<1>2. CASE StaleShell \/ MarkReady \/ ContractGap
  BY <1>2, BuilderStarts DEF Processes
<1>3. CASE \E p \in Deciders : RequestChanges(p) \/ Escalate(p)
  BY <1>3, RejectStarts, EscalateStarts DEF Processes, Deciders
<1>4. CASE ManagerApprove
  BY <1>4, ApproveStarts DEF Processes
<1>5. CASE Review \/ RepeatClose
  BY <1>5, ReviewStarts, RepeatStarts DEF Processes
<1>6. CASE Reconcile
  BY <1>6, LauncherStarts DEF Processes
<1> QED BY <1>1, <1>2, <1>3, <1>4, <1>5, <1>6 DEF Command

LEMMA StartSteps ==
  ASSUME LifeInv, Command \/ RunOnce \/ StartSupervisor
  PROVE  /\ log' = log /\ late' = late
         /\ \E p \in Processes : \E w :
              /\ Sound(p, w)
              /\ work' = [work EXCEPT ![p] = w]
              /\ looked' = IF p \in Deciders \cup { "builder" }
                           THEN [looked EXCEPT ![p] = Len(log)] ELSE looked
<1> USE DEF LifeInv
<1>0. "supervisor" \in Processes \ (Deciders \cup { "builder" })
  BY DEF Processes, Deciders
<1>1. CASE RunOnce
  BY <1>0, <1>1, LoopStarts DEF RunOnce
<1>2. CASE StartSupervisor
  BY <1>0, <1>2, SupervisorStarts DEF StartSupervisor
<1>3. CASE Command
  BY <1>3, CommandStarts DEF Start
<1> QED BY <1>1, <1>2, <1>3
-----------------------------------------------------------------------------
(* One more event in the bus. *)

LEMMA AppendedOrderly ==
  ASSUME TypeOK, Orderly(log), NEW e \in Records, WellFormed(e),
         \A k \in Precedents(e) : Occurs(log, k)
  PROVE  Orderly(Append(log, e))
<1> DEFINE s == Append(log, e)
<1>1. /\ log \in Seq(Records) /\ Len(s) = Len(log) + 1 /\ DOMAIN s = 1..(Len(log) + 1)
      /\ DOMAIN log = 1..Len(log) /\ Len(log) \in Nat
      /\ s[Len(log) + 1] = e /\ \A i \in DOMAIN log : s[i] = log[i]
  BY DEF TypeOK
<1> HIDE DEF s
<1>2. ASSUME NEW i \in DOMAIN s
      PROVE  /\ WellFormed(s[i])
             /\ \A k \in Precedents(s[i]) : \E j \in 1..(i - 1) : Kind(s[j]) = k
  <2>1. CASE i \in DOMAIN log
    <3>1. s[i] = log[i] /\ \A j \in 1..(i - 1) : s[j] = log[j]
      BY <1>1, <2>1
    <3> QED BY <2>1, <3>1 DEF Orderly
  <2>2. CASE i = Len(log) + 1
    <3>1. s[i] = e /\ 1..(i - 1) = DOMAIN log
      BY <1>1, <2>2
    <3> QED BY <1>1, <3>1 DEF Occurs
  <2> QED BY <1>1, <2>1, <2>2
<1> QED BY <1>2 DEF Orderly, s

(* A new event takes nothing back, or is excused.                          *)
LEMMA AppendedExcused ==
  ASSUME TypeOK, NotTakenBack(log, late), NEW e \in Records,
         log' = Append(log, e), late \subseteq late',
         RejectsPlan(e) => Len(log) + 1 \in late'
  PROVE  NotTakenBack(log', late')
<1> DEFINE s == log'
           excused == late'
<1>1. /\ log \in Seq(Records) /\ DOMAIN s = 1..(Len(log) + 1)
      /\ DOMAIN log = 1..Len(log) /\ Len(log) \in Nat
      /\ s[Len(log) + 1] = e /\ \A i \in DOMAIN log : s[i] = log[i]
  BY DEF TypeOK
<1>2. NotTakenBack(s, excused) => NotTakenBack(log', late')
  OBVIOUS
<1>3. late \subseteq excused /\ (RejectsPlan(e) => Len(log) + 1 \in excused)
  OBVIOUS
<1> HIDE DEF s, excused
<1> SUFFICES ASSUME NEW k \in DOMAIN s,
                    LastOf(s, Plan, { "STATE_CHANGED" }, k), s[k].arg = "READY_TO_CLOSE",
                    NEW j \in DOMAIN s, j > k, RejectsPlan(s[j])
             PROVE  j \in excused
  BY <1>2 DEF NotTakenBack
<1>4. k \in DOMAIN log /\ s[k] = log[k]
  BY <1>1
<1>5. LastOf(log, Plan, { "STATE_CHANGED" }, k)
  BY <1>1, <1>4 DEF LastOf
<1>6. CASE j \in DOMAIN log
  BY <1>1, <1>4, <1>5, <1>6, <1>3 DEF NotTakenBack
<1>7. CASE j = Len(log) + 1
  BY <1>1, <1>3, <1>7
<1> QED BY <1>1, <1>6, <1>7

LEMMA WorkFair ==
  ASSUME DecidersInv, NEW p \in Processes
  PROVE  work[p] \in Seq(Fair)
BY ModestParts DEF DecidersInv

(* What a call writes is what the caller had to write. *)
LEMMA EmitWrites ==
  ASSUME LifeInv, NEW p \in Processes, EmitEvent(p)
  PROVE  \/ log' = log
         \/ \E e \in Records :
              /\ log' = Append(log, e)
              /\ WellFormed(e)
              /\ \A k \in Precedents(e) : Occurs(log, k)
              /\ Kind(e) = Kind(Head(work[p]).event)
<1> DEFINE h == Head(work[p])
<1>1. work[p] # << >> /\ h.do = "emit" /\ log' = Emitted(log, h.event)
  BY DEF EmitEvent, Doing
<1>2. h \in Fair
  <2>1. work[p] \in Seq(Fair)
    BY WorkFair DEF LifeInv
  <2> QED BY <1>1, <2>1
<1>3. WellFormed(h.event) /\ h.event \in Calls
  BY <1>1, <1>2 DEF Fair, Effects
<1>4. \A k \in Precedents(h.event) : Occurs(log, k)
  BY <1>1, NeedsIs, HeadNeeds DEF LifeInv
<1> HIDE DEF h
<1>5. ASSUME log' # log
      PROVE  \E e \in Records :
              /\ log' = Append(log, e)
              /\ WellFormed(e)
              /\ \A k \in Precedents(e) : Occurs(log, k)
              /\ Kind(e) = Kind(h.event)
  <2>1. log \in Seq(Records)
    BY DEF LifeInv, TypeOK
  <2>2. PICK e \in Records :
          /\ log' = Append(log, e)
          /\ Kind(e) = Kind(h.event) /\ e.rest = h.event.rest
          /\ e.type = h.event.type /\ e.ticket = h.event.ticket /\ e.arg = h.event.arg
    BY <1>1, <1>3, <1>5, <2>1, EmittedTyped
  <2>3. WellFormed(e)
    BY <1>3, <2>2 DEF WellFormed
  <2>4. Precedents(e) = Precedents(h.event)
    BY <2>2 DEF Precedents, Closes
  <2> QED BY <1>4, <2>2, <2>3, <2>4
<1> QED BY <1>5 DEF h
-----------------------------------------------------------------------------
(* Every step keeps the parts of the invariant. *)

LEMMA LogStep ==
  ASSUME LifeInv, [Next]_vars
  PROVE  \/ UNCHANGED << log, late >>
         \/ \E p \in Processes : EmitEvent(p) /\ log' # log
<1>1. ASSUME NEW p \in Processes, EmitEvent(p), log' = log
      PROVE  late' = late
  BY <1>1 DEF EmitEvent
<1> QED BY <1>1, StartSteps, EffectSteps DEF Next, vars, Crash

LEMMA OrderlyStep ==
  ASSUME LifeInv, [Next]_vars
  PROVE  /\ Orderly(log') /\ NotTakenBack(log', late')
         /\ late' \subseteq 1..Len(log')
<1>0. late \subseteq 1..Len(log) /\ log \in Seq(Records) /\ Len(log) \in Nat
  BY DEF LifeInv, TypeOK
<1>1. CASE UNCHANGED << log, late >>
  BY <1>0, <1>1 DEF LifeInv
<1>2. ASSUME NEW p \in Processes, EmitEvent(p), log' # log
      PROVE  /\ Orderly(log') /\ NotTakenBack(log', late')
             /\ late' \subseteq 1..Len(log')
  <2> DEFINE h == Head(work[p])
  <2>1. PICK e \in Records :
          /\ log' = Append(log, e)
          /\ WellFormed(e)
          /\ \A k \in Precedents(e) : Occurs(log, k)
          /\ Kind(e) = Kind(h.event)
    BY <1>2, EmitWrites
  <2>2. RejectsPlan(e) <=> RejectsPlan(h.event)
    BY <2>1 DEF RejectsPlan, IsChanges, Kind
  <2>3. Len(log') = Len(log) + 1
    BY <1>0, <2>1
  <2>4. late' = IF /\ RejectsPlan(h.event)
                   /\ LastChangeIn(Seen(p), Plan) # "READY_TO_CLOSE"
                THEN late \cup { Len(log) + 1 } ELSE late
    BY <1>2, <2>3 DEF EmitEvent
  <2>5. ASSUME RejectsPlan(e)
        PROVE  LastChangeIn(Seen(p), Plan) # "READY_TO_CLOSE"
    <3>1. Rejects(h) /\ work[p] # << >>
      BY <1>2, <2>2, <2>5 DEF Rejects, Emits, Kind, RejectsPlan, IsChanges, EmitEvent, Doing
    <3>2. work[p] \notin Seq(Modest)
      <4> SUFFICES ASSUME work[p] \in Seq(Modest) PROVE FALSE
        OBVIOUS
      <4>1. h \in Modest
        BY <3>1
      <4> QED BY <3>1, <4>1 DEF Modest
    <3> QED BY <3>2 DEF LifeInv, DecidersInv
  <2> HIDE DEF h
  <2>6. /\ late \subseteq late'
        /\ RejectsPlan(e) => Len(log) + 1 \in late'
        /\ late' \subseteq late \cup { Len(log) + 1 }
    BY <2>2, <2>4, <2>5
  <2>7. NotTakenBack(log', late')
    BY <2>1, <2>6, AppendedExcused DEF LifeInv
  <2>8. Orderly(log')
    BY <2>1, AppendedOrderly DEF LifeInv
  <2>9. late' \subseteq 1..Len(log')
    BY <1>0, <2>3, <2>6
  <2> QED BY <2>7, <2>8, <2>9
<1> QED BY <1>1, <1>2, LogStep

(* The rest of a list, and what is put before it, keep the list's kind.    *)
LEMMA GoesOnKind ==
  ASSUME TypeOK, NEW p \in Processes, work[p] # << >>, GoesOn(p) \/ Quits(p)
  PROVE  \E w : /\ work' = [work EXCEPT ![p] = w]
                /\ work[p] \in Seq(Modest) => w \in Seq(Modest)
                /\ work[p] \in Seq(Fair) => w \in Seq(Fair)
                /\ Doing(p, "emit") /\ work[p] \in Seq(Keeping) => w \in Seq(Keeping)
<1>1. CASE Quits(p)
  <2>1. << >> \in Seq(Modest) /\ << >> \in Seq(Fair) /\ << >> \in Seq(Keeping)
    OBVIOUS
  <2>2. work' = [work EXCEPT ![p] = << >>]
    BY <1>1 DEF Quits
  <2> WITNESS << >>
  <2> QED BY <2>1, <2>2
<1>2. CASE GoesOn(p)
  <2>1. PICK more \in Seq(Modest) : /\ Doing(p, "emit") => more = << >>
                                    /\ GoOn(p, more)
    BY <1>2 DEF GoesOn
  <2>2. work' = [work EXCEPT ![p] = more \o Tail(work[p])]
    BY <2>1 DEF GoOn, TypeOK
  <2>3. more \in Seq(Fair)
    BY ModestParts
  <2>4. ASSUME NEW S, work[p] \in Seq(S), more \in Seq(S)
        PROVE  more \o Tail(work[p]) \in Seq(S)
    <3>1. Tail(work[p]) \in Seq(S)
      BY <2>4
    <3> QED BY <2>4, <3>1
  <2>5. Doing(p, "emit") => more \in Seq(Keeping)
    BY <2>1
  <2> QED BY <2>2, <2>3, <2>4, <2>5
<1> QED BY <1>1, <1>2

(* What a process saw stays in the bus. *)
LEMMA BeginningKept ==
  ASSUME NEW S, NEW s \in Seq(S), NEW e \in S, NEW n \in 0..Len(s)
  PROVE  /\ SubSeq(Append(s, e), 1, n) = SubSeq(s, 1, n)
         /\ SubSeq(s, 1, Len(s)) = s
OBVIOUS

LEMMA LogGrows ==
  ASSUME TypeOK, NEW e \in Records, log' = Append(log, e)
  PROVE  /\ \A i \in DOMAIN log : i \in DOMAIN log' /\ log'[i] = log[i]
         /\ log' \in Seq(Records) /\ Len(log') = Len(log) + 1
BY DEF TypeOK

LEMMA LogShape ==
  ASSUME LifeInv, [Next]_vars
  PROVE  /\ \A i \in DOMAIN log : i \in DOMAIN log' /\ log'[i] = log[i]
         /\ log' \in Seq(Records) /\ Len(log') >= Len(log)
         /\ \A p \in Processes : SubSeq(log', 1, looked[p]) = Seen(p)
<1>0. /\ TypeOK /\ log \in Seq(Records) /\ Len(log) \in Nat
      /\ \A p \in Processes : looked[p] \in 0..Len(log)
  BY DEF LifeInv, TypeOK
<1>1. CASE log' = log
  BY <1>0, <1>1 DEF Seen
<1>2. CASE log' # log
  <2>1. PICK e \in Records : log' = Append(log, e)
    BY <1>2, LogStep, EmitWrites
  <2>2. \A p \in Processes : SubSeq(log', 1, looked[p]) = SubSeq(log, 1, looked[p])
    BY <1>0, <2>1, BeginningKept
  <2> QED BY <1>0, <2>1, <2>2, LogGrows DEF Seen
<1> QED BY <1>1, <1>2

LEMMA OccursKept ==
  ASSUME LifeInv, [Next]_vars, NEW k, Occurs(log, k)
  PROVE  Occurs(log', k)
BY LogShape DEF Occurs

(* What a command saw when it started, it saw to the end.                  *)
LEMMA SeenKept ==
  ASSUME LifeInv, [Next]_vars, NEW p \in Processes, NEW q \in Processes,
         \/ looked' = looked
         \/ log' = log /\ looked' = [looked EXCEPT ![p] = Len(log)]
  PROVE  Seen(q)' = Seen(q) \/ (q = p /\ Seen(q)' = log)
<1>0. looked \in [ Processes -> 0..Len(log) ] /\ log \in Seq(Records)
  BY DEF LifeInv, TypeOK
<1>1. CASE looked'[q] = looked[q]
  BY <1>1, LogShape DEF Seen
<1>2. CASE looked'[q] # looked[q]
  <2>1. q = p /\ log' = log /\ looked'[q] = Len(log)
    BY <1>0, <1>2
  <2>2. SubSeq(log, 1, Len(log)) = log
    BY <1>0
  <2> QED BY <2>1, <2>2 DEF Seen
<1> QED BY <1>1, <1>2

LEMMA DecidersKept ==
  ASSUME LifeInv, [Next]_vars, NEW p \in Processes, NEW w,
         work' = [work EXCEPT ![p] = w],
         \/ w \in Seq(Modest)
         \/ /\ w \in Seq(Fair) /\ looked' = looked
            /\ LastChangeIn(Seen(p), Plan) # "READY_TO_CLOSE"
         \/ /\ w \in Seq(Fair) /\ looked' = [looked EXCEPT ![p] = Len(log)]
            /\ LastChange(Plan) # "READY_TO_CLOSE",
         looked' = looked \/ (log' = log /\ looked' = [looked EXCEPT ![p] = Len(log)])
  PROVE  DecidersInv'
<1>1. \A q \in Processes : work'[q] = IF q = p THEN w ELSE work[q]
  BY DEF LifeInv, TypeOK
<1>2. ASSUME NEW q \in Processes, q # p
      PROVE  \/ work'[q] \in Seq(Modest)
             \/ work'[q] \in Seq(Fair) /\ LastChangeIn(Seen(q)', Plan) # "READY_TO_CLOSE"
  <2>1. Seen(q)' = Seen(q)
    BY <1>2, SeenKept
  <2> QED BY <1>1, <1>2, <2>1 DEF LifeInv, DecidersInv
<1>3. \/ w \in Seq(Modest)
      \/ w \in Seq(Fair) /\ LastChangeIn(Seen(p)', Plan) # "READY_TO_CLOSE"
  <2>1. CASE looked' = looked
    <3>1. Seen(p)' = Seen(p)
      BY <2>1, LogShape DEF Seen
    <3>2. looked' # [looked EXCEPT ![p] = Len(log)] \/ Seen(p) = log
      <4>1. looked \in [ Processes -> 0..Len(log) ] /\ log \in Seq(Records)
        BY DEF LifeInv, TypeOK
      <4>2. looked' = [looked EXCEPT ![p] = Len(log)] => looked[p] = Len(log)
        BY <2>1, <4>1
      <4>3. SubSeq(log, 1, Len(log)) = log
        BY <4>1
      <4> QED BY <4>2, <4>3 DEF Seen
    <3> QED BY <3>1, <3>2 DEF LastChange
  <2>2. CASE looked' # looked
    <3>1. log' = log /\ looked' = [looked EXCEPT ![p] = Len(log)]
      BY <2>2
    <3>2. looked \in [ Processes -> 0..Len(log) ] /\ log \in Seq(Records)
      BY DEF LifeInv, TypeOK
    <3>3. looked'[p] = Len(log) /\ SubSeq(log, 1, Len(log)) = log
      BY <3>1, <3>2
    <3>4. Seen(p)' = log
      BY <3>1, <3>3 DEF Seen
    <3> QED BY <2>2, <3>4 DEF LastChange
  <2> QED BY <2>1, <2>2
<1> QED BY <1>1, <1>2, <1>3 DEF DecidersInv

LEMMA BuilderKept ==
  ASSUME LifeInv, [Next]_vars, NEW p \in Processes, NEW w,
         work' = [work EXCEPT ![p] = w],
         p = "builder" =>
           \/ w \in Seq(Keeping)
           \/ looked' = looked /\ DerivedState(Seen("builder"), Plan) # "HUMAN_GATE"
           \/ /\ log' = log /\ looked' = [looked EXCEPT ![p] = Len(log)]
              /\ State(Plan) # "HUMAN_GATE",
         looked' = looked \/ (log' = log /\ looked' = [looked EXCEPT ![p] = Len(log)])
  PROVE  BuilderInv'
<1>0. /\ "builder" \in Processes
      /\ looked \in [ Processes -> 0..Len(log) ] /\ log \in Seq(Records)
  BY DEF Processes, LifeInv, TypeOK
<1>1. CASE p # "builder"
  <2>1. work'["builder"] = work["builder"]
    BY <1>0, <1>1 DEF LifeInv, TypeOK
  <2>2. Seen("builder")' = Seen("builder")
    BY <1>0, <1>1, SeenKept
  <2> QED BY <2>1, <2>2 DEF LifeInv, BuilderInv
<1>2. CASE p = "builder" /\ w \in Seq(Keeping)
  <2>1. work'["builder"] = w
    BY <1>0, <1>2 DEF LifeInv, TypeOK
  <2> QED BY <1>2, <2>1 DEF BuilderInv
<1>3. CASE looked' = looked /\ DerivedState(Seen("builder"), Plan) # "HUMAN_GATE"
  <2>1. Seen("builder")' = Seen("builder")
    BY <1>0, <1>3, LogShape DEF Seen
  <2> QED BY <1>3, <2>1 DEF BuilderInv
<1>4. CASE /\ p = "builder" /\ log' = log /\ looked' = [looked EXCEPT ![p] = Len(log)]
           /\ State(Plan) # "HUMAN_GATE"
  <2>1. looked'["builder"] = Len(log) /\ SubSeq(log, 1, Len(log)) = log
    BY <1>0, <1>4
  <2>2. Seen("builder")' = log
    BY <1>4, <2>1 DEF Seen
  <2> QED BY <1>4, <2>2 DEF BuilderInv, State
<1> QED BY <1>1, <1>2, <1>3, <1>4

LEMMA WorkKept ==
  ASSUME LifeInv, [Next]_vars, NEW p \in Processes, NEW w,
         work' = [work EXCEPT ![p] = w], Fulfilled(log', w)
  PROVE  WorkInv'
<1> SUFFICES ASSUME NEW q \in Processes PROVE Fulfilled(log', work'[q])
  BY DEF WorkInv
<1>1. CASE q = p
  BY <1>1 DEF LifeInv, TypeOK
<1>2. CASE q # p
  <2>1. work'[q] = work[q]
    BY <1>2 DEF LifeInv, TypeOK
  <2> QED BY <2>1, GrownKeeps, LogShape DEF LifeInv, WorkInv
<1> QED BY <1>1, <1>2

LEMMA TypedWork ==
  ASSUME TypeOK, DecidersInv', NEW p \in Processes, NEW w,
         work' = [work EXCEPT ![p] = w]
  PROVE  work' \in [ Processes -> Seq(Effects) ]
<1>1. \A q \in Processes : work'[q] \in Seq(Fair)
  BY ModestParts DEF DecidersInv
<1>2. \A v \in Seq(Fair) : v \in Seq(Effects)
  BY DEF Fair
<1>3. work' = [ q \in Processes |-> work'[q] ]
  BY DEF TypeOK
<1> QED BY <1>1, <1>2, <1>3

(* What is left of the list of effects has its needs met, too: an effect   *)
(* that is evidence for the others is in the bus when it is done.          *)
LEMMA GoesOnFulfilled ==
  ASSUME LifeInv, [Next]_vars, NEW p \in Processes, work[p] # << >>, GoesOn(p),
         EmitEvent(p) \/ (log' = log /\ ~Doing(p, "emit"))
  PROVE  \E w : work' = [work EXCEPT ![p] = w] /\ Fulfilled(log', w)
<1> DEFINE h == Head(work[p])
<1>1. PICK more \in Seq(Modest) : Fulfilled(log, more) /\ GoOn(p, more)
  BY DEF GoesOn
<1>2. work' = [work EXCEPT ![p] = more \o Tail(work[p])]
  BY <1>1 DEF GoOn, LifeInv, TypeOK
<1>3. work[p] \in Seq(Effects) /\ h \in Effects
  BY HeadTyped DEF LifeInv
<1>4. Fulfilled(log', work[p]) /\ Fulfilled(log', more)
  BY <1>1, GrownKeeps, LogShape DEF LifeInv, WorkInv
<1>5. ASSUME NEW k \in Evidence, Emits(h, k) PROVE Occurs(log', k)
  <2>1. h.do = "emit" /\ Kind(h.event) = k /\ h.event \in Calls
    BY <1>3, <1>5 DEF Emits, Effects
  <2>2. log' = Emitted(log, h.event)
    BY <2>1 DEF EmitEvent, Doing
  <2>3. log \in Seq(Records)
    BY DEF LifeInv, TypeOK
  <2> QED BY <1>5, <2>1, <2>2, <2>3, EvidencePasses
<1>6. \A i \in DOMAIN work[p] : Needs(work[p][i]) \subseteq Evidence
  <2>1. \A i \in DOMAIN work[p] : work[p][i] \in Effects
    BY <1>3
  <2> QED BY <2>1, NeedsEvidence
<1>7. Fulfilled(log', Tail(work[p]))
  BY <1>3, <1>4, <1>5, <1>6, RestFulfilled
<1>8. more \in Seq(Effects) /\ Tail(work[p]) \in Seq(Effects)
  <2>1. more \in Seq(Fair)
    BY ModestParts
  <2>2. more \in Seq(Effects)
    BY <2>1 DEF Fair
  <2> QED BY <1>3, <2>2
<1>9. Fulfilled(log', more \o Tail(work[p]))
  BY <1>4, <1>7, <1>8, JoinFulfilled
<1> QED BY <1>2, <1>9

LEMMA ListsStep ==
  ASSUME LifeInv, [Next]_vars
  PROVE  /\ WorkInv' /\ DecidersInv' /\ BuilderInv'
         /\ work' \in [ Processes -> Seq(Effects) ]
<1>1. CASE UNCHANGED vars
  BY <1>1 DEF vars, LifeInv, TypeOK, WorkInv, DecidersInv, BuilderInv, Seen
<1>2. CASE Command \/ RunOnce \/ StartSupervisor
  <2>0. PICK p \in Processes : \E w :
          /\ Sound(p, w)
          /\ work' = [work EXCEPT ![p] = w]
          /\ looked' = IF p \in Deciders \cup { "builder" }
                       THEN [looked EXCEPT ![p] = Len(log)] ELSE looked
    BY <1>2, StartSteps
  <2>1. PICK w :
          /\ Sound(p, w)
          /\ work' = [work EXCEPT ![p] = w]
          /\ looked' = IF p \in Deciders \cup { "builder" }
                       THEN [looked EXCEPT ![p] = Len(log)] ELSE looked
    BY <2>0
  <2>2. log' = log
    BY <1>2, StartSteps
  <2>3. WorkInv'
    BY <2>1, <2>2, WorkKept DEF Sound
  <2>4. DecidersInv'
    <3>1. \/ w \in Seq(Modest)
          \/ /\ w \in Seq(Fair) /\ looked' = [looked EXCEPT ![p] = Len(log)]
             /\ LastChange(Plan) # "READY_TO_CLOSE"
      BY <2>1 DEF Sound
    <3>2. looked' = looked \/ (log' = log /\ looked' = [looked EXCEPT ![p] = Len(log)])
      BY <2>1, <2>2
    <3> QED BY <2>1, <3>1, <3>2, DecidersKept
  <2>5. BuilderInv'
    BY <2>1, <2>2, BuilderKept DEF Sound
  <2> QED BY <2>1, <2>3, <2>4, <2>5, TypedWork DEF LifeInv
<1>3. ASSUME NEW p \in Processes, Effect(p) \/ Crash(p)
      PROVE  /\ WorkInv' /\ DecidersInv' /\ BuilderInv'
             /\ work' \in [ Processes -> Seq(Effects) ]
  <2>1. /\ work[p] # << >> /\ looked' = looked
        /\ GoesOn(p) \/ Quits(p)
        /\ EmitEvent(p) \/ (log' = log /\ (~Doing(p, "emit") \/ Quits(p)))
    BY <1>3, EffectSteps DEF Crash, Quits
  <2>2. PICK w :
          /\ work' = [work EXCEPT ![p] = w]
          /\ work[p] \in Seq(Modest) => w \in Seq(Modest)
          /\ work[p] \in Seq(Fair) => w \in Seq(Fair)
          /\ Doing(p, "emit") /\ work[p] \in Seq(Keeping) => w \in Seq(Keeping)
    BY <2>1, GoesOnKind DEF LifeInv
  <2>3. WorkInv'
    <3>1. CASE Quits(p)
      <4>1. Fulfilled(log', << >>)
        BY DEF Fulfilled
      <4> QED BY <3>1, <4>1, WorkKept DEF Quits
    <3>2. CASE GoesOn(p) /\ ~Quits(p)
      BY <2>1, <3>2, GoesOnFulfilled, WorkKept
    <3> QED BY <2>1, <3>1, <3>2
  <2>4. DecidersInv'
    <3>1. \/ w \in Seq(Modest)
          \/ w \in Seq(Fair) /\ LastChangeIn(Seen(p), Plan) # "READY_TO_CLOSE"
      BY <2>2 DEF LifeInv, DecidersInv
    <3> QED BY <2>1, <2>2, <3>1, DecidersKept
  <2>5. BuilderInv'
    <3>1. CASE p = "builder" /\ work[p] \in Seq(Keeping)
      <4>1. Head(work[p]) \in Keeping
        BY <2>1, <3>1
      <4>2. Doing(p, "emit")
        BY <2>1, <4>1 DEF Doing, Keeping
      <4>3. w \in Seq(Keeping)
        BY <2>2, <3>1, <4>2
      <4> QED BY <2>1, <2>2, <4>3, BuilderKept
    <3>2. CASE p = "builder" /\ work[p] \notin Seq(Keeping)
      BY <2>1, <2>2, <3>2, BuilderKept DEF LifeInv, BuilderInv
    <3>3. CASE p # "builder"
      BY <2>1, <2>2, <3>3, BuilderKept
    <3> QED BY <3>1, <3>2, <3>3
  <2> QED BY <2>2, <2>3, <2>4, <2>5, TypedWork DEF LifeInv
<1> QED BY <1>1, <1>2, <1>3 DEF Next

(* The files: what becomes active or completed is in the bus by then.      *)
LEMMA FilesStep ==
  ASSUME LifeInv, [Next]_vars
  PROVE  /\ FilesInv'
         /\ view' \in [ turn : Tickets, status : TicketState ]
         /\ sup' \in SupervisorState
<1> DEFINE Goal == /\ FilesInv'
                   /\ view' \in [ turn : Tickets, status : TicketState ]
                   /\ sup' \in SupervisorState
<1>0. /\ view \in [ turn : Tickets, status : TicketState ] /\ sup \in SupervisorState
      /\ Plan \in Tickets /\ Following \in Tickets /\ Plan # Following
      /\ NoTicket \notin Tickets
  BY Vocabulary, LifecycleAssumption DEF LifeInv, TypeOK
<1>1. FilesInv /\ \A k : Occurs(log, k) => Occurs(log', k)
  BY OccursKept DEF LifeInv
<1>2. CASE UNCHANGED << sup, view >>
  BY <1>0, <1>1, <1>2 DEF FilesInv
<1>3. CASE StartSupervisor
  BY <1>2, <1>3 DEF StartSupervisor
<1>4. ASSUME NEW p \in Processes, Effect(p), ~ UNCHANGED << sup, view >>
      PROVE  Goal
  <2> DEFINE h == Head(work[p])
  <2>0. /\ work[p] # << >> /\ h \in Effects
        /\ \A k \in Needs(h) : Occurs(log, k)
    BY <1>4, EffectSteps, HeadTyped, HeadNeeds DEF LifeInv
  <2>1. CASE ShowStatus(p)
    <3>1. h.status \in TicketState
      BY <2>0, <2>1 DEF ShowStatus, Doing, Effects
    <3> QED BY <1>0, <1>1, <2>1, <3>1 DEF ShowStatus, FilesInv
  <2>2. CASE Project(p)
    <3>1. State(sup.active) \in TicketState
      BY StatesTyped DEF LifeInv
    <3> QED BY <1>0, <1>1, <2>2, <3>1 DEF Project, FilesInv, SupervisorState
  <2>3. CASE ClearState(p)
    BY <1>0, <1>1, <2>3 DEF ClearState, FilesInv, SupervisorState, NoFile
  <2>5. CASE ActivateNext(p)
    <3>1. Closed(Plan) \in Needs(h)
      BY <2>5, NeedsIs DEF ActivateNext, Doing
    <3> QED BY <1>0, <1>1, <2>0, <2>5, <3>1 DEF ActivateNext, FilesInv, SupervisorState
  <2>6. CASE SaveClosed(p) \/ Adopt(p) \/ Retire(p)
    <3>1. PICK new \in SupervisorState :
            /\ sup' \in { sup, new }
            /\ \A t \in new.completed : Occurs(log, Closed(t))
            /\ new.active = Following => Occurs(log, Closed(Plan))
      BY <2>6, SavedMore, AdoptMore, RetireMore
    <3>2. view' = view
      BY <2>6 DEF SaveClosed, Adopt, Retire
    <3>3. CASE sup' = sup
      BY <1>2, <3>2, <3>3
    <3>4. CASE sup' = new
      BY <1>0, <1>1, <3>1, <3>2, <3>4 DEF FilesInv
    <3> QED BY <3>1, <3>3, <3>4
  <2>7. CASE OverwriteState(p)
    <3>1. h.do = "overwrite" /\ view' = view
      BY <2>7 DEF OverwriteState, Doing
    <3>2. h.read \in SupervisorState
      BY <2>0, <3>1 DEF Effects
    <3>3. Needs(h) = { Closed(t) : t \in h.read.completed \cup { Plan } }
      BY <3>1, NeedsIs
    <3>4. sup' = [ active |-> NoTicket,
                   completed |-> h.read.completed \cup { Plan },
                   saved |-> TRUE ]
      BY <2>7 DEF OverwriteState
    <3> HIDE DEF h
    <3> QED BY <1>0, <1>1, <2>0, <3>1, <3>2, <3>3, <3>4 DEF FilesInv, SupervisorState
  <2> QED BY <1>4, <2>1, <2>2, <2>3, <2>5, <2>6, <2>7
      DEF Effect, EmitEvent, SyncReady, DecideChanges, CreateGate, Backfill, Expire,
          Advance, LoadState
<1>5. CASE Command \/ RunOnce \/ (\E p \in Processes : Crash(p)) \/ UNCHANGED vars
  <2>1. UNCHANGED << sup, view >>
    BY <1>5 DEF Command, Bootstrap, StaleShell, MarkReady, ContractGap, RequestChanges,
                ManagerApprove, Review, RepeatClose, Escalate, ResumeHumanGate, Reopen,
                Reconcile, Start,
                RunOnce, Crash, vars
  <2> QED BY <1>2, <2>1
<1> QED BY <1>2, <1>3, <1>4, <1>5 DEF Next

LEMMA CountersStep ==
  ASSUME LifeInv, [Next]_vars
  PROVE  /\ gates' \subseteq Nat /\ up' \in BOOLEAN
         /\ looked' \in [ Processes -> 0..Len(log') ]
         /\ left' \in [ who : SUBSET Processes, commands : Nat, kills : Nat ]
         /\ rejections' \in Nat
<1>0. /\ gates \subseteq Nat /\ up \in BOOLEAN /\ looked \in [ Processes -> 0..Len(log) ]
      /\ left \in [ who : SUBSET Processes, commands : Nat, kills : Nat ]
      /\ rejections \in Nat /\ log \in Seq(Records) /\ Len(log) \in Nat
  BY DEF LifeInv, TypeOK
<1>1. log' \in Seq(Records) /\ Len(log') >= Len(log)
  BY LogShape
<1>2. CASE UNCHANGED vars
  BY <1>0, <1>2 DEF vars
<1>3. CASE Command
  <2>1. PICK p \in Processes : \E w : Start(p, w)
    BY <1>3, CommandStarts
  <2>2. /\ UNCHANGED << log, gates, up >>
        /\ looked' \in { looked, [looked EXCEPT ![p] = Len(log)] }
        /\ left' = [left EXCEPT !.commands = @ - 1] /\ left.commands > 0
    BY <2>1 DEF Start
  <2>3. left' \in [ who : SUBSET Processes, commands : Nat, kills : Nat ]
    BY <1>0, <2>2
  <2>4. rejections' \in { rejections, rejections + 1, 0 }
    BY <1>3 DEF Command, Bootstrap, StaleShell, MarkReady, ContractGap, RequestChanges,
                ManagerApprove, Review, RepeatClose, Escalate, ResumeHumanGate, Reopen,
                Reconcile
  <2>5. looked' \in [ Processes -> 0..Len(log) ]
    <3>1. Len(log) \in 0..Len(log)
      BY <1>0
    <3> QED BY <1>0, <2>2, <3>1
  <2> QED BY <1>0, <2>2, <2>3, <2>4, <2>5
<1>4. CASE RunOnce
  BY <1>0, <1>4 DEF RunOnce
<1>5. CASE StartSupervisor
  BY <1>0, <1>5 DEF StartSupervisor
<1>6. ASSUME NEW p \in Processes, Crash(p)
      PROVE  /\ gates' \subseteq Nat /\ up' \in BOOLEAN
             /\ looked' \in [ Processes -> 0..Len(log') ]
             /\ left' \in [ who : SUBSET Processes, commands : Nat, kills : Nat ]
             /\ rejections' \in Nat
  <2>1. left' \in [ who : SUBSET Processes, commands : Nat, kills : Nat ]
    <3>1. left' = [left EXCEPT !.kills = @ - 1] /\ left.kills > 0
      BY <1>6 DEF Crash
    <3> QED BY <1>0, <3>1
  <2>2. up' \in BOOLEAN
    BY <1>0, <1>6 DEF Crash
  <2>3. UNCHANGED << log, gates, looked, rejections >>
    BY <1>6 DEF Crash
  <2> QED BY <1>0, <2>1, <2>2, <2>3
<1>7. ASSUME NEW p \in Processes, Effect(p)
      PROVE  /\ gates' \subseteq Nat /\ up' \in BOOLEAN
             /\ looked' \in [ Processes -> 0..Len(log') ]
             /\ left' \in [ who : SUBSET Processes, commands : Nat, kills : Nat ]
             /\ rejections' \in Nat
  <2>1. UNCHANGED << looked, left, rejections >>
    BY <1>7, EffectSteps
  <2>2. gates' \subseteq Nat
    <3>1. CASE Expire(p)
      BY <1>0, <3>1, ExpireMore DEF LifeInv
    <3>2. CASE CreateGate(p)
      BY <1>0, <3>2 DEF CreateGate
    <3> QED BY <1>0, <1>7, <3>1, <3>2
        DEF Effect, EmitEvent, ShowStatus, SyncReady, DecideChanges, Backfill, ClearState,
            Project, Advance, SaveClosed, ActivateNext, Adopt, Retire, LoadState,
            OverwriteState
  <2>3. up' \in BOOLEAN
    <3>1. CASE SaveClosed(p) \/ Adopt(p) \/ Retire(p)
      BY <1>0, <3>1, SavedMore, AdoptMore, RetireMore
    <3> QED BY <1>0, <1>7, <3>1
        DEF Effect, EmitEvent, ShowStatus, SyncReady, DecideChanges, CreateGate, Backfill,
            ClearState, Expire, Project, Advance, ActivateNext, LoadState, OverwriteState
  <2> QED BY <1>0, <1>1, <2>1, <2>2, <2>3
<1> QED BY <1>2, <1>3, <1>4, <1>5, <1>6, <1>7 DEF Next

LEMMA LifeInit ==
  ASSUME Init
  PROVE  LifeInv
<1>1. PICK b \in Beginnings : log = b.bus /\ left = b.left
  BY DEF Init
<1>2. /\ log \in Seq(Records)
      /\ left \in [ who : SUBSET Processes, commands : Nat, kills : Nat ]
      /\ Orderly(log) /\ NotTakenBack(log, {})
  BY <1>1, LifecycleAssumption, BeginningAssumption
<1>3. /\ work = [ p \in Processes |-> << >> ] /\ looked = [ p \in Processes |-> 0 ]
      /\ gates = {} /\ late = {}
  BY DEF Init
<1>4. \A S : << >> \in Seq(S)
  OBVIOUS
<1>5. TypeOK
  <2>1. rejections \in Nat
    <3> DEFINE S == { i \in DOMAIN log :
           /\ log[i].ticket = Plan
           /\ IsChanges(log[i])
           /\ \A j \in DOMAIN log :
                /\ j > i
                /\ log[j].ticket = Plan
                /\ log[j].type = "REVIEW_DECISION"
                => IsChanges(log[j]) }
    <3>1. S \subseteq 1..Len(log) /\ Len(log) \in Nat
      BY <1>2
    <3>2. rejections = Cardinality(S)
      BY DEF Init, TrailingChanges
    <3> HIDE DEF S
    <3>3. IsFiniteSet(1..Len(log))
      BY <3>1, FS_Interval
    <3> QED BY <3>1, <3>2, <3>3, FS_Subset, FS_CardinalityType
  <2>2. view \in [ turn : Tickets, status : TicketState ]
    <3>1. State(Plan) \in TicketState
      BY StateTyped DEF State
    <3>2. { "IN_PROGRESS", "READY_FOR_REVIEW", "COMPLETED" } \subseteq TicketState
      BY DEF TicketState
    <3> QED BY <3>1, <3>2, Vocabulary DEF Init
  <2>3. sup \in SupervisorState /\ up \in BOOLEAN
    BY Vocabulary DEF Init, SupervisorState
  <2>4. work \in [ Processes -> Seq(Effects) ]
    BY <1>3, <1>4
  <2> QED BY <1>2, <1>3, <2>1, <2>2, <2>3, <2>4 DEF TypeOK
<1>6. WorkInv
  BY <1>3 DEF WorkInv, Fulfilled
<1>7. FilesInv
  BY Vocabulary DEF Init, FilesInv
<1>8. DecidersInv /\ BuilderInv
  BY <1>3, <1>4 DEF DecidersInv, BuilderInv, Processes
<1> QED BY <1>2, <1>3, <1>5, <1>6, <1>7, <1>8 DEF LifeInv

LEMMA LifeNext ==
  ASSUME LifeInv, [Next]_vars
  PROVE  LifeInv'
<1>1. TypeOK'
  BY LogShape, OrderlyStep, FilesStep, ListsStep, CountersStep DEF TypeOK
<1> QED BY <1>1, OrderlyStep, FilesStep, ListsStep DEF LifeInv
-----------------------------------------------------------------------------
(* The inductive invariant holds: what a command set out to write finds    *)
(* its reasons in the bus, whoever else writes and whoever is killed.      *)
THEOREM LifeInvariant == Spec => []LifeInv
<1>1. Init => LifeInv
  BY LifeInit
<1>2. LifeInv /\ [Next]_vars => LifeInv'
  BY LifeNext
<1> QED BY <1>1, <1>2, PTL DEF Spec

(* The bus, the files and the effects under way keep their types.          *)
THEOREM TypeCorrect == Spec => []TypeOK
<1>1. LifeInv => TypeOK
  BY DEF LifeInv
<1> QED BY <1>1, LifeInvariant, PTL

(* No ticket closes that was not approved and confirmed before, unless by  *)
(* reconcile_ticket; a bridge's guard closes what was closed before.       *)
THEOREM NoUnapprovedClose == Spec => []CloseAfterApproval
<1>1. LifeInv => CloseAfterApproval
  <2> SUFFICES ASSUME LifeInv, NEW i \in DOMAIN log,
                      Closes(log[i], Plan), log[i].rest # Forced
               PROVE  IF log[i].rest = Repeated THEN Earlier(i, "SUPERVISOR_CLOSED", "")
                      ELSE /\ Earlier(i, "REVIEW_DECISION", "approve")
                           /\ Earlier(i, "CLOSE_CONFIRMED", "")
    BY DEF CloseAfterApproval
  <2>1. CASE log[i].rest = Repeated
    <3>1. Closed(Plan) \in Precedents(log[i])
      BY <2>1 DEF Precedents
    <3>2. \E j \in 1..(i - 1) : Kind(log[j]) = Closed(Plan)
      BY <3>1 DEF LifeInv, Orderly
    <3> QED BY <2>1, <3>2 DEF Earlier, Kind, Closed
  <2>2. CASE log[i].rest # Repeated
    <3>1. { Approval, Confirmation } \subseteq Precedents(log[i])
      BY <2>2 DEF Precedents
    <3>2. /\ \E j \in 1..(i - 1) : Kind(log[j]) = Approval
          /\ \E j \in 1..(i - 1) : Kind(log[j]) = Confirmation
      BY <3>1 DEF LifeInv, Orderly
    <3> QED BY <2>2, <3>2 DEF Earlier, Kind, Approval, Confirmation
  <2> QED BY <2>1, <2>2
<1> QED BY <1>1, LifeInvariant, PTL

(* The next ticket is activated when this one is closed in the bus.        *)
THEOREM NextWaits == Spec => []NextAfterClose
<1>1. LifeInv => NextAfterClose
  BY FollowingIs DEF LifeInv, NextAfterClose, Kind, Closed
<1> QED BY <1>1, LifeInvariant, PTL

(* What supervisor_state.json lists as completed is closed in the bus,     *)
(* whichever of its two writers wrote it last.                             *)
THEOREM CompletedFollowsBus == Spec => []CompletedIsClosed
<1>1. LifeInv => CompletedIsClosed
  BY ClosedIs DEF LifeInv, FilesInv, CompletedIsClosed
<1> QED BY <1>1, LifeInvariant, PTL

(* --mark-ready leaves HUMAN_GATE only when it looked before the           *)
(* escalation was written.                                                 *)
THEOREM GateHolds == Spec => GateLeftOnlyByRace
<1> DEFINE Gate ==
      (/\ EmitEvent("builder")
         /\ Head(work["builder"]).event.type = "STATE_CHANGED"
         /\ State(Plan) = "HUMAN_GATE"
         /\ log' # log)
      => DerivedState(Seen("builder"), Plan) # "HUMAN_GATE"
<1>1. LifeInv => Gate
  <2> SUFFICES ASSUME LifeInv, EmitEvent("builder"),
                      Head(work["builder"]).event.type = "STATE_CHANGED"
               PROVE  DerivedState(Seen("builder"), Plan) # "HUMAN_GATE"
    OBVIOUS
  <2>1. work["builder"] # << >>
    BY DEF EmitEvent, Doing
  <2>2. work["builder"] \notin Seq(Keeping)
    <3> SUFFICES ASSUME work["builder"] \in Seq(Keeping) PROVE FALSE
      OBVIOUS
    <3>1. Head(work["builder"]) \in Keeping
      BY <2>1
    <3> QED BY <3>1 DEF Keeping
  <2> QED BY <2>2 DEF LifeInv, BuilderInv
<1>2. LifeInv => [Gate]_vars
  BY <1>1
<1> QED BY <1>2, LifeInvariant, PTL DEF GateLeftOnlyByRace

(* The supervisor closes on a readiness that follows an approval and that  *)
(* no return to work has followed, nor any rejection but one that was      *)
(* decided on before the ticket was ready to close and written after.      *)
THEOREM ClosesOnlyApproved == Spec => ClosesWhatIsApproved
<1> DEFINE Close ==
      (Advance("supervisor") /\ Closing /\ sup.active = Plan) =>
        \E k \in DOMAIN log :
           /\ Kind(log[k]) = << Plan, "STATE_CHANGED", "READY_TO_CLOSE" >>
           /\ Earlier(k, "REVIEW_DECISION", "approve")
           /\ \A j \in DOMAIN log :
                j > k => /\ Kind(log[j]) # << Plan, "STATE_CHANGED", "IN_PROGRESS" >>
                         /\ RejectsPlan(log[j]) => j \in late
<1>1. LifeInv => Close
  <2> SUFFICES ASSUME LifeInv, Closing, sup.active = Plan
               PROVE  \E k \in DOMAIN log :
           /\ Kind(log[k]) = << Plan, "STATE_CHANGED", "READY_TO_CLOSE" >>
           /\ Earlier(k, "REVIEW_DECISION", "approve")
           /\ \A j \in DOMAIN log :
                j > k => /\ Kind(log[j]) # << Plan, "STATE_CHANGED", "IN_PROGRESS" >>
                         /\ RejectsPlan(log[j]) => j \in late
    OBVIOUS
  <2>1. PICK k \in DOMAIN log :
           /\ LastOf(log, Plan, { "STATE_CHANGED" }, k)
           /\ Kind(log[k]) = << Plan, "STATE_CHANGED", "READY_TO_CLOSE" >>
           /\ \E j \in 1..(k - 1) : Kind(log[j]) = Approval
    BY ApprovedIs DEF LifeInv, Closing
  <2>2. Earlier(k, "REVIEW_DECISION", "approve")
    BY <2>1 DEF Earlier, Kind, Approval
  <2>3. ASSUME NEW j \in DOMAIN log, j > k
        PROVE  /\ Kind(log[j]) # << Plan, "STATE_CHANGED", "IN_PROGRESS" >>
               /\ RejectsPlan(log[j]) => j \in late
    <3>1. ~(log[j].ticket = Plan /\ log[j].type \in { "STATE_CHANGED" })
      BY <2>1, <2>3 DEF LastOf
    <3>2. log[k].arg = "READY_TO_CLOSE"
      BY <2>1 DEF Kind
    <3>3. RejectsPlan(log[j]) => j \in late
      BY <2>1, <2>3, <3>2 DEF LifeInv, NotTakenBack
    <3> QED BY <3>1, <3>3 DEF Kind
  <2> QED BY <2>1, <2>2, <2>3
<1>2. LifeInv => [Close]_vars
  BY <1>1
<1> QED BY <1>2, LifeInvariant, PTL DEF ClosesWhatIsApproved
=============================================================================
