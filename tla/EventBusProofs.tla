--------------------------- MODULE EventBusProofs ---------------------------
(***************************************************************************)
(* Theorems about EventBus, for every set of writers, every set of calls   *)
(* and every window.                                                       *)
(***************************************************************************)
EXTENDS EventBus, TLAPS, FiniteSetTheorems, SequenceTheorems

(* An event is judged by the four fields a call gives it. *)
LEMMA StampKeepsMeaning ==
  ASSUME NEW r, NEW n
  PROVE  /\ ReentryTarget(Stamp(r, n)) = ReentryTarget(r)
         /\ GuardState(Stamp(r, n)) = GuardState(r)
  BY DEF ReentryTarget, GuardState, PayloadState, Lookup, Stamp

(* What a call appends is an event. *)
LEMMA StampIsEvent ==
  ASSUME NEW r \in Request, NEW n \in Nat
  PROVE  Stamp(r, n) \in Event
  BY DEF Stamp, Event, Request

(* The last number of a well typed file is a number. *)
LEMMA LastSeqInNat ==
  ASSUME NEW s \in Seq(Event)
  PROVE  LastSeq(s) \in Nat
<1>1. CASE Len(s) = 0
  BY <1>1 DEF LastSeq
<1>2. CASE Len(s) # 0
  <2>1. Len(s) \in 1..Len(s)
    BY <1>2
  <2>2. s[Len(s)] \in Event
    BY <2>1, ElementOfSeq
  <2> QED
    BY <1>2, <2>2 DEF LastSeq, Event
<1> QED
  BY <1>1, <1>2

(* The duplicate count of a file is a number. *)
LEMMA CopiesAreFinite ==
  ASSUME NEW s \in Seq(Event), NEW r
  PROVE  DuplicateCount(s, r) \in Nat
<1>1. IsFiniteSet(1..Len(s))
  BY FS_Interval
<1>2. RecentCopies(s, r) \subseteq 1..Len(s)
  BY DEF RecentCopies
<1>3. IsFiniteSet(RecentCopies(s, r))
  BY <1>1, <1>2, FS_Subset
<1> QED
  BY <1>3, FS_CardinalityType DEF DuplicateCount

(* A call that returns leaves the local state well typed. *)
LEMMA ReturnTypes ==
  ASSUME TypeOK, NEW w \in Writers, Return(w)
  PROVE  /\ pc' \in [Writers -> {"idle", "gap", "read", "guard", "append"}]
         /\ call' \in [Writers -> Requests \cup {NoCall}]
         /\ seen' \in [Writers -> [lastSeq : Nat, dups : Nat, guarded : Nat]]
         /\ \A v \in Writers : pc'[v] # "idle" => call'[v] \in Requests
  BY DEF TypeOK, Return, NothingSeen

(* A step keeps the types.                                                 *)
LEMMA TypeStep ==
  ASSUME TypeOK, [Next]_vars
  PROVE  TypeOK'
<1> USE DEF TypeOK
<1>1. ASSUME NEW w \in Writers, NEW r \in Requests, Begin(w, r)
      PROVE  TypeOK'
  BY <1>1 DEF Begin
<1>2. ASSUME NEW w \in Writers, CheckGap(w)
      PROVE  TypeOK'
  <2>1. CASE Return(w)
    BY <1>2, <2>1, ReturnTypes DEF CheckGap
  <2>2. CASE pc' = [pc EXCEPT ![w] = "read"] /\ UNCHANGED << call, seen >>
    BY <1>2, <2>2 DEF CheckGap
  <2> QED
    BY <1>2, <2>1, <2>2 DEF CheckGap
<1>3. ASSUME NEW w \in Writers, ReadRecords(w)
      PROVE  TypeOK'
  BY <1>3, LastSeqInNat, CopiesAreFinite DEF ReadRecords
<1>4. ASSUME NEW w \in Writers, Guard(w)
      PROVE  TypeOK'
  <2>1. CASE Return(w)
    BY <1>4, <2>1, ReturnTypes DEF Guard
  <2>2. CASE /\ pc' = [pc EXCEPT ![w] = "append"]
             /\ seen' = [seen EXCEPT ![w].guarded = Len(log)]
             /\ UNCHANGED call
    <3>1. Len(log) \in Nat
      OBVIOUS
    <3>2. seen' \in [Writers -> [lastSeq : Nat, dups : Nat, guarded : Nat]]
      BY <2>2, <3>1
    <3> QED
      BY <1>4, <2>2, <3>2 DEF Guard
  <2> QED
    BY <1>4, <2>1, <2>2 DEF Guard
<1>5. ASSUME NEW w \in Writers, AppendRecord(w)
      PROVE  TypeOK'
  <2>1. call[w] \in Request
    BY <1>5, BusAssumption, WriterAssumption DEF AppendRecord
  <2>2. Stamp(call[w], seen[w].lastSeq + 1) \in Event
    BY <2>1, StampIsEvent
  <2>3. log' \in Seq(Event) /\ Len(log') = Len(log) + 1
    BY <1>5, <2>2 DEF AppendRecord
  <2>4. [ by |-> w, guarded |-> seen[w].guarded, reentry |-> call[w].reentry ]
          \in [ by : Writers, guarded : Nat, reentry : BOOLEAN ]
    BY <2>1 DEF Request
  <2>5. /\ trail' \in Seq([by : Writers, guarded : Nat, reentry : BOOLEAN])
        /\ Len(trail') = Len(trail) + 1
    BY <1>5, <2>4 DEF AppendRecord
  <2> QED
    BY <1>5, <2>3, <2>5, ReturnTypes DEF AppendRecord
<1>6. CASE UNCHANGED vars
  BY <1>6 DEF vars
<1> QED
  BY <1>1, <1>2, <1>3, <1>4, <1>5, <1>6 DEF Next, Emit

(* The bus and the writers' local state have their types. *)
THEOREM TypeCorrect == Spec => []TypeOK
<1>1. Init => TypeOK
  BY DEF Init, TypeOK, NothingSeen
<1>2. TypeOK /\ [Next]_vars => TypeOK'
  BY TypeStep
<1> QED
  BY <1>1, <1>2, PTL DEF Spec
-----------------------------------------------------------------------------
(* A step of one writer leaves the local state of the others alone. *)
LEMMA OthersUntouched ==
  ASSUME TypeOK, NEW w \in Writers, NEW v \in Writers, v # w, Emit(w)
  PROVE  UNCHANGED << pc[v], call[v], seen[v] >>
<1>1. CASE \E r \in Requests : Begin(w, r)
  BY <1>1 DEF Begin, TypeOK
<1>2. CASE CheckGap(w)
  BY <1>2 DEF CheckGap, Return, TypeOK
<1>3. CASE ReadRecords(w)
  BY <1>3 DEF ReadRecords, TypeOK
<1>4. CASE Guard(w)
  BY <1>4 DEF Guard, Return, TypeOK
<1>5. CASE AppendRecord(w)
  BY <1>5 DEF AppendRecord, Return, TypeOK
<1> QED
  BY <1>1, <1>2, <1>3, <1>4, <1>5 DEF Emit

(* The only step that changes the log adds one record at its end. *)
LEMMA LogOnlyGrows ==
  ASSUME TypeOK, NEW w \in Writers, Emit(w)
  PROVE  /\ Len(log') >= Len(log)
         /\ \A i \in DOMAIN log : log'[i] = log[i] /\ trail'[i] = trail[i]
<1>1. CASE AppendRecord(w)
  BY <1>1 DEF AppendRecord, TypeOK
<1>2. CASE UNCHANGED << log, trail >>
  BY <1>2 DEF TypeOK
<1> QED
  BY <1>1, <1>2 DEF Emit, Begin, CheckGap, ReadRecords, Guard
-----------------------------------------------------------------------------
(* An event of ticket t the reentry guard looks at. *)
Relevant(i, t) == log[i].ticket = t /\ log[i].type \in GuardTypes

(* What a writer past the guard knows for as long as it waits to append:   *)
(* in the part of the log it read, every terminal event of its ticket is   *)
(* followed by another event of the ticket.                                *)
PassedGuard(w) ==
  pc[w] = "append" =>
    /\ seen[w].guarded <= Len(log)
    /\ ~call[w].reentry /\ ReentryTarget(call[w]) \in WorkStates =>
         \A j \in 1..seen[w].guarded :
            Relevant(j, call[w].ticket) /\ GuardState(log[j]) \in TerminalStates
              => \E k \in (j + 1)..seen[w].guarded : Relevant(k, call[w].ticket)

GuardInv == ReopenOnlyByRace /\ \A w \in Writers : PassedGuard(w)

(* A longer log does not change what was read of it. *)
LEMMA PassedGuardStable ==
  ASSUME TypeOK, TypeOK', NEW w \in Writers, PassedGuard(w),
         UNCHANGED << pc[w], call[w], seen[w] >>,
         Len(log') >= Len(log),
         \A i \in DOMAIN log : log'[i] = log[i]
  PROVE  PassedGuard(w)'
<1>1. /\ DOMAIN log = 1..Len(log)
      /\ Len(log) \in Nat /\ Len(log') \in Nat
      /\ seen[w].guarded \in Nat
  BY DEF TypeOK
<1>2. \A i \in 1..Len(log), t \in Tickets : Relevant(i, t)' <=> Relevant(i, t)
  BY <1>1 DEF Relevant
<1>3. CASE pc[w] # "append"
  BY <1>3 DEF PassedGuard
<1>4. CASE pc[w] = "append"
  <2>1. seen[w].guarded <= Len(log)
    BY <1>4 DEF PassedGuard
  <2>2. call[w].ticket \in Tickets
    BY <1>4, BusAssumption, WriterAssumption DEF TypeOK, Request
  <2> QED
    BY <1>1, <1>2, <1>4, <2>1, <2>2 DEF PassedGuard
<1> QED
  BY <1>3, <1>4

(* The guard lets a call pass only when no terminal event is the last.     *)
LEMMA GuardEstablishes ==
  ASSUME TypeOK, TypeOK', NEW w \in Writers, Guard(w)
  PROVE  PassedGuard(w)'
<1>1. CASE pc'[w] = "idle"
  BY <1>1 DEF PassedGuard
<1>2. CASE pc'[w] # "idle"
  <2>1. /\ ~ReentryBlocked(log, call[w])
        /\ pc'[w] = "append"
        /\ seen'[w].guarded = Len(log)
        /\ call' = call
        /\ log' = log
        /\ DOMAIN log = 1..Len(log) /\ Len(log) \in Nat
    BY <1>2 DEF Guard, Return, TypeOK
  <2>2. SUFFICES ASSUME ~call[w].reentry, ReentryTarget(call[w]) \in WorkStates,
                        NEW j \in 1..Len(log), Relevant(j, call[w].ticket),
                        GuardState(log[j]) \in TerminalStates
                 PROVE  \E k \in (j + 1)..Len(log) : Relevant(k, call[w].ticket)
    BY <2>1 DEF PassedGuard, Relevant
  <2>3. ~LastOf(log, call[w].ticket, GuardTypes, j)
    BY <2>1, <2>2 DEF ReentryBlocked
  <2> QED
    BY <2>1, <2>2, <2>3 DEF LastOf, Relevant
<1> QED
  BY <1>1, <1>2

(* A record written by a call past the guard reopens its ticket only if    *)
(* the terminal event came after the guard's read.                         *)
LEMMA AppendKeepsReopenOnlyByRace ==
  ASSUME TypeOK, TypeOK', NEW w \in Writers, AppendRecord(w), PassedGuard(w),
         ReopenOnlyByRace
  PROVE  ReopenOnlyByRace'
<1> DEFINE n == Len(log) + 1
<1>1. /\ n \in Nat
      /\ DOMAIN log' = 1..n
      /\ DOMAIN log = 1..Len(log)
      /\ \A i \in 1..Len(log) : log'[i] = log[i] /\ trail'[i] = trail[i]
      /\ log'[n] = Stamp(call[w], seen[w].lastSeq + 1)
      /\ trail'[n].guarded = seen[w].guarded
      /\ trail'[n].reentry = call[w].reentry
      /\ seen[w].guarded \in Nat
  BY DEF AppendRecord, TypeOK
<1>2. SUFFICES ASSUME NEW i \in 1..n, NEW j \in 1..n, NEW t \in Tickets,
                      Reopens(i, j, t)'
               PROVE  trail'[i].guarded < j
  BY <1>1 DEF ReopenOnlyByRace
<1>3. CASE i < n
  <2>1. Reopens(i, j, t)
    BY <1>1, <1>2, <1>3 DEF Reopens
  <2> QED
    BY <1>1, <1>2, <1>3, <2>1 DEF ReopenOnlyByRace, Reopens
<1>4. CASE i = n
  <2>1. /\ j \in 1..Len(log)
        /\ t = call[w].ticket
        /\ ReentryTarget(call[w]) \in WorkStates
        /\ ~call[w].reentry
        /\ Relevant(j, t)
        /\ GuardState(log[j]) \in TerminalStates
        /\ \A k \in (j + 1)..Len(log) : ~Relevant(k, t)
    <3>1. j < n
      BY <1>2, <1>4 DEF Reopens
    <3>2. ReentryTarget(log'[n]) = ReentryTarget(call[w])
      BY <1>1, StampKeepsMeaning
    <3>3. log'[n].ticket = call[w].ticket
      BY <1>1 DEF Stamp
    <3> QED
      BY <1>1, <1>2, <1>4, <3>1, <3>2, <3>3 DEF Reopens, Relevant
  <2>2. ASSUME j <= seen[w].guarded
        PROVE  FALSE
    BY <1>1, <2>1, <2>2 DEF PassedGuard, AppendRecord
  <2> QED
    BY <1>1, <1>4, <2>2
<1> QED
  BY <1>3, <1>4

(* A step keeps what the writers past the guard know.                      *)
LEMMA GuardInvStep ==
  ASSUME TypeOK, TypeOK', GuardInv, [Next]_vars
  PROVE  GuardInv'
<1> USE DEF GuardInv
<1>1. ASSUME NEW w \in Writers, NEW v \in Writers, v # w, Emit(w)
      PROVE  PassedGuard(v)'
  BY <1>1, OthersUntouched, LogOnlyGrows, PassedGuardStable
<1>2. ASSUME NEW w \in Writers, Emit(w)
      PROVE  PassedGuard(w)'
  <2>1. CASE Guard(w)
    BY <2>1, GuardEstablishes
  <2>2. CASE pc'[w] # "append"
    BY <2>2 DEF PassedGuard
  <2> QED
    BY <1>2, <2>1, <2>2 DEF Emit, Begin, CheckGap, ReadRecords, AppendRecord,
                            Return, TypeOK
<1>3. ASSUME NEW w \in Writers, Emit(w)
      PROVE  ReopenOnlyByRace'
  <2>1. CASE AppendRecord(w)
    BY <2>1, AppendKeepsReopenOnlyByRace
  <2>2. CASE UNCHANGED << log, trail >>
    BY <2>2 DEF ReopenOnlyByRace, Reopens
  <2> QED
    BY <1>3, <2>1, <2>2 DEF Emit, Begin, CheckGap, ReadRecords, Guard
<1>4. CASE UNCHANGED vars
  BY <1>4 DEF vars, ReopenOnlyByRace, Reopens, PassedGuard, Relevant
<1> QED
  BY <1>1, <1>2, <1>3, <1>4 DEF Next

(* However many writers there are, an event that takes a closed ticket back *)
(* to work was past the guard before the ticket was closed.                *)
THEOREM ReopeningIsARace == Spec => []ReopenOnlyByRace
<1>1. Init => GuardInv
  BY DEF Init, GuardInv, ReopenOnlyByRace, PassedGuard
<1>2. TypeOK /\ TypeOK' /\ GuardInv /\ [Next]_vars => GuardInv'
  BY GuardInvStep
<1>3. GuardInv => ReopenOnlyByRace
  BY DEF GuardInv
<1> QED
  BY <1>1, <1>2, <1>3, TypeCorrect, PTL DEF Spec
-----------------------------------------------------------------------------
(* A writer's first read saw at most the numbers handed out so far. *)
SeqInv ==
  /\ SeqWithinHistory
  /\ \A w \in Writers :
        pc[w] \in {"guard", "append"} => seen[w].lastSeq <= Len(log)

(* The last number is at most the length of the file. *)
LEMMA LastSeqBounded ==
  ASSUME TypeOK, SeqWithinHistory
  PROVE  LastSeq(log) \in 0..Len(log)
<1>1. CASE Len(log) = 0
  BY <1>1 DEF LastSeq
<1>2. CASE Len(log) # 0
  <2>1. Len(log) \in DOMAIN log
    BY <1>2 DEF TypeOK
  <2>2. log[Len(log)].seq \in 1..Len(log)
    BY <2>1 DEF SeqWithinHistory
  <2> QED
    BY <1>2, <2>2 DEF LastSeq, TypeOK
<1> QED
  BY <1>1, <1>2

(* No record carries a number beyond its position, whatever reads were     *)
(* stale: the numbers a supervisor or a bridge uses as a cursor never run  *)
(* ahead of the records written.                                           *)
THEOREM SequenceNumbersBounded == Spec => []SeqWithinHistory
<1>1. Init => SeqInv
  BY DEF Init, SeqInv, SeqWithinHistory
<1>2. TypeOK /\ TypeOK' /\ SeqInv /\ [Next]_vars => SeqInv'
  <2> SUFFICES ASSUME TypeOK, TypeOK', SeqInv, [Next]_vars
               PROVE  SeqInv'
    OBVIOUS
  <2>1. ASSUME NEW w \in Writers, NEW v \in Writers, v # w, Emit(w),
               pc'[v] \in {"guard", "append"}
        PROVE  seen'[v].lastSeq <= Len(log')
    <3>1. seen[v].lastSeq <= Len(log) /\ seen[v].lastSeq \in Nat
      BY <2>1, OthersUntouched DEF SeqInv, TypeOK
    <3>2. Len(log) \in Nat /\ Len(log') \in Nat
      BY DEF TypeOK
    <3> QED
      BY <2>1, <3>1, <3>2, OthersUntouched, LogOnlyGrows
  <2>2. ASSUME NEW w \in Writers, Emit(w), pc'[w] \in {"guard", "append"}
        PROVE  seen'[w].lastSeq <= Len(log')
    <3>1. CASE ReadRecords(w)
      <4>1. seen'[w].lastSeq = LastSeq(log) /\ log' = log
        BY <3>1 DEF ReadRecords, TypeOK
      <4>2. LastSeq(log) \in 0..Len(log)
        BY LastSeqBounded DEF SeqInv
      <4> QED
        BY <4>1, <4>2 DEF TypeOK
    <3>2. CASE Guard(w)
      <4>1. /\ pc[w] = "guard"
            /\ seen'[w].lastSeq = seen[w].lastSeq
            /\ log' = log
        BY <2>2, <3>2 DEF Guard, Return, TypeOK
      <4> QED
        BY <4>1 DEF SeqInv
    <3> QED
      BY <2>2, <3>1, <3>2 DEF Emit, Begin, CheckGap, AppendRecord, Return, TypeOK
  <2>3. ASSUME NEW w \in Writers, Emit(w)
        PROVE  SeqWithinHistory'
    <3>1. CASE AppendRecord(w)
      <4>1. seen[w].lastSeq \in 0..Len(log)
        BY <3>1 DEF AppendRecord, SeqInv, TypeOK
      <4>2. Stamp(call[w], seen[w].lastSeq + 1).seq \in 1..(Len(log) + 1)
        BY <4>1 DEF Stamp, TypeOK
      <4>3. SUFFICES ASSUME NEW i \in DOMAIN log'
                     PROVE  log'[i].seq \in 1..i
        BY DEF SeqWithinHistory
      <4>4. CASE i \in DOMAIN log
        BY <3>1, <4>4 DEF AppendRecord, SeqInv, SeqWithinHistory, TypeOK
      <4>5. CASE i = Len(log) + 1
        BY <3>1, <4>2, <4>5 DEF AppendRecord, TypeOK
      <4> QED
        BY <3>1, <4>3, <4>4, <4>5 DEF AppendRecord, TypeOK
    <3>2. CASE UNCHANGED log
      BY <3>2 DEF SeqInv, SeqWithinHistory
    <3> QED
      BY <2>3, <3>1, <3>2 DEF Emit, Begin, CheckGap, ReadRecords, Guard
  <2>4. CASE UNCHANGED vars
    BY <2>4 DEF vars, SeqInv, SeqWithinHistory
  <2> QED
    BY <2>1, <2>2, <2>3, <2>4 DEF Next, SeqInv
<1>3. SeqInv => SeqWithinHistory
  BY DEF SeqInv
<1> QED
  BY <1>1, <1>2, <1>3, TypeCorrect, PTL DEF Spec
-----------------------------------------------------------------------------
(* The calls that have not been refused for the copies of r they counted   *)
(* and have still to write one.                                            *)
MayAdd(r) == { w \in Writers : /\ pc[w] \in { "guard", "append" }
                               /\ SameEvent(call[w], r)
                               /\ seen[w].dups < MaxDuplicates }

(* Who may still add a copy counted fewer than the threshold.              *)
CopiesInv ==
  /\ \A w \in Writers : pc[w] = "append" => seen[w].dups < MaxDuplicates
  /\ \A r \in Requests :
       DuplicateCount(log, r) + Cardinality(MayAdd(r))
         <= MaxDuplicates + Cardinality(Writers) - 1

(* The numbers the invariant adds.                                         *)
LEMMA MayAddIsFinite ==
  ASSUME NEW r
  PROVE  /\ IsFiniteSet(MayAdd(r)) /\ Cardinality(MayAdd(r)) \in Nat
         /\ Cardinality(Writers) \in Nat /\ IsFiniteSet(Writers)
         /\ MaxDuplicates \in Nat
<1>1. IsFiniteSet(Writers) /\ MaxDuplicates \in Nat
  BY WriterAssumption, BusAssumption
<1>2. MayAdd(r) \subseteq Writers
  BY DEF MayAdd
<1>3. IsFiniteSet(MayAdd(r))
  BY <1>1, <1>2, FS_Subset
<1> QED
  BY <1>1, <1>3, FS_CardinalityType

(* Who adds no copy does not raise the sum.                                *)
LEMMA FewerMayAdd ==
  ASSUME TypeOK, CopiesInv, NEW r \in Requests, MayAdd(r)' \subseteq MayAdd(r),
         log' = log
  PROVE  DuplicateCount(log', r) + Cardinality(MayAdd(r)')
           <= MaxDuplicates + Cardinality(Writers) - 1
<1>1. DuplicateCount(log, r) \in Nat
  BY CopiesAreFinite DEF TypeOK
<1>2. /\ IsFiniteSet(MayAdd(r)) /\ Cardinality(MayAdd(r)) \in Nat
      /\ Cardinality(Writers) \in Nat /\ MaxDuplicates \in Nat
  BY MayAddIsFinite
<1>3. /\ Cardinality(MayAdd(r)') <= Cardinality(MayAdd(r))
      /\ IsFiniteSet(MayAdd(r)')
  BY <1>2, FS_Subset
<1>4. Cardinality(MayAdd(r)') \in Nat
  BY <1>3, FS_CardinalityType
<1>5. DuplicateCount(log, r) + Cardinality(MayAdd(r))
        <= MaxDuplicates + Cardinality(Writers) - 1
  BY DEF CopiesInv
<1>6. DuplicateCount(log', r) = DuplicateCount(log, r)
  OBVIOUS
<1> QED
  BY <1>1, <1>2, <1>3, <1>4, <1>5, <1>6

(* A call that counts below the threshold leaves room for the others.      *)
LEMMA CountingLeavesRoom ==
  ASSUME TypeOK, CopiesInv, NEW r \in Requests, NEW w \in Writers, ReadRecords(w)
  PROVE  DuplicateCount(log', r) + Cardinality(MayAdd(r)')
           <= MaxDuplicates + Cardinality(Writers) - 1
<1>1. /\ log' = log /\ call' = call /\ pc[w] = "read" /\ pc'[w] = "guard"
      /\ seen'[w].dups = DuplicateCount(log, call[w])
      /\ \A v \in Writers : v # w => pc'[v] = pc[v] /\ seen'[v] = seen[v]
  BY DEF ReadRecords, TypeOK
<1>2. CASE SameEvent(call[w], r) /\ DuplicateCount(log, call[w]) < MaxDuplicates
  <2>1. DuplicateCount(log', r) = DuplicateCount(log, call[w])
    <3>1. \A i : SameEvent(log[i], call[w]) <=> SameEvent(log[i], r)
      BY <1>2 DEF SameEvent
    <3> QED
      BY <1>1, <3>1 DEF DuplicateCount, RecentCopies
  <2>2. MayAdd(r)' \subseteq Writers
    BY DEF MayAdd
  <2>3. IsFiniteSet(Writers) /\ Cardinality(Writers) \in Nat /\ MaxDuplicates \in Nat
    BY MayAddIsFinite
  <2>4. Cardinality(MayAdd(r)') <= Cardinality(Writers) /\ IsFiniteSet(MayAdd(r)')
    BY <2>2, <2>3, FS_Subset
  <2>5. Cardinality(MayAdd(r)') \in Nat
    BY <2>4, FS_CardinalityType
  <2>6. DuplicateCount(log, call[w]) \in Nat
    BY CopiesAreFinite DEF TypeOK
  <2> QED
    BY <1>2, <2>1, <2>3, <2>4, <2>5, <2>6
<1>3. CASE ~(SameEvent(call[w], r) /\ DuplicateCount(log, call[w]) < MaxDuplicates)
  <2>1. MayAdd(r)' \subseteq MayAdd(r)
    BY <1>1, <1>3 DEF MayAdd
  <2> QED
    BY <1>1, <2>1, FewerMayAdd
<1> QED
  BY <1>2, <1>3

(* A record raises the count by one at most, and its writer is done.       *)
LEMMA AppendingUsesIt ==
  ASSUME TypeOK, CopiesInv, NEW r \in Requests, NEW w \in Writers, AppendRecord(w)
  PROVE  DuplicateCount(log', r) + Cardinality(MayAdd(r)')
           <= MaxDuplicates + Cardinality(Writers) - 1
<1> DEFINE n == Len(log) + 1
           C == RecentCopies(log, r)
           D == RecentCopies(log', r)
           M == MayAdd(r)
<1>1. /\ log \in Seq(Event) /\ Len(log) \in Nat /\ WindowSize \in Nat
      /\ DOMAIN log = 1..Len(log)
  BY BusAssumption DEF TypeOK
<1>2. /\ DOMAIN log' = DOMAIN log \cup { n } /\ Len(log') = n
      /\ \A i \in DOMAIN log : log'[i] = log[i]
      /\ log'[n] = Stamp(call[w], seen[w].lastSeq + 1)
  BY <1>1 DEF AppendRecord
<1>3. /\ D \subseteq C \cup { n }
      /\ ~SameEvent(call[w], r) => D \subseteq C
      /\ C \subseteq 1..Len(log)
  <2>1. SameEvent(log'[n], r) <=> SameEvent(call[w], r)
    BY <1>2 DEF SameEvent, Stamp
  <2>2. \A i \in DOMAIN log : i > n - WindowSize => i > Len(log) - WindowSize
    BY <1>1
  <2> QED
    BY <1>1, <1>2, <2>1, <2>2 DEF RecentCopies
<1>4. /\ M' \subseteq M \ { w }
      /\ pc[w] = "append" /\ seen[w].dups < MaxDuplicates
  BY DEF AppendRecord, Return, MayAdd, TypeOK, CopiesInv
<1>5. SameEvent(call[w], r) => w \in M
  BY <1>4 DEF MayAdd
<1>6. /\ IsFiniteSet(M) /\ Cardinality(M) \in Nat
      /\ Cardinality(Writers) \in Nat /\ MaxDuplicates \in Nat
  BY MayAddIsFinite
<1>7. Cardinality(C) + Cardinality(M) <= MaxDuplicates + Cardinality(Writers) - 1
  BY DEF CopiesInv, DuplicateCount
<1>8. SUFFICES Cardinality(D) + Cardinality(M')
                 <= MaxDuplicates + Cardinality(Writers) - 1
  BY DEF DuplicateCount
<1>9. n \notin C
  BY <1>1, <1>3
<1> HIDE DEF n, C, D, M
<1>10. IsFiniteSet(C) /\ Cardinality(C) \in Nat
  <2>1. IsFiniteSet(1..Len(log))
    BY <1>1, FS_Interval
  <2>2. IsFiniteSet(C)
    BY <1>3, <2>1, FS_Subset
  <2> QED
    BY <2>2, FS_CardinalityType
<1>11. CASE SameEvent(call[w], r)
  <2>1. Cardinality(C \cup { n }) = Cardinality(C) + 1 /\ IsFiniteSet(C \cup { n })
    BY <1>9, <1>10, FS_AddElement
  <2>2. Cardinality(D) <= Cardinality(C \cup { n }) /\ IsFiniteSet(D)
    BY <1>3, <2>1, FS_Subset
  <2>3. Cardinality(M \ { w }) = Cardinality(M) - 1 /\ IsFiniteSet(M \ { w })
    BY <1>5, <1>6, <1>11, FS_RemoveElement
  <2>4. Cardinality(M') <= Cardinality(M \ { w }) /\ IsFiniteSet(M')
    BY <1>4, <2>3, FS_Subset
  <2>5. Cardinality(D) \in Nat /\ Cardinality(M') \in Nat
    BY <2>2, <2>4, FS_CardinalityType
  <2> QED
    BY <1>6, <1>7, <1>10, <2>1, <2>2, <2>3, <2>4, <2>5
<1>12. CASE ~SameEvent(call[w], r)
  <2>1. Cardinality(D) <= Cardinality(C) /\ IsFiniteSet(D)
    BY <1>3, <1>10, <1>12, FS_Subset
  <2>2. M' \subseteq M
    BY <1>4
  <2>3. Cardinality(M') <= Cardinality(M) /\ IsFiniteSet(M')
    BY <1>6, <2>2, FS_Subset
  <2>4. Cardinality(D) \in Nat /\ Cardinality(M') \in Nat
    BY <2>1, <2>3, FS_CardinalityType
  <2> QED
    BY <1>6, <1>7, <1>10, <2>1, <2>3, <2>4
<1> QED
  BY <1>11, <1>12

LEMMA CopiesInvStep ==
  ASSUME TypeOK, CopiesInv, [Next]_vars
  PROVE  CopiesInv'
<1>1. ASSUME NEW w \in Writers, Emit(w)
      PROVE  \A v \in Writers : pc'[v] = "append" => seen'[v].dups < MaxDuplicates
  <2> SUFFICES ASSUME NEW v \in Writers, pc'[v] = "append"
               PROVE  seen'[v].dups < MaxDuplicates
    OBVIOUS
  <2>1. CASE v # w
    BY <1>1, <2>1, OthersUntouched DEF CopiesInv
  <2>2. CASE v = w /\ Guard(w)
    <3>1. /\ ~AtThreshold(w) /\ seen'[w].dups = seen[w].dups
      BY <2>2 DEF Guard, Return, TypeOK
    <3>2. seen[w].dups \in Nat /\ MaxDuplicates \in Nat
      BY BusAssumption DEF TypeOK
    <3> QED
      BY <2>2, <3>1, <3>2 DEF AtThreshold
  <2>3. CASE v = w /\ ~Guard(w)
    BY <1>1, <2>3 DEF Emit, Begin, CheckGap, ReadRecords, AppendRecord, Return, TypeOK
  <2> QED
    BY <2>1, <2>2, <2>3
<1>2. ASSUME NEW w \in Writers, Emit(w), NEW r \in Requests
      PROVE  DuplicateCount(log', r) + Cardinality(MayAdd(r)')
               <= MaxDuplicates + Cardinality(Writers) - 1
  <2>1. CASE ReadRecords(w)
    BY <2>1, CountingLeavesRoom
  <2>2. CASE AppendRecord(w)
    BY <2>2, AppendingUsesIt
  <2>3. CASE (\E q \in Requests : Begin(w, q)) \/ CheckGap(w) \/ Guard(w)
    <3>1. log' = log
      BY <2>3 DEF Begin, CheckGap, Guard
    <3>2. ASSUME NEW v \in Writers, v \in MayAdd(r)' PROVE v \in MayAdd(r)
      <4>1. CASE v # w
        BY <1>2, <3>2, <4>1, OthersUntouched DEF MayAdd
      <4>2. CASE v = w /\ \E q \in Requests : Begin(w, q)
        BY <3>2, <4>2 DEF MayAdd, Begin, TypeOK
      <4>3. CASE v = w /\ CheckGap(w)
        BY <3>2, <4>3 DEF MayAdd, CheckGap, Return, TypeOK
      <4>4. CASE v = w /\ Guard(w)
        BY <3>2, <4>4 DEF MayAdd, Guard, Return, TypeOK
      <4> QED
        BY <2>3, <4>1, <4>2, <4>3, <4>4
    <3>3. MayAdd(r)' \subseteq MayAdd(r)
      BY <3>2 DEF MayAdd
    <3> QED
      BY <3>1, <3>3, FewerMayAdd
  <2> QED
    BY <1>2, <2>1, <2>2, <2>3 DEF Emit
<1>3. CASE UNCHANGED vars
  <2>1. \A r : MayAdd(r)' = MayAdd(r)
    BY <1>3 DEF vars, MayAdd
  <2> QED
    BY <1>3, <2>1 DEF vars, CopiesInv
<1>4. CASE Next
  BY <1>1, <1>2, <1>4 DEF Next, CopiesInv
<1> QED
  BY <1>3, <1>4

(* However many writers decide on counts that are out of date: a window    *)
(* holds at most the threshold of copies, and one for each further writer. *)
THEOREM CopiesBounded ==
  ASSUME Writers # {}
  PROVE  Spec => []DuplicatesBounded
<1>1. Init => CopiesInv
  <2> SUFFICES ASSUME Init, NEW r \in Requests
               PROVE  DuplicateCount(log, r) + Cardinality(MayAdd(r))
                        <= MaxDuplicates + Cardinality(Writers) - 1
    BY DEF Init, CopiesInv
  <2>1. RecentCopies(log, r) = {} /\ MayAdd(r) = {}
    BY DEF Init, RecentCopies, MayAdd
  <2>2. Cardinality(Writers) \in Nat /\ IsFiniteSet(Writers) /\ MaxDuplicates \in Nat
    BY MayAddIsFinite
  <2>3. Cardinality(Writers) # 0
    BY <2>2, FS_EmptySet
  <2> QED
    BY <2>1, <2>2, <2>3, FS_EmptySet DEF DuplicateCount
<1>2. TypeOK /\ CopiesInv /\ [Next]_vars => CopiesInv'
  BY CopiesInvStep
<1>3. TypeOK /\ CopiesInv => DuplicatesBounded
  <2> SUFFICES ASSUME TypeOK, CopiesInv, NEW r \in Requests
               PROVE  DuplicateCount(log, r) <= MaxDuplicates + Cardinality(Writers) - 1
    BY DEF DuplicatesBounded
  <2>1. Cardinality(MayAdd(r)) \in Nat /\ Cardinality(Writers) \in Nat
        /\ MaxDuplicates \in Nat
    BY MayAddIsFinite
  <2>2. DuplicateCount(log, r) \in Nat
    BY CopiesAreFinite DEF TypeOK
  <2>3. DuplicateCount(log, r) + Cardinality(MayAdd(r))
          <= MaxDuplicates + Cardinality(Writers) - 1
    BY DEF CopiesInv
  <2> QED
    BY <2>1, <2>2, <2>3
<1> QED
  BY <1>1, <1>2, <1>3, TypeCorrect, PTL DEF Spec
-----------------------------------------------------------------------------
(* Record i is of the gap that request r announces. *)
GapOf(i, r) == /\ log[i].type = "CONTRACT_GAP"
               /\ log[i].ticket = r.ticket
               /\ log[i].arg = r.arg

(* A writer that is about to record a gap has not recorded it before.      *)
GapInv ==
  /\ GapOncePerWriter
  /\ \A w \in Writers : pc[w] = "gap" => call[w].type = "CONTRACT_GAP"
  /\ \A w \in Writers :
       pc[w] \in { "read", "guard", "append" } /\ call[w].type = "CONTRACT_GAP" =>
         \A i \in DOMAIN log : GapOf(i, call[w]) => trail[i].by # w

(* The record of a writer who had none of this gap is its only one.        *)
LEMMA AppendedGap ==
  ASSUME TypeOK, GapInv, NEW w \in Writers, AppendRecord(w)
  PROVE  /\ GapOncePerWriter'
         /\ \A i \in DOMAIN log' :
              \/ i \in DOMAIN log /\ log'[i] = log[i] /\ trail'[i] = trail[i]
              \/ trail'[i].by = w
<1> DEFINE n == Len(log) + 1
           c == call[w]
<1>1. /\ log \in Seq(Event) /\ Len(log) \in Nat /\ Len(trail) = Len(log)
      /\ trail \in Seq([by : Writers, guarded : Nat, reentry : BOOLEAN])
      /\ DOMAIN log = 1..Len(log)
      /\ pc[w] = "append" /\ c \in Request /\ seen[w].lastSeq + 1 \in Nat
  BY WriterAssumption DEF TypeOK, AppendRecord
<1>2. /\ DOMAIN log' = DOMAIN log \cup { n }
      /\ \A i \in DOMAIN log : log'[i] = log[i] /\ trail'[i] = trail[i]
      /\ log'[n] = Stamp(c, seen[w].lastSeq + 1) /\ trail'[n].by = w
      /\ n \notin DOMAIN log
  BY <1>1 DEF AppendRecord
<1>3. /\ \A i \in DOMAIN log : log[i] \in Event
      /\ log'[n] \in Event
      /\ log'[n].type = c.type /\ log'[n].ticket = c.ticket /\ log'[n].arg = c.arg
  <2>1. log'[n] \in Event
    BY <1>1, <1>2, StampIsEvent
  <2> QED
    BY <1>1, <1>2, <2>1 DEF Stamp
<1> HIDE DEF n, c
<1>4. \A i \in DOMAIN log : c.type = "CONTRACT_GAP" /\ GapOf(i, c) => trail[i].by # w
  BY <1>1 DEF GapInv, c
<1>5. \A e, f \in Event : SameEvent([e EXCEPT !.actor = f.actor], f)
        => e.type = f.type /\ e.ticket = f.ticket /\ e.arg = f.arg
  BY DEF SameEvent, Event
<1>6. GapOncePerWriter'
  <2> SUFFICES ASSUME NEW i \in DOMAIN log', NEW j \in DOMAIN log', i # j,
                      log'[i].type = "CONTRACT_GAP",
                      SameEvent([log'[i] EXCEPT !.actor = log'[j].actor], log'[j])
               PROVE  trail'[i].by # trail'[j].by
    BY DEF GapOncePerWriter
  <2>1. CASE i \in DOMAIN log /\ j \in DOMAIN log
    BY <1>2, <2>1 DEF GapInv, GapOncePerWriter
  <2>2. log'[i] \in Event /\ log'[j] \in Event
    BY <1>2, <1>3
  <2>3. /\ log'[j].type = "CONTRACT_GAP"
        /\ log'[i].ticket = log'[j].ticket /\ log'[i].arg = log'[j].arg
    BY <1>5, <2>2
  <2>4. CASE i = n /\ j \in DOMAIN log
    BY <1>2, <1>3, <1>4, <2>3, <2>4 DEF GapOf
  <2>5. CASE j = n /\ i \in DOMAIN log
    BY <1>2, <1>3, <1>4, <2>3, <2>5 DEF GapOf
  <2> QED
    BY <1>2, <2>1, <2>4, <2>5
<1> QED
  BY <1>2, <1>6

LEMMA GapInvStep ==
  ASSUME TypeOK, GapInv, [Next]_vars
  PROVE  GapInv'
<1>1. ASSUME NEW w \in Writers, Emit(w)
      PROVE  GapOncePerWriter'
  <2>1. CASE AppendRecord(w)
    BY <2>1, AppendedGap
  <2>2. CASE UNCHANGED << log, trail >>
    BY <2>2 DEF GapInv, GapOncePerWriter
  <2> QED
    BY <1>1, <2>1, <2>2 DEF Emit, Begin, CheckGap, ReadRecords, Guard
<1>2. ASSUME NEW w \in Writers, Emit(w), NEW v \in Writers, pc'[v] = "gap"
      PROVE  call'[v].type = "CONTRACT_GAP"
  <2>1. CASE v # w
    BY <1>2, <2>1, OthersUntouched DEF GapInv
  <2>2. CASE v = w
    BY <1>2, <2>2 DEF Emit, Begin, CheckGap, ReadRecords, Guard, AppendRecord, Return,
       TypeOK
  <2> QED
    BY <2>1, <2>2
<1>3. ASSUME NEW w \in Writers, Emit(w), NEW v \in Writers,
             pc'[v] \in { "read", "guard", "append" }, call'[v].type = "CONTRACT_GAP",
             NEW i \in DOMAIN log', GapOf(i, call[v])', trail'[i].by = v
      PROVE  FALSE
  <2>1. CASE v # w
    <3>1. pc'[v] = pc[v] /\ call'[v] = call[v]
      BY <1>3, <2>1, OthersUntouched
    <3>2. i \in DOMAIN log /\ log'[i] = log[i] /\ trail'[i] = trail[i]
      <4>1. CASE AppendRecord(w)
        BY <1>3, <2>1, <4>1, AppendedGap
      <4>2. CASE UNCHANGED << log, trail >>
        BY <4>2
      <4> QED
        BY <1>3, <4>1, <4>2 DEF Emit, Begin, CheckGap, ReadRecords, Guard
    <3> QED
      BY <1>3, <3>1, <3>2 DEF GapInv, GapOf
  <2>2. CASE v = w
    <3>1. log' = log /\ trail' = trail /\ ~AppendRecord(w)
      BY <1>3, <2>2 DEF Emit, Begin, CheckGap, ReadRecords, Guard, AppendRecord, Return,
         TypeOK
    <3>2. CASE \E r \in Requests : Begin(w, r)
      BY <1>3, <2>2, <3>2 DEF Begin, TypeOK
    <3>3. CASE CheckGap(w)
      <4>1. ~GapRecorded(log, call[w]) /\ call'[w] = call[w]
        BY <1>3, <2>2, <3>3 DEF CheckGap, Return, TypeOK
      <4> QED
        BY <1>3, <2>2, <3>1, <4>1 DEF GapRecorded, GapOf
    <3>4. CASE ReadRecords(w) \/ Guard(w)
      <4>1. pc[w] \in { "read", "guard" } /\ call'[w] = call[w]
        BY <1>3, <2>2, <3>4 DEF ReadRecords, Guard, Return, TypeOK
      <4> QED
        BY <1>3, <2>2, <3>1, <4>1 DEF GapInv, GapOf
    <3> QED
      BY <1>3, <3>1, <3>2, <3>3, <3>4 DEF Emit
  <2> QED
    BY <2>1, <2>2
<1>4. CASE UNCHANGED vars
  BY <1>4 DEF vars, GapInv, GapOncePerWriter, GapOf
<1>5. CASE Next
  BY <1>1, <1>2, <1>3, <1>5 DEF Next, GapInv
<1> QED
  BY <1>4, <1>5

(* Two records of one gap are of two writers that both looked before       *)
(* either wrote, however many there are.                                   *)
THEOREM GapsRecordedOnce == Spec => []GapOncePerWriter
<1>1. Init => GapInv
  BY DEF Init, GapInv, GapOncePerWriter
<1>2. TypeOK /\ GapInv /\ [Next]_vars => GapInv'
  BY GapInvStep
<1>3. GapInv => GapOncePerWriter
  BY DEF GapInv
<1> QED
  BY <1>1, <1>2, <1>3, TypeCorrect, PTL DEF Spec
-----------------------------------------------------------------------------
(* A single writer: what it read is still what the file holds. *)
FreshRead(w) ==
  /\ pc[w] \in {"guard", "append"} =>
       /\ seen[w].lastSeq = LastSeq(log)
       /\ seen[w].dups = DuplicateCount(log, call[w])
  /\ pc[w] = "append" =>
       /\ ~ReentryBlocked(log, call[w])
       /\ seen[w].dups < MaxDuplicates
       /\ seen[w].guarded = Len(log)
  /\ pc[w] \in {"read", "guard", "append"} /\ call[w].type = "CONTRACT_GAP" =>
       ~GapRecorded(log, call[w])

GuardedAtPosition == \A i \in DOMAIN trail : trail[i].guarded = i - 1

SingleInv == /\ \A w \in Writers : FreshRead(w)
             /\ SeqIsPosition
             /\ GuardedAtPosition

(* A step of the writer keeps its knowledge fresh. *)
LEMMA StaysFresh ==
  ASSUME TypeOK, NEW w \in Writers, FreshRead(w), Emit(w)
  PROVE  FreshRead(w)'
<1>1. CASE \E r \in Requests : Begin(w, r)
  BY <1>1 DEF Begin, FreshRead, TypeOK
<1>2. CASE CheckGap(w)
  BY <1>2 DEF CheckGap, Return, FreshRead, TypeOK
<1>3. CASE ReadRecords(w)
  BY <1>3 DEF ReadRecords, FreshRead, TypeOK
<1>4. CASE Guard(w)
  <2>1. pc'[w] = "idle" \/ (seen[w].dups < MaxDuplicates)
    <3>1. seen[w].dups \in Nat /\ MaxDuplicates \in Nat
      BY BusAssumption DEF TypeOK
    <3> QED
      BY <1>4, <3>1 DEF Guard, AtThreshold, Return, TypeOK
  <2> QED
    BY <1>4, <2>1 DEF Guard, Return, FreshRead, TypeOK
<1>5. CASE AppendRecord(w)
  BY <1>5 DEF AppendRecord, Return, FreshRead, TypeOK
<1> QED
  BY <1>1, <1>2, <1>3, <1>4, <1>5 DEF Emit

(* A step of the writer numbers the new record by its position. *)
LEMMA StaysNumbered ==
  ASSUME TypeOK, NEW w \in Writers, FreshRead(w), Emit(w),
         SeqIsPosition, GuardedAtPosition
  PROVE  SeqIsPosition' /\ GuardedAtPosition'
<1>1. CASE AppendRecord(w)
  <2>1. seen[w].lastSeq = Len(log)
    <3>1. seen[w].lastSeq = LastSeq(log) /\ Len(log) \in Nat /\ DOMAIN log = 1..Len(log)
      BY <1>1 DEF AppendRecord, FreshRead, TypeOK
    <3>2. LastSeq(log) = Len(log)
      BY <3>1 DEF LastSeq, SeqIsPosition
    <3> QED
      BY <3>1, <3>2
  <2>2. seen[w].guarded = Len(log)
    BY <1>1 DEF AppendRecord, FreshRead
  <2>3. log' = Append(log, Stamp(call[w], Len(log) + 1))
    BY <1>1, <2>1 DEF AppendRecord
  <2>4. SeqIsPosition'
    BY <2>3 DEF SeqIsPosition, Stamp, TypeOK
  <2>5. GuardedAtPosition'
    <3> DEFINE h == [ by |-> w, guarded |-> seen[w].guarded,
                      reentry |-> call[w].reentry ]
    <3>1. trail' = Append(trail, h) /\ h.guarded = Len(trail)
      BY <1>1, <2>2 DEF AppendRecord, TypeOK
    <3>2. trail \in Seq([by : Writers, guarded : Nat, reentry : BOOLEAN])
      BY DEF TypeOK
    <3>3. \A i \in 1..Len(trail) : trail[i].guarded = i - 1
      BY <3>2 DEF GuardedAtPosition
    <3> HIDE DEF h
    <3>4. /\ DOMAIN trail' = 1..(Len(trail) + 1)
          /\ \A i \in 1..Len(trail) : trail'[i] = trail[i]
          /\ trail'[Len(trail) + 1] = h
          /\ Len(trail) \in Nat
      BY <3>1, <3>2
    <3>5. \A i \in 1..(Len(trail) + 1) : trail'[i].guarded = i - 1
      BY <3>1, <3>3, <3>4
    <3> QED
      BY <3>4, <3>5 DEF GuardedAtPosition
  <2> QED
    BY <2>4, <2>5
<1>2. CASE UNCHANGED << log, trail >>
  BY <1>2 DEF SeqIsPosition, GuardedAtPosition
<1> QED
  BY <1>1, <1>2 DEF Emit, Begin, CheckGap, ReadRecords, Guard

(* What a single writer relies on at first, and after a step: its reads    *)
(* are fresh.                                                              *)
LEMMA InitSingleInv ==
  ASSUME Init
  PROVE  SingleInv
BY DEF Init, SingleInv, FreshRead, SeqIsPosition, GuardedAtPosition

LEMMA SingleInvStep ==
  ASSUME NEW u, Writers = {u}, TypeOK, SingleInv, [Next]_vars
  PROVE  SingleInv'
<1>1. CASE Emit(u)
  BY <1>1, StaysFresh, StaysNumbered DEF SingleInv
<1>2. CASE UNCHANGED vars
  BY <1>2 DEF vars, SingleInv, FreshRead, SeqIsPosition, GuardedAtPosition
<1> QED
  BY <1>1, <1>2 DEF Next

LEMMA SingleWriterInvariant ==
  ASSUME NEW u, Writers = {u}
  PROVE  Spec => []SingleInv
<1>1. TypeOK /\ SingleInv /\ [Next]_vars => SingleInv'
  BY SingleInvStep
<1> QED
  BY InitSingleInv, <1>1, TypeCorrect, PTL DEF Spec

(* A writer that runs alone numbers the events without gap or repetition.  *)
THEOREM SingleWriterSequence ==
  ASSUME NEW u, Writers = {u}
  PROVE  Spec => []SeqIsPosition
<1>1. SingleInv => SeqIsPosition
  BY DEF SingleInv
<1> QED
  BY <1>1, SingleWriterInvariant, PTL

(* A record that would reopen a ticket was written by one who could not    *)
(* have seen it closed, and a single writer sees everything.               *)
LEMMA SingleKeepsClosed ==
  ASSUME TypeOK, SingleInv, ReopenOnlyByRace
  PROVE  NoReopen
<1> SUFFICES ASSUME TypeOK, GuardedAtPosition, ReopenOnlyByRace,
                    NEW i \in DOMAIN log, NEW j \in DOMAIN log, NEW t \in Tickets,
                    Reopens(i, j, t)
             PROVE  FALSE
  BY DEF SingleInv, NoReopen
<1>1. trail[i].guarded < j
  BY DEF ReopenOnlyByRace
<1>2. trail[i].guarded = i - 1 /\ i \in Nat /\ j \in Nat
  <2>1. DOMAIN log = 1..Len(log) /\ DOMAIN trail = 1..Len(log) /\ Len(log) \in Nat
    BY DEF TypeOK
  <2> QED
    BY <2>1 DEF GuardedAtPosition
<1>3. j < i
  BY DEF Reopens
<1> QED
  BY <1>1, <1>2, <1>3

(* A writer that runs alone never reopens a closed ticket. *)
THEOREM SingleWriterKeepsClosed ==
  ASSUME NEW u, Writers = {u}
  PROVE  Spec => []NoReopen
<1>1. TypeOK /\ SingleInv /\ ReopenOnlyByRace => NoReopen
  BY SingleKeepsClosed
<1> QED
  BY <1>1, SingleWriterInvariant, ReopeningIsARace, TypeCorrect, PTL

(* What a single writer has read is what the file holds when it appends.   *)
LEMMA SingleStepIsAtomic ==
  ASSUME NEW u, Writers = {u}, TypeOK, SingleInv, [Next]_vars
  PROVE  [Atomic!Next]_log
<1>1. CASE AppendRecord(u)
  <2>1. Atomic!Emit(call[u])
    <3> DEFINE r == call[u]
    <3>1. /\ ~ReentryBlocked(log, r)
          /\ DuplicateCount(log, r) < MaxDuplicates
          /\ r.type = "CONTRACT_GAP" => ~GapRecorded(log, r)
          /\ log' = Append(log, Stamp(r, LastSeq(log) + 1))
      BY <1>1 DEF AppendRecord, SingleInv, FreshRead
    <3>2. Atomic!ReentryBlocked(log, r) <=> ReentryBlocked(log, r)
      BY DEF ReentryBlocked, ReentryTarget, GuardState, PayloadState, Lookup,
             LastOf, GuardTypes, TerminalStates, WorkStates, TicketState,
             NoState, ReviewOutcome, ApprovalOutcome,
             Atomic!ReentryBlocked, Atomic!ReentryTarget, Atomic!GuardState,
             Atomic!PayloadState, Atomic!Lookup, Atomic!LastOf,
             Atomic!GuardTypes, Atomic!TerminalStates, Atomic!WorkStates,
             Atomic!TicketState, Atomic!NoState, Atomic!ReviewOutcome,
             Atomic!ApprovalOutcome
    <3>3. Atomic!DuplicateCount(log, r) = DuplicateCount(log, r)
      BY DEF DuplicateCount, RecentCopies, SameEvent, Atomic!DuplicateCount,
             Atomic!RecentCopies, Atomic!SameEvent, Cardinality,
             Atomic!Cardinality
    <3>4. Atomic!GapRecorded(log, r) <=> GapRecorded(log, r)
      BY DEF GapRecorded, Atomic!GapRecorded
    <3>5. Atomic!Stamp(r, Atomic!LastSeq(log) + 1) = Stamp(r, LastSeq(log) + 1)
      BY DEF Stamp, LastSeq, Atomic!Stamp, Atomic!LastSeq
    <3>6. DuplicateCount(log, r) \in Nat
      BY CopiesAreFinite DEF TypeOK
    <3> HIDE DEF r
    <3>7. Atomic!Emit(r)
      BY <3>1, <3>2, <3>3, <3>4, <3>5, <3>6, BusAssumption, WriterAssumption
         DEF Atomic!Emit, Atomic!Refused
    <3> QED
      BY <3>7 DEF r
  <2> QED
    BY <1>1, <2>1 DEF AppendRecord, Atomic!Next, TypeOK
<1>2. CASE UNCHANGED log
  BY <1>2
<1> QED
  BY <1>1, <1>2 DEF Next, Emit, Begin, CheckGap, ReadRecords, Guard, vars

(* With a single writer the file accesses of emit implement the atomic     *)
(* bus: each call takes effect, or is refused, in one step.                *)
THEOREM SingleWriterIsAtomic ==
  ASSUME NEW u, Writers = {u}
  PROVE  Spec => EmitIsAtomic
<1>1. Init => Atomic!Init
  BY DEF Init, Atomic!Init
<1>2. TypeOK /\ SingleInv /\ [Next]_vars => [Atomic!Next]_log
  BY SingleStepIsAtomic
<1> QED
  BY <1>1, <1>2, TypeCorrect, SingleWriterInvariant, PTL
     DEF Spec, EmitIsAtomic, Atomic!Spec
=============================================================================
